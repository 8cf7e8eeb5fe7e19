-------------------------- MODULE AgentDefinitions --------------------------
(***************************************************************************)
(* The saved agents of one user (handlers/agents/agents.go): requests that *)
(* create, update and delete them, in a transaction of agents/postgres.go  *)
(* that writes a row of agents and one row of agent_knowledge_bases for    *)
(* each base; requests that run one (RunSaved, handlers/agents/runs.go);   *)
(* and those that delete a knowledge base under them.                      *)
(*                                                                         *)
(* One action is one statement.  Transactions are READ COMMITTED: a        *)
(* statement sees what is committed and what its own transaction has done, *)
(* and waits for the rows that others have written until these end.  The   *)
(* tables are not in the repository's migrations; from how they are used,  *)
(* a row of agent_knowledge_bases refers to both sides and goes with them. *)
(* A deletion takes the row, waiting for it, and then what refers to it.   *)
(*                                                                         *)
(* What a request puts into the row of an agent (name, instructions, model,*)
(* tools, limits) stands for the request.  A process that crashes does to  *)
(* its transaction what a statement that fails does.                       *)
(***************************************************************************)
EXTENDS Naturals, Sequences, FiniteSets

CONSTANTS
    Agents,     \* identifiers of agents
    Bases,      \* knowledge bases of the user
    Writers,    \* requests to create, update or delete an agent
    Runners,    \* requests to run one
    Droppers,   \* requests to delete a knowledge base
    Former,     \* bases attached to the agents that are there at the beginning
    None,       \* no request, no agent; the writer of what is there at the beginning
    Faults      \* the failures the environment may inject

\* "error": a statement fails and has no effect.  "lost": it takes effect, and its
\* caller sees an error.
ASSUME FaultsAssumption == Faults \subseteq {"error", "lost"}
ASSUME FormerAssumption == Former \subseteq Bases
ASSUME RolesAssumption ==
    /\ Writers \cap Runners = {} /\ Writers \cap Droppers = {} /\ Runners \cap Droppers = {}
    /\ None \notin Agents \cup Writers \cup Runners \cup Droppers
    /\ {"unused", "deleted"} \cap (Writers \cup {None}) = {}
ASSUME NoneAssumption == None \notin [by : Writers \cup {None}, bases : SUBSET Bases]

VARIABLES
    agent,      \* the row of each agent: "unused" and "deleted", or the writer it is of
    attached,   \* the committed rows of agent_knowledge_bases: of each agent, the bases
    base,       \* the bases that are there
    asked,      \* the bases each writer in commits asked for (history)
    lock,       \* of each agent, the transaction that has written its row
    request,    \* each request: next step, and what it knows
    commits     \* the writers whose definition was committed, in this order (history)

vars == <<agent, attached, base, asked, lock, request, commits>>

-----------------------------------------------------------------------------

Requests == Writers \cup Runners \cup Droppers
Answers  == {"saved", "done", "rejected", "notfound", "failed", "running"}
Steps    == {"new", "check", "clear", "attach", "readback", "delete",
             "load", "drop", "cascade"} \cup Answers

Item(a) == [by |-> agent[a], bases |-> attached[a]]
Nothing == [by |-> None, bases |-> {}]

\* wants: the bases it asks for.  todo: those it has still to read, to attach or to
\* delete.  removed, added: the rows of agent_knowledge_bases its transaction has
\* deleted and inserted.  found: the agent it has read.
Request(pc, op, a) ==
    [pc |-> pc, op |-> op, agent |-> a, wants |-> {}, todo |-> {}, removed |-> {}, added |-> {},
     found |-> Nothing]

There(a)    == agent[a] \in Writers \cup {None}
Answered(r) == request[r].pc \in Answers

Init ==
    /\ asked = [w \in Writers \cup {None} |-> IF w = None THEN Former ELSE {}]
    /\ agent \in [Agents -> {None, "unused"}]
    /\ attached = [a \in Agents |-> IF agent[a] = None THEN Former ELSE {}]
    /\ base \in SUBSET Bases /\ Former \subseteq base
    /\ lock = [a \in Agents |-> None]
    /\ request = [r \in Requests |-> Request("new", "none", None)]
    /\ commits = << >>

-----------------------------------------------------------------------------
(* How a request ends                                                      *)

Answer(r, answer) == request' = [request EXCEPT ![r] = Request(answer, "none", None)]
AnswerAbout(r, answer, found) ==
    request' = [request EXCEPT ![r] =
                   [Request(answer, "none", @.agent) EXCEPT !.found = found]]
Release(r)        == lock' = [a \in Agents |-> IF lock[a] = r THEN None ELSE lock[a]]
Keep              == UNCHANGED <<agent, attached, base, asked, commits>>

\* Mutant: the transaction is left open.
RollbackForgotten(r) == Answer(r, "failed") /\ Keep /\ UNCHANGED lock

\* Nothing that its transaction did remains.
Rollback(r) == Answer(r, "failed") /\ Keep /\ Release(r)

\* A statement fails.
Fails(r) == "error" \in Faults /\ Rollback(r)

-----------------------------------------------------------------------------
(* Create and Update                                                       *)

\* An identifier for a new agent, and one that somebody may know.
Fresh(a) == agent[a] = "unused" /\ \A r \in Requests : request[r].agent # a
Known(a) == agent[a] # "unused"

StartWrite(w) ==
    /\ request[w].pc = "new"
    /\ \E a \in Agents, bases \in SUBSET Bases :
          /\ Fresh(a) \/ Known(a)
          /\ request' = [request EXCEPT ![w] =
                            [Request("check", IF Fresh(a) THEN "create" ELSE "update", a)
                                EXCEPT !.wants = bases, !.todo = bases]]
    /\ Keep /\ UNCHANGED lock

\* GetKnowledgeBase, for each base in turn.
CheckBase(w) ==
    /\ request[w].pc = "check"
    /\ \E b \in request[w].todo \cap base :
          request' = [request EXCEPT ![w].todo = @ \ {b}]
    /\ Keep /\ UNCHANGED lock

\* Something in the request is not valid or not there.
RefuseWrite(w) ==
    /\ request[w].pc = "check"
    /\ Answer(w, "rejected")
    /\ Keep /\ UNCHANGED lock

\* Mutants: the row is not locked; it is written outside the transaction.
WriteRowUnlocked(w) ==
    LET a == request[w].agent IN
    /\ request[w].pc = "check" /\ request[w].todo = {}
    /\ lock' = [lock EXCEPT ![a] = w]
    /\ request' = [request EXCEPT ![w] = [@ EXCEPT !.pc = "clear", !.todo = request[w].wants]]
    /\ Keep
WriteRowAtOnce(w) ==
    LET a == request[w].agent IN
    /\ request[w].pc = "check" /\ request[w].todo = {}
    /\ lock[a] = None
    /\ lock' = [lock EXCEPT ![a] = w]
    /\ agent' = [agent EXCEPT ![a] = w]
    /\ request' = [request EXCEPT ![w] = [@ EXCEPT !.pc = "clear", !.todo = request[w].wants]]
    /\ UNCHANGED <<attached, base, asked, commits>>

\* The credential is there, and the transaction begins: the row is inserted, or updated
\* when no other transaction holds it, if there is one then.
WriteRow(w) ==
    LET a == request[w].agent IN
    /\ request[w].pc = "check" /\ request[w].todo = {}
    /\ lock[a] = None
    /\ \/ /\ agent[a] # "deleted"
          /\ lock' = [lock EXCEPT ![a] = w]
          /\ request' = [request EXCEPT ![w] = [@ EXCEPT !.pc = "clear", !.todo = request[w].wants]]
          /\ Keep
       \/ /\ agent[a] = "deleted"
          /\ AnswerAbout(w, "notfound", Nothing)
          /\ Keep /\ UNCHANGED lock
       \/ Fails(w)

\* Mutant: the old rows stay.
ClearBasesForgotten(w) ==
    /\ request[w].pc = "clear"
    /\ request' = [request EXCEPT ![w].pc = "attach"]
    /\ Keep /\ UNCHANGED lock

\* The rows of agent_knowledge_bases that the statement sees are deleted.
ClearBases(w) ==
    /\ request[w].pc = "clear"
    /\ \/ /\ request' = [request EXCEPT ![w].pc = "attach",
                                        ![w].removed = attached[request[w].agent]]
          /\ Keep /\ UNCHANGED lock
       \/ Fails(w)

\* A request is about to delete the row of b.
Dropping(b) == \E d \in Droppers : request[d].pc = "cascade" /\ b \in request[d].todo

\* The next row is inserted.  Its base is locked against deletion from then on; if it
\* is being deleted, that is waited for, and if it is gone, the row is refused.
AttachBase(w) ==
    /\ request[w].pc = "attach"
    /\ \E b \in request[w].todo :
          /\ ~Dropping(b)
          /\ \/ /\ b \in base
                /\ request' = [request EXCEPT ![w].todo = @ \ {b}, ![w].added = @ \cup {b}]
                /\ Keep /\ UNCHANGED lock
             \/ b \notin base /\ Rollback(w)
             \/ Fails(w)

\* What the transaction has done becomes visible.
Publish(w) ==
    LET a == request[w].agent IN
    /\ agent' = [agent EXCEPT ![a] = w]
    /\ attached' = [attached EXCEPT ![a] = (@ \ request[w].removed) \cup request[w].added]
    /\ asked' = [asked EXCEPT ![w] = request[w].wants]
    /\ commits' = Append(commits, w)
    /\ Release(w)
    /\ UNCHANGED base

\* Mutant: the error of the commit is ignored.
CommitUnchecked(w) ==
    /\ request[w].pc = "attach" /\ request[w].todo = {}
    /\ \/ Publish(w) /\ request' = [request EXCEPT ![w] = Request("readback", @.op, @.agent)]
       \/ /\ request' = [request EXCEPT ![w] = Request("readback", @.op, @.agent)]
          /\ Keep /\ Release(w)

Commit(w) ==
    /\ request[w].pc = "attach" /\ request[w].todo = {}
    /\ \/ Publish(w) /\ request' = [request EXCEPT ![w] = Request("readback", @.op, @.agent)]
       \/ "lost" \in Faults /\ Publish(w) /\ Answer(w, "failed")
       \/ Fails(w)

\* GetAgent, after the transaction; Create takes every error of it for a failure.
ReadBack(w) ==
    /\ request[w].pc = "readback"
    /\ \/ There(request[w].agent) /\ AnswerAbout(w, "saved", Item(request[w].agent)) /\ Keep /\ UNCHANGED lock
       \/ /\ ~There(request[w].agent)
          /\ \/ request[w].op = "update" /\ AnswerAbout(w, "notfound", Nothing)
             \/ request[w].op = "create" /\ Answer(w, "failed")
          /\ Keep /\ UNCHANGED lock
       \/ Fails(w)

-----------------------------------------------------------------------------
(* Delete                                                                  *)

StartDelete(w) ==
    /\ request[w].pc = "new"
    /\ \E a \in Agents :
          Known(a) /\ request' = [request EXCEPT ![w] = Request("delete", "delete", a)]
    /\ Keep /\ UNCHANGED lock

\* The row goes, with its rows of agent_knowledge_bases, when no transaction holds it.
DeleteAgent(w) ==
    LET a == request[w].agent IN
    /\ request[w].pc = "delete"
    /\ lock[a] = None
    /\ \/ /\ There(a)
          /\ agent' = [agent EXCEPT ![a] = "deleted"]
          /\ attached' = [attached EXCEPT ![a] = {}]
          /\ \/ Answer(w, "done")
             \/ "lost" \in Faults /\ Answer(w, "failed")
          /\ UNCHANGED <<base, asked, lock, commits>>
       \/ ~There(a) /\ AnswerAbout(w, "notfound", Nothing) /\ Keep /\ UNCHANGED lock
       \/ Fails(w)

-----------------------------------------------------------------------------
(* RunSaved, up to the start of the run                                    *)

\* GetAgent: the row and its bases in one statement.
ReadAgent(r) ==
    /\ request[r].pc = "new"
    /\ \E a \in Agents :
          /\ Known(a)
          /\ \/ /\ There(a)
                /\ request' = [request EXCEPT ![r] =
                      [Request("load", "run", a) EXCEPT !.todo = attached[a], !.found = Item(a)]]
             \/ ~There(a) /\ request' = [request EXCEPT ![r] = Request("notfound", "run", a)]
    /\ Keep /\ UNCHANGED lock

\* loadKnowledgeBases, one after the other.
LoadBase(r) ==
    /\ request[r].pc = "load"
    /\ \E b \in request[r].todo \cap base :
          request' = [request EXCEPT ![r].todo = @ \ {b}]
    /\ Keep /\ UNCHANGED lock

\* A base is gone, a statement fails, or the conversation cannot be loaded.
RefuseRun(r) ==
    /\ request[r].pc = "load"
    /\ Answer(r, "rejected")
    /\ Keep /\ UNCHANGED lock

\* ValidateRunConfig, and the run begins with what was read.
StartRun(r) ==
    /\ request[r].pc = "load" /\ request[r].todo = {}
    /\ request' = [request EXCEPT ![r].pc = "running"]
    /\ Keep /\ UNCHANGED lock

-----------------------------------------------------------------------------
(* DeleteKnowledgeBase                                                     *)

StartDrop(d) ==
    /\ request[d].pc = "new"
    /\ \E b \in Bases :
          request' = [request EXCEPT ![d] = [Request("drop", "drop", None) EXCEPT !.todo = {b}]]
    /\ Keep /\ UNCHANGED lock

\* The row of the base is taken, when no other deletion and no new reference holds it.
LockBase(d) ==
    /\ request[d].pc = "drop"
    /\ \A b \in request[d].todo :
          ~Dropping(b) /\ \A w \in Writers : b \notin request[w].added
    /\ \/ /\ request[d].todo \subseteq base
          /\ request' = [request EXCEPT ![d].pc = "cascade"]
          /\ Keep /\ UNCHANGED lock
       \/ /\ ~(request[d].todo \subseteq base)
          /\ Answer(d, "notfound")
          /\ Keep /\ UNCHANGED lock
       \/ Fails(d)

\* So are the rows that refer to it, unless a transaction has deleted some of them.
Cascade(d) ==
    /\ request[d].pc = "cascade"
    /\ \A w \in Writers : request[d].todo \cap request[w].removed = {}
    /\ \/ /\ base' = base \ request[d].todo
          /\ attached' = [a \in Agents |-> attached[a] \ request[d].todo]
          /\ \/ Answer(d, "done")
             \/ "lost" \in Faults /\ Answer(d, "failed")
          /\ UNCHANGED <<agent, asked, lock, commits>>
       \/ Fails(d)

-----------------------------------------------------------------------------
(* The database and the processes                                          *)

\* The requests that r waits for.
WaitsFor(r) ==
    LET q == request[r] IN
    CASE q.pc = "delete" \/ (q.pc = "check" /\ q.todo = {}) -> {lock[q.agent]} \ {None}
      [] q.pc = "attach" ->
            {d \in Droppers : request[d].pc = "cascade" /\ q.todo \cap request[d].todo # {}}
      [] q.pc = "drop" ->
            {w \in Writers : q.todo \cap request[w].added # {}}
               \cup {d \in Droppers : request[d].pc = "cascade" /\ q.todo = request[d].todo}
      [] q.pc = "cascade" -> {w \in Writers : q.todo \cap request[w].removed # {}}
      [] OTHER -> {}

\* Each of them waits for another one of them, and is waited for.
Deadlocked(knot) ==
    /\ knot # {}
    /\ \A r \in knot : WaitsFor(r) \cap knot # {} /\ \E q \in knot : r \in WaitsFor(q)

\* PostgreSQL looks for deadlocks and lets a statement in one fail.
BreakDeadlock ==
    \E knot \in SUBSET {r \in Requests : WaitsFor(r) # {}} :
        Deadlocked(knot) /\ \E r \in knot : Rollback(r)

Start(r) ==
    \/ r \in Writers /\ (StartWrite(r) \/ StartDelete(r))
    \/ r \in Runners /\ ReadAgent(r)
    \/ r \in Droppers /\ StartDrop(r)

Continue(r) ==
    \/ r \in Writers /\ \/ CheckBase(r) \/ RefuseWrite(r)
                        \/ WriteRow(r) \/ ClearBases(r) \/ AttachBase(r) \/ Commit(r) \/ ReadBack(r)
                        \/ DeleteAgent(r)
    \/ r \in Runners /\ (LoadBase(r) \/ RefuseRun(r) \/ StartRun(r))
    \/ r \in Droppers /\ (LockBase(r) \/ Cascade(r))

Next ==
    \/ \E r \in Requests : Start(r) \/ Continue(r)
    \/ BreakDeadlock

Spec == Init /\ [][Next]_vars

\* Requests go on, and the database finds deadlocks.  Nobody has to make a request.
FairSpec == Spec /\ WF_vars(BreakDeadlock) /\ \A r \in Requests : WF_vars(Continue(r))

-----------------------------------------------------------------------------
(* Properties                                                              *)

\* Types; and a transaction that has written the row of an agent holds it alone, until
\* it ends.
TypeOK ==
    /\ agent \in [Agents -> {"unused", "deleted", None} \cup Writers]
    /\ attached \in [Agents -> SUBSET Bases]
    /\ base \subseteq Bases
    /\ asked \in [Writers \cup {None} -> SUBSET Bases]
    /\ lock \in [Agents -> Writers \cup {None}]
    /\ request \in [Requests -> [pc : Steps,
                                 op : {"none", "create", "update", "delete", "run", "drop"},
                                 agent : Agents \cup {None}, wants : SUBSET Bases,
                                 todo : SUBSET Bases, removed : SUBSET Bases, added : SUBSET Bases,
                                 found : [by : Writers \cup {None}, bases : SUBSET Bases]]]
    /\ commits \in Seq(Writers)
    /\ \A w \in Writers :
          request[w].pc \in {"clear", "attach"}
              <=> request[w].agent \in Agents /\ lock[request[w].agent] = w

Registry ==
    INSTANCE AgentRegistry WITH
        registry <- [a \in Agents |-> IF There(a) THEN Item(a) ELSE None],
        live     <- base

\* Whatever overlaps, fails, is lost or crashes, an agent is always, as a whole, what
\* one request asked for, without the bases that are gone, and it refers to none that
\* is gone: row, join rows and foreign keys never tell two stories.
ImplementsRegistry == Registry!Spec

\* A run is configured by one request: the bases it may search are all those its
\* definition asked for but those gone since, and its tools are of the same request.
RunConfigured ==
    \A r \in Runners :
        request[r].pc = "running" =>
            LET found == request[r].found
            IN  /\ found.bases \subseteq asked[found.by]
                /\ asked[found.by] \cap base \subseteq found.bases

\* What a request is told is so.  A create or an update that succeeds was committed, and
\* shows its own definition or one committed after it; one that was rejected was not.
\* "Agent not found" is only said of an agent that will not be there again.
AnswersTrue ==
    /\ \A w \in Writers :
          /\ request[w].pc = "saved" =>
                \E i, j \in DOMAIN commits :
                    i <= j /\ commits[i] = w /\ commits[j] = request[w].found.by
          /\ request[w].pc = "rejected" => \A i \in DOMAIN commits : commits[i] # w
    /\ \A r \in Requests :
          request[r].pc = "notfound" /\ request[r].agent # None =>
              agent[request[r].agent] = "deleted"

Unanswered == {r \in Requests : request[r].pc # "new" /\ ~Answered(r)}

\* Every request that was made is answered (none is made twice): none waits for ever,
\* neither for a transaction that is left open nor for one that waits for it.
EveryoneAnswered == Unanswered # {} ~> Unanswered = {}

=============================================================================
