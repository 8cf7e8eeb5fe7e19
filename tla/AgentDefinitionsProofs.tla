----------------------- MODULE AgentDefinitionsProofs -----------------------
(***************************************************************************)
(* Theorems about AgentDefinitions for every set of agents, bases and      *)
(* requests and every combination of faults.                               *)
(***************************************************************************)
EXTENDS AgentDefinitions, TLAPS

-----------------------------------------------------------------------------
(* The invariant                                                           *)

\* A request that is about an agent has its identifier.
AgentsKnown ==
    \A r \in Requests :
        request[r].pc \in {"check", "clear", "attach", "readback", "delete", "load"} =>
            request[r].agent \in Agents

\* Whoever holds the row of an agent is writing this agent.
LocksHeld ==
    \A a \in Agents :
        lock[a] # None =>
            /\ request[lock[a]].pc \in {"clear", "attach"}
            /\ request[lock[a]].agent = a

TypeInv == TypeOK /\ AgentsKnown /\ LocksHeld

\* What a writer has attached and has still to attach is what it wants, and nothing is
\* attached to its agent any more that it has not deleted.
Collected ==
    \A w \in Writers :
        /\ request[w].pc \in {"check", "clear"} => request[w].added = {}
        /\ request[w].pc = "clear" => request[w].todo = request[w].wants
        /\ request[w].pc = "attach" =>
              /\ request[w].added \cup request[w].todo = request[w].wants
              /\ attached[request[w].agent] \subseteq request[w].removed

\* A base that a transaction has attached stays until this has ended: nobody is deleting
\* its row.
BasesHeld ==
    \A w \in Writers :
        /\ request[w].added \subseteq base
        /\ \A d \in Droppers :
              request[d].pc = "cascade" => request[d].todo \cap request[w].added = {}

\* A deletion of a base is of one base.
DropsOne ==
    \A d \in Droppers :
        request[d].pc \in {"drop", "cascade"} => \E b \in Bases : request[d].todo = {b}

TransInv == Collected /\ BasesHeld /\ DropsOne

\* Nobody has seen the definition of a writer that has not committed.
Unseen ==
    \A w \in Writers :
        request[w].pc \in {"new", "check", "clear", "attach"} =>
            /\ \A a \in Agents : agent[a] # w
            /\ \A r \in Requests : request[r].found.by # w

\* An agent, and what a run has read of it, has the bases its writer asked for, but for
\* those that are gone.
Faithful(by, bases) == bases \subseteq asked[by] /\ asked[by] \cap base \subseteq bases

DefinitionsAsked == \A a \in Agents : There(a) => Faithful(agent[a], attached[a])
RunsAsked ==
    \A r \in Runners :
        request[r].pc \in {"load", "running"} =>
            Faithful(request[r].found.by, request[r].found.bases)

ConfigInv == Unseen /\ DefinitionsAsked /\ RunsAsked

\* Agents that are being written are not deleted; those that are read back or deleted
\* have been there.
Alive ==
    /\ \A w \in Writers : request[w].pc \in {"clear", "attach"} => agent[request[w].agent] # "deleted"
    /\ \A r \in Requests : request[r].pc \in {"readback", "delete"} => agent[request[r].agent] # "unused"

Logged(w)   == \E i \in DOMAIN commits : commits[i] = w
Since(w, v) == \E i, j \in DOMAIN commits : i <= j /\ commits[i] = w /\ commits[j] = v

\* Writers that have not come to their commit, or were refused, are not in the log; one
\* that reads back is, and what is there now is at least as late.
LogInv ==
    \A w \in Writers :
        /\ request[w].pc \in {"new", "check", "clear", "attach", "rejected"} => ~Logged(w)
        /\ request[w].pc = "readback" =>
              agent[request[w].agent] = "deleted" \/ Since(w, agent[request[w].agent])

AnswerInv == Alive /\ LogInv /\ AnswersTrue

-----------------------------------------------------------------------------
(* Types                                                                   *)

RequestType ==
    [pc : Steps, op : {"none", "create", "update", "delete", "run", "drop"},
     agent : Agents \cup {None}, wants : SUBSET Bases, todo : SUBSET Bases,
     removed : SUBSET Bases, added : SUBSET Bases,
     found : [by : Writers \cup {None}, bases : SUBSET Bases]]

LEMMA TypeInit == Init => TypeInv
<1> SUFFICES ASSUME Init PROVE TypeInv
  OBVIOUS
<1>1. Request("new", "none", None) \in RequestType
  BY DEF Request, Nothing, RequestType, Steps
<1>2. request \in [Requests -> RequestType]
  BY <1>1 DEF Init
<1>3. \A r \in Requests : request[r].pc = "new"
  BY DEF Init, Request
<1>4. commits \in Seq(Writers)
  BY DEF Init
<1>5. agent \in [Agents -> {"unused", "deleted", None} \cup Writers]
  BY DEF Init
<1>6. /\ attached \in [Agents -> SUBSET Bases]
      /\ base \subseteq Bases
      /\ asked \in [Writers \cup {None} -> SUBSET Bases]
      /\ lock \in [Agents -> Writers \cup {None}]
      /\ \A a \in Agents : lock[a] = None
  BY FormerAssumption DEF Init
<1>7. \A w \in Writers : lock[request[w].agent] = w => request[w].agent \notin Agents
  BY <1>6, RolesAssumption
<1>8. TypeOK
  BY <1>2, <1>3, <1>4, <1>5, <1>6, <1>7 DEF TypeOK, RequestType, Requests
<1>9. AgentsKnown /\ LocksHeld
  BY <1>3, <1>6 DEF AgentsKnown, LocksHeld
<1> QED BY <1>8, <1>9 DEF TypeInv

\* A request that goes on to q, while nobody's lock changes: q is of the right type and,
\* if it is a writer's, holds a row exactly if it did.
LEMMA TypeGoOn ==
    ASSUME TypeInv, NEW r \in Requests, NEW q \in RequestType,
           request' = [request EXCEPT ![r] = q], UNCHANGED <<lock, asked, commits>>,
           agent' \in [Agents -> {"unused", "deleted", None} \cup Writers],
           attached' \in [Agents -> SUBSET Bases], base' \subseteq Bases,
           q.pc \in {"check", "clear", "attach", "readback", "delete", "load"} => q.agent \in Agents,
           r \in Writers => (q.pc \in {"clear", "attach"} <=> request[r].pc \in {"clear", "attach"}),
           r \in Writers /\ q.pc \in {"clear", "attach"} => q.agent = request[r].agent
    PROVE  TypeInv'
<1> USE DEF TypeInv
<1>1. request' \in [Requests -> RequestType]
  BY DEF TypeOK, RequestType
<1>2. \A p \in Requests : request'[p] = IF p = r THEN q ELSE request[p]
  BY DEF TypeOK
<1>3. AgentsKnown'
  BY <1>2 DEF AgentsKnown
<1>4. LocksHeld'
  <2> SUFFICES ASSUME NEW a \in Agents, lock[a] # None
               PROVE  /\ request'[lock[a]].pc \in {"clear", "attach"}
                      /\ request'[lock[a]].agent = a
    BY DEF LocksHeld
  <2>1. lock[a] \in Writers /\ lock[a] \in Requests
    BY DEF TypeOK, Requests
  <2> QED BY <1>2, <2>1 DEF LocksHeld
<1>5. ASSUME NEW w \in Writers
      PROVE  request'[w].pc \in {"clear", "attach"}
                 <=> request'[w].agent \in Agents /\ lock[request'[w].agent] = w
  <2>1. w \in Requests
    BY DEF Requests
  <2>2. CASE w # r
    BY <1>2, <2>1, <2>2 DEF TypeOK
  <2>3. CASE w = r
    <3>1. CASE q.pc \in {"clear", "attach"}
      BY <1>2, <2>3, <3>1 DEF TypeOK
    <3>2. CASE q.pc \notin {"clear", "attach"}
      <4>1. \A a \in Agents : lock[a] # w
        BY <2>3, <3>2, RolesAssumption DEF LocksHeld, TypeOK
      <4> QED BY <1>2, <2>3, <3>2, <4>1
    <3> QED BY <3>1, <3>2
  <2> QED BY <2>2, <2>3
<1>6. TypeOK'
  BY <1>1, <1>5 DEF TypeOK, RequestType
<1> QED BY <1>3, <1>4, <1>6

\* A transaction that ends, and releases its row.
LEMMA TypeRelease ==
    ASSUME TypeInv, NEW r \in Requests, NEW q \in RequestType,
           request' = [request EXCEPT ![r] = q], Release(r),
           agent' \in [Agents -> {"unused", "deleted", None} \cup Writers],
           attached' \in [Agents -> SUBSET Bases], base' \subseteq Bases,
           asked' \in [Writers \cup {None} -> SUBSET Bases], commits' \in Seq(Writers),
           q.pc \notin {"check", "clear", "attach", "delete", "load"},
           q.pc = "readback" => q.agent \in Agents
    PROVE  TypeInv'
<1> USE DEF TypeInv
<1>1. request' \in [Requests -> RequestType]
  BY DEF TypeOK, RequestType
<1>2. \A p \in Requests : request'[p] = IF p = r THEN q ELSE request[p]
  BY DEF TypeOK
<1>3. AgentsKnown'
  BY <1>2 DEF AgentsKnown
<1>4. /\ lock' \in [Agents -> Writers \cup {None}]
      /\ \A a \in Agents : lock'[a] = IF lock[a] = r THEN None ELSE lock[a]
  BY DEF Release, TypeOK
<1>5. LocksHeld'
  <2> SUFFICES ASSUME NEW a \in Agents, lock'[a] # None
               PROVE  /\ request'[lock'[a]].pc \in {"clear", "attach"}
                      /\ request'[lock'[a]].agent = a
    BY DEF LocksHeld
  <2>1. lock'[a] = lock[a] /\ lock[a] # r /\ lock[a] \in Requests
    BY <1>4 DEF TypeOK, Requests
  <2> QED BY <1>2, <2>1 DEF LocksHeld
<1>6. ASSUME NEW w \in Writers
      PROVE  request'[w].pc \in {"clear", "attach"}
                 <=> request'[w].agent \in Agents /\ lock'[request'[w].agent] = w
  <2>1. w \in Requests /\ w # None
    BY RolesAssumption DEF Requests
  <2>2. CASE w # r
    BY <1>2, <1>4, <2>1, <2>2 DEF TypeOK
  <2>3. CASE w = r
    BY <1>2, <1>4, <2>1, <2>3
  <2> QED BY <2>2, <2>3
<1>7. TypeOK'
  BY <1>1, <1>4, <1>6 DEF TypeOK, RequestType
<1> QED BY <1>3, <1>5, <1>7

LEMMA RequestTyped ==
    ASSUME NEW pc \in Steps, NEW op \in {"none", "create", "update", "delete", "run", "drop"},
           NEW a \in Agents \cup {None}
    PROVE  Request(pc, op, a) \in RequestType
BY DEF Request, RequestType, Nothing

LEMMA TypeAnswer ==
    ASSUME TypeInv, NEW r \in Requests, NEW answer \in Answers, Answer(r, answer), Keep,
           \/ Release(r)
           \/ UNCHANGED lock /\ (r \in Writers => request[r].pc \notin {"clear", "attach"})
    PROVE  TypeInv'
<1> DEFINE q == Request(answer, "none", None)
<1>1. q \in RequestType
  BY RequestTyped DEF Steps
<1>2. q.pc = answer /\ q.pc \in Answers
  BY DEF Request
<1>3. q.pc \notin {"check", "clear", "attach", "delete", "load", "readback"}
  BY <1>2 DEF Answers
<1>4. request' = [request EXCEPT ![r] = q]
  BY DEF Answer
<1> HIDE DEF q
<1>5. CASE Release(r)
  BY <1>1, <1>3, <1>4, <1>5, TypeRelease DEF Keep, TypeInv, TypeOK
<1>6. CASE UNCHANGED lock /\ (r \in Writers => request[r].pc \notin {"clear", "attach"})
  BY <1>1, <1>3, <1>4, <1>6, TypeGoOn DEF Keep, TypeInv, TypeOK
<1> QED BY <1>5, <1>6

LEMMA TypeRollback ==
    ASSUME TypeInv, NEW r \in Requests, Rollback(r)
    PROVE  TypeInv'
<1>1. "failed" \in Answers
  BY DEF Answers
<1> QED BY <1>1, TypeAnswer DEF Rollback

LEMMA TypeAnswerAbout ==
    ASSUME TypeInv, NEW r \in Requests, request[r].pc \notin {"clear", "attach"},
           NEW answer \in Answers, Keep, UNCHANGED lock,
           NEW found \in [by : Writers \cup {None}, bases : SUBSET Bases],
           AnswerAbout(r, answer, found)
    PROVE  TypeInv'
<1> DEFINE q == [Request(answer, "none", request[r].agent) EXCEPT !.found = found]
<1>1. request[r].agent \in Agents \cup {None}
  BY DEF TypeInv, TypeOK
<1>2. Request(answer, "none", request[r].agent) \in RequestType
  BY <1>1, RequestTyped DEF Steps
<1>3. q \in RequestType /\ q.pc = answer
  BY <1>2 DEF RequestType, Request
<1>4. q.pc \notin {"check", "clear", "attach", "delete", "load", "readback"}
  BY <1>3 DEF Answers
<1>5. request' = [request EXCEPT ![r] = q]
  BY DEF AnswerAbout
<1> HIDE DEF q
<1> QED BY <1>3, <1>4, <1>5, TypeGoOn DEF Keep, TypeInv, TypeOK

LEMMA ItemTyped ==
    ASSUME TypeOK, NEW a \in Agents, There(a)
    PROVE  Item(a) \in [by : Writers \cup {None}, bases : SUBSET Bases]
BY DEF TypeOK, There, Item

LEMMA TypeStart ==
    ASSUME TypeInv, NEW r \in Requests, Start(r)
    PROVE  TypeInv'
<1> USE DEF TypeInv
<1>1. CASE r \in Writers /\ StartWrite(r)
  <2>1. PICK a \in Agents, bases \in SUBSET Bases :
           request' = [request EXCEPT ![r] =
               [Request("check", IF Fresh(a) THEN "create" ELSE "update", a)
                   EXCEPT !.wants = bases, !.todo = bases]]
    BY <1>1 DEF StartWrite
  <2> DEFINE q == [Request("check", IF Fresh(a) THEN "create" ELSE "update", a)
                      EXCEPT !.wants = bases, !.todo = bases]
  <2>2. Request("check", IF Fresh(a) THEN "create" ELSE "update", a) \in RequestType
    BY RequestTyped DEF Steps
  <2>3. q \in RequestType /\ q.pc = "check" /\ q.agent = a
    BY <2>2 DEF RequestType, Request
  <2>4. request[r].pc = "new"
    BY <1>1 DEF StartWrite
  <2>5. request' = [request EXCEPT ![r] = q]
    BY <2>1
  <2> HIDE DEF q
  <2> QED BY <1>1, <2>3, <2>4, <2>5, TypeGoOn DEF StartWrite, Keep, TypeOK
<1>2. CASE r \in Writers /\ StartDelete(r)
  <2>1. PICK a \in Agents : request' = [request EXCEPT ![r] = Request("delete", "delete", a)]
    BY <1>2 DEF StartDelete
  <2> DEFINE q == Request("delete", "delete", a)
  <2>2. q \in RequestType
    BY RequestTyped DEF Steps
  <2>3. q.pc = "delete" /\ q.agent = a
    BY DEF Request
  <2>4. request[r].pc = "new"
    BY <1>2 DEF StartDelete
  <2> HIDE DEF q
  <2> QED BY <1>2, <2>1, <2>2, <2>3, <2>4, TypeGoOn DEF StartDelete, Keep, TypeOK, q
<1>3. CASE r \in Runners /\ ReadAgent(r)
  <2>0. r \notin Writers
    BY <1>3, RolesAssumption
  <2>1. PICK a \in Agents :
           \/ /\ There(a)
              /\ request' = [request EXCEPT ![r] =
                    [Request("load", "run", a) EXCEPT !.todo = attached[a], !.found = Item(a)]]
           \/ request' = [request EXCEPT ![r] = Request("notfound", "run", a)]
    BY <1>3 DEF ReadAgent
  <2>2. CASE request' = [request EXCEPT ![r] = Request("notfound", "run", a)]
    <3> DEFINE q == Request("notfound", "run", a)
    <3>1. q \in RequestType
      BY RequestTyped DEF Steps, Answers
    <3>2. q.pc = "notfound"
      BY DEF Request
    <3> HIDE DEF q
    <3> QED BY <1>3, <2>0, <2>2, <3>1, <3>2, TypeGoOn DEF ReadAgent, Keep, TypeOK, q
  <2>3. CASE /\ There(a)
             /\ request' = [request EXCEPT ![r] =
                   [Request("load", "run", a) EXCEPT !.todo = attached[a], !.found = Item(a)]]
    <3> DEFINE q == [Request("load", "run", a) EXCEPT !.todo = attached[a], !.found = Item(a)]
    <3>1. Request("load", "run", a) \in RequestType
      BY RequestTyped DEF Steps
    <3>2. attached[a] \in SUBSET Bases
      BY DEF TypeOK
    <3>3. Item(a) \in [by : Writers \cup {None}, bases : SUBSET Bases]
      BY <2>3, ItemTyped
    <3>4. q \in RequestType /\ q.pc = "load" /\ q.agent = a
      BY <3>1, <3>2, <3>3 DEF RequestType, Request
    <3> HIDE DEF q
    <3> QED BY <1>3, <2>0, <2>3, <3>4, TypeGoOn DEF ReadAgent, Keep, TypeOK, q
  <2> QED BY <2>1, <2>2, <2>3
<1>4. CASE r \in Droppers /\ StartDrop(r)
  <2>0. r \notin Writers
    BY <1>4, RolesAssumption
  <2>1. PICK b \in Bases :
           request' = [request EXCEPT ![r] = [Request("drop", "drop", None) EXCEPT !.todo = {b}]]
    BY <1>4 DEF StartDrop
  <2> DEFINE q == [Request("drop", "drop", None) EXCEPT !.todo = {b}]
  <2>2. Request("drop", "drop", None) \in RequestType
    BY RequestTyped DEF Steps
  <2>3. q \in RequestType /\ q.pc = "drop"
    BY <2>2 DEF RequestType, Request
  <2> HIDE DEF q
  <2> QED BY <1>4, <2>0, <2>1, <2>3, TypeGoOn DEF StartDrop, Keep, TypeOK, q
<1> QED BY <1>1, <1>2, <1>3, <1>4 DEF Start

\* A request that only goes on to another step, with other things to do.
LEMMA TypeStays ==
    ASSUME TypeInv, NEW r \in Requests, Keep, UNCHANGED lock,
           NEW q \in RequestType, request' = [request EXCEPT ![r] = q],
           q.agent = request[r].agent,
           q.pc = request[r].pc \/ (q.pc = "attach" /\ request[r].pc = "clear")
               \/ (q.pc \in {"running", "cascade"} /\ r \notin Writers)
    PROVE  TypeInv'
<1>1. q.pc \in {"check", "clear", "attach", "readback", "delete", "load"} => q.agent \in Agents
  BY DEF TypeInv, AgentsKnown
<1>2. r \in Writers => (q.pc \in {"clear", "attach"} <=> request[r].pc \in {"clear", "attach"})
  OBVIOUS
<1> QED BY <1>1, <1>2, TypeGoOn DEF Keep, TypeInv, TypeOK

\* The parts of a request.
LEMMA RequestParts ==
    ASSUME TypeOK, NEW r \in Requests
    PROVE  /\ request[r] \in RequestType
           /\ request[r].pc \in Steps /\ request[r].agent \in Agents \cup {None}
           /\ request[r].wants \subseteq Bases /\ request[r].todo \subseteq Bases
           /\ request[r].removed \subseteq Bases /\ request[r].added \subseteq Bases
BY DEF TypeOK, RequestType

LEMMA TypeCheck ==
    ASSUME TypeInv, NEW r \in Requests, CheckBase(r) \/ LoadBase(r)
    PROVE  TypeInv'
<1>1. PICK b \in Bases : request' = [request EXCEPT ![r].todo = @ \ {b}]
  <2>1. request[r].todo \subseteq Bases
    BY RequestParts DEF TypeInv
  <2> QED BY <2>1 DEF CheckBase, LoadBase
<1> DEFINE q == [request[r] EXCEPT !.todo = @ \ {b}]
<1>2. q \in RequestType /\ q.pc = request[r].pc /\ q.agent = request[r].agent
  BY RequestParts DEF TypeInv, RequestType
<1>3. request' = [request EXCEPT ![r] = q]
  BY <1>1
<1> HIDE DEF q
<1> QED BY <1>2, <1>3, TypeStays DEF CheckBase, LoadBase

LEMMA TypeWriteRow ==
    ASSUME TypeInv, NEW w \in Writers, WriteRow(w)
    PROVE  TypeInv'
<1> DEFINE a == request[w].agent
           q == [request[w] EXCEPT !.pc = "clear", !.todo = request[w].wants]
<1>0. w \in Requests /\ w # None /\ request[w].pc = "check" /\ a \in Agents /\ lock[a] = None
  BY RolesAssumption DEF WriteRow, Requests, TypeInv, AgentsKnown
<1>1. CASE AnswerAbout(w, "notfound", Nothing) /\ Keep /\ UNCHANGED lock
  <2>1. "notfound" \in Answers /\ Nothing \in [by : Writers \cup {None}, bases : SUBSET Bases]
    BY DEF Answers, Nothing
  <2> QED BY <1>0, <1>1, <2>1, TypeAnswerAbout
<1>2. CASE Fails(w)
  BY <1>0, <1>2, TypeRollback DEF Fails
<1>3. CASE lock' = [lock EXCEPT ![a] = w] /\ request' = [request EXCEPT ![w] = q] /\ Keep
  <2> USE DEF TypeInv
  <2>1. q \in RequestType /\ q.pc = "clear" /\ q.agent = a
    BY <1>0, RequestParts DEF RequestType, Steps
  <2>2. request' = [request EXCEPT ![w] = q]
    BY <1>3
  <2> HIDE DEF q
  <2>3. \A p \in Requests : request'[p] = IF p = w THEN q ELSE request[p]
    BY <2>2 DEF TypeOK
  <2>4. /\ request' \in [Requests -> RequestType]
        /\ lock' \in [Agents -> Writers \cup {None}]
        /\ \A e \in Agents : lock'[e] = IF e = a THEN w ELSE lock[e]
    <3>1. request' \in [Requests -> RequestType]
      BY <2>1, <2>2 DEF TypeOK, RequestType
    <3>2. /\ lock' \in [Agents -> Writers \cup {None}]
          /\ \A e \in Agents : lock'[e] = IF e = a THEN w ELSE lock[e]
      BY <1>3 DEF TypeOK
    <3> QED BY <3>1, <3>2
  <2>5. AgentsKnown'
    BY <1>0, <2>1, <2>3 DEF AgentsKnown
  <2>6. ASSUME NEW e \in Agents, lock'[e] # None
        PROVE  /\ request'[lock'[e]].pc \in {"clear", "attach"}
               /\ request'[lock'[e]].agent = e
    <3>1. CASE e = a
      BY <1>0, <2>1, <2>3, <2>4, <3>1
    <3>2. CASE e # a
      <4>1. lock'[e] = lock[e] /\ lock[e] \in Requests
        BY <2>4, <2>6, <3>2 DEF TypeOK, Requests
      <4>2. lock[e] # w
        BY <1>0, <2>6, <4>1 DEF LocksHeld
      <4> QED BY <2>3, <2>6, <4>1, <4>2 DEF LocksHeld
    <3> QED BY <3>1, <3>2
  <2>7. ASSUME NEW v \in Writers
        PROVE  request'[v].pc \in {"clear", "attach"}
                   <=> request'[v].agent \in Agents /\ lock'[request'[v].agent] = v
    <3>1. v \in Requests /\ v # None
      BY RolesAssumption DEF Requests
    <3>2. CASE v = w
      BY <1>0, <2>1, <2>3, <2>4, <3>1, <3>2
    <3>3. CASE v # w
      BY <1>0, <2>3, <2>4, <3>1, <3>3 DEF TypeOK
    <3> QED BY <3>2, <3>3
  <2>8. TypeOK'
    BY <1>3, <2>4, <2>7 DEF TypeOK, RequestType, Keep
  <2> QED BY <2>5, <2>6, <2>8 DEF LocksHeld
<1> QED BY <1>1, <1>2, <1>3 DEF WriteRow

LEMMA TypeAttach ==
    ASSUME TypeInv, NEW w \in Writers, ClearBases(w) \/ AttachBase(w)
    PROVE  TypeInv'
<1> USE DEF TypeInv
<1>0. w \in Requests
  BY DEF Requests
<1>1. CASE Rollback(w)
  BY <1>0, <1>1, TypeRollback
<1>2. CASE ClearBases(w) /\ ~Rollback(w)
  <2> DEFINE q == [request[w] EXCEPT !.pc = "attach", !.removed = attached[request[w].agent]]
  <2>1. request[w].pc = "clear" /\ request[w].agent \in Agents
    BY <1>0, <1>2 DEF ClearBases, AgentsKnown
  <2>2. attached[request[w].agent] \in SUBSET Bases
    BY <2>1 DEF TypeOK
  <2>3. q \in RequestType /\ q.pc = "attach" /\ q.agent = request[w].agent
    BY <1>0, <2>2, RequestParts DEF RequestType, Steps
  <2>4. request' = [request EXCEPT ![w] = q] /\ Keep /\ UNCHANGED lock
    BY <1>0, <1>2 DEF ClearBases, Fails, TypeOK
  <2> HIDE DEF q
  <2> QED BY <1>0, <2>1, <2>3, <2>4, TypeStays
<1>3. CASE AttachBase(w) /\ ~Rollback(w)
  <2>1. PICK b \in request[w].todo :
           request' = [request EXCEPT ![w].todo = @ \ {b}, ![w].added = @ \cup {b}]
    BY <1>3 DEF AttachBase, Fails
  <2> DEFINE q == [request[w] EXCEPT !.todo = @ \ {b}, !.added = @ \cup {b}]
  <2>2. q \in RequestType /\ q.pc = request[w].pc /\ q.agent = request[w].agent
    <3>1. /\ request[w] \in RequestType
          /\ request[w].todo \ {b} \in SUBSET Bases
          /\ request[w].added \cup {b} \in SUBSET Bases
      BY <1>0, RequestParts
    <3> QED BY <3>1 DEF RequestType
  <2>3. request' = [request EXCEPT ![w] = q] /\ Keep /\ UNCHANGED lock
    BY <1>0, <1>3, <2>1 DEF AttachBase, Fails, TypeOK
  <2> HIDE DEF q
  <2> QED BY <1>0, <2>2, <2>3, TypeStays
<1> QED BY <1>1, <1>2, <1>3

\* The request after the commit.
LEMMA TypeCommit ==
    ASSUME TypeInv, NEW w \in Writers, Commit(w)
    PROVE  TypeInv'
<1> USE DEF TypeInv
<1>0. w \in Requests /\ request[w].pc = "attach" /\ request[w].agent \in Agents
  BY DEF Requests, Commit, AgentsKnown
<1>1. CASE Fails(w)
  BY <1>0, <1>1, TypeRollback DEF Fails
<1>2. ASSUME Publish(w), NEW q \in RequestType, request' = [request EXCEPT ![w] = q],
             q.pc \in {"readback", "failed"}, q.pc = "readback" => q.agent \in Agents
      PROVE  TypeInv'
  <2>1. request[w] \in RequestType
    BY <1>0, RequestParts
  <2>2. request[w].wants \in SUBSET Bases /\ request[w].added \in SUBSET Bases
    BY <2>1 DEF RequestType
  <2>3. /\ agent' \in [Agents -> {"unused", "deleted", None} \cup Writers]
        /\ base' \subseteq Bases
    BY <1>2 DEF Publish, TypeOK
  <2>4. attached' \in [Agents -> SUBSET Bases]
    BY <1>0, <1>2, <2>2 DEF Publish, TypeOK
  <2>5. asked' \in [Writers \cup {None} -> SUBSET Bases]
    BY <1>2, <2>2 DEF Publish, TypeOK
  <2>6. commits' \in Seq(Writers)
    BY <1>2 DEF Publish, TypeOK
  <2> QED BY <1>0, <1>2, <2>3, <2>4, <2>5, <2>6, TypeRelease DEF Publish
<1>3. CASE Publish(w) /\ request' = [request EXCEPT ![w] = Request("readback", @.op, @.agent)]
  <2> DEFINE q == Request("readback", request[w].op, request[w].agent)
  <2>1. request[w].op \in {"none", "create", "update", "delete", "run", "drop"}
    BY <1>0 DEF TypeOK
  <2>2. q \in RequestType
    BY <1>0, <2>1, RequestTyped DEF Steps
  <2>3. q.pc = "readback" /\ q.agent = request[w].agent
    BY DEF Request
  <2>4. request' = [request EXCEPT ![w] = q]
    BY <1>3
  <2> HIDE DEF q
  <2> QED BY <1>0, <1>2, <1>3, <2>2, <2>3, <2>4
<1>4. CASE Publish(w) /\ Answer(w, "failed")
  <2> DEFINE q == Request("failed", "none", None)
  <2>1. q \in RequestType
    BY RequestTyped DEF Steps, Answers
  <2>2. q.pc = "failed"
    BY DEF Request
  <2>3. request' = [request EXCEPT ![w] = q]
    BY <1>4 DEF Answer
  <2> HIDE DEF q
  <2> QED BY <1>2, <1>4, <2>1, <2>2, <2>3
<1> QED BY <1>1, <1>3, <1>4 DEF Commit

LEMMA TypeReadBack ==
    ASSUME TypeInv, NEW w \in Writers, ReadBack(w)
    PROVE  TypeInv'
<1> USE DEF TypeInv
<1>0. w \in Requests /\ request[w].pc = "readback" /\ request[w].agent \in Agents
  BY DEF Requests, ReadBack, AgentsKnown
<1>1. /\ Nothing \in [by : Writers \cup {None}, bases : SUBSET Bases]
      /\ {"saved", "notfound", "failed"} \subseteq Answers
  BY DEF Nothing, Answers
<1>2. There(request[w].agent) =>
          Item(request[w].agent) \in [by : Writers \cup {None}, bases : SUBSET Bases]
  BY <1>0, ItemTyped
<1>3. CASE There(request[w].agent) /\ AnswerAbout(w, "saved", Item(request[w].agent))
             /\ Keep /\ UNCHANGED lock
  BY <1>0, <1>1, <1>2, <1>3, TypeAnswerAbout
<1>4. CASE AnswerAbout(w, "notfound", Nothing) /\ Keep /\ UNCHANGED lock
  BY <1>0, <1>1, <1>4, TypeAnswerAbout
<1>5. CASE Answer(w, "failed") /\ Keep /\ UNCHANGED lock
  BY <1>0, <1>1, <1>5, TypeAnswer
<1>6. CASE Fails(w)
  BY <1>0, <1>6, TypeRollback DEF Fails
<1> QED BY <1>3, <1>4, <1>5, <1>6 DEF ReadBack

LEMMA TypeDeleteAgent ==
    ASSUME TypeInv, NEW w \in Writers, DeleteAgent(w)
    PROVE  TypeInv'
<1> USE DEF TypeInv
<1> DEFINE a == request[w].agent
<1>0. w \in Requests /\ request[w].pc = "delete" /\ a \in Agents
  BY DEF Requests, DeleteAgent, AgentsKnown
<1>1. /\ Nothing \in [by : Writers \cup {None}, bases : SUBSET Bases]
      /\ {"done", "notfound", "failed"} \subseteq Answers
  BY DEF Nothing, Answers
<1>2. CASE AnswerAbout(w, "notfound", Nothing) /\ Keep /\ UNCHANGED lock
  BY <1>0, <1>1, <1>2, TypeAnswerAbout
<1>3. CASE Fails(w)
  BY <1>0, <1>3, TypeRollback DEF Fails
<1>4. CASE /\ agent' = [agent EXCEPT ![a] = "deleted"]
           /\ attached' = [attached EXCEPT ![a] = {}]
           /\ Answer(w, "done") \/ Answer(w, "failed")
           /\ UNCHANGED <<base, asked, lock, commits>>
  <2>1. PICK answer \in {"done", "failed"} : request' = [request EXCEPT ![w] = Request(answer, "none", None)]
    BY <1>4 DEF Answer
  <2> DEFINE q == Request(answer, "none", None)
  <2>2. q \in RequestType
    BY <1>1, <2>1, RequestTyped DEF Steps
  <2>3. q.pc \in {"done", "failed"}
    BY <2>1 DEF Request
  <2>4. request' = [request EXCEPT ![w] = q]
    BY <2>1
  <2> HIDE DEF q
  <2>5. /\ agent' \in [Agents -> {"unused", "deleted", None} \cup Writers]
        /\ attached' \in [Agents -> SUBSET Bases]
        /\ base' \subseteq Bases
    BY <1>4 DEF TypeOK
  <2> QED BY <1>0, <1>4, <2>2, <2>3, <2>4, <2>5, TypeGoOn
<1> QED BY <1>2, <1>3, <1>4 DEF DeleteAgent

LEMMA TypeRefuse ==
    ASSUME TypeInv, NEW r \in Requests, RefuseWrite(r) \/ RefuseRun(r)
    PROVE  TypeInv'
<1>1. "rejected" \in Answers
  BY DEF Answers
<1> QED BY <1>1, TypeAnswer DEF RefuseWrite, RefuseRun

LEMMA TypeStartRun ==
    ASSUME TypeInv, NEW r \in Runners, StartRun(r)
    PROVE  TypeInv'
<1> DEFINE q == [request[r] EXCEPT !.pc = "running"]
<1>1. r \in Requests /\ r \notin Writers
  BY RolesAssumption DEF Requests
<1>2. q \in RequestType /\ q.pc = "running" /\ q.agent = request[r].agent
  BY <1>1, RequestParts DEF TypeInv, RequestType, Steps, Answers
<1>3. request' = [request EXCEPT ![r] = q] /\ Keep /\ UNCHANGED lock
  BY <1>1 DEF StartRun, TypeInv, TypeOK
<1> HIDE DEF q
<1> QED BY <1>1, <1>2, <1>3, TypeStays

LEMMA TypeLockBase ==
    ASSUME TypeInv, NEW d \in Droppers, LockBase(d)
    PROVE  TypeInv'
<1>1. d \in Requests /\ d \notin Writers
  BY RolesAssumption DEF Requests
<1>2. "notfound" \in Answers
  BY DEF Answers
<1>3. CASE request' = [request EXCEPT ![d].pc = "cascade"] /\ Keep /\ UNCHANGED lock
  <2> DEFINE q == [request[d] EXCEPT !.pc = "cascade"]
  <2>1. q \in RequestType /\ q.pc = "cascade" /\ q.agent = request[d].agent
    BY <1>1, RequestParts DEF TypeInv, RequestType, Steps
  <2>2. request' = [request EXCEPT ![d] = q]
    BY <1>1, <1>3 DEF TypeInv, TypeOK
  <2> HIDE DEF q
  <2> QED BY <1>1, <1>3, <2>1, <2>2, TypeStays
<1>4. CASE Answer(d, "notfound") /\ Keep /\ UNCHANGED lock
  BY <1>1, <1>2, <1>4, TypeAnswer
<1>5. CASE Fails(d)
  BY <1>1, <1>5, TypeRollback DEF Fails
<1> QED BY <1>3, <1>4, <1>5 DEF LockBase

LEMMA TypeCascade ==
    ASSUME TypeInv, NEW d \in Droppers, Cascade(d)
    PROVE  TypeInv'
<1>1. d \in Requests /\ d \notin Writers
  BY RolesAssumption DEF Requests
<1>2. CASE /\ base' = base \ request[d].todo
           /\ attached' = [a \in Agents |-> attached[a] \ request[d].todo]
           /\ Answer(d, "done") \/ Answer(d, "failed")
           /\ UNCHANGED <<agent, asked, lock, commits>>
  <2>1. PICK answer \in {"done", "failed"} : request' = [request EXCEPT ![d] = Request(answer, "none", None)]
    BY <1>2 DEF Answer
  <2> DEFINE q == Request(answer, "none", None)
  <2>2. q \in RequestType
    BY <2>1, RequestTyped DEF Steps, Answers
  <2>3. q.pc \in {"done", "failed"}
    BY <2>1 DEF Request
  <2>4. request' = [request EXCEPT ![d] = q]
    BY <2>1
  <2> HIDE DEF q
  <2>5. /\ agent' \in [Agents -> {"unused", "deleted", None} \cup Writers]
        /\ attached' \in [Agents -> SUBSET Bases]
        /\ base' \subseteq Bases
    BY <1>2 DEF TypeInv, TypeOK
  <2> QED BY <1>1, <1>2, <2>2, <2>3, <2>4, <2>5, TypeGoOn
<1>3. CASE Fails(d)
  BY <1>1, <1>3, TypeRollback DEF Fails
<1> QED BY <1>2, <1>3 DEF Cascade

LEMMA TypeStep == TypeInv /\ [Next]_vars => TypeInv'
<1> SUFFICES ASSUME TypeInv, [Next]_vars PROVE TypeInv'
  OBVIOUS
<1>1. ASSUME NEW r \in Requests, Continue(r) PROVE TypeInv'
  <2>1. CASE r \in Writers
    BY <1>1, <2>1, RolesAssumption, TypeCheck, TypeRefuse, TypeWriteRow, TypeAttach, TypeCommit, TypeReadBack,
       TypeDeleteAgent DEF Continue
  <2>2. CASE r \notin Writers
    BY <1>1, <2>2, TypeCheck, TypeRefuse, TypeStartRun, TypeLockBase, TypeCascade DEF Continue
  <2> QED BY <2>1, <2>2
<1>2. CASE BreakDeadlock
  BY <1>2, TypeRollback DEF BreakDeadlock
<1>3. CASE UNCHANGED vars
  BY <1>3 DEF vars, TypeInv, TypeOK, AgentsKnown, LocksHeld
<1> QED BY <1>1, <1>2, <1>3, TypeStart DEF Next

\* Types, and: a transaction that has written the row of an agent holds it alone until it
\* ends, however requests, failures and deadlocks interleave.
THEOREM TypeCorrect == Spec => []TypeOK
<1>1. TypeInv => TypeOK
  BY DEF TypeInv
<1> QED BY <1>1, TypeInit, TypeStep, PTL DEF Spec
-----------------------------------------------------------------------------
(* Transactions, and the registry they implement                           *)

LEMMA TransInit == Init => TransInv
<1> SUFFICES ASSUME Init PROVE TransInv
  OBVIOUS
<1>1. \A r \in Requests : request[r].pc = "new" /\ request[r].added = {}
  BY DEF Init, Request
<1> QED BY <1>1 DEF TransInv, Collected, BasesHeld, DropsOne, Requests

\* A request goes on to q.  To the others, bases that they have attached stay, and the
\* rows of an agent whose old rows they have deleted do not become more.
LEMMA TransGoOn ==
    ASSUME TypeOK, TransInv, NEW r \in Requests, NEW q \in RequestType,
           request' = [request EXCEPT ![r] = q],
           \A w \in Writers \ {r} :
               /\ request[w].added \subseteq base'
               /\ request[w].pc = "attach" =>
                     attached'[request[w].agent] \subseteq attached[request[w].agent],
           r \in Writers =>
               /\ q.pc \in {"check", "clear"} => q.added = {}
               /\ q.pc = "clear" => q.todo = q.wants
               /\ q.pc = "attach" =>
                     q.added \cup q.todo = q.wants /\ attached'[q.agent] \subseteq q.removed
               /\ q.added \subseteq base'
               /\ \A d \in Droppers : request[d].pc = "cascade" => request[d].todo \cap q.added = {},
           r \in Droppers =>
               /\ q.pc \in {"drop", "cascade"} => \E b \in Bases : q.todo = {b}
               /\ q.pc = "cascade" => \A w \in Writers : q.todo \cap request[w].added = {}
    PROVE  TransInv'
<1>1. \A p \in Requests : request'[p] = IF p = r THEN q ELSE request[p]
  BY DEF TypeOK
<1>2. Writers \subseteq Requests /\ Droppers \subseteq Requests
  BY DEF Requests
<1>3. \A w \in Writers : w \notin Droppers
  BY RolesAssumption
<1>4. Collected'
  <2> SUFFICES ASSUME NEW w \in Writers
               PROVE  /\ request'[w].pc \in {"check", "clear"} => request'[w].added = {}
                      /\ request'[w].pc = "clear" => request'[w].todo = request'[w].wants
                      /\ request'[w].pc = "attach" =>
                            /\ request'[w].added \cup request'[w].todo = request'[w].wants
                            /\ attached'[request'[w].agent] \subseteq request'[w].removed
    BY DEF Collected
  <2>1. CASE w = r
    BY <1>1, <1>2, <2>1
  <2>2. CASE w # r
    BY <1>1, <1>2, <2>2 DEF TransInv, Collected
  <2> QED BY <2>1, <2>2
<1>5. BasesHeld'
  <2> SUFFICES ASSUME NEW w \in Writers
               PROVE  /\ request'[w].added \subseteq base'
                      /\ \A d \in Droppers :
                            request'[d].pc = "cascade" => request'[d].todo \cap request'[w].added = {}
    BY DEF BasesHeld
  <2>1. CASE w = r
    BY <1>1, <1>2, <1>3, <2>1
  <2>2. CASE w # r
    BY <1>1, <1>2, <2>2 DEF TransInv, BasesHeld
  <2> QED BY <2>1, <2>2
<1>6. DropsOne'
  BY <1>1, <1>2 DEF TransInv, DropsOne
<1> QED BY <1>4, <1>5, <1>6 DEF TransInv

\* A request that ends, or begins without bases.
LEMMA TransEnds ==
    ASSUME TypeOK, TransInv, NEW r \in Requests, NEW q \in RequestType,
           request' = [request EXCEPT ![r] = q],
           q.pc \notin {"clear", "attach", "drop", "cascade"}, q.added = {},
           \A w \in Writers \ {r} :
               /\ request[w].added \subseteq base'
               /\ request[w].pc = "attach" =>
                     attached'[request[w].agent] \subseteq attached[request[w].agent]
    PROVE  TransInv'
BY TransGoOn

LEMMA AnswerTyped ==
    ASSUME NEW answer \in Answers
    PROVE  /\ Request(answer, "none", None) \in RequestType
           /\ Request(answer, "none", None).pc = answer
           /\ Request(answer, "none", None).added = {}
           /\ Request(answer, "none", None).found = Nothing
           /\ Request(answer, "none", None).agent = None
           /\ answer \notin {"new", "check", "clear", "attach", "readback", "delete", "load", "drop", "cascade"}
<1>1. answer \in Steps
  BY DEF Steps
<1>2. Request(answer, "none", None) \in RequestType
  BY <1>1, RequestTyped
<1>3. answer \notin {"new", "check", "clear", "attach", "readback", "delete", "load", "drop", "cascade"}
  BY DEF Answers
<1> QED BY <1>2, <1>3 DEF Request

\* An answer, whatever else it does.
LEMMA TransAnswer ==
    ASSUME TypeOK, TransInv, NEW r \in Requests, NEW answer \in Answers, Answer(r, answer),
           \A w \in Writers \ {r} :
               /\ request[w].added \subseteq base'
               /\ request[w].pc = "attach" =>
                     attached'[request[w].agent] \subseteq attached[request[w].agent]
    PROVE  TransInv'
<1> DEFINE q == Request(answer, "none", None)
<1>1. q \in RequestType /\ q.pc = answer /\ q.added = {}
      /\ answer \notin {"clear", "attach", "drop", "cascade"}
  BY AnswerTyped
<1>2. request' = [request EXCEPT ![r] = q]
  BY DEF Answer
<1> HIDE DEF q
<1> QED BY <1>1, <1>2, TransEnds

\* What does not change bases and rows leaves the others as they are.
LEMMA TransKept ==
    ASSUME TransInv, Keep
    PROVE  \A w \in Writers :
               /\ request[w].added \subseteq base'
               /\ request[w].pc = "attach" =>
                     attached'[request[w].agent] \subseteq attached[request[w].agent]
BY DEF TransInv, BasesHeld, Keep

LEMMA TransAnswerKept ==
    ASSUME TypeOK, TransInv, NEW r \in Requests, NEW answer \in Answers, Answer(r, answer), Keep
    PROVE  TransInv'
BY TransKept, TransAnswer

LEMMA TransRollback ==
    ASSUME TypeOK, TransInv, NEW r \in Requests, Rollback(r)
    PROVE  TransInv'
<1>1. "failed" \in Answers
  BY DEF Answers
<1> QED BY <1>1, TransAnswerKept DEF Rollback

LEMMA TransAnswerAbout ==
    ASSUME TypeInv, TransInv, NEW r \in Requests, NEW answer \in Answers, Keep,
           NEW found \in [by : Writers \cup {None}, bases : SUBSET Bases],
           AnswerAbout(r, answer, found)
    PROVE  TransInv'
<1> DEFINE q == [Request(answer, "none", request[r].agent) EXCEPT !.found = found]
<1>1. request[r].agent \in Agents \cup {None}
  BY DEF TypeInv, TypeOK
<1>2. Request(answer, "none", request[r].agent) \in RequestType
  BY <1>1, RequestTyped DEF Steps
<1>3. q \in RequestType /\ q.pc = answer /\ q.added = {}
  BY <1>2 DEF RequestType, Request
<1>4. q.pc \notin {"clear", "attach", "drop", "cascade"}
  BY <1>3, AnswerTyped
<1>5. request' = [request EXCEPT ![r] = q]
  BY DEF AnswerAbout
<1> HIDE DEF q
<1> QED BY <1>3, <1>4, <1>5, TransKept, TransEnds DEF TypeInv

\* What the request is after each action that starts it or makes it go on; none of them
\* changes a row or a lock that the others can see, but for the lock of WriteRow.
LEMMA StartForm ==
    ASSUME TypeInv, NEW r \in Requests, Start(r)
    PROVE  /\ Keep /\ UNCHANGED lock /\ request[r].pc = "new"
           /\ \E q \in RequestType :
                 /\ request' = [request EXCEPT ![r] = q] /\ q.added = {}
                 /\ \/ r \in Writers /\ q.pc = "check" /\ q.found = Nothing
                    \/ /\ r \in Writers /\ q.pc = "delete" /\ q.found = Nothing
                       /\ q.agent \in Agents /\ agent[q.agent] # "unused"
                    \/ /\ r \in Runners /\ q.pc = "notfound" /\ q.found = Nothing
                       /\ q.agent \in Agents /\ agent[q.agent] = "deleted"
                    \/ /\ r \in Runners /\ q.pc = "load"
                       /\ q.agent \in Agents /\ There(q.agent) /\ q.found = Item(q.agent)
                    \/ /\ r \in Droppers /\ q.pc = "drop" /\ q.found = Nothing
                       /\ \E b \in Bases : q.todo = {b}
<1> USE DEF TypeInv
<1>0. Keep /\ UNCHANGED lock /\ request[r].pc = "new"
  BY DEF Start, StartWrite, StartDelete, ReadAgent, StartDrop
<1>1. CASE r \in Writers /\ StartWrite(r)
  <2>1. PICK a \in Agents, bases \in SUBSET Bases :
           request' = [request EXCEPT ![r] =
               [Request("check", IF Fresh(a) THEN "create" ELSE "update", a)
                   EXCEPT !.wants = bases, !.todo = bases]]
    BY <1>1 DEF StartWrite
  <2> DEFINE q == [Request("check", IF Fresh(a) THEN "create" ELSE "update", a)
                      EXCEPT !.wants = bases, !.todo = bases]
  <2>2. Request("check", IF Fresh(a) THEN "create" ELSE "update", a) \in RequestType
    BY RequestTyped DEF Steps
  <2>3. q \in RequestType /\ q.pc = "check" /\ q.added = {} /\ q.found = Nothing
    BY <2>2 DEF RequestType, Request
  <2>5. request' = [request EXCEPT ![r] = q]
    BY <2>1
  <2> HIDE DEF q
  <2> QED BY <1>0, <1>1, <2>3, <2>5
<1>2. CASE r \in Writers /\ StartDelete(r)
  <2>1. PICK a \in Agents : Known(a) /\ request' = [request EXCEPT ![r] = Request("delete", "delete", a)]
    BY <1>2 DEF StartDelete
  <2> DEFINE q == Request("delete", "delete", a)
  <2>2. q \in RequestType
    BY RequestTyped DEF Steps
  <2>3. q.pc = "delete" /\ q.agent = a /\ q.added = {} /\ q.found = Nothing /\ agent[a] # "unused"
    BY <2>1 DEF Request, Known
  <2>4. request' = [request EXCEPT ![r] = q]
    BY <2>1
  <2> HIDE DEF q
  <2> QED BY <1>0, <1>2, <2>2, <2>3, <2>4
<1>3. CASE r \in Runners /\ ReadAgent(r)
  <2>1. PICK a \in Agents :
           /\ Known(a)
           /\ \/ /\ There(a)
                 /\ request' = [request EXCEPT ![r] =
                       [Request("load", "run", a) EXCEPT !.todo = attached[a], !.found = Item(a)]]
              \/ ~There(a) /\ request' = [request EXCEPT ![r] = Request("notfound", "run", a)]
    BY <1>3 DEF ReadAgent
  <2>2. CASE ~There(a) /\ request' = [request EXCEPT ![r] = Request("notfound", "run", a)]
    <3> DEFINE q == Request("notfound", "run", a)
    <3>1. q \in RequestType
      BY RequestTyped DEF Steps, Answers
    <3>2. q.pc = "notfound" /\ q.agent = a /\ q.added = {} /\ q.found = Nothing
      BY DEF Request
    <3>3. agent[a] = "deleted"
      BY <2>1, <2>2 DEF TypeOK, Known, There
    <3>4. request' = [request EXCEPT ![r] = q]
      BY <2>2
    <3> HIDE DEF q
    <3> QED BY <1>0, <1>3, <3>1, <3>2, <3>3, <3>4
  <2>3. CASE /\ There(a)
             /\ request' = [request EXCEPT ![r] =
                   [Request("load", "run", a) EXCEPT !.todo = attached[a], !.found = Item(a)]]
    <3> DEFINE q == [Request("load", "run", a) EXCEPT !.todo = attached[a], !.found = Item(a)]
    <3>1. Request("load", "run", a) \in RequestType
      BY RequestTyped DEF Steps
    <3>2. attached[a] \in SUBSET Bases /\ Item(a) \in [by : Writers \cup {None}, bases : SUBSET Bases]
      BY <2>3, ItemTyped DEF TypeOK
    <3>3. q \in RequestType /\ q.pc = "load" /\ q.agent = a /\ q.added = {} /\ q.found = Item(a)
      BY <3>1, <3>2 DEF RequestType, Request
    <3>4. request' = [request EXCEPT ![r] = q]
      BY <2>3
    <3> HIDE DEF q
    <3> QED BY <1>0, <1>3, <2>3, <3>3, <3>4
  <2> QED BY <2>1, <2>2, <2>3
<1>4. CASE r \in Droppers /\ StartDrop(r)
  <2>1. PICK b \in Bases :
           request' = [request EXCEPT ![r] = [Request("drop", "drop", None) EXCEPT !.todo = {b}]]
    BY <1>4 DEF StartDrop
  <2> DEFINE q == [Request("drop", "drop", None) EXCEPT !.todo = {b}]
  <2>2. Request("drop", "drop", None) \in RequestType
    BY RequestTyped DEF Steps
  <2>3. q \in RequestType /\ q.pc = "drop" /\ q.added = {} /\ q.found = Nothing /\ q.todo = {b}
    BY <2>2 DEF RequestType, Request
  <2>4. request' = [request EXCEPT ![r] = q]
    BY <2>1
  <2> HIDE DEF q
  <2> QED BY <1>0, <1>4, <2>3, <2>4
<1> QED BY <1>1, <1>2, <1>3, <1>4 DEF Start

\* A request that goes on to another step or base keeps the rest of what it knows.
Proceeds(r) ==
    \/ CheckBase(r) \/ LoadBase(r) \/ StartRun(r)
    \/ WriteRow(r) /\ request'[r].pc = "clear"
    \/ ClearBases(r) /\ request'[r].pc = "attach"
    \/ AttachBase(r) /\ request'[r].pc = "attach"
    \/ LockBase(r) /\ request'[r].pc = "cascade"

LEMMA ProceedsForm ==
    ASSUME TypeInv, NEW r \in Requests, Proceeds(r)
    PROVE  /\ Keep
           /\ \E q \in RequestType :
                 /\ request' = [request EXCEPT ![r] = q]
                 /\ q.agent = request[r].agent /\ q.found = request[r].found
                 /\ q.wants = request[r].wants
                 /\ \/ q.pc = "check" /\ request[r].pc = "check" /\ q.added = request[r].added
                    \/ q.pc = "load" /\ request[r].pc = "load" /\ q.added = request[r].added
                    \/ q.pc = "running" /\ request[r].pc = "load" /\ q.added = request[r].added
                    \/ /\ q.pc = "clear" /\ request[r].pc = "check" /\ q.added = request[r].added
                       /\ agent[q.agent] # "deleted" /\ q.todo = q.wants
                    \/ /\ q.pc = "attach" /\ request[r].pc = "clear" /\ q.added = request[r].added
                       /\ q.removed = attached[q.agent] /\ q.todo = request[r].todo
                    \/ /\ q.pc = "attach" /\ request[r].pc = "attach" /\ q.removed = request[r].removed
                       /\ \E b \in request[r].todo \cap base :
                             /\ ~Dropping(b)
                             /\ q.todo = request[r].todo \ {b} /\ q.added = request[r].added \cup {b}
                    \/ /\ q.pc = "cascade" /\ request[r].pc = "drop" /\ q.added = request[r].added
                       /\ q.todo = request[r].todo
                       /\ \A w \in Writers : q.todo \cap request[w].added = {}
<1> USE DEF TypeInv
<1>0. /\ request[r] \in RequestType
      /\ request[r].wants \subseteq Bases /\ request[r].todo \subseteq Bases /\ request[r].added \subseteq Bases
  BY RequestParts
<1>a. \A q : request' = [request EXCEPT ![r] = q] => request'[r] = q
  BY DEF TypeOK
<1>b. ~Rollback(r) \/ ~(request'[r].pc \in {"clear", "attach", "cascade"})
  <2>1. Request("failed", "none", None).pc = "failed"
    BY DEF Request
  <2> QED BY <1>a, <2>1 DEF Rollback, Answer
<1>1. CASE CheckBase(r) \/ LoadBase(r)
  <2>1. PICK b \in request[r].todo : request' = [request EXCEPT ![r].todo = @ \ {b}]
    BY <1>1 DEF CheckBase, LoadBase
  <2> DEFINE q == [request[r] EXCEPT !.todo = @ \ {b}]
  <2>2. q \in RequestType /\ request' = [request EXCEPT ![r] = q]
    BY <1>0, <2>1 DEF RequestType
  <2>3. /\ q.pc = request[r].pc /\ q.agent = request[r].agent /\ q.found = request[r].found
        /\ q.wants = request[r].wants /\ q.added = request[r].added
    BY <1>0 DEF RequestType
  <2> HIDE DEF q
  <2>4. Keep /\ request[r].pc \in {"check", "load"}
    BY <1>1 DEF CheckBase, LoadBase
  <2> QED BY <2>2, <2>3, <2>4
<1>2. CASE StartRun(r)
  <2> DEFINE q == [request[r] EXCEPT !.pc = "running"]
  <2>1. q \in RequestType
    BY <1>0 DEF RequestType, Steps, Answers
  <2>2. /\ q.pc = "running" /\ q.agent = request[r].agent /\ q.found = request[r].found
        /\ q.wants = request[r].wants /\ q.added = request[r].added
    BY <1>0 DEF RequestType
  <2>3. request' = [request EXCEPT ![r] = q]
    BY <1>2 DEF StartRun, TypeOK
  <2> HIDE DEF q
  <2>4. Keep /\ request[r].pc = "load"
    BY <1>2 DEF StartRun
  <2> QED BY <2>1, <2>2, <2>3, <2>4
<1>3. CASE WriteRow(r) /\ request'[r].pc = "clear"
  <2> DEFINE q == [request[r] EXCEPT !.pc = "clear", !.todo = request[r].wants]
  <2>1. q \in RequestType
    BY <1>0 DEF RequestType, Steps
  <2>2. /\ q.pc = "clear" /\ q.agent = request[r].agent /\ q.found = request[r].found
        /\ q.wants = request[r].wants /\ q.added = request[r].added /\ q.todo = q.wants
    BY <1>0 DEF RequestType
  <2>3. ~AnswerAbout(r, "notfound", Nothing)
    <3> SUFFICES ASSUME AnswerAbout(r, "notfound", Nothing) PROVE FALSE
      OBVIOUS
    <3>1. request'[r] = [Request("notfound", "none", request[r].agent) EXCEPT !.found = Nothing]
      BY DEF AnswerAbout, TypeOK
    <3> QED BY <1>3, <3>1 DEF Request
  <2>4. request[r].pc = "check" /\ agent[request[r].agent] # "deleted" /\ Keep
    BY <1>3, <1>b, <2>3 DEF WriteRow, Fails
  <2>5. request' = [request EXCEPT ![r] = q]
    BY <1>3, <1>b, <2>3 DEF WriteRow, Fails
  <2> HIDE DEF q
  <2> QED BY <2>1, <2>2, <2>4, <2>5
<1>4. CASE ClearBases(r) /\ request'[r].pc = "attach"
  <2> DEFINE q == [request[r] EXCEPT !.pc = "attach", !.removed = attached[request[r].agent]]
  <2>1. request[r].pc = "clear" /\ request[r].agent \in Agents /\ Keep
    BY <1>4, <1>b DEF ClearBases, AgentsKnown, Fails
  <2>2. attached[request[r].agent] \in SUBSET Bases
    BY <2>1 DEF TypeOK
  <2>3. q \in RequestType
    BY <1>0, <2>2 DEF RequestType, Steps
  <2>4. /\ q.pc = "attach" /\ q.agent = request[r].agent /\ q.found = request[r].found
        /\ q.wants = request[r].wants /\ q.added = request[r].added /\ q.todo = request[r].todo
        /\ q.removed = attached[q.agent]
    BY <1>0 DEF RequestType
  <2>5. request' = [request EXCEPT ![r] = q]
    BY <1>4, <1>b DEF ClearBases, Fails, TypeOK
  <2> HIDE DEF q
  <2> QED BY <2>1, <2>3, <2>4, <2>5
<1>5. CASE AttachBase(r) /\ request'[r].pc = "attach"
  <2>1. PICK b \in request[r].todo \cap base :
           /\ ~Dropping(b)
           /\ request' = [request EXCEPT ![r].todo = @ \ {b}, ![r].added = @ \cup {b}]
    BY <1>5, <1>b DEF AttachBase, Fails
  <2> DEFINE q == [request[r] EXCEPT !.todo = @ \ {b}, !.added = @ \cup {b}]
  <2>2. q \in RequestType
    <3>1. request[r].todo \ {b} \in SUBSET Bases /\ request[r].added \cup {b} \in SUBSET Bases
      BY <1>0
    <3> QED BY <1>0, <3>1 DEF RequestType
  <2>3. /\ q.pc = request[r].pc /\ q.agent = request[r].agent /\ q.found = request[r].found
        /\ q.wants = request[r].wants /\ q.removed = request[r].removed
        /\ q.todo = request[r].todo \ {b} /\ q.added = request[r].added \cup {b}
    BY <1>0 DEF RequestType
  <2>4. request' = [request EXCEPT ![r] = q]
    BY <2>1 DEF TypeOK
  <2> HIDE DEF q
  <2>5. Keep /\ request[r].pc = "attach"
    BY <1>5, <1>b DEF AttachBase, Fails
  <2> QED BY <2>1, <2>2, <2>3, <2>4, <2>5
<1>6. CASE LockBase(r) /\ request'[r].pc = "cascade"
  <2> DEFINE q == [request[r] EXCEPT !.pc = "cascade"]
  <2>1. q \in RequestType
    BY <1>0 DEF RequestType, Steps
  <2>2. /\ q.pc = "cascade" /\ q.agent = request[r].agent /\ q.found = request[r].found
        /\ q.wants = request[r].wants /\ q.added = request[r].added /\ q.todo = request[r].todo
    BY <1>0 DEF RequestType
  <2>3. ~Answer(r, "notfound")
    <3>1. Request("notfound", "none", None).pc = "notfound"
      BY DEF Request
    <3> QED BY <1>6, <1>a, <3>1 DEF Answer
  <2>4. request' = [request EXCEPT ![r] = q]
    BY <1>6, <1>b, <2>3 DEF LockBase, Fails, TypeOK
  <2>5. /\ request[r].pc = "drop" /\ Keep
        /\ \A w \in Writers : request[r].todo \cap request[w].added = {}
    BY <1>6, <1>b, <2>3 DEF LockBase, Fails
  <2> HIDE DEF q
  <2> QED BY <2>1, <2>2, <2>4, <2>5
<1> QED BY <1>1, <1>2, <1>3, <1>4, <1>5, <1>6 DEF Proceeds

\* Every step of a request that has begun.
LEMMA ContinueForm ==
    ASSUME TypeInv, NEW r \in Requests, Continue(r)
    PROVE  \/ Proceeds(r)
           \/ Rollback(r)
           \/ Answer(r, "rejected") /\ Keep /\ request[r].pc \in {"check", "load"}
           \/ /\ r \in Writers /\ request[r].pc = "check" /\ agent[request[r].agent] = "deleted"
              /\ AnswerAbout(r, "notfound", Nothing) /\ Keep
           \/ r \in Writers /\ Commit(r) /\ Publish(r)
           \/ r \in Writers /\ ReadBack(r)
           \/ r \in Writers /\ DeleteAgent(r)
           \/ r \in Droppers /\ Answer(r, "notfound") /\ Keep
           \/ r \in Droppers /\ Cascade(r)
<1> USE DEF TypeInv
<1>0. request[r] \in RequestType
  BY RequestParts
<1>1. CASE r \in Writers /\ WriteRow(r)
  <2>1. CASE request' = [request EXCEPT ![r] = [@ EXCEPT !.pc = "clear", !.todo = request[r].wants]]
    <3>1. request'[r] = [request[r] EXCEPT !.pc = "clear", !.todo = request[r].wants]
      BY <2>1 DEF TypeOK
    <3>2. request'[r].pc = "clear"
      BY <1>0, <3>1 DEF RequestType
    <3> QED BY <1>1, <3>2 DEF Proceeds
  <2> QED BY <1>1, <2>1 DEF WriteRow, Fails
<1>2. CASE r \in Writers /\ ClearBases(r)
  <2>1. CASE request' = [request EXCEPT ![r].pc = "attach", ![r].removed = attached[request[r].agent]]
    <3>1. request'[r] = [request[r] EXCEPT !.pc = "attach", !.removed = attached[request[r].agent]]
      BY <2>1 DEF TypeOK
    <3>2. request'[r].pc = "attach"
      BY <1>0, <3>1 DEF RequestType
    <3> QED BY <1>2, <3>2 DEF Proceeds
  <2> QED BY <1>2, <2>1 DEF ClearBases, Fails
<1>3. CASE r \in Writers /\ AttachBase(r)
  <2>1. ASSUME NEW b \in request[r].todo,
               request' = [request EXCEPT ![r].todo = @ \ {b}, ![r].added = @ \cup {b}]
        PROVE  Proceeds(r)
    <3>1. request'[r] = [request[r] EXCEPT !.todo = @ \ {b}, !.added = @ \cup {b}]
      BY <2>1 DEF TypeOK
    <3>2. request'[r].pc = request[r].pc
      BY <1>0, <3>1 DEF RequestType
    <3> QED BY <1>3, <3>2 DEF Proceeds, AttachBase
  <2> QED BY <1>3, <2>1 DEF AttachBase, Fails
<1>4. CASE r \in Droppers /\ LockBase(r)
  <2>1. CASE request' = [request EXCEPT ![r].pc = "cascade"]
    <3>1. request'[r] = [request[r] EXCEPT !.pc = "cascade"]
      BY <2>1 DEF TypeOK
    <3>2. request'[r].pc = "cascade"
      BY <1>0, <3>1 DEF RequestType
    <3> QED BY <1>4, <3>2 DEF Proceeds
  <2> QED BY <1>4, <2>1 DEF LockBase, Fails
<1>5. CASE r \in Writers /\ Commit(r)
  BY <1>5 DEF Commit, Fails
<1>6. CASE CheckBase(r) \/ LoadBase(r) \/ StartRun(r)
  BY <1>6 DEF Proceeds
<1>7. CASE RefuseWrite(r) \/ RefuseRun(r)
  BY <1>7 DEF RefuseWrite, RefuseRun
<1> QED BY <1>1, <1>2, <1>3, <1>4, <1>5, <1>6, <1>7 DEF Continue

LEMMA TransProceeds ==
    ASSUME TypeInv, TransInv, NEW r \in Requests, Proceeds(r)
    PROVE  TransInv'
<1>0. /\ Keep
      /\ \A w \in Writers :
            /\ request[w].added \subseteq base'
            /\ request[w].pc = "attach" =>
                  attached'[request[w].agent] \subseteq attached[request[w].agent]
  BY ProceedsForm, TransKept
<1>1. PICK q \in RequestType :
         /\ request' = [request EXCEPT ![r] = q]
         /\ q.agent = request[r].agent /\ q.wants = request[r].wants
         /\ \/ q.pc = "check" /\ request[r].pc = "check" /\ q.added = request[r].added
            \/ q.pc = "load" /\ request[r].pc = "load" /\ q.added = request[r].added
            \/ q.pc = "running" /\ request[r].pc = "load" /\ q.added = request[r].added
            \/ q.pc = "clear" /\ request[r].pc = "check" /\ q.added = request[r].added
               /\ q.todo = q.wants
            \/ /\ q.pc = "attach" /\ request[r].pc = "clear" /\ q.added = request[r].added
               /\ q.removed = attached[q.agent] /\ q.todo = request[r].todo
            \/ /\ q.pc = "attach" /\ request[r].pc = "attach" /\ q.removed = request[r].removed
               /\ \E b \in request[r].todo \cap base :
                     /\ ~Dropping(b)
                     /\ q.todo = request[r].todo \ {b} /\ q.added = request[r].added \cup {b}
            \/ /\ q.pc = "cascade" /\ request[r].pc = "drop" /\ q.added = request[r].added
               /\ q.todo = request[r].todo
               /\ \A w \in Writers : q.todo \cap request[w].added = {}
  BY ProceedsForm
<1>2. ASSUME r \in Writers
      PROVE  /\ q.pc \in {"check", "clear"} => q.added = {}
             /\ q.pc = "clear" => q.todo = q.wants
             /\ q.pc = "attach" =>
                   q.added \cup q.todo = q.wants /\ attached'[q.agent] \subseteq q.removed
  BY <1>0, <1>1, <1>2 DEF TransInv, Collected, Keep
<1>3. ASSUME r \in Writers
      PROVE  /\ q.added \subseteq base'
             /\ \A d \in Droppers : request[d].pc = "cascade" => request[d].todo \cap q.added = {}
  BY <1>0, <1>1, <1>3 DEF TransInv, BasesHeld, Keep, Dropping
<1>4. ASSUME r \in Droppers
      PROVE  /\ q.pc \in {"drop", "cascade"} => \E b \in Bases : q.todo = {b}
             /\ q.pc = "cascade" => \A w \in Writers : q.todo \cap request[w].added = {}
  BY <1>1, <1>4 DEF TransInv, DropsOne
<1> HIDE DEF TransInv
<1> QED BY <1>0, <1>1, <1>2, <1>3, <1>4, TransGoOn DEF TypeInv

\* While a writer attaches bases, nobody else publishes or deletes its agent.
LEMMA LockedOut ==
    ASSUME TypeInv, NEW r \in Requests, NEW w \in Writers \ {r}, NEW a \in Agents,
           request[w].pc = "attach", lock[a] \in {r, None}
    PROVE  request[w].agent # a
BY RolesAssumption DEF TypeInv, TypeOK

LEMMA TransPublish ==
    ASSUME TypeInv, TransInv, NEW w \in Writers, Commit(w), Publish(w)
    PROVE  TransInv'
<1> USE DEF TypeInv
<1>0. w \in Requests /\ request[w].pc = "attach" /\ request[w].agent \in Agents
      /\ lock[request[w].agent] = w
  BY DEF Requests, Commit, AgentsKnown, TypeOK
<1>1. \A v \in Writers \ {w} :
         /\ request[v].added \subseteq base'
         /\ request[v].pc = "attach" =>
               attached'[request[v].agent] \subseteq attached[request[v].agent]
  <2> SUFFICES ASSUME NEW v \in Writers \ {w}
               PROVE  /\ request[v].added \subseteq base'
                      /\ request[v].pc = "attach" =>
                            attached'[request[v].agent] \subseteq attached[request[v].agent]
    OBVIOUS
  <2>1. request[v].added \subseteq base'
    BY DEF TransInv, BasesHeld, Publish
  <2>2. ASSUME request[v].pc = "attach"
        PROVE  attached'[request[v].agent] \subseteq attached[request[v].agent]
    <3>1. request[v].agent \in Agents
      BY <2>2 DEF AgentsKnown, Requests
    <3>2. request[v].agent # request[w].agent
      BY <1>0, <2>2, LockedOut
    <3> QED BY <3>1, <3>2 DEF Publish, TypeOK
  <2> QED BY <2>1, <2>2
<1>2. CASE request' = [request EXCEPT ![w] = Request("readback", @.op, @.agent)]
  <2> DEFINE q == Request("readback", request[w].op, request[w].agent)
  <2>1. request[w].op \in {"none", "create", "update", "delete", "run", "drop"}
    BY <1>0 DEF TypeOK
  <2>2. q \in RequestType
    BY <1>0, <2>1, RequestTyped DEF Steps
  <2>3. q.pc = "readback" /\ q.added = {}
    BY DEF Request
  <2>4. request' = [request EXCEPT ![w] = q]
    BY <1>2
  <2> HIDE DEF q
  <2> QED BY <1>0, <1>1, <2>2, <2>3, <2>4, TransEnds
<1>3. CASE Answer(w, "failed")
  <2>1. "failed" \in Answers
    BY DEF Answers
  <2> QED BY <1>0, <1>1, <1>3, <2>1, TransAnswer
<1> QED BY <1>0, <1>2, <1>3 DEF Commit, Fails, Rollback

LEMMA TransReadBack ==
    ASSUME TypeInv, TransInv, NEW w \in Writers, ReadBack(w)
    PROVE  TransInv'
<1>0. w \in Requests /\ request[w].pc = "readback" /\ request[w].agent \in Agents
  BY DEF Requests, ReadBack, AgentsKnown, TypeInv
<1>1. /\ Nothing \in [by : Writers \cup {None}, bases : SUBSET Bases]
      /\ {"saved", "notfound", "failed"} \subseteq Answers
  BY DEF Nothing, Answers
<1>2. There(request[w].agent) =>
          Item(request[w].agent) \in [by : Writers \cup {None}, bases : SUBSET Bases]
  BY <1>0, ItemTyped DEF TypeInv
<1>3. CASE There(request[w].agent) /\ AnswerAbout(w, "saved", Item(request[w].agent)) /\ Keep
  BY <1>0, <1>1, <1>2, <1>3, TransAnswerAbout
<1>4. CASE AnswerAbout(w, "notfound", Nothing) /\ Keep
  BY <1>0, <1>1, <1>4, TransAnswerAbout
<1>5. CASE Answer(w, "failed") /\ Keep
  BY <1>0, <1>1, <1>5, TransAnswerKept DEF TypeInv
<1> QED BY <1>3, <1>4, <1>5 DEF ReadBack, Fails, Rollback

LEMMA TransDeleteAgent ==
    ASSUME TypeInv, TransInv, NEW w \in Writers, DeleteAgent(w)
    PROVE  TransInv'
<1> DEFINE a == request[w].agent
<1>0. w \in Requests /\ a \in Agents /\ lock[a] = None
  BY DEF Requests, DeleteAgent, AgentsKnown, TypeInv
<1>1. /\ Nothing \in [by : Writers \cup {None}, bases : SUBSET Bases]
      /\ {"done", "notfound", "failed"} \subseteq Answers
  BY DEF Nothing, Answers
<1>2. CASE AnswerAbout(w, "notfound", Nothing) /\ Keep
  BY <1>0, <1>1, <1>2, TransAnswerAbout
<1>3. CASE Answer(w, "failed") /\ Keep
  BY <1>0, <1>1, <1>3, TransAnswerKept DEF TypeInv
<1>4. CASE /\ attached' = [attached EXCEPT ![a] = {}] /\ UNCHANGED base
           /\ Answer(w, "done") \/ Answer(w, "failed")
  <2>1. ASSUME NEW v \in Writers \ {w}
        PROVE  /\ request[v].added \subseteq base'
               /\ request[v].pc = "attach" =>
                     attached'[request[v].agent] \subseteq attached[request[v].agent]
    <3>1. request[v].pc = "attach" => request[v].agent \in Agents
      BY DEF AgentsKnown, Requests, TypeInv
    <3> QED BY <1>4, <3>1 DEF TransInv, BasesHeld, TypeInv, TypeOK
  <2> QED BY <1>0, <1>1, <1>4, <2>1, TransAnswer DEF TypeInv
<1> QED BY <1>2, <1>3, <1>4 DEF DeleteAgent, Fails, Rollback

LEMMA TransCascade ==
    ASSUME TypeInv, TransInv, NEW d \in Droppers, Cascade(d)
    PROVE  TransInv'
<1>0. d \in Requests /\ request[d].pc = "cascade"
  BY DEF Requests, Cascade
<1>1. {"done", "failed"} \subseteq Answers
  BY DEF Answers
<1>2. CASE Answer(d, "failed") /\ Keep
  BY <1>0, <1>1, <1>2, TransAnswerKept DEF TypeInv
<1>3. CASE /\ base' = base \ request[d].todo
           /\ attached' = [a \in Agents |-> attached[a] \ request[d].todo]
           /\ Answer(d, "done") \/ Answer(d, "failed")
  <2>1. ASSUME NEW v \in Writers \ {d}
        PROVE  /\ request[v].added \subseteq base'
               /\ request[v].pc = "attach" =>
                     attached'[request[v].agent] \subseteq attached[request[v].agent]
    <3>1. request[v].pc = "attach" => request[v].agent \in Agents
      BY DEF AgentsKnown, Requests, TypeInv
    <3>2. request[v].added \subseteq base /\ request[d].todo \cap request[v].added = {}
      BY <1>0 DEF TransInv, BasesHeld
    <3> QED BY <1>3, <3>1, <3>2
  <2> QED BY <1>0, <1>1, <1>3, <2>1, TransAnswer DEF TypeInv
<1> QED BY <1>2, <1>3 DEF Cascade, Fails, Rollback

LEMMA TransStart ==
    ASSUME TypeInv, TransInv, NEW r \in Requests, Start(r)
    PROVE  TransInv'
<1>1. Keep
  BY StartForm
<1>2. PICK q \in RequestType :
         /\ request' = [request EXCEPT ![r] = q] /\ q.added = {}
         /\ \/ q.pc \in {"check", "delete", "notfound", "load"}
            \/ r \in Droppers /\ q.pc = "drop" /\ \E b \in Bases : q.todo = {b}
  BY StartForm
<1>3. CASE q.pc \in {"check", "delete", "notfound", "load"}
  BY <1>1, <1>2, <1>3, TransKept, TransEnds DEF TypeInv
<1>4. CASE r \in Droppers /\ q.pc = "drop" /\ \E b \in Bases : q.todo = {b}
  <2>1. r \notin Writers
    BY <1>4, RolesAssumption
  <2> QED BY <1>1, <1>2, <1>4, <2>1, TransKept, TransGoOn DEF TypeInv
<1> QED BY <1>2, <1>3, <1>4

LEMMA TransStep == TypeInv /\ TransInv /\ [Next]_vars => TransInv'
<1> SUFFICES ASSUME TypeInv, TransInv, [Next]_vars PROVE TransInv'
  OBVIOUS
<1>0. TypeOK /\ Nothing \in [by : Writers \cup {None}, bases : SUBSET Bases]
      /\ {"rejected", "notfound"} \subseteq Answers
  BY DEF TypeInv, Nothing, Answers
<1>1. ASSUME NEW r \in Requests, Continue(r) PROVE TransInv'
  BY <1>0, <1>1, ContinueForm, TransProceeds, TransRollback, TransAnswerKept, TransAnswerAbout,
     TransPublish, TransReadBack, TransDeleteAgent, TransCascade
<1>2. CASE BreakDeadlock
  BY <1>0, <1>2, TransRollback DEF BreakDeadlock
<1>3. CASE UNCHANGED vars
  BY <1>3 DEF vars, TransInv, Collected, BasesHeld, DropsOne
<1> QED BY <1>1, <1>2, <1>3, TransStart DEF Next

\* The definition of each agent, as the registry has it.
Definitions == [a \in Agents |-> IF There(a) THEN Item(a) ELSE None]

\* No definition is the absence of one.
LEMMA Defined ==
    ASSUME TypeOK, NEW a \in Agents
    PROVE  /\ Definitions[a] = IF There(a) THEN Item(a) ELSE None
           /\ Definitions[a] = None <=> ~There(a)
BY ItemTyped, NoneAssumption DEF Definitions

LEMMA RegistryInit == Init => Registry!Init
<1> SUFFICES ASSUME Init PROVE Registry!Init
  OBVIOUS
<1>1. ASSUME NEW a \in Agents
      PROVE  (IF There(a) THEN Item(a) ELSE None) \in {None, [by |-> None, bases |-> Former]}
  <2>1. agent[a] \in {None, "unused"} /\ (agent[a] = None => attached[a] = Former)
    BY DEF Init
  <2>2. There(a) => agent[a] = None
    BY <2>1, RolesAssumption DEF There
  <2> QED BY <2>1, <2>2 DEF Item
<1> QED BY <1>1 DEF Init, Registry!Init

\* What changes no row, no base and nothing that was asked is nothing to the registry.
LEMMA RegistryKept ==
    ASSUME Keep
    PROVE  UNCHANGED <<asked, Definitions, base>>
BY DEF Keep, Definitions, There, Item

LEMMA RegistryPublish ==
    ASSUME TypeInv, TransInv, NEW w \in Writers, Commit(w), Publish(w)
    PROVE  Registry!Define(request[w].agent, w)
<1> DEFINE a == request[w].agent
<1>0. /\ request[w].pc = "attach" /\ request[w].todo = {} /\ a \in Agents /\ w \in Requests
      /\ w # None
  BY RolesAssumption DEF Requests, Commit, AgentsKnown, TypeInv
<1>1. request[w].added = request[w].wants /\ attached[a] \subseteq request[w].removed
  BY <1>0 DEF TransInv, Collected
<1>2. request[w].wants \in SUBSET base
  BY <1>1 DEF TransInv, BasesHeld
<1>3. attached' = [attached EXCEPT ![a] = request[w].wants]
  BY <1>0, <1>1 DEF Publish, TypeInv, TypeOK
<1>4. /\ agent' = [agent EXCEPT ![a] = w] /\ asked' = [asked EXCEPT ![w] = request[w].wants]
      /\ UNCHANGED base
  BY DEF Publish
<1>5. ASSUME NEW e \in Agents
      PROVE  (IF There(e)' THEN Item(e)' ELSE None)
                = IF e = a THEN [by |-> w, bases |-> request[w].wants] ELSE Definitions[e]
  BY <1>0, <1>3, <1>4 DEF There, Item, Definitions, TypeInv, TypeOK
<1>6. Definitions' = [Definitions EXCEPT ![a] = [by |-> w, bases |-> request[w].wants]]
  BY <1>5 DEF Definitions
<1> QED BY <1>2, <1>4, <1>6 DEF Registry!Define, Definitions

LEMMA RegistryDelete ==
    ASSUME TypeInv, NEW w \in Writers, DeleteAgent(w)
    PROVE  Registry!Remove(request[w].agent) \/ UNCHANGED <<asked, Definitions, base>>
<1> DEFINE a == request[w].agent
<1>0. a \in Agents
  BY DEF Requests, DeleteAgent, AgentsKnown, TypeInv
<1>1. CASE Keep
  BY <1>1, RegistryKept
<1>2. CASE /\ agent' = [agent EXCEPT ![a] = "deleted"] /\ attached' = [attached EXCEPT ![a] = {}]
           /\ UNCHANGED <<base, asked>>
  <2>1. ASSUME NEW e \in Agents
        PROVE  (IF There(e)' THEN Item(e)' ELSE None) = IF e = a THEN None ELSE Definitions[e]
    BY <1>0, <1>2, RolesAssumption DEF There, Item, Definitions, TypeInv, TypeOK
  <2>2. Definitions' = [Definitions EXCEPT ![a] = None]
    BY <2>1 DEF Definitions
  <2> QED BY <1>2, <2>2 DEF Registry!Remove, Definitions
<1> QED BY <1>1, <1>2 DEF DeleteAgent, Fails, Rollback

LEMMA RegistryCascade ==
    ASSUME TypeInv, TransInv, NEW d \in Droppers, Cascade(d)
    PROVE  (\E b \in Bases : Registry!Drop(b)) \/ UNCHANGED <<asked, Definitions, base>>
<1>1. CASE Keep
  BY <1>1, RegistryKept
<1>2. CASE /\ base' = base \ request[d].todo
           /\ attached' = [a \in Agents |-> attached[a] \ request[d].todo]
           /\ UNCHANGED <<agent, asked>>
  <2>1. PICK b \in Bases : request[d].todo = {b}
    BY DEF Cascade, TransInv, DropsOne
  <2>2. ASSUME NEW a \in Agents
        PROVE  (IF There(a)' THEN Item(a)' ELSE None)
                  = IF Definitions[a] = None THEN None ELSE [Definitions[a] EXCEPT !.bases = @ \ {b}]
    <3>1. There(a)' <=> There(a)
      BY <1>2 DEF There
    <3>2. agent'[a] = agent[a] /\ attached'[a] = attached[a] \ {b}
      BY <1>2, <2>1
    <3>3. Item(a)' = [Item(a) EXCEPT !.bases = @ \ {b}]
      BY <3>2 DEF Item
    <3> QED BY <3>1, <3>3, Defined DEF TypeInv
  <2>3. Definitions' = [a \in Agents |->
            IF Definitions[a] = None THEN None ELSE [Definitions[a] EXCEPT !.bases = @ \ {b}]]
    BY <2>2 DEF Definitions
  <2> QED BY <1>2, <2>1, <2>3 DEF Registry!Drop, Definitions
<1> QED BY <1>1, <1>2 DEF Cascade, Fails, Rollback

LEMMA RegistryStep ==
    TypeInv /\ TransInv /\ [Next]_vars
        => [Registry!Next]_<<asked, Definitions, base>>
<1> SUFFICES ASSUME TypeInv, TransInv, [Next]_vars
             PROVE  Registry!Next \/ UNCHANGED <<asked, Definitions, base>>
  OBVIOUS
<1>1. ASSUME NEW r \in Requests, Continue(r)
      PROVE  Registry!Next \/ UNCHANGED <<asked, Definitions, base>>
  <2>1. CASE r \in Writers /\ Commit(r) /\ Publish(r)
    <3>1. request[r].agent \in Agents
      BY <1>1, <2>1 DEF Commit, AgentsKnown, TypeInv
    <3> QED BY <2>1, <3>1, RegistryPublish DEF Registry!Next
  <2>2. CASE r \in Writers /\ DeleteAgent(r)
    <3>1. request[r].agent \in Agents
      BY <1>1, <2>2 DEF DeleteAgent, AgentsKnown, TypeInv
    <3> QED BY <2>2, <3>1, RegistryDelete DEF Registry!Next
  <2>3. CASE r \in Droppers /\ Cascade(r)
    BY <2>3, RegistryCascade DEF Registry!Next
  <2>4. CASE Keep
    BY <2>4, RegistryKept
  <2>5. Proceeds(r) => Keep
    BY ProceedsForm
  <2>6. Rollback(r) => Keep
    BY DEF Rollback
  <2>7. ReadBack(r) => Keep
    BY DEF ReadBack, Fails, Rollback
  <2> QED BY <1>1, <2>1, <2>2, <2>3, <2>4, <2>5, <2>6, <2>7, ContinueForm
<1>2. CASE BreakDeadlock
  BY <1>2, RegistryKept DEF BreakDeadlock, Rollback
<1>3. ASSUME NEW r \in Requests, Start(r)
      PROVE  UNCHANGED <<asked, Definitions, base>>
  BY <1>3, StartForm, RegistryKept
<1>4. CASE UNCHANGED vars
  BY <1>4 DEF vars, Definitions, There, Item
<1> QED BY <1>1, <1>2, <1>3, <1>4 DEF Next

\* The rows, the join rows and the foreign keys of the transactions implement the registry:
\* whatever overlaps, fails or is lost, each agent is as a whole what one request asked
\* for, but for the bases that are gone.
THEOREM ImplementsTheRegistry == Spec => ImplementsRegistry
<1>1. Init => TypeInv /\ TransInv
  BY TypeInit, TransInit
<1>2. TypeInv /\ TransInv /\ [Next]_vars => (TypeInv /\ TransInv)'
  BY TypeStep, TransStep
<1>3. TypeInv /\ TransInv /\ [Next]_vars
          => [Registry!Next]_<<asked, [a \in Agents |-> IF There(a) THEN Item(a) ELSE None], base>>
  BY RegistryStep DEF Definitions
<1> QED BY <1>1, <1>2, <1>3, RegistryInit, PTL DEF Spec, ImplementsRegistry, Registry!Spec

-----------------------------------------------------------------------------
(* The configuration of runs                                               *)

Before == {"new", "check", "clear", "attach"}

LEMMA ConfigInit == Init => ConfigInv
<1> SUFFICES ASSUME Init PROVE ConfigInv
  OBVIOUS
<1>1. \A r \in Requests : request[r].pc = "new" /\ request[r].found.by = None
  BY DEF Init, Request, Nothing
<1>2. ASSUME NEW a \in Agents
      PROVE  /\ agent[a] \notin Writers
             /\ There(a) => agent[a] = None /\ attached[a] = Former
  <2>1. agent[a] \in {None, "unused"} /\ (agent[a] = None => attached[a] = Former)
    BY DEF Init
  <2> QED BY <2>1, RolesAssumption DEF There
<1>3. asked[None] = Former
  BY DEF Init
<1>4. Unseen
  BY <1>1, <1>2, RolesAssumption DEF Unseen
<1>5. DefinitionsAsked
  BY <1>2, <1>3 DEF DefinitionsAsked, Faithful
<1>6. RunsAsked
  BY <1>1 DEF RunsAsked, Requests
<1> QED BY <1>4, <1>5, <1>6 DEF ConfigInv

\* A request goes on to q, which shows nothing, what it had seen, or an agent as it is.
LEMMA UnseenGoOn ==
    ASSUME TypeInv, Unseen, NEW r \in Requests, NEW q \in RequestType,
           request' = [request EXCEPT ![r] = q],
           r \in Writers /\ q.pc \in Before => request[r].pc \in Before,
           \/ q.found = Nothing \/ q.found = request[r].found
           \/ \E a \in Agents : q.found = Item(a),
           \A a \in Agents :
               agent'[a] \in {agent[a], "deleted"} \/ (agent'[a] = r /\ q.pc \notin Before)
    PROVE  Unseen'
<1>1. \A p \in Requests : request'[p] = IF p = r THEN q ELSE request[p]
  BY DEF TypeInv, TypeOK
<1>2. SUFFICES ASSUME NEW w \in Writers, request'[w].pc \in Before
               PROVE  /\ \A a \in Agents : agent'[a] # w
                      /\ \A p \in Requests : request'[p].found.by # w
  BY DEF Unseen, Before
<1>3. request[w].pc \in Before /\ w # None /\ w # "deleted" /\ w \in Requests
  BY <1>1, <1>2, RolesAssumption DEF Requests
<1>4. /\ \A a \in Agents : agent[a] # w
      /\ \A p \in Requests : request[p].found.by # w
  BY <1>3 DEF Unseen, Before
<1>5. \A a \in Agents : agent'[a] # w
  BY <1>1, <1>2, <1>3, <1>4
<1>6. q.found.by # w
  <2>1. CASE q.found = Nothing
    BY <1>3, <2>1 DEF Nothing
  <2>2. CASE q.found = request[r].found
    BY <1>4, <2>2
  <2>3. ASSUME NEW a \in Agents, q.found = Item(a) PROVE q.found.by # w
    BY <1>4, <2>3 DEF Item
  <2> QED BY <2>1, <2>2, <2>3
<1> QED BY <1>1, <1>4, <1>5, <1>6

\* So it does, and rows, bases and what was asked stay.
LEMMA ConfigGoOn ==
    ASSUME TypeInv, ConfigInv, NEW r \in Requests, NEW q \in RequestType, Keep,
           request' = [request EXCEPT ![r] = q],
           r \in Writers /\ q.pc \in Before => request[r].pc \in Before,
           \/ q.found = Nothing \/ q.found = request[r].found
           \/ \E a \in Agents : q.found = Item(a),
           r \in Runners /\ q.pc \in {"load", "running"} => Faithful(q.found.by, q.found.bases)
    PROVE  ConfigInv'
<1>1. \A p \in Requests : request'[p] = IF p = r THEN q ELSE request[p]
  BY DEF TypeInv, TypeOK
<1>2. Unseen'
  BY UnseenGoOn DEF ConfigInv, Keep
<1>3. DefinitionsAsked'
  BY DEF ConfigInv, DefinitionsAsked, There, Faithful, Keep
<1>4. RunsAsked'
  BY <1>1 DEF ConfigInv, RunsAsked, Faithful, Keep, Requests
<1> QED BY <1>2, <1>3, <1>4 DEF ConfigInv

LEMMA ConfigAnswer ==
    ASSUME TypeInv, ConfigInv, NEW r \in Requests, NEW answer \in Answers \ {"running"},
           Answer(r, answer), Keep
    PROVE  ConfigInv'
<1> DEFINE q == Request(answer, "none", None)
<1>1. /\ q \in RequestType /\ q.found = Nothing /\ q.pc \notin Before /\ q.pc \notin {"load", "running"}
      /\ request' = [request EXCEPT ![r] = q]
  BY AnswerTyped DEF Answer, Before
<1> HIDE DEF q
<1> QED BY <1>1, ConfigGoOn

LEMMA ConfigAnswerAbout ==
    ASSUME TypeInv, ConfigInv, NEW r \in Requests, NEW answer \in Answers \ {"running"}, Keep,
           NEW found \in [by : Writers \cup {None}, bases : SUBSET Bases],
           found = Nothing \/ \E a \in Agents : found = Item(a),
           AnswerAbout(r, answer, found)
    PROVE  ConfigInv'
<1> DEFINE q == [Request(answer, "none", request[r].agent) EXCEPT !.found = found]
<1>1. request[r].agent \in Agents \cup {None}
  BY DEF TypeInv, TypeOK
<1>2. Request(answer, "none", request[r].agent) \in RequestType
  BY <1>1, RequestTyped DEF Steps
<1>3. q \in RequestType /\ q.pc = answer /\ q.found = found
  BY <1>2 DEF RequestType, Request
<1>4. q.pc \notin Before /\ q.pc \notin {"load", "running"}
  BY <1>3, AnswerTyped DEF Before
<1>5. request' = [request EXCEPT ![r] = q]
  BY DEF AnswerAbout
<1> HIDE DEF q
<1> QED BY <1>3, <1>4, <1>5, ConfigGoOn

LEMMA ConfigRollback ==
    ASSUME TypeInv, ConfigInv, NEW r \in Requests, Rollback(r)
    PROVE  ConfigInv'
<1>1. "failed" \in Answers \ {"running"}
  BY DEF Answers
<1> QED BY <1>1, ConfigAnswer DEF Rollback

LEMMA ConfigStart ==
    ASSUME TypeInv, ConfigInv, NEW r \in Requests, Start(r)
    PROVE  ConfigInv'
<1>1. Keep /\ request[r].pc = "new"
  BY StartForm
<1>2. PICK q \in RequestType :
         /\ request' = [request EXCEPT ![r] = q]
         /\ \/ q.pc \in {"check", "delete", "notfound", "drop"} /\ q.found = Nothing
            \/ /\ r \in Runners /\ q.pc = "load"
               /\ q.agent \in Agents /\ There(q.agent) /\ q.found = Item(q.agent)
  BY StartForm
<1>3. r \in Runners /\ q.pc \in {"load", "running"} => Faithful(q.found.by, q.found.bases)
  <2> SUFFICES ASSUME q.agent \in Agents, There(q.agent), q.found = Item(q.agent)
               PROVE  Faithful(q.found.by, q.found.bases)
    BY <1>2
  <2>1. Faithful(agent[q.agent], attached[q.agent])
    BY DEF ConfigInv, DefinitionsAsked
  <2>2. q.found.by = agent[q.agent] /\ q.found.bases = attached[q.agent]
    BY DEF Item
  <2> QED BY <2>1, <2>2
<1>4. \/ q.found = Nothing \/ \E a \in Agents : q.found = Item(a)
  BY <1>2
<1> QED BY <1>1, <1>2, <1>3, <1>4, ConfigGoOn DEF Before

LEMMA ConfigProceeds ==
    ASSUME TypeInv, ConfigInv, NEW r \in Requests, Proceeds(r)
    PROVE  ConfigInv'
<1>1. PICK q \in RequestType :
         /\ request' = [request EXCEPT ![r] = q] /\ q.found = request[r].found
         /\ \/ q.pc \in {"check", "clear", "attach"} /\ request[r].pc \in {"check", "clear", "attach"}
            \/ q.pc \in {"load", "running"} /\ request[r].pc = "load"
            \/ q.pc = "cascade"
  BY ProceedsForm
<1>2. r \in Writers /\ q.pc \in Before => request[r].pc \in Before
  BY <1>1 DEF Before
<1>3. r \in Runners /\ q.pc \in {"load", "running"} => Faithful(q.found.by, q.found.bases)
  BY <1>1 DEF ConfigInv, RunsAsked
<1> QED BY <1>1, <1>2, <1>3, ProceedsForm, ConfigGoOn

\* The request that has committed, without what it is told.
LEMMA CommitForm ==
    ASSUME TypeInv, NEW w \in Writers, Commit(w), Publish(w)
    PROVE  \E q \in RequestType :
              /\ request' = [request EXCEPT ![w] = q] /\ q.found = Nothing
              /\ \/ q.pc = "readback" /\ q.agent = request[w].agent
                 \/ q.pc = "failed" /\ q.agent = None
<1>0. w \in Requests /\ request[w].agent \in Agents
  BY DEF Requests, Commit, AgentsKnown, TypeInv
<1>1. CASE request' = [request EXCEPT ![w] = Request("readback", @.op, @.agent)]
  <2> DEFINE q == Request("readback", request[w].op, request[w].agent)
  <2>1. request[w].op \in {"none", "create", "update", "delete", "run", "drop"}
    BY <1>0 DEF TypeInv, TypeOK
  <2>2. q \in RequestType
    BY <1>0, <2>1, RequestTyped DEF Steps
  <2>3. q.pc = "readback" /\ q.agent = request[w].agent /\ q.found = Nothing
    BY DEF Request
  <2>4. request' = [request EXCEPT ![w] = q]
    BY <1>1
  <2> HIDE DEF q
  <2> QED BY <2>2, <2>3, <2>4
<1>2. CASE Answer(w, "failed")
  <2> DEFINE q == Request("failed", "none", None)
  <2>1. "failed" \in Answers
    BY DEF Answers
  <2>2. q \in RequestType /\ q.pc = "failed" /\ q.agent = None /\ q.found = Nothing
    BY <2>1, AnswerTyped
  <2>3. request' = [request EXCEPT ![w] = q]
    BY <1>2 DEF Answer
  <2> HIDE DEF q
  <2> QED BY <2>2, <2>3
<1> QED BY <1>1, <1>2 DEF Commit, Fails, Rollback

LEMMA ConfigPublish ==
    ASSUME TypeInv, TransInv, ConfigInv, NEW w \in Writers, Commit(w), Publish(w)
    PROVE  ConfigInv'
<1> DEFINE a == request[w].agent
<1>0. /\ request[w].pc = "attach" /\ request[w].todo = {} /\ a \in Agents /\ w \in Requests
  BY DEF Requests, Commit, AgentsKnown, TypeInv
<1>1. PICK q \in RequestType :
         request' = [request EXCEPT ![w] = q] /\ q.found = Nothing /\ q.pc \in {"readback", "failed"}
  BY CommitForm
<1>2. \A p \in Requests : request'[p] = IF p = w THEN q ELSE request[p]
  BY <1>1 DEF TypeInv, TypeOK
<1>3. /\ \A e \in Agents : agent[e] # w
      /\ \A p \in Requests : request[p].found.by # w
  BY <1>0 DEF ConfigInv, Unseen
<1>4. /\ \A e \in Agents : agent'[e] = IF e = a THEN w ELSE agent[e]
      /\ \A v \in Writers \cup {None} : asked'[v] = IF v = w THEN request[w].wants ELSE asked[v]
      /\ base' = base
  BY DEF Publish, TypeInv, TypeOK
<1>5. \A e \in Agents : attached'[e] = IF e = a THEN request[w].wants ELSE attached[e]
  BY <1>0 DEF Publish, TransInv, Collected, TypeInv, TypeOK
<1>6. Unseen'
  BY <1>0, <1>1, <1>4, UnseenGoOn DEF ConfigInv, Before
<1>7. DefinitionsAsked'
  <2> SUFFICES ASSUME NEW e \in Agents, agent'[e] \in Writers \cup {None}
               PROVE  /\ attached'[e] \subseteq asked'[agent'[e]]
                      /\ asked'[agent'[e]] \cap base' \subseteq attached'[e]
    BY DEF DefinitionsAsked, There, Faithful
  <2>1. CASE e = a
    BY <1>4, <1>5, <2>1
  <2>2. CASE e # a
    BY <1>3, <1>4, <1>5, <2>2 DEF ConfigInv, DefinitionsAsked, There, Faithful
  <2> QED BY <2>1, <2>2
<1>8. RunsAsked'
  <2> SUFFICES ASSUME NEW r \in Runners, request'[r].pc \in {"load", "running"}
               PROVE  /\ request'[r].found.bases \subseteq asked'[request'[r].found.by]
                      /\ asked'[request'[r].found.by] \cap base' \subseteq request'[r].found.bases
    BY DEF RunsAsked, Faithful
  <2>1. r \in Requests /\ r # w
    BY RolesAssumption DEF Requests
  <2>2. request'[r] = request[r] /\ request[r].found.by \in Writers \cup {None}
    BY <1>2, <2>1 DEF TypeInv, TypeOK
  <2> QED BY <1>3, <1>4, <2>1, <2>2 DEF ConfigInv, RunsAsked, Faithful
<1> QED BY <1>6, <1>7, <1>8 DEF ConfigInv

LEMMA ConfigReadBack ==
    ASSUME TypeInv, ConfigInv, NEW w \in Writers, ReadBack(w)
    PROVE  ConfigInv'
<1>0. w \in Requests /\ request[w].pc = "readback" /\ request[w].agent \in Agents
  BY DEF Requests, ReadBack, AgentsKnown, TypeInv
<1>1. /\ Nothing \in [by : Writers \cup {None}, bases : SUBSET Bases]
      /\ {"saved", "notfound", "failed"} \subseteq Answers \ {"running"}
  BY DEF Nothing, Answers
<1>2. There(request[w].agent) =>
          Item(request[w].agent) \in [by : Writers \cup {None}, bases : SUBSET Bases]
  BY <1>0, ItemTyped DEF TypeInv
<1>3. CASE There(request[w].agent) /\ AnswerAbout(w, "saved", Item(request[w].agent)) /\ Keep
  BY <1>0, <1>1, <1>2, <1>3, ConfigAnswerAbout
<1>4. CASE AnswerAbout(w, "notfound", Nothing) /\ Keep
  BY <1>0, <1>1, <1>4, ConfigAnswerAbout
<1>5. CASE Answer(w, "failed") /\ Keep
  BY <1>0, <1>1, <1>5, ConfigAnswer
<1> QED BY <1>3, <1>4, <1>5 DEF ReadBack, Fails, Rollback

LEMMA ConfigDeleteAgent ==
    ASSUME TypeInv, ConfigInv, NEW w \in Writers, DeleteAgent(w)
    PROVE  ConfigInv'
<1> DEFINE a == request[w].agent
<1>0. w \in Requests /\ a \in Agents
  BY DEF Requests, DeleteAgent, AgentsKnown, TypeInv
<1>1. /\ Nothing \in [by : Writers \cup {None}, bases : SUBSET Bases]
      /\ {"done", "notfound", "failed"} \subseteq Answers \ {"running"}
  BY DEF Nothing, Answers
<1>2. CASE AnswerAbout(w, "notfound", Nothing) /\ Keep
  BY <1>0, <1>1, <1>2, ConfigAnswerAbout
<1>3. CASE Answer(w, "failed") /\ Keep
  BY <1>0, <1>1, <1>3, ConfigAnswer
<1>4. CASE /\ agent' = [agent EXCEPT ![a] = "deleted"] /\ attached' = [attached EXCEPT ![a] = {}]
           /\ UNCHANGED <<base, asked>>
           /\ Answer(w, "done") \/ Answer(w, "failed")
  <2>1. PICK q \in RequestType :
           request' = [request EXCEPT ![w] = q] /\ q.found = Nothing /\ q.pc \in {"done", "failed"}
    BY <1>1, <1>4, AnswerTyped DEF Answer
  <2>2. \A p \in Requests : request'[p] = IF p = w THEN q ELSE request[p]
    BY <2>1 DEF TypeInv, TypeOK
  <2>3. /\ \A e \in Agents : agent'[e] = IF e = a THEN "deleted" ELSE agent[e]
        /\ \A e \in Agents : e # a => attached'[e] = attached[e]
    BY <1>4 DEF TypeInv, TypeOK
  <2>4. Unseen'
    BY <1>0, <2>1, <2>3, UnseenGoOn DEF ConfigInv, Before
  <2>5. DefinitionsAsked'
    BY <1>4, <2>3, RolesAssumption DEF ConfigInv, DefinitionsAsked, There, Faithful
  <2>6. RunsAsked'
    BY <1>4, <2>1, <2>2 DEF ConfigInv, RunsAsked, Faithful, Requests
  <2> QED BY <2>4, <2>5, <2>6 DEF ConfigInv
<1> QED BY <1>2, <1>3, <1>4 DEF DeleteAgent, Fails, Rollback

LEMMA ConfigCascade ==
    ASSUME TypeInv, ConfigInv, NEW d \in Droppers, Cascade(d)
    PROVE  ConfigInv'
<1>0. d \in Requests
  BY DEF Requests
<1>1. {"done", "failed"} \subseteq Answers \ {"running"}
  BY DEF Answers
<1>2. CASE Answer(d, "failed") /\ Keep
  BY <1>0, <1>1, <1>2, ConfigAnswer
<1>3. CASE /\ base' = base \ request[d].todo
           /\ attached' = [a \in Agents |-> attached[a] \ request[d].todo]
           /\ UNCHANGED <<agent, asked>>
           /\ Answer(d, "done") \/ Answer(d, "failed")
  <2>1. PICK q \in RequestType :
           request' = [request EXCEPT ![d] = q] /\ q.found = Nothing /\ q.pc \in {"done", "failed"}
    BY <1>1, <1>3, AnswerTyped DEF Answer
  <2>2. \A p \in Requests : request'[p] = IF p = d THEN q ELSE request[p]
    BY <2>1 DEF TypeInv, TypeOK
  <2>3. Unseen'
    BY <1>0, <1>3, <2>1, UnseenGoOn DEF ConfigInv, Before
  <2>4. DefinitionsAsked'
    BY <1>3 DEF ConfigInv, DefinitionsAsked, There, Faithful
  <2>5. RunsAsked'
    BY <1>3, <2>1, <2>2 DEF ConfigInv, RunsAsked, Faithful, Requests
  <2> QED BY <2>3, <2>4, <2>5 DEF ConfigInv
<1> QED BY <1>2, <1>3 DEF Cascade, Fails, Rollback

LEMMA ConfigStep == TypeInv /\ TransInv /\ ConfigInv /\ [Next]_vars => ConfigInv'
<1> SUFFICES ASSUME TypeInv, TransInv, ConfigInv, [Next]_vars PROVE ConfigInv'
  OBVIOUS
<1>0. /\ Nothing \in [by : Writers \cup {None}, bases : SUBSET Bases]
      /\ {"rejected", "notfound"} \subseteq Answers \ {"running"}
  BY DEF Nothing, Answers
<1>1. ASSUME NEW r \in Requests, Continue(r) PROVE ConfigInv'
  BY <1>0, <1>1, ContinueForm, ConfigProceeds, ConfigRollback, ConfigAnswer, ConfigAnswerAbout,
     ConfigPublish, ConfigReadBack, ConfigDeleteAgent, ConfigCascade
<1>2. CASE BreakDeadlock
  BY <1>2, ConfigRollback DEF BreakDeadlock
<1>3. CASE UNCHANGED vars
  BY <1>3 DEF vars, ConfigInv, Unseen, DefinitionsAsked, RunsAsked, There, Faithful
<1> QED BY <1>1, <1>2, <1>3, ConfigStart DEF Next

\* A run is configured by one request, with all the bases its definition asked for but
\* those that are gone, whatever happened to the agent between the reads of RunSaved.
THEOREM RunsAreConfigured == Spec => []RunConfigured
<1>1. Init => TypeInv /\ TransInv /\ ConfigInv
  BY TypeInit, TransInit, ConfigInit
<1>2. TypeInv /\ TransInv /\ ConfigInv /\ [Next]_vars => (TypeInv /\ TransInv /\ ConfigInv)'
  BY TypeStep, TransStep, ConfigStep
<1>3. ConfigInv => RunConfigured
  BY DEF ConfigInv, RunsAsked, RunConfigured, Faithful
<1> QED BY <1>1, <1>2, <1>3, PTL DEF Spec

-----------------------------------------------------------------------------
(* What requests are told                                                  *)

LEMMA AnswerInit == Init => AnswerInv
<1> SUFFICES ASSUME Init PROVE AnswerInv
  OBVIOUS
<1>1. \A r \in Requests : request[r].pc = "new"
  BY DEF Init, Request
<1>2. Writers \subseteq Requests /\ commits = << >>
  BY DEF Init, Requests
<1>3. Alive
  BY <1>1, <1>2 DEF Alive
<1>4. LogInv
  BY <1>1, <1>2 DEF LogInv, Logged
<1>5. AnswersTrue
  BY <1>1, <1>2 DEF AnswersTrue
<1> QED BY <1>3, <1>4, <1>5 DEF AnswerInv

\* A request goes on to q, other than to its readback; an agent may be deleted whose row
\* nobody holds.
LEMMA AnswerGoOn ==
    ASSUME TypeInv, AnswerInv, NEW r \in Requests, NEW q \in RequestType,
           request' = [request EXCEPT ![r] = q], UNCHANGED commits,
           \A a \in Agents : agent'[a] = agent[a] \/ (agent'[a] = "deleted" /\ lock[a] = None),
           q.pc # "readback",
           r \in Writers /\ q.pc \in {"clear", "attach"} => agent'[q.agent] # "deleted",
           q.pc = "delete" => agent'[q.agent] # "unused",
           r \in Writers /\ q.pc \in Before \cup {"rejected"} => ~Logged(r),
           r \in Writers /\ q.pc = "saved" => Since(r, q.found.by),
           q.pc = "notfound" /\ q.agent # None => agent'[q.agent] = "deleted"
    PROVE  AnswerInv'
<1>1. \A p \in Requests : request'[p] = IF p = r THEN q ELSE request[p]
  BY DEF TypeInv, TypeOK
<1>2. Writers \subseteq Requests
  BY DEF Requests
<1>3. /\ \A w \in Writers : Logged(w)' <=> Logged(w)
      /\ \A w, v : Since(w, v) => \E i, j \in DOMAIN commits' :
                                      i <= j /\ commits'[i] = w /\ commits'[j] = v
  BY DEF Logged, Since
<1>4. Alive'
  <2>1. ASSUME NEW w \in Writers, request'[w].pc \in {"clear", "attach"}
        PROVE  agent'[request'[w].agent] # "deleted"
    <3>1. CASE w = r
      BY <1>1, <1>2, <2>1, <3>1
    <3>2. CASE w # r
      <4>1. request'[w] = request[w] /\ request[w].agent \in Agents /\ lock[request[w].agent] = w
        BY <1>1, <1>2, <2>1, <3>2 DEF TypeInv, TypeOK
      <4>2. w # None /\ agent[request[w].agent] # "deleted"
        BY <2>1, <4>1, RolesAssumption DEF AnswerInv, Alive
      <4> QED BY <4>1, <4>2
    <3> QED BY <3>1, <3>2
  <2>2. ASSUME NEW p \in Requests, request'[p].pc \in {"readback", "delete"}
        PROVE  agent'[request'[p].agent] # "unused"
    <3>1. CASE p = r
      BY <1>1, <2>2, <3>1
    <3>2. CASE p # r
      <4>1. request'[p] = request[p] /\ request[p].agent \in Agents
        BY <1>1, <2>2, <3>2 DEF TypeInv, AgentsKnown
      <4> QED BY <2>2, <4>1 DEF AnswerInv, Alive
    <3> QED BY <3>1, <3>2
  <2> QED BY <2>1, <2>2 DEF Alive
<1>5. LogInv'
  <2> SUFFICES ASSUME NEW w \in Writers
               PROVE  /\ request'[w].pc \in {"new", "check", "clear", "attach", "rejected"} => ~Logged(w)'
                      /\ request'[w].pc = "readback" =>
                            \/ agent'[request'[w].agent] = "deleted"
                            \/ \E i, j \in DOMAIN commits' :
                                  i <= j /\ commits'[i] = w /\ commits'[j] = agent'[request'[w].agent]
    BY DEF LogInv, Since
  <2>1. CASE w = r
    BY <1>1, <1>2, <1>3, <2>1 DEF Before
  <2>2. CASE w # r
    <3>1. request'[w] = request[w]
      BY <1>1, <1>2, <2>2
    <3>2. request[w].pc \in {"new", "check", "clear", "attach", "rejected"} => ~Logged(w)
      BY DEF AnswerInv, LogInv
    <3>3. ASSUME request[w].pc = "readback"
          PROVE  \/ agent'[request[w].agent] = "deleted"
                 \/ Since(w, agent'[request[w].agent])
      <4>1. request[w].agent \in Agents
        BY <1>2, <3>3 DEF TypeInv, AgentsKnown
      <4>2. agent[request[w].agent] = "deleted" \/ Since(w, agent[request[w].agent])
        BY <3>3 DEF AnswerInv, LogInv
      <4>3. CASE agent'[request[w].agent] = agent[request[w].agent]
        BY <4>2, <4>3
      <4>4. CASE agent'[request[w].agent] = "deleted"
        BY <4>4
      <4> QED BY <4>1, <4>3, <4>4
    <3> QED BY <1>3, <3>1, <3>2, <3>3
  <2> QED BY <2>1, <2>2
<1>6. AnswersTrue'
  <2>1. ASSUME NEW w \in Writers
        PROVE  /\ request'[w].pc = "saved" =>
                     \E i, j \in DOMAIN commits' :
                         i <= j /\ commits'[i] = w /\ commits'[j] = request'[w].found.by
               /\ request'[w].pc = "rejected" => \A i \in DOMAIN commits' : commits'[i] # w
    <3>1. CASE w = r
      BY <1>1, <1>2, <1>3, <3>1 DEF Logged
    <3>2. CASE w # r
      BY <1>1, <1>2, <3>2 DEF AnswerInv, AnswersTrue
    <3> QED BY <3>1, <3>2
  <2>2. ASSUME NEW p \in Requests, request'[p].pc = "notfound", request'[p].agent # None
        PROVE  agent'[request'[p].agent] = "deleted"
    <3>1. CASE p = r
      BY <1>1, <2>2, <3>1
    <3>2. CASE p # r
      <4>1. request'[p] = request[p] /\ request[p].agent \in Agents
        BY <1>1, <2>2, <3>2 DEF TypeInv, TypeOK
      <4> QED BY <2>2, <4>1 DEF AnswerInv, AnswersTrue
    <3> QED BY <3>1, <3>2
  <2> QED BY <2>1, <2>2 DEF AnswersTrue
<1> QED BY <1>4, <1>5, <1>6 DEF AnswerInv

\* An answer that says nothing of the agent.
LEMMA AnswerPlain ==
    ASSUME TypeInv, AnswerInv, NEW r \in Requests, NEW answer \in Answers \ {"saved"},
           Answer(r, answer), UNCHANGED commits,
           \A a \in Agents : agent'[a] = agent[a] \/ (agent'[a] = "deleted" /\ lock[a] = None),
           r \in Writers /\ answer = "rejected" => request[r].pc = "check"
    PROVE  AnswerInv'
<1> DEFINE q == Request(answer, "none", None)
<1>1. q \in RequestType /\ q.pc = answer /\ q.agent = None
      /\ answer \notin {"new", "check", "clear", "attach", "readback", "delete", "saved"}
  BY AnswerTyped
<1>2. request' = [request EXCEPT ![r] = q]
  BY DEF Answer
<1>3. r \in Writers /\ q.pc \in Before \cup {"rejected"} => ~Logged(r)
  BY <1>1 DEF AnswerInv, LogInv, Before
<1> HIDE DEF q
<1> QED BY <1>1, <1>2, <1>3, AnswerGoOn

LEMMA AnswerRollback ==
    ASSUME TypeInv, AnswerInv, NEW r \in Requests, Rollback(r)
    PROVE  AnswerInv'
<1>1. "failed" \in Answers \ {"saved"}
  BY DEF Answers
<1> QED BY <1>1, AnswerPlain DEF Rollback, Keep

\* An answer that shows an agent, or says that it is gone.
LEMMA AnswerShows ==
    ASSUME TypeInv, AnswerInv, NEW r \in Requests, NEW answer \in {"saved", "notfound"}, Keep,
           NEW found \in [by : Writers \cup {None}, bases : SUBSET Bases],
           AnswerAbout(r, answer, found),
           answer = "saved" => r \in Writers /\ Since(r, found.by),
           answer = "notfound" => agent[request[r].agent] = "deleted"
    PROVE  AnswerInv'
<1> DEFINE q == [Request(answer, "none", request[r].agent) EXCEPT !.found = found]
<1>1. request[r].agent \in Agents \cup {None} /\ answer \in Steps
  BY DEF TypeInv, TypeOK, Steps, Answers
<1>2. Request(answer, "none", request[r].agent) \in RequestType
  BY <1>1, RequestTyped
<1>3. q \in RequestType /\ q.pc = answer /\ q.found = found /\ q.agent = request[r].agent
  BY <1>2 DEF RequestType, Request
<1>4. request' = [request EXCEPT ![r] = q]
  BY DEF AnswerAbout
<1> HIDE DEF q
<1>5. q.pc \notin {"readback", "clear", "attach", "delete", "rejected"} /\ q.pc \notin Before
  BY <1>3 DEF Before
<1>6. UNCHANGED <<agent, commits>>
  BY DEF Keep
<1> QED BY <1>3, <1>4, <1>5, <1>6, AnswerGoOn

LEMMA AnswerStart ==
    ASSUME TypeInv, AnswerInv, NEW r \in Requests, Start(r)
    PROVE  AnswerInv'
<1>1. UNCHANGED <<agent, commits>> /\ request[r].pc = "new"
  BY StartForm DEF Keep
<1>2. PICK q \in RequestType :
         /\ request' = [request EXCEPT ![r] = q]
         /\ \/ q.pc = "check"
            \/ q.pc = "delete" /\ agent[q.agent] # "unused"
            \/ q.pc = "notfound" /\ agent[q.agent] = "deleted"
            \/ q.pc \in {"load", "drop"}
  BY StartForm
<1>3. r \in Writers => ~Logged(r)
  BY <1>1 DEF AnswerInv, LogInv
<1> QED BY <1>1, <1>2, <1>3, AnswerGoOn

LEMMA AnswerProceeds ==
    ASSUME TypeInv, AnswerInv, NEW r \in Requests, Proceeds(r)
    PROVE  AnswerInv'
<1>1. UNCHANGED <<agent, commits>>
  BY ProceedsForm DEF Keep
<1>2. PICK q \in RequestType :
         /\ request' = [request EXCEPT ![r] = q] /\ q.agent = request[r].agent
         /\ \/ q.pc = "check" /\ request[r].pc = "check"
            \/ q.pc = "clear" /\ request[r].pc = "check" /\ agent[q.agent] # "deleted"
            \/ q.pc = "attach" /\ request[r].pc \in {"clear", "attach"}
            \/ q.pc \in {"load", "running", "cascade"}
  BY ProceedsForm
<1>3. r \in Writers /\ q.pc \in Before \cup {"rejected"} => ~Logged(r)
  BY <1>2 DEF AnswerInv, LogInv, Before
<1>4. r \in Writers /\ q.pc \in {"clear", "attach"} => agent'[q.agent] # "deleted"
  BY <1>1, <1>2 DEF AnswerInv, Alive
<1>5. q.pc \notin {"readback", "delete", "saved", "notfound"}
  BY <1>2
<1> QED BY <1>1, <1>2, <1>3, <1>4, <1>5, AnswerGoOn

\* The log grows: what was in it, in its order, still is.
LEMMA LogGrows ==
    ASSUME TypeOK, NEW w \in Writers, commits' = Append(commits, w)
    PROVE  /\ \A v : Since(v, w)' <=> (v = w \/ Logged(v))
           /\ \A v, u : Since(v, u) => \E i, j \in DOMAIN commits' :
                                          i <= j /\ commits'[i] = v /\ commits'[j] = u
           /\ \A v : Logged(v)' <=> (v = w \/ Logged(v))
<1> DEFINE n == Len(commits)
<1>1. /\ n \in Nat /\ DOMAIN commits = 1 .. n /\ DOMAIN commits' = 1 .. (n + 1)
      /\ commits'[n + 1] = w
      /\ \A i \in 1 .. n : commits'[i] = commits[i]
  BY DEF TypeOK
<1> HIDE DEF n
<1>2. \A v : Logged(v)' <=> (v = w \/ Logged(v))
  BY <1>1 DEF Logged
<1>3. \A v, u : Since(v, u) => \E i, j \in DOMAIN commits' :
                                   i <= j /\ commits'[i] = v /\ commits'[j] = u
  BY <1>1 DEF Since
<1>4. ASSUME NEW v
      PROVE  (\E i, j \in DOMAIN commits' : i <= j /\ commits'[i] = v /\ commits'[j] = w)
                <=> (\E i \in DOMAIN commits' : commits'[i] = v)
  <2>1. \A i \in DOMAIN commits' : i <= n + 1 /\ n + 1 \in DOMAIN commits'
    BY <1>1
  <2> QED BY <1>1, <2>1
<1> QED BY <1>2, <1>3, <1>4 DEF Since, Logged

LEMMA AnswerPublish ==
    ASSUME TypeInv, AnswerInv, NEW w \in Writers, Commit(w), Publish(w)
    PROVE  AnswerInv'
<1> DEFINE a == request[w].agent
<1>0. /\ request[w].pc = "attach" /\ a \in Agents /\ w \in Requests /\ lock[a] = w
      /\ agent[a] # "deleted" /\ w # "unused" /\ w # "deleted" /\ Writers \subseteq Requests
  BY RolesAssumption DEF Requests, Commit, AgentsKnown, TypeInv, TypeOK, AnswerInv, Alive
<1>1. PICK q \in RequestType :
         /\ request' = [request EXCEPT ![w] = q]
         /\ \/ q.pc = "readback" /\ q.agent = a
            \/ q.pc = "failed"
  BY CommitForm
<1>2. \A p \in Requests : request'[p] = IF p = w THEN q ELSE request[p]
  BY <1>1 DEF TypeInv, TypeOK
<1>3. /\ \A e \in Agents : agent'[e] = IF e = a THEN w ELSE agent[e]
      /\ commits' = Append(commits, w)
  BY DEF Publish, TypeInv, TypeOK
<1>4. /\ \A v : (\E i, j \in DOMAIN commits' : i <= j /\ commits'[i] = v /\ commits'[j] = w)
                    <=> (v = w \/ Logged(v))
      /\ \A v, u : Since(v, u) => \E i, j \in DOMAIN commits' :
                                     i <= j /\ commits'[i] = v /\ commits'[j] = u
      /\ \A v : (\E i \in DOMAIN commits' : commits'[i] = v) <=> (v = w \/ Logged(v))
  BY <1>3, LogGrows DEF TypeInv, Since, Logged
<1>5. Alive'
  <2>1. ASSUME NEW v \in Writers, request'[v].pc \in {"clear", "attach"}
        PROVE  agent'[request'[v].agent] # "deleted"
    <3>1. v # w /\ request'[v] = request[v] /\ request[v].agent \in Agents
      BY <1>0, <1>1, <1>2, <2>1 DEF TypeInv, AgentsKnown
    <3> QED BY <1>0, <1>3, <2>1, <3>1 DEF AnswerInv, Alive
  <2>2. ASSUME NEW p \in Requests, request'[p].pc \in {"readback", "delete"}
        PROVE  agent'[request'[p].agent] # "unused"
    <3>1. CASE p = w
      BY <1>0, <1>1, <1>2, <1>3, <2>2, <3>1
    <3>2. CASE p # w
      <4>1. request'[p] = request[p] /\ request[p].agent \in Agents
        BY <1>2, <2>2, <3>2 DEF TypeInv, AgentsKnown
      <4> QED BY <1>0, <1>3, <2>2, <4>1 DEF AnswerInv, Alive
    <3> QED BY <3>1, <3>2
  <2> QED BY <2>1, <2>2 DEF Alive
<1>6. LogInv'
  <2> SUFFICES ASSUME NEW v \in Writers
               PROVE  /\ request'[v].pc \in {"new", "check", "clear", "attach", "rejected"} =>
                            ~\E i \in DOMAIN commits' : commits'[i] = v
                      /\ request'[v].pc = "readback" =>
                            \/ agent'[request'[v].agent] = "deleted"
                            \/ \E i, j \in DOMAIN commits' :
                                  i <= j /\ commits'[i] = v /\ commits'[j] = agent'[request'[v].agent]
    BY DEF LogInv, Since, Logged
  <2>1. CASE v = w
    BY <1>0, <1>1, <1>2, <1>3, <1>4, <2>1
  <2>2. CASE v # w
    <3>1. request'[v] = request[v]
      BY <1>0, <1>2, <2>2
    <3>2. request[v].pc \in {"new", "check", "clear", "attach", "rejected"} => ~Logged(v)
      BY DEF AnswerInv, LogInv
    <3>3. ASSUME request[v].pc = "readback"
          PROVE  \/ agent'[request[v].agent] = "deleted"
                 \/ \E i, j \in DOMAIN commits' :
                       i <= j /\ commits'[i] = v /\ commits'[j] = agent'[request[v].agent]
      <4>1. request[v].agent \in Agents
        BY <1>0, <3>3 DEF TypeInv, AgentsKnown
      <4>2. agent[request[v].agent] = "deleted" \/ Since(v, agent[request[v].agent])
        BY <3>3 DEF AnswerInv, LogInv
      <4>3. CASE request[v].agent = a
        <5>1. Since(v, agent[a]) => Logged(v)
          BY DEF Since, Logged
        <5> QED BY <1>0, <1>3, <1>4, <4>2, <4>3, <5>1
      <4>4. CASE request[v].agent # a
        BY <1>3, <1>4, <4>1, <4>2, <4>4
      <4> QED BY <4>3, <4>4
    <3> QED BY <1>4, <2>2, <3>1, <3>2, <3>3
  <2> QED BY <2>1, <2>2
<1>7. AnswersTrue'
  <2>1. ASSUME NEW v \in Writers
        PROVE  /\ request'[v].pc = "saved" =>
                     \E i, j \in DOMAIN commits' :
                         i <= j /\ commits'[i] = v /\ commits'[j] = request'[v].found.by
               /\ request'[v].pc = "rejected" => \A i \in DOMAIN commits' : commits'[i] # v
    <3>1. CASE v = w
      BY <1>0, <1>1, <1>2, <3>1
    <3>2. CASE v # w
      <4>1. request'[v] = request[v]
        BY <1>0, <1>2, <3>2
      <4>2. /\ request[v].pc = "saved" => Since(v, request[v].found.by)
            /\ request[v].pc = "rejected" => ~Logged(v)
        BY DEF AnswerInv, AnswersTrue, LogInv, Since
      <4> QED BY <1>4, <3>2, <4>1, <4>2
    <3> QED BY <3>1, <3>2
  <2>2. ASSUME NEW p \in Requests, request'[p].pc = "notfound", request'[p].agent # None
        PROVE  agent'[request'[p].agent] = "deleted"
    <3>1. p # w /\ request'[p] = request[p] /\ request[p].agent \in Agents
      BY <1>1, <1>2, <2>2 DEF TypeInv, TypeOK
    <3>2. agent[request[p].agent] = "deleted"
      BY <2>2, <3>1 DEF AnswerInv, AnswersTrue
    <3> QED BY <1>0, <1>3, <3>1, <3>2
  <2> QED BY <2>1, <2>2 DEF AnswersTrue
<1> QED BY <1>5, <1>6, <1>7 DEF AnswerInv

LEMMA AnswerReadBack ==
    ASSUME TypeInv, AnswerInv, NEW w \in Writers, ReadBack(w)
    PROVE  AnswerInv'
<1> DEFINE a == request[w].agent
<1>0. w \in Requests /\ request[w].pc = "readback" /\ a \in Agents
  BY DEF Requests, ReadBack, AgentsKnown, TypeInv
<1>1. agent[a] # "unused" /\ (agent[a] = "deleted" \/ Since(w, agent[a]))
  BY <1>0 DEF AnswerInv, Alive, LogInv
<1>2. CASE There(a) /\ AnswerAbout(w, "saved", Item(a)) /\ Keep
  <2>1. Item(a) \in [by : Writers \cup {None}, bases : SUBSET Bases] /\ Item(a).by = agent[a]
    BY <1>0, <1>2, ItemTyped DEF TypeInv, Item
  <2>2. Since(w, Item(a).by)
    BY <1>1, <1>2, <2>1, RolesAssumption DEF There
  <2> QED BY <1>0, <1>2, <2>1, <2>2, AnswerShows
<1>3. CASE ~There(a) /\ AnswerAbout(w, "notfound", Nothing) /\ Keep
  <2>1. agent[a] = "deleted"
    BY <1>0, <1>1, <1>3 DEF There, TypeInv, TypeOK
  <2>2. Nothing \in [by : Writers \cup {None}, bases : SUBSET Bases]
    BY DEF Nothing
  <2> QED BY <1>0, <1>3, <2>1, <2>2, AnswerShows
<1>4. CASE Answer(w, "failed") /\ Keep
  <2>1. "failed" \in Answers \ {"saved"}
    BY DEF Answers
  <2> QED BY <1>0, <1>4, <2>1, AnswerPlain DEF Keep
<1> QED BY <1>2, <1>3, <1>4 DEF ReadBack, Fails, Rollback

LEMMA AnswerDeleteAgent ==
    ASSUME TypeInv, AnswerInv, NEW w \in Writers, DeleteAgent(w)
    PROVE  AnswerInv'
<1> DEFINE a == request[w].agent
<1>0. w \in Requests /\ request[w].pc = "delete" /\ a \in Agents /\ lock[a] = None
  BY DEF Requests, DeleteAgent, AgentsKnown, TypeInv
<1>1. {"done", "failed"} \subseteq Answers \ {"saved", "rejected"}
  BY DEF Answers
<1>2. CASE ~There(a) /\ AnswerAbout(w, "notfound", Nothing) /\ Keep
  <2>1. agent[a] = "deleted"
    BY <1>0, <1>2 DEF There, TypeInv, TypeOK, AnswerInv, Alive
  <2>2. Nothing \in [by : Writers \cup {None}, bases : SUBSET Bases]
    BY DEF Nothing
  <2> QED BY <1>0, <1>2, <2>1, <2>2, AnswerShows
<1>3. CASE Answer(w, "failed") /\ Keep
  BY <1>0, <1>1, <1>3, AnswerPlain DEF Keep
<1>4. CASE /\ agent' = [agent EXCEPT ![a] = "deleted"] /\ UNCHANGED commits
           /\ Answer(w, "done") \/ Answer(w, "failed")
  <2>1. \A e \in Agents : agent'[e] = agent[e] \/ (agent'[e] = "deleted" /\ lock[e] = None)
    BY <1>0, <1>4 DEF TypeInv, TypeOK
  <2> QED BY <1>0, <1>1, <1>4, <2>1, AnswerPlain
<1> QED BY <1>2, <1>3, <1>4 DEF DeleteAgent, Fails, Rollback

LEMMA AnswerStep == TypeInv /\ AnswerInv /\ [Next]_vars => AnswerInv'
<1> SUFFICES ASSUME TypeInv, AnswerInv, [Next]_vars PROVE AnswerInv'
  OBVIOUS
<1>0. /\ Nothing \in [by : Writers \cup {None}, bases : SUBSET Bases]
      /\ {"rejected", "notfound", "done", "failed"} \subseteq Answers \ {"saved"}
  BY DEF Nothing, Answers
<1>1. ASSUME NEW r \in Requests, Continue(r) PROVE AnswerInv'
  <2>1. CASE Answer(r, "rejected") /\ Keep /\ request[r].pc \in {"check", "load"}
    <3>1. r \in Writers => request[r].pc = "check"
      BY <1>1, <2>1, RolesAssumption DEF Continue, CheckBase, RefuseWrite, WriteRow, ClearBases,
         AttachBase, Commit, ReadBack, DeleteAgent
    <3> QED BY <1>0, <2>1, <3>1, AnswerPlain DEF Keep
  <2>2. CASE r \in Droppers /\ Answer(r, "notfound") /\ Keep
    BY <1>0, <2>2, AnswerPlain DEF Keep
  <2>3. CASE r \in Droppers /\ Cascade(r)
    BY <1>0, <2>3, AnswerPlain DEF Cascade, Fails, Rollback, Keep
  <2>4. CASE AnswerAbout(r, "notfound", Nothing) /\ Keep /\ agent[request[r].agent] = "deleted"
    BY <1>0, <2>4, AnswerShows
  <2> QED BY <1>1, <2>1, <2>2, <2>3, <2>4, ContinueForm, AnswerProceeds, AnswerRollback,
             AnswerPublish, AnswerReadBack, AnswerDeleteAgent
<1>2. CASE BreakDeadlock
  BY <1>2, AnswerRollback DEF BreakDeadlock
<1>3. CASE UNCHANGED vars
  BY <1>3 DEF vars, AnswerInv, Alive, LogInv, Logged, Since, AnswersTrue
<1> QED BY <1>1, <1>2, <1>3, AnswerStart DEF Next

\* What a request is told is so: a save that succeeds was committed and shows its own
\* definition or a later one, one that is rejected left nothing, and an agent that was not
\* found will not be there again.
THEOREM AnswersAreTrue == Spec => []AnswersTrue
<1>1. Init => TypeInv /\ AnswerInv
  BY TypeInit, AnswerInit
<1>2. TypeInv /\ AnswerInv /\ [Next]_vars => (TypeInv /\ AnswerInv)'
  BY TypeStep, AnswerStep
<1>3. AnswerInv => AnswersTrue
  BY DEF AnswerInv
<1> QED BY <1>1, <1>2, <1>3, PTL DEF Spec

=============================================================================
