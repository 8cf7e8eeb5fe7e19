------------------------------ MODULE Session ------------------------------
(***************************************************************************)
(* The sessions of one user: Login, Refresh and Logout (handlers/auth/     *)
(* auth.go), the refresh tokens they mint and keep in Redis (utils/        *)
(* tokens.go), and the refresh_token cookie of each of the user's clients. *)
(*                                                                         *)
(* A refresh token is signed from the user and the second it expires in    *)
(* and has no identifier: tokens of one user are the same if, and only if, *)
(* they were minted in the same second.  So a token is its second.  Access *)
(* tokens are not kept anywhere, and lifetimes are many days: both are     *)
(* left out.  One action is one Redis command with the local computation   *)
(* up to the next.                                                         *)
(***************************************************************************)
EXTENDS Naturals, FiniteSets

CONSTANTS
    Clients,    \* browsers of the user
    Handlers,   \* slots for requests in progress
    None,       \* no token, no client
    Faults,     \* the failures the environment may inject
    MaxTime     \* bound on the clock

\* "error": a command fails and has no effect.  "lost": it takes effect, and its
\* caller sees an error, or the client does not get the response.
ASSUME FaultsAssumption == Faults \subseteq {"error", "lost"}
ASSUME BoundAssumption == MaxTime \in Nat
ASSUME NoneAssumption  == None \notin Clients \cup 0 .. MaxTime

VARIABLES
    now,        \* the current second
    stored,     \* the tokens with a key in Redis
    cookie,     \* the refresh_token cookie of each client
    handler,    \* each request: next step, client, the token it came with, the one it minted
    minted,     \* tokens minted so far (history)
    reminted,   \* tokens minted more than once (history)
    used,       \* tokens that a refresh or a logout was accepted for (history)
    revoked     \* tokens whose key was deleted (history)

history == <<minted, reminted, used, revoked>>
vars    == <<now, stored, cookie, handler, minted, reminted, used, revoked>>

-----------------------------------------------------------------------------

Token        == 0 .. MaxTime
HandlerSteps == {"idle", "get", "mint", "store", "revoke", "undo", "respond", "logout", "clear"}

Handler(pc, c, old) == [pc |-> pc, client |-> c, old |-> old, new |-> None]
NoRequest           == Handler("idle", None, None)

Outcomes   == {"ok"} \cup Faults
Applied(o) == o # "error"

Init ==
    /\ now = 0
    /\ stored = {}
    /\ cookie = [c \in Clients |-> None]
    /\ handler = [h \in Handlers |-> NoRequest]
    /\ minted = {} /\ reminted = {} /\ used = {} /\ revoked = {}

Tick ==
    /\ now < MaxTime
    /\ now' = now + 1
    /\ UNCHANGED <<stored, cookie, handler, history>>

Start(h, c, pc, old) ==
    /\ handler[h].pc = "idle"
    /\ handler' = [handler EXCEPT ![h] = Handler(pc, c, old)]

Goto(h, pc) == handler' = [handler EXCEPT ![h].pc = pc]
Return(h)   == handler' = [handler EXCEPT ![h] = NoRequest]

\* RevokeRefreshToken: deletes the key of t if o says that this takes effect.
Del(t, o) ==
    IF Applied(o) THEN stored' = stored \ {t} /\ revoked' = revoked \cup {t}
                  ELSE UNCHANGED <<stored, revoked>>

-----------------------------------------------------------------------------
(* Handlers                                                                *)

\* The password is right.  Tokens the client may still have are not looked at.
Login(h, c) ==
    /\ Start(h, c, "mint", None)
    /\ UNCHANGED <<now, stored, cookie, history>>

\* The request carries the cookie the client has at the time.
Refresh(h, c) ==
    /\ cookie[c] # None
    /\ Start(h, c, "get", cookie[c])
    /\ UNCHANGED <<now, stored, cookie, history>>

\* Mutant: the signature of the token is enough.
GetUnchecked(h) ==
    /\ handler[h].pc = "get"
    /\ Goto(h, "mint")
    /\ UNCHANGED <<now, stored, cookie, history>>

\* GetStoredRefreshToken: not there, or an error, is a 401 that leaves the cookies.
GetStored(h) ==
    /\ handler[h].pc = "get"
    /\ \/ /\ handler[h].old \in stored
          /\ Goto(h, "mint")
          /\ used' = used \cup {handler[h].old}
       \/ /\ handler[h].old \notin stored \/ Faults # {}
          /\ Return(h)
          /\ UNCHANGED used
    /\ UNCHANGED <<now, stored, cookie, minted, reminted, revoked>>

\* CreateRefreshToken
Mint(h) ==
    /\ handler[h].pc = "mint"
    /\ handler'  = [handler EXCEPT ![h].pc = "store", ![h].new = now]
    /\ minted'   = minted \cup {now}
    /\ reminted' = IF now \in minted THEN reminted \cup {now} ELSE reminted
    /\ UNCHANGED <<now, stored, cookie, used, revoked>>

\* Mutant: the error is not noticed.
StoreUnchecked(h) ==
    /\ handler[h].pc = "store"
    /\ \E o \in Outcomes :
          stored' = IF Applied(o) THEN stored \cup {handler[h].new} ELSE stored
    /\ Goto(h, IF handler[h].old = None THEN "respond" ELSE "revoke")
    /\ UNCHANGED <<now, cookie, history>>

\* StoreRefreshToken; an error is a 500.
Store(h) ==
    /\ handler[h].pc = "store"
    /\ \E o \in Outcomes :
          /\ stored' = IF Applied(o) THEN stored \cup {handler[h].new} ELSE stored
          /\ IF o # "ok" THEN Return(h)
             ELSE Goto(h, IF handler[h].old = None THEN "respond" ELSE "revoke")
    /\ UNCHANGED <<now, cookie, history>>

\* Refresh revokes the token it came with.
Revoke(h) ==
    /\ handler[h].pc = "revoke"
    /\ \E o \in Outcomes :
          /\ Del(handler[h].old, o)
          /\ Goto(h, IF o = "ok" THEN "respond" ELSE "undo")
    /\ UNCHANGED <<now, cookie, minted, reminted, used>>

\* Mutant: the token that came in is stored again.
UndoRestores(h) ==
    /\ handler[h].pc = "undo"
    /\ stored' = (stored \ {handler[h].new}) \cup {handler[h].old}
    /\ Return(h)
    /\ UNCHANGED <<now, cookie, history>>

\* If that fails, the new one is revoked; an error of this is ignored.
Undo(h) ==
    /\ handler[h].pc = "undo"
    /\ \E o \in Outcomes : Del(handler[h].new, o)
    /\ Return(h)
    /\ UNCHANGED <<now, cookie, minted, reminted, used>>

\* SetAuthCookies: the client has the new token, if the response gets there.
Respond(h) ==
    /\ handler[h].pc = "respond"
    /\ \/ cookie' = [cookie EXCEPT ![handler[h].client] = handler[h].new]
       \/ "lost" \in Faults /\ UNCHANGED cookie
    /\ Return(h)
    /\ UNCHANGED <<now, stored, history>>

Logout(h, c) ==
    /\ Start(h, c, "logout", cookie[c])
    /\ UNCHANGED <<now, stored, cookie, history>>

\* Mutant: an empty cookie is not told apart.
RevokeAnythingAtLogout(h) ==
    /\ handler[h].pc = "logout"
    /\ \E o \in Outcomes : Del(handler[h].old, o)
    /\ used' = used \cup {handler[h].old}
    /\ Goto(h, "clear")
    /\ UNCHANGED <<now, cookie, minted, reminted>>

\* The token of the cookie, if there is one, is revoked; an error is ignored.
RevokeAtLogout(h) ==
    /\ handler[h].pc = "logout"
    /\ IF handler[h].old = None
       THEN UNCHANGED <<stored, used, revoked>>
       ELSE /\ \E o \in Outcomes : Del(handler[h].old, o)
            /\ used' = used \cup {handler[h].old}
    /\ Goto(h, "clear")
    /\ UNCHANGED <<now, cookie, minted, reminted>>

\* ClearAuthCookies
Clear(h) ==
    /\ handler[h].pc = "clear"
    /\ \/ cookie' = [cookie EXCEPT ![handler[h].client] = None]
       \/ "lost" \in Faults /\ UNCHANGED cookie
    /\ Return(h)
    /\ UNCHANGED <<now, stored, history>>

\* The process ends with the requests in progress; Redis and the clients stay.
Crash ==
    /\ \E h \in Handlers : handler[h].pc # "idle"
    /\ "error" \in Faults
    /\ handler' = [h \in Handlers |-> NoRequest]
    /\ UNCHANGED <<now, stored, cookie, history>>

Next ==
    \/ Tick \/ Crash
    \/ \E h \in Handlers :
          \/ \E c \in Clients : Login(h, c) \/ Refresh(h, c) \/ Logout(h, c)
          \/ GetStored(h) \/ Mint(h) \/ Store(h) \/ Revoke(h) \/ Undo(h) \/ Respond(h)
          \/ RevokeAtLogout(h) \/ Clear(h)

Spec == Init /\ [][Next]_vars

-----------------------------------------------------------------------------
(* Properties                                                              *)

TypeOK ==
    /\ now \in Token
    /\ stored \subseteq Token
    /\ cookie \in [Clients -> Token \cup {None}]
    /\ handler \in [Handlers -> [pc : HandlerSteps, client : Clients \cup {None},
                                 old : Token \cup {None}, new : Token \cup {None}]]
    /\ reminted \subseteq minted /\ minted \subseteq Token
    /\ used \subseteq minted /\ revoked \subseteq minted

\* A client is not logged out behind its back: a token in its cookie that was minted
\* once is valid, unless it was itself used to refresh or to log out.  Requests of
\* other tabs and clients that overlap, commands that fail and crashes do not take it.
CookieAlive ==
    \A c \in Clients :
        cookie[c] # None /\ cookie[c] \notin reminted
            => cookie[c] \in stored \cup used

\* A token that has been revoked, by a rotation, by its undoing or by a logout, is
\* not valid again, unless it was minted again within its second.
RevokedStaysRevoked ==
    \A t \in revoked \ reminted : t \notin stored

\* A refresh token is exchanged only while it is valid: a refresh that goes on to
\* mint had its token stored when it looked, so one that starts when the token has been
\* revoked gets nothing.
ExchangedWhenValid ==
    [][\A h \in Handlers :
          handler[h].pc = "get" /\ handler'[h].pc = "mint"
              => handler[h].old \notin revoked \ reminted]_vars

\* "Token refreshed" (handlers/auth/auth.go) is answered with a token that is valid,
\* if nothing else goes on.
RefreshedTokenValid ==
    \A h \in Handlers :
        /\ handler[h].pc = "respond" /\ handler[h].old # None
        /\ \A g \in Handlers \ {h} : handler[g].pc = "idle"
        => handler[h].new \in stored

=============================================================================
