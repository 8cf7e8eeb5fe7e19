--------------------------- MODULE SessionProofs ---------------------------
(***************************************************************************)
(* Theorems about Session for every set of clients and handlers, every     *)
(* bound on the clock and every combination of faults.                     *)
(***************************************************************************)
EXTENDS Session, TLAPS

-----------------------------------------------------------------------------
(* The invariant                                                           *)

\* Some client, request or past request has had token t: it has left the handler
\* that minted it.
Sent(t) ==
    \/ t \in used
    \/ \E c \in Clients : cookie[c] = t
    \/ \E h \in Handlers : handler[h].old = t

\* A token that anybody has was minted.
AllMinted ==
    /\ \A c \in Clients : cookie[c] # None => cookie[c] \in minted
    /\ \A h \in Handlers :
          /\ handler[h].old # None => handler[h].old \in minted
          /\ handler[h].new # None => handler[h].new \in minted

\* Which tokens a handler has at which step.
StepTokens ==
    \A h \in Handlers :
        /\ handler[h].pc \in {"store", "revoke", "undo", "respond"} <=> handler[h].new # None
        /\ handler[h].pc \in {"get", "revoke", "undo"} => handler[h].old # None
        /\ handler[h].pc = "idle" <=> handler[h].client = None

\* The token that a refresh came with has been accepted.
OldIsUsed ==
    \A h \in Handlers :
        handler[h].pc \in {"mint", "store", "revoke", "undo", "respond"}
            /\ handler[h].old # None => handler[h].old \in used

\* A handler is alone with the token it has minted, unless it was minted twice: nobody
\* has seen it, nobody has revoked it before it is stored, and it is in Redis
\* from then on.
NewIsPrivate ==
    \A h \in Handlers :
        handler[h].new # None /\ handler[h].new \notin reminted =>
            /\ ~Sent(handler[h].new)
            /\ \A g \in Handlers \ {h} : handler[g].new # handler[h].new
            /\ handler[h].pc = "store" => handler[h].new \notin revoked
            /\ handler[h].pc \in {"revoke", "respond"} => handler[h].new \in stored

IInv ==
    /\ TypeOK /\ AllMinted /\ StepTokens /\ OldIsUsed /\ NewIsPrivate
    /\ CookieAlive /\ RevokedStaysRevoked

\* The types and who may have a token, which the rest builds on.
Basics == TypeOK /\ AllMinted /\ StepTokens

-----------------------------------------------------------------------------
(* One lemma for each part                                                 *)

\* Nobody has a token in the beginning.
LEMMA InvInit == Init => IInv
BY BoundAssumption, NoneAssumption
   DEF Init, IInv, TypeOK, AllMinted, StepTokens, OldIsUsed, NewIsPrivate, CookieAlive,
       RevokedStaysRevoked, NoRequest, Handler, HandlerSteps, Token

\* Tokens only come from Mint, and each step leaves a handler with those it should have.
LEMMA BasicsStep == Basics /\ [Next]_vars => Basics'
<1> SUFFICES ASSUME Basics, [Next]_vars PROVE Basics'
  OBVIOUS
<1> USE BoundAssumption, NoneAssumption
    DEF Basics, TypeOK, AllMinted, StepTokens, Token, HandlerSteps, Handler, NoRequest, history,
        Start, Goto, Return, Del
<1>1. CASE Tick
  BY <1>1 DEF Tick
<1>2. CASE Crash
  BY <1>2 DEF Crash
<1>3. ASSUME NEW h \in Handlers, NEW c \in Clients, Login(h, c)
      PROVE  Basics'
  BY <1>3 DEF Login
<1>4. ASSUME NEW h \in Handlers, NEW c \in Clients, Refresh(h, c)
      PROVE  Basics'
  BY <1>4 DEF Refresh
<1>5. ASSUME NEW h \in Handlers, NEW c \in Clients, Logout(h, c)
      PROVE  Basics'
  BY <1>5 DEF Logout
<1>6. ASSUME NEW h \in Handlers, GetStored(h)
      PROVE  Basics'
  BY <1>6 DEF GetStored
<1>7. ASSUME NEW h \in Handlers, Mint(h)
      PROVE  Basics'
  BY <1>7 DEF Mint
<1>8. ASSUME NEW h \in Handlers, Store(h)
      PROVE  Basics'
  BY <1>8 DEF Store
<1>9. ASSUME NEW h \in Handlers, Revoke(h)
      PROVE  Basics'
  BY <1>9 DEF Revoke
<1>10. ASSUME NEW h \in Handlers, Undo(h)
      PROVE  Basics'
  BY <1>10 DEF Undo
<1>11. ASSUME NEW h \in Handlers, Respond(h)
      PROVE  Basics'
  BY <1>11 DEF Respond
<1>12. ASSUME NEW h \in Handlers, RevokeAtLogout(h)
      PROVE  Basics'
  BY <1>12 DEF RevokeAtLogout
<1>13. ASSUME NEW h \in Handlers, Clear(h)
      PROVE  Basics'
  BY <1>13 DEF Clear
<1>14. CASE UNCHANGED vars
  BY <1>14 DEF vars
<1> QED BY <1>1, <1>2, <1>3, <1>4, <1>5, <1>6, <1>7, <1>8, <1>9,
            <1>10, <1>11, <1>12, <1>13, <1>14 DEF Next

\* A refresh marks its token as used before it goes on, and tokens stay used.
LEMMA UsedStep == Basics /\ OldIsUsed /\ [Next]_vars => OldIsUsed'
<1> SUFFICES ASSUME Basics, OldIsUsed, [Next]_vars PROVE OldIsUsed'
  OBVIOUS
<1> USE DEF Basics, TypeOK, OldIsUsed, Handler, NoRequest, history, Start, Goto, Return
<1>1. CASE Tick
  BY <1>1 DEF Tick
<1>2. CASE Crash
  BY <1>2 DEF Crash
<1>3. ASSUME NEW h \in Handlers, NEW c \in Clients, Login(h, c)
      PROVE  OldIsUsed'
  BY <1>3 DEF Login
<1>4. ASSUME NEW h \in Handlers, NEW c \in Clients, Refresh(h, c)
      PROVE  OldIsUsed'
  BY <1>4 DEF Refresh
<1>5. ASSUME NEW h \in Handlers, NEW c \in Clients, Logout(h, c)
      PROVE  OldIsUsed'
  BY <1>5 DEF Logout
<1>6. ASSUME NEW h \in Handlers, GetStored(h)
      PROVE  OldIsUsed'
  BY <1>6 DEF GetStored
<1>7. ASSUME NEW h \in Handlers, Mint(h)
      PROVE  OldIsUsed'
  BY <1>7 DEF Mint
<1>8. ASSUME NEW h \in Handlers, Store(h)
      PROVE  OldIsUsed'
  BY <1>8 DEF Store
<1>9. ASSUME NEW h \in Handlers, Revoke(h)
      PROVE  OldIsUsed'
  BY <1>9 DEF Revoke
<1>10. ASSUME NEW h \in Handlers, Undo(h)
      PROVE  OldIsUsed'
  BY <1>10 DEF Undo
<1>11. ASSUME NEW h \in Handlers, Respond(h)
      PROVE  OldIsUsed'
  BY <1>11 DEF Respond
<1>12. ASSUME NEW h \in Handlers, RevokeAtLogout(h)
      PROVE  OldIsUsed'
  BY <1>12 DEF RevokeAtLogout
<1>13. ASSUME NEW h \in Handlers, Clear(h)
      PROVE  OldIsUsed'
  BY <1>13 DEF Clear
<1>14. CASE UNCHANGED vars
  BY <1>14 DEF vars
<1> QED BY <1>1, <1>2, <1>3, <1>4, <1>5, <1>6, <1>7, <1>8, <1>9,
            <1>10, <1>11, <1>12, <1>13, <1>14 DEF Next

\* A token minted for the first time is new to everybody; until it is sent, only its
\* handler stores it or revokes it.
LEMMA PrivateStep == Basics /\ NewIsPrivate /\ OldIsUsed /\ [Next]_vars => NewIsPrivate'
<1> SUFFICES ASSUME Basics, NewIsPrivate, OldIsUsed, [Next]_vars PROVE NewIsPrivate'
  OBVIOUS
<1> USE NoneAssumption
    DEF Basics, TypeOK, AllMinted, StepTokens, OldIsUsed, NewIsPrivate, Sent, Token, Handler,
        NoRequest, history, Start, Goto, Return, Del
<1>1. CASE Tick
  BY <1>1 DEF Tick
<1>2. CASE Crash
  BY <1>2 DEF Crash
<1>3. ASSUME NEW h \in Handlers, NEW c \in Clients, Login(h, c)
      PROVE  NewIsPrivate'
  BY <1>3 DEF Login
<1>4. ASSUME NEW h \in Handlers, NEW c \in Clients, Refresh(h, c)
      PROVE  NewIsPrivate'
  BY <1>4 DEF Refresh
<1>5. ASSUME NEW h \in Handlers, NEW c \in Clients, Logout(h, c)
      PROVE  NewIsPrivate'
  BY <1>5 DEF Logout
<1>6. ASSUME NEW h \in Handlers, GetStored(h)
      PROVE  NewIsPrivate'
  BY <1>6 DEF GetStored
<1>7. ASSUME NEW h \in Handlers, Mint(h)
      PROVE  NewIsPrivate'
  BY <1>7 DEF Mint
<1>8. ASSUME NEW h \in Handlers, Store(h)
      PROVE  NewIsPrivate'
  <2>1. \A g \in Handlers : handler'[g].old = handler[g].old \/ handler'[g].old = None
    BY <1>8 DEF Store
  <2>2. \A g \in Handlers : handler'[g].new = handler[g].new \/ handler'[g].new = None
    BY <1>8 DEF Store
  <2>3. \A g \in Handlers : handler'[g].pc = "store" => handler[g].pc = "store"
    BY <1>8 DEF Store
  <2>4. \A g \in Handlers :
           handler'[g].pc \in {"revoke", "respond"} =>
               handler'[g] = handler[g] \/ handler'[g].new \in stored'
    BY <1>8 DEF Store, Outcomes, Applied
  <2>5. stored \subseteq stored' /\ UNCHANGED <<cookie, reminted, used, revoked>>
    BY <1>8 DEF Store
  <2> QED BY <2>1, <2>2, <2>3, <2>4, <2>5
<1>9. ASSUME NEW h \in Handlers, Revoke(h)
      PROVE  NewIsPrivate'
  BY <1>9 DEF Revoke
<1>10. ASSUME NEW h \in Handlers, Undo(h)
      PROVE  NewIsPrivate'
  BY <1>10 DEF Undo
<1>11. ASSUME NEW h \in Handlers, Respond(h)
      PROVE  NewIsPrivate'
  BY <1>11 DEF Respond
<1>12. ASSUME NEW h \in Handlers, RevokeAtLogout(h)
      PROVE  NewIsPrivate'
  BY <1>12 DEF RevokeAtLogout
<1>13. ASSUME NEW h \in Handlers, Clear(h)
      PROVE  NewIsPrivate'
  BY <1>13 DEF Clear
<1>14. CASE UNCHANGED vars
  BY <1>14 DEF vars
<1> QED BY <1>1, <1>2, <1>3, <1>4, <1>5, <1>6, <1>7, <1>8, <1>9,
            <1>10, <1>11, <1>12, <1>13, <1>14 DEF Next

\* What is deleted from Redis is used or was not sent, and what is sent is in Redis.
LEMMA CookieStep ==
    Basics /\ OldIsUsed /\ NewIsPrivate /\ CookieAlive /\ [Next]_vars => CookieAlive'
<1> SUFFICES ASSUME Basics, OldIsUsed, NewIsPrivate, CookieAlive, [Next]_vars PROVE CookieAlive'
  OBVIOUS
<1> USE DEF Basics, TypeOK, StepTokens, OldIsUsed, NewIsPrivate, Sent, CookieAlive, history, Start,
            Goto, Return, Del
<1>1. CASE Tick
  BY <1>1 DEF Tick
<1>2. CASE Crash
  BY <1>2 DEF Crash
<1>3. ASSUME NEW h \in Handlers, NEW c \in Clients, Login(h, c)
      PROVE  CookieAlive'
  BY <1>3 DEF Login
<1>4. ASSUME NEW h \in Handlers, NEW c \in Clients, Refresh(h, c)
      PROVE  CookieAlive'
  BY <1>4 DEF Refresh
<1>5. ASSUME NEW h \in Handlers, NEW c \in Clients, Logout(h, c)
      PROVE  CookieAlive'
  BY <1>5 DEF Logout
<1>6. ASSUME NEW h \in Handlers, GetStored(h)
      PROVE  CookieAlive'
  BY <1>6 DEF GetStored
<1>7. ASSUME NEW h \in Handlers, Mint(h)
      PROVE  CookieAlive'
  BY <1>7 DEF Mint
<1>8. ASSUME NEW h \in Handlers, Store(h)
      PROVE  CookieAlive'
  BY <1>8 DEF Store
<1>9. ASSUME NEW h \in Handlers, Revoke(h)
      PROVE  CookieAlive'
  BY <1>9 DEF Revoke
<1>10. ASSUME NEW h \in Handlers, Undo(h)
      PROVE  CookieAlive'
  BY <1>10 DEF Undo
<1>11. ASSUME NEW h \in Handlers, Respond(h)
      PROVE  CookieAlive'
  BY <1>11 DEF Respond
<1>12. ASSUME NEW h \in Handlers, RevokeAtLogout(h)
      PROVE  CookieAlive'
  BY <1>12 DEF RevokeAtLogout
<1>13. ASSUME NEW h \in Handlers, Clear(h)
      PROVE  CookieAlive'
  BY <1>13 DEF Clear
<1>14. CASE UNCHANGED vars
  BY <1>14 DEF vars
<1> QED BY <1>1, <1>2, <1>3, <1>4, <1>5, <1>6, <1>7, <1>8, <1>9,
            <1>10, <1>11, <1>12, <1>13, <1>14 DEF Next

\* What is stored has not been revoked.
LEMMA RevokedStep ==
    Basics /\ NewIsPrivate /\ RevokedStaysRevoked /\ [Next]_vars => RevokedStaysRevoked'
<1> SUFFICES ASSUME Basics, NewIsPrivate, RevokedStaysRevoked, [Next]_vars
             PROVE  RevokedStaysRevoked'
  OBVIOUS
<1> USE DEF Basics, TypeOK, StepTokens, NewIsPrivate, RevokedStaysRevoked, history, Start, Goto,
            Return, Del
<1>1. CASE Tick
  BY <1>1 DEF Tick
<1>2. CASE Crash
  BY <1>2 DEF Crash
<1>3. ASSUME NEW h \in Handlers, NEW c \in Clients, Login(h, c)
      PROVE  RevokedStaysRevoked'
  BY <1>3 DEF Login
<1>4. ASSUME NEW h \in Handlers, NEW c \in Clients, Refresh(h, c)
      PROVE  RevokedStaysRevoked'
  BY <1>4 DEF Refresh
<1>5. ASSUME NEW h \in Handlers, NEW c \in Clients, Logout(h, c)
      PROVE  RevokedStaysRevoked'
  BY <1>5 DEF Logout
<1>6. ASSUME NEW h \in Handlers, GetStored(h)
      PROVE  RevokedStaysRevoked'
  BY <1>6 DEF GetStored
<1>7. ASSUME NEW h \in Handlers, Mint(h)
      PROVE  RevokedStaysRevoked'
  BY <1>7 DEF Mint
<1>8. ASSUME NEW h \in Handlers, Store(h)
      PROVE  RevokedStaysRevoked'
  BY <1>8 DEF Store
<1>9. ASSUME NEW h \in Handlers, Revoke(h)
      PROVE  RevokedStaysRevoked'
  BY <1>9 DEF Revoke
<1>10. ASSUME NEW h \in Handlers, Undo(h)
      PROVE  RevokedStaysRevoked'
  BY <1>10 DEF Undo
<1>11. ASSUME NEW h \in Handlers, Respond(h)
      PROVE  RevokedStaysRevoked'
  BY <1>11 DEF Respond
<1>12. ASSUME NEW h \in Handlers, RevokeAtLogout(h)
      PROVE  RevokedStaysRevoked'
  BY <1>12 DEF RevokeAtLogout
<1>13. ASSUME NEW h \in Handlers, Clear(h)
      PROVE  RevokedStaysRevoked'
  BY <1>13 DEF Clear
<1>14. CASE UNCHANGED vars
  BY <1>14 DEF vars
<1> QED BY <1>1, <1>2, <1>3, <1>4, <1>5, <1>6, <1>7, <1>8, <1>9,
            <1>10, <1>11, <1>12, <1>13, <1>14 DEF Next

-----------------------------------------------------------------------------
(* Theorems                                                                *)

\* All parts of the invariant hold in every reachable state of Session.
THEOREM Invariance == Spec => []IInv
<1>1. IInv /\ [Next]_vars => IInv'
  BY BasicsStep, UsedStep, PrivateStep, CookieStep, RevokedStep DEF IInv, Basics
<1> QED BY InvInit, <1>1, PTL DEF Spec

\* Redis, cookies and handlers are well typed.
THEOREM TypeCorrect == Spec => []TypeOK
<1>1. IInv => TypeOK BY DEF IInv
<1> QED BY Invariance, <1>1, PTL

\* Login, Refresh and Logout leave every client with a token that is valid until it is
\* used, whatever other requests do and whatever fails.
THEOREM CookiesStayAlive == Spec => []CookieAlive
<1>1. IInv => CookieAlive BY DEF IInv
<1> QED BY Invariance, <1>1, PTL

\* Neither Refresh nor Login brings a token back that RevokeRefreshToken deleted.
THEOREM RevocationIsFinal == Spec => []RevokedStaysRevoked
<1>1. IInv => RevokedStaysRevoked BY DEF IInv
<1> QED BY Invariance, <1>1, PTL

\* Refresh mints only for a token that is valid when GetStoredRefreshToken looks.
THEOREM ExchangesAreValid == Spec => ExchangedWhenValid
<1> DEFINE Exchange == \A h \in Handlers :
              handler[h].pc = "get" /\ handler'[h].pc = "mint"
                  => handler[h].old \notin revoked \ reminted
<1>1. TypeOK /\ RevokedStaysRevoked /\ [Next]_vars => [Exchange]_vars
  <2> SUFFICES ASSUME TypeOK, RevokedStaysRevoked, Next, NEW h \in Handlers,
                      handler[h].pc = "get", handler'[h].pc = "mint"
               PROVE  handler[h].old \notin revoked \ reminted
    OBVIOUS
  <2> USE DEF TypeOK, Handler, NoRequest, Start, Goto, Return
  <2>1. ~Tick /\ ~Crash
    BY DEF Tick, Crash
  <2>2. ASSUME NEW g \in Handlers, NEW c \in Clients
        PROVE  ~Login(g, c) /\ ~Refresh(g, c) /\ ~Logout(g, c)
    BY DEF Login, Refresh, Logout
  <2>3. ASSUME NEW g \in Handlers
        PROVE  /\ ~Mint(g) /\ ~Store(g) /\ ~Revoke(g) /\ ~Undo(g) /\ ~Respond(g)
               /\ ~RevokeAtLogout(g) /\ ~Clear(g)
    BY DEF Mint, Store, Revoke, Undo, Respond, RevokeAtLogout, Clear
  <2>4. PICK g \in Handlers : GetStored(g)
    BY <2>1, <2>2, <2>3 DEF Next
  <2>5. handler[h].old \in stored
    BY <2>4 DEF GetStored
  <2> QED BY <2>5 DEF RevokedStaysRevoked
<1> QED BY TypeCorrect, RevocationIsFinal, <1>1, PTL DEF Spec, ExchangedWhenValid

=============================================================================
