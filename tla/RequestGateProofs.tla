------------------------- MODULE RequestGateProofs -------------------------
(***************************************************************************)
(* RequestGate proved for any number of calls, users and connections: its  *)
(* limiter is the RateLimiter, every connection comes back to the pool but *)
(* that of a stream that failed or lost its client, no key lock outlives   *)
(* its transaction, and revocations are final.                             *)
(*                                                                         *)
(* The inductive invariant is a statement about each call by itself        *)
(* (Sound): what it has taken at the step it is at.  An action of one call *)
(* leaves what the others have taken alone (OthersStaySound).              *)
(***************************************************************************)
EXTENDS RequestGate, RateLimiterProofs

USE NoRequestAssumption

TypeGate ==
    /\ call \in [Requests -> Call]
    /\ pc \in [Requests -> Step]
    /\ gone \subseteq Requests
    /\ conns \subseteq Requests \X Use
    /\ keyLock \in [Users -> Requests \cup {NoRequest}]
    /\ revoked \in [Users -> BOOLEAN]

Connected(r, use) == <<r, use>> \in conns
Holds(r) == \E u \in Users : keyLock[u] = r

\* Who is about to lock its key has the connection of its transaction; only streams
\* and sockets lose their clients, once they stream; the connections of r are where
\* ConnectionsComeBack says; and a key is held in the transaction that authenticated,
\* which is over when an answer is streamed.
Sound(r) ==
    /\ pc[r] = "known" => Connected(r, "session")
    /\ r \in gone => Streaming(r) \/ (pc[r] = "failed" /\ call[r].kind \in {"stream", "socket"})
    /\ Connected(r, "tool") => pc[r] = "querying"
    /\ Connected(r, "session") => (pc[r] \in InTransaction /\ r \notin gone) \/ LeftOpen(r)
    /\ Holds(r) =>
          /\ Connected(r, "session")
          /\ \/ pc[r] = "working"
             \/ pc[r] \in {"tooling", "querying", "answered"} /\ call[r].kind = "send"

GInv == TypeGate /\ \A r \in Requests : Sound(r)

LEMMA SoundIsSafe == GInv => ConnectionsComeBack /\ LocksHaveTransactions
  <1> SUFFICES ASSUME GInv PROVE ConnectionsComeBack /\ LocksHaveTransactions
    OBVIOUS
  <1>1. ConnectionsComeBack
    BY DEF GInv, Sound, Connected, ConnectionsComeBack
  <1>2. LocksHaveTransactions
    BY DEF GInv, TypeGate, Sound, Holds, Connected, LocksHaveTransactions
  <1> QED BY <1>1, <1>2

LEMMA InitGInv == Init => GInv
  <1> SUFFICES ASSUME Init PROVE GInv
    OBVIOUS
  <1>1. TypeGate
    BY DEF Init, TypeGate, Step
  <1>2. \A r \in Requests : Sound(r)
    BY DEF Init, Sound, Connected, Holds
  <1> QED BY <1>1, <1>2 DEF GInv

\* A step that changes nothing but what r has.
Concerns(r) ==
    /\ UNCHANGED call
    /\ \A q \in Requests \ {r} :
          /\ pc'[q] = pc[q]
          /\ q \in gone' <=> q \in gone
          /\ Connected(q, "tool")' <=> Connected(q, "tool")
          /\ Connected(q, "session")' <=> Connected(q, "session")
          /\ Holds(q)' <=> Holds(q)

LEMMA OthersStaySound ==
  ASSUME GInv, NEW r \in Requests, Concerns(r), TypeGate', Sound(r)'
  PROVE  GInv'
  <1>1. ASSUME NEW q \in Requests \ {r}
        PROVE  Sound(q)'
    <2> DEFINE k == call[q].kind
    <2>1. /\ pc'[q] = pc[q] /\ call'[q].kind = k
          /\ q \in gone' <=> q \in gone
          /\ Connected(q, "tool")' <=> Connected(q, "tool")
          /\ Connected(q, "session")' <=> Connected(q, "session")
          /\ Holds(q)' <=> Holds(q)
      BY DEF Concerns
    <2>2. Sound(q)
      BY DEF GInv
    <2> QED BY <2>1, <2>2 DEF Sound, Streaming, LeftOpen
  <1> QED BY <1>1 DEF GInv

\* The end of a transaction leaves r with nothing.
LEMMA EndKeeps ==
  ASSUME GInv, NEW r \in Requests, EndTransaction(r), UNCHANGED <<call, gone>>,
         pc' \in [Requests -> Step], revoked' \in [Users -> BOOLEAN],
         pc'[r] # "known", r \notin gone, \A q \in Requests \ {r} : pc'[q] = pc[q]
  PROVE  GInv' /\ ~Holds(r)'
  <1> USE DEF GInv, TypeGate, EndTransaction
  <1>1. TypeGate'
    OBVIOUS
  <1>2. ~Connected(r, "tool")' /\ ~Connected(r, "session")' /\ ~Holds(r)'
    BY DEF Connected, Holds, Use
  <1>3. Concerns(r)
    BY DEF Concerns, Connected, Holds
  <1>4. Sound(r)'
    BY <1>2 DEF Sound
  <1> QED BY <1>1, <1>2, <1>3, <1>4, OthersStaySound

\* A step of r that leaves its key alone and changes only its own connections.
Moves(r) ==
    /\ UNCHANGED <<call, keyLock>>
    /\ revoked' \in [Users -> BOOLEAN]
    /\ \E s \in Step : Goto(r, s)
    /\ \E use \in Use : \/ conns' = conns \cup {<<r, use>>}
                        \/ conns' = conns \ {<<r, use>>}
                        \/ conns' = conns
    /\ gone' \in {gone, gone \cup {r}}

LEMMA MoveKeeps ==
  ASSUME GInv, NEW r \in Requests, Moves(r), Sound(r)'
  PROVE  GInv'
  <1> USE DEF GInv, TypeGate, Moves, Goto
  <1>1. TypeGate'
    OBVIOUS
  <1>2. Concerns(r)
    BY DEF Concerns, Connected, Holds
  <1> QED BY <1>1, <1>2, OthersStaySound

\* An exception leaves nothing of r behind but the open transaction of a stream.
LEMMA AbortKeeps ==
  ASSUME GInv, NEW r \in Requests, Abort(r), UNCHANGED <<call, gone, revoked>>,
         pc[r] \in {"detached", "generating", "tooling", "querying", "answered"}
            \/ (pc[r] = "working" /\ ~IsSocket(r))
  PROVE  GInv'
  <1>1. Sound(r) /\ TypeGate
    BY DEF GInv
  <1>2. CASE ~IsSocket(r) /\ ~Streaming(r) /\ Goto(r, "failed") /\ EndTransaction(r)
    <2>1. r \notin gone
      BY <1>1, <1>2 DEF Sound
    <2> QED BY <1>1, <1>2, <2>1, EndKeeps DEF TypeGate, Goto, Step
  <1>3. ASSUME IsSocket(r) \/ Streaming(r),
               Goto(r, IF IsSocket(r) /\ r \notin gone THEN "working" ELSE "failed"),
               conns' = conns \ {<<r, "tool">>}, UNCHANGED keyLock
        PROVE  GInv'
    <2>1. Moves(r)
      BY <1>1, <1>3 DEF Moves, TypeGate, Step, Use, Goto
    <2>2. /\ ~Connected(r, "tool")'
          /\ Connected(r, "session")' <=> Connected(r, "session")
          /\ Holds(r)' <=> Holds(r)
          /\ pc'[r] = IF IsSocket(r) /\ r \notin gone THEN "working" ELSE "failed"
      BY <1>1, <1>3 DEF TypeGate, Connected, Holds, Goto
    <2>3. ~Holds(r)
      BY <1>1, <1>3 DEF Sound, IsSocket, Streaming
    <2>4. Sound(r)'
      BY <1>1, <1>3, <2>2, <2>3 DEF Sound, IsSocket, Streaming, LeftOpen, InTransaction
    <2> QED BY <2>1, <2>4, MoveKeeps
  <1> QED BY <1>2, <1>3 DEF Abort

LEMMA StepGInv == GInv /\ [Next]_vars => GInv'
  <1> SUFFICES ASSUME GInv, [Next]_vars PROVE GInv'
    OBVIOUS
  <1>1. CASE UNCHANGED <<call, gate>>
    BY <1>1 DEF gate, GInv, TypeGate, Sound, Connected, Holds, Streaming, LeftOpen
  <1>2. ASSUME NEW r \in Requests PROVE Sound(r) /\ TypeGate
    BY DEF GInv
  \* Steps that take nothing and give nothing back.
  <1>3. ASSUME NEW r \in Requests,
               Arrive(r) \/ Count(r) \/ CallTool(r) \/ EndRun(r)
        PROVE  GInv'
    <2>1. Moves(r) /\ UNCHANGED <<gone, conns, keyLock>>
      BY <1>2, <1>3 DEF Moves, Arrive, Count, CallTool, EndRun, TypeGate, Step, Use, Goto
    <2>2. /\ Connected(r, "tool")' <=> Connected(r, "tool")
          /\ Connected(r, "session")' <=> Connected(r, "session")
          /\ Holds(r)' <=> Holds(r)
      BY <2>1 DEF Connected, Holds
    <2>3. \/ pc[r] \in {"arrived", "counting"} /\ pc'[r] \in {"counting", "queued", "limited"}
          \/ Serving(r) /\ pc'[r] = "tooling"
          \/ r \in gone /\ pc[r] \in {"generating", "answered"} /\ pc'[r] = "failed"
      BY <1>2, <1>3 DEF Arrive, Count, CallTool, EndRun, TypeGate, Goto
    <2>4. Sound(r)'
      BY <1>2, <2>1, <2>2, <2>3 DEF Moves, Sound, Serving, Streaming, LeftOpen, InTransaction
    <2> QED BY <2>1, <2>4, MoveKeeps
  \* Steps that take or give back a connection.
  <1>4. ASSUME NEW r \in Requests, Authenticate(r)
        PROVE  GInv'
    <2>1. Moves(r) /\ UNCHANGED <<gone, keyLock>>
      BY <1>2, <1>4 DEF Moves, Authenticate, CheckOut, TypeGate, Step, Use, Goto
    <2>2. /\ Connected(r, "tool")' <=> Connected(r, "tool")
          /\ \/ Connected(r, "session")' /\ pc'[r] \in {"working", "known"}
             \/ (Connected(r, "session")' <=> Connected(r, "session")) /\ pc'[r] = "refused"
          /\ Holds(r)' <=> Holds(r)
          /\ pc[r] = "queued"
      BY <1>2, <1>4 DEF Connected, Holds, Authenticate, CheckOut, TypeGate, Goto
    <2>3. Sound(r)'
      BY <1>2, <2>1, <2>2 DEF Moves, Sound, Streaming, LeftOpen, InTransaction
    <2> QED BY <2>1, <2>3, MoveKeeps
  <1>5. ASSUME NEW r \in Requests, Reconnect(r) \/ Query(r) \/ ReturnTool(r)
        PROVE  GInv'
    <2>1. Moves(r) /\ UNCHANGED <<gone, keyLock>>
      BY <1>2, <1>5 DEF Moves, Reconnect, Query, ReturnTool, CheckOut, TypeGate, Step, Use, Goto
    <2>2. \/ /\ pc[r] = "detached" /\ pc'[r] = "generating"
             /\ Connected(r, "session")' /\ (Connected(r, "tool")' <=> Connected(r, "tool"))
          \/ /\ pc[r] = "tooling" /\ pc'[r] = "querying"
             /\ Connected(r, "session")' <=> Connected(r, "session")
          \/ /\ pc[r] = "querying" /\ pc'[r] = "answered" /\ ~Connected(r, "tool")'
             /\ Connected(r, "session")' <=> Connected(r, "session")
      BY <1>2, <1>5 DEF Connected, Reconnect, Query, ReturnTool, CheckOut, TypeGate, Goto
    <2>3. Holds(r)' <=> Holds(r)
      BY <2>1 DEF Holds
    <2>4. Sound(r)'
      BY <1>2, <2>1, <2>2, <2>3 DEF Moves, Sound, Streaming, LeftOpen, InTransaction
    <2> QED BY <2>1, <2>4, MoveKeeps
  <1>6. ASSUME NEW r \in Requests, HangUp(r) \/ Collect(r)
        PROVE  GInv'
    <2>1. Moves(r) /\ UNCHANGED <<pc, keyLock>>
      <3>1. Goto(r, pc[r]) /\ pc[r] \in Step
        BY <1>2, <1>6 DEF HangUp, Collect, Goto, TypeGate
      <3>2. UNCHANGED <<call, keyLock, revoked, pc>> /\ gone' \in {gone, gone \cup {r}}
        BY <1>6 DEF HangUp, Collect
      <3>3. conns' \in {conns, conns \ {<<r, "session">>}}
        BY <1>6 DEF HangUp, Collect
      <3> QED BY <1>2, <3>1, <3>2, <3>3 DEF Moves, TypeGate, Use
    <2>2. /\ Connected(r, "tool")' <=> Connected(r, "tool")
          /\ Connected(r, "session")' => Connected(r, "session")
          /\ \/ Streaming(r) /\ r \in gone' /\ (IsSocket(r) => ~Connected(r, "session")')
             \/ LeftOpen(r) /\ gone' = gone /\ ~Connected(r, "session")'
          /\ Holds(r)' <=> Holds(r)
      BY <1>2, <1>6 DEF Connected, Holds, HangUp, Collect, TypeGate
    <2>3. Sound(r)'
      BY <1>2, <2>1, <2>2 DEF Moves, Sound, IsSocket, Streaming, LeftOpen, InTransaction
    <2> QED BY <2>1, <2>3, MoveKeeps
  \* The step that takes a key.
  <1>7. ASSUME NEW r \in Requests, Touch(r)
        PROVE  GInv'
    <2>1. TypeGate'
      BY <1>2, <1>7 DEF Touch, TypeGate, Goto, Step
    <2>2. Concerns(r)
      BY <1>2, <1>7 DEF Touch, KeyFree, TypeGate, Concerns, Connected, Holds, Goto
    <2>3. /\ pc[r] = "known" /\ pc'[r] = "working" /\ UNCHANGED <<call, gone, conns>>
      BY <1>2, <1>7 DEF Touch, TypeGate, Goto
    <2>4. Sound(r)'
      BY <1>2, <2>3 DEF Sound, Connected, Streaming, LeftOpen, InTransaction
    <2> QED BY <2>1, <2>2, <2>4, OthersStaySound
  \* Steps that end a transaction.
  <1>8. ASSUME NEW r \in Requests,
               \/ Detach(r) \/ Answer(r) \/ Revoke(r) \/ Message(r) \/ CloseSocket(r)
               \/ pc[r] \in {"queued", "known"} /\ Goto(r, "failed") /\ EndTransaction(r)
                     /\ UNCHANGED <<call, gone, revoked>>
        PROVE  GInv'
    <2>1. /\ EndTransaction(r) /\ UNCHANGED <<call, gone>> /\ \E s \in Step \ {"known"} : Goto(r, s)
          /\ revoked' \in [Users -> BOOLEAN]
      BY <1>2, <1>8 DEF Detach, Answer, Revoke, Message, CloseSocket, TypeGate, Step
    <2>2. r \notin gone
      BY <1>2, <1>8 DEF Sound, Streaming, Detach, Answer, Revoke, Message, CloseSocket
    <2>3. pc' \in [Requests -> Step] /\ pc'[r] # "known" /\ \A q \in Requests \ {r} : pc'[q] = pc[q]
      BY <1>2, <2>1 DEF TypeGate, Goto
    <2> QED BY <2>1, <2>2, <2>3, EndKeeps
  <1>9. ASSUME NEW r \in Requests, TimeOut(r) \/ Fail(r)
        PROVE  GInv'
    BY <1>8, <1>9, AbortKeeps DEF TimeOut, Fail
  <1> QED BY <1>1, <1>3, <1>4, <1>5, <1>6, <1>7, <1>8, <1>9 DEF Next, Serve, vars

LEMMA GateInvariant == Spec => []GInv
  <1> QED BY InitGInv, StepGInv, PTL DEF Spec

\* Every step of the gate is a step of the limiter it is built from, or leaves
\* the limiter alone.
LEMMA StepLimiter == GInv /\ [Next]_vars => [NextLimiter]_limiter
  <1> SUFFICES ASSUME GInv, [Next]_vars PROVE [NextLimiter]_limiter
    OBVIOUS
  <1>1. \A r \in Requests : LimitKey(r) \in Key
    BY DEF GInv, TypeGate, Call, LimitKey, Key, Scope
  <1>2. ASSUME NEW r \in Requests, Serve(r)
        PROVE  [NextLimiter]_limiter
    <2>1. CASE Arrive(r)
      BY <1>1, <2>1 DEF Arrive, NextLimiter
    <2>2. CASE Count(r)
      BY <2>2 DEF Count, NextLimiter
    <2>3. CASE ~Arrive(r) /\ ~Count(r)
      BY <1>2, <2>3 DEF Serve, Authenticate, Touch, Detach, Reconnect, CallTool, Query,
                        ReturnTool, Answer, Revoke, TimeOut, EndRun
    <2> QED BY <2>1, <2>2, <2>3
  <1>3. ASSUME NEW r \in Requests, Message(r) \/ CloseSocket(r) \/ Fail(r) \/ HangUp(r) \/ Collect(r)
        PROVE  [NextLimiter]_limiter
    BY <1>3 DEF Message, CloseSocket, Fail, HangUp, Collect
  <1>4. CASE Tick
    BY <1>4 DEF NextLimiter
  <1>5. CASE UNCHANGED vars
    BY <1>5 DEF vars
  <1> QED BY <1>2, <1>3, <1>4, <1>5 DEF Next

\* The limiter inside the gate behaves as the limiter alone.
THEOREM ImplementsLimiter == Spec => SpecLimiter
  <1>1. Init => InitLimiter
    BY DEF Init
  <1> QED BY <1>1, StepLimiter, GateInvariant, PTL DEF Spec, SpecLimiter

\* The state of the gate keeps its types.
THEOREM TypeCorrect == Spec => []TypeOK
  <1>1. GInv /\ IInv => TypeOK
    BY DEF GInv, TypeGate, IInv, TypeOK
  <1> QED BY <1>1, GateInvariant, ImplementsLimiter, LimiterInvariant, PTL

\* Behind the gate, too, no bucket admits more than Limit calls in a window's span.
THEOREM GateKeepsBudget == Spec => []SpanBudget
  <1> QED BY ImplementsLimiter, SpanBudgetHolds, PTL

\* A connection is out of the pool only for a call that is in its transaction, for a
\* tool that queries, or for the session of a stream that failed or lost its client,
\* which get_db no longer watches over (get_db, db_session, ws.py, chat.py's _gen).
THEOREM ConnectionsHold == Spec => []ConnectionsComeBack
  <1>1. GInv => ConnectionsComeBack
    BY SoundIsSafe
  <1> QED BY <1>1, GateInvariant, PTL

\* No key stays locked when its transaction is over.
THEOREM LocksHold == Spec => []LocksHaveTransactions
  <1>1. GInv => LocksHaveTransactions
    BY SoundIsSafe
  <1> QED BY <1>1, GateInvariant, PTL

\* No step takes a revocation back.
THEOREM RevocationHolds == Spec => RevocationIsFinal
  <1>1. GInv /\ [Next]_vars => [\A u \in Users : revoked[u] => revoked'[u]]_vars
    <2> SUFFICES ASSUME GInv, [Next]_vars, NEW u \in Users, revoked[u]
                 PROVE  revoked'[u]
      OBVIOUS
    <2>1. ASSUME NEW r \in Requests, Revoke(r)
          PROVE  revoked'[u]
      BY <2>1 DEF Revoke, GInv, TypeGate
    <2>2. CASE UNCHANGED revoked
      BY <2>2
    <2> QED BY <2>1, <2>2 DEF Next, vars, gate, Serve, Arrive, Count, Authenticate, Touch, Detach,
                 Reconnect, CallTool, Query, ReturnTool, Answer, TimeOut, EndRun, Message,
                 CloseSocket, Fail, HangUp, Collect
  <1> QED BY <1>1, GateInvariant, PTL DEF Spec, RevocationIsFinal

-----------------------------------------------------------------------------
(***************************************************************************)
(* Row locks.  EveryCallEnds needs that waiting for the row of a key ends: *)
(* the call that holds it waits for no row, only for a connection, and     *)
(* that wait ends by TimeOut.                                              *)
(***************************************************************************)

\* The lock on a user's key is held by a call of that user, and no longer than the
\* transaction that authenticated it.
LocksAreTheUsers ==
    \A u \in Users : keyLock[u] # NoRequest =>
        /\ UserOf(keyLock[u]) = u
        /\ pc[keyLock[u]] \in {"working", "tooling", "querying", "answered"}

\* r wants the row of a key that q holds: to authenticate with it or to revoke it.
WaitsFor(r, q) ==
    /\ keyLock[UserOf(r)] = q
    /\ q # r
    /\ WantsKey(r)

HoldersDoNotWait == \A r, q, p \in Requests : WaitsFor(r, q) => ~WaitsFor(q, p)

\* Only the key of its own user is ever locked by a call.
OwnKey == \A u \in Users : keyLock[u] # NoRequest => UserOf(keyLock[u]) = u

LEMMA OwnKeyStep == OwnKey /\ [Next]_vars => OwnKey'
  <1> SUFFICES ASSUME OwnKey, [Next]_vars PROVE OwnKey'
    OBVIOUS
  <1> USE DEF OwnKey, UserOf
  <1>1. ASSUME NEW r \in Requests, Touch(r)
        PROVE  OwnKey'
    BY <1>1 DEF Touch
  <1>2. ASSUME UNCHANGED call, \A u \in Users : keyLock'[u] \in {keyLock[u], NoRequest}
        PROVE  OwnKey'
    BY <1>2
  <1>3. ASSUME NEW r \in Requests, EndTransaction(r)
        PROVE  \A u \in Users : keyLock'[u] \in {keyLock[u], NoRequest}
    BY <1>3 DEF EndTransaction
  <1>4. ASSUME NEW r \in Requests, Serve(r), ~Touch(r)
        PROVE  OwnKey'
    BY <1>2, <1>3, <1>4 DEF Serve, Arrive, Count, Authenticate, Detach, Reconnect, CallTool, Query,
                            ReturnTool, Answer, Revoke, TimeOut, Abort, EndRun
  <1>5. ASSUME NEW r \in Requests,
               Message(r) \/ CloseSocket(r) \/ Fail(r) \/ HangUp(r) \/ Collect(r)
        PROVE  OwnKey'
    BY <1>2, <1>3, <1>5 DEF Message, CloseSocket, Fail, Abort, HangUp, Collect
  <1>6. CASE UNCHANGED <<call, gate>>
    BY <1>2, <1>6 DEF gate
  <1> QED BY <1>1, <1>4, <1>5, <1>6 DEF Next, vars

\* The row of a user's key is locked by calls of that user only, while they serve
\* the transaction that authenticated them (get_user_by_api_key).
THEOREM LocksAreTheUsersHolds == Spec => []LocksAreTheUsers
  <1>1. Init => OwnKey
    BY DEF Init, OwnKey
  <1>2. GInv /\ OwnKey => LocksAreTheUsers
    BY DEF GInv, TypeGate, Sound, Holds, OwnKey, LocksAreTheUsers
  <1> QED BY <1>1, <1>2, OwnKeyStep, GateInvariant, PTL DEF Spec

\* The call that holds the row another call waits for waits for no row, so calls
\* that authenticate with a key or revoke it cannot deadlock on its row.
THEOREM HoldersDoNotWaitHolds == Spec => []HoldersDoNotWait
  <1>1. GInv /\ LocksAreTheUsers => HoldersDoNotWait
    <2> SUFFICES ASSUME GInv, LocksAreTheUsers, NEW r \in Requests, NEW q \in Requests,
                        NEW p \in Requests, WaitsFor(r, q)
                 PROVE  ~WaitsFor(q, p)
      BY DEF HoldersDoNotWait
    <2>1. UserOf(r) \in Users
      BY DEF GInv, TypeGate, Call, UserOf
    <2>2. UserOf(q) = UserOf(r) /\ pc[q] # "known"
      BY <2>1 DEF LocksAreTheUsers, WaitsFor
    <2> QED BY <2>2 DEF WaitsFor, WantsKey
  <1> QED BY <1>1, GateInvariant, LocksAreTheUsersHolds, PTL
=============================================================================
