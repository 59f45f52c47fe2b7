---------------------------- MODULE RequestGate ----------------------------
(***************************************************************************)
(* What a call has to get through before and while it is served: the rate  *)
(* limiter (RateLimiter), a connection of the SQLAlchemy pool              *)
(* (db/session.py), and the row of the API key it authenticates with       *)
(* (core/dependencies.py, services/auth_service.py), whose last_used_at is *)
(* flushed into the call's transaction and so stays locked until that      *)
(* transaction ends.                                                       *)
(*                                                                         *)
(* Calls: a blocking turn ("send"), an SSE turn ("stream"), a WebSocket    *)
(* ("socket") and the revocation of a key ("revoke").  One API key a user. *)
(***************************************************************************)
EXTENDS RateLimiter

CONSTANTS
    Users,
    PoolSize,   \* pool_size + max_overflow
    NoRequest

ASSUME PoolAssumption == PoolSize \in Nat \ {0}
ASSUME NoRequestAssumption == NoRequest \notin Requests

VARIABLES
    call,     \* [Requests -> Call]: who asks for what, and how it authenticates
    pc,       \* [Requests -> Step]
    gone,     \* calls whose client left while an answer was streamed to it
    conns,    \* pool connections checked out: pairs of a call and its Use of one
    keyLock,  \* [Users -> Requests]: open transaction that wrote the user's key row
    revoked   \* [Users -> BOOLEAN]: committed revoked_at of the user's key

gate == <<pc, gone, conns, keyLock, revoked>>
vars == <<limiter, call, gate>>

Kind == {"send", "stream", "socket", "revoke"}
\* The session of the call itself, and the one a tool opens.
Use == {"session", "tool"}

Call == [kind : Kind, user : Users, address : Addresses, byKey : BOOLEAN]

Step == {"arrived", "counting", "queued", "known", "working", "detached",
         "generating", "tooling", "querying", "answered", "done", "limited", "refused", "failed"}
Over == {"done", "limited", "refused", "failed"}

Init ==
    /\ InitLimiter
    /\ call \in [Requests -> Call]
    /\ pc = [r \in Requests |-> "arrived"]
    /\ gone = {}
    /\ conns = {}
    /\ keyLock = [u \in Users |-> NoRequest]
    /\ revoked = [u \in Users |-> FALSE]

-----------------------------------------------------------------------------
Goto(r, s) == pc' = [pc EXCEPT ![r] = s]
UserOf(r) == call[r].user

Available == Cardinality(conns) < PoolSize
CheckOut(r, use) == Available /\ conns' = conns \cup {<<r, use>>}

\* The end of a transaction: its connection goes back and its row locks are released.
EndTransaction(r) ==
    /\ conns' = conns \ ({r} \X Use)
    /\ keyLock' = [u \in Users |-> IF keyLock[u] = r THEN NoRequest ELSE keyLock[u]]

KeyFree(u, r) == keyLock[u] \in {NoRequest, r}

-----------------------------------------------------------------------------
Limited(r) == call[r].kind \in {"send", "stream"}
LimitKey(r) == [scope |-> IF call[r].kind = "send" THEN "chat" ELSE "chat_stream",
                address |-> call[r].address]

\* The limiter is a dependency of the route, which runs before the one that
\* authenticates: request.state.user_id is not set, so the key is the address.
Arrive(r) ==
    /\ pc[r] = "arrived"
    /\ IF Limited(r)
         THEN Stamp(r, LimitKey(r)) /\ Goto(r, "counting")
         ELSE Goto(r, "queued") /\ UNCHANGED limiter
    /\ UNCHANGED <<call, gone, conns, keyLock, revoked>>

Count(r) ==
    /\ pc[r] = "counting"
    /\ Hit(r)
    /\ Goto(r, IF verdict'[r] = "admitted" THEN "queued" ELSE "limited")
    /\ UNCHANGED <<call, gone, conns, keyLock, revoked>>

\* get_user_by_token and get_user_by_api_key: the first query of the call's
\* session checks a connection out of the pool; a revoked key is refused.
Authenticate(r) ==
    /\ pc[r] = "queued"
    /\ \/ ~call[r].byKey /\ CheckOut(r, "session") /\ Goto(r, "working")
       \/ call[r].byKey /\ ~revoked[UserOf(r)] /\ CheckOut(r, "session") /\ Goto(r, "known")
       \/ call[r].byKey /\ revoked[UserOf(r)] /\ Available /\ UNCHANGED conns /\ Goto(r, "refused")
    /\ UNCHANGED <<limiter, call, gone, keyLock, revoked>>

\* Mutants of Touch: the lock belongs to the user, not to the transaction; the
\* UPDATE writes every column, as they were read.
TouchAsUser(r) ==
    /\ pc[r] = "known"
    /\ KeyFree(UserOf(r), r)
    /\ keyLock' = [keyLock EXCEPT ![UserOf(r)] = UserOf(r)]
    /\ Goto(r, "working")
    /\ UNCHANGED <<limiter, call, gone, conns, revoked>>

TouchWholeRow(r) ==
    /\ pc[r] = "known"
    /\ KeyFree(UserOf(r), r)
    /\ keyLock' = [keyLock EXCEPT ![UserOf(r)] = r]
    /\ revoked' = [revoked EXCEPT ![UserOf(r)] = FALSE]
    /\ Goto(r, "working")
    /\ UNCHANGED <<limiter, call, gone, conns>>

\* last_used_at is flushed: the UPDATE takes the row lock, or waits for it.
Touch(r) ==
    /\ pc[r] = "known"
    /\ KeyFree(UserOf(r), r)
    /\ keyLock' = [keyLock EXCEPT ![UserOf(r)] = r]
    /\ Goto(r, "working")
    /\ UNCHANGED <<limiter, call, gone, conns, revoked>>

-----------------------------------------------------------------------------
\* FastAPI closes the session of a streamed response before its body is sent; the
\* generator opens a new transaction on it.
Detach(r) ==
    /\ pc[r] = "working"
    /\ call[r].kind = "stream"
    /\ EndTransaction(r)
    /\ Goto(r, "detached")
    /\ UNCHANGED <<limiter, call, gone, revoked>>

Reconnect(r) ==
    /\ pc[r] = "detached"
    /\ CheckOut(r, "session")
    /\ Goto(r, "generating")
    /\ UNCHANGED <<limiter, call, gone, keyLock, revoked>>

Serving(r) == pc[r] = "generating" \/ (pc[r] = "working" /\ call[r].kind = "send")

\* The list_user_sessions tool opens a session of its own while the call's
\* transaction is open.
CallTool(r) ==
    /\ Serving(r)
    /\ Goto(r, "tooling")
    /\ UNCHANGED <<limiter, call, gone, conns, keyLock, revoked>>

Query(r) ==
    /\ pc[r] = "tooling"
    /\ CheckOut(r, "tool")
    /\ Goto(r, "querying")
    /\ UNCHANGED <<limiter, call, gone, keyLock, revoked>>

ReturnTool(r) ==
    /\ pc[r] = "querying"
    /\ conns' = conns \ {<<r, "tool">>}
    /\ Goto(r, "answered")
    /\ UNCHANGED <<limiter, call, gone, keyLock, revoked>>

\* The commit at the end of a turn.
Answer(r) ==
    /\ r \notin gone
    /\ Serving(r) \/ pc[r] = "answered"
    /\ EndTransaction(r)
    /\ Goto(r, "done")
    /\ UNCHANGED <<limiter, call, gone, revoked>>

\* DELETE /api-keys/{id}: the UPDATE waits for the row lock, then commits.
Revoke(r) ==
    /\ pc[r] = "working"
    /\ call[r].kind = "revoke"
    /\ KeyFree(UserOf(r), r)
    /\ revoked' = [revoked EXCEPT ![UserOf(r)] = TRUE]
    /\ EndTransaction(r)
    /\ Goto(r, "done")
    /\ UNCHANGED <<limiter, call, gone>>

IsSocket(r) == call[r].kind = "socket"

\* A WebSocket keeps the transaction that authenticated it open until its first
\* message is committed; the answer is generated in a new one, as for a stream.
Message(r) ==
    /\ pc[r] = "working"
    /\ IsSocket(r)
    /\ EndTransaction(r)
    /\ Goto(r, "detached")
    /\ UNCHANGED <<limiter, call, gone, revoked>>

CloseSocket(r) ==
    /\ pc[r] = "working"
    /\ IsSocket(r)
    /\ EndTransaction(r)
    /\ Goto(r, "done")
    /\ UNCHANGED <<limiter, call, gone, revoked>>

\* The answer is being sent, from a transaction that get_db does not watch over.
Streaming(r) ==
    /\ call[r].kind \in {"stream", "socket"}
    /\ pc[r] \in {"generating", "tooling", "querying", "answered"}

\* Mutants of Abort: the session is dropped with its transaction open; the tool's
\* session is not closed when its query fails.
AbortWithoutRollback(r) ==
    /\ Goto(r, "failed")
    /\ conns' = conns \ ({r} \X Use)
    /\ UNCHANGED keyLock

AbortKeepingTool(r) ==
    \/ ~IsSocket(r) /\ ~Streaming(r) /\ Goto(r, "failed") /\ EndTransaction(r)
    \/ /\ IsSocket(r) \/ Streaming(r)
       /\ Goto(r, IF IsSocket(r) /\ r \notin gone THEN "working" ELSE "failed")
       /\ UNCHANGED <<conns, keyLock>>

\* An exception ends an HTTP call, and get_db rolls its transaction back; but that
\* of a stream is open when get_db is over, and nobody closes it.  A socket reports
\* the exception and goes on with the transaction it has.  A tool's session is
\* closed by db_session.
Abort(r) ==
    \/ ~IsSocket(r) /\ ~Streaming(r) /\ Goto(r, "failed") /\ EndTransaction(r)
    \/ /\ IsSocket(r) \/ Streaming(r)
       /\ Goto(r, IF IsSocket(r) /\ r \notin gone THEN "working" ELSE "failed")
       /\ conns' = conns \ {<<r, "tool">>}
       /\ UNCHANGED keyLock

\* The client of a stream or socket leaves.  Nobody cancels the driver, which goes
\* on with its model and its tools.  The session of the socket is closed, that of
\* the stream stays as it is.
HangUp(r) ==
    /\ Streaming(r)
    /\ r \notin gone
    /\ gone' = gone \cup {r}
    /\ conns' = IF IsSocket(r) THEN conns \ {<<r, "session">>} ELSE conns
    /\ UNCHANGED <<limiter, call, pc, keyLock, revoked>>

\* The driver that nobody reads from ends.
EndRun(r) ==
    /\ r \in gone
    /\ pc[r] \in {"generating", "answered"}
    /\ Goto(r, "failed")
    /\ UNCHANGED <<limiter, call, gone, conns, keyLock, revoked>>

\* A stream that failed, or whose client left: its session outlives it.
LeftOpen(r) == call[r].kind = "stream" /\ (pc[r] = "failed" \/ r \in gone)

\* The abandoned AsyncSession is garbage-collected: its connection is terminated,
\* and the pool may open another one.
Collect(r) ==
    /\ LeftOpen(r)
    /\ <<r, "session">> \in conns
    /\ conns' = conns \ {<<r, "session">>}
    /\ UNCHANGED <<limiter, call, pc, gone, keyLock, revoked>>

\* Mutant of TimeOut: only the wait of a new call is bounded.
TimeOutNewCalls(r) ==
    /\ pc[r] = "queued"
    /\ ~Available
    /\ EndTransaction(r)
    /\ Goto(r, "failed")
    /\ UNCHANGED <<limiter, call, gone, revoked>>

\* QueuePool gives up after pool_timeout.  Nobody is served who is not
\* authenticated; later the error ends the turn.
TimeOut(r) ==
    /\ ~Available
    /\ \/ pc[r] = "queued" /\ Goto(r, "failed") /\ EndTransaction(r)
       \/ pc[r] \in {"detached", "tooling"} /\ Abort(r)
    /\ UNCHANGED <<limiter, call, gone, revoked>>

\* A provider or database error, or the client of a stream leaving before its body.
Fail(r) ==
    /\ \/ pc[r] = "known" /\ Goto(r, "failed") /\ EndTransaction(r)
       \/ pc[r] \in {"detached", "generating", "querying", "answered"} /\ Abort(r)
       \/ pc[r] = "working" /\ ~IsSocket(r) /\ Abort(r)
    /\ UNCHANGED <<limiter, call, gone, revoked>>

-----------------------------------------------------------------------------
Serve(r) ==
    \/ Arrive(r) \/ Count(r) \/ Authenticate(r) \/ Touch(r)
    \/ Detach(r) \/ Reconnect(r) \/ CallTool(r) \/ Query(r) \/ ReturnTool(r)
    \/ Answer(r) \/ Revoke(r) \/ TimeOut(r) \/ EndRun(r)

Next ==
    \/ Tick /\ UNCHANGED <<call, gate>>
    \/ \E r \in Requests :
          \/ Serve(r) \/ Message(r) \/ CloseSocket(r) \/ Fail(r)
          \/ HangUp(r) \/ Collect(r)

Spec == Init /\ [][Next]_vars

\* The event loop runs every handler.  A WebSocket client may stay silent for
\* ever, a call need not fail, and nothing says when, or that, the collector finds
\* an abandoned session.
FairSpec == Spec /\ \A r \in Requests : WF_vars(Serve(r))

-----------------------------------------------------------------------------
TypeOK ==
    /\ TypeOKLimiter
    /\ call \in [Requests -> Call]
    /\ pc \in [Requests -> Step]
    /\ gone \subseteq Requests
    /\ conns \subseteq Requests \X Use
    /\ keyLock \in [Users -> Requests \cup {NoRequest}]
    /\ revoked \in [Users -> BOOLEAN]

\* The steps of a call at which its own transaction can be open.
InTransaction == {"known", "working", "generating", "tooling", "querying", "answered"}

\* However a call ends or fails, nothing it took stays out of the pool, but for one
\* connection: that of a stream that failed or lost its client, until its session is
\* collected.  Even then its tool's is out only while it queries, and a socket
\* that lost its client keeps neither.
ConnectionsComeBack ==
    \A r \in Requests :
        /\ <<r, "tool">> \in conns => pc[r] = "querying"
        /\ <<r, "session">> \in conns =>
              (pc[r] \in InTransaction /\ r \notin gone) \/ LeftOpen(r)

\* Nobody holds a key's row lock who has no transaction open: however a call ends,
\* it leaves no lock behind for the next call with that key to wait on.
LocksHaveTransactions ==
    \A u \in Users : keyLock[u] # NoRequest => <<keyLock[u], "session">> \in conns

\* A revocation is final: a call that read the key before it was revoked, and
\* writes last_used_at after it, does not bring the key back.
RevocationIsFinal == [][\A u \in Users : revoked[u] => revoked'[u]]_vars

SocketHolds(u) == keyLock[u] # NoRequest /\ IsSocket(keyLock[u])

\* r is about to authenticate with its user's key, or to revoke it.
WantsKey(r) == pc[r] = "known" \/ (pc[r] = "working" /\ call[r].kind = "revoke")

\* Every HTTP call ends, although calls hold connections while they wait for
\* connections and for row locks, and failed streams keep theirs; unless it wants a
\* key that a WebSocket, authenticated with it and silent since, is holding.
EveryCallEnds ==
    []<>(\A r \in Requests :
            IsSocket(r) \/ pc[r] \in Over \/ (WantsKey(r) /\ SocketHolds(UserOf(r))))

\* docs/api.md: "60 req/min per principal": who is turned away has used up his own
\* requests of that window.
LimitIsPerPrincipal ==
    \A r \in Requests : verdict[r] = "rejected" =>
        Cardinality({q \in Requests : /\ verdict[q] = "admitted"
                                      /\ UserOf(q) = UserOf(r)
                                      /\ stamp[q] = stamp[r]}) >= Limit
=============================================================================
