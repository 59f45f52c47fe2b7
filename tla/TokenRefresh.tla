---------------------------- MODULE TokenRefresh ----------------------------
(***************************************************************************)
(* The Flutter client's side of authentication, against Accounts: the      *)
(* token storage of the device, and the interceptor that answers a 401 by  *)
(* refreshing the tokens and repeating the request                         *)
(* (core/api_client.dart, core/secure_storage.dart,                        *)
(* features/auth/auth_repository.dart).                                    *)
(*                                                                         *)
(* A request of the app makes up to three calls of the server: the         *)
(* original one, a refresh and the repetition.  Storage is read and        *)
(* written asynchronously, one key at a time.                              *)
(***************************************************************************)
EXTENDS Accounts

CONSTANT Requests   \* what the app asks for in one run, a request once

Leg == {"original", "refresh", "retry"}

ASSUME CallsAssumption == Calls = Requests \X Leg

VARIABLES
    wish,         \* [Requests -> Wish]: what the request is
    pc,           \* [Requests -> ClientStep]
    shown,        \* [Requests -> Shown]: how it ended, for its caller
    access,       \* the token stored as nexusbot.access_token
    renewal,      \* the token stored as nexusbot.refresh_token
    refreshing,   \* _AuthInterceptor._refreshing
    leaving       \* a logout has deleted the first of the two tokens

storage == <<access, renewal>>
client == <<wish, pc, shown, storage, refreshing, leaving>>
vars == <<accounts, client>>

Wish == [op : {"register"}, email : Emails]
        \cup [op : {"login"}, email : Emails, right : BOOLEAN]
        \cup [op : {"me"}]

\* The steps between the flag's being set and its being cleared.
Holding == {"reading", "refreshing", "keeping", "kept", "retrying", "clearing", "cleared"}
ClientStep == {"idle", "sent", "storing", "stored", "done"} \cup Holding

Shown == Status \cup {"none", "failed"}

\* The app starts, with the tokens an earlier run may have left on the device.
Init ==
    /\ InitAccounts
    /\ wish \in [Requests -> Wish]
    /\ pc = [r \in Requests |-> "idle"]
    /\ shown = [r \in Requests |-> "none"]
    /\ \/ access = None /\ renewal = None
       \/ \E email \in users, t \in 0..now : /\ access = PairFor(email, t).access
                                            /\ renewal = PairFor(email, t).refresh
    /\ refreshing = FALSE
    /\ leaving = FALSE

-----------------------------------------------------------------------------
Original(r) == <<r, "original">>
Refresh(r) == <<r, "refresh">>
Retry(r) == <<r, "retry">>

Move(r, s) == pc' = [pc EXCEPT ![r] = s]

End(r, s) ==
    /\ Move(r, "done")
    /\ shown' = [shown EXCEPT ![r] = s]

\* The call of the server that a request makes with a token in its header.
Body(r, token) == IF wish[r].op = "me" THEN [op |-> "me", token |-> token] ELSE wish[r]

Arrived(c) == step[c] = "answered"

unseen == <<now, users, inactive, status, given>>

\* What AuthRepository and the screens do with a response the interceptor lets pass:
\* the tokens of a login are stored, anything else ends the request.
Deliver(r, c) ==
    IF wish[r].op = "login" /\ status[c] = "pair"
      THEN Move(r, "storing") /\ UNCHANGED shown
      ELSE End(r, status[c])

-----------------------------------------------------------------------------
\* onRequest: the header is filled from storage.
Send(r) ==
    /\ pc[r] = "idle"
    /\ Asks(Original(r), Body(r, access))
    /\ Move(r, "sent")
    /\ UNCHANGED <<unseen, wish, shown, storage, refreshing, leaving>>

\* Mutants of Respond: the flag is set once the refresh token has been read; a 401
\* waits until nobody is refreshing.
RespondWithoutFlag(r) ==
    /\ pc[r] = "sent"
    /\ Arrived(Original(r))
    /\ IF status[Original(r)] = "unauthorized" /\ ~refreshing
         THEN Move(r, "reading") /\ UNCHANGED shown
         ELSE Deliver(r, Original(r))
    /\ UNCHANGED <<accounts, wish, storage, refreshing, leaving>>

RespondInTurn(r) ==
    /\ pc[r] = "sent"
    /\ Arrived(Original(r))
    /\ \/ status[Original(r)] = "unauthorized" /\ ~refreshing /\ Move(r, "reading") /\ refreshing' = TRUE /\ UNCHANGED shown
       \/ status[Original(r)] # "unauthorized" /\ Deliver(r, Original(r)) /\ UNCHANGED refreshing
    /\ UNCHANGED <<accounts, wish, storage, leaving>>

\* onResponse and onError: the first 401 takes the flag; one that finds it taken
\* is passed on.
Respond(r) ==
    /\ pc[r] = "sent"
    /\ Arrived(Original(r))
    /\ IF status[Original(r)] = "unauthorized" /\ ~refreshing
         THEN Move(r, "reading") /\ refreshing' = TRUE /\ UNCHANGED shown
         ELSE Deliver(r, Original(r)) /\ UNCHANGED refreshing
    /\ UNCHANGED <<accounts, wish, storage, leaving>>

\* The refresh token is read; without one the 401 is passed on, and finally clears
\* the flag.
ReadRefresh(r) ==
    /\ pc[r] = "reading"
    /\ \/ /\ renewal = None
          /\ End(r, "unauthorized")
          /\ refreshing' = FALSE
          /\ UNCHANGED <<step, asked>>
       \/ /\ renewal # None
          /\ Asks(Refresh(r), [op |-> "refresh", token |-> renewal])
          /\ Move(r, "refreshing")
          /\ UNCHANGED <<shown, refreshing>>
    /\ UNCHANGED <<unseen, wish, storage, leaving>>

\* The plain Dio that posts the refresh throws for every status but 2xx.
TakePair(r) ==
    /\ pc[r] = "refreshing"
    /\ Arrived(Refresh(r))
    /\ Move(r, IF status[Refresh(r)] = "pair" THEN "keeping" ELSE "clearing")
    /\ UNCHANGED <<accounts, wish, shown, storage, refreshing, leaving>>

KeepAccess(r) ==
    /\ pc[r] = "keeping"
    /\ access' = given[Refresh(r)].access
    /\ Move(r, "kept")
    /\ UNCHANGED <<accounts, wish, shown, renewal, refreshing, leaving>>

\* Mutants of KeepRefresh: the request is repeated with the header it had; the pair
\* is stored as it came.
KeepRefreshOnly(r) ==
    /\ pc[r] = "kept"
    /\ renewal' = given[Refresh(r)].refresh
    /\ Asks(Retry(r), asked[Original(r)])
    /\ Move(r, "retrying")
    /\ UNCHANGED <<unseen, wish, shown, access, refreshing, leaving>>

KeepWholePair(r) ==
    /\ pc[r] = "kept"
    /\ renewal' = given[Refresh(r)]
    /\ Asks(Retry(r), Body(r, given[Refresh(r)].access))
    /\ Move(r, "retrying")
    /\ UNCHANGED <<unseen, wish, shown, access, refreshing, leaving>>

\* The end of writeTokens; the original request is sent again, with the new token.
KeepRefresh(r) ==
    /\ pc[r] = "kept"
    /\ renewal' = given[Refresh(r)].refresh
    /\ Asks(Retry(r), Body(r, given[Refresh(r)].access))
    /\ Move(r, "retrying")
    /\ UNCHANGED <<unseen, wish, shown, access, refreshing, leaving>>

\* The repetition comes back: below 500 it is the response, a 401 included, since
\* its own interceptor finds the flag taken; a 500 throws.
RespondAgain(r) ==
    /\ pc[r] = "retrying"
    /\ Arrived(Retry(r))
    /\ IF status[Retry(r)] \in ServerError
         THEN Move(r, "clearing") /\ UNCHANGED <<shown, refreshing>>
         ELSE Deliver(r, Retry(r)) /\ refreshing' = FALSE
    /\ UNCHANGED <<accounts, wish, storage, leaving>>

\* The catch clause, two deletions, and finally.
ClearAccess(r) ==
    /\ pc[r] = "clearing"
    /\ access' = None
    /\ Move(r, "cleared")
    /\ UNCHANGED <<accounts, wish, shown, renewal, refreshing, leaving>>

ClearRefresh(r) ==
    /\ pc[r] = "cleared"
    /\ renewal' = None
    /\ End(r, "unauthorized")
    /\ refreshing' = FALSE
    /\ UNCHANGED <<accounts, wish, access, leaving>>

\* login(): writeTokens with the pair of whichever call brought it.
LoginPair(r) == given[IF status[Original(r)] = "pair" THEN Original(r) ELSE Retry(r)]

StoreAccess(r) ==
    /\ pc[r] = "storing"
    /\ access' = LoginPair(r).access
    /\ Move(r, "stored")
    /\ UNCHANGED <<accounts, wish, shown, renewal, refreshing, leaving>>

StoreRefresh(r) ==
    /\ pc[r] = "stored"
    /\ renewal' = LoginPair(r).refresh
    /\ End(r, "pair")
    /\ UNCHANGED <<accounts, wish, access, refreshing, leaving>>

-----------------------------------------------------------------------------
\* A send, receive or connect timeout of the client's Dio, or a connection error:
\* onError has no response to look at; in a repetition it is caught.
GiveUp(r) ==
    /\ \/ pc[r] = "sent" /\ ~Arrived(Original(r)) /\ End(r, "failed")
       \/ pc[r] = "retrying" /\ ~Arrived(Retry(r)) /\ Move(r, "clearing") /\ UNCHANGED shown
    /\ UNCHANGED <<accounts, wish, storage, refreshing, leaving>>

\* The Dio of the refresh has no timeouts: only a connection error ends its wait.
Disconnect(r) ==
    /\ pc[r] = "refreshing"
    /\ ~Arrived(Refresh(r))
    /\ Move(r, "clearing")
    /\ UNCHANGED <<accounts, wish, shown, storage, refreshing, leaving>>

\* logout() clears the storage, whatever is under way.
Logout ==
    /\ IF leaving THEN renewal' = None /\ UNCHANGED access ELSE access' = None /\ UNCHANGED renewal
    /\ leaving' = ~leaving
    /\ UNCHANGED <<accounts, wish, pc, shown, refreshing>>

\* The app is killed and started again: what was stored stays, half a pair included.
Restart ==
    /\ pc' = [r \in Requests |-> IF pc[r] = "idle" THEN "idle" ELSE "done"]
    /\ shown' = [r \in Requests |-> IF pc[r] \in {"idle", "done"} THEN shown[r] ELSE "failed"]
    /\ refreshing' = FALSE
    /\ leaving' = FALSE
    /\ UNCHANGED <<accounts, wish, storage>>

-----------------------------------------------------------------------------
Continue(r) ==
    \/ Send(r) \/ Respond(r) \/ ReadRefresh(r) \/ TakePair(r) \/ KeepAccess(r) \/ KeepRefresh(r)
    \/ RespondAgain(r) \/ ClearAccess(r) \/ ClearRefresh(r) \/ StoreAccess(r) \/ StoreRefresh(r)
    \/ GiveUp(r)

\* An answer nobody waits for any more can be lost or not.
Awaited(c) ==
    \E r \in Requests :
        \/ pc[r] = "sent" /\ c = Original(r)
        \/ pc[r] = "refreshing" /\ c = Refresh(r)
        \/ pc[r] = "retrying" /\ c = Retry(r)

AccountsStep ==
    \/ \E c \in Calls : Handle(c) \/ Crash(c) \/ (Awaited(c) /\ LoseAnswer(c))
    \/ \E email \in Emails : Deactivate(email)
    \/ Tick

AppStep == \E r \in Requests : Continue(r)
ServerStep == (\E c \in Calls : Handle(c)) /\ UNCHANGED client

Next ==
    \/ AppStep
    \/ \E r \in Requests : Disconnect(r)
    \/ Logout
    \/ Restart
    \/ AccountsStep /\ UNCHANGED client

Spec == Init /\ [][Next]_vars

\* The event loops of the app and of the server run every step, and the timers of
\* the client's Dio expire.  Each request has finitely many steps, so it is enough
\* that neither loop rests while one of them can be taken.
FairSpec == Spec /\ WF_vars(AppStep) /\ WF_vars(ServerStep)

-----------------------------------------------------------------------------
TypeOK ==
    /\ TypeOKAccounts
    /\ wish \in [Requests -> Wish]
    /\ pc \in [Requests -> ClientStep]
    /\ shown \in [Requests -> Shown]
    /\ access \in Token \cup {None}
    /\ renewal \in Token \cup {None}
    /\ refreshing \in BOOLEAN
    /\ leaving \in BOOLEAN

\* Responses arrive while others wait for storage or for the network; still the
\* flag is exactly what it stands for: one request, and not two, is refreshing, and
\* when none is, the next 401 may.
OneRefresh ==
    /\ \A r, q \in Requests : pc[r] \in Holding /\ pc[q] \in Holding => r = q
    /\ refreshing <=> \E r \in Requests : pc[r] \in Holding

Spent(token) == token.sub \in inactive \/ ~Fresh(token)

\* The server refuses no good token the app still holds: a refresh is refused only to a
\* token that has expired or whose account is not active, also when an earlier refresh
\* with it was granted and never stored, or when a kill left half a pair; and a request
\* that is refused again after a refresh was repeated with the token it brought.
\* (It says nothing of what the app throws away itself: when a refresh or the
\* repetition after it fails in any way, its answer lost included, the catch clause at
\* api_client.dart:145-146 erases both tokens, good ones too.)
RefusedForAReason ==
    \A r \in Requests :
        /\ status[Refresh(r)] = "unauthorized" => Spent(asked[Refresh(r)].token)
        /\ status[Retry(r)] = "unauthorized" /\ wish[r].op = "me" => Spent(given[Refresh(r)].access)

\* Whatever the network loses and whoever refreshes, every request ends; only the
\* refresh has no timeout, and a request whose refresh is never answered may wait for
\* ever.
EveryRequestEnds ==
    <>(\A r \in Requests :
          \/ pc[r] = "done"
          \/ pc[r] = "refreshing" /\ step[Refresh(r)] = "lost")
=============================================================================
