------------------------------ MODULE Accounts ------------------------------
(***************************************************************************)
(* The /auth endpoints and the bearer tokens every other endpoint asks for *)
(* (api/v1/endpoints/auth.py, services/auth_service.py, core/security.py). *)
(* An account is its email.  Tokens are stateless: the server keeps none,  *)
(* it judges their type and age when they are presented and then looks the *)
(* account up.  A call is handled in steps, with a query between them.     *)
(***************************************************************************)
EXTENDS Integers, FiniteSets

CONSTANTS
    Emails,
    Calls,
    AccessLife, RefreshLife,   \* lifetimes of the two kinds of token
    MaxTime,                   \* bound of the clock
    None                       \* no token, no request, no pair

ASSUME LifeAssumption == AccessLife \in Nat \ {0} /\ RefreshLife \in Nat \ {0}
ASSUME TimeAssumption == MaxTime \in Nat

VARIABLES
    now,
    users,      \* committed rows of the table users
    inactive,   \* the accounts among them whose is_active is false
    step,       \* [Calls -> Step]: how far the handler of a call has come
    asked,      \* [Calls -> Ask \cup {None}]
    status,     \* [Calls -> Status \cup {"none"}]: what it answered
    given       \* [Calls -> Pair \cup {None}]: the tokens made for the caller

server == <<users, inactive, step, asked, status, given>>
accounts == <<now, server>>

Time == 0..MaxTime
Token == [type : {"access", "refresh"}, sub : Emails, iat : Time]
Pair == [access : Token, refresh : Token]

ASSUME NoneAssumption == None \notin Token

Ask == [op : {"register"}, email : Emails]
       \cup [op : {"login"}, email : Emails, right : BOOLEAN]
       \cup [op : {"refresh", "me"}, token : Token \cup {None}]

Status == {"created", "pair", "ok", "conflict", "unauthorized", "duplicate", "error"}

\* The IntegrityError of the unique index is an unhandled exception like any other:
\* the client sees a 500.
ServerError == {"duplicate", "error"}

\* "lost": the handler has ended, and its answer never reaches the caller.
Step == {"idle", "received", "checked", "flushed", "answered", "lost"}

InitAccounts ==
    /\ now \in Time
    /\ users \in SUBSET Emails
    /\ inactive = {}
    /\ step = [c \in Calls |-> "idle"]
    /\ asked = [c \in Calls |-> None]
    /\ status = [c \in Calls |-> "none"]
    /\ given = [c \in Calls |-> None]

-----------------------------------------------------------------------------
Life == [access |-> AccessLife, refresh |-> RefreshLife]

Fresh(t) == now < t.iat + Life[t.type]

\* decode_token(t, expected_type=type); without a token the call is refused too.
Accepts(t, type) == t # None /\ t.type = type /\ Fresh(t)

PairFor(email, t) ==
    [access |-> [type |-> "access", sub |-> email, iat |-> t],
     refresh |-> [type |-> "refresh", sub |-> email, iat |-> t]]

Active(email) == email \in users \ inactive

Pending(c, op) == step[c] = "received" /\ asked[c].op = op

Asks(c, a) ==
    /\ step' = [step EXCEPT ![c] = "received"]
    /\ asked' = [asked EXCEPT ![c] = a]

Goto(c, s) == step' = [step EXCEPT ![c] = s]

Answers(c, s) ==
    /\ Goto(c, "answered")
    /\ status' = [status EXCEPT ![c] = s]

Issues(c, email) == given' = [given EXCEPT ![c] = PairFor(email, now)]

\* PostgreSQL: an INSERT waits for an open transaction that has inserted or updated
\* a row with the same email, an UPDATE for one that has written the row.
RowFree(email, c) ==
    \A d \in Calls \ {c} : step[d] = "flushed" => asked[d].email # email

-----------------------------------------------------------------------------
\* The SELECT of register_user.
LookForEmail(c) ==
    /\ Pending(c, "register")
    /\ IF asked[c].email \in users THEN Answers(c, "conflict") ELSE Goto(c, "checked") /\ UNCHANGED status
    /\ UNCHANGED <<now, users, inactive, asked, given>>

\* Mutant of InsertUser: no unique index.
InsertUserAnyway(c) ==
    /\ step[c] = "checked"
    /\ asked[c].op = "register"
    /\ Goto(c, "flushed")
    /\ UNCHANGED <<now, users, inactive, asked, status, given>>

\* The flush of the new row, against the unique index on email.
InsertUser(c) ==
    /\ step[c] = "checked"
    /\ asked[c].op = "register"
    /\ RowFree(asked[c].email, c)
    /\ IF asked[c].email \in users THEN Answers(c, "duplicate") ELSE Goto(c, "flushed") /\ UNCHANGED status
    /\ UNCHANGED <<now, users, inactive, asked, given>>

CommitUser(c) ==
    /\ step[c] = "flushed"
    /\ asked[c].op = "register"
    /\ users' = users \cup {asked[c].email}
    /\ Answers(c, "created")
    /\ UNCHANGED <<now, inactive, asked, given>>

\* The SELECT of authenticate and what it decides.
CheckPassword(c) ==
    /\ Pending(c, "login")
    /\ IF Active(asked[c].email) /\ asked[c].right
         THEN Goto(c, "checked") /\ UNCHANGED status
         ELSE Answers(c, "unauthorized")
    /\ UNCHANGED <<now, users, inactive, asked, given>>

\* The flush of last_login_at, then the tokens.
RecordLogin(c) ==
    /\ step[c] = "checked"
    /\ asked[c].op = "login"
    /\ RowFree(asked[c].email, c)
    /\ Goto(c, "flushed")
    /\ Issues(c, asked[c].email)
    /\ UNCHANGED <<now, users, inactive, asked, status>>

CommitLogin(c) ==
    /\ step[c] = "flushed"
    /\ asked[c].op = "login"
    /\ Answers(c, "pair")
    /\ UNCHANGED <<now, users, inactive, asked, given>>

\* refresh(): a new pair for whoever is still active.  Nothing is written, so the
\* old refresh token stays good until it expires.  Here and in Identify the token is
\* decoded just before the account is looked up.
Renew(c) ==
    /\ Pending(c, "refresh")
    /\ LET token == asked[c].token IN
       IF Accepts(token, "refresh") /\ Active(token.sub)
         THEN Answers(c, "pair") /\ Issues(c, token.sub)
         ELSE Answers(c, "unauthorized") /\ UNCHANGED given
    /\ UNCHANGED <<now, users, inactive, asked>>

\* get_user_by_token: the account is looked up, and the call served.
Identify(c) ==
    /\ Pending(c, "me")
    /\ LET token == asked[c].token IN
       Answers(c, IF Accepts(token, "access") /\ Active(token.sub) THEN "ok" ELSE "unauthorized")
    /\ UNCHANGED <<now, users, inactive, asked, given>>

\* Any other exception: the transaction is rolled back, the answer is a 500.
Crash(c) ==
    /\ step[c] \in {"received", "checked", "flushed"}
    /\ Answers(c, "error")
    /\ UNCHANGED <<now, users, inactive, asked, given>>

LoseAnswer(c) ==
    /\ step[c] = "answered"
    /\ Goto(c, "lost")
    /\ UNCHANGED <<now, users, inactive, asked, status, given>>

\* An operator clears is_active in the database; no code of the repository does.
Deactivate(email) ==
    /\ Active(email)
    /\ \A d \in Calls : step[d] = "flushed" => asked[d].email # email
    /\ inactive' = inactive \cup {email}
    /\ UNCHANGED <<now, users, step, asked, status, given>>

Tick ==
    /\ now < MaxTime
    /\ now' = now + 1
    /\ UNCHANGED server

-----------------------------------------------------------------------------
Handle(c) ==
    \/ LookForEmail(c) \/ InsertUser(c) \/ CommitUser(c)
    \/ CheckPassword(c) \/ RecordLogin(c) \/ CommitLogin(c)
    \/ Renew(c) \/ Identify(c)

\* A caller of the endpoints may present anything.
Receive(c) ==
    /\ step[c] = "idle"
    /\ \E a \in Ask : Asks(c, a)
    /\ UNCHANGED <<now, users, inactive, status, given>>

Serve(c) == Handle(c) \/ Crash(c) \/ LoseAnswer(c)

AccountsNext ==
    \/ \E c \in Calls : Receive(c) \/ Serve(c)
    \/ \E email \in Emails : Deactivate(email)
    \/ Tick

AccountsSpec == InitAccounts /\ [][AccountsNext]_accounts

-----------------------------------------------------------------------------
TypeOKAccounts ==
    /\ now \in Time
    /\ users \subseteq Emails
    /\ inactive \subseteq users
    /\ step \in [Calls -> Step]
    /\ asked \in [Calls -> Ask \cup {None}]
    /\ status \in [Calls -> Status \cup {"none"}]
    /\ given \in [Calls -> Pair \cup {None}]

Registers(c, email) == asked[c] # None /\ asked[c].op = "register" /\ asked[c].email = email

\* However many registrations of one email overlap between the SELECT and the
\* commit, one of them creates the account, and whoever is turned away, with the
\* 409 or with the 500 of the unique index, is turned away from a committed account
\* and not from a registration that may still fail.
OneAccountPerEmail ==
    \A email \in Emails, c \in Calls : Registers(c, email) =>
        /\ status[c] \in {"created", "conflict", "duplicate"} => email \in users
        /\ status[c] = "created" =>
             \A d \in Calls : Registers(d, email) /\ status[d] = "created" => d = c
=============================================================================
