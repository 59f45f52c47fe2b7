-------------------------- MODULE TokenRefreshProofs --------------------------
(***************************************************************************)
(* Accounts and TokenRefresh proved for any emails, calls, requests,       *)
(* lifetimes and clock: an email gets one account, the app in front of the *)
(* endpoints is one of their callers, one request refreshes at a time, and *)
(* who is refused by a refresh, or after one, has a token that is spent.   *)
(***************************************************************************)
EXTENDS TokenRefresh, TLAPS

(* The server: Accounts, for any number of calls. *)

\* What a call under way has asked, and that it has not been answered.
UnderWay ==
    \A c \in Calls :
        /\ step[c] \in {"idle", "received", "checked", "flushed"} => status[c] = "none"
        /\ step[c] # "idle" => asked[c] \in Ask
        /\ step[c] \in {"checked", "flushed"} => asked[c].op \in {"register", "login"}

\* A flushed row is the only one of its email that is flushed; if it is new, no
\* committed row has its email.
RowsInserted ==
    \A c \in Calls : step[c] = "flushed" =>
        /\ asked[c].op = "register" => asked[c].email \notin users
        /\ \A d \in Calls : step[d] = "flushed" /\ asked[d].email = asked[c].email => d = c

GoodPair(p) ==
    /\ p \in Pair
    /\ p.access.type = "access" /\ p.access.sub \in users
    /\ p.refresh.type = "refresh" /\ p.refresh.sub \in users

LoggedIn(c) == step[c] \in {"checked", "flushed"} /\ asked[c].op = "login"

\* Who is let in has an account, and the pairs handed out are for accounts.
PairsKnown ==
    \A c \in Calls :
        /\ LoggedIn(c) => asked[c].email \in users
        /\ LoggedIn(c) /\ step[c] = "flushed" => GoodPair(given[c])
        /\ status[c] = "pair" => GoodPair(given[c])

AInv == TypeOKAccounts /\ UnderWay /\ RowsInserted /\ PairsKnown /\ OneAccountPerEmail

-----------------------------------------------------------------------------
LEMMA AskFields ==
  ASSUME NEW a \in Ask
  PROVE  /\ a.op \in {"register", "login"} => a.email \in Emails
         /\ a.op \in {"refresh", "me"} => a.token \in Token \cup {None}
         /\ a.op \in {"register", "login", "refresh", "me"}
  BY DEF Ask

LEMMA PairForIsGood ==
  ASSUME NEW email \in Emails, email \in users, now \in Time
  PROVE  GoodPair(PairFor(email, now)) /\ PairFor(email, now) \in Pair
  BY DEF GoodPair, PairFor, Pair, Token

LEMMA InitAInv == InitAccounts => AInv
  BY DEF InitAccounts, AInv, TypeOKAccounts, UnderWay, RowsInserted, PairsKnown, LoggedIn,
         OneAccountPerEmail, Step, Status

\* A step that answers no call and writes no row.
LEMMA QuietStep ==
  ASSUME AInv, NEW c \in Calls, NEW s \in Step, step' = [step EXCEPT ![c] = s],
         UNCHANGED <<now, users, inactive, asked, status, given>>,
         \/ s = "lost" /\ step[c] = "answered"
         \/ s = "checked" /\ step[c] = "received" /\ asked[c].op = "register"
         \/ s = "checked" /\ step[c] = "received" /\ asked[c].op = "login" /\ asked[c].email \in users
         \/ /\ s = "flushed" /\ step[c] = "checked" /\ asked[c].op = "register"
            /\ RowFree(asked[c].email, c) /\ asked[c].email \notin users
  PROVE  AInv'
  <1> USE DEF AInv
  <1>1. TypeOKAccounts'
    BY DEF TypeOKAccounts
  <1>2. UnderWay'
    BY DEF UnderWay, TypeOKAccounts
  <1>3. RowsInserted'
    BY DEF RowsInserted, RowFree, TypeOKAccounts
  <1>4. PairsKnown'
    BY DEF PairsKnown, LoggedIn, GoodPair, TypeOKAccounts
  <1>5. OneAccountPerEmail'
    BY DEF OneAccountPerEmail, Registers
  <1> QED BY <1>1, <1>2, <1>3, <1>4, <1>5

\* An answer that is no success.
LEMMA Refusal ==
  ASSUME AInv, NEW c \in Calls, NEW s \in {"conflict", "unauthorized", "duplicate", "error", "ok"}, Answers(c, s),
         step[c] \in {"received", "checked", "flushed"},
         UNCHANGED <<now, users, inactive, asked, given>>,
         s \in {"conflict", "duplicate"} => asked[c].op = "register" /\ asked[c].email \in users
  PROVE  AInv'
  <1> USE DEF AInv, Answers, Goto
  <1>1. TypeOKAccounts'
    BY DEF TypeOKAccounts, Step, Status
  <1>2. UnderWay'
    BY DEF UnderWay, TypeOKAccounts
  <1>3. RowsInserted'
    BY DEF RowsInserted, TypeOKAccounts
  <1>4. PairsKnown'
    BY DEF PairsKnown, LoggedIn, GoodPair, TypeOKAccounts
  <1>5. OneAccountPerEmail'
    BY DEF OneAccountPerEmail, Registers, TypeOKAccounts
  <1> QED BY <1>1, <1>2, <1>3, <1>4, <1>5

\* A pair is answered.
LEMMA PairAnswered ==
  ASSUME AInv, NEW c \in Calls, Answers(c, "pair"), step[c] \in {"received", "flushed"},
         given' \in [Calls -> Pair \cup {None}], GoodPair(given'[c]),
         \A d \in Calls \ {c} : given'[d] = given[d],
         UNCHANGED <<now, users, inactive, asked>>
  PROVE  AInv'
  <1> USE DEF AInv, Answers, Goto
  <1>1. TypeOKAccounts'
    BY DEF TypeOKAccounts, Step, Status
  <1>2. UnderWay'
    BY DEF UnderWay, TypeOKAccounts
  <1>3. RowsInserted'
    BY DEF RowsInserted, TypeOKAccounts
  <1>4. PairsKnown'
    BY DEF PairsKnown, LoggedIn, GoodPair, TypeOKAccounts
  <1>5. OneAccountPerEmail'
    BY DEF OneAccountPerEmail, Registers, TypeOKAccounts
  <1> QED BY <1>1, <1>2, <1>3, <1>4, <1>5

LEMMA ReceiveKeeps ==
  ASSUME AInv, NEW c \in Calls, Receive(c)
  PROVE  AInv'
  <1> USE DEF AInv, Receive, Asks
  <1>1. TypeOKAccounts'
    BY DEF TypeOKAccounts, Step
  <1>2. UnderWay'
    BY DEF UnderWay, TypeOKAccounts
  <1>3. RowsInserted'
    BY DEF RowsInserted, TypeOKAccounts
  <1>4. PairsKnown'
    BY DEF PairsKnown, LoggedIn, GoodPair, TypeOKAccounts
  <1>5. OneAccountPerEmail'
    BY DEF OneAccountPerEmail, Registers, TypeOKAccounts, UnderWay
  <1> QED BY <1>1, <1>2, <1>3, <1>4, <1>5

LEMMA CommitUserKeeps ==
  ASSUME AInv, NEW c \in Calls, CommitUser(c)
  PROVE  AInv'
  <1> USE DEF AInv, CommitUser, Answers, Goto
  <1>1. TypeOKAccounts'
    BY AskFields DEF TypeOKAccounts, Step, Status, UnderWay
  <1>2. UnderWay'
    BY DEF UnderWay, TypeOKAccounts
  <1>3. RowsInserted'
    BY DEF RowsInserted, TypeOKAccounts
  <1>4. PairsKnown'
    BY DEF PairsKnown, LoggedIn, GoodPair, TypeOKAccounts
  <1>5. OneAccountPerEmail'
    BY DEF OneAccountPerEmail, Registers, TypeOKAccounts, RowsInserted
  <1> QED BY <1>1, <1>2, <1>3, <1>4, <1>5

LEMMA RecordLoginKeeps ==
  ASSUME AInv, NEW c \in Calls, RecordLogin(c)
  PROVE  AInv'
  <1> USE DEF AInv, RecordLogin, Goto
  <1>0. asked[c].email \in Emails /\ asked[c].email \in users
    BY AskFields DEF UnderWay, PairsKnown, LoggedIn
  <1>6. GoodPair(PairFor(asked[c].email, now)) /\ PairFor(asked[c].email, now) \in Pair
    BY <1>0, PairForIsGood DEF TypeOKAccounts
  <1>1. TypeOKAccounts'
    BY <1>6 DEF TypeOKAccounts, Step, Issues
  <1>2. UnderWay'
    BY DEF UnderWay, TypeOKAccounts
  <1>3. RowsInserted'
    BY DEF RowsInserted, RowFree, TypeOKAccounts
  <1>4. PairsKnown'
    BY <1>0, <1>6 DEF PairsKnown, LoggedIn, GoodPair, TypeOKAccounts, UnderWay, Issues
  <1>5. OneAccountPerEmail'
    BY DEF OneAccountPerEmail, Registers, TypeOKAccounts
  <1> QED BY <1>1, <1>2, <1>3, <1>4, <1>5

LEMMA DeactivateKeeps ==
  ASSUME AInv, NEW email \in Emails, Deactivate(email)
  PROVE  AInv'
  BY DEF AInv, Deactivate, Active, TypeOKAccounts, UnderWay, RowsInserted, PairsKnown, LoggedIn,
         GoodPair, OneAccountPerEmail, Registers

LEMMA TickKeeps ==
  ASSUME AInv, Tick
  PROVE  AInv'
  BY TimeAssumption
  DEF AInv, Tick, server, Time, TypeOKAccounts, UnderWay, RowsInserted, PairsKnown, LoggedIn,
      GoodPair, OneAccountPerEmail, Registers

-----------------------------------------------------------------------------
LEMMA StepAInv == AInv /\ [AccountsNext]_accounts => AInv'
  <1> SUFFICES ASSUME AInv, [AccountsNext]_accounts PROVE AInv'
    OBVIOUS
  <1>1. ASSUME NEW c \in Calls, LookForEmail(c) PROVE AInv'
    <2>1. CASE asked[c].email \in users
      BY <1>1, <2>1, Refusal DEF LookForEmail, Pending
    <2>2. CASE asked[c].email \notin users
      BY <1>1, <2>2, QuietStep DEF LookForEmail, Pending, Goto, Step
    <2> QED BY <2>1, <2>2
  <1>2. ASSUME NEW c \in Calls, InsertUser(c) PROVE AInv'
    <2>1. CASE asked[c].email \in users
      BY <1>2, <2>1, Refusal DEF InsertUser
    <2>2. CASE asked[c].email \notin users
      BY <1>2, <2>2, QuietStep DEF InsertUser, Goto, Step
    <2> QED BY <2>1, <2>2
  <1>3. ASSUME NEW c \in Calls, CheckPassword(c) PROVE AInv'
    <2>1. CASE Active(asked[c].email) /\ asked[c].right
      BY <1>3, <2>1, QuietStep DEF CheckPassword, Pending, Goto, Step, Active
    <2>2. CASE ~(Active(asked[c].email) /\ asked[c].right)
      BY <1>3, <2>2, Refusal DEF CheckPassword, Pending
    <2> QED BY <2>1, <2>2
  <1>4. ASSUME NEW c \in Calls, CommitLogin(c) PROVE AInv'
    BY <1>4, PairAnswered DEF CommitLogin, AInv, TypeOKAccounts, PairsKnown, LoggedIn
  <1>5. ASSUME NEW c \in Calls, Renew(c) PROVE AInv'
    <2> DEFINE token == asked[c].token
    <2>1. CASE Accepts(token, "refresh") /\ Active(token.sub)
      <3>1. token \in Token /\ token.sub \in Emails /\ token.sub \in users
        BY <1>5, <2>1, AskFields DEF Renew, Pending, Accepts, Active, AInv, UnderWay, Token
      <3>2. GoodPair(PairFor(token.sub, now)) /\ PairFor(token.sub, now) \in Pair
        BY <3>1, PairForIsGood DEF AInv, TypeOKAccounts
      <3>3. given' = [given EXCEPT ![c] = PairFor(token.sub, now)]
        BY <1>5, <2>1 DEF Renew, Issues
      <3>4. given' \in [Calls -> Pair \cup {None}] /\ GoodPair(given'[c])
        BY <3>2, <3>3 DEF AInv, TypeOKAccounts
      <3> QED BY <1>5, <2>1, <3>3, <3>4, PairAnswered DEF Renew, Pending, AInv, TypeOKAccounts
    <2>2. CASE ~(Accepts(token, "refresh") /\ Active(token.sub))
      BY <1>5, <2>2, Refusal DEF Renew, Pending
    <2> QED BY <2>1, <2>2
  <1>6. ASSUME NEW c \in Calls, Identify(c) PROVE AInv'
    <2>1. PICK s \in {"ok", "unauthorized"} : Answers(c, s)
      BY <1>6 DEF Identify
    <2> QED BY <1>6, <2>1, Refusal DEF Identify, Pending
  <1>7. ASSUME NEW c \in Calls, Crash(c) PROVE AInv'
    BY <1>7, Refusal DEF Crash
  <1>8. ASSUME NEW c \in Calls, LoseAnswer(c) PROVE AInv'
    BY <1>8, QuietStep DEF LoseAnswer, Goto, Step
  <1>9. CASE UNCHANGED accounts
    BY <1>9 DEF AInv, accounts, server, TypeOKAccounts, UnderWay, RowsInserted, PairsKnown, LoggedIn,
                GoodPair, OneAccountPerEmail, Registers
  <1> QED
    BY <1>1, <1>2, <1>3, <1>4, <1>5, <1>6, <1>7, <1>8, <1>9, ReceiveKeeps, CommitUserKeeps,
       RecordLoginKeeps, DeactivateKeeps, TickKeeps
    DEF AccountsNext, Serve, Handle

\* The invariant behind the results on accounts and tokens (auth_service.py): rows
\* in flight, answers and the pairs handed out, for any number of overlapping calls.
THEOREM AccountsInvariant == AccountsSpec => []AInv
  BY InitAInv, StepAInv, PTL DEF AccountsSpec

\* However many registrations overlap, an email gets one account, and who is turned
\* away is turned away from a committed one (register_user and its unique index).
THEOREM AccountsKeepOne == AccountsSpec => []OneAccountPerEmail
  <1>1. AInv => OneAccountPerEmail
    BY DEF AInv
  <1> QED BY <1>1, AccountsInvariant, PTL

-----------------------------------------------------------------------------
(* The app in front of it. *)

TypeClient ==
    /\ wish \in [Requests -> Wish]
    /\ pc \in [Requests -> ClientStep]
    /\ shown \in [Requests -> Shown]
    /\ access \in Token \cup {None}
    /\ renewal \in Token \cup {None}
    /\ refreshing \in BOOLEAN
    /\ leaving \in BOOLEAN

\* A call that a request has still to make has not been made.
LegsInOrder ==
    \A r \in Requests :
        /\ pc[r] = "idle" => step[Original(r)] = "idle"
        /\ pc[r] \in {"idle", "sent", "reading"} => step[Refresh(r)] = "idle"
        /\ pc[r] \in {"idle", "sent", "reading", "refreshing", "keeping", "kept"} => step[Retry(r)] = "idle"

\* Who stores a pair, or goes on with one, has got it.
PairsAtHand ==
    \A r \in Requests :
        /\ pc[r] \in {"keeping", "kept", "retrying"} => status[Refresh(r)] = "pair"
        /\ pc[r] \in {"storing", "stored"} => "pair" \in {status[Original(r)], status[Retry(r)]}

\* What the device has stored is of the right kind and names an account.
StoredKnown ==
    /\ access # None => access.type = "access" /\ access.sub \in users
    /\ renewal # None => renewal.type = "refresh" /\ renewal.sub \in users

\* What a refresh was asked with, and a repetition.
RefreshAsked ==
    \A r \in Requests : step[Refresh(r)] # "idle" =>
        LET a == asked[Refresh(r)] IN
        a.op = "refresh" /\ a.token \in Token /\ a.token.type = "refresh" /\ a.token.sub \in users

RetryAsked ==
    \A r \in Requests : step[Retry(r)] # "idle" =>
        /\ status[Refresh(r)] = "pair"
        /\ asked[Retry(r)] = Body(r, given[Refresh(r)].access)

RInv ==
    /\ AInv /\ TypeClient /\ LegsInOrder /\ PairsAtHand /\ StoredKnown
    /\ RefreshAsked /\ RetryAsked /\ OneRefresh /\ RefusedForAReason

-----------------------------------------------------------------------------
LEMMA Legs ==
  /\ \A r \in Requests : Original(r) \in Calls /\ Refresh(r) \in Calls /\ Retry(r) \in Calls
  /\ \A r, q \in Requests :
        /\ Original(r) # Refresh(q) /\ Original(r) # Retry(q) /\ Refresh(r) # Retry(q)
        /\ Original(r) = Original(q) => r = q
        /\ Refresh(r) = Refresh(q) => r = q
        /\ Retry(r) = Retry(q) => r = q
  BY CallsAssumption DEF Original, Refresh, Retry, Leg

LEMMA BodyIsAsk ==
  ASSUME TypeClient, NEW r \in Requests, NEW token \in Token \cup {None}
  PROVE  Body(r, token) \in Ask
  BY DEF TypeClient, Body, Ask, Wish

\* What a step of the server leaves alone, and whom it does not refuse.
Grows == users \subseteq users' /\ inactive \subseteq inactive' /\ now \in Time /\ now' \in Time /\ now <= now'

Lasting(c) ==
    /\ step[c] # "idle" => step'[c] # "idle" /\ asked'[c] = asked[c]
    /\ status[c] # "none" => status'[c] = status[c]
    /\ status[c] = "pair" => given'[c] = given[c]

Reasoned(c) ==
    status[c] # "unauthorized" /\ status'[c] = "unauthorized" =>
        /\ asked[c].op = "refresh" => ~(Accepts(asked[c].token, "refresh") /\ Active(asked[c].token.sub))
        /\ asked[c].op = "me" => ~(Accepts(asked[c].token, "access") /\ Active(asked[c].token.sub))

LEMMA ServerGrows ==
  ASSUME AInv, AccountsNext
  PROVE  Grows
  BY TimeAssumption
  DEF AInv, TypeOKAccounts, Grows, Time, AccountsNext, Serve, Handle, Receive, LookForEmail, InsertUser,
      CommitUser, CheckPassword, RecordLogin, CommitLogin, Renew, Identify, Crash, LoseAnswer, Deactivate,
      Tick, server

LEMMA ServerFacts ==
  ASSUME AInv, AccountsNext, NEW c \in Calls
  PROVE  Lasting(c) /\ Reasoned(c)
  <1> USE TimeAssumption DEF AInv, TypeOKAccounts, UnderWay, Lasting, Reasoned, Goto, Answers, Time
  <1>1. ASSUME NEW d \in Calls, Receive(d) PROVE Lasting(c) /\ Reasoned(c)
    BY <1>1 DEF Receive, Asks
  <1>2. ASSUME NEW d \in Calls, LookForEmail(d) \/ InsertUser(d) \/ CommitUser(d) PROVE Lasting(c) /\ Reasoned(c)
    BY <1>2 DEF LookForEmail, InsertUser, CommitUser, Pending
  <1>3. ASSUME NEW d \in Calls, CheckPassword(d) \/ RecordLogin(d) \/ CommitLogin(d) PROVE Lasting(c) /\ Reasoned(c)
    BY <1>3 DEF CheckPassword, RecordLogin, CommitLogin, Pending, Issues
  <1>4. ASSUME NEW d \in Calls, Renew(d) PROVE Lasting(c) /\ Reasoned(c)
    BY <1>4 DEF Renew, Pending, Issues
  <1>5. ASSUME NEW d \in Calls, Identify(d) PROVE Lasting(c) /\ Reasoned(c)
    BY <1>5 DEF Identify, Pending
  <1>6. ASSUME NEW d \in Calls, Crash(d) \/ LoseAnswer(d) PROVE Lasting(c) /\ Reasoned(c)
    BY <1>6 DEF Crash, LoseAnswer
  <1>7. ASSUME NEW email \in Emails, Deactivate(email) PROVE Lasting(c) /\ Reasoned(c)
    BY <1>7 DEF Deactivate
  <1>8. CASE Tick
    BY <1>8 DEF Tick, server
  <1> QED
    BY <1>1, <1>2, <1>3, <1>4, <1>5, <1>6, <1>7, <1>8 DEF AccountsNext, Serve, Handle

-----------------------------------------------------------------------------
LEMMA InitRInv == Init => RInv
  <1> SUFFICES ASSUME Init PROVE RInv
    OBVIOUS
  <1>1. AInv
    BY InitAInv DEF Init
  <1>2. TypeClient /\ StoredKnown
    <2>1. CASE access = None /\ renewal = None
      BY <2>1 DEF Init, TypeClient, StoredKnown, ClientStep, Shown
    <2>2. ASSUME NEW email \in users, NEW t \in 0..now, access = PairFor(email, t).access, renewal = PairFor(email, t).refresh
          PROVE  TypeClient /\ StoredKnown
      <3>1. email \in Emails /\ t \in Time
        BY <1>1, <2>2, TimeAssumption DEF AInv, TypeOKAccounts, Time
      <3>2. access \in Token /\ renewal \in Token /\ StoredKnown
        BY <2>2, <3>1 DEF PairFor, Token, StoredKnown
      <3> QED BY <3>2 DEF Init, TypeClient, ClientStep, Shown
    <2> QED BY <2>1, <2>2 DEF Init
  <1>3. LegsInOrder /\ PairsAtHand /\ RefreshAsked /\ RetryAsked
    BY Legs DEF Init, InitAccounts, LegsInOrder, PairsAtHand, RefreshAsked, RetryAsked
  <1>4. OneRefresh /\ RefusedForAReason
    BY Legs DEF Init, InitAccounts, OneRefresh, RefusedForAReason, Holding
  <1> QED BY <1>1, <1>2, <1>3, <1>4 DEF RInv

-----------------------------------------------------------------------------
LEMMA SpentLasts ==
  ASSUME now \in Time, now' \in Time, now <= now', inactive \subseteq inactive', NEW t \in Token, Spent(t)
  PROVE  Spent(t)'
  BY LifeAssumption DEF Spent, Fresh, Life, Token, Time

LEMMA RefusedIsSpent ==
  ASSUME NEW t \in Token, t.sub \in users, ~(Accepts(t, t.type) /\ Active(t.sub))
  PROVE  Spent(t)
  BY NoneAssumption DEF Accepts, Active, Spent

LEMMA Unprompted ==
  ASSUME AccountsStep, NEW c \in Calls, step[c] = "idle"
  PROVE  AccountsNext /\ (AInv => step'[c] = "idle")
  BY DEF AccountsStep, AccountsNext, Serve, Handle, Crash, LoseAnswer, LookForEmail, InsertUser, CommitUser,
         CheckPassword, RecordLogin, CommitLogin, Renew, Identify, Deactivate, Tick, server, Pending, Goto,
         Answers, AInv, TypeOKAccounts

\* A step of the server, which starts no call.
LEMMA ServerKeeps ==
  ASSUME RInv, AccountsStep, UNCHANGED client
  PROVE  RInv'
  <1> USE DEF RInv, client, storage
  <1>0. AccountsNext
    BY DEF AccountsStep, AccountsNext, Serve
  <1>1. AInv'
    BY <1>0, StepAInv
  <1>2. Grows /\ \A c \in Calls : Lasting(c) /\ Reasoned(c)
    BY <1>0, ServerGrows, ServerFacts
  <1>3. \A c \in Calls : step'[c] # "idle" => step[c] # "idle"
    BY Unprompted
  <1>4. TypeClient' /\ OneRefresh'
    BY DEF TypeClient, OneRefresh
  <1>5. LegsInOrder'
    BY <1>3, Legs DEF LegsInOrder
  <1>6. PairsAtHand'
    BY <1>2, Legs DEF PairsAtHand, Lasting
  <1>7. StoredKnown'
    BY <1>2 DEF StoredKnown, Grows
  <1>8. RefreshAsked'
    BY <1>2, <1>3, Legs DEF RefreshAsked, Lasting, Grows
  <1>9. RetryAsked'
    BY <1>2, <1>3, Legs DEF RetryAsked, Lasting, Body
  <1>10. \A c \in Calls : status'[c] # "none" => step[c] # "idle"
    BY <1>1, <1>3 DEF AInv, UnderWay
  <1>11. ASSUME NEW r \in Requests, status'[Refresh(r)] = "unauthorized"
         PROVE  Spent(asked[Refresh(r)].token)' /\ asked'[Refresh(r)] = asked[Refresh(r)]
    <2> DEFINE token == asked[Refresh(r)].token
    <2>1. step[Refresh(r)] # "idle"
      BY <1>10, <1>11, Legs
    <2>2. token \in Token /\ token.type = "refresh" /\ token.sub \in users /\ asked[Refresh(r)].op = "refresh"
      BY <2>1 DEF RefreshAsked
    <2>3. Spent(token)
      <3>1. CASE status[Refresh(r)] = "unauthorized"
        BY <3>1 DEF RefusedForAReason
      <3>2. CASE status[Refresh(r)] # "unauthorized"
        BY <3>2, <1>2, <1>11, <2>2, RefusedIsSpent, Legs DEF Reasoned
      <3> QED BY <3>1, <3>2
    <2>4. asked'[Refresh(r)] = asked[Refresh(r)]
      BY <1>2, <2>1, Legs DEF Lasting
    <2>5. Spent(token)'
      BY <1>2, <2>2, <2>3, <2>4, SpentLasts DEF Grows
    <2> QED BY <2>4, <2>5
  <1>12. ASSUME NEW r \in Requests, status'[Retry(r)] = "unauthorized", wish[r].op = "me"
         PROVE  Spent(given[Refresh(r)].access)'
    <2> DEFINE token == given[Refresh(r)].access
    <2>1. step[Retry(r)] # "idle"
      BY <1>10, <1>12, Legs
    <2>2. status[Refresh(r)] = "pair" /\ asked[Retry(r)] = [op |-> "me", token |-> token]
      BY <2>1, <1>12 DEF RetryAsked, Body
    <2>3. token \in Token /\ token.type = "access" /\ token.sub \in users
      BY <2>2, Legs DEF AInv, PairsKnown, GoodPair, Pair
    <2>4. Spent(token)
      <3>1. CASE status[Retry(r)] = "unauthorized"
        BY <3>1, <1>12 DEF RefusedForAReason
      <3>2. CASE status[Retry(r)] # "unauthorized"
        BY <3>2, <1>2, <1>12, <2>2, <2>3, RefusedIsSpent, Legs DEF Reasoned
      <3> QED BY <3>1, <3>2
    <2>5. given'[Refresh(r)] = given[Refresh(r)]
      BY <1>2, <2>2, Legs DEF Lasting
    <2> QED BY <1>2, <2>3, <2>4, <2>5, SpentLasts DEF Grows
  <1>13. RefusedForAReason'
    BY <1>11, <1>12 DEF RefusedForAReason
  <1> QED BY <1>1, <1>4, <1>5, <1>6, <1>7, <1>8, <1>9, <1>13

-----------------------------------------------------------------------------
(* Steps of the app. *)

\* A step that calls nothing.
LEMMA Unasked ==
  ASSUME RInv, UNCHANGED <<accounts, wish>>,
         TypeClient', LegsInOrder', PairsAtHand', StoredKnown', OneRefresh'
  PROVE  RInv'
  <1> USE DEF RInv, accounts, server
  <1>1. AInv'
    BY StepAInv
  <1>2. RefreshAsked' /\ RetryAsked'
    BY DEF RefreshAsked, RetryAsked, Body
  <1>3. RefusedForAReason'
    BY DEF RefusedForAReason, Spent, Fresh
  <1> QED BY <1>1, <1>2, <1>3

\* A step of one request that calls nothing, stores what it may and keeps the flag as
\* it should be.
LEMMA Moved ==
  ASSUME RInv, NEW r \in Requests, NEW s \in ClientStep, Move(r, s),
         UNCHANGED <<accounts, wish, leaving>>, shown' \in [Requests -> Shown], refreshing' \in BOOLEAN,
         access' \in Token \cup {None}, renewal' \in Token \cup {None}, StoredKnown',
         pc[r] # "idle", s \notin {"idle", "sent", "refreshing", "retrying"},
         s = "kept" => pc[r] = "keeping",
         s = "stored" => pc[r] = "storing",
         s = "reading" => pc[r] = "sent",
         s = "keeping" => pc[r] = "refreshing" /\ status[Refresh(r)] = "pair",
         s = "storing" => "pair" \in {status[Original(r)], status[Retry(r)]},
         \/ pc[r] \in Holding /\ s \in Holding /\ UNCHANGED refreshing
         \/ pc[r] \in Holding /\ s \notin Holding /\ refreshing' = FALSE
         \/ pc[r] \notin Holding /\ s \notin Holding /\ UNCHANGED refreshing
         \/ pc[r] \notin Holding /\ s \in Holding /\ ~refreshing /\ refreshing' = TRUE
  PROVE  RInv'
  <1> USE DEF RInv, Move, accounts, server
  <1>1. TypeClient'
    BY DEF TypeClient
  <1>2. LegsInOrder'
    BY DEF LegsInOrder, TypeClient
  <1>3. PairsAtHand'
    BY DEF PairsAtHand, TypeClient
  <1>4. StoredKnown'
    OBVIOUS
  <1>5. OneRefresh'
    BY DEF OneRefresh, TypeClient
  <1> QED BY <1>1, <1>2, <1>3, <1>4, <1>5, Unasked

\* What the interceptor lets pass.
LEMMA DeliverKeeps ==
  ASSUME RInv, NEW r \in Requests, NEW c \in {Original(r), Retry(r)}, Deliver(r, c),
         UNCHANGED <<accounts, wish, storage, leaving>>,
         \/ pc[r] = "sent" /\ UNCHANGED refreshing
         \/ pc[r] = "retrying" /\ refreshing' = FALSE
  PROVE  RInv'
  <1> USE DEF storage
  <1>0. c \in Calls /\ status[c] \in Status \cup {"none"} /\ access \in Token \cup {None} /\ renewal \in Token \cup {None}
    BY Legs DEF RInv, AInv, TypeOKAccounts, TypeClient
  <1>1. CASE wish[r].op = "login" /\ status[c] = "pair" /\ Move(r, "storing") /\ UNCHANGED shown
    BY <1>0, <1>1, Moved DEF RInv, TypeClient, ClientStep, Holding, StoredKnown, accounts, server
  <1>2. CASE End(r, status[c])
    BY <1>0, <1>2, Moved DEF RInv, TypeClient, ClientStep, Holding, Shown, StoredKnown, End, accounts, server
  <1> QED BY <1>1, <1>2 DEF Deliver

LEMMA RespondKeeps ==
  ASSUME RInv, NEW r \in Requests, Respond(r)
  PROVE  RInv'
  <1>1. CASE status[Original(r)] = "unauthorized" /\ ~refreshing
    BY <1>1, Moved DEF Respond, RInv, TypeClient, ClientStep, Holding, StoredKnown, accounts, server, storage
  <1>2. CASE ~(status[Original(r)] = "unauthorized" /\ ~refreshing)
    BY <1>2, DeliverKeeps DEF Respond
  <1> QED BY <1>1, <1>2

LEMMA TakePairKeeps ==
  ASSUME RInv, NEW r \in Requests, TakePair(r)
  PROVE  RInv'
  <1> DEFINE s == IF status[Refresh(r)] = "pair" THEN "keeping" ELSE "clearing"
  <1>1. s \in ClientStep /\ s \in Holding /\ Move(r, s)
    BY DEF TakePair, ClientStep, Holding
  <1> QED BY <1>1, Moved DEF TakePair, RInv, TypeClient, Holding, StoredKnown, accounts, server, storage

LEMMA KeepAccessKeeps ==
  ASSUME RInv, NEW r \in Requests, KeepAccess(r)
  PROVE  RInv'
  <1>1. GoodPair(given[Refresh(r)])
    BY Legs DEF KeepAccess, RInv, PairsAtHand, AInv, PairsKnown
  <1>2. access' \in Token /\ StoredKnown'
    BY <1>1 DEF KeepAccess, RInv, GoodPair, Pair, StoredKnown, accounts, server
  <1> QED BY <1>2, Moved DEF KeepAccess, RInv, TypeClient, ClientStep, Holding, accounts, server

LEMMA RespondAgainKeeps ==
  ASSUME RInv, NEW r \in Requests, RespondAgain(r)
  PROVE  RInv'
  <1>1. CASE status[Retry(r)] \in ServerError
    BY <1>1, Moved DEF RespondAgain, RInv, TypeClient, ClientStep, Holding, StoredKnown, accounts, server, storage
  <1>2. CASE status[Retry(r)] \notin ServerError
    BY <1>2, DeliverKeeps DEF RespondAgain
  <1> QED BY <1>1, <1>2

LEMMA ClearKeeps ==
  ASSUME RInv, NEW r \in Requests, ClearAccess(r) \/ ClearRefresh(r)
  PROVE  RInv'
  <1>1. StoredKnown'
    BY DEF ClearAccess, ClearRefresh, RInv, StoredKnown, accounts, server
  <1>2. CASE ClearAccess(r)
    BY <1>1, <1>2, Moved DEF ClearAccess, RInv, TypeClient, ClientStep, Holding
  <1>3. CASE ClearRefresh(r)
    BY <1>1, <1>3, Moved DEF ClearRefresh, End, RInv, TypeClient, ClientStep, Holding, Shown, Status
  <1> QED BY <1>2, <1>3

LEMMA StoreKeeps ==
  ASSUME RInv, NEW r \in Requests, StoreAccess(r) \/ StoreRefresh(r)
  PROVE  RInv'
  <1>1. GoodPair(LoginPair(r))
    BY Legs DEF StoreAccess, StoreRefresh, RInv, PairsAtHand, AInv, PairsKnown, LoginPair
  <1>2. CASE StoreAccess(r)
    <2>1. access' \in Token /\ StoredKnown'
      BY <1>1, <1>2 DEF StoreAccess, RInv, GoodPair, Pair, StoredKnown, accounts, server
    <2> QED BY <2>1, <1>2, Moved DEF StoreAccess, RInv, TypeClient, ClientStep, Holding
  <1>3. CASE StoreRefresh(r)
    <2>1. renewal' \in Token /\ StoredKnown'
      BY <1>1, <1>3 DEF StoreRefresh, RInv, GoodPair, Pair, StoredKnown, accounts, server
    <2> QED BY <2>1, <1>3, Moved DEF StoreRefresh, End, RInv, TypeClient, ClientStep, Holding, Shown, Status
  <1> QED BY <1>2, <1>3

LEMMA BrokenKeeps ==
  ASSUME RInv, NEW r \in Requests, GiveUp(r) \/ Disconnect(r)
  PROVE  RInv'
  <1> USE DEF storage, RInv, TypeClient, ClientStep, Holding, Shown, StoredKnown, accounts, server
  <1>1. CASE GiveUp(r)
    <2>1. CASE pc[r] = "sent"
      BY <1>1, <2>1, Moved DEF GiveUp, End
    <2>2. CASE pc[r] = "retrying"
      BY <1>1, <2>2, Moved DEF GiveUp
    <2> QED BY <1>1, <2>1, <2>2 DEF GiveUp
  <1>2. CASE Disconnect(r)
    BY <1>2, Moved DEF Disconnect
  <1> QED BY <1>1, <1>2

LEMMA LogoutKeeps ==
  ASSUME RInv, Logout
  PROVE  RInv'
  <1> USE DEF RInv, Logout, accounts, server
  <1>1. TypeClient' /\ StoredKnown'
    BY DEF TypeClient, StoredKnown
  <1>2. LegsInOrder' /\ PairsAtHand' /\ OneRefresh'
    BY DEF LegsInOrder, PairsAtHand, OneRefresh
  <1> QED BY <1>1, <1>2, Unasked

LEMMA RestartKeeps ==
  ASSUME RInv, Restart
  PROVE  RInv'
  <1> USE DEF RInv, Restart, accounts, server, storage, TypeClient
  <1>1. TypeClient' /\ StoredKnown'
    BY DEF ClientStep, Shown, StoredKnown
  <1>2. LegsInOrder' /\ PairsAtHand' /\ OneRefresh'
    BY DEF LegsInOrder, PairsAtHand, OneRefresh, Holding
  <1> QED BY <1>1, <1>2, Unasked

\* A step that calls the server, on a leg not used before.
LEMMA Asked ==
  ASSUME RInv, NEW c \in Calls, step[c] = "idle", NEW a \in Ask, Asks(c, a), UNCHANGED unseen, UNCHANGED wish
  PROVE  /\ AInv' /\ RefusedForAReason'
         /\ step'[c] = "received" /\ asked'[c] = a
         /\ \A d \in Calls \ {c} : step'[d] = step[d] /\ asked'[d] = asked[d]
  <1> USE DEF RInv, unseen
  <1>1. AInv'
    BY ReceiveKeeps DEF Receive
  <1>2. /\ step'[c] = "received" /\ asked'[c] = a
        /\ \A d \in Calls \ {c} : step'[d] = step[d] /\ asked'[d] = asked[d]
    BY DEF Asks, AInv, TypeOKAccounts
  <1>3. status[c] = "none"
    BY DEF AInv, UnderWay
  <1>4. RefusedForAReason'
    BY <1>2, <1>3, Legs DEF RefusedForAReason, Spent, Fresh
  <1> QED BY <1>1, <1>2, <1>4

LEMMA SendKeeps ==
  ASSUME RInv, NEW r \in Requests, Send(r)
  PROVE  RInv'
  <1> DEFINE a == Body(r, access)
  <1> USE DEF RInv, Send, Move, unseen, storage
  <1>1. a \in Ask /\ step[Original(r)] = "idle" /\ Original(r) \in Calls
    BY BodyIsAsk, Legs DEF TypeClient, LegsInOrder
  <1>2. /\ AInv' /\ RefusedForAReason'
        /\ \A d \in Calls \ {Original(r)} : step'[d] = step[d] /\ asked'[d] = asked[d]
    BY <1>1, Asked
  <1>3. TypeClient' /\ StoredKnown' /\ PairsAtHand' /\ OneRefresh'
    BY DEF TypeClient, ClientStep, StoredKnown, PairsAtHand, OneRefresh, Holding
  <1>4. LegsInOrder'
    BY <1>2, Legs DEF LegsInOrder, TypeClient
  <1>5. RefreshAsked' /\ RetryAsked'
    BY <1>2, Legs DEF RefreshAsked, RetryAsked, Body
  <1> QED BY <1>2, <1>3, <1>4, <1>5

LEMMA ReadRefreshKeeps ==
  ASSUME RInv, NEW r \in Requests, ReadRefresh(r)
  PROVE  RInv'
  <1> DEFINE a == [op |-> "refresh", token |-> renewal]
  <1>1. CASE End(r, "unauthorized") /\ refreshing' = FALSE /\ UNCHANGED <<step, asked>>
    BY <1>1, Moved
    DEF ReadRefresh, End, RInv, TypeClient, ClientStep, Holding, Shown, Status, StoredKnown, unseen, accounts,
        server, storage
  <1>2. CASE renewal # None /\ Asks(Refresh(r), a) /\ Move(r, "refreshing") /\ UNCHANGED <<shown, refreshing>>
    <2> USE <1>2 DEF RInv, ReadRefresh, Move, unseen, storage
    <2>1. a \in Ask /\ step[Refresh(r)] = "idle" /\ Refresh(r) \in Calls
      BY Legs DEF TypeClient, LegsInOrder, Ask
    <2>2. /\ AInv' /\ RefusedForAReason' /\ asked'[Refresh(r)] = a
          /\ \A d \in Calls \ {Refresh(r)} : step'[d] = step[d] /\ asked'[d] = asked[d]
      BY <2>1, Asked
    <2>3. TypeClient' /\ StoredKnown' /\ PairsAtHand' /\ OneRefresh'
      BY DEF TypeClient, ClientStep, StoredKnown, PairsAtHand, OneRefresh, Holding
    <2>4. LegsInOrder'
      BY <2>2, Legs DEF LegsInOrder, TypeClient
    <2>5. renewal \in Token /\ renewal.type = "refresh" /\ renewal.sub \in users
      BY DEF TypeClient, StoredKnown
    <2>6. RefreshAsked' /\ RetryAsked'
      BY <2>2, <2>5, Legs DEF RefreshAsked, RetryAsked, Body
    <2> QED BY <2>2, <2>3, <2>4, <2>6
  <1> QED BY <1>1, <1>2 DEF ReadRefresh

LEMMA KeepRefreshKeeps ==
  ASSUME RInv, NEW r \in Requests, KeepRefresh(r)
  PROVE  RInv'
  <1> DEFINE a == Body(r, given[Refresh(r)].access)
  <1> USE DEF RInv, KeepRefresh, Move, unseen
  <1>0. status[Refresh(r)] = "pair" /\ GoodPair(given[Refresh(r)])
    BY Legs DEF PairsAtHand, AInv, PairsKnown
  <1>1. a \in Ask /\ step[Retry(r)] = "idle" /\ Retry(r) \in Calls
    BY <1>0, BodyIsAsk, Legs DEF LegsInOrder, GoodPair, Pair
  <1>2. /\ AInv' /\ RefusedForAReason' /\ asked'[Retry(r)] = a
        /\ \A d \in Calls \ {Retry(r)} : step'[d] = step[d] /\ asked'[d] = asked[d]
    BY <1>1, Asked
  <1>3. TypeClient' /\ StoredKnown'
    BY <1>0 DEF TypeClient, ClientStep, Holding, StoredKnown, GoodPair, Pair
  <1>4. PairsAtHand' /\ OneRefresh'
    BY <1>0 DEF TypeClient, PairsAtHand, OneRefresh, Holding
  <1>5. LegsInOrder'
    BY <1>2, Legs DEF LegsInOrder, TypeClient
  <1>6. RefreshAsked' /\ RetryAsked'
    BY <1>0, <1>2, Legs DEF RefreshAsked, RetryAsked, Body
  <1> QED BY <1>2, <1>3, <1>4, <1>5, <1>6

-----------------------------------------------------------------------------
LEMMA StepRInv == RInv /\ [Next]_vars => RInv'
  <1> SUFFICES ASSUME RInv, [Next]_vars PROVE RInv'
    OBVIOUS
  <1>1. CASE AppStep
    BY <1>1, SendKeeps, RespondKeeps, ReadRefreshKeeps, TakePairKeeps, KeepAccessKeeps, KeepRefreshKeeps,
       RespondAgainKeeps, ClearKeeps, StoreKeeps, BrokenKeeps
    DEF AppStep, Continue
  <1>2. ASSUME NEW r \in Requests, Disconnect(r) PROVE RInv'
    BY <1>2, BrokenKeeps
  <1>3. CASE Logout \/ Restart
    BY <1>3, LogoutKeeps, RestartKeeps
  <1>4. CASE AccountsStep /\ UNCHANGED client
    BY <1>4, ServerKeeps
  <1>5. CASE UNCHANGED vars
    <2> USE <1>5 DEF vars, client, storage
    <2>1. TypeClient' /\ StoredKnown' /\ OneRefresh'
      BY DEF RInv, TypeClient, StoredKnown, OneRefresh, accounts, server
    <2>2. LegsInOrder' /\ PairsAtHand'
      BY DEF RInv, LegsInOrder, PairsAtHand, accounts, server
    <2> QED BY <2>1, <2>2, Unasked
  <1> QED BY <1>1, <1>2, <1>3, <1>4, <1>5 DEF Next

\* Every step of the app and its server is a step of Accounts or leaves it alone: the
\* interceptor (api_client.dart) uses the endpoints like any other caller.
LEMMA StepImplements == RInv /\ [Next]_vars => [AccountsNext]_accounts
  <1> SUFFICES ASSUME RInv, [Next]_vars PROVE [AccountsNext]_accounts
    OBVIOUS
  <1> USE DEF RInv
  <1>1. ASSUME NEW r \in Requests, Send(r) PROVE AccountsNext
    <2>1. Body(r, access) \in Ask /\ step[Original(r)] = "idle" /\ Original(r) \in Calls
      BY <1>1, BodyIsAsk, Legs DEF Send, TypeClient, LegsInOrder
    <2> QED BY <1>1, <2>1 DEF Send, unseen, Receive, AccountsNext
  <1>2. ASSUME NEW r \in Requests, ReadRefresh(r) PROVE AccountsNext \/ UNCHANGED accounts
    <2>1. [op |-> "refresh", token |-> renewal] \in Ask /\ step[Refresh(r)] = "idle" /\ Refresh(r) \in Calls
      BY <1>2, Legs DEF ReadRefresh, TypeClient, LegsInOrder, Ask
    <2> QED BY <1>2, <2>1 DEF ReadRefresh, unseen, Receive, AccountsNext, accounts, server
  <1>3. ASSUME NEW r \in Requests, KeepRefresh(r) PROVE AccountsNext
    <2>1. GoodPair(given[Refresh(r)])
      BY <1>3, Legs DEF KeepRefresh, PairsAtHand, AInv, PairsKnown
    <2>2. Body(r, given[Refresh(r)].access) \in Ask /\ step[Retry(r)] = "idle" /\ Retry(r) \in Calls
      BY <1>3, <2>1, BodyIsAsk, Legs DEF KeepRefresh, LegsInOrder, GoodPair, Pair
    <2> QED BY <1>3, <2>2 DEF KeepRefresh, unseen, Receive, AccountsNext
  <1>4. ASSUME NEW r \in Requests,
               \/ Respond(r) \/ TakePair(r) \/ KeepAccess(r) \/ RespondAgain(r) \/ ClearAccess(r)
               \/ ClearRefresh(r) \/ StoreAccess(r) \/ StoreRefresh(r) \/ GiveUp(r) \/ Disconnect(r)
        PROVE  UNCHANGED accounts
    BY <1>4 DEF Respond, TakePair, KeepAccess, RespondAgain, ClearAccess, ClearRefresh, StoreAccess,
                StoreRefresh, GiveUp, Disconnect
  <1>5. CASE Logout \/ Restart \/ UNCHANGED vars
    BY <1>5 DEF Logout, Restart, vars
  <1>6. CASE AccountsStep
    BY <1>6 DEF AccountsStep, AccountsNext, Serve
  <1> QED BY <1>1, <1>2, <1>3, <1>4, <1>5, <1>6 DEF Next, AppStep, Continue

-----------------------------------------------------------------------------
\* The inductive invariant: what device and server know of each other's tokens, and
\* how far the calls of a request have come (_AuthInterceptor, SecureStorage).
THEOREM RefreshInvariant == Spec => []RInv
  BY InitRInv, StepRInv, PTL DEF Spec

\* The app and its server are an instance of Accounts, crashes of both included.
THEOREM RefreshImplementsAccounts == Spec => AccountsSpec
  <1>1. Init => InitAccounts
    BY DEF Init
  <1> QED BY <1>1, RefreshInvariant, StepImplements, PTL DEF Spec, AccountsSpec

\* Types of client and server, half a stored pair included.
THEOREM RefreshTypeCorrect == Spec => []TypeOK
  <1>1. RInv => TypeOK
    BY DEF RInv, AInv, TypeClient, TypeOK
  <1> QED BY <1>1, RefreshInvariant, PTL

\* One request refreshes at a time and the flag says so (_refreshing,
\* api_client.dart:131), for any number of requests.
THEOREM OneRefreshHolds == Spec => []OneRefresh
  <1>1. RInv => OneRefresh
    BY DEF RInv
  <1> QED BY <1>1, RefreshInvariant, PTL

\* One account for each email (auth_service.py:39), behind any app.
THEOREM OneAccountHolds == Spec => []OneAccountPerEmail
  BY RefreshImplementsAccounts, AccountsKeepOne, PTL

\* The server refuses a refresh, and a request repeated after one, only for a token that
\* has expired or whose account is not active (auth_service.py), also after a kill, half
\* a pair or a granted refresh that was never stored.  What the app erases itself when
\* an answer is lost (api_client.dart:145-146) is no refusal.
THEOREM RefusedForAReasonHolds == Spec => []RefusedForAReason
  <1>1. RInv => RefusedForAReason
    BY DEF RInv
  <1> QED BY <1>1, RefreshInvariant, PTL
=============================================================================
