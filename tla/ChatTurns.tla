----------------------------- MODULE ChatTurns -----------------------------
(***************************************************************************)
(* The turns of one chat session: blocking send, streamed send, regenerate *)
(* (services/chat_service.py), rename and delete of the session            *)
(* (services/session_service.py, endpoints/sessions.py), issued by         *)
(* concurrent requests over one PostgreSQL database at READ COMMITTED.     *)
(*                                                                         *)
(* created_at is the server default now(): the START time of the           *)
(* transaction that inserts the row, not the time of the insert.  A        *)
(* request's transaction starts when its caller is authenticated (that of  *)
(* an SSE stream when its generator first reads), so Begin is a step of    *)
(* its own.  No two transactions start at the same tick of the clock.      *)
(* Rows a transaction has flushed are the request's private state until    *)
(* its commit; the row locks they take are not.                            *)
(***************************************************************************)
EXTENDS Naturals, FiniteSets

CONSTANTS
    Requests,   \* request ids, each used for one call
    Kinds,      \* the calls clients make: a subset of RequestKinds
    NoRequest,
    NoMessage

RequestKinds == {"send", "stream", "regenerate", "rename", "delete"}

ASSUME KindsAssumption == Kinds \subseteq RequestKinds
ASSUME NoRequestAssumption == NoRequest \notin Requests

VARIABLES
    messages,     \* committed chat_messages rows
    removed,      \* those whose deleted_at is set
    title,        \* committed chat_sessions.title
    closed,       \* committed chat_sessions.deleted_at is not null
    sessionLock,  \* holder of the row lock on the session
    now,          \* time: one tick for every transaction start
    pc,           \* [Requests -> Step]
    kind,         \* [Requests -> RequestKinds]
    began,        \* [Requests -> Nat]: start time of the current transaction
    seenTitle,    \* [Requests -> Title]: title loaded by get_session
    titled,       \* [Requests -> BOOLEAN]: flushed a generated title
    target,       \* [Requests]: the answer regenerate replaces
    question      \* [Requests]: the user message regenerate answers again

store == <<messages, removed, title, closed>>
local == <<kind, began, seenTitle, titled, target, question>>
vars == <<store, sessionLock, now, pc, local>>

Title == {"New chat", "generated", "chosen"}
Role == {"user", "assistant"}

\* A row: the request that wrote it, its role, its created_at, and the request
\* whose user message it is or answers.
Message == [by : Requests, role : Role, at : Nat, answers : Requests]

Step == {"idle", "begun", "opened", "saved", "chosen", "matched", "generating", "answered",
         "titling", "titled", "compacting", "compacted", "done", "failed"}
Over == {"done", "failed"}

Visible == messages \ removed
Questions == {m \in messages : m.role = "user"}
Answers == {m \in Visible : m.role = "assistant"}
Latest(S) == {m \in S : \A n \in S : n.at <= m.at}

\* Mutants of QuestionOf: the clock is read at the insert, not at the start of the
\* transaction; the row does not name its turn.
QuestionAtInsert(r) == [by |-> r, role |-> "user", at |-> now, answers |-> r]
QuestionOfNobody(r) == [by |-> r, role |-> "user", at |-> began[r], answers |-> NoRequest]

QuestionOf(r) == [by |-> r, role |-> "user", at |-> began[r], answers |-> r]
AnswerOf(r, q) == [by |-> r, role |-> "assistant", at |-> began[r], answers |-> q]

Init ==
    /\ messages = {}
    /\ removed = {}
    /\ title \in {"New chat", "chosen"}
    /\ closed = FALSE
    /\ sessionLock = NoRequest
    /\ now = 0
    /\ pc = [r \in Requests |-> "idle"]
    /\ kind \in [Requests -> Kinds]
    /\ began = [r \in Requests |-> 0]
    /\ seenTitle = [r \in Requests |-> "New chat"]
    /\ titled = [r \in Requests |-> FALSE]
    /\ target = [r \in Requests |-> NoMessage]
    /\ question = [r \in Requests |-> NoMessage]

-----------------------------------------------------------------------------
Goto(r, s) == pc' = [pc EXCEPT ![r] = s]
IsTurn(r) == kind[r] \in {"send", "stream"}

\* A transaction starts; its start time is the created_at of all it inserts.
StartTransaction(r) ==
    /\ now' = now + 1
    /\ began' = [began EXCEPT ![r] = now + 1]

SessionFree(r) == sessionLock \in {NoRequest, r}
Unlock(r) == sessionLock' = IF sessionLock = r THEN NoRequest ELSE sessionLock

\* The caller is authenticated on the request's database session.  An SSE stream
\* is authenticated in get_db's session, which is closed before its body is sent;
\* its transaction is the one that get_session opens inside the generator.
Begin(r) ==
    /\ pc[r] = "idle"
    /\ StartTransaction(r)
    /\ Goto(r, "begun")
    /\ UNCHANGED <<store, sessionLock, kind, seenTitle, titled, target, question>>

\* get_session: 404 when the session is gone.
Open(r) ==
    /\ pc[r] = "begun"
    /\ IF closed THEN Goto(r, "failed") ELSE Goto(r, "opened")
    /\ seenTitle' = [seenTitle EXCEPT ![r] = title]
    /\ UNCHANGED <<store, sessionLock, now, kind, began, titled, target, question>>

\* Mutant of FlushQuestion: send_message commits the question as stream_message does.
FlushAndCommit(r) ==
    /\ pc[r] = "opened"
    /\ kind[r] = "send"
    /\ messages' = messages \cup {QuestionOf(r)}
    /\ Goto(r, "generating")
    /\ UNCHANGED <<removed, title, closed, sessionLock, now, local>>

\* send_message only flushes the user message.
FlushQuestion(r) ==
    /\ pc[r] = "opened"
    /\ kind[r] = "send"
    /\ Goto(r, "generating")
    /\ UNCHANGED <<store, sessionLock, now, local>>

\* stream_message commits the user message before it generates ...
CommitQuestion(r) ==
    /\ pc[r] = "opened"
    /\ kind[r] = "stream"
    /\ messages' = messages \cup {QuestionOf(r)}
    /\ Goto(r, "saved")
    /\ UNCHANGED <<removed, title, closed, sessionLock, now, local>>

\* ... so what follows runs in a second transaction, which the first query of
\* the generation starts.
StartAnswer(r) ==
    /\ pc[r] = "saved"
    /\ StartTransaction(r)
    /\ Goto(r, "generating")
    /\ UNCHANGED <<store, sessionLock, kind, seenTitle, titled, target, question>>

\* Mutant of ChooseAnswer: the query does not filter on the role.
ChooseAnyMessage(r) ==
    /\ pc[r] = "opened"
    /\ kind[r] = "regenerate"
    /\ \E m \in Latest(Visible) : target' = [target EXCEPT ![r] = m]
    /\ Goto(r, "chosen")
    /\ UNCHANGED <<store, sessionLock, now, kind, began, seenTitle, titled, question>>

\* regenerate_last: the last visible answer.
ChooseAnswer(r) ==
    /\ pc[r] = "opened"
    /\ kind[r] = "regenerate"
    /\ \/ /\ Answers = {}
          /\ Goto(r, "failed")
          /\ UNCHANGED target
       \/ /\ \E m \in Latest(Answers) : target' = [target EXCEPT ![r] = m]
          /\ Goto(r, "chosen")
    /\ UNCHANGED <<store, sessionLock, now, kind, began, seenTitle, titled, question>>

\* The last user message created strictly before that answer.
EarlierQuestions(r) == {m \in Questions : m.at < target[r].at}

ChooseQuestion(r) ==
    /\ pc[r] = "chosen"
    /\ \/ /\ EarlierQuestions(r) = {}
          /\ Goto(r, "failed")
          /\ UNCHANGED question
       \/ /\ \E m \in Latest(EarlierQuestions(r)) : question' = [question EXCEPT ![r] = m]
          /\ Goto(r, "matched")
    /\ UNCHANGED <<store, sessionLock, now, kind, began, seenTitle, titled, target>>

\* The soft delete of an answer takes its row lock, until the request is over.
Removing(r) == kind[r] = "regenerate" /\ pc[r] \in {"generating", "answered"}

\* Mutant of RemoveAnswer: the soft delete is committed before the generation.
RemoveAndCommit(r) ==
    /\ pc[r] = "matched"
    /\ \A q \in Requests : Removing(q) => target[q] # target[r]
    /\ removed' = removed \cup {target[r]}
    /\ Goto(r, "generating")
    /\ UNCHANGED <<messages, title, closed, sessionLock, now, local>>

RemoveAnswer(r) ==
    /\ pc[r] = "matched"
    /\ \A q \in Requests : Removing(q) => target[q] # target[r]
    /\ Goto(r, "generating")
    /\ UNCHANGED <<store, sessionLock, now, local>>

\* The model answered and the assistant message, tool calls and usage are flushed.
Generate(r) ==
    /\ pc[r] = "generating"
    /\ Goto(r, "answered")
    /\ UNCHANGED <<store, sessionLock, now, local>>

\* autogenerate_title_if_needed: decides by the title get_session loaded; a
\* failure of the title model, or an empty title, is swallowed ...
MakeTitle(r) ==
    /\ pc[r] = "answered"
    /\ IsTurn(r)
    /\ \/ Goto(r, "titled")
       \/ seenTitle[r] = "New chat" /\ Goto(r, "titling")
    /\ UNCHANGED <<store, sessionLock, now, local>>

\* ... and a title that was made is flushed, which waits for the session's row.
SetTitle(r) ==
    /\ pc[r] = "titling"
    /\ SessionFree(r)
    /\ sessionLock' = r
    /\ titled' = [titled EXCEPT ![r] = TRUE]
    /\ Goto(r, "titled")
    /\ UNCHANGED <<store, now, kind, began, seenTitle, target, question>>

\* maybe_summarize: there may be nothing to compact, and a failure of the model
\* is swallowed ...
Compact(r) ==
    /\ pc[r] = "titled"
    /\ Goto(r, "compacted") \/ Goto(r, "compacting")
    /\ UNCHANGED <<store, sessionLock, now, local>>

\* ... but a summary that was made is flushed onto the session's row, which waits
\* for it.  What the summary says is not modelled here.
SetSummary(r) ==
    /\ pc[r] = "compacting"
    /\ SessionFree(r)
    /\ sessionLock' = r
    /\ Goto(r, "compacted")
    /\ UNCHANGED <<store, now, local>>

\* Mutant of CommitTurn: the wrong kind of turn still has to write its question.
CommitWrongQuestion(r) ==
    /\ pc[r] = "compacted"
    /\ messages' = messages \cup {AnswerOf(r, r)}
                            \cup (IF kind[r] = "stream" THEN {QuestionOf(r)} ELSE {})
    /\ title' = IF titled[r] THEN "generated" ELSE title
    /\ Unlock(r)
    /\ Goto(r, "done")
    /\ UNCHANGED <<removed, closed, now, local>>

\* The commit at the end of a turn.
CommitTurn(r) ==
    /\ pc[r] = "compacted"
    /\ messages' = messages \cup {AnswerOf(r, r)}
                            \cup (IF kind[r] = "send" THEN {QuestionOf(r)} ELSE {})
    /\ title' = IF titled[r] THEN "generated" ELSE title
    /\ Unlock(r)
    /\ Goto(r, "done")
    /\ UNCHANGED <<removed, closed, now, local>>

\* The commit of regenerate_last: no title, no summary.
CommitRegenerated(r) ==
    /\ pc[r] = "answered"
    /\ kind[r] = "regenerate"
    /\ messages' = messages \cup {AnswerOf(r, question[r].by)}
    /\ removed' = removed \cup {target[r]}
    /\ Goto(r, "done")
    /\ UNCHANGED <<title, closed, sessionLock, now, local>>

\* PATCH and DELETE of the session: one UPDATE, which waits for the row lock,
\* and its commit.
Rename(r) ==
    /\ pc[r] = "opened"
    /\ kind[r] = "rename"
    /\ SessionFree(r)
    /\ title' = "chosen"
    /\ Goto(r, "done")
    /\ UNCHANGED <<messages, removed, closed, sessionLock, now, local>>

Delete(r) ==
    /\ pc[r] = "opened"
    /\ kind[r] = "delete"
    /\ SessionFree(r)
    /\ closed' = TRUE
    /\ Goto(r, "done")
    /\ UNCHANGED <<messages, removed, title, sessionLock, now, local>>

UnderWay(r) == pc[r] \notin {"idle"} \cup Over

\* Mutant of Fail: the transaction is left open.
FailWithoutRollback(r) ==
    /\ UnderWay(r)
    /\ kind[r] # "stream"
    /\ Goto(r, "failed")
    /\ UNCHANGED <<store, sessionLock, now, local>>

\* A provider or database error: get_db rolls the open transaction back.
Fail(r) ==
    /\ UnderWay(r)
    /\ kind[r] # "stream"
    /\ Unlock(r)
    /\ Goto(r, "failed")
    /\ UNCHANGED <<store, now, local>>

\* A stream meets an error, or its client goes away.  get_db ended before the body
\* was sent, so nobody rolls back or closes the generator's transaction: what it
\* flushed is never committed, but the row it locked stays locked.  (Over a
\* WebSocket, or when the error is the database's own, Collect follows at once.)
Abandon(r) ==
    /\ UnderWay(r)
    /\ kind[r] = "stream"
    /\ Goto(r, "failed")
    /\ UNCHANGED <<store, sessionLock, now, local>>

\* The abandoned AsyncSession is garbage-collected: its connection is terminated and
\* PostgreSQL rolls the transaction back.
Collect(r) ==
    /\ kind[r] = "stream"
    /\ pc[r] = "failed"
    /\ sessionLock = r
    /\ sessionLock' = NoRequest
    /\ UNCHANGED <<store, now, pc, local>>

-----------------------------------------------------------------------------
Handle(r) ==
    \/ Open(r) \/ FlushQuestion(r) \/ CommitQuestion(r) \/ StartAnswer(r)
    \/ ChooseAnswer(r) \/ ChooseQuestion(r) \/ RemoveAnswer(r) \/ Generate(r)
    \/ MakeTitle(r) \/ SetTitle(r) \/ Compact(r) \/ SetSummary(r)
    \/ CommitTurn(r) \/ CommitRegenerated(r) \/ Rename(r) \/ Delete(r)

Next == \E r \in Requests : Begin(r) \/ Handle(r) \/ Fail(r) \/ Abandon(r) \/ Collect(r)

Spec == Init /\ [][Next]_vars

\* A handler that has started keeps running.  It need not fail, so waiting for a
\* row lock is not ended by assumption, and nobody has to send a request.  Nothing
\* says when, or that, the collector finds an abandoned session.
FairSpec == Spec /\ \A r \in Requests : WF_vars(Handle(r))

-----------------------------------------------------------------------------
TypeOK ==
    /\ messages \subseteq Message
    /\ removed \subseteq messages
    /\ title \in Title
    /\ closed \in BOOLEAN
    /\ sessionLock \in Requests \cup {NoRequest}
    /\ now \in Nat
    /\ pc \in [Requests -> Step]
    /\ kind \in [Requests -> RequestKinds]
    /\ began \in [Requests -> Nat]
    /\ seenTitle \in [Requests -> Title]
    /\ titled \in [Requests -> BOOLEAN]
    /\ target \in [Requests -> Message \cup {NoMessage}]
    /\ question \in [Requests -> Message \cup {NoMessage}]

\* Every answer in the history, regenerated or not, is an answer to a question
\* that is in the history: a failed or abandoned turn never leaves an answer alone.
AnswersHaveQuestions ==
    \A a \in messages : a.role = "assistant" =>
        \E q \in Questions : q.by = a.answers

\* A blocking turn is stored whole or not at all.
BlockingTurnIsAtomic ==
    \A r \in Requests : kind[r] = "send" =>
        ((\E m \in messages : m.by = r /\ m.role = "user") <=>
         (\E m \in messages : m.by = r /\ m.role = "assistant"))

\* ORDER BY created_at leaves the order of two rows open only when they are the
\* question and the answer of one blocking turn: rows of different requests never
\* tie, and a streamed turn's question sorts strictly before its answer.
OnlyBlockingTurnsTie ==
    \A m, n \in messages :
        /\ (m # n /\ m.at = n.at) => m.by = n.by /\ kind[m.by] = "send"
        /\ (m.by = n.by /\ kind[m.by] = "stream" /\ m.role = "user" /\ n.role = "assistant")
              => m.at < n.at

\* An answer disappears only together with the commit of a new one: a regenerate
\* that fails leaves the old answer where it was.
AnswersAreReplaced ==
    [][\A a \in Answers : a \notin Answers' => \E b \in Answers' \ Answers : b.by # a.by]_vars

\* What a user typed into a turn that was accepted is never lost, nor changed.
QuestionsAreKept == [][Questions \subseteq Questions' /\ Questions' \cap removed' = {}]_vars

\* A failed stream has the session's row locked, and r is about to write to it.
LeftLocked ==
    /\ sessionLock # NoRequest
    /\ kind[sessionLock] = "stream"
    /\ pc[sessionLock] = "failed"

WantsSession(r) ==
    \/ pc[r] = "opened" /\ kind[r] \in {"rename", "delete"}
    \/ pc[r] \in {"titling", "compacting"}

\* The only thing a request can wait for without end is the session's row while a
\* failed or abandoned stream still has it: otherwise a request that has begun ends
\* in an answer or an error, so again and again none is under way.
EveryRequestEnds ==
    []<>(\A r \in Requests : ~UnderWay(r) \/ (LeftLocked /\ WantsSession(r)))

\* docs/api.md: regenerate answers "against the same user input" as the answer
\* it soft-deletes.
RegeneratesSameInput ==
    \A r \in Requests : Removing(r) => question[r].by = target[r].answers

\* autogenerate_title_if_needed replaces the title only "if a session is still
\* 'New chat'": a title the user chose stays.
ChosenTitleStays == [][title = "chosen" => title' = "chosen"]_vars
=============================================================================
