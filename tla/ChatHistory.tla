---------------------------- MODULE ChatHistory ----------------------------
(***************************************************************************)
(* The two readers of a session's history that work on part of it: the     *)
(* rolling summary (ai/memory), which every turn rewrites at its end from  *)
(* what it read at its start, and a client that pages backwards through    *)
(* the messages (list_history) while turns commit new ones.  The turns are *)
(* those of ChatTurns.                                                     *)
(*                                                                         *)
(* A summary is the set of messages whose text went into it; what the      *)
(* model makes of that text is not modelled.                               *)
(***************************************************************************)
EXTENDS ChatTurns

CONSTANTS
    Window,    \* CHAT_MAX_HISTORY_MESSAGES: messages kept out of the summary
    PageSize   \* limit of a page of the history

ASSUME WindowAssumption == Window \in Nat \ {0}
ASSUME PageSizeAssumption == PageSize \in Nat \ {0}

VARIABLES
    summary,      \* committed chat_sessions.summary
    seenSummary,  \* [Requests -> SUBSET Message]: summary loaded by get_session
    draft,        \* [Requests -> SUBSET Message]: summary a turn will write, {} if none
    listing,      \* where the client is in its pages
    cursor,       \* next_cursor of the last page that had one
    page,         \* the last page the client got
    shown,        \* messages on the pages before it
    before        \* history variable: messages there when the first page was read

memory == <<summary, seenSummary, draft>>
reader == <<listing, cursor, page, shown, before>>
historyVars == <<vars, memory, reader>>

InitHistory ==
    /\ Init
    /\ summary = {}
    /\ seenSummary = [r \in Requests |-> {}]
    /\ draft = [r \in Requests |-> {}]
    /\ listing = "start"
    /\ cursor = 0
    /\ page = {}
    /\ shown = {}
    /\ before = {}

\* ORDER BY created_at DESC LIMIT n: the order of rows that tie is open.
LatestRows(S, n) ==
    {T \in SUBSET S : Cardinality(T) = n /\ \A m \in T, k \in S \ T : k.at <= m.at}

-----------------------------------------------------------------------------
(* The summary *)

\* get_session loads the session row.  The commit in a stream does not expire it,
\* so this is the summary the turn goes on with.
OpenWithSummary(r) ==
    /\ Open(r)
    /\ seenSummary' = [seenSummary EXCEPT ![r] = summary]
    /\ UNCHANGED <<summary, draft, reader>>

\* Mutant of OwnRows: the rows do not name their turn.
OwnRowsOfNobody(r) == {QuestionOfNobody(r)}

\* What the turn has flushed and not committed.
OwnRows(r) == {AnswerOf(r, r)} \cup (IF kind[r] = "send" THEN {QuestionOf(r)} ELSE {})

\* Mutant of CollectOverflow: the slice keeps one message less than the window.
CollectOneMore(r) ==
    /\ Compact(r)
    /\ \/ Goto(r, "compacted") /\ UNCHANGED draft
       \/ /\ Goto(r, "compacting")
          /\ LET rows == Visible \cup OwnRows(r)
             IN  /\ Cardinality(rows) > Window
                 /\ \E kept \in LatestRows(rows, Window - 1) :
                      draft' = [draft EXCEPT ![r] = seenSummary[r] \cup (rows \ kept)]
    /\ UNCHANGED <<summary, seenSummary, reader>>

\* maybe_compact_history: all that left the window, when its text is long enough,
\* goes to the model together with the summary loaded by get_session.
CollectOverflow(r) ==
    /\ Compact(r)
    /\ \/ Goto(r, "compacted") /\ UNCHANGED draft
       \/ /\ Goto(r, "compacting")
          /\ LET rows == Visible \cup OwnRows(r)
             IN  /\ Cardinality(rows) > Window
                 /\ \E kept \in LatestRows(rows, Window) :
                      draft' = [draft EXCEPT ![r] = seenSummary[r] \cup (rows \ kept)]
    /\ UNCHANGED <<summary, seenSummary, reader>>

\* Mutant of SaveSummary: the new summary is committed on its own.
SaveAndCommitSummary(r) ==
    /\ SetSummary(r)
    /\ summary' = draft[r]
    /\ UNCHANGED <<seenSummary, draft, reader>>

\* save_session_summary flushes the model's answer onto the locked session row.
SaveSummary(r) ==
    /\ SetSummary(r)
    /\ UNCHANGED <<memory, reader>>

CommitWithSummary(r) ==
    /\ CommitTurn(r)
    /\ summary' = IF draft[r] = {} THEN summary ELSE draft[r]
    /\ UNCHANGED <<seenSummary, draft, reader>>

FailWithDraft(r) ==
    /\ Fail(r) \/ Abandon(r)
    /\ draft' = [draft EXCEPT ![r] = {}]
    /\ UNCHANGED <<summary, seenSummary, reader>>

-----------------------------------------------------------------------------
(* The pages *)

\* Mutant of Rest: the cursor's own row is asked for again.
RestInclusive == {m \in Visible : listing = "start" \/ m.at <= cursor}

\* The rows list_history selects from; the first page is asked for without a cursor.
Rest == {m \in Visible : listing = "start" \/ m.at < cursor}

\* Mutant of ReadPage: no row beyond the page is asked for, so there never is more.
ReadOnlyPage ==
    /\ listing \in {"start", "more"}
    /\ ~closed
    /\ page' \in LatestRows(Rest, IF Cardinality(Rest) > PageSize THEN PageSize ELSE Cardinality(Rest))
    /\ shown' = shown \cup page
    /\ listing' = "end"
    /\ before' = IF listing = "start" THEN Visible ELSE before
    /\ UNCHANGED <<vars, memory, cursor>>

\* list_history: one row more than the page is asked for, to know whether there
\* is a next page; its cursor is the created_at of the last row of this one.
ReadPage ==
    /\ listing \in {"start", "more"}
    /\ ~closed
    /\ IF Cardinality(Rest) > PageSize
       THEN /\ page' \in LatestRows(Rest, PageSize)
            /\ cursor' \in {m.at : m \in page'}
            /\ \A m \in page' : cursor' <= m.at
            /\ listing' = "more"
       ELSE /\ page' = Rest
            /\ listing' = "end"
            /\ UNCHANGED cursor
    /\ shown' = shown \cup page
    /\ before' = IF listing = "start" THEN Visible ELSE before
    /\ UNCHANGED <<vars, memory>>

\* get_session: 404 when the session is gone.
PageNotFound ==
    /\ listing \in {"start", "more"}
    /\ closed
    /\ listing' = "failed"
    /\ UNCHANGED <<vars, memory, cursor, page, shown, before>>

-----------------------------------------------------------------------------
\* The steps of ChatTurns that touch neither the summary nor the pages.
OtherStep(r) ==
    /\ \/ Begin(r) \/ FlushQuestion(r) \/ CommitQuestion(r) \/ StartAnswer(r)
       \/ ChooseAnswer(r) \/ ChooseQuestion(r) \/ RemoveAnswer(r) \/ Generate(r)
       \/ MakeTitle(r) \/ SetTitle(r) \/ CommitRegenerated(r) \/ Rename(r) \/ Delete(r)
       \/ Collect(r)
    /\ UNCHANGED <<memory, reader>>

TurnStep(r) ==
    \/ OpenWithSummary(r) \/ CollectOverflow(r) \/ SaveSummary(r)
    \/ CommitWithSummary(r) \/ FailWithDraft(r) \/ OtherStep(r)

NextHistory == (\E r \in Requests : TurnStep(r)) \/ ReadPage \/ PageNotFound

SpecHistory == InitHistory /\ [][NextHistory]_historyVars

-----------------------------------------------------------------------------
TypeOKHistory ==
    /\ TypeOK
    /\ summary \subseteq Message
    /\ seenSummary \in [Requests -> SUBSET Message]
    /\ draft \in [Requests -> SUBSET Message]
    /\ listing \in {"start", "more", "end", "failed"}
    /\ cursor \in Nat
    /\ page \subseteq Message
    /\ shown \subseteq Message
    /\ before \subseteq Message

\* The model is never told of a message the history does not have: a summary made
\* from rows that were rolled back is rolled back with them.
SummaryIsHistory == summary \subseteq messages

\* Only what left the window is summarized: a whole window of messages that are not
\* older is there next to every message the summary tells of.
LeftWindow(m, S) ==
    \E T \in SUBSET (S \ {m}) : Cardinality(T) = Window /\ \A k \in T : m.at <= k.at

SummaryIsOld == \A m \in summary : LeftWindow(m, messages)

\* Pages go strictly back in time: whatever commits between two pages, nothing is
\* shown twice, and nothing newer than what has been shown.
PagesDescend == \A m \in page, k \in shown : m.at < k.at

\* A client that paged to the end has seen every message that was there when it
\* began, except those that were replaced, and those that tie with one it was shown
\* (the two rows of a blocking turn, if a page ends between them).
Covered(m) == m \in removed \/ \E k \in shown \cup page : k = m \/ k.at = m.at

PagesCover == listing = "end" => \A m \in before : Covered(m)
=============================================================================
