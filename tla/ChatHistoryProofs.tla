------------------------- MODULE ChatHistoryProofs -------------------------
(***************************************************************************)
(* The summary and the pages of ChatHistory, proved for any number of      *)
(* requests, any window and any page size.                                 *)
(*                                                                         *)
(* A turn carries a summary from its start to its end while other turns    *)
(* commit.  The inductive invariant (SummaryInv) says of each of the three *)
(* places a summary can be in, the session row, a turn that loaded it and  *)
(* a turn that drafted one, which rows it is made of and that a window of  *)
(* rows came after each of them; a draft may use the rows its own turn has *)
(* flushed.  PagesInv relates the cursor to what has been shown.           *)
(***************************************************************************)
EXTENDS ChatHistory, ChatTurnsProofs

\* The steps at which a turn can have a draft.
Ending == {"compacting", "compacted", "done"}

\* A summary S made of rows of a table, each followed by a whole window of rows.
Remembered(S, rows) == S \subseteq rows /\ \A m \in S : LeftWindow(m, rows)

SummaryInv ==
    /\ Remembered(summary, messages)
    /\ \A r \in Requests : Remembered(seenSummary[r], messages)
    /\ \A r \in Requests : Remembered(draft[r], messages \cup OwnRows(r))
    /\ \A r \in Requests : draft[r] # {} => pc[r] \in Ending

PagesInv ==
    /\ PagesDescend
    /\ listing = "start" => page = {} /\ shown = {} /\ before = {}
    /\ listing = "more" => \A m \in shown \cup page : cursor <= m.at
    /\ before \subseteq messages
    /\ listing \in {"more", "end"} =>
         \A m \in before : Covered(m) \/ (listing = "more" /\ m.at < cursor)

\* Every step of ChatHistory is a step of ChatTurns, or leaves its state alone.
LEMMA StepIsTurnStep == [NextHistory]_historyVars => [Next]_vars
  <1> SUFFICES ASSUME [NextHistory]_historyVars PROVE [Next]_vars
    OBVIOUS
  <1>1. ASSUME NEW r \in Requests, OtherStep(r)
        PROVE  Next
    BY <1>1, Zenon DEF OtherStep, Next, Handle
  <1>2. ASSUME NEW r \in Requests,
               OpenWithSummary(r) \/ CollectOverflow(r) \/ SaveSummary(r) \/ CommitWithSummary(r)
        PROVE  Next
    BY <1>2, Zenon DEF OpenWithSummary, CollectOverflow, SaveSummary, CommitWithSummary, Next, Handle
  <1>3. ASSUME NEW r \in Requests, FailWithDraft(r)
        PROVE  Next
    BY <1>3, Zenon DEF FailWithDraft, Next
  <1>4. CASE ReadPage \/ PageNotFound
    BY <1>4 DEF ReadPage, PageNotFound
  <1>5. CASE UNCHANGED historyVars
    BY <1>5 DEF historyVars
  <1> QED BY <1>1, <1>2, <1>3, <1>4, <1>5, Zenon DEF NextHistory, TurnStep

\* ChatHistory implements ChatTurns: the summary and the pages add nothing to what
\* turns do, and all that is proved of turns holds here.
THEOREM HistoryImplementsTurns == SpecHistory => Spec
  <1>1. InitHistory => Init
    BY DEF InitHistory
  <1> QED BY <1>1, StepIsTurnStep, PTL DEF SpecHistory, Spec

LEMMA OwnRowsAreRows ==
  ASSUME TypeOK, NEW r \in Requests
  PROVE  OwnRows(r) \subseteq Message
  BY RowsHaveTypes DEF OwnRows

\* What a turn has flushed is the same from the end of its generation on.
LEMMA OwnRowsStay ==
  ASSUME IInv, [Next]_vars, NEW q \in Requests, pc[q] \in Ending
  PROVE  OwnRows(q)' = OwnRows(q)
  <1>1. kind' = kind
    BY StepFacts
  <1>2. began'[q] = began[q]
    <2> USE DEF IInv, TypeOK, local, StartTransaction, Ending
    <2>1. ASSUME NEW r \in Requests, Begin(r) \/ StartAnswer(r)
          PROVE  began'[q] = began[q]
      BY <2>1 DEF Begin, StartAnswer
    <2>2. ASSUME NEW r \in Requests, Act(r), ~Begin(r), ~StartAnswer(r)
          PROVE  began' = began
      BY <2>2 DEF Act, Handle, Open, FlushQuestion, CommitQuestion, ChooseAnswer, ChooseQuestion,
                  RemoveAnswer, Generate, MakeTitle, SetTitle, Compact, SetSummary, CommitTurn,
                  CommitRegenerated, Rename, Delete, Fail, Abandon, Collect
    <2>3. CASE UNCHANGED vars
      BY <2>3 DEF vars
    <2> QED BY <2>1, <2>2, <2>3, NextIsAct
  <1> QED BY <1>1, <1>2 DEF OwnRows, AnswerOf, QuestionOf

LEMMA RememberedGrows ==
  ASSUME NEW S, NEW A, NEW B, Remembered(S, A), A \subseteq B
  PROVE  Remembered(S, B)
  BY DEF Remembered, LeftWindow

\* What maybe_compact_history puts together is remembered: the rows it keeps out
\* are a window for each of those it summarizes.
LEMMA DraftIsRemembered ==
  ASSUME NEW old, NEW all, NEW rows \in SUBSET all, NEW kept \in LatestRows(rows, Window),
         Remembered(old, all)
  PROVE  Remembered(old \cup (rows \ kept), all)
  <1>1. ASSUME NEW m \in rows \ kept
        PROVE  LeftWindow(m, all)
    <2>1. /\ kept \in SUBSET (all \ {m})
          /\ Cardinality(kept) = Window
          /\ \A k \in kept : m.at <= k.at
      BY <1>1 DEF LatestRows
    <2> QED BY <2>1 DEF LeftWindow
  <1> QED BY <1>1 DEF Remembered

\* A draft that a step leaves alone stays remembered.
LEMMA DraftStays ==
  ASSUME IInv, [Next]_vars, SummaryInv, NEW q \in Requests, draft'[q] \in {draft[q], {}}
  PROVE  Remembered(draft'[q], messages' \cup OwnRows(q)')
  <1>1. CASE draft'[q] = {}
    BY <1>1 DEF Remembered
  <1>2. CASE draft'[q] = draft[q] /\ draft[q] # {}
    <2>1. OwnRows(q)' = OwnRows(q)
      BY <1>2, OwnRowsStay DEF SummaryInv
    <2>2. messages \subseteq messages'
      BY StepFacts
    <2>3. Remembered(draft[q], messages \cup OwnRows(q))
      BY DEF SummaryInv
    <2> QED BY <1>2, <2>1, <2>2, <2>3, RememberedGrows
  <1> QED BY <1>1, <1>2

MemoryTypes == draft \in [Requests -> SUBSET Message] /\ seenSummary \in [Requests -> SUBSET Message]

LEMMA SummaryStep ==
  ASSUME IInv, MemoryTypes, SummaryInv, [NextHistory]_historyVars
  PROVE  SummaryInv'
  <1>1. [Next]_vars /\ messages \subseteq messages'
    BY StepIsTurnStep, StepFacts
  <1>2. ASSUME Remembered(summary, messages)', \A q \in Requests : Remembered(seenSummary[q], messages)',
               \A q \in Requests : draft'[q] # {} => pc'[q] \in Ending,
               \A q \in Requests : Remembered(draft'[q], messages' \cup OwnRows(q)')
        PROVE  SummaryInv'
    BY <1>2 DEF SummaryInv
  <1>3. summary' = summary => Remembered(summary, messages)'
    BY <1>1, RememberedGrows DEF SummaryInv, Remembered, LeftWindow
  <1>4. seenSummary' = seenSummary => \A q \in Requests : Remembered(seenSummary[q], messages)'
    BY <1>1, RememberedGrows DEF SummaryInv, Remembered, LeftWindow
  <1>5. draft' = draft => \A q \in Requests : Remembered(draft'[q], messages' \cup OwnRows(q)')
    BY <1>1, DraftStays
  <1>6. ASSUME NEW r \in Requests, OtherStep(r)
        PROVE  SummaryInv'
    <2>1. UNCHANGED memory
      BY <1>6 DEF OtherStep
    <2>2. \A q \in Requests : pc[q] \in Ending => pc'[q] \in Ending
      BY <1>6 DEF OtherStep, Begin, FlushQuestion, CommitQuestion, StartAnswer, ChooseAnswer,
                  ChooseQuestion, RemoveAnswer, Generate, MakeTitle, SetTitle, CommitRegenerated,
                  Rename, Delete, Collect, Ending, Goto, IInv, TypeOK
    <2> QED BY <2>1, <2>2, <1>2, <1>3, <1>4, <1>5 DEF SummaryInv, memory
  <1>7. ASSUME NEW r \in Requests, OpenWithSummary(r)
        PROVE  SummaryInv'
    <2>1. /\ summary' = summary /\ draft' = draft
          /\ seenSummary' = [seenSummary EXCEPT ![r] = summary]
          /\ \A q \in Requests : pc[q] \in Ending => pc'[q] \in Ending
      BY <1>7 DEF OpenWithSummary, Open, Goto, Ending, IInv, TypeOK
    <2>2. \A q \in Requests : Remembered(seenSummary'[q], messages')
      BY <2>1, <1>1, RememberedGrows DEF SummaryInv, MemoryTypes
    <2> QED BY <2>1, <2>2, <1>2, <1>3, <1>5 DEF SummaryInv
  <1>8. ASSUME NEW r \in Requests, CollectOverflow(r)
        PROVE  SummaryInv'
    <2> DEFINE rows == Visible \cup OwnRows(r)
    <2>1. /\ UNCHANGED <<summary, seenSummary, messages, kind, began>>
          /\ \A q \in Requests : pc[q] \in Ending => pc'[q] \in Ending
      BY <1>8 DEF CollectOverflow, Compact, Goto, store, local, Ending, IInv, TypeOK
    <2>2. CASE UNCHANGED draft
      BY <2>1, <2>2, <1>2, <1>3, <1>4, <1>5 DEF SummaryInv
    <2>3. ASSUME NEW kept \in LatestRows(rows, Window), pc'[r] = "compacting",
                 draft' = [draft EXCEPT ![r] = seenSummary[r] \cup (rows \ kept)]
          PROVE  SummaryInv'
      <3>1. Remembered(draft'[r], messages \cup OwnRows(r))
        <4>1. rows \in SUBSET (messages \cup OwnRows(r))
          BY DEF Visible
        <4>2. Remembered(seenSummary[r], messages \cup OwnRows(r))
          BY RememberedGrows DEF SummaryInv
        <4>3. draft'[r] = seenSummary[r] \cup (rows \ kept)
          BY <2>3 DEF MemoryTypes
        <4> QED BY <4>1, <4>2, <4>3, DraftIsRemembered
      <3>2. OwnRows(r)' = OwnRows(r)
        BY <2>1 DEF OwnRows, AnswerOf, QuestionOf
      <3>3. \A q \in Requests : q # r => draft'[q] = draft[q]
        BY <2>3 DEF MemoryTypes
      <3>4. \A q \in Requests : Remembered(draft'[q], messages' \cup OwnRows(q)')
        BY <2>1, <3>1, <3>2, <3>3, <1>1, DraftStays
      <3>5. \A q \in Requests : draft'[q] # {} => pc'[q] \in Ending
        BY <2>1, <2>3, <3>3 DEF SummaryInv, Ending
      <3> QED BY <2>1, <3>4, <3>5, <1>2, <1>3, <1>4
    <2>4. \/ UNCHANGED draft
          \/ /\ pc'[r] = "compacting"
             /\ \E kept \in LatestRows(rows, Window) :
                   draft' = [draft EXCEPT ![r] = seenSummary[r] \cup (rows \ kept)]
      BY <1>8 DEF CollectOverflow, Goto, IInv, TypeOK
    <2> QED BY <2>2, <2>3, <2>4
  <1>9. ASSUME NEW r \in Requests, SaveSummary(r) \/ FailWithDraft(r)
        PROVE  SummaryInv'
    <2>1. /\ summary' = summary /\ seenSummary' = seenSummary
          /\ \/ draft' = draft /\ pc' = [pc EXCEPT ![r] = "compacted"]
             \/ draft' = [draft EXCEPT ![r] = {}]
          /\ \A q \in Requests : q # r => pc'[q] = pc[q]
      BY <1>9 DEF SaveSummary, FailWithDraft, SetSummary, Fail, Abandon, memory, Goto, IInv, TypeOK
    <2>2. \A q \in Requests : draft'[q] \in {draft[q], {}}
      BY <2>1 DEF MemoryTypes
    <2>3. \A q \in Requests : draft'[q] # {} => pc'[q] \in Ending
      BY <2>1 DEF MemoryTypes, SummaryInv, Ending, IInv, TypeOK
    <2> QED BY <2>1, <2>2, <2>3, <1>1, <1>2, <1>3, <1>4, DraftStays
  <1>10. ASSUME NEW r \in Requests, CommitWithSummary(r)
         PROVE  SummaryInv'
    <2>1. /\ seenSummary' = seenSummary /\ draft' = draft
          /\ summary' = IF draft[r] = {} THEN summary ELSE draft[r]
          /\ messages' = messages \cup OwnRows(r)
      BY <1>10 DEF CommitWithSummary, CommitTurn, OwnRows
    <2>2. \A q \in Requests : pc[q] \in Ending => pc'[q] \in Ending
      BY <1>10 DEF CommitWithSummary, CommitTurn, Goto, Ending, IInv, TypeOK
    <2>3. Remembered(summary, messages)'
      BY <2>1, <1>3 DEF SummaryInv, Remembered, LeftWindow
    <2> QED BY <2>1, <2>2, <2>3, <1>2, <1>4, <1>5 DEF SummaryInv
  <1>11. ASSUME ReadPage \/ PageNotFound \/ UNCHANGED historyVars
         PROVE  SummaryInv'
    <2>1. UNCHANGED memory /\ pc' = pc
      BY <1>11 DEF ReadPage, PageNotFound, historyVars, vars
    <2> QED BY <2>1, <1>2, <1>3, <1>4, <1>5 DEF SummaryInv, memory
  <1> QED BY <1>6, <1>7, <1>8, <1>9, <1>10, <1>11 DEF NextHistory, TurnStep

-----------------------------------------------------------------------------
\* A row that is deleted stays deleted.
LEMMA RemovedGrows == [Next]_vars => removed \subseteq removed'
  <1>1. ASSUME NEW r \in Requests, Act(r)
        PROVE  removed \subseteq removed'
    BY <1>1 DEF Act, Begin, Handle, Open, FlushQuestion, CommitQuestion, StartAnswer, ChooseAnswer,
                ChooseQuestion, RemoveAnswer, Generate, MakeTitle, SetTitle, Compact, SetSummary,
                CommitTurn, CommitRegenerated, Rename, Delete, Fail, Abandon, Collect, store
  <1> QED BY <1>1, NextIsAct DEF vars, store

ReaderTypes ==
    /\ cursor \in Nat
    /\ page \subseteq Message
    /\ shown \subseteq Message

\* What a page does to the cursor and to the rows of the history: every row that is
\* left is on the page, or older than the new cursor, or ties with it.
LEMMA PageStep ==
  ASSUME TypeOK, ReaderTypes, PagesInv, ReadPage
  PROVE  PagesInv'
  <1>1. /\ messages' = messages /\ removed' = removed
        /\ shown' = shown \cup page
        /\ page' \subseteq Rest
        /\ before' = IF listing = "start" THEN Visible ELSE before
        /\ listing' \in {"more", "end"}
        /\ listing \in {"start", "more"}
    BY DEF ReadPage, LatestRows, vars, store
  <1>2. Message \subseteq [by : Requests, role : Role, at : Nat, answers : Requests]
    BY DEF Message
  <1>3. \A m \in Message : m.at \in Nat
    BY <1>2
  <1>4. Rest \subseteq messages /\ messages \subseteq Message
    BY DEF Rest, Visible, TypeOK
  <1>5. \A m \in shown', k \in page' : k.at < m.at
    <2>1. CASE listing = "start"
      BY <1>1, <2>1 DEF PagesInv
    <2>2. CASE listing = "more"
      <3> SUFFICES ASSUME NEW m \in shown', NEW k \in page' PROVE k.at < m.at
        OBVIOUS
      <3>1. cursor <= m.at
        BY <1>1, <2>2 DEF PagesInv
      <3>2. k.at < cursor
        BY <1>1, <2>2 DEF Rest
      <3>3. m.at \in Nat /\ k.at \in Nat
        BY <1>1, <1>3, <1>4 DEF ReaderTypes
      <3> QED BY <3>1, <3>2, <3>3 DEF ReaderTypes
    <2> QED BY <1>1, <2>1, <2>2
  <1>6. CASE Cardinality(Rest) > PageSize
    <2>1. /\ page' \in LatestRows(Rest, PageSize)
          /\ \E m \in page' : cursor' = m.at
          /\ \A m \in page' : cursor' <= m.at
          /\ listing' = "more"
      BY <1>6 DEF ReadPage
    <2>2. PICK last \in page' : cursor' = last.at
      BY <2>1
    <2>3. cursor' \in Nat
      BY <1>1, <1>3, <1>4, <2>2
    <2>4. \A m \in shown' \cup page' : cursor' <= m.at
      <3>1. \A m \in shown' : last.at < m.at
        BY <1>5, <2>2
      <3>2. \A m \in shown' : m.at \in Nat
        BY <1>1, <1>3 DEF ReaderTypes
      <3> QED BY <2>1, <2>2, <2>3, <3>1, <3>2
    <2>5. ASSUME NEW m \in Rest
          PROVE  Covered(m)' \/ m.at < cursor'
      <3>1. CASE m \in page'
        BY <3>1 DEF Covered
      <3>2. CASE m \notin page'
        <4>1. m.at <= last.at
          BY <2>1, <3>2 DEF LatestRows
        <4>2. m.at \in Nat
          BY <1>3, <1>4
        <4>3. m.at < cursor' \/ m.at = last.at
          BY <4>1, <4>2, <2>2, <2>3
        <4> QED BY <4>3 DEF Covered
      <3> QED BY <3>1, <3>2
    <2>6. ASSUME NEW m \in before'
          PROVE  Covered(m)' \/ m.at < cursor'
      <3>1. CASE m \in Rest
        BY <3>1, <2>5
      <3>2. CASE Covered(m)
        BY <1>1, <3>2 DEF Covered
      <3>3. m \in Rest \/ Covered(m)
        BY <1>1, <2>6 DEF PagesInv, Rest, Covered, Visible
      <3> QED BY <3>1, <3>2, <3>3
    <2>7. before' \subseteq messages'
      BY <1>1 DEF PagesInv, Visible
    <2> QED BY <1>5, <2>1, <2>4, <2>6, <2>7 DEF PagesInv, PagesDescend
  <1>7. CASE ~(Cardinality(Rest) > PageSize)
    <2>1. page' = Rest /\ listing' = "end"
      BY <1>7 DEF ReadPage
    <2>2. ASSUME NEW m \in before'
          PROVE  Covered(m)'
      <3>1. CASE m \in Rest
        BY <3>1, <2>1 DEF Covered
      <3>2. CASE Covered(m)
        BY <1>1, <3>2 DEF Covered
      <3>3. m \in Rest \/ Covered(m)
        BY <1>1, <2>2 DEF PagesInv, Rest, Covered, Visible
      <3> QED BY <3>1, <3>2, <3>3
    <2>3. before' \subseteq messages'
      BY <1>1 DEF PagesInv, Visible
    <2> QED BY <1>5, <2>1, <2>2, <2>3 DEF PagesInv, PagesDescend
  <1> QED BY <1>6, <1>7

LEMMA PagesStep ==
  ASSUME IInv, ReaderTypes, PagesInv, [NextHistory]_historyVars
  PROVE  PagesInv'
  <1>1. messages \subseteq messages' /\ removed \subseteq removed'
    BY StepIsTurnStep, StepFacts, RemovedGrows
  <1>2. CASE ReadPage
    BY <1>2, PageStep DEF IInv
  <1>3. CASE PageNotFound
    BY <1>3, <1>1 DEF PageNotFound, PagesInv, PagesDescend
  <1>4. CASE UNCHANGED reader
    BY <1>4, <1>1 DEF reader, PagesInv, PagesDescend, Covered
  <1>5. ASSUME NEW r \in Requests, TurnStep(r)
        PROVE  UNCHANGED reader
    BY <1>5 DEF TurnStep, OpenWithSummary, CollectOverflow, SaveSummary, CommitWithSummary,
                FailWithDraft, OtherStep
  <1> QED BY <1>2, <1>3, <1>4, <1>5 DEF NextHistory, historyVars

-----------------------------------------------------------------------------
LEMMA TypeHistoryStep ==
  ASSUME IInv, IInv', TypeOKHistory, [NextHistory]_historyVars
  PROVE  TypeOKHistory'
  <1> USE DEF TypeOKHistory
  <1>1. TypeOK /\ TypeOK'
    BY DEF IInv
  <1>2. messages \subseteq Message /\ \A r \in Requests : OwnRows(r) \subseteq Message
    BY <1>1, OwnRowsAreRows DEF TypeOK
  <1>3. ASSUME NEW r \in Requests, OtherStep(r)
        PROVE  TypeOKHistory'
    BY <1>1, <1>3 DEF OtherStep, memory, reader
  <1>4. ASSUME NEW r \in Requests, OpenWithSummary(r)
        PROVE  TypeOKHistory'
    BY <1>1, <1>4 DEF OpenWithSummary, reader
  <1>5. ASSUME NEW r \in Requests, CollectOverflow(r)
        PROVE  TypeOKHistory'
    <2> DEFINE rows == Visible \cup OwnRows(r)
    <2>1. \/ draft' = draft
          \/ \E kept \in LatestRows(rows, Window) :
                draft' = [draft EXCEPT ![r] = seenSummary[r] \cup (rows \ kept)]
      BY <1>5 DEF CollectOverflow
    <2>2. \A kept : seenSummary[r] \cup (rows \ kept) \in SUBSET Message
      BY <1>2 DEF Visible
    <2>3. draft' \in [Requests -> SUBSET Message]
      BY <2>1, <2>2
    <2> QED BY <1>1, <1>5, <2>3 DEF CollectOverflow, reader
  <1>6. ASSUME NEW r \in Requests, SaveSummary(r) \/ CommitWithSummary(r) \/ FailWithDraft(r)
        PROVE  TypeOKHistory'
    BY <1>1, <1>6 DEF SaveSummary, CommitWithSummary, FailWithDraft, memory, reader
  <1>7. CASE ReadPage
    <2>1. Rest \subseteq Message
      BY <1>2 DEF Rest, Visible
    <2>2. page' \subseteq Rest /\ shown' = shown \cup page /\ UNCHANGED memory
      BY <1>7 DEF ReadPage, LatestRows
    <2>3. before' \subseteq Message
      BY <1>2, <1>7 DEF ReadPage, Visible
    <2>4. cursor' \in Nat /\ listing' \in {"more", "end"}
      <3>1. \A m \in Rest : m.at \in Nat
        BY <2>1 DEF Message
      <3> QED BY <1>7, <2>2, <3>1 DEF ReadPage
    <2> QED BY <1>1, <2>1, <2>2, <2>3, <2>4 DEF memory
  <1>8. CASE PageNotFound \/ UNCHANGED historyVars
    BY <1>1, <1>8 DEF PageNotFound, historyVars, memory, reader
  <1> QED BY <1>3, <1>4, <1>5, <1>6, <1>7, <1>8 DEF NextHistory, TurnStep

HInv == TypeOKHistory /\ SummaryInv /\ PagesInv

LEMMA InitHInv == InitHistory => HInv
  <1> SUFFICES ASSUME InitHistory PROVE HInv
    OBVIOUS
  <1> USE DEF InitHistory
  <1>1. TypeOK
    BY InitIInv DEF IInv
  <1>2. TypeOKHistory
    BY <1>1 DEF TypeOKHistory
  <1>3. SummaryInv
    BY DEF SummaryInv, Remembered
  <1>4. PagesInv
    BY DEF PagesInv, PagesDescend
  <1> QED BY <1>2, <1>3, <1>4 DEF HInv

\* In every reachable state: the summaries in the row, at the turns and in their
\* drafts are remembered, and the cursor is where the pages ended.
THEOREM HistoryReadersInvariant == SpecHistory => []HInv
  <1>1. IInv /\ IInv' /\ HInv /\ [NextHistory]_historyVars => HInv'
    BY TypeHistoryStep, SummaryStep, PagesStep DEF HInv, TypeOKHistory, MemoryTypes, ReaderTypes
  <1> QED BY <1>1, InitHInv, HistoryImplementsTurns, HistoryInvariant, PTL DEF SpecHistory

\* Summaries are sets of rows and the cursor is a time (models/chat.py, list_history).
THEOREM HistoryTypeCorrect == SpecHistory => []TypeOKHistory
  <1>1. HInv => TypeOKHistory
    BY DEF HInv
  <1> QED BY <1>1, HistoryReadersInvariant, PTL

\* The summary tells of committed messages only (save_session_summary, maybe_summarize).
THEOREM SummaryIsHistoryHolds == SpecHistory => []SummaryIsHistory
  <1>1. HInv => SummaryIsHistory
    BY DEF HInv, SummaryInv, Remembered, SummaryIsHistory
  <1> QED BY <1>1, HistoryReadersInvariant, PTL

\* The summary tells of messages that left the window only (maybe_compact_history),
\* however the turns that rewrite it overlap.
THEOREM SummaryIsOldHolds == SpecHistory => []SummaryIsOld
  <1>1. HInv => SummaryIsOld
    BY DEF HInv, SummaryInv, Remembered, SummaryIsOld
  <1> QED BY <1>1, HistoryReadersInvariant, PTL

\* Pages go strictly back in time (list_history).
THEOREM PagesDescendHolds == SpecHistory => []PagesDescend
  <1>1. HInv => PagesDescend
    BY DEF HInv, PagesInv
  <1> QED BY <1>1, HistoryReadersInvariant, PTL

\* The pages leave out only what was replaced and what ties with a row they show
\* (list_history).
THEOREM PagesCoverHolds == SpecHistory => []PagesCover
  <1>1. HInv => PagesCover
    BY DEF HInv, PagesInv, PagesCover
  <1> QED BY <1>1, HistoryReadersInvariant, PTL
=============================================================================
