-------------------------- MODULE ChatTurnsProofs --------------------------
(***************************************************************************)
(* The history of a chat session and its row locks, proved for any number  *)
(* of concurrent requests.                                                 *)
(*                                                                         *)
(* The history is right because of what a request in flight has already    *)
(* committed: the inductive invariant says, for every step a request is    *)
(* at, which of its messages are there (OnlyDoneAnswer, StreamsAreSaved)   *)
(* and that the rows a regenerate remembers still are what it took them    *)
(* for (TargetIsAnswer, QuestionIsQuestion).                               *)
(***************************************************************************)
EXTENDS ChatTurns, TLAPS

USE KindsAssumption, NoRequestAssumption

\* Everything request r can do.
Act(r) == Begin(r) \/ Handle(r) \/ Fail(r) \/ Abandon(r) \/ Collect(r)

LEMMA NextIsAct == Next <=> \E r \in Requests : Act(r)
  BY DEF Next, Act

\* Transactions started in the past, and no row is younger than its writer's.
TimeRuns ==
    /\ \A r \in Requests : began[r] <= now
    /\ \A m \in messages : m.at <= began[m.by]

\* A request that is not done has committed no answer.
OnlyDoneAnswer == \A m \in messages : m.role = "assistant" => pc[m.by] = "done"

\* A stream under way has committed its question.
Answering == {"generating", "answered", "titling", "titled", "compacting", "compacted"}
Saved == {"saved"} \cup Answering

StreamsAreSaved ==
    \A r \in Requests :
        (kind[r] = "stream" /\ pc[r] \in Saved)
            => \E q \in Questions : q.by = r

\* Only some kinds of call come by some steps.
KindsAtSteps ==
    \A r \in Requests :
        /\ pc[r] = "saved" => kind[r] = "stream"
        /\ pc[r] \in {"chosen", "matched"} => kind[r] = "regenerate"
        /\ pc[r] \in {"titling", "titled", "compacting", "compacted"} => IsTurn(r)

Regenerating(r) == kind[r] = "regenerate" /\ pc[r] \in {"matched", "generating", "answered"}

TargetIsAnswer ==
    \A r \in Requests :
        (Regenerating(r) \/ pc[r] = "chosen")
            => target[r] \in messages /\ target[r].role = "assistant"

QuestionIsQuestion == \A r \in Requests : Regenerating(r) => question[r] \in Questions

OnlyAnswersAreRemoved == \A m \in removed : m.role = "assistant"

\* Which start times can be equal: no two transactions share one, so a row shares
\* its own only with a row of the same request.
ClockTicks ==
    /\ \A r, q \in Requests :
          (pc[r] # "idle" /\ pc[q] # "idle" /\ began[r] = began[q]) => r = q
    /\ \A m \in messages, r \in Requests :
          (pc[r] # "idle" /\ m.at = began[r]) => m.by = r

\* Only turns write questions, none before it is opened, and a stream that answers
\* does so in a later transaction than that of its question.
QuestionsOfTurns ==
    \A m \in messages :
        /\ pc[m.by] \notin {"idle", "begun", "opened"}
        /\ m.role = "user" => IsTurn(m.by)
        /\ (m.role = "user" /\ kind[m.by] = "stream" /\ pc[m.by] \in Answering)
              => m.at < began[m.by]

Supports ==
    /\ TimeRuns
    /\ OnlyDoneAnswer
    /\ StreamsAreSaved
    /\ KindsAtSteps
    /\ TargetIsAnswer
    /\ QuestionIsQuestion
    /\ OnlyAnswersAreRemoved
    /\ ClockTicks
    /\ QuestionsOfTurns

Histories == AnswersHaveQuestions /\ BlockingTurnIsAtomic /\ OnlyBlockingTurnsTie

IInv == TypeOK /\ Supports /\ Histories

LEMMA InitIInv == Init => IInv
  <1> SUFFICES ASSUME Init PROVE IInv
    OBVIOUS
  <1> USE DEF Init
  <1>1. TypeOK
    BY DEF TypeOK, Title, Step, RequestKinds
  <1>2. TimeRuns
    <2>1. /\ \A r \in Requests : began[r] = 0
          /\ now = 0 /\ messages = {}
      OBVIOUS
    <2> HIDE DEF Init
    <2>2. \A r \in Requests : began[r] <= now
      BY <2>1
    <2> QED BY <2>1, <2>2, Zenon DEF TimeRuns
  <1>3. OnlyDoneAnswer /\ OnlyAnswersAreRemoved
    BY DEF OnlyDoneAnswer, OnlyAnswersAreRemoved
  <1>4. \A r \in Requests : pc[r] = "idle"
    OBVIOUS
  <1>5. StreamsAreSaved /\ KindsAtSteps /\ TargetIsAnswer /\ QuestionIsQuestion
    <2> HIDE DEF Init
    <2> QED BY <1>4 DEF StreamsAreSaved, KindsAtSteps, TargetIsAnswer, QuestionIsQuestion,
       Regenerating,
                        Saved, Answering
  <1>6. Histories
    BY DEF Histories, AnswersHaveQuestions, BlockingTurnIsAtomic, OnlyBlockingTurnsTie, Questions
  <1>7. ClockTicks /\ QuestionsOfTurns
    <2>1. messages = {}
      OBVIOUS
    <2> HIDE DEF Init
    <2> QED BY <1>4, <2>1 DEF ClockTicks, QuestionsOfTurns
  <1> QED BY <1>1, <1>2, <1>3, <1>5, <1>6, <1>7 DEF IInv, Supports

LEMMA RowsHaveTypes ==
  ASSUME TypeOK, NEW r \in Requests, NEW q \in Requests
  PROVE  /\ QuestionOf(r) \in Message
         /\ AnswerOf(r, q) \in Message
  BY DEF TypeOK, QuestionOf, AnswerOf, Message, Role

LEMMA TypeStep == IInv /\ [Next]_vars => TypeOK'
  <1> SUFFICES ASSUME IInv, [Next]_vars PROVE TypeOK'
    OBVIOUS
  <1> USE DEF IInv, TypeOK, Goto, Step, local, store
  <1>1. ASSUME NEW r \in Requests, Begin(r) \/ StartAnswer(r)
        PROVE  TypeOK'
    BY <1>1 DEF Begin, StartAnswer, StartTransaction
  <1>2. ASSUME NEW r \in Requests, Open(r)
        PROVE  TypeOK'
    BY <1>2 DEF Open
  <1>3. ASSUME NEW r \in Requests, FlushQuestion(r) \/ RemoveAnswer(r) \/ Generate(r)
        PROVE  TypeOK'
    BY <1>3 DEF FlushQuestion, RemoveAnswer, Generate
  <1>4. ASSUME NEW r \in Requests, CommitQuestion(r)
        PROVE  TypeOK'
    BY <1>4, RowsHaveTypes DEF CommitQuestion
  <1>5. ASSUME NEW r \in Requests, ChooseAnswer(r)
        PROVE  TypeOK'
    BY <1>5 DEF ChooseAnswer, Latest, Answers, Visible
  <1>6. ASSUME NEW r \in Requests, ChooseQuestion(r)
        PROVE  TypeOK'
    BY <1>6 DEF ChooseQuestion, Latest, EarlierQuestions, Questions
  <1>7. ASSUME NEW r \in Requests, MakeTitle(r) \/ SetTitle(r) \/ Compact(r) \/ SetSummary(r)
        PROVE  TypeOK'
    BY <1>7 DEF MakeTitle, SetTitle, Compact, SetSummary
  <1>8. ASSUME NEW r \in Requests, CommitTurn(r)
        PROVE  TypeOK'
    BY <1>8, RowsHaveTypes DEF CommitTurn, Unlock, Title
  <1>9. ASSUME NEW r \in Requests, CommitRegenerated(r)
        PROVE  TypeOK'
    <2>1. question[r] \in Message /\ target[r] \in messages
      BY <1>9 DEF CommitRegenerated, Supports, TargetIsAnswer, QuestionIsQuestion, Regenerating,
         Questions
    <2>2. AnswerOf(r, question[r].by) \in Message
      BY <2>1, RowsHaveTypes DEF Message
    <2> QED BY <1>9, <2>1, <2>2 DEF CommitRegenerated
  <1>10. ASSUME NEW r \in Requests, Rename(r) \/ Delete(r) \/ Fail(r) \/ Abandon(r) \/ Collect(r)
         PROVE  TypeOK'
    BY <1>10 DEF Rename, Delete, Fail, Abandon, Collect, Unlock, Title
  <1>11. CASE UNCHANGED vars
    BY <1>11 DEF vars
  <1> QED BY <1>1, <1>2, <1>3, <1>4, <1>5, <1>6, <1>7, <1>8, <1>9, <1>10, <1>11 DEF Next, Handle

\* What every step does to the bookkeeping of the requests.
LEMMA StepFacts ==
  ASSUME IInv, [Next]_vars
  PROVE  /\ kind' = kind
         /\ messages \subseteq messages'
         /\ \A q \in Requests : pc[q] = "done" => pc'[q] = "done"
         /\ \A q \in Requests : began[q] <= began'[q] /\ began'[q] <= now'
  <1> USE DEF IInv, TypeOK, Supports, TimeRuns, Goto, local, store, StartTransaction, Over
  <1>1. ASSUME NEW r \in Requests, Begin(r) \/ StartAnswer(r)
        PROVE  /\ kind' = kind /\ messages' = messages
               /\ \A q \in Requests : pc[q] = "done" => pc'[q] = "done"
               /\ \A q \in Requests : began[q] <= began'[q] /\ began'[q] <= now'
    BY <1>1 DEF Begin, StartAnswer
  <1>2. ASSUME NEW r \in Requests, Act(r), ~Begin(r), ~StartAnswer(r)
        PROVE  /\ kind' = kind /\ began' = began /\ now' = now
               /\ messages \subseteq messages'
               /\ \A q \in Requests : pc[q] = "done" => pc'[q] = "done"
    BY <1>2 DEF Act, UnderWay, Handle, Open, FlushQuestion, CommitQuestion, ChooseAnswer,
       ChooseQuestion,
                RemoveAnswer, Generate, MakeTitle, SetTitle, Compact, SetSummary, CommitTurn,
                CommitRegenerated, Rename,
                Delete, Fail, Abandon, Collect
  <1>3. CASE UNCHANGED vars
    BY <1>3 DEF vars
  <1> QED BY <1>1, <1>2, <1>3, NextIsAct DEF Act

Commits(r) == CommitQuestion(r) \/ CommitTurn(r) \/ CommitRegenerated(r)

LEMMA OnlyCommitsWrite ==
  ASSUME [Next]_vars, messages' # messages
  PROVE  \E r \in Requests : Commits(r)
  <1>1. ASSUME NEW r \in Requests, Act(r), ~Commits(r)
        PROVE  messages' = messages
    BY <1>1 DEF Commits, store, local, Act, Handle, Begin, Open, FlushQuestion, StartAnswer,
       ChooseAnswer,
                ChooseQuestion, RemoveAnswer, Generate, MakeTitle, SetTitle, Compact,
                SetSummary, Rename, Delete, Fail, Abandon, Collect
  <1> QED BY <1>1, NextIsAct DEF vars, store

\* The rows a step commits are its own request's, and it is over if one is an answer.
NewRowsOf(r) ==
    \A m \in messages' \ messages :
        /\ m.by = r /\ m.at = began[r]
        /\ m.role = "assistant" => pc'[r] = "done"

LEMMA NewRows ==
  ASSUME IInv, [Next]_vars
  PROVE  messages' = messages \/ \E r \in Requests :
             Commits(r) /\ NewRowsOf(r) /\ pc[r] \notin {"idle", "done"} /\ began' = began
  <1>1. ASSUME NEW r \in Requests, Commits(r)
        PROVE  NewRowsOf(r) /\ pc[r] \notin {"idle", "done"} /\ began' = began
    <2> USE DEF IInv, TypeOK, Goto, local, NewRowsOf, QuestionOf, AnswerOf
    <2>1. CASE CommitQuestion(r)
      BY <2>1 DEF CommitQuestion
    <2>2. CASE CommitTurn(r)
      BY <2>2 DEF CommitTurn
    <2>3. CASE CommitRegenerated(r)
      BY <2>3 DEF CommitRegenerated
    <2> QED BY <1>1, <2>1, <2>2, <2>3 DEF Commits
  <1> QED BY <1>1, OnlyCommitsWrite

LEMMA SupportStep == IInv /\ [Next]_vars => Supports'
  <1> SUFFICES ASSUME IInv, [Next]_vars PROVE Supports'
    OBVIOUS
  <1>1. TypeOK /\ TypeOK' /\ kind' = kind /\ messages \subseteq messages'
    BY TypeStep, StepFacts DEF IInv
  <1>2. TimeRuns'
    <2>1. \A r \in Requests : began'[r] <= now'
      BY StepFacts
    <2>2. ASSUME NEW m \in messages PROVE m.at <= began'[m.by]
      BY <1>1, <2>2, StepFacts DEF IInv, Supports, TimeRuns, TypeOK, Message
    <2>3. ASSUME NEW m \in messages' \ messages PROVE m.at <= began'[m.by]
      BY <1>1, <2>3, NewRows DEF NewRowsOf, TypeOK
    <2> QED BY <2>1, <2>2, <2>3 DEF TimeRuns
  <1>3. OnlyDoneAnswer'
    <2>1. ASSUME NEW m \in messages, m.role = "assistant" PROVE pc'[m.by] = "done"
      BY <1>1, <2>1, StepFacts DEF IInv, Supports, OnlyDoneAnswer, TypeOK, Message
    <2>2. ASSUME NEW m \in messages' \ messages, m.role = "assistant" PROVE pc'[m.by] = "done"
      BY <2>2, NewRows DEF NewRowsOf
    <2> QED BY <2>1, <2>2 DEF OnlyDoneAnswer
  <1> USE DEF IInv, TypeOK, Supports, Goto, local, store
  <1>4. KindsAtSteps'
    <2>1. ASSUME NEW r \in Requests, Act(r) PROVE KindsAtSteps'
      BY <2>1 DEF KindsAtSteps, IsTurn, Act, Handle, Begin, Open, FlushQuestion, CommitQuestion,
         StartAnswer,
         ChooseAnswer, ChooseQuestion, RemoveAnswer, Generate, MakeTitle, SetTitle, Compact,
         SetSummary, CommitTurn,
         CommitRegenerated, Rename, Delete, Fail, Abandon, Collect
    <2> QED BY <2>1, NextIsAct DEF vars, KindsAtSteps, IsTurn
  <1>5. StreamsAreSaved'
    <2>1. Questions \subseteq Questions'
      BY <1>1 DEF Questions
    <2>2. ASSUME NEW r \in Requests, CommitQuestion(r) PROVE StreamsAreSaved'
      <3>1. QuestionOf(r) \in Questions' /\ QuestionOf(r).by = r
        BY <2>2 DEF CommitQuestion, Questions, QuestionOf
      <3>2. \A q \in Requests \ {r} : pc'[q] = pc[q]
        BY <2>2 DEF CommitQuestion
      <3> QED BY <1>1, <2>1, <3>1, <3>2 DEF StreamsAreSaved
    <2>3. ASSUME NEW r \in Requests, Act(r), ~CommitQuestion(r),
                 NEW q \in Requests, kind[q] = "stream", pc'[q] \in Saved
          PROVE  pc[q] \in Saved
      BY <2>3 DEF Saved, Answering, KindsAtSteps, IsTurn, Act, Handle, Begin, Open,
         FlushQuestion, StartAnswer,
         ChooseAnswer, ChooseQuestion, RemoveAnswer, Generate, MakeTitle, SetTitle, Compact,
         SetSummary, CommitTurn,
         CommitRegenerated, Rename, Delete, Fail, Abandon, Collect
    <2>4. CASE UNCHANGED vars
      BY <2>4 DEF vars, StreamsAreSaved, Questions
    <2> QED BY <1>1, <2>1, <2>2, <2>3, <2>4, NextIsAct DEF StreamsAreSaved
  <1>6. TargetIsAnswer'
    <2>1. ASSUME NEW r \in Requests, ChooseAnswer(r) PROVE TargetIsAnswer'
      BY <1>1, <2>1 DEF ChooseAnswer, Latest, Answers, Visible, TargetIsAnswer, Regenerating
    <2>2. ASSUME NEW r \in Requests, Act(r), ~ChooseAnswer(r),
                 NEW q \in Requests, Regenerating(q)' \/ pc'[q] = "chosen"
          PROVE  (Regenerating(q) \/ pc[q] = "chosen") /\ target'[q] = target[q]
      BY <2>2 DEF Regenerating, KindsAtSteps, IsTurn, Act, Handle, Begin, Open, FlushQuestion,
         StartAnswer,
         CommitQuestion, ChooseQuestion, RemoveAnswer, Generate, MakeTitle, SetTitle, Compact,
         SetSummary, CommitTurn,
         CommitRegenerated, Rename, Delete, Fail, Abandon, Collect
    <2>3. CASE UNCHANGED vars
      BY <2>3 DEF vars, TargetIsAnswer, Regenerating
    <2> QED BY <1>1, <2>1, <2>2, <2>3, NextIsAct DEF TargetIsAnswer
  <1>7. QuestionIsQuestion'
    <2>1. ASSUME NEW r \in Requests, ChooseQuestion(r) PROVE QuestionIsQuestion'
      BY <1>1, <2>1 DEF ChooseQuestion, Latest, EarlierQuestions, Questions, QuestionIsQuestion,
         Regenerating
    <2>2. ASSUME NEW r \in Requests, Act(r), ~ChooseQuestion(r),
                 NEW q \in Requests, Regenerating(q)'
          PROVE  Regenerating(q) /\ question'[q] = question[q]
      BY <2>2 DEF Regenerating, KindsAtSteps, IsTurn, Act, Handle, Begin, Open, FlushQuestion,
         StartAnswer,
         CommitQuestion, ChooseAnswer, RemoveAnswer, Generate, MakeTitle, SetTitle, Compact,
         SetSummary, CommitTurn,
         CommitRegenerated, Rename, Delete, Fail, Abandon, Collect
    <2>3. CASE UNCHANGED vars
      BY <2>3 DEF vars, QuestionIsQuestion, Regenerating, Questions
    <2> QED BY <1>1, <2>1, <2>2, <2>3, NextIsAct DEF QuestionIsQuestion, Questions
  <1>8. OnlyAnswersAreRemoved'
    <2>1. ASSUME NEW r \in Requests, CommitRegenerated(r) PROVE OnlyAnswersAreRemoved'
      BY <2>1 DEF CommitRegenerated, OnlyAnswersAreRemoved, TargetIsAnswer, Regenerating
    <2>2. ASSUME NEW r \in Requests, Act(r), ~CommitRegenerated(r)
          PROVE  removed' = removed
      BY <2>2 DEF Act, Handle, Begin, Open, FlushQuestion, StartAnswer, CommitQuestion,
         ChooseAnswer,
         ChooseQuestion, RemoveAnswer, Generate, MakeTitle, SetTitle, Compact, SetSummary,
         CommitTurn, Rename, Delete, Fail, Abandon, Collect
    <2> QED BY <2>1, <2>2, NextIsAct DEF vars, OnlyAnswersAreRemoved
  <1>9. ClockTicks'
    <2>1. ASSUME NEW r \in Requests, Begin(r) \/ StartAnswer(r) PROVE ClockTicks'
      <3>1. /\ \A q \in Requests \ {r} : began'[q] = began[q] /\ pc'[q] = pc[q]
            /\ began'[r] = now + 1
            /\ messages' = messages
        BY <2>1 DEF Begin, StartAnswer, StartTransaction
      <3>2. \A q \in Requests : began[q] < now + 1
        BY DEF TimeRuns
      <3>3. \A m \in messages : m.at < now + 1
        BY DEF TimeRuns, Message
      <3> QED BY <3>1, <3>2, <3>3 DEF ClockTicks
    <2>2. ASSUME NEW r \in Requests, Act(r), ~Begin(r), ~StartAnswer(r)
          PROVE  began' = began /\ \A q \in Requests : pc'[q] # "idle" => pc[q] # "idle"
      BY <2>2 DEF Act, Handle, Open, FlushQuestion, CommitQuestion, ChooseAnswer, ChooseQuestion,
         RemoveAnswer, Generate, MakeTitle, SetTitle, Compact, SetSummary, CommitTurn,
         CommitRegenerated, Rename, Delete, Fail, Abandon, Collect, UnderWay
    <2>3. ASSUME began' = began, \A q \in Requests : pc'[q] # "idle" => pc[q] # "idle"
          PROVE  ClockTicks'
      <3>1. ASSUME NEW q \in Requests, pc'[q] # "idle", NEW m \in messages', m.at = began[q]
            PROVE  m.by = q
        <4>1. CASE m \in messages
          BY <2>3, <3>1, <4>1 DEF ClockTicks
        <4>2. CASE m \notin messages
          BY <2>3, <3>1, <4>2, NewRows DEF ClockTicks, NewRowsOf
        <4> QED BY <4>1, <4>2
      <3> QED BY <2>3, <3>1 DEF ClockTicks
    <2>4. CASE UNCHANGED vars
      BY <2>3, <2>4 DEF vars
    <2> QED BY <2>1, <2>2, <2>3, <2>4, NextIsAct
  <1>10. QuestionsOfTurns'
    <2>1. ASSUME NEW m \in messages
          PROVE  /\ pc'[m.by] \notin {"idle", "begun", "opened"}
                 /\ m.role = "user" => IsTurn(m.by)'
                 /\ (m.role = "user" /\ kind'[m.by] = "stream" /\ pc'[m.by] \in Answering)
                       => m.at < began'[m.by]
      <3> DEFINE b == m.by
      <3>1. /\ b \in Requests /\ m.at \in Nat
            /\ pc[b] \notin {"idle", "begun", "opened"} /\ m.at <= began[b]
            /\ began[b] <= now /\ began[b] <= began'[b] /\ {began[b], began'[b], now} \subseteq Nat
            /\ m.role = "user" => IsTurn(b)
            /\ (m.role = "user" /\ kind[b] = "stream" /\ pc[b] \in Answering) => m.at < began[b]
        BY <1>1, StepFacts DEF QuestionsOfTurns, TimeRuns, Message
      <3> HIDE DEF b
      <3>2. ASSUME NEW r \in Requests, Act(r)
            PROVE  /\ pc'[b] \notin {"idle", "begun", "opened"}
                   /\ (kind[b] = "stream" /\ pc'[b] \in Answering /\ pc[b] \notin Answering)
                         => StartAnswer(b)
        BY <3>1, <3>2 DEF KindsAtSteps, IsTurn, Answering, Act, Handle, Begin, Open,
           FlushQuestion,
           CommitQuestion, StartAnswer, ChooseAnswer, ChooseQuestion, RemoveAnswer, Generate,
           MakeTitle, SetTitle, Compact, SetSummary, CommitTurn, CommitRegenerated, Rename,
           Delete,
           Fail, Abandon, Collect
      <3>3. StartAnswer(b) => m.at < began'[b]
        BY <3>1 DEF StartAnswer, StartTransaction
      <3>4. CASE UNCHANGED vars
        BY <1>1, <3>1, <3>4 DEF vars, IsTurn, b
      <3>5. ASSUME NEW r \in Requests, Act(r)
            PROVE  (m.role = "user" /\ kind'[b] = "stream" /\ pc'[b] \in Answering)
                       => m.at < began'[b]
        BY <1>1, <3>1, <3>2, <3>3, <3>5
      <3> QED BY <1>1, <3>1, <3>2, <3>4, <3>5, NextIsAct DEF IsTurn, b
    <2>2. ASSUME NEW r \in Requests, Commits(r), NEW m \in messages' \ messages
          PROVE  /\ m.by = r /\ pc'[r] \in {"saved", "done"}
                 /\ m.role = "user" => IsTurn(r)
      BY <2>2 DEF Commits, CommitQuestion, CommitTurn, CommitRegenerated, KindsAtSteps, IsTurn,
         QuestionOf, AnswerOf
    <2>3. ASSUME NEW m \in messages' \ messages
          PROVE  /\ pc'[m.by] \notin {"idle", "begun", "opened"} \cup Answering
                 /\ m.role = "user" => IsTurn(m.by)'
      BY <1>1, <2>2, <2>3, NewRows DEF Answering, IsTurn
    <2> QED BY <2>1, <2>3 DEF QuestionsOfTurns
  <1> QED BY <1>2, <1>3, <1>4, <1>5, <1>6, <1>7, <1>8, <1>9, <1>10

LEMMA HistoryStep == IInv /\ [Next]_vars => Histories'
  <1> SUFFICES ASSUME IInv, [Next]_vars PROVE Histories'
    OBVIOUS
  <1> USE DEF IInv, Supports
  <1>1. TypeOK /\ TypeOK' /\ kind' = kind /\ messages \subseteq messages'
    BY TypeStep, StepFacts
  <1>2. Questions \subseteq Questions'
    BY <1>1 DEF Questions
  <1>3. OnlyBlockingTurnsTie'
    <2> DEFINE Tie(m, n) == m # n /\ m.at = n.at
               Turn(m, n) == /\ m.by = n.by /\ kind[m.by] = "stream"
                             /\ m.role = "user" /\ n.role = "assistant"
    \* What a commit adds is one row, or the two of a blocking turn.
    <2>1. ASSUME NEW r \in Requests, Commits(r), kind[r] # "send",
                 NEW m \in messages' \ messages, NEW n \in messages' \ messages
          PROVE  m = n
      BY <2>1 DEF Commits, CommitQuestion, CommitTurn, CommitRegenerated
    \* A row its request committed before is a stream's question, and older.
    <2>2. ASSUME NEW r \in Requests, Commits(r), kind[r] # "send", pc[r] # "done",
                 NEW m \in messages, m.by = r
          PROVE  m.at < began[r] /\ m.role = "user"
      BY <2>2 DEF Commits, CommitQuestion, CommitTurn, CommitRegenerated, QuestionsOfTurns,
         IsTurn,
         Answering, OnlyDoneAnswer, TypeOK, Message, Role
    <2>3. ASSUME NEW r \in Requests, Commits(r), NewRowsOf(r), pc[r] \notin {"idle", "done"},
                 NEW m \in messages', NEW n \in messages'
          PROVE  /\ Tie(m, n) => m.by = n.by /\ kind[m.by] = "send"
                 /\ Turn(m, n) => m.at < n.at
      <3>1. CASE m \in messages /\ n \in messages
        BY <3>1 DEF Histories, OnlyBlockingTurnsTie
      <3>2. CASE m \in messages /\ n \notin messages
        <4>1. n.by = r /\ n.at = began[r] /\ m.at \in Nat /\ began[r] \in Nat
          BY <1>1, <2>3, <3>2 DEF NewRowsOf, TypeOK, Message
        <4>2. Tie(m, n) => m.by = r
          BY <2>3, <3>2, <4>1 DEF ClockTicks
        <4> QED BY <2>2, <2>3, <3>2, <4>1, <4>2
      <3>3. CASE m \notin messages /\ n \in messages
        <4>1. m.by = r /\ m.at = began[r] /\ n.at \in Nat /\ began[r] \in Nat
          BY <1>1, <2>3, <3>3 DEF NewRowsOf, TypeOK, Message
        <4>2. Tie(m, n) => n.by = r
          BY <2>3, <3>3, <4>1 DEF ClockTicks
        <4>3. ~Turn(m, n)
          BY <2>3, <3>3, <4>1 DEF OnlyDoneAnswer
        <4> QED BY <2>2, <2>3, <3>3, <4>1, <4>2, <4>3
      <3>4. CASE m \notin messages /\ n \notin messages
        BY <2>1, <2>3, <3>4 DEF NewRowsOf
      <3> QED BY <3>1, <3>2, <3>3, <3>4
    <2>4. CASE messages' = messages
      BY <1>1, <2>4 DEF Histories, OnlyBlockingTurnsTie
    <2> QED BY <1>1, <2>3, <2>4, NewRows DEF OnlyBlockingTurnsTie
  \* An answer is committed with, or after, a question of the turn it names.
  <1>4. AnswersHaveQuestions'
    <2>1. ASSUME NEW r \in Requests, CommitTurn(r)
          PROVE  \E q \in Questions' : q.by = r
      <3>1. CASE kind[r] = "send"
        <4>1. QuestionOf(r) \in Questions' /\ QuestionOf(r).by = r
          BY <2>1, <3>1 DEF CommitTurn, Questions, QuestionOf
        <4> QED BY <4>1
      <3>2. CASE kind[r] = "stream"
        BY <1>2, <2>1, <3>2 DEF CommitTurn, StreamsAreSaved, Saved, Answering
      <3> QED BY <2>1, <3>1, <3>2 DEF CommitTurn, KindsAtSteps, IsTurn
    <2>2. ASSUME NEW r \in Requests, CommitTurn(r) \/ CommitRegenerated(r)
          PROVE  \A a \in messages' \ messages :
                    a.role = "assistant" => \E q \in Questions' : q.by = a.answers
      <3>1. CASE CommitTurn(r)
        BY <2>1, <3>1 DEF CommitTurn, AnswerOf, QuestionOf
      <3>2. CASE CommitRegenerated(r)
        <4>1. question[r] \in Questions'
          BY <1>2, <3>2 DEF CommitRegenerated, QuestionIsQuestion, Regenerating
        <4> QED BY <3>2, <4>1 DEF CommitRegenerated, AnswerOf
      <3> QED BY <2>2, <3>1, <3>2
    <2>3. ASSUME NEW r \in Requests, CommitQuestion(r)
          PROVE  \A a \in messages' \ messages : a.role # "assistant"
      BY <2>3 DEF CommitQuestion, QuestionOf
    <2>4. \A a \in messages' \ messages :
             a.role = "assistant" => \E q \in Questions' : q.by = a.answers
      BY <2>2, <2>3, OnlyCommitsWrite DEF Commits
    <2>5. \A a \in messages : a.role = "assistant" => \E q \in Questions' : q.by = a.answers
      BY <1>2 DEF Histories, AnswersHaveQuestions
    <2> QED BY <2>4, <2>5 DEF AnswersHaveQuestions
  \* Only CommitTurn adds a row of a blocking turn, and it adds both.
  <1>5. BlockingTurnIsAtomic'
    <2>1. ASSUME NEW r \in Requests, CommitTurn(r), kind[r] = "send"
          PROVE  /\ \E m \in messages' : m.by = r /\ m.role = "user"
                 /\ \E m \in messages' : m.by = r /\ m.role = "assistant"
      <3>1. /\ QuestionOf(r) \in messages' /\ QuestionOf(r).by = r /\ QuestionOf(r).role = "user"
            /\ AnswerOf(r, r) \in messages' /\ AnswerOf(r, r).by = r /\ AnswerOf(r, r).role = "assistant"
        BY <2>1 DEF CommitTurn, QuestionOf, AnswerOf
      <3> QED BY <3>1
    <2>2. ASSUME NEW r \in Requests, kind[r] = "send", NEW q \in Requests,
                 Commits(q), ~(q = r /\ CommitTurn(r))
          PROVE  \A m \in messages' \ messages : m.by # r
      BY <2>2 DEF Commits, QuestionOf, AnswerOf, CommitQuestion, CommitTurn, CommitRegenerated
    <2>3. ASSUME NEW r \in Requests, kind[r] = "send", \A m \in messages' \ messages : m.by # r
          PROVE  (\E m \in messages' : m.by = r /\ m.role = "user") <=>
                 (\E m \in messages' : m.by = r /\ m.role = "assistant")
      BY <1>1, <2>3 DEF Histories, BlockingTurnIsAtomic
    <2>4. ASSUME NEW r \in Requests, kind[r] = "send"
          PROVE  (\E m \in messages' : m.by = r /\ m.role = "user") <=>
                 (\E m \in messages' : m.by = r /\ m.role = "assistant")
      <3>1. CASE CommitTurn(r)
        BY <2>1, <2>4, <3>1
      <3>2. CASE ~CommitTurn(r)
        <4>1. \A m \in messages' \ messages : m.by # r
          BY <2>2, <2>4, <3>2, OnlyCommitsWrite
        <4> QED BY <2>3, <2>4, <4>1
      <3> QED BY <3>1, <3>2
    <2> QED BY <1>1, <2>4 DEF BlockingTurnIsAtomic
  <1> QED BY <1>3, <1>4, <1>5 DEF Histories

\* In every reachable state: the types, the bookkeeping of the requests, the history.
THEOREM HistoryInvariant == Spec => []IInv
  <1>1. IInv /\ [Next]_vars => IInv'
    BY TypeStep, SupportStep, HistoryStep DEF IInv
  <1> QED BY <1>1, InitIInv, PTL DEF Spec

\* Rows, steps and transaction times have their types (the columns of models/chat.py).
THEOREM TypeCorrect == Spec => []TypeOK
  <1>1. IInv => TypeOK
    BY DEF IInv
  <1> QED BY <1>1, HistoryInvariant, PTL

\* No failure, rollback or interleaving leaves an answer without its question
\* (send_message, stream_message, regenerate_last).
THEOREM AnswersHaveQuestionsHolds == Spec => []AnswersHaveQuestions
  <1>1. IInv => AnswersHaveQuestions
    BY DEF IInv, Histories
  <1> QED BY <1>1, HistoryInvariant, PTL

\* send_message stores a question and its answer together or neither of them.
THEOREM BlockingTurnIsAtomicHolds == Spec => []BlockingTurnIsAtomic
  <1>1. IInv => BlockingTurnIsAtomic
    BY DEF IInv, Histories
  <1> QED BY <1>1, HistoryInvariant, PTL

\* By created_at, the start of the writing transaction, rows of two requests never
\* tie, a streamed turn's answer comes after its question, and only the two rows of
\* one send_message are left in no order.
THEOREM OnlyBlockingTurnsTieHolds == Spec => []OnlyBlockingTurnsTie
  <1>1. IInv => OnlyBlockingTurnsTie
    BY DEF IInv, Histories
  <1> QED BY <1>1, HistoryInvariant, PTL

\* regenerate_last hides an answer only in the commit that shows its replacement.
THEOREM AnswersAreReplacedHolds == Spec => AnswersAreReplaced
  <1>1. ASSUME IInv, [Next]_vars,
               NEW a \in Answers, a \notin Answers'
        PROVE  \E b \in Answers' \ Answers : b.by # a.by
    <2>1. messages \subseteq messages' /\ TypeOK'
      BY <1>1, StepFacts, TypeStep
    <2>2. TargetIsAnswer /\ OnlyDoneAnswer /\ removed \subseteq messages
      BY <1>1 DEF IInv, Supports, TypeOK
    <2>3. removed' # removed
      BY <1>1, <2>1 DEF Answers, Visible
    <2>4. PICK r \in Requests : CommitRegenerated(r)
      <3>1. ASSUME NEW r \in Requests, Act(r), ~CommitRegenerated(r)
            PROVE  removed' = removed
        BY <3>1 DEF local, store, Act, Handle, Begin, Open, FlushQuestion, StartAnswer,
           CommitQuestion,
           ChooseAnswer, ChooseQuestion, RemoveAnswer, Generate, MakeTitle, SetTitle, Compact,
           SetSummary, CommitTurn, Rename,
           Delete, Fail, Abandon, Collect
      <3> QED BY <1>1, <2>3, <3>1, NextIsAct DEF vars, store
    <2>5. pc[r] = "answered" /\ target[r] \in messages
      BY <2>2, <2>4 DEF CommitRegenerated, TargetIsAnswer, Regenerating
    <2>6. \A m \in messages : m.role = "assistant" => m.by # r
      BY <2>2, <2>5 DEF OnlyDoneAnswer
    <2> DEFINE b == AnswerOf(r, question[r].by)
    <2>7. b.by = r /\ b.role = "assistant"
      BY DEF AnswerOf
    <2>8. b \in messages' /\ b \notin messages
      BY <2>4, <2>6, <2>7 DEF CommitRegenerated
    <2> HIDE DEF b
    <2>9. b \notin removed'
      BY <2>2, <2>4, <2>5, <2>8 DEF CommitRegenerated
    <2>10. b \in Answers' \ Answers
      BY <2>7, <2>8, <2>9 DEF Answers, Visible
    <2>11. a.by # r
      BY <1>1, <2>6 DEF Answers, Visible
    <2> QED BY <2>7, <2>10, <2>11
  <1>2. IInv /\ [Next]_vars => [\A a \in Answers : a \notin Answers' => \E b \in Answers' \ Answers : b.by # a.by]_vars
    BY <1>1
  <1> QED BY <1>2, HistoryInvariant, PTL DEF Spec, AnswersAreReplaced

\* No step loses a committed question or soft-deletes it.
THEOREM QuestionsAreKeptHolds == Spec => QuestionsAreKept
  <1>1. ASSUME IInv, [Next]_vars
        PROVE  Questions \subseteq Questions' /\ Questions' \cap removed' = {}
    <2>1. messages \subseteq messages'
      BY <1>1, StepFacts
    <2>2. OnlyAnswersAreRemoved'
      BY <1>1, SupportStep DEF Supports
    <2> QED BY <2>1, <2>2 DEF Questions, OnlyAnswersAreRemoved
  <1>2. IInv /\ [Next]_vars => [Questions \subseteq Questions' /\ Questions' \cap removed' = {}]_vars
    BY <1>1
  <1> QED BY <1>2, HistoryInvariant, PTL DEF Spec, QuestionsAreKept

-----------------------------------------------------------------------------
(***************************************************************************)
(* Row locks.  EveryRequestEnds needs that waiting for a lock ends unless  *)
(* a failed stream has it, and so that no two requests, nor more of them   *)
(* in a circle, wait for each other: whoever holds a lock another request  *)
(* wants waits for none.                                                   *)
(***************************************************************************)

\* Only a turn that has written its title or its summary holds the session's row,
\* or an abandoned stream that had.
SessionLockIsATurns ==
    sessionLock # NoRequest =>
        \/ IsTurn(sessionLock) /\ pc[sessionLock] \in {"titled", "compacting", "compacted"}
        \/ LeftLocked

\* An answer is being removed by one regenerate at a time.
OneRemoves ==
    \A r, q \in Requests : (Removing(r) /\ Removing(q) /\ target[r] = target[q]) => r = q

LockInv == SessionLockIsATurns /\ OneRemoves

\* r wants the row of the session, or of an answer, that q holds.
WaitsForSession(r, q) ==
    /\ sessionLock = q
    /\ q # r
    /\ WantsSession(r)

WaitsForAnswer(r, q) == pc[r] = "matched" /\ Removing(q) /\ target[q] = target[r]

WaitsFor(r, q) == WaitsForSession(r, q) \/ WaitsForAnswer(r, q)

HoldersDoNotWait == \A r, q, p \in Requests : WaitsFor(r, q) => ~WaitsFor(q, p)

LEMMA InitLockInv == Init => LockInv
  BY DEF Init, LockInv, SessionLockIsATurns, OneRemoves, Removing, LeftLocked

LEMMA LockStep == IInv /\ LockInv /\ [Next]_vars => LockInv'
  <1> SUFFICES ASSUME IInv, LockInv, [Next]_vars PROVE LockInv'
    OBVIOUS
  <1> USE DEF IInv, TypeOK, LockInv, SessionLockIsATurns, OneRemoves, LeftLocked, Removing,
     IsTurn,
              Goto, local, store
  <1>1. ASSUME NEW r \in Requests, Begin(r) \/ StartAnswer(r)
        PROVE  LockInv'
    BY <1>1 DEF Begin, StartAnswer, Supports, KindsAtSteps
  <1>2. ASSUME NEW r \in Requests, Open(r) \/ FlushQuestion(r) \/ CommitQuestion(r) \/ Rename(r) \/ Delete(r)
        PROVE  LockInv'
    BY <1>2 DEF Open, FlushQuestion, CommitQuestion, Rename, Delete
  <1>3. ASSUME NEW r \in Requests, ChooseAnswer(r) \/ ChooseQuestion(r)
        PROVE  LockInv'
    BY <1>3 DEF ChooseAnswer, ChooseQuestion
  <1>4. ASSUME NEW r \in Requests, RemoveAnswer(r)
        PROVE  LockInv'
    BY <1>4 DEF RemoveAnswer
  <1>5. ASSUME NEW r \in Requests, Generate(r)
        PROVE  LockInv'
    BY <1>5 DEF Generate
  <1>6. ASSUME NEW r \in Requests, SetTitle(r) \/ SetSummary(r)
        PROVE  LockInv'
    <2>1. OneRemoves'
      BY <1>6 DEF SetTitle, SetSummary
    <2>2. pc'[r] \in {"titled", "compacted"} /\ sessionLock' = r /\ kind' = kind
      BY <1>6 DEF SetTitle, SetSummary
    <2>3. IsTurn(r)
      BY <1>6 DEF SetTitle, SetSummary, Supports, KindsAtSteps
    <2> QED BY <2>1, <2>2, <2>3
  <1>7. ASSUME NEW r \in Requests, MakeTitle(r) \/ Compact(r)
        PROVE  LockInv'
    <2>1. CASE MakeTitle(r)
      <3>1. SessionLockIsATurns'
        BY <2>1 DEF MakeTitle
      <3>2. OneRemoves'
        BY <2>1 DEF MakeTitle
      <3> QED BY <3>1, <3>2
    <2>2. CASE Compact(r)
      <3>1. SessionLockIsATurns'
        BY <2>2 DEF Compact
      <3>2. OneRemoves'
        BY <2>2 DEF Compact
      <3> QED BY <3>1, <3>2
    <2> QED BY <1>7, <2>1, <2>2
  <1>8. ASSUME NEW r \in Requests, CommitTurn(r) \/ CommitRegenerated(r) \/ Fail(r)
        PROVE  LockInv'
    BY <1>8 DEF CommitTurn, CommitRegenerated, Fail, Unlock, UnderWay, Over
  <1>10. ASSUME NEW r \in Requests, Abandon(r) \/ Collect(r)
         PROVE  LockInv'
    BY <1>10 DEF Abandon, Collect, UnderWay, Over
  <1>9. CASE UNCHANGED vars
    BY <1>9 DEF vars
  <1> QED BY <1>1, <1>2, <1>3, <1>4, <1>5, <1>6, <1>7, <1>8, <1>9, <1>10 DEF Next, Handle

LEMMA HoldersRun == LockInv => HoldersDoNotWait
  <1> SUFFICES ASSUME LockInv, NEW r \in Requests, NEW q \in Requests, NEW p \in Requests,
                      WaitsFor(r, q)
               PROVE  ~WaitsFor(q, p)
    BY DEF HoldersDoNotWait
  <1> USE DEF LockInv, WaitsFor, WaitsForSession, WaitsForAnswer
  <1>1. CASE WaitsForSession(r, q)
    BY <1>1 DEF SessionLockIsATurns, LeftLocked, WantsSession
  <1>2. CASE WaitsForAnswer(r, q)
    BY <1>2 DEF Removing, IsTurn, WantsSession
  <1> QED BY <1>1, <1>2

\* The rows a request waits for (session_service.py's UPDATEs, the title and the
\* summary of a turn, the soft delete of regenerate_last) are held by requests that
\* wait for no row, so their row locks cannot deadlock.
THEOREM HoldersDoNotWaitHolds == Spec => []HoldersDoNotWait
  <1>1. IInv /\ LockInv /\ [Next]_vars => LockInv'
    BY LockStep
  <1> QED BY <1>1, InitLockInv, HoldersRun, HistoryInvariant, PTL DEF Spec
=============================================================================
