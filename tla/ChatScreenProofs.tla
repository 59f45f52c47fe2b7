-------------------------- MODULE ChatScreenProofs --------------------------
(***************************************************************************)
(* ChatScreen proved for any number of callbacks and any tools: what is    *)
(* behind the screen is a StreamTurn; unless a history without the answer  *)
(* of the turn arrives while its frames do, the screen never writes over   *)
(* an earlier answer, and it shows, once the answer has come, what a new   *)
(* load would, with the text the model emitted.                            *)
(***************************************************************************)
EXTENDS ChatScreen, StreamTurnProofs

LEMMA ScreenStepIsTurnStep ==
  ASSUME [ScreenNext]_everything
  PROVE  [Next]_vars
  BY DEF everything, ScreenNext, ReadHistory, ShowHistory, SendMessage, Listen, Handle, Shows,
     ShowToken,
         ShowQuestion, PassOver, ShowAnswer, ShowError, StreamDone, Break, Stop, Served, Next,
         Generator, Driver

-----------------------------------------------------------------------------
(* The frames of a turn. *)

\* The first frame of a turn that goes on, or was answered, is its question; nothing
\* follows the answer, and no answer is stored without its question.
FramesInOrder ==
    /\ "answer" \in stored => "question" \in stored
    /\ pc = "asked" => stored = {} /\ frames = <<>>
    /\ pc \notin {"asked", "closed"} => Len(frames) > 0 /\ frames[1] = Frame("user_message")
    /\ HasFrame("assistant_message") => pc = "closed" /\ frames[1] = Frame("user_message")

\* A step of the turn adds at most one frame.
AddsFrame(f) ==
    /\ f \in FrameSet
    /\ frames' = frames \o <<f>>
    /\ f.type = "assistant_message" => pc = "committed" /\ pc' = "closed"

LEMMA FrameIsFrame ==
  ASSUME NEW t \in FrameTypes
  PROVE  Frame(t) \in FrameSet /\ Frame(t).type = t
  BY DEF FrameSet, Frame

LEMMA StepAddsFrame ==
  ASSUME SInv, Next
  PROVE  frames' = frames \/ \E f \in FrameSet : AddsFrame(f)
  <1> USE DEF Send, AddsFrame
  <1>t. frames \in Seq(FrameSet) /\ {"user_message", "citations", "done", "assistant_message", "error"} = FrameTypes
    BY DEF SInv, TypeOK, FrameSet, FrameTypes
  <1>e. frames \o <<>> = frames
    BY <1>t
  <1>1. CASE Driver \/ ConsumeEnd \/ CommitAnswer \/ Disconnect
    BY <1>1 DEF Driver, ToolStep, OnToken, OnLlmEnd, OnToolStart, OnToolEnd, OnToolError,
       RunSucceeds, RunFails,
                Finalize, Idle, ConsumeEnd, CommitAnswer, Disconnect
  <1>2. CASE SaveQuestion
    BY <1>2, <1>t, FrameIsFrame DEF SaveQuestion
  <1>3. CASE StartDriver
    BY <1>3, <1>t, <1>e, FrameIsFrame DEF StartDriver
  <1>4. CASE Consume
    <2>1. Head(queue) \in Event /\ Head(queue) \in FrameSet
      BY <1>4 DEF Consume, SInv, TypeOK, FrameSet
    <2> QED BY <1>4, <2>1, EventFacts DEF Consume
  <1>5. CASE Raise /\ pc # "committed"
    BY <1>5, <1>t, <1>e, FrameIsFrame DEF Raise
  <1>6. CASE Join /\ outcome = "ok"
    BY <1>6, <1>t, FrameIsFrame DEF Join
  <1>7. CASE Announce
    BY <1>7, <1>t, FrameIsFrame DEF Announce
  <1> QED BY <1>1, <1>2, <1>3, <1>4, <1>5, <1>6, <1>7 DEF Next, Generator, Join, Fail

LEMMA FramesGrow ==
  ASSUME SInv, [Next]_vars
  PROVE  /\ frames \in Seq(FrameSet) /\ frames' \in Seq(FrameSet) /\ Len(frames) <= Len(frames')
         /\ \A i \in 1..Len(frames) : frames'[i] = frames[i]
  <1>1. frames \in Seq(FrameSet)
    BY DEF SInv, TypeOK, FrameSet
  <1>2. CASE frames' = frames
    BY <1>1, <1>2
  <1>3. ASSUME NEW f \in FrameSet, frames' = frames \o <<f>>
        PROVE  /\ frames' \in Seq(FrameSet) /\ Len(frames) <= Len(frames')
               /\ \A i \in 1..Len(frames) : frames'[i] = frames[i]
    BY <1>1, <1>3
  <1> QED BY <1>1, <1>2, <1>3, StepAddsFrame DEF AddsFrame, vars

LEMMA AskedAndClosed ==
  ASSUME Next
  PROVE  /\ pc' = "asked" => pc = "asked" /\ UNCHANGED <<stored, frames>>
         /\ pc = "asked" /\ pc' \notin {"asked", "closed"} => frames' = frames \o <<Frame("user_message")>>
         /\ pc = "closed" => pc' = "closed" /\ UNCHANGED <<rows, frames>>
  <1> USE DEF rows
  <1>1. CASE Driver
    BY <1>1 DEF Driver, ToolStep, OnToken, OnLlmEnd, OnToolStart, OnToolEnd, OnToolError,
       RunSucceeds, RunFails,
                Finalize, Idle
  <1>2. CASE Generator
    BY <1>2 DEF Generator, SaveQuestion, StartDriver, Consume, ConsumeEnd, Join, Raise,
       CommitAnswer, Announce, Send
  <1>3. CASE Fail \/ Disconnect
    BY <1>3 DEF Fail, Disconnect, Raise
  <1> QED BY <1>1, <1>2, <1>3 DEF Next

LEMMA StoredGrows ==
  ASSUME Next
  PROVE  \/ stored' = stored
         \/ stored' = stored \cup {"question"}
         \/ pc = "finished" /\ stored' = stored \cup {"answer"}
  <1> USE DEF rows
  <1>1. Driver => stored' = stored
    BY DEF Driver, ToolStep, OnToken, OnLlmEnd, OnToolStart, OnToolEnd, OnToolError,
       RunSucceeds, RunFails,
           Finalize, Idle
  <1>2. StartDriver \/ Consume \/ ConsumeEnd \/ Join \/ Announce \/ Fail \/ Disconnect => stored' = stored
    BY DEF StartDriver, Consume, ConsumeEnd, Join, Announce, Fail, Disconnect
  <1>3. SaveQuestion => stored' = stored \cup {"question"}
    BY DEF SaveQuestion
  <1>4. CommitAnswer => pc = "finished" /\ stored' = stored \cup {"answer"}
    BY DEF CommitAnswer
  <1> QED BY <1>1, <1>2, <1>3, <1>4 DEF Next, Generator

LEMMA FramesStep ==
  ASSUME SInv, FramesInOrder, [Next]_vars
  PROVE  FramesInOrder'
  <1>1. CASE UNCHANGED vars
    BY <1>1 DEF vars, rows, FramesInOrder, HasFrame
  <1>2. CASE Next
    <2>0. frames \in Seq(FrameSet)
      BY DEF SInv, TypeOK, FrameSet
    <2>1. pc' = "asked" => stored' = {} /\ frames' = <<>>
      BY <1>2, AskedAndClosed DEF FramesInOrder
    <2>2. ASSUME pc' \notin {"asked", "closed"} PROVE Len(frames') > 0 /\ frames'[1] = Frame("user_message")
      <3>1. CASE pc = "asked"
        BY <1>2, <2>2, <3>1, AskedAndClosed DEF FramesInOrder, Frame
      <3>2. CASE pc # "asked"
        BY <1>2, <2>0, <2>2, <3>2, AskedAndClosed, FramesGrow DEF FramesInOrder
      <3> QED BY <3>1, <3>2
    <2>3. ASSUME HasFrame("assistant_message")' PROVE pc' = "closed" /\ frames'[1] = Frame("user_message")
      <3>1. CASE HasFrame("assistant_message")
        <4>1. Len(frames) > 0 /\ pc = "closed" /\ frames[1] = Frame("user_message")
          BY <2>0, <3>1 DEF HasFrame, FramesInOrder
        <4> QED BY <1>2, <4>1, AskedAndClosed
      <3>2. CASE ~HasFrame("assistant_message")
        <4>1. PICK f \in FrameSet : AddsFrame(f)
          BY <1>2, <2>3, <3>2, StepAddsFrame DEF HasFrame
        <4>2. f.type = "assistant_message"
          BY <2>0, <2>3, <3>2, <4>1 DEF HasFrame, AddsFrame
        <4>3. Len(frames) > 0 /\ frames[1] = Frame("user_message")
          BY <4>1, <4>2 DEF AddsFrame, FramesInOrder
        <4> QED BY <1>2, <2>0, <4>1, <4>2, <4>3, FramesGrow DEF AddsFrame
      <3> QED BY <3>1, <3>2
    <2>4. "answer" \in stored' => "question" \in stored'
      <3>1. pc = "finished" => "question" \in stored
        BY DEF SInv, RowsFollow
      <3>2. "answer" \in stored => "question" \in stored
        BY DEF FramesInOrder
      <3> QED BY <1>2, <3>1, <3>2, StoredGrows
    <2> QED BY <2>1, <2>2, <2>3, <2>4 DEF FramesInOrder
  <1> QED BY <1>1, <1>2

-----------------------------------------------------------------------------
(* The screen. *)

n == IF earlier THEN 2 ELSE 0

\* Before the repository is listened to, the turn has not begun; when the stream is
\* over, nothing is being sent.
Before ==
    /\ earlier \in BOOLEAN
    /\ sending \in BOOLEAN
    /\ loading \in {"asked", "read", "shown", "whole", "stale", "late"}
    /\ connection \in {"none", "starting", "open", "over"}
    /\ seen \in 0..Len(frames)
    /\ connection \in {"none", "starting"} => pc = "asked" /\ seen = 0
    /\ connection \in {"none", "over"} => ~sending
    /\ loading = "read" /\ connection = "none" => snapshot = {}
    /\ "answer" \in snapshot => "question" \in snapshot
    /\ Answered => connection = "over"

\* The messages of a turn whose history was there in time, or with the whole turn in
\* it: the earlier ones, the question as it is known, and the answer as far as it is.
IsAnswer(m) ==
    \E id \in {"placeholder", "answer"} : \E text, streaming : m = Message("assistant", id, text, streaming)

TurnShown ==
    /\ messages = [i \in 1..n + 2 |-> messages[i]]
    /\ \A i \in 1..n : messages[i] = Earlier[i]
    /\ messages[n + 1] \in {Pending, Question}
    /\ IsAnswer(messages[n + 2])
    /\ seen > 0 /\ frames[1] = Frame("user_message") => messages[n + 1] = Question
    /\ Answered => messages[n + 2] = Answer(answer)

\* A history that arrives when the stream is over stays as it is.
Shape ==
    /\ loading = "shown" /\ connection = "none" => messages = Earlier
    /\ loading \in {"shown", "whole"} /\ connection # "none" => TurnShown
    /\ loading = "whole" => connection # "none"
    /\ loading = "stale" => connection = "over" /\ messages \in {Earlier, Earlier \o <<Question>>}

ScreenInv == SInv /\ FramesInOrder /\ Before /\ Shape

-----------------------------------------------------------------------------
EarlierRows == {Message("user", "earlier", <<>>, FALSE), Message("assistant", "earlier", <<>>, FALSE)}

LEMMA EarlierFacts ==
  ASSUME earlier \in BOOLEAN
  PROVE  /\ n \in {0, 2} /\ Len(Earlier) = n
         /\ Earlier \in Seq(EarlierRows)
         /\ \A i \in 1..n : Earlier[i].id = "earlier"
  <1> DEFINE u == Message("user", "earlier", <<>>, FALSE)
             a == Message("assistant", "earlier", <<>>, FALSE)
  <1>1. u.id = "earlier" /\ a.id = "earlier"
    BY DEF Message
  <1>2. CASE earlier
    <2> HIDE DEF u, a
    <2>1. Earlier = <<u, a>> /\ n = 2
      BY <1>2 DEF Earlier, n, u, a
    <2>2. <<u, a>> \in Seq({u, a}) /\ Len(<<u, a>>) = 2
      OBVIOUS
    <2>3. \A i \in 1..2 : <<u, a>>[i].id = "earlier"
      BY <1>1
    <2> QED BY <2>1, <2>2, <2>3 DEF u, a, EarlierRows
  <1>3. CASE ~earlier
    <2>1. Earlier = <<>> /\ n = 0
      BY <1>3 DEF Earlier, n
    <2> QED BY <2>1
  <1> QED BY <1>2, <1>3

LEMMA TwoMore ==
  ASSUME NEW S, NEW s \in Seq(S), NEW a, NEW b
  PROVE  LET longer == [i \in 1..Len(s) + 2 |-> IF i = Len(s) + 2 THEN b ELSE IF i = Len(s) + 1 THEN a ELSE s[i]]
         IN  s \o <<a, b>> = longer /\ s \o <<a>> \o <<b>> = longer
  <1> DEFINE T == S \cup {a, b}
             longer == [i \in 1..Len(s) + 2 |-> IF i = Len(s) + 2 THEN b ELSE IF i = Len(s) + 1 THEN a ELSE s[i]]
  <1>1. s \in Seq(T) /\ <<a, b>> \in Seq(T) /\ <<a>> \in Seq(T) /\ <<b>> \in Seq(T) /\ Len(s) \in Nat
    OBVIOUS
  <1> HIDE DEF T
  <1>2. /\ s \o <<a, b>> \in Seq(T) /\ Len(s \o <<a, b>>) = Len(s) + 2
        /\ \A i \in 1..Len(s) + 2 : (s \o <<a, b>>)[i] = longer[i]
    BY <1>1, ConcatProperties
  <1>3. /\ s \o <<a>> \in Seq(T) /\ Len(s \o <<a>>) = Len(s) + 1
        /\ \A i \in 1..Len(s) + 1 : (s \o <<a>>)[i] = IF i = Len(s) + 1 THEN a ELSE s[i]
    BY <1>1, ConcatProperties
  <1>4. /\ s \o <<a>> \o <<b>> \in Seq(T) /\ Len(s \o <<a>> \o <<b>>) = Len(s) + 2
        /\ \A i \in 1..Len(s) + 2 : (s \o <<a>> \o <<b>>)[i] = longer[i]
    BY <1>1, <1>3, ConcatProperties
  <1>5. \A t \in Seq(T) : t = [i \in 1..Len(t) |-> t[i]]
    BY LenProperties
  <1> QED BY <1>2, <1>4, <1>5

\* The searches of the controller find the turn's own messages.
LEMMA SearchesFind ==
  ASSUME Before, TurnShown
  PROVE  LastAssistant = {n + 2} /\ FirstPending = (IF messages[n + 1] = Pending THEN {n + 1} ELSE {})
  <1>1. DOMAIN messages = 1..n + 2 /\ n \in {0, 2} /\ \A i \in 1..n : messages[i].id # "pending"
    BY EarlierFacts DEF TurnShown, Before
  <1>2. messages[n + 2].role = "assistant" /\ messages[n + 2].id # "pending"
    BY DEF TurnShown, IsAnswer, Message
  <1>3. messages[n + 1].id = "pending" <=> messages[n + 1] = Pending
    BY DEF TurnShown, Pending, Question, Message
  <1>4. LastAssistant = {n + 2}
    BY <1>1, <1>2 DEF LastAssistant, Indices
  <1>5. FirstPending = (IF messages[n + 1] = Pending THEN {n + 1} ELSE {})
    BY <1>1, <1>2, <1>3 DEF FirstPending, Indices
  <1> QED BY <1>4, <1>5

LEMMA ScreenInitInv == ScreenInit => ScreenInv
  <1> SUFFICES ASSUME ScreenInit PROVE ScreenInv
    OBVIOUS
  <1>1. SInv
    BY TurnInit DEF ScreenInit
  <1>2. FramesInOrder /\ Shape
    BY DEF ScreenInit, Init, FramesInOrder, HasFrame, Shape
  <1>3. Before
    <2>1. Len(<<>>) = 0
      OBVIOUS
    <2>2. seen = 0 /\ seen \in 0..Len(frames) /\ ~Answered
      BY <2>1 DEF ScreenInit, Init, Answered
    <2>3. earlier \in BOOLEAN /\ sending \in BOOLEAN /\ ~sending
      BY DEF ScreenInit
    <2> QED BY <2>2, <2>3 DEF ScreenInit, Init, Before
  <1> QED BY <1>1, <1>2, <1>3 DEF ScreenInv

\* What the turn behind the screen does, the screen does not see before it handles
\* the frame.
LEMMA TurnKeeps ==
  ASSUME ScreenInv, [Next]_vars, UNCHANGED screen, connection \in {"open", "over"} \/ UNCHANGED vars
  PROVE  ScreenInv'
  <1> USE DEF ScreenInv, screen
  <1>1. SInv' /\ FramesInOrder'
    BY TurnStep, FramesStep
  <1>2. /\ frames \in Seq(FrameSet) /\ frames' \in Seq(FrameSet) /\ Len(frames) <= Len(frames')
        /\ \A i \in 1..Len(frames) : frames'[i] = frames[i]
    BY FramesGrow
  <1>s. seen \in Nat /\ seen \in 0..Len(frames') /\ (seen > 0 => seen \in 1..Len(frames) /\ 1 \in 1..Len(frames))
    <2>1. Len(frames) \in Nat /\ Len(frames') \in Nat
      BY <1>2
    <2>2. seen \in 0..Len(frames)
      BY DEF Before
    <2>3. Len(frames) <= Len(frames')
      BY <1>2
    <2> HIDE DEF ScreenInv, screen
    <2> QED BY <2>1, <2>2, <2>3
  <1>3. Answered' <=> Answered
    BY <1>2, <1>s DEF Answered
  <1>4. Answered => answer' = answer
    <2> SUFFICES ASSUME Answered PROVE answer' = answer
      OBVIOUS
    <2>1. pc = "closed"
      BY <1>s DEF Answered, FramesInOrder, HasFrame
    <2> QED BY <2>1, AskedAndClosed DEF vars, rows
  <1>5. Before'
    BY <1>3, <1>s DEF Before, vars
  <1>6. seen > 0 => frames'[1] = frames[1]
    BY <1>2, <1>s
  <1>7. Shape'
    BY <1>3, <1>4, <1>6 DEF Shape, TurnShown, n, Earlier, Answer
  <1> QED BY <1>1, <1>5, <1>7

-----------------------------------------------------------------------------
\* The messages of the turn with another answer, or another question.
Replaced(k, m) ==
    /\ messages' = [i \in 1..n + 2 |-> messages'[i]]
    /\ \A i \in 1..n + 2 : messages'[i] = IF i = k THEN m ELSE messages[i]

LEMMA ReplacedShows ==
  ASSUME Before, TurnShown, UNCHANGED <<earlier, answer, frames>>,
         NEW m, \/ Replaced(n + 2, m) /\ IsAnswer(m) /\ (Answered' => m = Answer(answer))
                \/ Replaced(n + 1, m) /\ m = Question /\ ~Answered',
         \/ m = Question
         \/ seen' > 0 /\ frames[1] = Frame("user_message") => messages[n + 1] = Question
  PROVE  TurnShown'
  <1>1. n \in {0, 2} /\ n' = n /\ Earlier' = Earlier
    BY EarlierFacts DEF Before, n, Earlier
  <1>2. CASE Replaced(n + 2, m) /\ IsAnswer(m) /\ (Answered' => m = Answer(answer))
    <2>1. messages'[n + 1] = messages[n + 1] /\ messages'[n + 2] = m /\ \A i \in 1..n : messages'[i] = messages[i]
      BY <1>1, <1>2 DEF Replaced
    <2>2. m = Question => FALSE
      BY <1>2 DEF IsAnswer, Question, Message
    <2> QED BY <1>1, <1>2, <2>1, <2>2 DEF TurnShown, Replaced, Answer
  <1>3. CASE Replaced(n + 1, m) /\ m = Question /\ ~Answered'
    <2>1. messages'[n + 1] = Question /\ messages'[n + 2] = messages[n + 2] /\ \A i \in 1..n : messages'[i] = messages[i]
      BY <1>1, <1>3 DEF Replaced
    <2> QED BY <1>1, <1>3, <2>1 DEF TurnShown, Replaced
  <1> QED BY <1>2, <1>3

LEMMA StaysAnswer ==
  ASSUME NEW m, IsAnswer(m), NEW text, NEW streaming
  PROVE  /\ m.role = "assistant"
         /\ IsAnswer(Message("assistant", m.id, text, streaming))
         /\ IsAnswer([m EXCEPT !.streaming = streaming])
         /\ IsAnswer(Answer(text))
  <1>1. PICK id \in {"placeholder", "answer"} : \E x, b : m = Message("assistant", id, x, b)
    BY DEF IsAnswer
  <1>2. m.role = "assistant" /\ m.id = id
    BY <1>1 DEF Message
  <1>3. [m EXCEPT !.streaming = streaming] = Message("assistant", id, m.text, streaming)
    BY <1>1 DEF Message
  <1>4. IsAnswer(Answer(text))
    BY DEF Answer, IsAnswer
  <1> QED BY <1>2, <1>3, <1>4 DEF IsAnswer

\* What Update makes of the message it finds.
LEMMA UpdatesLast ==
  ASSUME Before, TurnShown
  PROVE  /\ Warn => Replaced(n + 2, Message("assistant", messages[n + 2].id, <<Frame("error")>>, FALSE))
         /\ Update(LastAssistant, LAMBDA m : Message(m.role, m.id, Buffer, TRUE))
              => Replaced(n + 2, Message("assistant", messages[n + 2].id, Buffer, TRUE))
         /\ Update(LastAssistant, LAMBDA m : [m EXCEPT !.streaming = FALSE])
              => Replaced(n + 2, [messages[n + 2] EXCEPT !.streaming = FALSE])
         /\ Update(LastAssistant, LAMBDA m : Answer(answer)) => Replaced(n + 2, Answer(answer))
         /\ Update(FirstPending, LAMBDA m : Question) => Replaced(n + 1, Question)
  <1>1. LastAssistant = {n + 2} /\ FirstPending = (IF messages[n + 1] = Pending THEN {n + 1} ELSE {})
    BY SearchesFind
  <1>2. DOMAIN messages = 1..n + 2 /\ n \in {0, 2} /\ messages[n + 2].role = "assistant"
    <2>1. IsAnswer(messages[n + 2]) /\ DOMAIN messages = 1..n + 2
      BY DEF TurnShown
    <2> QED BY <2>1, StaysAnswer, EarlierFacts DEF Before
  <1>3. Update(LastAssistant, LAMBDA m : Message(m.role, m.id, Buffer, TRUE))
              => Replaced(n + 2, Message("assistant", messages[n + 2].id, Buffer, TRUE))
    BY <1>1, <1>2 DEF Update, Replaced
  <1>4. Warn => Replaced(n + 2, Message("assistant", messages[n + 2].id, <<Frame("error")>>, FALSE))
    BY <1>1, <1>2 DEF Warn, Update, Replaced
  <1>5. Update(LastAssistant, LAMBDA m : [m EXCEPT !.streaming = FALSE])
              => Replaced(n + 2, [messages[n + 2] EXCEPT !.streaming = FALSE])
    BY <1>1, <1>2 DEF Update, Replaced
  <1>6. Update(LastAssistant, LAMBDA m : Answer(answer)) => Replaced(n + 2, Answer(answer))
    BY <1>1, <1>2 DEF Update, Replaced
  <1>7. Update(FirstPending, LAMBDA m : Question) => Replaced(n + 1, Question)
    <2>1. messages[n + 1] \in {Pending, Question}
      BY DEF TurnShown
    <2> QED BY <1>1, <1>2, <2>1 DEF Update, Replaced
  <1> QED BY <1>3, <1>4, <1>5, <1>6, <1>7

-----------------------------------------------------------------------------
\* The frame being handled.
LEMMA Handled ==
  ASSUME ScreenInv, NEW types, Shows(types)
  PROVE  LET f == frames[seen + 1] IN
         /\ f \in FrameSet /\ f.type \in types
         /\ UNCHANGED vars /\ seen' \in 0..Len(frames')
         /\ Answered' <=> f.type = "assistant_message"
         /\ connection # "none"
         /\ TurnShown /\ frames[1] = Frame("user_message") /\ f.type # "user_message" => messages[n + 1] = Question
         /\ f.type = "assistant_message" => frames[1] = Frame("user_message")
  <1> DEFINE f == frames[seen + 1]
  <1> USE DEF ScreenInv
  <1>1. frames \in Seq(FrameSet) /\ Len(frames) \in Nat
    BY DEF SInv, TypeOK, FrameSet
  <1>2. seen \in 0..Len(frames) /\ seen < Len(frames) /\ seen' = seen + 1 /\ UNCHANGED vars /\ connection = "open"
    BY DEF Shows, Before
  <1>3. seen + 1 \in 1..Len(frames) /\ f \in FrameSet /\ f.type \in types
    BY <1>1, <1>2 DEF Shows
  <1>4. UNCHANGED frames
    BY <1>2 DEF vars
  <1>5. Answered' <=> f.type = "assistant_message"
    BY <1>1, <1>2, <1>4 DEF Answered
  <1>6. seen' \in 0..Len(frames')
    BY <1>1, <1>2, <1>4
  <1>7. TurnShown /\ frames[1] = Frame("user_message") /\ f.type # "user_message" => messages[n + 1] = Question
    BY <1>1, <1>2 DEF TurnShown, Frame
  <1>8. f.type = "assistant_message" => frames[1] = Frame("user_message")
    BY <1>3 DEF FramesInOrder, HasFrame
  <1> QED BY <1>2, <1>3, <1>5, <1>6, <1>7, <1>8

LEMMA HandleKeeps ==
  ASSUME ScreenInv, ShowToken \/ ShowQuestion \/ PassOver \/ ShowAnswer \/ ShowError
  PROVE  Before' /\ Shape'
  <1> DEFINE f == frames[seen + 1]
  <1> USE DEF ScreenInv
  <1>0. PICK types : Shows(types)
    BY DEF ShowToken, ShowQuestion, PassOver, ShowAnswer, ShowError
  <1>1. Before'
    <2>1. earlier' = earlier /\ loading' = loading /\ snapshot' = snapshot /\ pc' = pc /\ connection = "open"
      BY <1>0 DEF Shows, vars
    <2>2. connection' \in {"open", "over"} /\ (connection' = "over" => sending' = FALSE) /\ sending' \in BOOLEAN
          /\ (Answered' => connection' = "over")
      <3>1. CASE ShowToken \/ ShowQuestion \/ PassOver
        <4>1. ~Answered'
          BY <3>1, Handled DEF ShowToken, ShowQuestion, PassOver
        <4> QED BY <2>1, <3>1, <4>1 DEF ShowToken, ShowQuestion, PassOver, Before
      <3>2. CASE ShowAnswer \/ ShowError
        BY <3>2 DEF ShowAnswer, ShowError
      <3> QED BY <3>1, <3>2
    <2> QED BY <1>0, <2>1, <2>2, Handled DEF Before
  <1>2. ASSUME loading \in {"shown", "whole"} PROVE TurnShown'
    <2>1. TurnShown /\ UNCHANGED <<earlier, answer, frames>>
      BY <1>0, <1>2, Handled DEF Shape, Shows, vars, rows
    <2>2. IsAnswer(messages[n + 2])
      BY <2>1 DEF TurnShown
    <2>3. CASE ShowToken
      <3>1. Replaced(n + 2, Message("assistant", messages[n + 2].id, Buffer, TRUE))
        BY <2>1, <2>3, UpdatesLast DEF ShowToken
      <3>2. IsAnswer(Message("assistant", messages[n + 2].id, Buffer, TRUE))
        BY <2>2, StaysAnswer
      <3>3. ~Answered' /\ (frames[1] = Frame("user_message") => messages[n + 1] = Question)
        BY <2>1, <2>3, Handled DEF ShowToken
      <3> QED BY <2>1, <3>1, <3>2, <3>3, ReplacedShows
    <2>4. CASE ShowQuestion
      <3>1. Replaced(n + 1, Question)
        BY <2>1, <2>4, UpdatesLast DEF ShowQuestion
      <3>2. ~Answered'
        BY <2>4, Handled DEF ShowQuestion
      <3> QED BY <2>1, <3>1, <3>2, ReplacedShows
    <2>5. CASE PassOver
      <3>1. ~Answered' /\ (frames[1] = Frame("user_message") => messages[n + 1] = Question) /\ UNCHANGED messages
        BY <2>1, <2>5, Handled DEF PassOver
      <3> QED BY <2>1, <3>1 DEF TurnShown, n, Earlier
    <2>6. CASE ShowAnswer
      <3>1. Replaced(n + 2, Answer(answer))
        BY <2>1, <2>6, UpdatesLast DEF ShowAnswer
      <3>2. IsAnswer(Answer(answer))
        BY <2>2, StaysAnswer
      <3>3. messages[n + 1] = Question
        BY <2>1, <2>6, Handled DEF ShowAnswer
      <3> QED BY <2>1, <3>1, <3>2, <3>3, ReplacedShows
    <2>7. CASE ShowError
      <3>1. Replaced(n + 2, Message("assistant", messages[n + 2].id, <<Frame("error")>>, FALSE))
        BY <2>1, <2>7, UpdatesLast DEF ShowError
      <3>2. IsAnswer(Message("assistant", messages[n + 2].id, <<Frame("error")>>, FALSE))
        BY <2>2, StaysAnswer
      <3>3. ~Answered' /\ (frames[1] = Frame("user_message") => messages[n + 1] = Question)
        BY <2>1, <2>7, Handled DEF ShowError
      <3> QED BY <2>1, <3>1, <3>2, <3>3, ReplacedShows
    <2> QED BY <2>3, <2>4, <2>5, <2>6, <2>7
  <1>3. loading' = loading /\ connection' # "none"
    BY <1>0, Handled DEF Shows, ShowToken, ShowQuestion, PassOver, ShowAnswer, ShowError
  <1>4. loading # "stale"
    BY <1>0 DEF Shows, Shape
  <1> QED BY <1>1, <1>2, <1>3, <1>4 DEF Shape

\* A step that shows nothing new of the turn and leaves the frames alone.
LEMMA PassiveKeeps ==
  ASSUME ScreenInv, UNCHANGED <<earlier, loading, snapshot, seen, frames, answer>>,
         connection \in {"starting", "open"}, connection' \in {connection, "over"},
         connection' = "starting" => UNCHANGED pc,
         sending' \in BOOLEAN, connection' = "over" => sending' = FALSE,
         UNCHANGED messages \/ Warn \/ Update(LastAssistant, LAMBDA m : [m EXCEPT !.streaming = FALSE])
  PROVE  Before' /\ Shape'
  <1> USE DEF ScreenInv
  <1>1. ~Answered /\ ~Answered'
    BY DEF Before, Answered
  <1>2. Before'
    BY <1>1 DEF Before
  <1>3. ASSUME loading \in {"shown", "whole"} PROVE TurnShown'
    <2>1. TurnShown /\ IsAnswer(messages[n + 2])
      BY <1>3 DEF Shape, TurnShown
    <2>2. CASE UNCHANGED messages
      BY <1>1, <2>1, <2>2 DEF TurnShown, n, Earlier
    <2>3. CASE Warn
      <3> DEFINE m == Message("assistant", messages[n + 2].id, <<Frame("error")>>, FALSE)
      <3>1. Replaced(n + 2, m) /\ IsAnswer(m)
        BY <2>1, <2>3, UpdatesLast, StaysAnswer
      <3>2. seen' > 0 /\ frames[1] = Frame("user_message") => messages[n + 1] = Question
        BY <2>1 DEF TurnShown
      <3> HIDE DEF m
      <3> QED BY <1>1, <2>1, <3>1, <3>2, ReplacedShows
    <2>4. CASE Update(LastAssistant, LAMBDA m : [m EXCEPT !.streaming = FALSE])
      <3> DEFINE m == [messages[n + 2] EXCEPT !.streaming = FALSE]
      <3>1. Replaced(n + 2, m) /\ IsAnswer(m)
        BY <2>1, <2>4, UpdatesLast, StaysAnswer
      <3>2. seen' > 0 /\ frames[1] = Frame("user_message") => messages[n + 1] = Question
        BY <2>1 DEF TurnShown
      <3> HIDE DEF m
      <3> QED BY <1>1, <2>1, <3>1, <3>2, ReplacedShows
    <2> QED BY <2>2, <2>3, <2>4
  <1>4. Shape'
    BY <1>3 DEF Shape
  <1> QED BY <1>2, <1>4

LEMMA ScreenStepInv == ScreenInv /\ [ScreenNext]_everything => ScreenInv'
  <1> SUFFICES ASSUME ScreenInv, [ScreenNext]_everything PROVE ScreenInv'
    OBVIOUS
  <1>t. [Next]_vars
    BY ScreenStepIsTurnStep
  <1>i. SInv' /\ FramesInOrder'
    BY <1>t, TurnStep, FramesStep DEF ScreenInv
  <1> USE DEF ScreenInv
  <1>1. CASE ReadHistory
    <2>1. connection = "none" => stored = {}
      BY DEF Before, FramesInOrder
    <2>2. Before'
      BY <1>1, <2>1 DEF ReadHistory, Before, FramesInOrder, Answered, vars
    <2>3. Shape'
      BY <1>1 DEF ReadHistory, Shape
    <2> QED BY <1>i, <2>2, <2>3
  <1>2. CASE ShowHistory
    <2>1. Before'
      BY <1>2 DEF ShowHistory, Arrival, Before, Answered, vars
    <2>2. connection = "none" => History(snapshot) = Earlier
      <3> SUFFICES ASSUME connection = "none" PROVE History(snapshot) = Earlier
        OBVIOUS
      <3>1. snapshot = {}
        BY <1>2 DEF ShowHistory, Before
      <3>2. Earlier \o <<>> = Earlier
        BY EarlierFacts, ConcatEmptySeq DEF Before
      <3> QED BY <3>1, <3>2 DEF History
    <2>3. n' = n /\ Earlier' = Earlier /\ answer' = answer /\ n \in {0, 2} /\ Len(Earlier) = n
          /\ Earlier \in Seq(EarlierRows)
      BY <1>2, EarlierFacts DEF ShowHistory, n, Earlier, Before, vars, rows
    <2>4. ASSUME "answer" \in snapshot PROVE TurnShown'
      <3>1. messages' = Earlier \o <<Question>> \o <<Answer(answer)>>
        BY <1>2, <2>4 DEF ShowHistory, History, Before
      <3>2. messages' = [i \in 1..n + 2 |-> IF i = n + 2 THEN Answer(answer)
                                            ELSE IF i = n + 1 THEN Question ELSE Earlier[i]]
        <4> HIDE DEF ScreenInv
        <4> QED BY <2>3, <3>1, TwoMore
      <3>3. /\ messages' = [i \in 1..n + 2 |-> messages'[i]]
            /\ \A i \in 1..n : messages'[i] = Earlier[i]
            /\ messages'[n + 1] = Question /\ messages'[n + 2] = Answer(answer)
        BY <2>3, <3>2
      <3>4. IsAnswer(Answer(answer))
        BY DEF IsAnswer, Answer
      <3> QED BY <2>3, <3>3, <3>4 DEF TurnShown, Answer
    <2>5. ASSUME "answer" \notin snapshot PROVE messages' \in {Earlier, Earlier \o <<Question>>}
      <3>1. messages' = Earlier \o (IF "question" \in snapshot THEN <<Question>> ELSE <<>>) \o <<>>
        BY <1>2, <2>5 DEF ShowHistory, History
      <3> DEFINE more == Earlier \o <<Question>>
      <3>2. Earlier \o <<>> = Earlier /\ more \o <<>> = more
        <4>1. Earlier \in Seq(EarlierRows \cup {Question}) /\ <<Question>> \in Seq(EarlierRows \cup {Question})
          BY <2>3
        <4> HIDE DEF ScreenInv
        <4>2. more \in Seq(EarlierRows \cup {Question})
          BY <4>1, ConcatProperties
        <4> HIDE DEF more
        <4> QED BY <4>1, <4>2, ConcatEmptySeq
      <3> QED BY <3>1, <3>2
    <2>6. Shape'
      BY <1>2, <2>2, <2>3, <2>4, <2>5 DEF ShowHistory, Arrival, Shape
    <2> QED BY <1>i, <2>1, <2>6
  <1>3. CASE SendMessage
    <2>1. Before'
      BY <1>3 DEF SendMessage, Before, Answered, vars
    <2>2. ASSUME loading = "shown" PROVE TurnShown'
      <3>0. connection = "none" /\ UNCHANGED seen
        BY <1>3 DEF SendMessage
      <3>a. seen = 0
        BY <3>0 DEF Before
      <3>b. messages = Earlier
        BY <2>2, <3>0 DEF Shape
      <3>1. messages = Earlier /\ seen = 0 /\ ~Answered'
        BY <3>0, <3>a, <3>b DEF Answered
      <3>2. messages' = Earlier \o <<Pending, Placeholder>>
        BY <1>3, <3>1 DEF SendMessage
      <3>3. n' = n /\ Earlier' = Earlier /\ n \in {0, 2} /\ Len(Earlier) = n
        BY <1>3, EarlierFacts DEF SendMessage, n, Earlier, Before
      <3>4. /\ messages' = [i \in 1..n + 2 |-> messages'[i]]
            /\ \A i \in 1..n : messages'[i] = Earlier[i]
            /\ messages'[n + 1] = Pending /\ messages'[n + 2] = Placeholder
        <4>1. Earlier \in Seq(EarlierRows)
          BY EarlierFacts DEF Before
        <4>2. messages' = [i \in 1..n + 2 |-> IF i = n + 2 THEN Placeholder ELSE IF i = n + 1 THEN Pending ELSE Earlier[i]]
          BY <3>2, <3>3, <4>1, TwoMore
        <4> QED BY <3>3, <4>2
      <3>5. IsAnswer(Placeholder)
        BY DEF IsAnswer, Placeholder
      <3> QED BY <1>3, <3>1, <3>3, <3>4, <3>5 DEF TurnShown, SendMessage
    <2>3. Shape'
      BY <1>3, <2>2 DEF SendMessage, Shape
    <2> QED BY <1>i, <2>1, <2>3
  <1>4. CASE Listen
    <2>1. Before'
      BY <1>4 DEF Listen, Before, Answered, vars
    <2>2. Shape'
      BY <1>4 DEF Listen, Shape, TurnShown, n, Earlier, Answered, vars, rows
    <2> QED BY <1>i, <2>1, <2>2
  <1>5. CASE StreamDone \/ Break \/ Stop
    BY <1>5, <1>i, PassiveKeeps DEF StreamDone, Break, Stop, Disconnect, vars, rows, Before
  <1>6. CASE Served(Driver \/ Generator \/ Fail) \/ UNCHANGED everything
    <2>1. UNCHANGED screen /\ (connection \in {"open", "over"} \/ UNCHANGED vars)
      BY <1>6 DEF Served, Opened, everything
    <2> QED BY <1>t, <2>1, TurnKeeps
  <1>7. CASE ShowToken \/ ShowQuestion \/ PassOver \/ ShowAnswer \/ ShowError
    BY <1>7, <1>i, HandleKeeps
  <1> QED BY <1>1, <1>2, <1>3, <1>4, <1>5, <1>6, <1>7 DEF ScreenNext, Handle

-----------------------------------------------------------------------------
\* An answer comes after its question, and both are stored when it does.
LEMMA AnsweredIsStored ==
  ASSUME ScreenInv, Answered
  PROVE  stored = {"question", "answer"} /\ seen > 0 /\ frames[1] = Frame("user_message")
  <1>1. frames \in Seq(FrameSet) /\ seen \in 0..Len(frames)
    BY DEF ScreenInv, SInv, TypeOK, FrameSet, Before
  <1>2. seen \in 1..Len(frames) /\ 1 \in 1..Len(frames) /\ frames[seen].type = "assistant_message"
    BY <1>1 DEF Answered
  <1>3. HasFrame("assistant_message") /\ frames[1] = Frame("user_message")
    BY <1>2 DEF HasFrame, ScreenInv, FramesInOrder
  <1>4. HasFrame("user_message")
    BY <1>2, <1>3, FrameIsFrame DEF HasFrame, FrameTypes
  <1>5. stored = {"question", "answer"}
    BY <1>3, <1>4 DEF ScreenInv, SInv, AnnouncedIsStored, TypeOK
  <1>6. seen > 0
    BY DEF Answered
  <1> QED BY <1>3, <1>5, <1>6

LEMMA ShapeIsHistory == ScreenInv => ScreenIsHistory /\ EarlierAnswersStay
  <1> SUFFICES ASSUME ScreenInv, loading \in {"shown", "whole", "stale"}
               PROVE  /\ loading # "stale" /\ Answered => messages = History(stored)
                      /\ SubSeq(messages, 1, Len(Earlier)) = Earlier
    BY DEF ScreenIsHistory, EarlierAnswersStay
  <1> USE DEF ScreenInv
  <1>1. /\ n \in {0, 2} /\ Len(Earlier) = n
        /\ Earlier \in Seq(EarlierRows)
    BY EarlierFacts DEF Before
  <1>f. SubSeq(Earlier, 1, Len(Earlier)) = Earlier
    BY <1>1, SubSeqFull
  <1>2. CASE loading # "stale" /\ connection = "none"
    <2>1. messages = Earlier /\ ~Answered
      BY <1>2 DEF Shape, Before, Answered
    <2> QED BY <1>f, <2>1
  <1>4. CASE loading = "stale"
    <2>1. messages \in {Earlier, Earlier \o <<Question>>}
      BY <1>4 DEF Shape
    <2>2. SubSeq(Earlier \o <<Question>>, 1, Len(Earlier)) = Earlier
      <3> DEFINE S == EarlierRows \cup {Question}
      <3>1. Earlier \in Seq(S) /\ <<Question>> \in Seq(S)
        BY <1>1
      <3> HIDE DEF S, ScreenInv
      <3>2. SubSeq(Earlier \o <<Question>>, 1, Len(Earlier)) = SubSeq(Earlier, 1, Len(Earlier))
        BY <3>1
      <3> QED BY <1>f, <3>2
    <2> QED BY <1>f, <1>4, <2>1, <2>2
  <1>3. CASE loading # "stale" /\ connection # "none"
    <2>1. TurnShown
      BY <1>3 DEF Shape
    <2>2. SubSeq(messages, 1, Len(Earlier)) = Earlier
      <3>1. \A i \in 1..n : messages[i] \in EarlierRows /\ messages[i] = Earlier[i]
        BY <1>1, <2>1, ElementOfSeq DEF TurnShown
      <3>2. /\ SubSeq(messages, 1, n) \in Seq(EarlierRows) /\ Len(SubSeq(messages, 1, n)) = n
            /\ \A i \in 1..n : SubSeq(messages, 1, n)[i] = messages[i]
        <4>1. 1 \in Int /\ n \in Int /\ n - 1 + 1 = n /\ (IF 1 <= n THEN n - 1 + 1 ELSE 0) = n
              /\ \A i \in 1..n : 1 + i - 1 = i
          BY <1>1
        <4>2. /\ SubSeq(messages, 1, n) \in Seq(EarlierRows)
              /\ Len(SubSeq(messages, 1, n)) = (IF 1 <= n THEN n - 1 + 1 ELSE 0)
              /\ \A i \in 1..n - 1 + 1 : SubSeq(messages, 1, n)[i] = messages[1 + i - 1]
          BY <3>1, <4>1, SubSeqProperties
        <4> QED BY <4>1, <4>2
      <3> QED BY <1>1, <3>1, <3>2, SeqEqual
    <2>3. ASSUME Answered PROVE messages = History(stored)
      <3>1. stored = {"question", "answer"} /\ seen > 0 /\ frames[1] = Frame("user_message")
        BY <2>3, AnsweredIsStored
      <3>2. messages[n + 1] = Question /\ messages[n + 2] = Answer(answer)
        BY <2>1, <2>3, <3>1 DEF TurnShown
      <3>3. History(stored) = Earlier \o <<Question>> \o <<Answer(answer)>>
        BY <3>1 DEF History
      <3>4. Earlier \o <<Question>> \o <<Answer(answer)>> =
              [i \in 1..n + 2 |-> IF i = n + 2 THEN Answer(answer) ELSE IF i = n + 1 THEN Question ELSE Earlier[i]]
        <4> HIDE DEF ScreenInv
        <4> QED BY <1>1, TwoMore
      <3>5. messages = [i \in 1..n + 2 |-> IF i = n + 2 THEN Answer(answer) ELSE IF i = n + 1 THEN Question ELSE Earlier[i]]
        <4>1. messages = [i \in 1..n + 2 |-> messages[i]] /\ \A i \in 1..n : messages[i] = Earlier[i]
          BY <2>1 DEF TurnShown
        <4>2. \A i \in 1..n + 2 : i = n + 2 \/ i = n + 1 \/ i \in 1..n
          BY <1>1
        <4>3. [i \in 1..n + 2 |-> messages[i]] =
                [i \in 1..n + 2 |-> IF i = n + 2 THEN Answer(answer) ELSE IF i = n + 1 THEN Question ELSE Earlier[i]]
          BY <3>2, <4>1, <4>2
        <4> QED BY <4>1, <4>3
      <3> QED BY <3>3, <3>4, <3>5
    <2> QED BY <2>2, <2>3
  <1> QED BY <1>2, <1>3, <1>4

-----------------------------------------------------------------------------
(* The types of what is shown. *)

Texts == Seq(Event \cup {Frame("error")})

LEMMA ShownMessages ==
  ASSUME NEW role \in {"user", "assistant"}, NEW streaming \in BOOLEAN, NEW text \in Texts,
         NEW id \in {"earlier", "pending", "placeholder", "question", "answer"}
  PROVE  Message(role, id, text, streaming) \in Shown
  BY DEF Message, Shown, Texts

LEMMA ShownPieces ==
  ASSUME TypeOK
  PROVE  /\ Earlier \in Seq(Shown) /\ Question \in Shown /\ Answer(answer) \in Shown
         /\ Pending \in Shown /\ Placeholder \in Shown
  <1>1. <<>> \in Texts /\ answer \in Texts
    BY DEF Texts, TypeOK
  <1>2. Question \in Shown /\ Answer(answer) \in Shown /\ Pending \in Shown /\ Placeholder \in Shown
    BY <1>1, ShownMessages DEF Question, Answer, Pending, Placeholder
  <1> DEFINE u == Message("user", "earlier", <<>>, FALSE)
             a == Message("assistant", "earlier", <<>>, FALSE)
  <1>3. u \in Shown /\ a \in Shown
    BY <1>1, ShownMessages
  <1>4. Earlier \in Seq(Shown)
    <2>1. Earlier = IF earlier THEN <<u, a>> ELSE <<>>
      BY DEF Earlier
    <2> HIDE DEF u, a
    <2>2. <<u, a>> \in Seq(Shown) /\ <<>> \in Seq(Shown)
      BY <1>3
    <2> QED BY <2>1, <2>2
  <1> QED BY <1>2, <1>4

\* The listener's buffer holds tokens only.
LEMMA BufferType ==
  ASSUME TypeOK, seen \in Nat, seen < Len(frames)
  PROVE  Buffer \in Texts
  <1> DEFINE handled == SubSeq(frames, 1, seen + 1)
  <1>1. frames \in Seq(FrameSet)
    BY DEF TypeOK, FrameSet
  <1>2. handled \in Seq(FrameSet)
    BY <1>1
  <1>3. Buffer \in Seq({f \in FrameSet : f.type \in {"token"}})
    BY <1>2, SelectType DEF Buffer, TokensOf
  <1>4. {f \in FrameSet : f.type \in {"token"}} \subseteq Event \cup {Frame("error")}
    BY DEF FrameSet, Frame, FrameTypes
  <1> QED BY <1>3, <1>4 DEF Texts

\* A change of some messages keeps the list a list of messages.
LEMMA ChangeKeepsShown ==
  ASSUME messages \in Seq(Shown), NEW places,
         messages' = [i \in DOMAIN messages |-> IF i \in places THEN messages'[i] ELSE messages[i]],
         \A i \in DOMAIN messages \cap places : messages'[i] \in Shown
  PROVE  messages' \in Seq(Shown)
  <1>1. Len(messages) \in Nat /\ DOMAIN messages = 1..Len(messages) /\ \A i \in 1..Len(messages) : messages[i] \in Shown
    OBVIOUS
  <1>2. messages' \in [1..Len(messages) -> Shown]
    BY <1>1
  <1> QED BY <1>1, <1>2

\* What the handlers make of a message is a message.
LEMMA ChangedShown ==
  ASSUME NEW m \in Shown
  PROVE  /\ \A text \in Texts : \A b \in BOOLEAN : Message(m.role, m.id, text, b) \in Shown
         /\ [m EXCEPT !.streaming = FALSE] \in Shown
  BY DEF Shown, Message, Texts

LEMMA UpdateKeepsShown ==
  ASSUME messages \in Seq(Shown), NEW places, TypeOK,
         \/ Update(places, LAMBDA m : Message(m.role, m.id, Buffer, TRUE)) /\ Buffer \in Texts
         \/ Update(places, LAMBDA m : Message(m.role, m.id, <<Frame("error")>>, FALSE))
         \/ Update(places, LAMBDA m : [m EXCEPT !.streaming = FALSE])
         \/ Update(places, LAMBDA m : Question)
         \/ Update(places, LAMBDA m : Answer(answer))
  PROVE  messages' \in Seq(Shown)
  <1>1. \A i \in DOMAIN messages : messages[i] \in Shown
    OBVIOUS
  <1>2. <<Frame("error")>> \in Texts
    BY DEF Texts
  <1>3. CASE Update(places, LAMBDA m : Message(m.role, m.id, Buffer, TRUE)) /\ Buffer \in Texts
    BY <1>1, <1>3, ChangedShown, ChangeKeepsShown DEF Update
  <1>4. CASE Update(places, LAMBDA m : Message(m.role, m.id, <<Frame("error")>>, FALSE))
    BY <1>1, <1>2, <1>4, ChangedShown, ChangeKeepsShown DEF Update
  <1>5. CASE Update(places, LAMBDA m : [m EXCEPT !.streaming = FALSE])
    BY <1>1, <1>5, ChangedShown, ChangeKeepsShown DEF Update
  <1>6. CASE Update(places, LAMBDA m : Question)
    BY <1>6, ShownPieces, ChangeKeepsShown DEF Update
  <1>7. CASE Update(places, LAMBDA m : Answer(answer))
    BY <1>7, ShownPieces, ChangeKeepsShown DEF Update
  <1> QED BY <1>3, <1>4, <1>5, <1>6, <1>7

LEMMA ScreenTypeStep == ScreenInv /\ ScreenTypeOK /\ [ScreenNext]_everything => ScreenTypeOK'
  <1> SUFFICES ASSUME ScreenInv, ScreenTypeOK, [ScreenNext]_everything PROVE ScreenTypeOK'
    OBVIOUS
  <1>1. ScreenInv' /\ TypeOK /\ TypeOK'
    BY ScreenStepInv DEF ScreenInv, SInv
  <1>2. messages \in Seq(Shown) /\ seen \in Nat
    BY <1>1 DEF ScreenTypeOK, TypeOK
  <1>3. snapshot' \subseteq {"question", "answer"}
    <2>1. ReadHistory => stored \subseteq {"question", "answer"} /\ snapshot' = stored
      BY <1>1 DEF TypeOK, ReadHistory
    <2> QED BY <2>1 DEF ScreenTypeOK, ScreenNext, ReadHistory, ShowHistory, SendMessage, Listen,
       Handle, Shows, ShowToken,
         ShowQuestion, PassOver, ShowAnswer, ShowError, StreamDone, Break, Stop, Served, screen,
         everything
  <1>4. messages' \in Seq(Shown)
    <2>1. CASE ShowHistory
      <3>1. Earlier \in Seq(Shown) /\ Question \in Shown /\ Answer(answer) \in Shown
        BY <1>1, ShownPieces
      <3>2. History(snapshot) \in Seq(Shown)
        <4> HIDE DEF Shown
        <4> QED BY <3>1 DEF History
      <3> QED BY <2>1, <3>2 DEF ShowHistory
    <2>2. CASE SendMessage
      <3>1. Pending \in Shown /\ Placeholder \in Shown
        BY <1>1, ShownPieces
      <3> HIDE DEF Shown
      <3> QED BY <1>2, <2>2, <3>1 DEF SendMessage
    <2>3. CASE ShowToken
      <3>1. Buffer \in Texts
        BY <1>1, <1>2, <2>3, BufferType DEF ShowToken, Shows
      <3> QED BY <1>1, <1>2, <2>3, <3>1, UpdateKeepsShown DEF ShowToken
    <2>4. CASE ShowQuestion
      BY <1>1, <1>2, <2>4, UpdateKeepsShown DEF ShowQuestion
    <2>5. CASE ShowAnswer
      BY <1>1, <1>2, <2>5, UpdateKeepsShown DEF ShowAnswer
    <2>6. CASE Warn
      BY <1>1, <1>2, <2>6, UpdateKeepsShown DEF Warn
    <2>7. CASE Update(LastAssistant, LAMBDA m : [m EXCEPT !.streaming = FALSE])
      BY <1>1, <1>2, <2>7, UpdateKeepsShown
    <2>8. CASE UNCHANGED messages
      BY <1>2, <2>8
    <2> QED BY <2>1, <2>2, <2>3, <2>4, <2>5, <2>6, <2>7, <2>8 DEF ScreenNext, ReadHistory,
       Listen, Handle, PassOver,
              ShowError, StreamDone, Break, Stop, Served, screen, everything
  <1> QED BY <1>1, <1>3, <1>4 DEF ScreenTypeOK, ScreenInv, Before

-----------------------------------------------------------------------------
\* Behind the screen is a StreamTurn, whatever the app sends, stops or loads.
THEOREM ScreenImplementsTurn == ScreenSpec => Spec
  <1>1. ScreenInit => Init
    BY DEF ScreenInit
  <1>2. [ScreenNext]_everything => [Next]_vars
    BY ScreenStepIsTurnStep
  <1> QED BY <1>1, <1>2, PTL DEF ScreenSpec, Spec

\* So an answer is never the text of a failed run, in front of any client.
THEOREM ScreenFailureIsNotAnAnswer == ScreenSpec => []FailureIsNotAnAnswer
  BY ScreenImplementsTurn, FailureIsNotAnAnswerHolds, PTL

\* The inductive invariant: which messages the controller shows when
\* (chat_controller.dart), and that the frames come in order.
THEOREM ScreenInvariant == ScreenSpec => []ScreenInv
  BY ScreenInitInv, ScreenStepInv, PTL DEF ScreenSpec

\* Once the answer has come, the screen shows what a new load would, if the history
\* was there when the user sent or arrived with the whole turn in it
\* (chat_controller.dart:148-160).
THEOREM ScreenIsHistoryHolds == ScreenSpec => []ScreenIsHistory
  BY ScreenInvariant, ShapeIsHistory, PTL

\* An earlier answer that the history shows is not written over, unless that history
\* arrived during the turn and without its answer (_load and _replaceLastAssistant,
\* chat_controller.dart:59 and 183-192).
THEOREM EarlierAnswersStayHolds == ScreenSpec => []EarlierAnswersStay
  BY ScreenInvariant, ShapeIsHistory, PTL

\* The types of the turn and of the screen: the list the controller keeps holds
\* messages, and their texts tokens or the notice of an error.
THEOREM ScreenTypeCorrect == ScreenSpec => []ScreenTypeOK
  <1>1. ScreenInit => ScreenTypeOK
    <2> SUFFICES ASSUME ScreenInit PROVE ScreenTypeOK
      OBVIOUS
    <2>1. ScreenInv
      BY ScreenInitInv
    <2>2. messages \in Seq(Shown) /\ snapshot = {}
      BY DEF ScreenInit
    <2> QED BY <2>1, <2>2 DEF ScreenTypeOK, ScreenInv, SInv, Before
  <1> QED BY <1>1, ScreenTypeStep, ScreenInvariant, PTL DEF ScreenSpec

\* End to end: once the answer has come, the screen shows what was there before the
\* turn, the question, and the tokens the model emitted (with the exception of
\* ScreenIsHistory).
ModelTextIsShown ==
    loading \in {"shown", "whole"} /\ Answered =>
        messages = Earlier \o <<Question>> \o <<Answer(TokensOf(emitted))>>

\* What the model's callbacks emitted reaches the eyes of the user unchanged: through
\* the queue, the accumulator, the database, the frames and the list of messages
\* (orchestrator.py:172-175, chat_service.py:237-251, chat_controller.dart:148-160).
THEOREM ModelTextIsShownHolds == ScreenSpec => []ModelTextIsShown
  <1>1. ScreenInv /\ TextIsWhatWasStreamed => ModelTextIsShown
    <2> SUFFICES ASSUME ScreenInv, TextIsWhatWasStreamed, loading \in {"shown", "whole"}, Answered
                 PROVE  messages = Earlier \o <<Question>> \o <<Answer(TokensOf(emitted))>>
      BY DEF ModelTextIsShown
    <2>1. messages = History(stored)
      BY ShapeIsHistory DEF ScreenIsHistory
    <2>2. stored = {"question", "answer"}
      BY AnsweredIsStored
    <2>3. answer = TokensOf(emitted)
      BY <2>2 DEF TextIsWhatWasStreamed
    <2>4. History(stored) = Earlier \o <<Question>> \o <<Answer(answer)>>
      BY <2>2 DEF History
    <2> QED BY <2>1, <2>3, <2>4
  <1> QED BY <1>1, ScreenInvariant, ScreenImplementsTurn, TextIsWhatWasStreamedHolds, PTL
=============================================================================
