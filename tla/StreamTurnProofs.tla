-------------------------- MODULE StreamTurnProofs --------------------------
(***************************************************************************)
(* StreamTurn proved for any number of callbacks and any tools: its types, *)
(* that the text of a failed run is never an answer, that what the client  *)
(* was told of is committed, and that what the model emitted is what the   *)
(* client has seen and what is stored, each event once and in order.       *)
(***************************************************************************)
EXTENDS StreamTurn, SequenceTheorems, WellFoundedInduction, TLAPS

(* Select: the elements of a sequence that have one of some types. *)

\* What holds of 0, and of i + 1 when it holds of i, holds of every number: < is well
\* founded.
LEMMA SetInduction ==
  ASSUME NEW T, 0 \in T, \A i \in Nat : i \in T => i + 1 \in T
  PROVE  Nat \subseteq T
  <1> DEFINE U == Nat \ T
             R == OpToRel(<, Nat)
  <1>1. CASE U # {}
    <2>1. IsWellFoundedOn(R, Nat)
      BY NatLessThanWellFounded
    <2>2. PICK x \in U : \A y \in U : <<y, x>> \notin R
      <3> HIDE DEF U, R
      <3>1. U \subseteq Nat
        BY DEF U
      <3> QED BY <1>1, <2>1, <3>1, WFMin
    <2>3. \A y \in U : ~(y < x)
      BY <2>2 DEF OpToRel
    <2>4. x \in Nat /\ x \notin T
      BY <2>2
    <2>5. \A y \in Nat : y \notin T => ~(y < x)
      BY <2>3
    <2> HIDE DEF U, R
    <2>6. x - 1 \in Nat /\ x - 1 < x /\ (x - 1) + 1 = x
      BY <2>4
    <2> QED BY <2>4, <2>5, <2>6
  <1> QED BY <1>1

\* What holds of <<>>, and of Append(s, e) when it holds of s, holds of every sequence.
LEMMA SeqInduction ==
  ASSUME NEW S, NEW T, <<>> \in T,
         \A s \in Seq(S) : \A e \in S : s \in T => Append(s, e) \in T
  PROVE  Seq(S) \subseteq T
  <1> DEFINE N == {k \in Nat : \A s \in Seq(S) : Len(s) = k => s \in T}
  <1>1. 0 \in N
    <2>1. \A s \in Seq(S) : Len(s) = 0 => s = <<>>
      OBVIOUS
    <2> QED BY <2>1
  <1>2. ASSUME NEW k \in Nat, k \in N PROVE k + 1 \in N
    <2> SUFFICES ASSUME NEW s \in Seq(S), Len(s) = k + 1 PROVE s \in T
      OBVIOUS
    <2> DEFINE r == SubSeq(s, 1, k)
    <2>1. r \in Seq(S) /\ Len(r) = k /\ s[k + 1] \in S
      OBVIOUS
    <2>2. s = Append(r, s[k + 1])
      OBVIOUS
    <2>3. r \in T
      BY <1>2, <2>1
    <2> QED BY <2>1, <2>2, <2>3
  <1>3. Nat \subseteq N
    <2> HIDE DEF N
    <2> QED BY <1>1, <1>2, SetInduction
  <1> QED BY <1>3

\* The recursion of Select, up to position m.
Selects(s, types, m, f) ==
    f = [i \in 0..m |-> IF i = 0 THEN <<>>
                        ELSE IF s[i].type \in types THEN Append(f[i - 1], s[i]) ELSE f[i - 1]]

LEMMA SelectsExists ==
  ASSUME NEW s, NEW types
  PROVE  \A k \in Nat : \E f : Selects(s, types, k, f)
  <1> DEFINE T == {k \in Nat : \E f : Selects(s, types, k, f)}
             Value(f, i) == IF i = 0 THEN <<>>
                            ELSE IF s[i].type \in types THEN Append(f[i - 1], s[i]) ELSE f[i - 1]
  <1>1. 0 \in T
    <2> DEFINE f == [i \in 0..0 |-> <<>>]
    <2>1. Selects(s, types, 0, f)
      BY DEF Selects
    <2> QED BY <2>1
  <1>2. ASSUME NEW k \in Nat, k \in T PROVE k + 1 \in T
    <2>1. PICK f : Selects(s, types, k, f)
      BY <1>2
    <2> DEFINE g == [i \in 0..k + 1 |-> IF i \in 0..k THEN f[i] ELSE Value(f, i)]
    <2>2. \A i \in 0..k : f[i] = Value(f, i)
      BY <2>1 DEF Selects
    <2>3. ASSUME NEW i \in 0..k + 1 PROVE g[i] = Value(g, i)
      <3>1. i # 0 => i - 1 \in 0..k /\ i - 1 \in 0..k + 1
        OBVIOUS
      <3>2. i # 0 => g[i - 1] = f[i - 1]
        BY <3>1
      <3>3. CASE i \in 0..k
        BY <3>2, <3>3, <2>2
      <3>4. CASE i \notin 0..k
        BY <3>2, <3>4
      <3> QED BY <3>3, <3>4
    <2>4. Selects(s, types, k + 1, g)
      BY <2>3 DEF Selects
    <2> QED BY <2>4
  <1>3. Nat \subseteq T
    <2> HIDE DEF T
    <2> QED BY <1>1, <1>2, SetInduction
  <1> QED BY <1>3

\* Two sequences that agree up to position m select the same up to there.
LEMMA SelectsUnique ==
  ASSUME NEW s, NEW r, NEW types, NEW k \in Nat, NEW m \in Nat, m <= k,
         \A i \in 1..m : r[i] = s[i],
         NEW f, NEW g, Selects(s, types, k, f), Selects(r, types, m, g)
  PROVE  f[m] = g[m]
  <1> DEFINE T == {i \in Nat : i \in 0..m => f[i] = g[i]}
  <1>1. /\ \A i \in 0..k : f[i] = IF i = 0 THEN <<>>
                                  ELSE IF s[i].type \in types THEN Append(f[i - 1], s[i]) ELSE f[i - 1]
        /\ \A i \in 0..m : g[i] = IF i = 0 THEN <<>>
                                  ELSE IF r[i].type \in types THEN Append(g[i - 1], r[i]) ELSE g[i - 1]
    BY DEF Selects
  <1>2. 0 \in T
    BY <1>1
  <1>3. ASSUME NEW i \in Nat, i \in T PROVE i + 1 \in T
    <2> SUFFICES ASSUME i + 1 \in 0..m PROVE f[i + 1] = g[i + 1]
      OBVIOUS
    <2>1. i \in 0..m /\ i + 1 \in 1..m /\ i + 1 \in 0..k /\ i + 1 # 0 /\ (i + 1) - 1 = i
      OBVIOUS
    <2>2. f[i] = g[i] /\ r[i + 1] = s[i + 1]
      BY <1>3, <2>1
    <2> QED BY <1>1, <2>1, <2>2
  <1>4. Nat \subseteq T
    <2> HIDE DEF T
    <2> QED BY <1>2, <1>3, SetInduction
  <1> QED BY <1>4

LEMMA SelectIs ==
  ASSUME NEW s, Len(s) \in Nat, NEW types
  PROVE  \E f : Selects(s, types, Len(s), f) /\ Select(s, types) = f[Len(s)]
  <1> DEFINE f == CHOOSE f : Selects(s, types, Len(s), f)
  <1>1. Selects(s, types, Len(s), f)
    BY SelectsExists
  <1>2. Select(s, types) = f[Len(s)]
    BY DEF Select, Selects
  <1> QED BY <1>1, <1>2

LEMMA SelectEmpty ==
  ASSUME NEW types
  PROVE  Select(<<>>, types) = <<>>
  <1>1. PICK f : Selects(<<>>, types, 0, f) /\ Select(<<>>, types) = f[0]
    BY SelectIs
  <1> QED BY <1>1 DEF Selects

LEMMA SelectAppend ==
  ASSUME NEW S, NEW s \in Seq(S), NEW e \in S, NEW types
  PROVE  Select(Append(s, e), types) =
             IF e.type \in types THEN Append(Select(s, types), e) ELSE Select(s, types)
  <1> DEFINE t == Append(s, e)
             l == Len(s)
  <1>1. t \in Seq(S) /\ Len(t) = l + 1 /\ l \in Nat /\ t[l + 1] = e /\ \A i \in 1..l : s[i] = t[i]
    OBVIOUS
  <1> HIDE DEF t, l
  <1>2. PICK f : Selects(t, types, l + 1, f) /\ Select(t, types) = f[l + 1]
    BY <1>1, SelectIs
  <1>3. PICK g : Selects(s, types, l, g) /\ Select(s, types) = g[l]
    BY <1>1, SelectIs DEF l
  <1>4. f[l] = g[l]
    BY <1>1, <1>2, <1>3, SelectsUnique
  <1>5. f[l + 1] = IF e.type \in types THEN Append(f[l], e) ELSE f[l]
    <2>1. l + 1 \in 0..l + 1 /\ l + 1 # 0 /\ (l + 1) - 1 = l
      BY <1>1
    <2> QED BY <1>1, <1>2, <2>1 DEF Selects
  <1> QED BY <1>2, <1>3, <1>4, <1>5 DEF t

\* Nothing is selected that was not there, or has another type.
LEMMA SelectType ==
  ASSUME NEW S, NEW types
  PROVE  \A s \in Seq(S) : Select(s, types) \in Seq({e \in S : e.type \in types})
  <1> DEFINE T == {s \in Seq(S) : Select(s, types) \in Seq({e \in S : e.type \in types})}
  <1>1. <<>> \in T
    <2>1. Select(<<>>, types) = <<>>
      BY SelectEmpty
    <2>2. \A X : <<>> \in Seq(X)
      OBVIOUS
    <2> QED BY <2>1, <2>2, Zenon
  <1>2. ASSUME NEW s \in Seq(S), NEW e \in S, s \in T PROVE Append(s, e) \in T
    BY <1>2, SelectAppend
  <1>3. Seq(S) \subseteq T
    <2> HIDE DEF T
    <2> QED BY <1>1, <1>2, SeqInduction
  <1> QED BY <1>3

\* To select some types of what was selected by more is to select them at once.
LEMMA SelectTwice ==
  ASSUME NEW S, NEW types, NEW more, types \subseteq more
  PROVE  \A s \in Seq(S) : Select(Select(s, more), types) = Select(s, types)
  <1> DEFINE T == {s \in Seq(S) : Select(Select(s, more), types) = Select(s, types)}
  <1>1. <<>> \in T
    BY SelectEmpty
  <1>2. ASSUME NEW s \in Seq(S), NEW e \in S, s \in T PROVE Append(s, e) \in T
    <2>1. Select(s, more) \in Seq(S)
      <3>1. Select(s, more) \in Seq({d \in S : d.type \in more})
        BY SelectType
      <3> QED BY <3>1
    <2>2. Select(Append(Select(s, more), e), types) =
             IF e.type \in types THEN Append(Select(Select(s, more), types), e) ELSE Select(Select(s, more), types)
      BY <2>1, SelectAppend
    <2>3. /\ Select(Append(s, e), more) = IF e.type \in more THEN Append(Select(s, more), e) ELSE Select(s, more)
          /\ Select(Append(s, e), types) = IF e.type \in types THEN Append(Select(s, types), e) ELSE Select(s, types)
      BY SelectAppend
    <2>4. Append(s, e) \in Seq(S)
      OBVIOUS
    <2> QED BY <1>2, <2>2, <2>3, <2>4
  <1>3. Seq(S) \subseteq T
    <2> HIDE DEF T
    <2> QED BY <1>1, <1>2, SeqInduction
  <1> QED BY <1>3

-----------------------------------------------------------------------------
(* The turn. *)

\* How far the driver is when the generators are where they are.
DriverFollows ==
    /\ pc \in {"asked", "preparing"} => driver = "none"
    /\ driver \in {"none", "running"} => outcome = "open"
    /\ driver \in {"none", "running"} => Len(emitted) <= MaxEvents
    /\ pc \in {"finished", "committed"} => driver = "ended" /\ outcome = "ok"

\* What is committed when.
RowsFollow ==
    /\ pc \notin {"asked", "closed"} => "question" \in stored
    /\ pc = "committed" => "answer" \in stored
    /\ "answer" \in stored => pc \in {"committed", "closed"} /\ driver = "ended" /\ outcome = "ok"

SInv == TypeOK /\ DriverFollows /\ RowsFollow /\ AnnouncedIsStored

-----------------------------------------------------------------------------
LEMMA EventFacts ==
  ASSUME NEW e \in Event
  PROVE  /\ e.type \in {"token", "tool_call", "usage"}
         /\ e.type = "tool_call" => e.tool \in ToolNames \cup {NoTool}
  BY DEF Event, Token, ToolStart, ToolEnd, ToolError, Usage

FrameSet == Event \cup {Frame(t) : t \in FrameTypes}

LEMMA TurnInit == Init => SInv
  <1> SUFFICES ASSUME Init PROVE SInv
    OBVIOUS
  <1>0. <<>> \in Seq(Event) /\ <<>> \in Seq(Event \cup {END}) /\ <<>> \in Seq(ToolNames \cup {NoTool})
        /\ <<>> \in Seq(Event \cup {Frame(t) : t \in FrameTypes})
    OBVIOUS
  <1>1. TypeOK
    BY <1>0 DEF Init, TypeOK, Step
  <1>2. DriverFollows /\ RowsFollow /\ AnnouncedIsStored
    BY MaxEventsAssumption DEF Init, DriverFollows, RowsFollow, AnnouncedIsStored, HasFrame
  <1> QED BY <1>1, <1>2 DEF SInv

\* One frame more.
LEMMA SendOne ==
  ASSUME TypeOK, NEW f \in FrameSet, Send(<<f>>)
  PROVE  /\ frames' \in Seq(FrameSet)
         /\ \A t \in FrameTypes : HasFrame(t)' => HasFrame(t) \/ f.type = t
  <1>1. frames \in Seq(FrameSet) /\ <<f>> \in Seq(FrameSet)
    BY DEF TypeOK, FrameSet
  <1>2. frames' = frames \o <<f>>
    BY DEF Send
  <1>3. frames' \in Seq(FrameSet) /\ Len(frames') = Len(frames) + 1
    BY <1>1, <1>2
  <1>4. \A i \in 1..Len(frames') : (i \in 1..Len(frames) /\ frames'[i] = frames[i]) \/ frames'[i] = f
    BY <1>1, <1>2
  <1> QED BY <1>3, <1>4 DEF HasFrame

-----------------------------------------------------------------------------
\* A callback of the running driver.
LEMMA EmitKeeps ==
  ASSUME SInv, NEW e \in Event, Emit(e), Idle, sawToken' \in BOOLEAN, running' \in ToolNames \cup {NoTool},
         driver = "running", Len(emitted) < MaxEvents \/ driver' = "finalizing",
         \/ driver' = "running" /\ outcome' = "open"
         \/ driver' = "finalizing" /\ outcome' \in {"ok", "error"}
  PROVE  SInv'
  <1> USE DEF SInv, Emit, Idle, rows
  <1>1. emitted' \in Seq(Event) /\ queue' \in Seq(Event \cup {END}) /\ Len(emitted') = Len(emitted) + 1
    BY DEF TypeOK
  <1>2. TypeOK'
    BY <1>1 DEF TypeOK
  <1>3. DriverFollows' /\ RowsFollow'
    BY <1>1, MaxEventsAssumption DEF DriverFollows, RowsFollow, TypeOK
  <1>4. AnnouncedIsStored'
    BY DEF AnnouncedIsStored, HasFrame
  <1> QED BY <1>2, <1>3, <1>4

LEMMA DriverKeeps ==
  ASSUME SInv, Driver
  PROVE  SInv'
  <1>a. \A n \in 1..MaxEvents + 1 : Token(n) \in Event
    BY DEF Event
  <1>b. Len(emitted) \in Nat /\ driver \in {"none", "running"} => Len(emitted) <= MaxEvents
    BY DEF SInv, TypeOK, DriverFollows
  <1>c. driver = "running" => Token(Len(emitted) + 1) \in Event
    BY <1>a, <1>b, MaxEventsAssumption
  <1>1. CASE OnToken
    BY <1>c, <1>1, EmitKeeps DEF OnToken, Callback, SInv, TypeOK
  <1>2. CASE OnLlmEnd
    BY <1>2, EmitKeeps DEF OnLlmEnd, Callback, SInv, TypeOK, Event
  <1>3. CASE OnToolStart
    <2>1. PICK t \in ToolNames : Emit(ToolStart(t)) /\ running' = t
      BY <1>3 DEF OnToolStart
    <2>2. ToolStart(t) \in Event
      BY DEF Event
    <2> QED BY <1>3, <2>1, <2>2, EmitKeeps DEF OnToolStart, Callback, SInv, TypeOK
  <1>4. CASE OnToolEnd
    BY <1>4, EmitKeeps DEF OnToolEnd, Callback, SInv, TypeOK, Event
  <1>5. CASE OnToolError
    BY <1>5, EmitKeeps DEF OnToolError, Callback, SInv, TypeOK, Event
  <1>6. CASE RunSucceeds /\ Emit(Token(Len(emitted) + 1))
    BY <1>c, <1>6, EmitKeeps DEF RunSucceeds, SInv, TypeOK
  <1>7. CASE Finalize \/ ((RunSucceeds \/ RunFails) /\ UNCHANGED <<emitted, queue>>)
    <2> USE <1>7 DEF SInv, RunSucceeds, RunFails, Finalize, Idle, rows
    <2>0. emitted' = emitted /\ queue' \in Seq(Event \cup {END})
      <3>1. CASE UNCHANGED <<emitted, queue>>
        BY <3>1 DEF TypeOK
      <3>2. CASE emitted' = emitted /\ queue' = Append(queue, END)
        BY <3>2 DEF TypeOK
      <3> QED BY <3>1, <3>2
    <2>1. TypeOK'
      BY <2>0 DEF TypeOK
    <2>2. DriverFollows' /\ RowsFollow' /\ AnnouncedIsStored'
      BY DEF DriverFollows, RowsFollow, AnnouncedIsStored, HasFrame
    <2> QED BY <2>1, <2>2
  <1> QED
    BY <1>1, <1>2, <1>3, <1>4, <1>5, <1>6, <1>7 DEF Driver, ToolStep, RunSucceeds, RunFails, Finalize

-----------------------------------------------------------------------------
\* A step of the generators, which do not touch the driver.
LEMMA GeneratorStep ==
  ASSUME SInv, TypeOK', UNCHANGED <<driver, outcome, emitted>>,
         stored \subseteq stored',
         pc' \in {"asked", "preparing"} => driver = "none",
         pc' \in {"finished", "committed"} => driver = "ended" /\ outcome = "ok",
         pc' \notin {"asked", "closed"} => "question" \in stored',
         pc' = "committed" => "answer" \in stored',
         "answer" \in stored' => pc' \in {"committed", "closed"} /\ driver = "ended" /\ outcome = "ok",
         AnnouncedIsStored'
  PROVE  SInv'
  BY DEF SInv, DriverFollows, RowsFollow

LEMMA RaiseKeeps ==
  ASSUME SInv, Raise, UNCHANGED <<transport, tools, produce, queue, client, accumulator, toolLog, rows>>
  PROVE  SInv'
  <1> USE DEF produce, rows
  <1>1. frames' \in Seq(FrameSet) /\ (AnnouncedIsStored')
    <2>1. CASE Send(<<Frame("error")>>)
      <3>1. Frame("error") \in FrameSet /\ Frame("error").type = "error"
        BY DEF FrameSet, FrameTypes, Frame
      <3> QED BY <2>1, <3>1, SendOne DEF SInv, AnnouncedIsStored, FrameTypes
    <2>2. CASE Send(<<>>)
      BY <2>2 DEF Send, SInv, TypeOK, FrameSet, AnnouncedIsStored, HasFrame
    <2> QED BY <2>1, <2>2 DEF Raise
  <1>2. TypeOK'
    BY <1>1 DEF SInv, TypeOK, Raise, Step, FrameSet
  <1> QED BY <1>1, <1>2, GeneratorStep DEF SInv, Raise, DriverFollows, RowsFollow

LEMMA GeneratorKeeps ==
  ASSUME SInv, Generator
  PROVE  SInv'
  <1> USE DEF produce, rows
  <1>1. CASE SaveQuestion
    <2>1. Frame("user_message") \in FrameSet /\ Frame("user_message").type = "user_message"
      BY DEF FrameSet, FrameTypes, Frame
    <2>2. frames' \in Seq(FrameSet) /\ AnnouncedIsStored'
      BY <1>1, <2>1, SendOne DEF SaveQuestion, SInv, AnnouncedIsStored, FrameTypes
    <2>3. TypeOK'
      BY <1>1, <2>2 DEF SaveQuestion, SInv, TypeOK, Step, FrameSet
    <2> QED BY <1>1, <2>2, <2>3, GeneratorStep DEF SaveQuestion, SInv, DriverFollows, RowsFollow
  <1>2. CASE StartDriver
    <2>1. frames' \in Seq(FrameSet) /\ AnnouncedIsStored'
      <3>1. CASE Send(<<>>)
        BY <1>2, <3>1 DEF StartDriver, Send, SInv, TypeOK, FrameSet, AnnouncedIsStored, HasFrame
      <3>2. CASE Send(<<Frame("citations")>>)
        <4>1. Frame("citations") \in FrameSet /\ Frame("citations").type = "citations"
          BY DEF FrameSet, FrameTypes, Frame
        <4> QED BY <1>2, <3>2, <4>1, SendOne DEF StartDriver, SInv, AnnouncedIsStored, FrameTypes
      <3> QED BY <1>2, <3>1, <3>2 DEF StartDriver
    <2>2. TypeOK'
      BY <1>2, <2>1 DEF StartDriver, SInv, TypeOK, Step, FrameSet
    <2>3. DriverFollows' /\ RowsFollow'
      BY <1>2 DEF StartDriver, SInv, DriverFollows, RowsFollow
    <2> QED BY <2>1, <2>2, <2>3 DEF SInv
  <1>3. CASE Consume
    <2> DEFINE e == Head(queue)
    <2>1. e \in Event /\ Tail(queue) \in Seq(Event \cup {END})
      BY <1>3 DEF Consume, SInv, TypeOK
    <2>2. e \in FrameSet /\ e.type \notin FrameTypes
      BY <2>1, EventFacts DEF FrameSet, FrameTypes
    <2>3. frames' \in Seq(FrameSet) /\ AnnouncedIsStored'
      BY <1>3, <2>2, SendOne DEF Consume, SInv, AnnouncedIsStored, FrameTypes
    <2>4. accumulator' \in Seq(Event)
      BY <1>3, <2>1 DEF Consume, SInv, TypeOK
    <2>5. toolLog' \in Seq(ToolNames \cup {NoTool})
      BY <1>3, <2>1, EventFacts DEF Consume, SInv, TypeOK
    <2>6. TypeOK'
      BY <1>3, <2>1, <2>3, <2>4, <2>5 DEF Consume, SInv, TypeOK, FrameSet
    <2> QED BY <1>3, <2>3, <2>6, GeneratorStep DEF Consume, SInv, DriverFollows, RowsFollow
  <1>4. CASE ConsumeEnd
    <2>1. TypeOK' /\ AnnouncedIsStored'
      BY <1>4 DEF ConsumeEnd, SInv, TypeOK, Step, AnnouncedIsStored, HasFrame
    <2> QED BY <1>4, <2>1, GeneratorStep DEF ConsumeEnd, SInv, DriverFollows, RowsFollow
  <1>5. CASE Join
    <2>1. CASE outcome = "ok"
      <3>1. Frame("done") \in FrameSet /\ Frame("done").type = "done"
        BY DEF FrameSet, FrameTypes, Frame
      <3>2. frames' \in Seq(FrameSet) /\ AnnouncedIsStored'
        BY <1>5, <2>1, <3>1, SendOne DEF Join, SInv, AnnouncedIsStored, FrameTypes
      <3>3. TypeOK'
        BY <1>5, <2>1, <3>2 DEF Join, SInv, TypeOK, Step, FrameSet
      <3> QED BY <1>5, <2>1, <3>2, <3>3, GeneratorStep DEF Join, SInv, DriverFollows, RowsFollow
    <2>2. CASE outcome # "ok"
      BY <1>5, <2>2, RaiseKeeps DEF Join
    <2> QED BY <2>1, <2>2
  <1>6. CASE CommitAnswer
    <2>1. TypeOK' /\ AnnouncedIsStored'
      BY <1>6 DEF CommitAnswer, SInv, TypeOK, Step, AnnouncedIsStored, HasFrame
    <2> QED BY <1>6, <2>1, GeneratorStep DEF CommitAnswer, SInv, DriverFollows, RowsFollow
  <1>7. CASE Announce
    <2>1. Frame("assistant_message") \in FrameSet /\ Frame("assistant_message").type = "assistant_message"
      BY DEF FrameSet, FrameTypes, Frame
    <2>2. frames' \in Seq(FrameSet) /\ AnnouncedIsStored'
      BY <1>7, <2>1, SendOne DEF Announce, SInv, AnnouncedIsStored, FrameTypes, RowsFollow
    <2>3. TypeOK'
      BY <1>7, <2>2 DEF Announce, SInv, TypeOK, Step, FrameSet
    <2> QED BY <1>7, <2>2, <2>3, GeneratorStep DEF Announce, SInv, DriverFollows, RowsFollow
  <1> QED BY <1>1, <1>2, <1>3, <1>4, <1>5, <1>6, <1>7 DEF Generator

LEMMA TurnStep == SInv /\ [Next]_vars => SInv'
  <1> SUFFICES ASSUME SInv, [Next]_vars PROVE SInv'
    OBVIOUS
  <1>1. CASE Fail
    BY <1>1, RaiseKeeps DEF Fail
  <1>2. CASE Disconnect
    <2>1. TypeOK' /\ AnnouncedIsStored'
      BY <1>2 DEF Disconnect, produce, rows, SInv, TypeOK, Step, AnnouncedIsStored, HasFrame
    <2> QED BY <1>2, <2>1, GeneratorStep DEF Disconnect, produce, rows, SInv, DriverFollows, RowsFollow
  <1>3. CASE UNCHANGED vars
    BY <1>3 DEF vars, produce, rows, SInv, TypeOK, DriverFollows, RowsFollow, AnnouncedIsStored, HasFrame
  <1> QED BY <1>1, <1>2, <1>3, DriverKeeps, GeneratorKeeps DEF Next

-----------------------------------------------------------------------------
(* No event of the run is lost, repeated or moved on its way to the client. *)

\* What the driver put and the client has not been sent is what waits in the queue;
\* the sentinel is the last thing in it, once.
Conserved ==
    \E rest \in Seq(Event) :
        /\ emitted = EventsOf(frames) \o rest
        /\ \/ driver # "ended" /\ queue = rest
           \/ driver = "ended" /\ queue = Append(rest, END) /\ pc \in {"iterating", "closed"}
           \/ driver = "ended" /\ queue = <<>> /\ rest = <<>>
                /\ pc \in {"joining", "finished", "committed", "closed"}

\* Every event of a run that ended has been sent.
Delivered == driver = "ended" /\ EventsOf(frames) = emitted

\* When it has, and what the stored answer then is.
DeliveredBy ==
    /\ pc \in {"joining", "finished", "committed"} => Delivered
    /\ pc \in {"asked", "preparing", "iterating", "joining"} => ~HasFrame("done")
    /\ HasFrame("done") => Delivered
    /\ "answer" \in stored => Delivered /\ answer = accumulator

DInv ==
    /\ accumulator = TokensOf(frames)
    /\ Conserved
    /\ pc \in {"iterating", "joining", "finished", "committed"} => driver # "none"
    /\ DeliveredBy

\* A frame that is no event changes neither the events nor the text that were sent.
LEMMA SendFrame ==
  ASSUME TypeOK, NEW t \in FrameTypes, Send(<<Frame(t)>>)
  PROVE  /\ EventsOf(frames') = EventsOf(frames)
         /\ TokensOf(frames') = TokensOf(frames)
         /\ HasFrame("done")' => HasFrame("done") \/ t = "done"
  <1>1. frames \in Seq(FrameSet) /\ Frame(t) \in FrameSet /\ Frame(t).type = t
    BY DEF TypeOK, FrameSet, Frame
  <1>2. frames' = Append(frames, Frame(t))
    BY <1>1 DEF Send
  <1>3. t \notin EventTypes /\ t \notin {"token"}
    BY DEF FrameTypes, EventTypes
  <1>4. /\ EventsOf(frames') = EventsOf(frames)
        /\ TokensOf(frames') = TokensOf(frames)
    BY <1>1, <1>2, <1>3, SelectAppend DEF EventsOf, TokensOf
  <1>5. "done" \in FrameTypes
    BY DEF FrameTypes
  <1> QED BY <1>1, <1>4, <1>5, SendOne

\* An event that is passed on becomes the last one sent, and a token the end of the text.
LEMMA SendEvent ==
  ASSUME TypeOK, NEW e \in Event, Send(<<e>>)
  PROVE  /\ EventsOf(frames') = Append(EventsOf(frames), e)
         /\ TokensOf(frames') = IF e.type = "token" THEN Append(TokensOf(frames), e) ELSE TokensOf(frames)
         /\ HasFrame("done")' => HasFrame("done")
  <1>1. frames \in Seq(FrameSet) /\ e \in FrameSet
    BY DEF TypeOK, FrameSet
  <1>2. frames' = Append(frames, e)
    BY <1>1 DEF Send
  <1>3. e.type \in EventTypes /\ e.type # "done" /\ "done" \in FrameTypes
    BY EventFacts DEF FrameTypes, EventTypes
  <1>4. /\ EventsOf(frames') = Append(EventsOf(frames), e)
        /\ TokensOf(frames') = IF e.type \in {"token"} THEN Append(TokensOf(frames), e) ELSE TokensOf(frames)
    BY <1>1, <1>2, <1>3, SelectAppend DEF EventsOf, TokensOf
  <1> QED BY <1>1, <1>3, <1>4, SendOne

LEMMA EventsOfType ==
  ASSUME TypeOK
  PROVE  EventsOf(frames) \in Seq(Event)
  <1>1. EventsOf(frames) \in Seq({f \in FrameSet : f.type \in EventTypes})
    BY SelectType DEF EventsOf, TypeOK, FrameSet
  <1>2. {f \in FrameSet : f.type \in EventTypes} \subseteq Event
    BY DEF FrameSet, Frame, FrameTypes, EventTypes
  <1> QED BY <1>1, <1>2

LEMMA EndIsNoEvent == END \notin Event
  BY EventFacts DEF END

-----------------------------------------------------------------------------
\* What the client of any turn has seen, also of one that failed or was stopped, is
\* how the run began: the events it has not seen are the last ones.
SeenIsAPrefix == \E rest \in Seq(Event) : emitted = EventsOf(frames) \o rest

\* The safety half of EveryStreamCloses: a consumer that finds the queue empty waits
\* for a driver that still runs or is about to put the sentinel, and a driver that is
\* awaited has ended.
NobodyWaitsForEver ==
    /\ pc = "iterating" /\ queue = <<>> => driver \in {"running", "finalizing"}
    /\ pc = "joining" => driver = "ended"

LEMMA DeliveryInit == Init => DInv
  <1> SUFFICES ASSUME Init PROVE DInv
    OBVIOUS
  <1>1. TokensOf(<<>>) = <<>> /\ EventsOf(<<>>) = <<>>
    BY SelectEmpty DEF TokensOf, EventsOf
  <1>2. <<>> \in Seq(Event) /\ <<>> = <<>> \o <<>>
    OBVIOUS
  <1>3. Conserved
    BY <1>1, <1>2 DEF Init, Conserved
  <1> QED BY <1>1, <1>3 DEF Init, DInv, DeliveredBy, HasFrame

\* The driver puts events at the end of the queue, and the sentinel after the last.
LEMMA DriverDelivers ==
  ASSUME SInv, DInv, Driver
  PROVE  DInv'
  <1> USE DEF SInv, Idle, rows
  <1>1. /\ UNCHANGED <<pc, accumulator, frames, stored, answer>>
        /\ driver \in {"running", "finalizing"} /\ driver' \in {"running", "finalizing", "ended"}
    BY DEF Driver, ToolStep, OnToken, OnLlmEnd, OnToolStart, OnToolEnd, OnToolError, RunSucceeds, RunFails,
           Finalize, Callback
  <1>2. pc \in {"iterating", "closed"} /\ ~HasFrame("done") /\ "answer" \notin stored
    BY <1>1 DEF DInv, DeliveredBy, Delivered, DriverFollows, TypeOK, Step
  <1>3. PICK rest \in Seq(Event) : emitted = EventsOf(frames) \o rest /\ queue = rest
    BY <1>1 DEF DInv, Conserved
  <1>4. Conserved'
    <2>1. ASSUME NEW e \in Event, Emit(e), driver' # "ended" PROVE Conserved'
      <3>1. Append(rest, e) \in Seq(Event) /\ queue' = Append(rest, e)
        BY <1>3, <2>1 DEF Emit
      <3>2. emitted' = EventsOf(frames) \o Append(rest, e)
        BY <1>3, <2>1, EventsOfType DEF Emit
      <3> QED BY <1>1, <2>1, <3>1, <3>2 DEF Conserved
    <2>2. CASE UNCHANGED <<emitted, queue>> /\ driver' # "ended"
      BY <1>1, <1>3, <2>2 DEF Conserved
    <2>3. CASE Finalize
      <3>1. emitted' = emitted /\ queue' = Append(rest, END) /\ driver' = "ended"
        BY <1>3, <2>3 DEF Finalize
      <3> QED BY <1>1, <1>2, <1>3, <3>1 DEF Conserved
    <2>4. driver = "running" => Token(Len(emitted) + 1) \in Event
      <3>1. driver = "running" => Len(emitted) + 1 \in 1..MaxEvents + 1
        BY MaxEventsAssumption DEF TypeOK, DriverFollows
      <3> QED BY <3>1 DEF Event
    <2>5. \A t \in ToolNames : ToolStart(t) \in Event
      BY DEF Event
    <2>6. {ToolEnd, ToolError, Usage} \subseteq Event
      BY DEF Event
    <2> QED BY <2>1, <2>2, <2>3, <2>4, <2>5, <2>6 DEF Driver, ToolStep, OnToken, OnLlmEnd, OnToolStart, OnToolEnd,
              OnToolError, RunSucceeds, RunFails, Callback
  <1>5. DeliveredBy'
    BY <1>1, <1>2 DEF DeliveredBy, HasFrame
  <1> QED BY <1>1, <1>4, <1>5 DEF DInv

\* The consumer takes the next event from the front of the queue.
LEMMA ConsumeDelivers ==
  ASSUME SInv, DInv, Consume
  PROVE  DInv'
  <1> DEFINE e == Head(queue)
  <1> USE DEF SInv, produce, rows
  <1>1. e \in Event /\ queue # <<>> /\ e # END /\ queue' = Tail(queue) /\ Send(<<e>>)
    BY DEF Consume, TypeOK
  <1>2. /\ UNCHANGED <<driver, outcome, emitted, pc, stored, answer>> /\ pc = "iterating"
        /\ accumulator' = IF e.type = "token" THEN Append(accumulator, e) ELSE accumulator
    BY DEF Consume
  <1> HIDE DEF e
  <1>3. Conserved'
    <2>1. PICK rest \in Seq(Event) :
            /\ emitted = EventsOf(frames) \o rest
            /\ \/ driver # "ended" /\ queue = rest
               \/ driver = "ended" /\ queue = Append(rest, END) /\ pc \in {"iterating", "closed"}
      BY <1>1 DEF DInv, Conserved
    <2>2. rest # <<>> /\ e = Head(rest)
      <3>1. CASE queue = rest
        BY <1>1, <3>1 DEF e
      <3>2. CASE queue = Append(rest, END)
        <4>1. rest # <<>>
          BY <1>1, <3>2 DEF e
        <4> QED BY <3>2, <4>1 DEF e
      <3> QED BY <2>1, <3>1, <3>2
    <2>3. Tail(rest) \in Seq(Event) /\ Tail(Append(rest, END)) = Append(Tail(rest), END)
      BY <2>2
    <2>4. Append(EventsOf(frames), e) \o Tail(rest) = EventsOf(frames) \o rest
      BY <1>1, <2>2, EventsOfType
    <2>5. emitted' = EventsOf(frames') \o Tail(rest)
      BY <1>1, <1>2, <2>1, <2>4, SendEvent
    <2> QED BY <1>1, <1>2, <2>1, <2>3, <2>5 DEF Conserved
  <1>4. "answer" \notin stored /\ ~HasFrame("done") /\ ~HasFrame("done")'
    BY <1>1, <1>2, SendEvent DEF DInv, DeliveredBy, RowsFollow, FrameTypes
  <1>5. accumulator' = TokensOf(frames')
    BY <1>1, <1>2, SendEvent DEF DInv
  <1> QED BY <1>2, <1>3, <1>4, <1>5 DEF DInv, DeliveredBy

\* The sentinel comes out of the queue when everything else has.
LEMMA ConsumeEndDelivers ==
  ASSUME SInv, DInv, ConsumeEnd
  PROVE  DInv'
  <1> USE DEF SInv, produce, rows
  <1>1. /\ UNCHANGED <<driver, outcome, emitted, frames, accumulator, stored, answer>>
        /\ pc = "iterating" /\ pc' = "joining" /\ queue # <<>> /\ Head(queue) = END /\ queue' = Tail(queue)
    BY DEF ConsumeEnd
  <1>2. PICK rest \in Seq(Event) :
          /\ emitted = EventsOf(frames) \o rest
          /\ \/ driver # "ended" /\ queue = rest
             \/ driver = "ended" /\ queue = Append(rest, END)
    BY <1>1 DEF DInv, Conserved
  <1>3. rest = <<>> /\ driver = "ended" /\ queue = Append(rest, END)
    <2>1. rest # <<>> => Head(rest) \in Event /\ Head(Append(rest, END)) = Head(rest)
      OBVIOUS
    <2>2. rest = <<>>
      BY <1>1, <1>2, <2>1, EndIsNoEvent
    <2> QED BY <1>1, <1>2, <2>2
  <1>4. Tail(queue) = <<>> /\ EventsOf(frames) = emitted
    BY <1>2, <1>3, EventsOfType
  <1>5. Conserved' /\ Delivered'
    BY <1>1, <1>2, <1>3, <1>4 DEF Conserved, Delivered
  <1> QED BY <1>1, <1>5 DEF DInv, DeliveredBy, HasFrame, RowsFollow

\* A step of the generators that neither takes from the queue nor passes an event on.
Quiet ==
    /\ UNCHANGED <<emitted, queue, accumulator>>
    /\ \/ driver' = driver
       \/ driver = "none" /\ driver' = "running"
    /\ EventsOf(frames') = EventsOf(frames) /\ TokensOf(frames') = TokensOf(frames)
    /\ pc' \in {"iterating", "joining", "finished", "committed"} => driver' # "none"
    /\ \/ pc' = "closed"
       \/ driver # "ended" /\ pc' \notin {"joining", "finished", "committed"}
       \/ pc \in {"joining", "finished", "committed"} /\ pc' \in {"finished", "committed"}
    /\ pc' \in {"asked", "preparing", "iterating", "joining"} => ~HasFrame("done")'
    /\ HasFrame("done")' => HasFrame("done") \/ pc = "joining"
    /\ "answer" \in stored' => \/ "answer" \in stored /\ answer' = answer
                               \/ pc = "finished" /\ answer' = accumulator

LEMMA QuietDelivers ==
  ASSUME SInv, DInv, Quiet
  PROVE  DInv'
  <1> USE DEF Quiet
  <1>1. Conserved'
    <2>1. PICK rest \in Seq(Event) :
            /\ emitted = EventsOf(frames) \o rest
            /\ \/ driver # "ended" /\ queue = rest
               \/ driver = "ended" /\ queue = Append(rest, END) /\ pc \in {"iterating", "closed"}
               \/ driver = "ended" /\ queue = <<>> /\ rest = <<>>
                     /\ pc \in {"joining", "finished", "committed", "closed"}
      BY DEF DInv, Conserved
    <2>2. emitted' = EventsOf(frames') \o rest
      BY <2>1
    <2> QED BY <2>1, <2>2 DEF Conserved
  <1>2. Delivered => Delivered'
    BY DEF Delivered
  <1>3. pc' \in {"joining", "finished", "committed"} => Delivered'
    BY <1>2 DEF DInv, DeliveredBy, Delivered
  <1>4. (HasFrame("done")' => Delivered') /\ ("answer" \in stored' => Delivered' /\ answer' = accumulator')
    BY <1>2 DEF DInv, DeliveredBy
  <1> QED BY <1>1, <1>3, <1>4 DEF DInv, DeliveredBy

\* An exception that leaves the generators.
LEMMA RaiseDelivers ==
  ASSUME SInv, DInv, Raise, UNCHANGED <<transport, tools, produce, queue, client, accumulator, toolLog, rows>>
  PROVE  DInv'
  <1>1. frames \in Seq(FrameSet) /\ "error" \in FrameTypes /\ TypeOK
    BY DEF SInv, TypeOK, FrameSet, FrameTypes
  <1>2. EventsOf(frames') = EventsOf(frames) /\ TokensOf(frames') = TokensOf(frames)
        /\ (HasFrame("done")' => HasFrame("done"))
    <2>1. CASE Send(<<Frame("error")>>)
      BY <1>1, <2>1, SendFrame
    <2>2. CASE Send(<<>>)
      <3>1. frames' = frames
        BY <1>1, <2>2 DEF Send
      <3> QED BY <3>1 DEF HasFrame
    <2> QED BY <2>1, <2>2 DEF Raise
  <1>3. Quiet
    BY <1>2 DEF Quiet, Raise, produce, rows
  <1> QED BY <1>3, QuietDelivers

LEMMA GeneratorDelivers ==
  ASSUME SInv, DInv, Generator
  PROVE  DInv'
  <1> USE DEF produce, rows
  <1>1. frames \in Seq(FrameSet) /\ {"user_message", "citations", "done", "assistant_message"} \subseteq FrameTypes
        /\ TypeOK
    BY DEF SInv, TypeOK, FrameSet, FrameTypes
  <1>2. CASE SaveQuestion
    <2>1. driver = "none" /\ ~HasFrame("done")
      BY <1>2 DEF SaveQuestion, SInv, DriverFollows, DInv, DeliveredBy
    <2>2. EventsOf(frames') = EventsOf(frames) /\ TokensOf(frames') = TokensOf(frames) /\ ~HasFrame("done")'
      BY <1>1, <1>2, <2>1, SendFrame DEF SaveQuestion
    <2>3. Quiet
      BY <1>2, <2>1, <2>2 DEF Quiet, SaveQuestion
    <2> QED BY <2>3, QuietDelivers
  <1>3. CASE StartDriver
    <2>1. driver = "none" /\ ~HasFrame("done")
      BY <1>3 DEF StartDriver, SInv, DriverFollows, DInv, DeliveredBy
    <2>2. EventsOf(frames') = EventsOf(frames) /\ TokensOf(frames') = TokensOf(frames) /\ ~HasFrame("done")'
      <3>1. CASE Send(<<>>)
        <4>1. frames' = frames
          BY <1>1, <3>1 DEF Send
        <4> QED BY <2>1, <4>1 DEF HasFrame
      <3>2. CASE Send(<<Frame("citations")>>)
        BY <1>1, <2>1, <3>2, SendFrame
      <3> QED BY <1>3, <3>1, <3>2 DEF StartDriver
    <2>3. Quiet
      BY <1>3, <2>1, <2>2 DEF Quiet, StartDriver
    <2> QED BY <2>3, QuietDelivers
  <1>4. CASE Join /\ outcome = "ok"
    <2>1. EventsOf(frames') = EventsOf(frames) /\ TokensOf(frames') = TokensOf(frames)
      BY <1>1, <1>4, SendFrame DEF Join
    <2>2. Quiet
      BY <1>4, <2>1 DEF Quiet, Join
    <2> QED BY <2>2, QuietDelivers
  <1>5. CASE Join /\ outcome # "ok"
    BY <1>5, RaiseDelivers DEF Join
  <1>6. CASE CommitAnswer
    <2>1. driver = "ended"
      BY <1>6 DEF CommitAnswer, SInv, DriverFollows
    <2>2. frames' = frames /\ (HasFrame("done")' => HasFrame("done"))
      BY <1>6 DEF CommitAnswer, HasFrame
    <2>3. Quiet
      BY <1>6, <2>1, <2>2 DEF Quiet, CommitAnswer
    <2> QED BY <2>3, QuietDelivers
  <1>7. CASE Announce
    <2>1. EventsOf(frames') = EventsOf(frames) /\ TokensOf(frames') = TokensOf(frames)
          /\ (HasFrame("done")' => HasFrame("done"))
      BY <1>1, <1>7, SendFrame DEF Announce
    <2>2. Quiet
      BY <1>7, <2>1 DEF Quiet, Announce
    <2> QED BY <2>2, QuietDelivers
  <1> QED BY <1>2, <1>3, <1>4, <1>5, <1>6, <1>7, ConsumeDelivers, ConsumeEndDelivers DEF Generator

LEMMA DeliveryStep == SInv /\ DInv /\ [Next]_vars => DInv'
  <1> SUFFICES ASSUME SInv, DInv, [Next]_vars PROVE DInv'
    OBVIOUS
  <1>1. CASE Fail
    BY <1>1, RaiseDelivers DEF Fail
  <1>2. CASE Disconnect
    <2>1. frames' = frames /\ (HasFrame("done")' => HasFrame("done"))
      BY <1>2 DEF Disconnect, HasFrame
    <2>2. Quiet
      BY <1>2, <2>1 DEF Quiet, Disconnect, produce, rows
    <2> QED BY <2>2, QuietDelivers
  <1>3. CASE UNCHANGED vars
    BY <1>3 DEF vars, produce, rows, DInv, Conserved, DeliveredBy, Delivered, HasFrame
  <1> QED BY <1>1, <1>2, <1>3, DriverDelivers, GeneratorDelivers DEF Next

-----------------------------------------------------------------------------
\* The inductive invariant: where the driver task is and what is committed when the
\* generators are where they are (orchestrator.py:167-180, chat_service.py:189-251).
THEOREM TurnInvariant == Spec => []SInv
  BY TurnInit, TurnStep, PTL DEF Spec

\* Types of the driver, the queue, the generators, the rows and the frames.
THEOREM TurnTypeCorrect == Spec => []TypeOK
  <1>1. SInv => TypeOK
    BY DEF SInv
  <1> QED BY <1>1, TurnInvariant, PTL

\* However driver and generators interleave, the partial text of a run that failed is
\* never stored as an answer (the await of the driver, orchestrator.py:180).
THEOREM FailureIsNotAnAnswerHolds == Spec => []FailureIsNotAnAnswer
  <1>1. SInv => FailureIsNotAnAnswer
    BY DEF SInv, RowsFollow, FailureIsNotAnAnswer
  <1> QED BY <1>1, TurnInvariant, PTL

\* A message the client was told of is committed, whatever happens to the turn after
\* (chat_service.py:189).
THEOREM AnnouncedIsStoredHolds == Spec => []AnnouncedIsStored
  <1>1. SInv => AnnouncedIsStored
    BY DEF SInv
  <1> QED BY <1>1, TurnInvariant, PTL

\* Between the driver and the client no event is lost, repeated or moved
\* (callbacks.py:70-91, orchestrator.py:167-178).
THEOREM DeliveryInvariant == Spec => [](SInv /\ DInv)
  <1>1. Init => SInv /\ DInv
    BY TurnInit, DeliveryInit
  <1>2. SInv /\ DInv /\ [Next]_vars => (SInv /\ DInv)'
    BY TurnStep, DeliveryStep
  <1> QED BY <1>1, <1>2, PTL DEF Spec

\* The client of a turn that closed normally has seen every event of the run, in order.
THEOREM EveryEventDeliveredHolds == Spec => []EveryEventDelivered
  <1>1. SInv /\ DInv => EveryEventDelivered
    BY DEF DInv, DeliveredBy, Delivered, EveryEventDelivered
  <1> QED BY <1>1, DeliveryInvariant, PTL

\* The stored answer is the text the model produced, which is the text the client was
\* shown: each token once, in order (orchestrator.py:172-175, chat_service.py:237-251).
THEOREM TextIsWhatWasStreamedHolds == Spec => []TextIsWhatWasStreamed
  <1>1. SInv /\ DInv => TextIsWhatWasStreamed
    <2> SUFFICES ASSUME SInv, DInv, "answer" \in stored
                 PROVE  answer = TokensOf(emitted) /\ answer = TokensOf(frames)
      BY DEF TextIsWhatWasStreamed
    <2>1. answer = TokensOf(frames) /\ EventsOf(frames) = emitted
      BY DEF DInv, DeliveredBy, Delivered
    <2>2. frames \in Seq(FrameSet) /\ {"token"} \subseteq EventTypes
      BY DEF SInv, TypeOK, FrameSet, EventTypes
    <2>3. TokensOf(EventsOf(frames)) = TokensOf(frames)
      BY <2>2, SelectTwice DEF TokensOf, EventsOf
    <2> QED BY <2>1, <2>3
  <1> QED BY <1>1, DeliveryInvariant, PTL

\* Neither a failure nor a disconnect makes a client skip an event: the events it has
\* not seen are the last ones of the run (callbacks.py:70-91).
THEOREM SeenIsAPrefixHolds == Spec => []SeenIsAPrefix
  <1>1. DInv => SeenIsAPrefix
    BY DEF DInv, Conserved, SeenIsAPrefix
  <1> QED BY <1>1, DeliveryInvariant, PTL

\* The consumer never waits for a driver that is gone, because the sentinel is put in a
\* finally block (orchestrator.py:162-164).
THEOREM NobodyWaitsForEverHolds == Spec => []NobodyWaitsForEver
  <1>1. SInv /\ DInv => NobodyWaitsForEver
    <2> SUFFICES ASSUME SInv, DInv PROVE NobodyWaitsForEver
      OBVIOUS
    <2>1. ASSUME pc = "iterating", queue = <<>> PROVE driver # "ended"
      <3>1. \A rest \in Seq(Event) : Append(rest, END) # <<>>
        <4> SUFFICES ASSUME NEW rest \in Seq(Event) PROVE Append(rest, END) # <<>>
          OBVIOUS
        <4>1. Len(Append(rest, END)) = Len(rest) + 1 /\ Len(rest) \in Nat
          OBVIOUS
        <4> QED BY <4>1
      <3> QED BY <2>1, <3>1 DEF DInv, Conserved
    <2>2. driver \in {"none", "running", "finalizing", "ended"}
      BY DEF SInv, TypeOK
    <2> QED BY <2>1, <2>2 DEF DInv, DeliveredBy, Delivered, NobodyWaitsForEver
  <1> QED BY <1>1, DeliveryInvariant, PTL
=============================================================================
