----------------------------- MODULE ChatScreen -----------------------------
(***************************************************************************)
(* The Flutter chat screen (features/chat/chat_controller.dart and         *)
(* chat_repository.dart) around one turn streamed by StreamTurn: the       *)
(* messages it shows before the server has them, the frames that turn them *)
(* into the server's, the history that was asked for when the screen was   *)
(* opened and arrives whenever it does, and the stop button.               *)
(***************************************************************************)
EXTENDS StreamTurn, FiniteSets

VARIABLES
    earlier,     \* the session has a turn before this one
    messages,    \* ChatState.messages
    sending,     \* ChatState.sending
    loading,     \* _load(): where it is, and what it found when it arrived
    snapshot,    \* the rows of this turn in the history under way
    connection,  \* the subscription to the stream
    seen         \* frames of the turn the screen has handled

screen == <<earlier, messages, sending, loading, snapshot, connection, seen>>
everything == <<vars, screen>>

Message(role, id, text, streaming) ==
    [role |-> role, id |-> id, text |-> text, streaming |-> streaming]

Pending == Message("user", "pending", <<>>, FALSE)
Placeholder == Message("assistant", "placeholder", <<>>, TRUE)
Question == Message("user", "question", <<>>, FALSE)
Answer(text) == Message("assistant", "answer", text, FALSE)

Earlier ==
    IF earlier
      THEN <<Message("user", "earlier", <<>>, FALSE), Message("assistant", "earlier", <<>>, FALSE)>>
      ELSE <<>>

\* What list_history returns of the session, given the rows of this turn it has.
History(rowsRead) ==
    Earlier \o (IF "question" \in rowsRead THEN <<Question>> ELSE <<>>)
            \o (IF "answer" \in rowsRead THEN <<Answer(answer)>> ELSE <<>>)

ScreenInit ==
    /\ Init
    /\ earlier \in BOOLEAN
    /\ messages = <<>>
    /\ sending = FALSE
    /\ loading = "asked"
    /\ snapshot = {}
    /\ connection = "none"
    /\ seen = 0

-----------------------------------------------------------------------------
(* The two ways a frame changes the list. *)

Indices(test(_)) == {i \in DOMAIN messages : test(messages[i])}

\* Mutant of LastAssistant: the search runs upwards.
FirstAssistant ==
    LET found == Indices(LAMBDA m : m.role = "assistant")
    IN  {i \in found : \A j \in found : i <= j}

\* _replaceLastAssistant's search: the index it finds, if there is one.
LastAssistant ==
    LET found == Indices(LAMBDA m : m.role = "assistant")
    IN  {i \in found : \A j \in found : j <= i}

FirstPending ==
    LET found == Indices(LAMBDA m : m.id = "pending")
    IN  {i \in found : \A j \in found : i <= j}

Update(places, change(_)) ==
    messages' = [i \in DOMAIN messages |-> IF i \in places THEN change(messages[i]) ELSE messages[i]]

-----------------------------------------------------------------------------
\* GET /messages is answered from what is committed when the server reads it.
ReadHistory ==
    /\ loading = "asked"
    /\ loading' = "read"
    /\ snapshot' = stored
    /\ UNCHANGED <<vars, earlier, messages, sending, connection, seen>>

\* What the arriving history has of the turn: it is in time, it has the whole turn
\* already, the turn will send nothing more, or frames of the turn are still to come.
Arrival ==
    IF connection = "none" THEN "shown"
    ELSE IF "answer" \in snapshot THEN "whole"
    ELSE IF connection = "over" THEN "stale" ELSE "late"

\* The answer replaces whatever the screen shows.  A load that fails leaves the
\* messages alone, like one that takes for ever.
ShowHistory ==
    /\ loading = "read"
    /\ messages' = History(snapshot)
    /\ loading' = Arrival
    /\ snapshot' = {}
    /\ UNCHANGED <<vars, earlier, sending, connection, seen>>

\* send(): the question and a placeholder are shown at once; then the repository is
\* awaited.
SendMessage ==
    /\ connection = "none"
    /\ ~sending
    /\ messages' = messages \o <<Pending, Placeholder>>
    /\ sending' = TRUE
    /\ connection' = "starting"
    /\ UNCHANGED <<vars, earlier, loading, snapshot, seen>>

Listen ==
    /\ connection = "starting"
    /\ connection' = "open"
    /\ UNCHANGED <<vars, earlier, messages, sending, loading, snapshot, seen>>

-----------------------------------------------------------------------------
(* The listener, one action for each kind of frame. *)

Shows(types) ==
    /\ connection = "open"
    /\ seen < Len(frames)
    /\ frames[seen + 1].type \in types
    /\ seen' = seen + 1
    /\ UNCHANGED <<vars, earlier, loading, snapshot>>

\* The buffer of the listener: every token so far.
Buffer == TokensOf(SubSeq(frames, 1, seen + 1))

ShowToken ==
    /\ Shows({"token"})
    /\ Update(LastAssistant, LAMBDA m : Message(m.role, m.id, Buffer, TRUE))
    /\ UNCHANGED <<sending, connection>>

ShowQuestion ==
    /\ Shows({"user_message"})
    /\ Update(FirstPending, LAMBDA m : Question)
    /\ UNCHANGED <<sending, connection>>

\* Citations and tool calls decorate the last answer, done and usage are ignored.
PassOver ==
    /\ Shows({"citations", "tool_call", "usage", "done"})
    /\ UNCHANGED <<messages, sending, connection>>

\* Mutant of ShowAnswer: the canonical message is added to the list.
AddAnswer ==
    /\ Shows({"assistant_message"})
    /\ messages' = Append(messages, Answer(answer))
    /\ sending' = FALSE
    /\ connection' = "over"

\* The canonical message takes the place of the streamed one; the repository closes
\* the stream.
ShowAnswer ==
    /\ Shows({"assistant_message"})
    /\ Update(LastAssistant, LAMBDA m : Answer(answer))
    /\ sending' = FALSE
    /\ connection' = "over"

Warn == Update(LastAssistant, LAMBDA m : Message(m.role, m.id, <<Frame("error")>>, FALSE))

ShowError ==
    /\ Shows({"error"})
    /\ Warn
    /\ sending' = FALSE
    /\ connection' = "over"

\* Mutant of StreamDone: onDone changes nothing.
StreamDoneSilently ==
    /\ connection = "open"
    /\ pc = "closed"
    /\ seen = Len(frames)
    /\ connection' = "over"
    /\ UNCHANGED <<vars, earlier, messages, sending, loading, snapshot, seen>>

\* onDone: the server closed the stream without a last word.
StreamDone ==
    /\ connection = "open"
    /\ pc = "closed"
    /\ seen = Len(frames)
    /\ connection' = "over"
    /\ sending' = FALSE
    /\ UNCHANGED <<vars, earlier, messages, loading, snapshot, seen>>

\* The connection breaks, with frames under way; the transport reports an error, or
\* just ends.
Break ==
    /\ connection = "open"
    /\ Disconnect
    /\ Warn \/ UNCHANGED messages
    /\ sending' = FALSE
    /\ connection' = "over"
    /\ UNCHANGED <<earlier, loading, snapshot, seen>>

\* The stop button cancels the subscription, if there is one yet.
Stop ==
    /\ sending
    /\ \/ connection = "starting" /\ UNCHANGED <<vars, connection>>
       \/ /\ connection = "open"
          /\ connection' = "over"
          /\ IF pc = "closed" THEN UNCHANGED vars ELSE Disconnect
    /\ Update(LastAssistant, LAMBDA m : [m EXCEPT !.streaming = FALSE])
    /\ sending' = FALSE
    /\ UNCHANGED <<earlier, loading, snapshot, seen>>

-----------------------------------------------------------------------------
Handle == ShowToken \/ ShowQuestion \/ PassOver \/ ShowAnswer \/ ShowError \/ StreamDone

Opened == connection \in {"open", "over"}
Served(A) == Opened /\ A /\ UNCHANGED screen

ScreenNext ==
    \/ ReadHistory \/ ShowHistory
    \/ SendMessage \/ Listen \/ Handle \/ Break \/ Stop
    \/ Served(Driver \/ Generator \/ Fail)

ScreenSpec == ScreenInit /\ [][ScreenNext]_everything

\* The server's fairness, and the event loop of the app.
ScreenFairness ==
    /\ WF_everything(Listen \/ Handle)
    /\ WF_everything(Served(Generator))
    /\ WF_everything(Served(Finalize))
    /\ WF_everything(Served(RunSucceeds \/ RunFails))

FairScreenSpec == ScreenSpec /\ ScreenFairness

-----------------------------------------------------------------------------
Shown == [role : {"user", "assistant"}, id : {"earlier", "pending", "placeholder", "question", "answer"},
          text : Seq(Event \cup {Frame("error")}), streaming : BOOLEAN]

ScreenTypeOK ==
    /\ TypeOK
    /\ earlier \in BOOLEAN
    /\ messages \in Seq(Shown)
    /\ sending \in BOOLEAN
    /\ loading \in {"asked", "read", "shown", "whole", "stale", "late"}
    /\ snapshot \subseteq {"question", "answer"}
    /\ connection \in {"none", "starting", "open", "over"}
    /\ seen \in 0..Len(frames)

Answered == seen > 0 /\ frames[seen].type = "assistant_message"

\* Once the answer has come, the screen shows what opening it again would load: the
\* rows of the server in their order, each once, nothing pending and no placeholder
\* left.  (Not before the history has arrived, and not if it was read before the
\* answer was stored and arrives after the user has sent: it then replaces the
\* messages of the turn, and nothing brings them back.)
ScreenIsHistory ==
    loading \in {"shown", "whole"} /\ Answered => messages = History(stored)

\* An answer of an earlier turn, once the history shows it, is not written over by
\* this turn, however it goes on, fails or is stopped: not if the history was there
\* when the user sent, nor if it arrives during the turn and has its answer, nor if
\* it arrives when the stream is over.  In the remaining case it is: a history that
\* arrives during the turn without its answer leaves no placeholder for the frames to
\* come, and they are written to the last answer there is (chat_controller.dart:59
\* and 183-192).
EarlierAnswersStay ==
    loading \in {"shown", "whole", "stale"} => SubSeq(messages, 1, Len(Earlier)) = Earlier

\* The composer does not stay locked: whoever sent can send again, also when the
\* server ends the stream without an answer and without an error.
ComposerComesBack == sending ~> ~sending
=============================================================================
