----------------------------- MODULE StreamTurn -----------------------------
(***************************************************************************)
(* One streamed turn, from the request to the last frame: the generator    *)
(* stream_message (services/chat_service.py), the orchestrator generator   *)
(* it iterates (ai/orchestrator.py), the driver task that runs the model   *)
(* or the tool agent, and the callback queue between the two               *)
(* (ai/callbacks.py), served over SSE (endpoints/chat.py) or over a        *)
(* WebSocket (endpoints/ws.py).                                            *)
(*                                                                         *)
(* The driver and the generators are coroutines of one event loop; they    *)
(* interleave at every await, here at every action.                        *)
(***************************************************************************)
EXTENDS Naturals, Sequences

CONSTANTS
    MaxEvents,   \* bound on the callbacks of one run of the model
    ToolNames    \* names of the registered tools

ASSUME MaxEventsAssumption == MaxEvents \in Nat

VARIABLES
    transport,  \* "sse" or "ws"
    tools,      \* use_tools: the driver runs the agent instead of the chain
    driver,     \* "none", "running", "finalizing", "ended"
    outcome,    \* how the run of the model ended: "open", "ok", "error"
    emitted,    \* events the driver's callbacks produced, in order
    queue,      \* the collector's asyncio.Queue, END is the None sentinel
    sawToken,   \* collector.saw_token
    running,    \* the tool the agent is executing, or NoTool
    pc,         \* where the generators are
    client,     \* "connected" or "gone"
    accumulator,\* tokens the orchestrator collected for the `done` frame
    toolLog,    \* tool_calls_payload of stream_message
    stored,     \* rows committed for this turn: a subset of {"question", "answer"}
    answer,     \* text of the committed assistant message
    audit,      \* tool names of the committed tool_calls rows
    frames      \* frames sent to the client, in order

produce == <<driver, outcome, emitted, sawToken, running>>
rows == <<stored, answer, audit>>
vars == <<transport, tools, produce, queue, pc, client, accumulator, toolLog, rows, frames>>

NoTool == "no tool"
END == [type |-> "END"]

Token(n) == [type |-> "token", data |-> n]
ToolStart(t) == [type |-> "tool_call", phase |-> "start", tool |-> t]
\* on_tool_end and on_tool_error put a run id but neither the tool nor its input.
ToolEnd == [type |-> "tool_call", phase |-> "end", tool |-> NoTool]
ToolError == [type |-> "tool_call", phase |-> "error", tool |-> NoTool]
Usage == [type |-> "usage"]
Frame(t) == [type |-> t]

\* The elements of s that have one of these types, in order.  (SelectSeq, written as
\* a recursive function: SelectSeq itself is opaque to a proof.)
Select(s, types) ==
    LET f[i \in 0..Len(s)] ==
          IF i = 0 THEN <<>>
          ELSE IF s[i].type \in types THEN Append(f[i - 1], s[i]) ELSE f[i - 1]
    IN  f[Len(s)]

EventTypes == {"token", "tool_call", "usage"}
TokensOf(s) == Select(s, {"token"})
EventsOf(s) == Select(s, EventTypes)
Step == {"asked", "preparing", "iterating", "joining", "finished", "committed", "closed"}

Init ==
    /\ transport \in {"sse", "ws"}
    /\ tools \in BOOLEAN
    /\ driver = "none"
    /\ outcome = "open"
    /\ emitted = <<>>
    /\ queue = <<>>
    /\ sawToken = FALSE
    /\ running = NoTool
    /\ pc = "asked"
    /\ client = "connected"
    /\ accumulator = <<>>
    /\ toolLog = <<>>
    /\ stored = {}
    /\ answer = <<>>
    /\ audit = <<>>
    /\ frames = <<>>

-----------------------------------------------------------------------------
(* The driver task. *)

Emit(e) ==
    /\ emitted' = Append(emitted, e)
    /\ queue' = Append(queue, e)

Callback ==
    /\ driver = "running"
    /\ outcome = "open"
    /\ Len(emitted) < MaxEvents

Idle == UNCHANGED <<transport, tools, pc, client, accumulator, toolLog, rows, frames>>

\* Mutant of OnToken: the driver accumulates the chunks it streams as well.
OnTokenTwice ==
    /\ Callback
    /\ running = NoTool
    /\ Emit(Token(Len(emitted) + 1))
    /\ sawToken' = TRUE
    /\ accumulator' = Append(accumulator, Token(Len(emitted) + 1))
    /\ UNCHANGED <<driver, outcome, running, transport, tools, pc, client, toolLog, rows, frames>>

OnToken ==
    /\ Callback
    /\ running = NoTool
    /\ Emit(Token(Len(emitted) + 1))
    /\ sawToken' = TRUE
    /\ UNCHANGED <<driver, outcome, running>> /\ Idle

OnLlmEnd ==
    /\ Callback
    /\ running = NoTool
    /\ Emit(Usage)
    /\ UNCHANGED <<driver, outcome, sawToken, running>> /\ Idle

OnToolStart ==
    /\ Callback
    /\ tools
    /\ running = NoTool
    /\ \E t \in ToolNames : Emit(ToolStart(t)) /\ running' = t
    /\ UNCHANGED <<driver, outcome, sawToken>> /\ Idle

OnToolEnd ==
    /\ Callback
    /\ running # NoTool
    /\ Emit(ToolEnd)
    /\ running' = NoTool
    /\ UNCHANGED <<driver, outcome, sawToken>> /\ Idle

\* A tool raises: the agent does not handle it, so the run fails with it.
OnToolError ==
    /\ Callback
    /\ running # NoTool
    /\ Emit(ToolError)
    /\ running' = NoTool
    /\ outcome' = "error"
    /\ driver' = "finalizing"
    /\ UNCHANGED sawToken /\ Idle

\* The run succeeded.  The output of an agent that streamed no token is put as
\* one token, unless it is empty.
RunSucceeds ==
    /\ driver = "running"
    /\ running = NoTool
    /\ \/ tools /\ ~sawToken /\ Emit(Token(Len(emitted) + 1))
       \/ UNCHANGED <<emitted, queue>>
    /\ outcome' = "ok"
    /\ driver' = "finalizing"
    /\ UNCHANGED <<sawToken, running>> /\ Idle

RunFails ==
    /\ driver = "running"
    /\ outcome' = "error"
    /\ driver' = "finalizing"
    /\ UNCHANGED <<emitted, queue, sawToken, running>> /\ Idle

\* Mutants of Finalize: it empties the queue first; it is not in a finally block.
FinalizeAndClear ==
    /\ driver = "finalizing"
    /\ queue' = <<END>>
    /\ driver' = "ended"
    /\ UNCHANGED <<outcome, emitted, sawToken, running>> /\ Idle

FinalizeOnSuccess ==
    /\ driver = "finalizing"
    /\ queue' = IF outcome = "ok" THEN Append(queue, END) ELSE queue
    /\ driver' = "ended"
    /\ UNCHANGED <<outcome, emitted, sawToken, running>> /\ Idle

\* finally: collector.finalize()
Finalize ==
    /\ driver = "finalizing"
    /\ queue' = Append(queue, END)
    /\ driver' = "ended"
    /\ UNCHANGED <<outcome, emitted, sawToken, running>> /\ Idle

-----------------------------------------------------------------------------
(* The generators: stream_message around stream around the queue. *)

Send(s) == frames' = frames \o s

\* The user message is committed, then announced.
SaveQuestion ==
    /\ pc = "asked"
    /\ stored' = stored \cup {"question"}
    /\ Send(<<Frame("user_message")>>)
    /\ pc' = "preparing"
    /\ UNCHANGED <<transport, tools, produce, queue, client, accumulator, toolLog, answer, audit>>

\* History, summary and citations are loaded; then the driver task is created.
StartDriver ==
    /\ pc = "preparing"
    /\ \E citations \in {<<>>, <<Frame("citations")>>} : Send(citations)
    /\ driver' = "running"
    /\ pc' = "iterating"
    /\ UNCHANGED <<transport, tools, outcome, emitted, sawToken, running, queue, client,
                   accumulator, toolLog, rows>>

\* Mutant of Consume: the type of the event goes into the tool log.
ConsumeType ==
    /\ pc = "iterating"
    /\ queue # <<>>
    /\ Head(queue) # END
    /\ LET e == Head(queue) IN
         /\ accumulator' = IF e.type = "token" THEN Append(accumulator, e) ELSE accumulator
         /\ toolLog' = IF e.type = "tool_call" THEN Append(toolLog, e.type) ELSE toolLog
         /\ Send(<<e>>)
    /\ queue' = Tail(queue)
    /\ UNCHANGED <<transport, tools, produce, pc, client, rows>>

\* The next event of the queue is accumulated, logged and passed on.
Consume ==
    /\ pc = "iterating"
    /\ queue # <<>>
    /\ Head(queue) # END
    /\ LET e == Head(queue) IN
         /\ accumulator' = IF e.type = "token" THEN Append(accumulator, e) ELSE accumulator
         /\ toolLog' = IF e.type = "tool_call" /\ e.phase = "end" THEN Append(toolLog, e.tool)
                                                                 ELSE toolLog
         /\ Send(<<e>>)
    /\ queue' = Tail(queue)
    /\ UNCHANGED <<transport, tools, produce, pc, client, rows>>

\* The sentinel ends collector.aiter().
ConsumeEnd ==
    /\ pc = "iterating"
    /\ queue # <<>>
    /\ Head(queue) = END
    /\ queue' = Tail(queue)
    /\ pc' = "joining"
    /\ UNCHANGED <<transport, tools, produce, client, accumulator, toolLog, rows, frames>>

\* An exception leaves the generators: the WebSocket loop reports it in an error
\* frame, an SSE response just ends.
Raise ==
    /\ pc' = "closed"
    /\ Send(IF transport = "ws" THEN <<Frame("error")>> ELSE <<>>)

\* Mutant of Join: the driver is not awaited, so its exception is lost.
JoinBlindly ==
    /\ pc = "joining"
    /\ Send(<<Frame("done")>>)
    /\ pc' = "finished"
    /\ UNCHANGED <<transport, tools, produce, queue, client, accumulator, toolLog, rows>>

\* await driver: the driver's exception is raised here, outside the try.
Join ==
    /\ pc = "joining"
    /\ driver = "ended"
    /\ IF outcome = "ok"
         THEN Send(<<Frame("done")>>) /\ pc' = "finished"
         ELSE Raise
    /\ UNCHANGED <<transport, tools, produce, queue, client, accumulator, toolLog, rows>>

\* Mutant of CommitAnswer: the rows are flushed and never committed.
FlushAnswer ==
    /\ pc = "finished"
    /\ pc' = "committed"
    /\ UNCHANGED <<transport, tools, produce, queue, client, accumulator, toolLog, rows, frames>>

\* Assistant message, tool_calls rows and usage in one commit.
CommitAnswer ==
    /\ pc = "finished"
    /\ stored' = stored \cup {"answer"}
    /\ answer' = accumulator
    /\ audit' = toolLog
    /\ pc' = "committed"
    /\ UNCHANGED <<transport, tools, produce, queue, client, accumulator, toolLog, frames>>

Announce ==
    /\ pc = "committed"
    /\ Send(<<Frame("assistant_message")>>)
    /\ pc' = "closed"
    /\ UNCHANGED <<transport, tools, produce, queue, client, accumulator, toolLog, rows>>

\* get_session, the database or the retrieval fails; nothing of the open transaction
\* is ever committed.
Fail ==
    /\ pc \in {"asked", "preparing", "finished"}
    /\ Raise
    /\ UNCHANGED <<transport, tools, produce, queue, client, accumulator, toolLog, rows>>

\* The client disconnects: the generators are cancelled or dropped where they
\* wait.  Nothing cancels the driver task, which runs on into the queue.
Disconnect ==
    /\ pc # "closed"
    /\ client' = "gone"
    /\ pc' = "closed"
    /\ UNCHANGED <<transport, tools, produce, queue, accumulator, toolLog, rows, frames>>

-----------------------------------------------------------------------------
ToolStep == OnToolStart \/ OnToolEnd \/ OnToolError
Driver == OnToken \/ OnLlmEnd \/ ToolStep \/ RunSucceeds \/ RunFails \/ Finalize
Generator == SaveQuestion \/ StartDriver \/ Consume \/ ConsumeEnd \/ Join \/ CommitAnswer \/ Announce

Next == Driver \/ Generator \/ Fail \/ Disconnect

Spec == Init /\ [][Next]_vars

\* The event loop runs both coroutines, and a tool or a model call that was
\* started comes back (the provider client and the tools have timeouts).
FairSpec ==
    /\ Spec
    /\ WF_vars(Generator)
    /\ WF_vars(Finalize)
    /\ WF_vars(RunSucceeds \/ RunFails)

-----------------------------------------------------------------------------
HasFrame(t) == \E i \in 1..Len(frames) : frames[i].type = t
Event == {Token(n) : n \in 1..MaxEvents + 1} \cup {ToolStart(t) : t \in ToolNames}
             \cup {ToolEnd, ToolError, Usage}
FrameTypes == {"user_message", "citations", "done", "assistant_message", "error"}

TypeOK ==
    /\ transport \in {"sse", "ws"}
    /\ tools \in BOOLEAN
    /\ driver \in {"none", "running", "finalizing", "ended"}
    /\ outcome \in {"open", "ok", "error"}
    /\ emitted \in Seq(Event)
    /\ queue \in Seq(Event \cup {END})
    /\ sawToken \in BOOLEAN
    /\ running \in ToolNames \cup {NoTool}
    /\ pc \in Step
    /\ client \in {"connected", "gone"}
    /\ accumulator \in Seq(Event)
    /\ toolLog \in Seq(ToolNames \cup {NoTool})
    /\ stored \subseteq {"question", "answer"}
    /\ answer \in Seq(Event)
    /\ audit \in Seq(ToolNames \cup {NoTool})
    /\ frames \in Seq(Event \cup {Frame(t) : t \in FrameTypes})

\* The stored answer is exactly the text the model produced and the client was
\* shown: each token once, in order.
TextIsWhatWasStreamed ==
    "answer" \in stored => answer = TokensOf(emitted) /\ answer = TokensOf(frames)

\* The partial text of a model run that failed is never stored as an answer.
FailureIsNotAnAnswer == "answer" \in stored => outcome = "ok"

\* A message the client was told about is committed: it survives whatever
\* happens to the turn afterwards.
AnnouncedIsStored ==
    /\ HasFrame("user_message") => "question" \in stored
    /\ HasFrame("assistant_message") => "answer" \in stored

\* The client of a turn that closed normally has seen every event of the run.
EveryEventDelivered == HasFrame("done") => EventsOf(frames) = emitted

\* A stream does not hang: once the question is stored, it ends.
EveryStreamCloses == pc = "preparing" ~> pc = "closed"

\* models/tool_call.py: an "audit log of every LangChain tool invocation": the
\* tools that ran in a stored turn are the tools its rows name.
EveryToolCallIsAudited ==
    "answer" \in stored =>
        audit = LET starts == SelectSeq(emitted, LAMBDA e : e.type = "tool_call" /\ e.phase = "start")
                IN  [i \in 1..Len(starts) |-> starts[i].tool]
=============================================================================
