# NexusBot in TLA+

A verification development for the NexusBot backend (`src/app`): a FastAPI
service over PostgreSQL and Redis that keeps chat sessions, answers with a
language model (in one response, over SSE or over a WebSocket), indexes uploaded
documents in Celery workers, and is used by a Flutter client. The modules are
written from the source; `PROJECT.json` maps every definition to the lines it
models.

- [System and components](#system-and-components)
- [Modules](#modules)
- [Runs, bounds and what they show](#runs-bounds-and-what-they-show)
- [Where the code and its documents disagree](#where-the-code-and-its-documents-disagree)
- [Fairness](#fairness)
- [Proofs](#proofs)
- [Not modelled](#not-modelled)
- [Plan](#plan)

## System and components

| component | state | operations | hard behaviour | correct when |
|---|---|---|---|---|
| document ingestion (`services/document_service.py`, `workers/`, `ai/rag/pipeline.py`) | `documents`, `document_chunks`, the Celery queue | upload, deliver, ingest, retry, acknowledge, soft delete | late acknowledgement, redelivery, worker loss, one long transaction, delete during ingest | one complete chunk set exactly when READY, nothing searchable disappears, deleted stays hidden, every task settles |
| retrieval (`ai/rag/retriever.py`) | none | search READY, not deleted documents | reads what ingestion commits | sees whole chunk sets only |
| chat turns (`services/chat_service.py`) | `chat_messages` | blocking send, streamed send, regenerate, history | concurrent transactions, failure in the middle of a turn, `created_at` is the start of the transaction | no answer without question, no question lost, only a blocking turn's two rows tie, regenerate replaces |
| sessions (`services/session_service.py`) | `chat_sessions` | create, rename, delete, automatic title | title decided early and written late, row lock through a model call | the user's title stays, nobody waits for ever |
| orchestrator (`ai/orchestrator.py`, `ai/callbacks.py`) | driver task, queue, accumulator | callbacks, iterate, finalize, join | two coroutines, errors after the sentinel, disconnects | the stored text is the streamed text, a failure is no answer, every stream ends |
| WebSocket (`endpoints/ws.py`) | one database session a socket | authenticate, message, disconnect | a transaction open while the client is silent | releases what it holds |
| conversation memory (`ai/memory/`) | window of messages, `chat_sessions.summary` | load, compact | two turns compact at once; messages between window and summary | a summary tells only of messages that are there and left the window |
| rate limiter (`core/rate_limit.py`) | counters in Redis | name a bucket, INCR, EXPIRE | an await between clock and counter, expiry | at most the limit in a window |
| accounts and tokens (`services/auth_service.py`, `core/security.py`, `endpoints/auth.py`) | `users`; tokens are stateless | register, login, refresh, identify | two registrations of one email, tokens that expire, lost answers | one account an email, a good token is not refused |
| API keys (`services/auth_service.py`, `core/dependencies.py`) | API keys | create, authenticate, revoke | `last_used_at` is written in the call's transaction | a revocation is final |
| database sessions (`db/session.py`) | connection pool, transactions, row locks | check out, commit, roll back | a tool takes a second connection while its call holds one, a stream uses its session after `get_db` has ended | everything taken comes back, a failed stream's with the garbage collector |
| tools and agent (`ai/tools/`, `ai/agents/`) | none | calculator, web search, list sessions | run inside a stream | every invocation is audited |
| usage (`services/usage_service.py`) | `ai_usage_logs` | insert | | |
| Flutter client: authentication (`core/api_client.dart`, `core/secure_storage.dart`) | two stored tokens, a flag | refresh on 401 and repeat, login, logout | several 401s at once, tokens stored one by one, the app killed | one refresh at a time, every request ends, the server refuses no good token |
| Flutter client: chat (`features/chat/`) | shown messages, composer | load, optimistic send, frames, stop | answers that arrive after the state they belong to, a stream without a last word | shows what the server stores, the composer comes back |

Interaction: the endpoints call the services in one database session a request
(`get_db`), which rolls back on an exception and never commits by itself; the
services commit where they choose. A stream is different: FastAPI ends `get_db`
before the body of a `StreamingResponse` is sent (`RequestGate.Detach`), and the
generator goes on with the same session in transactions nobody manages. What such a
stream leaves open when it fails, or when its client leaves, stays open until the
session object is garbage-collected. `chat_service` calls the orchestrator, which
loads history and summary in the same session, runs the model, and in a stream
feeds a queue from callbacks. `upload_document` commits and then publishes a
task; the worker shares nothing with the API but the database, the broker and
the upload directory. The limiter shares Redis with the broker. The Flutter client
talks to the API only: its interceptor puts a stored token into every request and
answers a 401 by a refresh, and its chat screen reads the frames of the stream.

PostgreSQL runs at READ COMMITTED. All models use the same abstraction of it:
the variables are the *committed* tables; what an open transaction has flushed
is private state of its request or worker, and only its row locks are visible to
others. `created_at` is `now()`, which is the start of the transaction.

## Modules

`DocumentIndex` - the abstract specification: a document is uploaded once,
indexed in one indivisible step, deleted for good.

`DocumentIngest` - the upload handler (`SaveFile`, `CommitRow`, `Enqueue`), the
broker (`queue`), workers that run the task body (`Deliver`, `Fetch`,
`MarkProcessing`, `ClearChunks`, `CommitReady`, `Fail`, `Retry`, `GiveUp`,
`Ack`), the owner (`SoftDelete`) and the infrastructure (`LoseWorker`,
`Redeliver`, `AbandonUpload`). All chunk rows of one insert are one element of
`Generations`. `Fail` is the whole `except` path: FAILED is flushed, the
exception leaves `db_session`, and everything is rolled back. It implements
`DocumentIndex` with `copies` as the number of complete chunk sets.

`ChatTurns` - concurrent calls on one session. A call goes through the steps of
its handler (`Begin`, `Open`, then the steps of its kind, then its commit) and may
fail anywhere. For all kinds but one that is `Fail`, `get_db`'s rollback. A stream
that fails or loses its client does `Abandon`: what it flushed is never committed,
but the session's row, if it holds it, stays locked until `Collect`, the garbage
collector, which nothing makes run. Over a WebSocket the session is closed by the
endpoint, and an error of the database ends the transaction by itself; there
`Collect` follows at once, which the model allows. The row is taken by a generated
title (`MakeTitle`, then `SetTitle`, which waits for it) and by a new summary
(`Compact`, `SetSummary`). `StartTransaction` gives
`began[r]`, the `created_at` of everything the transaction inserts; a stream has
two transactions, a blocking turn one. Every start of a transaction gets a time of
its own, microseconds in the code, so that only rows of one transaction tie. A
message is the request that wrote it, its role, its time and the request it answers.

`ChatHistory` - extends `ChatTurns` with the two readers that see a part of the
history. A turn loads the summary (`OpenWithSummary`), later takes the rows that left
the window, its own uncommitted ones included (`CollectOverflow`), flushes the
new summary (`SaveSummary`, with the row lock of `ChatTurns.SetSummary`) and commits
it with its answer (`CommitWithSummary`). A summary is the set of messages it was
made from. A client pages backwards (`ReadPage`) while turns commit. Rows with
equal `created_at` come in any order, as in the queries.

`StreamTurn` - one streamed turn: the driver's callbacks put events, the
generators take them; `Join` is `await driver` after the sentinel; `Disconnect`
closes the generators and leaves the driver running.

`ChatScreen` - extends `StreamTurn` with the chat screen that reads its frames.
`SendMessage` shows the question and a placeholder before the server has either;
`ShowQuestion`, `ShowToken`, `ShowAnswer`, `ShowError`, `PassOver` are the listener,
one action for each kind of frame; `StreamDone` and `Break` are the two ways a
stream ends without a last word, `Stop` the button. The history asked for when the
screen opened is read by the server (`ReadHistory`) and shown (`ShowHistory`) at any
time; `Arrival` says what it found: no turn yet ("shown"), the whole turn ("whole"),
a turn that is over ("stale") or one that is under way and has no answer in it
("late"). A message is its role, whose it is (`id`), the tokens it shows and its
streaming flag. `Break` and `Stop` are `StreamTurn`'s `Disconnect`.

`Accounts` - the `/auth` endpoints. A call is handled in the steps its queries make
of it: `LookForEmail`, `InsertUser` (against the unique index, which waits for an
open insert of the same email), `CommitUser`; `CheckPassword`, `RecordLogin`,
`CommitLogin`; `Renew`; `Identify`. A token is its type, account and time of issue,
and the server judges it by these (`Accepts`). Calls crash and answers are lost.

`TokenRefresh` - extends `Accounts` with the app. A request makes up to three calls,
the original one, a refresh and the repetition (`Leg`), and its steps follow
`_tryRefreshAndRetry`: the flag, the read of the refresh token, the post, the two
writes, the repetition, and the `catch` with its two deletions. `Logout` and
`Restart` come at any point, also between two writes.

`RateLimiter` - the clock, the counters with their expiry, `Stamp` (the bucket
is named) and `Hit` (INCR and EXPIRE in one Redis transaction), with any time in
between.

`RequestGate` - extends `RateLimiter` and composes it with the pool and the key
row: a call arrives, is counted, authenticates (first connection), touches the
key (row lock), works, may take a second connection for a tool, and ends. It
shows what blocking calls, SSE calls, sockets and a revocation do to each other.
A stream ends its first transaction at `Detach` and works in one that `get_db` does
not watch over (`Reconnect`, `Streaming`). An error there leaves the session's
connection checked out (`Abort`), and a client that leaves (`HangUp`) leaves the
driver running, tools included, until it ends by itself (`EndRun`); `Collect` is the
garbage collector, which gives the connection back. A socket's session is closed by
the endpoint when its client leaves.

`MC*` modules hold the instances for TLC, `*Proofs` modules the theorems.
Definitions whose comment says "Mutant of X" (or "Mutants of X") are X with a plausible fault; no
specification uses them. Each one makes the property it is listed with fail, in
the same run and bounds: that is the evidence that the property can fail.

## Runs, bounds and what they show

| run | instance | states | shows |
|---|---|---|---|
| `ingest` | 1 document, 3 workers, 3 generations, 1 retry, 3 faults | 87 thousand | `OneGeneration`, `ReadyIffIndexed`, `NoStrandedDocument`, `StaysSearchable`, `DeletedStaysHidden`, the refinement `IndexSpec`, and `EventuallySettled` |
| `turns` | 3 calls of any kind | 947 thousand | `AnswersHaveQuestions`, `BlockingTurnIsAtomic`, `OnlyBlockingTurnsTie`, `AnswersAreReplaced`, `QuestionsAreKept`, `EveryRequestEnds` |
| `history` | 2 turns and 1 regenerate or delete, window 1, pages of 1 | 1.9 million | `SummaryIsHistory`, `SummaryIsOld`, `PagesDescend`, `PagesCover` |
| `stream` | 1 turn with its screen, up to 3 callbacks, 2 tools, SSE and WebSocket | 741 thousand | `TextIsWhatWasStreamed`, `FailureIsNotAnAnswer`, `AnnouncedIsStored`, `EveryEventDelivered`, `ScreenIsHistory`, `EarlierAnswersStay`, `EveryStreamCloses`, `ComposerComesBack` |
| `auth` | 2 requests (6 calls), 1 email, access tokens live 1 tick, refresh tokens 2, clock from 1 to 2 | 501 thousand | `OneAccountPerEmail`, `OneRefresh`, `RefusedForAReason`, `EveryRequestEnds` |
| `gate` | 3 calls, 1 user with 1 key, 1 address, limit 1, window of 2 ticks, clock to 2, 2 connections | 574 thousand | `SpanBudget`, `ConnectionsComeBack`, `LocksHaveTransactions`, `RevocationIsFinal`, `EveryCallEnds` |

Each also checks its module's `TypeOK`.

Why the bounds are enough:

- `ingest`. Documents share nothing but workers, so one suffices for the safety
  properties. Three workers allow a delivery that read the document, one that
  holds the row lock and one that waits. Three faults allow a loss after a
  redelivery and another while the replacement runs; one retry reaches both
  `Retry` and `GiveUp`. A document that has all generations at once would leave
  `CommitReady` disabled; `OneGeneration` shows it never has two.
- `turns`. Every anomaly of two interleaved transactions needs two calls, and a
  third as the history they find. `MCChatTurns` lists the calls' kinds in a fixed
  order (calls that swap their names give the same behaviours), and allows one
  rename or delete; sessions start with the title "New chat".
- `history`. Two turns give four messages, a window of one and pages of one, so
  that both turns compact, their drafts overlap, and a client needs several pages,
  whose borders fall between the tied rows of a blocking turn. The session has a
  title, so that the title's row lock, which `turns` covers, adds no states.
- `stream`. Three callbacks hold a whole tool call and a token, or three tokens;
  an earlier turn in the session gives a late frame
  something to write over (`MCChatScreen`). `tool_audit` has two callbacks, the
  start and the end of one tool call, without a screen.
- `auth`. Two requests are enough for everything two share: the flag, the storage,
  the row of an email. Stored tokens are of time 0 and the clock starts at 1, so
  that the access token has expired and the refresh token has one tick left: the
  refresh can be granted, refused, or granted and then refused. `MCTokenRefresh`
  lists the requests' kinds in a fixed order, with one login at most and right
  passwords (a wrong one is a 401 like that of a deactivated account). Tokens stored
  with nothing left to them and any age of clock are covered by the proofs.
- `gate`. Two connections and three calls: every connection can be held by a
  call that wants another one. One user and one address make all calls meet.
  A window of two ticks has an inside and a border, and the clock goes past it
  into the next one. `MCRequestGate` orders the kinds, allows two calls of a kind,
  one socket and one revocation, and lets blocking calls choose between token and
  key, but for the first of two, which comes with the key. So two failed
  streams may hold both connections for ever, against a third call.

Deadlock is not checked because all of these systems may stop: calls are made
once, and the clock and the callbacks are bounded (`MaxTime`, `MaxEvents`,
`MaxFaults`, `MaxRetries`), a screen sends once. That nothing stops early is what the liveness
properties say.

## Where the code and its documents disagree

Each of these is a run that ends in a counterexample.

- `ingest_deployed`: the task goes to the queue "ingest", and the worker command
  of `docker-compose.yml` consumes "default" only. Documents stay pending.
- `ingest_outcome`: the FAILED status is rolled back with the rest, so after the
  last retry the document reads PENDING and a poller waits for ever.
- `regenerate_input`: a blocking turn's question and answer have the same
  `created_at`; looking for a question strictly earlier than the answer finds the
  turn before.
- `title_kept`: a rename during the first turn is overwritten by the generated
  title.
- `tool_audit`: the audit rows of a streamed turn do not name the tool.
- `limit_principal`: the limiter runs before authentication and counts by
  address, not by principal.

Seen in the source and not turned into a run: a stream whose run fails ends
without the `done` frame its docstring promises; a stream that fails, or whose client
leaves, while its title or summary is being made leaves the session's row locked and
its connection out of the pool until it is collected, and renames, deletes and other
turns' titles wait for it; two concurrent regenerates
leave two visible answers; `list_history` orders by `created_at` alone, so the answer
of a blocking turn may be listed before its question, and the answer of a regenerate
that was authenticated before a streamed turn, and chose that turn's answer, sorts
before the question it answers; of two turns that overlap, the later one's summary
replaces the other's, though the docstring of `maybe_compact_history` speaks of
appending; a page that ends between the two rows of a blocking turn loses the
older one (`PagesCover` excepts exactly such ties); a row committed before a failed `delay()` stays
PENDING.

In the client: of two 401s at once the second is passed on, not retried, although
the comment of `ApiClient` says a request "only fails if the refresh itself fails";
a refresh that is under way during a logout stores tokens again; one that fails, be
it that its answer or the repetition is lost, times out or is a 500, erases both
tokens, good ones and those of a login in between (`Disconnect` or `GiveUp`, then
`ClearAccess` and `ClearRefresh`), so its user has to sign in again.
`RefusedForAReason` is only about what the server refuses, and no property says that
a good token stays on the device: it does not. A history that arrives while a
turn is under way, and was read before its answer, replaces the turn's messages, and
its frames then write over the answer before: `EarlierAnswersStay` excepts exactly
that (`loading = "late"`), and `ScreenIsHistory` also a history without the answer
that arrives when the stream is over. After a failed run
over SSE the placeholder keeps its streaming flag. `PROJECT.json` lists what a test
would hardly reach as hazards.

## Fairness

- `DocumentIngest`: weak fairness of `Work(w)` for each worker. A worker process
  runs its loop; Celery restarts a lost one. `Fail`, `LoseWorker` and `Redeliver`
  have none, so nothing ends because it failed, and users need not upload.
- `ChatTurns`: weak fairness of `Handle(r)`. The event loop runs every coroutine
  that can run, and the model client has a timeout, after which `generate`
  returns or raises. `Begin`, `Fail` and `Abandon` have none: a wait for a row lock has
  to end by the holder's progress. Nor has `Collect`: Python says nothing about when a
  suspended generator in a dead task is collected. So `EveryRequestEnds` excepts a
  request that is about to write the session's row (a rename, a delete, a title or
  a summary) while a failed stream has it locked, and nothing else.
- `StreamTurn`: weak fairness of the generators, of `Finalize`, and of the end of
  a run (`RunSucceeds \/ RunFails`), for the same reasons. Callbacks have none.
- `ChatScreen`: the same of the server once the stream is opened, and weak fairness
  of `Listen \/ Handle`: the app's event loop delivers what has arrived. The history,
  the stop button and broken connections have none, so the composer does not come
  back because somebody pressed stop.
- `TokenRefresh`: weak fairness of `AppStep`, the app's event loop with the timers of
  its HTTP client, and of `ServerStep`, the handlers. Every request has finitely
  many steps, so neither loop can be busy for ever elsewhere. The refresh is posted
  without a timeout (`Disconnect` is in neither), and `EveryRequestEnds` excepts
  exactly a request whose refresh is never answered.
- `RequestGate`: weak fairness of `Serve(r)`, which has `TimeOut`: SQLAlchemy's
  pool gives up after `pool_timeout`. A socket's client may be silent for ever
  (`Message`, `CloseSocket` have no fairness), and `EveryCallEnds` excepts exactly
  the calls that want the row of a key which a socket has locked: to authenticate with
  that key, or to revoke it. `Collect` has none either: connections that failed
  streams keep for ever make other calls fail by `TimeOut`, not wait.

## Proofs

All theorems hold for every value of the constants, under the assumptions the
modules name: a finite set of requests and natural limits (`RateLimiter`), a
window and a page size of at least one (`ChatHistory`), lifetimes of at least one
tick and a natural clock bound (`Accounts`), three calls of the server a request
(`TokenRefresh`), a natural number of callbacks
(`StreamTurn`), placeholders that are no request, worker or token, kinds among
`RequestKinds`. Nothing is assumed of the numbers of documents, workers, requests,
users, emails, tools or connections.

`DocumentIngestProofs`. The argument is the row lock: `IInv` says that a worker
whose step is one of `LockedSteps` holds the lock of its document (`LockHeld`), that
the rows its DELETE removed are all chunks the document has (`VictimsCurrent`), and
that no other worker changes them meanwhile. From that `OneGeneration`, `ReadyIffIndexed`, the two
action properties and the refinement (`ImplementsIndex`) follow. `OneGeneration`
is not inductive alone: it has to know that `CommitReady` removes everything the
other deliveries have committed. `NoStrandedDocument` rests on `UnsettledIsCarried`:
a document that is neither READY, deleted nor out of retries has a message that
waits in the queue or a worker that has its task in hand. Each step either keeps
that carrier or hands the document to another (`StillCarried`, `SentWaits`), so no
messages need to be counted. `LocksHaveOwners` adds that a row lock belongs to a
worker between `MarkProcessing` and the end of its transaction.

`ChatTurnsProofs`. `IInv` says what each request in flight has already
committed: a request that is not done has no answer (`OnlyDoneAnswer`), a stream
under way has its question (`StreamsAreSaved`), what a regenerate remembers still
is an answer and a question (`TargetIsAnswer`, `QuestionIsQuestion`), rows are no
younger than the transaction of their writer (`TimeRuns`), the clock has passed every
start of a transaction and no two are equal (`ClockTicks`), where each question
comes from (`QuestionsOfTurns`), and the steps only some
kinds come by (`KindsAtSteps`, without which a stream could be thought to generate
before it saved). Three lemmas (`StepFacts`, `OnlyCommitsWrite`, `NewRows`) say
what a step can do to the rows; the properties of histories follow from them. A
second invariant is about the row locks: only a turn that has written its title or
summary, or a stream that failed after it had, holds the session (`SessionLockIsATurns`), an answer is being removed by one regenerate
(`OneRemoves`). With `WaitsFor(r, q)`, all the ways one call waits for another, it
follows that a holder waits for nobody (`HoldersDoNotWait`).

`ChatHistoryProofs`. Every step is a step of `ChatTurns` or leaves its state alone
(`HistoryImplementsTurns`), so the theorems on turns hold here. The argument for the
summary is one predicate, `Remembered(S, rows)`: `S` is made of these rows, and a
whole window of them follows each. It holds of the summary in the row and of those
that turns loaded with the committed messages as rows, and of a draft with the
messages and the rows its turn has flushed; it survives new rows
(`RememberedGrows`), so it does not matter what commits between a turn's read and
its write. For the pages, `PagesInv` says that nothing shown is older than the
cursor and that what was there before and is not covered is older than it.

`RateLimiterProofs`. `SpanBudget` bounds a cardinality over time. The invariant
says that the requests counted less than a window ago are no more than the
counter while it lives (`CountCovers`), and that a counter outlives every request
it counted by a window (`HitsExtend`): so a bucket only restarts from one when
nothing recent is in it.

`RequestGateProofs`. Every step of the gate is a step of the limiter or leaves it
alone (`ImplementsLimiter`), so the limiter's theorem holds behind the gate. The
gate's own invariant is one statement about each call (`Sound`): who is about to lock
its key has a connection; only streams and sockets lose their clients; its connections
are where `ConnectionsComeBack` says; and whoever holds a key does so with the
connection of the transaction that authenticated it. A step of one call leaves what
the others have taken alone (`OthersStaySound`), so each action is proved for its own
call only. A key's lock is
held by a call of its user, no longer than the transaction that authenticated it
(`LocksAreTheUsers`), and that call waits for no row (`HoldersDoNotWait`): it may
wait for a connection for its tool, which `TimeOut` ends, or, if it is a socket, for
its client, which is the exception of `EveryCallEnds`.

`StreamTurnProofs`. `SInv` relates the generator's step to what is stored and sent:
a generator past the sentinel has awaited a driver that ended well, rows are stored
from the step that commits them on, and a frame of a message is behind its row.
`DInv` follows the events: the accumulator holds the tokens of the frames; the events
among the frames and then those in the queue are what the run emitted, in order
(`Conserved`); the queue of a run that ended closes
with the sentinel until it is taken, and from then on nothing is missing
(`DeliveredBy`).
`EveryEventDelivered`, `TextIsWhatWasStreamed`, `SeenIsAPrefix` (a failure or a
disconnect cuts the events off and skips none) and `NobodyWaitsForEver` follow.
The events of some types in a sequence are `Select`, a recursive function:
that it distributes over `Append` is proved with `SetInduction`, which gets induction
over the numbers from the well-foundedness of `<`, with a set where the library's
theorems have an operator.

`ChatScreenProofs`. Every step is a step of `StreamTurn` or leaves it alone
(`ScreenImplementsTurn`). `ScreenInv` says what the list is: the earlier messages,
then, while the turn is shown, one question and one answer of its own, the question
pending exactly until its frame is handled; and that frames come in the order
question, tokens, one last word. So `LastAssistant` can only be the turn's own answer
(`EarlierAnswersStay`), and when the last word has come both are the server's
(`ScreenIsHistory`). A history that arrives with the whole turn in it has the same
shape, since no answer is stored without its question, and one that arrives when
the stream is over stays as it is; of the remaining one ("late") nothing is claimed. `ScreenTypeOK` needs what `Update` writes at the places it
finds (`UpdateKeepsShown`) and that a buffer of tokens is one (`BufferType`).
Together with `TextIsWhatWasStreamed` this is the result from end to end
(`ModelTextIsShown`): the text on the screen is what the model's callbacks emitted.

`TokenRefreshProofs`, first about `Accounts`: a registration that has flushed its row
is alone with that email, since `InsertUser` waits for the others, and nobody has
been told "created" who has not committed; hence `OneAccountPerEmail`. Then about the
app, which implements `Accounts` (`RefreshImplementsAccounts`), so the same holds
behind it: `RInv` says which token each call carries and that every token on the
device or in flight was issued to an existing account with the type of its place,
half a stored pair included. A token the server refused is then `Spent`: what is good
now was good when it was judged, since age and deactivation only grow.

Only model-checked: the liveness properties, since the prover has neither ENABLED
nor fairness. Of each, what can be said without them is proved:

| liveness | proved of it |
|---|---|
| `EventuallySettled` | an unsettled document is carried (`NoStrandedDocument`), its lock is a working worker's (`LocksHaveOwners`) |
| `EveryRequestEnds` of `ChatTurns` | `HoldersDoNotWait`: no circle of calls that wait for each other |
| `EveryCallEnds` | `HoldersDoNotWait`, `ConnectionsComeBack`, `LocksHaveTransactions` |
| `EveryStreamCloses` | `NobodyWaitsForEver`: an empty queue has a driver that still runs |
| `ComposerComesBack` | in `ScreenInv`: who is sending has a stream that is starting or open |
| `EveryRequestEnds` of `TokenRefresh` | `OneRefresh`: a flag that is set has one owner, whose last step clears it |

## Not modelled

Text, embeddings, prompts and token counts (data); whether a password is right, and
the signatures of tokens (a boolean, and a library's); loaders and splitters, which
succeed or raise; configuration, logging and layout; the creation and the listing of
sessions and of API keys; search; what a prompt contains and when a text is long
enough to be summarized. A token is decoded and its account looked up in one step:
the query between them is one await, over which only a deactivation could fall.

Of the client: regenerate and the blocking send, a second turn on the same screen,
leaving the screen while it streams (a `Stop` that unlocks nothing), routing,
documents and their screens, half-open connections without any error.

External software is modelled from how the code uses it: Redis (atomic INCR and
EXPIRE, lists with redelivery), PostgreSQL (row locks, unique indexes, rollback), the
SQLAlchemy pool, FastAPI's order of dependencies and of closing them, asyncio's
unbounded queue, Dio's interceptors and the platform's secure storage.

## Plan

Done, in this order: `DocumentIndex`, `DocumentIngest` and its proofs;
`ChatTurns`; `StreamTurn`; `RateLimiter`, `RequestGate` and their proofs; the
proofs of `ChatTurns`; `ChatHistory` and its proofs; `Accounts`, `TokenRefresh` and
their proofs; the proofs of `StreamTurn`; `ChatScreen` and its proofs; the proofs
that needed induction over sequences, `NoStrandedDocument` and the row locks.

Next:

1. A second turn and regenerate on the screen, against `ChatTurns` instead of one
   streamed turn.
2. The list of sessions, ordered by `updated_at` and paged by offset, with sessions
   that move between two pages.
