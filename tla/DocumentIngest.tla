--------------------------- MODULE DocumentIngest ---------------------------
(***************************************************************************)
(* Document ingestion: the upload endpoint (services/document_service.py,  *)
(* endpoints/documents.py), the Celery queue between it and the workers    *)
(* (workers/celery_app.py, workers/tasks.py) and the ingest pipeline that  *)
(* runs inside a worker (ai/rag/pipeline.py, db/session.py).               *)
(*                                                                         *)
(* A worker's task body is one database transaction.  Its first flush      *)
(* updates the document row, and PostgreSQL holds that row's lock until    *)
(* the transaction ends; everything the task writes becomes visible at its *)
(* commit only.  So the committed tables are the state, and what a running *)
(* transaction has done so far is the worker's private state.              *)
(***************************************************************************)
EXTENDS Naturals, FiniteSets

CONSTANTS
    Docs,          \* document ids
    Workers,       \* Celery worker processes (--concurrency)
    Generations,   \* ids of complete chunk sets (the rows of one insert)
    ConsumedQueues,\* the queues the worker command subscribes to
    MaxRetries,    \* max_retries of the task (3 in the code)
    MaxFaults,     \* bound: worker losses plus visibility-timeout redeliveries
    NoWorker,
    NoJob

ASSUME RetriesAssumption == MaxRetries \in Nat
ASSUME FaultsAssumption == MaxFaults \in Nat
ASSUME NoWorkerAssumption == NoWorker \notin Workers

VARIABLES
    upload,     \* [Docs -> UploadStage]: progress of the POST /documents handler
    status,     \* committed documents.status, "absent" before the INSERT
    deleted,    \* committed documents.deleted_at is not null
    chunks,     \* committed document_chunks: the complete chunk sets of a document
    lock,       \* holder of the row lock on a document
    queue,      \* [Jobs -> Nat]: messages waiting in the broker
    pc,         \* [Workers -> Step]: where the task body is
    job,        \* [Workers -> Jobs \cup {NoJob}]: the message a worker is delivering
    victims,    \* [Workers -> SUBSET Generations]: rows the DELETE removed
    exhausted,  \* [Docs -> BOOLEAN]: a message of it ran out of retries
    faults      \* faults so far

rows == <<status, deleted, chunks>>
task == <<pc, job, victims>>
vars == <<upload, rows, lock, queue, task, exhausted, faults>>

DocumentStatus == {"absent", "pending", "processing", "ready", "failed"}
UploadStage == {"none", "saved", "committed", "queued", "dropped"}
Jobs == [doc : Docs, retries : 0..MaxRetries]
Step == {"idle", "received", "fetched", "processing", "cleared", "returned", "failed"}

\* The steps at which the transaction of a worker holds its document's row lock.
LockedSteps == {"processing", "cleared"}

\* task_routes sends the task to this queue.
TaskQueue == "ingest"

Send(q, j) == [q EXCEPT ![j] = @ + 1]
Receive(q, j) == [q EXCEPT ![j] = @ - 1]

Init ==
    /\ upload = [d \in Docs |-> "none"]
    /\ status = [d \in Docs |-> "absent"]
    /\ deleted = [d \in Docs |-> FALSE]
    /\ chunks = [d \in Docs |-> {}]
    /\ lock = [d \in Docs |-> NoWorker]
    /\ queue = [j \in Jobs |-> 0]
    /\ pc = [w \in Workers |-> "idle"]
    /\ job = [w \in Workers |-> NoJob]
    /\ victims = [w \in Workers |-> {}]
    /\ exhausted = [d \in Docs |-> FALSE]
    /\ faults = 0

-----------------------------------------------------------------------------
(* The upload handler. *)

\* The file is on disk; a mime or size error ends the handler before any row exists.
SaveFile(d) ==
    /\ upload[d] = "none"
    /\ \E s \in {"saved", "dropped"} : upload' = [upload EXCEPT ![d] = s]
    /\ UNCHANGED <<rows, lock, queue, task, exhausted, faults>>

\* INSERT of the PENDING row, and its commit.
CommitRow(d) ==
    /\ upload[d] = "saved"
    /\ upload' = [upload EXCEPT ![d] = "committed"]
    /\ status' = [status EXCEPT ![d] = "pending"]
    /\ UNCHANGED <<deleted, chunks, lock, queue, task, exhausted, faults>>

\* ingest_document_task.delay, after the commit.
Enqueue(d) ==
    /\ upload[d] = "committed"
    /\ upload' = [upload EXCEPT ![d] = "queued"]
    /\ queue' = Send(queue, [doc |-> d, retries |-> 0])
    /\ UNCHANGED <<rows, lock, task, exhausted, faults>>

\* The API process stops, the database or the broker refuses: nothing undoes
\* what the handler has already committed.
AbandonUpload(d) ==
    /\ upload[d] \in {"saved", "committed"}
    /\ upload' = [upload EXCEPT ![d] = "dropped"]
    /\ UNCHANGED <<rows, lock, queue, task, exhausted, faults>>

\* DELETE /documents/{id}.  Its UPDATE waits for the row lock.
SoftDelete(d) ==
    /\ status[d] # "absent"
    /\ ~deleted[d]
    /\ lock[d] = NoWorker
    /\ deleted' = [deleted EXCEPT ![d] = TRUE]
    /\ UNCHANGED <<upload, status, chunks, lock, queue, task, exhausted, faults>>

-----------------------------------------------------------------------------
(* The task body, run by worker w. *)

Goto(w, s) == pc' = [pc EXCEPT ![w] = s]
DocOf(w) == job[w].doc

\* COMMIT or ROLLBACK of w's transaction: its row locks are released.
Unlock(w) == lock' = [d \in Docs |-> IF lock[d] = w THEN NoWorker ELSE lock[d]]

Deliver(w, j) ==
    /\ TaskQueue \in ConsumedQueues
    /\ pc[w] = "idle"
    /\ queue[j] > 0
    /\ queue' = Receive(queue, j)
    /\ job' = [job EXCEPT ![w] = j]
    /\ Goto(w, "received")
    /\ UNCHANGED <<upload, rows, lock, victims, exhausted, faults>>

\* session.get: a missing or deleted document ends the task successfully.
Fetch(w) ==
    /\ pc[w] = "received"
    /\ IF status[DocOf(w)] = "absent" \/ deleted[DocOf(w)]
         THEN Goto(w, "returned")
         ELSE Goto(w, "fetched")
    /\ UNCHANGED <<upload, rows, lock, queue, job, victims, exhausted, faults>>

\* Mutant of MarkProcessing: without the flush there is no UPDATE and no row lock.
MarkWithoutFlush(w) ==
    /\ pc[w] = "fetched"
    /\ Goto(w, "processing")
    /\ UNCHANGED <<upload, rows, lock, queue, job, victims, exhausted, faults>>

\* The flush of status PROCESSING: an UPDATE that takes the row lock.
MarkProcessing(w) ==
    /\ pc[w] = "fetched"
    /\ lock[DocOf(w)] = NoWorker
    /\ lock' = [lock EXCEPT ![DocOf(w)] = w]
    /\ Goto(w, "processing")
    /\ UNCHANGED <<upload, rows, queue, job, victims, exhausted, faults>>

\* Mutant of ClearChunks: the DELETE is committed on its own.
ClearAndCommit(w) ==
    /\ pc[w] = "processing"
    /\ chunks' = [chunks EXCEPT ![DocOf(w)] = {}]
    /\ Goto(w, "cleared")
    /\ UNCHANGED <<upload, status, deleted, lock, queue, job, victims, exhausted, faults>>

\* Load and split succeeded; the DELETE removes the chunk rows committed so far.
ClearChunks(w) ==
    /\ pc[w] = "processing"
    /\ victims' = [victims EXCEPT ![w] = chunks[DocOf(w)]]
    /\ Goto(w, "cleared")
    /\ UNCHANGED <<upload, rows, lock, queue, job, exhausted, faults>>

\* Mutant of CommitReady: the UPDATE writes every column of the row as it was loaded.
CommitWholeRow(w) ==
    /\ pc[w] = "cleared"
    /\ \E g \in Generations \ chunks[DocOf(w)] :
         chunks' = [chunks EXCEPT ![DocOf(w)] = (@ \ victims[w]) \cup {g}]
    /\ status' = [status EXCEPT ![DocOf(w)] = "ready"]
    /\ deleted' = [deleted EXCEPT ![DocOf(w)] = FALSE]
    /\ Unlock(w)
    /\ victims' = [victims EXCEPT ![w] = {}]
    /\ Goto(w, "returned")
    /\ UNCHANGED <<upload, queue, job, exhausted, faults>>

\* Embeddings arrived: chunk rows and status READY are flushed and committed.
\* deleted_at is not dirty, so the UPDATE leaves that column as it is.
CommitReady(w) ==
    /\ pc[w] = "cleared"
    /\ \E g \in Generations \ chunks[DocOf(w)] :
         chunks' = [chunks EXCEPT ![DocOf(w)] = (@ \ victims[w]) \cup {g}]
    /\ status' = [status EXCEPT ![DocOf(w)] = "ready"]
    /\ Unlock(w)
    /\ victims' = [victims EXCEPT ![w] = {}]
    /\ Goto(w, "returned")
    /\ UNCHANGED <<upload, deleted, queue, job, exhausted, faults>>

\* Steps at which the body can raise.
Raising(w) == pc[w] \in {"received", "fetched", "processing", "cleared"}

\* Mutants of Fail: FAILED is committed; the DELETE is committed; the
\* transaction is left open.
FailAndCommit(w) ==
    /\ Raising(w)
    /\ status' = [status EXCEPT ![DocOf(w)] = "failed"]
    /\ Unlock(w)
    /\ victims' = [victims EXCEPT ![w] = {}]
    /\ Goto(w, "failed")
    /\ UNCHANGED <<upload, deleted, chunks, queue, job, exhausted, faults>>

FailKeepingDelete(w) ==
    /\ Raising(w)
    /\ chunks' = [chunks EXCEPT ![DocOf(w)] = @ \ victims[w]]
    /\ Unlock(w)
    /\ victims' = [victims EXCEPT ![w] = {}]
    /\ Goto(w, "failed")
    /\ UNCHANGED <<upload, status, deleted, queue, job, exhausted, faults>>

FailWithoutRollback(w) ==
    /\ Raising(w)
    /\ victims' = [victims EXCEPT ![w] = {}]
    /\ Goto(w, "failed")
    /\ UNCHANGED <<upload, rows, lock, queue, job, exhausted, faults>>

\* An exception anywhere in the body.  The handler sets FAILED and flushes, then
\* re-raises, so db_session rolls the transaction back: FAILED, PROCESSING and
\* the DELETE are all undone.
Fail(w) ==
    /\ Raising(w)
    /\ Unlock(w)
    /\ victims' = [victims EXCEPT ![w] = {}]
    /\ Goto(w, "failed")
    /\ UNCHANGED <<upload, rows, queue, job, exhausted, faults>>

\* autoretry_for: publish the message again with one more retry on it.
Retry(w) ==
    /\ pc[w] = "failed"
    /\ job[w].retries < MaxRetries
    /\ queue' = Send(queue, [job[w] EXCEPT !.retries = @ + 1])
    /\ Goto(w, "returned")
    /\ UNCHANGED <<upload, rows, lock, job, victims, exhausted, faults>>

GiveUp(w) ==
    /\ pc[w] = "failed"
    /\ job[w].retries = MaxRetries
    /\ exhausted' = [exhausted EXCEPT ![DocOf(w)] = TRUE]
    /\ Goto(w, "returned")
    /\ UNCHANGED <<upload, rows, lock, queue, job, victims, faults>>

\* Mutant of Ack: the acknowledgement also takes a waiting copy of the message.
AckTwice(w) ==
    /\ pc[w] = "returned"
    /\ queue' = Receive(queue, job[w])
    /\ job' = [job EXCEPT ![w] = NoJob]
    /\ Goto(w, "idle")
    /\ UNCHANGED <<upload, rows, lock, victims, exhausted, faults>>

\* acks_late: the message is acknowledged only now.
Ack(w) ==
    /\ pc[w] = "returned"
    /\ job' = [job EXCEPT ![w] = NoJob]
    /\ Goto(w, "idle")
    /\ UNCHANGED <<upload, rows, lock, queue, victims, exhausted, faults>>

-----------------------------------------------------------------------------
(* What the infrastructure may do. *)

\* Mutant of LoseWorker: the message was acknowledged on receipt.
LoseMessage(w) ==
    /\ pc[w] # "idle"
    /\ faults < MaxFaults
    /\ faults' = faults + 1
    /\ Unlock(w)
    /\ victims' = [victims EXCEPT ![w] = {}]
    /\ job' = [job EXCEPT ![w] = NoJob]
    /\ Goto(w, "idle")
    /\ UNCHANGED <<upload, rows, queue, exhausted>>

\* The worker process dies: its transaction rolls back and
\* task_reject_on_worker_lost puts the unacknowledged message back.
LoseWorker(w) ==
    /\ pc[w] # "idle"
    /\ faults < MaxFaults
    /\ faults' = faults + 1
    /\ queue' = Send(queue, job[w])
    /\ Unlock(w)
    /\ victims' = [victims EXCEPT ![w] = {}]
    /\ job' = [job EXCEPT ![w] = NoJob]
    /\ Goto(w, "idle")
    /\ UNCHANGED <<upload, rows, exhausted>>

\* The Redis visibility timeout expires while the task is still running: the
\* broker delivers the unacknowledged message a second time.
Redeliver(w) ==
    /\ pc[w] # "idle"
    /\ faults < MaxFaults
    /\ faults' = faults + 1
    /\ queue' = Send(queue, job[w])
    /\ UNCHANGED <<upload, rows, lock, task, exhausted>>

-----------------------------------------------------------------------------
Api(d) == SaveFile(d) \/ CommitRow(d) \/ Enqueue(d) \/ AbandonUpload(d) \/ SoftDelete(d)

Work(w) ==
    \/ \E j \in Jobs : Deliver(w, j)
    \/ Fetch(w) \/ MarkProcessing(w) \/ ClearChunks(w) \/ CommitReady(w)
    \/ Retry(w) \/ GiveUp(w) \/ Ack(w)

Next ==
    \/ \E d \in Docs : Api(d)
    \/ \E w \in Workers : Work(w) \/ Fail(w) \/ LoseWorker(w) \/ Redeliver(w)

Spec == Init /\ [][Next]_vars

\* A worker process keeps running its loop.  It need not fail, so waiting for a
\* row lock is not ended by assumption, and nobody has to upload anything.
FairSpec == Spec /\ \A w \in Workers : WF_vars(Work(w))

-----------------------------------------------------------------------------
TypeOK ==
    /\ upload \in [Docs -> UploadStage]
    /\ status \in [Docs -> DocumentStatus]
    /\ deleted \in [Docs -> BOOLEAN]
    /\ chunks \in [Docs -> SUBSET Generations]
    /\ lock \in [Docs -> Workers \cup {NoWorker}]
    /\ queue \in [Jobs -> Nat]
    /\ pc \in [Workers -> Step]
    /\ job \in [Workers -> Jobs \cup {NoJob}]
    /\ \A w \in Workers : pc[w] # "idle" => job[w] \in Jobs
    /\ victims \in [Workers -> SUBSET Generations]
    /\ exhausted \in [Docs -> BOOLEAN]
    /\ faults \in 0..MaxFaults

\* A query joins chunks with their document and asks for READY and not deleted.
Searchable(d) == status[d] = "ready" /\ ~deleted[d] /\ chunks[d] # {}

\* However many deliveries of a document's task overlap, a document never keeps
\* the chunks of two ingests: the DELETE of each one removes what the other
\* committed, because the PROCESSING flush made it wait for the row lock.
OneGeneration == \A d \in Docs : Cardinality(chunks[d]) <= 1

\* A document reads READY exactly when its chunks are there: no crash, failure
\* or retry leaves a READY document without chunks, or chunks without READY.
ReadyIffIndexed == \A d \in Docs : status[d] = "ready" <=> chunks[d] # {}

\* A document whose task was published and whose retries are not used up is
\* never stranded: its task is still in the queue or in the hands of a worker.
NoStrandedDocument ==
    \A d \in Docs :
        (upload[d] = "queued" /\ status[d] = "pending" /\ ~deleted[d] /\ ~exhausted[d]) =>
            \/ \E r \in 0..MaxRetries : queue[[doc |-> d, retries |-> r]] > 0
            \/ \E w \in Workers : pc[w] # "idle" /\ DocOf(w) = d

\* What a search can find stays findable until the owner deletes it: an ingest
\* that runs again and fails gives back the chunks it had removed.
StaysSearchable ==
    [][\A d \in Docs : Searchable(d) /\ ~deleted'[d] => Searchable(d)']_vars

\* A worker that read the document before it was deleted may still index it,
\* but a deleted document never becomes findable again.
DeletedStaysHidden ==
    [][\A d \in Docs : deleted[d] => ~Searchable(d)']_vars

\* Every task that was published settles: the document is READY, was deleted,
\* or its last retry failed.  This is also what docs/api.md tells a client to
\* wait for after the 202: "poll until status == ready".
EventuallySettled ==
    \A d \in Docs : upload[d] = "queued" ~> (status[d] = "ready" \/ deleted[d] \/ exhausted[d])

\* docs: the pipeline "updates the document's status so the UI can poll" it.
\* Once no delivery is left, the outcome of a failed ingest can be read.
OutcomeIsVisible ==
    \A d \in Docs :
        /\ exhausted[d]
        /\ \A r \in 0..MaxRetries : queue[[doc |-> d, retries |-> r]] = 0
        /\ \A w \in Workers : pc[w] = "idle"
        => status[d] # "pending" \/ deleted[d]

\* The document index that search relies on: DocumentIndex with the number of
\* complete chunk sets a document has.
Index == INSTANCE DocumentIndex WITH copies <- [d \in Docs |-> Cardinality(chunks[d])]
IndexSpec == Index!Spec
=============================================================================
