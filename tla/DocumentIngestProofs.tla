------------------------ MODULE DocumentIngestProofs ------------------------
(***************************************************************************)
(* Proofs about DocumentIngest, for any set of documents and workers, any  *)
(* retry limit and any number of faults.                                   *)
(*                                                                         *)
(* The inductive invariant says why overlapping deliveries are harmless: a *)
(* worker past its PROCESSING flush holds the row lock of its document     *)
(* (LockHeld), so what its DELETE saw is still what the table holds when   *)
(* it commits (VictimsCurrent).  A second one says who carries a document  *)
(* that is not settled: a message in the queue or a worker.                *)
(***************************************************************************)
EXTENDS DocumentIngest, FiniteSetTheorems, TLAPS

LockHeld == \A w \in Workers : pc[w] \in LockedSteps => lock[DocOf(w)] = w

VictimsCurrent == \A w \in Workers : pc[w] = "cleared" => victims[w] = chunks[DocOf(w)]

\* The statuses a committed row can have: PROCESSING and FAILED are always rolled back.
StatusCommitted == \A d \in Docs : status[d] \in {"absent", "pending", "ready"}

RowBeforeWork ==
    /\ \A d \in Docs : upload[d] \in {"none", "saved"} => status[d] = "absent"
    /\ \A w \in Workers : pc[w] \in {"fetched", "processing", "cleared"} => status[DocOf(w)] # "absent"

Single(S) == S = {} \/ \E g \in Generations : S = {g}

IInv ==
    /\ TypeOK
    /\ LockHeld
    /\ VictimsCurrent
    /\ StatusCommitted
    /\ RowBeforeWork
    /\ \A d \in Docs : Single(chunks[d])
    /\ ReadyIffIndexed

USE RetriesAssumption, FaultsAssumption, NoWorkerAssumption

-----------------------------------------------------------------------------
\* The initial state satisfies the inductive invariant.
LEMMA InitIInv == Init => IInv
  BY SMT DEF Init, IInv, TypeOK, LockHeld, VictimsCurrent, StatusCommitted, RowBeforeWork,
      Single, ReadyIffIndexed, UploadStage, DocumentStatus, Step, LockedSteps, Jobs

\* Every step keeps the types.
LEMMA TypeStep == TypeOK /\ [Next]_vars => TypeOK'
<1> SUFFICES ASSUME TypeOK, [Next]_vars PROVE TypeOK'
  OBVIOUS
<1> USE DEF TypeOK, rows, task
<1>0. \A w \in Workers : job[w] \in Jobs => DocOf(w) \in Docs
  BY DEF Jobs, DocOf
<1>1. CASE UNCHANGED vars
  BY <1>1 DEF vars
<1>2. ASSUME NEW d \in Docs, Api(d) PROVE TypeOK'
  <2>1. CASE SaveFile(d)
    BY <2>1 DEF SaveFile, UploadStage
  <2>2. CASE CommitRow(d)
    BY <2>2 DEF CommitRow, UploadStage, DocumentStatus
  <2>3. CASE Enqueue(d)
    <3>1. [doc |-> d, retries |-> 0] \in Jobs
      BY DEF Jobs
    <3>2. QED
      BY <2>3, <3>1 DEF Enqueue, UploadStage, Send
  <2>4. CASE AbandonUpload(d)
    BY <2>4 DEF AbandonUpload, UploadStage
  <2>5. CASE SoftDelete(d)
    BY <2>5 DEF SoftDelete
  <2>6. QED
    BY <1>2, <2>1, <2>2, <2>3, <2>4, <2>5 DEF Api
<1>3. ASSUME NEW w \in Workers, NEW j \in Jobs, Deliver(w, j) PROVE TypeOK'
  BY <1>3 DEF Deliver, Receive, Goto, Step
<1>4. ASSUME NEW w \in Workers, Fetch(w) PROVE TypeOK'
  BY <1>4 DEF Fetch, Goto, Step
<1>5. ASSUME NEW w \in Workers, MarkProcessing(w) PROVE TypeOK'
  BY <1>0, <1>5 DEF MarkProcessing, Goto, Step
<1>6. ASSUME NEW w \in Workers, ClearChunks(w) PROVE TypeOK'
  <2>1. job[w] \in Jobs /\ chunks[DocOf(w)] \subseteq Generations
    BY <1>0, <1>6 DEF ClearChunks
  <2>2. QED
    BY <1>6, <2>1 DEF ClearChunks, Goto, Step
<1>7. ASSUME NEW w \in Workers, CommitReady(w) PROVE TypeOK'
  <2>1. lock' \in [Docs -> Workers \cup {NoWorker}]
    BY <1>7 DEF CommitReady, Unlock
  <2>2. DocOf(w) \in Docs /\ job[w] \in Jobs
    BY <1>0, <1>7 DEF CommitReady
  <2>3. chunks' \in [Docs -> SUBSET Generations]
    <3>1. PICK g \in Generations : chunks' = [chunks EXCEPT ![DocOf(w)] = (@ \ victims[w]) \cup {g}]
      BY <1>7 DEF CommitReady
    <3>2. (chunks[DocOf(w)] \ victims[w]) \cup {g} \in SUBSET Generations
      BY <2>2
    <3>3. QED
      BY <2>2, <3>1, <3>2
  <2>4. QED
    BY <1>7, <2>1, <2>2, <2>3 DEF CommitReady, Goto, Step, DocumentStatus
<1>8. ASSUME NEW w \in Workers, Fail(w) PROVE TypeOK'
  <2>1. lock' \in [Docs -> Workers \cup {NoWorker}]
    BY <1>8 DEF Fail, Raising, Unlock
  <2>2. QED
    BY <1>8, <2>1 DEF Fail, Raising, Goto, Step
<1>9. ASSUME NEW w \in Workers, Retry(w) PROVE TypeOK'
  <2>1. [job[w] EXCEPT !.retries = @ + 1] \in Jobs
    BY <1>9 DEF Retry, Jobs
  <2>2. QED
    BY <1>9, <2>1 DEF Retry, Send, Goto, Step
<1>10. ASSUME NEW w \in Workers, GiveUp(w) \/ Ack(w) PROVE TypeOK'
  BY <1>0, <1>10 DEF GiveUp, Ack, Goto, Step
<1>11. ASSUME NEW w \in Workers, LoseWorker(w) PROVE TypeOK'
  <2>1. lock' \in [Docs -> Workers \cup {NoWorker}] /\ queue' \in [Jobs -> Nat]
    BY <1>11 DEF LoseWorker, Unlock, Send
  <2>2. QED
    BY <1>11, <2>1 DEF LoseWorker, Goto, Step
<1>12. ASSUME NEW w \in Workers, Redeliver(w) PROVE TypeOK'
  BY <1>12 DEF Redeliver, Send
<1>13. QED
  BY <1>1, <1>2, <1>3, <1>4, <1>5, <1>6, <1>7, <1>8, <1>9, <1>10, <1>11, <1>12 DEF Next, Work

\* Every step keeps the rest of the inductive invariant.
LEMMA StepIInv == IInv /\ [Next]_vars => IInv'
<1> SUFFICES ASSUME IInv, [Next]_vars PROVE IInv'
  OBVIOUS
<1>0. TypeOK /\ TypeOK'
  BY TypeStep DEF IInv
<1> USE <1>0 DEF IInv, LockHeld, VictimsCurrent, StatusCommitted, RowBeforeWork, Single,
      ReadyIffIndexed, DocOf, rows, task
<1>1. CASE UNCHANGED vars
  BY <1>1 DEF vars
<1>2. ASSUME NEW d \in Docs, Api(d) PROVE IInv'
  BY <1>2, SMTT(60) DEF Api, SaveFile, CommitRow, Enqueue, AbandonUpload, SoftDelete, TypeOK, Jobs,
      LockedSteps
<1>3. ASSUME NEW w \in Workers, NEW j \in Jobs, Deliver(w, j) PROVE IInv'
  BY <1>3, SMTT(60) DEF Deliver, Goto, TypeOK, Jobs, LockedSteps
<1>4. ASSUME NEW w \in Workers, Fetch(w) PROVE IInv'
  BY <1>4, SMTT(60) DEF Fetch, Goto, TypeOK, Jobs, LockedSteps
<1>5. ASSUME NEW w \in Workers, MarkProcessing(w) PROVE IInv'
  BY <1>5, SMTT(60) DEF MarkProcessing, Goto, TypeOK, Jobs, LockedSteps
<1>6. ASSUME NEW w \in Workers, ClearChunks(w) PROVE IInv'
  BY <1>6, SMTT(60) DEF ClearChunks, Goto, TypeOK, Jobs, LockedSteps
<1>7. ASSUME NEW w \in Workers, CommitReady(w) PROVE IInv'
  <2> DEFINE d == DocOf(w)
  <2>1. d \in Docs /\ lock[d] = w /\ victims[w] = chunks[d]
    BY <1>7 DEF CommitReady, LockedSteps, TypeOK, Jobs
  <2>2. PICK g \in Generations : chunks' = [chunks EXCEPT ![d] = {g}]
    <3>1. PICK g \in Generations : chunks' = [chunks EXCEPT ![d] = (@ \ victims[w]) \cup {g}]
      BY <1>7 DEF CommitReady
    <3>2. (chunks[d] \ victims[w]) \cup {g} = {g}
      BY <2>1
    <3>3. QED
      BY <3>1, <3>2
  <2>3. LockHeld' /\ VictimsCurrent'
    <3> SUFFICES ASSUME NEW u \in Workers
                 PROVE /\ (pc[u] \in LockedSteps => lock[DocOf(u)] = u)'
                       /\ (pc[u] = "cleared" => victims[u] = chunks[DocOf(u)])'
      BY DEF LockHeld, VictimsCurrent
    <3>1. CASE u = w
      BY <3>1, <1>7 DEF CommitReady, Goto, TypeOK, LockedSteps
    <3>2. CASE u # w /\ pc[u] \in LockedSteps
      <4>1. DocOf(u) \in Docs /\ DocOf(u) # d /\ DocOf(u)' = DocOf(u) /\ pc'[u] = pc[u]
        BY <3>2, <2>1, <1>7 DEF CommitReady, Goto, TypeOK, LockedSteps, Jobs
      <4>2. QED
        BY <3>2, <4>1, <2>2, <1>7 DEF CommitReady, Unlock, TypeOK, LockedSteps
    <3>3. CASE u # w /\ pc[u] \notin LockedSteps
      BY <3>3, <1>7 DEF CommitReady, Goto, TypeOK, LockedSteps
    <3>4. QED
      BY <3>1, <3>2, <3>3
  <2>4. StatusCommitted' /\ RowBeforeWork'
    BY <2>1, <1>7, SMTT(60) DEF CommitReady, Goto, TypeOK, Jobs
  <2>5. (\A e \in Docs : Single(chunks[e]))' /\ ReadyIffIndexed'
    BY <2>1, <2>2, <1>7, SMTT(60) DEF CommitReady, TypeOK
  <2>6. QED
    BY <1>0, <2>3, <2>4, <2>5
<1>8. ASSUME NEW w \in Workers, Fail(w) PROVE IInv'
  BY <1>8, SMTT(60) DEF Fail, Raising, Goto, Unlock, TypeOK, Jobs, LockedSteps
<1>9. ASSUME NEW w \in Workers, Retry(w) \/ GiveUp(w) \/ Ack(w) PROVE IInv'
  BY <1>9, SMTT(60) DEF Retry, GiveUp, Ack, Goto, TypeOK, Jobs, LockedSteps
<1>10. ASSUME NEW w \in Workers, LoseWorker(w) PROVE IInv'
  BY <1>10, SMTT(60) DEF LoseWorker, Goto, Unlock, TypeOK, Jobs, LockedSteps
<1>11. ASSUME NEW w \in Workers, Redeliver(w) PROVE IInv'
  BY <1>11, SMTT(60) DEF Redeliver, TypeOK, Jobs, LockedSteps
<1>12. QED
  BY <1>1, <1>2, <1>3, <1>4, <1>5, <1>6, <1>7, <1>8, <1>9, <1>10, <1>11, Zenon DEF Next, Work

\* The inductive invariant holds in every reachable state.
THEOREM Inductive == Spec => []IInv
  BY InitIInv, StepIInv, PTL DEF Spec

-----------------------------------------------------------------------------
\* Every variable keeps its type: pc, job and queue name real steps and messages.
THEOREM TypeCorrect == Spec => []TypeOK
<1>1. IInv => TypeOK
  BY DEF IInv
<1>2. QED
  BY <1>1, Inductive, PTL

\* The number of generations of a set that Single describes.
LEMMA SingleCardinality ==
  ASSUME NEW S, Single(S)
  PROVE  Cardinality(S) = IF S = {} THEN 0 ELSE 1
<1>1. CASE S = {}
  BY <1>1, FS_EmptySet
<1>2. CASE \E g \in Generations : S = {g}
  <2>1. PICK g \in Generations : S = {g}
    BY <1>2
  <2>2. Cardinality({g}) = 1 /\ S # {}
    BY <2>1, FS_Singleton
  <2>3. QED
    BY <2>1, <2>2
<1>3. QED
  BY <1>1, <1>2 DEF Single

\* A document never keeps the chunks of two ingests (the row lock taken by the
\* PROCESSING flush makes DELETE and INSERT of one task indivisible).
THEOREM OneGenerationHolds == Spec => []OneGeneration
<1>1. IInv => OneGeneration
  <2> SUFFICES ASSUME IInv, NEW d \in Docs PROVE Cardinality(chunks[d]) <= 1
    BY DEF OneGeneration
  <2>1. Cardinality(chunks[d]) \in {0, 1}
    BY SingleCardinality DEF IInv
  <2>2. QED
    BY <2>1
<1>2. QED
  BY <1>1, Inductive, PTL

\* READY and "has chunks" are the same thing in every committed state.
THEOREM ReadyIffIndexedHolds == Spec => []ReadyIffIndexed
<1>1. IInv => ReadyIffIndexed
  BY DEF IInv
<1>2. QED
  BY <1>1, Inductive, PTL

-----------------------------------------------------------------------------
\* Only CommitReady touches a document's status and chunks once its row exists.
LEMMA RowStep ==
  ASSUME IInv, [Next]_vars, NEW d \in Docs
  PROVE  \/ status'[d] = status[d] /\ chunks'[d] = chunks[d]
         \/ status[d] = "absent" /\ status'[d] = "pending" /\ chunks'[d] = chunks[d]
         \/ status'[d] = "ready"
<1> USE DEF rows, task
<1>1. CASE UNCHANGED vars
  BY <1>1 DEF vars
<1>2. ASSUME NEW e \in Docs, Api(e)
      PROVE  \/ status'[d] = status[d] /\ chunks'[d] = chunks[d]
             \/ status[d] = "absent" /\ status'[d] = "pending" /\ chunks'[d] = chunks[d]
  BY <1>2 DEF Api, SaveFile, CommitRow, Enqueue, AbandonUpload, SoftDelete, IInv, TypeOK, RowBeforeWork
<1>3. ASSUME NEW w \in Workers, CommitReady(w)
      PROVE  \/ status'[d] = status[d] /\ chunks'[d] = chunks[d]
             \/ status'[d] = "ready"
  BY <1>3 DEF CommitReady, IInv, TypeOK
<1>4. ASSUME NEW w \in Workers, Work(w) \/ Fail(w) \/ LoseWorker(w) \/ Redeliver(w), ~CommitReady(w)
      PROVE  status'[d] = status[d] /\ chunks'[d] = chunks[d]
  BY <1>4 DEF Work, Deliver, Fetch, MarkProcessing, ClearChunks, Fail, Retry, GiveUp, Ack,
      LoseWorker, Redeliver
<1>5. QED
  BY <1>1, <1>2, <1>3, <1>4 DEF Next

\* deleted_at is written by SoftDelete only, and never cleared.
LEMMA DeletedStep ==
  ASSUME IInv, [Next]_vars, NEW d \in Docs
  PROVE  deleted[d] => deleted'[d]
<1> USE DEF rows, task
<1>1. CASE UNCHANGED vars
  BY <1>1 DEF vars
<1>2. ASSUME NEW e \in Docs, Api(e) PROVE deleted[d] => deleted'[d]
  BY <1>2 DEF Api, SaveFile, CommitRow, Enqueue, AbandonUpload, SoftDelete, IInv, TypeOK
<1>3. ASSUME NEW w \in Workers, Work(w) \/ Fail(w) \/ LoseWorker(w) \/ Redeliver(w) PROVE deleted' = deleted
  BY <1>3 DEF Work, Deliver, Fetch, MarkProcessing, ClearChunks, CommitReady, Fail, Retry, GiveUp,
      Ack, LoseWorker, Redeliver
<1>4. QED
  BY <1>1, <1>2, <1>3 DEF Next

\* What search can find stays findable until it is deleted, whatever a repeated
\* delivery of its task does.
THEOREM StaysSearchableHolds == Spec => StaysSearchable
<1>1. IInv /\ IInv' /\ [Next]_vars => \A d \in Docs : Searchable(d) /\ ~deleted'[d] => Searchable(d)'
  <2> SUFFICES ASSUME IInv, IInv', [Next]_vars, NEW d \in Docs, Searchable(d), ~deleted'[d]
               PROVE  Searchable(d)'
    OBVIOUS
  <2>1. status[d] = "ready"
    BY DEF Searchable
  <2>2. status'[d] = "ready"
    BY <2>1, RowStep
  <2>3. QED
    BY <2>2 DEF Searchable, IInv, ReadyIffIndexed
<1>2. QED
  BY <1>1, Inductive, PTL DEF Spec, StaysSearchable

\* A deleted document never becomes findable again.
THEOREM DeletedStaysHiddenHolds == Spec => DeletedStaysHidden
<1>1. IInv /\ [Next]_vars => \A d \in Docs : deleted[d] => ~Searchable(d)'
  BY DeletedStep DEF Searchable
<1>2. QED
  BY <1>1, Inductive, PTL DEF Spec, DeletedStaysHidden

-----------------------------------------------------------------------------
(* No published document is stranded. *)

\* A message of d waits, or a worker has one that it has not dealt with yet.
Waiting(d) == \E j \in Jobs : j.doc = d /\ queue[j] > 0
InHand(d) == \E w \in Workers : pc[w] \notin {"idle", "returned"} /\ DocOf(w) = d

\* Its task was published, and nothing has settled it.
Unsettled(d) == upload[d] = "queued" /\ status[d] = "pending" /\ ~deleted[d] /\ ~exhausted[d]

\* Stronger than NoStrandedDocument, which is not inductive: a worker that has returned
\* only has the acknowledgement left, and would leave nothing behind.
UnsettledIsCarried == \A d \in Docs : Unsettled(d) => Waiting(d) \/ InHand(d)

\* A step of one worker, w, that takes no message from the queue: the document w has
\* in hand it keeps, or sends again.
LEMMA StillCarried ==
  ASSUME TypeOK, NEW d \in Docs, NEW w \in Workers, Waiting(d) \/ InHand(d),
         \/ UNCHANGED <<queue, job>>
         \/ \E j \in Jobs : queue' = Send(queue, j) /\ \A u \in Workers \ {w} : job'[u] = job[u],
         \A u \in Workers \ {w} : pc'[u] = pc[u],
         pc[w] \notin {"idle", "returned"} /\ DocOf(w) = d =>
             \/ pc'[w] \notin {"idle", "returned"} /\ job'[w] = job[w]
             \/ Waiting(d)'
  PROVE  Waiting(d)' \/ InHand(d)'
  <1>1. CASE Waiting(d)
    <2>1. PICK j \in Jobs : j.doc = d /\ queue[j] > 0
      BY <1>1 DEF Waiting
    <2>2. queue[j] \in Nat
      BY DEF TypeOK
    <2>3. queue'[j] > 0
      <3>1. CASE UNCHANGED queue
        BY <2>1, <3>1
      <3>2. ASSUME NEW k \in Jobs, queue' = Send(queue, k) PROVE queue'[j] > 0
        BY <2>1, <2>2, <3>2 DEF Send, TypeOK
      <3> QED BY <3>1, <3>2
    <2> QED BY <2>1, <2>3 DEF Waiting
  <1>2. CASE InHand(d)
    <2>1. PICK u \in Workers : pc[u] \notin {"idle", "returned"} /\ DocOf(u) = d
      BY <1>2 DEF InHand
    <2>2. CASE u = w
      BY <2>1, <2>2 DEF InHand, DocOf
    <2>3. CASE u # w
      <3>1. pc'[u] = pc[u] /\ job'[u] = job[u]
        BY <2>3
      <3> QED BY <2>1, <3>1 DEF InHand, DocOf
    <2> QED BY <2>2, <2>3
  <1> QED BY <1>1, <1>2

\* A message that is put into the queue waits there.
LEMMA SentWaits ==
  ASSUME TypeOK, NEW j \in Jobs, queue' = Send(queue, j)
  PROVE  Waiting(j.doc)'
  <1>1. queue'[j] > 0
    BY DEF TypeOK, Send
  <1> QED BY <1>1 DEF Waiting

LEMMA CarriedStep == IInv /\ UnsettledIsCarried /\ [Next]_vars => UnsettledIsCarried'
  <1> SUFFICES ASSUME IInv, UnsettledIsCarried, [Next]_vars, NEW d \in Docs, Unsettled(d)'
               PROVE  Waiting(d)' \/ InHand(d)'
    BY DEF UnsettledIsCarried
  <1> USE DEF rows, task
  <1>0. TypeOK
    BY DEF IInv
  <1>1. CASE UNCHANGED vars
    BY <1>1 DEF vars, UnsettledIsCarried, Unsettled, Waiting, InHand, DocOf
  <1>2. ASSUME NEW e \in Docs, Api(e) PROVE Waiting(d)' \/ InHand(d)'
    <2>1. CASE Enqueue(e) /\ e = d
      <3>1. [doc |-> d, retries |-> 0] \in Jobs
        BY DEF Jobs
      <3> QED BY <1>0, <2>1, <3>1, SentWaits DEF Enqueue
    <2>2. CASE Enqueue(e) /\ e # d
      <3>1. Waiting(d) \/ InHand(d)
        BY <1>0, <2>2 DEF Enqueue, UnsettledIsCarried, Unsettled, TypeOK
      <3>2. [doc |-> e, retries |-> 0] \in Jobs
        BY DEF Jobs
      <3>3. Waiting(d) => Waiting(d)'
        BY <1>0, <2>2, <3>2 DEF Enqueue, Waiting, Send, TypeOK
      <3>4. InHand(d) => InHand(d)'
        BY <2>2 DEF Enqueue, InHand, DocOf
      <3> QED BY <3>1, <3>3, <3>4
    <2>3. CASE SaveFile(e) \/ CommitRow(e) \/ AbandonUpload(e) \/ SoftDelete(e)
      <3>1. Unsettled(d) /\ UNCHANGED <<queue, task>>
        BY <1>0, <2>3 DEF SaveFile, CommitRow, AbandonUpload, SoftDelete, Unsettled, TypeOK
      <3> QED BY <3>1 DEF UnsettledIsCarried, Waiting, InHand, DocOf
    <2> QED BY <1>2, <2>1, <2>2, <2>3 DEF Api
  <1>3. ASSUME NEW w \in Workers, Work(w) \/ Fail(w) \/ LoseWorker(w) \/ Redeliver(w)
        PROVE  Waiting(d)' \/ InHand(d)'
    <2>1. Unsettled(d)
      BY <1>0, <1>3 DEF Unsettled, Work, Deliver, Fetch, MarkProcessing, ClearChunks, CommitReady, Retry, GiveUp,
            Ack, Fail, LoseWorker, Redeliver, TypeOK
    <2>2. Waiting(d) \/ InHand(d)
      BY <2>1 DEF UnsettledIsCarried
    <2>3. pc[w] # "idle" => job[w] \in Jobs /\ DocOf(w) \in Docs
      BY <1>0 DEF TypeOK, DocOf, Jobs
    <2>4. CASE \E j \in Jobs : Deliver(w, j)
      <3>1. PICK j \in Jobs : Deliver(w, j)
        BY <2>4
      <3>2. CASE j.doc = d
        BY <1>0, <3>1, <3>2 DEF Deliver, Goto, InHand, DocOf, TypeOK
      <3>3. CASE j.doc # d
        <4>1. Waiting(d) => Waiting(d)'
          BY <1>0, <3>1, <3>3 DEF Deliver, Receive, Waiting, TypeOK
        <4>2. InHand(d) => InHand(d)'
          BY <1>0, <3>1 DEF Deliver, Goto, InHand, DocOf, TypeOK
        <4> QED BY <2>2, <4>1, <4>2
      <3> QED BY <3>2, <3>3
    <2>5. CASE Fetch(w)
      <3>1. DocOf(w) = d => pc'[w] = "fetched"
        BY <1>0, <2>1, <2>5 DEF Fetch, Goto, TypeOK, Unsettled
      <3> QED BY <1>0, <2>2, <2>5, <3>1, StillCarried DEF Fetch, Goto, TypeOK
    <2>6. CASE MarkProcessing(w) \/ ClearChunks(w) \/ Fail(w)
      <3>1. UNCHANGED <<queue, job>> /\ pc'[w] \notin {"idle", "returned"} /\ \A u \in Workers \ {w} : pc'[u] = pc[u]
        BY <1>0, <2>6 DEF MarkProcessing, ClearChunks, Fail, Goto, TypeOK
      <3> QED BY <1>0, <2>2, <3>1, StillCarried
    <2>7. CASE CommitReady(w)
      <3>1. UNCHANGED <<queue, job>> /\ \A u \in Workers \ {w} : pc'[u] = pc[u]
        BY <1>0, <2>7 DEF CommitReady, Goto, TypeOK
      <3>2. DocOf(w) # d
        BY <1>0, <2>7 DEF CommitReady, TypeOK, Unsettled
      <3> QED BY <1>0, <2>2, <3>1, <3>2, StillCarried
    <2>8. CASE GiveUp(w)
      <3>1. UNCHANGED <<queue, job>> /\ \A u \in Workers \ {w} : pc'[u] = pc[u]
        BY <1>0, <2>8 DEF GiveUp, Goto, TypeOK
      <3>2. DocOf(w) # d
        BY <1>0, <2>8 DEF GiveUp, TypeOK, Unsettled
      <3> QED BY <1>0, <2>2, <3>1, <3>2, StillCarried
    <2>9. CASE Retry(w)
      <3> DEFINE j == [job[w] EXCEPT !.retries = @ + 1]
      <3>1. pc[w] = "failed" /\ job[w] \in Jobs
        BY <2>3, <2>9 DEF Retry
      <3>2. j \in Jobs /\ j.doc = DocOf(w)
        BY <2>9, <3>1 DEF Retry, Jobs, DocOf
      <3>3. queue' = Send(queue, j) /\ UNCHANGED job /\ \A u \in Workers \ {w} : pc'[u] = pc[u]
        BY <1>0, <2>9 DEF Retry, Goto, TypeOK
      <3> HIDE DEF j
      <3>4. DocOf(w) = d => Waiting(d)'
        BY <1>0, <3>2, <3>3, SentWaits
      <3> QED BY <1>0, <2>2, <3>2, <3>3, <3>4, StillCarried
    <2>10. CASE Ack(w)
      <3>1. pc[w] = "returned" /\ UNCHANGED queue /\ \A u \in Workers \ {w} : pc'[u] = pc[u] /\ job'[u] = job[u]
        BY <1>0, <2>10 DEF Ack, Goto, TypeOK
      <3> QED BY <2>2, <3>1 DEF Waiting, InHand, DocOf
    <2>11. CASE LoseWorker(w) \/ Redeliver(w)
      <3>1. /\ job[w] \in Jobs /\ queue' = Send(queue, job[w])
            /\ \A u \in Workers \ {w} : pc'[u] = pc[u] /\ job'[u] = job[u]
        BY <1>0, <2>3, <2>11 DEF LoseWorker, Redeliver, Goto, TypeOK
      <3>2. DocOf(w) = d => Waiting(d)'
        BY <1>0, <3>1, SentWaits DEF DocOf
      <3> QED BY <1>0, <2>2, <3>1, <3>2, StillCarried
    <2> QED BY <1>3, <2>4, <2>5, <2>6, <2>7, <2>8, <2>9, <2>10, <2>11 DEF Work
  <1> QED BY <1>1, <1>2, <1>3 DEF Next

\* A document whose task was published is READY, deleted or out of retries, or its task
\* is still in the queue or in the hands of a worker, whatever is lost, redelivered or
\* retried (acks_late and task_reject_on_worker_lost, celery_app.py:17-18).
THEOREM NoStrandedDocumentHolds == Spec => []NoStrandedDocument
<1>1. Init => UnsettledIsCarried
  BY DEF Init, UnsettledIsCarried, Unsettled
<1>2. Spec => []UnsettledIsCarried
  BY <1>1, CarriedStep, Inductive, PTL DEF Spec
<1>3. UnsettledIsCarried => NoStrandedDocument
  <2> SUFFICES ASSUME UnsettledIsCarried, NEW d \in Docs, Unsettled(d)
               PROVE  \/ \E r \in 0..MaxRetries : queue[[doc |-> d, retries |-> r]] > 0
                      \/ \E w \in Workers : pc[w] # "idle" /\ DocOf(w) = d
    BY DEF NoStrandedDocument, Unsettled
  <2>1. CASE Waiting(d)
    <3>1. PICK j \in Jobs : j.doc = d /\ queue[j] > 0
      BY <2>1 DEF Waiting
    <3>2. j = [doc |-> d, retries |-> j.retries] /\ j.retries \in 0..MaxRetries
      BY <3>1 DEF Jobs
    <3> QED BY <3>1, <3>2
  <2>2. CASE InHand(d)
    BY <2>2 DEF InHand
  <2> QED BY <2>1, <2>2 DEF UnsettledIsCarried
<1>4. QED
  BY <1>2, <1>3, PTL

-----------------------------------------------------------------------------
(* Who waits for a row lock. *)

\* A row lock belongs to a worker that is between the PROCESSING flush and the end of
\* its transaction, for that document: none is left behind by an exception or a lost
\* worker.
LocksHaveOwners == \A d \in Docs : lock[d] # NoWorker => pc[lock[d]] \in LockedSteps /\ DocOf(lock[d]) = d

LEMMA OwnersStep == IInv /\ LocksHaveOwners /\ [Next]_vars => LocksHaveOwners'
  <1> SUFFICES ASSUME IInv, LocksHaveOwners, [Next]_vars, NEW d \in Docs, lock'[d] # NoWorker
               PROVE  pc'[lock'[d]] \in LockedSteps /\ job'[lock'[d]].doc = d
    BY DEF LocksHaveOwners, DocOf
  <1> USE DEF rows, task
  <1>0. TypeOK /\ lock[d] \in Workers \cup {NoWorker}
    BY DEF IInv, TypeOK
  <1>1. lock[d] # NoWorker => lock[d] \in Workers /\ pc[lock[d]] \in LockedSteps /\ job[lock[d]].doc = d
    BY <1>0 DEF LocksHaveOwners, DocOf
  <1>2. CASE UNCHANGED vars
    BY <1>1, <1>2 DEF vars
  <1>3. ASSUME NEW e \in Docs, Api(e) PROVE pc'[lock'[d]] \in LockedSteps /\ job'[lock'[d]].doc = d
    BY <1>1, <1>3 DEF Api, SaveFile, CommitRow, Enqueue, AbandonUpload, SoftDelete
  <1>4. ASSUME NEW w \in Workers, Work(w) \/ Fail(w) \/ LoseWorker(w) \/ Redeliver(w)
        PROVE  pc'[lock'[d]] \in LockedSteps /\ job'[lock'[d]].doc = d
    <2>1. ASSUME NEW j \in Jobs, Deliver(w, j) PROVE pc'[lock'[d]] \in LockedSteps /\ job'[lock'[d]].doc = d
      BY <1>0, <1>1, <2>1 DEF Deliver, Goto, TypeOK, LockedSteps
    <2>2. CASE Fetch(w) \/ Retry(w) \/ GiveUp(w) \/ Ack(w) \/ Redeliver(w)
      BY <1>0, <1>1, <2>2 DEF Fetch, Retry, GiveUp, Ack, Redeliver, Goto, TypeOK, LockedSteps
    <2>3. CASE MarkProcessing(w)
      BY <1>0, <1>1, <2>3 DEF MarkProcessing, Goto, DocOf, TypeOK, LockedSteps
    <2>4. CASE ClearChunks(w)
      BY <1>0, <1>1, <2>4 DEF ClearChunks, Goto, TypeOK, LockedSteps
    <2>5. CASE CommitReady(w) \/ Fail(w) \/ LoseWorker(w)
      <3>1. Unlock(w) /\ \A u \in Workers \ {w} : pc'[u] = pc[u] /\ job'[u] = job[u]
        BY <1>0, <2>5 DEF CommitReady, Fail, LoseWorker, Goto, TypeOK
      <3>2. lock'[d] = lock[d] /\ lock[d] # w
        BY <3>1 DEF Unlock
      <3> QED BY <1>0, <1>1, <3>1, <3>2
    <2> QED BY <1>4, <2>1, <2>2, <2>3, <2>4, <2>5 DEF Work
  <1> QED BY <1>2, <1>3, <1>4 DEF Next

\* No transaction that is over keeps a document locked, so whoever waits for the row
\* lock (another delivery, or DELETE /documents) waits for a worker that is indexing
\* that document and itself waits for nobody (the safety half of EventuallySettled).
THEOREM LocksHaveOwnersHolds == Spec => []LocksHaveOwners
<1>1. Init => LocksHaveOwners
  BY DEF Init, LocksHaveOwners
<1>2. QED
  BY <1>1, OwnersStep, Inductive, PTL DEF Spec

-----------------------------------------------------------------------------
(* The refinement: a commit of a task is one Index step of DocumentIndex.  *)

Copies == [d \in Docs |-> Cardinality(chunks[d])]

\* Where the committed rows stay as they are, the abstract step is a stutter.
LEMMA Stutter ==
  ASSUME UNCHANGED rows
  PROVE  UNCHANGED Index!vars
  BY DEF rows, Index!vars

\* A worker's commit re-indexes its document and touches no other one.
LEMMA CommitIsIndex ==
  ASSUME IInv, IInv', NEW w \in Workers, CommitReady(w)
  PROVE  DocOf(w) \in Docs /\ Index!Index(DocOf(w))
<1> DEFINE d == DocOf(w)
<1>1. d \in Docs /\ status[d] \in {"pending", "ready"}
  BY DEF CommitReady, IInv, TypeOK, Jobs, DocOf, StatusCommitted, RowBeforeWork
<1>2. status' = [status EXCEPT ![d] = "ready"] /\ deleted' = deleted
  BY DEF CommitReady
<1>3. PICK g \in Generations : chunks' = [chunks EXCEPT ![d] = (@ \ victims[w]) \cup {g}]
  BY DEF CommitReady
<1>4. Cardinality(chunks'[d]) = 1
  <2>1. Single(chunks'[d]) /\ chunks'[d] # {}
    BY <1>1, <1>3 DEF IInv, TypeOK
  <2>2. QED
    BY <2>1, SingleCardinality
<1>5. \A e \in Docs : e # d => chunks'[e] = chunks[e]
  BY <1>3 DEF IInv, TypeOK
<1>6. Copies' = [Copies EXCEPT ![d] = 1]
  <2>1. Copies' = [e \in Docs |-> Cardinality(chunks'[e])]
    BY DEF Copies
  <2>2. [Copies EXCEPT ![d] = 1] = [e \in Docs |-> IF e = d THEN 1 ELSE Cardinality(chunks[e])]
    BY <1>1 DEF Copies
  <2>3. \A e \in Docs : Cardinality(chunks'[e]) = IF e = d THEN 1 ELSE Cardinality(chunks[e])
    BY <1>4, <1>5
  <2>4. QED
    BY <2>1, <2>2, <2>3
<1>7. QED
  BY <1>1, <1>2, <1>6 DEF Index!Index, Copies

\* DocumentIngest implements DocumentIndex: retries, duplicate deliveries, worker
\* losses and rollbacks are invisible in the index, which only ever sees uploads,
\* whole (re)indexings and deletions.
THEOREM ImplementsIndex == Spec => IndexSpec
<1>1. Init => Index!Init
  <2> SUFFICES ASSUME Init PROVE Index!Init
    OBVIOUS
  <2>1. \A d \in Docs : Cardinality(chunks[d]) = 0
    BY FS_EmptySet DEF Init
  <2>2. QED
    BY <2>1 DEF Init, Index!Init
<1>2. IInv /\ IInv' /\ [Next]_vars => [Index!Next]_(Index!vars)
  <2> SUFFICES ASSUME IInv, IInv', [Next]_vars PROVE Index!Next \/ UNCHANGED Index!vars
    OBVIOUS
  <2>1. CASE UNCHANGED vars
    BY <2>1, Stutter DEF vars
  <2>2. ASSUME NEW d \in Docs, SaveFile(d) \/ Enqueue(d) \/ AbandonUpload(d)
        PROVE  UNCHANGED Index!vars
    BY <2>2, Stutter DEF SaveFile, Enqueue, AbandonUpload
  <2>3. ASSUME NEW d \in Docs, CommitRow(d) PROVE Index!Upload(d)
    BY <2>3 DEF CommitRow, Index!Upload, IInv, RowBeforeWork
  <2>4. ASSUME NEW d \in Docs, SoftDelete(d) PROVE Index!Delete(d)
    BY <2>4 DEF SoftDelete, Index!Delete
  <2>5. ASSUME NEW w \in Workers, CommitReady(w) PROVE Index!Next
    BY <2>5, CommitIsIndex DEF Index!Next
  <2>6. ASSUME NEW w \in Workers, Work(w) \/ Fail(w) \/ LoseWorker(w) \/ Redeliver(w), ~CommitReady(w)
        PROVE  UNCHANGED Index!vars
    BY <2>6, Stutter DEF Work, Deliver, Fetch, MarkProcessing, ClearChunks, Fail, Retry, GiveUp, Ack,
        LoseWorker, Redeliver
  <2>7. QED
    BY <2>1, <2>2, <2>3, <2>4, <2>5, <2>6 DEF Next, Api, Index!Next
<1>3. QED
  BY <1>1, <1>2, Inductive, PTL DEF Spec, IndexSpec, Index!Spec
=============================================================================
