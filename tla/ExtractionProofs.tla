-------------------------- MODULE ExtractionProofs --------------------------
(***************************************************************************)
(* The extraction queue keeps its promises for every number of files,       *)
(* attempts, edits, crashes, upgrades and store errors.                     *)
(***************************************************************************)
EXTENDS Extraction, WorkQueueProofs

(* A worker that is not idle has a file in hand.                            *)
LEMMA WorkerHasFile ==
  ASSUME TypeOK, worker.at # "loop"
  PROVE  worker \in [at : {"start", "running"}, file : Files, got : Content]
  BY DEF TypeOK, Idle

(* Every variable keeps its type; above all, no attempt is counted beyond    *)
(* MAX_ATTEMPTS, since the files of a batch stay eligible until taken.      *)
THEOREM ExtractionTypeCorrect == Spec => []TypeOK
  <1>1. Init => TypeOK
    BY ExtractionAssumption, WorkQueueAssumption
    DEF Init, TypeOK, Content, Queue, EmptyQueue, Idle
  <1>2. TypeOK /\ [Next]_vars => TypeOK'
    <2> SUFFICES ASSUME TypeOK, [Next]_vars PROVE TypeOK'
      OBVIOUS
    <2> USE ExtractionAssumption DEF TypeOK
    <2>1. ASSUME NEW f \in Files, Write(f) PROVE TypeOK'
      <3>1. content' \in [Files -> Content] /\ edits' \in 0 .. MaxEdits
        BY <2>1 DEF Write, Content
      <3>2. QED
        BY <2>1, <3>1 DEF Write, extractor, history
    <2>2. CASE Boot
      <3>1. version' \in 1 .. MaxVersion
        BY <2>2 DEF Boot
      <3>2. QED
        BY <2>2, <3>1 DEF Boot, disk, extractor, counters, history
    <2>3. CASE Crash
      BY <2>3 DEF Crash, history
    <2>4. CASE InitialScan
      <3>1. recorded' \in [Files -> Content]
        BY <2>4 DEF InitialScan, Scanned
      <3>2. QED
        BY <2>4, <3>1 DEF InitialScan, disk, extractor, counters, history
    <2>5. CASE RequeueStaleRows
      <3>1. queue' \in Queue /\ Pending(queue) \subseteq Pending(queue')
        <4>1. Stale \in SUBSET Files /\ Fresh \in SUBSET Files
          BY DEF Stale, Fresh
        <4>2. queue' = RequeueStale(queue, Stale, Fresh)
          BY <2>5 DEF RequeueStaleRows
        <4>3. QED
          BY <4>1, <4>2, RequeueStaleKeeps
      <3>2. runs' \in [Files -> Nat]
        BY <2>5 DEF RequeueStaleRows
      <3>3. QED
        BY <2>5, <3>1, <3>2 DEF RequeueStaleRows, disk, extractor, counters
    <2>6. CASE RequeueFails
      BY <2>6 DEF RequeueFails, StoreError, disk, extractor, Backlog, Stale, Fresh
    <2>7. ASSUME NEW f \in Files, RecordPath(f) PROVE TypeOK'
      BY <2>7 DEF RecordPath, extractor, counters, history
    <2>8. CASE EnqueueForExtraction
      <3>1. observer \in Files
        BY <2>8 DEF EnqueueForExtraction
      <3>2. queue' \in Queue /\ Pending(queue) \subseteq Pending(queue')
        BY <2>8, <3>1, EnqueueAdds DEF EnqueueForExtraction
      <3>3. QED
        BY <2>8, <3>1, <3>2 DEF EnqueueForExtraction, disk, extractor, counters
    <2>9. CASE EnqueueFails
      BY <2>9 DEF EnqueueFails, StoreError, disk, extractor
    <2>10. CASE Rescan
      <3>1. recorded' \in [Files -> Content] /\ unqueued' \subseteq Files
        BY <2>10 DEF Rescan, Scanned, Existing
      <3>2. QED
        BY <2>10, <3>1 DEF Rescan, disk, extractor
    <2>11. CASE Poll
      <3>1. todo' \subseteq Pending(queue)
        BY <2>11, BatchesAreEligible DEF Poll
      <3>2. QED
        BY <2>11, <3>1 DEF Poll, disk, counters, history
    <2>12. ASSUME NEW f \in Files, Take(f) PROVE TypeOK'
      <3>1. f \in Pending(queue)
        BY <2>12 DEF Take
      <3>2. queue' \in Queue /\ todo' \subseteq Pending(queue')
        <4>1. \A g \in Pending(queue) \ {f} : g \in Pending(queue')
          BY <2>12, <3>1, RecordAttemptCounts DEF Take, Pending, Queued
        <4>2. QED
          BY <2>12, <3>1, <4>1, RecordAttemptCounts DEF Take
      <3>3. worker' \in [at : {"start", "running"}, file : Files, got : Content]
        BY <2>12 DEF Take, Content
      <3>4. QED
        BY <2>12, <3>2, <3>3 DEF Take, disk, counters
    <2>13. ASSUME NEW f \in Files, TakeFails(f) PROVE TypeOK'
      BY <2>13 DEF TakeFails, StoreError, disk, history
    <2>14. CASE Extract
      <3>1. worker \in [at : {"start", "running"}, file : Files, got : Content]
        BY <2>14, WorkerHasFile DEF Extract
      <3>2. /\ worker' \in [at : {"start", "running"}, file : Files, got : Content]
            /\ worker'.file = worker.file
        BY <2>14, <3>1 DEF Extract
      <3>3. worker.file \notin todo
        BY <2>14 DEF Extract, Idle
      <3>4. QED
        BY <2>14, <3>2, <3>3 DEF Extract, disk, counters, history
    <2>15. CASE Succeed
      <3>1. worker \in [at : {"start", "running"}, file : Files, got : Content]
        BY <2>15, WorkerHasFile DEF Succeed
      <3>2. metadata' \in [Files -> [content : Content, by : 0 .. MaxVersion]]
        BY <2>15, <3>1 DEF Succeed
      <3>3. queue' \in Queue /\ todo \subseteq Pending(queue')
        <4>1. worker.file \notin todo
          BY <2>15 DEF Idle, Succeed
        <4>2. queue' = Dequeue(queue, worker.file)
          BY <2>15 DEF Succeed
        <4>3. QED
          <5>1. queue' \in Queue /\ Queued(queue') = Queued(queue) \ {worker.file}
            BY <3>1, <4>2, DequeueRemoves
          <5>2. \A g \in Files \ {worker.file} : queue'[g] = queue[g]
            BY <3>1, <4>2, DequeueRemoves
          <5>3. todo \subseteq Queued(queue) /\ \A g \in todo : queue[g] < MaxAttempts
            BY DEF Pending
          <5>4. \A g \in todo : g \in Pending(queue')
            BY <4>1, <5>1, <5>2, <5>3 DEF Pending, Queued
          <5>5. QED
            BY <5>1, <5>4
      <3>4. QED
        BY <2>15, <3>2, <3>3 DEF Succeed, disk, counters, history
    <2>16. CASE Fail
      BY <2>16 DEF Fail, disk, counters, history
    <2>17. CASE Timeout
      BY <2>17, WorkerHasFile DEF Timeout, disk, counters, history
    <2>18. ASSUME NEW t \in abandoned, LateAnswer(t) PROVE TypeOK'
      BY <2>18 DEF LateAnswer, disk, counters, history
    <2>19. CASE UNCHANGED vars
      BY <2>19 DEF vars, disk, extractor, counters, history
    <2>20. QED
      BY <2>1, <2>2, <2>3, <2>4, <2>5, <2>6, <2>7, <2>8, <2>9, <2>10, <2>11, <2>12,
         <2>13, <2>14, <2>15, <2>16, <2>17, <2>18, <2>19 DEF Next, Observe, Work
  <1>3. QED
    BY <1>1, <1>2, PTL DEF Spec

(* A step that leaves the queue, the runs of its files or both as they were. *)
LEMMA RunsKept ==
  ASSUME RunsInv, UNCHANGED <<queue, runs>>
  PROVE  RunsInv'
  BY DEF RunsInv, Queued

(* The attempts in a row are the runs since the row was made or reset.      *)
LEMMA RunsInvariant == Spec => []RunsInv
  <1>1. Init => RunsInv
    BY WorkQueueAssumption DEF Init, RunsInv, Queued, EmptyQueue
  <1>2. TypeOK /\ RunsInv /\ [Next]_vars => RunsInv'
    <2> SUFFICES ASSUME TypeOK, RunsInv, [Next]_vars PROVE RunsInv'
      OBVIOUS
    <2>1. CASE RequeueStaleRows
      <3>1. Stale \in SUBSET Files /\ Fresh \in SUBSET Files /\ queue \in Queue
        BY DEF Stale, Fresh, TypeOK
      <3> DEFINE reset == Stale \cup (Fresh \ Queued(queue))
      <3>2. /\ Queued(queue') = Queued(queue) \cup Stale \cup Fresh
            /\ \A f \in Files : queue'[f] = IF f \in reset THEN 0 ELSE queue[f]
        <4>1. queue' = RequeueStale(queue, Stale, Fresh)
          BY <2>1 DEF RequeueStaleRows
        <4>2. Queued(queue') = Queued(queue) \cup Stale \cup Fresh
          BY <3>1, <4>1, RequeueStaleAdds
        <4>3. ASSUME NEW f \in Files
              PROVE  queue'[f] = IF f \in reset THEN 0 ELSE queue[f]
          <5>1. RequeueStale(queue, Stale, Fresh)[f]
                  = IF f \in Stale \cup (Fresh \ Queued(queue)) THEN 0 ELSE queue[f]
            BY <3>1, RequeueStaleResets
          <5>2. QED
            BY <4>1, <5>1
        <4>4. QED
          BY <4>2, <4>3
      <3>3. \A f \in Files : runs'[f] = IF f \in reset THEN 0 ELSE runs[f]
        BY <2>1 DEF RequeueStaleRows
      <3>4. QED
        BY <3>1, <3>2, <3>3, WorkQueueAssumption DEF RunsInv
    <2>2. CASE EnqueueForExtraction
      <3>1. observer \in Files /\ queue \in Queue
        BY <2>2 DEF EnqueueForExtraction, TypeOK
      <3>2. /\ Queued(queue') = Queued(queue) \cup {observer}
            /\ \A g \in Queued(queue) : queue'[g] = queue[g]
            /\ observer \notin Queued(queue) => queue'[observer] = 0
        BY <2>2, <3>1, EnqueueAdds DEF EnqueueForExtraction
      <3>3. \A f \in Files : runs'[f] = IF f = observer /\ f \notin Queued(queue)
                                        THEN 0 ELSE runs[f]
        BY <2>2, <3>1 DEF EnqueueForExtraction, TypeOK
      <3>4. QED
        BY <3>1, <3>2, <3>3, WorkQueueAssumption DEF RunsInv
    <2>3. ASSUME NEW f \in Files, Take(f) PROVE RunsInv'
      <3>1. f \in Pending(queue) /\ queue \in Queue
        BY <2>3 DEF Take, TypeOK
      <3>2. /\ Queued(queue') = Queued(queue)
            /\ queue'[f] = queue[f] + 1
            /\ \A g \in Files \ {f} : queue'[g] = queue[g]
        BY <2>3, <3>1, RecordAttemptCounts DEF Take
      <3>3. \A g \in Files : runs'[g] = IF g = f THEN runs[f] + 1 ELSE runs[g]
        BY <2>3 DEF Take, TypeOK
      <3>4. f \in Queued(queue) /\ queue[f] < MaxAttempts /\ runs[f] = queue[f]
        BY <3>1 DEF Pending, RunsInv
      <3>5. queue[f] + 1 <= MaxAttempts
        BY <3>1, <3>4, WorkQueueAssumption DEF Queue, Queued
      <3>6. QED
        BY <3>2, <3>3, <3>4, <3>5 DEF RunsInv
    <2>4. CASE Succeed
      <3>1. worker.file \in Files /\ queue \in Queue
        BY <2>4, WorkerHasFile DEF Succeed, TypeOK
      <3>2. /\ Queued(queue') = Queued(queue) \ {worker.file}
            /\ \A g \in Files \ {worker.file} : queue'[g] = queue[g]
        BY <2>4, <3>1, DequeueRemoves DEF Succeed
      <3>3. runs' = runs
        BY <2>4 DEF Succeed, history
      <3>4. QED
        BY <3>2, <3>3 DEF RunsInv
    <2>5. ASSUME NEW f \in Files, Write(f) \/ RecordPath(f) \/ TakeFails(f) PROVE RunsInv'
      BY <2>5, RunsKept DEF Write, RecordPath, TakeFails, history
    <2>6. CASE Boot \/ Crash \/ InitialScan \/ RequeueFails \/ EnqueueFails \/ Rescan
      BY <2>6, RunsKept DEF Boot, Crash, InitialScan, RequeueFails, EnqueueFails, Rescan, history
    <2>7. CASE Poll \/ Extract \/ Fail \/ Timeout
      BY <2>7, RunsKept DEF Poll, Extract, Fail, Timeout, history
    <2>8. ASSUME NEW t \in abandoned, LateAnswer(t) PROVE RunsInv'
      BY <2>8, RunsKept DEF LateAnswer, history
    <2>9. CASE UNCHANGED vars
      BY <2>9, RunsKept DEF vars, history
    <2>10. QED
      BY <2>1, <2>2, <2>3, <2>4, <2>5, <2>6, <2>7, <2>8, <2>9 DEF Next, Observe, Work
  <1>3. QED
    BY <1>1, <1>2, ExtractionTypeCorrect, PTL DEF Spec

(* The poison-file cap holds across crashes, timeouts and store errors.     *)
THEOREM ExtractionRunsBounded == Spec => []RunsBounded
  <1>1. RunsInv => RunsBounded
    BY DEF RunsInv, RunsBounded
  <1>2. QED
    BY <1>1, RunsInvariant, PTL

(* The startup pass and the enqueueing of changes leave out no file but      *)
(* those a failed enqueue or a later scan did.                              *)
THEOREM ExtractionBacklogIsQueued == Spec => []BacklogIsQueued
  <1>1. Init => BacklogIsQueued
    BY DEF Init, BacklogIsQueued
  <1>2. TypeOK /\ BacklogIsQueued /\ [Next]_vars => BacklogIsQueued'
    <2> SUFFICES ASSUME TypeOK, BacklogIsQueued, [Next]_vars PROVE BacklogIsQueued'
      OBVIOUS
    <2>0. queue \in Queue
      BY DEF TypeOK
    <2>1. CASE RequeueStaleRows
      <3>1. Stale \in SUBSET Files /\ Fresh \in SUBSET Files
        BY DEF Stale, Fresh
      <3>2. queue' = RequeueStale(queue, Stale, Fresh)
        BY <2>1 DEF RequeueStaleRows
      <3>3. Queued(queue') = Queued(queue) \cup Stale \cup Fresh
        BY <2>0, <3>1, <3>2, RequeueStaleAdds
      <3>4. Backlog' = Stale \cup Fresh
        BY <2>1 DEF RequeueStaleRows, Backlog, Stale, Fresh, Extracted
      <3>5. QED
        BY <3>3, <3>4 DEF BacklogIsQueued
    <2> USE DEF BacklogIsQueued, Backlog, Stale, Fresh, Extracted
    <2>2. CASE RequeueFails
      BY <2>2 DEF RequeueFails, Queued
    <2>3. ASSUME NEW f \in Files, RecordPath(f) PROVE BacklogIsQueued'
      <3>1. \A g \in Files \ {f} : recorded'[g] = recorded[g]
        BY <2>3 DEF RecordPath, TypeOK
      <3>2. recorded'[f] = content[f]
        BY <2>3 DEF RecordPath, TypeOK
      <3>3. f \in Fresh' => f \in Fresh \/ observer' = f
        BY <2>3, <3>2 DEF RecordPath
      <3>4. phase = "watch" /\ observer = Nobody
        BY <2>3 DEF RecordPath
      <3>5. Backlog \subseteq Queued(queue) \cup unqueued
        BY <3>4, ExtractionAssumption
      <3>6. metadata' = metadata /\ version' = version /\ queue' = queue /\ unqueued' = unqueued
        BY <2>3 DEF RecordPath, extractor, history
      <3>7. Stale' = Stale
        BY <3>6
      <3>8. Fresh' \subseteq Fresh \cup {observer'}
        BY <3>1, <3>3, <3>6
      <3>9. Queued(queue') = Queued(queue)
        BY <3>6
      <3>10. QED
        BY <3>5, <3>6, <3>7, <3>8, <3>9
    <2>4. CASE EnqueueForExtraction
      <3>1. observer \in Files
        BY <2>4 DEF EnqueueForExtraction, TypeOK
      <3>2. Queued(queue') = Queued(queue) \cup {observer}
        BY <2>0, <2>4, <3>1, EnqueueAdds DEF EnqueueForExtraction
      <3>3. QED
        BY <2>4, <3>2 DEF EnqueueForExtraction
    <2>5. CASE EnqueueFails
      BY <2>5 DEF EnqueueFails, Queued
    <2>6. CASE Rescan
      <3>1. PICK S \in SUBSET Existing :
              /\ recorded' = Scanned(S)
              /\ unqueued' = unqueued \cup {f \in S : recorded[f] # content[f]}
        BY <2>6 DEF Rescan
      <3>2. \A f \in Files : recorded'[f] # recorded[f] => f \in unqueued'
        BY <3>1 DEF Scanned, Existing
      <3>3. Backlog \subseteq Queued(queue) \cup unqueued
        BY <2>6, ExtractionAssumption DEF Rescan
      <3>4. metadata' = metadata /\ version' = version /\ queue' = queue
        BY <2>6 DEF Rescan
      <3>5. Backlog' \subseteq Backlog \cup unqueued'
        BY <3>2, <3>4
      <3>6. Queued(queue') = Queued(queue) /\ unqueued \subseteq unqueued'
        BY <3>1, <3>4
      <3>7. QED
        BY <3>3, <3>5, <3>6
    <2>7. ASSUME NEW f \in Files, Take(f) PROVE BacklogIsQueued'
      <3>1. f \in Pending(queue)
        BY <2>7 DEF Take, TypeOK
      <3>2. Queued(queue') = Queued(queue)
        BY <2>0, <2>7, <3>1, RecordAttemptCounts DEF Take
      <3>3. QED
        BY <2>7, <3>2 DEF Take
    <2>8. CASE Succeed
      <3>1. worker.file \in Files
        BY <2>8, WorkerHasFile DEF Succeed
      <3>2. Queued(queue') = Queued(queue) \ {worker.file}
        BY <2>0, <2>8, <3>1, DequeueRemoves DEF Succeed
      <3>3. /\ \A g \in Files \ {worker.file} : metadata'[g] = metadata[g]
            /\ metadata'[worker.file].by = version
        BY <2>8, <3>1 DEF Succeed, TypeOK
      <3>4. worker.file \notin Backlog'
        BY <2>8, <3>3 DEF Succeed, TypeOK
      <3>5. QED
        BY <2>8, <3>2, <3>3, <3>4 DEF Succeed, history
    <2>9. ASSUME NEW f \in Files, Write(f) \/ TakeFails(f) PROVE BacklogIsQueued'
      BY <2>9 DEF Write, TakeFails, Queued, history
    <2>10. CASE Boot \/ Crash \/ InitialScan
      BY <2>10 DEF Boot, Crash, InitialScan
    <2>11. CASE Poll \/ Extract \/ Fail \/ Timeout
      BY <2>11 DEF Poll, Extract, Fail, Timeout, Queued, history
    <2>12. ASSUME NEW t \in abandoned, LateAnswer(t) PROVE BacklogIsQueued'
      BY <2>12 DEF LateAnswer, Queued, history
    <2>13. CASE UNCHANGED vars
      BY <2>13 DEF vars, Queued, history
    <2>14. QED
      BY <2>1, <2>2, <2>3, <2>4, <2>5, <2>6, <2>7, <2>8, <2>9, <2>10, <2>11, <2>12, <2>13
      DEF Next, Observe, Work
  <1>3. QED
    BY <1>1, <1>2, ExtractionTypeCorrect, PTL DEF Spec

(* A step that touches neither files, metadata nor worker keeps their ages.  *)
LEMMA AgeKept ==
  ASSUME AgeInv, UNCHANGED <<content, metadata, worker, version, edits>>
  PROVE  AgeInv'
  BY DEF AgeInv

(* What the worker read is between the metadata and the file in age.        *)
LEMMA AgeInvariant == Spec => []AgeInv
  <1>1. Init => AgeInv
    BY DEF Init, AgeInv, Idle
  <1>2. TypeOK /\ AgeInv /\ [Next]_vars => AgeInv'
    <2> SUFFICES ASSUME TypeOK, AgeInv, [Next]_vars PROVE AgeInv'
      OBVIOUS
    <2>0. /\ content \in [Files -> Nat]
          /\ metadata \in [Files -> [content : Nat, by : Nat]]
          /\ version \in Nat /\ edits \in Nat
      BY DEF TypeOK, Content
    <2>1. ASSUME NEW f \in Files, Write(f) PROVE AgeInv'
      <3>1. \A g \in Files : content'[g] = content[g] \/ content'[g] \in {0, edits'}
        BY <2>0, <2>1 DEF Write
      <3>2. edits' = edits + 1 /\ UNCHANGED <<metadata, worker, version>>
        BY <2>1 DEF Write, extractor
      <3>3. worker.at = "running" => worker.file \in Files /\ worker.got \in Nat
        BY WorkerHasFile DEF Content
      <3>4. ASSUME NEW g \in Files
            PROVE  /\ metadata[g].content <= edits'
                   /\ content'[g] # 0 => metadata[g].content <= content'[g]
                   /\ metadata[g].by <= version
                   /\ content'[g] <= edits'
        BY <2>0, <3>1, <3>2 DEF AgeInv
      <3>5. ASSUME worker.at = "running", worker.got # 0
            PROVE  /\ metadata[worker.file].content <= worker.got
                   /\ worker.got <= edits'
                   /\ content'[worker.file] # 0 => worker.got <= content'[worker.file]
        BY <2>0, <3>1, <3>2, <3>3, <3>5 DEF AgeInv
      <3>6. QED
        BY <3>2, <3>4, <3>5 DEF AgeInv
    <2>2. CASE Boot
      <3>1. version' \in Nat /\ version <= version'
        BY <2>0, <2>2 DEF Boot
      <3>2. UNCHANGED <<content, metadata, worker, edits>>
        BY <2>2 DEF Boot, disk, extractor, counters
      <3>3. QED
        BY <2>0, <3>1, <3>2 DEF AgeInv
    <2>3. CASE Crash
      BY <2>3 DEF Crash, AgeInv, Idle
    <2>4. ASSUME NEW f \in Files, Take(f) PROVE AgeInv'
      BY <2>4 DEF Take, AgeInv, disk, counters
    <2>5. CASE Extract
      <3>1. worker.file \in Files
        BY <2>5, WorkerHasFile DEF Extract
      <3>2. worker'.file = worker.file /\ worker'.got = content[worker.file]
        BY <2>5, WorkerHasFile DEF Extract
      <3>3. UNCHANGED <<content, metadata, version, edits>>
        BY <2>5 DEF Extract, disk, counters
      <3>4. QED
        BY <2>0, <3>1, <3>2, <3>3 DEF AgeInv
    <2>6. CASE Succeed
      <3>1. worker.file \in Files /\ worker.got \in Nat
        BY <2>6, WorkerHasFile DEF Succeed, Content
      <3>2. \A g \in Files : metadata'[g] = IF g = worker.file
                                            THEN [content |-> worker.got, by |-> version]
                                            ELSE metadata[g]
        BY <2>0, <2>6 DEF Succeed
      <3>3. worker'.at = "loop" /\ UNCHANGED <<content, version, edits>>
        BY <2>6 DEF Succeed, Idle, disk, counters
      <3>4. QED
        BY <2>0, <2>6, <3>1, <3>2, <3>3 DEF AgeInv, Succeed
    <2>7. CASE Fail \/ Timeout
      BY <2>7 DEF Fail, Timeout, AgeInv, Idle, disk, counters
    <2>8. CASE InitialScan \/ RequeueStaleRows \/ RequeueFails \/ EnqueueForExtraction
               \/ EnqueueFails \/ Rescan \/ Poll
      BY <2>8, AgeKept DEF InitialScan, RequeueStaleRows, RequeueFails,
         EnqueueForExtraction, EnqueueFails, Rescan, Poll, StoreError, disk, extractor, counters
    <2>9. ASSUME NEW f \in Files, RecordPath(f) \/ TakeFails(f) PROVE AgeInv'
      BY <2>9, AgeKept DEF RecordPath, TakeFails, StoreError, disk, extractor, counters
    <2>10. ASSUME NEW t \in abandoned, LateAnswer(t) PROVE AgeInv'
      BY <2>10, AgeKept DEF LateAnswer, disk, counters
    <2>11. CASE UNCHANGED vars
      BY <2>11, AgeKept DEF vars, disk, extractor, counters
    <2>12. QED
      BY <2>1, <2>2, <2>3, <2>4, <2>5, <2>6, <2>7, <2>8, <2>9, <2>10, <2>11
      DEF Next, Observe, Work
  <1>3. QED
    BY <1>1, <1>2, ExtractionTypeCorrect, PTL DEF Spec

(* No metadata row ever goes back in time.                                  *)
THEOREM ExtractionMetadataAdvances == Spec => MetadataAdvances
  <1>1. TypeOK /\ AgeInv /\ [Next]_vars => [NeverOlder]_vars
    <2> SUFFICES ASSUME TypeOK, AgeInv, [Next]_vars PROVE NeverOlder \/ UNCHANGED vars
      OBVIOUS
    <2>0. metadata \in [Files -> [content : Nat, by : Nat]] /\ version \in Nat
      BY DEF TypeOK, Content
    <2>1. CASE metadata' = metadata
      BY <2>0, <2>1 DEF NeverOlder
    <2>2. CASE Succeed
      <3>1. worker.file \in Files /\ worker.got \in Nat
        BY <2>2, WorkerHasFile DEF Succeed, Content
      <3>2. \A g \in Files : metadata'[g] = IF g = worker.file
                                            THEN [content |-> worker.got, by |-> version]
                                            ELSE metadata[g]
        BY <2>0, <2>2 DEF Succeed
      <3>3. QED
        BY <2>0, <2>2, <3>1, <3>2 DEF NeverOlder, AgeInv, Succeed
    <2>3. QED
      BY <2>1, <2>2 DEF Next, Observe, Work, Write, Boot, Crash, InitialScan,
         RequeueStaleRows, RequeueFails, RecordPath, EnqueueForExtraction, EnqueueFails,
         Rescan, Poll, Take, TakeFails, Extract, Fail, Timeout, LateAnswer
  <1>2. QED
    BY <1>1, ExtractionTypeCorrect, AgeInvariant, PTL DEF Spec, MetadataAdvances
=============================================================================
