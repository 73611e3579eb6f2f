--------------------------- MODULE PipelineProofs ---------------------------
(***************************************************************************)
(* The two queues that follow extraction keep their promises for every      *)
(* number of files, attempts, models, extractions, crashes and errors.      *)
(***************************************************************************)
EXTENDS Pipeline, WorkQueueProofs

(* A worker past "took" or at it has a file in hand.                        *)
LEMMA BusyWorker ==
  ASSUME TypeOK, NEW s \in Stages, worker[s].at \in {"took", "calling"}
  PROVE  worker[s] \in Busy
  <1>1. worker[s] \in Waiting \cup Busy
    BY DEF TypeOK
  <1>2. worker[s] \notin Waiting
    BY DEF Waiting, At, Idle
  <1>3. QED
    BY <1>1, <1>2

(* A thread waiting or starting holds no file.                              *)
LEMMA WaitingTypes ==
  ASSUME NEW where \in {"off", "start", "loop"}
  PROVE  At(where) \in Waiting /\ At(where).file = Nobody /\ At(where).at = where
  BY DEF At, Waiting, Idle

(* Setting one worker keeps the types of all.                               *)
LEMMA BecomeTypes ==
  ASSUME TypeOK, NEW s \in Stages, NEW w \in Waiting \cup Busy, Become(s, w)
  PROVE  /\ worker' \in [Stages -> Waiting \cup Busy]
         /\ worker'[s] = w
         /\ \A t \in Stages \ {s} : worker'[t] = worker[t]
  BY DEF TypeOK, Become

(* Replacing one queue by one in which every eligible file still is.        *)
LEMMA QueueTypes ==
  ASSUME TypeOK, NEW s \in Stages, NEW q \in Queue,
         queue' = [queue EXCEPT ![s] = q], todo' \in [Stages -> SUBSET Files],
         todo'[s] \subseteq Pending(q), \A t \in Stages \ {s} : todo'[t] \subseteq todo[t]
  PROVE  /\ queue' \in [Stages -> Queue]
         /\ \A t \in Stages : todo'[t] \subseteq Pending(queue'[t])
  <1>1. queue' \in [Stages -> Queue] /\ queue'[s] = q
    BY DEF TypeOK
  <1>2. \A t \in Stages \ {s} : queue'[t] = queue[t]
    BY DEF TypeOK
  <1>3. \A t \in Stages \ {s} : todo'[t] \subseteq Pending(queue'[t])
    BY <1>2 DEF TypeOK
  <1>4. QED
    BY <1>1, <1>3

(* Dequeueing keeps the other files eligible.                               *)
LEMMA DequeueKeeps ==
  ASSUME NEW q \in Queue, NEW f \in Files
  PROVE  Pending(q) \ {f} \subseteq Pending(Dequeue(q, f))
  BY DEF Dequeue, Queue, Pending, Queued

(* So does recording an attempt.                                            *)
LEMMA AttemptKeeps ==
  ASSUME NEW q \in Queue, NEW f \in Pending(q)
  PROVE  Pending(q) \ {f} \subseteq Pending(RecordAttempt(q, f))
  BY DEF RecordAttempt, Queue, Pending, Queued

LEMMA StaleIsOfFiles == Stale \in SUBSET Files
  BY DEF Stale

(* The parts of TypeOK the steps of the two workers' loops can disturb.     *)
WorkTypes ==
  /\ queue \in [Stages -> Queue]
  /\ results \in [Stages -> [Files -> [from : Extractions, by : Makers]]]
  /\ worker \in [Stages -> Waiting \cup Busy]
  /\ todo \in [Stages -> SUBSET Files]
  /\ \A s \in Stages : worker[s].file \notin todo[s]
  /\ \A s \in Stages : todo[s] \subseteq Pending(queue[s])
  /\ faults \in 0 .. MaxFaults
  /\ calls \in [Stages -> [Files -> Nat]]
  /\ overtaken \in [Stages -> SUBSET Files]

(* A step of a worker's loop changes nothing else.                          *)
LEMMA WorkLeaves ==
  ASSUME TypeOK, NEW s \in Stages, Work(s), WorkTypes'
  PROVE  TypeOK'
  <1>1. UNCHANGED <<metadata, table, up, config, handing, version, extractions, crashes,
                    missed>>
    BY DEF Work, Poll, Take, TakeFails, ReadText, NoText, Answer, Fail, StoreError,
           database, counters, history
  <1>2. QED
    BY <1>1 DEF TypeOK, WorkTypes

LEMMA WorkKeepsTypes ==
  ASSUME TypeOK, NEW s \in Stages, Work(s)
  PROVE  TypeOK'
  <1> USE PipelineAssumption
  <1>1. CASE Poll(s)
    <2>1. PICK B \in Batches(queue[s]) : todo' = [todo EXCEPT ![s] = B]
      BY <1>1 DEF Poll
    <2>2. B \subseteq Pending(queue[s])
      BY BatchesAreEligible
    <2>3. B \subseteq Files
      BY <2>2 DEF Pending, Queued
    <2>4. worker[s].file = Nobody
      BY <1>1, WaitingTypes DEF Poll, Idle
    <2>5. WorkTypes'
      BY <1>1, <2>1, <2>2, <2>3, <2>4
      DEF Poll, TypeOK, WorkTypes, database, counters, history
    <2>6. QED
      BY <2>5, WorkLeaves
  <1>2. ASSUME NEW f \in Files, Take(s, f) PROVE TypeOK'
    <2> DEFINE w == [at |-> "took", file |-> f, got |-> 0]
    <2>1. w \in Busy /\ w.file = f
      BY DEF Busy, Extractions
    <2>2. /\ worker' \in [Stages -> Waiting \cup Busy]
          /\ worker'[s] = w
          /\ \A t \in Stages \ {s} : worker'[t] = worker[t]
      BY <1>2, <2>1, BecomeTypes DEF Take
    <2>3. f \in Pending(queue[s]) /\ queue[s] \in Queue
      BY <1>2 DEF Take, TypeOK
    <2>4. /\ todo' \in [Stages -> SUBSET Files]
          /\ todo'[s] = todo[s] \ {f}
          /\ \A t \in Stages \ {s} : todo'[t] = todo[t]
      BY <1>2 DEF Take, TypeOK
    <2>5. todo'[s] \subseteq Pending(RecordAttempt(queue[s], f))
      BY <2>3, <2>4, AttemptKeeps DEF TypeOK
    <2>6. /\ queue' \in [Stages -> Queue]
          /\ \A t \in Stages : todo'[t] \subseteq Pending(queue'[t])
      BY <1>2, <2>3, <2>4, <2>5, RecordAttemptCounts, QueueTypes DEF Take
    <2>7. calls' \in [Stages -> [Files -> Nat]]
      BY <1>2 DEF Take, TypeOK
    <2>8. \A t \in Stages : worker'[t].file \notin todo'[t]
      BY <2>1, <2>2, <2>4 DEF TypeOK
    <2>9. WorkTypes'
      BY <1>2, <2>2, <2>4, <2>6, <2>7, <2>8 DEF Take, TypeOK, WorkTypes, counters
    <2>10. QED
      BY <1>2, <2>9, WorkLeaves
  <1>3. ASSUME NEW f \in Files, TakeFails(s, f) PROVE TypeOK'
    <2>1. WorkTypes'
      BY <1>3 DEF TakeFails, StoreError, TypeOK, WorkTypes, database, history
    <2>2. QED
      BY <1>3, <2>1, WorkLeaves
  <1>4. CASE ReadText(s)
    <2> DEFINE w == [worker[s] EXCEPT !.at = "calling", !.got = metadata[worker[s].file].from]
    <2>1. worker[s] \in Busy
      BY <1>4, BusyWorker DEF ReadText
    <2>2. w \in Busy /\ w.file = worker[s].file
      BY <2>1 DEF Busy, TypeOK
    <2>3. /\ worker' \in [Stages -> Waiting \cup Busy]
          /\ worker'[s] = w
          /\ \A t \in Stages \ {s} : worker'[t] = worker[t]
      BY <1>4, <2>2, BecomeTypes DEF ReadText
    <2>4. WorkTypes'
      BY <1>4, <2>2, <2>3 DEF ReadText, TypeOK, WorkTypes, database, counters, history
    <2>5. QED
      BY <2>4, WorkLeaves
  <1>5. ASSUME Become(s, Idle), UNCHANGED <<database, todo, counters, history>>
        PROVE  WorkTypes'
    <2>1. Idle \in Waiting /\ Idle.file = Nobody
      BY WaitingTypes DEF Idle
    <2>2. /\ worker' \in [Stages -> Waiting \cup Busy]
          /\ worker'[s] = Idle
          /\ \A t \in Stages \ {s} : worker'[t] = worker[t]
      BY <1>5, <2>1, BecomeTypes
    <2>3. \A t \in Stages : worker'[t].file \notin todo'[t]
      BY <1>5, <2>1, <2>2 DEF TypeOK
    <2>4. QED
      BY <1>5, <2>2, <2>3 DEF TypeOK, WorkTypes, database, counters, history
  <1>6. CASE NoText(s)
    BY <1>5, <1>6, WorkLeaves DEF NoText
  <1>7. CASE Fail(s)
    BY <1>5, <1>7, WorkLeaves DEF Fail
  <1>8. CASE Answer(s)
    <2> DEFINE f == worker[s].file
    <2>1. worker[s] \in Busy
      BY <1>8, BusyWorker DEF Answer
    <2>2. f \in Files /\ worker[s].got \in Extractions /\ config[s] \in Makers
      BY <2>1 DEF Busy, TypeOK, Makers, Stages
    <2>3. results' \in [Stages -> [Files -> [from : Extractions, by : Makers]]]
      BY <1>8, <2>2 DEF Answer, TypeOK
    <2>4. Dequeue(queue[s], f) \in Queue /\ queue[s] \in Queue
      BY <2>2, DequeueRemoves DEF TypeOK
    <2>5. todo'[s] \subseteq Pending(Dequeue(queue[s], f))
      BY <1>8, <2>2, <2>4, DequeueKeeps DEF Answer, TypeOK
    <2>6. /\ queue' \in [Stages -> Queue]
          /\ \A t \in Stages : todo'[t] \subseteq Pending(queue'[t])
      BY <1>8, <2>4, <2>5, QueueTypes DEF Answer, TypeOK
    <2>7. Idle \in Waiting /\ Idle.file = Nobody
      BY WaitingTypes DEF Idle
    <2>8. /\ worker' \in [Stages -> Waiting \cup Busy]
          /\ worker'[s] = Idle
          /\ \A t \in Stages \ {s} : worker'[t] = worker[t]
      BY <1>8, <2>7, BecomeTypes DEF Answer
    <2>9. \A t \in Stages : worker'[t].file \notin todo'[t]
      BY <1>8, <2>7, <2>8 DEF Answer, TypeOK
    <2>10. overtaken' \in [Stages -> SUBSET Files]
      BY <1>8, <2>2 DEF Answer, TypeOK
    <2>11. WorkTypes'
      BY <1>8, <2>3, <2>6, <2>8, <2>9, <2>10 DEF Answer, TypeOK, WorkTypes, counters
    <2>12. QED
      BY <2>11, WorkLeaves
  <1>9. QED
    BY <1>1, <1>2, <1>3, <1>4, <1>6, <1>7, <1>8 DEF Work

(* A step of the extraction worker changes nothing but what it hands on.    *)
LEMMA HandOverKeepsTypes ==
  ASSUME TypeOK, NEW s \in Stages, HandOver(s)
  PROVE  TypeOK'
  <1> DEFINE f == handing.file
             q == Enqueue(queue[s], f)
  <1>1. f \in Files /\ handing \in [file : Files, next : Stages]
    BY PipelineAssumption DEF HandOver, TypeOK, NoFile
  <1>2. queue[s] \in Queue
    BY DEF TypeOK
  <1>3. q \in Queue /\ Pending(queue[s]) \subseteq Pending(q)
    BY <1>1, <1>2, EnqueueAdds
  <1>4. /\ queue' \in [Stages -> Queue]
        /\ \A t \in Stages : todo'[t] \subseteq Pending(queue'[t])
    BY <1>3, QueueTypes DEF HandOver, TypeOK
  <1>5. handing' = NoFile \/ handing' \in [file : Files, next : Stages]
    BY <1>1 DEF HandOver, NextStage, Stages
  <1>6. calls' \in [Stages -> [Files -> Nat]]
    BY <1>1 DEF HandOver, TypeOK
  <1>7. missed' \in [Stages -> SUBSET Files] /\ overtaken' \in [Stages -> SUBSET Files]
    BY DEF HandOver, TypeOK
  <1>8. QED
    BY <1>4, <1>5, <1>6, <1>7 DEF HandOver, TypeOK, counters

(* All variables keep their types; above all, no attempt is counted beyond   *)
(* MAX_ATTEMPTS in either queue, and no batch holds the file in hand.       *)
THEOREM PipelineTypeCorrect == Spec => []TypeOK
  <1>1. Init => TypeOK
    <2> SUFFICES ASSUME Init PROVE TypeOK
      OBVIOUS
    <2> USE PipelineAssumption DEF ForStages
    <2>1. EmptyQueue \in Queue /\ Pending(EmptyQueue) = {}
      BY WorkQueueAssumption DEF EmptyQueue, Queue, Pending, Queued
    <2>2. /\ queue = [s \in Stages |-> EmptyQueue]
          /\ todo = [s \in Stages |-> {}]
          /\ worker = [s \in Stages |-> At("off")]
      BY DEF Init
    <2>3. /\ queue \in [Stages -> Queue]
          /\ \A s \in Stages : todo[s] \subseteq Pending(queue[s])
          /\ todo \in [Stages -> SUBSET Files]
      BY <2>1, <2>2
    <2>4. /\ worker \in [Stages -> Waiting \cup Busy]
          /\ \A s \in Stages : worker[s].file \notin todo[s]
      BY <2>2, WaitingTypes
    <2>5. /\ metadata \in [Files -> [from : Extractions, text : {"none", "short", "long"}]]
          /\ results \in [Stages -> [Files -> [from : Extractions, by : Makers]]]
      BY DEF Init, Extractions, Makers
    <2>6. /\ config \in [enrich : 0 .. MaxVersion, embed : 0 .. MaxModels]
          /\ table \in 0 .. MaxModels
          /\ extractions \in Extractions
      BY DEF Init, Extractions, Off
    <2>7. /\ calls \in [Stages -> [Files -> Nat]]
          /\ missed \in [Stages -> SUBSET Files]
          /\ overtaken \in [Stages -> SUBSET Files]
      BY DEF Init
    <2>8. version \in 1 .. MaxVersion /\ crashes \in 0 .. MaxCrashes /\ faults \in 0 .. MaxFaults
      BY DEF Init
    <2>9. up \in BOOLEAN /\ handing = NoFile
      BY DEF Init
    <2>10. QED
      BY <2>3, <2>4, <2>5, <2>6, <2>7, <2>8, <2>9, Zenon DEF TypeOK
  <1>2. TypeOK /\ [Next]_vars => TypeOK'
    <2> SUFFICES ASSUME TypeOK, [Next]_vars PROVE TypeOK'
      OBVIOUS
    <2> USE PipelineAssumption
    <2>1. CASE Boot
      <3>1. version' \in 1 .. MaxVersion
        BY <2>1 DEF Boot, TypeOK
      <3>2. config' \in [enrich : 0 .. MaxVersion, embed : 0 .. MaxModels]
        BY <2>1, <3>1 DEF Boot, Configurations, Off
      <3>3. worker' = [s \in Stages |-> IF config'[s] = Off THEN At("off") ELSE At("start")]
        BY <2>1 DEF Boot
      <3>4. \A s \in Stages : worker'[s] \in Waiting /\ worker'[s].file = Nobody
        BY <3>3, WaitingTypes
      <3>5. QED
        BY <2>1, <3>1, <3>2, <3>3, <3>4 DEF Boot, TypeOK, database, counters, history
    <2>2. CASE Crash
      <3>1. missed' \in [Stages -> SUBSET Files]
        BY <2>2 DEF Crash, TypeOK, InHand
      <3>2. worker' = [s \in Stages |-> At("off")] /\ todo' = [s \in Stages |-> {}]
        BY <2>2 DEF Crash, ForStages
      <3>3. \A s \in Stages : worker'[s] \in Waiting /\ worker'[s].file = Nobody
        BY <3>2, WaitingTypes
      <3>4. config' \in [enrich : 0 .. MaxVersion, embed : 0 .. MaxModels]
        BY <2>2 DEF Crash, Off
      <3>5. crashes' \in 0 .. MaxCrashes
        BY <2>2 DEF Crash, TypeOK
      <3>6. QED
        BY <2>2, <3>1, <3>2, <3>3, <3>4, <3>5 DEF Crash, TypeOK, database
    <2>3. ASSUME NEW f \in Files, RecordExtraction(f) PROVE TypeOK'
      <3>1. metadata' \in [Files -> [from : Extractions, text : {"none", "short", "long"}]]
        BY <2>3 DEF RecordExtraction, TypeOK, Extractions
      <3>2. extractions' \in Extractions /\ handing' \in [file : Files, next : Stages]
        BY <2>3 DEF RecordExtraction, TypeOK, Extractions, Stages
      <3>3. QED
        BY <2>3, <3>1, <3>2 DEF RecordExtraction, TypeOK, history
    <2>4. ASSUME NEW s \in Stages, HandOver(s) PROVE TypeOK'
      BY <2>4, HandOverKeepsTypes
    <2>5. ASSUME NEW s \in Stages, PassOver(s) PROVE TypeOK'
      <3>1. handing \in [file : Files, next : Stages]
        BY <2>5 DEF PassOver, TypeOK, NoFile
      <3>2. handing' = NoFile \/ handing' \in [file : Files, next : Stages]
        BY <2>5, <3>1 DEF PassOver, NextStage, Stages
      <3>3. missed' \in [Stages -> SUBSET Files]
        BY <2>5, <3>1 DEF PassOver, TypeOK
      <3>4. QED
        BY <2>5, <3>2, <3>3 DEF PassOver, TypeOK, database, counters
    <2>6. ASSUME NEW s \in Stages, HandOverFails(s) PROVE TypeOK'
      <3>1. handing \in [file : Files, next : Stages]
        BY <2>6 DEF HandOverFails, TypeOK, NoFile
      <3>2. handing' = NoFile \/ handing' \in [file : Files, next : Stages]
        BY <2>6, <3>1 DEF HandOverFails, NextStage, Stages
      <3>3. missed' \in [Stages -> SUBSET Files]
        BY <2>6, <3>1 DEF HandOverFails, TypeOK
      <3>4. QED
        BY <2>6, <3>2, <3>3 DEF HandOverFails, StoreError, TypeOK, database
    <2>7. ASSUME NEW s \in Stages, NEW where \in {"off", "loop"}, Become(s, At(where))
          PROVE  /\ worker' \in [Stages -> Waiting \cup Busy]
                 /\ \A t \in Stages : worker'[t].file \notin todo[t]
      <3>1. At(where) \in Waiting /\ At(where).file = Nobody
        BY WaitingTypes
      <3>2. /\ worker' \in [Stages -> Waiting \cup Busy]
            /\ worker'[s] = At(where)
            /\ \A t \in Stages \ {s} : worker'[t] = worker[t]
        BY <2>7, <3>1, BecomeTypes
      <3>3. QED
        BY <3>1, <3>2 DEF TypeOK
    <2>8. CASE StartEnrich
      <3>1. "enrich" \in Stages /\ queue["enrich"] \in Queue
        BY DEF TypeOK, Stages
      <3>2. /\ RequeueStale(queue["enrich"], Stale, {}) \in Queue
            /\ Pending(queue["enrich"])
                 \subseteq Pending(RequeueStale(queue["enrich"], Stale, {}))
        BY <3>1, StaleIsOfFiles, RequeueStaleKeeps
      <3>3. /\ queue' \in [Stages -> Queue]
            /\ \A t \in Stages : todo'[t] \subseteq Pending(queue'[t])
        BY <2>8, <3>1, <3>2, QueueTypes DEF StartEnrich, TypeOK
      <3>4. calls' \in [Stages -> [Files -> Nat]]
        BY <2>8, <3>1 DEF StartEnrich, TypeOK
      <3>5. /\ worker' \in [Stages -> Waiting \cup Busy]
            /\ \A t \in Stages : worker'[t].file \notin todo[t]
        BY <2>7, <2>8, <3>1 DEF StartEnrich, Idle
      <3>6. QED
        BY <2>8, <3>3, <3>4, <3>5 DEF StartEnrich, TypeOK, counters
    <2>9. CASE StartEnrichFails
      <3>1. missed' \in [Stages -> SUBSET Files]
        BY <2>9, StaleIsOfFiles DEF StartEnrichFails, TypeOK
      <3>2. /\ worker' \in [Stages -> Waiting \cup Busy]
            /\ \A t \in Stages : worker'[t].file \notin todo[t]
        BY <2>7, <2>9 DEF StartEnrichFails, Idle, Stages
      <3>3. QED
        BY <2>9, <3>1, <3>2 DEF StartEnrichFails, StoreError, TypeOK, database
    <2>10. CASE StartEmbed
      <3>1. table' \in 0 .. MaxModels
        BY <2>10 DEF StartEmbed, TypeOK
      <3>2. /\ worker' \in [Stages -> Waiting \cup Busy]
            /\ \A t \in Stages : worker'[t].file \notin todo[t]
        BY <2>7, <2>10 DEF StartEmbed, Idle, Stages
      <3>3. QED
        BY <2>10, <3>1, <3>2 DEF StartEmbed, TypeOK, counters, history
    <2>11. CASE StartEmbedRefused
      <3>1. /\ worker' \in [Stages -> Waiting \cup Busy]
            /\ \A t \in Stages : worker'[t].file \notin todo[t]
        BY <2>7, <2>11 DEF StartEmbedRefused, Stages
      <3>2. QED
        BY <2>11, <3>1 DEF StartEmbedRefused, TypeOK, database, counters, history
    <2>12. ASSUME NEW s \in Stages, StartFails(s) PROVE TypeOK'
      <3>1. /\ worker' \in [Stages -> Waiting \cup Busy]
            /\ \A t \in Stages : worker'[t].file \notin todo[t]
        BY <2>7, <2>12 DEF StartFails
      <3>2. QED
        BY <2>12, <3>1 DEF StartFails, StoreError, TypeOK, database, history
    <2>13. ASSUME NEW s \in Stages, Work(s) PROVE TypeOK'
      BY <2>13, WorkKeepsTypes
    <2>14. CASE UNCHANGED vars
      BY <2>14 DEF vars, database, process, counters, history, TypeOK
    <2>15. QED
      BY <2>1, <2>2, <2>3, <2>4, <2>5, <2>6, <2>8, <2>9, <2>10, <2>11, <2>12, <2>13,
         <2>14 DEF Next, Feed, Start
  <1>3. QED
    BY <1>1, <1>2, PTL DEF Spec

-----------------------------------------------------------------------------
(* A step that leaves what calls and rows say of each other as it was.      *)
LEMMA CallsKept ==
  ASSUME CallsInv, UNCHANGED <<queue, calls>>
  PROVE  CallsInv'
  BY DEF CallsInv

(* The attempts in a row are the calls since it was made or reset.          *)
LEMMA CallsInvariant == Spec => []CallsInv
  <1>1. Init => CallsInv
    BY WorkQueueAssumption DEF Init, CallsInv, ForStages, EmptyQueue, Queued
  <1>2. TypeOK /\ CallsInv /\ [Next]_vars => CallsInv'
    <2> SUFFICES ASSUME TypeOK, CallsInv, [Next]_vars PROVE CallsInv'
      OBVIOUS
    <2>1. ASSUME NEW s \in Stages, HandOver(s) PROVE CallsInv'
      <3> DEFINE g == handing.file
      <3>1. g \in Files /\ queue[s] \in Queue
        BY <2>1 DEF HandOver, TypeOK, NoFile
      <3>2. /\ queue'[s] = Enqueue(queue[s], g)
            /\ \A t \in Stages \ {s} : queue'[t] = queue[t]
        BY <2>1 DEF HandOver, TypeOK
      <3>3. /\ Queued(queue'[s]) = Queued(queue[s]) \cup {g}
            /\ \A f \in Queued(queue[s]) : queue'[s][f] = queue[s][f]
            /\ g \notin Queued(queue[s]) => queue'[s][g] = 0
        BY <3>1, <3>2, EnqueueAdds
      <3>4. \A t \in Stages, f \in Files :
              calls'[t][f] = IF t = s /\ f = g /\ g \notin Queued(queue[s])
                             THEN 0 ELSE calls[t][f]
        BY <2>1, <3>1 DEF HandOver, TypeOK
      <3>5. \A f \in Files : /\ calls'[s][f] <= MaxAttempts
                             /\ f \in Queued(queue'[s]) => calls'[s][f] = queue'[s][f]
        BY <3>1, <3>3, <3>4, WorkQueueAssumption DEF CallsInv
      <3>6. QED
        BY <3>2, <3>4, <3>5 DEF CallsInv
    <2>2. CASE StartEnrich
      <3> DEFINE q == queue["enrich"]
      <3>1. "enrich" \in Stages /\ q \in Queue
        BY DEF TypeOK, Stages
      <3>2. /\ queue'["enrich"] = RequeueStale(q, Stale, {})
            /\ \A t \in Stages \ {"enrich"} : queue'[t] = queue[t]
        BY <2>2, <3>1 DEF StartEnrich, TypeOK
      <3>3. Queued(queue'["enrich"]) = Queued(q) \cup Stale
        BY <3>1, <3>2, StaleIsOfFiles, RequeueStaleAdds
      <3>4. ASSUME NEW f \in Files
            PROVE  queue'["enrich"][f] = IF f \in Stale THEN 0 ELSE q[f]
        <4>1. RequeueStale(q, Stale, {})[f]
                = IF f \in Stale \cup ({} \ Queued(q)) THEN 0 ELSE q[f]
          BY <3>1, StaleIsOfFiles, RequeueStaleResets
        <4>2. QED
          BY <3>2, <4>1
      <3>5. /\ \A f \in Files : calls'["enrich"][f] = IF f \in Stale THEN 0
                                                      ELSE calls["enrich"][f]
            /\ \A t \in Stages \ {"enrich"} : calls'[t] = calls[t]
        BY <2>2, <3>1 DEF StartEnrich, TypeOK
      <3>6. \A f \in Files :
              /\ calls'["enrich"][f] <= MaxAttempts
              /\ f \in Queued(queue'["enrich"]) => calls'["enrich"][f] = queue'["enrich"][f]
        BY <3>1, <3>3, <3>4, <3>5, WorkQueueAssumption DEF CallsInv
      <3>7. QED
        BY <3>2, <3>5, <3>6 DEF CallsInv
    <2>3. ASSUME NEW s \in Stages, NEW g \in Files, Take(s, g) PROVE CallsInv'
      <3>1. g \in Pending(queue[s]) /\ queue[s] \in Queue
        BY <2>3 DEF Take, TypeOK
      <3>2. /\ queue'[s] = RecordAttempt(queue[s], g)
            /\ \A t \in Stages \ {s} : queue'[t] = queue[t]
        BY <2>3 DEF Take, TypeOK
      <3>3. /\ Queued(queue'[s]) = Queued(queue[s])
            /\ queue'[s][g] = queue[s][g] + 1
            /\ \A f \in Files \ {g} : queue'[s][f] = queue[s][f]
        BY <3>1, <3>2, RecordAttemptCounts
      <3>4. \A t \in Stages, f \in Files :
              calls'[t][f] = IF t = s /\ f = g THEN calls[s][g] + 1 ELSE calls[t][f]
        BY <2>3 DEF Take, TypeOK
      <3>5. g \in Queued(queue[s]) /\ queue[s][g] < MaxAttempts /\ calls[s][g] = queue[s][g]
        BY <3>1 DEF Pending, CallsInv
      <3>6. queue[s][g] + 1 <= MaxAttempts
        BY <3>1, <3>5, WorkQueueAssumption DEF Queue, Queued
      <3>7. \A f \in Files : /\ calls'[s][f] <= MaxAttempts
                             /\ f \in Queued(queue'[s]) => calls'[s][f] = queue'[s][f]
        BY <3>3, <3>4, <3>5, <3>6 DEF CallsInv
      <3>8. QED
        BY <3>2, <3>4, <3>7 DEF CallsInv
    <2>4. ASSUME NEW s \in Stages, Answer(s) PROVE CallsInv'
      <3> DEFINE g == worker[s].file
      <3>1. g \in Files /\ queue[s] \in Queue
        BY <2>4, BusyWorker DEF Answer, Busy, TypeOK
      <3>2. /\ queue'[s] = Dequeue(queue[s], g)
            /\ \A t \in Stages \ {s} : queue'[t] = queue[t]
            /\ calls' = calls
        BY <2>4 DEF Answer, TypeOK
      <3>3. /\ Queued(queue'[s]) = Queued(queue[s]) \ {g}
            /\ \A f \in Files \ {g} : queue'[s][f] = queue[s][f]
        BY <3>1, <3>2, DequeueRemoves
      <3>4. \A f \in Files : f \in Queued(queue'[s]) => calls'[s][f] = queue'[s][f]
        BY <3>2, <3>3 DEF CallsInv
      <3>5. QED
        BY <3>2, <3>4 DEF CallsInv
    <2>5. CASE UNCHANGED <<queue, calls>>
      BY <2>5, CallsKept
    <2>6. CASE Boot \/ Crash
      BY <2>5, <2>6 DEF Boot, Crash, database, history
    <2>7. ASSUME NEW f \in Files, RecordExtraction(f) PROVE CallsInv'
      BY <2>5, <2>7 DEF RecordExtraction, history
    <2>8. ASSUME NEW s \in Stages, PassOver(s) \/ HandOverFails(s) \/ StartFails(s)
          PROVE  CallsInv'
      BY <2>5, <2>8 DEF PassOver, HandOverFails, StartFails, database, history
    <2>9. CASE StartEnrichFails \/ StartEmbed \/ StartEmbedRefused
      BY <2>5, <2>9 DEF StartEnrichFails, StartEmbed, StartEmbedRefused, database, history
    <2>10. ASSUME NEW s \in Stages, Poll(s) \/ ReadText(s) \/ NoText(s) \/ Fail(s)
           PROVE  CallsInv'
      BY <2>5, <2>10 DEF Poll, ReadText, NoText, Fail, database, history
    <2>11. ASSUME NEW s \in Stages, NEW f \in Files, TakeFails(s, f) PROVE CallsInv'
      BY <2>5, <2>11 DEF TakeFails, database, history
    <2>12. CASE UNCHANGED vars
      BY <2>5, <2>12 DEF vars, database, history
    <2>13. QED
      BY <2>1, <2>2, <2>3, <2>4, <2>6, <2>7, <2>8, <2>9, <2>10, <2>11, <2>12
      DEF Next, Feed, Start, Work
  <1>3. QED
    BY <1>1, <1>2, PipelineTypeCorrect, PTL DEF Spec

(* The network is asked at most MAX_ATTEMPTS times for one row of a queue.  *)
THEOREM PipelineCallsBounded == Spec => []CallsBounded
  <1>1. CallsInv => CallsBounded
    BY DEF CallsInv, CallsBounded
  <1>2. QED
    BY <1>1, CallsInvariant, PTL

-----------------------------------------------------------------------------
(* Only a worker whose model is the table's is past its start.              *)
LEMMA ModelInvariant == Spec => []ModelInv
  <1>1. Init => ModelInv
    <2>1. "embed" \in Stages
      BY DEF Stages
    <2>2. QED
      BY <2>1 DEF Init, ModelInv, OneModel, ForStages, At, Off
  <1>2. TypeOK /\ ModelInv /\ [Next]_vars => ModelInv'
    <2> SUFFICES ASSUME TypeOK, ModelInv, [Next]_vars PROVE ModelInv'
      OBVIOUS
    <2> DEFINE working == worker["embed"].at \notin {"off", "start"}
    <2>1. "embed" \in Stages
      BY DEF Stages
    <2>2. ASSUME UNCHANGED <<results, table, config>>, working' => working PROVE ModelInv'
      BY <2>2 DEF ModelInv, OneModel
    <2>3. CASE Boot
      <3>1. worker'["embed"].at \in {"off", "start"}
        <4>1. worker'["embed"] \in {At("off"), At("start")}
          BY <2>1, <2>3 DEF Boot
        <4>2. QED
          BY <4>1 DEF At
      <3>2. QED
        BY <2>3, <3>1 DEF Boot, ModelInv, OneModel, database
    <2>4. CASE Crash
      <3>1. worker'["embed"].at \in {"off", "start"}
        <4>1. worker'["embed"] = At("off")
          BY <2>1, <2>4 DEF Crash, ForStages
        <4>2. QED
          BY <4>1 DEF At
      <3>2. QED
        BY <2>4, <3>1 DEF Crash, ModelInv, OneModel, database
    <2>5. CASE StartEmbed
      <3>1. \A f \in Files : results["embed"][f].by \in {Off, table'}
        BY <2>5 DEF StartEmbed, ModelInv, OneModel
      <3>2. QED
        BY <2>5, <3>1 DEF StartEmbed, ModelInv, OneModel
    <2>6. CASE StartEmbedRefused \/ StartFails("embed")
      <3>1. worker'["embed"] = At("off")
        BY <2>1, <2>6 DEF StartEmbedRefused, StartFails, Become, TypeOK
      <3>2. ~working'
        BY <3>1, WaitingTypes
      <3>3. UNCHANGED <<results, table, config>>
        BY <2>6 DEF StartEmbedRefused, StartFails, database
      <3>4. QED
        BY <2>2, <3>2, <3>3
    <2>7. CASE StartEnrich \/ StartEnrichFails \/ StartFails("enrich")
      <3>1. worker'["embed"] = worker["embed"]
        BY <2>1, <2>7 DEF StartEnrich, StartEnrichFails, StartFails, Become, TypeOK
      <3>2. UNCHANGED <<results, table, config>>
        BY <2>7 DEF StartEnrich, StartEnrichFails, StartFails, database
      <3>3. QED
        BY <2>2, <3>1, <3>2
    <2>8. ASSUME NEW s \in Stages, NEW w, Become(s, w), worker[s].at \notin {"off", "start"}
          PROVE  working' => working
      BY <2>1, <2>8 DEF Become, TypeOK
    <2>9. ASSUME NEW s \in Stages, Answer(s) PROVE ModelInv'
      <3>1. UNCHANGED <<table, config>> /\ (working' => working)
        BY <2>8, <2>9 DEF Answer
      <3>2. CASE s = "embed"
        <4>1. config["embed"] = table
          BY <2>9, <3>2 DEF Answer, ModelInv
        <4>2. \A f \in Files : \/ results'["embed"][f] = results["embed"][f]
                               \/ results'["embed"][f].by = config["embed"]
          BY <2>1, <2>9, <3>2 DEF Answer, TypeOK
        <4>3. QED
          BY <3>1, <4>1, <4>2 DEF ModelInv, OneModel
      <3>3. CASE s # "embed"
        <4>1. results'["embed"] = results["embed"]
          BY <2>1, <2>9, <3>3 DEF Answer, TypeOK
        <4>2. QED
          BY <3>1, <4>1 DEF ModelInv, OneModel
      <3>4. QED
        BY <3>2, <3>3
    <2>10. ASSUME NEW s \in Stages, NEW f \in Files, Take(s, f) PROVE ModelInv'
      <3>1. worker[s].at \notin {"off", "start"}
        BY <2>10, WaitingTypes DEF Take, Idle
      <3>2. QED
        BY <2>2, <2>8, <2>10, <3>1 DEF Take
    <2>11. ASSUME NEW s \in Stages, ReadText(s) \/ NoText(s) \/ Fail(s) PROVE ModelInv'
      <3>1. worker[s].at \notin {"off", "start"} /\ \E w : Become(s, w)
        BY <2>11 DEF ReadText, NoText, Fail
      <3>2. QED
        BY <2>2, <2>8, <2>11, <3>1 DEF ReadText, NoText, Fail, database
    <2>12. ASSUME UNCHANGED <<results, table, config, worker>> PROVE ModelInv'
      BY <2>2, <2>12
    <2>13. ASSUME NEW f \in Files, RecordExtraction(f) PROVE ModelInv'
      BY <2>12, <2>13 DEF RecordExtraction
    <2>14. ASSUME NEW s \in Stages, HandOver(s) \/ PassOver(s) \/ HandOverFails(s) \/ Poll(s)
           PROVE  ModelInv'
      BY <2>12, <2>14 DEF HandOver, PassOver, HandOverFails, Poll, database
    <2>15. ASSUME NEW s \in Stages, NEW f \in Files, TakeFails(s, f) PROVE ModelInv'
      BY <2>12, <2>15 DEF TakeFails, database
    <2>16. CASE UNCHANGED vars
      BY <2>12, <2>16 DEF vars, database, process
    <2>17. ASSUME NEW s \in Stages, StartFails(s) PROVE ModelInv'
      BY <2>6, <2>7, <2>17 DEF Stages
    <2>18. QED
      BY <2>3, <2>4, <2>5, <2>6, <2>7, <2>9, <2>10, <2>11, <2>13, <2>14, <2>15, <2>16,
         <2>17 DEF Next, Feed, Start, Work
  <1>3. QED
    BY <1>1, <1>2, PipelineTypeCorrect, PTL DEF Spec

(* Whatever models the process is configured with over time, all vectors     *)
(* in the table are of one.                                                 *)
THEOREM PipelineOneModel == Spec => []OneModel
  <1>1. ModelInv => OneModel
    BY DEF ModelInv
  <1>2. QED
    BY <1>1, ModelInvariant, PTL

-----------------------------------------------------------------------------
(* A step after which each row, result and text is there that was, and the  *)
(* files in hand or set aside are at least those that were.                 *)
LEMMA CurrentKept ==
  ASSUME CurrentOrQueued, UNCHANGED <<metadata, results>>,
         \A s \in Stages :
           Queued(queue[s]) \cup InHand(s) \cup missed[s] \cup overtaken[s]
             \subseteq Queued(queue'[s]) \cup InHand(s)' \cup missed'[s] \cup overtaken'[s]
                         \cup {f \in Files : ~Long(f)}
  PROVE  CurrentOrQueued'
  BY DEF CurrentOrQueued, Long

(* When the extraction worker goes on to the next stage, all that leaves the *)
(* hand is the file, at the stage it was at.                                *)
LEMMA NextStageLeaves ==
  ASSUME TypeOK, NEW s \in Stages, handing.next = s, handing.file # Nobody, NextStage
  PROVE  \A t \in Stages : InHand(t) \ InHand(t)' \subseteq
                             IF t = s THEN {handing.file} ELSE {}
  <1>1. handing \in [file : Files, next : Stages]
    BY DEF TypeOK, NoFile
  <1>2. CASE s = "enrich"
    <2>1. handing' = [file |-> handing.file, next |-> "embed"]
      BY <1>1, <1>2 DEF NextStage
    <2>2. QED
      BY <1>1, <1>2, <2>1 DEF InHand, Stages
  <1>3. CASE s = "embed"
    BY <1>1, <1>3 DEF InHand, Stages
  <1>4. QED
    BY <1>2, <1>3 DEF Stages

(* Nothing that needs a stage is lost to it but in the two ways named.      *)
THEOREM PipelineCurrentOrQueued == Spec => []CurrentOrQueued
  <1>1. Init => CurrentOrQueued
    BY DEF Init, CurrentOrQueued, Long
  <1>2. TypeOK /\ CurrentOrQueued /\ [Next]_vars => CurrentOrQueued'
    <2> SUFFICES ASSUME TypeOK, CurrentOrQueued, [Next]_vars PROVE CurrentOrQueued'
      OBVIOUS
    <2>1. ASSUME UNCHANGED <<metadata, queue, results, handing, missed, overtaken>>
          PROVE  CurrentOrQueued'
      BY <2>1 DEF CurrentOrQueued, Long, InHand
    <2>2. CASE Crash
      <3>1. \A s \in Stages : missed'[s] = missed[s] \cup {f \in InHand(s) : Long(f)}
        BY <2>2 DEF Crash
      <3>2. \A s \in Stages : InHand(s) \subseteq missed'[s] \cup {f \in Files : ~Long(f)}
        BY <3>1 DEF InHand
      <3>3. UNCHANGED <<metadata, results, queue, overtaken>>
        BY <2>2 DEF Crash, database
      <3>4. QED
        BY <3>1, <3>2, <3>3, CurrentKept
    <2>3. ASSUME NEW f \in Files, RecordExtraction(f) PROVE CurrentOrQueued'
      <3>1. \A s \in Stages : f \in InHand(s)' /\ InHand(s) = {}
        BY <2>3, PipelineAssumption DEF RecordExtraction, InHand, NoFile
      <3>2. \A g \in Files \ {f} : metadata'[g] = metadata[g]
        BY <2>3 DEF RecordExtraction, TypeOK
      <3>3. UNCHANGED <<results, queue, missed, overtaken>>
        BY <2>3 DEF RecordExtraction, history
      <3>4. QED
        BY <3>1, <3>2, <3>3 DEF CurrentOrQueued, Long
    <2>4. ASSUME NEW s \in Stages, HandOver(s) PROVE CurrentOrQueued'
      <3> DEFINE g == handing.file
      <3>1. g \in Files /\ queue[s] \in Queue
        BY <2>4 DEF HandOver, TypeOK, NoFile
      <3>2. Queued(queue'[s]) = Queued(queue[s]) \cup {g}
        <4>1. queue'[s] = Enqueue(queue[s], g)
          BY <2>4 DEF HandOver, TypeOK
        <4>2. QED
          BY <3>1, <4>1, EnqueueAdds
      <3>3. /\ missed'[s] = missed[s] \ {g}
            /\ overtaken'[s] = overtaken[s] \ {g}
            /\ \A t \in Stages \ {s} : /\ queue'[t] = queue[t]
                                       /\ missed'[t] = missed[t]
                                       /\ overtaken'[t] = overtaken[t]
        BY <2>4 DEF HandOver, TypeOK
      <3>4. \A t \in Stages : InHand(t) \ InHand(t)' \subseteq IF t = s THEN {g} ELSE {}
        BY <2>4, NextStageLeaves DEF HandOver
      <3>5. UNCHANGED <<metadata, results>>
        BY <2>4 DEF HandOver
      <3>6. QED
        BY <3>2, <3>3, <3>4, <3>5, CurrentKept
    <2>5. ASSUME NEW s \in Stages, PassOver(s) \/ HandOverFails(s) PROVE CurrentOrQueued'
      <3> DEFINE g == handing.file
      <3>1. \A t \in Stages : InHand(t) \ InHand(t)' \subseteq IF t = s THEN {g} ELSE {}
        BY <2>5, NextStageLeaves DEF PassOver, HandOverFails
      <3>2. g \in Files
        BY <2>5 DEF PassOver, HandOverFails, TypeOK, NoFile
      <3>3. /\ missed[s] \cup {g} \subseteq missed'[s] \cup {f \in Files : ~Long(f)}
            /\ \A t \in Stages \ {s} : missed'[t] = missed[t]
        <4>1. \/ ~Long(g) /\ missed' = missed
              \/ missed' = [missed EXCEPT ![s] = @ \cup {g}]
          BY <2>5 DEF PassOver, HandOverFails
        <4>2. QED
          BY <3>2, <4>1 DEF TypeOK
      <3>4. UNCHANGED <<metadata, queue, results, overtaken>>
        BY <2>5 DEF PassOver, HandOverFails, database
      <3>5. QED
        BY <3>1, <3>3, <3>4, CurrentKept
    <2>6. CASE StartEnrich
      <3>1. "enrich" \in Stages /\ queue["enrich"] \in Queue
        BY DEF TypeOK, Stages
      <3>2. Queued(queue'["enrich"]) = Queued(queue["enrich"]) \cup Stale
        <4>1. queue'["enrich"] = RequeueStale(queue["enrich"], Stale, {})
          BY <2>6, <3>1 DEF StartEnrich, TypeOK
        <4>2. QED
          BY <3>1, <4>1, StaleIsOfFiles, RequeueStaleAdds
      <3>3. \A t \in Stages \ {"enrich"} : queue'[t] = queue[t]
        BY <2>6 DEF StartEnrich, TypeOK
      <3>4. \A t \in Stages : InHand(t)' = InHand(t)
        BY <2>6 DEF StartEnrich, InHand
      <3>5. UNCHANGED <<metadata, results, missed, overtaken>>
        BY <2>6 DEF StartEnrich
      <3>6. QED
        BY <3>2, <3>3, <3>4, <3>5, CurrentKept
    <2>7. CASE StartEnrichFails
      <3>1. /\ missed["enrich"] \subseteq missed'["enrich"]
            /\ \A t \in Stages \ {"enrich"} : missed'[t] = missed[t]
        BY <2>7 DEF StartEnrichFails, TypeOK, Stages
      <3>2. \A t \in Stages : InHand(t)' = InHand(t)
        BY <2>7 DEF StartEnrichFails, InHand
      <3>3. UNCHANGED <<metadata, results, queue, overtaken>>
        BY <2>7 DEF StartEnrichFails, database
      <3>4. QED
        BY <3>1, <3>2, <3>3, CurrentKept
    <2>8. ASSUME NEW s \in Stages, NEW g \in Files, Take(s, g) PROVE CurrentOrQueued'
      <3>1. \A t \in Stages : Queued(queue'[t]) = Queued(queue[t])
        <4>1. g \in Pending(queue[s]) /\ queue[s] \in Queue
          BY <2>8 DEF Take, TypeOK
        <4>2. /\ queue'[s] = RecordAttempt(queue[s], g)
              /\ \A t \in Stages \ {s} : queue'[t] = queue[t]
          BY <2>8 DEF Take, TypeOK
        <4>3. QED
          BY <4>1, <4>2, RecordAttemptCounts
      <3>2. \A t \in Stages : InHand(t)' = InHand(t)
        BY <2>8 DEF Take, InHand
      <3>3. UNCHANGED <<metadata, results, missed, overtaken>>
        BY <2>8 DEF Take
      <3>4. QED
        BY <3>1, <3>2, <3>3, CurrentKept
    <2>9. ASSUME NEW s \in Stages, Answer(s) PROVE CurrentOrQueued'
      <3> DEFINE g == worker[s].file
      <3>1. g \in Files /\ queue[s] \in Queue
        BY <2>9, BusyWorker DEF Answer, Busy, TypeOK
      <3>2. /\ Queued(queue'[s]) = Queued(queue[s]) \ {g}
            /\ \A t \in Stages \ {s} : queue'[t] = queue[t]
        <4>1. /\ queue'[s] = Dequeue(queue[s], g)
              /\ \A t \in Stages \ {s} : queue'[t] = queue[t]
          BY <2>9 DEF Answer, TypeOK
        <4>2. QED
          BY <3>1, <4>1, DequeueRemoves
      <3>3. \A t \in Stages, f \in Files :
              results'[t][f].from = IF t = s /\ f = g THEN worker[s].got
                                    ELSE results[t][f].from
        BY <2>9, <3>1 DEF Answer, TypeOK
      <3>4. /\ Long(g) /\ worker[s].got # metadata[g].from => g \in overtaken'[s]
            /\ \A t \in Stages : overtaken[t] \subseteq overtaken'[t]
        BY <2>9 DEF Answer, TypeOK
      <3>5. \A t \in Stages : InHand(t)' = InHand(t)
        BY <2>9 DEF Answer, InHand
      <3>6. metadata' = metadata /\ missed' = missed
        BY <2>9 DEF Answer
      <3>7. ASSUME NEW t \in Stages, NEW f \in Files, Long(f)
            PROVE  \/ results'[t][f].from = metadata[f].from
                   \/ f \in Queued(queue'[t]) \cup InHand(t) \cup missed[t] \cup overtaken'[t]
        <4>1. CASE t = s /\ f = g
          BY <3>3, <3>4, <3>7, <4>1
        <4>2. CASE ~(t = s /\ f = g)
          <5>1. f \in Queued(queue[t]) => f \in Queued(queue'[t])
            BY <3>2, <4>2
          <5>2. results'[t][f].from = results[t][f].from
            BY <3>3, <4>2
          <5>3. QED
            BY <3>4, <3>7, <5>1, <5>2 DEF CurrentOrQueued
        <4>3. QED
          BY <4>1, <4>2
      <3>8. QED
        BY <3>5, <3>6, <3>7 DEF CurrentOrQueued, Long
    <2>10. CASE Boot \/ StartEmbed \/ StartEmbedRefused
      BY <2>1, <2>10 DEF Boot, StartEmbed, StartEmbedRefused, database, history
    <2>11. ASSUME NEW s \in Stages,
                  StartFails(s) \/ Poll(s) \/ ReadText(s) \/ NoText(s) \/ Fail(s)
           PROVE  CurrentOrQueued'
      BY <2>1, <2>11 DEF StartFails, Poll, ReadText, NoText, Fail, database, history
    <2>12. ASSUME NEW s \in Stages, NEW f \in Files, TakeFails(s, f) PROVE CurrentOrQueued'
      BY <2>1, <2>12 DEF TakeFails, database, history
    <2>13. CASE UNCHANGED vars
      BY <2>1, <2>13 DEF vars, database, process, history
    <2>14. QED
      BY <2>2, <2>3, <2>4, <2>5, <2>6, <2>7, <2>8, <2>9, <2>10, <2>11, <2>12, <2>13
      DEF Next, Feed, Start, Work
  <1>3. QED
    BY <1>1, <1>2, PipelineTypeCorrect, PTL DEF Spec

-----------------------------------------------------------------------------
(* Past the start of the enrichment worker, what an older prompt made is     *)
(* queued, but for what the stage was not asked for.                        *)
THEOREM PipelineUpgradeReaches == Spec => []UpgradeReaches
  <1> DEFINE working == worker["enrich"].at \notin {"off", "start"}
             covered == Queued(queue["enrich"]) \cup missed["enrich"]
  <1>1. Init => UpgradeReaches
    BY DEF Init, UpgradeReaches, ForStages, At, Stages
  <1>2. TypeOK /\ UpgradeReaches /\ [Next]_vars => UpgradeReaches'
    <2> SUFFICES ASSUME TypeOK, UpgradeReaches, [Next]_vars PROVE UpgradeReaches'
      OBVIOUS
    <2>1. "enrich" \in Stages /\ queue["enrich"] \in Queue
      BY DEF TypeOK, Stages
    <2>2. ASSUME UNCHANGED <<results, config>>, working' => working, covered \subseteq covered'
          PROVE  UpgradeReaches'
      BY <2>2 DEF UpgradeReaches, Stale
    <2>3. ASSUME UNCHANGED <<results, config, queue, missed>>, working' => working
          PROVE  UpgradeReaches'
      BY <2>2, <2>3
    <2>4. ASSUME worker'["enrich"] \in {At("off"), At("start")} PROVE UpgradeReaches'
      BY <2>4 DEF UpgradeReaches, At
    <2>5. CASE Boot \/ Crash
      <3>1. worker'["enrich"] \in {At("off"), At("start")}
        BY <2>1, <2>5 DEF Boot, Crash, ForStages
      <3>2. QED
        BY <2>4, <3>1
    <2>6. CASE StartEnrich
      <3>1. queue'["enrich"] = RequeueStale(queue["enrich"], Stale, {})
        BY <2>1, <2>6 DEF StartEnrich, TypeOK
      <3>2. Queued(queue'["enrich"]) = Queued(queue["enrich"]) \cup Stale
        BY <2>1, <3>1, StaleIsOfFiles, RequeueStaleAdds
      <3>3. Stale' = Stale
        BY <2>6 DEF StartEnrich, Stale
      <3>4. QED
        BY <3>2, <3>3 DEF UpgradeReaches
    <2>7. CASE StartEnrichFails
      <3>1. Stale \subseteq missed'["enrich"]
        BY <2>1, <2>7 DEF StartEnrichFails, TypeOK
      <3>2. Stale' = Stale
        BY <2>7 DEF StartEnrichFails, Stale, database
      <3>3. QED
        BY <3>1, <3>2 DEF UpgradeReaches
    <2>8. ASSUME NEW s \in Stages, HandOver(s) PROVE UpgradeReaches'
      <3> DEFINE g == handing.file
      <3>1. CASE s = "enrich"
        <4>1. g \in Files
          BY <2>8 DEF HandOver, TypeOK, NoFile
        <4>2. queue'["enrich"] = Enqueue(queue["enrich"], g)
          BY <2>1, <2>8, <3>1 DEF HandOver, TypeOK
        <4>3. Queued(queue'["enrich"]) = Queued(queue["enrich"]) \cup {g}
          BY <2>1, <4>1, <4>2, EnqueueAdds
        <4>4. missed'["enrich"] = missed["enrich"] \ {g}
          BY <2>1, <2>8, <3>1 DEF HandOver, TypeOK
        <4>5. covered \subseteq covered'
          BY <4>3, <4>4
        <4>6. QED
          BY <2>2, <2>8, <4>5 DEF HandOver
      <3>2. CASE s # "enrich"
        <4>1. queue'["enrich"] = queue["enrich"] /\ missed'["enrich"] = missed["enrich"]
          BY <2>1, <2>8, <3>2 DEF HandOver, TypeOK
        <4>2. QED
          BY <2>2, <2>8, <4>1 DEF HandOver
      <3>3. QED
        BY <3>1, <3>2
    <2>9. ASSUME NEW s \in Stages, PassOver(s) \/ HandOverFails(s) PROVE UpgradeReaches'
      <3>1. missed["enrich"] \subseteq missed'["enrich"]
        <4>1. missed' = missed \/ missed' = [missed EXCEPT ![s] = @ \cup {handing.file}]
          BY <2>9 DEF PassOver, HandOverFails
        <4>2. missed \in [Stages -> SUBSET Files]
          BY DEF TypeOK
        <4>3. ASSUME NEW g PROVE missed["enrich"] \subseteq
                                   [missed EXCEPT ![s] = @ \cup {g}]["enrich"]
          BY <2>1, <4>2
        <4>4. QED
          BY <4>1, <4>3
      <3>2. UNCHANGED <<results, config, queue, worker>>
        BY <2>9 DEF PassOver, HandOverFails, database
      <3>3. QED
        BY <2>2, <3>1, <3>2
    <2>10. ASSUME NEW s \in Stages, NEW w, Become(s, w), worker[s].at \notin {"off", "start"}
           PROVE  working' => working
      BY <2>1, <2>10 DEF Become, TypeOK
    <2>11. ASSUME NEW s \in Stages, NEW g \in Files, Take(s, g) PROVE UpgradeReaches'
      <3>1. worker[s].at \notin {"off", "start"}
        BY <2>11 DEF Take, Idle, At
      <3>2. Queued(queue'["enrich"]) = Queued(queue["enrich"])
        <4>1. g \in Pending(queue[s]) /\ queue[s] \in Queue
          BY <2>11 DEF Take, TypeOK
        <4>2. \/ queue'["enrich"] = queue["enrich"]
              \/ s = "enrich" /\ queue'["enrich"] = RecordAttempt(queue["enrich"], g)
          BY <2>1, <2>11 DEF Take, TypeOK
        <4>3. QED
          BY <4>1, <4>2, RecordAttemptCounts
      <3>3. working' => working
        BY <2>10, <2>11, <3>1 DEF Take
      <3>4. QED
        BY <2>2, <2>11, <3>2, <3>3 DEF Take
    <2>12. ASSUME NEW s \in Stages, Answer(s) PROVE UpgradeReaches'
      <3> DEFINE g == worker[s].file
      <3>1. working' => working
        BY <2>10, <2>12 DEF Answer
      <3>2. CASE s = "enrich"
        <4>1. g \in Files
          BY <2>12, BusyWorker DEF Answer, Busy
        <4>2. queue'["enrich"] = Dequeue(queue["enrich"], g)
          BY <2>1, <2>12, <3>2 DEF Answer, TypeOK
        <4>3. Queued(queue'["enrich"]) = Queued(queue["enrich"]) \ {g}
          BY <2>1, <4>1, <4>2, DequeueRemoves
        <4>4. \A f \in Files : results'["enrich"][f].by = IF f = g THEN config["enrich"]
                                                         ELSE results["enrich"][f].by
          BY <2>1, <2>12, <3>2, <4>1 DEF Answer, TypeOK
        <4>5. config' = config /\ missed' = missed /\ config["enrich"] \in Nat
          BY <2>12 DEF Answer, TypeOK
        <4>6. Stale' \subseteq Stale \ {g}
          BY <4>4, <4>5 DEF Stale
        <4>7. QED
          BY <3>1, <4>3, <4>5, <4>6 DEF UpgradeReaches
      <3>3. CASE s # "enrich"
        <4>1. queue'["enrich"] = queue["enrich"] /\ results'["enrich"] = results["enrich"]
          BY <2>1, <2>12, <3>3 DEF Answer, TypeOK
        <4>2. config' = config /\ missed' = missed
          BY <2>12 DEF Answer
        <4>3. QED
          BY <3>1, <4>1, <4>2 DEF UpgradeReaches, Stale
      <3>4. QED
        BY <3>2, <3>3
    <2>13. ASSUME NEW s \in Stages, ReadText(s) \/ NoText(s) \/ Fail(s) PROVE UpgradeReaches'
      <3>1. worker[s].at \notin {"off", "start"} /\ \E w : Become(s, w)
        BY <2>13 DEF ReadText, NoText, Fail
      <3>2. working' => working
        BY <2>10, <3>1
      <3>3. QED
        BY <2>3, <2>13, <3>2 DEF ReadText, NoText, Fail, database, history
    <2>14. ASSUME NEW s \in Stages, StartFails(s) PROVE UpgradeReaches'
      <3>1. worker'["enrich"] \in {worker["enrich"], At("off")}
        BY <2>1, <2>14 DEF StartFails, Become, TypeOK
      <3>2. QED
        BY <2>3, <2>4, <2>14, <3>1 DEF StartFails, database, history
    <2>15. CASE StartEmbed \/ StartEmbedRefused
      <3>1. worker'["enrich"] = worker["enrich"]
        BY <2>1, <2>15 DEF StartEmbed, StartEmbedRefused, Become, TypeOK
      <3>2. QED
        BY <2>3, <2>15, <3>1 DEF StartEmbed, StartEmbedRefused, database, history
    <2>16. ASSUME NEW f \in Files, RecordExtraction(f) PROVE UpgradeReaches'
      BY <2>3, <2>16 DEF RecordExtraction, history
    <2>17. ASSUME NEW s \in Stages, Poll(s) PROVE UpgradeReaches'
      BY <2>3, <2>17 DEF Poll, database, history
    <2>18. ASSUME NEW s \in Stages, NEW f \in Files, TakeFails(s, f) PROVE UpgradeReaches'
      BY <2>3, <2>18 DEF TakeFails, database, history
    <2>19. CASE UNCHANGED vars
      BY <2>3, <2>19 DEF vars, database, process, history
    <2>20. QED
      BY <2>5, <2>6, <2>7, <2>8, <2>9, <2>11, <2>12, <2>13, <2>14, <2>15, <2>16, <2>17,
         <2>18, <2>19 DEF Next, Feed, Start, Work
  <1>3. QED
    BY <1>1, <1>2, PipelineTypeCorrect, PTL DEF Spec
=============================================================================
