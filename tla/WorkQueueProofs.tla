--------------------------- MODULE WorkQueueProofs ---------------------------
(***************************************************************************)
(* What the statements on a queue do to its rows, for every queue.          *)
(***************************************************************************)
EXTENDS WorkQueue, TLAPS

(* Enqueueing adds the file and keeps the attempts of one already there.    *)
LEMMA EnqueueAdds ==
  ASSUME NEW q \in Queue, NEW f \in Files
  PROVE  /\ Enqueue(q, f) \in Queue
         /\ Queued(Enqueue(q, f)) = Queued(q) \cup {f}
         /\ Pending(q) \subseteq Pending(Enqueue(q, f))
         /\ \A g \in Queued(q) : Enqueue(q, f)[g] = q[g]
         /\ f \notin Queued(q) => Enqueue(q, f)[f] = 0
  BY WorkQueueAssumption DEF Enqueue, Queue, Queued, Pending

(* An attempt on an eligible file is counted, and no other row changes.     *)
LEMMA RecordAttemptCounts ==
  ASSUME NEW q \in Queue, NEW f \in Pending(q)
  PROVE  /\ RecordAttempt(q, f) \in Queue
         /\ Queued(RecordAttempt(q, f)) = Queued(q)
         /\ RecordAttempt(q, f)[f] = q[f] + 1
         /\ \A g \in Files \ {f} : RecordAttempt(q, f)[g] = q[g]
  BY WorkQueueAssumption DEF RecordAttempt, Queue, Queued, Pending

(* Dequeueing removes the file's row and no other.                          *)
LEMMA DequeueRemoves ==
  ASSUME NEW q \in Queue, NEW f \in Files
  PROVE  /\ Dequeue(q, f) \in Queue
         /\ Queued(Dequeue(q, f)) = Queued(q) \ {f}
         /\ \A g \in Files \ {f} : Dequeue(q, f)[g] = q[g]
  BY WorkQueueAssumption DEF Dequeue, Queue, Queued

(* requeue_stale loses no row and adds every file asked for.                *)
LEMMA RequeueStaleAdds ==
  ASSUME NEW q \in Queue, NEW stale \in SUBSET Files, NEW fresh \in SUBSET Files
  PROVE  Queued(RequeueStale(q, stale, fresh)) = Queued(q) \cup stale \cup fresh
  BY WorkQueueAssumption DEF RequeueStale, Queue, Queued

(* It resets the rows of the stale files and keeps those of the others.     *)
LEMMA RequeueStaleResets ==
  ASSUME NEW q \in Queue, NEW stale \in SUBSET Files, NEW fresh \in SUBSET Files,
         NEW f \in Files
  PROVE  RequeueStale(q, stale, fresh)[f]
           = IF f \in stale \cup (fresh \ Queued(q)) THEN 0 ELSE q[f]
  BY WorkQueueAssumption DEF RequeueStale, Queue, Queued

(* It yields a queue in which every eligible file still is.                 *)
LEMMA RequeueStaleKeeps ==
  ASSUME NEW q \in Queue, NEW stale \in SUBSET Files, NEW fresh \in SUBSET Files
  PROVE  /\ RequeueStale(q, stale, fresh) \in Queue
         /\ Pending(q) \subseteq Pending(RequeueStale(q, stale, fresh))
  BY WorkQueueAssumption DEF RequeueStale, Queue, Queued, Pending

(* A batch holds eligible files only.                                       *)
LEMMA BatchesAreEligible ==
  ASSUME NEW q, NEW B \in Batches(q)
  PROVE  B \subseteq Pending(q)
  BY DEF Batches
=============================================================================
