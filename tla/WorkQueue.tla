----------------------------- MODULE WorkQueue -----------------------------
(***************************************************************************)
(* The persistent work queues of the store: extraction_queue (metadata.rs), *)
(* enrichment_queue (enrichment.rs) and embedding_queue (embeddings.rs) are *)
(* three tables with the same columns and the same statements. A queue     *)
(* maps each file to the attempt_count of its row, or to NotQueued.         *)
(*                                                                         *)
(* queued_at_unix only orders `pending`, in whole seconds; the order is    *)
(* abstracted to any choice among the eligible rows.                        *)
(***************************************************************************)
EXTENDS Naturals, FiniteSets

CONSTANTS
  Files,         (* file ids                                                *)
  NotQueued,     (* no row                                                  *)
  MaxAttempts,   (* MAX_ATTEMPTS                                            *)
  BatchLimit     (* the limit the workers pass to pending: BATCH            *)

ASSUME WorkQueueAssumption ==
  /\ IsFiniteSet(Files)
  /\ MaxAttempts \in Nat \ {0}
  /\ BatchLimit \in Nat \ {0}
  /\ NotQueued \notin Nat

Queue == [Files -> (0 .. MaxAttempts) \cup {NotQueued}]

EmptyQueue == [f \in Files |-> NotQueued]

Queued(q) == {f \in Files : q[f] # NotQueued}

(* A mistaken variant of the definition after it, used only by mutation runs. *)
PendingUncapped(q) == Queued(q)

(* The rows a worker may still be handed.                                   *)
Pending(q) == {f \in Queued(q) : q[f] < MaxAttempts}

(* pending: as many eligible files as the limit allows.                     *)
Batches(q) ==
  {B \in SUBSET Pending(q) :
     \/ Cardinality(B) = BatchLimit
     \/ B = Pending(q) /\ Cardinality(B) < BatchLimit}

(* enqueue: a new row, or a bumped timestamp that keeps the attempt_count.  *)
Enqueue(q, f) == [q EXCEPT ![f] = IF @ = NotQueued THEN 0 ELSE @]

(* record_attempt: an UPDATE, which does nothing without a row.             *)
RecordAttempt(q, f) == [q EXCEPT ![f] = IF @ = NotQueued THEN NotQueued ELSE @ + 1]

(* The DELETE of record_extraction, record_enrichment and store.            *)
Dequeue(q, f) == [q EXCEPT ![f] = NotQueued]

(* requeue_stale: a row with no attempts for every stale file, whatever its *)
(* row said, and one for every file in fresh that has none.                 *)
RequeueStale(q, stale, fresh) ==
  [f \in Files |->
     IF f \in stale \/ (f \in fresh /\ q[f] = NotQueued) THEN 0 ELSE q[f]]
=============================================================================
