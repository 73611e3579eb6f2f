----------------------------- MODULE Extraction -----------------------------
(***************************************************************************)
(* The extraction queue at work: the observer thread fills it (main.rs,     *)
(* `observe`, `apply_change`, `enqueue_for_extraction`), the extraction     *)
(* worker drains it (extract_worker.rs), each on its own connection, while  *)
(* files change and the process may be killed and started again, perhaps   *)
(* with a newer extractor.                                                  *)
(*                                                                         *)
(* Each edit gives a file a new version number; the stamp in its row and    *)
(* what its metadata were extracted from are such numbers, so two edits are *)
(* always told apart here (the code compares size and seconds of mtime).   *)
(* Renames, and the queues fed by a successful extraction, are not here.    *)
(***************************************************************************)
EXTENDS WorkQueue

CONSTANTS
  Nobody,       (* the observer has no file in hand                         *)
  MaxEdits,     (* bound: edits of files                                    *)
  MaxVersion,   (* bound: EXTRACTOR_VERSIONs installed                      *)
  MaxCrashes,   (* bound: times the process ends                            *)
  MaxFaults,    (* bound: store errors                                      *)
  MaxRescans    (* bound: scans of the running observer                     *)

ASSUME ExtractionAssumption ==
  /\ Nobody \notin Files
  /\ MaxEdits \in Nat
  /\ MaxVersion \in Nat \ {0}
  /\ MaxCrashes \in Nat
  /\ MaxFaults \in Nat
  /\ MaxRescans \in Nat

VARIABLES
  content,    (* the version each file holds on disk; 0 if it does not exist *)
  recorded,   (* the version in its live row; 0 if it has none              *)
  dirty,      (* files with a watch change not yet applied                  *)
  metadata,   (* file_metadata: the version read and the extractor that did *)
  queue,      (* extraction_queue                                           *)
  phase,      (* how far the observer thread got                            *)
  observer,   (* the file it recorded and is about to enqueue               *)
  worker,     (* what the worker is doing, with which file and version      *)
  todo,       (* files of its batch not yet taken                           *)
  abandoned,  (* extraction threads the worker gave up on                   *)
  version,    (* the running EXTRACTOR_VERSION                              *)
  edits, crashes, faults, rescans,   (* counters of the bounds              *)
  runs,       (* history: times a file was handed to the extractor since    *)
              (* its queue row was made or reset                            *)
  unqueued    (* history: files recorded and not enqueued since the last    *)
              (* requeue_stale                                              *)

disk == <<content, dirty>>
extractor == <<worker, todo, abandoned>>
counters == <<edits, crashes, faults, rescans>>
history == <<runs, unqueued>>
vars == <<disk, recorded, metadata, queue, phase, observer, extractor,
          version, counters, history>>

Content == 0 .. MaxEdits
Idle == [at |-> "loop", file |-> Nobody, got |-> 0]

TypeOK ==
  /\ content \in [Files -> Content]
  /\ recorded \in [Files -> Content]
  /\ dirty \subseteq Files
  /\ metadata \in [Files -> [content : Content, by : 0 .. MaxVersion]]
  /\ queue \in Queue
  /\ phase \in {"down", "scan", "requeue", "watch"}
  /\ observer \in Files \cup {Nobody}
  /\ \/ worker = Idle
     \/ /\ worker \in [at : {"start", "running"}, file : Files, got : Content]
        /\ worker.file \notin todo
  /\ todo \subseteq Pending(queue)
  /\ abandoned \subseteq [file : Files, got : Content]
  /\ version \in 1 .. MaxVersion
  /\ edits \in 0 .. MaxEdits
  /\ crashes \in 0 .. MaxCrashes
  /\ faults \in 0 .. MaxFaults
  /\ rescans \in 0 .. MaxRescans
  /\ runs \in [Files -> Nat]
  /\ unqueued \subseteq Files

Init ==
  /\ content = [f \in Files |-> 0]
  /\ recorded = [f \in Files |-> 0]
  /\ dirty = {}
  /\ metadata = [f \in Files |-> [content |-> 0, by |-> 0]]
  /\ queue = EmptyQueue
  /\ phase = "down"
  /\ observer = Nobody
  /\ worker = Idle
  /\ todo = {}
  /\ abandoned = {}
  /\ version = 1
  /\ edits = 0 /\ crashes = 0 /\ faults = 0 /\ rescans = 0
  /\ runs = [f \in Files |-> 0]
  /\ unqueued = {}

Extracted(f) == metadata[f].by # 0

(* The two statements of requeue_stale: files whose metadata an older       *)
(* extractor wrote, and live files that have none.                          *)
Stale == {f \in Files : Extracted(f) /\ metadata[f].by < version}
Fresh == {f \in Files : recorded[f] # 0 /\ ~Extracted(f)}
Backlog == Stale \cup Fresh

StoreError ==
  /\ faults < MaxFaults
  /\ faults' = faults + 1
  /\ UNCHANGED <<edits, crashes, rescans>>

-----------------------------------------------------------------------------
(* The users of the files. Only a running watch notices.                    *)

Write(f) ==
  /\ edits < MaxEdits
  /\ edits' = edits + 1
  /\ \/ content' = [content EXCEPT ![f] = edits + 1]
     \/ content[f] # 0 /\ content' = [content EXCEPT ![f] = 0]
  /\ dirty' = IF phase = "watch" THEN dirty \cup {f} ELSE dirty
  /\ UNCHANGED <<recorded, metadata, queue, phase, observer, extractor,
                 version, crashes, faults, rescans, history>>

-----------------------------------------------------------------------------
(* The process. The worker runs from the start, beside the initial scan.    *)

Boot ==
  /\ phase = "down"
  /\ phase' = "scan"
  /\ \/ UNCHANGED version
     \/ /\ version < MaxVersion
        /\ version' = version + 1
  /\ UNCHANGED <<disk, recorded, metadata, queue, observer, extractor, counters,
                 history>>

(* The process ends, whatever its threads were doing.                       *)
Crash ==
  /\ phase # "down"
  /\ crashes < MaxCrashes
  /\ crashes' = crashes + 1
  /\ phase' = "down"
  /\ dirty' = {}
  /\ observer' = Nobody
  /\ worker' = Idle
  /\ todo' = {}
  /\ abandoned' = {}
  /\ UNCHANGED <<content, recorded, metadata, queue, version, edits, faults,
                 rescans, history>>

-----------------------------------------------------------------------------
(* The observer thread.                                                     *)

(* What a scan that reached the files S leaves in their rows. It neither     *)
(* enqueues anything nor notices a file that is gone.                       *)
Scanned(S) == [f \in Files |-> IF f \in S THEN content[f] ELSE recorded[f]]

Existing == {f \in Files : content[f] # 0}

(* The initial scans, or none of them: --no-initial-scan, a failed scan.    *)
InitialScan ==
  /\ phase = "scan"
  /\ \E S \in SUBSET Existing : recorded' = Scanned(S)
  /\ phase' = "requeue"
  /\ UNCHANGED <<disk, metadata, queue, observer, extractor, version, counters,
                 history>>

RequeueStaleRows ==
  /\ phase = "requeue"
  /\ queue' = RequeueStale(queue, Stale, Fresh)
  /\ phase' = "watch"
  /\ runs' = [f \in Files |-> IF f \in Stale \cup (Fresh \ Queued(queue)) THEN 0 ELSE runs[f]]
  /\ unqueued' = {}
  /\ UNCHANGED <<disk, recorded, metadata, observer, extractor, version, counters>>

(* Its transaction fails; the error is logged and the watch starts.         *)
RequeueFails ==
  /\ phase = "requeue"
  /\ StoreError
  /\ phase' = "watch"
  /\ unqueued' = unqueued \cup (Backlog \ Queued(queue))
  /\ UNCHANGED <<disk, recorded, metadata, queue, observer, extractor, version,
                 runs>>

(* record_path for a change the watch emitted: the row follows the file, and *)
(* a file that changed is handed to enqueue_for_extraction.                 *)
RecordPath(f) ==
  /\ phase = "watch"
  /\ observer = Nobody
  /\ f \in dirty
  /\ dirty' = dirty \ {f}
  /\ recorded' = [recorded EXCEPT ![f] = content[f]]
  /\ observer' = IF content[f] \in {0, recorded[f]} THEN Nobody ELSE f
  /\ UNCHANGED <<content, metadata, queue, phase, extractor, version, counters,
                 history>>

EnqueueForExtraction ==
  /\ observer # Nobody
  /\ queue' = Enqueue(queue, observer)
  /\ observer' = Nobody
  /\ runs' = IF observer \in Queued(queue) THEN runs ELSE [runs EXCEPT ![observer] = 0]
  /\ unqueued' = unqueued \ {observer}
  /\ UNCHANGED <<disk, recorded, metadata, phase, extractor, version, counters>>

(* enqueue fails, or the append that comes before it: a line in the log.    *)
EnqueueFails ==
  /\ observer # Nobody
  /\ StoreError
  /\ observer' = Nobody
  /\ unqueued' = unqueued \cup {observer}
  /\ UNCHANGED <<disk, recorded, metadata, queue, phase, extractor, version, runs>>

(* A scan of the running observer: an overflowed watch queue or a root added *)
(* live. requeue_stale is not called again.                                 *)
Rescan ==
  /\ phase = "watch"
  /\ observer = Nobody
  /\ rescans < MaxRescans
  /\ rescans' = rescans + 1
  /\ \E S \in SUBSET Existing :
       /\ recorded' = Scanned(S)
       /\ unqueued' = unqueued \cup {f \in S : recorded[f] # content[f]}
  /\ UNCHANGED <<disk, metadata, queue, phase, observer, extractor, version,
                 edits, crashes, faults, runs>>

-----------------------------------------------------------------------------
(* The worker thread. Operators named ...ThenWorks, ...First,               *)
(* ...BeforeStoring and ...Stored are mistaken variants used only by the     *)
(* mutation runs.                                                           *)

(* pending, with an empty batch when there is nothing to do.                *)
Poll ==
  /\ phase # "down"
  /\ worker = Idle
  /\ todo = {}
  /\ todo' \in Batches(queue)
  /\ UNCHANGED <<disk, recorded, metadata, queue, phase, observer, worker,
                 abandoned, version, counters, history>>

(* Resolving the path before the attempt is counted.                        *)
TakeResolvesFirst(f) ==
  /\ worker = Idle
  /\ f \in todo
  /\ todo' = todo \ {f}
  /\ \/ /\ content[f] = 0
        /\ UNCHANGED <<queue, worker, runs>>
     \/ /\ content[f] # 0
        /\ queue' = RecordAttempt(queue, f)
        /\ worker' = [at |-> "start", file |-> f, got |-> 0]
        /\ runs' = [runs EXCEPT ![f] = @ + 1]
  /\ UNCHANGED <<disk, recorded, metadata, phase, observer, abandoned, version,
                 counters, unqueued>>

(* process_one: the attempt is recorded before the work it counts.          *)
Take(f) ==
  /\ worker = Idle
  /\ f \in todo
  /\ todo' = todo \ {f}
  /\ queue' = RecordAttempt(queue, f)
  /\ worker' = [at |-> "start", file |-> f, got |-> 0]
  /\ runs' = [runs EXCEPT ![f] = @ + 1]
  /\ UNCHANGED <<disk, recorded, metadata, phase, observer, abandoned, version,
                 counters, unqueued>>

TakeFailsThenWorks(f) ==
  /\ worker = Idle
  /\ f \in todo
  /\ StoreError
  /\ todo' = todo \ {f}
  /\ worker' = [at |-> "start", file |-> f, got |-> 0]
  /\ runs' = [runs EXCEPT ![f] = @ + 1]
  /\ UNCHANGED <<disk, recorded, metadata, queue, phase, observer, abandoned,
                 version, unqueued>>

(* record_attempt fails: the file is left for a later batch.                *)
TakeFails(f) ==
  /\ worker = Idle
  /\ f \in todo
  /\ StoreError
  /\ todo' = todo \ {f}
  /\ UNCHANGED <<disk, recorded, metadata, queue, phase, observer, worker,
                 abandoned, version, history>>

(* The extractor reads the file as it is by now, if it is.                  *)
Extract ==
  /\ worker.at = "start"
  /\ worker' = [worker EXCEPT !.at = "running", !.got = content[worker.file]]
  /\ UNCHANGED <<disk, recorded, metadata, queue, phase, observer, todo, abandoned,
                 version, counters, history>>

SucceedBeforeStoring ==
  /\ worker.at = "running"
  /\ worker.got # 0
  /\ metadata' = metadata
  /\ queue' = Dequeue(queue, worker.file)
  /\ worker' = Idle
  /\ UNCHANGED <<disk, recorded, phase, observer, todo, abandoned, version,
                 counters, history>>

(* record_extraction: the metadata and the DELETE in one transaction.       *)
Succeed ==
  /\ worker.at = "running"
  /\ worker.got # 0
  /\ metadata' = [metadata EXCEPT ![worker.file] = [content |-> worker.got, by |-> version]]
  /\ queue' = Dequeue(queue, worker.file)
  /\ worker' = Idle
  /\ UNCHANGED <<disk, recorded, phase, observer, todo, abandoned, version,
                 counters, history>>

(* No path, no file, an extractor error or a failed record_extraction: the   *)
(* row stays and the worker moves on.                                       *)
Fail ==
  /\ worker.at \in {"start", "running"}
  /\ worker' = Idle
  /\ UNCHANGED <<disk, recorded, metadata, queue, phase, observer, todo, abandoned,
                 version, counters, history>>

(* EXTRACT_TIMEOUT passes: the thread is left running, nobody listens to it. *)
Timeout ==
  /\ worker.at = "running"
  /\ worker' = Idle
  /\ abandoned' = abandoned \cup {[file |-> worker.file, got |-> worker.got]}
  /\ UNCHANGED <<disk, recorded, metadata, queue, phase, observer, todo, version,
                 counters, history>>

LateAnswerStored(t) ==
  /\ t \in abandoned
  /\ t.got # 0
  /\ abandoned' = abandoned \ {t}
  /\ metadata' = [metadata EXCEPT ![t.file] = [content |-> t.got, by |-> version]]
  /\ queue' = Dequeue(queue, t.file)
  /\ UNCHANGED <<disk, recorded, phase, observer, worker, todo,
                 version, counters, history>>

(* An abandoned thread finishes and its answer is dropped.                  *)
LateAnswer(t) ==
  /\ t \in abandoned
  /\ abandoned' = abandoned \ {t}
  /\ UNCHANGED <<disk, recorded, metadata, queue, phase, observer, worker, todo,
                 version, counters, history>>

-----------------------------------------------------------------------------
Observe ==
  \/ InitialScan
  \/ RequeueStaleRows
  \/ RequeueFails
  \/ \E f \in Files : RecordPath(f)
  \/ EnqueueForExtraction
  \/ EnqueueFails

Work ==
  \/ Poll
  \/ \E f \in Files : Take(f) \/ TakeFails(f)
  \/ Extract
  \/ Succeed
  \/ Fail
  \/ Timeout

Next ==
  \/ \E f \in Files : Write(f)
  \/ Boot
  \/ Crash
  \/ Observe
  \/ Rescan
  \/ Work
  \/ \E t \in abandoned : LateAnswer(t)

Spec == Init /\ [][Next]_vars

(* The worker thread never stops by itself: every call it makes is bounded   *)
(* by EXTRACT_TIMEOUT. Nothing is assumed of anybody else.                  *)
FairSpec == Spec /\ WF_vars(Work)

-----------------------------------------------------------------------------
(* Once the startup pass is over, a file that needs extracting is in the     *)
(* queue, or in the observer's hand, or one of the files a failed enqueue or *)
(* a later scan left out: neither the worker's dequeuing nor a restart nor   *)
(* an upgrade loses one.                                                    *)
BacklogIsQueued ==
  phase = "watch" => Backlog \subseteq Queued(queue) \cup unqueued \cup {observer}

(* A file is handed to the extractor at most MAX_ATTEMPTS times for one row  *)
(* of the queue, also when each of those times killed the process, timed out *)
(* or failed to be written, and however often it is enqueued meanwhile.     *)
RunsBounded == \A f \in Files : runs[f] <= MaxAttempts

(* Metadata never go back to an older version of the file or an older        *)
(* extractor, whoever answers late.                                         *)
NeverOlder ==
  \A f \in Files :
    /\ metadata'[f].content >= metadata[f].content
    /\ metadata'[f].by >= metadata[f].by
MetadataAdvances == [][NeverOlder]_vars

(* A running worker gets every eligible file out of the way: it succeeds or  *)
(* runs out of attempts, whatever else fails.                               *)
Drains ==
  \A f \in Files :
    phase # "down" /\ f \in Pending(queue) ~> phase = "down" \/ f \notin Pending(queue)

-----------------------------------------------------------------------------
(* The inductive invariant behind RunsBounded: the attempts written in the   *)
(* row are the runs there were.                                             *)
RunsInv ==
  \A f \in Files :
    /\ runs[f] <= MaxAttempts
    /\ f \in Queued(queue) => runs[f] = queue[f]

(* The one behind MetadataAdvances: what the worker holds is no older than   *)
(* the metadata it will replace, and no newer than the file.                *)
AgeInv ==
  /\ \A f \in Files :
       /\ metadata[f].content <= edits
       /\ content[f] # 0 => metadata[f].content <= content[f]
       /\ metadata[f].by <= version
       /\ content[f] <= edits
  /\ worker.at = "running" /\ worker.got # 0 =>
       /\ metadata[worker.file].content <= worker.got
       /\ worker.got <= edits
       /\ content[worker.file] # 0 => worker.got <= content[worker.file]

-----------------------------------------------------------------------------
(* What a comment of the code says, and a run refutes.                      *)

(* main.rs 806-811: enqueueing each change is what keeps the queue of a      *)
(* live-watched corpus current. So a file whose change was applied has       *)
(* metadata of it, or a row in the queue.                                   *)
ChangesAreQueued ==
  phase = "watch" =>
    \A f \in Files \ {observer} :
      Extracted(f) /\ metadata[f].content < recorded[f] => f \in Queued(queue)
=============================================================================
