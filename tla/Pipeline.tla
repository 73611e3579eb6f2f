------------------------------ MODULE Pipeline ------------------------------
(***************************************************************************)
(* What follows a successful extraction: the extraction worker hands the   *)
(* file on to the enrichment and the embedding queue (extract_worker.rs,   *)
(* the end of `process_one`), and a worker for each stage drains its queue *)
(* over the network (enrich_worker.rs, embed_worker.rs). The process may be *)
(* killed and started again, with another LLM configuration or a newer     *)
(* prompt version.                                                         *)
(*                                                                         *)
(* How a file comes to be extracted is the subject of Extraction: here any  *)
(* file may be extracted at any time. Each extraction gets the next number, *)
(* which stands for the text it left in file_metadata.                     *)
(***************************************************************************)
EXTENDS WorkQueue

CONSTANTS
  Nobody,          (* the extraction worker hands nothing on                *)
  MaxModels,       (* the embedding models (with widths) one may configure  *)
  MaxExtractions,  (* bound: successful extractions                         *)
  MaxVersion,      (* bound: ENRICHMENT_VERSIONs installed                  *)
  MaxCrashes,      (* bound: times the process ends                         *)
  MaxFaults        (* bound: store errors                                   *)

ASSUME PipelineAssumption ==
  /\ Nobody \notin Files
  /\ MaxModels \in Nat \ {0}
  /\ MaxExtractions \in Nat
  /\ MaxVersion \in Nat \ {0}
  /\ MaxCrashes \in Nat
  /\ MaxFaults \in Nat

Stages == {"enrich", "embed"}
Off == 0

VARIABLES
  metadata,   (* file_metadata: which extraction, and how much body_text    *)
  queue,      (* enrichment_queue and embedding_queue                       *)
  results,    (* file_enrichment and file_embedding: from which extraction, *)
              (* by which prompt version or model; 0 for none               *)
  table,      (* embedding_config: the model the tables were created for    *)
  up,         (* whether the process runs                                   *)
  config,     (* what the running process has for each stage: the prompt    *)
              (* version, the embedding model, or Off                       *)
  handing,    (* the file just extracted, and the next stage to enqueue it  *)
  worker,     (* the thread of each stage: off, at its start, idle, or with *)
              (* a file and the text it read                                *)
  todo,       (* files of its batch not yet taken                           *)
  version,    (* the installed ENRICHMENT_VERSION                           *)
  extractions, crashes, faults,   (* counters of the bounds                 *)
  calls,      (* history: times a file was taken for a call since its queue *)
              (* row was made or reset                                      *)
  missed,     (* history: files a stage was not asked for, or not asked     *)
              (* again, though their text is long enough                    *)
  overtaken   (* history: files whose row went with the result of an older  *)
              (* extraction                                                 *)

database == <<metadata, queue, results, table>>
process == <<up, config, handing, worker, todo>>
counters == <<extractions, crashes, faults>>
history == <<calls, missed, overtaken>>
vars == <<database, process, version, counters, history>>

Extractions == 0 .. MaxExtractions
Makers == 0 .. (MaxVersion + MaxModels)
NoFile == [file |-> Nobody, next |-> "enrich"]
At(where) == [at |-> where, file |-> Nobody, got |-> 0]
Idle == At("loop")
Waiting == {At("off"), At("start"), Idle}
Busy == [at : {"took", "calling"}, file : Files, got : Extractions]

TypeOK ==
  /\ metadata \in [Files -> [from : Extractions, text : {"none", "short", "long"}]]
  /\ queue \in [Stages -> Queue]
  /\ results \in [Stages -> [Files -> [from : Extractions, by : Makers]]]
  /\ table \in 0 .. MaxModels
  /\ up \in BOOLEAN
  /\ config \in [enrich : 0 .. MaxVersion, embed : 0 .. MaxModels]
  /\ handing = NoFile \/ handing \in [file : Files, next : Stages]
  /\ worker \in [Stages -> Waiting \cup Busy]
  /\ \A s \in Stages : worker[s].file \notin todo[s]
  /\ todo \in [Stages -> SUBSET Files]
  /\ \A s \in Stages : todo[s] \subseteq Pending(queue[s])
  /\ version \in 1 .. MaxVersion
  /\ extractions \in Extractions
  /\ crashes \in 0 .. MaxCrashes
  /\ faults \in 0 .. MaxFaults
  /\ calls \in [Stages -> [Files -> Nat]]
  /\ missed \in [Stages -> SUBSET Files]
  /\ overtaken \in [Stages -> SUBSET Files]

ForStages(value) == [s \in Stages |-> value]

Init ==
  /\ metadata = [f \in Files |-> [from |-> 0, text |-> "none"]]
  /\ queue = ForStages(EmptyQueue)
  /\ results = ForStages([f \in Files |-> [from |-> 0, by |-> 0]])
  /\ table = Off
  /\ up = FALSE
  /\ config = [enrich |-> Off, embed |-> Off]
  /\ handing = NoFile
  /\ worker = ForStages(At("off"))
  /\ todo = ForStages({})
  /\ version = 1
  /\ extractions = 0 /\ crashes = 0 /\ faults = 0
  /\ calls = ForStages([f \in Files |-> 0])
  /\ missed = ForStages({})
  /\ overtaken = ForStages({})

(* has_enough_text_to_enrich.                                               *)
Long(f) == metadata[f].text = "long"

(* The file the extraction worker has still to hand to the stage s.         *)
InHand(s) ==
  {f \in Files : handing.file = f /\ (handing.next = "enrich" \/ s = "embed")}

StoreError ==
  /\ faults < MaxFaults
  /\ faults' = faults + 1
  /\ UNCHANGED <<extractions, crashes>>

-----------------------------------------------------------------------------
(* The process. `requires` on the options ties embeddings to the LLM.       *)

Configurations(v) ==
  [enrich : {Off}, embed : {Off}] \cup [enrich : {v}, embed : 0 .. MaxModels]

Boot ==
  /\ ~up
  /\ up' = TRUE
  /\ \/ version' = version
     \/ version < MaxVersion /\ version' = version + 1
  /\ config' \in Configurations(version')
  /\ worker' = [s \in Stages |-> IF config'[s] = Off THEN At("off") ELSE At("start")]
  /\ UNCHANGED <<database, handing, todo, counters, history>>

(* The process ends, whatever its threads were doing.                       *)
Crash ==
  /\ up
  /\ crashes < MaxCrashes
  /\ crashes' = crashes + 1
  /\ up' = FALSE
  /\ config' = [enrich |-> Off, embed |-> Off]
  /\ handing' = NoFile
  /\ worker' = ForStages(At("off"))
  /\ todo' = ForStages({})
  /\ missed' = [s \in Stages |-> missed[s] \cup {f \in InHand(s) : Long(f)}]
  /\ UNCHANGED <<database, version, extractions, faults, calls, overtaken>>

-----------------------------------------------------------------------------
(* The extraction worker.                                                   *)

(* record_extraction, of a file with any amount of text.                    *)
RecordExtraction(f) ==
  /\ up
  /\ handing = NoFile
  /\ extractions < MaxExtractions
  /\ extractions' = extractions + 1
  /\ \E text \in {"none", "short", "long"} :
       metadata' = [metadata EXCEPT ![f] = [from |-> extractions + 1, text |-> text]]
  /\ handing' = [file |-> f, next |-> "enrich"]
  /\ UNCHANGED <<queue, results, table, up, config, worker, todo, version, crashes,
                 faults, history>>

(* maybe_enqueue_enrichment, then maybe_enqueue_embedding.                  *)
NextStage ==
  handing' = IF handing.next = "enrich" THEN [handing EXCEPT !.next = "embed"] ELSE NoFile

HandOver(s) ==
  /\ handing.file # Nobody
  /\ handing.next = s
  /\ config[s] # Off
  /\ Long(handing.file)
  /\ queue' = [queue EXCEPT ![s] = Enqueue(@, handing.file)]
  /\ calls' = IF handing.file \in Queued(queue[s]) THEN calls
              ELSE [calls EXCEPT ![s][handing.file] = 0]
  /\ missed' = [missed EXCEPT ![s] = @ \ {handing.file}]
  /\ overtaken' = [overtaken EXCEPT ![s] = @ \ {handing.file}]
  /\ NextStage
  /\ UNCHANGED <<metadata, results, table, up, config, worker, todo, version, counters>>

(* The stage is not configured, or the text is too short for it.            *)
PassOver(s) ==
  /\ handing.file # Nobody
  /\ handing.next = s
  /\ config[s] = Off \/ ~Long(handing.file)
  /\ missed' = IF Long(handing.file) THEN [missed EXCEPT ![s] = @ \cup {handing.file}]
               ELSE missed
  /\ NextStage
  /\ UNCHANGED <<database, up, config, worker, todo, version, counters, calls, overtaken>>

(* enqueue fails: a line in the log, and on to the next stage.              *)
HandOverFails(s) ==
  /\ handing.file # Nobody
  /\ handing.next = s
  /\ config[s] # Off
  /\ Long(handing.file)
  /\ StoreError
  /\ missed' = [missed EXCEPT ![s] = @ \cup {handing.file}]
  /\ NextStage
  /\ UNCHANGED <<database, up, config, worker, todo, version, calls, overtaken>>

-----------------------------------------------------------------------------
(* The start of the two workers. Operators named ...WithText, ...Unchecked,  *)
(* ...Uncounted and ...Unstored, here and below, are mistaken variants used  *)
(* only by the mutation runs.                                               *)

Become(s, w) == worker' = [worker EXCEPT ![s] = w]

(* Files enriched with an older prompt. Never those not enriched at all.    *)
Stale == {f \in Files : results["enrich"][f].by \in 1 .. (config["enrich"] - 1)}

StartEnrichWithText ==
  /\ worker["enrich"] = At("start")
  /\ queue' = [queue EXCEPT !["enrich"] = RequeueStale(@, {f \in Stale : Long(f)}, {})]
  /\ calls' = [calls EXCEPT !["enrich"] =
                 [f \in Files |-> IF f \in Stale /\ Long(f) THEN 0 ELSE calls["enrich"][f]]]
  /\ Become("enrich", Idle)
  /\ UNCHANGED <<metadata, results, table, up, config, handing, todo, version, counters,
                 missed, overtaken>>

(* requeue_stale.                                                           *)
StartEnrich ==
  /\ worker["enrich"] = At("start")
  /\ queue' = [queue EXCEPT !["enrich"] = RequeueStale(@, Stale, {})]
  /\ calls' = [calls EXCEPT !["enrich"] =
                 [f \in Files |-> IF f \in Stale THEN 0 ELSE calls["enrich"][f]]]
  /\ Become("enrich", Idle)
  /\ UNCHANGED <<metadata, results, table, up, config, handing, todo, version, counters,
                 missed, overtaken>>

(* Its statement fails: the worker goes on without.                         *)
StartEnrichFails ==
  /\ worker["enrich"] = At("start")
  /\ StoreError
  /\ missed' = [missed EXCEPT !["enrich"] = @ \cup Stale]
  /\ Become("enrich", Idle)
  /\ UNCHANGED <<database, up, config, handing, todo, version, calls, overtaken>>

StartEmbedUnchecked ==
  /\ worker["embed"] = At("start")
  /\ table' = config["embed"]
  /\ Become("embed", Idle)
  /\ UNCHANGED <<metadata, queue, results, up, config, handing, todo, version, counters,
                 history>>

(* ensure_table, which creates the tables for the configured model or finds  *)
(* that they were made for it.                                              *)
StartEmbed ==
  /\ worker["embed"] = At("start")
  /\ table \in {Off, config["embed"]}
  /\ table' = config["embed"]
  /\ Become("embed", Idle)
  /\ UNCHANGED <<metadata, queue, results, up, config, handing, todo, version, counters,
                 history>>

(* DimensionMismatch: the worker ends, and the queue fills all the same.    *)
StartEmbedRefused ==
  /\ worker["embed"] = At("start")
  /\ table \notin {Off, config["embed"]}
  /\ Become("embed", At("off"))
  /\ UNCHANGED <<database, up, config, handing, todo, version, counters, history>>

(* The store cannot be opened, or ensure_table fails.                       *)
StartFails(s) ==
  /\ worker[s] = At("start")
  /\ StoreError
  /\ Become(s, At("off"))
  /\ UNCHANGED <<database, up, config, handing, todo, version, history>>

-----------------------------------------------------------------------------
(* The loop of both workers.                                                *)

(* pending, with an empty batch when there is nothing to do.                *)
Poll(s) ==
  /\ worker[s] = Idle
  /\ todo[s] = {}
  /\ \E B \in Batches(queue[s]) : todo' = [todo EXCEPT ![s] = B]
  /\ UNCHANGED <<database, up, config, handing, worker, version, counters, history>>

TakeUncounted(s, f) ==
  /\ worker[s] = Idle
  /\ f \in todo[s]
  /\ todo' = [todo EXCEPT ![s] = @ \ {f}]
  /\ calls' = [calls EXCEPT ![s][f] = @ + 1]
  /\ Become(s, [at |-> "took", file |-> f, got |-> 0])
  /\ UNCHANGED <<database, up, config, handing, version, counters, missed, overtaken>>

(* process_one: the attempt is recorded before the call it counts.          *)
Take(s, f) ==
  /\ worker[s] = Idle
  /\ f \in todo[s]
  /\ todo' = [todo EXCEPT ![s] = @ \ {f}]
  /\ queue' = [queue EXCEPT ![s] = RecordAttempt(@, f)]
  /\ calls' = [calls EXCEPT ![s][f] = @ + 1]
  /\ Become(s, [at |-> "took", file |-> f, got |-> 0])
  /\ UNCHANGED <<metadata, results, table, up, config, handing, version, counters,
                 missed, overtaken>>

(* record_attempt fails: the file is left for a later batch.                *)
TakeFails(s, f) ==
  /\ worker[s] = Idle
  /\ f \in todo[s]
  /\ StoreError
  /\ todo' = [todo EXCEPT ![s] = @ \ {f}]
  /\ UNCHANGED <<database, up, config, handing, worker, version, history>>

(* The text is read once, before the call.                                  *)
ReadText(s) ==
  /\ worker[s].at = "took"
  /\ metadata[worker[s].file].text # "none"
  /\ Become(s, [worker[s] EXCEPT !.at = "calling", !.got = metadata[worker[s].file].from])
  /\ UNCHANGED <<database, up, config, handing, todo, version, counters, history>>

(* No text any more: the attempt is spent and the row stays.                *)
NoText(s) ==
  /\ worker[s].at = "took"
  /\ metadata[worker[s].file].text = "none"
  /\ Become(s, Idle)
  /\ UNCHANGED <<database, up, config, handing, todo, version, counters, history>>

AnswerUnstored(s) ==
  /\ worker[s].at = "calling"
  /\ queue' = [queue EXCEPT ![s] = Dequeue(@, worker[s].file)]
  /\ Become(s, Idle)
  /\ UNCHANGED <<metadata, results, table, up, config, handing, todo, version, counters,
                 history>>

(* The call returns: record_enrichment, or store, with the DELETE in one     *)
(* transaction.                                                             *)
Answer(s) ==
  LET f == worker[s].file IN
  /\ worker[s].at = "calling"
  /\ results' = [results EXCEPT ![s][f] = [from |-> worker[s].got, by |-> config[s]]]
  /\ queue' = [queue EXCEPT ![s] = Dequeue(@, f)]
  /\ overtaken' = IF Long(f) /\ worker[s].got # metadata[f].from
                  THEN [overtaken EXCEPT ![s] = @ \cup {f}] ELSE overtaken
  /\ Become(s, Idle)
  /\ UNCHANGED <<metadata, table, up, config, handing, todo, version, counters, calls,
                 missed>>

(* metadata::get fails, the call fails or times out, or its result cannot be *)
(* stored: the row stays and the worker moves on.                           *)
Fail(s) ==
  /\ worker[s].at \in {"took", "calling"}
  /\ Become(s, Idle)
  /\ UNCHANGED <<database, up, config, handing, todo, version, counters, history>>

-----------------------------------------------------------------------------
Feed ==
  \/ \E f \in Files : RecordExtraction(f)
  \/ \E s \in Stages : HandOver(s) \/ PassOver(s) \/ HandOverFails(s)

Start ==
  \/ StartEnrich
  \/ StartEnrichFails
  \/ StartEmbed
  \/ StartEmbedRefused
  \/ \E s \in Stages : StartFails(s)

Work(s) ==
  \/ Poll(s)
  \/ \E f \in Files : Take(s, f) \/ TakeFails(s, f)
  \/ ReadText(s)
  \/ NoText(s)
  \/ Answer(s)
  \/ Fail(s)

Next ==
  \/ Boot
  \/ Crash
  \/ Feed
  \/ Start
  \/ \E s \in Stages : Work(s)

Spec == Init /\ [][Next]_vars

-----------------------------------------------------------------------------
(* A file with enough text has the result of its last extraction, or a row   *)
(* in the queue of the stage, or is about to get one, or is one of those the *)
(* stage was not asked for, or lost its row to the result of an older text. *)
(* No crash, refusal or failed call loses one in another way.               *)
CurrentOrQueued ==
  \A s \in Stages, f \in Files :
    Long(f) =>
      \/ results[s][f].from = metadata[f].from
      \/ f \in Queued(queue[s]) \cup InHand(s) \cup missed[s] \cup overtaken[s]

(* Once the enrichment worker is past its start, what an older prompt made   *)
(* is queued to be made again, whatever was dequeued meanwhile.             *)
UpgradeReaches ==
  worker["enrich"].at \notin {"off", "start"} =>
    Stale \subseteq Queued(queue["enrich"]) \cup missed["enrich"]

(* At most MAX_ATTEMPTS network calls are made for one row of a queue, also  *)
(* when each of them killed the process or could not be stored, and however *)
(* often the file is extracted meanwhile.                                   *)
CallsBounded == \A s \in Stages, f \in Files : calls[s][f] <= MaxAttempts

(* All vectors in the table are of one model, whatever models the process    *)
(* was configured with over time: distances compare like with like.         *)
OneModel == \A f \in Files : results["embed"][f].by \in {Off, table}

-----------------------------------------------------------------------------
(* The inductive invariants behind them: the attempts in a row are the calls *)
(* there were; only a worker whose model is the table's ever calls.         *)
CallsInv ==
  \A s \in Stages, f \in Files :
    /\ calls[s][f] <= MaxAttempts
    /\ f \in Queued(queue[s]) => calls[s][f] = queue[s][f]

ModelInv ==
  /\ OneModel
  /\ worker["embed"].at \notin {"off", "start"} => config["embed"] = table
=============================================================================
