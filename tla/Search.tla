------------------------------- MODULE Search -------------------------------
(***************************************************************************)
(* Search by meaning (api lib.rs `search_route`, store_adapter.rs             *)
(* `SqliteSearch`, dafs-store embeddings.rs `search`): the query is embedded, *)
(* a pass over the vectors quantized to their signs picks candidates, these   *)
(* are ranked by their real distance and then filtered. Every step is a       *)
(* statement of its own: the workers store between any two of them.           *)
(*                                                                         *)
(* One facet stands for the five; the latest event of a document shows it as  *)
(* it is when the event is read.                                            *)
(***************************************************************************)
EXTENDS Integers, Sequences, SequencesExt, FiniteSets, FiniteSetsExt, Functions

CONSTANTS
  Docs,
  Vectors,            (* what the endpoint may answer: tuples of numbers      *)
  Facets,
  LongFacets,         (* those over MAX_FACET_FILTER_LEN                      *)
  None,               (* no row, no filter                                  *)
  SearchLimits,       (* what a caller may ask for                          *)
  OversampleFactor,   (* OVERSAMPLE_FACTOR                                  *)
  FilterOversample,   (* FACET_FILTER_OVERSAMPLE                            *)
  MaxCandidates,      (* MAX_FACET_CANDIDATE_LIMIT                          *)
  MaxStores           (* bound: vectors stored                              *)

ASSUME SearchAssumption ==
  /\ None \notin Vectors \cup Facets /\ LongFacets \subseteq Facets
  /\ SearchLimits \subseteq Nat
  /\ {OversampleFactor, FilterOversample, MaxCandidates} \subseteq Nat \ {0}
  /\ MaxStores \in Nat

VARIABLES
  floats,             (* file_embedding                                     *)
  bins,               (* file_embedding_bin                                 *)
  label,              (* the facet of each document                         *)
  stores,
  search,             (* the search at hand                                 *)
  disturbed           (* history: the store changed since its first pass    *)

searchVars == <<floats, bins, label, stores, search, disturbed>>

-----------------------------------------------------------------------------
(* quantize_bits: a sign for each dimension, zero with the positive ones.     *)
Quantized(vector) == [i \in DOMAIN vector |-> vector[i] >= 0]

Hamming(bits, query) == Cardinality({i \in DOMAIN bits : bits[i] # query[i]})

(* euclidean_distance, whose root is left out: it keeps the order.            *)
Distance(v, w) == FoldFunction(LAMBDA i, s : s + (v[i] - w[i]) * (v[i] - w[i]), 0,
                               [i \in DOMAIN v |-> i])

Stored == {d \in Docs : bins[d] # None}

Idle == [pc |-> "idle", vector |-> None, limit |-> 0, filter |-> None, candidates |-> {},
         scored |-> {}, hits |-> <<>>, answer |-> 200]

SearchInit ==
  /\ floats = [d \in Docs |-> None]
  /\ bins = [d \in Docs |-> None]
  /\ label = [d \in Docs |-> None]
  /\ stores = 0
  /\ search = Idle
  /\ disturbed = FALSE

SearchTypeOK ==
  /\ floats \in [Docs -> Vectors \cup {None}]
  /\ label \in [Docs -> Facets \cup {None}]
  /\ stores \in 0 .. MaxStores
  /\ search.pc \in {"idle", "embedding", "pass", "rescore", "latest", "done"}
  /\ search.candidates \subseteq Docs
  /\ {h.doc : h \in search.scored \cup Range(search.hits)} \subseteq Docs
  /\ search.answer \in {200, 400, 500}

-----------------------------------------------------------------------------
Disturb == disturbed' = (disturbed \/ search.pc \in {"rescore", "latest", "done"})

(* A mistaken variant of StoreBoth, used only by the mutation runs: the       *)
(* quantized row is only ever inserted.                                     *)
StoreBothOnce(d, v) ==
  /\ floats' = [floats EXCEPT ![d] = v]
  /\ bins' = [bins EXCEPT ![d] = IF @ = None THEN Quantized(v) ELSE @]

(* `store`: both rows in a transaction.                                      *)
StoreBoth(d, v) ==
  /\ floats' = [floats EXCEPT ![d] = v]
  /\ bins' = [bins EXCEPT ![d] = Quantized(v)]

Store ==
  /\ stores < MaxStores
  /\ stores' = stores + 1
  /\ \E d \in Docs, v \in Vectors : StoreBoth(d, v)
  /\ Disturb
  /\ UNCHANGED <<label, search>>

(* The extraction worker finds a new value for the facet of a document.       *)
Relabel ==
  /\ stores < MaxStores
  /\ stores' = stores + 1
  /\ \E d \in Docs, value \in Facets : label' = [label EXCEPT ![d] = value]
  /\ Disturb
  /\ UNCHANGED <<floats, bins, search>>

(* The handler: an empty or too long text, or a facet over the limit, is      *)
(* refused before the endpoint is asked.                                     *)
Ask ==
  /\ search.pc = "idle"
  /\ \E text \in {"", "text", "too long"}, limit \in SearchLimits, filter \in Facets \cup {None} :
       search' = IF text # "text" \/ filter \in LongFacets
                 THEN [search EXCEPT !.pc = "done", !.answer = 400]
                 ELSE [search EXCEPT !.pc = "embedding", !.limit = limit, !.filter = filter]
  /\ UNCHANGED <<floats, bins, label, stores, disturbed>>

(* The endpoint answers, with no connection held; or it does not.             *)
Embed ==
  /\ search.pc = "embedding"
  /\ \/ \E v \in Vectors : search' = [search EXCEPT !.pc = "pass", !.vector = v]
     \/ search' = [search EXCEPT !.pc = "done", !.answer = 500]
  /\ UNCHANGED <<floats, bins, label, stores, disturbed>>

CandidateLimit ==
  IF search.filter = None THEN search.limit
  ELSE Min({search.limit * FilterOversample, MaxCandidates})

(* The first pass: the documents whose signs differ least from the query's,   *)
(* ties as vec0 has them.                                                   *)
HammingPass ==
  /\ search.pc = "pass"
  /\ \E pool \in kSubset(Min({CandidateLimit * OversampleFactor, Cardinality(Stored)}), Stored) :
       /\ \A d \in pool, e \in Stored \ pool :
            Hamming(bins[d], Quantized(search.vector)) <= Hamming(bins[e], Quantized(search.vector))
       /\ search' = [search EXCEPT !.pc = IF pool = {} THEN "done" ELSE "rescore", !.candidates = pool]
  /\ UNCHANGED <<floats, bins, label, stores, disturbed>>

(* The real vector of one more candidate.                                    *)
Rescore ==
  /\ search.pc = "rescore"
  /\ LET left == search.candidates \ {h.doc : h \in search.scored} IN
       \E d \in left :
         search' = [search EXCEPT !.pc = IF left = {d} THEN "latest" ELSE @,
                                  !.scored = @ \cup {[doc |-> d,
                                    distance |-> Distance(floats[d], search.vector)]}]
  /\ UNCHANGED <<floats, bins, label, stores, disturbed>>

Matches(d) == search.filter # None => label[d] = search.filter

(* The nearest of some documents that were scored, as a sort and `truncate`   *)
(* leave them: of those as near as each other, any.                          *)
Nearest(hits, limit) ==
  {near \in kSubset(Min({limit, Cardinality(hits)}), hits) :
     \A h \in near, k \in hits \ near : h.distance <= k.distance}

(* What is left of them: the candidates asked for, the filter, then the limit. *)
Kept ==
  UNION {Nearest({h \in pool : Matches(h.doc)}, search.limit) :
           pool \in Nearest(search.scored, CandidateLimit)}

(* The latest events of what is kept, closest first.                         *)
Latest ==
  /\ search.pc = "latest"
  /\ \E kept \in Kept : \E ranking \in SetToSeqs(kept) :
       /\ \A i, j \in DOMAIN ranking : i < j => ranking[i].distance <= ranking[j].distance
       /\ search' = [search EXCEPT !.pc = "done",
            !.hits = [i \in DOMAIN ranking |->
                       [doc |-> ranking[i].doc, distance |-> ranking[i].distance,
                        label |-> label[ranking[i].doc]]]]
  /\ UNCHANGED <<floats, bins, label, stores, disturbed>>

SearchNext == Store \/ Relabel \/ Ask \/ Embed \/ HammingPass \/ Rescore \/ Latest

SearchSpec == SearchInit /\ [][SearchNext]_searchVars

-----------------------------------------------------------------------------
(* Whatever is stored while a search runs, what it answers is a ranking: no   *)
(* more hits than asked for, no document twice, closest first, and each with  *)
(* the facet that was asked for (store_adapter.rs 173).                      *)
HitsRanked ==
  /\ Len(search.hits) <= search.limit
  /\ \A i, j \in DOMAIN search.hits : i < j =>
       /\ search.hits[i].doc # search.hits[j].doc
       /\ search.hits[i].distance <= search.hits[j].distance
  /\ \A h \in Range(search.hits) : search.filter # None => h.label = search.filter

(* What the shortcuts may cost: when nothing was stored under the search, a   *)
(* document that should be among the hits is missing only if its signs       *)
(* differ from the query's at least as much as every candidate's, or if as    *)
(* many as the filter may look at are as near. Two passes over two tables    *)
(* never lose anything else (embeddings.rs 224, store_adapter.rs 231).        *)
NearestFound ==
  search.pc = "done" /\ search.answer = 200 /\ search.vector # None /\ ~disturbed =>
    LET far(d) == Distance(floats[d], search.vector)
        signs(d) == Hamming(Quantized(floats[d]), Quantized(search.vector))
        found == {h.doc : h \in Range(search.hits)}
    IN \A d \in Stored \ found : Matches(d) =>
         \/ Len(search.hits) = search.limit /\ \A e \in found : far(e) <= far(d)
         \/ Cardinality({e \in Stored \ {d} : far(e) <= far(d)}) >= CandidateLimit
         \/ d \notin search.candidates /\ \A e \in search.candidates : signs(e) <= signs(d)

(* A search answers with the nearest: the two above.                          *)
SearchSound == SearchTypeOK /\ HitsRanked /\ NearestFound
=============================================================================
