------------------------------- MODULE Paging -------------------------------
(***************************************************************************)
(* Reading the timeline page by page (api lib.rs `events`, store_adapter.rs  *)
(* `timeline`, dafs-store events.rs `timeline`) while the observer records   *)
(* and the extraction worker fills in what a filter looks at. One request is *)
(* one statement and sees the store at one moment; a client's read is many.  *)
(*                                                                         *)
(* One facet stands for the five, and one kind for each a filter may name.   *)
(***************************************************************************)
EXTENDS RowOrder, SequencesExt, Functions

CONSTANTS
  Files,
  Kinds,          (* kinds of events                                        *)
  Values,         (* values of a facet                                      *)
  LongValues,     (* those over MAX_FACET_FILTER_LEN                        *)
  NoValue,        (* NULL, or a filter that is not set                      *)
  DefaultLimit,   (* DEFAULT_EVENT_LIMIT                                    *)
  MaxLimit,       (* MAX_LIMIT                                              *)
  Limits,         (* limits a client may ask for, NoValue for none          *)
  MaxFacets,      (* MAX_FACET_VALUES                                       *)
  MaxEvents,      (* bound: events recorded                                 *)
  MaxClock        (* bound: times                                           *)

ASSUME PagingAssumption ==
  /\ NoValue \notin Kinds \cup Values /\ LongValues \subseteq Values
  /\ IsFiniteSet(Files) /\ IsFiniteSet(Values)
  /\ Limits \subseteq Nat \cup {NoValue}
  /\ {DefaultLimit, MaxLimit, MaxFacets, MaxEvents, MaxClock} \subseteq Nat \ {0}

VARIABLES
  events,         (* the log; an id is an index                             *)
  facet,          (* file_metadata: the value of each file                  *)
  reader,         (* a client: what it asks for, its cursor (0 before the    *)
                  (* first page), the ids it was shown, whether it is done   *)
  begun,          (* history: the last id when the read began               *)
  touched         (* history: files whose facet changed during the read     *)

pagingVars == <<events, facet, reader, begun, touched>>

-----------------------------------------------------------------------------
Queries == [limit : Limits, kind : Kinds \cup {NoValue, "unknown"},
            value : Values \cup {NoValue}]

PagingInit ==
  /\ events = <<>>
  /\ facet = [f \in Files |-> NoValue]
  /\ reader = [pc |-> "idle", query |-> NoValue, before |-> 0, shown |-> <<>>, answer |-> 200]
  /\ begun = 0
  /\ touched = {}

PagingTypeOK ==
  /\ events \in Seq([file : Files, kind : Kinds, at : 1 .. MaxClock])
  /\ facet \in [Files -> Values \cup {NoValue}]
  /\ reader.pc \in {"idle", "read", "done"}
  /\ reader.before \in 0 .. Len(events)
  /\ Range(reader.shown) \subseteq DOMAIN events
  /\ reader.answer \in {200, 400}
  /\ begun \in 0 .. Len(events)
  /\ touched \subseteq Files

(* Refused before the store is asked: a kind there is not, a value over       *)
(* MAX_FACET_FILTER_LEN.                                                    *)
Refused(query) == query.kind = "unknown" \/ query.value \in LongValues

(* effective_limit, after the default of the handler.                        *)
EffectiveLimit(query) ==
  LET limit == IF query.limit = NoValue THEN DefaultLimit ELSE query.limit
  IN Max({1, Min({limit, MaxLimit})})

(* The WHERE clause: a NULL equals nothing.                                  *)
Selected(query, before) ==
  {i \in DOMAIN events :
    /\ before # 0 => i < before
    /\ query.kind # NoValue => events[i].kind = query.kind
    /\ query.value # NoValue => facet[events[i].file] = query.value}

(* ORDER BY at_unix_ms DESC, id DESC                                        *)
Newer(i, j) == events[i].at > events[j].at \/ (events[i].at = events[j].at /\ i > j)

Timeline(query, before) ==
  FirstRows(InOrder(Selected(query, before), Newer), EffectiveLimit(query))

(* distinct_facets: the values of the files that have one, most common       *)
(* first, ties in any order: the answers there may be.                       *)
CountOf(v) == Cardinality({f \in Files : facet[f] = v})

DistinctFacets ==
  {FirstRows(vs, MaxFacets) :
     vs \in {vs \in SetToSeqs({v \in Values : CountOf(v) > 0}) :
             \A i, j \in DOMAIN vs : i < j => CountOf(vs[i]) >= CountOf(vs[j])}}

-----------------------------------------------------------------------------
(* The observer records an event of a file, at what the clock says then: not   *)
(* less than before, or after it was set back, anything.                    *)
RecordEvent ==
  /\ Len(events) < MaxEvents
  /\ \E f \in Files, k \in Kinds, t \in 1 .. MaxClock :
       events' = Append(events, [file |-> f, kind |-> k, at |-> t])
  /\ UNCHANGED <<facet, reader, begun, touched>>

(* The worker records the metadata of a file that an event has queued.        *)
ExtractFacet ==
  /\ \E i \in DOMAIN events, v \in Values \cup {NoValue} :
       /\ facet[events[i].file] # v
       /\ facet' = [facet EXCEPT ![events[i].file] = v]
       /\ touched' = IF reader.pc = "idle" THEN touched ELSE touched \cup {events[i].file}
  /\ UNCHANGED <<events, reader, begun>>

StartRead ==
  /\ reader.pc = "idle"
  /\ \E query \in Queries :
       reader' = IF Refused(query)
                 THEN [reader EXCEPT !.pc = "done", !.query = query, !.answer = 400]
                 ELSE [reader EXCEPT !.pc = "read", !.query = query]
  /\ begun' = Len(events)
  /\ UNCHANGED <<events, facet, touched>>

(* A mistaken variant of NextBeforeId, used only by the mutation runs: the     *)
(* cursor skips one.                                                        *)
NextBeforeIdSkipping(page) == Max({1, Last(page) - 1})

(* The cursor of a page that is not empty: the id of its last row.           *)
NextBeforeId(page) == Last(page)

(* A page, and on to the next; the empty one is the end.                     *)
ReadPage ==
  /\ reader.pc = "read"
  /\ LET page == Timeline(reader.query, reader.before) IN
       reader' = IF page = <<>> THEN [reader EXCEPT !.pc = "done"]
                 ELSE [reader EXCEPT !.shown = @ \o page, !.before = NextBeforeId(page)]
  /\ UNCHANGED <<events, facet, begun, touched>>

PagingNext == RecordEvent \/ ExtractFacet \/ StartRead \/ ReadPage

PagingSpec == PagingInit /\ [][PagingNext]_pagingVars

-----------------------------------------------------------------------------
(* A read shows what it should: newest first, nothing twice, and of what was  *)
(* there when it began and nobody extracted anew meanwhile exactly what the  *)
(* filter selects, at its end all of it; whatever is recorded between two    *)
(* pages, if the clock never went back (events.rs 187).                      *)
PagesExact ==
  (\A i, j \in DOMAIN events : i < j => events[i].at <= events[j].at) /\ reader.pc # "idle" /\ reader.answer = 200 =>
    LET wanted == {i \in Selected(reader.query, 0) : events[i].file \notin touched}
        shown == Range(reader.shown)
    IN /\ \A i, j \in DOMAIN reader.shown : i < j => reader.shown[i] > reader.shown[j]
       /\ {i \in shown : events[i].file \notin touched} \subseteq wanted
       /\ reader.pc = "done" => {i \in wanted : i <= begun} \subseteq shown

(* What the web UI offers to filter by is worth offering: every value          *)
(* selects a row of the timeline, unless the API refuses it for its length,   *)
(* and none left out would belong to more files (metadata.rs 257, api lib.rs  *)
(* 378; that a filter over the limit is offered at all is in the README).     *)
FacetsSelect ==
  \A offered \in DistinctFacets : \A v \in Range(offered) :
    LET query == [limit |-> NoValue, kind |-> NoValue, value |-> v] IN
      /\ ~Refused(query) => Timeline(query, 0) # <<>>
      /\ \A w \in Values \ Range(offered) : CountOf(w) <= CountOf(v)

(* A client that pages sees the timeline: PagesExact and FacetsSelect.        *)
PagingSound == PagingTypeOK /\ PagesExact /\ FacetsSelect
=============================================================================
