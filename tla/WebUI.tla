------------------------------- MODULE WebUI -------------------------------
(***************************************************************************)
(* The page (ui/src/main.js, api.js): a list of the timeline that grows at    *)
(* its end, is refreshed at its top by a timer, is replaced when a filter is  *)
(* chosen and gives way to the hits of a search. Every fetch is awaited, with *)
(* no number on it: answers come in any order, or not.                       *)
(***************************************************************************)
EXTENDS RowOrder, SequencesExt, Functions

CONSTANTS
  EventTypes,     (* events there may be: a kind and the facet of the file    *)
  SearchTexts,        (* texts of searches                                      *)
  Null,           (* no value; an All button                                *)
  PageSize,       (* PAGE_SIZE                                              *)
  MaxLog,         (* bound: events                                          *)
  MaxInFlight,    (* bound: fetches at a time                               *)
  MaxFetches      (* bound: fetches in all                                  *)

EventKinds == {e.kind : e \in EventTypes} \cup {Null}
FacetValues == {e.facet : e \in EventTypes} \cup {Null}
Filters == [kind : EventKinds, facet : FacetValues]
Hits == [query : SearchTexts, facet : FacetValues]
Fetches == [what : {"first", "more", "poll", "search"}, filter : Filters,
            before : Nat \cup {Null}, query : SearchTexts \cup {Null},
            rows : Seq(Nat) \cup {Null}]

(* No value is not one of the values there are.                              *)
ASSUME WebAssumption ==
  /\ {PageSize, MaxLog, MaxInFlight, MaxFetches} \subseteq Nat \ {0}
  /\ Null \notin Nat /\ Null \notin Seq(Nat) /\ Null \notin Hits /\ Null \notin Fetches

VARIABLES
  log,            (* what the daemon has recorded                           *)
  page,           (* `state`                                                *)
  fetches,        (* in flight                                              *)
  sent,           (* how many there were                                    *)
  upset           (* history: what makes the list inexact, see ShownExact    *)

webVars == <<log, page, fetches, sent, upset>>

Slots == 1 .. MaxInFlight

(* The rows a filter selects, and the first ones below a cursor, as Paging     *)
(* has them.                                                                *)
Chosen(filter) ==
  {i \in DOMAIN log : /\ filter.kind \in {Null, log[i].kind}
                      /\ filter.facet \in {Null, log[i].facet}}

Rows(filter, before) ==
  FirstRows(NewestFirst({i \in Chosen(filter) : before # Null => i < before}), PageSize)

InFlight == {s \in Slots : fetches[s] # Null}

WebTypeOK ==
  /\ log \in Seq(EventTypes)
  /\ page.filter \in Filters
  /\ Range(page.entries) \subseteq DOMAIN log
  /\ page.cursor \in DOMAIN log \cup {Null}
  /\ {page.exhausted, page.loading} \subseteq BOOLEAN
  /\ page.hits \in Hits \cup {Null}
  /\ sent \in 0 .. MaxFetches

-----------------------------------------------------------------------------
Request(what, p, query) ==
  [what |-> what, filter |-> p.filter, before |-> IF what = "more" THEN p.cursor ELSE Null,
   query |-> query, rows |-> Null]

(* The page becomes p and fetches.                                          *)
Send(what, p, query) ==
  /\ sent < MaxFetches /\ InFlight # Slots
  /\ LET s == CHOOSE s \in Slots \ InFlight : TRUE
     IN fetches' = [fetches EXCEPT ![s] = Request(what, p, query)]
  /\ page' = p
  /\ sent' = sent + 1
  /\ upset' = (upset \/ InFlight # {})
  /\ UNCHANGED log

WebInit ==
  LET blank == [filter |-> [kind |-> Null, facet |-> Null], entries |-> <<>>, cursor |-> Null,
                exhausted |-> FALSE, loading |-> TRUE, hits |-> Null]
  IN /\ log = <<>>
     /\ page = blank
     /\ fetches = [s \in Slots |-> IF s = 1 THEN Request("first", blank, Null) ELSE Null]
     /\ sent = 1
     /\ upset = FALSE

LoadFirstPage(p) == Send("first", [p EXCEPT !.hits = Null, !.loading = TRUE], Null)

RunSearch(p, query) == Send("search", [p EXCEPT !.loading = TRUE], query)

(* A kind is clicked: back to the timeline.                                  *)
ClickKind ==
  \E kind \in EventKinds : LoadFirstPage([page EXCEPT !.filter.kind = kind])

(* A facet is chosen: the search is narrowed, if there is one.                *)
ChangeFacet ==
  \E facet \in FacetValues :
    LET p == [page EXCEPT !.filter.facet = facet]
    IN IF page.hits # Null THEN RunSearch(p, page.hits.query) ELSE LoadFirstPage(p)

Submit == \E query \in SearchTexts : RunSearch(page, query)

(* Cleared, or an empty text submitted.                                      *)
ExitSearchMode == page.hits # Null /\ LoadFirstPage(page)

LoadMore ==
  /\ ~page.loading /\ ~page.exhausted /\ page.cursor # Null
  /\ Send("more", [page EXCEPT !.loading = TRUE], Null)

PollNewest == ~page.loading /\ Send("poll", page, Null)

(* The daemon answers, with what it has by then.                             *)
Serve(s) ==
  /\ fetches[s] # Null /\ fetches[s].rows = Null
  /\ fetches' = [fetches EXCEPT ![s].rows =
       IF fetches[s].what = "search" THEN <<>>
       ELSE Rows(fetches[s].filter, fetches[s].before)]
  /\ UNCHANGED <<log, page, sent, upset>>

Done(s) == fetches' = [fetches EXCEPT ![s] = Null] /\ UNCHANGED <<log, sent>>

Cursor(rows) == IF rows = <<>> THEN Null ELSE Last(rows)

(* The first page replaces the list.                                        *)
ShowFirst(s) ==
  LET rows == fetches[s].rows IN
  /\ page' = [page EXCEPT !.entries = rows, !.cursor = Cursor(rows),
                          !.exhausted = Len(rows) < PageSize, !.loading = FALSE]
  /\ UNCHANGED upset

(* The next page goes under it.                                              *)
ShowMore(s) ==
  LET rows == fetches[s].rows IN
  /\ page' = [page EXCEPT !.entries = @ \o rows, !.loading = FALSE,
                          !.cursor = IF rows = <<>> THEN @ ELSE Cursor(rows),
                          !.exhausted = Len(rows) < PageSize]
  /\ UNCHANGED upset

(* What is new of the newest page, which is newest first, goes on top.        *)
ShowNewest(s) ==
  LET fresh == NewestFirst(Range(fetches[s].rows) \ Range(page.entries)) IN
  /\ page' = [page EXCEPT !.entries = fresh \o @]
  /\ upset' = (upset \/ Len(fresh) = PageSize)

ShowHits(s) ==
  /\ page' = [page EXCEPT !.hits = [query |-> fetches[s].query, facet |-> fetches[s].filter.facet],
                          !.loading = FALSE]
  /\ UNCHANGED upset

Deliver(s) ==
  /\ fetches[s] # Null /\ fetches[s].rows # Null
  /\ CASE fetches[s].what = "first" -> ShowFirst(s)
       [] fetches[s].what = "more" -> ShowMore(s)
       [] fetches[s].what = "poll" -> ShowNewest(s)
       [] fetches[s].what = "search" -> ShowHits(s)
  /\ Done(s)

(* A mistaken variant of Fail, used only by the mutation runs: a failed fetch *)
(* is still loading.                                                        *)
FailLoading(s) ==
  /\ fetches[s] # Null
  /\ Done(s)
  /\ upset' = TRUE
  /\ UNCHANGED page

(* No answer, or one that is an error: only the message changes.              *)
Fail(s) ==
  /\ fetches[s] # Null
  /\ page' = [page EXCEPT !.loading = IF fetches[s].what = "poll" THEN @ ELSE FALSE]
  /\ upset' = (upset \/ fetches[s].what \in {"first", "search"})
  /\ Done(s)

RecordRow ==
  /\ Len(log) < MaxLog
  /\ \E e \in EventTypes : log' = Append(log, e)
  /\ UNCHANGED <<page, fetches, sent, upset>>

WebNext ==
  \/ ClickKind \/ ChangeFacet \/ Submit \/ ExitSearchMode \/ LoadMore \/ PollNewest \/ RecordRow
  \/ \E s \in Slots : Serve(s) \/ Deliver(s) \/ Fail(s)

WebSpec == WebInit /\ [][WebNext]_webVars

-----------------------------------------------------------------------------
(* As long as one fetch waits for another, no first page or search failed and  *)
(* no poll brought a whole page of news, what is shown is what the filter      *)
(* says: the hits of the facet chosen, or the timeline, every row selected    *)
(* from the newest the page knows down to its last, in order, and all there   *)
(* are when the button is gone (main.js 320, 475).                           *)
ShownExact ==
  ~upset /\ InFlight = {} =>
    LET rows == page.entries IN
    IF page.hits # Null THEN page.hits.facet = page.filter.facet
    ELSE rows # <<>> =>
      /\ rows = NewestFirst({i \in Chosen(page.filter) : Last(rows) <= i /\ i <= Head(rows)})
      /\ page.exhausted => \A i \in Chosen(page.filter) : i >= Last(rows)

(* Whatever overtakes what, and whatever fails: with nothing in flight the    *)
(* page is not loading, or it would never poll or load more again (main.js    *)
(* 343, 382).                                                               *)
NeverStuck == InFlight = {} => ~page.loading

(* The page tells the truth and goes on: the two above.                       *)
PageSound == WebTypeOK /\ ShownExact /\ NeverStuck
=============================================================================
