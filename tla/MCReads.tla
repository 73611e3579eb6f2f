------------------------------- MODULE MCReads -------------------------------
(* Instances for TLC of what is read: pages of the timeline and facets,       *)
(* searches, paths, the web page that shows them, and what is taken of         *)
(* documents, pictures and a model's replies. They share no state, so each     *)
(* behaviour is of one part, and TLC need not go through every mixture of      *)
(* them.                                                                    *)
EXTENDS Paging, Paths, Search, WebUI, Documents, Exif, Replies, TLC

VARIABLE part

-----------------------------------------------------------------------------
(* A root, and one inside it that is written through "..".                    *)
MCRootDirs == {<<"a">>, <<"a", "..", "a", "b">>}
MCOneRoot == {<<"a">>}

MCVectors == {<<2, 1>>, <<-1, 1>>, <<-1, -2>>}

MCEventTypes == {[kind |-> "created", facet |-> "pdf"], [kind |-> "deleted", facet |-> "pdf"]}

(* Runs of a paragraph, or cells: with a blank in them, empty, shared, numbers. *)
Inline(text) == [kind |-> "inline", text |-> text]
Shared(text) == [kind |-> "shared", text |-> text]
Cells == {Inline(<<"a">>), Inline(<<"b", " ", "c">>), Shared(<<"d">>), Shared(<<>>),
          [kind |-> "number", text |-> <<"1">>]}

MCContents ==
  {<<>>, << <<Inline(<<"a">>), Inline(<<>>)>>, <<>>, <<Inline(<<"b", " ", "c">>)>> >>}
    \cup {<< <<r, s>> >> : r, s \in Cells}
    \cup {<< <<r, s>>, <<t>> >> : r, s, t \in Cells}

Prop(name, text) == [name |-> name, text |-> text]
MCProperties ==
  {<<>>, <<Prop("title", <<>>), Prop("creator", <<"x">>), Prop("subject", <<"y">>),
           Prop("title", <<"z">>)>>}

-----------------------------------------------------------------------------
storeVars == <<pagingVars, pathsVars, searchVars>>
contentVars == <<docVars, exifVars, content>>
vars == <<storeVars, webVars, contentVars, part>>

Init ==
  /\ PagingInit /\ PathsInit /\ SearchInit /\ WebInit /\ RepliesInit
  /\ part \in {"paging", "paths", "search", "web", "documents", "exif", "replies"}
  /\ IF part = "documents" THEN DocInit
     ELSE file = Nothing /\ read = <<>> /\ extraction = Blank
  /\ IF part = "exif" THEN ExifInit
     ELSE date = [y |-> 1970, m |-> 1, d |-> 1] /\ days = 0 /\ walked = 0

Next ==
  /\ UNCHANGED part
  /\ \/ /\ part = "paging" /\ PagingNext
        /\ UNCHANGED <<pathsVars, searchVars, webVars, contentVars>>
     \/ /\ part = "paths" /\ PathsNext
        /\ UNCHANGED <<pagingVars, searchVars, webVars, contentVars>>
     \/ /\ part = "search" /\ SearchNext
        /\ UNCHANGED <<pagingVars, pathsVars, webVars, contentVars>>
     \/ part = "web" /\ WebNext /\ UNCHANGED <<storeVars, contentVars>>
     \/ part = "documents" /\ DocNext /\ UNCHANGED <<storeVars, webVars, exifVars, content>>
     \/ part = "exif" /\ NextDay /\ UNCHANGED <<storeVars, webVars, docVars, content>>
     \/ part = "replies" /\ Receive /\ UNCHANGED <<storeVars, webVars, docVars, exifVars>>

PathsOnly == Init /\ part = "paths" /\ [][Next]_vars

Spec == Init /\ [][Next]_vars

(* Nothing is taken of a document, a picture or a reply that is not in it, and *)
(* nothing that is there is lost: the properties of the last three parts.     *)
ContentsSound ==
  /\ part = "documents" => DocTypeOK /\ WordsAreSeen /\ FactsForEveryType
  /\ part = "exif" => CalendarExact
  /\ part = "replies" => ObjectIsFound
=============================================================================
