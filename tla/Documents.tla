----------------------------- MODULE Documents -----------------------------
(***************************************************************************)
(* What extraction makes of a file (dafs-extract, and the same for PDFs in    *)
(* dafs-pdf-worker): its type from its first bytes or its name, its words and *)
(* properties from the parts of an office document, which are read as streams *)
(* of XML events that may end anywhere, and the facts of its repository.      *)
(*                                                                         *)
(* A text is a sequence of letters, blanks and ends of line.                  *)
(***************************************************************************)
EXTENDS Integers, Sequences, SequencesExt, FiniteSets, Functions

CONSTANTS
  Heads,          (* what infer::get says of the first bytes                  *)
  Extensions,
  Contents,       (* sequences of paragraphs, slides, rows or pages, each a    *)
                  (* sequence of runs or cells                              *)
  Properties,     (* sequences of elements of docProps/core.xml              *)
  Nothing,        (* None                                                   *)
  MaxBodyText     (* MAX_BODY_TEXT_CHARS                                     *)

VARIABLES
  file,           (* the file: head, extension, content, in a repository or   *)
                  (* not, and whether a parser fails on it                   *)
  read,           (* the XML events the reader has got so far                 *)
  extraction      (* what came of it                                        *)

docVars == <<file, read, extraction>>

-----------------------------------------------------------------------------
(* office_type_by_extension, and the guess by the name alone.                 *)
OfficeType(ext) == IF ext \in {"docx", "xlsx", "pptx"} THEN ext ELSE Nothing

Guess(ext) ==
  CASE ext = "txt" -> "text"
    [] ext = "pdf" -> "pdf"
    [] OfficeType(ext) # Nothing -> ext
    [] OTHER -> "unknown"

(* sniff: the bytes decide, where they can.                                  *)
Sniff(head, ext) ==
  IF head \in {"pdf", "jpeg", "tiff"} THEN head ELSE Guess(ext)

-----------------------------------------------------------------------------
(* The XML of the parts, as office programs write them (the format, not this   *)
(* program): a run is <t>, a paragraph <p>; a cell has its text inline, or     *)
(* the index of a shared string, or a number.                               *)
Ev(what, name, text) == [what |-> what, name |-> name, text |-> text]

Element(name, inner) == <<Ev("start", name, <<>>)>> \o inner \o <<Ev("end", name, <<>>)>>

RunXml(run) ==
  IF run.text = <<>> THEN <<Ev("empty", "t", <<>>)>>
  ELSE Element("t", <<Ev("text", "", run.text)>>)

CellXml(cell, index) ==
  CASE cell.kind = "inline" -> Element("c", RunXml(cell))
    [] cell.kind = "shared" -> <<Ev("start", "c", <<"s">>)>>
         \o Element("v", <<Ev("text", "", index)>>) \o <<Ev("end", "c", <<>>)>>
    [] OTHER -> Element("c", Element("v", <<Ev("text", "", cell.text)>>))

Strings(content) == SelectSeq(FlattenSeq(content), LAMBDA c : c.kind = "shared")

SharedXml(content) ==
  FlattenSeq([i \in DOMAIN Strings(content) |-> Element("si", RunXml(Strings(content)[i]))])

IndexOf(content, i, j) ==
  Len(SelectSeq(FlattenSeq(SubSeq(content, 1, i - 1)) \o SubSeq(content[i], 1, j),
                LAMBDA c : c.kind = "shared"))

CoreXml == FlattenSeq([i \in DOMAIN file.core |->
  Element(file.core[i].name,
          IF file.core[i].text = <<>> THEN <<>> ELSE <<Ev("text", "", file.core[i].text)>>)])

PartXml(type, content) ==
  FlattenSeq([i \in DOMAIN content |->
    IF type = "xlsx"
    THEN Element("row", FlattenSeq([j \in DOMAIN content[i] |->
                          CellXml(content[i][j], IndexOf(content, i, j))]))
    ELSE Element("p", FlattenSeq([j \in DOMAIN content[i] |-> RunXml(content[i][j])]))])

-----------------------------------------------------------------------------
(* A mistaken variant of ParagraphText, used only by the mutation runs:       *)
(* paragraphs run together.                                                 *)
ParagraphTextGlued(xml) ==
  FoldLeft(LAMBDA r, e :
      CASE e.name = "t" -> [r EXCEPT !.in = e.what = "start"]
        [] e.what = "text" /\ r.in -> [r EXCEPT !.out = @ \o e.text]
        [] OTHER -> r,
    [in |-> FALSE, out |-> <<>>], xml).out

(* extract_paragraph_text: the text of runs, glued; an end of line after each  *)
(* paragraph. An element without an end is none of its events.               *)
ParagraphText(xml) ==
  FoldLeft(LAMBDA r, e :
      CASE e.name = "t" /\ e.what # "empty" -> [r EXCEPT !.in = e.what = "start"]
        [] e.name = "p" /\ e.what = "end" -> [r EXCEPT !.out = Append(@, "\n")]
        [] e.what = "text" /\ r.in -> [r EXCEPT !.out = @ \o e.text]
        [] OTHER -> r,
    [in |-> FALSE, out |-> <<>>], xml).out

(* read_shared_strings                                                      *)
SharedStrings(xml) ==
  FoldLeft(LAMBDA r, e :
      CASE e.name = "si" /\ e.what = "start" -> [r EXCEPT !.current = <<>>]
        [] e.name = "si" /\ e.what = "end" -> [r EXCEPT !.strings = Append(@, r.current), !.current = <<>>]
        [] e.name = "t" /\ e.what # "empty" -> [r EXCEPT !.in = e.what = "start"]
        [] e.what = "text" /\ r.in -> [r EXCEPT !.current = @ \o e.text]
        [] OTHER -> r,
    [in |-> FALSE, current |-> <<>>, strings |-> <<>>], xml).strings

(* extract_sheet_text: inline texts, and those of shared cells; no numbers.    *)
SheetText(xml, shared) ==
  FoldLeft(LAMBDA r, e :
      CASE e.name = "c" /\ e.what = "start" -> [r EXCEPT !.shared = e.text = <<"s">>]
        [] e.name = "t" /\ e.what = "start" -> [r EXCEPT !.in = TRUE]
        [] e.name = "t" /\ e.what = "end" -> [r EXCEPT !.in = FALSE, !.out = Append(@, " ")]
        [] e.name = "v" -> [r EXCEPT !.value = e.what = "start" /\ r.shared]
        [] e.name = "row" /\ e.what = "end" -> [r EXCEPT !.out = Append(@, "\n")]
        [] e.what = "text" /\ r.in -> [r EXCEPT !.out = @ \o e.text]
        [] e.what = "text" /\ r.value -> [r EXCEPT !.out = @ \o shared[e.text] \o <<" ">>]
        [] OTHER -> r,
    [shared |-> FALSE, in |-> FALSE, value |-> FALSE, out |-> <<>>], xml).out

(* read_core_properties, for a title or an author: the first that is not       *)
(* empty.                                                                   *)
CoreProperty(xml, name) ==
  FoldLeft(LAMBDA r, e :
      CASE e.what = "start" -> [r EXCEPT !.in = e.name = name]
        [] e.what = "end" -> [r EXCEPT !.in = FALSE]
        [] e.what = "text" /\ r.in /\ r.value = Nothing -> [r EXCEPT !.value = e.text]
        [] OTHER -> r,
    [in |-> FALSE, value |-> Nothing], xml).value

(* word_count, by the words.                                                *)
Words(text) ==
  LET split == FoldLeft(LAMBDA r, c :
        IF c \notin {" ", "\n"} THEN [r EXCEPT !.word = Append(@, c)]
        ELSE [words |-> IF r.word = <<>> THEN r.words ELSE Append(r.words, r.word), word |-> <<>>],
      [words |-> <<>>, word |-> <<>>], Append(text, "\n"))
  IN split.words

CapBodyText(text) == SubSeq(text, 1, IF Len(text) < MaxBodyText THEN Len(text) ELSE MaxBodyText)

Blank == [type |-> Nothing, text |-> Nothing, words |-> Nothing, pages |-> Nothing,
          title |-> Nothing, author |-> Nothing, git |-> FALSE, error |-> FALSE]

WithText(text, pages) ==
  [Blank EXCEPT !.text = CapBodyText(text), !.words = Len(Words(text)), !.pages = pages,
                !.title = CoreProperty(CoreXml, "title"),
                !.author = CoreProperty(CoreXml, "creator")]

(* merge_git_facts: of every extraction, however it was made; a lookup that    *)
(* fails has none.                                                          *)
MergeGitFacts(e) == [e EXCEPT !.git = file.git]

(* The text of the document: of an office part as far as it could be read, of  *)
(* a PDF, its pages.                                                        *)
TextOf(type, xml) ==
  CASE type = "xlsx" -> SheetText(xml, SharedStrings(SharedXml(file.content)))
    [] type \in {"docx", "pptx"} -> ParagraphText(xml)
    [] type = "pdf" -> FlattenSeq([i \in DOMAIN file.content |->
         FlattenSeq([j \in DOMAIN file.content[i] |-> file.content[i][j].text]) \o <<"\n">>])

(* `extract`, or for a PDF the worker's; a document that is no zip, or one      *)
(* without its parts, is malformed, and a panic is caught.                    *)
Extracted(type) ==
  IF type \in {"text", "unknown"} THEN MergeGitFacts([Blank EXCEPT !.type = type])
  ELSE IF file.fails \/ (type \in {"docx", "xlsx", "pptx"} /\ file.head # "zip")
          \/ (type = "pdf" /\ file.head # "pdf")
  THEN [Blank EXCEPT !.error = TRUE]
  ELSE IF type \in {"jpeg", "tiff"} THEN MergeGitFacts([Blank EXCEPT !.type = type])
  ELSE MergeGitFacts([WithText(TextOf(type, read), IF type = "docx" THEN Nothing ELSE Len(file.content))
                        EXCEPT !.type = type])

-----------------------------------------------------------------------------
DocInit ==
  /\ file \in [head : Heads, ext : Extensions, content : Contents, core : Properties, git : BOOLEAN, fails : BOOLEAN]
  /\ read = <<>>
  /\ extraction = Blank

TypeOfFile == Sniff(file.head, file.ext)

Part == PartXml(TypeOfFile, file.content)

(* The next event of the part.                                              *)
ReadEvent ==
  /\ TypeOfFile \in {"docx", "xlsx", "pptx"} /\ extraction = Blank
  /\ Len(read) < Len(Part)
  /\ read' = Append(read, Part[Len(read) + 1])
  /\ UNCHANGED <<file, extraction>>

(* The end of it, or where it is cut off or broken.                          *)
Finish ==
  /\ extraction = Blank
  /\ extraction' = Extracted(TypeOfFile)
  /\ UNCHANGED <<file, read>>

DocNext == ReadEvent \/ Finish

DocSpec == DocInit /\ [][DocNext]_docVars

-----------------------------------------------------------------------------
(* The words a reader sees in a paragraph, or in the cells of a row.           *)
SeenWords(type) ==
  FlattenSeq([i \in DOMAIN file.content |->
    IF type = "xlsx"
    THEN FlattenSeq([j \in DOMAIN file.content[i] |->
           IF file.content[i][j].kind = "number" THEN <<>> ELSE Words(file.content[i][j].text)])
    ELSE Words(FlattenSeq([j \in DOMAIN file.content[i] |-> file.content[i][j].text]))])

(* What is counted and kept of a document is what a reader sees in it: a word  *)
(* split over runs is one word, those of two paragraphs, slides or cells are  *)
(* two, numbers are none, and a part cut off anywhere gives its words up to    *)
(* there (office.rs 234, 274).                                              *)
WordsAreSeen ==
  extraction.words # Nothing =>
    LET seen == SeenWords(extraction.type)
        found == Words(TextOf(extraction.type, read)) IN
    /\ extraction.words = Len(found)
    /\ read = Part \/ extraction.type = "pdf" => found = seen
    /\ \A i \in 1 .. Len(found) - 1 : found[i] = seen[i]
    /\ found # <<>> => IsPrefix(Last(found), seen[Len(found)])

(* The two ways of extraction agree: every success, be it the worker's or      *)
(* this process's, has the facts of the repository, and of a file whose bytes *)
(* tell what it is, its type, whatever its name; no failure has anything, and *)
(* no title is an author (extract_worker.rs 438, sniff.rs 49, office.rs 152). *)
FactsForEveryType ==
  extraction # Blank =>
    IF extraction.error THEN extraction = [Blank EXCEPT !.error = TRUE]
    ELSE /\ extraction.git = file.git
         /\ \A p \in {<<"title", extraction.title>>, <<"creator", extraction.author>>} :
              p[2] # Nothing => [name |-> p[1], text |-> p[2]] \in Range(file.core)
         /\ file.head \in {"pdf", "jpeg", "tiff"} => extraction.type = file.head

DocTypeOK ==
  /\ Len(read) <= Len(Part)
  /\ extraction.text # Nothing => Len(extraction.text) <= MaxBodyText
=============================================================================
