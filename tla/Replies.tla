------------------------------ MODULE Replies ------------------------------
(***************************************************************************)
(* What is taken of a model's reply (dafs-enrich lib.rs `parse_chat_response`, *)
(* `parse_model_reply`): models wrap the JSON object they are asked for in     *)
(* prose, and the object is cut out from the first brace to the last. The     *)
(* reply grows here symbol by symbol, so that every one of them is met.       *)
(***************************************************************************)
EXTENDS Integers, Sequences, FiniteSets, SequencesExt, Functions

CONSTANT MaxReply     (* bound: symbols of a reply                            *)

VARIABLE content

(* Braces, words or members without a brace, and a member of the wrong type.   *)
Symbols == {"open", "close", "word", "wrong"}

RepliesInit == content = <<>>

Receive ==
  /\ Len(content) < MaxReply
  /\ \E s \in Symbols : content' = Append(content, s)

RepliesSpec == RepliesInit /\ [][Receive]_content

-----------------------------------------------------------------------------
Positions(s) == {i \in DOMAIN content : content[i] = s}

(* Braces that are open after symbol i of a text.                            *)
Nesting(text, i) ==
  Cardinality({k \in 1 .. i : text[k] = "open"}) - Cardinality({k \in 1 .. i : text[k] = "close"})

(* serde_json: whether a text is one object (the library; a member may itself   *)
(* be an object, which is not looked into).                                  *)
IsObject(text) ==
  /\ text # <<>> /\ text[1] = "open" /\ Nesting(text, Len(text)) = 0
  /\ \A i \in 1 .. Len(text) - 1 : Nesting(text, i) > 0
  /\ \A i \in DOMAIN text : text[i] = "wrong" => Nesting(text, i) > 1

FirstBrace == CHOOSE i \in Positions("open") : \A j \in Positions("open") : i <= j

LastBrace == CHOOSE i \in Positions("close") : \A j \in Positions("close") : i >= j

ParseModelReply ==
  IF Positions("open") = {} \/ Positions("close") = {} THEN [error |-> "no JSON", object |-> <<>>]
  ELSE IF LastBrace < FirstBrace THEN [error |-> "no JSON", object |-> <<>>]
  ELSE LET span == SubSeq(content, FirstBrace, LastBrace)
       IN IF IsObject(span) THEN [error |-> "none", object |-> span]
          ELSE [error |-> "unexpected shape", object |-> <<>>]

(* The object of a reply is found whatever is written before and after it, and  *)
(* what is taken is never one of two objects, nor one in the middle of        *)
(* another (dafs-enrich lib.rs 353).                                        *)
ObjectIsFound ==
  LET braces == Positions("open") \cup Positions("close")
  IN \A i, j \in DOMAIN content : i <= j /\ IsObject(SubSeq(content, i, j)) =>
       /\ (\A k \in braces : i <= k /\ k <= j) => ParseModelReply.object = SubSeq(content, i, j)
       /\ ParseModelReply.error = "none" => i >= FirstBrace /\ j <= LastBrace
=============================================================================
