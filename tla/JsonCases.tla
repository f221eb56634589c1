----------------------------- MODULE JsonCases -----------------------------
(***************************************************************************)
(* What the JSON reducer yields (json_parser_reducer.py), as FrameCases    *)
(* has it for flat formats.  A value is <<kind, content>>, an object a     *)
(* sequence of <<name, value>> in the order of names, where 0 is the empty *)
(* name; a case is <<spare, value>>, spare the bytes a canonical encoding  *)
(* saves.                                                                  *)
(***************************************************************************)
EXTENDS FrameCases

Name_Bytes(name) == IF name = 0 THEN 0 ELSE 1
Digits(n) == IF n < 10 THEN 1 ELSE IF n < 100 THEN 2 ELSE 3

RECURSIVE ValueSize(_)
ValueSize(v) ==
  LET commas == IF v[2] = <<>> THEN 0 ELSE Len(v[2]) - 1
  IN  CASE v[1] = "array"  -> 2 + commas + Sum([i \in DOMAIN v[2] |-> ValueSize(v[2][i])])
        [] v[1] = "object" -> 2 + commas + Sum([i \in DOMAIN v[2] |->
                                3 + Name_Bytes(v[2][i][1]) + ValueSize(v[2][i][2])])
        [] v[1] = "string" -> 2 + Len(v[2])
        [] v[1] = "bool"   -> IF v[2] = 1 THEN 4 ELSE 5
        [] v[1] = "int"    -> Digits(v[2])

DocumentSize(document) == document[1] + ValueSize(document[2])

\* Members in the order of names: the key emptied first, then the value's reductions.
RECURSIVE local_reductions(_)
local_reductions(v) ==
  LET members(kind, lists) == [i \in DOMAIN lists |-> <<kind, lists[i]>>]
      renamed(i) == << <<0, v[2][i][2]>> >> \o RemoveAt(v[2], i)
      emptied(i) == IF v[2][1][1] = 0 THEN <<>> ELSE <<renamed(i)>>
      inside(i) == LET children == local_reductions(v[2][i][2])
                   IN  [j \in DOMAIN children |-> [v[2] EXCEPT ![i] = <<@[1], children[j]>>]]
  IN  CASE v[1] = "array"  -> members("array", Deleting(v[2]) \o Editing(v[2], local_reductions))
        [] v[1] = "object" -> members("object", Deleting(v[2])
                                \o FlattenSeq([i \in DOMAIN v[2] |-> emptied(i) \o inside(i)]))
        [] v[1] = "string" -> members("string", EmptyOr(v[2], <<Front_Half(v[2])>>))
        [] v[1] = "bool"   -> IF v[2] = 1 THEN << <<"bool", 0>> >> ELSE <<>>
        [] v[1] = "int"    -> IF v[2] = 0 THEN <<>> ELSE << <<"int", 0>> >>

json_candidates(document) ==
  LET values == <<document[2]>> \o local_reductions(document[2])
  IN  Emitted(document, [i \in DOMAIN values |-> <<0, values[i]>>], DocumentSize)
=============================================================================
