--------------------------- MODULE ListDeletions ---------------------------
(***************************************************************************)
(* The deletions every structured reducer starts from, coarse to fine:     *)
(* hierarchical_byte_deletions (byte_reducer.py) on bytes and the          *)
(* _list_deletions of the three SQLite reducers on statements and steps.   *)
(* A chunk is <<width, start>>, start from 0.                              *)
(***************************************************************************)
EXTENDS Integers, SequencesExt

Widths_StopAtTwo(removable) == {w \in 2..removable : \E k \in 0..removable : w = 2^k}
Widths(removable) == {w \in 1..removable : \E k \in 0..removable : w = 2^k}

Without(values, c) ==
  SubSeq(values, 1, c[2]) \o SubSeq(values, c[2] + c[1] + 1, Len(values))

\* The chunks of a list, from the widest to single items, in each width from the start.
Chunks(values, min_items) ==
  LET removable == Len(values) - min_items
      chunks(width) == [k \in 1..((Len(values) + width - 1) \div width) |-> <<width, (k - 1) * width>>]
  IN  FlattenSeq([n \in 1..removable |->
        LET width == removable + 1 - n
        IN  IF width \in Widths(removable) THEN chunks(width) ELSE <<>>])

\* The items that are kept, and each item once, in their order.
Those(items, Keep(_)) ==
  FlattenSeq([i \in DOMAIN items |-> IF Keep(items[i]) THEN <<items[i]>> ELSE <<>>])
EachOnce(items) ==
  FlattenSeq([i \in DOMAIN items |->
    IF \E j \in 1..i - 1 : items[j] = items[i] THEN <<>> ELSE <<items[i]>>])

list_deletions(values, min_items) ==
  LET chunks == Chunks(values, min_items)
      deletions == [i \in DOMAIN chunks |-> Without(values, chunks[i])]
  IN  Those(EachOnce(deletions), LAMBDA d : Len(d) >= min_items)

hierarchical_byte_deletions(value) == list_deletions(value, 0)
=============================================================================
