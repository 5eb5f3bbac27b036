--------------------------- MODULE MCBundleContent ---------------------------
(***************************************************************************)
(* Every sequence of up to four cases of four kinds (no results, one, two, *)
(* three that are too large for any shard), under every combination of     *)
(* limits; a full grid has two results a case.  The bundle of two cases in *)
(* a shard each is altered.                                                *)
(***************************************************************************)
EXTENDS BundleContent

ResultsOf == <<0, 1, 2, 3>>
BytesOf == <<0, 1, 4, 15>>
MaxLength == 4

PrefixSum(of, n) ==
  LET sum[k \in 0..n] == IF k = 0 THEN 0 ELSE sum[k - 1] + of[k]
  IN  sum

InputOf(kinds, max, target) ==
  [n |-> Len(kinds), max |-> max, target |-> target,
   names |-> PrefixSum([k \in 1..Len(kinds) |-> 1], Len(kinds)),
   counts |-> PrefixSum([k \in 1..Len(kinds) |-> ResultsOf[kinds[k]]], Len(kinds)),
   sizes |-> PrefixSum([k \in 1..Len(kinds) |-> BytesOf[kinds[k]]], Len(kinds))]

AllInputs ==
  {InputOf(kinds, max, target)
     : max \in 2..3, target \in {7, 12, 17},
       kinds \in UNION {[1..l -> 1..4] : l \in 0..MaxLength}}

TwoShards == {InputOf(<<3, 3>>, 2, 12)}
Coordinates == 1..2
=============================================================================
