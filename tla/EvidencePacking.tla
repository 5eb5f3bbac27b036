--------------------------- MODULE EvidencePacking ---------------------------
(***************************************************************************)
(* bundle.pack_evidence_results: the cases of a campaign, in order, are    *)
(* packed into evidence shards that hold at most MaxCases cases and aim at *)
(* TargetBytes bytes of compact JSON.  One step packs one case.            *)
(*                                                                         *)
(* An input gives sizes as prefix sums: the first k cases' names take      *)
(* names[k] bytes, their results number counts[k] and take sizes[k] bytes; *)
(* BaseBytes is a shard with both lists empty.                             *)
(***************************************************************************)
EXTENDS Integers, Sequences

CONSTANTS Inputs, BaseBytes

Grows(sums, n) ==
  /\ sums \in [0..n -> Nat]
  /\ \A i, j \in 0..n : i <= j => sums[i] <= sums[j]

ASSUME EvidencePackingAssumption ==
  /\ BaseBytes \in Nat
  /\ \A in \in Inputs :
       /\ in.n \in Nat /\ in.max \in Nat \ {0} /\ in.target \in Nat \ {0}
       /\ Grows(in.names, in.n) /\ Grows(in.counts, in.n) /\ Grows(in.sizes, in.n)

VARIABLES
  input,    \* the cases' sizes, and the limits max_cases and target_bytes
  packed,   \* cases looked at so far
  first,    \* first case of the pending shard
  bytes,    \* pending_bytes
  results,  \* pending_results
  shards    \* shards made: first and last case, accounted bytes

vars == <<input, packed, first, bytes, results, shards>>

N == input.n
MaxCases == input.max
TargetBytes == input.target

Part(sums, lo, hi) == sums[hi] - sums[lo - 1]
Commas(n) == IF n = 0 THEN 0 ELSE n - 1

\* case_bytes and result_counts of one case.
CaseResults(k) == Part(input.counts, k, k)
CaseBytes(k) ==
  Part(input.names, k, k) + Part(input.sizes, k, k) + Commas(CaseResults(k))

Init ==
  /\ input \in Inputs
  /\ packed = 0 /\ first = 1 /\ bytes = BaseBytes /\ results = 0 /\ shards = <<>>

Pending == packed - first + 1
Separator(yes) == IF yes THEN 1 ELSE 0

\* Mutant of Added: a comma between result lists even if one is empty.
AddedAlwaysComma(k) ==
  CaseBytes(k) + Separator(Pending > 0) + Separator(Pending > 0)

\* What case k adds to the pending shard: a comma between the names, and one
\* between the results if both sides have some.
Added(k) ==
  CaseBytes(k) + Separator(Pending > 0)
    + Separator(results > 0 /\ CaseResults(k) > 0)

\* Mutant of Full: the limit on cases is off by one.
FullOffByOne(k) ==
  Pending > 0 /\ (Pending > MaxCases \/ bytes + Added(k) > TargetBytes)

\* The pending shard is closed before case k.
Full(k) == Pending > 0 /\ (Pending >= MaxCases \/ bytes + Added(k) > TargetBytes)

Shard(lo, hi, size) == [first |-> lo, last |-> hi, bytes |-> size]

\* Mutant of Pack: a shard that is over the target is closed without its case.
PackDropsOversized ==
  /\ packed < N /\ UNCHANGED input
  /\ LET k == packed + 1
         closed == IF Full(k) THEN Append(shards, Shard(first, packed, bytes))
                   ELSE shards
         size == (IF Full(k) THEN BaseBytes + CaseBytes(k) ELSE bytes + Added(k))
         over == size > TargetBytes
     IN  /\ packed' = k
         /\ shards' = closed
         /\ first' = IF over THEN k + 1 ELSE IF Full(k) THEN k ELSE first
         /\ bytes' = IF over THEN BaseBytes ELSE size
         /\ results' = IF over THEN 0
                       ELSE (IF Full(k) THEN 0 ELSE results) + CaseResults(k)

\* One turn of the loop: close the pending shard if the case does not fit, add
\* the case, and close at once if the case is too large by itself.
Pack ==
  /\ packed < N /\ UNCHANGED input
  /\ LET k == packed + 1
         start == IF Full(k) THEN k ELSE first
         size == IF Full(k) THEN BaseBytes + CaseBytes(k) ELSE bytes + Added(k)
         closed == IF Full(k) THEN Append(shards, Shard(first, packed, bytes))
                   ELSE shards
         over == size > TargetBytes
     IN  /\ packed' = k
         /\ shards' = IF over THEN Append(closed, Shard(start, k, size)) ELSE closed
         /\ first' = IF over THEN k + 1 ELSE start
         /\ bytes' = IF over THEN BaseBytes ELSE size
         /\ results' = IF over THEN 0
                       ELSE (IF Full(k) THEN 0 ELSE results) + CaseResults(k)

\* What is left after the last case.
Flush ==
  /\ packed = N /\ Pending > 0
  /\ shards' = Append(shards, Shard(first, N, bytes))
  /\ first' = N + 1 /\ bytes' = BaseBytes /\ results' = 0 /\ UNCHANGED <<input, packed>>

Next == Pack \/ Flush

Spec == Init /\ [][Next]_vars

-----------------------------------------------------------------------------
(* Properties. *)

\* The length of a shard's compact JSON, from its parts.
Length(lo, hi) ==
  BaseBytes + Part(input.names, lo, hi) + Commas(hi - lo + 1)
    + Part(input.sizes, lo, hi) + Commas(Part(input.counts, lo, hi))

\* The packing's counters have their types.
TypeOK ==
  /\ input \in Inputs /\ packed \in 0..N /\ first \in 1..N + 1 /\ bytes \in Nat /\ results \in Nat
  /\ shards \in Seq([first : 1..N, last : 1..N, bytes : Nat])

\* "exact compact byte accounting": the bytes reckoned with are the bytes of
\* the shard that is written, commas between cases without results included.
AccountingExact ==
  \A i \in 1..Len(shards) :
    shards[i].bytes = Length(shards[i].first, shards[i].last)

\* A shard keeps to both limits, or is one case that is too large by itself.
ShardsBounded ==
  \A i \in 1..Len(shards) :
    LET s == shards[i] IN
    /\ s.last - s.first + 1 <= MaxCases
    /\ s.bytes <= TargetBytes \/ s.first = s.last

\* Together the shards hold every case once and in order, none is empty.
ShardsPartition ==
  /\ \A i \in 1..Len(shards) :
       /\ shards[i].first <= shards[i].last
       /\ shards[i].first = IF i = 1 THEN 1 ELSE shards[i - 1].last + 1
  /\ packed = N /\ Pending = 0 =>
       IF N = 0 THEN shards = <<>>
       ELSE shards # <<>> /\ shards[Len(shards)].last = N

=============================================================================
