------------------------- MODULE BundleContentProofs -------------------------
(***************************************************************************)
(* For every input: the byte accounting of pack_evidence_results is exact, *)
(* its shards keep to the limits and partition the cases in order, and the *)
(* bundle exported on them passes its own validation.  Whatever a bundle   *)
(* holds: if validation accepts it, then the replay of each of its results *)
(* and the dashboard accept it too.  And one fault in an exported bundle   *)
(* makes no replay answer for another result.                              *)
(***************************************************************************)
EXTENDS BundleContent, FunctionTheorems, FiniteSetTheorems, TLAPS

-----------------------------------------------------------------------------
(* Packing. *)

ShardType == [first : 1..N, last : 1..N, bytes : Nat]

Good(s) ==
  /\ s.first <= s.last /\ s.bytes = Length(s.first, s.last)
  /\ s.last - s.first + 1 <= MaxCases
  /\ s.bytes <= TargetBytes \/ s.first = s.last

\* A sequence of good shards, one after the other, up to the case before next:
\* none reaches into a later one and every case so far is in one.
Sound(sh, next) ==
  /\ sh \in Seq(ShardType)
  /\ \A i, j \in 1..Len(sh) : i < j => sh[i].last < sh[j].first
  /\ \A c \in 1..next - 1 : \E i \in 1..Len(sh) : sh[i].first <= c /\ c <= sh[i].last
  /\ \A i \in 1..Len(sh) :
       Good(sh[i]) /\ sh[i].first = IF i = 1 THEN 1 ELSE sh[i - 1].last + 1
  /\ next = IF Len(sh) = 0 THEN 1 ELSE sh[Len(sh)].last + 1

\* The inductive invariant: the counters of the pending shard are what the
\* formula for a shard's length says of it.
IInv ==
  /\ input \in Inputs /\ packed \in 0..N /\ first \in 1..packed + 1
  /\ results = Part(input.counts, first, packed)
  /\ bytes = Length(first, packed) /\ bytes \in Nat
  /\ Pending <= MaxCases /\ (Pending > 0 => bytes <= TargetBytes)
  /\ Sound(shards, first)

-----------------------------------------------------------------------------

\* Limits and prefix sums of an input are natural numbers, and sums grow.
LEMMA InputTypes ==
  ASSUME input \in Inputs
  PROVE  /\ N \in Nat /\ MaxCases \in Nat \ {0} /\ TargetBytes \in Nat \ {0}
         /\ BaseBytes \in Nat
         /\ \A k \in 0..N : /\ input.names[k] \in Nat
                            /\ input.counts[k] \in Nat
                            /\ input.sizes[k] \in Nat
         /\ \A i, j \in 0..N : i <= j =>
              /\ input.names[i] <= input.names[j]
              /\ input.counts[i] <= input.counts[j]
              /\ input.sizes[i] <= input.sizes[j]
BY EvidencePackingAssumption DEF Grows, N, MaxCases, TargetBytes

\* A shard's length is a natural number, at least that of an empty one.
LEMMA LengthNat ==
  ASSUME input \in Inputs, NEW lo \in 1..N + 1, NEW hi \in 0..N, lo <= hi + 1
  PROVE  /\ Length(lo, hi) \in Nat
         /\ Part(input.counts, lo, hi) \in Nat
<1>1. lo - 1 \in 0..N /\ lo - 1 <= hi
  BY InputTypes
<1>2. /\ Part(input.names, lo, hi) \in Nat /\ Part(input.counts, lo, hi) \in Nat
      /\ Part(input.sizes, lo, hi) \in Nat
  BY <1>1, InputTypes DEF Part
<1>3. Commas(hi - lo + 1) \in Nat
  BY <1>1, InputTypes DEF Commas
<1>4. Commas(Part(input.counts, lo, hi)) \in Nat
  BY <1>2 DEF Commas
<1> QED
  BY <1>2, <1>3, <1>4, InputTypes DEF Length

\* Nothing is accounted for a shard without cases.
LEMMA LengthEmpty ==
  ASSUME input \in Inputs, NEW k \in 0..N
  PROVE  Length(k + 1, k) = BaseBytes /\ Part(input.counts, k + 1, k) = 0
BY InputTypes DEF Length, Part, Commas

\* The code's increment is the growth of a shard's length by its next case.
LEMMA LengthGrows ==
  ASSUME IInv, packed < N
  PROVE  /\ bytes + Added(packed + 1) = Length(first, packed + 1)
         /\ results + CaseResults(packed + 1)
              = Part(input.counts, first, packed + 1)
<1> DEFINE k == packed + 1
<1>1. k \in 0..N /\ packed \in 0..N /\ first - 1 \in 0..N /\ first - 1 <= packed
  BY InputTypes DEF IInv
<1>2. Part(input.names, first, k)
        = Part(input.names, first, packed) + Part(input.names, k, k)
  BY <1>1, InputTypes DEF Part, IInv
<1>3. Part(input.sizes, first, k)
        = Part(input.sizes, first, packed) + Part(input.sizes, k, k)
  BY <1>1, InputTypes DEF Part, IInv
<1>4. Part(input.counts, first, k) = results + CaseResults(k)
  BY <1>1, InputTypes DEF Part, IInv, CaseResults
<1>5. /\ Part(input.names, first, packed) \in Nat /\ Part(input.names, k, k) \in Nat
      /\ Part(input.sizes, first, packed) \in Nat /\ Part(input.sizes, k, k) \in Nat
      /\ results \in Nat /\ CaseResults(k) \in Nat
  BY <1>1, InputTypes DEF Part, IInv, CaseResults
<1>6. Commas(results + CaseResults(k))
        = Commas(results) + Commas(CaseResults(k))
            + Separator(results > 0 /\ CaseResults(k) > 0)
  BY <1>5 DEF Commas, Separator
<1>7. Commas(k - first + 1) = Commas(Pending) + Separator(Pending > 0)
  BY <1>1, InputTypes DEF Commas, Separator, Pending, IInv
<1>8. /\ Commas(results) \in Nat /\ Commas(CaseResults(k)) \in Nat
      /\ Commas(Pending) \in Nat /\ Separator(Pending > 0) \in Nat
      /\ Separator(results > 0 /\ CaseResults(k) > 0) \in Nat
  BY <1>1, <1>5, InputTypes DEF Commas, Separator, Pending, IInv
<1>9. bytes = BaseBytes + Part(input.names, first, packed) + Commas(Pending)
               + Part(input.sizes, first, packed) + Commas(results)
  BY DEF IInv, Length, Pending
<1>10. Added(k) = Part(input.names, k, k) + Part(input.sizes, k, k)
                    + Commas(CaseResults(k)) + Separator(Pending > 0)
                    + Separator(results > 0 /\ CaseResults(k) > 0)
  BY DEF Added, CaseBytes
<1>11. Length(first, k) =
         BaseBytes + Part(input.names, first, k) + Commas(k - first + 1)
           + Part(input.sizes, first, k) + Commas(Part(input.counts, first, k))
  BY DEF Length
<1> HIDE DEF k
<1>12. Length(first, k) = bytes + Added(k)
  BY <1>2, <1>3, <1>4, <1>5, <1>6, <1>7, <1>8, <1>9, <1>10, <1>11, InputTypes
     DEF IInv
<1> QED
  BY <1>4, <1>12 DEF k

\* A case in a shard of its own.
LEMMA LengthOne ==
  ASSUME input \in Inputs, NEW k \in 1..N
  PROVE  /\ BaseBytes + CaseBytes(k) = Length(k, k)
         /\ CaseResults(k) = Part(input.counts, k, k)
<1>1. k \in 0..N /\ k - 1 \in 0..N /\ k - 1 <= k
  BY InputTypes
<1> QED
  BY <1>1, InputTypes DEF CaseBytes, CaseResults, Length, Part, Commas

\* Closing one more good shard keeps the sequence sound.
LEMMA SoundAppend ==
  ASSUME input \in Inputs, NEW sh, NEW lo \in 1..N, NEW hi \in 1..N,
         Sound(sh, lo), lo <= hi, hi - lo + 1 <= MaxCases,
         NEW size, size = Length(lo, hi), size <= TargetBytes \/ lo = hi
  PROVE  Sound(Append(sh, Shard(lo, hi, size)), hi + 1)
<1> DEFINE s == Shard(lo, hi, size)
           new == Append(sh, s)
<1>1. s \in ShardType
  <2>1. size \in Nat
    BY LengthNat, InputTypes
  <2> QED
    BY <2>1, InputTypes DEF Shard, ShardType
<1>2. Good(s)
  BY DEF Good, Shard
<1>3. sh \in Seq(ShardType)
  BY DEF Sound
<1>4. new \in Seq(ShardType) /\ Len(new) = Len(sh) + 1
      /\ new[Len(new)] = s
      /\ \A i \in 1..Len(sh) : new[i] = sh[i]
  BY <1>1, <1>3
<1>5. Len(new) # 0 /\ new[Len(new)].last + 1 = hi + 1
  BY <1>3, <1>4 DEF Shard
<1>6. ASSUME NEW i \in 1..Len(new)
      PROVE  Good(new[i]) /\ new[i].first = IF i = 1 THEN 1 ELSE new[i - 1].last + 1
  <2>1. CASE i \in 1..Len(sh)
    <3>1. new[i] = sh[i] /\ (i # 1 => new[i - 1] = sh[i - 1])
      BY <1>3, <1>4, <2>1
    <3> QED
      BY <2>1, <3>1 DEF Sound
  <2>2. CASE i = Len(sh) + 1
    <3>1. new[i] = s /\ new[i].first = lo
      BY <1>4, <2>2 DEF Shard
    <3>2. lo = IF Len(sh) = 0 THEN 1 ELSE sh[Len(sh)].last + 1
      BY DEF Sound
    <3>3. CASE Len(sh) = 0
      BY <1>2, <2>2, <3>1, <3>2, <3>3
    <3>4. CASE Len(sh) # 0
      <4>1. i - 1 = Len(sh) /\ i # 1 /\ new[i - 1] = sh[Len(sh)]
        BY <1>3, <1>4, <2>2, <3>4
      <4> QED
        BY <1>2, <3>1, <3>2, <3>4, <4>1
    <3> QED
      BY <3>3, <3>4
  <2> QED
    BY <1>3, <1>4, <2>1, <2>2
<1>7. \A i \in 1..Len(sh) : sh[i].last < lo
  <2> TAKE i \in 1..Len(sh)
  <2> DEFINE m == Len(sh)
  <2>1. m \in 1..Len(sh) /\ i <= m /\ m # 0
    BY <1>3
  <2>2. sh[i] \in ShardType /\ sh[m] \in ShardType
    BY <1>3, <2>1
  <2>3. /\ \A j, k \in 1..Len(sh) : j < k => sh[j].last < sh[k].first
        /\ Good(sh[m]) /\ lo = sh[m].last + 1
    BY <2>1 DEF Sound
  <2> HIDE DEF m
  <2>4. sh[m].first <= sh[m].last
    BY <2>3 DEF Good
  <2>5. i < m => sh[i].last < sh[m].first
    BY <2>1, <2>3
  <2>6. sh[i].last \in Int /\ sh[m].first \in Int /\ sh[m].last \in Int
    BY <2>2, InputTypes DEF ShardType
  <2>7. i = m \/ i < m
    BY <1>3, <2>1
  <2> QED
    BY <2>3, <2>4, <2>5, <2>6, <2>7
<1>8. ASSUME NEW i \in 1..Len(new), NEW j \in 1..Len(new), i < j
      PROVE  new[i].last < new[j].first
  <2>1. i \in 1..Len(sh) /\ new[i] = sh[i]
    BY <1>3, <1>4, <1>8
  <2>2. CASE j \in 1..Len(sh)
    BY <1>4, <1>8, <2>1, <2>2 DEF Sound
  <2>3. CASE j = Len(sh) + 1
    BY <1>4, <1>7, <2>1, <2>3 DEF Shard
  <2> QED
    BY <1>3, <1>4, <2>2, <2>3
<1>9. ASSUME NEW c \in 1..(hi + 1) - 1
      PROVE  \E i \in 1..Len(new) : new[i].first <= c /\ c <= new[i].last
  <2>1. CASE c < lo
    <3>1. c \in 1..lo - 1
      BY <2>1, InputTypes
    <3>2. PICK i \in 1..Len(sh) : sh[i].first <= c /\ c <= sh[i].last
      BY <3>1 DEF Sound
    <3>3. i \in 1..Len(new) /\ new[i] = sh[i]
      BY <1>3, <1>4
    <3> QED
      BY <3>2, <3>3
  <2>2. CASE lo <= c
    <3>1. new[Len(new)].first = lo /\ new[Len(new)].last = hi
      BY <1>4 DEF Shard
    <3>2. Len(new) \in 1..Len(new)
      BY <1>3, <1>4
    <3> QED
      BY <2>2, <3>1, <3>2, InputTypes
  <2> QED
    BY <2>1, <2>2, InputTypes
<1> QED
  BY <1>4, <1>5, <1>6, <1>8, <1>9 DEF Sound

-----------------------------------------------------------------------------

LEMMA PackKeepsIInv == IInv /\ Pack => IInv'
<1> SUFFICES ASSUME IInv, Pack PROVE IInv'
  OBVIOUS
<1> DEFINE k == packed + 1
           start == IF Full(k) THEN k ELSE first
           size == IF Full(k) THEN BaseBytes + CaseBytes(k) ELSE bytes + Added(k)
           closed == IF Full(k) THEN Append(shards, Shard(first, packed, bytes))
                     ELSE shards
           count == (IF Full(k) THEN 0 ELSE results) + CaseResults(k)
           over == size > TargetBytes
<1>1. /\ packed < N /\ input' = input /\ packed' = k
      /\ shards' = IF over THEN Append(closed, Shard(start, k, size)) ELSE closed
      /\ first' = IF over THEN k + 1 ELSE start
      /\ bytes' = IF over THEN BaseBytes ELSE size
      /\ results' = IF over THEN 0 ELSE count
  BY DEF Pack
<1>2. input \in Inputs /\ k \in 1..N /\ first \in 1..k
  BY <1>1, InputTypes DEF IInv
<1>3. start \in 1..k /\ size = Length(start, k) /\ count = Part(input.counts, start, k)
  <2>1. CASE Full(k)
    <3>1. start = k /\ size = BaseBytes + CaseBytes(k) /\ count = 0 + CaseResults(k)
      BY <2>1
    <3>2. CaseResults(k) = Part(input.counts, k, k) /\ CaseResults(k) \in Nat
      BY <1>2, LengthOne, LengthNat, InputTypes
    <3> QED
      BY <1>2, <3>1, <3>2, LengthOne
  <2>2. CASE ~Full(k)
    BY <1>1, <1>2, <2>2, LengthGrows
  <2> QED
    BY <2>1, <2>2
<1>4. Sound(closed, start)
  <2>1. CASE Full(k)
    <3>1. Pending > 0 /\ packed \in 1..N /\ first \in 1..N /\ first <= packed
      BY <1>2, <2>1, InputTypes DEF Full, Pending, IInv
    <3>2. /\ Sound(shards, first) /\ bytes = Length(first, packed)
          /\ packed - first + 1 <= MaxCases /\ bytes <= TargetBytes
      BY <3>1 DEF IInv, Pending
    <3> QED
      BY <1>2, <2>1, <3>1, <3>2, SoundAppend
  <2>2. CASE ~Full(k)
    BY <2>2 DEF IInv
  <2> QED
    BY <2>1, <2>2
<1>5. k - start + 1 <= MaxCases /\ (start # k => size <= TargetBytes)
  <2>1. CASE Full(k)
    BY <1>2, <2>1, InputTypes
  <2>2. CASE ~Full(k)
    <3>1. CASE Pending > 0
      <4>1. Pending < MaxCases /\ bytes + Added(k) <= TargetBytes
        <5>1. ~(Pending >= MaxCases) /\ ~(bytes + Added(k) > TargetBytes)
          BY <2>2, <3>1 DEF Full
        <5>2. bytes + Added(k) \in Nat /\ Pending \in Int
          BY <1>2, <1>3, <2>2, LengthNat, InputTypes DEF Pending, IInv
        <5> QED
          BY <5>1, <5>2, <1>2, InputTypes
      <4> QED
        BY <1>2, <2>2, <4>1, InputTypes DEF Pending, IInv
    <3>2. CASE ~(Pending > 0)
      BY <1>2, <2>2, <3>2, InputTypes DEF Pending, IInv
    <3> QED
      BY <3>1, <3>2
  <2> QED
    BY <2>1, <2>2
<1>6. size \in Nat
  BY <1>2, <1>3, LengthNat, InputTypes
<1> HIDE DEF k, start, size, closed, count, over
<1>7. CASE over
  <2>1. start = k
    BY <1>5, <1>6, <1>7, <1>2, InputTypes DEF over
  <2>2. Sound(Append(closed, Shard(start, k, size)), k + 1)
    BY <1>2, <1>3, <1>4, <1>5, <2>1, SoundAppend
  <2>4. Length(k + 1, k) = BaseBytes /\ Part(input.counts, k + 1, k) = 0
    BY <1>2, LengthEmpty, InputTypes
  <2>5. /\ packed' = k /\ first' = k + 1 /\ bytes' = BaseBytes /\ results' = 0
        /\ shards' = Append(closed, Shard(start, k, size)) /\ input' = input
    BY <1>1, <1>7
  <2>6. Sound(shards, first)'
    BY <1>1, <2>2, <2>5 DEF Sound, Good, ShardType, Length, Part, N, MaxCases, TargetBytes
  <2>7. (Length(first, packed))' = BaseBytes /\ Part(input.counts, first, packed)' = 0
    BY <2>4, <2>5 DEF Length, Part
  <2>8. Pending' = 0
    BY <1>2, <2>5, InputTypes DEF Pending
  <2> QED
    BY <1>2, <2>5, <2>6, <2>7, <2>8, InputTypes DEF IInv, N, MaxCases, TargetBytes
<1>8. CASE ~over
  <2>1. /\ packed' = k /\ first' = start /\ bytes' = size /\ results' = count
        /\ shards' = closed /\ input' = input
    BY <1>1, <1>8
  <2>2. Sound(shards, first)'
    BY <1>4, <2>1 DEF Sound, Good, ShardType, Length, Part, N, MaxCases, TargetBytes
  <2>3. (Length(first, packed))' = size /\ Part(input.counts, first, packed)' = count
    BY <1>3, <2>1 DEF Length, Part
  <2>4. Pending' = k - start + 1 /\ size <= TargetBytes
    BY <1>6, <1>8, <1>2, <2>1, InputTypes DEF Pending, over
  <2> QED
    BY <1>2, <1>3, <1>5, <1>6, <2>1, <2>2, <2>3, <2>4, InputTypes
       DEF IInv, N, MaxCases, TargetBytes
<1> QED
  BY <1>7, <1>8

LEMMA FlushKeepsIInv == IInv /\ Flush => IInv'
<1> SUFFICES ASSUME IInv, Flush PROVE IInv'
  OBVIOUS
<1>1. /\ packed = N /\ Pending > 0 /\ input' = input /\ packed' = packed
      /\ first' = N + 1 /\ bytes' = BaseBytes /\ results' = 0
      /\ shards' = Append(shards, Shard(first, N, bytes))
  BY DEF Flush
<1>2. /\ input \in Inputs /\ N \in 1..N /\ first \in 1..N /\ first <= N
      /\ N - first + 1 <= MaxCases /\ bytes <= TargetBytes /\ bytes = Length(first, N)
  BY <1>1, InputTypes DEF IInv, Pending
<1>3. Sound(Append(shards, Shard(first, N, bytes)), N + 1)
  BY <1>2, SoundAppend DEF IInv
<1>4. Sound(shards, first)'
  BY <1>1, <1>3 DEF Sound, Good, ShardType, Length, Part, N, MaxCases, TargetBytes
<1>5. Length(N + 1, N) = BaseBytes /\ Part(input.counts, N + 1, N) = 0
  BY <1>2, LengthEmpty, InputTypes
<1>6. (Length(first, packed))' = BaseBytes /\ Part(input.counts, first, packed)' = 0
  BY <1>1, <1>5 DEF Length, Part
<1>7. Pending' = 0
  BY <1>1, <1>2, InputTypes DEF Pending
<1> QED
  BY <1>1, <1>2, <1>4, <1>6, <1>7, InputTypes DEF IInv, N, MaxCases, TargetBytes

\* The counters always match the pending shard.
THEOREM IInvHolds == Spec => []IInv
<1>1. Init => IInv
  <2> SUFFICES ASSUME Init PROVE IInv
    OBVIOUS
  <2>1. Length(1, 0) = BaseBytes /\ Part(input.counts, 1, 0) = 0
    BY LengthEmpty, InputTypes DEF Init
  <2>2. Sound(shards, first)
    BY DEF Init, Sound
  <2> QED
    BY <2>1, <2>2, InputTypes DEF Init, IInv, Pending
<1>2. IInv /\ [Next]_vars => IInv'
  <2> SUFFICES ASSUME IInv, [Next]_vars PROVE IInv'
    OBVIOUS
  <2>1. CASE Pack
    BY <2>1, PackKeepsIInv
  <2>2. CASE Flush
    BY <2>2, FlushKeepsIInv
  <2>3. CASE UNCHANGED vars
    BY <2>3 DEF vars, IInv, Sound, Good, ShardType, Length, Part, Pending, N,
            MaxCases, TargetBytes
  <2> QED
    BY <2>1, <2>2, <2>3 DEF Next
<1> QED
  BY <1>1, <1>2, PTL DEF Spec

\* The packing's counters have their types.
THEOREM TypesHold == Spec => []TypeOK
<1>1. IInv => TypeOK
  <2> SUFFICES ASSUME IInv PROVE TypeOK
    OBVIOUS
  <2>1. first \in 1..N + 1 /\ results \in Nat
    BY LengthNat, InputTypes DEF IInv
  <2> QED
    BY <2>1 DEF IInv, TypeOK, Sound, ShardType
<1> QED
  BY <1>1, IInvHolds, PTL

\* The accounting of pack_evidence_results is exact, for cases of any sizes.
THEOREM AccountingIsExact == Spec => []AccountingExact
<1>1. IInv => AccountingExact
  BY DEF IInv, Sound, Good, AccountingExact
<1> QED
  BY <1>1, IInvHolds, PTL

\* Every shard keeps to the limits unless one case exceeds them by itself.
THEOREM ShardsStayBounded == Spec => []ShardsBounded
<1>1. IInv => ShardsBounded
  BY DEF IInv, Sound, Good, ShardsBounded
<1> QED
  BY <1>1, IInvHolds, PTL

\* The shards partition the cases in order.
THEOREM ShardsArePartition == Spec => []ShardsPartition
<1>1. IInv => ShardsPartition
  <2> SUFFICES ASSUME IInv PROVE ShardsPartition
    OBVIOUS
  <2>1. \A i \in 1..Len(shards) :
          /\ shards[i].first <= shards[i].last
          /\ shards[i].first = IF i = 1 THEN 1 ELSE shards[i - 1].last + 1
    BY DEF IInv, Sound, Good
  <2>2. ASSUME packed = N, Pending = 0
        PROVE  IF N = 0 THEN shards = <<>>
               ELSE shards # <<>> /\ shards[Len(shards)].last = N
    <3>1. first = N + 1 /\ N \in Nat /\ shards \in Seq(ShardType)
      BY <2>2, InputTypes DEF IInv, Pending, Sound
    <3>2. CASE Len(shards) = 0
      <4>1. first = 1
        BY <3>2 DEF IInv, Sound
      <4> QED
        BY <3>1, <3>2, <4>1
    <3>3. CASE Len(shards) # 0
      <4>1. shards[Len(shards)].last + 1 = N + 1 /\ shards[Len(shards)] \in ShardType
        BY <3>1, <3>3 DEF IInv, Sound
      <4>2. shards # <<>>
        BY <3>3
      <4>3. N # 0 /\ shards[Len(shards)].last = N
        BY <3>1, <4>1 DEF ShardType
      <4> QED
        BY <4>2, <4>3
    <3> QED
      BY <3>2, <3>3
  <2> QED
    BY <2>1, <2>2 DEF ShardsPartition
<1> QED
  BY <1>1, IInvHolds, PTL

-----------------------------------------------------------------------------
(* The readers. *)

\* Documents are finite: what the counts of a valid bundle are about.
Finite(b) == IsFiniteSet(DOMAIN b.identities) /\ IsFiniteSet(b.grid)

-----------------------------------------------------------------------------
\* In a valid bundle the verdicts' rows and coordinates number what the
\* manifest says: validation compares sets, a replay compares numbers.
LEMMA ValidCounts ==
  ASSUME NEW b, Valid(b), Finite(b)
  PROVE  b.total = <<Cardinality(VerdictRows(b)), Cardinality(VerdictCoordinates(b))>>
<1>1. VerdictRows(b) = DOMAIN b.identities
  BY DEF Valid
<1>2. VerdictCoordinates(b) = (DOMAIN b.identities) \X b.grid
  BY DEF Valid, GridFits
<1>3. Cardinality((DOMAIN b.identities) \X b.grid)
        = Cardinality(DOMAIN b.identities) * Cardinality(b.grid)
  BY FS_Product DEF Finite
<1>4. b.total = <<Cardinality(DOMAIN b.identities),
                  Cardinality(DOMAIN b.identities) * Cardinality(b.grid)>>
  BY DEF Valid, ManifestParses
<1> QED
  BY <1>1, <1>2, <1>3, <1>4

\* A row of a valid bundle names evidence that is there, whole and of the case,
\* and has a verdict and a result at each coordinate of the grid.
LEMMA ValidRow ==
  ASSUME NEW b, Valid(b), NEW c \in DOMAIN b.identities, NEW g \in b.grid
  PROVE  /\ c \in VerdictRows(b)
         /\ EvidenceFits(b, b.verdicts.rows[c].href, c)
         /\ g \in DOMAIN b.verdicts.rows[c].results
         /\ <<c, g>> \in DOMAIN b.shards[b.verdicts.rows[c].href].results
         /\ SameJudgment(b, c, g)
         /\ Judged(b, <<c, g>>).target = b.catalog.cases[c].definition
<1>1. c \in VerdictRows(b)
  BY DEF Valid
<1>2. EvidenceFits(b, b.verdicts.rows[c].href, c)
  BY <1>1 DEF Valid, RowsFit, ShardsFit, EvidenceFits
<1>3. <<c, g>> \in VerdictCoordinates(b)
  BY DEF Valid, GridFits
<1>4. g \in DOMAIN b.verdicts.rows[c].results
  BY <1>3 DEF VerdictCoordinates
<1> QED
  BY <1>1, <1>2, <1>4 DEF Valid, RowsFit, SameJudgment

LEMMA ValidCatalog ==
  ASSUME NEW b, Valid(b)
  PROVE  Core(b) /\ ReplayCatalogFits(b)
BY DEF Valid, CatalogFits, Core, ReplayCatalogFits, Identified

\* Every result of a valid bundle can be replayed, from anywhere.
THEOREM ValidReplays ==
  ASSUME NEW b, Valid(b), Finite(b), NEW c \in DOMAIN b.identities, NEW g \in b.grid,
         NEW l \in Locations
  PROVE  Replayable(b, l, c, g)
<1>1. Core(b) /\ ReplayCatalogFits(b)
  BY ValidCatalog
<1>2. /\ b.total = <<Cardinality(VerdictRows(b)), Cardinality(VerdictCoordinates(b))>>
      /\ VerdictRows(b) = DOMAIN b.identities /\ b.dir = b.id
  BY ValidCounts DEF Valid
<1> QED
  BY <1>1, <1>2, ValidRow DEF Replayable

\* The dashboard shows every case of a valid bundle.
THEOREM ValidIsShown ==
  ASSUME NEW b, Valid(b), NEW c \in DOMAIN b.identities
  PROVE  Shown(b, c)
<1>1. c \in VerdictRows(b)
  BY DEF Valid
<1>2. \A d \in VerdictRows(b) : b.verdicts.rows[d].href \in DOMAIN b.counts
  BY DEF Valid, RowsFit
<1>4. VerdictRows(b) \subseteq DOMAIN b.catalog.cases
  BY DEF Valid, CatalogFits, Identified
<1>3. LET href == b.verdicts.rows[c].href
      IN Verified(b, href) /\ b.shards[href].campaign = b.id /\ c \in b.shards[href].cases
  BY <1>1 DEF Valid, RowsFit, ShardsFit
<1> QED
  BY <1>1, <1>2, <1>3, <1>4 DEF Valid, Shown

-----------------------------------------------------------------------------
\* What the alterations keep.
Keeps(b) ==
  /\ {"state", "identities", "grid"} \subseteq DOMAIN b
  /\ b.state = "kept" /\ Finite(b)

LEMMA ManifestKeeps ==
  ASSUME NEW b, Keeps(b), NEW a \in AlteredManifest(b)
  PROVE  Keeps(a)
BY FS_Subset DEF AlteredManifest, Keeps, Finite, Drop

LEMMA CatalogKeeps ==
  ASSUME NEW b, Keeps(b), NEW a \in AlteredCatalog(b)
  PROVE  Keeps(a)
BY DEF AlteredCatalog, Keeps, Finite

LEMMA VerdictsKeeps ==
  ASSUME NEW b, Keeps(b), NEW a \in AlteredVerdicts(b)
  PROVE  Keeps(a)
<1>1. CASE a = [b EXCEPT !.verdicts.campaign = Other]
  BY <1>1 DEF Keeps, Finite
<1>2. CASE \E c \in VerdictRows(b) : a = [b EXCEPT !.verdicts.rows = Drop(@, c)]
  BY <1>2 DEF Keeps, Finite
<1>3. CASE \E x \in VerdictRows(b) \X (DOMAIN b.shards) :
             a = [b EXCEPT !.verdicts.rows[x[1]].href = x[2]]
  BY <1>3 DEF Keeps, Finite
<1>4. CASE \E x \in VerdictCoordinates(b) :
             a = [b EXCEPT !.verdicts.rows[x[1]].results = Drop(@, x[2])]
  BY <1>4 DEF Keeps, Finite
<1>5. CASE \E x \in VerdictCoordinates(b) :
             a = [b EXCEPT !.verdicts.rows[x[1]].results[x[2]] = Opposite(@)]
  BY <1>5 DEF Keeps, Finite
<1> QED
  BY <1>1, <1>2, <1>3, <1>4, <1>5 DEF AlteredVerdicts

LEMMA ShardKeeps ==
  ASSUME NEW b, Keeps(b), NEW i, NEW a \in AlteredShard(b, i)
  PROVE  Keeps(a)
<1>1. ASSUME NEW d, Keeps(d), NEW j, NEW c
      PROVE  Keeps(Copied(d, i, j, c)) /\ Keeps(Lost(d, i, c))
  BY <1>1 DEF Keeps, Finite, Copied, Lost
<1>2. CASE \E x : \/ a = Lost(b, i, x) \/ a = Copied(b, i, x[1], x[2])
                  \/ a = Lost(Copied(b, i, x[1], x[2]), i, x[2])
  BY <1>1, <1>2
<1>3. CASE \/ a = [b EXCEPT !.shards[i].campaign = Other]
           \/ \E x : a = [b EXCEPT !.shards[i].results = Drop(@, x)]
  BY <1>3 DEF Keeps, Finite
<1>4. CASE \E x : a = [b EXCEPT !.shards[i].results[x].target = Other]
  BY <1>4 DEF Keeps, Finite
<1>5. CASE \E x : a = [b EXCEPT !.shards[i].results[x].judgment = Opposite(@)]
  BY <1>5 DEF Keeps, Finite
<1>6. CASE \E x : a = [b EXCEPT !.shards[i].results[x].judgment = Opposite(@),
                                !.shards[i].results[x].observed = Opposite(@)]
  BY <1>6 DEF Keeps, Finite
<1> QED
  BY <1>2, <1>3, <1>4, <1>5, <1>6 DEF AlteredShard

LEMMA FilesKeeps ==
  ASSUME NEW b, Keeps(b), NEW a \in AlteredFiles(b) \cup {Rederived(b)}
  PROVE  Keeps(a)
BY DEF AlteredFiles, Rederived, Keeps, Finite

LEMMA AlteredKeeps ==
  ASSUME NEW b, Keeps(b), NEW a \in Altered(b)
  PROVE  Keeps(a)
BY ManifestKeeps, CatalogKeeps, VerdictsKeeps, ShardKeeps, FilesKeeps DEF Altered

-----------------------------------------------------------------------------
\* The inductive invariant: a bundle that is kept, altered as it may be, has
\* finitely many cases, tools and profiles.
BInv == bundle.state = "kept" => Keeps(bundle)

LEMMA WrittenKeeps ==
  ASSUME input \in Inputs
  PROVE  Keeps(Written)
<1>1. N \in Nat
  BY EvidencePackingAssumption DEF N
<1>2. IsFiniteSet(Cases)
  BY <1>1, FS_Interval DEF Cases
<1>3. /\ Written.identities = [c \in Cases |-> [content |-> Original, definition |-> Original]]
      /\ Written.grid = Grid /\ Written.state = "kept"
      /\ {"state", "identities", "grid"} \subseteq DOMAIN Written
  BY DEF Written
<1> QED
  BY <1>2, <1>3, BundleContentAssumption DEF Keeps, Finite

\* The input does not change, so that its size stays a number.
LEMMA InputStays ==
  ASSUME input \in Inputs, [BundleNext]_<<vars, bundle, alterations>>
  PROVE  input' = input
BY DEF BundleNext, Packing, Next, Pack, Flush, Export, Alter, vars

LEMMA BInvStep ==
  ASSUME BInv, input \in Inputs, [BundleNext]_<<vars, bundle, alterations>>
  PROVE  BInv'
<1>1. CASE Packing
  BY <1>1 DEF Packing, BInv
<1>2. CASE Export
  <2>1. bundle' = Written \/ bundle'.state # "kept"
    BY <1>2 DEF Export
  <2> QED
    BY <2>1, WrittenKeeps DEF BInv
<1>3. CASE Alter
  BY <1>3, AlteredKeeps DEF Alter, BInv
<1>4. CASE UNCHANGED <<vars, bundle, alterations>>
  BY <1>4 DEF BInv
<1> QED
  BY <1>1, <1>2, <1>3, <1>4 DEF BundleNext

-----------------------------------------------------------------------------
(* The export. *)

\* Every tool has a result for every case: a campaign that may be exported.
FullGrid == \A c \in Cases : 1..CaseResults(c) = Grid

Packed == IInv /\ packed = N /\ Pending = 0

\* The cases of the i-th shard.
Span(i) == shards[i].first..shards[i].last

\* U is the union of a disjoint family S, and T numbers the members' elements.
DisjointFamily(I, S, U, T) ==
  /\ IsFiniteSet(U) /\ \A x : x \in U <=> \E i \in I : x \in S[i]
  /\ \A p : p \in T <=> \E i \in I : \E k \in 1..Cardinality(S[i]) : p = <<i, k>>
  /\ \A i, j \in I : i # j => S[i] \cap S[j] = {}

\* Its members have as many elements together as their union: what a manifest's
\* totals, summed over the shards, rest on.
LEMMA FamilyCardinality ==
  ASSUME NEW I, NEW S, NEW U, NEW T, DisjointFamily(I, S, U, T)
  PROVE  Cardinality(T) = Cardinality(U)
<1> USE DEF DisjointFamily
<1> DEFINE Numbered(i) == Bijection(1..Cardinality(S[i]), S[i])
           f == [i \in I |-> CHOOSE h : h \in Numbered(i)]
           F == [p \in T |-> f[p[1]][p[2]]]
<1>1. \A i \in I : f[i] \in Numbered(i)
  <2> TAKE i \in I
  <2>1. IsFiniteSet(S[i])
    BY FS_Subset
  <2>2. \E h : h \in Numbered(i)
    BY <2>1, FS_CardinalityType DEF ExistsBijection
  <2> QED
    BY <2>2
<1>2. \A i \in I : /\ \A k \in 1..Cardinality(S[i]) : f[i][k] \in S[i]
                   /\ \A k, l \in 1..Cardinality(S[i]) : f[i][k] = f[i][l] => k = l
                   /\ \A x \in S[i] : \E k \in 1..Cardinality(S[i]) : f[i][k] = x
  <2> TAKE i \in I
  <2> HIDE DEF f
  <2>1. f[i] \in Bijection(1..Cardinality(S[i]), S[i])
    BY <1>1
  <2> QED
    BY <2>1 DEF Bijection, Injection, IsInjective, Surjection
<1>3. \A p \in T : /\ p[1] \in I /\ p[2] \in 1..Cardinality(S[p[1]])
                   /\ p = <<p[1], p[2]>>
  OBVIOUS
<1>4. \A p \in T : F[p] = f[p[1]][p[2]]
  OBVIOUS
<1> HIDE DEF f, F
<1>10. \A p \in T : F[p] \in S[p[1]]
  BY <1>2, <1>3, <1>4
<1>5. F \in [T -> U]
  <2>1. \A p \in T : F[p] \in U
    BY <1>3, <1>10
  <2> QED
    BY <2>1 DEF F
<1>6. ASSUME NEW p \in T, NEW q \in T, F[p] = F[q]
      PROVE  p = q
  <2>1. p[1] = q[1]
    BY <1>3, <1>10, <1>6
  <2>2. /\ p[1] \in I /\ p[2] \in 1..Cardinality(S[p[1]])
        /\ q[2] \in 1..Cardinality(S[p[1]])
    BY <1>3, <2>1
  <2>3. f[p[1]][p[2]] = f[p[1]][q[2]]
    BY <1>4, <1>6, <2>1
  <2>4. p[2] = q[2]
    BY <1>2, <2>2, <2>3
  <2> QED
    BY <1>3, <2>1, <2>4
<1>7. ASSUME NEW x \in U
      PROVE  \E p \in T : F[p] = x
  <2>1. PICK i \in I : x \in S[i]
    OBVIOUS
  <2>2. PICK k \in 1..Cardinality(S[i]) : f[i][k] = x
    BY <1>2, <2>1
  <2>3. <<i, k>> \in T
    OBVIOUS
  <2>4. F[<<i, k>>] = x
    BY <1>4, <2>2, <2>3
  <2> QED
    BY <2>3, <2>4
<1>8. F \in Bijection(T, U)
  BY <1>5, <1>6, <1>7 DEF Bijection, Injection, IsInjective, Surjection
<1>9. ExistsBijection(U, T)
  BY <1>8, Fun_ExistsBijSymmetric DEF ExistsBijection
<1> QED
  BY <1>9, FS_Bijection

\* Once all is packed the shards' cases are disjoint and all there are.
LEMMA SpansPartition ==
  ASSUME Packed
  PROVE  /\ N \in Nat /\ Len(shards) \in Nat
         /\ \A i \in 1..Len(shards) : Span(i) # {} /\ Span(i) \subseteq Cases
         /\ \A i, j \in 1..Len(shards) : i # j => Span(i) \cap Span(j) = {}
         /\ UNION {Span(i) : i \in 1..Len(shards)} = Cases
<1>1. N \in Nat /\ first = N + 1 /\ shards \in Seq(ShardType) /\ Sound(shards, first)
  BY InputTypes DEF Packed, IInv, Pending, Sound
<1>2. Len(shards) \in Nat /\ \A i \in 1..Len(shards) : shards[i] \in ShardType
  BY <1>1
<1>3. \A i \in 1..Len(shards) :
        /\ shards[i].first \in 1..N /\ shards[i].last \in 1..N
        /\ shards[i].first <= shards[i].last
  BY <1>1, <1>2 DEF ShardType, Sound, Good
<1>4. \A i \in 1..Len(shards) : Span(i) # {} /\ Span(i) \subseteq Cases
  BY <1>1, <1>3 DEF Span, Cases
<1>5. ASSUME NEW i \in 1..Len(shards), NEW j \in 1..Len(shards), i # j
      PROVE  Span(i) \cap Span(j) = {}
  <2>1. i < j \/ j < i
    BY <1>2, <1>5
  <2>2. \/ shards[i].last < shards[j].first \/ shards[j].last < shards[i].first
    BY <1>1, <2>1 DEF Sound
  <2> QED
    BY <1>1, <1>3, <2>2 DEF Span
<1>6. \A c \in Cases : \E i \in 1..Len(shards) : c \in Span(i)
  <2> TAKE c \in Cases
  <2>1. c \in 1..first - 1
    BY <1>1 DEF Cases
  <2>2. PICK i \in 1..Len(shards) : shards[i].first <= c /\ c <= shards[i].last
    BY <1>1, <2>1 DEF Sound
  <2> QED
    BY <1>1, <1>3, <2>2 DEF Span, Cases
<1> QED
  BY <1>1, <1>2, <1>4, <1>5, <1>6

\* A row names the shard its case is in.
LEMMA RowNamesItsShard ==
  ASSUME Packed, NEW c \in Cases
  PROVE  ShardOf(c) \in 1..Len(shards) /\ c \in Span(ShardOf(c))
<1>1. PICK i \in 1..Len(shards) : c \in Span(i)
  BY SpansPartition
<1>2. shards[i].first <= c /\ c <= shards[i].last
  BY <1>1, SpansPartition DEF Span
<1>3. /\ ShardOf(c) \in 1..Len(shards)
      /\ shards[ShardOf(c)].first <= c /\ c <= shards[ShardOf(c)].last
  BY <1>2 DEF ShardOf
<1>4. shards \in Seq(ShardType) /\ N \in Nat
  BY InputTypes DEF Packed, IInv, Sound
<1>5. shards[ShardOf(c)] \in ShardType
  BY <1>3, <1>4
<1> QED
  BY <1>3, <1>4, <1>5 DEF Span, ShardType, Cases

\* On a full grid the results of some cases are theirs by every tool.
LEMMA ResultsOfFullGrid ==
  ASSUME FullGrid, NEW S, S \subseteq Cases
  PROVE  ResultsOfCases(S) = S \X Grid
<1>1. \A c \in S : {c} \X (1..CaseResults(c)) = {c} \X Grid
  BY DEF FullGrid
<1>2. ResultsOfCases(S) = UNION {{c} \X Grid : c \in S}
  BY <1>1 DEF ResultsOfCases
<1> QED
  BY <1>2

\* What the exporter writes into the manifest and its documents.
LEMMA WrittenFields ==
  /\ Written.dir = Original /\ Written.id = Original /\ Written.commit = Original
  /\ Written.files = {CatalogFile, VerdictFile} \cup 1..Len(shards)
  /\ Written.stale = {} /\ Written.grid = Grid
  /\ Written.identities =
       [c \in Cases |-> [content |-> Original, definition |-> Original]]
  /\ Written.hashed.cases = [c \in Cases |-> Original]
  /\ Written.hashed.requirements = Original
  /\ Written.hashed.selection = <<Cases, Grid>>
  /\ Written.metrics = [g \in Grid |-> N]
  /\ Written.total = <<N, Cardinality(ResultsOfCases(Cases))>>
  /\ Written.counts = [i \in 1..Len(shards) |-> Counts(ShardFile(i))]
  /\ Written.catalog.campaign = Original /\ Written.catalog.requirements = Original
  /\ Written.catalog.cases = [c \in Cases \cup {Unselected} |-> Entry]
  /\ Written.verdicts.campaign = Original
  /\ Written.verdicts.rows =
       [c \in Cases |-> [href |-> ShardOf(c),
                         results |-> [g \in 1..CaseResults(c) |-> Met]]]
  /\ Written.shards = [i \in 1..Len(shards) |-> ShardFile(i)]
BY DEF Written

LEMMA ShardFileFields ==
  ASSUME Packed, FullGrid, NEW i \in 1..Len(shards)
  PROVE  /\ ShardFile(i).campaign = Original /\ ShardFile(i).cases = Span(i)
         /\ DOMAIN ShardFile(i).results = Span(i) \X Grid
         /\ \A x \in Span(i) \X Grid : ShardFile(i).results[x] = Result
<1>1. ResultsOfCases(Span(i)) = Span(i) \X Grid
  BY SpansPartition, ResultsOfFullGrid
<1>2. ShardFile(i) = [campaign |-> Original, cases |-> Span(i),
                      results |-> [x \in ResultsOfCases(Span(i)) |-> Result]]
  BY DEF ShardFile, Span
<1> QED
  BY <1>1, <1>2

\* The manifest's totals, of the identities and summed over the shards, agree.
LEMMA WrittenParses ==
  ASSUME Packed, FullGrid
  PROVE  ManifestParses(Written)
<1> DEFINE I == 1..Len(shards)
           S == [i \in I |-> Span(i)]
           R == [i \in I |-> Span(i) \X Grid]
<1>1. N \in Nat /\ \A c : c \in Cases <=> \E i \in I : c \in S[i]
  BY SpansPartition
<1>2. IsFiniteSet(Cases) /\ Cardinality(Cases) = N
  BY <1>1, FS_Interval DEF Cases
<1>3. IsFiniteSet(Cases \X Grid) /\ Cardinality(Cases \X Grid) = N * Cardinality(Grid)
  BY <1>2, FS_Product, BundleContentAssumption
<1>4. \A x : x \in Cases \X Grid <=> \E i \in I : x \in R[i]
  BY <1>1
<1>5. /\ DOMAIN Written.identities = Cases /\ DOMAIN Written.metrics = Grid
      /\ Written.grid = Grid /\ DOMAIN Written.counts = I
      /\ Written.total = <<N, Cardinality(Cases \X Grid)>>
  BY WrittenFields, ResultsOfFullGrid
<1>6. \A i \in I : Written.counts[i] = <<Cardinality(S[i]), Cardinality(R[i])>>
  <2> TAKE i \in I
  <2>1. Written.counts[i] = Counts(ShardFile(i))
    BY WrittenFields
  <2> QED
    BY <2>1, ShardFileFields DEF Counts
<1>7. /\ \A i, j \in I : i # j => S[i] \cap S[j] = {}
      /\ \A i, j \in I : i # j => R[i] \cap R[j] = {}
  BY SpansPartition
<1>10. \A i \in I : /\ Written.counts[i][1] = Cardinality(S[i])
                    /\ Written.counts[i][2] = Cardinality(R[i])
  <2> HIDE DEF S, R
  <2> QED
    BY <1>6
<1> HIDE DEF I, S, R
<1>8. Sum(Written, 1) = N
  <2> DEFINE T == UNION {{i} \X (1..Written.counts[i][1]) : i \in I}
  <2>1. Sum(Written, 1) = Cardinality(T)
    BY <1>5 DEF Sum
  <2>2. \A p : p \in T <=> \E i \in I : \E k \in 1..Cardinality(S[i]) : p = <<i, k>>
    BY <1>10
  <2> HIDE DEF T
  <2>3. Cardinality(T) = Cardinality(Cases)
    <3>1. DisjointFamily(I, S, Cases, T)
      BY <1>1, <1>2, <1>7, <2>2 DEF DisjointFamily
    <3> QED
      BY <3>1, FamilyCardinality
  <2> QED
    BY <1>1, <1>2, <2>1, <2>3
<1>9. Sum(Written, 2) = Cardinality(Cases \X Grid)
  <2> DEFINE T == UNION {{i} \X (1..Written.counts[i][2]) : i \in I}
  <2>1. Sum(Written, 2) = Cardinality(T)
    BY <1>5 DEF Sum
  <2>2. \A p : p \in T <=> \E i \in I : \E k \in 1..Cardinality(R[i]) : p = <<i, k>>
    BY <1>10
  <2> HIDE DEF T
  <2>3. Cardinality(T) = Cardinality(Cases \X Grid)
    <3>1. DisjointFamily(I, R, Cases \X Grid, T)
      BY <1>3, <1>4, <1>7, <2>2 DEF DisjointFamily
    <3> QED
      BY <3>1, FamilyCardinality
  <2> QED
    BY <1>3, <1>4, <2>1, <2>3
<1> QED
  BY <1>2, <1>3, <1>5, <1>8, <1>9 DEF ManifestParses

\* Catalog, shards, rows and metrics of an export are what they refer to.
LEMMA WrittenFits ==
  ASSUME Packed, FullGrid
  PROVE  /\ CatalogFits(Written) /\ ShardsFit(Written) /\ RowsFit(Written)
         /\ GridFits(Written) /\ JudgmentsStand(Written)
<1> DEFINE w == Written
           I == 1..Len(shards)
<1>1. /\ DOMAIN w.identities = Cases /\ DOMAIN w.counts = I
      /\ VerdictRows(w) = Cases /\ w.grid = Grid /\ DOMAIN w.shards = I
      /\ w.id = Original /\ w.commit = Original
  BY WrittenFields DEF VerdictRows
<1>2. \A i \in I : /\ w.shards[i] = ShardFile(i) /\ w.counts[i] = Counts(ShardFile(i))
                   /\ Verified(w, i)
  BY WrittenFields DEF Verified
<1>3. \A c \in Cases : /\ w.verdicts.rows[c].href = ShardOf(c)
                       /\ DOMAIN w.verdicts.rows[c].results = Grid
                       /\ \A g \in Grid : w.verdicts.rows[c].results[g] = Met
  <2> TAKE c \in Cases
  <2>1. w.verdicts.rows[c] = [href |-> ShardOf(c),
                              results |-> [g \in 1..CaseResults(c) |-> Met]]
    BY WrittenFields
  <2>2. 1..CaseResults(c) = Grid
    BY DEF FullGrid
  <2>3. w.verdicts.rows[c] = [href |-> ShardOf(c), results |-> [g \in Grid |-> Met]]
    BY <2>1, <2>2
  <2> QED
    BY <2>3
<1>4. \A c \in Cases \cup {Unselected} : w.catalog.cases[c] = Entry
  BY WrittenFields
<1>5. CatalogFits(w)
  <2>1. \A c \in Cases : w.identities[c].content = Original
                         /\ w.identities[c].definition = Original
    BY WrittenFields
  <2>2. DOMAIN w.catalog.cases = Cases \cup {Unselected}
    BY WrittenFields
  <2>3. \A c \in DOMAIN w.catalog.cases : Defined(w, c) /\ Linked(w, c)
    BY <1>1, <1>4, <2>2 DEF Defined, Linked, Entry
  <2>4. \A c \in DOMAIN w.identities : Identified(w, c)
    BY <1>1, <1>4, <2>1, <2>2 DEF Identified, Entry
  <2>5. w.hashed.cases = [c \in DOMAIN w.identities |-> w.identities[c].content]
    BY <1>1, <2>1, WrittenFields
  <2>6. /\ w.hashed.requirements = w.catalog.requirements
        /\ w.hashed.selection = <<DOMAIN w.identities, w.grid>>
    BY <1>1, WrittenFields
  <2> QED
    BY <2>3, <2>4, <2>5, <2>6 DEF CatalogFits, HashesFit
<1>6. ShardsFit(w)
  <2>1. \A i \in I : ShardParses(w.shards[i]) /\ w.shards[i].campaign = w.id
    BY <1>1, <1>2, SpansPartition, ShardFileFields DEF ShardParses
  <2>2. \A i \in I : \A j \in I \ {i} : w.shards[i].cases \cap w.shards[j].cases = {}
    BY <1>2, SpansPartition, ShardFileFields
  <2>3. UNION {w.shards[i].cases : i \in I} = Cases
    BY <1>2, SpansPartition, ShardFileFields
  <2> QED
    BY <1>1, <1>2, <2>1, <2>2, <2>3 DEF ShardsFit
<1>7. RowsFit(w)
  <2> SUFFICES ASSUME NEW c \in Cases
               PROVE  LET row == w.verdicts.rows[c] IN
                      /\ row.href \in I /\ c \in w.shards[row.href].cases
                      /\ \A g \in DOMAIN row.results :
                           /\ <<c, g>> \in DOMAIN w.shards[row.href].results
                           /\ Judged(w, <<c, g>>).target = w.catalog.cases[c].definition
                           /\ Judged(w, <<c, g>>).judgment = row.results[g]
    BY <1>1 DEF RowsFit
  <2>1. ShardOf(c) \in I /\ c \in Span(ShardOf(c))
    BY RowNamesItsShard
  <2>2. /\ w.shards[ShardOf(c)].cases = Span(ShardOf(c))
        /\ DOMAIN w.shards[ShardOf(c)].results = Span(ShardOf(c)) \X Grid
    BY <1>2, <2>1, ShardFileFields
  <2>3. \A g \in Grid : Judged(w, <<c, g>>) = Result
    BY <1>2, <1>3, <2>1, ShardFileFields DEF Judged
  <2> QED
    BY <1>3, <1>4, <2>1, <2>2, <2>3 DEF Result, Entry
<1>8. GridFits(w)
  <2>1. VerdictCoordinates(w) = Cases \X Grid
    BY <1>1, <1>3 DEF VerdictCoordinates
  <2>2. \A i \in I : DOMAIN w.shards[i].results = Span(i) \X Grid
    BY <1>2, ShardFileFields
  <2>3. UNION {DOMAIN w.shards[i].results : i \in I} = Cases \X Grid
    BY <2>2, SpansPartition
  <2> QED
    BY <1>1, <2>1, <2>3 DEF GridFits
<1>9. JudgmentsStand(w)
  <2>1. \A i \in I : DOMAIN w.shards[i].results = Span(i) \X Grid
    BY <1>2, ShardFileFields
  <2>2. \A i \in I : \A x \in Span(i) \X Grid :
          /\ w.shards[i].results[x].judgment = Met
          /\ w.shards[i].results[x].observed = Met
    BY <1>2, ShardFileFields DEF Result
  <2>3. ASSUME NEW g \in Grid
        PROVE  w.metrics[g] = Passed(w, g)
    <3> DEFINE Of(i) == {x[1] : x \in {y \in DOMAIN w.shards[i].results :
                           y[2] = g /\ w.shards[i].results[y].judgment = Met}}
    <3>1. \A i \in I : Of(i) = Span(i)
      <4> TAKE i \in I
      <4>1. Of(i) \subseteq Span(i)
        BY <2>1
      <4>2. ASSUME NEW c \in Span(i)
            PROVE  c \in Of(i)
        <5>1. <<c, g>> \in Span(i) \X Grid
          OBVIOUS
        <5> QED
          BY <2>1, <2>2, <5>1
      <4> QED
        BY <4>1, <4>2
    <3>2. UNION {Of(i) : i \in I} = Cases
      BY <3>1, SpansPartition
    <3>3. Passed(w, g) = Cardinality(UNION {Of(i) : i \in I})
      BY <1>1 DEF Passed
    <3>4. Cardinality(Cases) = N
      BY SpansPartition, FS_Interval DEF Cases
    <3> QED
      BY <3>2, <3>3, <3>4, WrittenFields
  <2> QED
    BY <1>1, <2>1, <2>2, <2>3 DEF JudgmentsStand
<1> QED
  BY <1>5, <1>6, <1>7, <1>8, <1>9

\* An export of a full grid passes the validation it ends with.
THEOREM ExportPasses ==
  ASSUME Packed, FullGrid
  PROVE  Valid(Written)
<1>1. /\ Written.dir = Written.id
      /\ Written.catalog.campaign = Written.id /\ Written.verdicts.campaign = Written.id
      /\ Verified(Written, CatalogFile) /\ Verified(Written, VerdictFile)
      /\ VerdictRows(Written) = DOMAIN Written.identities
      /\ Written.files = {CatalogFile, VerdictFile} \cup DOMAIN Written.counts
  BY WrittenFields DEF Verified, VerdictRows
<1> QED
  BY <1>1, WrittenParses, WrittenFits DEF Valid

-----------------------------------------------------------------------------
(* One fault. *)

\* Nothing in the catalog or the evidence says anything that was not exported.
AsExported(b) ==
  /\ \A i \in DOMAIN b.counts : \A x \in DOMAIN b.shards[i].results :
       b.shards[i].results[x] = Result
  /\ \A c \in Cases \cap DOMAIN b.catalog.cases : b.catalog.cases[c] = Entry

Misleads(b) ==
  \E c \in VerdictRows(b) \cap Cases, g \in Grid, l \in Locations :
    /\ Replayable(b, l, c, g)
    /\ ~(Judged(b, <<c, g>>) = Result /\ b.catalog.cases[c] = Entry)

LEMMA AsExportedNeverMisleads ==
  ASSUME NEW b, AsExported(b)
  PROVE  ~Misleads(b)
<1> SUFFICES ASSUME NEW c \in VerdictRows(b) \cap Cases, NEW g \in Grid,
                    NEW l \in Locations, Replayable(b, l, c, g)
             PROVE  Judged(b, <<c, g>>) = Result /\ b.catalog.cases[c] = Entry
  BY DEF Misleads
<1>1. /\ b.verdicts.rows[c].href \in DOMAIN b.counts
      /\ <<c, g>> \in DOMAIN b.shards[b.verdicts.rows[c].href].results
  BY DEF Replayable, EvidenceFits
<1>2. c \in DOMAIN b.catalog.cases
  BY DEF Replayable, ReplayCatalogFits, Identified
<1> QED
  BY <1>1, <1>2 DEF AsExported, Judged

\* What Written is, as far as one fault is concerned.
LEMMA WrittenAsExported ==
  /\ DOMAIN Written.counts = 1..Len(shards) /\ DOMAIN Written.shards = 1..Len(shards)
  /\ DOMAIN Written.identities = Cases
  /\ DOMAIN Written.catalog.cases = Cases \cup {Unselected}
  /\ \A i \in 1..Len(shards) :
       /\ {"campaign", "cases", "results"} = DOMAIN Written.shards[i]
       /\ \A x \in DOMAIN Written.shards[i].results : Written.shards[i].results[x] = Result
  /\ \A c \in DOMAIN Written.catalog.cases : Written.catalog.cases[c] = Entry
  /\ \A c \in Cases : /\ Written.identities[c].content = Original
                      /\ Written.identities[c].definition = Original
  /\ \A c \in Cases : \A g \in DOMAIN Written.verdicts.rows[c].results :
       Written.verdicts.rows[c].results[g] = Met
  /\ Written.commit = Original /\ VerdictRows(Written) = Cases
  /\ DOMAIN Written.catalog = {"campaign", "requirements", "cases"}
  /\ DOMAIN Written.verdicts = {"campaign", "rows"}
  /\ {"dir", "files", "stale", "id", "commit", "grid", "identities", "hashed",
      "metrics", "total", "counts", "catalog", "verdicts", "shards"}
       \subseteq DOMAIN Written
<1>1. /\ DOMAIN Written.counts = 1..Len(shards) /\ DOMAIN Written.shards = 1..Len(shards)
      /\ DOMAIN Written.identities = Cases
      /\ DOMAIN Written.catalog.cases = Cases \cup {Unselected}
      /\ Written.commit = Original /\ VerdictRows(Written) = Cases
  BY WrittenFields DEF VerdictRows
<1>2. ASSUME NEW i \in 1..Len(shards)
      PROVE  /\ {"campaign", "cases", "results"} = DOMAIN Written.shards[i]
             /\ \A x \in DOMAIN Written.shards[i].results :
                  Written.shards[i].results[x] = Result
  <2>1. Written.shards[i] = ShardFile(i)
    BY WrittenFields
  <2> QED
    BY <2>1 DEF ShardFile
<1>3. \A c \in DOMAIN Written.catalog.cases : Written.catalog.cases[c] = Entry
  BY WrittenFields
<1>4. \A c \in Cases : /\ Written.identities[c].content = Original
                       /\ Written.identities[c].definition = Original
  BY WrittenFields
<1>5. ASSUME NEW c \in Cases, NEW g \in DOMAIN Written.verdicts.rows[c].results
      PROVE  Written.verdicts.rows[c].results[g] = Met
  <2>1. Written.verdicts.rows[c] =
          [href |-> ShardOf(c), results |-> [h \in 1..CaseResults(c) |-> Met]]
    BY WrittenFields
  <2>2. Written.verdicts.rows[c].results = [h \in 1..CaseResults(c) |-> Met]
    BY <2>1
  <2> QED
    BY <2>2
<1>6. /\ DOMAIN Written.catalog = {"campaign", "requirements", "cases"}
      /\ DOMAIN Written.verdicts = {"campaign", "rows"}
      /\ {"dir", "files", "stale", "id", "commit", "grid", "identities", "hashed",
          "metrics", "total", "counts", "catalog", "verdicts", "shards"}
           \subseteq DOMAIN Written
  BY DEF Written
<1> QED
  BY <1>1, <1>2, <1>3, <1>4, <1>5, <1>6

\* A fault of the manifest, the verdicts or the files, or deriving the manifest
\* again, changes neither evidence nor catalog.
LEMMA OtherDocuments ==
  ASSUME NEW b, b \in {Rederived(Written)} \cup AlteredManifest(Written)
                        \cup AlteredVerdicts(Written) \cup AlteredFiles(Written)
  PROVE  AsExported(b)
<1>1. AsExported(Written)
  BY WrittenAsExported DEF AsExported
<1>2. /\ b.shards = Written.shards /\ b.catalog = Written.catalog
      /\ DOMAIN b.counts \subseteq DOMAIN Written.counts
  <2>1. CASE b = Rederived(Written)
    <3>1. b.shards = Written.shards /\ b.catalog = Written.catalog
      BY <2>1, WrittenAsExported DEF Rederived
    <3>2. b.counts = [i \in DOMAIN Written.counts |-> Counts(Written.shards[i])]
      BY <2>1, WrittenAsExported DEF Rederived
    <3> QED
      BY <3>1, <3>2
  <2>2. CASE b \in AlteredManifest(Written)
    <3> DEFINE w == Written
    <3>1. CASE \/ b = [w EXCEPT !.dir = Other] \/ b = [w EXCEPT !.id = Other]
               \/ b = [w EXCEPT !.commit = Other]
               \/ b = [w EXCEPT !.hashed.requirements = Other]
      BY <3>1, WrittenAsExported
    <3>2. CASE \/ \E g \in w.grid : b = [w EXCEPT !.grid = @ \ {g}]
               \/ \E g \in DOMAIN w.metrics : b = [w EXCEPT !.metrics[g] = @ - 1]
      BY <3>2, WrittenAsExported
    <3>3. CASE \E i \in DOMAIN w.counts : b = [w EXCEPT !.counts = Drop(@, i)]
      BY <3>3, WrittenAsExported DEF Drop
    <3>4. CASE \E c \in DOMAIN w.identities :
                 \/ b = [w EXCEPT !.identities = Drop(@, c)]
                 \/ b = [w EXCEPT !.identities[c].content = Other]
                 \/ b = [w EXCEPT !.identities[c].definition = Other]
      BY <3>4, WrittenAsExported
    <3> QED
      BY <2>2, <3>1, <3>2, <3>3, <3>4 DEF AlteredManifest
  <2>3. CASE b \in AlteredFiles(Written)
    BY <2>3, WrittenAsExported DEF AlteredFiles
  <2>4. CASE b \in AlteredVerdicts(Written)
    <3>1. CASE b = [Written EXCEPT !.verdicts.campaign = Other]
      BY <3>1, WrittenAsExported
    <3>2. CASE \E c \in VerdictRows(Written) :
                 b = [Written EXCEPT !.verdicts.rows = Drop(@, c)]
      BY <3>2, WrittenAsExported
    <3>3. CASE \E x \in VerdictRows(Written) \X (DOMAIN Written.shards) :
                 b = [Written EXCEPT !.verdicts.rows[x[1]].href = x[2]]
      BY <3>3, WrittenAsExported
    <3>4. CASE \E x \in VerdictCoordinates(Written) :
                 b = [Written EXCEPT !.verdicts.rows[x[1]].results = Drop(@, x[2])]
      BY <3>4, WrittenAsExported
    <3>5. CASE \E x \in VerdictCoordinates(Written) :
                 b = [Written EXCEPT !.verdicts.rows[x[1]].results[x[2]] = Opposite(@)]
      BY <3>5, WrittenAsExported
    <3> QED
      BY <2>4, <3>1, <3>2, <3>3, <3>4, <3>5 DEF AlteredVerdicts
  <2> QED
    BY <2>1, <2>2, <2>3, <2>4
<1> QED
  BY <1>1, <1>2 DEF AsExported

\* A fault in the catalog contradicts the manifest's identities or the entry's
\* own hash, or is none of a selected case's entry.
LEMMA CatalogFault ==
  ASSUME NEW b, b \in AlteredCatalog(Written)
  PROVE  ~Misleads(b)
<1> DEFINE w == Written
           D == DOMAIN w.catalog.cases
<1>1. /\ b.shards = w.shards /\ b.counts = w.counts /\ b.identities = w.identities
      /\ b.commit = w.commit
  BY WrittenAsExported DEF AlteredCatalog
<1>2. CASE \/ b = [w EXCEPT !.catalog.campaign = Other]
           \/ b = [w EXCEPT !.catalog.requirements = Other]
  <2>1. b.catalog.cases = w.catalog.cases
    BY <1>2, WrittenAsExported
  <2>2. AsExported(b)
    BY <1>1, <2>1, WrittenAsExported DEF AsExported
  <2> QED
    BY <2>2, AsExportedNeverMisleads
<1>3. CASE \E c \in D : b = [w EXCEPT !.catalog.cases = Drop(@, c)]
  <2>1. PICK c \in D : b.catalog.cases = [d \in D \ {c} |-> w.catalog.cases[d]]
    BY <1>3, WrittenAsExported DEF Drop
  <2>2. AsExported(b)
    BY <1>1, <2>1, WrittenAsExported DEF AsExported
  <2> QED
    BY <2>2, AsExportedNeverMisleads
<1>4. CASE \E c \in D : \/ b = [w EXCEPT !.catalog.cases[c].content = Other]
                        \/ b = [w EXCEPT !.catalog.cases[c].definition = Other]
                        \/ b = [w EXCEPT !.catalog.cases[c].declared = Other]
                        \/ b = [w EXCEPT !.catalog.cases[c].link = Other]
  <2>1. PICK c \in D : \/ b = [w EXCEPT !.catalog.cases[c].content = Other]
                       \/ b = [w EXCEPT !.catalog.cases[c].definition = Other]
                       \/ b = [w EXCEPT !.catalog.cases[c].declared = Other]
                       \/ b = [w EXCEPT !.catalog.cases[c].link = Other]
    BY <1>4
  <2>2. /\ DOMAIN b.catalog.cases = D
        /\ \A d \in D \ {c} : b.catalog.cases[d] = Entry
    BY <2>1, WrittenAsExported
  <2>3. \/ b.catalog.cases[c] = [Entry EXCEPT !.content = Other]
        \/ b.catalog.cases[c] = [Entry EXCEPT !.definition = Other]
        \/ b.catalog.cases[c] = [Entry EXCEPT !.declared = Other]
        \/ b.catalog.cases[c] = [Entry EXCEPT !.link = Other]
    BY <2>1, WrittenAsExported
  <2>4. CASE c \notin Cases
    <3>1. AsExported(b)
      BY <1>1, <2>2, <2>4, WrittenAsExported DEF AsExported
    <3> QED
      BY <3>1, AsExportedNeverMisleads
  <2>5. CASE c \in Cases
    <3>1. c \in DOMAIN b.identities /\ b.commit = Original
      BY <1>1, <2>5, WrittenAsExported
    <3>2. b.identities[c].content = Original /\ b.identities[c].definition = Original
      BY <1>1, <2>5, WrittenAsExported
    <3>3. ~(Identified(b, c) /\ Defined(b, c) /\ Linked(b, c))
      BY <2>3, <3>1, <3>2
         DEF Identified, Defined, Linked, Entry, Original, Other
    <3> QED
      BY <3>1, <3>3 DEF Misleads, Replayable, ReplayCatalogFits
  <2> QED
    BY <2>4, <2>5
<1> QED
  BY <1>2, <1>3, <1>4 DEF AlteredCatalog

\* Evidence that is lost, copied or moved is still what was exported.
Intact(shard) ==
  /\ {"campaign", "cases", "results"} = DOMAIN shard
  /\ \A x \in DOMAIN shard.results : shard.results[x] = Result

Moved(b) ==
  /\ {"shards", "counts", "catalog"} \subseteq DOMAIN b
  /\ b.counts = Written.counts /\ b.catalog = Written.catalog
  /\ DOMAIN b.shards = DOMAIN Written.shards
  /\ \A i \in DOMAIN Written.shards : Intact(b.shards[i])

LEMMA LostIsMoved ==
  ASSUME NEW b, Moved(b), NEW i \in DOMAIN Written.shards, NEW c
  PROVE  Moved(Lost(b, i, c))
<1> DEFINE old == b.shards[i].results
           gone == Lost(b, i, c)
<1>1. /\ DOMAIN gone = DOMAIN b /\ gone.counts = b.counts /\ gone.catalog = b.catalog
      /\ DOMAIN gone.shards = DOMAIN b.shards
  BY DEF Lost, Moved
<1>2. \A k \in DOMAIN b.shards \ {i} : gone.shards[k] = b.shards[k]
  BY DEF Lost, Moved
<1>3. Intact(b.shards[i])
  BY DEF Moved
<1>4. /\ DOMAIN gone.shards[i] = DOMAIN b.shards[i]
      /\ gone.shards[i].results = [x \in DOMAIN old \ WithEvidence(b, i, c) |-> old[x]]
  BY <1>3 DEF Lost, Moved, Intact
<1> HIDE DEF gone
<1>5. Intact(gone.shards[i])
  BY <1>3, <1>4 DEF Intact
<1> QED
  BY <1>1, <1>2, <1>5 DEF Moved, gone

LEMMA CopiedIsMoved ==
  ASSUME NEW b, Moved(b), NEW i \in DOMAIN Written.shards,
         NEW j \in DOMAIN Written.shards, NEW c
  PROVE  Moved(Copied(b, i, j, c))
<1> DEFINE old == b.shards[j].results
           more == Copied(b, i, j, c)
<1>1. /\ DOMAIN more = DOMAIN b /\ more.counts = b.counts /\ more.catalog = b.catalog
      /\ DOMAIN more.shards = DOMAIN b.shards
  BY DEF Copied, Moved
<1>2. \A k \in DOMAIN b.shards \ {j} : more.shards[k] = b.shards[k]
  BY DEF Copied, Moved
<1>3. Intact(b.shards[i]) /\ Intact(b.shards[j])
  BY DEF Moved
<1>4. /\ DOMAIN more.shards[j] = DOMAIN b.shards[j]
      /\ more.shards[j].results =
           [x \in DOMAIN old \cup WithEvidence(b, i, c) |->
              IF x \in DOMAIN old THEN old[x] ELSE b.shards[i].results[x]]
  BY <1>3 DEF Copied, Moved, Intact
<1>5. WithEvidence(b, i, c) \subseteq DOMAIN b.shards[i].results
  BY DEF WithEvidence
<1> HIDE DEF more
<1>6. Intact(more.shards[j])
  BY <1>3, <1>4, <1>5 DEF Intact
<1> QED
  BY <1>1, <1>2, <1>6 DEF Moved, more

LEMMA MovedAsExported ==
  /\ Moved(Written)
  /\ \A b : Moved(b) => AsExported(b)
<1>1. Moved(Written)
  BY WrittenAsExported DEF Moved, Intact
<1>2. ASSUME NEW b, Moved(b)
      PROVE  AsExported(b)
  BY <1>2, WrittenAsExported DEF Moved, Intact, AsExported
<1> QED
  BY <1>1, <1>2

\* A result of another target contradicts the catalog, one of another judgment
\* the verdicts; the rest of a shard is still what was exported.
LEMMA ShardFault ==
  ASSUME NEW i \in DOMAIN Written.shards, NEW b \in AlteredShard(Written, i)
  PROVE  ~Misleads(b)
<1> DEFINE w == Written
           I == DOMAIN w.shards
           given == DOMAIN w.shards[i].results
<1>1. /\ I = DOMAIN w.counts
      /\ \A k \in I : /\ {"campaign", "cases", "results"} = DOMAIN w.shards[k]
                      /\ \A x \in DOMAIN w.shards[k].results :
                           w.shards[k].results[x] = Result
      /\ {"shards", "counts", "catalog", "verdicts"} \subseteq DOMAIN w
      /\ \A c \in Cases : w.catalog.cases[c] = Entry
  BY WrittenAsExported
<1>2. CASE \E c : b = Lost(w, i, c)
  BY <1>2, LostIsMoved, MovedAsExported, AsExportedNeverMisleads
<1>3. CASE \E x \in (I \ {i}) \X w.shards[i].cases : b = Copied(w, i, x[1], x[2])
  <2>1. PICK x \in (I \ {i}) \X w.shards[i].cases : b = Copied(w, i, x[1], x[2])
    BY <1>3
  <2>2. x[1] \in DOMAIN Written.shards
    OBVIOUS
  <2> QED
    BY <2>1, <2>2, CopiedIsMoved, MovedAsExported, AsExportedNeverMisleads
<1>4. CASE \E x \in (I \ {i}) \X w.shards[i].cases :
             b = Lost(Copied(w, i, x[1], x[2]), i, x[2])
  <2>1. PICK x \in (I \ {i}) \X w.shards[i].cases :
               b = Lost(Copied(w, i, x[1], x[2]), i, x[2])
    BY <1>4
  <2>2. x[1] \in DOMAIN Written.shards
    OBVIOUS
  <2>3. Moved(Copied(w, i, x[1], x[2]))
    BY <2>2, CopiedIsMoved, MovedAsExported
  <2> QED
    BY <2>1, <2>3, LostIsMoved, MovedAsExported, AsExportedNeverMisleads
<1>5. CASE \/ b = [w EXCEPT !.shards[i].campaign = Other]
           \/ \E x \in given : b = [w EXCEPT !.shards[i].results = Drop(@, x)]
  <2>1. b.counts = w.counts /\ b.catalog = w.catalog
    BY <1>1, <1>5
  <2>2. \A k \in I \ {i} : b.shards[k] = w.shards[k]
    BY <1>1, <1>5
  <2>3. ASSUME NEW y \in DOMAIN b.shards[i].results
        PROVE  b.shards[i].results[y] = Result
    <3>1. CASE b = [w EXCEPT !.shards[i].campaign = Other]
      <4>1. b.shards[i].results = w.shards[i].results
        BY <1>1, <3>1
      <4> QED
        BY <1>1, <4>1
    <3>2. CASE \E x \in given : b = [w EXCEPT !.shards[i].results = Drop(@, x)]
      <4>1. PICK x \in given : b = [w EXCEPT !.shards[i].results = Drop(@, x)]
        BY <3>2
      <4>2. b.shards[i].results = Drop(w.shards[i].results, x)
        BY <1>1, <4>1
      <4>3. y \in given /\ b.shards[i].results[y] = w.shards[i].results[y]
        BY <4>2 DEF Drop
      <4> QED
        BY <1>1, <4>3
    <3> QED
      BY <1>5, <3>1, <3>2
  <2>4. AsExported(b)
    BY <1>1, <2>1, <2>2, <2>3 DEF AsExported
  <2> QED
    BY <2>4, AsExportedNeverMisleads
<1>6. CASE \E x \in given :
             \/ b = [w EXCEPT !.shards[i].results[x].target = Other]
             \/ b = [w EXCEPT !.shards[i].results[x].judgment = Opposite(@)]
             \/ b = [w EXCEPT !.shards[i].results[x].judgment = Opposite(@),
                              !.shards[i].results[x].observed = Opposite(@)]
  <2>1. PICK x \in given :
             \/ b = [w EXCEPT !.shards[i].results[x].target = Other]
             \/ b = [w EXCEPT !.shards[i].results[x].judgment = Opposite(@)]
             \/ b = [w EXCEPT !.shards[i].results[x].judgment = Opposite(@),
                              !.shards[i].results[x].observed = Opposite(@)]
    BY <1>6
  <2>2. b.counts = w.counts /\ b.catalog = w.catalog /\ b.verdicts = w.verdicts
    BY <1>1, <2>1
  <2> DEFINE old == w.shards[i].results
  <2>3. /\ DOMAIN old = given /\ old[x] = Result
        /\ \A y \in given : old[y] = Result
    BY <1>1
  <2>4. /\ \A k \in I \ {i} : b.shards[k] = w.shards[k]
        /\ \E r : /\ b.shards[i].results = [old EXCEPT ![x] = r]
                 /\ (r.target = Other \/ r.judgment = Missed)
    <3>1. CASE b = [w EXCEPT !.shards[i].results[x].target = Other]
      <4>1. b.shards = [w.shards EXCEPT ![i].results[x].target = Other]
        BY <1>1, <3>1
      <4>2. b.shards[i].results = [old EXCEPT ![x].target = Other]
        BY <1>1, <4>1
      <4>3. b.shards[i].results = [old EXCEPT ![x] = [Result EXCEPT !.target = Other]]
        BY <2>3, <4>2
      <4>4. [Result EXCEPT !.target = Other].target = Other
        BY DEF Result
      <4> QED
        BY <4>1, <4>3, <4>4
    <3>2. CASE b = [w EXCEPT !.shards[i].results[x].judgment = Opposite(@)]
      <4>1. b.shards = [w.shards EXCEPT ![i].results[x].judgment = Opposite(@)]
        BY <1>1, <3>2
      <4>2. b.shards[i].results = [old EXCEPT ![x].judgment = Opposite(@)]
        BY <1>1, <4>1
      <4>3. b.shards[i].results =
              [old EXCEPT ![x] = [Result EXCEPT !.judgment = Opposite(@)]]
        BY <2>3, <4>2
      <4>4. [Result EXCEPT !.judgment = Opposite(@)].judgment = Missed
        BY DEF Result, Opposite
      <4> QED
        BY <4>1, <4>3, <4>4
    <3>3. CASE b = [w EXCEPT !.shards[i].results[x].judgment = Opposite(@),
                             !.shards[i].results[x].observed = Opposite(@)]
      <4>1. b.shards = [w.shards EXCEPT ![i].results[x].judgment = Opposite(@),
                                        ![i].results[x].observed = Opposite(@)]
        BY <1>1, <3>3
      <4>2. b.shards[i].results = [old EXCEPT ![x].judgment = Opposite(@),
                                              ![x].observed = Opposite(@)]
        BY <1>1, <4>1
      <4>3. b.shards[i].results =
              [old EXCEPT ![x] = [Result EXCEPT !.judgment = Opposite(@),
                                                !.observed = Opposite(@)]]
        BY <2>3, <4>2
      <4>4. [Result EXCEPT !.judgment = Opposite(@), !.observed = Opposite(@)].judgment
              = Missed
        BY DEF Result, Opposite
      <4> QED
        BY <4>1, <4>3, <4>4
    <3> QED
      BY <2>1, <3>1, <3>2, <3>3
  <2>5. /\ DOMAIN b.shards[i].results = given
        /\ \A y \in given \ {x} : b.shards[i].results[y] = Result
        /\ \/ b.shards[i].results[x].target = Other
           \/ b.shards[i].results[x].judgment = Missed
    <3>1. PICK r : /\ b.shards[i].results = [old EXCEPT ![x] = r]
                   /\ (r.target = Other \/ r.judgment = Missed)
      BY <2>4
    <3>2. /\ DOMAIN b.shards[i].results = given
          /\ \A y \in given \ {x} : b.shards[i].results[y] = old[y]
          /\ b.shards[i].results[x] = r
      BY <2>3, <3>1
    <3> QED
      BY <2>3, <3>1, <3>2
  <2> HIDE DEF old
  <2> SUFFICES ASSUME NEW c \in VerdictRows(b) \cap Cases, NEW g \in Grid,
                      NEW l \in Locations, Replayable(b, l, c, g)
               PROVE  Judged(b, <<c, g>>) = Result /\ b.catalog.cases[c] = Entry
    BY DEF Misleads
  <2>6. b.catalog.cases[c] = Entry
    BY <1>1, <2>2
  <2> DEFINE h == b.verdicts.rows[c].href
  <2>7. /\ h \in I /\ <<c, g>> \in DOMAIN b.shards[h].results
        /\ g \in DOMAIN b.verdicts.rows[c].results
        /\ SameJudgment(b, c, g)
        /\ Judged(b, <<c, g>>).target = b.catalog.cases[c].definition
    BY <1>1, <2>2 DEF Replayable, EvidenceFits
  <2>8. CASE h = i /\ <<c, g>> = x
    <3>1. Judged(b, <<c, g>>) = b.shards[i].results[x]
      BY <2>8 DEF Judged
    <3>2. b.shards[i].results[x].target = Original
      BY <2>6, <2>7, <3>1 DEF Entry
    <3>3. b.verdicts.rows[c].results[g] = Met
      BY <2>2, <2>7, WrittenAsExported
    <3>4. b.shards[i].results[x].judgment = Met
      BY <2>7, <3>1, <3>3 DEF SameJudgment
    <3> QED
      BY <2>5, <3>2, <3>4, <2>8 DEF Original, Other, Met, Missed
  <2>9. CASE ~(h = i /\ <<c, g>> = x)
    <3>1. b.shards[h].results[<<c, g>>] = Result
      <4>1. CASE h = i
        <5>1. <<c, g>> \in given \ {x}
          BY <2>5, <2>7, <2>9, <4>1
        <5> HIDE DEF given, h
        <5> QED
          BY <2>5, <4>1, <5>1
      <4>2. CASE h # i
        <5>1. b.shards[h] = w.shards[h]
          BY <2>4, <2>7, <4>2
        <5>2. <<c, g>> \in DOMAIN w.shards[h].results
          BY <2>7, <5>1
        <5>3. w.shards[h].results[<<c, g>>] = Result
          <6> HIDE DEF w, h
          <6> QED
            BY <1>1, <2>7, <5>2
        <5> QED
          BY <5>1, <5>3
      <4> QED
        BY <4>1, <4>2
    <3> QED
      BY <2>6, <3>1 DEF Judged
  <2> QED
    BY <2>8, <2>9
<1> QED
  BY <1>2, <1>3, <1>4, <1>5, <1>6 DEF AlteredShard

LEMMA OneFault ==
  ASSUME NEW b, b = Written \/ b \in Altered(Written)
  PROVE  ~Misleads(b)
<1>1. CASE b = Written
  <2>1. AsExported(Written)
    BY WrittenAsExported DEF AsExported
  <2> QED
    BY <1>1, <2>1, AsExportedNeverMisleads
<1>2. CASE b \in {Rederived(Written)} \cup AlteredManifest(Written)
                   \cup AlteredVerdicts(Written) \cup AlteredFiles(Written)
  BY <1>2, OtherDocuments, AsExportedNeverMisleads
<1>3. CASE b \in AlteredCatalog(Written)
  BY <1>3, CatalogFault
<1>4. CASE \E i \in DOMAIN Written.shards : b \in AlteredShard(Written, i)
  BY <1>4, ShardFault
<1> QED
  BY <1>1, <1>2, <1>3, <1>4 DEF Altered

\* Until it is altered a bundle is the exporter's, and packing is over.
FInv ==
  /\ alterations \in Nat
  /\ bundle.state # "kept" => alterations = 0
  /\ bundle.state = "kept" =>
       /\ packed = N /\ Pending = 0
       /\ alterations = 0 => bundle = Written
       /\ alterations = 1 => bundle \in Altered(Written)

LEMMA FInvStep ==
  ASSUME FInv, IInv, BInv, [BundleNext]_<<vars, bundle, alterations>>
  PROVE  FInv'
<1>1. ASSUME UNCHANGED vars
      PROVE  Written' = Written /\ packed' = packed /\ Pending' = Pending /\ N' = N
  BY <1>1 DEF vars, Written, N, Pending, Cases, ShardFile, ShardOf, Counts,
              ResultsOfCases, CaseResults, Part
<1>2. CASE Packing
  <2>1. bundle' = bundle /\ alterations' = alterations /\ Next
    BY <1>2 DEF Packing
  <2>2. CASE bundle.state = "kept"
    <3>1. N \in Nat /\ packed \in 0..N
      BY InputTypes DEF IInv
    <3>2. ~Pack /\ ~Flush
      BY <2>2, <3>1 DEF FInv, Pack, Flush
    <3> QED
      BY <2>1, <3>2 DEF Next
  <2> QED
    BY <2>1, <2>2 DEF FInv
<1>3. CASE Export
  <2>1. UNCHANGED vars /\ alterations' = alterations /\ packed = N /\ Pending = 0
    BY <1>3 DEF Export
  <2>2. bundle.state # "kept"
    BY <1>3 DEF Export, NoBundle
  <2>3. bundle' = Written \/ bundle'.state # "kept"
    BY <1>3 DEF Export
  <2> QED
    BY <1>1, <2>1, <2>2, <2>3 DEF FInv
<1>4. CASE Alter
  <2>1. /\ UNCHANGED vars /\ alterations' = alterations + 1
        /\ bundle.state = "kept" /\ bundle' \in Altered(bundle)
    BY <1>4 DEF Alter
  <2>2. Keeps(bundle')
    BY <2>1, AlteredKeeps DEF BInv
  <2>3. bundle'.state = "kept"
    BY <2>2 DEF Keeps
  <2>4. alterations' \in Nat /\ alterations' # 0 /\ (alterations' = 1 => alterations = 0)
    BY <2>1 DEF FInv
  <2>5. alterations' = 1 => bundle' \in Altered(Written)
    BY <2>1, <2>4 DEF FInv
  <2>6. Altered(Written)' = Altered(Written')
    OBVIOUS
  <2> QED
    BY <1>1, <2>1, <2>3, <2>4, <2>5 DEF FInv
<1>5. CASE UNCHANGED <<vars, bundle, alterations>>
  BY <1>1, <1>5 DEF FInv
<1> QED
  BY <1>2, <1>3, <1>4, <1>5 DEF BundleNext

-----------------------------------------------------------------------------
(* Theorems about every bundle. *)

\* Whatever a bundle went through: if validation accepts it, every result it
\* records can be replayed and every case is shown.
THEOREM ValidBundlesAlwaysReplay == BundleSpec => []ValidBundlesReplay
<1>1. BundleInit => BInv /\ input \in Inputs
  BY DEF BundleInit, Init, BInv, NoBundle
<1>2. /\ BInv /\ input \in Inputs
      /\ [BundleNext]_<<vars, bundle, alterations>>
      => (BInv /\ input \in Inputs)'
  BY BInvStep, InputStays
<1>3. BInv => ValidBundlesReplay
  BY ValidReplays, ValidIsShown DEF BInv, Keeps, ValidBundlesReplay
<1> QED
  BY <1>1, <1>2, <1>3, PTL DEF BundleSpec

\* A bundle's steps are those of the packing or leave it alone, so that what is
\* proved of packing holds of bundles.
THEOREM BundlesArePacked == BundleSpec => Spec
<1>1. BundleInit => Init
  BY DEF BundleInit
<1>2. [BundleNext]_<<vars, bundle, alterations>> => [Next]_vars
  BY DEF BundleNext, Packing, Export, Alter
<1> QED
  BY <1>1, <1>2, PTL DEF BundleSpec, Spec

\* The export's own validation refuses no campaign with a result of every tool
\* for every case, whatever its cases' sizes and the limits.
THEOREM ExportsAreValid == BundleSpec => []ExportValidates
<1> DEFINE Inv == /\ input \in Inputs /\ BInv
                  /\ bundle.state = "refused" => ~FullGrid
<1>1. BundleInit => Inv
  BY DEF BundleInit, Init, BInv, NoBundle
<1>2. ASSUME Inv, IInv, [BundleNext]_<<vars, bundle, alterations>>
      PROVE  Inv'
  <2>1. input' = input /\ input' \in Inputs /\ BInv'
    BY <1>2, InputStays, BInvStep
  <2>2. FullGrid' = FullGrid
    BY <2>1 DEF FullGrid, Cases, N, CaseResults, Part
  <2>3. CASE Packing \/ UNCHANGED <<vars, bundle, alterations>>
    BY <1>2, <2>1, <2>2, <2>3 DEF Packing
  <2>4. CASE Export
    <3>1. Packed /\ bundle' = IF Valid(Written) THEN Written ELSE [state |-> "refused"]
      BY <1>2, <2>4 DEF Export, Packed
    <3>2. Written.state = "kept"
      BY <1>2, WrittenKeeps DEF Keeps
    <3>3. FullGrid => bundle'.state # "refused"
      BY <3>1, <3>2, ExportPasses
    <3> QED
      BY <2>1, <2>2, <3>3
  <2>5. CASE Alter
    <3>1. Keeps(bundle')
      BY <1>2, <2>5, AlteredKeeps DEF Alter, BInv
    <3> QED
      BY <2>1, <3>1 DEF Keeps
  <2> QED
    BY <1>2, <2>3, <2>4, <2>5 DEF BundleNext
<1>3. Inv => ExportValidates
  BY DEF ExportValidates, FullGrid
<1> QED
  BY <1>1, <1>2, <1>3, BundlesArePacked, IInvHolds, PTL DEF BundleSpec

\* Whatever was exported: a single fault in any document of a bundle makes a
\* replay fail or leaves its answer what it was.
THEOREM OneFaultIsNoticed == BundleSpec => []OneFaultNeverMisleads
<1>1. BundleInit => FInv /\ BInv /\ input \in Inputs
  BY DEF BundleInit, Init, FInv, BInv, NoBundle
<1>2. /\ FInv /\ BInv /\ input \in Inputs /\ IInv
      /\ [BundleNext]_<<vars, bundle, alterations>>
      => (FInv /\ BInv /\ input \in Inputs)'
  BY FInvStep, BInvStep, InputStays
<1>3. FInv => OneFaultNeverMisleads
  <2> SUFFICES ASSUME FInv, bundle.state = "kept", alterations <= 1
               PROVE  ~Misleads(bundle)
    BY DEF OneFaultNeverMisleads, Misleads
  <2>1. alterations = 0 \/ alterations = 1
    BY DEF FInv
  <2> QED
    BY <2>1, OneFault DEF FInv
<1> QED
  BY <1>1, <1>2, <1>3, BundlesArePacked, IInvHolds, PTL DEF BundleSpec

=============================================================================
