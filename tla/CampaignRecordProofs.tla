------------------------ MODULE CampaignRecordProofs ------------------------
(***************************************************************************)
(* Proofs about the records of campaigns: CampaignFiles, where one id's    *)
(* record and bundle are stored, and Aggregation, which makes records of   *)
(* records and metrics of both.                                            *)
(*                                                                         *)
(* Stores.  For any savers, exporters, records and failures, record and    *)
(* bundle are each written once, and a stored bundle is of the record.     *)
(* mkdir elects one writer for good, so that the file goes from absent to  *)
(* torn to one value and no further; an exporter holds nothing but the     *)
(* record the id already has.                                              *)
(*                                                                         *)
(* Aggregation.  For any tools, cases, judgments and order of events,      *)
(* every record has one fitting result for each of its cells, and an       *)
(* aggregate is still what aggregation makes of the campaigns it names.    *)
(* Flattening is recursive; facts about it are proved by induction in the  *)
(* form that a set of naturals has a least member.                         *)
(***************************************************************************)
EXTENDS CampaignFiles, Aggregation, WellFoundedInduction, SequenceTheorems,
        FiniteSetTheorems, TLAPS

Answers == {"none", "stored", "refused"}

RecordTypes ==
  /\ directory \in BOOLEAN
  /\ pc \in [Writers -> {"exists", "compare", "mkdir", "open", "write", "over"}]
  /\ answer \in [Writers -> Answers]

\* The process that made the directory is the only one that writes the file,
\* and it finds it as it left it.
OneWritesTheFile ==
  /\ file # Nothing => directory
  /\ \A w, v \in Writers :
       pc[w] \in {"open", "write"} /\ pc[v] \in {"open", "write"} => w = v
  /\ \A w \in Writers :
       /\ pc[w] \in {"open", "write"} => directory
       /\ pc[w] = "open" => file = Nothing
       /\ pc[w] = "write" => file = Torn
       /\ pc[w] = "compare" => file # Nothing

RecordInv == RecordTypes /\ OneWritesTheFile

BundleTypes ==
  /\ tree = [x \in Placers |-> tree[x]]
  /\ temporary = [x \in Placers |-> temporary[x]]
  /\ at \in [Placers -> {"build", "exists", "replace", "over"}]
  /\ told \in [Placers -> Answers]

\* What a process is about to put in place is the tree it was given.
PlacersHoldTheirTrees ==
  \A x \in Placers :
    /\ at[x] = "build" => told[x] = "none"
    /\ at[x] \in {"exists", "replace"} => temporary[x] = tree[x]

BundleInv == BundleTypes /\ PlacersHoldTheirTrees

\* An exporter of the record has got nothing, or what the file now holds.
HoldsTheRecord(x) ==
  /\ tree[x] # Nothing => Loadable /\ tree[x] = file
  /\ at[x] \in {"exists", "replace"} => tree[x] # Nothing
  /\ told[x] = "stored" => tree[x] # Nothing /\ destination = tree[x]

ExportersHoldTheRecord == \A x \in Exporters : HoldsTheRecord(x)

IInv == RecordInv /\ BundleInv /\ ExportersHoldTheRecord

-----------------------------------------------------------------------------
(* The record. *)

\* Saving and loading keep the record's invariant.
LEMMA RecordStep ==
  ASSUME RecordInv, Next
  PROVE  RecordInv'
<1> USE DEF RecordInv, RecordTypes, OneWritesTheFile, Goto, Tell, Answers
<1>1. CASE Load
  BY <1>1 DEF Load
<1>2. ASSUME NEW w \in Writers, Saver(w)
      PROVE  RecordInv'
  <2> USE CampaignStoreAssumption DEF Nothing, Torn
  <2>1. CASE Exists(w)
    BY <2>1 DEF Exists
  <2>2. CASE Compare(w)
    BY <2>2 DEF Compare
  <2>3. CASE Mkdir(w)
    <3>1. CASE directory
      BY <2>3, <3>1 DEF Mkdir
    <3>2. CASE ~directory
      BY <2>3, <3>2 DEF Mkdir
    <3> QED
      BY <3>1, <3>2
  <2>4. CASE Open(w)
    BY <2>4 DEF Open
  <2>5. CASE Write(w)
    BY <2>5 DEF Write
  <2>6. CASE Fail(w)
    BY <2>6 DEF Fail
  <2>7. CASE Retry(w)
    BY <2>7 DEF Retry
  <2> QED
    BY <1>2, <2>1, <2>2, <2>3, <2>4, <2>5, <2>6, <2>7 DEF Saver
<1> QED
  BY <1>1, <1>2 DEF Next


\* A record, once whole, is there for good.
LEMMA RecordStays ==
  ASSUME RecordInv, Next, Loadable
  PROVE  Loadable' /\ file' = file
BY DEF RecordInv, OneWritesTheFile, Loadable, Next, Saver, Load, Exists, Compare,
   Mkdir, Open, Write, Fail, Retry, Nothing, Torn

\* Each step of saving and loading is one of the write-once store, or none.
LEMMA RecordStepImplements ==
  ASSUME RecordInv, Next
  PROVE  [StoreContract!Next]_StoreContract!store
<1> DEFINE stored == IF file = Torn THEN Nothing ELSE file
<1>1. CASE Load
  <2>1. StoreContract!Load
    BY <1>1 DEF Load, StoreContract!Load
  <2> QED
    BY <2>1 DEF StoreContract!Next
<1>2. ASSUME NEW w \in Writers, Saver(w)
      PROVE  [StoreContract!Next]_StoreContract!store
  <2>0. SUFFICES ASSUME UNCHANGED loaded
                 PROVE  \/ UNCHANGED <<answer, stored>>
                        \/ \E said \in Answers : StoreContract!Answer(w, said)
    BY <1>2 DEF StoreContract!Next, StoreContract!store, Saver, Exists, Compare,
       Mkdir, Open, Write, Fail, Retry, Answers
  <2>1. CASE Exists(w)
    BY <2>1 DEF Exists
  <2>2. CASE Compare(w)
    <3>1. CASE file = Value[w]
      <4>1. StoreContract!Answer(w, "stored")
        BY <2>2, <3>1, CampaignStoreAssumption
        DEF Compare, Tell, StoreContract!Answer
      <4> QED
        BY <4>1 DEF Answers
    <3>2. CASE file # Value[w]
      <4>1. StoreContract!Answer(w, "refused")
        BY <2>2, <3>2 DEF Compare, Tell, StoreContract!Answer
      <4> QED
        BY <4>1 DEF Answers
    <3> QED
      BY <3>1, <3>2
  <2>3. CASE Mkdir(w)
    <3>1. CASE directory
      <4>1. StoreContract!Answer(w, "refused")
        BY <2>3, <3>1 DEF Mkdir, Tell, StoreContract!Answer
      <4> QED
        BY <4>1 DEF Answers
    <3>2. CASE ~directory
      BY <2>3, <3>2 DEF Mkdir
    <3> QED
      BY <3>1, <3>2
  <2>4. CASE Open(w)
    BY <2>4 DEF Open, RecordInv, OneWritesTheFile, Nothing, Torn
  <2>5. CASE Write(w)
    <3>1. StoreContract!Answer(w, "stored")
      BY <2>5, CampaignStoreAssumption
      DEF Write, Tell, StoreContract!Answer, RecordInv, OneWritesTheFile
    <3> QED
      BY <3>1 DEF Answers
  <2>6. CASE Fail(w)
    <3>1. StoreContract!Answer(w, "refused")
      BY <2>6 DEF Fail, Tell, StoreContract!Answer
    <3> QED
      BY <3>1 DEF Answers
  <2>7. CASE Retry(w)
    <3>1. StoreContract!Answer(w, "none")
      BY <2>7 DEF Retry, StoreContract!Answer
    <3> QED
      BY <3>1 DEF Answers
  <2> QED
    BY <1>2, <2>1, <2>2, <2>3, <2>4, <2>5, <2>6, <2>7 DEF Saver
<1> QED
  BY <1>1, <1>2 DEF Next

-----------------------------------------------------------------------------
(* The bundle. *)

\* Building, placing and loading keep the bundle's invariant.
LEMMA BundleStep ==
  ASSUME BundleInv, NEW x \in Placers,
         (\E t : Bundle!Build(x, t)) \/ Bundle!Exporter(x)
  PROVE  BundleInv'
<1> USE DEF BundleInv, BundleTypes, PlacersHoldTheirTrees, Answers, Bundle!Goto,
        Bundle!Tell
<1>1. CASE \E t : Bundle!Build(x, t)
  <2>1. PICK t : Bundle!Build(x, t)
    BY <1>1
  <2> QED
    BY <2>1 DEF Bundle!Build
<1>2. CASE Bundle!Exists(x)
  BY <1>2 DEF Bundle!Exists
<1>3. CASE Bundle!Replace(x)
  BY <1>3 DEF Bundle!Replace
<1>4. CASE Bundle!Fail(x)
  BY <1>4 DEF Bundle!Fail
<1>5. CASE Bundle!Retry(x)
  BY <1>5 DEF Bundle!Retry
<1> QED
  BY <1>1, <1>2, <1>3, <1>4, <1>5 DEF Bundle!Exporter


\* Each step of a process that places a bundle is one of the write-once store.
LEMMA BundleStepImplements ==
  ASSUME BundleInv, NEW x \in Placers,
         (\E t : Bundle!Build(x, t)) \/ Bundle!Exporter(x)
  PROVE  [Bundle!Contract!Next]_(Bundle!Contract!store)
<1> SUFFICES \/ UNCHANGED <<tree, destination, told, bundles>>
             \/ Bundle!Contract!Give(x)
             \/ \E said \in Answers : Bundle!Contract!Answer(x, said)
  BY DEF Bundle!Contract!Next, Bundle!Contract!store, Answers
<1>1. CASE \E t : Bundle!Build(x, t)
  <2>1. PICK t : Bundle!Build(x, t)
    BY <1>1
  <2>2. told[x] = "none" /\ tree' = [tree EXCEPT ![x] = t]
        /\ UNCHANGED <<destination, told, bundles>>
    BY <2>1 DEF Bundle!Build, BundleInv, PlacersHoldTheirTrees
  <2>3. tree'[x] = t
    BY <2>2 DEF BundleInv, BundleTypes
  <2> QED
    BY <2>2, <2>3 DEF Bundle!Contract!Give
<1>2. CASE Bundle!Exists(x)
  <2>1. CASE destination = Nothing
    BY <1>2, <2>1 DEF Bundle!Exists
  <2>2. CASE destination # Nothing
    <3>1. temporary[x] = tree[x]
      BY <1>2 DEF Bundle!Exists, BundleInv, PlacersHoldTheirTrees
    <3>2. CASE destination = temporary[x]
      <4>1. Bundle!Contract!Answer(x, "stored")
        BY <1>2, <2>2, <3>1, <3>2
        DEF Bundle!Exists, Bundle!Tell, Bundle!Contract!Answer
      <4> QED
        BY <4>1 DEF Answers
    <3>3. CASE destination # temporary[x]
      <4>1. Bundle!Contract!Answer(x, "refused")
        BY <1>2, <2>2, <3>3
        DEF Bundle!Exists, Bundle!Tell, Bundle!Contract!Answer
      <4> QED
        BY <4>1 DEF Answers
    <3> QED
      BY <3>2, <3>3
  <2> QED
    BY <2>1, <2>2
<1>3. CASE Bundle!Replace(x)
  <2>1. temporary[x] = tree[x]
    BY <1>3 DEF Bundle!Replace, BundleInv, PlacersHoldTheirTrees
  <2>2. CASE destination = Nothing
    <3>1. Bundle!Contract!Answer(x, "stored")
      BY <1>3, <2>1, <2>2 DEF Bundle!Replace, Bundle!Tell, Bundle!Contract!Answer
    <3> QED
      BY <3>1 DEF Answers
  <2>3. CASE destination # Nothing
    <3>1. Bundle!Contract!Answer(x, "refused")
      BY <1>3, <2>3 DEF Bundle!Replace, Bundle!Tell, Bundle!Contract!Answer
    <3> QED
      BY <3>1 DEF Answers
  <2> QED
    BY <2>2, <2>3
<1>4. CASE Bundle!Fail(x)
  <2>1. Bundle!Contract!Answer(x, "refused")
    BY <1>4 DEF Bundle!Fail, Bundle!Tell, Bundle!Contract!Answer
  <2> QED
    BY <2>1 DEF Answers
<1>5. CASE Bundle!Retry(x)
  <2>1. Bundle!Contract!Answer(x, "none")
    BY <1>5 DEF Bundle!Retry, Bundle!Contract!Answer
  <2> QED
    BY <2>1 DEF Answers
<1> QED
  BY <1>1, <1>2, <1>3, <1>4, <1>5 DEF Bundle!Exporter

-----------------------------------------------------------------------------
(* Both together. *)

\* Nobody saves or exports at first.
LEMMA InitKeeps ==
  ASSUME FilesInit
  PROVE  IInv
BY DEF FilesInit, Init, Bundle!Init, IInv, RecordInv, RecordTypes,
   OneWritesTheFile, BundleInv, BundleTypes, PlacersHoldTheirTrees, Answers,
   ExportersHoldTheRecord, HoldsTheRecord, Placers

\* A step is one of the store or one of a process at the bundle.
LEMMA FilesSteps ==
  ASSUME FilesNext
  PROVE  \/ Next /\ UNCHANGED bundle
         \/ Bundle!Load /\ UNCHANGED vars
         \/ \E x \in Placers :
              /\ (\E t : Bundle!Build(x, t)) \/ Bundle!Exporter(x)
              /\ UNCHANGED vars
BY DEF FilesNext, Placers, Export, ExportOther, Place

\* What an exporter has, or has had stored, stays the record.
LEMMA ExportersKeepTheRecord ==
  ASSUME IInv, FilesNext
  PROVE  ExportersHoldTheRecord'
<1> SUFFICES ASSUME NEW y \in Exporters
             PROVE  HoldsTheRecord(y)'
  BY DEF ExportersHoldTheRecord
<1>0. HoldsTheRecord(y) /\ y \in Placers /\ y \notin Others
  BY CampaignFilesAssumption DEF IInv, ExportersHoldTheRecord, Placers
<1>1. CASE Next /\ UNCHANGED bundle
  BY <1>0, <1>1, RecordStays DEF bundle, IInv, HoldsTheRecord
<1>2. CASE Bundle!Load /\ UNCHANGED vars
  BY <1>0, <1>2 DEF Bundle!Load, vars, Loadable, HoldsTheRecord
<1>3. CASE Export(y)
  BY <1>0, <1>3 DEF Export, Bundle!Build, Bundle!Goto, vars, Loadable, IInv,
     BundleInv, BundleTypes, PlacersHoldTheirTrees, HoldsTheRecord
<1>4. CASE Place(y)
  <2>0. UNCHANGED <<tree, vars>> /\ (Loadable' <=> Loadable)
    BY <1>4 DEF Place, Bundle!Exporter, Bundle!Exists, Bundle!Replace, Bundle!Fail,
       Bundle!Retry, vars, Loadable
  <2> USE <1>0, <1>4, <2>0 DEF Place, vars, Bundle!Goto, Bundle!Tell, IInv,
          BundleInv, BundleTypes, PlacersHoldTheirTrees, HoldsTheRecord
  <2>1. CASE Bundle!Exists(y)
    BY <2>1 DEF Bundle!Exists
  <2>2. CASE Bundle!Replace(y)
    BY <2>2 DEF Bundle!Replace
  <2>3. CASE Bundle!Fail(y)
    BY <2>3 DEF Bundle!Fail
  <2>4. CASE Bundle!Retry(y)
    BY <2>4 DEF Bundle!Retry
  <2> QED
    BY <2>1, <2>2, <2>3, <2>4 DEF Bundle!Exporter
<1>5. ASSUME NEW x \in Placers \ {y},
             (\E t : Bundle!Build(x, t)) \/ Bundle!Exporter(x), UNCHANGED vars
      PROVE  HoldsTheRecord(y)'
  <2>1. /\ tree'[y] = tree[y] /\ at'[y] = at[y] /\ told'[y] = told[y]
        /\ destination # Nothing => destination' = destination
    BY <1>0, <1>5 DEF Bundle!Exporter, Bundle!Build, Bundle!Exists, Bundle!Replace,
       Bundle!Fail, Bundle!Retry, Bundle!Goto, Bundle!Tell, IInv, BundleInv,
       BundleTypes
  <2> QED
    BY <1>0, <1>5, <2>1 DEF vars, Loadable, HoldsTheRecord
<1> QED
  BY <1>0, <1>1, <1>2, <1>3, <1>4, <1>5
  DEF FilesNext, Placers, Export, ExportOther, Place

\* Every step keeps the invariant.
LEMMA StepKeeps ==
  ASSUME IInv, [FilesNext]_<<vars, bundle>>
  PROVE  IInv'
<1>1. CASE UNCHANGED <<vars, bundle>>
  BY <1>1 DEF vars, bundle, IInv, RecordInv, RecordTypes, OneWritesTheFile,
     BundleInv, BundleTypes, PlacersHoldTheirTrees, ExportersHoldTheRecord,
     HoldsTheRecord, Loadable
<1>2. ASSUME FilesNext
      PROVE  IInv'
  <2>1. RecordInv'
    <3>1. CASE UNCHANGED vars
      BY <3>1 DEF vars, IInv, RecordInv, RecordTypes, OneWritesTheFile
    <3> QED
      BY <1>2, <3>1, RecordStep, FilesSteps DEF IInv
  <2>2. BundleInv'
    <3>1. CASE UNCHANGED <<tree, temporary, at, told>>
      BY <3>1 DEF IInv, BundleInv, BundleTypes, PlacersHoldTheirTrees
    <3> QED
      BY <1>2, <3>1, BundleStep, FilesSteps DEF IInv, bundle, Bundle!Load
  <2> QED
    BY <1>2, <2>1, <2>2, ExportersKeepTheRecord DEF IInv
<1> QED
  BY <1>1, <1>2

\* The types of the control variables of savers and exporters.
THEOREM TypesHold == FilesSafety => [](RecordTypes /\ BundleTypes)
<1>1. IInv => RecordTypes /\ BundleTypes
  BY DEF IInv, RecordInv, BundleInv
<1> QED
  BY InitKeeps, StepKeeps, <1>1, PTL DEF FilesSafety

\* A bundle an exporter was told is stored is of the record under the id, for
\* good: whoever saves, exports, races or dies.
THEOREM StoredBundleIsOfTheRecord == FilesSafety => []ExportedIsTheRecord
<1>1. IInv => ExportedIsTheRecord
  BY DEF IInv, ExportersHoldTheRecord, HoldsTheRecord, ExportedIsTheRecord
<1> QED
  BY InitKeeps, StepKeeps, <1>1, PTL DEF FilesSafety

\* save_campaign and load_campaign implement the write-once store, also beside
\* exporters.
THEOREM RecordsAreWriteOnce == FilesSafety => RecordIsWriteOnce
<1>1. FilesInit => StoreContract!Init
  BY DEF FilesInit, Init, StoreContract!Init, Nothing, Torn
<1>2. IInv /\ [FilesNext]_<<vars, bundle>> =>
        [StoreContract!Next]_StoreContract!store
  <2>1. ASSUME UNCHANGED vars
        PROVE  UNCHANGED StoreContract!store
    BY <2>1 DEF vars, StoreContract!store
  <2> QED
    BY <2>1, RecordStepImplements, FilesSteps DEF IInv
<1> QED
  BY InitKeeps, StepKeeps, <1>1, <1>2, PTL
  DEF FilesSafety, RecordIsWriteOnce, StoreContract!Spec

\* Exports and extractions implement the write-once store, also beside savers.
THEOREM BundlesAreWriteOnce == FilesSafety => BundleIsWriteOnce
<1>1. FilesInit => Bundle!Contract!Init
  BY DEF FilesInit, Bundle!Init, Bundle!Contract!Init
<1>2. IInv /\ [FilesNext]_<<vars, bundle>> =>
        [Bundle!Contract!Next]_(Bundle!Contract!store)
  <2>1. ASSUME UNCHANGED bundle
        PROVE  UNCHANGED Bundle!Contract!store
    BY <2>1 DEF bundle, Bundle!Contract!store
  <2>2. ASSUME Bundle!Load
        PROVE  Bundle!Contract!Next
    <3>1. Bundle!Contract!Load
      BY <2>2 DEF Bundle!Load, Bundle!Contract!Load
    <3> QED
      BY <3>1 DEF Bundle!Contract!Next
  <2> QED
    BY <2>1, <2>2, BundleStepImplements, FilesSteps DEF IInv
<1> QED
  BY InitKeeps, StepKeeps, <1>1, <1>2, PTL
  DEF FilesSafety, BundleIsWriteOnce, Bundle!BundleIsWriteOnce, Bundle!Contract!Spec

-----------------------------------------------------------------------------
(* Aggregation: induction over the naturals, and flattening. *)

Below == {p \in Nat \X Nat : p[1] < p[2]}

LEMMA BelowWellFounded == IsWellFoundedOn(Below, Nat)
BY NatLessThanWellFounded DEF OpToRel, Below

\* A set of naturals has a least member: induction, as a fact about sets.
LEMMA Least ==
  ASSUME NEW T, T \subseteq Nat, T # {}
  PROVE  \E n \in T : \A m \in T : n <= m
<1>1. PICK x \in T : \A y \in T : ~ (<<y, x>> \in Below)
  BY BelowWellFounded, WFMin
<1>2. ASSUME NEW m \in T PROVE x <= m
  <2>1. m \in Nat /\ x \in Nat
    OBVIOUS
  <2>2. ~(m < x)
    BY <1>1, <2>1 DEF Below
  <2> QED BY <2>1, <2>2
<1> QED BY <1>2

\* f flattens the first n of seqs, from left to right.
Flattens(f, seqs, n) ==
  f = [i \in 1..n |-> IF i = 1 THEN seqs[i] ELSE f[i - 1] \o seqs[i]]

\* Induction up to n, for a property given as the set it holds of.
LEMMA UpTo ==
  ASSUME NEW n \in Nat, NEW Good, 1 \in Good, \A m \in 2..n : m - 1 \in Good => m \in Good
  PROVE  \A m \in 1..n : m \in Good
<1> DEFINE T == {m \in 1..n : m \notin Good}
<1>1. SUFFICES ASSUME T # {} PROVE FALSE
  OBVIOUS
<1>2. T \subseteq Nat
  OBVIOUS
<1> HIDE DEF T
<1>3. PICK m \in T : \A k \in T : m <= k
  BY <1>1, <1>2, Least
<1> USE DEF T
<1>4. m \in 2..n /\ m - 1 \in 1..n /\ ~(m <= m - 1)
  BY <1>2
<1>5. m - 1 \in Good
  BY <1>3, <1>4
<1> QED BY <1>4, <1>5

\* FlattenSeq's recursive function exists, so that it is what its definition says.
LEMMA FlattenExists ==
  ASSUME NEW seqs, NEW n \in Nat \ {0}
  PROVE  \E f : Flattens(f, seqs, n)
<1> DEFINE Good == {m \in 1..n : \E f : Flattens(f, seqs, m)}
<1>1. 1 \in Good
  <2>1. Flattens([i \in 1..1 |-> seqs[1]], seqs, 1)
    BY DEF Flattens
  <2> QED BY <2>1
<1>2. ASSUME NEW m \in 2..n, m - 1 \in Good PROVE m \in Good
  <2>1. m - 1 \in 1..m /\ m - 1 # m /\ m # 1 /\ m \in 1..n
    OBVIOUS
  <2>2. PICK f : Flattens(f, seqs, m - 1)
    BY <1>2
  <2> DEFINE g == [i \in 1..m |-> IF i = m THEN f[m - 1] \o seqs[m] ELSE f[i]]
  <2>3. ASSUME NEW i \in 1..m
        PROVE  g[i] = IF i = 1 THEN seqs[i] ELSE g[i - 1] \o seqs[i]
    <3>1. CASE i = m
      BY <3>1, <2>1
    <3>2. CASE i # m /\ i = 1
      <4>1. f[1] = seqs[1]
        BY <2>1, <2>2, <3>2 DEF Flattens
      <4> QED BY <4>1, <3>2
    <3>3. CASE i # m /\ i # 1
      <4>1. i \in 1..(m - 1) /\ i - 1 \in 1..m /\ i - 1 # m
        BY <3>3
      <4>2. f[i] = f[i - 1] \o seqs[i]
        BY <4>1, <2>2, <3>3 DEF Flattens
      <4> QED BY <4>1, <4>2, <3>3
    <3> QED BY <3>1, <3>2, <3>3
  <2>4. g = [i \in 1..m |-> IF i = 1 THEN seqs[i] ELSE g[i - 1] \o seqs[i]]
    BY <2>3
  <2>5. Flattens(g, seqs, m)
    BY <2>4 DEF Flattens
  <2> QED BY <2>1, <2>5
<1> HIDE DEF Good
<1>3. n \in Good
  BY <1>1, <1>2, UpTo
<1> QED BY <1>3 DEF Good

LEMMA FlattenDef ==
  ASSUME NEW seqs, Len(seqs) \in Nat \ {0}
  PROVE  \E f : Flattens(f, seqs, Len(seqs)) /\ FlattenSeq(seqs) = f[Len(seqs)]
<1>1. \E f : Flattens(f, seqs, Len(seqs))
  BY FlattenExists
<1> QED BY <1>1 DEF FlattenSeq, Flattens

\* What a step of the flattening adds.
LEMMA FlattenStep ==
  ASSUME NEW seqs, NEW n \in Nat \ {0}, NEW f, Flattens(f, seqs, n)
  PROVE  /\ f[1] = seqs[1]
         /\ \A i \in 2..n : f[i] = f[i - 1] \o seqs[i]
<1>1. \A i \in 1..n : f[i] = IF i = 1 THEN seqs[i] ELSE f[i - 1] \o seqs[i]
  BY DEF Flattens
<1>2. 1 \in 1..n
  OBVIOUS
<1>3. f[1] = seqs[1]
  BY <1>1, <1>2
<1>4. ASSUME NEW i \in 2..n PROVE f[i] = f[i - 1] \o seqs[i]
  <2>1. i \in 1..n /\ i # 1
    OBVIOUS
  <2> QED BY <1>1, <2>1
<1> QED BY <1>3, <1>4

LEMMA ConcatRange ==
  ASSUME NEW S, NEW a \in Seq(S), NEW b \in Seq(S)
  PROVE  a \o b \in Seq(S) /\ Range(a \o b) = Range(a) \cup Range(b)
<1> DEFINE m == Len(a)  n == Len(b)
<1>1. /\ a \o b \in Seq(S) /\ Len(a \o b) = m + n /\ m \in Nat /\ n \in Nat
      /\ \A i \in 1..m + n : (a \o b)[i] = IF i <= m THEN a[i] ELSE b[i - m]
  BY ConcatProperties
<1>2. DOMAIN a = 1..m /\ DOMAIN b = 1..n /\ DOMAIN (a \o b) = 1..m + n
  BY <1>1
<1> HIDE DEF m, n
<1>3. \A i \in 1..m : i \in 1..m + n /\ (a \o b)[i] = a[i]
  BY <1>1
<1>4. \A i \in 1..n : i + m \in 1..m + n /\ (a \o b)[i + m] = b[i]
  BY <1>1
<1>5. \A i \in 1..m + n : i \in 1..m \/ (i - m \in 1..n /\ (i - m) + m = i)
  BY <1>1
<1>6. ASSUME NEW x \in Range(a \o b) PROVE x \in Range(a) \cup Range(b)
  <2>1. PICK i \in 1..m + n : x = (a \o b)[i]
    BY <1>2 DEF Range
  <2>2. CASE i \in 1..m
    BY <2>1, <2>2, <1>3, <1>2 DEF Range
  <2>3. CASE i - m \in 1..n /\ (i - m) + m = i
    BY <2>1, <2>3, <1>4, <1>2 DEF Range
  <2> QED BY <2>2, <2>3, <1>5
<1>7. ASSUME NEW x \in Range(a) PROVE x \in Range(a \o b)
  BY <1>3, <1>2 DEF Range
<1>8. ASSUME NEW x \in Range(b) PROVE x \in Range(a \o b)
  BY <1>4, <1>2 DEF Range
<1> QED BY <1>1, <1>6, <1>7, <1>8

\* Each element of a flattened sequence is one of a sequence it is made of.
FlatSoFar(f, seqs, S, m) ==
  /\ f[m] \in Seq(S)
  /\ Range(f[m]) = UNION {Range(seqs[i]) : i \in 1..m}

LEMMA FlattenSoFar ==
  ASSUME NEW S, NEW n \in Nat \ {0}, NEW seqs, \A i \in 1..n : seqs[i] \in Seq(S),
         NEW f, Flattens(f, seqs, n)
  PROVE  \A m \in 1..n : FlatSoFar(f, seqs, S, m)
<1> DEFINE Good == {m \in 1..n : FlatSoFar(f, seqs, S, m)}
<1>1. f[1] = seqs[1] /\ \A i \in 2..n : f[i] = f[i - 1] \o seqs[i]
  BY FlattenStep
<1>2. 1 \in Good
  <2>1. 1..1 = {1} /\ 1 \in 1..n
    OBVIOUS
  <2> QED BY <1>1, <2>1 DEF FlatSoFar
<1>3. ASSUME NEW m \in 2..n, m - 1 \in Good PROVE m \in Good
  <2>1. m \in 1..n /\ 1..m = (1..m - 1) \cup {m}
    OBVIOUS
  <2>2. f[m - 1] \in Seq(S) /\ seqs[m] \in Seq(S)
    BY <1>3, <2>1 DEF FlatSoFar
  <2>3. f[m] \in Seq(S) /\ Range(f[m]) = Range(f[m - 1]) \cup Range(seqs[m])
    <3>1. f[m] = f[m - 1] \o seqs[m]
      BY <1>1
    <3> HIDE DEF Good
    <3> QED BY <3>1, <2>2, ConcatRange
  <2> QED BY <2>1, <2>3, <1>3 DEF FlatSoFar
<1> HIDE DEF Good
<1>4. \A m \in 1..n : m \in Good
  BY <1>2, <1>3, UpTo
<1> QED BY <1>4 DEF Good

\* What a flattened sequence holds.
LEMMA FlattenRange ==
  ASSUME NEW S, NEW seqs \in Seq(Seq(S))
  PROVE  /\ FlattenSeq(seqs) \in Seq(S)
         /\ Range(FlattenSeq(seqs)) = UNION {Range(seqs[i]) : i \in 1..Len(seqs)}
<1>1. Len(seqs) \in Nat /\ \A i \in 1..Len(seqs) : seqs[i] \in Seq(S)
  BY ElementOfSeq, LenProperties
<1>2. CASE Len(seqs) = 0
  <2>1. seqs = << >>
    BY <1>2, EmptySeq
  <2>2. FlattenSeq(seqs) = << >>
    BY <1>2, <2>1 DEF FlattenSeq
  <2>3. Range(<< >>) = {}
    BY DEF Range
  <2> QED BY <1>2, <2>2, <2>3
<1>3. CASE Len(seqs) # 0
  <2>1. PICK f : Flattens(f, seqs, Len(seqs)) /\ FlattenSeq(seqs) = f[Len(seqs)]
    BY <1>1, <1>3, FlattenDef
  <2>2. FlatSoFar(f, seqs, S, Len(seqs))
    <3> DEFINE n == Len(seqs)
    <3>1. n \in Nat \ {0} /\ n \in 1..n /\ Flattens(f, seqs, n)
      BY <1>1, <1>3, <2>1
    <3>2. \A i \in 1..n : seqs[i] \in Seq(S)
      BY <1>1
    <3> HIDE DEF n
    <3>3. FlatSoFar(f, seqs, S, n)
      BY <3>1, <3>2, FlattenSoFar
    <3> QED BY <3>3 DEF n
  <2> QED BY <2>1, <2>2 DEF FlatSoFar
<1> QED BY <1>2, <1>3

-----------------------------------------------------------------------------
(* What aggregation does to results. *)

Results == [case : CaseSet, tool : Tools, status : Statuses]

SameCell(r, s) == r.case = s.case /\ r.tool = s.tool

\* At most one result for a case and a tool.
OncePerCell(results) ==
  \A k, l \in 1..Len(results) : SameCell(results[k], results[l]) => k = l

LEMMA ConcatOnce ==
  ASSUME NEW S, NEW a \in Seq(S), NEW b \in Seq(S), OncePerCell(a), OncePerCell(b),
         \A x \in Range(a), y \in Range(b) : ~ SameCell(x, y) /\ ~ SameCell(y, x)
  PROVE  OncePerCell(a \o b)
<1> DEFINE m == Len(a)  n == Len(b)
<1>1. /\ a \o b \in Seq(S) /\ Len(a \o b) = m + n /\ m \in Nat /\ n \in Nat
      /\ \A i \in 1..m + n : (a \o b)[i] = IF i <= m THEN a[i] ELSE b[i - m]
  BY ConcatProperties
<1>2. /\ \A i \in 1..m : a[i] \in Range(a)
      /\ \A i \in 1..n : b[i] \in Range(b)
  BY LenProperties DEF Range
<1>3. /\ \A k, l \in 1..m : SameCell(a[k], a[l]) => k = l
      /\ \A k, l \in 1..n : SameCell(b[k], b[l]) => k = l
  BY DEF OncePerCell
<1> HIDE DEF m, n
<1>4. \A i \in 1..m + n : \/ i \in 1..m /\ (a \o b)[i] = a[i]
                          \/ i - m \in 1..n /\ (a \o b)[i] = b[i - m]
  BY <1>1
<1>5. ASSUME NEW k \in 1..m + n, NEW l \in 1..m + n, SameCell((a \o b)[k], (a \o b)[l])
      PROVE  k = l
  <2>1. CASE k \in 1..m /\ (a \o b)[k] = a[k] /\ l \in 1..m /\ (a \o b)[l] = a[l]
    BY <2>1, <1>5, <1>3
  <2>2. CASE k \in 1..m /\ (a \o b)[k] = a[k] /\ l - m \in 1..n /\ (a \o b)[l] = b[l - m]
    BY <2>2, <1>5, <1>2
  <2>3. CASE k - m \in 1..n /\ (a \o b)[k] = b[k - m] /\ l \in 1..m /\ (a \o b)[l] = a[l]
    BY <2>3, <1>5, <1>2
  <2>4. CASE k - m \in 1..n /\ (a \o b)[k] = b[k - m] /\ l - m \in 1..n /\ (a \o b)[l] = b[l - m]
    <3>1. k - m = l - m
      BY <2>4, <1>5, <1>3
    <3> QED BY <3>1, <1>1
  <2> QED BY <1>4, <2>1, <2>2, <2>3, <2>4
<1> QED BY <1>1, <1>5 DEF OncePerCell

\* What makes the flattened sequence hold a cell once.
ApartAndOnce(seqs) ==
  /\ \A i \in 1..Len(seqs) : OncePerCell(seqs[i])
  /\ \A i, j \in 1..Len(seqs) : i # j =>
       \A x \in Range(seqs[i]), y \in Range(seqs[j]) : ~ SameCell(x, y)

\* Sequences of other cells, each with a cell once, flatten into one that has it once.
LEMMA FlattenOnce ==
  ASSUME NEW S, NEW seqs \in Seq(Seq(S)), ApartAndOnce(seqs)
  PROVE  OncePerCell(FlattenSeq(seqs))
<1> DEFINE n == Len(seqs)
<1>1. n \in Nat /\ \A i \in 1..n : seqs[i] \in Seq(S)
  BY ElementOfSeq, LenProperties
<1>2. CASE n = 0
  <2>1. seqs = << >>
    BY <1>2, EmptySeq
  <2>2. FlattenSeq(seqs) = << >>
    BY <1>2, <2>1 DEF FlattenSeq
  <2> QED BY <2>2 DEF OncePerCell
<1>3. CASE n # 0
  <2>1. PICK f : Flattens(f, seqs, n) /\ FlattenSeq(seqs) = f[n]
    BY <1>1, <1>3, FlattenDef
  <2>2. /\ \A i \in 1..n : OncePerCell(seqs[i])
        /\ \A i, j \in 1..n : i # j =>
             \A x \in Range(seqs[i]), y \in Range(seqs[j]) : ~ SameCell(x, y)
    BY DEF ApartAndOnce
  <2> HIDE DEF n
  <2>3. n \in Nat \ {0}
    BY <1>1, <1>3
  <2>4. \A m \in 1..n : FlatSoFar(f, seqs, S, m)
    BY <2>1, <2>3, <1>1, FlattenSoFar
  <2>5. f[1] = seqs[1] /\ \A i \in 2..n : f[i] = f[i - 1] \o seqs[i]
    BY <2>1, <2>3, FlattenStep
  <2> DEFINE Good == {m \in 1..n : OncePerCell(f[m])}
  <2>6. 1 \in Good
    BY <2>2, <2>3, <2>5
  <2>7. ASSUME NEW m \in 2..n, m - 1 \in Good PROVE m \in Good
    <3>1. m \in 1..n /\ m - 1 \in 1..n /\ m \notin 1..m - 1 /\ (\A i \in 1..m - 1 : i \in 1..n)
      BY <2>3
    <3>2. /\ f[m - 1] \in Seq(S) /\ Range(f[m - 1]) = UNION {Range(seqs[i]) : i \in 1..m - 1}
          /\ seqs[m] \in Seq(S) /\ f[m] = f[m - 1] \o seqs[m]
      BY <3>1, <2>4, <2>5, <1>1 DEF FlatSoFar
    <3>3. OncePerCell(f[m - 1]) /\ OncePerCell(seqs[m])
      BY <2>7, <2>2, <3>1
    <3>4. \A x \in Range(f[m - 1]), y \in Range(seqs[m]) : ~ SameCell(x, y) /\ ~ SameCell(y, x)
      BY <3>2, <3>1, <2>2
    <3> HIDE DEF Good
    <3>5. OncePerCell(f[m])
      BY <3>2, <3>3, <3>4, ConcatOnce
    <3> QED BY <3>1, <3>5 DEF Good
  <2> HIDE DEF Good
  <2>8. \A m \in 1..n : m \in Good
    BY <2>3, <2>6, <2>7, UpTo
  <2>9. n \in Good
    BY <2>3, <2>8
  <2> QED BY <2>9, <2>1 DEF Good
<1> QED BY <1>2, <1>3

\* The status t's result for c must have: the synthetic one, or a judgment.
Fitting(r) ==
  IF Structural(r.tool, r.case) = "none" THEN r.status \in Judgments \cup Unavailable
  ELSE r.status = Structural(r.tool, r.case)

\* What is true of the results of a campaign of some tools.
ResultsOf(results, tools) ==
  /\ results \in Seq(Results) /\ OncePerCell(results)
  /\ \A r \in Range(results) : r.tool \in tools /\ Fitting(r)
  /\ \A c \in CaseSet, t \in tools : \E r \in Range(results) : r.case = c /\ r.tool = t

\* What is true of one campaign.
SoundCampaign(campaign) ==
  /\ ResultsOf(campaign.results, campaign.tools)
  /\ IsFiniteSet(campaign.tools) /\ campaign.tools \subseteq campaign.expected
  /\ campaign.missing = campaign.expected \ campaign.tools
  /\ campaign.failed \subseteq campaign.tools
  /\ \A r \in Range(campaign.results) : r.tool \in campaign.failed =>
       r.status = Or(Structural(r.tool, r.case), "harness-error")
  /\ campaign.complete =>
       /\ campaign.missing = {} /\ campaign.failed = {}
       /\ \A r \in Range(campaign.results) : r.status \notin Unavailable
  /\ campaign.by = "job" => Expected \subseteq campaign.expected

LEMMA HarmedSays ==
  ASSUME NEW results \in Seq(Results)
  PROVE  Harmed(results) <=> \E r \in Range(results) : r.status \in Unavailable
<1>1. DOMAIN results = 1..Len(results)
  BY LenProperties
<1> QED BY <1>1 DEF Harmed, Range

LEMMA StructuralIs ==
  ASSUME NEW t, NEW c PROVE Structural(t, c) \in Synthetic \cup {"none"}
BY DEF Structural, Synthetic

\* Retained keeps the results of the measured tools, in their order and number.
LEMMA RetainedFacts ==
  ASSUME NEW campaign, SoundCampaign(campaign)
  PROVE  /\ ResultsOf(Retained(campaign), Measured(campaign))
         /\ Range(Retained(campaign)) =
              {r \in Range(campaign.results) : r.tool \in Measured(campaign)}
<1> DEFINE results == campaign.results
           n == Len(results)
           retained(r) == IF r.tool \in Measured(campaign) THEN <<r>> ELSE << >>
           seqs == [k \in 1..n |-> retained(results[k])]
<1>1. /\ results \in Seq(Results) /\ n \in Nat /\ DOMAIN results = 1..n
      /\ \A k \in 1..n : results[k] \in Results /\ results[k] \in Range(results)
  BY ElementOfSeq, LenProperties DEF SoundCampaign, ResultsOf, Range
<1>2. /\ \A r \in Results : <<r>> \in Seq(Results) /\ Len(<<r>>) = 1 /\ Range(<<r>>) = {r}
      /\ << >> \in Seq(Results) /\ Len(<< >>) = 0 /\ Range(<< >>) = {}
  BY DEF Range
<1>3. \A k \in 1..n : retained(results[k]) \in Seq(Results)
  BY <1>1, <1>2
<1>4. seqs \in Seq(Seq(Results)) /\ Len(seqs) = n
  BY <1>1, <1>3, LenProperties
<1>5. Retained(campaign) = FlattenSeq(seqs)
  BY DEF Retained
<1>6. \A k \in 1..n : seqs[k] = retained(results[k])
  OBVIOUS
<1>7. \A k \in 1..n : Range(seqs[k]) =
        IF results[k].tool \in Measured(campaign) THEN {results[k]} ELSE {}
  BY <1>1, <1>2, <1>6
<1>8. \A k \in 1..n : OncePerCell(seqs[k])
  BY <1>1, <1>2, <1>6 DEF OncePerCell
<1>9. \A k, l \in 1..n : SameCell(results[k], results[l]) => k = l
  BY DEF SoundCampaign, ResultsOf, OncePerCell
<1> HIDE DEF seqs, n
<1>10. ApartAndOnce(seqs)
  BY <1>4, <1>7, <1>8, <1>9 DEF ApartAndOnce
<1>11. OncePerCell(FlattenSeq(seqs))
  BY <1>4, <1>10, FlattenOnce
<1>12. /\ FlattenSeq(seqs) \in Seq(Results)
       /\ Range(FlattenSeq(seqs)) = UNION {Range(seqs[k]) : k \in 1..n}
  BY <1>4, FlattenRange
<1>13. Range(Retained(campaign)) = {r \in Range(results) : r.tool \in Measured(campaign)}
  <2>1. Range(results) = {results[k] : k \in 1..n}
    BY <1>1 DEF Range
  <2> HIDE DEF results
  <2>2. \A k \in 1..n : Range(seqs[k]) \subseteq {r \in Range(results) : r.tool \in Measured(campaign)}
    BY <2>1, <1>7
  <2>3. \A k \in 1..n : results[k].tool \in Measured(campaign) => results[k] \in Range(seqs[k])
    BY <1>7
  <2>4. ASSUME NEW r \in Range(results), r.tool \in Measured(campaign)
        PROVE  r \in Range(Retained(campaign))
    <3>1. PICK k \in 1..n : r = results[k]
      BY <2>1
    <3> QED BY <3>1, <2>3, <2>4, <1>5, <1>12
  <2> QED BY <2>2, <2>4, <1>5, <1>12
<1>14. \A c \in CaseSet, t \in Measured(campaign) :
         \E r \in Range(Retained(campaign)) : r.case = c /\ r.tool = t
  BY <1>13 DEF SoundCampaign, ResultsOf, Measured
<1> QED BY <1>5, <1>11, <1>12, <1>13, <1>14 DEF SoundCampaign, ResultsOf

\* A grid has one result for each case, which says what status says.
LEMMA GridFacts ==
  ASSUME NEW t \in Tools, NEW status \in [CaseSet -> Statuses],
         \A c \in CaseSet : Fitting([case |-> c, tool |-> t, status |-> status[c]])
  PROVE  /\ ResultsOf(Grid(t, status), {t})
         /\ \A r \in Range(Grid(t, status)) : r.tool = t /\ r.status = status[r.case]
<1> DEFINE n == Len(Cases)  grid == Grid(t, status)
<1>1. /\ n \in Nat /\ DOMAIN Cases = 1..n
      /\ \A i \in 1..n : Cases[i] \in CaseSet
      /\ \A i, j \in 1..n : Cases[i] = Cases[j] => i = j
  BY HeadlineMetricAssumption, LenProperties, ElementOfSeq DEF IsInjective
<1>2. \A c \in CaseSet : \E i \in 1..n : Cases[i] = c
  BY <1>1 DEF CaseSet, Range
<1>3. grid = [i \in 1..n |-> [case |-> Cases[i], tool |-> t, status |-> status[Cases[i]]]]
  BY DEF Grid
<1> HIDE DEF n, grid
<1>4. \A i \in 1..n : grid[i] \in Results
  BY <1>1, <1>3 DEF Results
<1>5. grid \in Seq(Results) /\ Len(grid) = n /\ DOMAIN grid = 1..n
  BY <1>1, <1>3, <1>4, LenProperties
<1>6. OncePerCell(grid)
  BY <1>1, <1>3, <1>5 DEF OncePerCell, SameCell
<1>7. \A r \in Range(grid) : /\ r.tool = t /\ r.status = status[r.case] /\ r.case \in CaseSet
                             /\ r = [case |-> r.case, tool |-> t, status |-> status[r.case]]
  BY <1>1, <1>3, <1>5 DEF Range
<1>8. \A r \in Range(grid) : Fitting(r)
  BY <1>7
<1>9. \A c \in CaseSet : \E r \in Range(grid) : r.case = c /\ r.tool = t
  <2>1. TAKE c \in CaseSet
  <2>2. PICK i \in 1..n : Cases[i] = c
    BY <1>2
  <2>3. grid[i] \in Range(grid) /\ grid[i].case = c /\ grid[i].tool = t
    BY <2>2, <1>3, <1>5 DEF Range
  <2> QED BY <2>3
<1>10. ResultsOf(grid, {t})
  BY <1>5, <1>6, <1>7, <1>8, <1>9 DEF ResultsOf
<1> QED BY <1>7, <1>10 DEF grid

\* The records there can be.
Campaigns ==
  [by : {"run", "job", "hand"},
   id : [kind : {"run", "preparation", "missing", "aggregate"}, of : SUBSET Nat,
         expected : SUBSET Tools],
   repository : Elsewhere \cup {"this"}, tools : SUBSET Tools, failed : SUBSET Tools,
   expected : SUBSET Tools, missing : SUBSET Tools, results : Seq(Results),
   complete : BOOLEAN]

\* What a run may answer fits.
LEMMA RunsFit ==
  ASSUME NEW t \in Tools, NEW f \in [CaseSet -> Judgments \cup Unavailable]
  PROVE  LET status == [c \in CaseSet |-> Or(Structural(t, c), f[c])]
         IN  /\ status \in [CaseSet -> Statuses]
             /\ \A c \in CaseSet : Fitting([case |-> c, tool |-> t, status |-> status[c]])
<1>1. \A c \in CaseSet : Or(Structural(t, c), f[c]) \in Statuses
  BY StructuralIs DEF Or, Statuses
<1>2. \A c \in CaseSet :
        Fitting([case |-> c, tool |-> t, status |-> Or(Structural(t, c), f[c])])
  BY StructuralIs DEF Or, Fitting, Synthetic
<1> QED BY <1>1, <1>2

\* A run's record is sound, whatever was judged.
LEMMA RunIsSound ==
  ASSUME Len(kept) \in Nat, NEW t \in Tools, NEW f \in [CaseSet -> Judgments \cup Unavailable],
         NEW repository \in Elsewhere \cup {"this"}
  PROVE  LET campaign == RunCampaign(t, repository,
                           [c \in CaseSet |-> Or(Structural(t, c), f[c])])
         IN  campaign \in Campaigns /\ SoundCampaign(campaign) /\ campaign.id.kind = "run"
<1> DEFINE status == [c \in CaseSet |-> Or(Structural(t, c), f[c])]
           campaign == RunCampaign(t, repository, status)
<1>1. /\ status \in [CaseSet -> Statuses]
      /\ \A c \in CaseSet : Fitting([case |-> c, tool |-> t, status |-> status[c]])
  BY RunsFit
<1> HIDE DEF status
<1>2. ResultsOf(Grid(t, status), {t})
  BY <1>1, GridFacts
<1>3. Grid(t, status) \in Seq(Results)
  BY <1>2 DEF ResultsOf
<1>4. campaign \in Campaigns
  BY <1>3 DEF RunCampaign, Campaigns, Next1, Harmed
<1>5. /\ campaign.results = Grid(t, status) /\ campaign.tools = {t} /\ campaign.failed = {}
      /\ campaign.expected = {t} /\ campaign.missing = {} /\ campaign.by = "run"
      /\ campaign.complete = ~ Harmed(Grid(t, status)) /\ campaign.id.kind = "run"
  BY DEF RunCampaign
<1>6. IsFiniteSet({t})
  BY FS_Singleton
<1>7. SoundCampaign(campaign)
  BY <1>2, <1>3, <1>5, <1>6, HarmedSays DEF SoundCampaign
<1> QED BY <1>4, <1>5, <1>7 DEF status

\* So is the record of a tool that was not prepared.
LEMMA PreparationFailureIsSound ==
  ASSUME Len(kept) \in Nat, NEW t \in Tools
  PROVE  /\ PreparationFailure(t) \in Campaigns /\ SoundCampaign(PreparationFailure(t))
         /\ PreparationFailure(t).id.kind = "preparation"
<1> DEFINE f == [c \in CaseSet |-> "harness-error"]
           status == [c \in CaseSet |-> Or(Structural(t, c), "harness-error")]
           campaign == PreparationFailure(t)
<1>1. f \in [CaseSet -> Judgments \cup Unavailable]
  BY DEF Unavailable
<1>2. status = [c \in CaseSet |-> Or(Structural(t, c), f[c])]
  OBVIOUS
<1>3. /\ status \in [CaseSet -> Statuses]
      /\ \A c \in CaseSet : Fitting([case |-> c, tool |-> t, status |-> status[c]])
  BY <1>1, <1>2, RunsFit
<1>4. \A c \in CaseSet : status[c] = Or(Structural(t, c), "harness-error")
  OBVIOUS
<1>5. campaign.results = Grid(t, status)
  BY DEF PreparationFailure
<1> HIDE DEF status, f
<1>6. /\ ResultsOf(Grid(t, status), {t})
      /\ \A r \in Range(Grid(t, status)) : r.tool = t /\ r.status = status[r.case]
  BY <1>3, GridFacts
<1>7. Grid(t, status) \in Seq(Results) /\ \A r \in Range(Grid(t, status)) : r.case \in CaseSet
  <2>1. Grid(t, status) \in Seq(Results)
    BY <1>6 DEF ResultsOf
  <2>2. Range(Grid(t, status)) \subseteq Results
    BY <2>1, LenProperties, ElementOfSeq DEF Range
  <2> QED BY <2>1, <2>2 DEF Results
<1>8. campaign \in Campaigns
  <2>1. campaign.results \in Seq(Results)
    BY <1>5, <1>7
  <2> QED BY <2>1 DEF PreparationFailure, Campaigns, Next1
<1>9. /\ campaign.tools = {t} /\ campaign.failed = {t} /\ campaign.id.kind = "preparation"
      /\ campaign.expected = {t} /\ campaign.missing = {} /\ campaign.by = "run"
      /\ campaign.complete = FALSE
  BY DEF PreparationFailure
<1>10. IsFiniteSet({t})
  BY FS_Singleton
<1>11. SoundCampaign(campaign)
  BY <1>4, <1>5, <1>6, <1>7, <1>9, <1>10 DEF SoundCampaign
<1> QED BY <1>8, <1>9, <1>11

\* So is that of a run of which nothing came.
LEMMA MissingIsSound ==
  ASSUME Len(kept) \in Nat
  PROVE  /\ MissingCampaign \in Campaigns /\ SoundCampaign(MissingCampaign)
         /\ MissingCampaign.id.kind = "missing"
<1>1. << >> \in Seq(Results) /\ Range(<< >>) = {} /\ OncePerCell(<< >>)
  BY DEF Range, OncePerCell
<1>2. IsFiniteSet({})
  BY FS_EmptySet
<1>3. ResultsOf(<< >>, {})
  BY <1>1 DEF ResultsOf
<1>4. SoundCampaign(MissingCampaign)
  BY <1>1, <1>2, <1>3 DEF SoundCampaign, MissingCampaign
<1>5. MissingCampaign \in Campaigns
  BY <1>1, AggregationAssumption DEF MissingCampaign, Campaigns, Next1
<1> QED BY <1>4, <1>5 DEF MissingCampaign

KeptSound ==
  /\ kept \in Seq(Campaigns)
  /\ \A i \in 1..Len(kept) : SoundCampaign(kept[i])

\* What the campaigns named by inputs contribute.
Contributed(j) == {r \in Range(kept[j].results) : r.tool \in Measured(kept[j])}

LEMMA FiniteImage ==
  ASSUME NEW n \in Nat, NEW f, \A i \in 1..n : IsFiniteSet(f[i])
  PROVE  IsFiniteSet(UNION {f[i] : i \in 1..n})
<1> DEFINE S == {f[i] : i \in 1..n}  g == [i \in 1..n |-> f[i]]
<1>1. g \in Surjection(1..n, S)
  BY DEF Surjection
<1>2. IsFiniteSet(1..n)
  <2>1. 1 \in Int /\ n \in Int
    OBVIOUS
  <2> HIDE DEF S, g
  <2> QED BY <2>1, FS_Interval
<1>3. IsFiniteSet(S)
  <2> HIDE DEF S, g
  <2> QED BY <1>1, <1>2, FS_Surjection
<1>4. \A T \in S : IsFiniteSet(T)
  OBVIOUS
<1> HIDE DEF S
<1>5. IsFiniteSet(UNION S)
  BY <1>3, <1>4, FS_UNION
<1> QED BY <1>5 DEF S

\* The results of an aggregate are those contributed, each once.
LEMMA AggregateResults ==
  ASSUME KeptSound, NEW inputs \in Seq(1..Len(kept)), Acceptable(inputs)
  PROVE  LET results == FlattenSeq([i \in 1..Len(inputs) |-> Retained(kept[inputs[i]])])
             tools == UNION {Measured(kept[inputs[i]]) : i \in 1..Len(inputs)}
         IN  /\ ResultsOf(results, tools) /\ IsFiniteSet(tools)
             /\ Range(results) = UNION {Contributed(j) : j \in Range(inputs)}
<1> DEFINE n == Len(inputs)
           seqs == [i \in 1..n |-> Retained(kept[inputs[i]])]
           measured == [i \in 1..n |-> Measured(kept[inputs[i]])]
           tools == UNION {measured[i] : i \in 1..n}
<1>1. /\ n \in Nat /\ DOMAIN inputs = 1..n
      /\ \A i \in 1..n : inputs[i] \in 1..Len(kept)
  BY LenProperties, ElementOfSeq
<1>2. \A i \in 1..n : SoundCampaign(kept[inputs[i]])
  BY <1>1 DEF KeptSound
<1>3. \A i \in 1..n : /\ ResultsOf(seqs[i], measured[i])
                      /\ Range(seqs[i]) = Contributed(inputs[i])
  BY <1>2, RetainedFacts DEF Contributed
<1>4. \A i, j \in 1..n : i # j => measured[i] \cap measured[j] = {}
  BY DEF Acceptable
<1>5. \A i \in 1..n : IsFiniteSet(measured[i])
  <2>1. \A i \in 1..n : /\ IsFiniteSet(kept[inputs[i]].tools)
                        /\ measured[i] \in SUBSET kept[inputs[i]].tools
    BY <1>2 DEF SoundCampaign, Measured
  <2> QED BY <2>1, FS_Subset
<1>6. DOMAIN seqs = 1..n
  OBVIOUS
<1>7. \A i \in 1..n : seqs[i] \in Seq(Results)
  BY <1>3 DEF ResultsOf
<1>8. seqs \in Seq(Seq(Results)) /\ Len(seqs) = n
  BY <1>1, <1>7, LenProperties
<1>9. tools = UNION {Measured(kept[inputs[i]]) : i \in 1..n}
  OBVIOUS
<1>10. seqs = [i \in 1..Len(inputs) |-> Retained(kept[inputs[i]])]
  OBVIOUS
<1> HIDE DEF seqs, measured, n
<1>11. ApartAndOnce(seqs)
  <2>1. \A i \in 1..n : OncePerCell(seqs[i]) /\ \A r \in Range(seqs[i]) : r.tool \in measured[i]
    BY <1>3 DEF ResultsOf
  <2>2. ASSUME NEW i \in 1..n, NEW j \in 1..n, i # j,
               NEW x \in Range(seqs[i]), NEW y \in Range(seqs[j])
        PROVE  ~ SameCell(x, y)
    <3>1. x.tool \in measured[i] /\ y.tool \in measured[j]
      BY <2>1
    <3>2. measured[i] \cap measured[j] = {}
      BY <1>4, <2>2
    <3> QED BY <3>1, <3>2 DEF SameCell
  <2> QED BY <2>1, <2>2, <1>8 DEF ApartAndOnce
<1> DEFINE results == FlattenSeq(seqs)
<1>12. /\ results \in Seq(Results)
       /\ Range(results) = UNION {Range(seqs[i]) : i \in 1..n}
  BY <1>8, FlattenRange
<1>13. OncePerCell(results)
  BY <1>8, <1>11, FlattenOnce
<1> HIDE DEF results
<1>14. \A r \in Range(results) : r.tool \in tools /\ Fitting(r)
  <2>1. \A i \in 1..n : \A r \in Range(seqs[i]) : r.tool \in measured[i] /\ Fitting(r)
    BY <1>3 DEF ResultsOf
  <2> QED BY <2>1, <1>12
<1>15. \A c \in CaseSet, t \in tools : \E r \in Range(results) : r.case = c /\ r.tool = t
  <2>1. TAKE c \in CaseSet, t \in tools
  <2>2. PICK i \in 1..n : t \in measured[i]
    OBVIOUS
  <2>3. \E r \in Range(seqs[i]) : r.case = c /\ r.tool = t
    BY <2>2, <1>3 DEF ResultsOf
  <2> QED BY <2>3, <1>12
<1>16. ResultsOf(results, tools)
  BY <1>12, <1>13, <1>14, <1>15 DEF ResultsOf
<1>17. IsFiniteSet(tools)
  BY <1>1, <1>5, FiniteImage
<1>18. Range(results) = UNION {Contributed(j) : j \in Range(inputs)}
  <2>1. Range(inputs) = {inputs[i] : i \in 1..n}
    BY <1>1 DEF Range
  <2>2. \A i \in 1..n : Range(seqs[i]) = Contributed(inputs[i])
    BY <1>3
  <2> QED BY <2>1, <2>2, <1>12
<1> QED BY <1>9, <1>10, <1>16, <1>17, <1>18 DEF results, n

\* Aggregation makes a sound record of sound records.
LEMMA AggregateIsSound ==
  ASSUME KeptSound, NEW inputs \in Seq(1..Len(kept)), inputs # << >>, Acceptable(inputs),
         NEW by \in {"job", "hand"}, NEW declared \in SUBSET Tools,
         by = "job" => Expected \subseteq declared
  PROVE  LET campaign == Aggregate(by, inputs, declared)
         IN  /\ campaign \in Campaigns /\ SoundCampaign(campaign)
             /\ campaign.by = by /\ campaign.id.kind = "aggregate"
             /\ campaign.id.of = Range(inputs)
             /\ campaign.repository = kept[inputs[1]].repository
             /\ Range(campaign.results) = UNION {Contributed(j) : j \in Range(inputs)}
<1> DEFINE n == Len(inputs)
           campaign == Aggregate(by, inputs, declared)
           expected == declared \cup UNION {kept[inputs[i]].expected : i \in 1..n}
           tools == UNION {Measured(kept[inputs[i]]) : i \in 1..n}
           results == FlattenSeq([i \in 1..n |-> Retained(kept[inputs[i]])])
<1>1. /\ n \in Nat /\ DOMAIN inputs = 1..n /\ 1 \in 1..n
      /\ \A i \in 1..n : inputs[i] \in 1..Len(kept)
  BY LenProperties, ElementOfSeq, EmptySeq
<1>2. Len(kept) \in Nat
  BY LenProperties DEF KeptSound
<1>3. \A i \in 1..n : SoundCampaign(kept[inputs[i]]) /\ kept[inputs[i]] \in Campaigns
  BY <1>1, ElementOfSeq DEF KeptSound
<1>4. /\ ResultsOf(results, tools) /\ IsFiniteSet(tools)
      /\ Range(results) = UNION {Contributed(j) : j \in Range(inputs)}
  BY AggregateResults
<1>5. /\ campaign.by = by /\ campaign.id.kind = "aggregate" /\ campaign.id.of = Range(inputs)
      /\ campaign.repository = kept[inputs[1]].repository
      /\ campaign.tools = tools /\ campaign.failed = {} /\ campaign.expected = expected
      /\ campaign.missing = expected \ tools /\ campaign.results = results
      /\ campaign.complete = (expected \ tools = {} /\ ~ Harmed(results))
  BY DEF Aggregate, Missing
<1>6. \A i \in 1..n : /\ kept[inputs[i]].expected \subseteq Tools
                      /\ Measured(kept[inputs[i]]) \subseteq kept[inputs[i]].expected
  BY <1>3 DEF SoundCampaign, Campaigns, Measured
<1>7. expected \subseteq Tools /\ tools \subseteq expected
  BY <1>6
<1>8. results \in Seq(Results)
  BY <1>4 DEF ResultsOf
<1>9. Range(inputs) \subseteq Nat
  BY <1>1, <1>2 DEF Range
<1>10. kept[inputs[1]].repository \in Elsewhere \cup {"this"}
  BY <1>1, <1>3 DEF Campaigns
<1>11. campaign = [by |-> by, id |-> [kind |-> "aggregate", of |-> Range(inputs), expected |-> expected],
       repository |-> kept[inputs[1]].repository, tools |-> tools, failed |-> {},
       expected |-> expected, missing |-> expected \ tools, results |-> results,
       complete |-> (expected \ tools = {} /\ ~ Harmed(results))]
  BY DEF Aggregate, Missing
<1> HIDE DEF campaign, expected, tools, results
<1>12. campaign \in Campaigns
  BY <1>7, <1>8, <1>9, <1>10, <1>11 DEF Campaigns
<1>13. by = "job" => Expected \subseteq expected
  BY DEF expected
<1>14. SoundCampaign(campaign)
  BY <1>4, <1>5, <1>7, <1>8, <1>13, HarmedSays DEF SoundCampaign
<1> QED BY <1>4, <1>5, <1>12, <1>14 DEF campaign

Increasing(s) == \A i, j \in DOMAIN s : i < j => s[i] < s[j]

\* An injection of as many numbers as S has members enumerates S.
LEMMA EnumerationFacts ==
  ASSUME NEW S, IsFiniteSet(S), NEW s \in SetToSeqs(S)
  PROVE  /\ s \in Seq(S) /\ Len(s) = Cardinality(S) /\ Range(s) = S
         /\ DOMAIN s = 1..Len(s) /\ Len(s) \in Nat
         /\ \A i, j \in 1..Len(s) : i # j => s[i] # s[j]
<1> DEFINE n == Cardinality(S)
<1>1. n \in Nat
  BY FS_CardinalityType
<1>2. s \in [1..n -> S] /\ \A i, j \in 1..n : i # j => s[i] # s[j]
  BY DEF SetToSeqs
<1> HIDE DEF n
<1>3. s \in Injection(1..n, S)
  BY <1>2 DEF Injection, IsInjective
<1>4. IsFiniteSet(1..n) /\ Cardinality(1..n) = n
  <2>1. 1 \in Int /\ n \in Int
    BY <1>1
  <2> QED BY <2>1, <1>1, FS_Interval
<1>5. s \in Surjection(1..n, S)
  BY <1>3, <1>4, FS_Injection DEF n
<1>6. Range(s) = S
  BY <1>2, <1>5 DEF Surjection, Range
<1>7. s \in Seq(S) /\ Len(s) = n /\ DOMAIN s = 1..n
  BY <1>1, <1>2
<1> QED BY <1>1, <1>2, <1>6, <1>7 DEF n

\* A set of numbers is enumerated upwards in one way.
LEMMA SortedOnce ==
  ASSUME NEW S, S \subseteq Nat, IsFiniteSet(S), NEW s \in SetToSeqs(S), NEW u \in SetToSeqs(S),
         Increasing(s), Increasing(u)
  PROVE  s = u
<1> DEFINE n == Len(s)
<1>1. /\ n \in Nat /\ s \in Seq(S) /\ u \in Seq(S) /\ Len(u) = n
      /\ DOMAIN s = 1..n /\ DOMAIN u = 1..n /\ Range(s) = S /\ Range(u) = S
      /\ \A i, j \in 1..n : i # j => s[i] # s[j] /\ u[i] # u[j]
  BY EnumerationFacts
<1>2. \A i \in 1..n : s[i] \in Nat /\ u[i] \in Nat /\ s[i] \in S /\ u[i] \in S
  BY <1>1, ElementOfSeq
<1>3. \A i, j \in 1..n : i < j => s[i] < s[j] /\ u[i] < u[j]
  BY <1>1 DEF Increasing
<1>4. \A x \in S : (\E j \in 1..n : s[j] = x) /\ (\E j \in 1..n : u[j] = x)
  BY <1>1 DEF Range
<1> HIDE DEF n
<1> DEFINE T == {i \in 1..n : s[i] # u[i]}
<1>5. T = {}
  <2>1. SUFFICES ASSUME T # {} PROVE FALSE
    OBVIOUS
  <2>2. T \subseteq Nat
    BY <1>1
  <2> HIDE DEF T
  <2>3. PICK i \in T : \A k \in T : i <= k
    BY <2>1, <2>2, Least
  <2>4. i \in 1..n /\ s[i] # u[i] /\ i \in Nat
    BY <1>1 DEF T
  <2>5. \A k \in 1..n : k < i => s[k] = u[k]
    <3>1. ASSUME NEW k \in 1..n, k < i, s[k] # u[k] PROVE FALSE
      <4>1. k \in T
        BY <3>1 DEF T
      <4> QED BY <4>1, <2>3, <3>1, <2>4, <1>1
    <3> QED BY <3>1
  <2>6. PICK j \in 1..n : u[j] = s[i]
    BY <1>2, <1>4, <2>4
  <2>7. PICK k \in 1..n : s[k] = u[i]
    BY <1>2, <1>4, <2>4
  <2>8. i < j
    <3>1. j # i
      BY <2>4, <2>6
    <3>2. ASSUME j < i PROVE FALSE
      BY <3>2, <2>5, <2>6, <2>4, <1>1
    <3> QED BY <3>1, <3>2, <2>4, <1>1
  <2>9. i < k
    <3>1. k # i
      BY <2>4, <2>7
    <3>2. ASSUME k < i PROVE FALSE
      BY <3>2, <2>5, <2>7, <2>4, <1>1
    <3> QED BY <3>1, <3>2, <2>4, <1>1
  <2>10. u[i] < u[j] /\ s[i] < s[k]
    BY <2>4, <2>8, <2>9, <1>3
  <2>11. u[i] < s[i] /\ s[i] < u[i]
    BY <2>10, <2>6, <2>7
  <2> QED BY <2>11, <2>4, <1>2
<1>6. \A i \in 1..n : s[i] = u[i]
  BY <1>5
<1> QED BY <1>1, <1>6, SeqEqual DEF n

\* What by declares as expected.
Declared(by) == IF by = "job" THEN Expected ELSE {}

\* An aggregate is still what aggregation makes of the campaigns it names.
FromEarlier(i) ==
  kept[i].id.kind = "aggregate" =>
    /\ kept[i].id.of \subseteq 1..i - 1
    /\ kept[i].by \in {"job", "hand"}
    /\ \E inputs \in SetToSeqs(kept[i].id.of) :
         /\ inputs # << >> /\ Acceptable(inputs)
         /\ kept[i] = Aggregate(kept[i].by, inputs, Declared(kept[i].by))
         /\ kept[i].by = "job" => Increasing(inputs)

AggregationInv ==
  /\ KeptSound
  /\ \A i \in 1..Len(kept) : FromEarlier(i)
  /\ artifact \in [Expected -> 0..Len(kept)]

LEMMA EnumerationOf ==
  ASSUME NEW S, NEW inputs \in Seq(S),
         \A i, j \in 1..Len(inputs) : i # j => inputs[i] # inputs[j]
  PROVE  inputs \in SetToSeqs(Range(inputs))
<1> DEFINE n == Len(inputs)
<1>1. n \in Nat /\ DOMAIN inputs = 1..n /\ inputs \in [1..n -> Range(inputs)]
  BY LenProperties DEF Range
<1>2. \A i, j \in 1..n : i # j => inputs[i] # inputs[j]
  OBVIOUS
<1> HIDE DEF n
<1>3. inputs \in Bijection(1..n, Range(inputs))
  BY <1>1, <1>2 DEF Bijection, Injection, Surjection, IsInjective, Range
<1>4. Cardinality(Range(inputs)) = n
  BY <1>1, <1>3, FS_CountingElements DEF ExistsBijection
<1> QED BY <1>1, <1>2, <1>4 DEF SetToSeqs

\* What aggregation makes of what it reads.
AggregateFrom(by, inputs, expected, repository, tools, results) ==
  [by |-> by, id |-> [kind |-> "aggregate", of |-> Range(inputs), expected |-> expected],
   repository |-> repository, tools |-> tools, failed |-> {},
   expected |-> expected, missing |-> expected \ tools, results |-> results,
   complete |-> (expected \ tools = {} /\ ~ Harmed(results))]

\* Later campaigns change nothing for earlier ones.
LEMMA AggregateStays ==
  ASSUME NEW n \in Nat, NEW inputs \in Seq(1..n), inputs # << >>, NEW by, NEW declared,
         \A j \in 1..n : kept'[j] = kept[j]
  PROVE  /\ Aggregate(by, inputs, declared)' = Aggregate(by, inputs, declared)
         /\ Acceptable(inputs)' <=> Acceptable(inputs)
<1> DEFINE m == Len(inputs)
           expected == UNION {kept[inputs[i]].expected : i \in 1..m}
           tools == UNION {Measured(kept[inputs[i]]) : i \in 1..m}
           retained == [i \in 1..m |-> Retained(kept[inputs[i]])]
           repository == kept[inputs[1]].repository
<1>1. m \in Nat /\ 1 \in 1..m /\ \A i \in 1..m : inputs[i] \in 1..n
  BY ElementOfSeq, LenProperties, EmptySeq
<1>2. \A i \in 1..m : kept'[inputs[i]] = kept[inputs[i]]
  BY <1>1
<1>3. Aggregate(by, inputs, declared)
        = AggregateFrom(by, inputs, declared \cup expected, repository, tools, FlattenSeq(retained))
  BY DEF Aggregate, Missing, AggregateFrom
<1>4. Aggregate(by, inputs, declared)'
        = AggregateFrom(by, inputs, declared \cup expected', repository', tools', FlattenSeq(retained'))
  BY DEF Aggregate, Missing, AggregateFrom
<1>5. /\ expected' = UNION {kept'[inputs[i]].expected : i \in 1..m}
      /\ tools' = UNION {Measured(kept'[inputs[i]]) : i \in 1..m}
      /\ retained' = [i \in 1..m |-> Retained(kept'[inputs[i]])]
      /\ repository' = kept'[inputs[1]].repository
  BY DEF Measured, Retained
<1> HIDE DEF m
<1>6. expected' = expected /\ tools' = tools /\ retained' = retained /\ repository' = repository
  BY <1>1, <1>2, <1>5
<1>7. Aggregate(by, inputs, declared)' = Aggregate(by, inputs, declared)
  <2> HIDE DEF expected, tools, retained, repository
  <2> QED BY <1>3, <1>4, <1>6
<1>8. Acceptable(inputs)' <=> Acceptable(inputs)
  BY <1>1, <1>2 DEF Acceptable, m
<1> QED BY <1>7, <1>8

LEMMA AggregationInitKeeps == AggregationInit => AggregationInv
<1> SUFFICES ASSUME AggregationInit PROVE AggregationInv
  OBVIOUS
<1>1. kept = << >> /\ kept \in Seq(Campaigns) /\ Len(kept) = 0
  BY DEF AggregationInit
<1>2. artifact \in [Expected -> 0..Len(kept)]
  BY <1>1 DEF AggregationInit, NoCampaign
<1> QED BY <1>1, <1>2 DEF AggregationInv, KeptSound

\* What an aggregate is made of stays what it was.
LEMMA EarlierStays ==
  ASSUME NEW n \in Nat, NEW i \in 1..n, FromEarlier(i), \A j \in 1..n : kept'[j] = kept[j]
  PROVE  FromEarlier(i)'
<1>1. FromEarlier(i) /\ kept'[i] = kept[i]
  OBVIOUS
<1>2. SUFFICES ASSUME kept[i].id.kind = "aggregate" PROVE FromEarlier(i)'
  BY <1>1 DEF FromEarlier
<1> DEFINE of == kept[i].id.of  by == kept[i].by
<1>3. /\ of \subseteq 1..i - 1 /\ by \in {"job", "hand"}
      /\ \E inputs \in SetToSeqs(of) :
           /\ inputs # << >> /\ Acceptable(inputs)
           /\ kept[i] = Aggregate(by, inputs, Declared(by))
           /\ by = "job" => Increasing(inputs)
  BY <1>1, <1>2 DEF FromEarlier
<1> HIDE DEF of, by
<1>4. PICK inputs \in SetToSeqs(of) :
        /\ inputs # << >> /\ Acceptable(inputs)
        /\ kept[i] = Aggregate(by, inputs, Declared(by))
        /\ by = "job" => Increasing(inputs)
  BY <1>3
<1>5. of \subseteq 1..n /\ IsFiniteSet(of)
  <2>1. of \in SUBSET (1..n)
    BY <1>3
  <2>2. IsFiniteSet(1..n)
    <3>1. 1 \in Int /\ n \in Int
      OBVIOUS
    <3> QED BY <3>1, FS_Interval
  <2> QED BY <2>1, <2>2, FS_Subset
<1>6. inputs \in Seq(1..n)
  BY <1>5, EnumerationFacts, SeqMonotonic
<1>7. /\ Aggregate(by, inputs, Declared(by))' = Aggregate(by, inputs, Declared(by))
      /\ Acceptable(inputs)'
  <2>1. by' = by
    BY <1>1 DEF by
  <2>2. Declared(by)' = Declared(by)
    BY <2>1 DEF Declared
  <2> DEFINE declared == Declared(by)
  <2> QED BY <1>4, <1>6, <2>1, <2>2, AggregateStays
<1> QED BY <1>1, <1>3, <1>4, <1>7 DEF FromEarlier, of, by

\* Only one more campaign is kept.
LEMMA AppendKeeps ==
  ASSUME AggregationInv, NEW n, n = Len(kept), NEW campaign \in Campaigns, SoundCampaign(campaign),
         kept' = Append(kept, campaign),
         artifact' \in [Expected -> 0..n + 1],
         campaign.id.kind = "aggregate" => FromEarlier(n + 1)'
  PROVE  AggregationInv'
<1>1. /\ n \in Nat /\ kept' \in Seq(Campaigns) /\ Len(kept') = n + 1
      /\ kept'[n + 1] = campaign /\ \A i \in 1..n : kept'[i] = kept[i]
  BY AppendProperties, LenProperties DEF AggregationInv, KeptSound
<1>2. \A i \in 1..n : SoundCampaign(kept[i]) /\ FromEarlier(i)
  BY DEF AggregationInv, KeptSound
<1>3. \A i \in 1..n + 1 : i \in 1..n \/ i = n + 1
  BY <1>1
<1>4. ASSUME NEW i \in 1..n + 1 PROVE SoundCampaign(kept'[i])
  BY <1>1, <1>2, <1>3
<1>5. ASSUME NEW i \in 1..n + 1 PROVE FromEarlier(i)'
  <2>1. CASE i = n + 1
    <3>1. CASE campaign.id.kind = "aggregate"
      BY <2>1, <3>1
    <3>2. CASE campaign.id.kind # "aggregate"
      BY <2>1, <3>2, <1>1 DEF FromEarlier
    <3> QED BY <3>1, <3>2
  <2>2. CASE i \in 1..n
    BY <2>2, <1>1, <1>2, EarlierStays
  <2> QED BY <2>1, <2>2, <1>3
<1> QED BY <1>1, <1>4, <1>5 DEF AggregationInv, KeptSound

LEMMA SameKeeps ==
  ASSUME AggregationInv, UNCHANGED <<kept, artifact>>
  PROVE  AggregationInv'
<1>1. Len(kept) \in Nat
  BY LenProperties DEF AggregationInv, KeptSound
<1>2. PICK n \in Nat : n = Len(kept)
  BY <1>1
<1>3. \A j \in 1..n : kept'[j] = kept[j]
  OBVIOUS
<1>4. ASSUME NEW i \in 1..n PROVE FromEarlier(i)'
  <2>1. FromEarlier(i)
    BY <1>2 DEF AggregationInv
  <2> QED BY <2>1, <1>3, EarlierStays
<1>5. KeptSound'
  BY DEF AggregationInv, KeptSound
<1> QED BY <1>2, <1>4, <1>5 DEF AggregationInv

LEMMA RunsAre ==
  ASSUME NEW t, NEW status \in Runs(t)
  PROVE  \E f \in [CaseSet -> Judgments \cup Unavailable] :
           status = [c \in CaseSet |-> Or(Structural(t, c), f[c])]
<1>1. CASE \E f \in [CaseSet -> Judgments] : status = [c \in CaseSet |-> Or(Structural(t, c), f[c])]
  <2>1. PICK f \in [CaseSet -> Judgments] : status = [c \in CaseSet |-> Or(Structural(t, c), f[c])]
    BY <1>1
  <2>2. f \in [CaseSet -> Judgments \cup Unavailable]
    OBVIOUS
  <2> QED BY <2>1, <2>2
<1>2. CASE status = [c \in CaseSet |-> Or(Structural(t, c), "skipped-unavailable")]
  <2> DEFINE f == [c \in CaseSet |-> "skipped-unavailable"]
  <2>1. f \in [CaseSet -> Judgments \cup Unavailable]
    BY DEF Unavailable
  <2>2. status = [c \in CaseSet |-> Or(Structural(t, c), f[c])]
    BY <1>2
  <2> QED BY <2>1, <2>2
<1> QED BY <1>1, <1>2 DEF Runs

\* What a job leaves is sound and an artifact of a kept campaign.
LEMMA LeaveKeeps ==
  ASSUME AggregationInv, NEW t \in Expected, NEW campaign \in Campaigns, SoundCampaign(campaign),
         campaign.id.kind # "aggregate", NEW verdict, Leave(t, campaign, verdict)
  PROVE  AggregationInv'
<1>1. Len(kept) \in Nat
  BY LenProperties DEF AggregationInv, KeptSound
<1>2. PICK n \in Nat : n = Len(kept)
  BY <1>1
<1>3. artifact' \in [Expected -> 0..n + 1]
  <2>1. artifact \in [Expected -> 0..n + 1]
    BY <1>2 DEF AggregationInv
  <2>2. artifact' = [artifact EXCEPT ![t] = n + 1]
    BY <1>2 DEF Leave, Next1
  <2> QED BY <2>1, <2>2
<1>4. kept' = Append(kept, campaign)
  BY DEF Leave
<1> QED BY <1>2, <1>3, <1>4, AppendKeeps

LEMMA JobsKeep ==
  ASSUME AggregationInv, NEW t \in Expected,
         \/ \E status \in Runs(t) : Collect(t, status)
         \/ CollectUnprepared(t) \/ CollectLost(t) \/ Rerun(t)
  PROVE  AggregationInv'
<1>1. t \in Tools /\ Len(kept) \in Nat
  BY AggregationAssumption, LenProperties DEF AggregationInv, KeptSound
<1>2. CASE \E status \in Runs(t) : Collect(t, status)
  <2>1. PICK status \in Runs(t) : Collect(t, status)
    BY <1>2
  <2>2. PICK f \in [CaseSet -> Judgments \cup Unavailable] :
          status = [c \in CaseSet |-> Or(Structural(t, c), f[c])]
    BY RunsAre
  <2> DEFINE campaign == RunCampaign(t, "this", status)
             verdict == IF campaign.complete THEN "done" ELSE "failed"
  <2>3. campaign \in Campaigns /\ SoundCampaign(campaign) /\ campaign.id.kind = "run"
    BY <1>1, <2>2, RunIsSound
  <2>4. Leave(t, campaign, verdict)
    BY <2>1 DEF Collect
  <2> HIDE DEF campaign, verdict
  <2> QED BY <2>3, <2>4, LeaveKeeps
<1>3. CASE CollectUnprepared(t)
  <2> DEFINE campaign == PreparationFailure(t)
  <2>1. /\ campaign \in Campaigns /\ SoundCampaign(campaign)
        /\ campaign.id.kind = "preparation"
    BY <1>1, PreparationFailureIsSound
  <2>2. Leave(t, campaign, "failed")
    BY <1>3 DEF CollectUnprepared
  <2> HIDE DEF campaign
  <2> QED BY <2>1, <2>2, LeaveKeeps
<1>4. CASE CollectLost(t) \/ Rerun(t)
  BY <1>4, SameKeeps DEF CollectLost, Rerun
<1> QED BY <1>2, <1>3, <1>4

LEMMA RunElsewhereKeeps ==
  ASSUME AggregationInv, NEW t \in Tools, NEW repository \in Elsewhere,
         RunElsewhere(t, repository)
  PROVE  AggregationInv'
<1>1. Len(kept) \in Nat
  BY LenProperties DEF AggregationInv, KeptSound
<1>2. PICK n \in Nat : n = Len(kept)
  BY <1>1
<1> DEFINE f == [c \in CaseSet |-> "conforming"]
           campaign == RunCampaign(t, repository,
                         [c \in CaseSet |-> Or(Structural(t, c), f[c])])
<1>3. f \in [CaseSet -> Judgments \cup Unavailable]
  BY AggregationAssumption
<1>4. kept' = Append(kept, campaign) /\ artifact' = artifact
  BY DEF RunElsewhere
<1> HIDE DEF f
<1>5. campaign \in Campaigns /\ SoundCampaign(campaign) /\ campaign.id.kind = "run"
  BY <1>1, <1>3, RunIsSound
<1> HIDE DEF campaign
<1>6. artifact' \in [Expected -> 0..n + 1]
  BY <1>2, <1>4 DEF AggregationInv
<1> QED BY <1>2, <1>4, <1>5, <1>6, AppendKeeps

\* The campaign is saved or one of its id is there already.
LEMMA SaveKeeps ==
  ASSUME AggregationInv, NEW campaign \in Campaigns, SoundCampaign(campaign),
         Save(campaign), NEW n, n = Len(kept),
         kept' = Append(kept, campaign) /\ campaign.id.kind = "aggregate" => FromEarlier(n + 1)'
  PROVE  AggregationInv'
<1>1. Len(kept) \in Nat
  BY LenProperties DEF AggregationInv, KeptSound
<1>2. CASE UNCHANGED <<kept, artifact>>
  BY <1>2, SameKeeps
<1>3. CASE kept' = Append(kept, campaign) /\ UNCHANGED artifact
  <2>1. artifact' \in [Expected -> 0..n + 1]
    BY <1>1, <1>3 DEF AggregationInv
  <2> QED BY <1>3, <2>1, AppendKeeps
<1> QED BY <1>2, <1>3 DEF Save

\* An aggregate that is saved is made of what was kept before.
LEMMA AggregateKeeps ==
  ASSUME AggregationInv, NEW inputs \in Seq(1..Len(kept)), inputs # << >>,
         \A i, j \in 1..Len(inputs) : i # j => inputs[i] # inputs[j],
         Acceptable(inputs), NEW by \in {"job", "hand"},
         by = "job" => Increasing(inputs),
         Save(Aggregate(by, inputs, Declared(by)))
  PROVE  AggregationInv'
<1> DEFINE campaign == Aggregate(by, inputs, Declared(by))
<1>1. Len(kept) \in Nat
  BY LenProperties DEF AggregationInv, KeptSound
<1>2. PICK n \in Nat : n = Len(kept)
  BY <1>1
<1>3. /\ campaign \in Campaigns /\ SoundCampaign(campaign) /\ campaign.by = by
      /\ campaign.id.kind = "aggregate" /\ campaign.id.of = Range(inputs)
  <2>1. Declared(by) \in SUBSET Tools /\ (by = "job" => Expected \subseteq Declared(by))
    BY AggregationAssumption DEF Declared
  <2> QED BY <2>1, AggregateIsSound DEF AggregationInv
<1>4. Range(inputs) \subseteq 1..n
  BY <1>2, LenProperties, ElementOfSeq DEF Range
<1>5. ASSUME kept' = Append(kept, campaign) PROVE FromEarlier(n + 1)'
  <2>1. kept'[n + 1] = campaign /\ \A j \in 1..n : kept'[j] = kept[j]
    BY <1>2, <1>3, <1>5, AppendProperties DEF AggregationInv, KeptSound
  <2>2. inputs \in Seq(1..n)
    BY <1>2
  <2>3. Aggregate(by, inputs, Declared(by))' = campaign /\ Acceptable(inputs)'
    <3>1. PICK declared : declared = Declared(by)
      OBVIOUS
    <3>2. Declared(by)' = Declared(by)
      BY DEF Declared
    <3>3. /\ Aggregate(by, inputs, declared)' = Aggregate(by, inputs, declared)
          /\ Acceptable(inputs)'
      BY <2>1, <2>2, AggregateStays
    <3> QED BY <3>1, <3>2, <3>3
  <2>4. inputs \in SetToSeqs(Range(inputs))
    BY EnumerationOf
  <2>5. (n + 1) - 1 = n
    BY <1>2
  <2> HIDE DEF campaign
  <2> QED BY <1>3, <1>4, <2>1, <2>3, <2>4, <2>5 DEF FromEarlier
<1> HIDE DEF campaign
<1>6. Save(campaign)
  BY DEF campaign
<1> QED BY <1>2, <1>3, <1>5, <1>6, SaveKeeps

\* The publish job aggregates artifacts in the order of their paths.
LEMMA PublishKeeps ==
  ASSUME AggregationInv, PublishJob
  PROVE  AggregationInv'
<1>1. Len(kept) \in Nat /\ KeptSound
  BY LenProperties DEF AggregationInv, KeptSound
<1>2. PICK n \in Nat : n = Len(kept)
  BY <1>1
<1>3. PICK T \in SUBSET {t \in Expected : artifact[t] # NoCampaign} :
        IF T = {} THEN Save(MissingCampaign)
        ELSE \E inputs \in Arrived(T) :
               Acceptable(inputs) /\ Save(Aggregate("job", inputs, Expected))
  BY DEF PublishJob
<1>4. CASE T = {}
  <2> DEFINE campaign == MissingCampaign
  <2>1. campaign \in Campaigns /\ SoundCampaign(campaign) /\ campaign.id.kind # "aggregate"
    BY <1>1, MissingIsSound
  <2>2. Save(campaign)
    BY <1>3, <1>4
  <2> HIDE DEF campaign
  <2> QED BY <1>2, <2>1, <2>2, SaveKeeps
<1>5. CASE T # {}
  <2> DEFINE S == {artifact[t] : t \in T}
  <2>1. S \in SUBSET (1..n) /\ S # {}
    BY <1>2, <1>5 DEF AggregationInv, NoCampaign
  <2>2. PICK inputs \in Arrived(T) :
          Acceptable(inputs) /\ Save(Aggregate("job", inputs, Expected))
    BY <1>3, <1>5
  <2>3. inputs \in SetToSeqs(S) /\ Increasing(inputs)
    BY <2>2 DEF Arrived, Increasing
  <2> HIDE DEF S
  <2>4. IsFiniteSet(S)
    <3>1. 1 \in Int /\ n \in Int
      BY <1>2
    <3>2. IsFiniteSet(1..n)
      BY <3>1, FS_Interval
    <3> QED BY <2>1, <3>2, FS_Subset
  <2>5. /\ inputs \in Seq(S) /\ Range(inputs) = S
        /\ \A i, j \in 1..Len(inputs) : i # j => inputs[i] # inputs[j]
    BY <2>3, <2>4, EnumerationFacts
  <2>6. inputs \in Seq(1..Len(kept))
    BY <1>2, <2>1, <2>5, SeqMonotonic
  <2>7. inputs # << >>
    <3>1. Range(<< >>) = {}
      BY DEF Range
    <3> QED BY <3>1, <2>1, <2>5
  <2>8. Save(Aggregate("job", inputs, Declared("job")))
    BY <2>2 DEF Declared
  <2>9. PICK by \in {"job", "hand"} : by = "job"
    OBVIOUS
  <2>10. Save(Aggregate(by, inputs, Declared(by)))
    BY <2>8, <2>9
  <2> QED BY <2>2, <2>3, <2>5, <2>6, <2>7, <2>10, AggregateKeeps
<1> QED BY <1>4, <1>5

LEMMA PairInSeq ==
  ASSUME NEW S, NEW a \in S, NEW b \in S
  PROVE  <<a, b>> \in Seq(S)
OBVIOUS

LEMMA HandKeeps ==
  ASSUME AggregationInv, NEW i \in 1..Len(kept), NEW j \in 1..Len(kept),
         AggregateByHand(IF i = j THEN <<i>> ELSE <<i, j>>)
  PROVE  AggregationInv'
<1> DEFINE inputs == IF i = j THEN <<i>> ELSE <<i, j>>
<1>1. /\ inputs \in Seq(1..Len(kept)) /\ inputs # << >>
      /\ \A k, l \in 1..Len(inputs) : k # l => inputs[k] # inputs[l]
  <2>1. CASE i = j
    <3>1. inputs = <<i>> /\ Len(inputs) = 1
      BY <2>1
    <3> QED BY <3>1
  <2>2. CASE i # j
    <3>1. inputs = <<i, j>> /\ Len(inputs) = 2 /\ inputs[1] = i /\ inputs[2] = j
      BY <2>2
    <3>2. 1..2 = {1, 2}
      OBVIOUS
    <3>3. inputs \in Seq(1..Len(kept)) /\ inputs # << >>
      <4>1. <<i, j>> \in Seq(1..Len(kept))
        BY PairInSeq
      <4>2. Len(<< >>) = 0
        OBVIOUS
      <4> QED BY <4>1, <4>2, <3>1
    <3> QED BY <2>2, <3>1, <3>2, <3>3
  <2> QED BY <2>1, <2>2
<1>2. Acceptable(inputs) /\ Save(Aggregate("hand", inputs, {}))
  BY DEF AggregateByHand
<1> HIDE DEF inputs
<1>3. PICK by \in {"job", "hand"} : by = "hand"
  OBVIOUS
<1>4. Save(Aggregate(by, inputs, Declared(by)))
  BY <1>2, <1>3 DEF Declared
<1> QED BY <1>1, <1>2, <1>3, <1>4, AggregateKeeps

LEMMA AggregationNextKeeps ==
  AggregationInv /\ [AggregationNext]_aggregationVars => AggregationInv'
<1> SUFFICES ASSUME AggregationInv, [AggregationNext]_aggregationVars PROVE AggregationInv'
  OBVIOUS
<1>1. ASSUME NEW t \in Expected,
             \/ \E status \in Runs(t) : Collect(t, status)
             \/ CollectUnprepared(t) \/ CollectLost(t) \/ Rerun(t)
      PROVE  AggregationInv'
  BY <1>1, JobsKeep
<1>2. ASSUME NEW t \in Tools, NEW repository \in Elsewhere, RunElsewhere(t, repository)
      PROVE  AggregationInv'
  BY <1>2, RunElsewhereKeeps
<1>3. CASE PublishJob
  BY <1>3, PublishKeeps
<1>4. ASSUME NEW i \in 1..Len(kept), NEW j \in 1..Len(kept),
             AggregateByHand(IF i = j THEN <<i>> ELSE <<i, j>>)
      PROVE  AggregationInv'
  BY <1>4, HandKeeps
<1>5. CASE UNCHANGED aggregationVars
  BY <1>5, SameKeeps DEF aggregationVars
<1> QED BY <1>1, <1>2, <1>3, <1>4, <1>5 DEF AggregationNext

LEMMA AggregationInvHolds == AggregationSpec => []AggregationInv
BY AggregationInitKeeps, AggregationNextKeeps, PTL DEF AggregationSpec

-----------------------------------------------------------------------------
(* The properties. *)

LEMMA CaseSetFinite == IsFiniteSet(CaseSet) /\ Cardinality(CaseSet) = Len(Cases)
<1>1. Cases \in Bijection(1..Len(Cases), CaseSet) /\ Len(Cases) \in Nat
  <2>1. /\ Len(Cases) \in Nat /\ DOMAIN Cases = 1..Len(Cases)
        /\ Cases \in [1..Len(Cases) -> CaseSet] /\ IsInjective(Cases)
    BY HeadlineMetricAssumption, LenProperties
  <2> QED BY <2>1 DEF Bijection, Injection, Surjection, CaseSet, Range
<1>2. Cardinality(CaseSet) = Len(Cases)
  BY <1>1, FS_CountingElements DEF ExistsBijection
<1>3. IsFiniteSet(1..Len(Cases))
  <2>1. 1 \in Int /\ Len(Cases) \in Int
    BY <1>1
  <2> QED BY <2>1, FS_Interval
<1>4. IsFiniteSet(CaseSet)
  BY <1>1, <1>3, FS_Bijection DEF ExistsBijection
<1> QED BY <1>2, <1>4

\* One result per cell: as many results as there are cells.
LEMMA CellsCounted ==
  ASSUME NEW results, NEW tools, ResultsOf(results, tools), IsFiniteSet(tools),
         tools \subseteq Tools
  PROVE  /\ {<<results[k].case, results[k].tool>> : k \in 1..Len(results)} = CaseSet \X tools
         /\ Len(results) = Len(Cases) * Cardinality(tools)
<1> DEFINE n == Len(results)
           cell == [k \in 1..n |-> <<results[k].case, results[k].tool>>]
<1>1. /\ n \in Nat /\ DOMAIN results = 1..n /\ results \in Seq(Results)
      /\ \A k \in 1..n : results[k] \in Results /\ results[k] \in Range(results)
  BY LenProperties, ElementOfSeq DEF ResultsOf, Range
<1>2. \A k \in 1..n : results[k].case \in CaseSet /\ results[k].tool \in tools
  BY <1>1 DEF ResultsOf, Results
<1>3. \A k, l \in 1..n : cell[k] = cell[l] => k = l
  BY DEF ResultsOf, OncePerCell, SameCell
<1>4. \A c \in CaseSet, t \in tools : \E k \in 1..n : results[k].case = c /\ results[k].tool = t
  BY <1>1 DEF ResultsOf, Range
<1>5. {<<results[k].case, results[k].tool>> : k \in 1..n} = CaseSet \X tools
  BY <1>2, <1>4
<1>6. cell \in Bijection(1..n, CaseSet \X tools)
  <2>1. cell \in [1..n -> CaseSet \X tools]
    BY <1>2
  <2>2. \A p \in CaseSet \X tools : \E k \in 1..n : cell[k] = p
    BY <1>4
  <2> HIDE DEF n, cell
  <2> QED BY <1>3, <2>1, <2>2 DEF Bijection, Injection, Surjection, IsInjective
<1>7. IsFiniteSet(CaseSet) /\ Cardinality(CaseSet) = Len(Cases)
  BY CaseSetFinite
<1>10. Cardinality(CaseSet \X tools) = Len(Cases) * Cardinality(tools)
  BY <1>7, FS_Product
<1> HIDE DEF cell, n
<1>11. Cardinality(CaseSet \X tools) = n
  BY <1>1, <1>6, FS_CountingElements DEF ExistsBijection
<1> QED BY <1>5, <1>10, <1>11 DEF n

\* models.Campaign.internally_consistent never refuses what the code builds:
\* one result for each case and tool, and "complete" only with all of them.
THEOREM RecordsAreConsistent == AggregationSpec => []CampaignsConsistent
<1>1. ASSUME AggregationInv PROVE CampaignsConsistent
  <2>1. ASSUME NEW i \in 1..Len(kept)
        PROVE  LET campaign == kept[i]  results == kept[i].results IN
               /\ {<<results[k].case, results[k].tool>> : k \in 1..Len(results)} =
                    CaseSet \X campaign.tools
               /\ Len(results) = Len(Cases) * Cardinality(campaign.tools)
               /\ campaign.missing = campaign.expected \ campaign.tools
               /\ campaign.tools \subseteq campaign.expected
               /\ campaign.complete =>
                    campaign.missing = {} /\ campaign.failed = {} /\ ~Harmed(results)
    <3>1. kept[i] \in Campaigns /\ SoundCampaign(kept[i])
      BY <1>1, ElementOfSeq DEF AggregationInv, KeptSound
    <3>2. PICK campaign : campaign = kept[i]
      OBVIOUS
    <3>3. campaign \in Campaigns /\ SoundCampaign(campaign)
      BY <3>1, <3>2
    <3>4. campaign.tools \subseteq Tools /\ campaign.results \in Seq(Results)
      BY <3>3 DEF Campaigns
    <3>5. /\ ResultsOf(campaign.results, campaign.tools) /\ IsFiniteSet(campaign.tools)
          /\ campaign.missing = campaign.expected \ campaign.tools
          /\ campaign.tools \subseteq campaign.expected
          /\ campaign.complete =>
               /\ campaign.missing = {} /\ campaign.failed = {}
               /\ \A r \in Range(campaign.results) : r.status \notin Unavailable
      BY <3>3 DEF SoundCampaign
    <3>6. campaign.complete => ~Harmed(campaign.results)
      BY <3>4, <3>5, HarmedSays
    <3>7. /\ {<<campaign.results[k].case, campaign.results[k].tool>> :
                 k \in 1..Len(campaign.results)} = CaseSet \X campaign.tools
          /\ Len(campaign.results) = Len(Cases) * Cardinality(campaign.tools)
      BY <3>4, <3>5, CellsCounted
    <3> QED BY <3>2, <3>5, <3>6, <3>7
  <2> QED BY <2>1 DEF CampaignsConsistent
<1> QED BY <1>1, AggregationInvHolds, PTL

\* An aggregate recomputed from the campaigns it names.
LEMMA FromSources ==
  ASSUME AggregationInv, NEW i \in 1..Len(kept), kept[i].id.kind = "aggregate"
  PROVE  \E inputs \in SetToSeqs(kept[i].id.of) :
           /\ inputs \in Seq(1..Len(kept)) /\ inputs # << >> /\ Acceptable(inputs)
           /\ Range(inputs) = kept[i].id.of /\ IsFiniteSet(kept[i].id.of)
           /\ kept[i].id.of \subseteq Nat
           /\ kept[i] = Aggregate(kept[i].by, inputs, Declared(kept[i].by))
           /\ kept[i].by \in {"job", "hand"}
           /\ kept[i].by = "job" => Increasing(inputs)
<1> DEFINE of == kept[i].id.of
<1>1. Len(kept) \in Nat
  BY LenProperties DEF AggregationInv, KeptSound
<1>2. PICK n \in Nat : n = Len(kept)
  BY <1>1
<1>3. /\ of \subseteq 1..i - 1 /\ kept[i].by \in {"job", "hand"}
      /\ \E inputs \in SetToSeqs(of) :
           /\ inputs # << >> /\ Acceptable(inputs)
           /\ kept[i] = Aggregate(kept[i].by, inputs, Declared(kept[i].by))
           /\ kept[i].by = "job" => Increasing(inputs)
  BY DEF AggregationInv, FromEarlier
<1> HIDE DEF of
<1>4. PICK inputs \in SetToSeqs(of) :
        /\ inputs # << >> /\ Acceptable(inputs)
        /\ kept[i] = Aggregate(kept[i].by, inputs, Declared(kept[i].by))
        /\ kept[i].by = "job" => Increasing(inputs)
  BY <1>3
<1>5. of \subseteq 1..n /\ of \subseteq Nat /\ IsFiniteSet(of)
  <2>1. of \in SUBSET (1..n)
    BY <1>2, <1>3
  <2>2. IsFiniteSet(1..n)
    <3>1. 1 \in Int /\ n \in Int
      BY <1>2
    <3> QED BY <3>1, FS_Interval
  <2>3. 1..n \subseteq Nat
    OBVIOUS
  <2> QED BY <2>1, <2>2, <2>3, FS_Subset
<1>6. inputs \in Seq(1..n) /\ Range(inputs) = of
  BY <1>5, EnumerationFacts, SeqMonotonic
<1> QED BY <1>2, <1>3, <1>4, <1>5, <1>6 DEF of

LEMMA ContributionsOf ==
  ASSUME KeptSound, NEW inputs \in Seq(1..Len(kept)), inputs # << >>, Acceptable(inputs),
         NEW by \in {"job", "hand"}
  PROVE  LET campaign == Aggregate(by, inputs, Declared(by))
         IN  /\ Range(campaign.results) = UNION {Contributed(j) : j \in Range(inputs)}
             /\ campaign.repository = kept[inputs[1]].repository
<1>1. PICK declared \in SUBSET Tools : declared = Declared(by)
  BY AggregationAssumption DEF Declared
<1>2. by = "job" => Expected \subseteq declared
  BY <1>1 DEF Declared
<1>3. LET campaign == Aggregate(by, inputs, declared)
      IN  /\ Range(campaign.results) = UNION {Contributed(j) : j \in Range(inputs)}
          /\ campaign.repository = kept[inputs[1]].repository
  BY <1>2, AggregateIsSound
<1> QED BY <1>1, <1>3

\* docs/architecture.md:88: "preparation failures are not presented as
\* conformance measurements": an aggregate holds the measurements of the
\* campaigns it is named after, all of them and nothing else.
THEOREM MeasurementsAreKept == AggregationSpec => []MeasurementsKept
<1>1. ASSUME AggregationInv PROVE MeasurementsKept
  <2>1. ASSUME NEW i \in 1..Len(kept), kept[i].id.kind = "aggregate"
        PROVE  /\ Range(kept[i].results) = UNION {Contributed(j) : j \in kept[i].id.of}
               /\ \A j \in kept[i].id.of : kept[j].repository = kept[i].repository
    <3>1. PICK inputs \in SetToSeqs(kept[i].id.of) :
            /\ inputs \in Seq(1..Len(kept)) /\ inputs # << >> /\ Acceptable(inputs)
            /\ Range(inputs) = kept[i].id.of
            /\ kept[i] = Aggregate(kept[i].by, inputs, Declared(kept[i].by))
            /\ kept[i].by \in {"job", "hand"}
      BY <1>1, <2>1, FromSources
    <3>2. inputs \in Seq(1..Len(kept)) /\ inputs # << >> /\ Acceptable(inputs) /\ KeptSound
      BY <1>1, <3>1 DEF AggregationInv
    <3>3. /\ Range(kept[i].results) = UNION {Contributed(j) : j \in Range(inputs)}
          /\ kept[i].repository = kept[inputs[1]].repository
      <4> DEFINE by == kept[i].by
                 campaign == Aggregate(by, inputs, Declared(by))
      <4>1. by \in {"job", "hand"}
        BY <3>1
      <4> HIDE DEF by
      <4>2. /\ Range(campaign.results) = UNION {Contributed(j) : j \in Range(inputs)}
            /\ campaign.repository = kept[inputs[1]].repository
        BY <3>2, <4>1, ContributionsOf
      <4>3. kept[i] = campaign
        BY <3>1 DEF by
      <4> HIDE DEF campaign
      <4> QED BY <4>2, <4>3
    <3>4. \A k \in 1..Len(inputs) : kept[inputs[k]].repository = kept[inputs[1]].repository
      BY <3>1 DEF Acceptable
    <3>5. \A j \in Range(inputs) : \E k \in 1..Len(inputs) : inputs[k] = j
      BY <3>1, LenProperties DEF Range
    <3> QED BY <3>1, <3>3, <3>4, <3>5
  <2> QED BY <2>1 DEF MeasurementsKept, Contributed
<1> QED BY <1>1, AggregationInvHolds, PTL

\* Publishing again over the same artifacts makes the very record that was
\* made before, as the immutable Release of that id demands.
THEOREM PublishingAgainIsTheSame == AggregationSpec => []PublishingAgainAgrees
<1>1. ASSUME AggregationInv PROVE PublishingAgainAgrees
  <2>1. ASSUME NEW T \in SUBSET {t \in Expected : artifact[t] # NoCampaign},
               NEW inputs \in Arrived(T), T # {}, Acceptable(inputs),
               NEW i \in 1..Len(kept), kept[i].by = "job",
               kept[i].id = Aggregate("job", inputs, Expected).id
        PROVE  kept[i] = Aggregate("job", inputs, Expected)
    <3> DEFINE S == {artifact[t] : t \in T}
    <3>1. inputs \in SetToSeqs(S) /\ Increasing(inputs)
      BY DEF Arrived, Increasing
    <3>2. S \in SUBSET (0..Len(kept)) /\ Len(kept) \in Nat
      BY <1>1, LenProperties DEF AggregationInv, KeptSound
    <3> HIDE DEF S
    <3>3. IsFiniteSet(S)
      <4>1. 0 \in Int /\ Len(kept) \in Int
        BY <3>2
      <4> QED BY <4>1, <3>2, FS_Interval, FS_Subset
    <3>4. Range(inputs) = S
      BY <3>1, <3>3, EnumerationFacts
    <3>5. kept[i].id.kind = "aggregate" /\ kept[i].id.of = S
      BY <2>1, <3>4 DEF Aggregate
    <3>6. PICK before \in SetToSeqs(S) :
            /\ kept[i] = Aggregate(kept[i].by, before, Declared(kept[i].by))
            /\ S \subseteq Nat /\ (kept[i].by = "job" => Increasing(before))
      BY <1>1, <3>5, FromSources
    <3>7. before = inputs
      BY <2>1, <3>1, <3>3, <3>6, SortedOnce
    <3> QED BY <2>1, <3>6, <3>7 DEF Declared
  <2> QED BY <2>1 DEF PublishingAgainAgrees
<1> QED BY <1>1, AggregationInvHolds, PTL

\* What the metric finds for t's case c.
StatusHere(campaign, t, c) ==
  IF Present(campaign, t, c) = {} THEN "absent"
  ELSE campaign.results[CHOOSE i \in Present(campaign, t, c) : TRUE].status

ResultFor(campaign, t, c, status) ==
  [case |-> c, tool |-> t, status |-> status] \in Range(campaign.results)

\* It finds the one result there is.
LEMMA StatusFound ==
  ASSUME NEW campaign, ResultsOf(campaign.results, campaign.tools),
         NEW t \in Tools, NEW c \in CaseSet
  PROVE  /\ t \notin campaign.tools =>
              StatusHere(campaign, t, c) = "absent" /\ \A s : ~ ResultFor(campaign, t, c, s)
         /\ t \in campaign.tools =>
              /\ Fitting([case |-> c, tool |-> t, status |-> StatusHere(campaign, t, c)])
              /\ \A s : ResultFor(campaign, t, c, s) <=> s = StatusHere(campaign, t, c)
<1> DEFINE results == campaign.results  n == Len(results)
           P == Present(campaign, t, c)  here == StatusHere(campaign, t, c)
<1>1. /\ n \in Nat /\ DOMAIN results = 1..n
      /\ \A k \in 1..n : results[k] \in Results /\ results[k] \in Range(results)
      /\ \A r \in Range(results) : \E k \in 1..n : r = results[k]
  BY LenProperties, ElementOfSeq DEF ResultsOf, Range
<1>2. P = {k \in 1..n : results[k].case = c /\ results[k].tool = t}
  BY DEF Present
<1>3. \A k \in 1..n : results[k] = [case |-> results[k].case, tool |-> results[k].tool,
                                    status |-> results[k].status]
  BY <1>1 DEF Results
<1>4. CASE t \notin campaign.tools
  <2>1. \A r \in Range(results) : r.tool # t
    BY <1>4 DEF ResultsOf
  <2>2. P = {}
    BY <1>1, <1>2, <2>1
  <2>3. \A s : ~ ResultFor(campaign, t, c, s)
    BY <2>1 DEF ResultFor
  <2> QED BY <1>4, <2>2, <2>3 DEF StatusHere
<1>5. CASE t \in campaign.tools
  <2>1. PICK k \in 1..n : results[k].case = c /\ results[k].tool = t
    <3>1. PICK r \in Range(results) : r.case = c /\ r.tool = t
      BY <1>5 DEF ResultsOf
    <3> QED BY <1>1, <3>1
  <2>2. \A l \in 1..n : results[l].case = c /\ results[l].tool = t => l = k
    BY <2>1 DEF ResultsOf, OncePerCell, SameCell
  <2>3. P = {k}
    BY <1>2, <2>1, <2>2
  <2>4. here = results[k].status
    BY <2>3 DEF StatusHere
  <2>5. results[k] = [case |-> c, tool |-> t, status |-> here]
    BY <1>3, <2>1, <2>4
  <2>6. Fitting(results[k])
    BY <1>1 DEF ResultsOf
  <2>7. ASSUME NEW s, ResultFor(campaign, t, c, s) PROVE s = here
    <3>1. PICK l \in 1..n : [case |-> c, tool |-> t, status |-> s] = results[l]
      BY <1>1, <2>7 DEF ResultFor
    <3>2. results[l].case = c /\ results[l].tool = t /\ results[l].status = s
      BY <3>1
    <3> QED BY <2>2, <2>4, <3>2
  <2>8. ResultFor(campaign, t, c, here)
    BY <1>1, <2>5 DEF ResultFor
  <2> HIDE DEF here
  <2> QED BY <1>5, <2>5, <2>6, <2>7, <2>8 DEF here
<1> QED BY <1>4, <1>5

\* A case that counts is one a judgment is made of.
LEMMA ScopedSays ==
  ASSUME NEW t \in Tools, NEW c \in Scoped(t)
  PROVE  c \in CaseSet /\ Structural(t, c) = "none"
<1>1. /\ Supports[t] \subseteq CaseSet /\ c \in Supports[t]
      /\ Facts[c].applicability \in Applies
  BY HeadlineMetricAssumption DEF Scoped
<1> QED BY <1>1 DEF Structural, Applies

\* Of a case that counts: a judgment, an unavailable result, or none.
LEMMA CountedStatus ==
  ASSUME NEW campaign, SoundCampaign(campaign), NEW t \in Tools, NEW c \in Scoped(t)
  PROVE  LET here == StatusHere(campaign, t, c) IN
         /\ t \notin campaign.tools => here = "absent"
         /\ t \in campaign.tools => here \in Executed \cup Unavailable
         /\ t \in campaign.failed => here = "harness-error"
         /\ campaign.complete => here \notin Unavailable
         /\ \A s \in Executed : ResultFor(campaign, t, c, s) <=> here = s
<1> DEFINE here == StatusHere(campaign, t, c)
           result == [case |-> c, tool |-> t, status |-> here]
<1>1. c \in CaseSet /\ Structural(t, c) = "none"
  BY ScopedSays
<1>2. /\ t \notin campaign.tools => here = "absent" /\ \A s : ~ ResultFor(campaign, t, c, s)
      /\ t \in campaign.tools =>
           Fitting(result) /\ \A s : ResultFor(campaign, t, c, s) <=> s = here
  BY <1>1, StatusFound DEF SoundCampaign
<1> HIDE DEF here
<1>3. t \in campaign.tools => here \in Executed \cup Unavailable /\ result \in Range(campaign.results)
  BY <1>1, <1>2, AggregationAssumption DEF Fitting, ResultFor
<1>4. t \in campaign.failed => t \in campaign.tools
  BY DEF SoundCampaign
<1>5. t \in campaign.failed => here = "harness-error"
  BY <1>1, <1>3, <1>4 DEF SoundCampaign, Or
<1>6. "absent" \notin Unavailable /\ "absent" \notin Executed
  BY DEF Unavailable, Executed
<1>7. campaign.complete => here \notin Unavailable
  <2>1. campaign.complete /\ t \in campaign.tools => result.status \notin Unavailable
    BY <1>3 DEF SoundCampaign
  <2> QED BY <2>1, <1>2, <1>6
<1>8. \A s \in Executed : ResultFor(campaign, t, c, s) <=> here = s
  BY <1>2, <1>6
<1> QED BY <1>2, <1>3, <1>5, <1>7, <1>8 DEF here

\* The classes of a requirement, by what is found for its variants.
LEMMA ClassSays ==
  ASSUME NEW campaign, SoundCampaign(campaign), NEW t \in Tools, NEW r \in Requirements(t)
  PROVE  LET class == Class(StatusesOf(campaign, t, r)) IN
         /\ class \in {"conforming", "nonconforming", "inconclusive", "unsupported"}
         /\ class = "conforming" <=>
              \A c \in Variants(t, r) : ResultFor(campaign, t, c, "conforming")
         /\ class = "nonconforming" <=>
              \E c \in Variants(t, r) : ResultFor(campaign, t, c, "nonconforming")
<1> DEFINE statuses == StatusesOf(campaign, t, r)
           here(c) == StatusHere(campaign, t, c)
<1>1. statuses = {here(c) : c \in Variants(t, r)}
  BY DEF StatusesOf, StatusHere
<1>2. \A c \in Variants(t, r) : c \in Scoped(t)
  BY DEF Variants
<1>3. PICK d \in Variants(t, r) : TRUE
  BY DEF Requirements, Variants
<1>4. \A c \in Variants(t, r) :
        /\ ResultFor(campaign, t, c, "conforming") <=> here(c) = "conforming"
        /\ ResultFor(campaign, t, c, "nonconforming") <=> here(c) = "nonconforming"
  <2>1. "conforming" \in Executed /\ "nonconforming" \in Executed
    BY DEF Executed
  <2> QED BY <1>2, <2>1, CountedStatus
<1> HIDE DEF here, statuses
<1>5. statuses = {"conforming"} <=> \A c \in Variants(t, r) : here(c) = "conforming"
  BY <1>1, <1>3
<1>6. "nonconforming" \in statuses <=> \E c \in Variants(t, r) : here(c) = "nonconforming"
  BY <1>1
<1>7. /\ Class(statuses) \in {"conforming", "nonconforming", "inconclusive", "unsupported"}
      /\ Class(statuses) = "conforming" <=> statuses = {"conforming"}
      /\ Class(statuses) = "nonconforming" <=> "nonconforming" \in statuses
  BY DEF Class
<1> QED BY <1>4, <1>5, <1>6, <1>7 DEF statuses

\* A finite set falls into the four classes.
LEMMA FourClasses ==
  ASSUME NEW R, IsFiniteSet(R), NEW A, NEW B, NEW C, NEW D, R = A \cup B \cup C \cup D,
         A \cap B = {}, (A \cup B) \cap C = {}, (A \cup B \cup C) \cap D = {}
  PROVE  Cardinality(A) + Cardinality(B) + Cardinality(C) + Cardinality(D) = Cardinality(R)
<1>1. A \in SUBSET R /\ B \in SUBSET R /\ C \in SUBSET R /\ D \in SUBSET R
  OBVIOUS
<1>2. IsFiniteSet(A) /\ IsFiniteSet(B) /\ IsFiniteSet(C) /\ IsFiniteSet(D)
  BY <1>1, FS_Subset
<1>3. IsFiniteSet(A \cup B) /\ Cardinality(A \cup B) = Cardinality(A) + Cardinality(B) - Cardinality({})
  BY <1>2, FS_Union
<1>4. /\ IsFiniteSet(A \cup B \cup C)
      /\ Cardinality(A \cup B \cup C) = Cardinality(A \cup B) + Cardinality(C) - Cardinality({})
  BY <1>2, <1>3, FS_Union
<1>5. Cardinality(R) = Cardinality(A \cup B \cup C) + Cardinality(D) - Cardinality({})
  BY <1>2, <1>4, FS_Union
<1>6. Cardinality({}) = 0
  BY FS_EmptySet
<1>7. /\ Cardinality(A) \in Nat /\ Cardinality(B) \in Nat /\ Cardinality(C) \in Nat
      /\ Cardinality(D) \in Nat
  BY <1>2, FS_CardinalityType
<1> QED BY <1>3, <1>4, <1>5, <1>6, <1>7

LEMMA RequirementsFinite ==
  ASSUME NEW t \in Tools PROVE IsFiniteSet(Requirements(t))
<1> DEFINE f == [c \in Scoped(t) |-> Facts[c].requirement]
<1>1. Scoped(t) \in SUBSET CaseSet
  BY ScopedSays
<1>2. IsFiniteSet(Scoped(t))
  BY <1>1, CaseSetFinite, FS_Subset
<1>3. f \in Surjection(Scoped(t), Requirements(t))
  BY DEF Surjection, Requirements
<1> HIDE DEF f
<1> QED BY <1>2, <1>3, FS_Surjection

\* When harness and coverage are as they are.
LEMMA CoverageSays ==
  ASSUME NEW campaign, SoundCampaign(campaign), NEW t \in Tools
  PROVE  /\ campaign.complete /\ t \in campaign.expected => ComputeMetric(campaign, t).complete
         /\ t \in campaign.missing \cup campaign.failed /\ Requirements(t) # {} =>
              /\ ~ ComputeMetric(campaign, t).complete
              /\ ComputeMetric(campaign, t).state =
                   IF t \in campaign.failed THEN "harness-error" ELSE "missing-tool"
<1> DEFINE executed == {r \in Requirements(t) : StatusesOf(campaign, t, r) \subseteq Executed}
           harness == \E r \in Requirements(t) : "harness-error" \in StatusesOf(campaign, t, r)
           available == Available(campaign, t)
           covered == executed = Requirements(t)
           here(c) == StatusHere(campaign, t, c)
<1>1. /\ ComputeMetric(campaign, t).complete = (available /\ ~harness /\ covered)
      /\ ComputeMetric(campaign, t).state = State(harness, available, covered)
  BY DEF ComputeMetric
<1>2. \A r \in Requirements(t) :
        /\ StatusesOf(campaign, t, r) = {here(c) : c \in Variants(t, r)}
        /\ Variants(t, r) \subseteq Scoped(t) /\ \E c \in Variants(t, r) : TRUE
  BY DEF StatusesOf, StatusHere, Variants, Requirements
<1>3. \A c \in Scoped(t) :
        /\ t \notin campaign.tools => here(c) = "absent"
        /\ t \in campaign.tools => here(c) \in Executed \cup Unavailable
        /\ t \in campaign.failed => here(c) = "harness-error"
        /\ campaign.complete => here(c) \notin Unavailable
  BY CountedStatus
<1>4. /\ campaign.complete => campaign.missing = {}
      /\ campaign.missing = campaign.expected \ campaign.tools
      /\ campaign.failed \subseteq campaign.tools /\ campaign.tools \subseteq campaign.expected
  BY DEF SoundCampaign
<1> HIDE DEF here
<1>5. ASSUME campaign.complete, t \in campaign.expected
      PROVE  available /\ ~harness /\ covered
  <2>1. t \in campaign.tools /\ available
    BY <1>4, <1>5 DEF Available
  <2>2. \A c \in Scoped(t) : here(c) \in Executed /\ here(c) # "harness-error"
    BY <1>3, <1>5, <2>1 DEF Unavailable
  <2>3. \A r \in Requirements(t) :
          /\ StatusesOf(campaign, t, r) \subseteq Executed
          /\ "harness-error" \notin StatusesOf(campaign, t, r)
    BY <1>2, <2>2
  <2> QED BY <2>1, <2>3
<1>6. ASSUME t \in campaign.failed, Requirements(t) # {} PROVE harness
  <2>1. PICK r \in Requirements(t) : TRUE
    BY <1>6
  <2>2. "harness-error" \in StatusesOf(campaign, t, r)
    BY <1>2, <1>3, <1>6, <2>1
  <2> QED BY <2>1, <2>2
<1>7. ASSUME t \in campaign.missing PROVE ~harness /\ ~available /\ t \notin campaign.failed
  <2>1. t \notin campaign.tools /\ t \notin campaign.failed /\ ~available
    BY <1>4, <1>7 DEF Available
  <2>2. \A r \in Requirements(t) : "harness-error" \notin StatusesOf(campaign, t, r)
    BY <1>2, <1>3, <2>1
  <2> QED BY <2>1, <2>2
<1>8. /\ harness => State(harness, available, covered) = "harness-error"
      /\ ~harness /\ ~available => State(harness, available, covered) = "missing-tool"
  BY DEF State
<1> DEFINE metric == ComputeMetric(campaign, t)
<1>9. /\ available /\ ~harness /\ covered => metric.complete
      /\ ~available \/ harness => ~ metric.complete
      /\ harness => metric.state = "harness-error"
      /\ ~harness /\ ~available => metric.state = "missing-tool"
  BY <1>1, <1>8
<1> HIDE DEF harness, available, covered, metric
<1>10. campaign.complete /\ t \in campaign.expected => metric.complete
  BY <1>5, <1>9
<1>11. ASSUME t \in campaign.missing \cup campaign.failed, Requirements(t) # {}
       PROVE  /\ ~ metric.complete
              /\ metric.state =
                   IF t \in campaign.failed THEN "harness-error" ELSE "missing-tool"
  <2>1. CASE t \in campaign.failed
    BY <2>1, <1>11, <1>6, <1>9
  <2>2. CASE t \notin campaign.failed
    BY <2>2, <1>11, <1>7, <1>9
  <2> QED BY <2>1, <2>2
<1> QED BY <1>10, <1>11 DEF metric

\* The property, for one campaign and in the model's terms.
MetricIsRight(campaign, t) ==
  LET metric == ComputeMetric(campaign, t)
      required == Requirements(t)
  IN  /\ metric.denominator = Cardinality(required)
      /\ metric.numerator = Cardinality(
           {r \in required : \A c \in Variants(t, r) : ResultFor(campaign, t, c, "conforming")})
      /\ metric.nonconforming = Cardinality(
           {r \in required : \E c \in Variants(t, r) : ResultFor(campaign, t, c, "nonconforming")})
      /\ metric.numerator + metric.nonconforming + metric.inconclusive
           + metric.unsupported = metric.denominator
      /\ t \in campaign.missing \cup campaign.failed /\ required # {} =>
           /\ ~metric.complete
           /\ metric.state = IF t \in campaign.failed THEN "harness-error" ELSE "missing-tool"

Counts(t, c) ==
  /\ Facts[c].mandatory /\ Facts[c].requirementApplies
  /\ c \in Supports[t] /\ Facts[c].applicability \in Applies

\* "publication cannot silently present a partial run as complete"
\* (scripts/aggregate_artifacts.py): a complete campaign has a complete metric
\* for each tool it expects, and a published one expects the whole policy.
THEOREM CompleteMeansComplete == AggregationSpec => []CompleteIsComplete
<1>1. ASSUME AggregationInv PROVE CompleteIsComplete
  <2>1. ASSUME NEW i \in 1..Len(kept), kept[i].complete
        PROVE  /\ \A t \in kept[i].expected : ComputeMetric(kept[i], t).complete
               /\ kept[i].by = "job" => Expected \subseteq kept[i].expected
    <3>1. kept[i] \in Campaigns /\ SoundCampaign(kept[i])
      BY <1>1, ElementOfSeq DEF AggregationInv, KeptSound
    <3>2. kept[i].expected \subseteq Tools
      BY <3>1 DEF Campaigns
    <3>3. \A t \in kept[i].expected : ComputeMetric(kept[i], t).complete
      BY <2>1, <3>1, <3>2, CoverageSays
    <3> QED BY <3>1, <3>3 DEF SoundCampaign
  <2> QED BY <2>1 DEF CompleteIsComplete
<1> QED BY <1>1, AggregationInvHolds, PTL

\* The metric counts a requirement once, as verified only if each mandatory
\* variant has a conforming result, and no failing variant is hidden by another
\* (docs/methodology.md:56); of a tool that was not measured it says so.
THEOREM MetricIsOfRequirements == AggregationSpec => []MetricCountsRequirements
<1>1. ASSUME NEW campaign, SoundCampaign(campaign), NEW t \in Tools
      PROVE  MetricIsRight(campaign, t)
  <2> DEFINE R == Requirements(t)
             of(class) == {r \in R : Class(StatusesOf(campaign, t, r)) = class}
  <2>1. \A r \in R :
          /\ Class(StatusesOf(campaign, t, r))
               \in {"conforming", "nonconforming", "inconclusive", "unsupported"}
          /\ Class(StatusesOf(campaign, t, r)) = "conforming" <=>
               \A c \in Variants(t, r) : ResultFor(campaign, t, c, "conforming")
          /\ Class(StatusesOf(campaign, t, r)) = "nonconforming" <=>
               \E c \in Variants(t, r) : ResultFor(campaign, t, c, "nonconforming")
    BY <1>1, ClassSays
  <2>2. /\ ComputeMetric(campaign, t).denominator = Cardinality(R)
        /\ ComputeMetric(campaign, t).numerator = Cardinality(of("conforming"))
        /\ ComputeMetric(campaign, t).nonconforming = Cardinality(of("nonconforming"))
        /\ ComputeMetric(campaign, t).inconclusive = Cardinality(of("inconclusive"))
        /\ ComputeMetric(campaign, t).unsupported = Cardinality(of("unsupported"))
    BY DEF ComputeMetric
  <2>3. /\ of("conforming") = {r \in R : \A c \in Variants(t, r) : ResultFor(campaign, t, c, "conforming")}
        /\ of("nonconforming") =
             {r \in R : \E c \in Variants(t, r) : ResultFor(campaign, t, c, "nonconforming")}
    BY <2>1
  <2>4. Cardinality(of("conforming")) + Cardinality(of("nonconforming"))
          + Cardinality(of("inconclusive")) + Cardinality(of("unsupported")) = Cardinality(R)
    <3> DEFINE A == of("conforming")  B == of("nonconforming")
               C == of("inconclusive")  D == of("unsupported")
    <3>1. R = A \cup B \cup C \cup D
      BY <2>1
    <3>2. A \cap B = {} /\ (A \cup B) \cap C = {} /\ (A \cup B \cup C) \cap D = {}
      OBVIOUS
    <3>3. IsFiniteSet(R)
      BY RequirementsFinite
    <3> HIDE DEF A, B, C, D, R
    <3>4. Cardinality(A) + Cardinality(B) + Cardinality(C) + Cardinality(D) = Cardinality(R)
      BY <3>1, <3>2, <3>3, FourClasses
    <3> QED BY <3>4 DEF A, B, C, D
  <2>5. t \in campaign.missing \cup campaign.failed /\ R # {} =>
          /\ ~ ComputeMetric(campaign, t).complete
          /\ ComputeMetric(campaign, t).state =
               IF t \in campaign.failed THEN "harness-error" ELSE "missing-tool"
    BY <1>1, CoverageSays
  <2> HIDE DEF of
  <2> QED BY <2>2, <2>3, <2>4, <2>5 DEF MetricIsRight
<1>2. ASSUME AggregationInv PROVE MetricCountsRequirements
  <2>1. ASSUME NEW i \in 1..Len(kept), NEW t \in Tools PROVE MetricIsRight(kept[i], t)
    <3>1. SoundCampaign(kept[i])
      BY <1>2 DEF AggregationInv, KeptSound
    <3> QED BY <3>1, <1>1
  <2>2. ASSUME NEW t \in Tools
        PROVE  /\ Scoped(t) = {c \in CaseSet : Counts(t, c)}
               /\ Requirements(t) = {Facts[c].requirement : c \in {d \in CaseSet : Counts(t, d)}}
               /\ \A r : Variants(t, r) = {c \in CaseSet : Counts(t, c) /\ Facts[c].requirement = r}
    <3>1. Supports[t] \subseteq CaseSet
      BY HeadlineMetricAssumption
    <3>2. Scoped(t) = {c \in CaseSet : Counts(t, c)}
      BY <3>1 DEF Scoped, Counts
    <3> QED BY <3>2 DEF Requirements, Variants
  <2>3. ASSUME NEW i \in 1..Len(kept), NEW t \in Tools
        PROVE  LET metric == ComputeMetric(kept[i], t)
                   counts(c) == /\ Facts[c].mandatory /\ Facts[c].requirementApplies
                                /\ c \in Supports[t] /\ Facts[c].applicability \in Applies
                   has(c, status) == [case |-> c, tool |-> t, status |-> status]
                                       \in Range(kept[i].results)
                   required == {Facts[c].requirement : c \in {d \in CaseSet : counts(d)}}
                   variants(r) == {c \in CaseSet : counts(c) /\ Facts[c].requirement = r}
               IN  /\ metric.denominator = Cardinality(required)
                   /\ metric.numerator = Cardinality(
                        {r \in required : \A c \in variants(r) : has(c, "conforming")})
                   /\ metric.nonconforming = Cardinality(
                        {r \in required : \E c \in variants(r) : has(c, "nonconforming")})
                   /\ metric.numerator + metric.nonconforming + metric.inconclusive
                        + metric.unsupported = metric.denominator
                   /\ t \in kept[i].missing \cup kept[i].failed /\ required # {} =>
                        /\ ~metric.complete
                        /\ metric.state = IF t \in kept[i].failed THEN "harness-error"
                                         ELSE "missing-tool"
    <3> DEFINE required == {Facts[c].requirement : c \in {d \in CaseSet : Counts(t, d)}}
               variants(r) == {c \in CaseSet : Counts(t, c) /\ Facts[c].requirement = r}
               has(c, status) == ResultFor(kept[i], t, c, status)
               metric == ComputeMetric(kept[i], t)
    <3>1. required = Requirements(t) /\ \A r : variants(r) = Variants(t, r)
      BY <2>2
    <3>2. MetricIsRight(kept[i], t)
      BY <2>1
    <3> HIDE DEF required, variants, metric
    <3>3. /\ {r \in required : \A c \in variants(r) : has(c, "conforming")}
               = {r \in Requirements(t) : \A c \in Variants(t, r) : has(c, "conforming")}
          /\ {r \in required : \E c \in variants(r) : has(c, "nonconforming")}
               = {r \in Requirements(t) : \E c \in Variants(t, r) : has(c, "nonconforming")}
      BY <3>1
    <3>4. /\ metric.denominator = Cardinality(required)
          /\ metric.numerator = Cardinality(
               {r \in required : \A c \in variants(r) : has(c, "conforming")})
          /\ metric.nonconforming = Cardinality(
               {r \in required : \E c \in variants(r) : has(c, "nonconforming")})
          /\ metric.numerator + metric.nonconforming + metric.inconclusive
               + metric.unsupported = metric.denominator
          /\ t \in kept[i].missing \cup kept[i].failed /\ required # {} =>
               /\ ~metric.complete
               /\ metric.state = IF t \in kept[i].failed THEN "harness-error"
                                ELSE "missing-tool"
      BY <3>1, <3>2, <3>3 DEF MetricIsRight, metric
    <3> QED BY <3>4 DEF required, variants, metric, Counts, ResultFor
  <2> QED BY <2>3 DEF MetricCountsRequirements
<1> QED BY <1>2, AggregationInvHolds, PTL

=============================================================================
