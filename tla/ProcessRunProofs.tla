-------------------------- MODULE ProcessRunProofs --------------------------
(***************************************************************************)
(* Proofs about ProcessRun for any descendants, streams, limits and bytes, *)
(* with and without escapes and interrupts.                                *)
(*                                                                         *)
(* A group can only grow from a live member, so once it was found empty or *)
(* was killed it stays empty: GroupFollowsCaller says where the caller     *)
(* knows it.  EndFollowsCaller says the same of how the leader ended,      *)
(* BytesAccounted where each byte of a stream is up to its capture, and    *)
(* ExcerptKept which of them the collector's head and tail hold.           *)
(***************************************************************************)
EXTENDS ProcessRun, SequenceTheorems, TLAPS

ControlTypes ==
  /\ pc \in Phases /\ why \in Reasons /\ outcome \in Outcomes
  /\ leader \in {"none", "running", "zombie", "reaped"}
  /\ leaderEnd \in {"none", "exit", "crash", "killed"}

\* What the caller's position says of the process group.
GroupFollowsCaller ==
  /\ leader = "none" => group = {}
  /\ pc = "start" => leader = "none"
  /\ pc \notin {"start", "done"} => leader # "none"
  /\ pc = "group" => leader = "reaped"
  /\ pc = "reap" => group = {} /\ leader \in {"zombie", "reaped"}
  /\ pc \in {"join", "finish", "head", "tail", "record"} => ~GroupExists
  /\ NoGroupSurvivor

\* What the caller's position says of how the leader ended.
EndFollowsCaller ==
  /\ leader \in {"none", "running"} => leaderEnd = "none"
  /\ leader \in {"zombie", "reaped"} => leaderEnd # "none"
  /\ pc \in {"start", "poll", "clock", "wait", "group"} =>
       leaderEnd # "killed" /\ why = "none"
  /\ pc \in {"term", "reap", "join", "finish", "head", "tail", "record"} =>
       (why \in {"none", "leftover"} => leader = "reaped" /\ leaderEnd # "killed")
  /\ pc # "done" => outcome = "none"
  /\ outcome \in {"normal-exit", "signal"} => leader = "reaped"
  /\ OwnKillNeverReported

IInv == ControlTypes /\ GroupFollowsCaller /\ EndFollowsCaller

Captures == [size : Nat, hashed : Nat, head : Seq(Nat), tail : Seq(Nat),
             truncated : BOOLEAN]
Finishing == {"finish", "head", "tail", "record"}

StreamTypes ==
  /\ written \in [Names -> Nat] /\ piped \in [Names -> Nat]
  /\ inRead \in [Names -> Nat] /\ size \in [Names -> Nat]
  /\ hashed \in [Names -> Nat]
  /\ head \in [Names -> Seq(Nat)] /\ tail \in [Names -> Seq(Nat)]
  /\ drain \in [Names -> {"read", "logged", "counted", "headed", "trim", "closed"}]
  /\ capture \in [Names -> Captures]
  /\ joining \in 1..Len(Streams) /\ gaveUp \subseteq Names
  /\ finished \subseteq Names

\* Every byte written is in the pipe, in hand, or counted; it is counted before
\* it is hashed, hashed before the rest of its chunk is placed, and nothing is
\* written to a pipe whose read end is closed.
BytesAccounted(s) ==
  /\ drain[s] \in {"read", "logged"} =>
       hashed[s] = size[s] /\ written[s] = size[s] + piped[s] + inRead[s]
  /\ drain[s] = "counted" => size[s] = hashed[s] + inRead[s]
  /\ drain[s] \in {"headed", "trim", "closed"} => hashed[s] = size[s]
  /\ drain[s] \in {"counted", "headed", "trim"} => written[s] = size[s] + piped[s]
  /\ drain[s] = "headed" => inRead[s] = 0 \/ HeadLimit + inRead[s] <= size[s]
  /\ drain[s] = "trim" => inRead[s] = 0
  /\ drain[s] = "closed" => size[s] <= written[s]
  /\ drain[s] = "closed" /\ s \notin gaveUp => size[s] = written[s]

\* The head and the tail of a stream of n bytes.
HeadOf(n) == Bytes(1, IF n < HeadLimit THEN n ELSE HeadLimit)
TailFrom(n) == IF n - TailLimit < HeadLimit THEN HeadLimit ELSE n - TailLimit
TailOf(n) == IF n <= HeadLimit THEN << >> ELSE Bytes(TailFrom(n) + 1, n)

\* Which bytes the collector holds: those of the digested prefix, but for a
\* rest of a chunk still in hand and a tail still to be trimmed.
ExcerptKept(s) ==
  /\ head[s] = HeadOf(hashed[s])
  /\ drain[s] \notin {"headed", "trim"} => tail[s] = TailOf(hashed[s])
  /\ drain[s] = "headed" => tail[s] = TailOf(size[s] - inRead[s])
  /\ drain[s] = "trim" => \E b \in HeadLimit..size[s] :
                           b + TailLimit < size[s] /\ tail[s] = Bytes(b + 1, size[s])

Untouched(s) == drain[s] = "closed" /\ piped[s] = 0 /\ inRead[s] = 0
Joined(s) == s \in gaveUp \/ drain[s] = "closed"

\* What a copied head and a copied tail may hold, of a stream of up to n bytes.
Headed(h, n) == \E k \in 0..n : k <= HeadLimit /\ h = Bytes(1, k)
Tailed(r, n) == \/ r = << >>
                \/ \E b, m \in HeadLimit..n : b <= m /\ r = Bytes(b + 1, m)

Whole(s) == FaithfulCapture(s)
Partial(s) == /\ capture[s].size <= written[s]
              /\ Headed(capture[s].head, capture[s].size)
              /\ Tailed(capture[s].tail, capture[s].size)
Captured(s) == Partial(s) /\ (s \in gaveUp \/ Whole(s))

\* What finish() has built so far of the capture of s when the caller is at p.
InCapture(s, p) ==
  /\ p \in {"head", "tail", "record"} /\ s \notin gaveUp =>
       capture[s].truncated = (written[s] > Limit)
  /\ p \in {"tail", "record"} => Headed(capture[s].head, size[s])
  /\ p \in {"tail", "record"} /\ s \notin gaveUp => capture[s].head = HeadOf(written[s])
  /\ p = "record" => Tailed(capture[s].tail, size[s])
  /\ p = "record" /\ s \notin gaveUp => capture[s].tail = TailOf(written[s])

\* What the caller's position says of the threads and the captures: a stream
\* is captured after its thread ended or its join gave up.
CaptureFollowsCaller ==
  /\ pc = "start" => finished = {} /\ \A s \in Names : Untouched(s)
  /\ pc \notin Finishing \cup {"join", "done"} => joining = 1 /\ gaveUp = {}
  /\ pc = "join" => \A i \in 1..joining - 1 : Joined(Streams[i])
  /\ pc \in Finishing \/ Returned => \A s \in Names : Joined(s)
  /\ \A s \in finished : Joined(s)
  /\ pc \in Finishing => \A i \in 1..joining - 1 : Captured(Streams[i])
  /\ pc \in Finishing => InCapture(Streams[joining], pc)
  /\ Returned => \A s \in Names : Captured(s)
  /\ Unbounded => gaveUp = {}
  /\ outcome = "timeout" => why = "timeout"
  /\ Returned => pc = "done"

CInv == /\ StreamTypes /\ CaptureFollowsCaller
        /\ \A s \in Names : BytesAccounted(s) /\ ExcerptKept(s)

LEMMA InitIInv == Init => IInv
BY DEF Init, IInv, ControlTypes, GroupFollowsCaller, EndFollowsCaller, Phases,
       Reasons, Outcomes, GroupExists, NoGroupSurvivor, OwnKillNeverReported

\* Drains, the clock and the event touch nothing the invariant speaks of.
LEMMA OthersKeepIInv ==
  ASSUME IInv, UNCHANGED <<caller, leader, leaderEnd, group>>
  PROVE  IInv'
BY DEF IInv, ControlTypes, GroupFollowsCaller, EndFollowsCaller, caller,
       GroupExists, NoGroupSurvivor, OwnKillNeverReported

\* From the start to the end of the wait loop.
LEMMA WaitLoopKeepsIInv ==
  ASSUME IInv,
         \/ RefuseCancelled \/ LaunchFailure \/ Launch \/ LaunchUnsupervised
         \/ PollCancel \/ CheckClock \/ WaitExpires \/ WaitReturns \/ CheckGroup
  PROVE  IInv'
<1> USE DEF IInv, ControlTypes, GroupFollowsCaller, EndFollowsCaller, GroupExists,
            NoGroupSurvivor, OwnKillNeverReported, Phases, Reasons, Outcomes
<1>1. CASE RefuseCancelled
  BY <1>1 DEF RefuseCancelled, procs
<1>2. CASE LaunchFailure
  BY <1>2 DEF LaunchFailure, procs
<1>3. CASE Launch
  BY <1>3 DEF Launch
<1>4. CASE PollCancel
  BY <1>4 DEF PollCancel, procs
<1>5. CASE CheckClock
  BY <1>5 DEF CheckClock, procs
<1>6. CASE WaitExpires
  BY <1>6 DEF WaitExpires, procs
<1>7. CASE WaitReturns
  BY <1>7 DEF WaitReturns
<1>8. CASE CheckGroup
  BY <1>8 DEF CheckGroup, procs
<1>9. CASE LaunchUnsupervised
  BY <1>9 DEF LaunchUnsupervised
<1> QED
  BY <1>1, <1>2, <1>3, <1>4, <1>5, <1>6, <1>7, <1>8, <1>9

\* Terminating the group, joining the drains and recording.
LEMMA TerminationKeepsIInv ==
  ASSUME IInv,
         \/ TermPoll \/ TermGroupGone \/ TermKill \/ Reap
         \/ JoinReturns \/ JoinGivesUp
         \/ FinishFlag \/ FinishHead \/ FinishTail \/ FinishRecord
  PROVE  IInv'
<1> USE DEF IInv, ControlTypes, GroupFollowsCaller, EndFollowsCaller, GroupExists,
            NoGroupSurvivor, OwnKillNeverReported, Phases, Reasons, Outcomes
<1>1. CASE TermPoll
  BY <1>1 DEF TermPoll, caller
<1>2. CASE TermGroupGone
  BY <1>2 DEF TermGroupGone, procs
<1>3. CASE TermKill
  BY <1>3 DEF TermKill
<1>4. CASE Reap
  BY <1>4 DEF Reap
<1>5. CASE JoinReturns \/ JoinGivesUp
  BY <1>5 DEF JoinReturns, JoinGivesUp, JoinNext, procs
<1>6. CASE FinishFlag \/ FinishHead \/ FinishTail
  BY <1>6 DEF FinishFlag, FinishHead, FinishTail, procs
<1>7. CASE FinishRecord
  BY <1>7 DEF FinishRecord, Verdict, procs
<1> QED
  BY <1>1, <1>2, <1>3, <1>4, <1>5, <1>6, <1>7

LEMMA InterruptKeepsIInv ==
  ASSUME IInv, InterruptLoop \/ InterruptLate
  PROVE  IInv'
<1> USE DEF IInv, ControlTypes, GroupFollowsCaller, EndFollowsCaller, GroupExists,
            NoGroupSurvivor, OwnKillNeverReported, Phases, Reasons, Outcomes
<1>1. CASE InterruptLoop
  BY <1>1 DEF InterruptLoop, procs
<1>2. CASE InterruptLate
  BY <1>2 DEF InterruptLate, procs
<1> QED
  BY <1>1, <1>2

\* A process ends, forks or leaves the group only while it lives in it.
LEMMA ProcessesKeepIInv ==
  ASSUME IInv, Processes
  PROVE  IInv'
<1>1. CASE \E s \in Names : Write(s)
  BY <1>1, OthersKeepIInv DEF Write, procs
<1>2. ASSUME NEW how \in {"exit", "crash"}, LeaderEnds(how)
      PROVE  IInv'
  BY <1>2 DEF LeaderEnds, IInv, ControlTypes, GroupFollowsCaller, EndFollowsCaller,
              GroupExists, NoGroupSurvivor, OwnKillNeverReported, caller
<1>3. ASSUME NEW d \in Descendants, Fork(d) \/ DescendantEnds(d) \/ Escape(d)
      PROVE  IInv'
  <2>1. /\ UNCHANGED <<caller, leader, leaderEnd>>
        /\ leader # "running" /\ group = {} => group' = {}
    BY <1>3 DEF Fork, DescendantEnds, Escape
  <2> QED
    BY <2>1 DEF IInv, ControlTypes, GroupFollowsCaller, EndFollowsCaller,
                GroupExists, NoGroupSurvivor, OwnKillNeverReported, caller
<1>4. CASE \E p \in Descendants \cup {Leader} : CloseStdio(p)
  BY <1>4, OthersKeepIInv DEF CloseStdio
<1> QED
  BY <1>1, <1>2, <1>3, <1>4 DEF Processes

LEMMA NextKeepsIInv == IInv /\ [Next]_vars => IInv'
<1> SUFFICES ASSUME IInv, [Next]_vars PROVE IInv'
  OBVIOUS
<1>1. CASE Caller
  BY <1>1, WaitLoopKeepsIInv, TerminationKeepsIInv DEF Caller
<1>2. CASE InterruptLoop \/ InterruptLate
  BY <1>2, InterruptKeepsIInv
<1>3. CASE \E s \in Names : Drain(s)
  BY <1>3, OthersKeepIInv DEF Drain, DrainRead, DrainEOF, DrainLog, DrainCount,
     DrainHead, DrainTail, DrainTrim, procs
<1>4. CASE Expire \/ Cancel \/ UNCHANGED vars
  BY <1>4, OthersKeepIInv DEF Expire, Cancel, vars, procs
<1>5. CASE Processes
  BY <1>5, ProcessesKeepIInv
<1> QED
  BY <1>1, <1>2, <1>3, <1>4, <1>5 DEF Next

\* The inductive invariant holds throughout every call of run_process.
THEOREM IInvHolds == Spec => []IInv
BY InitIInv, NextKeepsIInv, PTL DEF Spec

\* However the tool forks, escapes, ignores SIGTERM or closes its pipes, when
\* run_process is over its process group is empty and its leader reaped, save
\* for a failure between Popen and the try and a KeyboardInterrupt while the
\* group is looked for or ended (process.py 115-129, 197-209).
THEOREM GroupNeverSurvives == Spec => []NoGroupSurvivor
<1>1. IInv => NoGroupSurvivor
  BY DEF IInv, GroupFollowsCaller
<1> QED
  BY <1>1, IInvHolds, PTL

\* A leader the harness signalled is never reported as having exited or
\* crashed by itself (process.py 215-242).
THEOREM KillsAreOwned == Spec => []OwnKillNeverReported
<1>1. IInv => OwnKillNeverReported
  BY DEF IInv, EndFollowsCaller
<1> QED
  BY <1>1, IInvHolds, PTL

-----------------------------------------------------------------------------
(* The excerpt: what consume does to a head and a tail of known bytes. *)

LEMMA Limits ==
  /\ HeadLimit \in Nat /\ TailLimit \in Nat /\ Limit \in Nat
  /\ HeadLimit + TailLimit = Limit
  /\ TailLimit = 0 => HeadLimit = 0
BY ProcessRunAssumption DEF HeadLimit, TailLimit

LEMMA BytesSeq ==
  ASSUME NEW b \in Nat, NEW j \in Nat, b <= j
  PROVE  /\ Bytes(b + 1, j) \in Seq(Nat) /\ Len(Bytes(b + 1, j)) = j - b
         /\ \A k \in 1..(j - b) : Bytes(b + 1, j)[k] = b + k
<1>1. PICK n \in Nat : n = j - b
  OBVIOUS
<1>2. Bytes(b + 1, j) = [k \in 1..n |-> b + k]
  BY <1>1 DEF Bytes
<1>3. /\ [k \in 1..n |-> b + k] \in Seq(Nat)
      /\ Len([k \in 1..n |-> b + k]) = n
  OBVIOUS
<1> QED
  BY <1>1, <1>2, <1>3

\* Consecutive stretches of a stream make one stretch.
LEMMA BytesJoin ==
  ASSUME NEW b \in Nat, NEW j \in Nat, NEW k \in Nat, b <= j, j <= k
  PROVE  Bytes(b + 1, j) \o Bytes(j + 1, k) = Bytes(b + 1, k)
<1> DEFINE p == Bytes(b + 1, j)
           q == Bytes(j + 1, k)
           w == Bytes(b + 1, k)
<1>1. p \in Seq(Nat) /\ Len(p) = j - b /\ \A n \in 1..(j - b) : p[n] = b + n
  BY BytesSeq
<1>2. q \in Seq(Nat) /\ Len(q) = k - j /\ \A n \in 1..(k - j) : q[n] = j + n
  BY BytesSeq
<1>3. b <= k
  OBVIOUS
<1>4. w \in Seq(Nat) /\ Len(w) = k - b /\ \A n \in 1..(k - b) : w[n] = b + n
  BY <1>3, BytesSeq
<1> HIDE DEF p, q, w
<1>5. /\ p \o q \in Seq(Nat) /\ Len(p \o q) = Len(p) + Len(q)
      /\ \A n \in 1..Len(p) + Len(q) :
           (p \o q)[n] = IF n <= Len(p) THEN p[n] ELSE q[n - Len(p)]
  BY <1>1, <1>2, ConcatProperties
<1>6. Len(p) + Len(q) = k - b
  BY <1>1, <1>2
<1>7. ASSUME NEW n \in 1..(k - b) PROVE (p \o q)[n] = w[n]
  <2>1. CASE n <= j - b
    BY <1>1, <1>4, <1>5, <1>6, <2>1
  <2>2. CASE n > j - b
    <3>1. PICK m \in 1..(k - j) : m = n - (j - b)
      BY <2>2
    <3>2. (p \o q)[n] = q[m]
      BY <1>1, <1>5, <1>6, <2>2, <3>1
    <3>3. q[m] = j + m /\ w[n] = b + n
      BY <1>2, <1>4
    <3> QED
      BY <3>1, <3>2, <3>3
  <2>3. n <= j - b \/ n > j - b
    OBVIOUS
  <2> QED
    BY <2>1, <2>2, <2>3
<1>8. p \o q = w
  BY <1>4, <1>5, <1>6, <1>7, SeqEqual
<1> QED
  BY <1>8 DEF p, q, w

\* SubSeq as an operator the provers do not expand.
Part(r, x, d) == SubSeq(r, x, d)

\* A stretch of a stretch.
LEMMA BytesCut ==
  ASSUME NEW i \in Nat, NEW j \in Nat, 0 < i, i <= j + 1,
         NEW x \in Nat, NEW d \in Nat, 0 < x, x <= d + 1, d <= j - i + 1,
         NEW e \in Nat, e = i + x - 1, NEW f \in Nat, f = i + d - 1
  PROVE  Part(Bytes(i, j), x, d) = Bytes(e, f)
<1> DEFINE r == Bytes(i, j)
           w == Bytes(e, f)
           y == SubSeq(r, x, d)
<1>0. PICK b \in Nat, c \in Nat : /\ i = b + 1 /\ e = c + 1 /\ b <= j /\ c <= f
                                  /\ j - b = j - i + 1 /\ f - c = d - x + 1
  <2>1. /\ i - 1 \in Nat /\ e - 1 \in Nat /\ i = (i - 1) + 1 /\ e = (e - 1) + 1
        /\ i - 1 <= j /\ e - 1 <= f
        /\ j - (i - 1) = j - i + 1 /\ f - (e - 1) = d - x + 1
    OBVIOUS
  <2> QED
    BY <2>1
<1>1. r \in Seq(Nat) /\ Len(r) = j - b /\ \A n \in 1..(j - b) : r[n] = b + n
  <2>1. /\ Bytes(b + 1, j) \in Seq(Nat) /\ Len(Bytes(b + 1, j)) = j - b
        /\ \A n \in 1..(j - b) : Bytes(b + 1, j)[n] = b + n
    BY <1>0, BytesSeq
  <2> QED
    BY <1>0, <2>1
<1>2. w \in Seq(Nat) /\ Len(w) = f - c /\ \A n \in 1..(f - c) : w[n] = c + n
  <2>1. /\ Bytes(c + 1, f) \in Seq(Nat) /\ Len(Bytes(c + 1, f)) = f - c
        /\ \A n \in 1..(f - c) : Bytes(c + 1, f)[n] = c + n
    BY <1>0, BytesSeq
  <2> QED
    BY <1>0, <2>1
<1> HIDE DEF r, w
<1>3. \A n \in x..d : r[n] \in Nat
  BY <1>0, <1>1
<1>4. /\ y \in Seq(Nat)
      /\ Len(y) = IF x <= d THEN d - x + 1 ELSE 0
      /\ \A n \in 1..d - x + 1 : y[n] = r[x + n - 1]
  <2>1. x \in Int /\ d \in Int
    OBVIOUS
  <2> QED
    BY <1>3, <2>1, SubSeqProperties
<1> HIDE DEF y
<1>5. Len(y) = f - c
  BY <1>0, <1>4
<1>6. ASSUME NEW n \in 1..(f - c) PROVE y[n] = w[n]
  <2>1. PICK m \in 1..(j - b) : m = x + n - 1
    BY <1>0
  <2>2. y[n] = r[m]
    BY <1>0, <1>4, <2>1
  <2>3. r[m] = b + m /\ w[n] = c + n
    BY <1>1, <1>2
  <2> QED
    BY <1>0, <2>1, <2>2, <2>3
<1>7. y = w
  BY <1>2, <1>4, <1>5, <1>6, SeqEqual
<1> QED
  BY <1>7 DEF r, w, y, Part

LEMMA BytesNone ==
  ASSUME NEW b \in Nat
  PROVE  Bytes(b + 1, b) = << >>
<1>1. b <= b /\ b - b = 0
  OBVIOUS
<1>2. Bytes(b + 1, b) \in Seq(Nat) /\ Len(Bytes(b + 1, b)) = 0
  BY <1>1, BytesSeq
<1> QED
  BY <1>2, EmptySeq

LEMMA HeadOfLength ==
  ASSUME NEW n \in Nat
  PROVE  /\ HeadOf(n) \in Seq(Nat)
         /\ Len(HeadOf(n)) = IF n < HeadLimit THEN n ELSE HeadLimit
         /\ Headed(HeadOf(n), n)
<1>1. PICK k \in 0..n : k = (IF n < HeadLimit THEN n ELSE HeadLimit)
  BY Limits
<1>2. HeadOf(n) = Bytes(1, k) /\ k <= HeadLimit
  BY <1>1, Limits DEF HeadOf
<1>3. Bytes(0 + 1, k) \in Seq(Nat) /\ Len(Bytes(0 + 1, k)) = k - 0
  <2>1. 0 \in Nat /\ k \in Nat /\ 0 <= k
    OBVIOUS
  <2> QED
    BY <2>1, BytesSeq
<1>4. 0 + 1 = 1 /\ k - 0 = k
  OBVIOUS
<1> QED
  BY <1>1, <1>2, <1>3, <1>4 DEF Headed

LEMMA TailOfTailed ==
  ASSUME NEW n \in Nat
  PROVE  TailOf(n) \in Seq(Nat) /\ Tailed(TailOf(n), n)
<1>1. CASE n <= HeadLimit
  BY <1>1, EmptySeq DEF TailOf, Tailed
<1>2. CASE n > HeadLimit
  <2>1. PICK b \in HeadLimit..n : b = TailFrom(n)
    BY <1>2, Limits DEF TailFrom
  <2>2. TailOf(n) = Bytes(b + 1, n) /\ b \in Nat /\ b <= n
    BY <1>2, <2>1, Limits DEF TailOf
  <2>3. n \in HeadLimit..n /\ b <= n
    BY <1>2, <2>1, Limits
  <2> QED
    BY <2>1, <2>2, <2>3, BytesSeq DEF Tailed
<1> QED
  BY <1>1, <1>2, Limits

\* The head takes what it has room for of a chunk of m bytes after n, and then
\* is the head of n + m bytes; what is left lies behind the head.
LEMMA HeadTakes ==
  ASSUME NEW n \in Nat, NEW m \in Nat, NEW take \in Nat,
         LET room == HeadLimit - Len(HeadOf(n))
         IN  take = IF m < room THEN m ELSE room
  PROVE  /\ HeadOf(n) \o SubSeq(Bytes(n + 1, n + m), 1, take) = HeadOf(n + m)
         /\ take <= m
         /\ take = m \/ HeadLimit + (m - take) <= n + m
         /\ TailOf(n + take) = TailOf(n)
<1>1. Len(HeadOf(n)) = IF n < HeadLimit THEN n ELSE HeadLimit
  BY HeadOfLength
<1>2. HeadLimit \in Nat /\ TailLimit \in Nat
  BY Limits
<1>3. PICK k \in Nat : k = Len(HeadOf(n)) /\ k <= n /\ k <= HeadLimit
                       /\ (k = n \/ k = HeadLimit)
  BY <1>1, <1>2
<1>4. take = (IF m < HeadLimit - k THEN m ELSE HeadLimit - k)
  BY <1>3
<1>5. HeadOf(n) = Bytes(1, k)
  BY <1>1, <1>2, <1>3 DEF HeadOf
<1>6. /\ take <= m /\ (take = 0 \/ k = n)
      /\ take = m \/ HeadLimit + (m - take) <= n + m
      /\ k + take = IF n + m < HeadLimit THEN n + m ELSE HeadLimit
      /\ take = 0 \/ n + take <= HeadLimit
  BY <1>1, <1>2, <1>3, <1>4
<1>7. HeadOf(n + m) = Bytes(1, k + take)
  BY <1>6 DEF HeadOf
<1>8. SubSeq(Bytes(n + 1, n + m), 1, take) = Bytes(n + 1, n + take)
  <2>1. n + 1 \in Nat /\ n + m \in Nat /\ n + take \in Nat
    OBVIOUS
  <2>2. PICK i \in Nat : i = n + 1
    BY <2>1
  <2>3. PICK j \in Nat : j = n + m
    BY <2>1
  <2>4. PICK f \in Nat : f = n + take
    BY <2>1
  <2>5. /\ 0 < i /\ i <= j + 1 /\ 1 \in Nat /\ 0 < 1 /\ 1 <= take + 1
        /\ take <= j - i + 1 /\ i = i + 1 - 1 /\ f = i + take - 1
    BY <1>6, <2>2, <2>3, <2>4
  <2>6. Part(Bytes(i, j), 1, take) = Bytes(i, f)
    BY <2>5, BytesCut
  <2>7. SubSeq(Bytes(i, j), 1, take) = Bytes(i, f)
    BY <2>6 DEF Part
  <2> QED
    BY <2>2, <2>3, <2>4, <2>7
<1>9. Bytes(1, k) \o Bytes(n + 1, n + take) = Bytes(1, k + take)
  <2>1. CASE take = 0
    <3>1. Bytes(n + 1, n) = << >>
      BY BytesNone
    <3>2. HeadOf(n) \o << >> = HeadOf(n)
      BY HeadOfLength, ConcatEmptySeq
    <3>3. k + take = k /\ n + take = n
      BY <2>1
    <3> QED
      BY <1>5, <3>1, <3>2, <3>3
  <2>2. CASE k = n
    <3>1. PICK e \in Nat : e = k + take /\ k <= e
      OBVIOUS
    <3>2. Bytes(0 + 1, k) \o Bytes(k + 1, e) = Bytes(0 + 1, e)
      <4>1. 0 \in Nat /\ 0 <= k
        OBVIOUS
      <4> QED
        BY <3>1, <4>1, BytesJoin
    <3>3. 0 + 1 = 1
      OBVIOUS
    <3> QED
      BY <2>2, <3>1, <3>2, <3>3
  <2> QED
    BY <1>6, <2>1, <2>2
<1>10. TailOf(n + take) = TailOf(n)
  <2>1. CASE take = 0
    <3>1. n + take = n
      BY <2>1
    <3> QED
      BY <3>1
  <2>2. CASE n + take <= HeadLimit
    <3>1. n <= HeadLimit
      BY <1>2, <2>2
    <3> QED
      BY <2>2, <3>1 DEF TailOf
  <2> QED
    BY <1>6, <2>1, <2>2
<1> QED
  BY <1>5, <1>6, <1>7, <1>8, <1>9, <1>10

\* The tail of a bytes with the rest of a chunk, up to n.
Longer(a, n) == IF TailLimit > 0 THEN TailOf(a) \o Bytes(a + 1, n) ELSE TailOf(a)

\* The tail takes a rest that ends at n: it is the tail of n bytes, or ends in
\* it and is too long.
LEMMA TailTakes ==
  ASSUME NEW n \in Nat, NEW a \in Nat, a <= n, a = n \/ HeadLimit <= a
  PROVE  /\ Longer(a, n) \in Seq(Nat)
         /\ Len(Longer(a, n)) <= TailLimit => Longer(a, n) = TailOf(n)
         /\ Len(Longer(a, n)) > TailLimit =>
              \E b \in HeadLimit..n : b + TailLimit < n /\ Longer(a, n) = Bytes(b + 1, n)
<1> DEFINE longer == Longer(a, n)
<1>1. /\ HeadLimit \in Nat /\ TailLimit \in Nat
      /\ TailLimit = 0 => HeadLimit = 0
  BY Limits
<1>2. PICK m \in Nat : a + m = n /\ (m = 0 \/ HeadLimit <= a)
  <2>1. n - a \in Nat /\ a + (n - a) = n /\ (n - a = 0 \/ HeadLimit <= a)
    BY <1>1
  <2> QED
    BY <2>1
<1>3. TailOf(a) \in Seq(Nat)
  BY TailOfTailed
<1>4. longer = IF TailLimit > 0 THEN TailOf(a) \o Bytes(a + 1, n) ELSE TailOf(a)
  BY DEF Longer
<1> SUFFICES /\ longer \in Seq(Nat)
             /\ Len(longer) <= TailLimit => longer = TailOf(n)
             /\ Len(longer) > TailLimit =>
                  \E b \in HeadLimit..n : b + TailLimit < n /\ longer = Bytes(b + 1, n)
  OBVIOUS
<1> HIDE DEF longer
<1>5. CASE TailLimit = 0
  <2>1. longer = TailOf(a) /\ HeadLimit = 0
    BY <1>1, <1>4, <1>5
  <2>2. ASSUME NEW x \in Nat PROVE TailOf(x) = << >>
    <3>1. CASE x <= HeadLimit
      BY <3>1 DEF TailOf
    <3>2. CASE x > HeadLimit
      <4>1. TailOf(x) = Bytes(x + 1, x)
        BY <1>1, <1>5, <2>1, <3>2 DEF TailOf, TailFrom
      <4> QED
        BY <4>1, BytesNone
    <3> QED
      BY <1>1, <3>1, <3>2
  <2>3. longer = << >> /\ TailOf(n) = << >>
    BY <2>1, <2>2
  <2>4. << >> \in Seq(Nat) /\ Len(<< >>) = 0
    BY EmptySeq
  <2>5. Len(longer) = 0 /\ longer \in Seq(Nat)
    BY <2>3, <2>4
  <2>6. ~(Len(longer) > TailLimit)
    BY <1>5, <2>5
  <2> QED
    BY <2>3, <2>5, <2>6
<1>6. CASE TailLimit > 0 /\ m = 0
  <2>1. Bytes(a + 1, n) = << >>
    BY <1>2, <1>6, BytesNone
  <2>2. longer = TailOf(a) /\ a = n
    BY <1>2, <1>3, <1>4, <1>6, <2>1, ConcatEmptySeq
  <2>3. Len(TailOf(n)) \in Nat /\ Len(TailOf(n)) <= TailLimit
    <3>1. CASE n <= HeadLimit
      <4>1. TailOf(n) = << >> /\ Len(<< >>) = 0
        BY <3>1, EmptySeq DEF TailOf
      <4> QED
        BY <1>1, <4>1
    <3>2. CASE n > HeadLimit
      <4>1. TailFrom(n) \in Nat /\ TailFrom(n) <= n /\ n - TailFrom(n) <= TailLimit
        BY <1>1, <3>2 DEF TailFrom
      <4>2. PICK b \in Nat : b = TailFrom(n)
        BY <4>1
      <4>3. TailOf(n) = Bytes(b + 1, n) /\ b <= n /\ n - b <= TailLimit
        BY <1>1, <3>2, <4>1, <4>2 DEF TailOf
      <4>4. Len(Bytes(b + 1, n)) = n - b
        BY <4>3, BytesSeq
      <4> QED
        BY <1>1, <4>3, <4>4
    <3> QED
      BY <1>1, <3>1, <3>2
  <2>4. ~(Len(longer) > TailLimit) /\ longer = TailOf(n)
    BY <1>1, <2>2, <2>3
  <2> QED
    BY <1>3, <2>2, <2>4
<1>7. CASE TailLimit > 0 /\ m > 0
  <2>1. HeadLimit <= a /\ n > HeadLimit /\ a < n
    BY <1>1, <1>2, <1>7
  <2>2. PICK b \in Nat : /\ HeadLimit <= b /\ b <= a /\ a - b <= TailLimit
                         /\ b = HeadLimit \/ a - b = TailLimit
                         /\ TailOf(a) = Bytes(b + 1, a)
    <3>1. CASE a = HeadLimit
      <4>1. Bytes(a + 1, a) = << >> /\ TailOf(a) = << >>
        BY <3>1, BytesNone DEF TailOf
      <4>2. HeadLimit <= a /\ a <= a /\ a - a <= TailLimit
        BY <1>1, <3>1
      <4> QED
        BY <3>1, <4>1, <4>2
    <3>2. CASE a > HeadLimit
      <4>1. /\ TailFrom(a) \in Nat /\ HeadLimit <= TailFrom(a) /\ TailFrom(a) <= a
            /\ a - TailFrom(a) <= TailLimit
            /\ TailFrom(a) = HeadLimit \/ a - TailFrom(a) = TailLimit
        BY <1>1, <3>2 DEF TailFrom
      <4>2. TailOf(a) = Bytes(TailFrom(a) + 1, a)
        BY <1>1, <3>2 DEF TailOf
      <4> QED
        BY <4>1, <4>2
    <3> QED
      BY <1>1, <2>1, <3>1, <3>2
  <2>3. longer = Bytes(b + 1, n)
    <3>1. b <= a /\ a <= n
      BY <2>1, <2>2
    <3>2. Bytes(b + 1, a) \o Bytes(a + 1, n) = Bytes(b + 1, n)
      BY <3>1, BytesJoin
    <3> QED
      BY <1>4, <1>7, <2>2, <3>2
  <2>4. longer \in Seq(Nat) /\ Len(longer) = n - b
    <3>1. b <= n
      BY <2>1, <2>2
    <3> QED
      BY <2>3, <3>1, BytesSeq
  <2>5. ASSUME Len(longer) <= TailLimit PROVE longer = TailOf(n)
    <3>1. TailFrom(n) = b
      BY <1>1, <2>1, <2>2, <2>4, <2>5 DEF TailFrom
    <3>2. TailOf(n) = Bytes(TailFrom(n) + 1, n)
      BY <1>1, <2>1 DEF TailOf
    <3> QED
      BY <2>3, <3>1, <3>2
  <2>6. ASSUME Len(longer) > TailLimit
        PROVE  b \in HeadLimit..n /\ b + TailLimit < n
    BY <1>1, <2>1, <2>2, <2>4, <2>6
  <2> QED
    BY <2>3, <2>4, <2>5, <2>6
<1> QED
  BY <1>1, <1>2, <1>5, <1>6, <1>7

\* A tail that is too long is cut to the tail.
LEMMA TrimTakes ==
  ASSUME NEW n \in Nat, NEW b \in HeadLimit..n, b + TailLimit < n,
         NEW r, r = Bytes(b + 1, n)
  PROVE  SubSeq(r, Len(r) - TailLimit + 1, Len(r)) = TailOf(n)
<1>1. HeadLimit \in Nat /\ TailLimit \in Nat /\ b \in Nat
  BY Limits
<1>2. Len(r) = n - b
  <2>1. b <= n
    BY <1>1
  <2> QED
    BY <1>1, <2>1, BytesSeq
<1>3. TailOf(n) = Bytes(n - TailLimit + 1, n)
  BY <1>1 DEF TailOf, TailFrom
<1>4. PICK x \in Nat, d \in Nat : x = Len(r) - TailLimit + 1 /\ d = Len(r)
  <2>1. n - b \in Nat /\ n - b - TailLimit + 1 \in Nat
    BY <1>1
  <2> QED
    BY <1>2, <2>1
<1>5. PICK i \in Nat, e \in Nat : i = b + 1 /\ e = n - TailLimit + 1
  BY <1>1
<1>6. /\ 0 < i /\ i <= n + 1 /\ 0 < x /\ x <= d + 1 /\ d <= n - i + 1
      /\ e = i + x - 1 /\ n = i + d - 1
  BY <1>1, <1>2, <1>4, <1>5
<1>7. Part(Bytes(i, n), x, d) = Bytes(e, n)
  BY <1>6, BytesCut
<1>8. SubSeq(Bytes(i, n), x, d) = Bytes(e, n)
  BY <1>7 DEF Part
<1> QED
  BY <1>3, <1>4, <1>5, <1>8

-----------------------------------------------------------------------------
(* The captures. *)

LEMMA ExcerptOfNothing == HeadOf(0) = << >> /\ TailOf(0) = << >>
<1>1. 0 \in Nat /\ HeadLimit \in Nat
  BY Limits
<1>2. HeadOf(0) \in Seq(Nat) /\ Len(HeadOf(0)) = 0
  BY <1>1, HeadOfLength
<1> QED
  BY <1>1, <1>2, EmptySeq DEF TailOf

\* Head and tail together are the whole of a stream within the limit, and the
\* first and the last bytes of a longer one.
LEMMA WholeExcerpt ==
  ASSUME NEW n \in Nat
  PROVE  /\ n <= Limit => HeadOf(n) \o TailOf(n) = Bytes(1, n)
         /\ n > Limit => /\ HeadOf(n) = Bytes(1, HeadLimit)
                         /\ TailOf(n) = Bytes(n - TailLimit + 1, n)
<1>1. /\ HeadLimit \in Nat /\ TailLimit \in Nat /\ Limit \in Nat
      /\ HeadLimit + TailLimit = Limit
  BY Limits
<1>2. CASE n <= HeadLimit
  <2>1. HeadOf(n) = Bytes(1, n) /\ TailOf(n) = << >>
    BY <1>1, <1>2 DEF HeadOf, TailOf
  <2>2. HeadOf(n) \o << >> = HeadOf(n)
    BY HeadOfLength, ConcatEmptySeq
  <2> QED
    BY <1>1, <1>2, <2>1, <2>2
<1>3. CASE n > HeadLimit /\ n <= Limit
  <2>1. HeadOf(n) = Bytes(1, HeadLimit)
    BY <1>1, <1>3 DEF HeadOf
  <2>2. TailOf(n) = Bytes(HeadLimit + 1, n)
    BY <1>1, <1>3 DEF TailOf, TailFrom
  <2>3. 0 \in Nat /\ 0 <= HeadLimit /\ HeadLimit <= n
    BY <1>1, <1>3
  <2>4. Bytes(0 + 1, HeadLimit) \o Bytes(HeadLimit + 1, n) = Bytes(0 + 1, n)
    BY <1>1, <2>3, BytesJoin
  <2>5. 0 + 1 = 1
    OBVIOUS
  <2> QED
    BY <1>1, <1>3, <2>1, <2>2, <2>4, <2>5
<1>4. CASE n > Limit
  <2>1. HeadOf(n) = Bytes(1, HeadLimit)
    BY <1>1, <1>4 DEF HeadOf
  <2>2. TailOf(n) = Bytes(n - TailLimit + 1, n)
    BY <1>1, <1>4 DEF TailOf, TailFrom
  <2> QED
    BY <1>1, <1>4, <2>1, <2>2
<1> QED
  BY <1>1, <1>2, <1>3, <1>4

LEMMA HeadedLater ==
  ASSUME NEW n \in Nat, NEW m \in Nat, n <= m, NEW h, Headed(h, n)
  PROVE  Headed(h, m)
<1>1. PICK k \in 0..n : k <= HeadLimit /\ h = Bytes(1, k)
  BY DEF Headed
<1>2. k \in 0..m
  OBVIOUS
<1> QED
  BY <1>1, <1>2 DEF Headed

LEMMA TailedLater ==
  ASSUME NEW n \in Nat, NEW m \in Nat, n <= m, NEW r, Tailed(r, n)
  PROVE  Tailed(r, m)
<1>1. CASE r = << >>
  BY <1>1 DEF Tailed
<1>2. CASE r # << >>
  <2>1. PICK b \in HeadLimit..n, e \in HeadLimit..n : b <= e /\ r = Bytes(b + 1, e)
    BY <1>2 DEF Tailed
  <2>2. b \in HeadLimit..m /\ e \in HeadLimit..m
    BY Limits
  <2> QED
    BY <2>1, <2>2 DEF Tailed
<1> QED
  BY <1>1, <1>2

\* A copied head and a copied tail never overlap: their bytes come in order,
\* each once, and none beyond n.
LEMMA PartialExcerpt ==
  ASSUME NEW n \in Nat, NEW h, NEW r, Headed(h, n), Tailed(r, n)
  PROVE  /\ h = Bytes(1, Len(h))
         /\ \A i \in 1..Len(h \o r) : (h \o r)[i] <= n
         /\ \A i, j \in 1..Len(h \o r) : i < j => (h \o r)[i] < (h \o r)[j]
<1> DEFINE x == h \o r
<1>1. PICK k \in 0..n : k <= HeadLimit /\ h = Bytes(1, k)
  BY DEF Headed
<1>2. h \in Seq(Nat) /\ Len(h) = k /\ \A i \in 1..k : h[i] = i
  <2>1. 0 \in Nat /\ k \in Nat /\ 0 <= k /\ 0 + 1 = 1 /\ k - 0 = k
    OBVIOUS
  <2>2. /\ Bytes(0 + 1, k) \in Seq(Nat) /\ Len(Bytes(0 + 1, k)) = k - 0
        /\ \A i \in 1..(k - 0) : Bytes(0 + 1, k)[i] = 0 + i
    BY <2>1, BytesSeq
  <2>3. \A i \in 1..k : 0 + i = i
    OBVIOUS
  <2> QED
    BY <1>1, <2>1, <2>2, <2>3
<1>3. PICK b \in Nat : /\ r \in Seq(Nat) /\ HeadLimit <= b
                       /\ Len(r) = 0 \/ b + Len(r) <= n
                       /\ \A i \in 1..Len(r) : r[i] = b + i
  <2>0. HeadLimit \in Nat
    BY Limits
  <2>1. CASE r = << >>
    <3>1. r \in Seq(Nat) /\ Len(r) = 0
      BY <2>1, EmptySeq
    <3>2. HeadLimit <= HeadLimit /\ \A i \in 1..Len(r) : r[i] = HeadLimit + i
      BY <2>0, <3>1
    <3> QED
      BY <2>0, <3>1, <3>2
  <2>2. CASE r # << >>
    <3>1. PICK b \in HeadLimit..n, e \in HeadLimit..n : b <= e /\ r = Bytes(b + 1, e)
      BY <2>2 DEF Tailed
    <3>2. b \in Nat /\ e \in Nat
      BY <2>0
    <3>3. /\ r \in Seq(Nat) /\ Len(r) = e - b
          /\ \A i \in 1..(e - b) : r[i] = b + i
      BY <3>1, <3>2, BytesSeq
    <3> QED
      BY <2>0, <3>1, <3>2, <3>3
  <2> QED
    BY <2>1, <2>2
<1>4. /\ Len(r) \in Nat /\ HeadLimit \in Nat
      /\ Len(x) = k + Len(r)
      /\ \A i \in 1..k + Len(r) : x[i] = IF i <= k THEN h[i] ELSE r[i - k]
  <2>1. Len(r) \in Nat /\ HeadLimit \in Nat
    BY <1>3, Limits, LenProperties
  <2>2. /\ Len(h \o r) = Len(h) + Len(r)
        /\ \A i \in 1..Len(h) + Len(r) :
             (h \o r)[i] = IF i <= Len(h) THEN h[i] ELSE r[i - Len(h)]
    BY <1>2, <1>3, ConcatProperties
  <2> QED
    BY <1>2, <2>1, <2>2
<1> HIDE DEF x
<1>5. ASSUME NEW i \in 1..k + Len(r)
      PROVE  x[i] = IF i <= k THEN i ELSE b + (i - k)
  <2>1. CASE i <= k
    BY <1>2, <1>4, <2>1
  <2>2. CASE i > k
    <3>1. PICK m \in 1..Len(r) : m = i - k
      BY <1>4, <2>2
    <3>2. x[i] = r[m] /\ r[m] = b + m
      BY <1>3, <1>4, <2>2, <3>1
    <3> QED
      BY <2>2, <3>1, <3>2
  <2> QED
    BY <1>4, <2>1, <2>2
<1>6. \A i \in 1..Len(x) : x[i] <= n
  BY <1>1, <1>3, <1>4, <1>5
<1>7. \A i, j \in 1..Len(x) : i < j => x[i] < x[j]
  BY <1>1, <1>3, <1>4, <1>5
<1>8. h = Bytes(1, Len(h))
  BY <1>1, <1>2
<1> QED
  BY <1>6, <1>7, <1>8 DEF x

LEMMA InitCInv == Init => CInv
<1> SUFFICES ASSUME Init PROVE CInv
  OBVIOUS
<1>1. << >> \in Seq(Nat)
  BY EmptySeq
<1>2. StreamTypes
  BY <1>1, ProcessRunAssumption DEF Init, StreamTypes, Captures, NoCapture, Names
<1>3. CaptureFollowsCaller
  BY DEF Init, CaptureFollowsCaller, Untouched, Finishing, Returned, Unbounded
<1>4. \A s \in Names : BytesAccounted(s) /\ ExcerptKept(s)
  BY ExcerptOfNothing DEF Init, BytesAccounted, ExcerptKept
<1> QED
  BY <1>2, <1>3, <1>4 DEF CInv

\* A step that touches neither streams nor the caller's joining keeps what is
\* known of the captures.
LEMMA OthersKeepCInv ==
  ASSUME CInv, UNCHANGED <<caller, drains>>
  PROVE  CInv'
BY DEF CInv, StreamTypes, BytesAccounted, ExcerptKept, CaptureFollowsCaller, Untouched,
   Joined, Captured, Partial, Whole, FaithfulCapture, InCapture, Returned, Unbounded,
   caller, drains, collector

\* Up to the joins the caller touches no stream, and no join has given up.
LEMMA EarlyStepsKeepCInv ==
  ASSUME IInv, CInv, UNCHANGED <<drains, joining, capture, gaveUp>>,
         pc \notin Finishing \cup {"join", "done"},
         pc' \notin Finishing \cup {"start"},
         ~Returned'
  PROVE  CInv'
<1>1. joining = 1 /\ gaveUp = {}
  BY DEF CInv, CaptureFollowsCaller
<1>2. outcome' # "timeout"
  BY DEF Returned
<1>3. StreamTypes' /\ \A s \in Names : BytesAccounted(s)' /\ ExcerptKept(s)'
  BY DEF CInv, StreamTypes, BytesAccounted, ExcerptKept, drains, collector
<1>4. \A s \in finished' : Joined(s)'
  BY DEF CInv, CaptureFollowsCaller, Joined, drains
<1> QED
  BY <1>1, <1>2, <1>3, <1>4 DEF CInv, CaptureFollowsCaller, Unbounded

\* A join ends with its thread, or gives up on it.
LEMMA JoinsKeepCInv ==
  ASSUME IInv, CInv, JoinReturns \/ JoinGivesUp
  PROVE  CInv'
<1>0. PICK s \in Names : s = Streams[joining]
  BY DEF CInv, StreamTypes, Names
<1>1. /\ pc = "join" /\ UNCHANGED <<why, outcome, capture, drains>>
      /\ outcome = "none"
      /\ joining' = IF joining = Len(Streams) THEN 1 ELSE joining + 1
      /\ pc' = IF joining = Len(Streams) THEN "finish" ELSE "join"
      /\ gaveUp \subseteq gaveUp' /\ gaveUp' \subseteq Names
      /\ Unbounded => gaveUp' = gaveUp
  BY <1>0 DEF JoinReturns, JoinGivesUp, JoinNext, IInv, EndFollowsCaller, CInv,
     StreamTypes
<1>2. Joined(s)'
  BY <1>0, <1>1 DEF JoinReturns, JoinGivesUp, Joined, drains
<1>3. \A t \in Names : Joined(t) => Joined(t)'
  BY <1>1 DEF Joined, drains
<1>4. \A i \in 1..joining : Joined(Streams[i])'
  BY <1>0, <1>1, <1>2, <1>3 DEF CInv, CaptureFollowsCaller, Names, StreamTypes
<1>5. StreamTypes'
  BY <1>1, ProcessRunAssumption DEF CInv, StreamTypes, drains, collector
<1>6. \A t \in Names : BytesAccounted(t)' /\ ExcerptKept(t)'
  BY <1>1 DEF CInv, BytesAccounted, ExcerptKept, drains, collector
<1>7. joining = Len(Streams) => \A t \in Names : Joined(t)'
  BY <1>4 DEF Names
<1>8. \A t \in finished' : Joined(t)'
  BY <1>1, <1>3 DEF CInv, CaptureFollowsCaller, StreamTypes, drains
<1> QED
  <2>1. CASE joining = Len(Streams)
    <3>1. /\ joining' = 1 /\ pc' = "finish" /\ ~Returned'
          /\ InCapture(Streams[joining], pc)'
      BY <1>1, <2>1 DEF Returned, InCapture
    <3>2. \A i \in 1..joining' - 1 : FALSE
      BY <3>1
    <3> QED
      BY <1>1, <1>5, <1>6, <1>7, <1>8, <2>1, <3>1, <3>2
      DEF CInv, CaptureFollowsCaller, Unbounded, Finishing
  <2>2. CASE joining # Len(Streams)
    <3>1. \A i \in 1..joining' - 1 : Joined(Streams[i])'
      BY <1>1, <1>4, <2>2 DEF CInv, StreamTypes
    <3> QED
      BY <1>1, <1>5, <1>6, <1>8, <2>2, <3>1
      DEF CInv, CaptureFollowsCaller, StreamTypes, Returned, Unbounded, Finishing
  <2> QED
    BY <2>1, <2>2

\* What a collector holds, whenever it is read.
LEMMA Collected ==
  ASSUME CInv, NEW s \in Names
  PROVE  /\ size[s] \in Nat /\ hashed[s] \in Nat /\ written[s] \in Nat
         /\ head[s] \in Seq(Nat) /\ tail[s] \in Seq(Nat)
         /\ capture[s] \in Captures
         /\ size[s] <= written[s]
         /\ Headed(head[s], size[s]) /\ Tailed(tail[s], size[s])
         /\ Joined(s) /\ s \notin gaveUp =>
              /\ size[s] = written[s] /\ hashed[s] = written[s]
              /\ head[s] = HeadOf(written[s]) /\ tail[s] = TailOf(written[s])
<1>1. /\ size[s] \in Nat /\ hashed[s] \in Nat /\ written[s] \in Nat
      /\ piped[s] \in Nat /\ inRead[s] \in Nat
      /\ head[s] \in Seq(Nat) /\ tail[s] \in Seq(Nat) /\ capture[s] \in Captures
      /\ drain[s] \in {"read", "logged", "counted", "headed", "trim", "closed"}
      /\ BytesAccounted(s) /\ ExcerptKept(s)
  BY DEF CInv, StreamTypes
<1>2. size[s] <= written[s] /\ hashed[s] <= size[s]
  BY <1>1 DEF BytesAccounted
<1>3. Headed(head[s], size[s])
  <2>1. Headed(HeadOf(hashed[s]), hashed[s])
    BY <1>1, HeadOfLength
  <2>2. Headed(HeadOf(hashed[s]), size[s])
    BY <1>1, <1>2, <2>1, HeadedLater
  <2> QED
    BY <1>1, <2>2 DEF ExcerptKept
<1>4. Tailed(tail[s], size[s])
  <2>1. CASE drain[s] \notin {"headed", "trim"}
    BY <1>1, <1>2, <2>1, TailOfTailed, TailedLater DEF ExcerptKept
  <2>2. CASE drain[s] = "headed"
    <3>1. PICK n \in Nat : n = size[s] - inRead[s] /\ n <= size[s]
      BY <1>1, <2>2, Limits DEF BytesAccounted
    <3> QED
      BY <1>1, <2>2, <3>1, TailOfTailed, TailedLater DEF ExcerptKept
  <2>3. CASE drain[s] = "trim"
    <3>1. PICK b \in HeadLimit..size[s] : tail[s] = Bytes(b + 1, size[s])
      BY <1>1, <2>3 DEF ExcerptKept
    <3>2. size[s] \in HeadLimit..size[s] /\ b <= size[s]
      BY <1>1, <3>1, Limits
    <3> QED
      BY <3>1, <3>2 DEF Tailed
  <2> QED
    BY <2>1, <2>2, <2>3
<1>5. Joined(s) /\ s \notin gaveUp =>
        /\ size[s] = written[s] /\ hashed[s] = written[s]
        /\ head[s] = HeadOf(written[s]) /\ tail[s] = TailOf(written[s])
  BY <1>1 DEF Joined, BytesAccounted, ExcerptKept
<1> QED
  BY <1>1, <1>2, <1>3, <1>4, <1>5

\* A step of finish() changes one field of the capture of its stream.
FinishField == FinishFlag \/ FinishHead \/ FinishTail

LEMMA FinishFields ==
  ASSUME IInv, CInv, NEW s \in Names, s = Streams[joining],
         FinishField \/ FinishRecord
  PROVE  /\ capture' \in [Names -> Captures]
         /\ \A t \in Names \ {s} : capture'[t] = capture[t]
         /\ FinishFlag => InCapture(s, "head")'
         /\ FinishHead => InCapture(s, "tail")'
         /\ FinishTail => InCapture(s, "record")'
         /\ FinishRecord => Captured(s)'
<1>0. /\ UNCHANGED <<written, piped, inRead, drain, size, hashed, head, tail, gaveUp, why>>
      /\ Joined(s) /\ InCapture(s, pc)
  BY DEF FinishField, FinishFlag, FinishHead, FinishTail, FinishRecord, drains,
     collector, CInv, CaptureFollowsCaller, Finishing
<1>1. /\ size[s] \in Nat /\ hashed[s] \in Nat /\ written[s] \in Nat
      /\ head[s] \in Seq(Nat) /\ tail[s] \in Seq(Nat)
      /\ capture[s] \in Captures
      /\ size[s] <= written[s]
      /\ Headed(head[s], size[s]) /\ Tailed(tail[s], size[s])
      /\ s \notin gaveUp =>
           /\ size[s] = written[s] /\ hashed[s] = written[s]
           /\ head[s] = HeadOf(written[s]) /\ tail[s] = TailOf(written[s])
  BY <1>0, Collected
<1>2. capture \in [Names -> Captures]
  BY DEF CInv, StreamTypes
<1>3. CASE FinishFlag
  <2>0. (size[s] > Limit) \in BOOLEAN
    OBVIOUS
  <2>1. PICK cut \in BOOLEAN : cut = (size[s] > Limit)
    BY <2>0, Zenon
  <2>2. capture' = [capture EXCEPT ![s].truncated = cut] /\ pc' = "head" /\ pc = "finish"
    BY <1>3, <2>1 DEF FinishFlag
  <2>3. /\ capture' \in [Names -> Captures]
        /\ capture'[s].truncated = cut
        /\ \A t \in Names \ {s} : capture'[t] = capture[t]
    BY <1>2, <2>2 DEF Captures
  <2>4. s \notin gaveUp => capture'[s].truncated = (written[s] > Limit)
    <3>1. s \notin gaveUp => size[s] = written[s]
      BY <1>1
    <3> QED
      BY <2>1, <2>3, <3>1, Zenon
  <2> QED
    BY <1>0, <2>2, <2>3, <2>4 DEF InCapture, FinishHead, FinishTail, FinishRecord
<1>4. CASE FinishHead
  <2>1. capture' = [capture EXCEPT ![s].head = head[s]] /\ pc' = "tail" /\ pc = "head"
    BY <1>4 DEF FinishHead
  <2>2. /\ capture' \in [Names -> Captures]
        /\ capture'[s].head = head[s] /\ capture'[s].truncated = capture[s].truncated
        /\ \A t \in Names \ {s} : capture'[t] = capture[t]
    BY <1>1, <1>2, <2>1 DEF Captures
  <2> QED
    BY <1>0, <1>1, <2>1, <2>2 DEF InCapture, FinishFlag, FinishTail, FinishRecord
<1>5. CASE FinishTail
  <2>1. capture' = [capture EXCEPT ![s].tail = tail[s]] /\ pc' = "record" /\ pc = "tail"
    BY <1>5 DEF FinishTail
  <2>2. /\ capture' \in [Names -> Captures]
        /\ capture'[s].tail = tail[s] /\ capture'[s].head = capture[s].head
        /\ capture'[s].truncated = capture[s].truncated
        /\ \A t \in Names \ {s} : capture'[t] = capture[t]
    BY <1>1, <1>2, <2>1 DEF Captures
  <2> QED
    BY <1>0, <1>1, <2>1, <2>2 DEF InCapture, FinishFlag, FinishHead, FinishRecord
<1>6. CASE FinishRecord
  <2>1. /\ capture' = [capture EXCEPT ![s].size = size[s], ![s].hashed = hashed[s]]
        /\ pc = "record"
    BY <1>6 DEF FinishRecord
  <2>2. /\ capture' \in [Names -> Captures]
        /\ capture'[s].size = size[s] /\ capture'[s].hashed = hashed[s]
        /\ capture'[s].truncated = capture[s].truncated
        /\ capture'[s].head = capture[s].head /\ capture'[s].tail = capture[s].tail
        /\ \A t \in Names \ {s} : capture'[t] = capture[t]
    BY <1>1, <1>2, <2>1 DEF Captures
  <2>3. Partial(s)'
    BY <1>0, <1>1, <2>1, <2>2 DEF Partial, InCapture
  <2>4. ASSUME s \notin gaveUp PROVE FaithfulCapture(s)'
    <3>1. PICK n \in Nat : n = written[s] /\ n = written'[s]
      BY <1>0, <1>1
    <3>2. /\ capture'[s].size = n /\ capture'[s].hashed = n
          /\ capture'[s].head = HeadOf(n) /\ capture'[s].tail = TailOf(n)
      BY <1>0, <1>1, <2>1, <2>2, <2>4, <3>1 DEF InCapture
    <3>3. capture'[s].truncated = (n > Limit)
      BY <1>0, <2>1, <2>2, <2>4, <3>1 DEF InCapture
    <3>4. /\ n <= Limit => HeadOf(n) \o TailOf(n) = Bytes(1, n)
          /\ n > Limit => /\ HeadOf(n) = Bytes(1, HeadLimit)
                          /\ TailOf(n) = Bytes(n - TailLimit + 1, n)
      BY WholeExcerpt
    <3> QED
      BY <3>1, <3>2, <3>3, <3>4 DEF FaithfulCapture
  <2> QED
    BY <1>0, <2>1, <2>2, <2>3, <2>4
    DEF Captured, Whole, FinishField, FinishFlag, FinishHead, FinishTail
<1> QED
  BY <1>3, <1>4, <1>5, <1>6 DEF FinishField

\* A capture is built from a stream whose thread ended, or whose join gave up.
LEMMA FinishesKeepCInv ==
  ASSUME IInv, CInv, FinishField \/ FinishRecord
  PROVE  CInv'
<1>1. PICK s \in Names : s = Streams[joining]
  BY DEF CInv, StreamTypes, Names
<1>2. /\ capture' \in [Names -> Captures]
      /\ \A t \in Names \ {s} : capture'[t] = capture[t]
      /\ FinishFlag => InCapture(s, "head")'
      /\ FinishHead => InCapture(s, "tail")'
      /\ FinishTail => InCapture(s, "record")'
      /\ FinishRecord => Captured(s)'
  BY <1>1, FinishFields
<1>3. /\ outcome = "none" /\ joining \in 1..Len(Streams) /\ pc \in Finishing
      /\ \A t \in Names : Joined(t)
      /\ \A i \in 1..joining - 1 : Streams[i] \in Names /\ Captured(Streams[i])
      /\ \A i \in 1..joining - 1 : Streams[i] # s
  <2>1. pc \in Finishing
    BY DEF FinishField, FinishFlag, FinishHead, FinishTail, FinishRecord, Finishing
  <2>2. outcome = "none" /\ joining \in 1..Len(Streams)
    BY <2>1 DEF IInv, EndFollowsCaller, CInv, StreamTypes, Finishing
  <2>3. /\ \A t \in Names : Joined(t)
        /\ \A i \in 1..joining - 1 : Captured(Streams[i])
    BY <2>1 DEF CInv, CaptureFollowsCaller
  <2>4. \A i \in 1..joining - 1 : i \in 1..Len(Streams) /\ i # joining
    BY <2>2, ProcessRunAssumption
  <2>5. \A i \in 1..joining - 1 : Streams[i] \in Names /\ Streams[i] # s
    BY <1>1, <2>2, <2>4, ProcessRunAssumption DEF Names
  <2> QED
    BY <2>1, <2>2, <2>3, <2>5
<1>4. UNCHANGED <<written, piped, inRead, drain, size, hashed, head, tail, gaveUp, why>>
      /\ finished' \subseteq finished \cup {s}
  BY <1>1 DEF FinishField, FinishFlag, FinishHead, FinishTail, FinishRecord, drains,
     collector
<1>5. /\ \A t \in Names : BytesAccounted(t)' /\ ExcerptKept(t)'
      /\ \A t \in Names : Joined(t)'
      /\ \A t \in finished' : Joined(t)'
  <2>1. \A t \in Names : BytesAccounted(t)' /\ ExcerptKept(t)' /\ Joined(t)'
    BY <1>3, <1>4 DEF CInv, BytesAccounted, ExcerptKept, Joined
  <2> QED
    BY <1>4, <2>1 DEF CInv, StreamTypes
<1>6. \A i \in 1..joining - 1 : Captured(Streams[i])'
  BY <1>2, <1>3, <1>4 DEF Captured, Partial, Whole, FaithfulCapture
<1>7. CASE FinishField
  <2>1. /\ UNCHANGED <<joining, outcome>> /\ pc' \in Finishing
        /\ InCapture(s, pc)'
    BY <1>2, <1>7 DEF FinishField, FinishFlag, FinishHead, FinishTail, Finishing, InCapture
  <2>2. StreamTypes'
    BY <1>2, <1>4, <2>1 DEF CInv, StreamTypes
  <2> QED
    BY <1>1, <1>3, <1>4, <1>5, <1>6, <2>1, <2>2
    DEF CInv, CaptureFollowsCaller, Returned, Unbounded, Finishing
<1>8. CASE FinishRecord
  <2>1. IF joining = Len(Streams)
        THEN pc' = "done" /\ outcome' = Verdict /\ UNCHANGED joining
        ELSE pc' = "finish" /\ joining' = joining + 1 /\ UNCHANGED outcome
    BY <1>8 DEF FinishRecord
  <2>2. StreamTypes'
    BY <1>2, <1>3, <1>4, <2>1 DEF CInv, StreamTypes
  <2>3. \A i \in 1..joining : Captured(Streams[i])'
    BY <1>1, <1>2, <1>3, <1>6, <1>8
  <2>4. CASE joining = Len(Streams)
    <3>1. \A t \in Names : Captured(t)'
      BY <2>3, <2>4 DEF Names
    <3>2. outcome' = "timeout" => why = "timeout"
      BY <1>3, <2>1, <2>4 DEF Verdict
    <3> QED
      BY <1>3, <1>4, <1>5, <2>1, <2>2, <2>4, <3>1, <3>2
      DEF CInv, CaptureFollowsCaller, Returned, Unbounded, Finishing
  <2>5. CASE joining # Len(Streams)
    <3>1. \A i \in 1..joining' - 1 : Captured(Streams[i])'
      BY <1>3, <2>1, <2>3, <2>5
    <3>2. pc' = "finish" /\ InCapture(Streams[joining], pc)' /\ ~Returned'
      BY <1>3, <2>1, <2>5 DEF InCapture, Returned
    <3> QED
      BY <1>3, <1>4, <1>5, <2>1, <2>2, <2>5, <3>1, <3>2
      DEF CInv, CaptureFollowsCaller, Unbounded, Finishing
  <2> QED
    BY <2>4, <2>5
<1> QED
  BY <1>7, <1>8

StreamTypesOf(s) ==
  /\ written[s] \in Nat /\ piped[s] \in Nat /\ inRead[s] \in Nat
  /\ size[s] \in Nat /\ hashed[s] \in Nat
  /\ head[s] \in Seq(Nat) /\ tail[s] \in Seq(Nat)

\* What a step of a drain thread or a write changes is of the one stream.
LEMMA OneStream ==
  ASSUME CInv, NEW s \in Names, Drain(s) \/ Write(s)
  PROVE  /\ UNCHANGED <<caller, finished>> /\ drain[s] # "closed"
         /\ StreamTypesOf(s) /\ BytesAccounted(s) /\ ExcerptKept(s)
         /\ \A t \in Names \ {s} :
              /\ written'[t] = written[t] /\ piped'[t] = piped[t]
              /\ inRead'[t] = inRead[t] /\ drain'[t] = drain[t]
              /\ size'[t] = size[t] /\ hashed'[t] = hashed[t]
              /\ head'[t] = head[t] /\ tail'[t] = tail[t]
BY DEF Drain, DrainRead, DrainLog, DrainCount, DrainHead, DrainTail, DrainTrim, DrainEOF,
   Write, CInv, StreamTypes, StreamTypesOf, collector

\* The steps outside consume, and the first two inside: no byte changes hands
\* but between the pipe, the pending read and the count.
LEMMA ReadingKeepsBytes ==
  ASSUME CInv, NEW s \in Names,
         DrainRead(s) \/ DrainEOF(s) \/ DrainLog(s) \/ DrainCount(s) \/ Write(s)
  PROVE  StreamTypesOf(s)' /\ BytesAccounted(s)' /\ ExcerptKept(s)'
<1>1. /\ UNCHANGED <<caller, finished>> /\ drain[s] # "closed"
      /\ StreamTypesOf(s) /\ BytesAccounted(s) /\ ExcerptKept(s)
  BY OneStream DEF Drain
<1>2. UNCHANGED <<hashed, head, tail, gaveUp>>
  BY DEF DrainRead, DrainEOF, DrainLog, DrainCount, Write, collector, caller
<1>3. /\ written \in [Names -> Nat] /\ piped \in [Names -> Nat]
      /\ inRead \in [Names -> Nat] /\ size \in [Names -> Nat]
      /\ drain \in [Names -> {"read", "logged", "counted", "headed", "trim", "closed"}]
  BY DEF CInv, StreamTypes
<1>4. CASE DrainRead(s)
  <2>1. /\ drain[s] = "read" /\ UNCHANGED <<written, drain, size>> /\ piped[s] > 0
        /\ piped'[s] = piped[s] - 1 /\ inRead'[s] = inRead[s] + 1
    BY <1>3, <1>4 DEF DrainRead, collector
  <2>2. StreamTypesOf(s)'
    BY <1>1, <1>2, <2>1 DEF StreamTypesOf
  <2>5. /\ hashed[s] = size[s] /\ written[s] = size[s] + piped[s] + inRead[s]
        /\ written[s] \in Nat /\ size[s] \in Nat /\ piped[s] \in Nat /\ inRead[s] \in Nat
    BY <1>1, <2>1 DEF StreamTypesOf, BytesAccounted
  <2>6. /\ hashed'[s] = size'[s] /\ written'[s] = size'[s] + piped'[s] + inRead'[s]
        /\ drain'[s] = "read"
    BY <1>2, <2>1, <2>5
  <2>3. BytesAccounted(s)'
    BY <2>6 DEF BytesAccounted
  <2>4. ExcerptKept(s)'
    BY <1>1, <1>2, <2>1 DEF ExcerptKept
  <2> QED
    BY <2>2, <2>3, <2>4
<1>5. CASE DrainEOF(s)
  <2>1. /\ drain[s] = "read" /\ drain'[s] = "closed" /\ piped[s] = 0 /\ inRead[s] = 0
        /\ UNCHANGED <<written, size, piped, inRead>>
    BY <1>3, <1>5 DEF DrainEOF, AtEOF, collector
  <2> QED
    BY <1>1, <1>2, <2>1 DEF StreamTypesOf, BytesAccounted, ExcerptKept
<1>6. CASE DrainLog(s)
  <2>1. /\ drain[s] = "read" /\ UNCHANGED <<written, size, piped, inRead>>
        /\ drain'[s] \in {"logged", "closed"}
        /\ drain'[s] = "closed" => s \in gaveUp
    BY <1>3, <1>6 DEF DrainLog, collector, CInv, CaptureFollowsCaller, Joined
  <2> QED
    BY <1>1, <1>2, <2>1 DEF StreamTypesOf, BytesAccounted, ExcerptKept
<1>7. CASE DrainCount(s)
  <2>1. /\ drain[s] = "logged" /\ drain'[s] = "counted"
        /\ UNCHANGED <<written, piped, inRead>> /\ size'[s] = size[s] + inRead[s]
    BY <1>3, <1>7 DEF DrainCount
  <2> QED
    BY <1>1, <1>2, <2>1 DEF StreamTypesOf, BytesAccounted, ExcerptKept
<1>8. CASE Write(s)
  <2>1. /\ written'[s] = written[s] + 1 /\ piped'[s] = piped[s] + 1
        /\ UNCHANGED <<inRead, drain, size>>
    BY <1>3, <1>8 DEF Write, collector
  <2>2. StreamTypesOf(s)'
    BY <1>1, <1>2, <2>1 DEF StreamTypesOf
  <2>5. /\ written[s] \in Nat /\ size[s] \in Nat /\ piped[s] \in Nat /\ inRead[s] \in Nat
        /\ hashed'[s] = hashed[s] /\ size'[s] = size[s] /\ inRead'[s] = inRead[s]
        /\ drain'[s] = drain[s]
    BY <1>1, <1>2, <2>1 DEF StreamTypesOf
  <2>3. BytesAccounted(s)'
    BY <1>1, <2>1, <2>5 DEF BytesAccounted
  <2>4. ExcerptKept(s)'
    BY <1>1, <1>2, <2>1 DEF ExcerptKept
  <2> QED
    BY <2>2, <2>3, <2>4
<1> QED
  BY <1>4, <1>5, <1>6, <1>7, <1>8

\* The head's share of a chunk.
LEMMA DrainHeadKeepsBytes ==
  ASSUME CInv, NEW s \in Names, DrainHead(s)
  PROVE  StreamTypesOf(s)' /\ BytesAccounted(s)' /\ ExcerptKept(s)'
<1>1. StreamTypesOf(s) /\ BytesAccounted(s) /\ ExcerptKept(s)
  BY OneStream DEF Drain
<1>2. /\ inRead \in [Names -> Nat] /\ hashed \in [Names -> Nat]
      /\ head \in [Names -> Seq(Nat)]
      /\ drain \in [Names -> {"read", "logged", "counted", "headed", "trim", "closed"}]
  BY DEF CInv, StreamTypes
<1> DEFINE n == hashed[s]
           m == inRead[s]
           room == HeadLimit - Len(head[s])
           take == IF m < room THEN m ELSE room
<1>3. /\ drain[s] = "counted" /\ drain'[s] = "headed"
      /\ UNCHANGED <<written, piped, size, tail>>
      /\ hashed'[s] = n + m /\ inRead'[s] = m - take
      /\ head'[s] = head[s] \o SubSeq(Chunk(s), 1, take)
  BY <1>2 DEF DrainHead
<1>4. /\ n \in Nat /\ m \in Nat /\ size[s] = n + m /\ written[s] - piped[s] = n + m
      /\ written[s] - piped[s] - m + 1 = n + 1
      /\ head[s] = HeadOf(n) /\ tail[s] = TailOf(n)
  BY <1>1, <1>3 DEF StreamTypesOf, BytesAccounted, ExcerptKept
<1>5. Chunk(s) = Bytes(n + 1, n + m)
  BY <1>4 DEF Chunk
<1>6. take \in Nat
  <2>0. Len(HeadOf(n)) = (IF n < HeadLimit THEN n ELSE HeadLimit)
    BY <1>4, HeadOfLength
  <2>1. HeadLimit \in Nat /\ Len(HeadOf(n)) \in Nat /\ Len(HeadOf(n)) <= HeadLimit
    BY <1>4, <2>0, Limits
  <2> QED
    BY <1>4, <2>1
<1>7. take = LET free == HeadLimit - Len(HeadOf(n)) IN IF m < free THEN m ELSE free
  BY <1>4
<1> HIDE DEF n, m, room, take
<1>8. /\ HeadOf(n) \o SubSeq(Bytes(n + 1, n + m), 1, take) = HeadOf(n + m)
      /\ take <= m
      /\ take = m \/ HeadLimit + (m - take) <= n + m
      /\ TailOf(n + take) = TailOf(n)
  BY <1>4, <1>6, <1>7, HeadTakes
<1>9. head'[s] = HeadOf(n + m)
  BY <1>3, <1>4, <1>5, <1>8
<1>10. n + m \in Nat /\ m - take \in Nat /\ n + m - (m - take) = n + take
  BY <1>4, <1>6, <1>8
<1>11. tail'[s] = TailOf(size'[s] - inRead'[s])
  BY <1>3, <1>4, <1>8, <1>10
<1>12. HeadOf(n + m) \in Seq(Nat)
  BY <1>10, HeadOfLength
<1>13. StreamTypesOf(s)'
  BY <1>1, <1>3, <1>9, <1>10, <1>12 DEF StreamTypesOf
<1>14. BytesAccounted(s)'
  BY <1>1, <1>3, <1>4, <1>8, <1>10 DEF BytesAccounted
<1>15. ExcerptKept(s)'
  BY <1>3, <1>9, <1>11 DEF ExcerptKept
<1> QED
  BY <1>13, <1>14, <1>15

\* The tail's share, and the trim.
LEMMA DrainTailKeepsBytes ==
  ASSUME CInv, NEW s \in Names, DrainTail(s) \/ DrainTrim(s)
  PROVE  StreamTypesOf(s)' /\ BytesAccounted(s)' /\ ExcerptKept(s)'
<1>1. StreamTypesOf(s) /\ BytesAccounted(s) /\ ExcerptKept(s)
  BY OneStream DEF Drain
<1>2. /\ inRead \in [Names -> Nat] /\ tail \in [Names -> Seq(Nat)]
      /\ drain \in [Names -> {"read", "logged", "counted", "headed", "trim", "closed"}]
  BY DEF CInv, StreamTypes
<1>3. CASE DrainTail(s)
  <2> DEFINE n == size[s]
             m == inRead[s]
             longer == IF TailLimit > 0 THEN tail[s] \o Chunk(s) ELSE tail[s]
  <2>1. /\ drain[s] = "headed" /\ UNCHANGED <<written, piped, size, hashed, head>>
        /\ inRead'[s] = 0 /\ tail'[s] = longer
        /\ drain'[s] = IF Len(longer) > TailLimit THEN "trim" ELSE "read"
    BY <1>2, <1>3 DEF DrainTail
  <2>2. /\ n \in Nat /\ m \in Nat /\ (m = 0 \/ HeadLimit + m <= n)
        /\ hashed[s] = n /\ written[s] - piped[s] = n
        /\ written[s] - piped[s] - m + 1 = n - m + 1
        /\ head[s] = HeadOf(n) /\ tail[s] = TailOf(n - m)
    BY <1>1, <2>1 DEF StreamTypesOf, BytesAccounted, ExcerptKept
  <2>3. Chunk(s) = Bytes(n - m + 1, n)
    BY <2>2 DEF Chunk
  <2>4. m <= n
    BY <2>2, Limits
  <2>5. PICK a \in Nat : a = n - m /\ a <= n /\ (a = n \/ HeadLimit <= a)
    BY <2>2, <2>4, Limits
  <2>0. longer = Longer(a, n)
    BY <2>2, <2>3, <2>5 DEF Longer
  <2> HIDE DEF n, m, longer
  <2>6. /\ longer \in Seq(Nat)
        /\ Len(longer) <= TailLimit => longer = TailOf(n)
        /\ Len(longer) > TailLimit =>
             \E b \in HeadLimit..n : b + TailLimit < n /\ longer = Bytes(b + 1, n)
    BY <2>0, <2>2, <2>5, TailTakes
  <2>7. n = size[s] /\ Len(longer) \in Nat /\ TailLimit \in Nat
    BY <2>6, Limits, LenProperties DEF n
  <2>8. StreamTypesOf(s)'
    BY <1>1, <2>1, <2>6 DEF StreamTypesOf
  <2>9. BytesAccounted(s)'
    BY <1>1, <2>1, <2>2, <2>7 DEF BytesAccounted, StreamTypesOf
  <2>10. CASE Len(longer) > TailLimit
    <3>1. drain'[s] = "trim" /\ size'[s] = n /\ hashed'[s] = n /\ head'[s] = HeadOf(n)
      BY <2>1, <2>2, <2>7, <2>10
    <3>2. \E b \in HeadLimit..n : b + TailLimit < n /\ tail'[s] = Bytes(b + 1, n)
      BY <2>1, <2>6, <2>10
    <3> QED
      BY <2>8, <2>9, <3>1, <3>2 DEF ExcerptKept
  <2>11. CASE Len(longer) <= TailLimit
    <3>1. drain'[s] = "read" /\ hashed'[s] = n /\ head'[s] = HeadOf(n)
          /\ tail'[s] = TailOf(n)
      BY <2>1, <2>2, <2>6, <2>7, <2>11
    <3> QED
      BY <2>8, <2>9, <3>1 DEF ExcerptKept
  <2> QED
    BY <2>7, <2>10, <2>11
<1>4. CASE DrainTrim(s)
  <2>1. /\ drain[s] = "trim" /\ UNCHANGED <<written, piped, inRead, size, hashed, head>>
        /\ drain'[s] = "read"
        /\ tail'[s] = SubSeq(tail[s], Len(tail[s]) - TailLimit + 1, Len(tail[s]))
    BY <1>2, <1>4 DEF DrainTrim
  <2>2. PICK n \in Nat : n = size[s]
    BY <1>1 DEF StreamTypesOf
  <2>3. hashed[s] = n /\ head[s] = HeadOf(n) /\ inRead[s] = 0
    BY <1>1, <2>1, <2>2 DEF BytesAccounted, ExcerptKept
  <2>4. PICK b \in HeadLimit..n : b + TailLimit < n /\ tail[s] = Bytes(b + 1, n)
    BY <1>1, <2>1, <2>2 DEF ExcerptKept
  <2>5. SubSeq(tail[s], Len(tail[s]) - TailLimit + 1, Len(tail[s])) = TailOf(n)
    BY <2>4, TrimTakes
  <2>6. tail'[s] = TailOf(n) /\ TailOf(n) \in Seq(Nat)
    BY <2>1, <2>5, TailOfTailed
  <2>7. StreamTypesOf(s)'
    BY <1>1, <2>1, <2>6 DEF StreamTypesOf
  <2>8. BytesAccounted(s)'
    BY <1>1, <2>1, <2>2, <2>3 DEF BytesAccounted, StreamTypesOf
  <2> QED
    BY <2>1, <2>3, <2>6, <2>7, <2>8 DEF ExcerptKept
<1> QED
  BY <1>3, <1>4

\* A drain thread's step, or a process's write, moves bytes and drops none that
\* a faithful excerpt holds.
LEMMA StreamStepsKeepCInv ==
  ASSUME IInv, CInv, NEW s \in Names, Drain(s) \/ Write(s)
  PROVE  CInv'
<1>1. /\ UNCHANGED <<caller, finished>> /\ drain[s] # "closed"
      /\ StreamTypesOf(s)
      /\ \A t \in Names \ {s} :
           /\ written'[t] = written[t] /\ piped'[t] = piped[t]
           /\ inRead'[t] = inRead[t] /\ drain'[t] = drain[t]
           /\ size'[t] = size[t] /\ hashed'[t] = hashed[t]
           /\ head'[t] = head[t] /\ tail'[t] = tail[t]
  BY OneStream
<1>2. StreamTypesOf(s)' /\ BytesAccounted(s)' /\ ExcerptKept(s)'
  BY ReadingKeepsBytes, DrainHeadKeepsBytes, DrainTailKeepsBytes DEF Drain
<1>3. StreamTypes'
  <2>1. /\ DOMAIN written' = Names /\ DOMAIN piped' = Names /\ DOMAIN inRead' = Names
        /\ DOMAIN size' = Names /\ DOMAIN hashed' = Names /\ DOMAIN head' = Names
        /\ DOMAIN tail' = Names
    BY DEF Drain, DrainRead, DrainLog, DrainCount, DrainHead, DrainTail, DrainTrim,
       DrainEOF, Write, CInv, StreamTypes, collector
  <2>2. drain' \in [Names -> {"read", "logged", "counted", "headed", "trim", "closed"}]
    BY DEF Drain, DrainRead, DrainLog, DrainCount, DrainHead, DrainTail, DrainTrim,
       DrainEOF, Write, CInv, StreamTypes, collector
  <2>3. \A t \in Names : StreamTypesOf(t)'
    BY <1>1, <1>2 DEF CInv, StreamTypes, StreamTypesOf
  <2>4. /\ written' = [t \in Names |-> written'[t]] /\ piped' = [t \in Names |-> piped'[t]]
        /\ inRead' = [t \in Names |-> inRead'[t]] /\ size' = [t \in Names |-> size'[t]]
        /\ hashed' = [t \in Names |-> hashed'[t]] /\ head' = [t \in Names |-> head'[t]]
        /\ tail' = [t \in Names |-> tail'[t]]
    BY <2>1 DEF Drain, DrainRead, DrainLog, DrainCount, DrainHead, DrainTail, DrainTrim,
       DrainEOF, Write, CInv, StreamTypes, collector
  <2>5. /\ written' \in [Names -> Nat] /\ piped' \in [Names -> Nat]
        /\ inRead' \in [Names -> Nat] /\ size' \in [Names -> Nat]
        /\ hashed' \in [Names -> Nat]
        /\ head' \in [Names -> Seq(Nat)] /\ tail' \in [Names -> Seq(Nat)]
    BY <2>3, <2>4 DEF StreamTypesOf
  <2> QED
    BY <1>1, <2>2, <2>5 DEF CInv, StreamTypes, caller
<1>4. size[s] <= size'[s] /\ written[s] <= written'[s]
  <2>1. /\ size \in [Names -> Nat] /\ written \in [Names -> Nat]
        /\ size[s] \in Nat /\ inRead[s] \in Nat /\ written[s] \in Nat
    BY DEF CInv, StreamTypes
  <2>2. CASE DrainCount(s)
    BY <2>1, <2>2 DEF DrainCount
  <2>3. CASE Write(s)
    BY <2>1, <2>3 DEF Write, collector
  <2>4. CASE ~DrainCount(s) /\ ~Write(s)
    <3>1. UNCHANGED <<size, written>>
      BY <2>4 DEF Drain, DrainRead, DrainLog, DrainHead, DrainTail, DrainTrim, DrainEOF,
         collector
    <3> QED
      BY <2>1, <3>1
  <2> QED
    BY <2>2, <2>3, <2>4
<1>5. ASSUME NEW t \in Names
      PROVE  /\ BytesAccounted(t)' /\ ExcerptKept(t)'
             /\ Joined(t) => Joined(t)'
             /\ Joined(t) /\ Captured(t) => Captured(t)'
  <2>1. CASE t = s
    <3>1. Joined(s) => s \in gaveUp
      BY <1>1 DEF Joined
    <3>2. Partial(s) => Partial(s)'
      <4>1. /\ capture[s] \in Captures /\ written[s] \in Nat /\ written'[s] \in Nat
            /\ capture' = capture
        BY <1>1, <1>3 DEF CInv, StreamTypes, caller
      <4>2. capture[s].size \in Nat
        BY <4>1 DEF Captures
      <4> QED
        BY <1>4, <4>1, <4>2 DEF Partial
    <3> QED
      BY <1>1, <1>2, <2>1, <3>1, <3>2 DEF Joined, Captured, caller
  <2>2. CASE t # s
    BY <1>1, <2>2
    DEF CInv, BytesAccounted, ExcerptKept, Joined, Captured, Partial, Whole,
        FaithfulCapture, caller
  <2> QED
    BY <2>1, <2>2
<1>6. Streams[joining] \in Names /\ \A i \in 1..joining - 1 : Streams[i] \in Names
  BY DEF CInv, StreamTypes, Names
<1>7. pc # "start"
  BY <1>1 DEF CInv, CaptureFollowsCaller, Untouched
<1>8. ASSUME NEW t \in Names, Joined(t), InCapture(t, pc)
      PROVE  InCapture(t, pc)'
  <2>1. UNCHANGED <<pc, gaveUp, capture>>
    BY <1>1 DEF caller
  <2>2. size[t] \in Nat /\ size'[t] \in Nat /\ size[t] <= size'[t]
    <3>1. size[t] \in Nat /\ size'[t] \in Nat
      BY <1>3 DEF CInv, StreamTypes
    <3>2. t = s \/ size'[t] = size[t]
      BY <1>1
    <3> QED
      BY <1>4, <3>1, <3>2
  <2>3. t \notin gaveUp => written'[t] = written[t]
    BY <1>1, <1>8 DEF Joined
  <2> DEFINE h == capture[t].head
             r == capture[t].tail
  <2>4. Headed(h, size[t]) => Headed(h, size'[t])
    BY <2>2, HeadedLater
  <2>5. Tailed(r, size[t]) => Tailed(r, size'[t])
    BY <2>2, TailedLater
  <2> QED
    BY <1>8, <2>1, <2>3, <2>4, <2>5 DEF InCapture
<1>9. pc \in Finishing => InCapture(Streams[joining], pc)'
  <2>1. PICK t \in Names : t = Streams[joining]
    BY <1>6
  <2>2. UNCHANGED <<pc, joining>>
    BY <1>1 DEF caller
  <2>3. pc \in Finishing => Joined(t) /\ InCapture(t, pc)
    BY <2>1 DEF CInv, CaptureFollowsCaller
  <2>4. pc \in Finishing => InCapture(t, pc)'
    BY <1>8, <2>3
  <2> QED
    BY <2>1, <2>2, <2>4 DEF InCapture
<1> QED
  BY <1>1, <1>3, <1>5, <1>6, <1>7, <1>9
  DEF CInv, CaptureFollowsCaller, StreamTypes, Returned, Unbounded, caller

\* The tool is started with its threads.
LEMMA LaunchKeepsCInv ==
  ASSUME IInv, CInv, Launch
  PROVE  CInv'
<1>1. /\ UNCHANGED <<why, joining, outcome, capture, gaveUp, written, piped, inRead,
                     collector, finished>>
      /\ pc = "start" /\ pc' = "poll" /\ drain' = [s \in Names |-> "read"]
  BY DEF Launch
<1>2. outcome = "none" /\ joining = 1 /\ gaveUp = {} /\ finished = {}
      /\ \A s \in Names : Untouched(s)
  BY <1>1 DEF IInv, EndFollowsCaller, CInv, CaptureFollowsCaller, Finishing
<1>3. StreamTypes'
  BY <1>1 DEF CInv, StreamTypes, collector
<1>4. ASSUME NEW s \in Names PROVE BytesAccounted(s)' /\ ExcerptKept(s)'
  <2>1. /\ drain[s] = "closed" /\ piped[s] = 0 /\ inRead[s] = 0 /\ size[s] \in Nat
        /\ hashed[s] = size[s] /\ size[s] = written[s]
        /\ head[s] = HeadOf(hashed[s]) /\ tail[s] = TailOf(hashed[s])
    BY <1>2 DEF Untouched, CInv, BytesAccounted, ExcerptKept, StreamTypes
  <2>2. drain'[s] = "read"
    BY <1>1
  <2> QED
    BY <1>1, <2>1, <2>2 DEF BytesAccounted, ExcerptKept, collector
<1> QED
  BY <1>1, <1>2, <1>3, <1>4 DEF CInv, CaptureFollowsCaller, Finishing, Returned, Unbounded

\* An interrupt after the loop leaves with no captures at all.
LEMMA InterruptLateKeepsCInv ==
  ASSUME IInv, CInv, InterruptLate
  PROVE  CInv'
<1>1. /\ UNCHANGED <<why, joining, capture, gaveUp, drains>> /\ pc' = "done"
      /\ outcome' \in {"interrupted-late", "interrupted-joining"}
      /\ pc \notin {"start", "done"}
  BY DEF InterruptLate
<1>2. StreamTypes' /\ \A s \in Names : BytesAccounted(s)' /\ ExcerptKept(s)'
  BY <1>1 DEF CInv, StreamTypes, BytesAccounted, ExcerptKept, drains, collector
<1>3. \A s \in finished' : Joined(s)'
  BY <1>1 DEF CInv, CaptureFollowsCaller, Joined, drains
<1> QED
  BY <1>1, <1>2, <1>3
  DEF CInv, CaptureFollowsCaller, Finishing, Returned, Unbounded

LEMMA NextKeepsCInv == IInv /\ CInv /\ [Next]_vars => CInv'
<1> SUFFICES ASSUME IInv, CInv, [Next]_vars PROVE CInv'
  OBVIOUS
<1>0. pc # "done" => outcome = "none"
  BY DEF IInv, EndFollowsCaller
<1>1. CASE \/ RefuseCancelled \/ LaunchFailure \/ LaunchUnsupervised \/ PollCancel
           \/ CheckClock \/ WaitExpires \/ WaitReturns \/ CheckGroup
           \/ TermGroupGone \/ TermKill \/ Reap \/ InterruptLoop
  BY <1>0, <1>1, EarlyStepsKeepCInv
  DEF RefuseCancelled, LaunchFailure, LaunchUnsupervised, PollCancel, CheckClock,
      WaitExpires, WaitReturns, CheckGroup, TermGroupGone, TermKill, Reap,
      InterruptLoop, Returned, Finishing
<1>2. CASE TermPoll \/ Expire \/ Cancel \/ UNCHANGED vars
  BY <1>2, OthersKeepCInv DEF TermPoll, Expire, Cancel, vars
<1>3. CASE Launch \/ InterruptLate
  BY <1>3, LaunchKeepsCInv, InterruptLateKeepsCInv
<1>4. CASE JoinReturns \/ JoinGivesUp \/ FinishField \/ FinishRecord
  BY <1>4, JoinsKeepCInv, FinishesKeepCInv
<1>5. CASE \E s \in Names : Drain(s) \/ Write(s)
  BY <1>5, StreamStepsKeepCInv
<1>6. CASE Processes /\ ~\E s \in Names : Write(s)
  BY <1>6, OthersKeepCInv
  DEF Processes, LeaderEnds, Fork, DescendantEnds, Escape, CloseStdio, drains
<1> QED
  BY <1>1, <1>2, <1>3, <1>4, <1>5, <1>6 DEF Next, Caller, Processes, FinishField

\* What is known of a capture is enough for what is claimed of it.
LEMMA CapturedIsClaimed ==
  ASSUME CInv, NEW s \in Names, Captured(s)
  PROVE  FaithfulCapture(s) \/ (s \in gaveUp /\ PartialCapture(s))
<1>1. CASE s \notin gaveUp
  BY <1>1 DEF Captured, Whole
<1>2. CASE s \in gaveUp
  <2> DEFINE n == capture[s].size
             h == capture[s].head
             r == capture[s].tail
  <2>1. n \in Nat /\ n <= written[s] /\ Headed(h, n) /\ Tailed(r, n)
    <3>1. capture[s] \in Captures
      BY DEF CInv, StreamTypes
    <3> QED
      BY <3>1 DEF Captured, Partial, Captures
  <2>2. /\ h = Bytes(1, Len(h))
        /\ \A i \in 1..Len(h \o r) : (h \o r)[i] <= n
        /\ \A i, j \in 1..Len(h \o r) : i < j => (h \o r)[i] < (h \o r)[j]
    BY <2>1, PartialExcerpt
  <2> QED
    BY <1>2, <2>1, <2>2 DEF PartialCapture
<1> QED
  BY <1>1, <1>2

\* Whatever the interleaving of the tool, the drain threads and the caller, and
\* however the reads cut the stream, a returned capture counts and hashes every
\* byte and its excerpt holds the first and the last of them up to the limit,
\* unless the join of that stream gave up; then it may stop short, in order and
\* without repeating a byte; after a timeout none does (process.py 42-70,
\* 209-242).
THEOREM CapturesAreFaithful == Spec => []CaptureFaithful
<1>1. IInv /\ CInv => CaptureFaithful
  <2> SUFFICES ASSUME CInv, Returned, NEW s \in Names
               PROVE  \/ FaithfulCapture(s)
                      \/ s \in gaveUp /\ outcome # "timeout" /\ PartialCapture(s)
    BY DEF CaptureFaithful
  <2>1. Captured(s) /\ (outcome = "timeout" => gaveUp = {})
    BY DEF CInv, CaptureFollowsCaller, Unbounded
  <2>2. FaithfulCapture(s) \/ (s \in gaveUp /\ PartialCapture(s))
    BY <2>1, CapturedIsClaimed
  <2> QED
    BY <2>1, <2>2
<1> QED
  BY InitIInv, NextKeepsIInv, InitCInv, NextKeepsCInv, <1>1, PTL DEF Spec

=============================================================================
