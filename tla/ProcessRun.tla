----------------------------- MODULE ProcessRun -----------------------------
(***************************************************************************)
(* One call of process.run_process: the calling thread, the two daemon     *)
(* threads that drain the tool's pipes, the tool's process group, and the  *)
(* clock and cancel event the caller polls.                                *)
(*                                                                         *)
(* A byte is its position in its stream, so that the excerpt a collector   *)
(* keeps (a head up to half the limit, a trimmed tail) says which bytes it *)
(* holds; size and digest are functions of a prefix, so a count.  A pipe   *)
(* reaches end of file only when no live process holds its write end.      *)
(*                                                                         *)
(* Processes are the operating system's: they may fork, leave the group,   *)
(* close the pipes, ignore SIGTERM and hang, and no fairness binds them.   *)
(***************************************************************************)
EXTENDS Integers, Sequences

CONSTANTS
  Leader,        \* the process Popen starts (leader of the new session)
  Descendants,   \* processes it may come to have
  Streams,       \* the pipes, in the order the caller joins their threads
  MaxBytes,      \* BOUND: bytes the processes write to each stream
  ReadSize,      \* bytes one read of _drain asks for (16384 in the code)
  Limit,         \* output_bytes
  KeepsLog,      \* a stdout_path / stderr_path is given
  MayEscape,     \* a descendant may start a session of its own
  MayInterrupt,  \* the caller is the main thread: KeyboardInterrupt reaches it
  SlowDrain      \* five seconds may be too short for a drain not blocked

Names == {Streams[i] : i \in 1..Len(Streams)}

ASSUME ProcessRunAssumption ==
  /\ Leader \notin Descendants
  /\ MaxBytes \in [Names -> Nat] /\ ReadSize \in Nat \ {0} /\ Limit \in Nat
  /\ {KeepsLog, MayEscape, MayInterrupt, SlowDrain} \subseteq BOOLEAN
  /\ Streams \in Seq(STRING) /\ Len(Streams) > 0
  /\ \A i, j \in 1..Len(Streams) : Streams[i] = Streams[j] => i = j

VARIABLES
  pc,         \* where the caller is in run_process
  why,        \* why it terminates the group ("none" while it does not)
  joining,    \* index in Streams of the thread being joined
  outcome,    \* RawOutcome returned, "cancelled"/"interrupted" when raised
  capture,    \* per stream, the StreamCapture finish() built
  gaveUp,     \* streams whose thread was still alive after join(timeout=5)
  cancelSet,  \* cancel_event
  expired,    \* the deadline has passed
  leader,     \* "none", "running", "zombie", "reaped"
  leaderEnd,  \* how the leader ended: by itself, or after our signal
  unborn, group, escaped,  \* descendants: not forked, in the group, out of it
  holders,    \* live processes holding the pipes' write ends
  written, piped, inRead,  \* bytes written, in the pipe, in a pending read
  drain,      \* per stream: "read", a place inside consume, "closed"
  size, hashed, head, tail,  \* the collector; hashed: bytes in the digest
  finished    \* streams whose collector has been finished (log closed)

caller == <<pc, why, joining, outcome, capture, gaveUp>>
signals == <<cancelSet, expired>>
procs == <<leader, leaderEnd, unborn, group, escaped, holders>>
collector == <<size, hashed, head, tail>>
drains == <<written, piped, inRead, drain, collector, finished>>
vars == <<caller, signals, procs, drains>>

HeadLimit == Limit \div 2
TailLimit == Limit - HeadLimit

\* The bytes at positions i to j of a stream, in order.
Bytes(i, j) == [k \in 1..(j - i + 1) |-> i + k - 1]

NoCapture == [size |-> 0, hashed |-> 0, head |-> << >>, tail |-> << >>,
              truncated |-> FALSE]
GroupExists == leader \in {"running", "zombie"} \/ group # {}

Init ==
  /\ pc = "start" /\ why = "none" /\ joining = 1 /\ outcome = "none"
  /\ capture = [s \in Names |-> NoCapture] /\ gaveUp = {}
  /\ cancelSet \in BOOLEAN /\ expired = FALSE
  /\ leader = "none" /\ leaderEnd = "none"
  /\ unborn = Descendants /\ group = {} /\ escaped = {} /\ holders = {}
  /\ written = [s \in Names |-> 0] /\ piped = [s \in Names |-> 0]
  /\ inRead = [s \in Names |-> 0] /\ drain = [s \in Names |-> "closed"]
  /\ size = [s \in Names |-> 0] /\ hashed = [s \in Names |-> 0]
  /\ head = [s \in Names |-> << >>] /\ tail = [s \in Names |-> << >>]
  /\ finished = {}

-----------------------------------------------------------------------------
(* The caller. *)

\* The event was already set: nothing is started.
RefuseCancelled ==
  /\ pc = "start" /\ cancelSet
  /\ pc' = "done" /\ outcome' = "cancelled"
  /\ UNCHANGED <<why, joining, capture, gaveUp, signals, procs, drains>>

LaunchFailure ==
  /\ pc = "start" /\ ~cancelSet
  /\ pc' = "done" /\ outcome' = "launch-failure"
  /\ UNCHANGED <<why, joining, capture, gaveUp, signals, procs, drains>>

Launch ==
  /\ pc = "start" /\ ~cancelSet
  /\ pc' = "poll" /\ leader' = "running" /\ holders' = {Leader}
  /\ drain' = [s \in Names |-> "read"]
  /\ UNCHANGED <<why, joining, outcome, capture, gaveUp, signals, leaderEnd,
                 unborn, group, escaped, written, piped, inRead, collector,
                 finished>>

\* The tool runs already, and a log cannot be opened, a thread cannot be started
\* or an interrupt comes before the try: nobody is left to end it.
LaunchUnsupervised ==
  /\ pc = "start" /\ ~cancelSet
  /\ pc' = "done" /\ outcome' = "unsupervised"
  /\ leader' = "running" /\ holders' = {Leader}
  /\ UNCHANGED <<why, joining, capture, gaveUp, signals, leaderEnd, unborn,
                 group, escaped, drains>>

\* One turn of the wait loop looks at the event, then the clock, then waits.
PollCancel ==
  /\ pc = "poll"
  /\ IF cancelSet THEN pc' = "term" /\ why' = "cancel"
                  ELSE pc' = "clock" /\ UNCHANGED why
  /\ UNCHANGED <<joining, outcome, capture, gaveUp, signals, procs, drains>>

CheckClock ==
  /\ pc = "clock"
  /\ IF expired THEN pc' = "term" /\ why' = "timeout"
                ELSE pc' = "wait" /\ UNCHANGED why
  /\ UNCHANGED <<joining, outcome, capture, gaveUp, signals, procs, drains>>

WaitExpires ==
  /\ pc = "wait" /\ leader = "running"
  /\ pc' = "poll"
  /\ UNCHANGED <<why, joining, outcome, capture, gaveUp, signals, procs,
                 drains>>

WaitReturns ==
  /\ pc = "wait" /\ leader = "zombie"
  /\ pc' = "group" /\ leader' = "reaped"
  /\ UNCHANGED <<why, joining, outcome, capture, gaveUp, signals, leaderEnd,
                 unborn, group, escaped, holders, drains>>

\* Mutant of CheckGroup: what the leader left behind is not looked for.
CheckGroupSkipped ==
  /\ pc = "group" /\ pc' = "join"
  /\ UNCHANGED <<why, joining, outcome, capture, gaveUp, signals, procs,
                 drains>>

\* The leader is gone by itself: members it left behind are terminated.
CheckGroup ==
  /\ pc = "group"
  /\ IF GroupExists THEN pc' = "term" /\ why' = "leftover"
                    ELSE pc' = "join" /\ UNCHANGED why
  /\ UNCHANGED <<joining, outcome, capture, gaveUp, signals, procs, drains>>

\* _terminate_process_group has sent SIGTERM and polls for two seconds.
TermPoll ==
  /\ pc = "term" /\ leader = "zombie"
  /\ leader' = "reaped"
  /\ UNCHANGED <<caller, signals, leaderEnd, unborn, group, escaped, holders,
                 drains>>

TermGroupGone ==
  /\ pc = "term" /\ ~GroupExists
  /\ pc' = "reap"
  /\ UNCHANGED <<why, joining, outcome, capture, gaveUp, signals, procs,
                 drains>>

\* Mutant of TermKill: SIGKILL goes to the leader, not to its group.
TermKillLeaderOnly ==
  /\ pc = "term" /\ GroupExists
  /\ pc' = "reap"
  /\ leader' = IF leader = "running" THEN "zombie" ELSE leader
  /\ leaderEnd' = IF leader = "running" THEN "killed" ELSE leaderEnd
  /\ holders' = holders \ {Leader}
  /\ UNCHANGED <<why, joining, outcome, capture, gaveUp, signals, unborn,
                 group, escaped, drains>>

TermKill ==
  /\ pc = "term" /\ GroupExists
  /\ pc' = "reap"
  /\ leader' = IF leader = "running" THEN "zombie" ELSE leader
  /\ leaderEnd' = IF leader = "running" THEN "killed" ELSE leaderEnd
  /\ holders' = holders \ (group \cup {Leader}) /\ group' = {}
  /\ UNCHANGED <<why, joining, outcome, capture, gaveUp, signals, unborn,
                 escaped, drains>>

\* process.wait(), then back in run_process.
Reap ==
  /\ pc = "reap" /\ leader # "running"
  /\ pc' = "join" /\ leader' = "reaped"
  /\ why' = IF why = "leftover" /\ cancelSet THEN "cancel" ELSE why
  /\ UNCHANGED <<joining, outcome, capture, gaveUp, signals, leaderEnd, unborn,
                 group, escaped, holders, drains>>

\* join(timeout=None) after a timeout, a cancellation or an exception;
\* join(timeout=5) otherwise.
Unbounded == why \in {"cancel", "timeout", "interrupt"}

JoinNext ==
  /\ joining' = IF joining = Len(Streams) THEN 1 ELSE joining + 1
  /\ pc' = IF joining = Len(Streams) THEN "finish" ELSE "join"
  /\ UNCHANGED <<why, outcome, capture, signals, procs, drains>>

JoinReturns ==
  /\ pc = "join" /\ drain[Streams[joining]] = "closed"
  /\ JoinNext /\ UNCHANGED gaveUp

\* The thread waits in a read for bytes or an end of file that do not come.
Blocked(s) ==
  drain[s] = "read" /\ piped[s] = 0 /\ inRead[s] < ReadSize /\ holders # {}

JoinGivesUp ==
  /\ pc = "join" /\ ~Unbounded /\ drain[Streams[joining]] # "closed"
  /\ SlowDrain \/ Blocked(Streams[joining])
  /\ JoinNext /\ gaveUp' = gaveUp \cup {Streams[joining]}

\* finish(): close the log and compare the size with the limit ...
FinishFlag ==
  /\ pc = "finish"
  /\ LET s == Streams[joining] IN
       /\ finished' = finished \cup {s}
       /\ capture' = [capture EXCEPT ![s].truncated = size[s] > Limit]
  /\ pc' = "head"
  /\ UNCHANGED <<why, joining, outcome, gaveUp, signals, procs, written, piped,
                 inRead, drain, collector>>

\* ... copy the head, then the tail (a thread given up on may run in between) ...
FinishHead ==
  /\ pc = "head"
  /\ LET s == Streams[joining] IN capture' = [capture EXCEPT ![s].head = head[s]]
  /\ pc' = "tail"
  /\ UNCHANGED <<why, joining, outcome, gaveUp, signals, procs, drains>>

FinishTail ==
  /\ pc = "tail"
  /\ LET s == Streams[joining] IN capture' = [capture EXCEPT ![s].tail = tail[s]]
  /\ pc' = "record"
  /\ UNCHANGED <<why, joining, outcome, gaveUp, signals, procs, drains>>

\* Mutant of Verdict: the timed_out branch (lines 217-225) is missing.
VerdictWithoutTimeout ==
  CASE why = "cancel"    -> "cancelled"
    [] why = "interrupt" -> "interrupted"
    [] OTHER -> IF leaderEnd = "exit" THEN "normal-exit" ELSE "signal"

\* ... then the size and the digest, and after the last stream the verdict.
Verdict ==
  CASE why = "cancel"    -> "cancelled"
    [] why = "interrupt" -> "interrupted"
    [] why = "timeout"   -> "timeout"
    [] OTHER -> IF leaderEnd = "exit" THEN "normal-exit" ELSE "signal"

FinishRecord ==
  /\ pc = "record"
  /\ LET s == Streams[joining] IN
       capture' = [capture EXCEPT ![s].size = size[s], ![s].hashed = hashed[s]]
  /\ IF joining = Len(Streams)
     THEN pc' = "done" /\ outcome' = Verdict /\ UNCHANGED joining
     ELSE pc' = "finish" /\ joining' = joining + 1 /\ UNCHANGED outcome
  /\ UNCHANGED <<why, gaveUp, signals, procs, drains>>

\* KeyboardInterrupt inside the try: the handler terminates the group, joins
\* both threads without a timeout, finishes and re-raises.
InterruptLoop ==
  /\ MayInterrupt /\ why # "interrupt"
  /\ \/ pc \in {"poll", "clock", "wait"}
     \/ (pc \in {"term", "reap"} /\ why \in {"cancel", "timeout"})
  /\ pc' = "term" /\ why' = "interrupt"
  /\ UNCHANGED <<joining, outcome, capture, gaveUp, signals, procs, drains>>

\* KeyboardInterrupt after the loop: no handler, it leaves at once.  While the
\* group is looked for or ended that may be too early for the group.
InterruptLate ==
  /\ MayInterrupt
  /\ \/ /\ pc = "group" \/ (pc \in {"term", "reap"} /\ why \in {"leftover", "interrupt"})
        /\ outcome' = "interrupted-late"
     \/ /\ pc \in {"join", "finish", "head", "tail", "record"}
        /\ outcome' = "interrupted-joining"
  /\ pc' = "done"
  /\ UNCHANGED <<why, joining, capture, gaveUp, signals, procs, drains>>

Caller ==
  \/ RefuseCancelled \/ LaunchFailure \/ Launch \/ LaunchUnsupervised
  \/ PollCancel \/ CheckClock \/ WaitExpires \/ WaitReturns \/ CheckGroup
  \/ TermPoll \/ TermGroupGone \/ TermKill \/ Reap
  \/ JoinReturns \/ JoinGivesUp
  \/ FinishFlag \/ FinishHead \/ FinishTail \/ FinishRecord

-----------------------------------------------------------------------------
(* The drain threads. *)

\* BufferedReader.read(n) returns n bytes, or fewer only at end of file.
AtEOF(s) == piped[s] = 0 /\ holders = {}
ReadReturns(s) == inRead[s] = ReadSize \/ (AtEOF(s) /\ inRead[s] > 0)

DrainRead(s) ==
  /\ drain[s] = "read" /\ piped[s] > 0 /\ inRead[s] < ReadSize
  /\ piped' = [piped EXCEPT ![s] = @ - 1]
  /\ inRead' = [inRead EXCEPT ![s] = @ + 1]
  /\ UNCHANGED <<caller, signals, procs, written, drain, collector, finished>>

\* consume() writes the log first; a closed one ends the thread, whose finally
\* closes the read end ...
DrainLog(s) ==
  /\ drain[s] = "read" /\ ReadReturns(s)
  /\ drain' = [drain EXCEPT ![s] = IF KeepsLog /\ s \in finished THEN "closed"
                                                               ELSE "logged"]
  /\ UNCHANGED <<caller, signals, procs, written, piped, inRead, collector,
                 finished>>

DrainCount(s) ==
  /\ drain[s] = "logged"
  /\ drain' = [drain EXCEPT ![s] = "counted"]
  /\ size' = [size EXCEPT ![s] = @ + inRead[s]]
  /\ UNCHANGED <<caller, signals, procs, written, piped, inRead, hashed, head,
                 tail, finished>>

\* The last inRead bytes that left the pipe: what consume has still to place.
Chunk(s) == Bytes(written[s] - piped[s] - inRead[s] + 1, written[s] - piped[s])

\* Mutant of DrainHead: the part the head took is not cut off the chunk.
DrainHeadUncut(s) ==
  /\ drain[s] = "counted"
  /\ LET room == HeadLimit - Len(head[s])
         take == IF inRead[s] < room THEN inRead[s] ELSE room
     IN  head' = [head EXCEPT ![s] = @ \o SubSeq(Chunk(s), 1, take)]
  /\ hashed' = [hashed EXCEPT ![s] = @ + inRead[s]]
  /\ drain' = [drain EXCEPT ![s] = "headed"]
  /\ UNCHANGED <<caller, signals, procs, written, piped, inRead, size, tail,
                 finished>>

\* ... digests the whole chunk and gives the head what it has room for ...
DrainHead(s) ==
  /\ drain[s] = "counted"
  /\ LET room == HeadLimit - Len(head[s])
         take == IF inRead[s] < room THEN inRead[s] ELSE room
     IN  /\ head' = [head EXCEPT ![s] = @ \o SubSeq(Chunk(s), 1, take)]
         /\ inRead' = [inRead EXCEPT ![s] = @ - take]
  /\ hashed' = [hashed EXCEPT ![s] = @ + inRead[s]]
  /\ drain' = [drain EXCEPT ![s] = "headed"]
  /\ UNCHANGED <<caller, signals, procs, written, piped, size, tail, finished>>

\* ... and the tail the rest, dropping from its front what is over its limit.
DrainTail(s) ==
  /\ drain[s] = "headed"
  /\ LET longer == IF TailLimit > 0 THEN tail[s] \o Chunk(s) ELSE tail[s] IN
       /\ tail' = [tail EXCEPT ![s] = longer]
       /\ drain' = [drain EXCEPT ![s] = IF Len(longer) > TailLimit THEN "trim"
                                                                  ELSE "read"]
  /\ inRead' = [inRead EXCEPT ![s] = 0]
  /\ UNCHANGED <<caller, signals, procs, written, piped, size, hashed, head,
                 finished>>

DrainTrim(s) ==
  /\ drain[s] = "trim"
  /\ drain' = [drain EXCEPT ![s] = "read"]
  /\ tail' = [tail EXCEPT ![s] = SubSeq(@, Len(@) - TailLimit + 1, Len(@))]
  /\ UNCHANGED <<caller, signals, procs, written, piped, inRead, size, hashed,
                 head, finished>>

DrainEOF(s) ==
  /\ drain[s] = "read" /\ AtEOF(s) /\ inRead[s] = 0
  /\ drain' = [drain EXCEPT ![s] = "closed"]
  /\ UNCHANGED <<caller, signals, procs, written, piped, inRead, collector,
                 finished>>

Drain(s) ==
  \/ DrainRead(s) \/ DrainEOF(s)
  \/ DrainLog(s) \/ DrainCount(s) \/ DrainHead(s) \/ DrainTail(s) \/ DrainTrim(s)

-----------------------------------------------------------------------------
(* The clock, the campaign's cancel event, and the tool's processes. *)

Expire ==
  /\ pc \notin {"start", "done"} /\ ~expired
  /\ expired' = TRUE
  /\ UNCHANGED <<caller, cancelSet, procs, drains>>

Cancel ==
  /\ ~cancelSet /\ pc # "done"
  /\ cancelSet' = TRUE
  /\ UNCHANGED <<caller, expired, procs, drains>>

Write(s) ==
  /\ holders # {} /\ written[s] < MaxBytes[s] /\ drain[s] # "closed"
  /\ written' = [written EXCEPT ![s] = @ + 1]
  /\ piped' = [piped EXCEPT ![s] = @ + 1]
  /\ UNCHANGED <<caller, signals, procs, inRead, drain, collector, finished>>

LeaderEnds(how) ==
  /\ leader = "running"
  /\ leader' = "zombie" /\ holders' = holders \ {Leader}
  /\ leaderEnd' = IF pc \in {"term", "reap"} THEN "killed" ELSE how
  /\ UNCHANGED <<caller, signals, unborn, group, escaped, drains>>

\* A live process forks d, which inherits its group and its pipes.
Fork(d) ==
  /\ d \in unborn /\ unborn' = unborn \ {d}
  /\ \/ /\ leader = "running"
        /\ group' = group \cup {d} /\ UNCHANGED escaped
        /\ holders' = IF Leader \in holders THEN holders \cup {d} ELSE holders
     \/ \E p \in group :
          /\ group' = group \cup {d} /\ UNCHANGED escaped
          /\ holders' = IF p \in holders THEN holders \cup {d} ELSE holders
     \/ \E p \in escaped :
          /\ escaped' = escaped \cup {d} /\ UNCHANGED group
          /\ holders' = IF p \in holders THEN holders \cup {d} ELSE holders
  /\ UNCHANGED <<caller, signals, leader, leaderEnd, drains>>

DescendantEnds(d) ==
  /\ d \in group \cup escaped
  /\ group' = group \ {d} /\ escaped' = escaped \ {d}
  /\ holders' = holders \ {d}
  /\ UNCHANGED <<caller, signals, leader, leaderEnd, unborn, drains>>

\* setsid() in a descendant takes it out of the group.
Escape(d) ==
  /\ MayEscape /\ d \in group
  /\ group' = group \ {d} /\ escaped' = escaped \cup {d}
  /\ UNCHANGED <<caller, signals, leader, leaderEnd, unborn, holders, drains>>

CloseStdio(p) ==
  /\ p \in holders /\ holders' = holders \ {p}
  /\ UNCHANGED <<caller, signals, leader, leaderEnd, unborn, group, escaped,
                 drains>>

Processes ==
  \/ \E s \in Names : Write(s)
  \/ \E how \in {"exit", "crash"} : LeaderEnds(how)
  \/ \E d \in Descendants : Fork(d) \/ DescendantEnds(d) \/ Escape(d)
  \/ \E p \in Descendants \cup {Leader} : CloseStdio(p)

Next ==
  \/ Caller \/ InterruptLoop \/ InterruptLate
  \/ \E s \in Names : Drain(s)
  \/ Expire \/ Cancel \/ Processes

Spec == Init /\ [][Next]_vars

\* The caller's and the drain threads are scheduled and time passes; the tool,
\* the operator who cancels and the keyboard owe nothing.
FairSpec ==
  /\ Spec /\ WF_vars(Caller) /\ WF_vars(Expire)
  /\ \A s \in Names : WF_vars(Drain(s))

-----------------------------------------------------------------------------
(* Properties. *)

Phases == {"start", "poll", "clock", "wait", "group", "term", "reap", "join",
           "finish", "head", "tail", "record", "done"}
Reasons == {"none", "cancel", "timeout", "leftover", "interrupt"}
Outcomes == {"none", "cancelled", "launch-failure", "timeout", "normal-exit",
             "signal", "interrupted", "interrupted-late", "interrupted-joining",
             "unsupervised"}

\* Whatever way run_process ends, no member of the tool's process group is
\* left alive or unreaped, an interrupt during the joins included.  Two ways are
\* not covered by a handler: a failure between Popen and the try (lines 169-181),
\* and a KeyboardInterrupt while the group is looked for or ended (lines 198-206).
NoGroupSurvivor ==
  pc = "done" /\ outcome \notin {"interrupted-late", "unsupervised"} => ~GroupExists

\* An end the harness caused is never reported as the tool's: NORMAL_EXIT and
\* SIGNAL are returned only for a leader that ended before it was signalled.
OwnKillNeverReported ==
  /\ outcome = "normal-exit" => leaderEnd = "exit"
  /\ outcome = "signal" => leaderEnd = "crash"

\* The first half of the limit and the last, of a stream longer than the limit.
FaithfulCapture(s) ==
  LET c == capture[s]
      n == written[s]
  IN  /\ c.size = n /\ c.hashed = n /\ c.truncated = (n > Limit)
      /\ n <= Limit => c.head \o c.tail = Bytes(1, n)
      /\ n > Limit => /\ c.head = Bytes(1, HeadLimit)
                      /\ c.tail = Bytes(n - TailLimit + 1, n)

\* What still holds of a stream that was read while its thread was running.
PartialCapture(s) ==
  LET c == capture[s]
      text == c.head \o c.tail
  IN  /\ c.size <= written[s]
      /\ c.head = Bytes(1, Len(c.head))
      /\ \A i \in 1..Len(text) : text[i] <= c.size
      /\ \A i, j \in 1..Len(text) : i < j => text[i] < text[j]

Returned == outcome \in {"normal-exit", "signal", "timeout"}

\* The capture in a returned result counts and hashes every byte the tool's
\* processes wrote, and its excerpt holds them all, or the first and the last
\* ones up to the limit when they are more, wherever the chunks were cut.  When
\* the five seconds of join(timeout=5) ran out on a stream its capture may stop
\* short, but repeats and reorders nothing and starts at the first byte; those
\* of a TIMEOUT never stop short (process.py 42-54, 56-70, 209-214).
CaptureFaithful ==
  Returned => \A s \in Names :
                \/ FaithfulCapture(s)
                \/ s \in gaveUp /\ outcome # "timeout" /\ PartialCapture(s)

\* What an unbounded join can wait for: a descendant that left the group and
\* still holds the pipe.
Held ==
  /\ pc = "join" /\ Unbounded
  /\ Blocked(Streams[joining]) /\ holders \subseteq escaped

\* In the end a call has returned or raised, or is held for good by a process
\* outside the group it killed: nothing else the tool does may keep the caller.
EndsUnlessHeld == <>[](pc = "done" \/ Held)

\* Claimed by process.py:1, "Bounded, timeout-safe process execution": a
\* started call returns or raises.
CallEnds == (pc # "start") ~> (pc = "done")

=============================================================================
