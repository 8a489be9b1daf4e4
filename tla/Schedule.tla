------------------------------ MODULE Schedule ------------------------------
(***************************************************************************)
(* The controller between "start" and its end (Main.cpp, controller()):    *)
(* the loop that decides by the system clock when to take a checkpoint and *)
(* when to stop, and the result file it appends every round to.            *)
(*                                                                         *)
(* Coordination has the messages of these calls and leaves it open when    *)
(* they are made; here they are one step each, and time passes.            *)
(***************************************************************************)
EXTENDS Integers, Sequences, FiniteSets

CONSTANTS
  MaxDuration, \* config->max_duration, in seconds
  Interval,    \* config->checkpoint_intervall, in seconds
  Leftover,    \* what elapsed_seconds may hold before it is first assigned
  Tails,       \* what may follow the 10 characters of date[] in memory
  NoTail,      \* nothing: a zero byte happens to come next
  Slow,        \* bound on the ticks between two readings of the clock
  MaxReal,     \* bound on the ticks that pass
  MaxJumps,    \* bound on how often the system clock is set
  DiskFails    \* whether the result file can become impossible to open

ASSUME ScheduleAssumption ==
  /\ MaxDuration \in Nat \ {0} /\ Interval \in Nat \ {0}
  /\ Leftover \subseteq Int /\ Leftover # {} /\ NoTail \in Tails
  /\ Slow \in Nat /\ MaxReal \in Nat /\ MaxJumps \in Nat /\ DiskFails \in BOOLEAN

VARIABLES
  pc,      \* "start", "loop", "checkpoint", "open", "stop", "open_final",
           \* "done", "failed"
  start,   \* the local variables of that name, in ticks
  elapsed,
  check,   \* in seconds
  rounds,  \* checkpoints taken
  file,    \* file[t]: the rows in the file whose name is date[] followed by t
  writable, \* whether the file can be opened
  clock,   \* system_clock::now(), in ticks
  since,   \* ticks since the clock was last read
  jumps,   \* how often the clock was set
  real,    \* history: ticks since the process came here
  began    \* history: real when the timer was started

localVars == <<start, elapsed, check, rounds, file>>
timeVars  == <<clock, since, jumps, real>>
vars      == <<pc, localVars, writable, timeVars, began>>

TicksPerSec == 2

\* (int)elapsed_seconds.count()
Secs(e) == IF e >= 0 THEN e \div TicksPerSec ELSE -((-e) \div TicksPerSec)

RowOf(r) == [kind |-> "round", n |-> r]
Summary  == [kind |-> "summary", n |-> 0]

Init ==
  /\ pc = "start"
  /\ start = 0 /\ elapsed \in Leftover /\ check = Interval
  /\ rounds = 0 /\ file = [t \in Tails |-> <<>>] /\ writable = TRUE
  /\ clock = 0 /\ since = 0 /\ jumps = 0
  /\ real = 0 /\ began = 0

-----------------------------------------------------------------------------
(* The loop. *)

StartTimer ==
  /\ pc = "start"
  /\ start' = clock /\ since' = 0 /\ began' = real
  /\ pc' = "loop"
  /\ UNCHANGED <<elapsed, check, rounds, file, writable, clock, jumps, real>>

\* Mutant: the reading is not stored.
Iterate_NotStored ==
  /\ pc = "loop"
  /\ elapsed < MaxDuration * TicksPerSec
  /\ since' = 0
  /\ pc' = IF Secs(clock - start) >= check THEN "checkpoint" ELSE "loop"
  /\ UNCHANGED <<start, elapsed, check, rounds, file, writable, clock, jumps, real, began>>

\* The test of the loop, then a reading of the clock.
Iterate ==
  /\ pc = "loop"
  /\ elapsed < MaxDuration * TicksPerSec
  /\ elapsed' = clock - start
  /\ since' = 0
  /\ pc' = IF Secs(elapsed') >= check THEN "checkpoint" ELSE "loop"
  /\ UNCHANGED <<start, check, rounds, file, writable, clock, jumps, real, began>>

\* Mutant: once a round is due, all rounds up to the end are.
TakeCheckpoint_NoTest ==
  /\ pc \in {"loop", "checkpoint"}
  /\ rounds' = rounds + 1
  /\ pc' = "open"
  /\ UNCHANGED <<start, elapsed, check, file, writable, timeVars, began>>

\* controllerCheckpoint(): the controller returns if it fails.
TakeCheckpoint ==
  /\ pc = "checkpoint"
  /\ \/ /\ rounds' = rounds + 1
              /\ pc' = "open"
     \/ pc' = "failed" /\ UNCHANGED rounds
  /\ UNCHANGED <<start, elapsed, check, file, writable, timeVars, began>>

LoopEnds ==
  /\ pc = "loop"
  /\ elapsed >= MaxDuration * TicksPerSec
  /\ pc' = "stop"
  /\ UNCHANGED <<localVars, writable, timeVars, began>>

\* controllerStop()
Stop ==
  /\ pc = "stop"
  /\ pc' \in {"open_final", "failed"}
  /\ UNCHANGED <<localVars, writable, timeVars, began>>

-----------------------------------------------------------------------------
(* The result file.  It is opened by the bytes from date[0] up to the next    *)
(* zero, wherever that is: strncpy leaves date[] without one.                 *)

AppendRow(t, row) == file' = [file EXCEPT ![t] = Append(@, row)]

\* Mutant: the loop around the file is not left after the row is written.
Open_NoBreak ==
  /\ pc = "open" /\ writable
  /\ \E t \in Tails : AppendRow(t, RowOf(rounds))
  /\ \/ check' = check + Interval /\ pc' = "loop"
     \/ Len(file[NoTail]) < MaxReal /\ UNCHANGED <<check, pc>>
  /\ UNCHANGED <<start, elapsed, rounds, writable, timeVars, began>>

\* Mutant: the next round is due two intervals later.
Open_SkipsOne ==
  /\ pc = "open" /\ writable
  /\ \E t \in Tails : AppendRow(t, RowOf(rounds))
  /\ check' = check + 2 * Interval
  /\ pc' = "loop"
  /\ UNCHANGED <<start, elapsed, rounds, writable, timeVars, began>>

\* As long as the file cannot be opened the controller tries again, which
\* changes nothing.
Open ==
  /\ pc = "open" /\ writable
  /\ \E t \in Tails : AppendRow(t, RowOf(rounds))
  /\ check' = check + Interval
  /\ pc' = "loop"
  /\ UNCHANGED <<start, elapsed, rounds, writable, timeVars, began>>

OpenFinal ==
  /\ pc = "open_final" /\ writable
  /\ \E t \in Tails : AppendRow(t, Summary)
  /\ pc' = "done"
  /\ UNCHANGED <<start, elapsed, check, rounds, writable, timeVars, began>>

-----------------------------------------------------------------------------
(* Time. *)

Working == pc \notin {"done", "failed"}

Tick ==
  /\ Working
  /\ since < Slow /\ real < MaxReal
  /\ clock' = clock + 1 /\ since' = since + 1 /\ real' = real + 1
  /\ UNCHANGED <<pc, localVars, writable, jumps, began>>

\* system_clock is not monotonic.
ClockIsSet ==
  /\ Working
  /\ jumps < MaxJumps
  /\ \E d \in {-TicksPerSec, TicksPerSec} : clock' = clock + d
  /\ jumps' = jumps + 1
  /\ UNCHANGED <<pc, localVars, writable, since, real, began>>

\* The disk fills up, permissions change, or it is repaired.
DiskChanges ==
  /\ DiskFails /\ Working
  /\ writable' = ~writable
  /\ UNCHANGED <<pc, localVars, timeVars, began>>

Controller == \/ StartTimer \/ Iterate \/ TakeCheckpoint \/ LoopEnds \/ Stop
              \/ Open \/ OpenFinal

Next == Controller \/ Tick \/ ClockIsSet \/ DiskChanges

Spec == Init /\ [][Next]_vars

\* The controller is scheduled and time passes; a round comes to an end or fails
\* (RunEnds of Coordination).
FairSpec == Spec /\ WF_vars(Controller) /\ WF_vars(Tick)

-----------------------------------------------------------------------------
(* Properties. *)

\* No more rounds than begin before the end, whatever elapsed_seconds held,
\* however the clock is set and however late a round is: the loop is left before
\* a round can be due that begins at or after max_duration, except the one that
\* is taken with the last reading.  This bounds MaxRounds of Coordination by
\* max_duration / checkpoint_intervall, rounded up.
RoundsBounded == rounds > 0 => (rounds - 1) * Interval < MaxDuration

\* Without a clock that is set the loop goes on for max_duration and no round that
\* is due is left out, though a round may be late, as long as no more than an
\* interval passes between two readings of the clock (Slow), and the result file
\* may be out of reach for a while; but for a loop that never read the clock, since the memory of
\* elapsed_seconds happened to hold max_duration or more.  (Main.cpp:107, "wait
\* till time t is reached"; README.md:75, "duration of the benchmark in seconds".)
FullCourse ==
  jumps = 0 /\ pc \in {"stop", "open_final", "done"} =>
    \/ rounds = 0 /\ elapsed \in Leftover
    \/ /\ real - began >= MaxDuration * TicksPerSec
       /\ rounds >= MaxDuration \div Interval

RowsIn(t) == {file[t][k] : k \in DOMAIN file[t]}
Written   == rounds - (IF pc = "open" THEN 1 ELSE 0)

\* Every round is in one file, once, in order, and the summary after the last
\* round, however often the file could not be opened.
EveryRoundOnce ==
  /\ UNION {RowsIn(t) : t \in Tails} =
       {RowOf(r) : r \in 1 .. Written} \cup IF pc = "done" THEN {Summary} ELSE {}
  /\ \A t, u \in Tails : t # u => RowsIn(t) \cap RowsIn(u) = {}
  /\ \A t \in Tails : \A j, k \in DOMAIN file[t] :
       j < k => \/ file[t][j].n < file[t][k].n
                \/ file[t][j].kind = "round" /\ file[t][k].kind = "summary"

\* The controller comes to its end, or the file stays impossible to open, time
\* and again, while the controller waits for it.
Ends == <>(~Working) \/ []<>(~writable /\ pc \in {"open", "open_final"})

-----------------------------------------------------------------------------
\* Main.cpp:107, "wait till time t is reached": without the exception of FullCourse.
FullDuration ==
  pc \in {"stop", "open_final", "done"} => real - began >= MaxDuration * TicksPerSec

=============================================================================
