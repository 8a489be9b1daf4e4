------------------------------- MODULE Timing -------------------------------
(***************************************************************************)
(* The times a client reports (Clock, and their use in Node::benchmark):   *)
(* one timer is started before the first write and read on every command;  *)
(* an array carries the time since the start and, on "checkpoint", since   *)
(* the last checkpoint.  The timer reads CLOCK_REALTIME, which can be set. *)
(*                                                                         *)
(* The times are the same for all servers of an array; Transfers has the   *)
(* counts.  All times are in ticks.                                        *)
(***************************************************************************)
EXTENDS Integers, Sequences

CONSTANTS
  Second,      \* ticks per second
  Jumps,       \* by how much the clock may be set, forwards or back
  MaxRows,     \* bound on the arrays sent
  MaxReal,     \* bound on the ticks that pass
  MaxJumps     \* bound on how often the clock is set

ASSUME TimingAssumption ==
  /\ Second \in Nat \ {0} /\ Jumps \subseteq Nat
  /\ MaxRows \in Nat /\ MaxReal \in Nat /\ MaxJumps \in Nat

VARIABLES
  pc,        \* "start", "loop", "done"
  timer,     \* _start and _stop
  transfer,  \* transfer[i].time_sec
  temp,      \* temp[i].time_sec
  rows,      \* delta_sec and time_sec of the arrays sent
  clock,     \* CLOCK_REALTIME
  real,      \* history: ticks since the process came here
  stamps,    \* history: real at the start and at every command
  summed,    \* history: the sum of the deltas sent on "checkpoint"
  jumps      \* history: how often the clock was set

vars == <<pc, timer, transfer, temp, rows, clock, real, stamps, summed, jumps>>

Init ==
  /\ pc = "start" /\ timer = [start |-> 0, stop |-> 0]
  /\ transfer = 0 /\ temp = 0 /\ rows = <<>>
  /\ clock = 0 /\ real = 0 /\ stamps = <<>> /\ summed = 0 /\ jumps = 0

\* Clock::getDelta, -1 (second) for a difference that is not positive.
GetDelta(t) == IF t.stop > t.start THEN t.stop - t.start ELSE -Second

TimerStart ==
  /\ pc = "start"
  /\ timer' = [timer EXCEPT !.start = clock]
  /\ stamps' = <<real>>
  /\ pc' = "loop"
  /\ UNCHANGED <<transfer, temp, rows, clock, real, summed, jumps>>

\* Every command stops the timer, which does not stop it: the next one reads the
\* clock again and counts from the same start.  A command takes a tick at least.
ReadTimer ==
  /\ pc = "loop" /\ real > stamps[Len(stamps)]
  /\ timer' = [timer EXCEPT !.stop = clock]
  /\ transfer' = GetDelta(timer')
  /\ stamps' = Append(stamps, real)

Send(delta, time) == rows' = Append(rows, [delta |-> delta, time |-> time])

SendDelta(delta) == Send(delta, transfer') /\ summed' = summed + delta

\* Mutant: the time of the last checkpoint is not kept.
Checkpoint_NoTemp ==
  /\ ReadTimer /\ Len(rows) < MaxRows
  /\ SendDelta(transfer' - temp)
  /\ UNCHANGED <<pc, temp, clock, real, jumps>>

\* Mutant: the time since the start for the time since the last checkpoint.
Checkpoint_Total ==
  /\ ReadTimer /\ Len(rows) < MaxRows
  /\ SendDelta(transfer')
  /\ temp' = transfer'
  /\ UNCHANGED <<pc, clock, real, jumps>>

Checkpoint ==
  /\ ReadTimer /\ Len(rows) < MaxRows
  /\ SendDelta(transfer' - temp)
  /\ temp' = transfer'
  /\ UNCHANGED <<pc, clock, real, jumps>>

StopCommand ==
  /\ ReadTimer
  /\ Send(transfer', transfer')
  /\ pc' = "done"
  /\ UNCHANGED <<temp, clock, real, summed, jumps>>

Tick ==
  /\ pc # "done" /\ real < MaxReal
  /\ clock' = clock + 1 /\ real' = real + 1
  /\ UNCHANGED <<pc, timer, transfer, temp, rows, stamps, summed, jumps>>

ClockIsSet ==
  /\ pc # "done" /\ jumps < MaxJumps
  /\ \E d \in Jumps : clock' \in {clock - d, clock + d}
  /\ jumps' = jumps + 1
  /\ UNCHANGED <<pc, timer, transfer, temp, rows, real, stamps, summed>>

Next == TimerStart \/ Checkpoint \/ StopCommand \/ Tick \/ ClockIsSet

Spec == Init /\ [][Next]_vars

-----------------------------------------------------------------------------
(* Properties. *)

\* The arrays sent on "checkpoint".
Snapshots == 1 .. Len(rows) - (IF pc = "done" THEN 1 ELSE 0)

\* While nobody sets the clock every array has the time since the start and the
\* time since the array before it, and the last one the time since the start
\* twice.
TimesAreReal ==
  jumps = 0 => \A k \in DOMAIN rows :
    /\ rows[k].time = stamps[k + 1] - stamps[1]
    /\ rows[k].delta = stamps[k + 1] - stamps[IF k \in Snapshots THEN k ELSE 1]

\* However the clock is set the deltas of the checkpoints add up to the time of
\* the last one: an error in one of them, the -1 of getDelta too, is made good by
\* the next, and the throughputs stay comparable over the whole run.  (summed holds
\* the sum up to now, so that every checkpoint is the last one in some state.)
DeltasMakeTime ==
  \A k \in Snapshots : k + 1 \notin Snapshots => rows[k].time = summed

=============================================================================
