----------------------------- MODULE TimingProofs -----------------------------
(***************************************************************************)
(* The times in the arrays of a client, for every number of arrays and     *)
(* every way to set the clock.                                             *)
(***************************************************************************)
EXTENDS Timing, TLAPS

-----------------------------------------------------------------------------
(* The sequences an action appends to. *)

LEMMA Appended ==
  ASSUME NEW T, NEW s \in Seq(T), NEW x \in T
  PROVE  /\ Append(s, x) \in Seq(T) /\ Len(Append(s, x)) = Len(s) + 1
         /\ \A k \in 1 .. Len(s) : Append(s, x)[k] = s[k]
         /\ Append(s, x)[Len(s) + 1] = x
         /\ Len(s) \in Nat /\ DOMAIN s = 1 .. Len(s)
         /\ \A k \in 1 .. Len(s) : s[k] \in T
OBVIOUS

Row == [delta : Int, time : Int]

\* The time is read once before the first array and once for each.
StampInv ==
  /\ pc \in {"start", "loop", "done"}
  /\ real \in Nat /\ clock \in Int /\ jumps \in Nat
  /\ timer \in [start : Int, stop : Int] /\ temp \in Int
  /\ rows \in Seq(Row) /\ stamps \in Seq(Nat)
  /\ pc = "start" => rows = <<>> /\ temp = 0
  /\ pc # "start" => Len(stamps) = Len(rows) + 1
  /\ \A k \in 1 .. Len(stamps) : stamps[1] <= stamps[k]

\* The time of array k, the start for k = 0.
TimeOf(k) == IF k = 0 THEN 0 ELSE rows[k].time

\* However the clock is set, the delta of a checkpoint is the difference between the
\* times of its array and of the array before: temp is the time of the last one.
DeltaOfTimes == \A k \in Snapshots : rows[k].time = TimeOf(k - 1) + rows[k].delta

DeltaInv == pc # "done" => temp = TimeOf(Len(rows))

\* While nobody sets the clock it runs with the real time, the timer was started
\* with the first stamp, and temp is the time of the last.
ClockInv ==
  jumps = 0 =>
    /\ clock = real
    /\ pc # "start" => timer.start = stamps[1]
    /\ pc = "loop" => temp = stamps[Len(stamps)] - stamps[1]

\* The deltas of the checkpoints add up to what temp remembers.
SumInv == summed = temp

TimesInv == /\ StampInv /\ DeltaInv /\ DeltaOfTimes /\ ClockInv /\ TimesAreReal
            /\ SumInv /\ DeltasMakeTime

LEMMA DeltaFacts ==
  ASSUME NEW t \in [start : Int, stop : Int]
  PROVE  GetDelta(t) \in Int /\ (t.stop > t.start => GetDelta(t) = t.stop - t.start)
BY TimingAssumption DEF GetDelta

LEMMA TimesInit == Init => TimesInv
<1> SUFFICES ASSUME Init PROVE TimesInv
  OBVIOUS
<1>1. /\ pc = "start" /\ timer = [start |-> 0, stop |-> 0] /\ temp = 0 /\ rows = <<>>
      /\ clock = 0 /\ real = 0 /\ stamps = <<>> /\ jumps = 0 /\ summed = 0
  BY DEF Init
<1>2. rows \in Seq(Row) /\ Len(rows) = 0 /\ DOMAIN rows = {} /\ stamps \in Seq(Nat) /\ Len(stamps) = 0
  BY <1>1
<1>3. StampInv
  BY <1>1, <1>2 DEF StampInv
<1>4. DeltaInv /\ DeltaOfTimes
  BY <1>1, <1>2 DEF DeltaInv, TimeOf, DeltaOfTimes, Snapshots
<1>5. ClockInv /\ TimesAreReal
  BY <1>1, <1>2 DEF ClockInv, TimesAreReal
<1>6. SumInv /\ DeltasMakeTime
  BY <1>1, <1>2 DEF SumInv, DeltasMakeTime, Snapshots
<1> QED BY <1>3, <1>4, <1>5, <1>6 DEF TimesInv

\* What an array adds; d is its delta.
LEMMA OneMore ==
  ASSUME TimesInv, ReadTimer, NEW d \in Int, Send(d, transfer'), UNCHANGED <<clock, real, jumps>>,
         pc' \in {"loop", "done"}, temp' \in Int,
         pc' = "loop" => /\ temp' = transfer' /\ d = transfer' - temp
                         /\ summed' = summed + d,
         pc' = "done" => d = transfer' /\ UNCHANGED <<temp, summed>>
  PROVE  TimesInv'
<1>0. PICK n \in Nat : n = Len(rows)
  BY DEF TimesInv, StampInv
<1> DEFINE r == [delta |-> d, time |-> transfer']
<1>1. /\ pc = "loop" /\ real \in Nat /\ clock \in Int /\ jumps \in Nat
      /\ timer \in [start : Int, stop : Int] /\ temp \in Int
      /\ rows \in Seq(Row) /\ stamps \in Seq(Nat) /\ Len(stamps) = n + 1 /\ n \in Nat
      /\ \A k \in 1 .. Len(stamps) : stamps[1] <= stamps[k]
  BY <1>0 DEF TimesInv, StampInv, ReadTimer
<1>2. /\ timer' \in [start : Int, stop : Int] /\ timer'.start = timer.start /\ timer'.stop = clock
      /\ transfer' = GetDelta(timer') /\ transfer' \in Int
  BY <1>1, DeltaFacts DEF ReadTimer
<1>3. r \in Row /\ r.delta = d /\ r.time = transfer' /\ rows' = Append(rows, r)
  BY <1>2 DEF Row, Send
<1>4. /\ rows' \in Seq(Row) /\ Len(rows') = n + 1 /\ rows'[n + 1] = r
      /\ \A k \in 1 .. n : rows'[k] = rows[k]
      /\ DOMAIN rows = 1 .. n /\ DOMAIN rows' = 1 .. n + 1
      /\ \A k \in 1 .. n : rows[k] \in Row
  <2> HIDE DEF r
  <2> QED BY <1>0, <1>1, <1>3, Appended
<1>5. /\ stamps' \in Seq(Nat) /\ Len(stamps') = n + 2 /\ stamps'[n + 2] = real
      /\ \A k \in 1 .. n + 1 : stamps'[k] = stamps[k]
      /\ \A k \in 1 .. n + 1 : stamps[k] \in Nat
      /\ real > stamps[n + 1]
  <2>1. stamps' = Append(stamps, real) /\ real > stamps[Len(stamps)]
    BY DEF ReadTimer
  <2>2. /\ stamps' \in Seq(Nat) /\ Len(stamps') = Len(stamps) + 1 /\ stamps'[Len(stamps) + 1] = real
        /\ \A k \in 1 .. Len(stamps) : stamps'[k] = stamps[k]
        /\ \A k \in 1 .. Len(stamps) : stamps[k] \in Nat
    <3>1. stamps \in Seq(Nat) /\ real \in Nat
      BY <1>1
    <3> QED BY <2>1, <3>1, Appended
  <2>3. (n + 1) + 1 = n + 2
    BY <1>1
  <2> QED BY <1>1, <2>1, <2>2, <2>3
<1>6. 1 \in 1 .. n + 1 /\ n + 1 \in 1 .. n + 1 /\ stamps[1] <= stamps[n + 1]
  BY <1>1
<1> HIDE DEF r
<1>7. StampInv'
  <2>1. \A k \in 1 .. n + 2 : k \in 1 .. n + 1 \/ k = n + 2
    BY <1>1
  <2>2. ASSUME NEW k \in 1 .. n + 2 PROVE stamps'[1] <= stamps'[k]
    <3>1. stamps'[1] = stamps[1] /\ stamps[1] \in Nat /\ stamps[n + 1] \in Nat
      BY <1>5, <1>6
    <3>2. CASE k \in 1 .. n + 1
      BY <1>1, <1>5, <3>1, <3>2
    <3>3. CASE k = n + 2
      BY <1>1, <1>5, <1>6, <3>1, <3>3
    <3> QED BY <2>1, <3>2, <3>3
  <2>3. real' \in Nat /\ clock' \in Int /\ jumps' \in Nat /\ pc' \in {"loop", "done"}
    BY <1>1
  <2>4. Len(stamps') = Len(rows') + 1
    BY <1>1, <1>4, <1>5
  <2>5. \A k \in 1 .. Len(stamps') : stamps'[1] <= stamps'[k]
    BY <1>5, <2>2
  <2> QED BY <1>2, <1>4, <1>5, <2>3, <2>4, <2>5 DEF StampInv
<1>8. \A k \in 1 .. n + 1 : k \in 1 .. n \/ (k = n + 1 /\ k - 1 = n)
  BY <1>1
<1>9. temp = TimeOf(n) /\ \A k \in 1 .. n : rows[k].time = TimeOf(k - 1) + rows[k].delta
  <2>1. Snapshots = 1 .. n
    BY <1>0, <1>1 DEF Snapshots
  <2> QED BY <1>0, <1>1, <2>1 DEF TimesInv, DeltaInv, DeltaOfTimes
<1>10. \A k \in 0 .. n : TimeOf(k)' = TimeOf(k)
  <2>1. \A k \in 0 .. n : k = 0 \/ k \in 1 .. n
    OBVIOUS
  <2> QED BY <1>4, <2>1 DEF TimeOf
<1>11. DeltaInv' /\ DeltaOfTimes'
  <2>1. CASE pc' = "loop"
    <3>1. DeltaInv'
      BY <1>1, <1>3, <1>4, <2>1 DEF DeltaInv, TimeOf
    <3>2. Snapshots' = 1 .. n + 1
      BY <1>1, <1>4, <2>1 DEF Snapshots
    <3>3. ASSUME NEW k \in 1 .. n
          PROVE  rows'[k].time = TimeOf(k - 1)' + rows'[k].delta
      <4>1. k - 1 \in 0 .. n
        BY <1>1
      <4> QED BY <1>4, <1>9, <1>10, <4>1
    <3>4. rows'[n + 1].time = TimeOf(n)' + rows'[n + 1].delta
      <4>1. TimeOf(n)' = temp
        <5>1. n \in 0 .. n
          BY <1>1
        <5> QED BY <1>9, <1>10, <5>1
      <4>2. rows'[n + 1].time = transfer' /\ rows'[n + 1].delta = transfer' - temp
        BY <1>3, <1>4, <2>1
      <4> QED BY <1>1, <1>2, <4>1, <4>2
    <3> QED BY <1>8, <3>1, <3>2, <3>3, <3>4 DEF DeltaOfTimes
  <2>2. CASE pc' = "done"
    <3>1. Snapshots' = 1 .. n
      BY <1>1, <1>4, <2>2 DEF Snapshots
    <3>2. ASSUME NEW k \in 1 .. n
          PROVE  rows'[k].time = TimeOf(k - 1)' + rows'[k].delta
      <4>1. k - 1 \in 0 .. n
        BY <1>1
      <4> QED BY <1>4, <1>9, <1>10, <4>1
    <3> QED BY <2>2, <3>1, <3>2 DEF DeltaInv, DeltaOfTimes
  <2> QED BY <2>1, <2>2
<1>12. ASSUME jumps = 0
       PROVE  /\ transfer' = real - stamps[1] /\ clock = real /\ timer.start = stamps[1]
              /\ temp = stamps[n + 1] - stamps[1]
  <2>1. /\ clock = real /\ timer.start = stamps[1] /\ temp = stamps[n + 1] - stamps[1]
    BY <1>1, <1>12 DEF TimesInv, ClockInv
  <2>2. timer'.stop > timer'.start
    <3>1. timer'.stop = real /\ timer'.start = stamps[1]
      BY <1>2, <2>1
    <3>2. stamps[1] \in Nat /\ stamps[n + 1] \in Nat /\ stamps[1] <= stamps[n + 1] /\ real > stamps[n + 1]
      BY <1>5, <1>6
    <3> QED BY <1>1, <3>1, <3>2
  <2>3. transfer' = timer'.stop - timer'.start
    BY <1>2, <2>2, DeltaFacts
  <2> QED BY <1>2, <2>1, <2>3
<1>13. ClockInv'
  BY <1>1, <1>2, <1>5, <1>6, <1>12 DEF ClockInv
<1>14. TimesAreReal'
  <2> SUFFICES ASSUME jumps = 0, NEW k \in 1 .. n + 1
               PROVE  /\ rows'[k].time = stamps'[k + 1] - stamps'[1]
                      /\ rows'[k].delta = stamps'[k + 1] - stamps'[IF k \in Snapshots' THEN k ELSE 1]
    BY <1>4 DEF TimesAreReal
  <2>1. stamps'[1] = stamps[1]
    BY <1>5, <1>6
  <2>2. CASE k \in 1 .. n
    <3>1. k \in Snapshots /\ k \in Snapshots'
      BY <1>0, <1>1, <1>4, <2>2 DEF Snapshots
    <3>2. k + 1 \in 1 .. n + 1 /\ k \in 1 .. n + 1
      BY <1>1, <2>2
    <3>3. /\ rows[k].time = stamps[k + 1] - stamps[1]
          /\ rows[k].delta = stamps[k + 1] - stamps[k]
      BY <1>4, <2>2, <3>1 DEF TimesInv, TimesAreReal
    <3> QED BY <1>4, <1>5, <2>1, <2>2, <3>1, <3>2, <3>3
  <2>3. CASE k = n + 1
    <3>1. k + 1 = n + 2 /\ stamps'[n + 1] = stamps[n + 1]
      BY <1>1, <1>5, <1>6, <2>3
    <3>2. rows'[k].time = real - stamps[1] /\ rows'[k].delta = d
      BY <1>3, <1>4, <1>12, <2>3
    <3>3. CASE pc' = "loop"
      <4>1. k \in Snapshots'
        BY <1>1, <1>4, <2>3, <3>3 DEF Snapshots
      <4>2. stamps[n + 1] \in Nat /\ stamps[1] \in Nat
        BY <1>5, <1>6
      <4>3. rows'[k].delta = real - stamps[n + 1]
        BY <1>1, <1>12, <3>2, <3>3, <4>2
      <4>4. stamps'[k + 1] = real /\ stamps'[k] = stamps[n + 1]
        BY <1>5, <2>3, <3>1
      <4> QED BY <2>1, <3>2, <4>1, <4>3, <4>4
    <3>4. CASE pc' = "done"
      <4>1. k \notin Snapshots'
        BY <1>1, <1>4, <2>3, <3>4 DEF Snapshots
      <4> QED BY <1>1, <1>5, <1>12, <2>1, <2>3, <3>1, <3>2, <3>4, <4>1
    <3> QED BY <3>3, <3>4
  <2> QED BY <1>8, <2>2, <2>3
<1>15. SumInv'
  <2>1. summed = temp
    BY DEF TimesInv, SumInv
  <2> QED BY <1>1, <1>2, <2>1 DEF SumInv
<1>16. DeltasMakeTime'
  <2>1. CASE pc' = "loop"
    <3>1. Snapshots' = 1 .. n + 1
      BY <1>1, <1>4, <2>1 DEF Snapshots
    <3>2. rows'[n + 1].time = summed'
      BY <1>3, <1>4, <1>15, <2>1 DEF SumInv
    <3>3. \A k \in 1 .. n + 1 : k + 1 \notin 1 .. n + 1 => k = n + 1
      BY <1>1
    <3> QED BY <3>1, <3>2, <3>3 DEF DeltasMakeTime
  <2>2. CASE pc' = "done"
    <3>1. Snapshots' = 1 .. n
      BY <1>1, <1>4, <2>2 DEF Snapshots
    <3>2. \A k \in 1 .. n : k + 1 \notin 1 .. n => k = n /\ k # 0
      BY <1>1
    <3>3. \A k \in 1 .. n : k = n => rows'[k].time = summed'
      BY <1>4, <1>9, <1>15, <2>2, <3>2 DEF TimeOf, SumInv
    <3> QED BY <3>1, <3>2, <3>3 DEF DeltasMakeTime
  <2> QED BY <2>1, <2>2
<1> QED BY <1>7, <1>11, <1>13, <1>14, <1>15, <1>16 DEF TimesInv

LEMMA TimesStep == TimesInv /\ [Next]_vars => TimesInv'
<1> SUFFICES ASSUME TimesInv, [Next]_vars PROVE TimesInv'
  OBVIOUS
<1>1. CASE TimerStart
  <2>1. /\ pc = "start" /\ pc' = "loop" /\ stamps' = <<real>> /\ timer' = [timer EXCEPT !.start = clock]
        /\ UNCHANGED <<transfer, temp, rows, clock, real, summed, jumps>>
    BY <1>1 DEF TimerStart
  <2>2. /\ real \in Nat /\ clock \in Int /\ jumps \in Nat /\ timer \in [start : Int, stop : Int]
        /\ temp = 0 /\ rows = <<>>
    BY <2>1 DEF TimesInv, StampInv
  <2>3. /\ stamps' \in Seq(Nat) /\ Len(stamps') = 1 /\ stamps'[1] = real /\ Len(rows) = 0
        /\ DOMAIN rows = {} /\ rows \in Seq(Row)
    BY <2>1, <2>2
  <2>4. timer' \in [start : Int, stop : Int] /\ timer'.start = clock
    BY <2>1, <2>2
  <2>5. StampInv'
    BY <2>1, <2>2, <2>3, <2>4 DEF StampInv
  <2>6. DeltaInv' /\ DeltaOfTimes'
    BY <2>1, <2>2, <2>3 DEF DeltaInv, TimeOf, DeltaOfTimes, Snapshots
  <2>7. ClockInv' /\ TimesAreReal'
    BY <2>1, <2>2, <2>3, <2>4 DEF TimesInv, ClockInv, TimesAreReal
  <2>8. SumInv' /\ DeltasMakeTime'
    BY <2>1, <2>3 DEF TimesInv, SumInv, DeltasMakeTime, Snapshots
  <2> QED BY <2>5, <2>6, <2>7, <2>8 DEF TimesInv
<1>2. CASE Checkpoint
  <2>1. temp \in Int /\ timer \in [start : Int, stop : Int] /\ clock \in Int
    BY DEF TimesInv, StampInv
  <2>2. /\ ReadTimer /\ Send(transfer' - temp, transfer') /\ temp' = transfer' /\ pc' = "loop"
        /\ summed' = summed + (transfer' - temp)
        /\ UNCHANGED <<clock, real, jumps>>
    BY <1>2 DEF Checkpoint, ReadTimer, SendDelta
  <2>3. transfer' \in Int
    BY <2>1, <2>2, DeltaFacts DEF ReadTimer
  <2>4. transfer' - temp \in Int
    BY <2>1, <2>3
  <2> QED BY <2>2, <2>3, <2>4, OneMore
<1>3. CASE StopCommand
  <2>1. temp \in Int /\ timer \in [start : Int, stop : Int] /\ clock \in Int
    BY DEF TimesInv, StampInv
  <2>2. /\ ReadTimer /\ Send(transfer', transfer') /\ temp' = temp /\ pc' = "done"
        /\ UNCHANGED <<clock, real, summed, jumps>>
    BY <1>3 DEF StopCommand
  <2>3. transfer' \in Int
    BY <2>1, <2>2, DeltaFacts DEF ReadTimer
  <2> QED BY <2>1, <2>2, <2>3, OneMore
<1>4. CASE Tick \/ ClockIsSet
  <2>0. real \in Nat /\ clock \in Int /\ jumps \in Nat
    BY DEF TimesInv, StampInv
  <2>1. /\ UNCHANGED <<pc, timer, temp, rows, stamps, summed>>
        /\ real' \in Nat /\ clock' \in Int /\ jumps' \in Nat
        /\ jumps' = 0 => jumps = 0 /\ clock' - clock = real' - real
    <3>1. CASE Tick
      BY <2>0, <3>1 DEF Tick
    <3>2. CASE ClockIsSet
      <4>1. PICK e \in Jumps : clock' \in {clock - e, clock + e}
        BY <3>2 DEF ClockIsSet
      <4>2. e \in Nat
        BY TimingAssumption
      <4>3. clock' \in Int
        BY <2>0, <4>1, <4>2
      <4>4. UNCHANGED <<pc, timer, temp, rows, stamps, summed, real>> /\ jumps' = jumps + 1
        BY <3>2 DEF ClockIsSet
      <4>5. jumps' \in Nat /\ jumps' # 0
        BY <2>0, <4>4
      <4> QED BY <2>0, <4>3, <4>4, <4>5
    <3> QED BY <1>4, <3>1, <3>2
  <2>2. StampInv'
    BY <2>1 DEF TimesInv, StampInv
  <2>3. DeltaInv' /\ DeltaOfTimes'
    BY <2>1 DEF TimesInv, DeltaInv, DeltaOfTimes, TimeOf, Snapshots
  <2>4. ClockInv'
    BY <2>1 DEF TimesInv, StampInv, ClockInv
  <2>5. TimesAreReal'
    BY <2>1 DEF TimesInv, TimesAreReal, Snapshots
  <2>6. SumInv' /\ DeltasMakeTime'
    BY <2>1 DEF TimesInv, SumInv, DeltasMakeTime, Snapshots
  <2> QED BY <2>2, <2>3, <2>4, <2>5, <2>6 DEF TimesInv
<1>5. CASE UNCHANGED vars
  BY <1>5 DEF vars, TimesInv, StampInv, DeltaInv, DeltaOfTimes, TimeOf, ClockInv, TimesAreReal, Snapshots,
               SumInv, DeltasMakeTime
<1> QED BY <1>1, <1>2, <1>3, <1>4, <1>5 DEF Next

LEMMA TimesInvHolds == Spec => []TimesInv
<1> QED BY TimesInit, TimesStep, PTL DEF Spec

\* While nobody sets the clock every array has the true time since the start and
\* since the array before it (benchmark(), Clock::getDelta, which then never reports
\* -1), for any number of arrays.
THEOREM TimesHold == Spec => []TimesAreReal
<1>1. TimesInv => TimesAreReal
  BY DEF TimesInv
<1> QED BY <1>1, TimesInvHolds, PTL

\* However the clock is set, the time in an array is the time in the one before it and
\* the delta: an error, the -1 of getDelta too, is made good by the next array.
THEOREM DeltasTelescope == Spec => []DeltaOfTimes
<1>1. TimesInv => DeltaOfTimes
  BY DEF TimesInv
<1> QED BY <1>1, TimesInvHolds, PTL

\* However the clock is set and however many arrays there are, the deltas of the
\* checkpoints add up to the time of the last one (benchmark(), temp.time_sec).
THEOREM TimesAddUp == Spec => []DeltasMakeTime
<1>1. TimesInv => DeltasMakeTime
  BY DEF TimesInv
<1> QED BY <1>1, TimesInvHolds, PTL

=============================================================================
