--------------------------- MODULE ScheduleProofs ---------------------------
(***************************************************************************)
(* The rounds of a run, for every duration, every interval, every first    *)
(* value of elapsed_seconds and a clock that is set at will: how many      *)
(* there are, that each is written once, and, while nobody sets the clock, *)
(* that none is missing.                                                   *)
(***************************************************************************)
EXTENDS Schedule, TLAPS

\* A reading whose seconds reach k is taken with k before the end, if it is
\* before the end itself (the two comparisons of the loop).
LEMMA SecsBelow ==
  ASSUME NEW e \in Int, NEW k \in Int, NEW d \in Nat \ {0},
         Secs(e) >= k, e < d * TicksPerSec
  PROVE  k < d
<1>1. CASE e >= 0  BY <1>1, SMT DEF Secs, TicksPerSec
<1>2. CASE e < 0   BY <1>2, SMT DEF Secs, TicksPerSec
<1> QED BY <1>1, <1>2

LEMMA SecsInt == ASSUME NEW e \in Int PROVE Secs(e) \in Int
BY SMT DEF Secs, TicksPerSec

\* The multiples of the interval, which is all the provers need of *.
LEMMA Multiple ==
  ASSUME NEW r \in Nat, NEW i \in Nat
  PROVE  r * i \in Nat /\ (r + 1) * i = r * i + i /\ (r + 1) - 1 = r
BY SMT

PCs == {"start", "loop", "checkpoint", "open", "stop", "open_final", "done", "failed"}

\* The next checkpoint is due one interval after the last; the last reading has
\* reached it when it is taken; and the number of rounds is bounded either
\* because the last reading bounds it, which the test of the loop compares with
\* the end, or because the test has already done so.
DueInv ==
  /\ pc \in PCs
  /\ start \in Int /\ elapsed \in Int /\ check \in Int /\ clock \in Int
  /\ rounds \in Nat
  /\ pc # "open" => check = (rounds + 1) * Interval
  /\ pc = "open" => check = rounds * Interval /\ Secs(elapsed) >= check
  /\ pc = "loop" => Secs(elapsed) >= rounds * Interval \/ rounds * Interval < MaxDuration
  /\ pc = "checkpoint" => rounds * Interval < MaxDuration /\ Secs(elapsed) >= check
  /\ pc = "start" => rounds = 0

LEMMA DueInit == Init => DueInv
<1> SUFFICES ASSUME Init PROVE DueInv
  OBVIOUS
<1>1. Leftover \subseteq Int /\ Interval \in Nat  BY ScheduleAssumption
<1>2. (0 + 1) * Interval = Interval  BY <1>1, SMT
<1> QED BY <1>1, <1>2, SMT DEF Init, DueInv, PCs

LEMMA DueNext == DueInv /\ [Next]_vars => DueInv'
<1> SUFFICES ASSUME DueInv, [Next]_vars PROVE DueInv'
  OBVIOUS
<1> USE ScheduleAssumption
<1>m. rounds * Interval \in Nat /\ (rounds + 1) * Interval = rounds * Interval + Interval
        /\ (rounds + 1) - 1 = rounds
  BY Multiple DEF DueInv
<1>d. MaxDuration \in Nat \ {0} /\ Interval \in Nat
  OBVIOUS
<1>s. CASE StartTimer
  <2>1. rounds * Interval < MaxDuration
    BY <1>s, <1>d, SMT DEF StartTimer, DueInv
  <2> QED BY <2>1, <1>s, SMT DEF StartTimer, DueInv, PCs
<1>i. CASE Iterate
  <2>1. rounds * Interval < MaxDuration
    BY <1>i, <1>m, <1>d, SecsBelow DEF Iterate, DueInv
  <2>2. elapsed' \in Int
    BY <1>i, SMT DEF Iterate, DueInv
  <2> QED BY <2>1, <2>2, <1>i DEF Iterate, DueInv, PCs
<1>t. CASE TakeCheckpoint
  <2>1. CASE pc' = "failed" /\ UNCHANGED rounds
    BY <2>1, <1>t DEF TakeCheckpoint, timeVars, DueInv, PCs
  <2>2. CASE rounds' = rounds + 1 /\ pc' = "open"
    <3>1. check = rounds' * Interval /\ Secs(elapsed) >= check
      BY <2>2, <1>t DEF TakeCheckpoint, DueInv
    <3>2. rounds' \in Nat
      BY <2>2, SMT DEF DueInv
    <3> QED BY <3>1, <3>2, <2>2, <1>t DEF TakeCheckpoint, timeVars, DueInv, PCs
  <2> QED BY <2>1, <2>2, <1>t DEF TakeCheckpoint
<1>l. CASE LoopEnds
  BY <1>l DEF LoopEnds, localVars, timeVars, DueInv, PCs
<1>p. CASE Stop
  BY <1>p DEF Stop, localVars, timeVars, DueInv, PCs
<1>o. CASE Open
  <2>1. check' = (rounds + 1) * Interval /\ check' \in Int
    BY <1>o, <1>m, <1>d, SMT DEF Open, DueInv
  <2>2. Secs(elapsed) >= rounds * Interval
    BY <1>o DEF Open, DueInv
  <2> QED BY <2>1, <2>2, <1>o DEF Open, timeVars, DueInv, PCs
<1>f. CASE OpenFinal
  BY <1>f DEF OpenFinal, timeVars, DueInv, PCs
<1>k. CASE Tick
  <2>1. clock' \in Int
    BY <1>k, SMT DEF Tick, DueInv
  <2> QED BY <2>1, <1>k DEF Tick, localVars, DueInv, PCs
<1>c. CASE ClockIsSet
  <2>1. clock' \in Int
    BY <1>c, SMT DEF ClockIsSet, DueInv, TicksPerSec
  <2> QED BY <2>1, <1>c DEF ClockIsSet, localVars, DueInv, PCs
<1>w. CASE DiskChanges
  BY <1>w DEF DiskChanges, localVars, timeVars, DueInv, PCs
<1>u. CASE UNCHANGED vars
  BY <1>u DEF vars, localVars, timeVars, DueInv, PCs
<1> QED
  BY <1>s, <1>i, <1>t, <1>l, <1>p, <1>o, <1>f, <1>k, <1>c, <1>w, <1>u
  DEF Next, Controller

LEMMA DueAlways == Spec => []DueInv
BY DueInit, DueNext, PTL DEF Spec

\* The bound needs more than the invariant: rounds grows when the checkpoint is
\* taken, which is when the invariant says that one fewer was within the end.
BoundInv == DueInv /\ RoundsBounded

LEMMA BoundNext == BoundInv /\ [Next]_vars => BoundInv'
<1> SUFFICES ASSUME BoundInv, [Next]_vars PROVE RoundsBounded'
  BY DueNext DEF BoundInv
<1>1. CASE rounds' = rounds
  BY <1>1 DEF BoundInv, RoundsBounded
<1>2. CASE rounds' # rounds
  <2>1. TakeCheckpoint /\ rounds' = rounds + 1
    BY <1>2 DEF Next, Controller, StartTimer, Iterate, TakeCheckpoint, LoopEnds, Stop,
         Open, OpenFinal, Tick, ClockIsSet, DiskChanges, vars, localVars
  <2>2. rounds * Interval < MaxDuration /\ rounds \in Nat
    BY <2>1 DEF TakeCheckpoint, BoundInv, DueInv
  <2>3. rounds' - 1 = rounds
    BY <2>1, <2>2, SMT
  <2> QED BY <2>2, <2>3 DEF RoundsBounded
<1> QED BY <1>1, <1>2

\* However often the clock is set, however late a round is and whatever
\* elapsed_seconds held: the controller takes no round that would begin at or
\* after max_duration (Main.cpp, the two tests of the loop).
THEOREM BoundOfRounds == Spec => []RoundsBounded
<1>1. Init => BoundInv
  <2> SUFFICES ASSUME Init PROVE RoundsBounded
    BY DueInit DEF BoundInv
  <2> QED BY SMT DEF Init, RoundsBounded
<1>2. BoundInv /\ [Next]_vars => BoundInv'
  BY BoundNext
<1>3. BoundInv => RoundsBounded
  BY DEF BoundInv
<1> QED BY <1>1, <1>2, <1>3, PTL DEF Spec

-----------------------------------------------------------------------------
(* The rows of the result file. *)

RoundRows == {RowOf(r) : r \in Nat}
Rows      == RoundRows \cup {Summary}

\* What has been written when the controller stands at "open" is one round less
\* than it has taken, and nothing is a row of a round still to come.
OnceInv ==
  /\ pc \in PCs /\ rounds \in Nat
  /\ pc = "open" => rounds > 0
  /\ file \in [Tails -> Seq(Rows)]
  /\ EveryRoundOnce

LEMMA RowFacts ==
  /\ \A r, q : RowOf(r) = RowOf(q) => r = q
  /\ \A r : RowOf(r) # Summary /\ RowOf(r).n = r /\ RowOf(r).kind = "round"
  /\ Summary.kind = "summary"
BY DEF RowOf, Summary

\* The rows of a file to which one is appended, and their order.
LEMMA AppendedRows ==
  ASSUME NEW s \in Seq(Rows), NEW row \in Rows
  PROVE  /\ Append(s, row) \in Seq(Rows)
         /\ {Append(s, row)[k] : k \in DOMAIN Append(s, row)} = {s[k] : k \in DOMAIN s} \cup {row}
         /\ \A j, k \in DOMAIN Append(s, row) : j < k =>
              /\ j \in DOMAIN s /\ Append(s, row)[j] = s[j]
              /\ \/ k \in DOMAIN s /\ Append(s, row)[k] = s[k]
                 \/ Append(s, row)[k] = row
<1> DEFINE a == Append(s, row)
           n == Len(s)
<1>1. a \in Seq(Rows) /\ n \in Nat /\ Len(a) = n + 1 /\ DOMAIN s = 1 .. n /\ DOMAIN a = 1 .. n + 1
  OBVIOUS
<1>2. (\A k \in 1 .. n : a[k] = s[k]) /\ a[n + 1] = row
  OBVIOUS
<1> HIDE DEF a, n
<1>3. {a[k] : k \in DOMAIN a} = {s[k] : k \in DOMAIN s} \cup {row}
  <2>1. \A k \in 1 .. n + 1 : k \in 1 .. n \/ k = n + 1
    BY <1>1
  <2>2. \A k \in 1 .. n : k \in 1 .. n + 1
    BY <1>1
  <2>3. n + 1 \in 1 .. n + 1
    BY <1>1
  <2> QED BY <1>1, <1>2, <2>1, <2>2, <2>3
<1>4. \A j, k \in 1 .. n + 1 : j < k => j \in 1 .. n /\ (k \in 1 .. n \/ k = n + 1)
  BY <1>1
<1>5. \A j, k \in DOMAIN a : j < k =>
        j \in DOMAIN s /\ a[j] = s[j] /\ ((k \in DOMAIN s /\ a[k] = s[k]) \/ a[k] = row)
  BY <1>1, <1>2, <1>4
<1> QED BY <1>1, <1>3, <1>5 DEF a

\* One row more in one file, which none of the files has yet and which comes
\* after all that are there.
LEMMA RowWritten ==
  ASSUME OnceInv, NEW t \in Tails, NEW row \in Rows, AppendRow(t, row),
         \A u \in Tails : row \notin RowsIn(u),
         \A u \in Tails : \A r \in RowsIn(u) :
           r.n < row.n \/ (r.kind = "round" /\ row.kind = "summary")
  PROVE  /\ file' \in [Tails -> Seq(Rows)]
         /\ UNION {RowsIn(u)' : u \in Tails} = (UNION {RowsIn(u) : u \in Tails}) \cup {row}
         /\ \A u, v \in Tails : u # v => RowsIn(u)' \cap RowsIn(v)' = {}
         /\ \A u \in Tails : \A j, k \in DOMAIN file'[u] :
              j < k => \/ file'[u][j].n < file'[u][k].n
                       \/ file'[u][j].kind = "round" /\ file'[u][k].kind = "summary"
<1>1. file' = [file EXCEPT ![t] = Append(file[t], row)] /\ file \in [Tails -> Seq(Rows)]
  BY DEF AppendRow, OnceInv
<1>2. file[t] \in Seq(Rows) /\ Append(file[t], row) \in Seq(Rows)
  BY <1>1, AppendedRows
<1>3. file' \in [Tails -> Seq(Rows)]
  BY <1>1, <1>2
<1>4. file'[t] = Append(file[t], row) /\ \A u \in Tails : u # t => file'[u] = file[u]
  BY <1>1
<1>5. RowsIn(t)' = RowsIn(t) \cup {row}
  BY <1>2, <1>4, AppendedRows DEF RowsIn
<1>6. \A u \in Tails : u # t => RowsIn(u)' = RowsIn(u)
  BY <1>4 DEF RowsIn
<1>7. UNION {RowsIn(u)' : u \in Tails} = (UNION {RowsIn(u) : u \in Tails}) \cup {row}
  <2> DEFINE A(u) == RowsIn(u)
             B(u) == RowsIn(u)'
  <2>1. B(t) = A(t) \cup {row} /\ \A u \in Tails : u # t => B(u) = A(u)
    BY <1>5, <1>6
  <2> HIDE DEF A, B
  <2>2. UNION {B(u) : u \in Tails} = (UNION {A(u) : u \in Tails}) \cup {row}
    BY <2>1
  <2> QED BY <2>2 DEF A, B
<1>8. ASSUME NEW u \in Tails, NEW v \in Tails, u # v
      PROVE  RowsIn(u)' \cap RowsIn(v)' = {}
  <2>1. RowsIn(u) \cap RowsIn(v) = {}
    BY <1>8 DEF OnceInv, EveryRoundOnce
  <2> QED BY <1>5, <1>6, <1>8, <2>1
<1>9. ASSUME NEW u \in Tails, NEW j \in DOMAIN file'[u], NEW k \in DOMAIN file'[u], j < k
      PROVE  \/ file'[u][j].n < file'[u][k].n
             \/ file'[u][j].kind = "round" /\ file'[u][k].kind = "summary"
  <2>1. CASE u # t
    BY <1>4, <1>9, <2>1 DEF OnceInv, EveryRoundOnce
  <2>2. CASE u = t
    <3>1. j \in DOMAIN file[t] /\ file'[t][j] = file[t][j]
      BY <1>2, <1>4, <1>9, <2>2, AppendedRows
    <3>2. \/ k \in DOMAIN file[t] /\ file'[t][k] = file[t][k]
          \/ file'[t][k] = row
      BY <1>2, <1>4, <1>9, <2>2, AppendedRows
    <3>3. file[t][j] \in RowsIn(t)
      BY <3>1 DEF RowsIn
    <3>4. CASE k \in DOMAIN file[t] /\ file'[t][k] = file[t][k]
      BY <1>9, <2>2, <3>1, <3>4 DEF OnceInv, EveryRoundOnce
    <3>5. CASE file'[t][k] = row
      BY <2>2, <3>1, <3>3, <3>5
    <3> QED BY <3>2, <3>4, <3>5
  <2> QED BY <2>1, <2>2
<1> QED BY <1>3, <1>7, <1>8, <1>9

LEMMA OnceInit == Init => OnceInv
<1> SUFFICES ASSUME Init PROVE OnceInv
  OBVIOUS
<1>1. file = [t \in Tails |-> <<>>] /\ pc = "start" /\ rounds = 0
  BY DEF Init
<1>2. \A s : s = <<>> => DOMAIN s = {}
  OBVIOUS
<1>3. \A t \in Tails : DOMAIN file[t] = {} /\ RowsIn(t) = {}
  BY <1>1, <1>2 DEF RowsIn
<1>4. Written = 0
  BY <1>1 DEF Written
<1>5. EveryRoundOnce
  BY <1>1, <1>3, <1>4 DEF EveryRoundOnce
<1>6. file \in [Tails -> Seq(Rows)]
  BY <1>1
<1> QED BY <1>1, <1>5, <1>6 DEF OnceInv, PCs

LEMMA OnceNext == OnceInv /\ [Next]_vars => OnceInv'
<1> SUFFICES ASSUME OnceInv, [Next]_vars PROVE OnceInv'
  OBVIOUS
<1>0. pc \in PCs /\ rounds \in Nat /\ file \in [Tails -> Seq(Rows)]
  BY DEF OnceInv
<1>1. ASSUME file' = file, pc' \in PCs, rounds' \in Nat, Written' = Written,
             pc' = pc \/ "done" \notin {pc, pc'}, pc' = "open" => rounds' > 0
      PROVE  OnceInv'
  <2>1. \A t : RowsIn(t)' = RowsIn(t)
    BY <1>1 DEF RowsIn
  <2>2. EveryRoundOnce'
    BY <1>1, <2>1 DEF OnceInv, EveryRoundOnce
  <2> QED BY <1>0, <1>1, <2>2 DEF OnceInv
<1>2. CASE StartTimer \/ Iterate \/ LoopEnds \/ Stop
  BY <1>0, <1>1, <1>2 DEF StartTimer, Iterate, LoopEnds, Stop, localVars, Written, PCs
<1>3. CASE TakeCheckpoint
  <2>1. CASE rounds' = rounds + 1 /\ pc' = "open"
    BY <1>0, <1>1, <1>3, <2>1 DEF TakeCheckpoint, Written, PCs
  <2>2. CASE pc' = "failed" /\ rounds' = rounds
    BY <1>0, <1>1, <1>3, <2>2 DEF TakeCheckpoint, Written, PCs
  <2> QED BY <1>3, <2>1, <2>2 DEF TakeCheckpoint
<1>4. CASE Tick \/ ClockIsSet \/ DiskChanges \/ UNCHANGED vars
  <2>1. pc' = pc /\ rounds' = rounds /\ file' = file
    BY <1>4 DEF Tick, ClockIsSet, DiskChanges, vars, localVars
  <2>2. pc = "open" => rounds > 0
    BY DEF OnceInv
  <2> QED BY <1>0, <1>1, <2>1, <2>2 DEF Written
<1>5. CASE Open
  <2>1. pc = "open" /\ pc' = "loop" /\ rounds' = rounds /\ rounds > 0
    BY <1>5 DEF Open, OnceInv
  <2>2. PICK t \in Tails : AppendRow(t, RowOf(rounds))
    BY <1>5 DEF Open
  <2>3. Written = rounds - 1 /\ Written' = rounds
    BY <1>0, <2>1 DEF Written
  <2>4. UNION {RowsIn(u) : u \in Tails} = {RowOf(r) : r \in 1 .. rounds - 1}
    BY <2>1, <2>3 DEF OnceInv, EveryRoundOnce
  <2>5. \A u \in Tails : \A r \in RowsIn(u) : \E m \in 1 .. rounds - 1 : r = RowOf(m)
    BY <2>4
  <2>6. \A m \in 1 .. rounds - 1 : m < rounds /\ m # rounds
    BY <1>0
  <2>7. \A u \in Tails : \A r \in RowsIn(u) : r.n < RowOf(rounds).n
    BY <2>5, <2>6, RowFacts
  <2>8. \A u \in Tails : RowOf(rounds) \notin RowsIn(u)
    BY <2>5, <2>6, RowFacts
  <2>9. RowOf(rounds) \in Rows
    BY <1>0 DEF Rows, RoundRows
  <2>10. /\ file' \in [Tails -> Seq(Rows)]
         /\ UNION {RowsIn(u)' : u \in Tails} = (UNION {RowsIn(u) : u \in Tails}) \cup {RowOf(rounds)}
         /\ \A u, v \in Tails : u # v => RowsIn(u)' \cap RowsIn(v)' = {}
         /\ \A u \in Tails : \A j, k \in DOMAIN file'[u] :
              j < k => \/ file'[u][j].n < file'[u][k].n
                       \/ file'[u][j].kind = "round" /\ file'[u][k].kind = "summary"
    BY <2>2, <2>7, <2>8, <2>9, RowWritten
  <2>11. {RowOf(r) : r \in 1 .. rounds} = {RowOf(r) : r \in 1 .. rounds - 1} \cup {RowOf(rounds)}
    <3>1. \A r : r \in 1 .. rounds <=> r \in 1 .. rounds - 1 \/ r = rounds
      BY <1>0, <2>1
    <3> QED BY <3>1
  <2>12. EveryRoundOnce'
    <3>1. UNION {RowsIn(u)' : u \in Tails} = {RowOf(r) : r \in 1 .. Written'} \cup {}
      BY <2>3, <2>4, <2>10, <2>11
    <3>2. (IF pc' = "done" THEN {Summary} ELSE {}) = {}
      BY <2>1
    <3> QED BY <2>10, <3>1, <3>2 DEF EveryRoundOnce
  <2> QED BY <1>0, <2>1, <2>10, <2>12 DEF OnceInv, PCs
<1>6. CASE OpenFinal
  <2>1. pc = "open_final" /\ pc' = "done" /\ rounds' = rounds
    BY <1>6 DEF OpenFinal
  <2>2. PICK t \in Tails : AppendRow(t, Summary)
    BY <1>6 DEF OpenFinal
  <2>3. Written = rounds /\ Written' = rounds
    BY <1>0, <2>1 DEF Written
  <2>4. UNION {RowsIn(u) : u \in Tails} = {RowOf(r) : r \in 1 .. rounds}
    BY <2>1, <2>3 DEF OnceInv, EveryRoundOnce
  <2>5. \A u \in Tails : \A r \in RowsIn(u) : \E m \in 1 .. rounds : r = RowOf(m)
    BY <2>4
  <2>6. \A u \in Tails : \A r \in RowsIn(u) : r.kind = "round" /\ r # Summary
    BY <2>5, RowFacts
  <2>7. Summary.kind = "summary" /\ Summary \in Rows
    BY RowFacts DEF Rows
  <2>8. /\ file' \in [Tails -> Seq(Rows)]
        /\ UNION {RowsIn(u)' : u \in Tails} = (UNION {RowsIn(u) : u \in Tails}) \cup {Summary}
        /\ \A u, v \in Tails : u # v => RowsIn(u)' \cap RowsIn(v)' = {}
        /\ \A u \in Tails : \A j, k \in DOMAIN file'[u] :
             j < k => \/ file'[u][j].n < file'[u][k].n
                      \/ file'[u][j].kind = "round" /\ file'[u][k].kind = "summary"
    BY <2>2, <2>6, <2>7, RowWritten
  <2>9. EveryRoundOnce'
    <3>1. UNION {RowsIn(u)' : u \in Tails} = {RowOf(r) : r \in 1 .. Written'} \cup {Summary}
      BY <2>3, <2>4, <2>8
    <3>2. (IF pc' = "done" THEN {Summary} ELSE {}) = {Summary}
      BY <2>1
    <3> QED BY <2>8, <3>1, <3>2 DEF EveryRoundOnce
  <2> QED BY <1>0, <2>1, <2>8, <2>9 DEF OnceInv, PCs
<1> QED
  BY <1>2, <1>3, <1>4, <1>5, <1>6 DEF Next, Controller

\* Every round is written out once, to one file and before the rounds that follow
\* it, and the summary after them all, whatever the names of the files and however
\* often a file could not be opened (Main.cpp, the two loops around ofstream).
THEOREM EachRoundOnce == Spec => []EveryRoundOnce
<1>1. OnceInv => EveryRoundOnce
  BY DEF OnceInv
<1> QED BY <1>1, OnceInit, OnceNext, PTL DEF Spec

-----------------------------------------------------------------------------
(* The length of the run, while nobody sets the clock. *)

\* A reading that comes at most an interval after the last reaches at most one
\* checkpoint more.
LEMMA SecsLater ==
  ASSUME NEW e \in Nat, NEW f \in Nat, NEW n \in Nat, f <= e + n * TicksPerSec
  PROVE  Secs(f) <= Secs(e) + n
BY SMT DEF Secs, TicksPerSec

LEMMA SecsReached ==
  ASSUME NEW e \in Nat, NEW d \in Nat, e >= d * TicksPerSec
  PROVE  Secs(e) >= d
BY SMT DEF Secs, TicksPerSec

LEMMA SecsNat == ASSUME NEW e \in Nat PROVE Secs(e) \in Nat
BY SMT DEF Secs, TicksPerSec

LEMMA Quotient ==
  ASSUME NEW d \in Nat, NEW i \in Nat \ {0}, NEW r \in Nat, d < (r + 1) * i
  PROVE  d \div i <= r
<1> DEFINE q == d \div i
           m == d % i
<1>1. q \in Nat /\ m \in Nat /\ d = i * q + m
  BY SMT
<1> HIDE DEF q, m
<1>2. SUFFICES ASSUME q >= r + 1 PROVE FALSE
  <2>1. ~(q >= r + 1) => q <= r
    BY <1>1
  <2> QED BY <1>2, <2>1 DEF q
<1>3. PICK p \in Nat : q = (r + 1) + p
  <2>1. q - (r + 1) \in Nat /\ q = (r + 1) + (q - (r + 1))
    BY <1>1, <1>2
  <2> QED BY <2>1
<1>4. i * q = (r + 1) * i + i * p /\ i * p \in Nat /\ (r + 1) * i \in Nat
  BY <1>3, SMT
<1> DEFINE u == i * q
           v == (r + 1) * i
           w == i * p
<1>5. d = u + m /\ u = v + w /\ w \in Nat /\ v \in Nat /\ m \in Nat /\ d < v
  BY <1>1, <1>4
<1> HIDE DEF u, v, w
<1> QED BY <1>5

\* Between two readings of the clock no more than an interval passes.  (A round
\* that takes longer can leave one out at the end of the run.)
Prompt == Slow <= Interval * TicksPerSec

\* The time of the last reading, since the timer was started.
Last == real - since - began

\* The loop has read Last into elapsed, or has never read; it is at most one
\* checkpoint behind what it has read, and not behind where it tests for the end.
CourseInv ==
  /\ DueInv
  /\ real \in Nat /\ began \in Nat /\ since \in Nat /\ since <= Slow /\ jumps \in Nat
  /\ jumps = 0 =>
       /\ clock = real /\ Last \in Nat
       /\ pc # "start" => start = began
       /\ pc = "start" => elapsed \in Leftover
       /\ elapsed = Last \/ (rounds = 0 /\ elapsed \in Leftover)
       /\ pc \in {"loop", "stop", "open_final", "done"} => Secs(Last) < check
       /\ pc \in {"checkpoint", "open"} => elapsed = Last /\ Secs(Last) < check + Interval
       /\ pc \in {"stop", "open_final", "done"} => elapsed >= MaxDuration * TicksPerSec

LEMMA CourseInit == Init => CourseInv
<1> SUFFICES ASSUME Init PROVE CourseInv
  OBVIOUS
<1>1. DueInv
  BY DueInit
<1>2. real = 0 /\ since = 0 /\ began = 0 /\ jumps = 0 /\ clock = 0 /\ rounds = 0 /\ pc = "start"
        /\ elapsed \in Leftover
  BY DEF Init
<1>3. Last = 0
  BY <1>2 DEF Last
<1> QED BY <1>1, <1>2, <1>3, ScheduleAssumption DEF CourseInv

LEMMA CourseNext == Prompt /\ CourseInv /\ [Next]_vars => CourseInv'
<1> SUFFICES ASSUME Prompt, CourseInv, [Next]_vars PROVE CourseInv'
  OBVIOUS
<1>0. MaxDuration \in Nat \ {0} /\ Interval \in Nat \ {0} /\ Slow \in Nat /\ TicksPerSec = 2
  BY ScheduleAssumption DEF TicksPerSec
<1>1. DueInv /\ DueInv' /\ pc \in PCs
  BY DueNext DEF CourseInv, DueInv
<1>2. /\ real \in Nat /\ began \in Nat /\ since \in Nat /\ since <= Slow /\ jumps \in Nat
      /\ check \in Int /\ rounds \in Nat /\ clock \in Int /\ start \in Int
  BY <1>1 DEF CourseInv, DueInv
\* Where the times of the loop and its last reading stay as they are.
<1>3. ASSUME UNCHANGED <<start, elapsed, began, rounds>>, Last' = Last, real' \in Nat, since' \in Nat,
             since' <= Slow, jumps' \in Nat, jumps' = 0 => jumps = 0 /\ clock' = real',
             pc' # "start" => pc # "start", pc' = "start" => pc = "start",
             jumps = 0 /\ pc' \in {"loop", "stop", "open_final", "done"} => Secs(Last) < check',
             jumps = 0 /\ pc' \in {"checkpoint", "open"} =>
               elapsed = Last /\ Secs(Last) < check' + Interval,
             jumps = 0 /\ pc' \in {"stop", "open_final", "done"} =>
               elapsed >= MaxDuration * TicksPerSec
      PROVE  CourseInv'
  BY <1>1, <1>2, <1>3 DEF CourseInv
<1>4. CASE Tick
  <2>1. /\ UNCHANGED <<pc, start, elapsed, began, rounds, check, jumps>>
        /\ real' = real + 1 /\ since' = since + 1 /\ clock' = clock + 1 /\ since < Slow
    BY <1>4 DEF Tick, localVars
  <2>2. Last' = Last /\ since' <= Slow /\ real' \in Nat /\ since' \in Nat
    BY <1>0, <1>2, <2>1 DEF Last
  <2>3. jumps = 0 => clock' = real'
    BY <2>1 DEF CourseInv
  <2> QED BY <1>2, <1>3, <2>1, <2>2, <2>3 DEF CourseInv
<1>5. CASE ClockIsSet
  <2>1. jumps' = jumps + 1 /\ UNCHANGED <<real, began, since>>
    BY <1>5 DEF ClockIsSet, localVars
  <2>2. jumps' \in Nat /\ jumps' # 0
    BY <1>2, <2>1
  <2> QED BY <1>1, <1>2, <2>1, <2>2 DEF CourseInv
<1>6. CASE DiskChanges \/ UNCHANGED vars
  <2>1. UNCHANGED <<pc, start, elapsed, began, rounds, check, real, since, clock, jumps>>
    BY <1>6 DEF DiskChanges, vars, localVars, timeVars
  <2> QED BY <1>2, <1>3, <2>1 DEF CourseInv, Last
<1>7. CASE StartTimer
  <2>1. /\ pc = "start" /\ pc' = "loop" /\ start' = clock /\ since' = 0 /\ began' = real
        /\ UNCHANGED <<elapsed, check, rounds, clock, jumps, real>>
    BY <1>7 DEF StartTimer
  <2>2. Last' = 0 /\ 0 <= Slow
    BY <1>0, <1>2, <2>1 DEF Last
  <2>3. rounds = 0 /\ check = Interval
    <3>1. rounds = 0 /\ check = (rounds + 1) * Interval
      BY <1>1, <2>1 DEF DueInv
    <3>2. (0 + 1) * Interval = Interval
      BY <1>0
    <3> QED BY <3>1, <3>2
  <2>4. Secs(0) = 0
    BY DEF Secs, TicksPerSec
  <2>5. Secs(Last') < check
    BY <1>0, <2>2, <2>3, <2>4
  <2> QED BY <1>1, <1>2, <2>1, <2>2, <2>3, <2>5 DEF CourseInv
<1>8. CASE Iterate
  <2>1. /\ pc = "loop" /\ elapsed' = clock - start /\ since' = 0
        /\ pc' = (IF Secs(elapsed') >= check THEN "checkpoint" ELSE "loop")
        /\ UNCHANGED <<start, check, rounds, clock, jumps, real, began>>
    BY <1>8 DEF Iterate
  <2>2. 0 <= Slow
    BY <1>0
  <2>3. ASSUME jumps = 0 PROVE elapsed' = Last' /\ Last' \in Nat /\ Secs(Last') < check + Interval
    <3>1. clock = real /\ start = began /\ Last \in Nat /\ Secs(Last) < check
      BY <2>1, <2>3 DEF CourseInv
    <3>2. Last' = Last + since /\ elapsed' = Last'
      BY <1>2, <2>1, <3>1 DEF Last
    <3>3. Last' \in Nat /\ Last' <= Last + Interval * TicksPerSec
      <4> DEFINE a == Last
                 b == Last'
      <4>1. a \in Nat /\ b = a + since
        BY <3>1, <3>2
      <4> HIDE DEF a, b
      <4>2. b \in Nat /\ b <= a + Interval * TicksPerSec
        BY <1>0, <1>2, <4>1 DEF Prompt
      <4> QED BY <4>2 DEF a, b
    <3>4. Secs(Last') <= Secs(Last) + Interval
      <4> DEFINE a == Last
                 b == Last'
      <4>1. a \in Nat /\ b \in Nat /\ b <= a + Interval * TicksPerSec /\ Interval \in Nat
        BY <1>0, <3>1, <3>3
      <4> HIDE DEF a, b
      <4>2. Secs(b) <= Secs(a) + Interval
        BY <4>1, SecsLater
      <4> QED BY <4>2 DEF a, b
    <3> DEFINE x == Secs(Last)
               y == Secs(Last')
    <3>5. x \in Nat /\ y \in Nat /\ x < check /\ y <= x + Interval
      <4>1. x \in Nat
        BY <3>1, SecsNat
      <4> DEFINE b == Last'
      <4>2. b \in Nat
        BY <3>3
      <4> HIDE DEF b
      <4>3. Secs(b) \in Nat
        BY <4>2, SecsNat
      <4> QED BY <3>1, <3>4, <4>1, <4>3 DEF b
    <3> HIDE DEF x, y
    <3>6. y < check + Interval
      BY <1>0, <1>2, <3>5
    <3> QED BY <3>2, <3>3, <3>6 DEF y
  <2>4. ASSUME jumps = 0, pc' = "loop" PROVE Secs(Last') < check
    <3>1. ~(Secs(elapsed') >= check)
      BY <2>1, <2>4
    <3> DEFINE y == Secs(elapsed')
    <3>2. y \in Int
      <4> DEFINE b == elapsed'
      <4>1. b \in Int
        BY <1>2, <2>1
      <4> HIDE DEF b
      <4>2. Secs(b) \in Int
        BY <4>1, SecsInt
      <4> QED BY <4>2 DEF b
    <3>3. ~(y >= check)
      BY <3>1
    <3> HIDE DEF y
    <3>4. y < check
      BY <1>2, <3>2, <3>3
    <3> QED BY <2>3, <2>4, <3>4 DEF y
  <2>5. pc' \in {"loop", "checkpoint"}
    BY <2>1
  <2> QED BY <1>1, <1>2, <2>1, <2>2, <2>3, <2>4, <2>5 DEF CourseInv
<1>9. CASE TakeCheckpoint
  <2>1. /\ pc = "checkpoint" /\ pc' \in {"open", "failed"}
        /\ UNCHANGED <<start, elapsed, began, check, real, since, clock, jumps>>
    BY <1>9 DEF TakeCheckpoint, timeVars
  <2>2. Last' = Last
    BY <2>1 DEF Last
  <2> QED BY <1>1, <1>2, <2>1, <2>2 DEF CourseInv
<1>10. CASE LoopEnds
  <2>1. /\ pc = "loop" /\ pc' = "stop" /\ elapsed >= MaxDuration * TicksPerSec
        /\ UNCHANGED <<start, elapsed, began, rounds, check, real, since, clock, jumps>>
    BY <1>10 DEF LoopEnds, localVars, timeVars
  <2> QED BY <1>2, <1>3, <2>1 DEF CourseInv, Last
<1>11. CASE Stop
  <2>1. /\ pc = "stop" /\ pc' \in {"open_final", "failed"}
        /\ UNCHANGED <<start, elapsed, began, rounds, check, real, since, clock, jumps>>
    BY <1>11 DEF Stop, localVars, timeVars
  <2> QED BY <1>2, <1>3, <2>1 DEF CourseInv, Last
<1>12. CASE Open
  <2>1. /\ pc = "open" /\ pc' = "loop" /\ check' = check + Interval
        /\ UNCHANGED <<start, elapsed, began, rounds, real, since, clock, jumps>>
    BY <1>12 DEF Open, timeVars
  <2> QED BY <1>2, <1>3, <2>1 DEF CourseInv, Last
<1>13. CASE OpenFinal
  <2>1. /\ pc = "open_final" /\ pc' = "done"
        /\ UNCHANGED <<start, elapsed, began, rounds, check, real, since, clock, jumps>>
    BY <1>13 DEF OpenFinal, timeVars
  <2> QED BY <1>2, <1>3, <2>1 DEF CourseInv, Last
<1> QED
  BY <1>4, <1>5, <1>6, <1>7, <1>8, <1>9, <1>10, <1>11, <1>12, <1>13 DEF Next, Controller

LEMMA CourseImplies == CourseInv => FullCourse
<1> SUFFICES ASSUME CourseInv, jumps = 0, pc \in {"stop", "open_final", "done"},
                    ~(rounds = 0 /\ elapsed \in Leftover)
             PROVE  /\ real - began >= MaxDuration * TicksPerSec
                    /\ rounds >= MaxDuration \div Interval
  BY DEF FullCourse
<1>0. MaxDuration \in Nat \ {0} /\ Interval \in Nat \ {0} /\ TicksPerSec = 2
  BY ScheduleAssumption DEF TicksPerSec
<1>1. elapsed = Last /\ Last \in Nat /\ Secs(Last) < check /\ Last >= MaxDuration * TicksPerSec
  BY DEF CourseInv
<1>2. real \in Nat /\ began \in Nat /\ since \in Nat /\ rounds \in Nat
        /\ check = (rounds + 1) * Interval
  BY DEF CourseInv, DueInv
<1>3. real - began >= MaxDuration * TicksPerSec
  BY <1>0, <1>1, <1>2 DEF Last
<1>4. MaxDuration < (rounds + 1) * Interval
  <2> DEFINE y == Secs(Last)
             c == (rounds + 1) * Interval
  <2>1. y >= MaxDuration /\ y \in Nat /\ y < c /\ c \in Nat
    BY <1>0, <1>1, <1>2, SecsReached, SecsNat, Multiple
  <2> HIDE DEF y, c
  <2>2. MaxDuration < c
    BY <1>0, <2>1
  <2> QED BY <2>2 DEF c
<1>5. MaxDuration \div Interval <= rounds
  BY <1>0, <1>2, <1>4, Quotient
<1>6. MaxDuration \div Interval \in Int
  BY <1>0
<1> QED BY <1>2, <1>3, <1>5, <1>6

\* While nobody sets the clock and no more than an interval passes between two
\* readings of it, the controller takes every round that is due before the end and
\* does not stop before max_duration, unless the memory of elapsed_seconds happened
\* to say so at once (Main.cpp, the loop that waits "till time t is reached").
THEOREM CourseIsFull ==
  ASSUME Prompt
  PROVE  Spec => []FullCourse
<1>1. CourseInv /\ [Next]_vars => CourseInv'
  BY CourseNext, Prompt
<1> QED BY <1>1, CourseInit, CourseImplies, PTL DEF Spec

=============================================================================
