------------------------------- MODULE Session -------------------------------
(***************************************************************************)
(* What a benchmark run promises, without messages, queues or connections: *)
(* no client begins to write before every client is ready, the clients cut *)
(* their counts once per round of the controller and no round closes with  *)
(* a cut missing, and no client ends before the controller ends the run.   *)
(* Coordination implements it.                                             *)
(***************************************************************************)
EXTENDS Naturals

CONSTANT Client

VARIABLES
  stage,   \* stage[i]: how far client i has come
  phase,   \* what the controller is doing
  cuts,    \* cuts[i]: how often client i has cut its counts
  rounds   \* rounds the controller has closed

sessionVars == <<stage, phase, cuts, rounds>>

Init ==
  /\ stage = [i \in Client |-> "setup"]
  /\ phase = "gather"
  /\ cuts = [i \in Client |-> 0]
  /\ rounds = 0

Advance(i, from, to) ==
  /\ stage[i] = from
  /\ stage' = [stage EXCEPT ![i] = to]
  /\ UNCHANGED <<phase, cuts, rounds>>

Ready(i) == Advance(i, "setup", "ready")
Begin(i) == phase # "gather" /\ Advance(i, "ready", "running")
End(i)   == phase = "closed" /\ Advance(i, "running", "ended")

Cut(i) ==
  /\ stage[i] = "running"
  /\ phase = "round"
  /\ cuts[i] = rounds
  /\ cuts' = [cuts EXCEPT ![i] = @ + 1]
  /\ UNCHANGED <<stage, phase, rounds>>

Move(from, to) ==
  /\ phase = from
  /\ phase' = to
  /\ UNCHANGED <<stage, cuts>>

Release    == /\ \A i \in Client : stage[i] = "ready"
              /\ Move("gather", "open") /\ UNCHANGED rounds
OpenRound  == Move("open", "round") /\ UNCHANGED rounds
CloseRound == /\ \A i \in Client : cuts[i] = rounds + 1
              /\ Move("round", "open") /\ rounds' = rounds + 1
Close      == Move("open", "closed") /\ UNCHANGED rounds

Next == \/ \E i \in Client : Ready(i) \/ Begin(i) \/ Cut(i) \/ End(i)
        \/ Release \/ OpenRound \/ CloseRound \/ Close

Spec == Init /\ [][Next]_sessionVars

=============================================================================
