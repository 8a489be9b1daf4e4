------------------------------- MODULE Crashes -------------------------------
(***************************************************************************)
(* Coordination with processes that are killed and hosts that are started  *)
(* again (README.md, "run": the hosts are started by hand or by scripts).  *)
(*                                                                         *)
(* What the survivors see of it (verbs endpoints, an external fact):       *)
(*  - the event queue of a peer gets FI_SHUTDOWN, at once, late or never;  *)
(*  - a send on a dead connection completes with an error once its retries *)
(*    are used up, and with it what else is posted on the endpoint; a      *)
(*    receive alone may stay open for ever;                                *)
(*  - a request whose caller or listener is gone is turned down.           *)
(*                                                                         *)
(* The handlers are those of Coordination; here are the branches they take *)
(* only when a completion has an error.                                    *)
(***************************************************************************)
EXTENDS Coordination, SequencesExt

CONSTANTS
  Mortal,     \* the processes that may be killed
  MaxCrashes  \* bound on how many are

ASSUME CrashesAssumption == Mortal \subseteq Node /\ MaxCrashes \in Nat

VARIABLES
  crashed, \* the processes that were killed and not started again
  crashes, \* how many were killed so far
  unseen,  \* unseen[e]: ended connections of endpoint e not reported to its node
  txErr,   \* txErr[p]: completions with an error waiting in the cq_tx of p
  rxErr,   \* rxErr[p]: completions with an error waiting in the cq_rx of p
  made     \* the passive endpoints for which accept() has made an Endpoint::ep

faultVars == <<crashed, crashes, unseen, txErr, rxErr, made>>
crashVars == <<vars, faultVars>>

CrashInit ==
  /\ Init
  /\ crashed = {} /\ crashes = 0
  /\ unseen = [e \in Endpoint |-> 0]
  /\ txErr = [p \in Node |-> 0] /\ rxErr = [p \in Node |-> 0]
  /\ made = {}

Alive(p) == pc[p] # "gone"
IsUp(e)  == link[LinkOf(e)] = "up"

-----------------------------------------------------------------------------
(* Crash and restart. *)

\* f without anything of the endpoints of process p.
Cleared(f, p) == [e \in Endpoint |-> IF e[1] = p THEN <<>> ELSE f[e]]

\* Process p is killed: its memory, and what it had posted or not read, is lost.
Crash(p) ==
  /\ p \in Mortal /\ Alive(p)
  /\ crashes < MaxCrashes
  /\ crashed' = crashed \cup {p} /\ crashes' = crashes + 1
  /\ link' = [l \in Link |-> IF p \in {l[1], l[2]} /\ link[l] = "up"
                             THEN "down" ELSE link[l]]
  /\ unseen' = [e \in Endpoint |-> IF e[1] = p THEN 0
                                   ELSE IF e[2] = p /\ IsUp(e) THEN unseen[e] + 1
                                   ELSE unseen[e]]
  /\ listening' = [q \in Listener |-> q # p /\ listening[q]]
  /\ eq' = [eq EXCEPT ![p] = <<>>]
  /\ sq' = Cleared(sq, p) /\ rq' = Cleared(rq, p) /\ rxc' = Cleared(rxc, p)
  /\ cqtx' = [cqtx EXCEPT ![p] = 0]
  /\ txErr' = [txErr EXCEPT ![p] = 0] /\ rxErr' = [rxErr EXCEPT ![p] = 0]
  /\ buf' = [e \in Endpoint |-> IF e[1] = p THEN Garbage(e) ELSE buf[e]]
  /\ remoteKeys' = [l \in Link |-> IF l[1] = p THEN Garbage(l) ELSE remoteKeys[l]]
  /\ peer' = [h \in Host |-> IF h = p THEN CN ELSE peer[h]]
  /\ counter' = [q \in Listener |-> IF q = p THEN 0 ELSE counter[q]]
  /\ snap' = [i \in EN |-> IF i = p THEN 0 ELSE snap[i]]
  /\ made' = {e \in made : e[1] # p}
  /\ Goto(p, "gone")
  /\ UNCHANGED <<rounds, checkpoint, summary>>

\* Host h is started again, whether or not the end of its old connections has been
\* reported.  Its requests of its former life have been turned
\* down by then.
Restart(h) ==
  /\ h \in crashed
  /\ \A l \in Link : h \in {l[1], l[2]} => link[l] \in {"closed", "down"}
  /\ crashed' = crashed \ {h}
  /\ eq' = [eq EXCEPT ![h] = <<>>]
  /\ Goto(h, IF h \in PN THEN "listen" ELSE "dial")
  /\ UNCHANGED <<listening, link, sq, rq, rxc, cqtx, buf, peer, remoteKeys, counter,
                 snap, rounds, checkpoint, summary, crashes, unseen, txErr, rxErr, made>>

-----------------------------------------------------------------------------
(* The network. *)

\* The end of a connection of e is reported.
Notice(e) ==
  /\ unseen[e] > 0 /\ Alive(e[1])
  /\ unseen' = [unseen EXCEPT ![e] = @ - 1]
  /\ eq' = [eq EXCEPT ![e[1]] = Append(@, [kind |-> "SHUTDOWN", ep |-> e])]
  /\ UNCHANGED <<listening, link, sq, rq, rxc, cqtx, buf, nodeVars,
                 crashed, crashes, txErr, rxErr, made>>

\* What is posted on a dead connection completes with errors.
Flush(e) ==
  /\ Alive(e[1])
  /\ IF e \in Link THEN link[e] = "down" ELSE ~IsUp(e)
  /\ sq[e] \o rq[e] # <<>>
  /\ txErr' = [txErr EXCEPT ![e[1]] = @ + Len(sq[e])]
  /\ rxErr' = [rxErr EXCEPT ![e[1]] = @ + Len(rq[e])]
  /\ sq' = [sq EXCEPT ![e] = <<>>] /\ rq' = [rq EXCEPT ![e] = <<>>]
  /\ UNCHANGED <<listening, link, eq, rxc, cqtx, buf, nodeVars,
                 crashed, crashes, unseen, made>>

\* A request one end of which is gone.  The caller sees an error; the listener
\* sees one too, or, if it has not accepted yet, may see nothing at all.
TurnDown(l) ==
  LET req == [kind |-> "CONNREQ", ep |-> Rev(l)]
      err == [kind |-> "REFUSED", ep |-> Rev(l)]
      q   == eq[l[2]]
  IN
  /\ link[l] \in {"requested", "accepted"}
  /\ ~Alive(l[1]) \/ ~Alive(l[2])
  /\ link' = [link EXCEPT ![l] = "closed"]
  /\ IF Alive(l[1])
     THEN eq' = [eq EXCEPT ![l[1]] = Append(@, [kind |-> "REFUSED", ep |-> l])]
     ELSE eq' \in {[eq EXCEPT ![l[2]] = r] :
                     r \in IF link[l] = "accepted" THEN {Append(q, err)}
                           ELSE {RemoveAt(q, k) : k \in {n \in DOMAIN q : q[n] = req}}
                                  \cup {[k \in DOMAIN q |-> IF q[k] = req THEN err ELSE q[k]]}}
  /\ UNCHANGED <<listening, sq, rq, rxc, cqtx, buf, nodeVars, faultVars>>

-----------------------------------------------------------------------------
(* Completions with an error: waitComp and checkComp return it. *)

\* Mutant: a wait for a receive goes on after an error.
AfterRxError_WaitOn ==
  [s \in {"await_keys", "await_connect", "await_start",
          "connect_rx", "checkpoint_rx", "stop_rx"} |-> s]

\* Where a wait for a receive, or a poll of cq_rx, ends with it.
AfterRxError ==
  [s \in {"await_keys", "await_connect", "await_start",
          "connect_rx", "checkpoint_rx", "stop_rx"} |-> "failed"]

AfterTxError ==
  [s \in {"connect_tx", "start_tx", "checkpoint_tx", "stop_tx"} |-> "failed"]

\* Mutant: an error in the wait for an array is counted like an array.
RxError_Counted(p) ==
  /\ rxErr[p] > 0
  /\ rxErr' = [rxErr EXCEPT ![p] = @ - 1]
  /\ IF pc[p] \in {"checkpoint_rx", "stop_rx"}
     THEN /\ counter[p] < NumEN
          /\ Count(p, counter[p] + 1) /\ UNCHANGED pc
     ELSE /\ pc[p] \in {"bench", "serve"} \cup DOMAIN AfterRxError
          /\ IF pc[p] \in DOMAIN AfterRxError
             THEN Goto(p, AfterRxError[pc[p]]) ELSE UNCHANGED pc
          /\ UNCHANGED counter
  /\ UNCHANGED <<fabricVars, peer, remoteKeys, snap, rounds, checkpoint, summary,
                 crashed, crashes, unseen, txErr, made>>

\* benchmark() and listenServer() drop the error and poll on; everyone else
\* returns it.
RxError(p) ==
  /\ rxErr[p] > 0
  /\ rxErr' = [rxErr EXCEPT ![p] = @ - 1]
  /\ \/ pc[p] \in {"bench", "serve"} /\ UNCHANGED pc
     \/ pc[p] \in DOMAIN AfterRxError /\ Goto(p, AfterRxError[pc[p]])
  /\ UNCHANGED <<fabricVars, peer, remoteKeys, counter, snap, rounds, checkpoint,
                 summary, crashed, crashes, unseen, txErr, made>>

\* connectToServers overwrites the error of its send with the result of the
\* wait that follows.
TxError(p) ==
  /\ txErr[p] > 0
  /\ txErr' = [txErr EXCEPT ![p] = @ - 1]
  /\ \/ pc[p] = "bench" /\ UNCHANGED pc
     \/ pc[p] = "confirm_tx" /\ Goto(p, "await_start")
     \/ pc[p] \in DOMAIN AfterTxError /\ Goto(p, AfterTxError[pc[p]])
  /\ UNCHANGED <<fabricVars, peer, remoteKeys, counter, snap, rounds, checkpoint,
                 summary, crashed, crashes, unseen, rxErr, made>>

-----------------------------------------------------------------------------
(* The steps of Coordination. *)

\* The endpoints that controllerConnect, controllerCheckpoint and controllerStop
\* use, by the state in which they wait for their commands to be sent.
ToUse == [connect_tx |-> ClientEps, checkpoint_tx |-> ClientEps, stop_tx |-> HostEps]

\* The function, or functions, the controller may call next.
MayCall == {f \in DOMAIN ToUse :
              \/ f = "connect_tx" /\ pc[CN] = "wait_all" /\ counter[CN] = Goal(CN)
              \/ f = "checkpoint_tx" /\ pc[CN] = "timer" /\ rounds < MaxRounds
              \/ f = "stop_tx" /\ pc[CN] = "timer"}

\* accept() makes a new Endpoint::ep.
Making == made' = made \cup {Rev(l) : l \in {k \in Link : link[k] = "requested"
                                                       /\ link'[k] = "accepted"}}

Usual(Step) ==
  /\ Step
  /\ Making
  /\ UNCHANGED <<crashed, crashes, unseen, txErr, rxErr>>

\* An Endpoint::ep that nobody has set is used: undefined, here the end of the
\* controller.
WildEndpoint ==
  /\ \E f \in MayCall : ~(ToUse[f] \subseteq made)
  /\ Goto(CN, "failed")
  /\ UNCHANGED <<fabricVars, peer, remoteKeys, counter, snap, rounds, checkpoint,
                 summary, faultVars>>

ProcessStep(p) ==
  \/ p \in EN /\ Usual(ClientStep(p))
  \/ p \in PN /\ Usual(ServerStep(p))
  \/ p = CN /\ Usual(ControllerStep)
            /\ \A f \in MayCall : pc'[CN] = f => ToUse[f] \subseteq made
  \/ p = CN /\ WildEndpoint
  \/ RxError(p)
  \/ TxError(p)

\* A connection comes about between two living processes, on endpoints without
\* remains of an earlier one.
Connect(l) ==
  /\ Alive(l[1]) /\ Alive(l[2])
  /\ sq[Rev(l)] \o rq[Rev(l)] = <<>>
  /\ Usual(Establish(l) /\ UNCHANGED nodeVars)

Deliver(e) == Usual(Transmit(e) /\ UNCHANGED nodeVars)

CrashNext ==
  \/ \E p \in Node : ProcessStep(p)
  \/ \E l \in Link : Connect(l) \/ TurnDown(l)
  \/ \E e \in Endpoint : Deliver(e) \/ Notice(e) \/ Flush(e)
  \/ \E p \in Node : Crash(p)
  \/ \E h \in Host : Restart(h)

CrashSpec == CrashInit /\ [][CrashNext]_crashVars

\* What has to go on as long as it can: the processes, the connection manager and
\* the fabric, which gives up on a send in the end and reports the end of a
\* connection.  Nobody is forced to crash or to be started again, and no receive
\* to fail.
Progress ==
  \/ \E p \in Node : ProcessStep(p)
  \/ \E l \in Link : Connect(l) \/ TurnDown(l)
  \/ \E e \in Endpoint : Deliver(e) \/ Notice(e) \/ (sq[e] # <<>> /\ Flush(e))

FairCrashSpec == CrashSpec /\ WF_crashVars(Progress)

-----------------------------------------------------------------------------
(* Properties. *)

Queued(q, k) == Cardinality({n \in DOMAIN eq[q] : eq[q][n].kind = k})

\* The connections of the controller that are up, or down without its knowledge.
Believed ==
  Cardinality({h \in Host : link[Cep(h)] = "up"})
    + Cardinality({m \in Host \X (1 .. MaxCrashes) : m[2] <= unseen[<<CN, m[1]>>]})

\* While the controller gathers its hosts, its counter together with the events
\* it has not read yet is the number of connections it has or believes to have:
\* a host that dies is taken off, one that comes back is added again.
CountsConnections ==
  pc[CN] = "wait_all" =>
    counter[CN] + Queued(CN, "CONNECTED") - Queued(CN, "SHUTDOWN") = Believed

\* When waitAllConn returns, every host has been connected, so no Endpoint::ep is
\* used before accept() has set it; unless the end of a connection has still to be
\* reported or read, whose host was started again and is counted twice.
EveryoneWasConnected ==
  pc[CN] = "wait_all" /\ counter[CN] = Goal(CN) =>
    \/ HostEps \subseteq made
    \/ Queued(CN, "SHUTDOWN") > 0
    \/ \E h \in Host : unseen[<<CN, h>>] > 0

\* Whatever the controller writes out is complete, as in RowsComplete: a client
\* that is lost in the middle of a round ends the run, not the round.
NoPartialRows ==
  /\ pc[CN] = "timer" /\ rounds > 0 =>
       \A i \in EN : checkpoint[i] = Delta(i, rounds)
  /\ pc[CN] \in {"stop_cm", "finished"} =>
       \A i \in EN : summary[i] = Total(i, rounds)

\* A host that is dead when the controller is between two rounds does not leave
\* it waiting for ever: sooner or later a call for that host fails and ends the
\* run.  (Not at once, since leftover completions hide the failure of a send; not
\* if, as in RunEnds, the last array of another client is lost; and not if another
\* host dies while the controller waits for its array.)
DeadHostEndsRun ==
  [](~Lost /\ crashes <= 1) => ((pc[CN] = "timer" /\ \E h \in Host : ~IsUp(Cep(h))) ~> (pc[CN] = "gone"))

=============================================================================
