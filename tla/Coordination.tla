---------------------------- MODULE Coordination ----------------------------
(***************************************************************************)
(* One benchmark run as its processes coordinate it over the control       *)
(* endpoints: everyone connects to the controller, the clients connect to  *)
(* the servers when told to, the controller waits for all of them before   *)
(* it starts them, asks for checkpoints, stops everyone and waits until    *)
(* the hosts are gone (Main.cpp, Node.cpp, Endpoint.cpp).                  *)
(*                                                                         *)
(* A step runs from one wait of a process to the next.  The data writes of *)
(* a client and its use of cq_tx during the benchmark are in Transfers.    *)
(***************************************************************************)
EXTENDS Fabric, Integers

CONSTANT MaxRounds   \* checkpoints of the run: max_duration / checkpoint_intervall

ASSUME RoundsAssumption == MaxRounds \in Nat

VARIABLES
  pc,         \* pc[p]: the wait or the call node p has come to
  peer,       \* peer[h]: where the connect() of host h leads
  remoteKeys, \* remoteKeys[l]: Endpoint::remote_keys of the active endpoint l
  counter,    \* counter[q]: the local "counter" of waitAllConn and controller*()
  snap,       \* snap[i]: checkpoints client i has taken
  rounds,     \* checkpoints the controller has completed
  checkpoint, \* checkpoint[i], summary[i]: the rows of client i in the
  summary     \* controller's arrays of the same names

nodeVars == <<pc, peer, remoteKeys, counter, snap, rounds, checkpoint, summary>>
vars     == <<fabricVars, nodeVars>>

ClientPC == {"dial", "await_cm", "await_keys", "linked", "await_connect",
             "confirm_tx", "await_start", "bench", "finished", "failed", "gone"}
ServerPC == {"listen", "dial", "await_cm", "await_keys", "wait_all", "serve",
             "finished", "failed", "gone"}
ControllerPC == {"wait_all", "connect_tx", "connect_rx", "start_tx", "timer",
                 "checkpoint_tx", "checkpoint_rx", "stop_tx", "stop_rx",
                 "stop_cm", "finished", "failed", "gone"}

\* The snapshots of the transfer counts that client i sends (benchmark()).
Delta(i, n) == [kind |-> "DELTA", src |-> Cep(i), n |-> n]
Total(i, n) == [kind |-> "TOTAL", src |-> Cep(i), n |-> n]

\* Mutant: the controller is satisfied one host short.
Goal_OneShort(q) == IF q = CN THEN NumEP - 1 ELSE NumEN

\* How many connections waitAllConn waits for.
Goal(q) == IF q = CN THEN NumEP ELSE NumEN

Init ==
  /\ FabricInit
  /\ pc = [p \in Node |-> IF p = CN THEN "wait_all"
                          ELSE IF p \in PN THEN "listen" ELSE "dial"]
  /\ peer = [h \in Host |-> CN]
  /\ remoteKeys = [l \in Link |-> Garbage(l)]
  /\ counter = [q \in Listener |-> 0]
  /\ snap = [i \in EN |-> 0]
  /\ rounds = 0
  /\ checkpoint = [i \in EN |-> Garbage(Cep(i))]
  /\ summary    = [i \in EN |-> Garbage(Cep(i))]

Goto(p, s) == pc' = [pc EXCEPT ![p] = s]
Count(q, n) == counter' = [counter EXCEPT ![q] = n]

-----------------------------------------------------------------------------
(* Endpoint::connect, used by every host. *)

\* Post a receive for the keys, then fi_connect.
Dial(h, q) ==
  /\ CtrlRecv({<<h, q>>}, KeysSize)
  /\ Request(<<h, q>>)
  /\ peer' = [peer EXCEPT ![h] = q]
  /\ Goto(h, "await_cm")

\* Whatever event comes first has to be FI_CONNECTED.
ConnectEvent(h) ==
  /\ pc[h] = "await_cm"
  /\ eq[h] # <<>>
  /\ eq' = [eq EXCEPT ![h] = Tail(@)]
  /\ Goto(h, IF Head(eq[h]).kind = "CONNECTED" THEN "await_keys" ELSE "failed")
  /\ UNCHANGED <<listening, link, sq, rq, rxc, cqtx, buf, peer, remoteKeys,
                 counter, snap, rounds, checkpoint, summary>>

\* Any receive completion of the node ends the wait for the keys.
ConnectKeys(h) ==
  /\ pc[h] = "await_keys"
  /\ \E e \in Endpoint :
       /\ e[1] = h
       /\ ReadRx(e)
       /\ IF Head(rxc[e]).size = Head(rxc[e]).len
          THEN /\ remoteKeys' = [remoteKeys EXCEPT ![<<h, peer[h]>>] = buf[<<h, peer[h]>>]]
               /\ Goto(h, IF h \in PN THEN "wait_all" ELSE "linked")
          ELSE /\ Goto(h, "failed")
               /\ UNCHANGED remoteKeys
  /\ UNCHANGED <<listening, link, eq, sq, rq, cqtx, buf, peer, counter, snap,
                 rounds, checkpoint, summary>>

\* Mutant: the receive for the first command is posted along with the one for
\* the keys.
HostDial_BothReceives(h) ==
  /\ pc[h] = "dial"
  /\ rq' = [rq EXCEPT ![Cep(h)] = @ \o <<KeysSize, IntSize>>]
  /\ Request(Cep(h))
  /\ Goto(h, "await_cm")
  /\ UNCHANGED <<listening, sq, rxc, cqtx, buf, peer, remoteKeys, counter, snap,
                 rounds, checkpoint, summary>>

\* connectToController: a client connects right away; a server once it listens.
HostDial(h) ==
  /\ pc[h] = "dial"
  /\ Dial(h, CN)
  /\ UNCHANGED <<listening, sq, rxc, cqtx, buf, remoteKeys, counter, snap,
                 rounds, checkpoint, summary>>

-----------------------------------------------------------------------------
(* waitAllConn and the event branch of listenServer. *)

\* Event v at node q: accept a request; send the keys over a new connection of
\* one of q's own endpoints.
HandleEvent(q, v) ==
  /\ eq' = [eq EXCEPT ![q] = Tail(@)]
  /\ link' = IF v.kind = "CONNREQ" THEN [link EXCEPT ![LinkOf(v.ep)] = "accepted"]
             ELSE link
  /\ IF v.kind = "CONNECTED" /\ v.ep \in Passive
     THEN CtrlSend([e \in {v.ep} |-> KeysOf(e)])
     ELSE UNCHANGED <<sq, buf>>

\* Mutant: the end of a connection is not counted.
WaitAllConn_NoDecrement(q) ==
  /\ pc[q] = "wait_all"
  /\ counter[q] < Goal(q)
  /\ eq[q] # <<>>
  /\ LET v == Head(eq[q]) IN
       /\ HandleEvent(q, v)
       /\ Count(q, IF v.kind = "CONNECTED" THEN counter[q] + 1 ELSE counter[q])
       /\ Goto(q, IF v.kind = "REFUSED" THEN "failed" ELSE pc[q])
  /\ UNCHANGED <<listening, rq, rxc, cqtx, peer, remoteKeys, snap, rounds,
                 checkpoint, summary>>

WaitAllConn(q) ==
  /\ pc[q] = "wait_all"
  /\ counter[q] < Goal(q)
  /\ eq[q] # <<>>
  /\ LET v == Head(eq[q]) IN
       /\ HandleEvent(q, v)
       /\ Count(q, IF v.kind = "CONNECTED" THEN counter[q] + 1
                   ELSE IF v.kind = "SHUTDOWN" THEN counter[q] - 1 ELSE counter[q])
       /\ Goto(q, IF v.kind = "REFUSED" THEN "failed" ELSE pc[q])
  /\ UNCHANGED <<listening, rq, rxc, cqtx, peer, remoteKeys, snap, rounds,
                 checkpoint, summary>>

-----------------------------------------------------------------------------
(* Server: Node::listenServer. *)

ServerListen(s) ==
  /\ pc[s] = "listen"
  /\ listening' = [listening EXCEPT ![s] = TRUE]
  /\ Goto(s, "dial")
  /\ UNCHANGED <<link, eq, sq, rq, rxc, cqtx, buf, peer, remoteKeys, counter,
                 snap, rounds, checkpoint, summary>>

\* All clients are connected: post the receive for "stop".
ServerReady(s) ==
  /\ pc[s] = "wait_all"
  /\ counter[s] = Goal(s)
  /\ CtrlRecv({Cep(s)}, IntSize)
  /\ Goto(s, "serve")
  /\ UNCHANGED <<listening, link, eq, sq, rxc, cqtx, buf, peer, remoteKeys,
                 counter, snap, rounds, checkpoint, summary>>

ServeCommand(s) ==
  /\ pc[s] = "serve"
  /\ \E e \in Endpoint :
       /\ e[1] = s
       /\ ReadRx(e)
       /\ Goto(s, IF Head(rxc[e]).len # IntSize THEN "failed"
                  ELSE IF buf[Cep(s)].kind = "STOP" THEN "finished" ELSE "serve")
  /\ UNCHANGED <<listening, link, eq, sq, rq, cqtx, buf, peer, remoteKeys,
                 counter, snap, rounds, checkpoint, summary>>

\* An error of the event queue is dropped: only what comes after an event is
\* looked at, and the server polls on.
ServeEvent(s) ==
  /\ pc[s] = "serve"
  /\ eq[s] # <<>>
  /\ HandleEvent(s, Head(eq[s]))
  /\ Goto(s, "serve")
  /\ UNCHANGED <<listening, rq, rxc, cqtx, peer, remoteKeys, counter, snap,
                 rounds, checkpoint, summary>>

-----------------------------------------------------------------------------
(* Client: connectToController, connectToServers, benchmark. *)

\* Connected to the controller: post the receive for "connect".
AwaitConnect(i) ==
  /\ pc[i] = "linked"
  /\ peer[i] = CN
  /\ CtrlRecv({Cep(i)}, IntSize)
  /\ Goto(i, "await_connect")
  /\ UNCHANGED <<listening, link, eq, sq, rxc, cqtx, buf, peer, remoteKeys,
                 counter, snap, rounds, checkpoint, summary>>

\* On the command "connect" the client dials the first server.  A message of
\* another size gives a warning and return code 0.
RecvConnect(i) ==
  /\ pc[i] = "await_connect"
  /\ \E e \in Endpoint :
       /\ e[1] = i
       /\ ReadRx(e)
       /\ IF Head(rxc[e]).len = IntSize /\ buf[Cep(i)].kind # "CONNECT"
          THEN Goto(i, "failed") /\ UNCHANGED <<link, eq, rq, peer>>
          ELSE Dial(i, NumEN)
  /\ UNCHANGED <<listening, sq, cqtx, buf, remoteKeys, counter, snap, rounds,
                 checkpoint, summary>>

\* Connected to a server that is not the last: dial the next one.
DialNext(i) ==
  /\ pc[i] = "linked"
  /\ peer[i] \in PN
  /\ peer[i] + 1 \in PN
  /\ Dial(i, peer[i] + 1)
  /\ UNCHANGED <<listening, sq, rxc, cqtx, buf, remoteKeys, counter, snap,
                 rounds, checkpoint, summary>>

\* Mutant: the receive for "start" is not posted.
Confirm_NoRecv(i) ==
  /\ pc[i] = "linked"
  /\ peer[i] \in PN
  /\ peer[i] + 1 \notin PN
  /\ SendCommand({Cep(i)}, "CONNECTED")
  /\ Goto(i, "confirm_tx")
  /\ UNCHANGED <<listening, link, eq, rq, rxc, cqtx, peer, remoteKeys, counter,
                 snap, rounds, checkpoint, summary>>

\* Connected to all servers: post the receive for "start", send "connected".
Confirm(i) ==
  /\ pc[i] = "linked"
  /\ peer[i] \in PN
  /\ peer[i] + 1 \notin PN
  /\ CtrlRecv({Cep(i)}, IntSize)
  /\ SendCommand({Cep(i)}, "CONNECTED")
  /\ Goto(i, "confirm_tx")
  /\ UNCHANGED <<listening, link, eq, rxc, cqtx, peer, remoteKeys, counter,
                 snap, rounds, checkpoint, summary>>

\* Mutant: the completion of "connected" is left in cq_tx.
ConfirmSent_NoWait(i) ==
  /\ pc[i] = "confirm_tx"
  /\ Goto(i, "await_start")
  /\ UNCHANGED <<fabricVars, peer, remoteKeys, counter, snap, rounds, checkpoint,
                 summary>>

ConfirmSent(i) ==
  /\ pc[i] = "confirm_tx"
  /\ ReadTx(i, 1)
  /\ Goto(i, "await_start")
  /\ UNCHANGED <<listening, link, eq, sq, rq, rxc, buf, peer, remoteKeys,
                 counter, snap, rounds, checkpoint, summary>>

\* On "start" benchmark() begins and posts a receive for the next command; a
\* message of another size only gives a warning.
RecvStart(i) ==
  /\ pc[i] = "await_start"
  /\ \E e \in Endpoint :
       /\ e[1] = i
       /\ ReadRx(e)
       /\ IF Head(rxc[e]).len = IntSize /\ buf[Cep(i)].kind # "START"
          THEN Goto(i, "failed") /\ UNCHANGED rq
          ELSE Goto(i, "bench") /\ CtrlRecv({Cep(i)}, CtrlSize)
  /\ UNCHANGED <<listening, link, eq, sq, cqtx, buf, peer, remoteKeys, counter,
                 snap, rounds, checkpoint, summary>>

\* A command during the benchmark.  Only "checkpoint" posts the next receive;
\* every command, known or not, is answered with the array delta.
BenchCommand(i) ==
  /\ pc[i] = "bench"
  /\ \E e \in Endpoint :
       /\ e[1] = i
       /\ ReadRx(e)
       /\ LET c == buf[Cep(i)].kind
              n == IF c = "CHECKPOINT" THEN snap[i] + 1 ELSE snap[i]
          IN IF Head(rxc[e]).len # IntSize
             THEN Goto(i, "failed") /\ UNCHANGED <<sq, rq, buf, snap>>
             ELSE /\ snap' = [snap EXCEPT ![i] = n]
                  /\ CtrlRecv(IF c = "CHECKPOINT" THEN {Cep(i)} ELSE {}, IntSize)
                  /\ CtrlSend([a \in {Cep(i)} |->
                                 IF c = "STOP" THEN Total(i, n) ELSE Delta(i, n)])
                  /\ Goto(i, IF c = "STOP" THEN "finished" ELSE "bench")
  /\ UNCHANGED <<listening, link, eq, cqtx, peer, remoteKeys, counter, rounds,
                 checkpoint, summary>>

-----------------------------------------------------------------------------
(* Controller: controllerConnect, -Start, -Checkpoint, -Stop, and the loop of *)
(* controller() in Main.cpp.                                                   *)

ControllerUnchanged == <<listening, link, peer, remoteKeys, snap>>

\* All hosts are connected: expect "connected" and send "connect".
ControllerConnect ==
  /\ pc[CN] = "wait_all"
  /\ counter[CN] = Goal(CN)
  /\ CtrlRecv(ClientEps, IntSize)
  /\ SendCommand(ClientEps, "CONNECT")
  /\ Goto(CN, "connect_tx")
  /\ UNCHANGED <<ControllerUnchanged, eq, rxc, cqtx, counter, rounds, checkpoint,
                 summary>>

\* As many send completions as commands were sent; nobody asks which.
CommandsSent(from, num, to) ==
  /\ pc[CN] = from
  /\ ReadTx(CN, num)
  /\ Count(CN, 0)
  /\ Goto(CN, to)
  /\ UNCHANGED <<ControllerUnchanged, eq, sq, rq, rxc, buf, rounds, checkpoint,
                 summary>>

ConnectSent == CommandsSent("connect_tx", NumEN, "connect_rx")

\* The completion of any client; those of a server's endpoint would carry an id
\* that no array of the controller has (BufferExclusive excludes them).
CollectConfirm ==
  /\ pc[CN] = "connect_rx"
  /\ counter[CN] < NumEN
  /\ \E e \in ClientEps :
       /\ ReadRx(e)
       /\ IF Head(rxc[e]).len # IntSize
          THEN Goto(CN, "failed") /\ UNCHANGED counter
          ELSE /\ Count(CN, IF buf[e].kind = "CONNECTED" THEN counter[CN] + 1
                            ELSE counter[CN])
               /\ UNCHANGED pc
  /\ UNCHANGED <<ControllerUnchanged, eq, sq, rq, cqtx, buf, rounds, checkpoint,
                 summary>>

\* Mutant: one confirmation is enough.
ControllerStart_First ==
  /\ pc[CN] = "connect_rx"
  /\ counter[CN] > 0
  /\ SendCommand(ClientEps, "START")
  /\ Goto(CN, "start_tx")
  /\ UNCHANGED <<ControllerUnchanged, eq, rq, rxc, cqtx, counter, rounds,
                 checkpoint, summary>>

ControllerStart ==
  /\ pc[CN] = "connect_rx"
  /\ counter[CN] = NumEN
  /\ SendCommand(ClientEps, "START")
  /\ Goto(CN, "start_tx")
  /\ UNCHANGED <<ControllerUnchanged, eq, rq, rxc, cqtx, counter, rounds,
                 checkpoint, summary>>

StartSent == CommandsSent("start_tx", NumEN, "timer")

\* Mutant: one checkpoint too many.
ControllerCheckpoint_OneMore ==
  /\ pc[CN] = "timer"
  /\ rounds <= MaxRounds
  /\ CtrlRecv(ClientEps, TransferSize)
  /\ SendCommand(ClientEps, "CHECKPOINT")
  /\ Goto(CN, "checkpoint_tx")
  /\ UNCHANGED <<ControllerUnchanged, eq, rxc, cqtx, counter, rounds, checkpoint,
                 summary>>

\* A checkpoint is due: expect an array from every client and ask for it.
ControllerCheckpoint ==
  /\ pc[CN] = "timer"
  /\ rounds < MaxRounds
  /\ CtrlRecv(ClientEps, TransferSize)
  /\ SendCommand(ClientEps, "CHECKPOINT")
  /\ Goto(CN, "checkpoint_tx")
  /\ UNCHANGED <<ControllerUnchanged, eq, rxc, cqtx, counter, rounds, checkpoint,
                 summary>>

CheckpointSent == CommandsSent("checkpoint_tx", NumEN, "checkpoint_rx")

\* Mutant: the rows are filled in the order the messages come in.
Row_ByArrival(rows, e) == IF Head(rxc[e]).len = TransferSize
                          THEN [rows EXCEPT ![counter[CN]] = buf[e]] ELSE rows

\* Row e[2] of an array takes what came in on e; a message of another size is
\* counted all the same.
Row(rows, e) == IF Head(rxc[e]).len = TransferSize
                THEN [rows EXCEPT ![e[2]] = buf[e]] ELSE rows

CollectCheckpoint ==
  /\ pc[CN] = "checkpoint_rx"
  /\ counter[CN] < NumEN
  /\ \E e \in ClientEps : ReadRx(e) /\ checkpoint' = Row(checkpoint, e)
  /\ Count(CN, counter[CN] + 1)
  /\ UNCHANGED <<ControllerUnchanged, eq, sq, rq, cqtx, buf, pc, rounds, summary>>

\* Mutant: the arrays of the clients are not waited for.
CheckpointDone_Early ==
  /\ pc[CN] = "checkpoint_rx"
  /\ rounds' = rounds + 1
  /\ Goto(CN, "timer")
  /\ UNCHANGED <<fabricVars, peer, remoteKeys, counter, snap, checkpoint, summary>>

CheckpointDone ==
  /\ pc[CN] = "checkpoint_rx"
  /\ counter[CN] = NumEN
  /\ rounds' = rounds + 1
  /\ Goto(CN, "timer")
  /\ UNCHANGED <<fabricVars, peer, remoteKeys, counter, snap, checkpoint, summary>>

\* Mutant: only the clients are told to stop.
ControllerStop_ClientsOnly ==
  /\ pc[CN] = "timer"
  /\ CtrlRecv(ClientEps, TransferSize)
  /\ SendCommand(ClientEps, "STOP")
  /\ Goto(CN, "stop_tx")
  /\ UNCHANGED <<ControllerUnchanged, eq, rxc, cqtx, counter, rounds, checkpoint,
                 summary>>

\* The time is up: expect the totals of the clients and send "stop" to all.
ControllerStop ==
  /\ pc[CN] = "timer"
  /\ CtrlRecv(ClientEps, TransferSize)
  /\ SendCommand(HostEps, "STOP")
  /\ Goto(CN, "stop_tx")
  /\ UNCHANGED <<ControllerUnchanged, eq, rxc, cqtx, counter, rounds, checkpoint,
                 summary>>

StopSent == CommandsSent("stop_tx", NumEP, "stop_rx")

CollectSummary ==
  /\ pc[CN] = "stop_rx"
  /\ counter[CN] < NumEN
  /\ \E e \in ClientEps : ReadRx(e) /\ summary' = Row(summary, e)
  /\ Count(CN, counter[CN] + 1)
  /\ UNCHANGED <<ControllerUnchanged, eq, sq, rq, cqtx, buf, pc, rounds, checkpoint>>

SummaryDone ==
  /\ pc[CN] = "stop_rx"
  /\ counter[CN] = NumEN
  /\ Count(CN, 0)
  /\ Goto(CN, "stop_cm")
  /\ UNCHANGED <<fabricVars, peer, remoteKeys, snap, rounds, checkpoint, summary>>

\* Only the end of a connection counts among the events.
AwaitShutdown ==
  /\ pc[CN] = "stop_cm"
  /\ counter[CN] < NumEP
  /\ eq[CN] # <<>>
  /\ eq' = [eq EXCEPT ![CN] = Tail(@)]
  /\ LET v == Head(eq[CN]).kind IN
       /\ Count(CN, IF v = "SHUTDOWN" THEN counter[CN] + 1 ELSE counter[CN])
       /\ Goto(CN, IF v = "REFUSED" THEN "failed" ELSE pc[CN])
  /\ UNCHANGED <<listening, link, sq, rq, rxc, cqtx, buf, peer, remoteKeys, snap,
                 rounds, checkpoint, summary>>

ControllerDone ==
  /\ pc[CN] = "stop_cm"
  /\ counter[CN] = NumEP
  /\ Goto(CN, "finished")
  /\ UNCHANGED <<fabricVars, peer, remoteKeys, counter, snap, rounds, checkpoint,
                 summary>>

-----------------------------------------------------------------------------
\* main() returns, with or without an error, and the process is gone.
Exit(p) ==
  /\ pc[p] \in {"finished", "failed"}
  /\ Disconnect(p)
  /\ Goto(p, "gone")
  /\ UNCHANGED <<listening, sq, rq, rxc, cqtx, buf, peer, remoteKeys, counter,
                 snap, rounds, checkpoint, summary>>

HostStep(h) == HostDial(h) \/ ConnectEvent(h) \/ ConnectKeys(h) \/ Exit(h)

ClientStep(i) ==
  \/ HostStep(i)
  \/ AwaitConnect(i) \/ RecvConnect(i) \/ DialNext(i)
  \/ Confirm(i) \/ ConfirmSent(i) \/ RecvStart(i) \/ BenchCommand(i)

ServerStep(s) ==
  \/ HostStep(s)
  \/ ServerListen(s) \/ WaitAllConn(s) \/ ServerReady(s)
  \/ ServeCommand(s) \/ ServeEvent(s)

ControllerStep ==
  \/ WaitAllConn(CN)
  \/ ControllerConnect \/ ConnectSent \/ CollectConfirm
  \/ ControllerStart \/ StartSent
  \/ ControllerCheckpoint \/ CheckpointSent \/ CollectCheckpoint \/ CheckpointDone
  \/ ControllerStop \/ StopSent \/ CollectSummary \/ SummaryDone
  \/ AwaitShutdown \/ ControllerDone \/ Exit(CN)

NetworkStep == Network /\ UNCHANGED nodeVars

Next == \/ \E i \in EN : ClientStep(i)
        \/ \E s \in PN : ServerStep(s)
        \/ ControllerStep
        \/ NetworkStep

Spec == Init /\ [][Next]_vars

\* Every process polls and is scheduled; a reliable fabric delivers and a
\* connection manager completes what it began.  It is enough that the run goes on
\* while anything can happen: every step uses something up (an event, a message,
\* a place in the code), so that no run is infinite and nothing that stays possible
\* is passed over for ever.
FairSpec == Spec /\ WF_vars(Next)

-----------------------------------------------------------------------------
(* Properties. *)

\* A process only ever stands at the places its own code has.
PcTypeOK ==
  /\ pc \in [Node -> ClientPC \cup ServerPC \cup ControllerPC]
  /\ \A i \in EN : pc[i] \in ClientPC
  /\ \A s \in PN : pc[s] \in ServerPC
  /\ pc[CN] \in ControllerPC

\* Types; the controller takes no more checkpoints than the run has.
TypeOK ==
  /\ FabricTypeOK
  /\ PcTypeOK
  /\ peer \in [Host -> PN \cup {CN}]
  /\ \A s \in PN : peer[s] = CN
  /\ remoteKeys \in [Link -> Msg]
  /\ counter \in [Listener -> Int]
  /\ snap \in [EN -> Nat]
  /\ rounds \in 0 .. MaxRounds
  /\ checkpoint \in [EN -> Msg]
  /\ summary \in [EN -> Msg]

\* As soon as one client writes, every client holds the keys of every server,
\* and of the endpoint the server has for it (controllerConnect waits for all
\* confirmations before controllerStart).
StartBarrier ==
  (\E i \in EN : pc[i] = "bench") =>
    \A j \in EN, s \in PN : remoteKeys[<<j, s>>] = KeysOf(<<s, j>>)

\* No process ever meets one of its error returns: an event other than
\* FI_CONNECTED in connect(), a refused connection, a message of another size
\* or a command other than the one it waits for.
NoProtocolError == \A p \in Node : pc[p] # "failed"

\* The single control buffer of an endpoint is never open to a receive while
\* the message before it has not been read, a message fits its receive, and the
\* controller expects nothing from a server.
BufferExclusive ==
  \A e \in Endpoint :
    /\ Len(rq[e]) + Len(rxc[e]) <= 1
    /\ e \in HostEps \ ClientEps => rq[e] = <<>> /\ rxc[e] = <<>>
    /\ \A k \in DOMAIN rxc[e] : rxc[e][k].len <= rxc[e][k].size

\* A client posts the receive for the next command on the buffer it sends its
\* counts from (benchmark(), ctrl_recv before memcpy and ctrl_send): no command
\* may arrive before the counts have left.
RepliesIntact ==
  \A i \in EN : LET q == sq[Cep(i)] IN
    \A k \in DOMAIN q : q[k].kind \in {"DELTA", "TOTAL"} => buf[Cep(i)] = q[k]

\* The controller writes its commands into the buffer from which it has posted the
\* keys, without waiting for these: while they wait, no more than the first
\* "connect" may get there, whose four bytes cover only the id of the keys, which
\* no host reads.
KeysIntact ==
  \A e \in Endpoint : \A k \in DOMAIN sq[e] : sq[e][k].kind = "KEYS" =>
    \/ buf[e] = KeysOf(e)
    \/ e \in ClientEps /\ buf[e] = Command("CONNECT", e)

\* benchmark() finds cq_tx without the completions of the handshake, which it
\* would count as data writes: only the answers of the client come through it.
TxQueueClean ==
  \A i \in EN : pc[i] \in {"await_start", "bench"} => cqtx[i] <= snap[i]

\* What the controller writes out: after its r-th checkpoint every row holds
\* the r-th delta of its own client, and in the end every row of the summary
\* holds the totals of its client (controllerCheckpoint, controllerStop).
RowsComplete ==
  /\ pc[CN] = "timer" /\ rounds > 0 =>
       \A i \in EN : checkpoint[i] = Delta(i, rounds)
  /\ pc[CN] \in {"stop_cm", "finished", "gone"} =>
       \A i \in EN : summary[i] = Total(i, rounds)

\* The processes of a run, seen through Session.
stage == [i \in EN |-> CASE pc[i] \in {"confirm_tx", "await_start"} -> "ready"
                          [] pc[i] = "bench"                       -> "running"
                          [] pc[i] \in {"finished", "gone"}        -> "ended"
                          [] OTHER                                 -> "setup"]
phase == CASE pc[CN] \in {"wait_all", "connect_tx", "connect_rx"} -> "gather"
           [] pc[CN] \in {"start_tx", "timer"}                   -> "open"
           [] pc[CN] \in {"checkpoint_tx", "checkpoint_rx"}      -> "round"
           [] OTHER                                              -> "closed"

S == INSTANCE Session WITH Client <- EN, cuts <- snap

\* The control protocol implements the abstract session: the barrier before the
\* start, one cut per client and round, no end before the stop.
ImplementsSession == S!Spec

\* Every client gets to write (connectToController, connectToServers).
EveryoneBegins == \A i \in EN : <>(pc[i] = "bench")

\* Every host process ends once the run is over (listenServer, benchmark).
HostsLeave == <>(\A h \in Host : pc[h] = "gone")

\* A totals array that its client has posted and will never leave its node.
Lost == \E i \in EN : sq[Cep(i)] # <<>> /\ link[Cep(i)] = "down"

\* The run ends with every process gone unless the last array of a client that
\* has already exited is lost (controllerStop).
RunEnds == [](~Lost) => <>(pc[CN] = "gone")

-----------------------------------------------------------------------------
(* What the comments of the source say and the code does not do. *)

\* Endpoint.cpp:262, "copy command string into ctrl_buff and send to remote peer":
\* the peer gets that command, so the buffer holds it until it has left.
CommandsIntact ==
  \A e \in HostEps : \A k \in DOMAIN sq[e] : sq[e][k].kind \in Commands => buf[e] = sq[e][k]

\* Node.cpp:828, "wait till all messages are successfully sent and received":
\* the wait of controllerStop comes to an end.
StopCompletes == (pc[CN] = "stop_tx") ~> (pc[CN] = "finished")

=============================================================================
