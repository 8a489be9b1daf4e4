------------------------------- MODULE Fabric -------------------------------
(***************************************************************************)
(* The libfabric objects the benchmark uses, as its calls see them:        *)
(* message endpoints (FI_EP_MSG: reliable, ordered), one event queue, one  *)
(* transmit and one receive completion queue per node, and the control     *)
(* buffer of every endpoint.  The library is not part of the repository.   *)
(*                                                                         *)
(* Abstractions.  A completion queue keeps the order of the completions of *)
(* one endpoint; between endpoints any order may come out.  A posted send  *)
(* carries the bytes its buffer held when it was posted; whether the       *)
(* buffer is still the same when the send goes out is a property           *)
(* (Coordination!RepliesIntact).  A send waits until the peer has posted a *)
(* receive (verbs retries a receiver that is not ready without limit).     *)
(***************************************************************************)
EXTENDS Topology, Sequences

VARIABLES
  listening, \* listening[q]: fi_listen was called on the passive endpoints of q
  link,      \* link[l]: the state of the connection whose active end is l
  eq,        \* eq[p]: the event queue of node p
  sq,        \* sq[e]: sends posted on endpoint e and not yet delivered
  rq,        \* rq[e]: sizes of the receives posted on e and not yet filled
  rxc,       \* rxc[e]: receive completions of e waiting in its node's cq_rx
  cqtx,      \* cqtx[p]: number of completions waiting in the cq_tx of node p
  buf        \* buf[e]: what the control buffer of endpoint e holds

fabricVars == <<listening, link, eq, sq, rq, rxc, cqtx, buf>>

-----------------------------------------------------------------------------
(* Messages and their sizes in bytes: int, struct keys, struct transfer[]. *)

IntSize      == 4
KeysSize     == 24
TransferSize == 40 * NumPN

Commands == {"CONNECT", "CONNECTED", "START", "CHECKPOINT", "STOP"}
Kinds    == Commands \cup {"NONE", "KEYS", "DELTA", "TOTAL"}

\* A message names the endpoint it was made for and, if it is a transfer
\* array, which of the node's snapshots it is.
Msg     == [kind : Kinds, src : Endpoint, n : Nat]
Garbage(e)    == [kind |-> "NONE", src |-> e, n |-> 0]
Command(c, e) == [kind |-> c,      src |-> e, n |-> 0]
KeysOf(e)     == [kind |-> "KEYS", src |-> e, n |-> 0]

LenOf(m) == IF m.kind \in Commands THEN IntSize
            ELSE IF m.kind = "KEYS" THEN KeysSize ELSE TransferSize

RecvSizes   == {IntSize, KeysSize, TransferSize, CtrlSize}
Completions == [size : RecvSizes, len : {IntSize, KeysSize, TransferSize}]
Events      == [kind : {"CONNREQ", "CONNECTED", "SHUTDOWN", "REFUSED"}, ep : Endpoint]
LinkStates  == {"closed", "requested", "accepted", "up", "down"}

FabricTypeOK ==
  /\ listening \in [Listener -> BOOLEAN]
  /\ link \in [Link -> LinkStates]
  /\ eq   \in [Node -> Seq(Events)]
  /\ sq   \in [Endpoint -> Seq(Msg)]
  /\ rq   \in [Endpoint -> Seq(RecvSizes)]
  /\ rxc  \in [Endpoint -> Seq(Completions)]
  /\ cqtx \in [Node -> Nat]
  /\ buf  \in [Endpoint -> Msg]

\* The controller is started first (README.md, "run") and listens.
FabricInit ==
  /\ listening = [q \in Listener |-> q = CN]
  /\ link = [l \in Link |-> "closed"]
  /\ eq   = [p \in Node |-> <<>>]
  /\ sq   = [e \in Endpoint |-> <<>>]
  /\ rq   = [e \in Endpoint |-> <<>>]
  /\ rxc  = [e \in Endpoint |-> <<>>]
  /\ cqtx = [p \in Node |-> 0]
  /\ buf  = [e \in Endpoint |-> Garbage(e)]

-----------------------------------------------------------------------------
(* Calls of the nodes. *)

\* Endpoint::ctrl_recv on every endpoint of S.
CtrlRecv(S, size) ==
  rq' = [e \in Endpoint |-> IF e \in S THEN Append(rq[e], size) ELSE rq[e]]

\* memcpy into ctrl_buff and Endpoint::ctrl_send, on every endpoint m maps to
\* a message.
CtrlSend(m) ==
  /\ buf' = [e \in Endpoint |-> IF e \in DOMAIN m THEN m[e] ELSE buf[e]]
  /\ sq'  = [e \in Endpoint |-> IF e \in DOMAIN m THEN Append(sq[e], m[e]) ELSE sq[e]]

\* Endpoint::sendCommand on every endpoint of S.
SendCommand(S, c) == CtrlSend([e \in S |-> Command(c, e)])

\* fi_connect on an active endpoint: the endpoint that listens on the dialled
\* port sees a request, or, when none does, the caller sees an error on its own
\* event queue.
Request(l) ==
  IF listening[l[2]] /\ Dialled(l) # {}
  THEN /\ link' = [link EXCEPT ![l] = "requested"]
       /\ \E e \in Dialled(l) :
            eq' = [eq EXCEPT ![l[2]] = Append(@, [kind |-> "CONNREQ", ep |-> e])]
  ELSE /\ eq'   = [eq EXCEPT ![l[1]] = Append(@, [kind |-> "REFUSED", ep |-> l])]
       /\ UNCHANGED link

\* fi_cq_read on cq_rx returns the oldest completion of endpoint e.
ReadRx(e) ==
  /\ rxc[e] # <<>>
  /\ rxc' = [rxc EXCEPT ![e] = Tail(@)]

\* num completions are read from the cq_tx of node p.
ReadTx(p, num) ==
  /\ cqtx[p] >= num
  /\ cqtx' = [cqtx EXCEPT ![p] = @ - num]

\* The process p ends: its connections go down and its peers are told.
Disconnect(p) ==
  /\ link' = [l \in Link |-> IF p \in {l[1], l[2]} /\ link[l] = "up"
                             THEN "down" ELSE link[l]]
  /\ eq' = [q \in Node |->
              IF /\ <<q, p>> \in Endpoint
                 /\ link[LinkOf(<<q, p>>)] = "up"
              THEN Append(eq[q], [kind |-> "SHUTDOWN", ep |-> <<q, p>>])
              ELSE eq[q]]

-----------------------------------------------------------------------------
(* Steps of the network. *)

\* An accepted request becomes a connection: both ends get FI_CONNECTED.  The
\* connection manager tells the active end no later than the passive one.
Establish(l) ==
  /\ link[l] = "accepted"
  /\ link' = [link EXCEPT ![l] = "up"]
  /\ eq' = [eq EXCEPT ![l[1]] = Append(@, [kind |-> "CONNECTED", ep |-> l]),
                      ![l[2]] = Append(@, [kind |-> "CONNECTED", ep |-> Rev(l)])]
  /\ UNCHANGED <<listening, sq, rq, rxc, cqtx, buf>>

\* The oldest send of e fills the oldest receive of its peer; both nodes get a
\* completion.
Transmit(e) ==
  LET r == Rev(e) IN
  /\ link[LinkOf(e)] = "up"
  /\ sq[e] # <<>>
  /\ rq[r] # <<>>
  /\ sq'   = [sq EXCEPT ![e] = Tail(@)]
  /\ rq'   = [rq EXCEPT ![r] = Tail(@)]
  /\ rxc'  = [rxc EXCEPT ![r] = Append(@, [size |-> Head(rq[r]), len |-> LenOf(Head(sq[e]))])]
  /\ buf'  = [buf EXCEPT ![r] = Head(sq[e])]
  /\ cqtx' = [cqtx EXCEPT ![e[1]] = @ + 1]
  /\ UNCHANGED <<listening, link, eq>>

Network == \/ \E l \in Link : Establish(l)
           \/ \E e \in Endpoint : Transmit(e)

=============================================================================
