------------------------------ MODULE Topology ------------------------------
(***************************************************************************)
(* Who takes part in a benchmark run, and which endpoint talks to which.   *)
(*                                                                         *)
(* One controller ("central node"), num_en entry nodes (clients) and       *)
(* num_pn processing nodes (servers).  Every process numbers its endpoints *)
(* on its own and works out port numbers from node ids (Node::init,        *)
(* Main.cpp); nothing but that arithmetic ties the two ends of a           *)
(* connection together.                                                    *)
(***************************************************************************)
EXTENDS Naturals

CONSTANTS
  NumEN,           \* config->num_en
  NumPN,           \* config->num_pn
  StartPort,       \* config->start_port
  ControllerPort,  \* config->controller_port
  ServerOffset,    \* config->server_offset
  CtrlSize         \* config->ctrl_size, the bytes of one control buffer

\* conf/conf notes that the program crashes when num_en > num_pn; Transfers
\* shows why.  A transfer array has to fit the control buffer: Main.cpp only
\* warns when it does not.
ASSUME TopologyAssumption ==
  /\ NumEN \in Nat \ {0} /\ NumPN \in Nat \ {0}
  /\ NumEN <= NumPN
  /\ StartPort \in Nat /\ ControllerPort \in Nat /\ ServerOffset \in Nat
  /\ NumEN <= ServerOffset
  /\ CtrlSize \in Nat /\ 40 * NumPN <= CtrlSize

NumEP == NumEN + NumPN

\* The index of a host in the controller's eps: clients first, then servers.
EN   == 0 .. NumEN - 1
PN   == NumEN .. NumEP - 1
Host == 0 .. NumEP - 1
CN   == NumEP
Node == 0 .. NumEP

\* Nodes that own passive endpoints.
Listener == PN \cup {CN}

\* An endpoint <<p, q>> belongs to node p and leads to node q.  The active one
\* (fi_connect) of a connection is a cep or an entry of a client's eps.
Link     == (Host \X {CN}) \cup (EN \X PN)
Rev(e)   == <<e[2], e[1]>>
Passive  == {Rev(l) : l \in Link}
Endpoint == Link \cup Passive
Cep(h)   == <<h, CN>>
ClientEps == {<<CN, i>> : i \in EN}
HostEps   == {<<CN, h>> : h \in Host}
LinkOf(e) == IF e \in Link THEN e ELSE Rev(e)

-----------------------------------------------------------------------------
(* The port arithmetic of Node::init and Main.cpp. *)

\* A server listens for client i on start_port + i; the controller listens for
\* client i on controller_port + i and for server id on that plus the offset.
ListenPort(e) ==
  IF e[1] # CN THEN StartPort + e[2]
  ELSE IF e[2] \in EN THEN ControllerPort + e[2]
  ELSE ControllerPort + ServerOffset + (e[2] - NumEN)

\* A client dials start_port + id on every server of the list.
DialPort(e) ==
  IF e[2] # CN THEN StartPort + e[1]
  ELSE IF e[1] \in EN THEN e[1] + ControllerPort
  ELSE (e[1] - NumEN) + (ControllerPort + ServerOffset)

\* Where the call of the active endpoint l arrives: the passive endpoints of
\* the node it calls that listen on the dialled port.
Dialled(l) == {e \in Passive : e[1] = l[2] /\ ListenPort(e) = DialPort(l)}

=============================================================================
