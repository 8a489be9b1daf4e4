------------------------------ MODULE Barrier ------------------------------
(***************************************************************************)
(* The invariant behind the start barrier of Coordination, the inductive   *)
(* strengthening of StartBarrier: what is known of receives, keys, events  *)
(* and counters until every client holds the keys of every server.         *)
(* CoordinationProofs proves it.                                           *)
(***************************************************************************)
EXTENDS Coordination, FiniteSets

\* Receives posted on e and not yet read.
Slots(e) == Len(rq[e]) + Len(rxc[e])

HoldsKey(i, s) == remoteKeys[<<i, s>>] = KeysOf(<<s, i>>)
Equipped(i)    == \A s \in PN : HoldsKey(i, s)
AllEquipped    == \A i \in EN : Equipped(i)

\* Only keys travel from a server to a client.
OnlyKeys ==
  \A i \in EN, s \in PN :
    /\ \A k \in DOMAIN sq[<<s, i>>] : sq[<<s, i>>][k] = KeysOf(<<s, i>>)
    /\ rxc[<<i, s>>] # <<>> => buf[<<i, s>>] = KeysOf(<<s, i>>)

\* A node is told about its own endpoints; those that get called are passive.
OwnEvents ==
  \A p \in Node : \A k \in DOMAIN eq[p] :
    /\ eq[p][k].ep[1] = p
    /\ eq[p][k].kind = "CONNREQ" => eq[p][k].ep \in Passive

\* Event k of the controller is about host i and of the given kind.
Told(k, i, kind) == eq[CN][k].ep = <<CN, i>> /\ eq[CN][k].kind = kind

\* The controller is told once that host i wants to connect and once that it
\* is connected.
Handshake(i) ==
  /\ pc[i] \in {"listen", "dial"} => link[Cep(i)] = "closed"
  /\ \A k \in DOMAIN eq[CN] :
       /\ Told(k, i, "CONNREQ")   => link[Cep(i)] = "requested"
       /\ Told(k, i, "CONNECTED") => link[Cep(i)] \in {"up", "down"}
  /\ \A j, k \in DOMAIN eq[CN] :
       \/ Told(j, i, "CONNREQ") /\ Told(k, i, "CONNREQ")
       \/ Told(j, i, "CONNECTED") /\ Told(k, i, "CONNECTED")
       => j = k

\* The controller has not sent its keys to host i yet.
Pending(i) ==
  \/ link[Cep(i)] \in {"closed", "requested", "accepted"}
  \/ \E k \in DOMAIN eq[CN] : Told(k, i, "CONNECTED")

\* Where client i has a receive open.
OpenTo(i) == IF pc[i] \in {"dial", "linked"} THEN {}
             ELSE IF pc[i] \in {"await_cm", "await_keys"} THEN {peer[i]} ELSE {CN}

AtMostOneOpen(i) ==
  pc[i] \in {"failed", "gone"}
  \/ \A q \in Listener : /\ Slots(<<i, q>>) <= 1
                         /\ q \notin OpenTo(i) => Slots(<<i, q>>) = 0

\* The keys client i holds by now.
KeysSoFar(i) ==
  /\ pc[i] \in {"await_cm", "await_keys"} /\ peer[i] \in PN =>
       \A s \in PN : s < peer[i] => HoldsKey(i, s)
  /\ pc[i] = "linked" /\ peer[i] \in PN => \A s \in PN : s <= peer[i] => HoldsKey(i, s)
  /\ pc[i] \in {"confirm_tx", "await_start"} => Equipped(i)

\* What client i has read from the controller, and what is on its way.
Taken(i) == IF \/ pc[i] \in {"dial", "failed", "gone"}
               \/ pc[i] \in {"await_cm", "await_keys"} /\ peer[i] = CN
            THEN 0
            ELSE IF \/ pc[i] = "await_connect"
                    \/ pc[i] = "linked" /\ peer[i] = CN
                 THEN 1 ELSE 2

Coming(i) == Len(sq[<<CN, i>>]) + Len(rxc[Cep(i)])

FewSent(i) ==
  /\ Taken(i) + Coming(i) <= 2
  /\ pc[CN] = "wait_all" => Taken(i) + Coming(i) <= 1
  /\ pc[CN] = "wait_all" /\ Pending(i) => Taken(i) + Coming(i) <= 0

\* A client that lacks a key has confirmed nothing.
NotConfirmed(i) ==
  /\ pc[CN] = "wait_all" => Slots(<<CN, i>>) = 0
  /\ Slots(<<CN, i>>) <= 1
  /\ ~Equipped(i) =>
       /\ sq[Cep(i)] = <<>> /\ rxc[<<CN, i>>] = <<>>
       /\ pc[CN] \in {"connect_tx", "connect_rx"} => Slots(<<CN, i>>) = 1

Confirmed == {i \in EN : Slots(<<CN, i>>) = 0}

\* Holds as long as some client lacks a key.
Gathering ==
  /\ pc[CN] \in {"wait_all", "connect_tx", "connect_rx", "failed", "gone"}
  /\ pc[CN] = "connect_rx" => counter[CN] <= Cardinality(Confirmed)
  /\ \A i \in EN :
       /\ pc[i] \notin {"bench", "finished"}
       /\ Handshake(i) /\ KeysSoFar(i)
       /\ FewSent(i) /\ NotConfirmed(i)

\* As long as a client lacks a key of some server, the controller has not got
\* past connectEveryNodes: of every host it has counted at most the receives
\* that were used up, every client has what it was sent so far and at most one
\* receive open, and nothing but keys travels from a server to a client.
BarrierInv ==
  /\ OnlyKeys /\ OwnEvents
  /\ \A i \in EN : AtMostOneOpen(i)
  /\ AllEquipped \/ Gathering

=============================================================================
