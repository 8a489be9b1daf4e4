------------------------- MODULE CoordinationProofs -------------------------
(***************************************************************************)
(* Proofs about Coordination, for any number of clients, servers and       *)
(* checkpoints: who is connected to whom, the types, the start barrier.    *)
(* They include the steps of a host that crashes, so that what is proved   *)
(* of the handshake of a run without faults also serves the last parts,    *)
(* which are about Crashes: what the controller counts while its hosts     *)
(* come and go, and what it writes out.                                    *)
(***************************************************************************)
EXTENDS Crashes, Barrier, FiniteSetTheorems, SequenceTheorems, TLAPS

-----------------------------------------------------------------------------
(* The two ends of every connection find each other, for any number of      *)
(* nodes and any ports that keep num_en below server_offset.                *)

\* The endpoints of a node and the ends of a connection.
LEMMA EndpointShape ==
  /\ \A l \in Link : l = <<l[1], l[2]>> /\ Rev(l) = <<l[2], l[1]>>
  /\ \A l \in Link : \/ l[1] \in Host /\ l[2] = CN
                     \/ l[1] \in EN /\ l[2] \in PN
  /\ \A e \in Passive : Rev(e) \in Link /\ Rev(Rev(e)) = e
  BY DEF Link, Passive, Rev

\* A call of l (Endpoint::connect) arrives at the passive endpoint that its
\* node set up for the caller, and at no other: the six places of Node::init
\* and main() that compute a port agree.
THEOREM Wiring == \A l \in Link : Dialled(l) = {Rev(l)}
  <1> SUFFICES ASSUME NEW l \in Link, NEW e \in Passive, e[1] = l[2]
               PROVE  ListenPort(e) = DialPort(l) <=> e = Rev(l)
    BY EndpointShape DEF Dialled, Passive
  <1>1. PICK k \in Link : e = <<k[2], k[1]>> /\ k[2] = l[2]
    BY DEF Passive, Rev
  <1>2. Rev(l) = e <=> k[1] = l[1]
    BY <1>1, EndpointShape DEF Rev
  <1>3. CASE l[2] = CN
    <2> DEFINE Off(h) == IF h \in EN THEN h ELSE ServerOffset + (h - NumEN)
    <2>1. k[1] \in Host /\ l[1] \in Host
      BY <1>1, <1>3, EndpointShape, TopologyAssumption DEF Host, EN, PN, CN, NumEP
    <2>2. ListenPort(e) = ControllerPort + Off(k[1])
      BY <1>1, <1>3, <2>1, TopologyAssumption DEF ListenPort, Host, EN, NumEP
    <2>3. DialPort(l) = ControllerPort + Off(l[1])
      BY <1>3, <2>1, TopologyAssumption DEF DialPort, Host, EN, NumEP
    <2>4. \A g, h \in Host : Off(g) = Off(h) => g = h
      BY TopologyAssumption DEF Host, EN, NumEP
    <2>5. Off(k[1]) \in Nat /\ Off(l[1]) \in Nat
      BY <2>1, TopologyAssumption DEF Host, EN, NumEP
    <2> QED
      BY <1>2, <2>1, <2>2, <2>3, <2>4, <2>5, TopologyAssumption
  <1>4. CASE l[2] # CN
    BY <1>1, <1>2, <1>4, EndpointShape, TopologyAssumption
       DEF ListenPort, DialPort, Host, EN, PN, CN, NumEP
  <1> QED
    BY <1>3, <1>4

-----------------------------------------------------------------------------
(* Nodes, endpoints and sizes. *)

LEMMA NodeFacts ==
  /\ EN \subseteq Host /\ PN \subseteq Host /\ Host \subseteq Node
  /\ EN \cap PN = {} /\ Host = EN \cup PN
  /\ CN \in Node /\ CN \notin Host /\ Node = Host \cup {CN}
  /\ Listener = PN \cup {CN} /\ Listener \subseteq Node
  /\ NumEN \in PN /\ EN \subseteq Nat /\ PN \subseteq Nat /\ CN \in Nat
  BY TopologyAssumption DEF EN, PN, Host, CN, Node, NumEP, Listener

LEMMA ControlEnds ==
  \A h \in Host : /\ <<h, CN>> \in Link /\ <<CN, h>> \in Passive
                  /\ Rev(<<h, CN>>) = <<CN, h>> /\ Rev(<<CN, h>>) = <<h, CN>>
                  /\ Cep(h) = <<h, CN>>
  BY DEF Link, Passive, Rev, Cep

LEMMA DataEnds ==
  \A i \in EN, s \in PN : /\ <<i, s>> \in Link /\ <<s, i>> \in Passive
                          /\ Rev(<<i, s>>) = <<s, i>> /\ Rev(<<s, i>>) = <<i, s>>
  BY DEF Link, Passive, Rev

LEMMA LinkShape ==
  ASSUME NEW e \in Link
  PROVE  /\ e = <<e[1], e[2]>> /\ e[1] \in Host /\ e[2] \in Listener
         /\ (e[1] \in Host /\ e[2] = CN) \/ (e[1] \in EN /\ e[2] \in PN)
         /\ Rev(e) = <<e[2], e[1]>> /\ Rev(e) \in Passive
         /\ LinkOf(e) = e
  BY NodeFacts DEF Link, Rev, LinkOf, Passive

LEMMA LinkIsNotPassive == Link \cap Passive = {}
  <1> SUFFICES ASSUME NEW k \in Link, NEW l \in Link, k = <<l[2], l[1]>>
               PROVE FALSE
    BY DEF Passive, Rev
  <1> QED
    BY LinkShape, NodeFacts

LEMMA PassiveShape ==
  ASSUME NEW e \in Passive
  PROVE  /\ e = <<e[1], e[2]>> /\ e[1] \in Listener /\ e[2] \in Host
         /\ (e[1] = CN /\ e[2] \in Host) \/ (e[1] \in PN /\ e[2] \in EN)
         /\ Rev(e) = <<e[2], e[1]>> /\ Rev(e) \in Link
         /\ LinkOf(e) = Rev(e)
  <1>1. PICK l \in Link : e = <<l[2], l[1]>>
    BY DEF Passive, Rev
  <1> QED
    BY <1>1, LinkShape, LinkIsNotPassive DEF Rev, LinkOf

LEMMA EndpointFacts ==
  /\ Link \subseteq Endpoint /\ Passive \subseteq Endpoint
  /\ ClientEps \subseteq HostEps /\ HostEps \subseteq Passive
  /\ \A h \in Host : Cep(h) \in Endpoint /\ <<CN, h>> \in Endpoint
  /\ \A e \in Endpoint : e[1] \in Node /\ e[2] \in Node /\ Rev(e) \in Endpoint
  <1>1. Link \subseteq Endpoint /\ Passive \subseteq Endpoint
    BY DEF Endpoint
  <1>2. ClientEps \subseteq HostEps /\ HostEps \subseteq Passive
    <2>1. ClientEps \subseteq HostEps
      BY NodeFacts DEF ClientEps, HostEps
    <2>2. HostEps \subseteq Passive
      BY ControlEnds DEF HostEps
    <2> QED
      BY <2>1, <2>2
  <1>3. \A h \in Host : Cep(h) \in Endpoint /\ <<CN, h>> \in Endpoint
    BY <1>1, ControlEnds
  <1>4. \A e \in Endpoint : e[1] \in Node /\ e[2] \in Node /\ Rev(e) \in Endpoint
    BY LinkShape, PassiveShape, NodeFacts DEF Endpoint
  <1> QED
    BY <1>1, <1>2, <1>3, <1>4

LEMMA SizeFacts ==
  /\ IntSize \in RecvSizes /\ KeysSize \in RecvSizes
  /\ TransferSize \in RecvSizes /\ CtrlSize \in RecvSizes
  /\ RecvSizes \subseteq Nat
  /\ \A m \in Msg : LenOf(m) \in {IntSize, KeysSize, TransferSize}
  BY TopologyAssumption DEF RecvSizes, IntSize, KeysSize, TransferSize, LenOf

LEMMA MsgFacts ==
  /\ \A e \in Endpoint : KeysOf(e) \in Msg /\ Garbage(e) \in Msg
  /\ \A c \in Commands, e \in Endpoint : Command(c, e) \in Msg
  /\ \A i \in EN, n \in Nat : Delta(i, n) \in Msg /\ Total(i, n) \in Msg
  <1>1. \A i \in EN : Cep(i) \in Endpoint
    <2> SUFFICES ASSUME NEW i \in EN PROVE Cep(i) \in Endpoint
      OBVIOUS
    <2>1. i \in Host
      BY NodeFacts
    <2> QED
      BY <2>1, EndpointFacts
  <1>2. Commands \subseteq Kinds /\ {"NONE", "KEYS", "DELTA", "TOTAL"} \subseteq Kinds
    BY DEF Kinds, Commands
  <1> QED
    BY <1>1, <1>2 DEF Msg, KeysOf, Garbage, Command, Delta, Total

\* Queues: reading takes the first element, posting adds one at the end.
LEMMA TailFacts ==
  ASSUME NEW T, NEW s \in Seq(T), s # <<>>
  PROVE  /\ Head(s) \in T /\ Tail(s) \in Seq(T) /\ Len(Tail(s)) = Len(s) - 1
         /\ Len(s) \in Nat \ {0} /\ Head(s) = s[1]
         /\ \A k \in DOMAIN Tail(s) : k + 1 \in DOMAIN s /\ Tail(s)[k] = s[k + 1]
  OBVIOUS

LEMMA AppendFacts ==
  ASSUME NEW T, NEW s \in Seq(T), NEW v \in T
  PROVE  /\ Append(s, v) \in Seq(T) /\ Len(Append(s, v)) = Len(s) + 1
         /\ Len(s) \in Nat
         /\ \A k \in DOMAIN Append(s, v) :
              (k \in DOMAIN s /\ Append(s, v)[k] = s[k]) \/ (k = Len(s) + 1 /\ Append(s, v)[k] = v)
         /\ \A k \in DOMAIN s : k \in DOMAIN Append(s, v) /\ Append(s, v)[k] = s[k] /\ k # Len(s) + 1
  OBVIOUS

-----------------------------------------------------------------------------
(* What the operations of the fabric do to types. *)

LEMMA RecvTypes ==
  ASSUME FabricTypeOK, NEW E, NEW size \in RecvSizes, CtrlRecv(E, size)
  PROVE  rq' \in [Endpoint -> Seq(RecvSizes)]
  BY DEF FabricTypeOK, CtrlRecv

LEMMA SendTypes ==
  ASSUME FabricTypeOK, NEW m, \A e \in DOMAIN m : m[e] \in Msg, CtrlSend(m)
  PROVE  sq' \in [Endpoint -> Seq(Msg)] /\ buf' \in [Endpoint -> Msg]
  BY DEF FabricTypeOK, CtrlSend

LEMMA CommandTypes ==
  ASSUME FabricTypeOK, NEW E \in SUBSET Endpoint, NEW c \in Commands, SendCommand(E, c)
  PROVE  sq' \in [Endpoint -> Seq(Msg)] /\ buf' \in [Endpoint -> Msg]
  <1> DEFINE m == [e \in E |-> Command(c, e)]
  <1>1. \A e \in DOMAIN m : m[e] \in Msg
    BY MsgFacts
  <1>2. CtrlSend(m)
    BY DEF SendCommand
  <1> QED
    BY <1>1, <1>2, SendTypes

LEMMA RequestTypes ==
  ASSUME FabricTypeOK, NEW l \in Link, Request(l)
  PROVE  link' \in [Link -> LinkStates] /\ eq' \in [Node -> Seq(Events)]
  <1>1. \A e \in Dialled(l) : [kind |-> "CONNREQ", ep |-> e] \in Events
    BY EndpointFacts DEF Events, Dialled
  <1>2. [kind |-> "REFUSED", ep |-> l] \in Events
    BY EndpointFacts DEF Events
  <1>3. l[1] \in Node /\ l[2] \in Node
    BY EndpointFacts
  <1>4. CASE listening[l[2]] /\ Dialled(l) # {}
    <2>1. link' = [link EXCEPT ![l] = "requested"]
      BY <1>4 DEF Request
    <2>2. PICK e \in Dialled(l) :
            eq' = [eq EXCEPT ![l[2]] = Append(@, [kind |-> "CONNREQ", ep |-> e])]
      BY <1>4 DEF Request
    <2>3. link' \in [Link -> LinkStates]
      BY <2>1 DEF FabricTypeOK, LinkStates
    <2>4. Append(eq[l[2]], [kind |-> "CONNREQ", ep |-> e]) \in Seq(Events)
      BY <1>1, <1>3, AppendFacts DEF FabricTypeOK
    <2> QED
      BY <1>3, <2>2, <2>3, <2>4 DEF FabricTypeOK
  <1>5. CASE ~(listening[l[2]] /\ Dialled(l) # {})
    <2>1. eq' = [eq EXCEPT ![l[1]] = Append(@, [kind |-> "REFUSED", ep |-> l])]
          /\ link' = link
      BY <1>5 DEF Request
    <2>2. Append(eq[l[1]], [kind |-> "REFUSED", ep |-> l]) \in Seq(Events)
      BY <1>2, <1>3, AppendFacts DEF FabricTypeOK
    <2> QED
      BY <1>3, <2>1, <2>2 DEF FabricTypeOK
  <1> QED
    BY <1>4, <1>5

LEMMA ReadRxTypes ==
  ASSUME FabricTypeOK, NEW e \in Endpoint, ReadRx(e)
  PROVE  rxc' \in [Endpoint -> Seq(Completions)] /\ Head(rxc[e]) \in Completions
  BY TailFacts DEF FabricTypeOK, ReadRx

LEMMA ReadTxTypes ==
  ASSUME FabricTypeOK, NEW p \in Node, NEW num \in Nat, ReadTx(p, num)
  PROVE  cqtx' \in [Node -> Nat]
  BY DEF FabricTypeOK, ReadTx

LEMMA DisconnectTypes ==
  ASSUME FabricTypeOK, NEW p \in Node, Disconnect(p)
  PROVE  link' \in [Link -> LinkStates] /\ eq' \in [Node -> Seq(Events)]
  <1>1. link' \in [Link -> LinkStates]
    BY DEF FabricTypeOK, Disconnect, LinkStates
  <1>2. \A q \in Node : <<q, p>> \in Endpoint => [kind |-> "SHUTDOWN", ep |-> <<q, p>>] \in Events
    BY DEF Events
  <1>3. eq' \in [Node -> Seq(Events)]
    BY <1>2 DEF FabricTypeOK, Disconnect
  <1> QED
    BY <1>1, <1>3

LEMMA PopTypes ==
  ASSUME FabricTypeOK, NEW p \in Node, eq[p] # <<>>
  PROVE  /\ [eq EXCEPT ![p] = Tail(@)] \in [Node -> Seq(Events)]
         /\ Head(eq[p]) \in Events
  BY TailFacts DEF FabricTypeOK

LEMMA HandleEventTypes ==
  ASSUME FabricTypeOK, NEW q \in Node, eq[q] # <<>>, HandleEvent(q, Head(eq[q]))
  PROVE  /\ link' \in [Link -> LinkStates] /\ eq' \in [Node -> Seq(Events)]
         /\ sq' \in [Endpoint -> Seq(Msg)] /\ buf' \in [Endpoint -> Msg]
  <1> DEFINE v == Head(eq[q])
  <1>1. v \in Events /\ eq' \in [Node -> Seq(Events)]
    BY PopTypes DEF HandleEvent
  <1>2. link' \in [Link -> LinkStates]
    BY DEF HandleEvent, FabricTypeOK, LinkStates
  <1>3. CASE v.kind = "CONNECTED" /\ v.ep \in Passive
    <2> DEFINE m == [e \in {v.ep} |-> KeysOf(e)]
    <2>1. \A e \in DOMAIN m : m[e] \in Msg
      BY <1>3, EndpointFacts, MsgFacts
    <2>2. CtrlSend(m)
      BY <1>3 DEF HandleEvent
    <2> QED
      BY <1>1, <1>2, <2>1, <2>2, SendTypes
  <1>4. CASE ~(v.kind = "CONNECTED" /\ v.ep \in Passive)
    BY <1>1, <1>2, <1>4 DEF HandleEvent, FabricTypeOK
  <1> QED
    BY <1>3, <1>4

-----------------------------------------------------------------------------
(* Type correctness. *)

LEMMA GotoTypes ==
  ASSUME PcTypeOK, NEW p \in Node, NEW place,
         p \in EN => place \in ClientPC,
         p \in PN => place \in ServerPC,
         p = CN => place \in ControllerPC,
         Goto(p, place)
  PROVE  PcTypeOK'
  <1>1. place \in ClientPC \cup ServerPC \cup ControllerPC
    BY NodeFacts
  <1> QED
    BY <1>1, NodeFacts DEF PcTypeOK, Goto

LEMMA DialTypes ==
  ASSUME TypeOK, NEW h \in Host, NEW q, <<h, q>> \in Link, Dial(h, q)
  PROVE  /\ rq' \in [Endpoint -> Seq(RecvSizes)]
         /\ link' \in [Link -> LinkStates] /\ eq' \in [Node -> Seq(Events)]
         /\ peer' \in [Host -> PN \cup {CN}] /\ \A s \in PN : peer'[s] = CN
         /\ PcTypeOK'
  <1>1. CtrlRecv({<<h, q>>}, KeysSize) /\ Request(<<h, q>>)
        /\ peer' = [peer EXCEPT ![h] = q] /\ Goto(h, "await_cm")
    BY DEF Dial
  <1>2. rq' \in [Endpoint -> Seq(RecvSizes)]
    BY <1>1, RecvTypes, SizeFacts DEF TypeOK
  <1>3. link' \in [Link -> LinkStates] /\ eq' \in [Node -> Seq(Events)]
    BY <1>1, RequestTypes DEF TypeOK
  <1>4. q \in PN \cup {CN} /\ (h \in PN => q = CN)
    BY NodeFacts, LinkShape
  <1>5. peer' \in [Host -> PN \cup {CN}] /\ \A s \in PN : peer'[s] = CN
    BY <1>1, <1>4, NodeFacts DEF TypeOK
  <1>6. PcTypeOK'
    BY <1>1, GotoTypes, NodeFacts DEF TypeOK, ClientPC, ServerPC
  <1> QED
    BY <1>2, <1>3, <1>5, <1>6

LEMMA InitTypes == Init => TypeOK
  <1> SUFFICES ASSUME Init PROVE TypeOK
    OBVIOUS
  <1>1. FabricTypeOK
    <2>1. listening \in [Listener -> BOOLEAN]
      BY Zenon DEF Init, FabricInit
    <2>2. link \in [Link -> LinkStates] /\ cqtx \in [Node -> Nat]
      BY DEF Init, FabricInit, LinkStates
    <2>3. /\ eq \in [Node -> Seq(Events)] /\ sq \in [Endpoint -> Seq(Msg)]
          /\ rq \in [Endpoint -> Seq(RecvSizes)]
          /\ rxc \in [Endpoint -> Seq(Completions)]
      BY DEF Init, FabricInit
    <2>4. buf \in [Endpoint -> Msg]
      BY MsgFacts DEF Init, FabricInit
    <2> QED
      BY <2>1, <2>2, <2>3, <2>4 DEF FabricTypeOK
  <1>2. PcTypeOK
    BY NodeFacts DEF Init, PcTypeOK, ClientPC, ServerPC, ControllerPC
  <1>3. peer \in [Host -> PN \cup {CN}] /\ \A s \in PN : peer[s] = CN
    BY NodeFacts DEF Init
  <1>4. remoteKeys \in [Link -> Msg]
    BY MsgFacts, EndpointFacts DEF Init
  <1>5. checkpoint \in [EN -> Msg] /\ summary \in [EN -> Msg]
    BY MsgFacts, EndpointFacts, NodeFacts DEF Init
  <1>6. counter \in [Listener -> Int] /\ snap \in [EN -> Nat] /\ rounds \in 0 .. MaxRounds
    BY RoundsAssumption DEF Init
  <1> QED
    BY <1>1, <1>2, <1>3, <1>4, <1>5, <1>6 DEF TypeOK

\* Steps that every host takes.
LEMMA HostTypes ==
  ASSUME TypeOK, NEW h \in Host,
         HostDial(h) \/ ConnectEvent(h) \/ ConnectKeys(h)
  PROVE  TypeOK'
  <1>0. h \in Node /\ <<h, CN>> \in Link
    BY NodeFacts, ControlEnds
  <1>1. CASE HostDial(h)
    <2>1. Dial(h, CN) /\ UNCHANGED <<listening, sq, rxc, cqtx, buf, remoteKeys,
            counter, snap, rounds, checkpoint, summary>>
      BY <1>1 DEF HostDial
    <2> QED
      BY <1>0, <2>1, DialTypes DEF TypeOK, FabricTypeOK
  <1>2. CASE ConnectEvent(h)
    <2>1. eq' \in [Node -> Seq(Events)]
      BY <1>0, <1>2, PopTypes DEF ConnectEvent, TypeOK
    <2>2. PcTypeOK'
      BY <1>0, <1>2, GotoTypes, NodeFacts DEF ConnectEvent, TypeOK, ClientPC, ServerPC
    <2> QED
      BY <1>2, <2>1, <2>2 DEF ConnectEvent, TypeOK, FabricTypeOK
  <1>3. CASE ConnectKeys(h)
    <2>1. PICK e \in Endpoint :
            /\ e[1] = h /\ ReadRx(e)
            /\ IF Head(rxc[e]).size = Head(rxc[e]).len
               THEN /\ remoteKeys' = [remoteKeys EXCEPT ![<<h, peer[h]>>] = buf[<<h, peer[h]>>]]
                    /\ Goto(h, IF h \in PN THEN "wait_all" ELSE "linked")
               ELSE /\ Goto(h, "failed") /\ UNCHANGED remoteKeys
      BY <1>3 DEF ConnectKeys
    <2>2. UNCHANGED <<listening, link, eq, sq, rq, cqtx, buf, peer, counter, snap,
                      rounds, checkpoint, summary>>
      BY <1>3 DEF ConnectKeys
    <2>3. rxc' \in [Endpoint -> Seq(Completions)]
      BY <2>1, ReadRxTypes DEF TypeOK
    <2>4. <<h, peer[h]>> \in Endpoint
      <3>1. CASE h \in EN
        <4>1. peer[h] \in PN \/ peer[h] = CN
          BY DEF TypeOK
        <4> QED
          BY <3>1, <4>1, <1>0, DataEnds, EndpointFacts
      <3>2. CASE h \in PN
        <4>1. peer[h] = CN
          BY <3>2 DEF TypeOK
        <4> QED
          BY <4>1, <1>0, EndpointFacts
      <3> QED
        BY <3>1, <3>2, NodeFacts
    <2>5. remoteKeys' \in [Link -> Msg]
      BY <2>1, <2>4 DEF TypeOK, FabricTypeOK
    <2>6. PcTypeOK'
      BY <1>0, <2>1, GotoTypes, NodeFacts DEF TypeOK, ClientPC, ServerPC
    <2> QED
      BY <2>2, <2>3, <2>5, <2>6 DEF TypeOK, FabricTypeOK
  <1> QED
    BY <1>1, <1>2, <1>3

LEMMA ExitTypes ==
  ASSUME TypeOK, NEW p \in Node, Exit(p)
  PROVE  TypeOK'
  <1>1. link' \in [Link -> LinkStates] /\ eq' \in [Node -> Seq(Events)]
    BY DisconnectTypes DEF Exit, TypeOK
  <1>2. PcTypeOK'
    BY GotoTypes, NodeFacts DEF Exit, TypeOK, ClientPC, ServerPC, ControllerPC
  <1> QED
    BY <1>1, <1>2 DEF Exit, TypeOK, FabricTypeOK

LEMMA ConnTypes ==
  ASSUME TypeOK, NEW q \in Listener, WaitAllConn(q)
  PROVE  TypeOK'
  <1>1. q \in Node
    BY NodeFacts
  <1>2. /\ link' \in [Link -> LinkStates] /\ eq' \in [Node -> Seq(Events)]
        /\ sq' \in [Endpoint -> Seq(Msg)] /\ buf' \in [Endpoint -> Msg]
    BY <1>1, HandleEventTypes DEF WaitAllConn, TypeOK
  <1>3. counter' \in [Listener -> Int]
    BY DEF WaitAllConn, Count, TypeOK
  <1>4. PcTypeOK'
    <2>1. pc[q] = "wait_all" /\ \E place \in {"failed", "wait_all"} : Goto(q, place)
      BY DEF WaitAllConn
    <2> QED
      BY <1>1, <2>1, GotoTypes, NodeFacts DEF TypeOK, ServerPC, ControllerPC
  <1> QED
    BY <1>2, <1>3, <1>4 DEF WaitAllConn, TypeOK, FabricTypeOK

LEMMA ServerTypes ==
  ASSUME TypeOK, NEW s \in PN,
         ServerListen(s) \/ ServerReady(s) \/ ServeCommand(s) \/ ServeEvent(s)
  PROVE  TypeOK'
  <1>0. s \in Node /\ s \in Listener /\ s \in Host /\ s \notin EN /\ s # CN
        /\ Cep(s) \in Endpoint
    BY NodeFacts, EndpointFacts
  <1>1. CASE ServerListen(s)
    <2>1. listening' \in [Listener -> BOOLEAN]
      <3>1. listening' = [listening EXCEPT ![s] = TRUE]
        BY <1>1 DEF ServerListen
      <3>2. listening \in [Listener -> BOOLEAN]
        BY DEF TypeOK, FabricTypeOK
      <3> QED
        BY <3>1, <3>2, Zenon
    <2>2. PcTypeOK'
      BY <1>0, <1>1, GotoTypes DEF ServerListen, TypeOK, ServerPC
    <2> QED
      BY <1>1, <2>1, <2>2 DEF ServerListen, TypeOK, FabricTypeOK
  <1>2. CASE ServerReady(s)
    <2>1. rq' \in [Endpoint -> Seq(RecvSizes)]
      BY <1>2, RecvTypes, SizeFacts DEF ServerReady, TypeOK
    <2>2. PcTypeOK'
      BY <1>0, <1>2, GotoTypes DEF ServerReady, TypeOK, ServerPC
    <2> QED
      BY <1>2, <2>1, <2>2 DEF ServerReady, TypeOK, FabricTypeOK
  <1>3. CASE ServeCommand(s)
    <2>1. PICK e \in Endpoint :
            /\ ReadRx(e)
            /\ Goto(s, IF Head(rxc[e]).len # IntSize THEN "failed"
                       ELSE IF buf[Cep(s)].kind = "STOP" THEN "finished" ELSE "serve")
      BY <1>3 DEF ServeCommand
    <2>2. rxc' \in [Endpoint -> Seq(Completions)]
      BY <2>1, ReadRxTypes DEF TypeOK
    <2>3. PcTypeOK'
      BY <1>0, <2>1, GotoTypes DEF TypeOK, ServerPC
    <2> QED
      BY <1>3, <2>2, <2>3 DEF ServeCommand, TypeOK, FabricTypeOK
  <1>4. CASE ServeEvent(s)
    <2>1. /\ link' \in [Link -> LinkStates] /\ eq' \in [Node -> Seq(Events)]
          /\ sq' \in [Endpoint -> Seq(Msg)] /\ buf' \in [Endpoint -> Msg]
      BY <1>0, <1>4, HandleEventTypes DEF ServeEvent, TypeOK
    <2>2. PcTypeOK'
      BY <1>0, <1>4, GotoTypes DEF ServeEvent, TypeOK, ServerPC
    <2> QED
      BY <1>4, <2>1, <2>2 DEF ServeEvent, TypeOK, FabricTypeOK
  <1> QED
    BY <1>1, <1>2, <1>3, <1>4

LEMMA ClientTypes ==
  ASSUME TypeOK, NEW i \in EN,
         \/ AwaitConnect(i) \/ RecvConnect(i) \/ DialNext(i) \/ Confirm(i)
         \/ ConfirmSent(i) \/ RecvStart(i) \/ BenchCommand(i)
  PROVE  TypeOK'
  <1>0. i \in Node /\ i \in Host /\ i \notin PN /\ i # CN
        /\ Cep(i) \in Endpoint /\ {Cep(i)} \in SUBSET Endpoint
    BY NodeFacts, EndpointFacts
  <1>1. CASE AwaitConnect(i)
    <2>1. rq' \in [Endpoint -> Seq(RecvSizes)]
      BY <1>1, RecvTypes, SizeFacts DEF AwaitConnect, TypeOK
    <2>2. PcTypeOK'
      BY <1>0, <1>1, GotoTypes DEF AwaitConnect, TypeOK, ClientPC
    <2> QED
      BY <1>1, <2>1, <2>2 DEF AwaitConnect, TypeOK, FabricTypeOK
  <1>2. CASE RecvConnect(i)
    <2>1. PICK e \in Endpoint :
            /\ ReadRx(e)
            /\ IF Head(rxc[e]).len = IntSize /\ buf[Cep(i)].kind # "CONNECT"
               THEN Goto(i, "failed") /\ UNCHANGED <<link, eq, rq, peer>>
               ELSE Dial(i, NumEN)
      BY <1>2 DEF RecvConnect
    <2>2. UNCHANGED <<listening, sq, cqtx, buf, remoteKeys, counter, snap, rounds,
                      checkpoint, summary>>
      BY <1>2 DEF RecvConnect
    <2>3. rxc' \in [Endpoint -> Seq(Completions)]
      BY <2>1, ReadRxTypes DEF TypeOK
    <2>4. CASE Goto(i, "failed") /\ UNCHANGED <<link, eq, rq, peer>>
      <3>1. PcTypeOK'
        BY <1>0, <2>4, GotoTypes DEF TypeOK, ClientPC
      <3> QED
        BY <2>2, <2>3, <2>4, <3>1 DEF TypeOK, FabricTypeOK
    <2>5. CASE Dial(i, NumEN)
      <3>1. <<i, NumEN>> \in Link
        BY DataEnds, NodeFacts
      <3> QED
        BY <1>0, <2>2, <2>3, <2>5, <3>1, DialTypes DEF TypeOK, FabricTypeOK
    <2> QED
      BY <2>1, <2>4, <2>5
  <1>3. CASE DialNext(i)
    <2>1. Dial(i, peer[i] + 1) /\ <<i, peer[i] + 1>> \in Link
      BY <1>3, DataEnds DEF DialNext
    <2>2. UNCHANGED <<listening, sq, rxc, cqtx, buf, remoteKeys, counter, snap,
                      rounds, checkpoint, summary>>
      BY <1>3 DEF DialNext
    <2> QED
      BY <1>0, <2>1, <2>2, DialTypes DEF TypeOK, FabricTypeOK
  <1>4. CASE Confirm(i)
    <2>1. rq' \in [Endpoint -> Seq(RecvSizes)]
      BY <1>4, RecvTypes, SizeFacts DEF Confirm, TypeOK
    <2>2. sq' \in [Endpoint -> Seq(Msg)] /\ buf' \in [Endpoint -> Msg]
      BY <1>0, <1>4, CommandTypes DEF Confirm, TypeOK, Commands
    <2>3. PcTypeOK'
      BY <1>0, <1>4, GotoTypes DEF Confirm, TypeOK, ClientPC
    <2> QED
      BY <1>4, <2>1, <2>2, <2>3 DEF Confirm, TypeOK, FabricTypeOK
  <1>5. CASE ConfirmSent(i)
    <2>1. cqtx' \in [Node -> Nat]
      BY <1>0, <1>5, ReadTxTypes DEF ConfirmSent, TypeOK
    <2>2. PcTypeOK'
      BY <1>0, <1>5, GotoTypes DEF ConfirmSent, TypeOK, ClientPC
    <2> QED
      BY <1>5, <2>1, <2>2 DEF ConfirmSent, TypeOK, FabricTypeOK
  <1>6. CASE RecvStart(i)
    <2>1. PICK e \in Endpoint :
            /\ ReadRx(e)
            /\ IF Head(rxc[e]).len = IntSize /\ buf[Cep(i)].kind # "START"
               THEN Goto(i, "failed") /\ UNCHANGED rq
               ELSE Goto(i, "bench") /\ CtrlRecv({Cep(i)}, CtrlSize)
      BY <1>6 DEF RecvStart
    <2>2. rxc' \in [Endpoint -> Seq(Completions)]
      BY <2>1, ReadRxTypes DEF TypeOK
    <2>3. rq' \in [Endpoint -> Seq(RecvSizes)]
      BY <2>1, RecvTypes, SizeFacts DEF TypeOK, FabricTypeOK
    <2>4. PcTypeOK'
      BY <1>0, <2>1, GotoTypes DEF TypeOK, ClientPC
    <2> QED
      BY <1>6, <2>2, <2>3, <2>4 DEF RecvStart, TypeOK, FabricTypeOK
  <1>7. CASE BenchCommand(i)
    <2> DEFINE c == buf[Cep(i)].kind
               n == IF c = "CHECKPOINT" THEN snap[i] + 1 ELSE snap[i]
               m == [a \in {Cep(i)} |-> IF c = "STOP" THEN Total(i, n) ELSE Delta(i, n)]
    <2>1. PICK e \in Endpoint :
            /\ ReadRx(e)
            /\ IF Head(rxc[e]).len # IntSize
               THEN Goto(i, "failed") /\ UNCHANGED <<sq, rq, buf, snap>>
               ELSE /\ snap' = [snap EXCEPT ![i] = n]
                    /\ CtrlRecv(IF c = "CHECKPOINT" THEN {Cep(i)} ELSE {}, IntSize)
                    /\ CtrlSend(m)
                    /\ Goto(i, IF c = "STOP" THEN "finished" ELSE "bench")
      BY <1>7 DEF BenchCommand
    <2>2. UNCHANGED <<listening, link, eq, cqtx, peer, remoteKeys, counter, rounds,
                      checkpoint, summary>>
      BY <1>7 DEF BenchCommand
    <2>3. rxc' \in [Endpoint -> Seq(Completions)]
      BY <2>1, ReadRxTypes DEF TypeOK
    <2>4. PcTypeOK'
      BY <1>0, <2>1, GotoTypes DEF TypeOK, ClientPC
    <2>5. CASE UNCHANGED <<sq, rq, buf, snap>>
      BY <2>2, <2>3, <2>4, <2>5 DEF TypeOK, FabricTypeOK
    <2>6. CASE /\ snap' = [snap EXCEPT ![i] = n]
               /\ CtrlRecv(IF c = "CHECKPOINT" THEN {Cep(i)} ELSE {}, IntSize)
               /\ CtrlSend(m)
      <3>1. n \in Nat
        BY DEF TypeOK
      <3>2. snap' \in [EN -> Nat]
        BY <2>6, <3>1 DEF TypeOK
      <3>3. \A a \in DOMAIN m : m[a] \in Msg
        BY <3>1, MsgFacts
      <3>4. sq' \in [Endpoint -> Seq(Msg)] /\ buf' \in [Endpoint -> Msg]
        BY <2>6, <3>3, SendTypes DEF TypeOK
      <3>5. rq' \in [Endpoint -> Seq(RecvSizes)]
        BY <2>6, RecvTypes, SizeFacts DEF TypeOK
      <3> QED
        BY <2>2, <2>3, <2>4, <3>2, <3>4, <3>5 DEF TypeOK, FabricTypeOK
    <2> QED
      BY <2>1, <2>5, <2>6
  <1> QED
    BY <1>1, <1>2, <1>3, <1>4, <1>5, <1>6, <1>7

\* A counter that is reset stays a counter.
LEMMA ResetTypes ==
  ASSUME TypeOK, NEW q, Count(q, 0)
  PROVE  counter' \in [Listener -> Int]
  <1>1. 0 \in Int
    OBVIOUS
  <1>2. counter' = [counter EXCEPT ![q] = 0] /\ counter \in [Listener -> Int]
    BY DEF Count, TypeOK
  <1> QED
    BY <1>1, <1>2, Zenon

\* While a checkpoint is being collected the run has one to go: what keeps
\* rounds in its range.
RoundOpen == pc[CN] \in {"checkpoint_tx", "checkpoint_rx"} => rounds < MaxRounds

LEMMA CommandsSentTypes ==
  ASSUME TypeOK, NEW from, NEW num \in Nat, NEW to \in ControllerPC,
         CommandsSent(from, num, to)
  PROVE  TypeOK'
  <1>1. CN \in Node /\ CN \in Listener
    BY NodeFacts
  <1>2. cqtx' \in [Node -> Nat]
    BY <1>1, ReadTxTypes DEF CommandsSent, TypeOK
  <1>3. counter' \in [Listener -> Int]
    BY ResetTypes DEF CommandsSent
  <1>4. PcTypeOK'
    BY <1>1, GotoTypes, NodeFacts DEF CommandsSent, TypeOK
  <1> QED
    BY <1>2, <1>3, <1>4 DEF CommandsSent, ControllerUnchanged, TypeOK, FabricTypeOK

\* The steps that post receives and commands.
LEMMA ControllerPostTypes ==
  ASSUME TypeOK,
         ControllerConnect \/ ControllerStart \/ ControllerCheckpoint \/ ControllerStop
  PROVE  TypeOK'
  <1>0. /\ CN \in Node /\ CN \notin EN /\ CN \notin PN
        /\ ClientEps \in SUBSET Endpoint /\ HostEps \in SUBSET Endpoint
    BY NodeFacts, EndpointFacts
  <1>1. rq' \in [Endpoint -> Seq(RecvSizes)]
    BY RecvTypes, SizeFacts
       DEF ControllerConnect, ControllerStart, ControllerCheckpoint, ControllerStop,
           TypeOK, FabricTypeOK
  <1>2. sq' \in [Endpoint -> Seq(Msg)] /\ buf' \in [Endpoint -> Msg]
    <2>1. \/ \E c \in Commands : SendCommand(ClientEps, c)
          \/ SendCommand(HostEps, "STOP")
      BY DEF ControllerConnect, ControllerStart, ControllerCheckpoint,
             ControllerStop, Commands
    <2> QED
      BY <1>0, <2>1, CommandTypes DEF TypeOK, Commands
  <1>3. PcTypeOK'
    <2>1. \E place \in {"connect_tx", "start_tx", "checkpoint_tx", "stop_tx"} :
            Goto(CN, place)
      BY DEF ControllerConnect, ControllerStart, ControllerCheckpoint, ControllerStop
    <2> QED
      BY <1>0, <2>1, GotoTypes DEF TypeOK, ControllerPC
  <1>4. UNCHANGED <<ControllerUnchanged, eq, rxc, cqtx, counter, rounds, checkpoint,
                    summary>>
    BY DEF ControllerConnect, ControllerStart, ControllerCheckpoint, ControllerStop
  <1> QED
    BY <1>1, <1>2, <1>3, <1>4 DEF ControllerUnchanged, TypeOK, FabricTypeOK

LEMMA RowTypes ==
  ASSUME FabricTypeOK, NEW rows \in [EN -> Msg], NEW e \in ClientEps
  PROVE  Row(rows, e) \in [EN -> Msg]
  BY EndpointFacts DEF FabricTypeOK, Row, ClientEps

\* The steps that collect from the clients.
LEMMA ControllerCollectTypes ==
  ASSUME TypeOK, CollectConfirm \/ CollectCheckpoint \/ CollectSummary
  PROVE  TypeOK'
  <1>0. CN \in Node /\ CN \notin EN /\ CN \notin PN /\ CN \in Listener
        /\ ClientEps \subseteq Endpoint
    BY NodeFacts, EndpointFacts
  <1>1. CASE CollectConfirm
    <2>1. PICK e \in ClientEps :
            /\ ReadRx(e)
            /\ IF Head(rxc[e]).len # IntSize
               THEN Goto(CN, "failed") /\ UNCHANGED counter
               ELSE /\ Count(CN, IF buf[e].kind = "CONNECTED" THEN counter[CN] + 1
                                 ELSE counter[CN])
                    /\ UNCHANGED pc
      BY <1>1 DEF CollectConfirm
    <2>2. rxc' \in [Endpoint -> Seq(Completions)]
      BY <1>0, <2>1, ReadRxTypes DEF TypeOK
    <2>3. counter' \in [Listener -> Int]
      BY <1>0, <2>1 DEF TypeOK, Count
    <2>4. PcTypeOK'
      <3>1. CASE Goto(CN, "failed")
        BY <1>0, <3>1, GotoTypes DEF TypeOK, ControllerPC
      <3>2. CASE UNCHANGED pc
        BY <3>2 DEF TypeOK, PcTypeOK
      <3> QED
        BY <2>1, <3>1, <3>2
    <2> QED
      BY <1>1, <2>2, <2>3, <2>4 DEF CollectConfirm, ControllerUnchanged, TypeOK, FabricTypeOK
  <1>2. CASE CollectCheckpoint
    <2>1. PICK e \in ClientEps : ReadRx(e) /\ checkpoint' = Row(checkpoint, e)
      BY <1>2 DEF CollectCheckpoint
    <2>2. rxc' \in [Endpoint -> Seq(Completions)]
      BY <1>0, <2>1, ReadRxTypes DEF TypeOK
    <2>3. checkpoint' \in [EN -> Msg]
      BY <2>1, RowTypes DEF TypeOK
    <2>4. counter' \in [Listener -> Int]
      BY <1>0, <1>2 DEF CollectCheckpoint, TypeOK, Count
    <2> QED
      BY <1>2, <2>2, <2>3, <2>4
         DEF CollectCheckpoint, ControllerUnchanged, TypeOK, FabricTypeOK, PcTypeOK
  <1>3. CASE CollectSummary
    <2>1. PICK e \in ClientEps : ReadRx(e) /\ summary' = Row(summary, e)
      BY <1>3 DEF CollectSummary
    <2>2. rxc' \in [Endpoint -> Seq(Completions)]
      BY <1>0, <2>1, ReadRxTypes DEF TypeOK
    <2>3. summary' \in [EN -> Msg]
      BY <2>1, RowTypes DEF TypeOK
    <2>4. counter' \in [Listener -> Int]
      BY <1>0, <1>3 DEF CollectSummary, TypeOK, Count
    <2> QED
      BY <1>3, <2>2, <2>3, <2>4
         DEF CollectSummary, ControllerUnchanged, TypeOK, FabricTypeOK, PcTypeOK
  <1> QED
    BY <1>1, <1>2, <1>3

\* The other steps of the controller.
LEMMA ControllerWaitTypes ==
  ASSUME TypeOK, RoundOpen,
         CheckpointDone \/ SummaryDone \/ AwaitShutdown \/ ControllerDone
  PROVE  TypeOK'
  <1>0. CN \in Node /\ CN \notin EN /\ CN \notin PN /\ CN \in Listener
    BY NodeFacts
  <1>1. CASE CheckpointDone
    <2>1. PcTypeOK'
      BY <1>0, <1>1, GotoTypes DEF CheckpointDone, TypeOK, ControllerPC
    <2>2. rounds' \in 0 .. MaxRounds
      BY <1>1, RoundsAssumption DEF CheckpointDone, TypeOK, RoundOpen
    <2> QED
      BY <1>1, <2>1, <2>2 DEF CheckpointDone, TypeOK, FabricTypeOK, fabricVars
  <1>2. CASE SummaryDone
    <2>1. PcTypeOK'
      BY <1>0, <1>2, GotoTypes DEF SummaryDone, TypeOK, ControllerPC
    <2>2. counter' \in [Listener -> Int]
      BY <1>2, ResetTypes DEF SummaryDone
    <2> QED
      BY <1>2, <2>1, <2>2 DEF SummaryDone, TypeOK, FabricTypeOK, fabricVars
  <1>3. CASE AwaitShutdown
    <2>1. eq' \in [Node -> Seq(Events)]
      BY <1>0, <1>3, PopTypes DEF AwaitShutdown, TypeOK
    <2>2. counter' \in [Listener -> Int]
      BY <1>0, <1>3 DEF AwaitShutdown, TypeOK, Count
    <2>3. PcTypeOK'
      <3>1. \E place \in {"failed", "stop_cm"} : Goto(CN, place)
        BY <1>3 DEF AwaitShutdown
      <3> QED
        BY <1>0, <3>1, GotoTypes DEF TypeOK, ControllerPC
    <2> QED
      BY <1>3, <2>1, <2>2, <2>3 DEF AwaitShutdown, TypeOK, FabricTypeOK
  <1>4. CASE ControllerDone
    <2>1. PcTypeOK'
      BY <1>0, <1>4, GotoTypes DEF ControllerDone, TypeOK, ControllerPC
    <2> QED
      BY <1>4, <2>1 DEF ControllerDone, TypeOK, FabricTypeOK, fabricVars
  <1> QED
    BY <1>1, <1>2, <1>3, <1>4

LEMMA ControllerTypes ==
  ASSUME TypeOK, RoundOpen, ControllerStep
  PROVE  TypeOK'
  <1>1. CN \in Node /\ CN \in Listener
    BY NodeFacts
  <1>2. NumEN \in Nat /\ NumEP \in Nat
    BY TopologyAssumption DEF NumEP
  <1>3. CASE ConnectSent \/ StartSent \/ CheckpointSent \/ StopSent
    BY <1>2, <1>3, CommandsSentTypes
       DEF ConnectSent, StartSent, CheckpointSent, StopSent, ControllerPC
  <1>4. CASE ControllerConnect \/ ControllerStart \/ ControllerCheckpoint \/ ControllerStop
    BY <1>4, ControllerPostTypes
  <1>5. CASE CollectConfirm \/ CollectCheckpoint \/ CollectSummary
    BY <1>5, ControllerCollectTypes
  <1>6. CASE CheckpointDone \/ SummaryDone \/ AwaitShutdown \/ ControllerDone
    BY <1>6, ControllerWaitTypes
  <1>7. CASE WaitAllConn(CN) \/ Exit(CN)
    BY <1>1, <1>7, ConnTypes, ExitTypes
  <1> QED
    BY <1>3, <1>4, <1>5, <1>6, <1>7 DEF ControllerStep

LEMMA NetworkTypes ==
  ASSUME TypeOK, NetworkStep
  PROVE  TypeOK'
  <1>1. CASE \E l \in Link : Establish(l)
    <2>1. PICK l \in Link : Establish(l)
      BY <1>1
    <2>2. l[1] \in Node /\ l[2] \in Node /\ l \in Endpoint /\ Rev(l) \in Endpoint
      BY EndpointFacts
    <2>3. link' \in [Link -> LinkStates]
      BY <2>1 DEF Establish, TypeOK, FabricTypeOK, LinkStates
    <2>4. \A e \in Endpoint : [kind |-> "CONNECTED", ep |-> e] \in Events
      BY DEF Events
    <2>5. eq' \in [Node -> Seq(Events)]
      <3> DEFINE v == [kind |-> "CONNECTED", ep |-> l]
                 w == [kind |-> "CONNECTED", ep |-> Rev(l)]
      <3>1. eq \in [Node -> Seq(Events)] /\ v \in Events /\ w \in Events
        BY <2>2, <2>4 DEF TypeOK, FabricTypeOK
      <3>2. eq' = [eq EXCEPT ![l[1]] = Append(@, v), ![l[2]] = Append(@, w)]
        BY <2>1 DEF Establish
      <3>3. eq[l[1]] \in Seq(Events) /\ l[1] # l[2]
        BY <2>2, <3>1, LinkShape, NodeFacts
      <3>4. Append(eq[l[1]], v) \in Seq(Events) /\ Append(eq[l[2]], w) \in Seq(Events)
        BY <2>2, <3>1
      <3>5. eq' = [p \in Node |-> IF p = l[1] THEN Append(eq[p], v)
                                  ELSE IF p = l[2] THEN Append(eq[p], w) ELSE eq[p]]
        BY <2>2, <3>1, <3>2, <3>3
      <3> QED
        BY <3>1, <3>4, <3>5
    <2> QED
      BY <2>1, <2>3, <2>5 DEF Establish, NetworkStep, nodeVars, TypeOK, FabricTypeOK, PcTypeOK
  <1>2. CASE \E e \in Endpoint : Transmit(e)
    <2>1. PICK e \in Endpoint : Transmit(e)
      BY <1>2
    <2> DEFINE r == Rev(e)
               c == [size |-> Head(rq[r]), len |-> LenOf(Head(sq[e]))]
    <2>2. e[1] \in Node /\ r \in Endpoint
      BY EndpointFacts
    <2>3. Head(sq[e]) \in Msg /\ Tail(sq[e]) \in Seq(Msg)
      BY <2>1, TailFacts DEF Transmit, TypeOK, FabricTypeOK
    <2>4. Head(rq[r]) \in RecvSizes /\ Tail(rq[r]) \in Seq(RecvSizes)
      BY <2>1, <2>2, TailFacts DEF Transmit, TypeOK, FabricTypeOK
    <2>5. c \in Completions
      BY <2>3, <2>4, SizeFacts DEF Completions
    <2>6. sq' \in [Endpoint -> Seq(Msg)] /\ rq' \in [Endpoint -> Seq(RecvSizes)]
      BY <2>1, <2>2, <2>3, <2>4 DEF Transmit, TypeOK, FabricTypeOK
    <2>7. rxc' \in [Endpoint -> Seq(Completions)]
      BY <2>1, <2>2, <2>5, AppendFacts DEF Transmit, TypeOK, FabricTypeOK
    <2>8. buf' \in [Endpoint -> Msg]
      BY <2>1, <2>2, <2>3 DEF Transmit, TypeOK, FabricTypeOK
    <2>9. cqtx' \in [Node -> Nat]
      <3>1. cqtx' = [cqtx EXCEPT ![e[1]] = @ + 1] /\ cqtx \in [Node -> Nat]
        BY <2>1 DEF Transmit, TypeOK, FabricTypeOK
      <3> QED
        BY <2>2, <3>1
    <2> QED
      BY <2>1, <2>6, <2>7, <2>8, <2>9 DEF Transmit, NetworkStep, nodeVars, TypeOK, FabricTypeOK, PcTypeOK
  <1> QED
    BY <1>1, <1>2 DEF NetworkStep, Network

LEMMA TypesStep == TypeOK /\ RoundOpen /\ [Next]_vars => TypeOK'
  <1> SUFFICES ASSUME TypeOK, RoundOpen, [Next]_vars PROVE TypeOK'
    OBVIOUS
  <1>1. ASSUME NEW h \in Host, HostStep(h) PROVE TypeOK'
    BY <1>1, HostTypes, ExitTypes, NodeFacts DEF HostStep
  <1>2. ASSUME NEW i \in EN, ClientStep(i) PROVE TypeOK'
    BY <1>1, <1>2, ClientTypes, NodeFacts DEF ClientStep
  <1>3. ASSUME NEW s \in PN, ServerStep(s) PROVE TypeOK'
    BY <1>1, <1>3, ServerTypes, ConnTypes, NodeFacts DEF ServerStep
  <1>4. CASE UNCHANGED vars
    BY <1>4 DEF vars, fabricVars, nodeVars, TypeOK, FabricTypeOK, PcTypeOK
  <1> QED
    BY <1>2, <1>3, <1>4, ControllerTypes, NetworkTypes DEF Next

LEMMA RoundOpenStep == TypeOK /\ RoundOpen /\ [Next]_vars => RoundOpen'
  <1> SUFFICES ASSUME TypeOK, RoundOpen, [Next]_vars,
                      pc'[CN] \in {"checkpoint_tx", "checkpoint_rx"}
               PROVE  rounds' < MaxRounds
    BY DEF RoundOpen
  <1>1. CASE pc'[CN] = pc[CN] /\ rounds' = rounds
    BY <1>1 DEF RoundOpen
  <1>2. CASE ControllerStep
    <2>0. CN \in Node
      BY NodeFacts
    <2>1. CASE WaitAllConn(CN) \/ Exit(CN)
      BY <2>0, <2>1 DEF WaitAllConn, Exit, Goto, TypeOK, PcTypeOK
    <2>2. CASE ControllerConnect \/ ControllerStart \/ ControllerStop
      BY <2>0, <2>2 DEF ControllerConnect, ControllerStart, ControllerStop, Goto,
                        TypeOK, PcTypeOK
    <2>3. CASE ConnectSent \/ StartSent \/ StopSent
      BY <2>0, <2>3 DEF ConnectSent, StartSent, StopSent, CommandsSent, Goto,
                        TypeOK, PcTypeOK
    <2>4. CASE ControllerCheckpoint
      BY <2>4 DEF ControllerCheckpoint
    <2>5. CASE CheckpointSent
      BY <2>5 DEF CheckpointSent, CommandsSent, RoundOpen
    <2>6. CASE CollectConfirm
      BY <2>0, <2>6 DEF CollectConfirm, Goto, TypeOK, PcTypeOK
    <2>7. CASE CollectCheckpoint \/ CollectSummary
      BY <1>1, <2>7 DEF CollectCheckpoint, CollectSummary
    <2>8. CASE CheckpointDone \/ SummaryDone \/ ControllerDone
      BY <2>0, <2>8 DEF CheckpointDone, SummaryDone, ControllerDone, Goto, TypeOK, PcTypeOK
    <2>9. CASE AwaitShutdown
      BY <2>0, <2>9 DEF AwaitShutdown, Goto, TypeOK, PcTypeOK
    <2> QED
      BY <1>2, <2>1, <2>2, <2>3, <2>4, <2>5, <2>6, <2>7, <2>8, <2>9 DEF ControllerStep
  <1>3. ASSUME NEW h \in Host, NEW place, Goto(h, place), rounds' = rounds
        PROVE  rounds' < MaxRounds
    <2>1. h # CN
      BY NodeFacts
    <2> QED
      BY <1>1, <1>3, <2>1 DEF Goto, TypeOK, PcTypeOK
  <1>4. ASSUME NEW h \in Host, HostStep(h)
        PROVE  rounds' < MaxRounds
    <2>1. rounds' = rounds /\ \E place : Goto(h, place)
      BY <1>4 DEF HostStep, HostDial, Dial, ConnectEvent, ConnectKeys, Exit
    <2> QED
      BY <1>3, <2>1
  <1>5. ASSUME NEW i \in EN, ClientStep(i)
        PROVE  rounds' < MaxRounds
    <2>1. i \in Host
      BY NodeFacts
    <2>2. CASE ~HostStep(i)
      <3>1. rounds' = rounds
        BY <1>5, <2>2
           DEF ClientStep, AwaitConnect, RecvConnect, DialNext, Confirm, ConfirmSent,
               RecvStart, BenchCommand
      <3>2. \E place : Goto(i, place)
        BY <1>5, <2>2
           DEF ClientStep, AwaitConnect, RecvConnect, DialNext, Dial, Confirm,
               ConfirmSent, RecvStart, BenchCommand
      <3> QED
        BY <1>3, <2>1, <3>1, <3>2
    <2> QED
      BY <1>4, <2>1, <2>2
  <1>6. ASSUME NEW s \in PN, ServerStep(s)
        PROVE  rounds' < MaxRounds
    <2>1. s \in Host
      BY NodeFacts
    <2>2. CASE ~HostStep(s)
      <3>1. rounds' = rounds /\ \E place : Goto(s, place)
        BY <1>6, <2>2
           DEF ServerStep, ServerListen, WaitAllConn, ServerReady, ServeCommand, ServeEvent
      <3> QED
        BY <1>3, <2>1, <3>1
    <2> QED
      BY <1>4, <2>1, <2>2
  <1>7. CASE NetworkStep \/ UNCHANGED vars
    BY <1>1, <1>7 DEF NetworkStep, vars, nodeVars
  <1> QED
    BY <1>2, <1>5, <1>6, <1>7 DEF Next

\* Every variable keeps its type and no step takes the controller past the
\* checkpoints of the run (controller() in Main.cpp).
THEOREM TypesHold == Spec => []TypeOK
  <1>1. Init => TypeOK /\ RoundOpen
    <2>1. Init => pc[CN] = "wait_all"
      BY NodeFacts DEF Init
    <2> QED
      BY <2>1, InitTypes DEF RoundOpen
  <1>2. TypeOK /\ RoundOpen /\ [Next]_vars => (TypeOK /\ RoundOpen)'
    BY TypesStep, RoundOpenStep
  <1> QED
    BY <1>1, <1>2, PTL DEF Spec

-----------------------------------------------------------------------------
(* The start barrier.                                                      *)
(*                                                                         *)
(* The argument counts.  Nobody but the controller can tell a client to    *)
(* start, and the controller does so once it has read one confirmation per *)
(* client.  A client that lacks a key has sent none, and the receive the   *)
(* controller posted for it is still open; so as long as a key is missing  *)
(* the controller cannot have counted to num_en.  That such a client does  *)
(* not start by itself, on a message meant for something else (it does not *)
(* look what a completion belongs to), is counted as well: the controller  *)
(* sends it the keys and "connect", and it has read both before it waits   *)
(* for "start".                                                            *)

LEMMA HostFacts ==
  ASSUME NEW h \in Host
  PROVE  /\ h \in Node /\ h # CN /\ CN \in Node /\ CN \in Listener
         /\ Cep(h) = <<h, CN>> /\ Cep(h) \in Link /\ Cep(h) \in Endpoint
         /\ <<CN, h>> \in Endpoint /\ <<CN, h>> \in Passive /\ <<CN, h>> \in HostEps
         /\ Rev(Cep(h)) = <<CN, h>> /\ Rev(<<CN, h>>) = Cep(h) /\ LinkOf(<<CN, h>>) = Cep(h)
  <1>1. h \in Node /\ h # CN /\ CN \in Node /\ CN \in Listener
    BY NodeFacts
  <1>2. /\ Cep(h) = <<h, CN>> /\ Cep(h) \in Link /\ Cep(h) \in Endpoint
        /\ <<CN, h>> \in Endpoint /\ <<CN, h>> \in Passive
        /\ Rev(Cep(h)) = <<CN, h>> /\ Rev(<<CN, h>>) = Cep(h)
    BY <1>1, ControlEnds, EndpointFacts
  <1>3. LinkOf(<<CN, h>>) = Cep(h) /\ <<CN, h>> \in HostEps
    BY <1>2, PassiveShape DEF HostEps
  <1> QED
    BY <1>1, <1>2, <1>3

LEMMA CepFacts ==
  ASSUME NEW i \in EN
  PROVE  /\ i \in Host /\ i \in Node /\ i \notin PN /\ i # CN
         /\ CN \in Node /\ CN \in Listener
         /\ Cep(i) = <<i, CN>> /\ Cep(i) \in Link /\ Cep(i) \in Endpoint
         /\ <<CN, i>> \in Endpoint /\ <<CN, i>> \in Passive /\ <<CN, i>> \in ClientEps
  <1>1. i \in Host /\ i \in Node /\ i \notin PN /\ i # CN /\ CN \in Node /\ CN \in Listener
    BY NodeFacts
  <1>2. /\ Cep(i) = <<i, CN>> /\ Cep(i) \in Link /\ Cep(i) \in Endpoint
        /\ <<CN, i>> \in Endpoint /\ <<CN, i>> \in Passive
    BY <1>1, ControlEnds, EndpointFacts
  <1> QED
    BY <1>1, <1>2 DEF ClientEps

-----------------------------------------------------------------------------
(* A process touches nothing but its own end of things. *)

Untouched(e) == rq'[e] = rq[e] /\ rxc'[e] = rxc[e] /\ sq'[e] = sq[e] /\ buf'[e] = buf[e]

OnlyItsOwn(p) ==
  /\ \A q \in Node : q # p => pc'[q] = pc[q]
  /\ \A h \in Host : h # p => peer'[h] = peer[h]
  /\ \A l \in Link : l[1] # p => remoteKeys'[l] = remoteKeys[l]
  /\ \A q \in Listener : q # p => counter'[q] = counter[q]
  /\ \A e \in Endpoint : e[1] # p => Untouched(e)

LEMMA GotoOwn ==
  ASSUME TypeOK, NEW p \in Node, NEW place, Goto(p, place)
  PROVE  pc'[p] = place /\ \A q \in Node : q # p => pc'[q] = pc[q]
  BY DEF Goto, TypeOK, PcTypeOK

LEMMA RecvOwn ==
  ASSUME NEW E, NEW size, CtrlRecv(E, size)
  PROVE  /\ \A e \in Endpoint : e \notin E => rq'[e] = rq[e]
         /\ \A e \in Endpoint : e \in E => rq'[e] = Append(rq[e], size)
  BY DEF CtrlRecv

LEMMA SendOwn ==
  ASSUME NEW m, CtrlSend(m)
  PROVE  /\ \A e \in Endpoint : e \notin DOMAIN m => sq'[e] = sq[e] /\ buf'[e] = buf[e]
         /\ \A e \in Endpoint : e \in DOMAIN m => sq'[e] = Append(sq[e], m[e])
  BY DEF CtrlSend

LEMMA CommandOwn ==
  ASSUME NEW E, NEW c, SendCommand(E, c)
  PROVE  /\ \A e \in Endpoint : e \notin E => sq'[e] = sq[e] /\ buf'[e] = buf[e]
         /\ \A e \in Endpoint : e \in E => sq'[e] = Append(sq[e], Command(c, e))
  <1> DEFINE m == [e \in E |-> Command(c, e)]
  <1>1. CtrlSend(m)
    BY DEF SendCommand
  <1>2. DOMAIN m = E /\ \A e \in E : m[e] = Command(c, e)
    OBVIOUS
  <1> HIDE DEF m
  <1> QED
    BY <1>1, <1>2, SendOwn

LEMMA ReadOwn ==
  ASSUME TypeOK, NEW e \in Endpoint, ReadRx(e)
  PROVE  /\ \A d \in Endpoint : d # e => rxc'[d] = rxc[d]
         /\ rxc[e] # <<>> /\ rxc'[e] = Tail(rxc[e])
  BY DEF ReadRx, TypeOK, FabricTypeOK

LEMMA DialOwn ==
  ASSUME TypeOK, NEW h \in Host, NEW q, <<h, q>> \in Link, Dial(h, q)
  PROVE  /\ pc'[h] = "await_cm" /\ peer'[h] = q
         /\ \A p \in Node : p # h => pc'[p] = pc[p]
         /\ \A g \in Host : g # h => peer'[g] = peer[g]
         /\ \A e \in Endpoint : e # <<h, q>> => rq'[e] = rq[e]
         /\ rq'[<<h, q>>] = Append(rq[<<h, q>>], KeysSize)
  <1>1. h \in Node /\ <<h, q>> \in Endpoint
    BY NodeFacts, EndpointFacts
  <1>2. pc'[h] = "await_cm" /\ \A p \in Node : p # h => pc'[p] = pc[p]
    BY <1>1, GotoOwn DEF Dial
  <1>3. peer'[h] = q /\ \A g \in Host : g # h => peer'[g] = peer[g]
    BY DEF Dial, TypeOK
  <1>4. rq' = [e \in Endpoint |-> IF e \in {<<h, q>>} THEN Append(rq[e], KeysSize) ELSE rq[e]]
    BY DEF Dial, CtrlRecv
  <1>5. \A e \in Endpoint : e # <<h, q>> => rq'[e] = rq[e]
    BY <1>4
  <1>6. rq'[<<h, q>>] = Append(rq[<<h, q>>], KeysSize)
    BY <1>1, <1>4
  <1> QED
    BY <1>2, <1>3, <1>5, <1>6

LEMMA HostOwn ==
  ASSUME TypeOK, NEW h \in Host, HostStep(h)
  PROVE  OnlyItsOwn(h)
  <1>0. h \in Node /\ <<h, CN>> \in Link
    BY NodeFacts, ControlEnds
  <1>1. CASE HostDial(h)
    <2>1. Dial(h, CN) /\ UNCHANGED <<sq, rxc, buf, remoteKeys, counter>>
      BY <1>1 DEF HostDial
    <2> QED
      BY <1>0, <2>1, DialOwn DEF OnlyItsOwn, Untouched
  <1>2. CASE ConnectEvent(h) \/ Exit(h)
    <2>1. UNCHANGED <<sq, rq, rxc, buf, peer, remoteKeys, counter>>
          /\ \E place : Goto(h, place)
      BY <1>2 DEF ConnectEvent, Exit
    <2> QED
      BY <1>0, <2>1, GotoOwn DEF OnlyItsOwn, Untouched
  <1>3. CASE ConnectKeys(h)
    <2>1. PICK e \in Endpoint : e[1] = h /\ ReadRx(e)
      BY <1>3 DEF ConnectKeys
    <2>2. UNCHANGED <<sq, rq, buf, peer, counter>>
      BY <1>3 DEF ConnectKeys
    <2>3. \A d \in Endpoint : d[1] # h => rxc'[d] = rxc[d]
      BY <2>1, ReadOwn
    <2>4. \E place : Goto(h, place)
      BY <1>3 DEF ConnectKeys
    <2>5. \A l \in Link : l[1] # h => remoteKeys'[l] = remoteKeys[l]
      BY <1>3 DEF ConnectKeys, TypeOK
    <2> QED
      BY <1>0, <2>2, <2>3, <2>4, <2>5, GotoOwn DEF OnlyItsOwn, Untouched
  <1> QED
    BY <1>1, <1>2, <1>3 DEF HostStep


LEMMA ClientOwn ==
  ASSUME TypeOK, NEW i \in EN, ClientStep(i)
  PROVE  OnlyItsOwn(i)
  <1>0. i \in Node /\ i \in Host /\ Cep(i) \in Endpoint /\ Cep(i)[1] = i
    BY NodeFacts, EndpointFacts DEF Cep
  <1>1. CASE HostStep(i)
    BY <1>0, <1>1, HostOwn
  <1>2. CASE AwaitConnect(i)
    <2>1. UNCHANGED <<sq, rxc, buf, peer, remoteKeys, counter>>
          /\ CtrlRecv({Cep(i)}, IntSize) /\ \E place : Goto(i, place)
      BY <1>2 DEF AwaitConnect
    <2> QED
      BY <1>0, <2>1, GotoOwn, RecvOwn DEF OnlyItsOwn, Untouched
  <1>3. CASE RecvConnect(i)
    <2>1. PICK e \in Endpoint : e[1] = i /\ ReadRx(e)
      BY <1>3 DEF RecvConnect
    <2>2. UNCHANGED <<sq, buf, remoteKeys, counter>>
      BY <1>3 DEF RecvConnect
    <2>3. \A d \in Endpoint : d[1] # i => rxc'[d] = rxc[d]
      BY <2>1, ReadOwn
    <2>4. CASE Dial(i, NumEN)
      <3>1. <<i, NumEN>> \in Link
        BY DataEnds, NodeFacts
      <3> QED
        BY <1>0, <2>2, <2>3, <2>4, <3>1, DialOwn DEF OnlyItsOwn, Untouched
    <2>5. CASE Goto(i, "failed") /\ UNCHANGED <<link, eq, rq, peer>>
      BY <1>0, <2>2, <2>3, <2>5, GotoOwn DEF OnlyItsOwn, Untouched
    <2> QED
      BY <1>3, <2>4, <2>5 DEF RecvConnect
  <1>4. CASE DialNext(i)
    <2>1. Dial(i, peer[i] + 1) /\ <<i, peer[i] + 1>> \in Link
      BY <1>4, DataEnds DEF DialNext
    <2>2. UNCHANGED <<sq, rxc, buf, remoteKeys, counter>>
      BY <1>4 DEF DialNext
    <2> QED
      BY <1>0, <2>1, <2>2, DialOwn DEF OnlyItsOwn, Untouched
  <1>5. CASE Confirm(i)
    <2>1. UNCHANGED <<rxc, peer, remoteKeys, counter>>
          /\ CtrlRecv({Cep(i)}, IntSize) /\ SendCommand({Cep(i)}, "CONNECTED")
          /\ Goto(i, "confirm_tx")
      BY <1>5 DEF Confirm
    <2> QED
      BY <1>0, <2>1, GotoOwn, RecvOwn, CommandOwn DEF OnlyItsOwn, Untouched
  <1>6. CASE ConfirmSent(i)
    <2>1. UNCHANGED <<sq, rq, rxc, buf, peer, remoteKeys, counter>>
          /\ Goto(i, "await_start")
      BY <1>6 DEF ConfirmSent
    <2> QED
      BY <1>0, <2>1, GotoOwn DEF OnlyItsOwn, Untouched
  <1>7. CASE RecvStart(i)
    <2>1. PICK e \in Endpoint : e[1] = i /\ ReadRx(e)
      BY <1>7 DEF RecvStart
    <2>2. UNCHANGED <<sq, buf, peer, remoteKeys, counter>> /\ \E place : Goto(i, place)
      BY <1>7 DEF RecvStart
    <2>3. \A d \in Endpoint : d[1] # i => rxc'[d] = rxc[d]
      BY <2>1, ReadOwn
    <2>4. \A d \in Endpoint : d[1] # i => rq'[d] = rq[d]
      BY <1>0, <1>7, RecvOwn DEF RecvStart
    <2> QED
      BY <1>0, <2>2, <2>3, <2>4, GotoOwn DEF OnlyItsOwn, Untouched
  <1>8. CASE BenchCommand(i)
    <2>1. PICK e \in Endpoint : e[1] = i /\ ReadRx(e)
      BY <1>8 DEF BenchCommand
    <2>2. UNCHANGED <<peer, remoteKeys, counter>> /\ \E place : Goto(i, place)
      BY <1>8 DEF BenchCommand
    <2>3. \A d \in Endpoint : d[1] # i => rxc'[d] = rxc[d]
      BY <2>1, ReadOwn
    <2>4. \A d \in Endpoint : d[1] # i => rq'[d] = rq[d]
      BY <1>0, <1>8, RecvOwn DEF BenchCommand
    <2>5. \A d \in Endpoint : d[1] # i => sq'[d] = sq[d] /\ buf'[d] = buf[d]
      <3>1. UNCHANGED <<sq, buf>> \/ \E m : DOMAIN m = {Cep(i)} /\ CtrlSend(m)
        BY <1>8 DEF BenchCommand
      <3> QED
        BY <1>0, <3>1, SendOwn
    <2> QED
      BY <1>0, <2>2, <2>3, <2>4, <2>5, GotoOwn DEF OnlyItsOwn, Untouched
  <1> QED
    BY <1>1, <1>2, <1>3, <1>4, <1>5, <1>6, <1>7, <1>8 DEF ClientStep

\* Handling an event sends on the endpoint of the event only.
LEMMA HandleOwn ==
  ASSUME TypeOK, OwnEvents, NEW q \in Node, eq[q] # <<>>, HandleEvent(q, Head(eq[q]))
  PROVE  /\ \A e \in Endpoint : e # Head(eq[q]).ep => sq'[e] = sq[e] /\ buf'[e] = buf[e]
         /\ Head(eq[q]).ep[1] = q /\ Head(eq[q]) \in Events
  <1> DEFINE v == Head(eq[q])
  <1>1. v \in Events /\ v.ep[1] = q
    BY TailFacts DEF TypeOK, FabricTypeOK, OwnEvents
  <1>2. UNCHANGED <<sq, buf>> \/ \E m : DOMAIN m = {v.ep} /\ CtrlSend(m)
    BY DEF HandleEvent
  <1> QED
    BY <1>1, <1>2, SendOwn

LEMMA ConnOwn ==
  ASSUME TypeOK, OwnEvents, NEW q \in Listener, WaitAllConn(q)
  PROVE  OnlyItsOwn(q)
  <1>0. q \in Node
    BY NodeFacts
  <1>1. eq[q] # <<>> /\ HandleEvent(q, Head(eq[q]))
        /\ UNCHANGED <<rq, rxc, peer, remoteKeys>> /\ \E place : Goto(q, place)
    BY DEF WaitAllConn
  <1>2. \A p \in Listener : p # q => counter'[p] = counter[p]
    BY DEF WaitAllConn, Count, TypeOK
  <1> QED
    BY <1>0, <1>1, <1>2, HandleOwn, GotoOwn DEF OnlyItsOwn, Untouched

LEMMA ServerOwn ==
  ASSUME TypeOK, OwnEvents, NEW s \in PN, ServerStep(s)
  PROVE  OnlyItsOwn(s)
  <1>0. s \in Node /\ s \in Host /\ s \in Listener /\ Cep(s) \in Endpoint /\ Cep(s)[1] = s
    BY NodeFacts, EndpointFacts DEF Cep
  <1>1. CASE HostStep(s)
    BY <1>0, <1>1, HostOwn
  <1>2. CASE ServerListen(s)
    <2>1. UNCHANGED <<sq, rq, rxc, buf, peer, remoteKeys, counter>> /\ Goto(s, "dial")
      BY <1>2 DEF ServerListen
    <2> QED
      BY <1>0, <2>1, GotoOwn DEF OnlyItsOwn, Untouched
  <1>3. CASE WaitAllConn(s)
    BY <1>0, <1>3, ConnOwn
  <1>4. CASE ServerReady(s)
    <2>1. UNCHANGED <<sq, rxc, buf, peer, remoteKeys, counter>>
          /\ CtrlRecv({Cep(s)}, IntSize) /\ Goto(s, "serve")
      BY <1>4 DEF ServerReady
    <2> QED
      BY <1>0, <2>1, GotoOwn, RecvOwn DEF OnlyItsOwn, Untouched
  <1>5. CASE ServeCommand(s)
    <2>1. PICK e \in Endpoint : e[1] = s /\ ReadRx(e)
      BY <1>5 DEF ServeCommand
    <2>2. UNCHANGED <<sq, rq, buf, peer, remoteKeys, counter>> /\ \E place : Goto(s, place)
      BY <1>5 DEF ServeCommand
    <2>3. \A d \in Endpoint : d[1] # s => rxc'[d] = rxc[d]
      BY <2>1, ReadOwn
    <2> QED
      BY <1>0, <2>2, <2>3, GotoOwn DEF OnlyItsOwn, Untouched
  <1>6. CASE ServeEvent(s)
    <2>1. eq[s] # <<>> /\ HandleEvent(s, Head(eq[s]))
          /\ UNCHANGED <<rq, rxc, peer, remoteKeys, counter>> /\ \E place : Goto(s, place)
      BY <1>6 DEF ServeEvent
    <2> QED
      BY <1>0, <2>1, HandleOwn, GotoOwn DEF OnlyItsOwn, Untouched
  <1> QED
    BY <1>1, <1>2, <1>3, <1>4, <1>5, <1>6 DEF ServerStep

LEMMA ControllerOwn ==
  ASSUME TypeOK, OwnEvents, ControllerStep
  PROVE  OnlyItsOwn(CN)
  <1>0. /\ CN \in Node /\ CN \in Listener
        /\ ClientEps \subseteq Endpoint /\ HostEps \subseteq Endpoint
        /\ \A e \in Endpoint : e[1] # CN => e \notin HostEps /\ e \notin ClientEps
    BY NodeFacts, EndpointFacts DEF ClientEps, HostEps
  <1>1. CASE WaitAllConn(CN)
    BY <1>0, <1>1, ConnOwn
  <1>2. CASE ControllerConnect \/ ControllerStart \/ ControllerCheckpoint \/ ControllerStop
    <2>1. UNCHANGED <<rxc, peer, remoteKeys, counter>> /\ \E place : Goto(CN, place)
      BY <1>2 DEF ControllerConnect, ControllerStart, ControllerCheckpoint,
                  ControllerStop, ControllerUnchanged
    <2>2. UNCHANGED rq \/ \E size : CtrlRecv(ClientEps, size)
      BY <1>2 DEF ControllerConnect, ControllerStart, ControllerCheckpoint, ControllerStop
    <2>3. \/ \E c : SendCommand(ClientEps, c)
          \/ \E c : SendCommand(HostEps, c)
      BY <1>2 DEF ControllerConnect, ControllerStart, ControllerCheckpoint, ControllerStop
    <2>4. \A e \in Endpoint : e[1] # CN => rq'[e] = rq[e]
      <3>1. CASE \E size : CtrlRecv(ClientEps, size)
        BY <1>0, <3>1, RecvOwn
      <3> QED
        BY <2>2, <3>1
    <2>5. \A e \in Endpoint : e[1] # CN => sq'[e] = sq[e] /\ buf'[e] = buf[e]
      <3>1. CASE \E c : SendCommand(ClientEps, c)
        BY <1>0, <3>1, CommandOwn
      <3>2. CASE \E c : SendCommand(HostEps, c)
        BY <1>0, <3>2, CommandOwn
      <3> QED
        BY <2>3, <3>1, <3>2
    <2> QED
      BY <1>0, <2>1, <2>4, <2>5, GotoOwn DEF OnlyItsOwn, Untouched
  <1>3. CASE ConnectSent \/ StartSent \/ CheckpointSent \/ StopSent
    <2>1. UNCHANGED <<sq, rq, rxc, buf, peer, remoteKeys>>
          /\ Count(CN, 0) /\ \E place : Goto(CN, place)
      BY <1>3 DEF ConnectSent, StartSent, CheckpointSent, StopSent, CommandsSent,
                  ControllerUnchanged
    <2>2. \A q \in Listener : q # CN => counter'[q] = counter[q]
      BY <2>1 DEF Count, TypeOK
    <2> QED
      BY <1>0, <2>1, <2>2, GotoOwn DEF OnlyItsOwn, Untouched
  <1>4. CASE CollectConfirm \/ CollectCheckpoint \/ CollectSummary
    <2>1. PICK e \in ClientEps : ReadRx(e)
      BY <1>4 DEF CollectConfirm, CollectCheckpoint, CollectSummary
    <2>2. UNCHANGED <<sq, rq, buf, peer, remoteKeys>>
      BY <1>4 DEF CollectConfirm, CollectCheckpoint, CollectSummary, ControllerUnchanged
    <2>3. \A d \in Endpoint : d[1] # CN => rxc'[d] = rxc[d]
      <3>1. e \in Endpoint /\ \A d \in Endpoint : d[1] # CN => d # e
        BY <1>0, <2>1
      <3> QED
        BY <2>1, <3>1, ReadOwn
    <2>4. UNCHANGED pc \/ Goto(CN, "failed")
      BY <1>4 DEF CollectConfirm, CollectCheckpoint, CollectSummary
    <2>5. UNCHANGED counter \/ \E n : Count(CN, n)
      BY <1>4 DEF CollectConfirm, CollectCheckpoint, CollectSummary
    <2>6. \A q \in Listener : q # CN => counter'[q] = counter[q]
      BY <2>5 DEF Count, TypeOK
    <2> QED
      BY <1>0, <2>2, <2>3, <2>4, <2>6, GotoOwn DEF OnlyItsOwn, Untouched
  <1>5. CASE CheckpointDone \/ SummaryDone \/ ControllerDone
    <2>1. UNCHANGED <<fabricVars, peer, remoteKeys>> /\ \E place : Goto(CN, place)
      BY <1>5 DEF CheckpointDone, SummaryDone, ControllerDone
    <2>2. UNCHANGED counter \/ \E n : Count(CN, n)
      BY <1>5 DEF CheckpointDone, SummaryDone, ControllerDone
    <2>3. \A q \in Listener : q # CN => counter'[q] = counter[q]
      BY <2>2 DEF Count, TypeOK
    <2> QED
      BY <1>0, <2>1, <2>3, GotoOwn DEF OnlyItsOwn, Untouched, fabricVars
  <1>6. CASE AwaitShutdown \/ Exit(CN)
    <2>1. UNCHANGED <<sq, rq, rxc, buf, peer, remoteKeys>> /\ \E place : Goto(CN, place)
      BY <1>6 DEF AwaitShutdown, Exit
    <2>2. UNCHANGED counter \/ \E n : Count(CN, n)
      BY <1>6 DEF AwaitShutdown, Exit
    <2>3. \A q \in Listener : q # CN => counter'[q] = counter[q]
      BY <2>2 DEF Count, TypeOK
    <2> QED
      BY <1>0, <2>1, <2>3, GotoOwn DEF OnlyItsOwn, Untouched
  <1> QED
    BY <1>1, <1>2, <1>3, <1>4, <1>5, <1>6 DEF ControllerStep

\* A delivery touches the two ends it runs between.
LEMMA TransmitOwn ==
  ASSUME TypeOK, NEW e \in Endpoint, Transmit(e)
  PROVE  /\ Rev(e) \in Endpoint /\ e = <<e[1], e[2]>> /\ Rev(e) = <<e[2], e[1]>> /\ Rev(e) # e
         /\ \A d \in Endpoint : d # e => sq'[d] = sq[d]
         /\ \A d \in Endpoint : d # Rev(e) =>
              rq'[d] = rq[d] /\ rxc'[d] = rxc[d] /\ buf'[d] = buf[d]
         /\ sq[e] # <<>> /\ sq'[e] = Tail(sq[e]) /\ buf'[Rev(e)] = Head(sq[e])
         /\ rq[Rev(e)] # <<>> /\ rq'[Rev(e)] = Tail(rq[Rev(e)])
         /\ Len(rxc'[Rev(e)]) = Len(rxc[Rev(e)]) + 1
  <1>1. Rev(e) \in Endpoint /\ e = <<e[1], e[2]>> /\ Rev(e) = <<e[2], e[1]>>
    BY EndpointFacts, LinkShape, PassiveShape DEF Endpoint
  <1>2. Rev(e) # e
    <2>1. e[1] # e[2]
      BY LinkShape, PassiveShape, NodeFacts DEF Endpoint
    <2> QED
      BY <1>1, <2>1
  <1>3. \A d \in Endpoint : d # e => sq'[d] = sq[d]
    BY DEF Transmit, TypeOK, FabricTypeOK
  <1>4. \A d \in Endpoint : d # Rev(e) => rq'[d] = rq[d] /\ rxc'[d] = rxc[d] /\ buf'[d] = buf[d]
    BY DEF Transmit, TypeOK, FabricTypeOK
  <1>5. sq[e] # <<>> /\ sq'[e] = Tail(sq[e]) /\ buf'[Rev(e)] = Head(sq[e])
    BY <1>1 DEF Transmit, TypeOK, FabricTypeOK
  <1>6. rq[Rev(e)] # <<>> /\ rq'[Rev(e)] = Tail(rq[Rev(e)])
    BY <1>1 DEF Transmit, TypeOK, FabricTypeOK
  <1>7. Len(rxc'[Rev(e)]) = Len(rxc[Rev(e)]) + 1
    <2> DEFINE c == [size |-> Head(rq[Rev(e)]), len |-> LenOf(Head(sq[e]))]
    <2>1. rxc'[Rev(e)] = Append(rxc[Rev(e)], c) /\ rxc[Rev(e)] \in Seq(Completions)
      BY <1>1 DEF Transmit, TypeOK, FabricTypeOK
    <2> HIDE DEF c
    <2> QED
      BY <2>1
  <1> QED
    BY <1>1, <1>2, <1>3, <1>4, <1>5, <1>6, <1>7

\* A delivery.
Delivery == UNCHANGED nodeVars /\ \E e \in Endpoint : Transmit(e)

\* What a step leaves alone that is neither a delivery nor one of process p.
Elsewhere(p) ==
  /\ pc'[p] = pc[p]
  /\ p \in Host => peer'[p] = peer[p]
  /\ p \in Listener => counter'[p] = counter[p]
  /\ \A l \in Link : l[1] = p => remoteKeys'[l] = remoteKeys[l]
  /\ \A e \in Endpoint : e[1] = p => Untouched(e)

LEMMA StepOwn ==
  ASSUME TypeOK, OwnEvents, [Next]_vars, NEW p \in Node
  PROVE  \/ p \in EN /\ ClientStep(p)
         \/ p \in PN /\ ServerStep(p)
         \/ p = CN /\ ControllerStep
         \/ Delivery
         \/ Elsewhere(p)
  <1>1. CASE UNCHANGED vars
    BY <1>1 DEF vars, nodeVars, fabricVars, Elsewhere, Untouched
  <1>2. CASE NetworkStep
    <2>1. CASE \E l \in Link : Establish(l)
      BY <1>2, <2>1 DEF NetworkStep, Establish, nodeVars, Elsewhere, Untouched
    <2> QED
      BY <1>2, <2>1 DEF NetworkStep, Network, Delivery
  <1>3. ASSUME NEW q \in Node, q # p, OnlyItsOwn(q)
        PROVE  Elsewhere(p)
    BY <1>3 DEF OnlyItsOwn, Elsewhere
  <1>4. ASSUME NEW i \in EN, i # p, ClientStep(i) PROVE Elsewhere(p)
    BY <1>3, <1>4, ClientOwn, NodeFacts
  <1>5. ASSUME NEW s \in PN, s # p, ServerStep(s) PROVE Elsewhere(p)
    BY <1>3, <1>5, ServerOwn, NodeFacts
  <1>6. ASSUME CN # p, ControllerStep PROVE Elsewhere(p)
    BY <1>3, <1>6, ControllerOwn, NodeFacts
  <1>7. CASE \E i \in EN : ClientStep(i)
    <2>1. PICK i \in EN : ClientStep(i)
      BY <1>7
    <2>2. CASE i = p
      BY <2>1, <2>2
    <2> QED
      BY <1>4, <2>1, <2>2
  <1>8. CASE \E s \in PN : ServerStep(s)
    <2>1. PICK s \in PN : ServerStep(s)
      BY <1>8
    <2>2. CASE s = p
      BY <2>1, <2>2
    <2> QED
      BY <1>5, <2>1, <2>2
  <1>9. CASE ControllerStep
    BY <1>6, <1>9
  <1> QED
    BY <1>1, <1>2, <1>7, <1>8, <1>9 DEF Next

-----------------------------------------------------------------------------
(* A client has at most one receive open, on the connection it waits on. *)

LEMMA ClientEnds ==
  ASSUME NEW i \in EN, NEW e \in Endpoint, e[1] = i
  PROVE  e \in Link /\ e = <<i, e[2]>> /\ e[2] \in Listener
  <1>1. e \notin Passive
    BY PassiveShape, NodeFacts
  <1> QED
    BY <1>1, LinkShape DEF Endpoint

LEMMA ClientLinks ==
  ASSUME NEW i \in EN, NEW q \in Listener
  PROVE  <<i, q>> \in Link /\ <<i, q>> \in Endpoint
  BY NodeFacts, ControlEnds, DataEnds, EndpointFacts

QueueOK ==
  /\ sq  \in [Endpoint -> Seq(Msg)]
  /\ rq  \in [Endpoint -> Seq(RecvSizes)]
  /\ rxc \in [Endpoint -> Seq(Completions)]

LEMMA QueueTypes == TypeOK => QueueOK
  BY DEF TypeOK, FabricTypeOK, QueueOK

LEMMA SlotsDelivered ==
  ASSUME TypeOK, NEW e \in Endpoint, Transmit(e), NEW d \in Endpoint
  PROVE  Slots(d)' = Slots(d)
  <1>1. CASE d # Rev(e)
    BY <1>1, TransmitOwn DEF Slots
  <1>2. CASE d = Rev(e)
    <2>1. rq[d] # <<>> /\ rq'[d] = Tail(rq[d]) /\ Len(rxc'[d]) = Len(rxc[d]) + 1
      BY <1>2, TransmitOwn
    <2> QED
      BY <2>1, QueueTypes DEF QueueOK, Slots
  <1> QED
    BY <1>1, <1>2

\* What a client reads came in on the connection it waits on.
LEMMA ReadOpen ==
  ASSUME TypeOK, NEW i \in EN, AtMostOneOpen(i), pc[i] \notin {"failed", "gone"},
         NEW e \in Endpoint, e[1] = i, rxc[e] # <<>>
  PROVE  /\ e = <<i, e[2]>> /\ e[2] \in Listener /\ e[2] \in OpenTo(i)
         /\ rq[e] = <<>> /\ Tail(rxc[e]) = <<>>
  <1>1. e = <<i, e[2]>> /\ e[2] \in Listener
    BY ClientEnds
  <1>2. Slots(e) <= 1 /\ (e[2] \notin OpenTo(i) => Slots(e) = 0)
    BY <1>1 DEF AtMostOneOpen
  <1>3. rq[e] = <<>> /\ Tail(rxc[e]) = <<>> /\ Slots(e) # 0
    BY <1>2, QueueTypes DEF QueueOK, Slots
  <1> QED
    BY <1>1, <1>2, <1>3

\* A client that has read what came in and then posts at most one receive.
LEMMA OpenAfter ==
  ASSUME TypeOK, NEW i \in EN, NEW t \in Listener,
         \A q \in Listener : rq[<<i, q>>] = <<>> /\ rxc'[<<i, q>>] = <<>>,
         \A q \in Listener : q # t => rq'[<<i, q>>] = rq[<<i, q>>],
         \/ rq'[<<i, t>>] = rq[<<i, t>>]
         \/ t \in OpenTo(i)' /\ \E size \in RecvSizes : rq'[<<i, t>>] = Append(rq[<<i, t>>], size)
  PROVE  AtMostOneOpen(i)'
  <1>0. ASSUME NEW s, NEW u, s = <<>>, u = <<>>
        PROVE  Len(s) + Len(u) = 0
    BY <1>0
  <1>1. ASSUME NEW q \in Listener, rq'[<<i, q>>] = rq[<<i, q>>]
        PROVE  Slots(<<i, q>>)' = 0
    BY <1>0, <1>1, Zenon DEF Slots
  <1>2. ASSUME NEW size, rq'[<<i, t>>] = Append(rq[<<i, t>>], size)
        PROVE  Slots(<<i, t>>)' = 1
    <2>0. rq[<<i, t>>] = <<>> /\ rxc'[<<i, t>>] = <<>>
      OBVIOUS
    <2>1. Len(Append(rq[<<i, t>>], size)) + Len(rxc'[<<i, t>>]) = 1
      <3>1. Len(Append(<<>>, size)) + Len(<<>>) = 1
        OBVIOUS
      <3> QED
        BY <2>0, <3>1, Zenon
    <2> QED
      BY <1>2, <2>1, Zenon DEF Slots
  <1>3. CASE rq'[<<i, t>>] = rq[<<i, t>>]
    <2>1. \A q \in Listener : Slots(<<i, q>>)' = 0
      BY <1>1, <1>3
    <2> QED
      BY <2>1 DEF AtMostOneOpen
  <1>4. CASE t \in OpenTo(i)' /\ \E size \in RecvSizes : rq'[<<i, t>>] = Append(rq[<<i, t>>], size)
    <2>1. Slots(<<i, t>>)' = 1
      BY <1>2, <1>4
    <2>2. \A q \in Listener : q # t => Slots(<<i, q>>)' = 0
      BY <1>1
    <2> QED
      BY <1>4, <2>1, <2>2 DEF AtMostOneOpen
  <1> QED
    BY <1>3, <1>4

LEMMA OpenAfterDial ==
  ASSUME TypeOK, NEW i \in EN, NEW t, <<i, t>> \in Link, Dial(i, t),
         \A q \in Listener : rq[<<i, q>>] = <<>> /\ rxc'[<<i, q>>] = <<>>
  PROVE  AtMostOneOpen(i)'
  <1>0. i \in Host /\ i \in Node /\ t \in Listener
    BY NodeFacts, LinkShape
  <1>1. /\ t \in OpenTo(i)'
        /\ \A q \in Listener : q # t => rq'[<<i, q>>] = rq[<<i, q>>]
        /\ rq'[<<i, t>>] = Append(rq[<<i, t>>], KeysSize)
    BY <1>0, DialOwn, ClientLinks DEF OpenTo
  <1> QED
    BY <1>0, <1>1, OpenAfter, SizeFacts

\* A client that reads leaves no receive behind; one that waits for nothing has none.
LEMMA ReadClears ==
  ASSUME TypeOK, NEW i \in EN, AtMostOneOpen(i), pc[i] \notin {"failed", "gone"},
         NEW e \in Endpoint, e[1] = i, ReadRx(e)
  PROVE  /\ e = <<i, e[2]>> /\ e[2] \in OpenTo(i)
         /\ \A q \in Listener : rq[<<i, q>>] = <<>> /\ rxc'[<<i, q>>] = <<>>
  <1>1. /\ rxc[e] # <<>> /\ rxc'[e] = Tail(rxc[e])
        /\ \A d \in Endpoint : d # e => rxc'[d] = rxc[d]
    BY ReadOwn
  <1>2. e = <<i, e[2]>> /\ e[2] \in OpenTo(i) /\ rq[e] = <<>> /\ rxc'[e] = <<>>
    BY <1>1, ReadOpen
  <1>3. ASSUME NEW q \in Listener, q # e[2]
        PROVE  rq[<<i, q>>] = <<>> /\ rxc'[<<i, q>>] = <<>>
    <2>1. <<i, q>> \in Endpoint /\ rxc'[<<i, q>>] = rxc[<<i, q>>]
      BY <1>1, <1>2, <1>3, ClientLinks
    <2>2. q \notin OpenTo(i)
      BY <1>2, <1>3 DEF OpenTo
    <2>3. Slots(<<i, q>>) = 0
      BY <2>2 DEF AtMostOneOpen
    <2> QED
      BY <2>1, <2>3, QueueTypes DEF QueueOK, Slots
  <1> QED
    BY <1>2, <1>3

LEMMA NothingOpen ==
  ASSUME TypeOK, NEW i \in EN, AtMostOneOpen(i), pc[i] \in {"dial", "linked"}
  PROVE  \A q \in Listener : rq[<<i, q>>] = <<>> /\ rxc[<<i, q>>] = <<>>
  <1> SUFFICES ASSUME NEW q \in Listener
               PROVE  rq[<<i, q>>] = <<>> /\ rxc[<<i, q>>] = <<>>
    OBVIOUS
  <1>1. Slots(<<i, q>>) = 0 /\ <<i, q>> \in Endpoint
    BY ClientLinks DEF AtMostOneOpen, OpenTo
  <1> QED
    BY <1>1, QueueTypes DEF QueueOK, Slots

LEMMA OpenStepOwn ==
  ASSUME TypeOK, NEW i \in EN, ClientStep(i), AtMostOneOpen(i)
  PROVE  AtMostOneOpen(i)'
  <1>0. /\ i \in Node /\ i \in Host /\ CN \in Listener
        /\ Cep(i) = <<i, CN>> /\ Cep(i) \in Link /\ Cep(i) \in Endpoint
    BY CepFacts
  <1>1. CASE HostDial(i)
    <2>1. Dial(i, CN) /\ rxc' = rxc /\ pc[i] = "dial"
      BY <1>1 DEF HostDial
    <2>2. \A q \in Listener : rq[<<i, q>>] = <<>> /\ rxc'[<<i, q>>] = <<>>
      BY <2>1, NothingOpen
    <2> QED
      BY <1>0, <2>1, <2>2, OpenAfterDial
  <1>2. CASE ConnectEvent(i)
    <2>1. UNCHANGED <<rq, rxc, peer>> /\ pc[i] = "await_cm"
          /\ pc'[i] \in {"await_keys", "failed"}
      BY <1>0, <1>2, GotoOwn DEF ConnectEvent
    <2> QED
      BY <2>1 DEF AtMostOneOpen, OpenTo, Slots
  <1>3. CASE ConnectKeys(i)
    <2>1. PICK e \in Endpoint : e[1] = i /\ ReadRx(e)
      BY <1>3 DEF ConnectKeys
    <2>2. pc[i] = "await_keys" /\ rq' = rq
      BY <1>3 DEF ConnectKeys
    <2>3. \A q \in Listener : rq[<<i, q>>] = <<>> /\ rxc'[<<i, q>>] = <<>>
      BY <2>1, <2>2, ReadClears
    <2> QED
      BY <1>0, <2>2, <2>3, OpenAfter
  <1>4. CASE Exit(i)
    <2>1. pc'[i] = "gone"
      BY <1>0, <1>4, GotoOwn DEF Exit
    <2> QED
      BY <2>1 DEF AtMostOneOpen
  <1>5. CASE AwaitConnect(i) \/ Confirm(i)
    <2>1. /\ pc[i] = "linked" /\ rxc' = rxc /\ CtrlRecv({Cep(i)}, IntSize)
          /\ pc'[i] \in {"await_connect", "confirm_tx"}
      BY <1>0, <1>5, GotoOwn DEF AwaitConnect, Confirm
    <2>2. \A q \in Listener : rq[<<i, q>>] = <<>> /\ rxc'[<<i, q>>] = <<>>
      BY <2>1, NothingOpen
    <2>3. /\ \A q \in Listener : q # CN => rq'[<<i, q>>] = rq[<<i, q>>]
          /\ rq'[<<i, CN>>] = Append(rq[<<i, CN>>], IntSize)
      BY <1>0, <2>1, RecvOwn, ClientLinks
    <2>4. CN \in OpenTo(i)'
      BY <2>1 DEF OpenTo
    <2> QED
      BY <1>0, <2>2, <2>3, <2>4, OpenAfter, SizeFacts
  <1>6. CASE RecvConnect(i)
    <2>1. PICK e \in Endpoint : e[1] = i /\ ReadRx(e)
      BY <1>6 DEF RecvConnect
    <2>2. pc[i] = "await_connect"
      BY <1>6 DEF RecvConnect
    <2>3. \A q \in Listener : rq[<<i, q>>] = <<>> /\ rxc'[<<i, q>>] = <<>>
      BY <2>1, <2>2, ReadClears
    <2>4. CASE Dial(i, NumEN)
      <3>1. <<i, NumEN>> \in Link
        BY DataEnds, NodeFacts
      <3> QED
        BY <2>3, <2>4, <3>1, OpenAfterDial
    <2>5. CASE Goto(i, "failed")
      BY <1>0, <2>5, GotoOwn DEF AtMostOneOpen
    <2> QED
      BY <1>6, <2>4, <2>5 DEF RecvConnect
  <1>7. CASE DialNext(i)
    <2>1. /\ Dial(i, peer[i] + 1) /\ <<i, peer[i] + 1>> \in Link
          /\ rxc' = rxc /\ pc[i] = "linked"
      BY <1>7, DataEnds DEF DialNext
    <2>2. \A q \in Listener : rq[<<i, q>>] = <<>> /\ rxc'[<<i, q>>] = <<>>
      BY <2>1, NothingOpen
    <2> QED
      BY <2>1, <2>2, OpenAfterDial
  <1>8. CASE ConfirmSent(i)
    <2>1. UNCHANGED <<rq, rxc, peer>> /\ pc[i] = "confirm_tx" /\ pc'[i] = "await_start"
      BY <1>0, <1>8, GotoOwn DEF ConfirmSent
    <2> QED
      BY <2>1 DEF AtMostOneOpen, OpenTo, Slots
  <1>9. CASE RecvStart(i) \/ BenchCommand(i)
    <2>1. PICK e \in Endpoint : e[1] = i /\ ReadRx(e)
      BY <1>9 DEF RecvStart, BenchCommand
    <2>2. pc[i] \in {"await_start", "bench"}
      BY <1>9 DEF RecvStart, BenchCommand
    <2>3. \A q \in Listener : rq[<<i, q>>] = <<>> /\ rxc'[<<i, q>>] = <<>>
      BY <2>1, <2>2, ReadClears
    <2>4. pc'[i] \in {"failed", "bench", "finished"}
      BY <1>0, <1>9, GotoOwn DEF RecvStart, BenchCommand
    <2>5. CN \in OpenTo(i)' \/ pc'[i] = "failed"
      BY <2>4 DEF OpenTo
    <2>6. \/ rq' = rq
          \/ \E size \in RecvSizes : CtrlRecv({Cep(i)}, size)
          \/ CtrlRecv({}, IntSize)
      BY <1>9, SizeFacts DEF RecvStart, BenchCommand
    <2>7. CASE \E size \in RecvSizes : CtrlRecv({Cep(i)}, size)
      <3>1. PICK size \in RecvSizes : CtrlRecv({Cep(i)}, size)
        BY <2>7
      <3>2. /\ \A q \in Listener : q # CN => rq'[<<i, q>>] = rq[<<i, q>>]
            /\ rq'[<<i, CN>>] = Append(rq[<<i, CN>>], size)
        BY <1>0, <3>1, RecvOwn, ClientLinks
      <3>3. CASE CN \in OpenTo(i)'
        BY <1>0, <2>3, <3>2, <3>3, OpenAfter
      <3>4. CASE pc'[i] = "failed"
        BY <3>4 DEF AtMostOneOpen
      <3> QED
        BY <2>5, <3>3, <3>4
    <2>8. CASE CtrlRecv({}, IntSize) \/ rq' = rq
      <3>1. \A q \in Listener : rq'[<<i, q>>] = rq[<<i, q>>]
        BY <2>8, RecvOwn, ClientLinks
      <3> QED
        BY <1>0, <2>3, <3>1, OpenAfter
    <2> QED
      BY <2>6, <2>7, <2>8
  <1> QED
    BY <1>1, <1>2, <1>3, <1>4, <1>5, <1>6, <1>7, <1>8, <1>9 DEF ClientStep, HostStep

LEMMA OpenStep ==
  ASSUME TypeOK, OwnEvents, [Next]_vars, NEW i \in EN, AtMostOneOpen(i)
  PROVE  AtMostOneOpen(i)'
  <1>0. i \in Node /\ i \in Host /\ i \notin PN /\ i # CN
    BY NodeFacts
  <1>1. CASE ClientStep(i)
    BY <1>1, OpenStepOwn
  <1>2. CASE Delivery
    <2>1. UNCHANGED <<pc, peer>>
      BY <1>2 DEF Delivery, nodeVars
    <2>2. \A q \in Listener : Slots(<<i, q>>)' = Slots(<<i, q>>)
      BY <1>2, SlotsDelivered, ClientLinks DEF Delivery
    <2> QED
      BY <2>1, <2>2 DEF AtMostOneOpen, OpenTo
  <1>3. CASE Elsewhere(i)
    <2>2. pc'[i] = pc[i] /\ peer'[i] = peer[i]
      BY <1>0, <1>3 DEF Elsewhere
    <2>3. ASSUME NEW q \in Listener PROVE Slots(<<i, q>>)' = Slots(<<i, q>>)
      <3>1. Untouched(<<i, q>>)
        BY <1>3, ClientLinks DEF Elsewhere
      <3> QED
        BY <3>1 DEF Untouched, Slots
    <2> QED
      BY <2>2, <2>3 DEF AtMostOneOpen, OpenTo
  <1> QED
    BY <1>0, <1>1, <1>2, <1>3, StepOwn

-----------------------------------------------------------------------------
(* Events and links: who changes them. *)

\* A call of h to q, made by connectToController or by connectToServers.
Dials(h, q) == Dial(h, q) /\ IF q = CN THEN HostDial(h) ELSE RecvConnect(h) \/ DialNext(h)

Joins(l) == Establish(l) /\ UNCHANGED nodeVars

\* A step in which node p reads an event.
Handles(p) == \/ ConnectEvent(p) \/ WaitAllConn(p) \/ ServeEvent(p)
              \/ p = CN /\ AwaitShutdown

\* What brings event v to node p.
Cause(p, v) ==
  \/ v.kind = "CONNREQ"   /\ v.ep \in Passive /\ Dials(v.ep[2], p)
  \/ v.kind = "CONNECTED" /\ Joins(LinkOf(v.ep))
  \/ v.kind = "SHUTDOWN"  /\ link[LinkOf(v.ep)] = "up" /\ Exit(v.ep[2])
  \/ v.kind = "REFUSED"   /\ v.ep \in Link /\ Dials(p, v.ep[2]) /\ ~listening[v.ep[2]]

\* A node reads its oldest event, or something adds one.
EventStep(p) ==
  \/ eq'[p] = eq[p]
  \/ eq[p] # <<>> /\ eq'[p] = Tail(eq[p]) /\ Handles(p)
  \/ \E v \in Events : v.ep[1] = p /\ eq'[p] = Append(eq[p], v) /\ Cause(p, v)

\* Node q accepts the call of l.
Accepts(q, l) ==
  /\ WaitAllConn(q) \/ ServeEvent(q)
  /\ eq[q] # <<>> /\ Head(eq[q]).kind = "CONNREQ" /\ Head(eq[q]).ep = Rev(l)

LinkStep(l) ==
  \/ link'[l] = link[l]
  \/ link[l] = "up" /\ link'[l] = "down" /\ (Exit(l[1]) \/ Exit(l[2]))
  \/ Dials(l[1], l[2]) /\ link'[l] = "requested"
  \/ Joins(l) /\ link[l] = "accepted" /\ link'[l] = "up"
  \/ Accepts(l[2], l) /\ link'[l] = "accepted"

\* An endpoint is reached by the link it belongs to.
LEMMA LinkOfFacts ==
  /\ \A l \in Link : LinkOf(Rev(l)) = l /\ LinkOf(l) = l /\ Rev(Rev(l)) = l
  /\ \A e \in Passive : Rev(LinkOf(e)) = e /\ LinkOf(e) \in Link
                        /\ LinkOf(e)[2] = e[1] /\ LinkOf(e)[1] = e[2]
  <1>1. ASSUME NEW l \in Link
        PROVE  LinkOf(Rev(l)) = l /\ LinkOf(l) = l /\ Rev(Rev(l)) = l
    <2>1. l = <<l[1], l[2]>> /\ Rev(l) = <<l[2], l[1]>> /\ Rev(l) \in Passive /\ LinkOf(l) = l
      BY LinkShape
    <2>2. LinkOf(Rev(l)) = Rev(Rev(l))
      BY <2>1, PassiveShape
    <2>3. Rev(Rev(l)) = <<l[1], l[2]>>
      BY <2>1 DEF Rev
    <2> QED
      BY <2>1, <2>2, <2>3
  <1>2. ASSUME NEW e \in Passive
        PROVE  /\ Rev(LinkOf(e)) = e /\ LinkOf(e) \in Link
               /\ LinkOf(e)[2] = e[1] /\ LinkOf(e)[1] = e[2]
    <2>1. e = <<e[1], e[2]>> /\ LinkOf(e) = <<e[2], e[1]>> /\ LinkOf(e) \in Link
      BY PassiveShape
    <2>2. Rev(<<e[2], e[1]>>) = <<e[1], e[2]>>
      BY DEF Rev
    <2> QED
      BY <2>1, <2>2
  <1> QED
    BY <1>1, <1>2

LEMMA CallMoves ==
  ASSUME TypeOK, NEW h \in Host, NEW q, <<h, q>> \in Link, Dials(h, q)
  PROVE  /\ \A p \in Node : EventStep(p)
         /\ \A l \in Link : LinkStep(l)
         /\ listening[q] =>
              /\ link'[<<h, q>>] = "requested"
              /\ eq'[q] = Append(eq[q], [kind |-> "CONNREQ", ep |-> <<q, h>>])
         /\ ~listening[q] => link' = link /\ \A p \in Node : p # h => eq'[p] = eq[p]
  <1> DEFINE c == <<h, q>>
             v == [kind |-> "CONNREQ", ep |-> Rev(c)]
             w == [kind |-> "REFUSED", ep |-> c]
  <1>0. /\ h \in Node /\ q \in Node /\ c \in Link /\ c \in Endpoint /\ c[1] = h /\ c[2] = q
        /\ Rev(c) \in Passive /\ Rev(c) \in Endpoint /\ Rev(c)[1] = q /\ Rev(c)[2] = h
        /\ c = <<h, q>> /\ Rev(c) = <<q, h>>
        /\ Request(c) /\ Dialled(c) = {Rev(c)}
        /\ eq \in [Node -> Seq(Events)] /\ link \in [Link -> LinkStates]
    <2>1. c \in Endpoint /\ Rev(c) \in Endpoint /\ h \in Node /\ q \in Node
      BY EndpointFacts
    <2>2. Rev(c) = <<q, h>> /\ Rev(c) \in Passive
      BY LinkShape DEF Rev
    <2>3. Request(c) /\ Dialled(c) = {Rev(c)}
      BY Wiring DEF Dials, Dial
    <2>4. c = <<h, q>> /\ c[1] = h /\ c[2] = q
      OBVIOUS
    <2>5. Rev(c)[1] = q /\ Rev(c)[2] = h
      BY <2>2
    <2>6. eq \in [Node -> Seq(Events)] /\ link \in [Link -> LinkStates]
      BY DEF TypeOK, FabricTypeOK
    <2> QED
      BY <2>1, <2>2, <2>3, <2>4, <2>5, <2>6
  <1>1. v \in Events /\ w \in Events
    BY <1>0 DEF Events
  <1>2. Cause(q, v)
    BY <1>0 DEF Cause
  <1> HIDE DEF c
  <1>3. CASE listening[q]
    <2>1. eq' = [eq EXCEPT ![q] = Append(@, v)] /\ link' = [link EXCEPT ![c] = "requested"]
      BY <1>0, <1>3 DEF Request
    <2>2. ASSUME NEW p \in Node PROVE EventStep(p)
      <3>1. v.ep[1] = q
        BY <1>0
      <3> HIDE DEF v
      <3>2. eq'[p] = IF p = q THEN Append(eq[p], v) ELSE eq[p]
        BY <1>0, <2>1
      <3> QED
        BY <1>1, <1>2, <3>1, <3>2 DEF EventStep
    <2>3. ASSUME NEW l \in Link PROVE LinkStep(l)
      <3>1. link'[l] = IF l = c THEN "requested" ELSE link[l]
        BY <1>0, <2>1
      <3> QED
        BY <1>0, <3>1 DEF LinkStep
    <2>4. /\ link'[c] = "requested" 
          /\ eq'[q] = Append(eq[q], [kind |-> "CONNREQ", ep |-> Rev(c)])
      BY <1>0, <2>1
    <2> QED
      BY <1>0, <1>3, <2>2, <2>3, <2>4
  <1>4. CASE ~listening[q]
    <2>1. eq' = [eq EXCEPT ![h] = Append(@, w)] /\ link' = link
      BY <1>0, <1>4 DEF Request
    <2>2. Cause(h, w)
      BY <1>0, <1>4 DEF Cause
    <2>3. ASSUME NEW p \in Node PROVE EventStep(p)
      <3>1. w.ep[1] = h
        BY <1>0
      <3> HIDE DEF w
      <3>2. eq'[p] = IF p = h THEN Append(eq[p], w) ELSE eq[p]
        BY <1>0, <2>1
      <3> QED
        BY <1>1, <2>2, <3>1, <3>2 DEF EventStep
    <2>4. \A p \in Node : p # h => eq'[p] = eq[p]
      BY <1>0, <2>1
    <2> QED
      BY <1>4, <2>1, <2>3, <2>4 DEF LinkStep
  <1> QED
    BY <1>3, <1>4

LEMMA ExitMoves ==
  ASSUME TypeOK, NEW q \in Node, Exit(q)
  PROVE  /\ \A p \in Node : EventStep(p)
         /\ \A l \in Link : LinkStep(l)
  <1>1. Disconnect(q)
    BY DEF Exit
  <1>2. ASSUME NEW p \in Node PROVE EventStep(p)
    <2> DEFINE v == [kind |-> "SHUTDOWN", ep |-> <<p, q>>]
    <2>1. \/ eq'[p] = eq[p]
          \/ <<p, q>> \in Endpoint /\ link[LinkOf(<<p, q>>)] = "up" /\ eq'[p] = Append(eq[p], v)
      BY <1>1 DEF Disconnect
    <2>2. <<p, q>> \in Endpoint => v \in Events
      BY DEF Events
    <2>3. v.kind = "SHUTDOWN" /\ v.ep = <<p, q>> /\ v.ep[1] = p /\ v.ep[2] = q
      OBVIOUS
    <2> HIDE DEF v
    <2>4. CASE eq'[p] = eq[p]
      BY <2>4 DEF EventStep
    <2>5. CASE /\ <<p, q>> \in Endpoint /\ link[LinkOf(<<p, q>>)] = "up"
               /\ eq'[p] = Append(eq[p], v)
      <3>1. Cause(p, v)
        BY <2>3, <2>5 DEF Cause
      <3> QED
        BY <2>2, <2>3, <2>5, <3>1 DEF EventStep
    <2> QED
      BY <2>1, <2>4, <2>5
  <1>3. ASSUME NEW l \in Link PROVE LinkStep(l)
    BY <1>1 DEF Disconnect, LinkStep
  <1> QED
    BY <1>2, <1>3

LEMMA HandleMoves ==
  ASSUME TypeOK, OwnEvents, NEW q \in Node, WaitAllConn(q) \/ ServeEvent(q)
  PROVE  /\ \A p \in Node : EventStep(p)
         /\ \A l \in Link : LinkStep(l)
  <1> DEFINE v == Head(eq[q])
  <1>0. /\ eq[q] # <<>> /\ HandleEvent(q, v)
        /\ eq \in [Node -> Seq(Events)] /\ link \in [Link -> LinkStates]
    BY DEF WaitAllConn, ServeEvent, TypeOK, FabricTypeOK
  <1>1. v.kind = "CONNREQ" => v.ep \in Passive
    <2>1. v = eq[q][1] /\ 1 \in DOMAIN eq[q]
      BY <1>0, TailFacts
    <2> QED
      BY <2>1 DEF OwnEvents
  <1>2. v.ep[1] = q
    BY <1>0, HandleOwn
  <1>3. ASSUME NEW p \in Node PROVE EventStep(p)
    BY <1>0 DEF HandleEvent, EventStep, Handles
  <1>4. ASSUME NEW l \in Link PROVE LinkStep(l)
    <2>1. CASE v.kind = "CONNREQ" /\ LinkOf(v.ep) = l
      <3>1. Rev(l) = v.ep /\ l[2] = q
        BY <1>1, <1>2, <2>1, LinkOfFacts
      <3>2. link'[l] = "accepted"
        BY <1>0, <2>1 DEF HandleEvent
      <3> QED
        BY <1>0, <2>1, <3>1, <3>2 DEF LinkStep, Accepts
    <2>2. CASE ~(v.kind = "CONNREQ" /\ LinkOf(v.ep) = l)
      <3>1. link'[l] = link[l]
        BY <1>0, <2>2 DEF HandleEvent
      <3> QED
        BY <3>1 DEF LinkStep
    <2> QED
      BY <2>1, <2>2
  <1> QED
    BY <1>3, <1>4

LEMMA JoinMoves ==
  ASSUME TypeOK, NEW c \in Link, Joins(c)
  PROVE  /\ \A p \in Node : EventStep(p)
         /\ \A l \in Link : LinkStep(l)
         /\ link[c] = "accepted" /\ link'[c] = "up"
         /\ eq'[c[1]] = Append(eq[c[1]], [kind |-> "CONNECTED", ep |-> c])
         /\ eq'[c[2]] = Append(eq[c[2]], [kind |-> "CONNECTED", ep |-> Rev(c)])
  <1> DEFINE v == [kind |-> "CONNECTED", ep |-> c]
             w == [kind |-> "CONNECTED", ep |-> Rev(c)]
  <1>0. /\ c[1] \in Node /\ c[2] \in Node /\ c[1] # c[2] /\ eq \in [Node -> Seq(Events)]
        /\ c \in Endpoint /\ Rev(c) \in Endpoint /\ Rev(c)[1] = c[2]
        /\ link \in [Link -> LinkStates]
    <2>1. eq \in [Node -> Seq(Events)] /\ link \in [Link -> LinkStates]
      BY DEF TypeOK, FabricTypeOK
    <2>2. c \in Endpoint /\ Rev(c) \in Endpoint /\ c[1] \in Node /\ c[2] \in Node
      BY EndpointFacts
    <2>3. c[1] # c[2] /\ Rev(c)[1] = c[2]
      BY LinkShape, NodeFacts
    <2> QED
      BY <2>1, <2>2, <2>3
  <1>1. v \in Events /\ w \in Events /\ v.ep[1] = c[1] /\ w.ep[1] = c[2]
    BY <1>0 DEF Events
  <1>2. Cause(c[1], v) /\ Cause(c[2], w)
    BY LinkOfFacts DEF Cause
  <1>3. eq' = [eq EXCEPT ![c[1]] = Append(@, v), ![c[2]] = Append(@, w)]
    BY DEF Joins, Establish
  <1>4. link[c] = "accepted" /\ link' = [link EXCEPT ![c] = "up"]
    BY DEF Joins, Establish
  <1>5. ASSUME NEW l \in Link PROVE LinkStep(l)
    BY <1>0, <1>4 DEF LinkStep
  <1>6. link'[c] = "up"
    BY <1>0, <1>4
  <1> HIDE DEF v, w
  <1>7. ASSUME NEW p \in Node
        PROVE  eq'[p] = IF p = c[1] THEN Append(eq[p], v)
                        ELSE IF p = c[2] THEN Append(eq[p], w) ELSE eq[p]
    BY <1>0, <1>3
  <1>8. ASSUME NEW p \in Node PROVE EventStep(p)
    BY <1>1, <1>2, <1>7 DEF EventStep
  <1> QED
    BY <1>0, <1>4, <1>5, <1>6, <1>7, <1>8 DEF v, w

LEMMA EventSteps ==
  ASSUME TypeOK, OwnEvents, [Next]_vars
  PROVE  /\ \A p \in Node : EventStep(p)
         /\ \A l \in Link : LinkStep(l)
  <1> DEFINE Moves == (\A p \in Node : EventStep(p)) /\ (\A l \in Link : LinkStep(l))
  <1>1. ASSUME UNCHANGED <<eq, link>> PROVE Moves
    BY <1>1 DEF EventStep, LinkStep
  <1>2. ASSUME NEW q \in Node, eq[q] # <<>>, eq' = [eq EXCEPT ![q] = Tail(@)], link' = link,
               Handles(q)
        PROVE  Moves
    BY <1>2 DEF EventStep, LinkStep, TypeOK, FabricTypeOK
  <1>3. ASSUME NEW h \in Host, HostStep(h) PROVE Moves
    <2>0. h \in Node /\ <<h, CN>> \in Link
      BY NodeFacts, ControlEnds
    <2>1. CASE HostDial(h)
      BY <2>0, <2>1, CallMoves DEF HostDial, Dials
    <2>2. CASE ConnectEvent(h)
      BY <1>2, <2>0, <2>2 DEF ConnectEvent, Handles
    <2>3. CASE ConnectKeys(h)
      BY <1>1, <2>3 DEF ConnectKeys
    <2>4. CASE Exit(h)
      BY <2>0, <2>4, ExitMoves
    <2> QED
      BY <1>3, <2>1, <2>2, <2>3, <2>4 DEF HostStep
  <1>4. ASSUME NEW i \in EN, ClientStep(i) PROVE Moves
    <2>0. i \in Host /\ \A s \in PN : <<i, s>> \in Link /\ s # CN
      BY NodeFacts, DataEnds
    <2>1. CASE HostStep(i)
      BY <1>3, <2>0, <2>1
    <2>2. ASSUME NEW s \in PN, Dial(i, s), RecvConnect(i) \/ DialNext(i) PROVE Moves
      BY <2>0, <2>2, CallMoves DEF Dials
    <2>3. CASE DialNext(i)
      BY <2>2, <2>3 DEF DialNext
    <2>4. CASE RecvConnect(i)
      <3>1. UNCHANGED <<eq, link>> \/ Dial(i, NumEN)
        BY <2>4 DEF RecvConnect
      <3>2. NumEN \in PN
        BY NodeFacts
      <3>3. CASE UNCHANGED <<eq, link>>
        BY <1>1, <3>3
      <3>4. CASE Dial(i, NumEN)
        BY <2>2, <2>4, <3>2, <3>4
      <3> QED
        BY <3>1, <3>3, <3>4
    <2>5. CASE \/ AwaitConnect(i) \/ Confirm(i) \/ ConfirmSent(i) \/ RecvStart(i)
               \/ BenchCommand(i)
      BY <1>1, <2>5 DEF AwaitConnect, Confirm, ConfirmSent, RecvStart, BenchCommand
    <2> QED
      BY <1>4, <2>1, <2>3, <2>4, <2>5 DEF ClientStep
  <1>5. ASSUME NEW s \in PN, ServerStep(s) PROVE Moves
    <2>0. s \in Host /\ s \in Node
      BY NodeFacts
    <2>1. CASE HostStep(s)
      BY <1>3, <2>0, <2>1
    <2>2. CASE WaitAllConn(s) \/ ServeEvent(s)
      BY <2>0, <2>2, HandleMoves
    <2>3. CASE ServerListen(s) \/ ServerReady(s) \/ ServeCommand(s)
      BY <1>1, <2>3 DEF ServerListen, ServerReady, ServeCommand
    <2> QED
      BY <1>5, <2>1, <2>2, <2>3 DEF ServerStep
  <1>6. CASE ControllerStep
    <2>0. CN \in Node
      BY NodeFacts
    <2>1. CASE WaitAllConn(CN)
      BY <2>0, <2>1, HandleMoves
    <2>2. CASE AwaitShutdown
      BY <1>2, <2>0, <2>2 DEF AwaitShutdown, Handles
    <2>3. CASE Exit(CN)
      BY <2>0, <2>3, ExitMoves
    <2>4. CASE ControllerConnect \/ ControllerStart \/ ControllerCheckpoint \/ ControllerStop
      BY <1>1, <2>4 DEF ControllerConnect, ControllerStart, ControllerCheckpoint,
                        ControllerStop, ControllerUnchanged
    <2>5. CASE ConnectSent \/ StartSent \/ CheckpointSent \/ StopSent
      BY <1>1, <2>5 DEF ConnectSent, StartSent, CheckpointSent, StopSent, CommandsSent,
                        ControllerUnchanged
    <2>6. CASE \/ CollectConfirm \/ CollectCheckpoint \/ CollectSummary
               \/ CheckpointDone \/ SummaryDone \/ ControllerDone
      BY <1>1, <2>6 DEF CollectConfirm, CollectCheckpoint, CollectSummary, CheckpointDone,
                        SummaryDone, ControllerDone, ControllerUnchanged, fabricVars
    <2> QED
      BY <1>6, <2>1, <2>2, <2>3, <2>4, <2>5, <2>6 DEF ControllerStep
  <1>7. CASE NetworkStep
    <2>1. CASE \E l \in Link : Establish(l)
      BY <1>7, <2>1, JoinMoves DEF Joins, NetworkStep
    <2>2. CASE \E e \in Endpoint : Transmit(e)
      BY <1>1, <2>2 DEF Transmit
    <2> QED
      BY <1>7, <2>1, <2>2 DEF NetworkStep, Network
  <1>8. CASE UNCHANGED vars
    BY <1>1, <1>8 DEF vars, fabricVars
  <1> QED
    BY <1>4, <1>5, <1>6, <1>7, <1>8 DEF Next

LEMMA OwnEventsStep ==
  ASSUME TypeOK, OwnEvents, [Next]_vars
  PROVE  OwnEvents'
  <1> SUFFICES ASSUME NEW p \in Node, NEW k \in DOMAIN eq'[p]
               PROVE  /\ eq'[p][k].ep[1] = p
                      /\ eq'[p][k].kind = "CONNREQ" => eq'[p][k].ep \in Passive
    BY DEF OwnEvents
  <1>1. EventStep(p) /\ eq[p] \in Seq(Events)
    BY EventSteps DEF TypeOK, FabricTypeOK
  <1>2. CASE eq'[p] = eq[p]
    BY <1>2 DEF OwnEvents
  <1>3. CASE eq[p] # <<>> /\ eq'[p] = Tail(eq[p])
    <2>1. k + 1 \in DOMAIN eq[p] /\ eq'[p][k] = eq[p][k + 1]
      BY <1>1, <1>3, TailFacts
    <2> QED
      BY <2>1 DEF OwnEvents
  <1>4. CASE \E v \in Events : v.ep[1] = p /\ eq'[p] = Append(eq[p], v) /\ Cause(p, v)
    <2>1. PICK v \in Events : /\ v.ep[1] = p /\ eq'[p] = Append(eq[p], v)
                              /\ v.kind = "CONNREQ" => v.ep \in Passive
      BY <1>4 DEF Cause
    <2>2. \/ k \in DOMAIN eq[p] /\ eq'[p][k] = eq[p][k]
          \/ eq'[p][k] = v
      BY <1>1, <2>1, AppendFacts
    <2> QED
      BY <2>1, <2>2 DEF OwnEvents
  <1> QED
    BY <1>1, <1>2, <1>3, <1>4 DEF EventStep

-----------------------------------------------------------------------------
(* What comes from a server is its keys; a client that has them keeps them. *)

LEMMA ClientData ==
  ASSUME TypeOK, NEW i \in EN, ClientStep(i), NEW s \in PN
  PROVE  /\ buf'[<<i, s>>] = buf[<<i, s>>]
         /\ rxc'[<<i, s>>] # <<>> => rxc[<<i, s>>] # <<>>
  <1>0. /\ i \in Host /\ <<i, s>> \in Endpoint /\ s # CN
        /\ Cep(i) = <<i, CN>> /\ Cep(i) # <<i, s>>
    <2>1. i \in Host /\ s # CN
      BY NodeFacts
    <2>2. Cep(i) = <<i, CN>> /\ <<i, s>> \in Endpoint
      BY <2>1, DataEnds, EndpointFacts, ControlEnds
    <2> QED
      BY <2>1, <2>2
  <1>1. buf'[<<i, s>>] = buf[<<i, s>>]
    <2>1. \/ buf' = buf
          \/ SendCommand({Cep(i)}, "CONNECTED")
          \/ \E m : DOMAIN m = {Cep(i)} /\ CtrlSend(m)
      BY DEF ClientStep, HostStep, HostDial, ConnectEvent, ConnectKeys, Exit, AwaitConnect,
             RecvConnect, DialNext, Confirm, ConfirmSent, RecvStart, BenchCommand
    <2>2. CASE SendCommand({Cep(i)}, "CONNECTED")
      BY <1>0, <2>2, CommandOwn
    <2>3. CASE \E m : DOMAIN m = {Cep(i)} /\ CtrlSend(m)
      BY <1>0, <2>3, SendOwn
    <2> QED
      BY <2>1, <2>2, <2>3
  <1>2. rxc'[<<i, s>>] # <<>> => rxc[<<i, s>>] # <<>>
    <2>1. rxc' = rxc \/ \E e \in Endpoint : ReadRx(e)
      BY DEF ClientStep, HostStep, HostDial, ConnectEvent, ConnectKeys, Exit, AwaitConnect,
             RecvConnect, DialNext, Confirm, ConfirmSent, RecvStart, BenchCommand
    <2>2. CASE \E e \in Endpoint : ReadRx(e)
      BY <1>0, <2>2, ReadOwn
    <2> QED
      BY <2>1, <2>2
  <1> QED
    BY <1>1, <1>2

LEMMA ServerData ==
  ASSUME TypeOK, NEW s \in PN, ServerStep(s), NEW i \in EN
  PROVE  \/ sq'[<<s, i>>] = sq[<<s, i>>]
         \/ sq'[<<s, i>>] = Append(sq[<<s, i>>], KeysOf(<<s, i>>))
  <1>0. <<s, i>> \in Endpoint
    BY DataEnds, EndpointFacts
  <1>1. CASE sq' = sq
    BY <1>1
  <1>2. CASE \E v : CtrlSend([e \in {v} |-> KeysOf(e)])
    <2>1. PICK v : CtrlSend([e \in {v} |-> KeysOf(e)])
      BY <1>2
    <2> QED
      BY <1>0, <2>1, SendOwn
  <1>3. sq' = sq \/ \E v : CtrlSend([e \in {v} |-> KeysOf(e)])
    BY DEF ServerStep, HostStep, HostDial, ConnectEvent, ConnectKeys, Exit, ServerListen,
           WaitAllConn, HandleEvent, ServerReady, ServeCommand, ServeEvent
  <1> QED
    BY <1>1, <1>2, <1>3

LEMMA OnlyKeysStep ==
  ASSUME TypeOK, OwnEvents, OnlyKeys, [Next]_vars
  PROVE  OnlyKeys'
  <1> SUFFICES ASSUME NEW i \in EN, NEW s \in PN
               PROVE  /\ \A k \in DOMAIN sq'[<<s, i>>] : sq'[<<s, i>>][k] = KeysOf(<<s, i>>)
                      /\ rxc'[<<i, s>>] # <<>> => buf'[<<i, s>>] = KeysOf(<<s, i>>)
    BY DEF OnlyKeys
  <1> DEFINE out == <<s, i>>
             in  == <<i, s>>
  <1>0. /\ out \in Endpoint /\ in \in Endpoint /\ Rev(out) = in /\ out[1] = s /\ in[1] = i
        /\ s \in Node /\ i \in Node /\ i \notin PN /\ s \notin EN /\ i # CN /\ s # CN
        /\ sq[out] \in Seq(Msg) /\ KeysOf(out) \in Msg
    BY DataEnds, EndpointFacts, NodeFacts, QueueTypes, MsgFacts DEF QueueOK
  <1>1. /\ \A k \in DOMAIN sq[out] : sq[out][k] = KeysOf(out)
        /\ rxc[in] # <<>> => buf[in] = KeysOf(out)
    BY DEF OnlyKeys
  <1> HIDE DEF out, in
  <1>2. \A k \in DOMAIN sq'[out] : sq'[out][k] = KeysOf(out)
    <2>1. CASE sq'[out] = sq[out]
      BY <1>1, <2>1
    <2>2. CASE sq'[out] = Append(sq[out], KeysOf(out))
      BY <1>0, <1>1, <2>2, AppendFacts
    <2>3. CASE sq[out] # <<>> /\ sq'[out] = Tail(sq[out])
      BY <1>0, <1>1, <2>3, TailFacts
    <2>4. CASE Delivery
      <3>1. PICK e \in Endpoint : Transmit(e)
        BY <2>4 DEF Delivery
      <3>2. CASE e = out
        <4>1. sq[out] # <<>> /\ sq'[out] = Tail(sq[out])
          BY <3>1, <3>2, TransmitOwn
        <4> QED
          BY <2>3, <4>1
      <3>3. CASE e # out
        BY <1>0, <2>1, <3>1, <3>3, TransmitOwn
      <3> QED
        BY <3>2, <3>3
    <2>5. CASE ServerStep(s)
      BY <2>1, <2>2, <2>5, ServerData DEF out
    <2>6. CASE Elsewhere(s)
      BY <1>0, <2>1, <2>6 DEF Elsewhere, Untouched
    <2> QED
      BY <1>0, <2>4, <2>5, <2>6, StepOwn
  <1>3. rxc'[in] # <<>> => buf'[in] = KeysOf(out)
    <2>1. CASE rxc'[in] = rxc[in] /\ buf'[in] = buf[in]
      BY <1>1, <2>1
    <2>2. CASE Delivery
      <3>1. PICK e \in Endpoint : Transmit(e)
        BY <2>2 DEF Delivery
      <3>2. CASE e = out
        <4>1. sq[out] # <<>> /\ buf'[in] = Head(sq[out])
          BY <1>0, <3>1, <3>2, TransmitOwn
        <4>2. Head(sq[out]) = sq[out][1] /\ 1 \in DOMAIN sq[out]
          BY <1>0, <4>1
        <4> QED
          BY <1>1, <4>1, <4>2
      <3>3. CASE e # out
        <4>1. Rev(e) # in
          BY <1>0, <3>1, <3>3, TransmitOwn DEF Rev, in, out
        <4> QED
          BY <1>0, <2>1, <3>1, <4>1, TransmitOwn
      <3> QED
        BY <3>2, <3>3
    <2>3. CASE ClientStep(i)
      BY <1>1, <2>3, ClientData DEF in
    <2>4. CASE Elsewhere(i)
      BY <1>0, <2>1, <2>4 DEF Elsewhere, Untouched
    <2> QED
      BY <1>0, <2>2, <2>3, <2>4, StepOwn
  <1> QED
    BY <1>2, <1>3 DEF in, out

\* The keys a client stores are those of the server it has called.
LEMMA KeysStored ==
  ASSUME TypeOK, OnlyKeys, NEW i \in EN, AtMostOneOpen(i), ConnectKeys(i)
  PROVE  /\ pc[i] = "await_keys" /\ pc'[i] \in {"linked", "failed"} /\ peer' = peer
         /\ \A l \in Link : l # <<i, peer[i]>> => remoteKeys'[l] = remoteKeys[l]
         /\ peer[i] \in PN =>
              \/ remoteKeys'[<<i, peer[i]>>] = KeysOf(<<peer[i], i>>)
              \/ pc'[i] = "failed" /\ remoteKeys' = remoteKeys
         /\ \E e \in Endpoint : e = <<i, peer[i]>> /\ ReadRx(e)
  <1>0. i \in Node /\ i \in Host /\ i \notin PN /\ peer[i] \in Listener
    BY NodeFacts DEF TypeOK
  <1>1. pc[i] = "await_keys" /\ peer' = peer /\ pc'[i] \in {"linked", "failed"}
    BY <1>0, GotoOwn DEF ConnectKeys
  <1>2. PICK e \in Endpoint :
          /\ e[1] = i /\ ReadRx(e)
          /\ IF Head(rxc[e]).size = Head(rxc[e]).len
             THEN remoteKeys' = [remoteKeys EXCEPT ![<<i, peer[i]>>] = buf[<<i, peer[i]>>]]
             ELSE Goto(i, "failed") /\ UNCHANGED remoteKeys
    BY DEF ConnectKeys
  <1>3. e = <<i, e[2]>> /\ e[2] \in OpenTo(i)
    BY <1>1, <1>2, ReadClears
  <1>4. e = <<i, peer[i]>>
    BY <1>1, <1>3 DEF OpenTo
  <1>5. <<i, peer[i]>> \in Link /\ remoteKeys \in [Link -> Msg]
    BY <1>0, ClientLinks DEF TypeOK
  <1>6. peer[i] \in PN => buf[<<i, peer[i]>>] = KeysOf(<<peer[i], i>>)
    BY <1>2, <1>4, ReadOwn DEF OnlyKeys
  <1>7. CASE remoteKeys' = [remoteKeys EXCEPT ![<<i, peer[i]>>] = buf[<<i, peer[i]>>]]
    BY <1>1, <1>2, <1>4, <1>5, <1>6, <1>7
  <1>8. CASE Goto(i, "failed") /\ UNCHANGED remoteKeys
    BY <1>0, <1>1, <1>2, <1>4, <1>8, GotoOwn
  <1> QED
    BY <1>2, <1>7, <1>8

LEMMA EquippedStable ==
  ASSUME TypeOK, OwnEvents, OnlyKeys, [Next]_vars, NEW i \in EN, AtMostOneOpen(i),
         NEW s \in PN, HoldsKey(i, s)
  PROVE  HoldsKey(i, s)'
  <1>0. <<i, s>> \in Link /\ i \in Node /\ i \in Host /\ i \notin PN /\ i # CN
    BY DataEnds, NodeFacts
  <1>1. CASE remoteKeys'[<<i, s>>] = remoteKeys[<<i, s>>]
    BY <1>1 DEF HoldsKey
  <1>2. CASE Delivery
    BY <1>1, <1>2 DEF Delivery, nodeVars
  <1>3. CASE Elsewhere(i)
    BY <1>0, <1>1, <1>3 DEF Elsewhere
  <1>4. CASE ClientStep(i)
    <2>1. CASE ConnectKeys(i)
      <3>1. CASE s = peer[i]
        BY <1>1, <2>1, <3>1, KeysStored DEF HoldsKey
      <3>2. CASE s # peer[i]
        <4>1. <<i, s>> # <<i, peer[i]>>
          BY <3>2
        <4> QED
          BY <1>0, <1>1, <2>1, <4>1, KeysStored
      <3> QED
        BY <3>1, <3>2
    <2>2. CASE ~ConnectKeys(i)
      <3>1. remoteKeys' = remoteKeys
        BY <1>4, <2>2
           DEF ClientStep, HostStep, HostDial, ConnectEvent, Exit, AwaitConnect, RecvConnect,
               DialNext, Confirm, ConfirmSent, RecvStart, BenchCommand
      <3> QED
        BY <1>1, <3>1
    <2> QED
      BY <2>1, <2>2
  <1> QED
    BY <1>0, <1>2, <1>3, <1>4, StepOwn

-----------------------------------------------------------------------------
(* How host h and the controller get connected. *)

\* Nothing new about h among the controller's events.
EqCalm(h) ==
  \/ eq'[CN] = eq[CN]
  \/ \E v \in Events : /\ eq'[CN] = Append(eq[CN], v)
                       /\ v.ep = <<CN, h>> => v.kind \notin {"CONNREQ", "CONNECTED"}

LinkCalm(h) ==
  \/ link'[Cep(h)] = link[Cep(h)]
  \/ link[Cep(h)] = "up" /\ link'[Cep(h)] = "down"

SetupPC == {"wait_all", "connect_tx", "connect_rx", "failed", "gone"}

LEMMA CalmStep ==
  ASSUME TypeOK, OwnEvents, [Next]_vars, NEW h \in Host, pc[CN] \in SetupPC
  PROVE  \/ EqCalm(h) /\ LinkCalm(h)
         \/ HostDial(h)
         \/ Joins(Cep(h))
         \/ WaitAllConn(CN)
  <1> SUFFICES ASSUME ~HostDial(h), ~Joins(Cep(h)), ~WaitAllConn(CN)
               PROVE  EqCalm(h) /\ LinkCalm(h)
    OBVIOUS
  <1>0. /\ Cep(h) = <<h, CN>> /\ Cep(h) \in Link /\ CN \in Node /\ <<CN, h>>[2] = h
        /\ LinkOf(<<CN, h>>) = Cep(h) /\ ~ServeEvent(CN) /\ ~ConnectEvent(CN)
    <2>1. ~ServeEvent(CN) /\ ~ConnectEvent(CN)
      BY DEF ServeEvent, ConnectEvent, SetupPC
    <2> QED
      BY <2>1, HostFacts
  <1>1. EqCalm(h)
    <2>1. EventStep(CN)
      BY <1>0, EventSteps
    <2>2. ~Handles(CN)
      BY <1>0 DEF Handles, AwaitShutdown, SetupPC
    <2>3. ASSUME NEW v \in Events, v.ep = <<CN, h>>, Cause(CN, v)
          PROVE  v.kind \notin {"CONNREQ", "CONNECTED"}
      BY <1>0, <2>3 DEF Cause, Dials
    <2> QED
      BY <2>1, <2>2, <2>3 DEF EventStep, EqCalm
  <1>2. LinkCalm(h)
    <2>1. LinkStep(Cep(h))
      BY <1>0, EventSteps
    <2>2. ~Dials(h, CN) /\ ~Accepts(CN, Cep(h))
      BY <1>0 DEF Dials, Accepts
    <2> QED
      BY <1>0, <2>1, <2>2 DEF LinkStep, LinkCalm
  <1> QED
    BY <1>1, <1>2

\* The places of a client, in the order of its code.
LEMMA ClientMoves ==
  ASSUME TypeOK, NEW i \in EN, ClientStep(i)
  PROVE  \/ pc[i] = "dial" /\ pc'[i] = "await_cm"
         \/ pc[i] = "await_cm" /\ pc'[i] \in {"await_keys", "failed"}
         \/ pc[i] = "await_keys" /\ pc'[i] \in {"linked", "failed"}
         \/ pc[i] = "linked" /\ pc'[i] \in {"await_connect", "await_cm", "confirm_tx"}
         \/ pc[i] = "await_connect" /\ pc'[i] \in {"await_cm", "failed"}
         \/ pc[i] = "confirm_tx" /\ pc'[i] = "await_start"
         \/ pc[i] = "await_start" /\ pc'[i] \in {"bench", "failed"}
         \/ pc[i] = "bench" /\ pc'[i] \in {"bench", "finished", "failed"}
         \/ pc[i] \in {"finished", "failed"} /\ pc'[i] = "gone"
  <1>0. i \in Node /\ i \notin PN
    BY CepFacts
  <1>1. ASSUME NEW place, Goto(i, place)
        PROVE  pc'[i] = place
    BY <1>0, <1>1, GotoOwn
  <1>2. CASE HostStep(i)
    BY <1>0, <1>1, <1>2 DEF HostStep, HostDial, Dial, ConnectEvent, ConnectKeys, Exit
  <1>3. CASE AwaitConnect(i) \/ RecvConnect(i) \/ DialNext(i) \/ Confirm(i)
    BY <1>1, <1>3 DEF AwaitConnect, RecvConnect, DialNext, Dial, Confirm
  <1>4. CASE ConfirmSent(i) \/ RecvStart(i) \/ BenchCommand(i)
    BY <1>1, <1>4 DEF ConfirmSent, RecvStart, BenchCommand
  <1> QED
    BY <1>2, <1>3, <1>4 DEF ClientStep

\* The places of a server.
LEMMA ServerMoves ==
  ASSUME TypeOK, NEW s \in PN, ServerStep(s)
  PROVE  \/ pc[s] = "listen" /\ pc'[s] = "dial"
         \/ pc[s] = "dial" /\ pc'[s] = "await_cm"
         \/ pc[s] = "await_cm" /\ pc'[s] \in {"await_keys", "failed"}
         \/ pc[s] = "await_keys" /\ pc'[s] \in {"wait_all", "failed"}
         \/ pc[s] = "wait_all" /\ pc'[s] \in {"wait_all", "serve", "failed"}
         \/ pc[s] = "serve" /\ pc'[s] \in {"serve", "finished", "failed"}
         \/ pc[s] \in {"finished", "failed"} /\ pc'[s] = "gone"
  <1>0. s \in Node
    BY NodeFacts
  <1>1. ASSUME NEW place, Goto(s, place)
        PROVE  pc'[s] = place
    BY <1>0, <1>1, GotoOwn
  <1>2. CASE HostStep(s)
    BY <1>0, <1>1, <1>2 DEF HostStep, HostDial, Dial, ConnectEvent, ConnectKeys, Exit
  <1>3. CASE ServerListen(s) \/ WaitAllConn(s) \/ ServerReady(s)
    BY <1>1, <1>3 DEF ServerListen, WaitAllConn, ServerReady
  <1>4. CASE ServeCommand(s) \/ ServeEvent(s)
    BY <1>1, <1>4 DEF ServeCommand, ServeEvent
  <1> QED
    BY <1>2, <1>3, <1>4 DEF ServerStep

LEMMA DialOnce ==
  ASSUME TypeOK, OwnEvents, [Next]_vars, NEW h \in Host, pc'[h] \in {"listen", "dial"}
  PROVE  pc[h] \in {"listen", "dial"}
  <1>1. CASE h \in EN /\ ClientStep(h)
    BY <1>1, ClientMoves
  <1>2. CASE h \in PN /\ ServerStep(h)
    BY <1>2, ServerMoves
  <1>3. CASE Delivery \/ Elsewhere(h)
    BY <1>3 DEF Delivery, nodeVars, Elsewhere
  <1> QED
    BY <1>1, <1>2, <1>3, StepOwn, HostFacts

\* What the controller is told after a step it was told before.
NoNews(i) ==
  \A k \in DOMAIN eq'[CN] : \A kind \in {"CONNREQ", "CONNECTED"} :
    Told(k, i, kind)' => k \in DOMAIN eq[CN] /\ Told(k, i, kind)

LEMMA EqCalmNoNews ==
  ASSUME TypeOK, NEW i \in Host, EqCalm(i)
  PROVE  NoNews(i)
  <1>0. eq[CN] \in Seq(Events)
    BY HostFacts DEF TypeOK, FabricTypeOK
  <1>1. CASE eq'[CN] = eq[CN]
    BY <1>1 DEF NoNews, Told
  <1>2. CASE \E v \in Events : /\ eq'[CN] = Append(eq[CN], v)
                               /\ v.ep = <<CN, i>> => v.kind \notin {"CONNREQ", "CONNECTED"}
    <2>1. PICK v \in Events : /\ eq'[CN] = Append(eq[CN], v)
                              /\ v.ep = <<CN, i>> => v.kind \notin {"CONNREQ", "CONNECTED"}
      BY <1>2
    <2> SUFFICES ASSUME NEW k \in DOMAIN eq'[CN], NEW kind \in {"CONNREQ", "CONNECTED"},
                        Told(k, i, kind)'
                 PROVE  k \in DOMAIN eq[CN] /\ Told(k, i, kind)
      BY DEF NoNews
    <2>2. eq'[CN][k].ep = <<CN, i>> /\ eq'[CN][k].kind = kind
      BY DEF Told
    <2>3. eq'[CN][k] # v
      BY <2>1, <2>2
    <2>4. k \in DOMAIN eq[CN] /\ eq'[CN][k] = eq[CN][k]
      BY <1>0, <2>1, <2>3, AppendFacts
    <2> QED
      BY <2>2, <2>4 DEF Told
  <1> QED
    BY <1>1, <1>2 DEF EqCalm

LEMMA HandshakeCalm ==
  ASSUME TypeOK, OwnEvents, [Next]_vars, NEW i \in Host, Handshake(i), EqCalm(i), LinkCalm(i)
  PROVE  Handshake(i)' /\ (Pending(i)' <=> Pending(i))
  <1>0. NoNews(i) /\ Cep(i)' = Cep(i)
    BY EqCalmNoNews DEF Cep
  <1>1. pc'[i] \in {"listen", "dial"} => link'[Cep(i)] = "closed"
    BY DialOnce DEF Handshake, LinkCalm
  <1>2. ASSUME NEW k \in DOMAIN eq'[CN]
        PROVE  /\ Told(k, i, "CONNREQ")'   => link'[Cep(i)] = "requested"
               /\ Told(k, i, "CONNECTED")' => link'[Cep(i)] \in {"up", "down"}
    BY <1>0, <1>2 DEF NoNews, Handshake, LinkCalm
  <1>3. ASSUME NEW j \in DOMAIN eq'[CN], NEW k \in DOMAIN eq'[CN],
               \/ Told(j, i, "CONNREQ")' /\ Told(k, i, "CONNREQ")'
               \/ Told(j, i, "CONNECTED")' /\ Told(k, i, "CONNECTED")'
        PROVE  j = k
    BY <1>0, <1>3 DEF NoNews, Handshake
  <1>4. Handshake(i)'
    BY <1>1, <1>2, <1>3 DEF Handshake, Cep
  <1>5. Pending(i)' => Pending(i)
    BY <1>0 DEF NoNews, Pending, LinkCalm, Cep
  <1>6. Pending(i) => Pending(i)'
    <2>1. ASSUME NEW k \in DOMAIN eq[CN], Told(k, i, "CONNECTED")
          PROVE  k \in DOMAIN eq'[CN] /\ Told(k, i, "CONNECTED")'
      <3>1. eq[CN] \in Seq(Events)
        BY HostFacts DEF TypeOK, FabricTypeOK
      <3>2. k \in DOMAIN eq'[CN] /\ eq'[CN][k] = eq[CN][k]
        BY <3>1, AppendFacts DEF EqCalm
      <3> QED
        BY <2>1, <3>2 DEF Told
    <2> QED
      BY <1>0, <2>1 DEF Pending, LinkCalm
  <1> QED
    BY <1>4, <1>5, <1>6

LEMMA HandshakeDial ==
  ASSUME TypeOK, NEW i \in Host, Handshake(i), HostDial(i)
  PROVE  Handshake(i)' /\ Pending(i) /\ Pending(i)'
  <1> DEFINE v == [kind |-> "CONNREQ", ep |-> <<CN, i>>]
  <1>0. /\ i \in Node /\ CN \in Node /\ i # CN
        /\ Cep(i) = <<i, CN>> /\ Cep(i)' = Cep(i) /\ Cep(i) \in Link /\ Cep(i) \in Endpoint
        /\ eq[CN] \in Seq(Events) /\ v \in Events
    BY HostFacts DEF Cep, Events, TypeOK, FabricTypeOK
  <1>1. pc[i] = "dial" /\ pc'[i] = "await_cm" /\ link[Cep(i)] = "closed"
    BY <1>0, DialOwn DEF HostDial, Handshake
  <1>2. \A k \in DOMAIN eq[CN] : ~Told(k, i, "CONNREQ") /\ ~Told(k, i, "CONNECTED")
    BY <1>1 DEF Handshake
  <1>3. /\ listening[CN] => link'[Cep(i)] = "requested" /\ eq'[CN] = Append(eq[CN], v)
        /\ ~listening[CN] => link' = link /\ eq'[CN] = eq[CN]
    <2>1. Dials(i, CN)
      BY DEF Dials, HostDial
    <2>2. /\ <<i, CN>> \in Link
          /\ listening[CN] => /\ link'[<<i, CN>>] = "requested"
                             /\ eq'[CN] = Append(eq[CN], [kind |-> "CONNREQ", ep |-> <<CN, i>>])
          /\ ~listening[CN] => link' = link /\ \A p \in Node : p # i => eq'[p] = eq[p]
      BY <1>0, <2>1, CallMoves
    <2> QED
      BY <1>0, <2>2
  <1>4. v.kind = "CONNREQ"
    OBVIOUS
  <1> HIDE DEF v
  <1>5. CASE listening[CN]
    <2>1. ASSUME NEW k \in DOMAIN eq'[CN], NEW kind \in {"CONNREQ", "CONNECTED"},
                 Told(k, i, kind)'
          PROVE  k = Len(eq[CN]) + 1 /\ kind = "CONNREQ"
      <3>1. \/ k \in DOMAIN eq[CN] /\ eq'[CN][k] = eq[CN][k]
            \/ k = Len(eq[CN]) + 1 /\ eq'[CN][k] = v
        BY <1>0, <1>3, <1>5, AppendFacts
      <3> QED
        BY <1>2, <1>4, <2>1, <3>1 DEF Told
    <2> QED
      BY <1>0, <1>1, <1>3, <1>5, <2>1 DEF Handshake, Pending
  <1>6. CASE ~listening[CN]
    BY <1>0, <1>1, <1>2, <1>3, <1>6 DEF Handshake, Pending, Told
  <1> QED
    BY <1>5, <1>6

LEMMA HandshakeJoin ==
  ASSUME TypeOK, NEW i \in Host, Handshake(i), Joins(Cep(i))
  PROVE  Handshake(i)' /\ Pending(i) /\ Pending(i)'
  <1> DEFINE v == [kind |-> "CONNECTED", ep |-> <<CN, i>>]
  <1>0. /\ Cep(i) = <<i, CN>> /\ Cep(i)' = Cep(i) /\ Cep(i) \in Link
        /\ Cep(i)[2] = CN /\ Rev(Cep(i)) = <<CN, i>>
        /\ eq[CN] \in Seq(Events) /\ v \in Events
    BY HostFacts DEF Cep, Events, TypeOK, FabricTypeOK
  <1>1. link[Cep(i)] = "accepted" /\ link'[Cep(i)] = "up" /\ eq'[CN] = Append(eq[CN], v)
    BY <1>0, JoinMoves
  <1>2. \A k \in DOMAIN eq[CN] : ~Told(k, i, "CONNREQ") /\ ~Told(k, i, "CONNECTED")
    BY <1>1 DEF Handshake
  <1>3. pc'[i] \notin {"listen", "dial"}
    BY <1>1 DEF Handshake, Joins, nodeVars
  <1>4. v.kind = "CONNECTED" /\ v.ep = <<CN, i>>
    OBVIOUS
  <1> HIDE DEF v
  <1>5. ASSUME NEW k \in DOMAIN eq'[CN], NEW kind \in {"CONNREQ", "CONNECTED"},
               Told(k, i, kind)'
        PROVE  k = Len(eq[CN]) + 1 /\ kind = "CONNECTED"
    <2>1. \/ k \in DOMAIN eq[CN] /\ eq'[CN][k] = eq[CN][k]
          \/ k = Len(eq[CN]) + 1 /\ eq'[CN][k] = v
      BY <1>0, <1>1, AppendFacts
    <2> QED
      BY <1>2, <1>4, <1>5, <2>1 DEF Told
  <1>6. Pending(i)'
    <2>1. /\ Len(eq[CN]) + 1 \in DOMAIN eq'[CN]
          /\ eq'[CN][Len(eq[CN]) + 1] = v
      BY <1>0, <1>1
    <2> QED
      BY <1>4, <2>1 DEF Pending, Told
  <1> QED
    BY <1>0, <1>1, <1>3, <1>5, <1>6 DEF Handshake, Pending

\* The controller's events move up by one.
LEMMA HandshakeWait ==
  ASSUME TypeOK, OwnEvents, NEW i \in Host, Handshake(i), WaitAllConn(CN)
  PROVE  /\ Handshake(i)'
         /\ Told(1, i, "CONNECTED") => Pending(i) /\ ~Pending(i)'
         /\ ~Told(1, i, "CONNECTED") => (Pending(i)' <=> Pending(i))
  <1> DEFINE v == Head(eq[CN])
  <1>0. /\ i # CN /\ i \in Node /\ CN \in Node /\ Cep(i) = <<i, CN>> /\ Cep(i) \in Link
        /\ eq \in [Node -> Seq(Events)] /\ link \in [Link -> LinkStates]
    BY HostFacts DEF TypeOK, FabricTypeOK
  <1>1. eq[CN] # <<>> /\ HandleEvent(CN, v) /\ pc'[i] = pc[i]
    BY <1>0 DEF WaitAllConn, Goto, TypeOK, PcTypeOK
  <1>2. /\ eq'[CN] = Tail(eq[CN]) /\ v = eq[CN][1] /\ v.ep \in Endpoint /\ v.ep[1] = CN
        /\ 1 \in DOMAIN eq[CN]
    <2>1. eq'[CN] = Tail(eq[CN])
      BY <1>0, <1>1 DEF HandleEvent
    <2>2. v \in Events /\ v.ep[1] = CN
      BY <1>0, <1>1, HandleOwn
    <2>3. v = eq[CN][1] /\ 1 \in DOMAIN eq[CN]
      BY <1>0, <1>1, TailFacts
    <2> QED
      BY <2>1, <2>2, <2>3 DEF Events
  <1>3. ASSUME NEW k \in DOMAIN eq'[CN], NEW kind, Told(k, i, kind)'
        PROVE  k + 1 \in DOMAIN eq[CN] /\ Told(k + 1, i, kind) /\ k + 1 # 1
    <2>1. k + 1 \in DOMAIN eq[CN] /\ eq'[CN][k] = eq[CN][k + 1] /\ k \in Nat \ {0}
      BY <1>0, <1>1, <1>2, TailFacts
    <2> QED
      BY <1>3, <2>1 DEF Told
  <1>4. \/ Told(1, i, "CONNREQ") /\ link'[Cep(i)] = "accepted"
        \/ ~Told(1, i, "CONNREQ") /\ link'[Cep(i)] = link[Cep(i)]
    <2>1. CASE v.kind = "CONNREQ" /\ v.ep = <<CN, i>>
      <3>1. LinkOf(v.ep) = Cep(i)
        BY <1>0, <2>1, PassiveShape, HostFacts, ControlEnds
      <3> QED
        BY <1>0, <1>1, <1>2, <2>1, <3>1 DEF HandleEvent, Told
    <2>2. CASE v.kind = "CONNREQ" /\ v.ep # <<CN, i>>
      <3>1. v.ep \in Passive
        BY <1>2, LinkShape, NodeFacts DEF Endpoint
      <3>2. LinkOf(v.ep) # Cep(i)
        BY <1>0, <1>2, <2>2, <3>1, PassiveShape
      <3> QED
        BY <1>0, <1>1, <1>2, <2>2, <3>2 DEF HandleEvent, Told
    <2>3. CASE v.kind # "CONNREQ"
      BY <1>1, <1>2, <2>3 DEF HandleEvent, Told
    <2> QED
      BY <2>1, <2>2, <2>3
  <1>5. Told(1, i, "CONNREQ") => link[Cep(i)] = "requested"
    BY <1>2 DEF Handshake
  <1>6. pc'[i] \in {"listen", "dial"} => link'[Cep(i)] = "closed"
    BY <1>1, <1>4, <1>5 DEF Handshake
  <1>7. ASSUME NEW k \in DOMAIN eq'[CN]
        PROVE  /\ Told(k, i, "CONNREQ")'   => link'[Cep(i)] = "requested"
               /\ Told(k, i, "CONNECTED")' => link'[Cep(i)] \in {"up", "down"}
    BY <1>2, <1>3, <1>4, <1>5, <1>7 DEF Handshake
  <1>8. ASSUME NEW j \in DOMAIN eq'[CN], NEW k \in DOMAIN eq'[CN],
               \/ Told(j, i, "CONNREQ")' /\ Told(k, i, "CONNREQ")'
               \/ Told(j, i, "CONNECTED")' /\ Told(k, i, "CONNECTED")'
        PROVE  j = k
    <2>1. j + 1 = k + 1
      BY <1>3, <1>8 DEF Handshake
    <2>2. j \in Nat /\ k \in Nat
      BY <1>0, <1>1, <1>2, TailFacts
    <2> QED
      BY <2>1, <2>2
  <1>9. Handshake(i)'
    BY <1>6, <1>7, <1>8 DEF Handshake, Cep
  <1>10. Pending(i)' => Pending(i)
    BY <1>3, <1>4, <1>5 DEF Pending, Cep
  <1>11. Told(1, i, "CONNECTED") => Pending(i) /\ ~Pending(i)'
    <2> SUFFICES ASSUME Told(1, i, "CONNECTED") PROVE Pending(i) /\ ~Pending(i)'
      OBVIOUS
    <2>1. Pending(i) /\ link[Cep(i)] \in {"up", "down"} /\ ~Told(1, i, "CONNREQ")
      BY <1>2 DEF Pending, Handshake, Told
    <2>2. link'[Cep(i)] = link[Cep(i)]
      BY <1>4, <2>1
    <2>3. ASSUME NEW k \in DOMAIN eq'[CN], Told(k, i, "CONNECTED")' PROVE FALSE
      BY <1>2, <1>3, <2>3 DEF Handshake
    <2> QED
      BY <2>1, <2>2, <2>3 DEF Pending, Cep
  <1>12. ~Told(1, i, "CONNECTED") /\ Pending(i) => Pending(i)'
    <2>1. ASSUME NEW k \in DOMAIN eq[CN], Told(k, i, "CONNECTED"), k # 1
          PROVE  \E j \in DOMAIN eq'[CN] : Told(j, i, "CONNECTED")'
      <3>1. eq[CN] \in Seq(Events)
        BY <1>0
      <3>2. k - 1 \in DOMAIN Tail(eq[CN]) /\ Tail(eq[CN])[k - 1] = eq[CN][k]
        BY <1>1, <2>1, <3>1
      <3> QED
        BY <1>2, <2>1, <3>2 DEF Told
    <2> QED
      BY <1>0, <1>4, <2>1 DEF Pending, Cep
  <1> QED
    BY <1>9, <1>10, <1>11, <1>12

\* As long as the controller gathers.
LEMMA HandshakeStep ==
  ASSUME TypeOK, OwnEvents, [Next]_vars, NEW i \in Host, Handshake(i), pc[CN] \in SetupPC
  PROVE  /\ Handshake(i)'
         /\ \/ Pending(i)' <=> Pending(i)
            \/ WaitAllConn(CN) /\ Told(1, i, "CONNECTED") /\ Pending(i) /\ ~Pending(i)'
  <1>1. CASE EqCalm(i) /\ LinkCalm(i)
    BY <1>1, HandshakeCalm
  <1>2. CASE HostDial(i)
    BY <1>2, HandshakeDial
  <1>3. CASE Joins(Cep(i))
    BY <1>3, HandshakeJoin
  <1>4. CASE WaitAllConn(CN)
    BY <1>4, HandshakeWait
  <1> QED
    BY <1>1, <1>2, <1>3, <1>4, CalmStep

-----------------------------------------------------------------------------
(* A client collects the keys server by server. *)

LEMMA KeysStep ==
  ASSUME TypeOK, OwnEvents, OnlyKeys, [Next]_vars,
         NEW i \in EN, AtMostOneOpen(i), KeysSoFar(i)
  PROVE  KeysSoFar(i)'
  <1>0. /\ i \in Node /\ i \in Host /\ i \notin PN /\ i # CN /\ CN \notin PN
        /\ PN \subseteq Nat
    BY NodeFacts
  <1>1. \A s \in PN : HoldsKey(i, s) => HoldsKey(i, s)'
    BY EquippedStable
  <1>2. Equipped(i) => Equipped(i)'
    BY <1>1 DEF Equipped
  <1>3. CASE pc'[i] = pc[i] /\ peer'[i] = peer[i]
    BY <1>1, <1>2, <1>3 DEF KeysSoFar
  <1>4. CASE pc'[i] \in {"await_connect", "bench", "finished", "failed", "gone"}
    BY <1>4 DEF KeysSoFar
  <1>5. ASSUME NEW t \in Listener, Dial(i, t),
               t \in PN => \A s \in PN : s < t => HoldsKey(i, s)
        PROVE  KeysSoFar(i)'
    <2>1. pc'[i] = "await_cm" /\ peer'[i] = t
      BY <1>0, <1>5, DialOwn, ClientLinks
    <2> QED
      BY <1>1, <1>5, <2>1 DEF KeysSoFar
  <1>6. CASE ClientStep(i)
    <2>1. CASE HostDial(i)
      BY <1>0, <1>5, <2>1, NodeFacts DEF HostDial
    <2>2. CASE ConnectEvent(i)
      <3>1. pc[i] = "await_cm" /\ pc'[i] \in {"await_keys", "failed"} /\ peer' = peer
        BY <1>0, <2>2, GotoOwn DEF ConnectEvent
      <3> QED
        BY <1>1, <3>1 DEF KeysSoFar
    <2>3. CASE ConnectKeys(i)
      <3>1. /\ pc[i] = "await_keys" /\ peer' = peer
            /\ pc'[i] = "failed" \/ (pc'[i] = "linked" /\ (peer[i] \in PN => HoldsKey(i, peer[i])'))
        BY <2>3, KeysStored DEF HoldsKey
      <3>2. CASE pc'[i] = "linked" /\ peer[i] \in PN
        <4>1. \A s \in PN : s < peer[i] => HoldsKey(i, s)'
          BY <1>1, <3>1, <3>2 DEF KeysSoFar
        <4>2. \A s \in PN : s <= peer[i] => s < peer[i] \/ s = peer[i]
          BY <3>2, TopologyAssumption DEF PN, NumEP
        <4> QED
          BY <3>1, <3>2, <4>1, <4>2 DEF KeysSoFar
      <3> QED
        BY <1>4, <3>1, <3>2 DEF KeysSoFar
    <2>4. CASE RecvConnect(i)
      <3>1. CASE Dial(i, NumEN)
        <4>1. NumEN \in PN /\ NumEN \in Listener /\ \A s \in PN : ~(s < NumEN)
          BY NodeFacts, TopologyAssumption DEF PN, NumEP
        <4> QED
          BY <1>5, <3>1, <4>1
      <3>2. CASE Goto(i, "failed")
        BY <1>0, <1>4, <3>2, GotoOwn
      <3> QED
        BY <2>4, <3>1, <3>2 DEF RecvConnect
    <2>5. CASE DialNext(i)
      <3>1. /\ pc[i] = "linked" /\ peer[i] \in PN /\ peer[i] + 1 \in PN
            /\ Dial(i, peer[i] + 1)
        BY <2>5 DEF DialNext
      <3>2. \A s \in PN : s < peer[i] + 1 => s <= peer[i]
        BY <3>1, TopologyAssumption DEF PN, NumEP
      <3> QED
        BY <1>5, <3>1, <3>2, NodeFacts DEF KeysSoFar
    <2>6. CASE Confirm(i)
      <3>1. /\ pc[i] = "linked" /\ peer[i] \in PN /\ peer[i] + 1 \notin PN
            /\ pc'[i] = "confirm_tx"
        BY <1>0, <2>6, GotoOwn DEF Confirm
      <3>2. \A s \in PN : s <= peer[i]
        BY <3>1, TopologyAssumption DEF PN, NumEP
      <3>3. Equipped(i)
        BY <3>1, <3>2 DEF KeysSoFar, Equipped
      <3> QED
        BY <1>2, <3>1, <3>3 DEF KeysSoFar
    <2>7. CASE ConfirmSent(i)
      <3>1. pc[i] = "confirm_tx" /\ pc'[i] = "await_start"
        BY <1>0, <2>7, GotoOwn DEF ConfirmSent
      <3> QED
        BY <1>2, <3>1 DEF KeysSoFar
    <2>8. CASE AwaitConnect(i) \/ RecvStart(i) \/ BenchCommand(i) \/ Exit(i)
      BY <1>0, <1>4, <2>8, GotoOwn DEF AwaitConnect, RecvStart, BenchCommand, Exit
    <2> QED
      BY <1>6, <2>1, <2>2, <2>3, <2>4, <2>5, <2>6, <2>7, <2>8 DEF ClientStep, HostStep
  <1>7. CASE Delivery \/ Elsewhere(i)
    BY <1>0, <1>3, <1>7 DEF Delivery, nodeVars, Elsewhere
  <1> QED
    BY <1>0, <1>6, <1>7, StepOwn

-----------------------------------------------------------------------------
(* The controller posts one receive per client and counts what it reads. *)

SameSlots == \A j \in EN : Slots(<<CN, j>>)' = Slots(<<CN, j>>)

\* It reads what came in from client j.
Reads(j) ==
  /\ ReadRx(<<CN, j>>)
  /\ pc[CN] = "connect_rx" /\ pc'[CN] \in {"connect_rx", "failed"}
  /\ counter'[CN] \in {counter[CN], counter[CN] + 1}
  /\ rxc[<<CN, j>>] # <<>> /\ Slots(<<CN, j>>)' = Slots(<<CN, j>>) - 1
  /\ \A k \in EN : k # j => /\ Slots(<<CN, k>>)' = Slots(<<CN, k>>)
                            /\ rxc'[<<CN, k>>] = rxc[<<CN, k>>]

LEMMA CollectReads ==
  ASSUME TypeOK, CollectConfirm
  PROVE  \E j \in EN : Reads(j)
  <1>0. CN \in Node /\ CN \in Listener /\ counter[CN] \in Int /\ CN \notin EN
    BY NodeFacts DEF TypeOK
  <1>1. PICK e \in ClientEps :
          /\ ReadRx(e)
          /\ IF Head(rxc[e]).len # IntSize
             THEN Goto(CN, "failed") /\ UNCHANGED counter
             ELSE /\ Count(CN, IF buf[e].kind = "CONNECTED" THEN counter[CN] + 1
                               ELSE counter[CN])
                  /\ UNCHANGED pc
    BY DEF CollectConfirm
  <1>2. PICK j \in EN : e = <<CN, j>>
    BY DEF ClientEps
  <1>3. pc[CN] = "connect_rx" /\ rq' = rq
    BY DEF CollectConfirm
  <1>4. pc'[CN] \in {"connect_rx", "failed"}
    BY <1>0, <1>1, <1>3, GotoOwn
  <1>5. counter'[CN] \in {counter[CN], counter[CN] + 1}
    <2>1. UNCHANGED counter \/ Count(CN, counter[CN] + 1) \/ Count(CN, counter[CN])
      BY <1>1
    <2> QED
      BY <1>0, <2>1 DEF Count, TypeOK
  <1>6. \A k \in EN : <<CN, k>> \in Endpoint
    BY CepFacts
  <1>7. /\ rxc[<<CN, j>>] # <<>> /\ rxc'[<<CN, j>>] = Tail(rxc[<<CN, j>>])
        /\ \A k \in EN : k # j => rxc'[<<CN, k>>] = rxc[<<CN, k>>]
    BY <1>1, <1>2, <1>6, ReadOwn
  <1>8. Slots(<<CN, j>>)' = Slots(<<CN, j>>) - 1
    BY <1>3, <1>6, <1>7, QueueTypes DEF QueueOK, Slots
  <1>9. \A k \in EN : k # j => Slots(<<CN, k>>)' = Slots(<<CN, k>>)
    BY <1>3, <1>7 DEF Slots
  <1> QED
    BY <1>1, <1>2, <1>3, <1>4, <1>5, <1>7, <1>8, <1>9 DEF Reads

LEMMA ControllerMoves ==
  ASSUME TypeOK, OwnEvents, [Next]_vars, pc[CN] \in SetupPC
  PROVE  \/ /\ SameSlots
            /\ \/ pc'[CN] = pc[CN] /\ (pc[CN] = "connect_rx" => counter'[CN] = counter[CN])
               \/ pc'[CN] \in {"failed", "gone"}
               \/ pc[CN] = "connect_tx" /\ pc'[CN] = "connect_rx" /\ counter'[CN] = 0
               \/ pc[CN] = "connect_rx" /\ counter[CN] = NumEN
         \/ /\ pc[CN] = "wait_all" /\ pc'[CN] = "connect_tx"
            /\ \A j \in EN : Slots(<<CN, j>>)' = Slots(<<CN, j>>) + 1
         \/ \E j \in EN : Reads(j)
  <1>0. CN \in Node /\ CN \in Listener /\ CN \notin EN /\ CN \notin PN
    BY NodeFacts
  <1>1. ASSUME UNCHANGED <<rq, rxc>>
        PROVE  SameSlots
    BY <1>1 DEF SameSlots, Slots
  <1>2. CASE Delivery
    <2>1. SameSlots
      BY <1>2, SlotsDelivered, CepFacts DEF Delivery, SameSlots
    <2> QED
      BY <1>2, <2>1 DEF Delivery, nodeVars
  <1>3. CASE Elsewhere(CN)
    <2>1. SameSlots
      BY <1>3, CepFacts DEF Elsewhere, Untouched, SameSlots, Slots
    <2> QED
      BY <1>0, <1>3, <2>1 DEF Elsewhere
  <1>4. CASE ControllerStep
    <2>1. CASE WaitAllConn(CN)
      <3>1. UNCHANGED <<rq, rxc>> /\ pc[CN] = "wait_all" /\ pc'[CN] \in {"wait_all", "failed"}
        BY <1>0, <2>1, GotoOwn DEF WaitAllConn
      <3> QED
        BY <1>1, <3>1
    <2>2. CASE ControllerConnect
      <3>1. /\ pc[CN] = "wait_all" /\ pc'[CN] = "connect_tx" /\ rxc' = rxc
            /\ CtrlRecv(ClientEps, IntSize)
        BY <1>0, <2>2, GotoOwn DEF ControllerConnect
      <3>2. ASSUME NEW j \in EN PROVE Slots(<<CN, j>>)' = Slots(<<CN, j>>) + 1
        <4>1. <<CN, j>> \in Endpoint /\ rq'[<<CN, j>>] = Append(rq[<<CN, j>>], IntSize)
          BY <3>1, RecvOwn, CepFacts
        <4> QED
          BY <3>1, <4>1, QueueTypes, SizeFacts DEF QueueOK, Slots
      <3> QED
        BY <3>1, <3>2
    <2>3. CASE ConnectSent
      <3>1. /\ UNCHANGED <<rq, rxc>> /\ pc[CN] = "connect_tx" /\ pc'[CN] = "connect_rx"
            /\ Count(CN, 0)
        BY <1>0, <2>3, GotoOwn DEF ConnectSent, CommandsSent
      <3>2. counter'[CN] = 0
        BY <1>0, <3>1, Zenon DEF Count, TypeOK
      <3> QED
        BY <1>1, <3>1, <3>2
    <2>4. CASE CollectConfirm
      BY <2>4, CollectReads
    <2>5. CASE ControllerStart
      <3>1. UNCHANGED <<rq, rxc>> /\ pc[CN] = "connect_rx" /\ counter[CN] = NumEN
        BY <2>5 DEF ControllerStart
      <3> QED
        BY <1>1, <3>1
    <2>6. CASE Exit(CN)
      <3>1. UNCHANGED <<rq, rxc>> /\ pc'[CN] = "gone"
        BY <1>0, <2>6, GotoOwn DEF Exit
      <3> QED
        BY <1>1, <3>1
    <2>7. CASE \/ StartSent \/ ControllerCheckpoint \/ CheckpointSent \/ CollectCheckpoint
               \/ CheckpointDone \/ ControllerStop \/ StopSent \/ CollectSummary
               \/ SummaryDone \/ AwaitShutdown \/ ControllerDone
      BY <2>7 DEF SetupPC, StartSent, ControllerCheckpoint, CheckpointSent, CollectCheckpoint,
                  CheckpointDone, ControllerStop, StopSent, CollectSummary, SummaryDone,
                  AwaitShutdown, ControllerDone, CommandsSent
    <2> QED
      BY <1>4, <2>1, <2>2, <2>3, <2>4, <2>5, <2>6, <2>7 DEF ControllerStep
  <1> QED
    BY <1>0, <1>2, <1>3, <1>4, StepOwn

\* A client without all the keys sends nothing to the controller.
LEMMA SilentStep ==
  ASSUME TypeOK, OwnEvents, [Next]_vars, NEW i \in EN,
         KeysSoFar(i), pc[i] # "bench", ~Equipped(i), sq[Cep(i)] = <<>>
  PROVE  sq'[Cep(i)] = <<>>
  <1>0. i \in Node /\ Cep(i) \in Endpoint /\ Cep(i)[1] = i /\ i \notin PN /\ i # CN
    <2>1. Cep(i)[1] = i
      BY DEF Cep
    <2>2. i \in Node /\ Cep(i) \in Endpoint /\ i \notin PN /\ i # CN
      BY CepFacts
    <2> QED
      BY <2>1, <2>2
  <1>1. CASE Delivery
    <2>1. PICK e \in Endpoint : Transmit(e)
      BY <1>1 DEF Delivery
    <2>2. e # Cep(i) /\ \A d \in Endpoint : d # e => sq'[d] = sq[d]
      BY <2>1, TransmitOwn
    <2> QED
      BY <1>0, <2>2
  <1>2. CASE Elsewhere(i)
    BY <1>0, <1>2 DEF Elsewhere, Untouched
  <1>3. CASE ClientStep(i)
    <2>1. CASE Confirm(i)
      <3>1. pc[i] = "linked" /\ peer[i] \in PN /\ peer[i] + 1 \notin PN
        BY <2>1 DEF Confirm
      <3>2. \A s \in PN : s <= peer[i]
        BY <3>1, TopologyAssumption DEF PN, NumEP
      <3> QED
        BY <3>1, <3>2 DEF KeysSoFar, Equipped
    <2>2. CASE ~Confirm(i)
      <3>1. sq' = sq
        BY <1>3, <2>2
           DEF ClientStep, HostStep, HostDial, ConnectEvent, ConnectKeys, Exit, AwaitConnect,
               RecvConnect, DialNext, ConfirmSent, RecvStart, BenchCommand
      <3> QED
        BY <3>1
    <2> QED
      BY <2>1, <2>2
  <1> QED
    BY <1>0, <1>1, <1>2, <1>3, StepOwn

\* So the controller reads nothing from it.
LEMMA UnreadStep ==
  ASSUME TypeOK, OwnEvents, [Next]_vars, NEW i \in EN, pc[CN] \in SetupPC,
         sq[Cep(i)] = <<>>, rxc[<<CN, i>>] = <<>>
  PROVE  /\ rxc'[<<CN, i>>] = <<>>
         /\ \A j \in EN : Reads(j) => j # i
  <1>0. /\ CN \in Node /\ CN \notin EN /\ CN \notin PN
        /\ Cep(i) = <<i, CN>> /\ Cep(i) \in Endpoint /\ <<CN, i>> \in Endpoint
    BY CepFacts, NodeFacts
  <1>1. CASE Delivery
    <2>1. PICK e \in Endpoint : Transmit(e)
      BY <1>1 DEF Delivery
    <2>2. /\ e # Cep(i) /\ e = <<e[1], e[2]>> /\ Rev(e) = <<e[2], e[1]>>
          /\ \A d \in Endpoint : d # Rev(e) => rxc'[d] = rxc[d]
      BY <2>1, TransmitOwn
    <2>3. Rev(e) # <<CN, i>>
      BY <1>0, <2>2
    <2> QED
      BY <1>0, <2>2, <2>3 DEF Reads
  <1>2. CASE Elsewhere(CN)
    BY <1>0, <1>2 DEF Elsewhere, Untouched, Reads
  <1>3. CASE ControllerStep
    <2>1. CASE CollectConfirm
      BY <2>1, CollectReads DEF Reads
    <2>2. CASE ~CollectConfirm
      <3>1. rxc' = rxc
        BY <1>3, <2>2
           DEF SetupPC, ControllerStep, WaitAllConn, ControllerConnect, ConnectSent,
               ControllerStart, Exit, StartSent, ControllerCheckpoint, CheckpointSent,
               CollectCheckpoint, CheckpointDone, ControllerStop, StopSent, CollectSummary,
               SummaryDone, AwaitShutdown, ControllerDone, CommandsSent, fabricVars
      <3> QED
        BY <3>1 DEF Reads
    <2> QED
      BY <2>1, <2>2
  <1> QED
    BY <1>0, <1>1, <1>2, <1>3, StepOwn

LEMMA NotConfirmedStep ==
  ASSUME TypeOK, OwnEvents, OnlyKeys, [Next]_vars, pc[CN] \in SetupPC,
         NEW i \in EN, AtMostOneOpen(i), KeysSoFar(i), pc[i] # "bench", NotConfirmed(i),
         ~(pc[CN] = "connect_rx" /\ counter[CN] = NumEN)
  PROVE  NotConfirmed(i)'
  <1> DEFINE e == <<CN, i>>
  <1>0. Slots(e) \in Int /\ Cep(i)' = Cep(i)
    BY CepFacts, QueueTypes DEF QueueOK, Slots, Cep
  <1>1. Equipped(i) => Equipped(i)'
    BY EquippedStable DEF Equipped
  <1>2. ~Equipped(i)' => /\ sq'[Cep(i)] = <<>> /\ rxc'[e] = <<>>
                         /\ \A j \in EN : Reads(j) => j # i
    BY <1>1, SilentStep, UnreadStep DEF NotConfirmed
  <1>3. CASE SameSlots
    <2>1. Slots(e)' = Slots(e)
      BY <1>3 DEF SameSlots
    <2>2. pc'[CN] = "wait_all" => pc[CN] = "wait_all"
      BY ControllerMoves DEF Reads, SetupPC
    <2>3. pc'[CN] \in {"connect_tx", "connect_rx"} =>
            pc[CN] \in {"connect_tx", "connect_rx"} \/ pc[CN] = "wait_all"
      BY ControllerMoves DEF Reads, SetupPC
    <2>4. pc[CN] = "wait_all" => pc'[CN] \notin {"connect_tx", "connect_rx"}
      BY <1>0, <2>1, ControllerMoves DEF Reads
    <2> QED
      BY <1>0, <1>1, <1>2, <2>1, <2>2, <2>3, <2>4 DEF NotConfirmed
  <1>4. CASE /\ pc[CN] = "wait_all" /\ pc'[CN] = "connect_tx"
             /\ \A j \in EN : Slots(<<CN, j>>)' = Slots(<<CN, j>>) + 1
    <2>1. Slots(e)' = 1
      BY <1>0, <1>4 DEF NotConfirmed
    <2> QED
      BY <1>2, <1>4, <2>1 DEF NotConfirmed
  <1>5. ASSUME NEW j \in EN, Reads(j)
        PROVE  NotConfirmed(i)'
    <2>1. Slots(e)' <= 1 /\ (j # i => Slots(e)' = Slots(e))
      BY <1>0, <1>5 DEF Reads, NotConfirmed
    <2>2. pc[CN] = "connect_rx" /\ pc'[CN] # "wait_all"
      BY <1>5 DEF Reads
    <2> QED
      BY <1>1, <1>2, <1>5, <2>1, <2>2 DEF NotConfirmed
  <1> QED
    BY <1>3, <1>4, <1>5, ControllerMoves

-----------------------------------------------------------------------------
(* The controller sends a client two messages before it starts it. *)

LEMMA ComingFacts ==
  ASSUME TypeOK, NEW i \in EN
  PROVE  /\ Coming(i) \in Nat /\ Taken(i) \in {0, 1, 2}
         /\ sq'[<<CN, i>>] = sq[<<CN, i>>] =>
              /\ rxc'[Cep(i)] = rxc[Cep(i)] => Coming(i)' = Coming(i)
              /\ rxc[Cep(i)] # <<>> /\ rxc'[Cep(i)] = Tail(rxc[Cep(i)]) =>
                   Coming(i)' = Coming(i) - 1 /\ Coming(i) >= 1
  <1>0. /\ Cep(i)' = Cep(i) /\ Cep(i) \in Endpoint /\ <<CN, i>> \in Endpoint
        /\ sq[<<CN, i>>] \in Seq(Msg) /\ rxc[Cep(i)] \in Seq(Completions)
    BY CepFacts, QueueTypes DEF QueueOK, Cep
  <1>2. Coming(i) \in Nat /\ Taken(i) \in {0, 1, 2}
    <2>1. Coming(i) \in Nat
      BY <1>0, QueueTypes DEF QueueOK, Coming
    <2> QED
      BY <2>1 DEF Taken
  <1>3. ASSUME sq'[<<CN, i>>] = sq[<<CN, i>>], rxc'[Cep(i)] = rxc[Cep(i)]
        PROVE  Coming(i)' = Coming(i)
    BY <1>0, <1>3 DEF Coming
  <1>4. ASSUME sq'[<<CN, i>>] = sq[<<CN, i>>], rxc[Cep(i)] # <<>>,
               rxc'[Cep(i)] = Tail(rxc[Cep(i)])
        PROVE  Coming(i)' = Coming(i) - 1 /\ Coming(i) >= 1
    <2>1. Coming(i)' = Len(sq[<<CN, i>>]) + Len(Tail(rxc[Cep(i)]))
      BY <1>0, <1>4 DEF Coming
    <2> QED
      BY <1>0, <1>4, <2>1, QueueTypes DEF QueueOK, Coming
  <1> QED
    BY <1>2, <1>3, <1>4

\* Reading a message of the controller takes the client one place further; it
\* does not get past "start".
LEMMA TakenStep ==
  ASSUME TypeOK, OnlyKeys, NEW i \in EN, ClientStep(i), AtMostOneOpen(i),
         pc[i] \notin {"bench", "finished"}, Taken(i) + Coming(i) <= 2
  PROVE  /\ Taken(i)' + Coming(i)' <= Taken(i) + Coming(i)
         /\ Taken(i)' \in Int /\ Coming(i)' \in Int
         /\ pc'[i] \notin {"bench", "finished"}
  <1>0. /\ i \in Node /\ i \in Host /\ i # CN /\ i \notin PN /\ CN \notin PN
        /\ Cep(i) = <<i, CN>> /\ Cep(i) \in Endpoint /\ CN \in Listener
    BY CepFacts, NodeFacts
  <1>1. sq'[<<CN, i>>] = sq[<<CN, i>>]
    <2>1. <<CN, i>>[1] # i /\ <<CN, i>> \in Endpoint
      BY <1>0, CepFacts
    <2> QED
      BY <2>1, ClientOwn DEF OnlyItsOwn, Untouched
  <1>2. ASSUME rxc'[Cep(i)] = rxc[Cep(i)], Taken(i)' <= Taken(i),
               pc'[i] \notin {"bench", "finished"}
        PROVE  /\ Taken(i)' + Coming(i)' <= Taken(i) + Coming(i)
               /\ Taken(i)' \in Int /\ Coming(i)' \in Int
               /\ pc'[i] \notin {"bench", "finished"}
    <2>1. Coming(i)' = Coming(i) /\ Coming(i) \in Nat /\ Taken(i) \in {0, 1, 2}
      BY <1>1, <1>2, ComingFacts
    <2>2. Taken(i)' \in {0, 1, 2}
      BY DEF Taken
    <2> QED
      BY <1>2, <2>1, <2>2
  <1>3. ASSUME ReadRx(Cep(i)), Taken(i)' <= Taken(i) + 1,
               pc'[i] \notin {"bench", "finished"}
        PROVE  /\ Taken(i)' + Coming(i)' <= Taken(i) + Coming(i)
               /\ Taken(i)' \in Int /\ Coming(i)' \in Int
               /\ pc'[i] \notin {"bench", "finished"}
    <2>1. rxc[Cep(i)] # <<>> /\ rxc'[Cep(i)] = Tail(rxc[Cep(i)])
      BY <1>0, <1>3, ReadOwn
    <2>2. Coming(i)' = Coming(i) - 1 /\ Coming(i) \in Nat /\ Taken(i) \in {0, 1, 2}
      BY <1>1, <2>1, ComingFacts
    <2>3. Taken(i)' \in {0, 1, 2}
      BY DEF Taken
    <2> QED
      BY <1>3, <2>2, <2>3
  <1>4. CASE HostDial(i)
    <2>1. pc'[i] = "await_cm" /\ peer'[i] = CN /\ pc[i] = "dial" /\ rxc' = rxc
      BY <1>0, <1>4, CepFacts, DialOwn DEF HostDial
    <2> QED
      BY <1>2, <2>1 DEF Taken
  <1>5. CASE ConnectEvent(i)
    <2>1. /\ pc'[i] \in {"await_keys", "failed"} /\ pc[i] = "await_cm"
          /\ UNCHANGED <<rxc, peer>>
      BY <1>0, <1>5, GotoOwn DEF ConnectEvent
    <2> QED
      BY <1>2, <2>1 DEF Taken
  <1>6. CASE ConnectKeys(i)
    <2>1. pc[i] = "await_keys" /\ pc'[i] \in {"linked", "failed"} /\ peer' = peer
      BY <1>6, KeysStored
    <2>2. PICK e \in Endpoint : e = <<i, peer[i]>> /\ ReadRx(e)
      BY <1>6, KeysStored
    <2>3. CASE peer[i] = CN
      BY <1>0, <1>3, <2>1, <2>2, <2>3 DEF Taken
    <2>4. CASE peer[i] # CN
      <3>1. rxc'[Cep(i)] = rxc[Cep(i)]
        BY <1>0, <2>2, <2>4, ReadOwn
      <3> QED
        BY <1>2, <2>1, <2>4, <3>1 DEF Taken
    <2> QED
      BY <2>3, <2>4
  <1>7. ASSUME NEW e \in Endpoint, e[1] = i, ReadRx(e), pc[i] \in {"await_connect", "await_start"}
        PROVE  ReadRx(Cep(i)) /\ rxc[Cep(i)] # <<>>
    <2>1. e = <<i, e[2]>> /\ e[2] \in OpenTo(i)
      BY <1>7, ReadClears
    <2>2. e = Cep(i)
      BY <1>0, <1>7, <2>1 DEF OpenTo
    <2> QED
      BY <1>7, <2>2, ReadOwn
  <1>8. CASE RecvConnect(i)
    <2>1. pc[i] = "await_connect" /\ ReadRx(Cep(i))
      BY <1>7, <1>8 DEF RecvConnect
    <2>2. Taken(i) = 1 /\ Taken(i)' \in {0, 1, 2}
      BY <2>1 DEF Taken
    <2>3. pc'[i] \notin {"bench", "finished"}
      BY <2>1, ClientMoves
    <2> QED
      BY <1>3, <2>1, <2>2, <2>3
  <1>9. CASE RecvStart(i)
    <2>1. pc[i] = "await_start" /\ rxc[Cep(i)] # <<>>
      BY <1>7, <1>9 DEF RecvStart
    <2>2. Taken(i) = 2
      BY <2>1 DEF Taken
    <2>3. Coming(i) >= 1
      BY <1>0, <2>1, CepFacts, QueueTypes DEF QueueOK, Coming
    <2>4. Coming(i) \in Nat
      BY ComingFacts
    <2>5. FALSE
      BY <2>2, <2>3, <2>4
    <2> QED
      BY <2>5
  <1>10. CASE AwaitConnect(i) \/ Confirm(i) \/ ConfirmSent(i)
    <2>1. /\ UNCHANGED <<rxc, peer>>
          /\ \/ pc[i] = "linked" /\ peer[i] = CN /\ pc'[i] = "await_connect"
             \/ pc[i] = "linked" /\ peer[i] \in PN /\ pc'[i] = "confirm_tx"
             \/ pc[i] = "confirm_tx" /\ pc'[i] = "await_start"
      BY <1>0, <1>10, GotoOwn DEF AwaitConnect, Confirm, ConfirmSent
    <2> QED
      BY <1>0, <1>2, <2>1 DEF Taken
  <1>11. CASE DialNext(i)
    <2>1. /\ pc[i] = "linked" /\ peer[i] \in PN /\ peer[i] + 1 \in PN /\ rxc' = rxc
          /\ Dial(i, peer[i] + 1)
      BY <1>11 DEF DialNext
    <2>2. pc'[i] = "await_cm" /\ peer'[i] \in PN
      BY <1>0, <2>1, DialOwn, DataEnds
    <2> QED
      BY <1>0, <1>2, <2>1, <2>2 DEF Taken
  <1>12. CASE Exit(i)
    <2>1. pc'[i] = "gone" /\ pc[i] \in {"finished", "failed"} /\ rxc' = rxc
      BY <1>0, <1>12, GotoOwn DEF Exit
    <2> QED
      BY <1>2, <2>1 DEF Taken
  <1>13. CASE BenchCommand(i)
    BY <1>13 DEF BenchCommand
  <1> QED
    BY <1>4, <1>5, <1>6, <1>8, <1>9, <1>10, <1>11, <1>12, <1>13 DEF ClientStep, HostStep

\* What the controller does towards client i while it gathers.
LEMMA ControllerSends ==
  ASSUME TypeOK, OwnEvents, ControllerStep, pc[CN] \in SetupPC, NEW i \in EN,
         ~(pc[CN] = "connect_rx" /\ counter[CN] = NumEN)
  PROVE  \/ /\ sq'[<<CN, i>>] = sq[<<CN, i>>]
            /\ pc'[CN] = "wait_all" => pc[CN] = "wait_all"
         \/ /\ \E m \in Msg : sq'[<<CN, i>>] = Append(sq[<<CN, i>>], m)
            /\ pc[CN] = "wait_all"
            /\ \/ WaitAllConn(CN) /\ Told(1, i, "CONNECTED")
               \/ pc'[CN] # "wait_all"
  <1>0. CN \in Node /\ CN \notin EN /\ CN \notin PN /\ <<CN, i>> \in Endpoint /\ <<CN, i>> \in ClientEps
    BY CepFacts, NodeFacts
  <1>1. CASE WaitAllConn(CN)
    <2> DEFINE v == Head(eq[CN])
    <2>1. pc[CN] = "wait_all" /\ eq[CN] # <<>> /\ HandleEvent(CN, v)
      BY <1>1 DEF WaitAllConn
    <2>2. v = eq[CN][1]
      BY <1>0, <2>1, TailFacts DEF TypeOK, FabricTypeOK
    <2>3. CASE v.kind = "CONNECTED" /\ v.ep = <<CN, i>>
      <3>1. CASE v.ep \in Passive
        <4>1. CtrlSend([e \in {v.ep} |-> KeysOf(e)])
          BY <2>1, <2>3, <3>1 DEF HandleEvent
        <4>2. sq'[<<CN, i>>] = Append(sq[<<CN, i>>], KeysOf(<<CN, i>>))
          BY <1>0, <2>3, <4>1, SendOwn
        <4> QED
          BY <1>0, <1>1, <2>1, <2>2, <2>3, <4>2, MsgFacts DEF Told
      <3>2. CASE v.ep \notin Passive
        BY <2>1, <3>2 DEF HandleEvent
      <3> QED
        BY <3>1, <3>2
    <2>4. CASE v.kind = "CONNECTED" /\ v.ep # <<CN, i>>
      BY <1>0, <2>1, <2>4, HandleOwn
    <2>5. CASE v.kind # "CONNECTED"
      BY <2>1, <2>5 DEF HandleEvent
    <2> QED
      BY <2>3, <2>4, <2>5
  <1>2. CASE ControllerConnect
    <2>1. pc[CN] = "wait_all" /\ pc'[CN] = "connect_tx" /\ SendCommand(ClientEps, "CONNECT")
      BY <1>0, <1>2, GotoOwn DEF ControllerConnect
    <2>2. sq'[<<CN, i>>] = Append(sq[<<CN, i>>], Command("CONNECT", <<CN, i>>))
      BY <1>0, <2>1, CommandOwn
    <2>3. Command("CONNECT", <<CN, i>>) \in Msg
      BY <1>0, MsgFacts DEF Commands
    <2> QED
      BY <2>1, <2>2, <2>3
  <1>3. CASE ConnectSent \/ CollectConfirm \/ Exit(CN)
    <2>1. sq' = sq
      BY <1>3 DEF ConnectSent, CommandsSent, CollectConfirm, Exit
    <2>2. pc'[CN] # "wait_all"
      <3>1. CASE ConnectSent \/ Exit(CN)
        BY <1>0, <3>1, GotoOwn DEF ConnectSent, CommandsSent, Exit
      <3>2. CASE CollectConfirm
        BY <3>2, CollectReads DEF Reads
      <3> QED
        BY <1>3, <3>1, <3>2
    <2> QED
      BY <2>1, <2>2
  <1>4. CASE ControllerStart
    BY <1>4 DEF ControllerStart
  <1>5. CASE \/ StartSent \/ ControllerCheckpoint \/ CheckpointSent \/ CollectCheckpoint
             \/ CheckpointDone \/ ControllerStop \/ StopSent \/ CollectSummary
             \/ SummaryDone \/ AwaitShutdown \/ ControllerDone
    BY <1>5 DEF SetupPC, StartSent, ControllerCheckpoint, CheckpointSent, CollectCheckpoint,
                CheckpointDone, ControllerStop, StopSent, CollectSummary, SummaryDone,
                AwaitShutdown, ControllerDone, CommandsSent
  <1> QED
    BY <1>1, <1>2, <1>3, <1>4, <1>5 DEF ControllerStep

LEMMA ComingDelivered ==
  ASSUME TypeOK, NEW i \in EN, NEW e \in Endpoint, Transmit(e)
  PROVE  Coming(i)' = Coming(i)
  <1>0. /\ Cep(i) = <<i, CN>> /\ Cep(i) \in Endpoint /\ <<CN, i>> \in Endpoint
        /\ Rev(<<CN, i>>) = Cep(i) /\ Cep(i)' = Cep(i)
    BY CepFacts, ControlEnds DEF Cep
  <1>1. CASE e = <<CN, i>>
    <2>1. /\ sq[<<CN, i>>] # <<>> /\ sq'[<<CN, i>>] = Tail(sq[<<CN, i>>])
          /\ Len(rxc'[Cep(i)]) = Len(rxc[Cep(i)]) + 1
      BY <1>0, <1>1, TransmitOwn
    <2> QED
      BY <1>0, <2>1, QueueTypes DEF QueueOK, Coming
  <1>2. CASE e # <<CN, i>>
    <2>1. e = <<e[1], e[2]>> /\ Rev(e) = <<e[2], e[1]>>
      BY TransmitOwn
    <2>2. Rev(e) # Cep(i)
      BY <1>0, <1>2, <2>1
    <2>3. sq'[<<CN, i>>] = sq[<<CN, i>>] /\ rxc'[Cep(i)] = rxc[Cep(i)]
      BY <1>0, <1>2, <2>2, TransmitOwn
    <2> QED
      BY <1>0, <2>3 DEF Coming
  <1> QED
    BY <1>1, <1>2

LEMMA FewSentStep ==
  ASSUME TypeOK, OwnEvents, OnlyKeys, [Next]_vars, pc[CN] \in SetupPC,
         NEW i \in EN, AtMostOneOpen(i), Handshake(i), FewSent(i),
         pc[i] \notin {"bench", "finished"},
         ~(pc[CN] = "connect_rx" /\ counter[CN] = NumEN)
  PROVE  FewSent(i)' /\ pc'[i] \notin {"bench", "finished"}
  <1>0. /\ i \in Node /\ i \in Host /\ i # CN /\ i \notin PN /\ CN \in Node /\ CN \notin EN
        /\ CN \notin PN /\ Cep(i) \in Endpoint /\ <<CN, i>> \in Endpoint /\ Cep(i)' = Cep(i)
    BY CepFacts, NodeFacts DEF Cep
  <1>1. Coming(i) \in Nat /\ Taken(i) \in {0, 1, 2}
    BY ComingFacts
  <1>2. Pending(i)' => Pending(i)
    BY <1>0, HandshakeStep
  <1>3. CASE ClientStep(i)
    <2>1. /\ Taken(i)' + Coming(i)' <= Taken(i) + Coming(i)
          /\ Taken(i)' \in Int /\ Coming(i)' \in Int
          /\ pc'[i] \notin {"bench", "finished"}
      BY <1>3, TakenStep DEF FewSent
    <2>2. pc'[CN] = pc[CN]
      BY <1>0, <1>3, ClientOwn DEF OnlyItsOwn
    <2> QED
      BY <1>1, <1>2, <2>1, <2>2 DEF FewSent
  <1>4. ASSUME Coming(i)' = Coming(i), Taken(i)' = Taken(i),
               pc'[CN] = "wait_all" => pc[CN] = "wait_all", pc'[i] = pc[i]
        PROVE  FewSent(i)' /\ pc'[i] \notin {"bench", "finished"}
    BY <1>2, <1>4 DEF FewSent
  <1>5. CASE Delivery
    <2>1. UNCHANGED <<pc, peer>> /\ Coming(i)' = Coming(i)
      BY <1>5, ComingDelivered DEF Delivery, nodeVars
    <2> QED
      BY <1>4, <2>1 DEF Taken
  <1>6. CASE Elsewhere(i)
    <2>1. pc'[i] = pc[i] /\ Taken(i)' = Taken(i) /\ rxc'[Cep(i)] = rxc[Cep(i)]
      <3>1. pc'[i] = pc[i] /\ peer'[i] = peer[i]
        BY <1>0, <1>6 DEF Elsewhere
      <3>2. rxc'[Cep(i)] = rxc[Cep(i)]
        BY <1>0, <1>6 DEF Elsewhere, Untouched, Cep
      <3> QED
        BY <3>1, <3>2 DEF Taken
    <2>2. CASE Elsewhere(CN)
      <3>1. sq'[<<CN, i>>] = sq[<<CN, i>>] /\ pc'[CN] = pc[CN]
        BY <1>0, <2>2 DEF Elsewhere, Untouched
      <3> QED
        BY <1>4, <2>1, <3>1, ComingFacts
    <2>3. CASE ControllerStep
      <3>1. CASE sq'[<<CN, i>>] = sq[<<CN, i>>] /\ (pc'[CN] = "wait_all" => pc[CN] = "wait_all")
        BY <1>4, <2>1, <3>1, ComingFacts
      <3>2. ASSUME NEW m \in Msg, sq'[<<CN, i>>] = Append(sq[<<CN, i>>], m),
                   pc[CN] = "wait_all",
                   \/ WaitAllConn(CN) /\ Told(1, i, "CONNECTED")
                   \/ pc'[CN] # "wait_all"
            PROVE  FewSent(i)' /\ pc'[i] \notin {"bench", "finished"}
        <4>1. /\ Len(sq'[<<CN, i>>]) = Len(sq[<<CN, i>>]) + 1
              /\ rxc'[Cep(i)'] = rxc[Cep(i)]
          BY <1>0, <2>1, <3>2, AppendFacts, QueueTypes DEF QueueOK
        <4>2. Coming(i)' = Coming(i) + 1
          BY <1>0, <4>1, QueueTypes DEF QueueOK, Coming
        <4>3. CASE pc'[CN] # "wait_all"
          BY <1>1, <2>1, <3>2, <4>2, <4>3 DEF FewSent
        <4>4. CASE WaitAllConn(CN) /\ Told(1, i, "CONNECTED")
          <5>1. Pending(i) /\ ~Pending(i)'
            BY <1>0, <4>4, HandshakeWait
          <5> QED
            BY <1>1, <2>1, <3>2, <4>2, <5>1 DEF FewSent
        <4> QED
          BY <3>2, <4>3, <4>4
      <3> QED
        BY <2>3, <3>1, <3>2, ControllerSends
    <2> QED
      BY <1>0, <1>5, <2>2, <2>3, StepOwn
  <1> QED
    BY <1>0, <1>3, <1>5, <1>6, StepOwn

-----------------------------------------------------------------------------
(* The invariant, put together. *)

LEMMA ClientCount ==
  ASSUME NEW T \in SUBSET EN
  PROVE  /\ IsFiniteSet(T) /\ Cardinality(T) \in Nat /\ Cardinality(T) <= NumEN
         /\ T # EN => Cardinality(T) # NumEN
  <1>1. NumEN \in Nat \ {0}
    BY TopologyAssumption
  <1>2. IsFiniteSet(EN) /\ Cardinality(EN) = NumEN
    BY <1>1, FS_Interval DEF EN
  <1> QED
    BY <1>2, FS_Subset, FS_CardinalityType

\* While a client lacks a key the controller has not heard from all of them.
LEMMA NotAllConfirmed ==
  ASSUME TypeOK, Gathering, ~AllEquipped
  PROVE  ~(pc[CN] = "connect_rx" /\ counter[CN] = NumEN)
  <1> SUFFICES ASSUME pc[CN] = "connect_rx", counter[CN] = NumEN
               PROVE  FALSE
    OBVIOUS
  <1>1. PICK i \in EN : ~Equipped(i)
    BY DEF AllEquipped
  <1>2. i \notin Confirmed
    BY <1>1 DEF Gathering, NotConfirmed, Confirmed
  <1>3. Confirmed \in SUBSET EN /\ Confirmed # EN
    BY <1>2 DEF Confirmed
  <1>4. /\ Cardinality(Confirmed) \in Nat /\ Cardinality(Confirmed) <= NumEN
        /\ Cardinality(Confirmed) # NumEN
    BY <1>3, ClientCount
  <1>5. NumEN <= Cardinality(Confirmed)
    BY DEF Gathering
  <1> QED
    BY <1>4, <1>5, TopologyAssumption

\* The controller counts no more than it has heard from.
LEMMA CountStep ==
  ASSUME TypeOK, OwnEvents, [Next]_vars, Gathering, ~AllEquipped, pc'[CN] = "connect_rx"
  PROVE  counter'[CN] <= Cardinality(Confirmed)'
  <1>0. /\ Confirmed \in SUBSET EN /\ Confirmed' \in SUBSET EN
        /\ pc[CN] \in SetupPC /\ counter[CN] \in Int
    BY NodeFacts DEF Confirmed, Gathering, SetupPC, TypeOK
  <1>1. /\ IsFiniteSet(Confirmed) /\ Cardinality(Confirmed) \in Nat
        /\ Cardinality(Confirmed') \in Nat
    BY <1>0, ClientCount
  <1>2. ~(pc[CN] = "connect_rx" /\ counter[CN] = NumEN)
    BY NotAllConfirmed
  <1>3. CASE SameSlots
    <2>1. Confirmed' = Confirmed
      BY <1>3 DEF SameSlots, Confirmed
    <2>2. \/ pc[CN] = "connect_rx" /\ counter'[CN] = counter[CN]
          \/ counter'[CN] = 0
          \/ \E j \in EN : Reads(j)
      BY <1>0, <1>2, ControllerMoves
    <2>3. ~(\E j \in EN : Reads(j))
      <3>1. ASSUME NEW j \in EN, Reads(j) PROVE FALSE
        <4>1. Slots(<<CN, j>>) \in Int
          BY CepFacts, QueueTypes DEF QueueOK, Slots
        <4> QED
          BY <1>3, <3>1, <4>1 DEF SameSlots, Reads
      <3> QED
        BY <3>1
    <2> QED
      BY <1>1, <2>1, <2>2, <2>3 DEF Gathering
  <1>4. ASSUME NEW j \in EN, Reads(j)
        PROVE  counter'[CN] <= Cardinality(Confirmed)'
    <2>1. Slots(<<CN, j>>) \in Int
      BY CepFacts, QueueTypes DEF QueueOK, Slots
    <2>2. Slots(<<CN, j>>) = 1 /\ Slots(<<CN, j>>)' = 0
      <3>1. Slots(<<CN, j>>) <= 1
        BY DEF Gathering, NotConfirmed
      <3>2. Slots(<<CN, j>>) >= 1
        BY <1>4, CepFacts, QueueTypes DEF QueueOK, Slots, Reads
      <3> QED
        BY <1>4, <2>1, <3>1, <3>2 DEF Reads
    <2>3. j \notin Confirmed /\ Confirmed' = Confirmed \cup {j}
      BY <1>4, <2>2 DEF Confirmed, Reads
    <2>4. Cardinality(Confirmed') = Cardinality(Confirmed) + 1
      BY <1>1, <2>3, FS_AddElement
    <2>5. counter[CN] <= Cardinality(Confirmed) /\ counter'[CN] \in {counter[CN], counter[CN] + 1}
      BY <1>4 DEF Gathering, Reads
    <2>6. counter'[CN] <= Cardinality(Confirmed')
      BY <1>0, <1>1, <2>4, <2>5
    <2> QED
      BY <2>6
  <1> QED
    BY <1>0, <1>3, <1>4, ControllerMoves

LEMMA GatheringStep ==
  ASSUME TypeOK, OwnEvents, OnlyKeys, [Next]_vars, Gathering,
         \A i \in EN : AtMostOneOpen(i), ~AllEquipped'
  PROVE  Gathering'
  <1>1. ~AllEquipped
    BY EquippedStable DEF AllEquipped, Equipped
  <1>2. pc[CN] \in SetupPC
    BY DEF Gathering, SetupPC
  <1>3. ~(pc[CN] = "connect_rx" /\ counter[CN] = NumEN)
    BY <1>1, NotAllConfirmed
  <1>4. pc'[CN] \in {"wait_all", "connect_tx", "connect_rx", "failed", "gone"}
    BY <1>2, <1>3, ControllerMoves DEF SetupPC, Reads
  <1>5. pc'[CN] = "connect_rx" => counter'[CN] <= Cardinality(Confirmed)'
    BY <1>1, CountStep
  <1>6. ASSUME NEW i \in EN
        PROVE  /\ pc'[i] \notin {"bench", "finished"}
               /\ Handshake(i)' /\ KeysSoFar(i)' /\ FewSent(i)' /\ NotConfirmed(i)'
    <2>1. /\ pc[i] \notin {"bench", "finished"} /\ AtMostOneOpen(i)
          /\ Handshake(i) /\ KeysSoFar(i) /\ FewSent(i) /\ NotConfirmed(i)
      BY DEF Gathering
    <2>2. Handshake(i)'
      BY <1>2, <2>1, HandshakeStep, NodeFacts
    <2>3. KeysSoFar(i)'
      BY <2>1, KeysStep
    <2>4. FewSent(i)' /\ pc'[i] \notin {"bench", "finished"}
      BY <1>2, <1>3, <2>1, FewSentStep
    <2>5. NotConfirmed(i)'
      BY <1>2, <1>3, <2>1, NotConfirmedStep
    <2> QED
      BY <2>2, <2>3, <2>4, <2>5
  <1> QED
    BY <1>4, <1>5, <1>6 DEF Gathering

LEMMA BarrierInit == Init => BarrierInv
  <1> SUFFICES ASSUME Init PROVE BarrierInv
    OBVIOUS
  <1>1. /\ \A e \in Endpoint : sq[e] = <<>> /\ rq[e] = <<>> /\ rxc[e] = <<>>
        /\ \A p \in Node : eq[p] = <<>>
        /\ \A l \in Link : link[l] = "closed"
    BY DEF Init, FabricInit
  <1>2. pc[CN] = "wait_all" /\ \A i \in EN : pc[i] = "dial"
    BY NodeFacts DEF Init
  <1>3. \A e \in Endpoint : Slots(e) = 0
    <2>1. ASSUME NEW s, NEW u, s = <<>>, u = <<>>
          PROVE  Len(s) + Len(u) = 0
      BY <2>1
    <2> QED
      BY <1>1, <2>1, Zenon DEF Slots
  <1>4. OnlyKeys
    <2>1. ASSUME NEW i \in EN, NEW s \in PN
          PROVE  sq[<<s, i>>] = <<>> /\ rxc[<<i, s>>] = <<>>
      BY <1>1, DataEnds, EndpointFacts
    <2>2. DOMAIN <<>> = {}
      OBVIOUS
    <2> QED
      BY <2>1, <2>2, Zenon DEF OnlyKeys
  <1>5. OwnEvents
    BY <1>1 DEF OwnEvents
  <1>6. \A i \in EN : AtMostOneOpen(i)
    BY <1>3, ClientLinks DEF AtMostOneOpen
  <1>7. ASSUME NEW i \in EN
        PROVE  /\ pc[i] \notin {"bench", "finished"}
               /\ Handshake(i) /\ KeysSoFar(i) /\ FewSent(i) /\ NotConfirmed(i)
    <2>1. /\ pc[i] = "dial" /\ link[Cep(i)] = "closed" /\ eq[CN] = <<>>
          /\ sq[Cep(i)] = <<>> /\ rxc[<<CN, i>>] = <<>> /\ Slots(<<CN, i>>) = 0
          /\ sq[<<CN, i>>] = <<>> /\ rxc[Cep(i)] = <<>>
      BY <1>1, <1>2, <1>3, CepFacts
    <2>2. Coming(i) = 0 /\ Taken(i) = 0
      BY <2>1 DEF Coming, Taken
    <2> QED
      BY <1>2, <2>1, <2>2 DEF Handshake, KeysSoFar, FewSent, NotConfirmed
  <1>8. Gathering
    BY <1>2, <1>7 DEF Gathering
  <1> QED
    BY <1>4, <1>5, <1>6, <1>8 DEF BarrierInv

LEMMA BarrierStep == TypeOK /\ BarrierInv /\ [Next]_vars => BarrierInv'
  <1> SUFFICES ASSUME TypeOK, BarrierInv, [Next]_vars PROVE BarrierInv'
    OBVIOUS
  <1>0. OnlyKeys /\ OwnEvents /\ \A i \in EN : AtMostOneOpen(i)
    BY DEF BarrierInv
  <1>1. OnlyKeys' /\ OwnEvents'
    BY <1>0, OnlyKeysStep, OwnEventsStep
  <1>2. \A i \in EN : AtMostOneOpen(i)'
    BY <1>0, OpenStep
  <1>3. AllEquipped' \/ Gathering'
    <2>1. CASE AllEquipped
      BY <1>0, <2>1, EquippedStable DEF AllEquipped, Equipped
    <2>2. CASE Gathering
      BY <1>0, <2>2, GatheringStep
    <2> QED
      BY <2>1, <2>2 DEF BarrierInv
  <1> QED
    BY <1>1, <1>2, <1>3 DEF BarrierInv

LEMMA BarrierImplies == BarrierInv => StartBarrier
  BY DEF BarrierInv, Gathering, AllEquipped, Equipped, HoldsKey, StartBarrier

\* The invariant the barrier rests on: what travels, what is open and what has
\* been counted (waitAllConn, controllerConnect and Endpoint::connect together).
THEOREM BarrierInvHolds == Spec => []BarrierInv
  <1>1. Init => TypeOK /\ RoundOpen /\ BarrierInv
    BY InitTypes, BarrierInit, NodeFacts DEF RoundOpen, Init
  <1>2. TypeOK /\ RoundOpen /\ BarrierInv /\ [Next]_vars => (TypeOK /\ RoundOpen /\ BarrierInv)'
    BY TypesStep, RoundOpenStep, BarrierStep
  <1> QED
    BY <1>1, <1>2, PTL DEF Spec

\* No client writes before every client holds the keys of every server
\* (controllerConnect waits for all before controllerStart).
THEOREM BarrierHolds == Spec => []StartBarrier
  BY BarrierInvHolds, BarrierImplies, PTL

-----------------------------------------------------------------------------
(* How many events of a kind a queue holds. *)

Positions(s, k) == {n \in DOMAIN s : s[n].kind = k}

\* One more if x is of kind k.
One(x, k) == IF x.kind = k THEN 1 ELSE 0

LEMMA PositionsFinite ==
  ASSUME NEW s \in Seq(Events), NEW k
  PROVE  IsFiniteSet(Positions(s, k)) /\ Cardinality(Positions(s, k)) \in Nat
  <1>1. Len(s) \in Nat /\ DOMAIN s = 1 .. Len(s)
    OBVIOUS
  <1>2. Positions(s, k) \in SUBSET (1 .. Len(s)) /\ IsFiniteSet(1 .. Len(s))
    BY <1>1, FS_Interval DEF Positions
  <1> QED
    BY <1>2, FS_Subset, FS_CardinalityType

LEMMA PositionsAppend ==
  ASSUME NEW s \in Seq(Events), NEW v \in Events, NEW k
  PROVE  Cardinality(Positions(Append(s, v), k)) = Cardinality(Positions(s, k)) + One(v, k)
  <1>1. /\ Len(s) \in Nat /\ DOMAIN s = 1 .. Len(s)
        /\ DOMAIN Append(s, v) = 1 .. Len(s) + 1
        /\ \A n \in 1 .. Len(s) : Append(s, v)[n] = s[n]
        /\ Append(s, v)[Len(s) + 1] = v
    OBVIOUS
  <1> DEFINE a == Append(s, v)
             m == Len(s) + 1
  <1>2. m \notin Positions(s, k) /\ \A n \in 1 .. m : n = m \/ n \in 1 .. Len(s)
    BY <1>1 DEF Positions
  <1>3. a[m] = v /\ DOMAIN a = 1 .. m /\ m \in 1 .. m /\ 1 .. Len(s) \subseteq 1 .. m
    BY <1>1
  <1> HIDE DEF a, m
  <1>4. Positions(a, k) = IF v.kind = k THEN Positions(s, k) \cup {m} ELSE Positions(s, k)
    BY <1>1, <1>2, <1>3 DEF Positions, a
  <1>5. Positions(s, k) \cup {m} # Positions(s, k)
    BY <1>2
  <1>6. IsFiniteSet(Positions(s, k)) /\ Cardinality(Positions(s, k)) \in Nat
    BY PositionsFinite
  <1>7. Cardinality(Positions(s, k) \cup {m}) = Cardinality(Positions(s, k)) + 1
    BY <1>2, <1>6, FS_AddElement
  <1>8. CASE v.kind = k
    BY <1>4, <1>7, <1>8 DEF One, a
  <1>9. CASE v.kind # k
    BY <1>4, <1>6, <1>9 DEF One, a
  <1> QED
    BY <1>8, <1>9

\* A queue r that holds what s holds at other places.
LEMMA PositionsMoved ==
  ASSUME NEW s \in Seq(Events), NEW r \in Seq(Events), NEW k, NEW f,
         NEW P, P = Positions(s, k), NEW R, R = Positions(r, k),
         f \in [P -> R],
         \A m, n \in P : f[m] = f[n] => m = n,
         \A n \in R : \E m \in P : f[m] = n
  PROVE  Cardinality(R) = Cardinality(P)
  <1>1. f \in Bijection(P, R)
    BY DEF Bijection, Injection, Surjection, IsInjective
  <1>2. IsFiniteSet(P)
    BY PositionsFinite
  <1> QED
    BY <1>1, <1>2, FS_Bijection DEF ExistsBijection

LEMMA PositionsTail ==
  ASSUME NEW s \in Seq(Events), s # <<>>, NEW k
  PROVE  /\ Cardinality(Positions(s, k)) = Cardinality(Positions(Tail(s), k)) + One(Head(s), k)
         /\ Tail(s) \in Seq(Events)
  <1> DEFINE t == Tail(s)
             P == Positions(s, k) \ {1}
             R == Positions(t, k)
             f == [n \in R |-> n + 1]
  <1>1. /\ t \in Seq(Events) /\ Len(s) \in Nat \ {0} /\ Len(t) = Len(s) - 1
        /\ DOMAIN s = 1 .. Len(s) /\ DOMAIN t = 1 .. Len(t) /\ Head(s) = s[1]
        /\ \A n \in 1 .. Len(t) : t[n] = s[n + 1]
    OBVIOUS
  <1> HIDE DEF t
  <1>2. f \in [R -> P] /\ \A m, n \in R : f[m] = f[n] => m = n
    <2>1. ASSUME NEW n \in R PROVE n + 1 \in P /\ n \in Nat
      BY <1>1 DEF Positions
    <2> QED
      BY <2>1
  <1>3. ASSUME NEW n \in P PROVE \E m \in R : f[m] = n
    <2>1. n - 1 \in 1 .. Len(t) /\ (n - 1) + 1 = n /\ s[n].kind = k
      BY <1>1 DEF Positions
    <2>2. n - 1 \in R
      BY <1>1, <2>1 DEF Positions
    <2> QED
      BY <2>1, <2>2
  <1>4. f \in Bijection(R, P)
    <2> HIDE DEF f, P, R
    <2> QED
      BY <1>2, <1>3 DEF Bijection, Injection, Surjection, IsInjective
  <1>5. Cardinality(P) = Cardinality(R)
    <2>1. IsFiniteSet(R)
      BY <1>1, PositionsFinite
    <2> QED
      BY <1>4, <2>1, FS_Bijection DEF ExistsBijection
  <1>6. 1 \in Positions(s, k) <=> Head(s).kind = k
    BY <1>1 DEF Positions
  <1>7. IsFiniteSet(Positions(s, k)) /\ Cardinality(Positions(s, k)) \in Nat
    BY PositionsFinite
  <1>8. Cardinality(P) = IF 1 \in Positions(s, k) THEN Cardinality(Positions(s, k)) - 1
                         ELSE Cardinality(Positions(s, k))
    BY <1>7, FS_RemoveElement
  <1> QED
    BY <1>1, <1>5, <1>6, <1>7, <1>8 DEF One, t

LEMMA Concatenation ==
  ASSUME NEW T, NEW a \in Seq(T), NEW b \in Seq(T)
  PROVE  /\ a \o b \in Seq(T) /\ Len(a \o b) = Len(a) + Len(b)
         /\ \A n \in 1 .. Len(a) : (a \o b)[n] = a[n]
         /\ \A n \in Len(a) + 1 .. Len(a) + Len(b) : (a \o b)[n] = b[n - Len(a)]
  <1>1. a \o b \in Seq(T) /\ Len(a \o b) = Len(a) + Len(b)
    OBVIOUS
  <1>2. ASSUME NEW n \in 1 .. Len(a) PROVE (a \o b)[n] = a[n]
    OBVIOUS
  <1>3. ASSUME NEW n \in Len(a) + 1 .. Len(a) + Len(b) PROVE (a \o b)[n] = b[n - Len(a)]
    OBVIOUS
  <1> QED
    BY <1>1, <1>2, <1>3

\* Event j is taken out.
LEMMA RemoveFacts ==
  ASSUME NEW s \in Seq(Events), NEW j \in DOMAIN s
  PROVE  /\ RemoveAt(s, j) \in Seq(Events) /\ Len(RemoveAt(s, j)) = Len(s) - 1
         /\ \A n \in 1 .. j - 1 : RemoveAt(s, j)[n] = s[n]
         /\ \A n \in j .. Len(s) - 1 : RemoveAt(s, j)[n] = s[n + 1]
  <1> DEFINE a == SubSeq(s, 1, j - 1)
             b == SubSeq(s, j + 1, Len(s))
  <1>1. Len(s) \in Nat /\ j \in 1 .. Len(s)
    OBVIOUS
  <1>2. a \in Seq(Events) /\ Len(a) = j - 1 /\ \A n \in 1 .. j - 1 : a[n] = s[n]
    <2>1. \A n \in 1 .. j - 1 : s[n] \in Events
      BY <1>1
    <2> QED
      BY <1>1, <2>1
  <1>3. b \in Seq(Events) /\ Len(b) = Len(s) - j /\ \A n \in 1 .. Len(s) - j : b[n] = s[n + j]
    <2>1. \A n \in j + 1 .. Len(s) : s[n] \in Events
      BY <1>1
    <2> QED
      BY <1>1, <2>1
  <1>4. RemoveAt(s, j) = a \o b
    BY DEF RemoveAt
  <1> HIDE DEF a, b
  <1>5. /\ a \o b \in Seq(Events) /\ Len(a \o b) = Len(a) + Len(b)
        /\ \A n \in 1 .. Len(a) : (a \o b)[n] = a[n]
        /\ \A n \in Len(a) + 1 .. Len(a) + Len(b) : (a \o b)[n] = b[n - Len(a)]
    BY <1>2, <1>3, Concatenation, Zenon
  <1>6. ASSUME NEW n \in 1 .. j - 1 PROVE (a \o b)[n] = s[n]
    <2>1. n \in 1 .. Len(a)
      BY <1>2
    <2> QED
      BY <1>2, <1>5, <2>1
  <1>7. ASSUME NEW n \in j .. Len(s) - 1 PROVE (a \o b)[n] = s[n + 1]
    <2>1. n \in Len(a) + 1 .. Len(a) + Len(b) /\ n - Len(a) = n - (j - 1)
      BY <1>1, <1>2, <1>3
    <2>2. (a \o b)[n] = b[n - Len(a)]
      BY <1>5, <2>1
    <2>3. n - Len(a) \in 1 .. Len(s) - j /\ (n - Len(a)) + j = n + 1
      BY <1>1, <1>2, <2>1
    <2> QED
      BY <1>3, <2>2, <2>3
  <1>8. Len(a) + Len(b) = Len(s) - 1
    BY <1>1, <1>2, <1>3
  <1> QED
    BY <1>4, <1>5, <1>6, <1>7, <1>8

LEMMA PositionsRemoved ==
  ASSUME NEW s \in Seq(Events), NEW j \in DOMAIN s, NEW k, s[j].kind # k
  PROVE  Cardinality(Positions(RemoveAt(s, j), k)) = Cardinality(Positions(s, k))
  <1> DEFINE r == RemoveAt(s, j)
             P == Positions(s, k)
             R == Positions(r, k)
             f == [n \in P |-> IF n < j THEN n ELSE n - 1]
  <1> HIDE DEF P, R, f
  <1>0. /\ r \in Seq(Events) /\ Len(r) = Len(s) - 1
        /\ \A n \in 1 .. j - 1 : r[n] = s[n]
        /\ \A n \in j .. Len(s) - 1 : r[n] = s[n + 1]
    BY RemoveFacts, Zenon
  <1> HIDE DEF r
  <1>1. /\ r \in Seq(Events) /\ Len(r) = Len(s) - 1 /\ Len(s) \in Nat /\ j \in 1 .. Len(s)
        /\ DOMAIN s = 1 .. Len(s) /\ DOMAIN r = 1 .. Len(s) - 1
        /\ \A n \in 1 .. j - 1 : r[n] = s[n]
        /\ \A n \in j .. Len(s) - 1 : r[n] = s[n + 1]
    BY <1>0
  <1> USE DEF P, R, f
  <1>2. ASSUME NEW n \in P
        PROVE  f[n] \in R /\ n \in Nat /\ n # j /\ f[n] = IF n < j THEN n ELSE n - 1
    <2>1. n \in 1 .. Len(s) /\ s[n].kind = k /\ n # j
      BY <1>1 DEF Positions
    <2>2. CASE n < j
      <3>1. n \in 1 .. j - 1 /\ n \in 1 .. Len(s) - 1
        BY <1>1, <2>1, <2>2
      <3> QED
        BY <1>1, <2>1, <2>2, <3>1 DEF Positions
    <2>3. CASE n > j
      <3>1. n - 1 \in j .. Len(s) - 1 /\ n - 1 \in 1 .. Len(s) - 1 /\ (n - 1) + 1 = n /\ ~(n < j)
        BY <1>1, <2>1, <2>3
      <3> QED
        BY <1>1, <2>1, <3>1 DEF Positions
    <2>4. n < j \/ n > j
      BY <1>1, <2>1
    <2> QED
      BY <2>2, <2>3, <2>4
  <1>3. ASSUME NEW n \in R PROVE \E m \in P : f[m] = n
    <2>1. n \in 1 .. Len(s) - 1 /\ r[n].kind = k
      BY <1>1 DEF Positions
    <2>2. CASE n < j
      <3>1. n \in 1 .. j - 1 /\ n \in 1 .. Len(s)
        BY <1>1, <2>1, <2>2
      <3>2. n \in P
        BY <1>1, <2>1, <3>1 DEF Positions
      <3> QED
        BY <2>2, <3>2
    <2>3. CASE n >= j
      <3>1. n \in j .. Len(s) - 1 /\ n + 1 \in 1 .. Len(s) /\ ~(n + 1 < j) /\ (n + 1) - 1 = n
        BY <1>1, <2>1, <2>3
      <3>2. n + 1 \in P
        BY <1>1, <2>1, <3>1 DEF Positions
      <3> QED
        BY <3>1, <3>2
    <2> QED
      BY <1>1, <2>1, <2>2, <2>3
  <1>4. f \in [P -> R] /\ \A m, n \in P : f[m] = f[n] => m = n
    <2>1. \A m, n \in P : f[m] = f[n] => m = n
      <3> SUFFICES ASSUME NEW m \in P, NEW n \in P, f[m] = f[n] PROVE m = n
        OBVIOUS
      <3> QED
        BY <1>1, <1>2
    <2> QED
      BY <1>2, <2>1
  <1> HIDE DEF f, P, R
  <1> QED
    BY <1>1, <1>3, <1>4, PositionsMoved DEF P, R, r

\* An event of another kind is changed into one of another kind.
LEMMA PositionsChanged ==
  ASSUME NEW s \in Seq(Events), NEW req \in Events, NEW err \in Events, NEW k,
         req.kind # k, err.kind # k
  PROVE  LET r == [n \in DOMAIN s |-> IF s[n] = req THEN err ELSE s[n]]
         IN  r \in Seq(Events) /\ Positions(r, k) = Positions(s, k) /\ DOMAIN r = DOMAIN s
  <1> DEFINE r == [n \in DOMAIN s |-> IF s[n] = req THEN err ELSE s[n]]
  <1>1. Len(s) \in Nat /\ DOMAIN s = 1 .. Len(s) /\ \A n \in DOMAIN s : s[n] \in Events
    OBVIOUS
  <1>2. r \in Seq(Events)
    BY <1>1
  <1>3. Positions(r, k) = Positions(s, k)
    BY DEF Positions
  <1> QED
    BY <1>2, <1>3

-----------------------------------------------------------------------------
(* The types, with what the faults add. *)

FaultTypeOK ==
  /\ crashed \subseteq Node /\ crashes \in 0 .. MaxCrashes
  /\ unseen \in [Endpoint -> Nat]
  /\ txErr \in [Node -> Nat] /\ rxErr \in [Node -> Nat]
  /\ made \subseteq Passive
  /\ \A e \in Endpoint : unseen[e] <= crashes

CrashTypeOK == TypeOK /\ RoundOpen /\ OwnEvents /\ FaultTypeOK

\* A step of Coordination, and the others.
UsualStep == Next /\ Making /\ UNCHANGED <<crashed, crashes, unseen, txErr, rxErr>>

FaultStep ==
  \/ \E p \in Node : RxError(p) \/ TxError(p) \/ Crash(p)
  \/ WildEndpoint
  \/ \E l \in Link : TurnDown(l)
  \/ \E e \in Endpoint : Notice(e) \/ Flush(e)
  \/ \E h \in Host : Restart(h)

LEMMA CrashSteps == CrashNext => UsualStep \/ FaultStep
  <1> SUFFICES ASSUME CrashNext PROVE UsualStep \/ FaultStep
    OBVIOUS
  <1>1. CASE \E p \in Node : ProcessStep(p)
    <2>1. PICK p \in Node : ProcessStep(p)
      BY <1>1
    <2>2. CASE p \in EN /\ Usual(ClientStep(p))
      BY <2>2 DEF Usual, UsualStep, Next
    <2>3. CASE p \in PN /\ Usual(ServerStep(p))
      BY <2>3 DEF Usual, UsualStep, Next
    <2>4. CASE Usual(ControllerStep)
      BY <2>4 DEF Usual, UsualStep, Next
    <2>5. CASE WildEndpoint \/ RxError(p) \/ TxError(p)
      BY <2>5 DEF FaultStep
    <2> QED
      BY <2>1, <2>2, <2>3, <2>4, <2>5 DEF ProcessStep
  <1>2. CASE \E l \in Link : Connect(l) \/ TurnDown(l)
    <2>1. PICK l \in Link : Connect(l) \/ TurnDown(l)
      BY <1>2
    <2>2. CASE Connect(l)
      BY <2>2 DEF Connect, Usual, UsualStep, Next, NetworkStep, Network
    <2> QED
      BY <2>1, <2>2 DEF FaultStep
  <1>3. CASE \E e \in Endpoint : Deliver(e) \/ Notice(e) \/ Flush(e)
    <2>1. PICK e \in Endpoint : Deliver(e) \/ Notice(e) \/ Flush(e)
      BY <1>3
    <2>2. CASE Deliver(e)
      BY <2>2 DEF Deliver, Usual, UsualStep, Next, NetworkStep, Network
    <2> QED
      BY <2>1, <2>2 DEF FaultStep
  <1>4. CASE (\E p \in Node : Crash(p)) \/ (\E h \in Host : Restart(h))
    BY <1>4 DEF FaultStep
  <1> QED
    BY <1>1, <1>2, <1>3, <1>4 DEF CrashNext

\* A process is at a place of its own code again after any fault.
LEMMA FaultPlaces ==
  ASSUME CrashTypeOK, FaultStep
  PROVE  PcTypeOK'
  <1>0. PcTypeOK
    BY DEF CrashTypeOK, TypeOK
  <1>1. ASSUME UNCHANGED pc PROVE PcTypeOK'
    BY <1>0, <1>1 DEF PcTypeOK
  <1>2. ASSUME NEW p \in Node, Goto(p, "gone") PROVE PcTypeOK'
    BY <1>0, <1>2, GotoTypes DEF ClientPC, ServerPC, ControllerPC
  <1>3. ASSUME NEW p \in Node, Goto(p, "failed") PROVE PcTypeOK'
    BY <1>0, <1>3, GotoTypes DEF ClientPC, ServerPC, ControllerPC
  <1>4. ASSUME NEW p \in Node, RxError(p) PROVE PcTypeOK'
    BY <1>1, <1>3, <1>4 DEF RxError, AfterRxError
  <1>5. ASSUME NEW p \in Node, TxError(p) PROVE PcTypeOK'
    <2>1. CASE pc[p] = "confirm_tx" /\ Goto(p, "await_start")
      <3>1. p \in EN
        BY <1>0, <2>1, NodeFacts DEF PcTypeOK, ServerPC, ControllerPC
      <3>2. p \notin PN /\ p # CN
        BY <3>1, NodeFacts
      <3> QED
        BY <1>0, <2>1, <3>1, <3>2, GotoTypes DEF ClientPC
    <2>2. UNCHANGED pc \/ Goto(p, "failed") \/ (pc[p] = "confirm_tx" /\ Goto(p, "await_start"))
      BY <1>5 DEF TxError, AfterTxError
    <2> QED
      BY <1>1, <1>3, <2>1, <2>2
  <1>6. CASE WildEndpoint
    BY <1>3, <1>6, NodeFacts DEF WildEndpoint
  <1>7. ASSUME NEW h \in Host, Restart(h) PROVE PcTypeOK'
    <2>1. h \in Node /\ h # CN
      BY NodeFacts
    <2>2. Goto(h, IF h \in PN THEN "listen" ELSE "dial")
      BY <1>7 DEF Restart
    <2>3. h \in EN => h \notin PN
      BY NodeFacts
    <2> QED
      BY <1>0, <2>1, <2>2, <2>3, GotoTypes DEF ClientPC, ServerPC
  <1>8. ASSUME NEW l \in Link, TurnDown(l) PROVE PcTypeOK'
    BY <1>1, <1>8 DEF TurnDown, nodeVars
  <1>9. ASSUME NEW e \in Endpoint, Notice(e) \/ Flush(e) PROVE PcTypeOK'
    BY <1>1, <1>9 DEF Notice, Flush, nodeVars
  <1>10. ASSUME NEW p \in Node, Crash(p) PROVE PcTypeOK'
    BY <1>2, <1>10 DEF Crash
  <1> QED
    BY <1>4, <1>5, <1>6, <1>7, <1>8, <1>9, <1>10 DEF FaultStep

\* What is left of f when a process is gone.
LEMMA ClearedTypes ==
  ASSUME NEW T, NEW f \in [Endpoint -> Seq(T)], NEW p
  PROVE  Cleared(f, p) \in [Endpoint -> Seq(T)]
  BY DEF Cleared

LEMMA CrashFabric ==
  ASSUME CrashTypeOK, NEW p \in Node, Crash(p)
  PROVE  FabricTypeOK'
  <1>0. FabricTypeOK /\ CN \in Node
    BY NodeFacts DEF CrashTypeOK, TypeOK
  <1>1. listening' \in [Listener -> BOOLEAN]
    <2>1. \A q \in Listener : (q # p /\ listening[q]) \in BOOLEAN
      OBVIOUS
    <2> QED
      BY <2>1, Zenon DEF Crash
  <1>2. link' \in [Link -> LinkStates]
    BY <1>0 DEF Crash, FabricTypeOK, LinkStates
  <1>3. eq' \in [Node -> Seq(Events)] /\ cqtx' \in [Node -> Nat]
    BY <1>0 DEF Crash, FabricTypeOK
  <1>4. /\ sq' \in [Endpoint -> Seq(Msg)] /\ rq' \in [Endpoint -> Seq(RecvSizes)]
        /\ rxc' \in [Endpoint -> Seq(Completions)]
    <2>1. sq' = Cleared(sq, p) /\ rq' = Cleared(rq, p) /\ rxc' = Cleared(rxc, p)
      BY DEF Crash
    <2> QED
      BY <1>0, <2>1, ClearedTypes DEF FabricTypeOK
  <1>5. buf' \in [Endpoint -> Msg]
    BY <1>0, MsgFacts DEF Crash, FabricTypeOK
  <1> QED
    BY <1>1, <1>2, <1>3, <1>4, <1>5 DEF FabricTypeOK

LEMMA CrashTypes ==
  ASSUME CrashTypeOK, NEW p \in Node, Crash(p)
  PROVE  CrashTypeOK'
  <1>0. TypeOK /\ RoundOpen /\ OwnEvents /\ FaultTypeOK
    BY DEF CrashTypeOK
  <1>1. FabricTypeOK' /\ PcTypeOK'
    BY CrashFabric, FaultPlaces DEF FaultStep
  <1>2. peer' \in [Host -> PN \cup {CN}] /\ \A s \in PN : peer'[s] = CN
    BY <1>0, NodeFacts DEF Crash, TypeOK
  <1>3. remoteKeys' \in [Link -> Msg]
    BY <1>0, MsgFacts, EndpointFacts DEF Crash, TypeOK
  <1>4. counter' \in [Listener -> Int] /\ snap' \in [EN -> Nat]
    BY <1>0 DEF Crash, TypeOK
  <1>5. /\ rounds' \in 0 .. MaxRounds /\ checkpoint' \in [EN -> Msg] /\ summary' \in [EN -> Msg]
        /\ rounds' = rounds
    BY <1>0 DEF Crash, TypeOK
  <1>6. TypeOK'
    BY <1>1, <1>2, <1>3, <1>4, <1>5 DEF TypeOK
  <1>7. pc'[CN] \in {pc[CN], "gone"}
    BY <1>0, NodeFacts, GotoOwn DEF Crash
  <1>8. RoundOpen'
    BY <1>0, <1>5, <1>7 DEF RoundOpen
  <1>9. OwnEvents'
    <2>1. \A q \in Node : eq'[q] = IF q = p THEN <<>> ELSE eq[q]
      BY <1>0 DEF Crash, TypeOK, FabricTypeOK
    <2>2. DOMAIN <<>> = {}
      OBVIOUS
    <2> QED
      BY <1>0, <2>1, <2>2 DEF OwnEvents
  <1>10. FaultTypeOK'
    <2>0. /\ crashes < MaxCrashes /\ crashes' = crashes + 1 /\ crashes \in Nat
          /\ MaxCrashes \in Nat /\ unseen \in [Endpoint -> Nat]
          /\ \A e \in Endpoint : unseen[e] \in Nat /\ unseen[e] <= crashes
      BY <1>0, CrashesAssumption DEF Crash, FaultTypeOK
    <2>1. crashed' \subseteq Node /\ crashes' \in 0 .. MaxCrashes
      BY <1>0, <2>0 DEF Crash, FaultTypeOK
    <2>2. txErr' \in [Node -> Nat] /\ rxErr' \in [Node -> Nat] /\ made' \subseteq Passive
      BY <1>0 DEF Crash, FaultTypeOK
    <2>3. \A e \in Endpoint : unseen'[e] \in {0, unseen[e], unseen[e] + 1}
      BY DEF Crash
    <2>4. unseen' \in [Endpoint -> Nat]
      <3>1. \A e \in Endpoint : unseen[e] + 1 \in Nat
        BY <2>0
      <3>2. unseen' = [e \in Endpoint |-> unseen'[e]]
        BY DEF Crash
      <3> QED
        BY <2>0, <2>3, <3>1, <3>2
    <2>5. \A e \in Endpoint : unseen'[e] <= crashes'
      BY <2>0, <2>3
    <2> QED
      BY <2>1, <2>2, <2>4, <2>5 DEF FaultTypeOK
  <1> QED
    BY <1>6, <1>8, <1>9, <1>10 DEF CrashTypeOK

LEMMA RestartTypes ==
  ASSUME CrashTypeOK, NEW h \in Host, Restart(h)
  PROVE  CrashTypeOK'
  <1>0. TypeOK /\ RoundOpen /\ OwnEvents /\ FaultTypeOK /\ h \in Node /\ h # CN
    BY NodeFacts DEF CrashTypeOK
  <1>1. PcTypeOK'
    BY FaultPlaces DEF FaultStep
  <1>2. /\ eq' = [eq EXCEPT ![h] = <<>>]
        /\ UNCHANGED <<listening, link, sq, rq, rxc, cqtx, buf, peer, remoteKeys, counter,
                       snap, rounds, checkpoint, summary, crashes, unseen, txErr, rxErr, made>>
        /\ crashed' = crashed \ {h} /\ \E place : Goto(h, place)
    BY DEF Restart
  <1>3. eq' \in [Node -> Seq(Events)]
    BY <1>0, <1>2 DEF TypeOK, FabricTypeOK
  <1>4. TypeOK'
    BY <1>0, <1>1, <1>2, <1>3 DEF TypeOK, FabricTypeOK
  <1>5. pc'[CN] = pc[CN]
    BY <1>0, <1>2, NodeFacts, GotoOwn
  <1>6. RoundOpen'
    BY <1>0, <1>2, <1>5 DEF RoundOpen
  <1>7. OwnEvents'
    <2>1. \A q \in Node : eq'[q] = IF q = h THEN <<>> ELSE eq[q]
      BY <1>0, <1>2 DEF TypeOK, FabricTypeOK
    <2>2. DOMAIN <<>> = {}
      OBVIOUS
    <2> QED
      BY <1>0, <2>1, <2>2 DEF OwnEvents
  <1>8. FaultTypeOK'
    BY <1>0, <1>2 DEF FaultTypeOK
  <1> QED
    BY <1>4, <1>6, <1>7, <1>8 DEF CrashTypeOK

\* An event comes to the end of a queue.
LEMMA OneMoreEvent ==
  ASSUME CrashTypeOK, NEW p \in Node, NEW v \in Events, v.ep[1] = p,
         v.kind = "CONNREQ" => v.ep \in Passive,
         eq' = [eq EXCEPT ![p] = Append(@, v)]
  PROVE  eq' \in [Node -> Seq(Events)] /\ OwnEvents'
  <1>0. eq \in [Node -> Seq(Events)] /\ OwnEvents
    BY DEF CrashTypeOK, TypeOK, FabricTypeOK
  <1>1. eq[p] \in Seq(Events)
    BY <1>0
  <1>2. Append(eq[p], v) \in Seq(Events)
    BY <1>1, AppendFacts
  <1>3. \A q \in Node : eq'[q] = IF q = p THEN Append(eq[p], v) ELSE eq[q]
    BY <1>0
  <1>4. OwnEvents'
    <2> SUFFICES ASSUME NEW q \in Node, NEW k \in DOMAIN eq'[q]
                 PROVE  /\ eq'[q][k].ep[1] = q
                        /\ eq'[q][k].kind = "CONNREQ" => eq'[q][k].ep \in Passive
      BY DEF OwnEvents
    <2>1. CASE q # p
      BY <1>0, <1>3, <2>1 DEF OwnEvents
    <2>2. CASE q = p
      <3>1. \/ k \in DOMAIN eq[p] /\ eq'[q][k] = eq[p][k]
            \/ eq'[q][k] = v
        BY <1>1, <1>3, <2>2, AppendFacts
      <3> QED
        BY <1>0, <2>2, <3>1 DEF OwnEvents
    <2> QED
      BY <2>1, <2>2
  <1> QED
    BY <1>0, <1>2, <1>4

LEMMA NoticeTypes ==
  ASSUME CrashTypeOK, NEW e \in Endpoint, Notice(e)
  PROVE  CrashTypeOK'
  <1> DEFINE v == [kind |-> "SHUTDOWN", ep |-> e]
  <1>0. TypeOK /\ RoundOpen /\ FaultTypeOK /\ e[1] \in Node
    BY EndpointFacts DEF CrashTypeOK
  <1>1. v \in Events /\ v.ep[1] = e[1] /\ v.kind # "CONNREQ"
    BY DEF Events
  <1>2. eq' = [eq EXCEPT ![e[1]] = Append(@, v)] /\ unseen[e] > 0
        /\ unseen' = [unseen EXCEPT ![e] = @ - 1]
        /\ UNCHANGED <<listening, link, sq, rq, rxc, cqtx, buf, nodeVars,
                       crashed, crashes, txErr, rxErr, made>>
    BY DEF Notice
  <1> HIDE DEF v
  <1>3. eq' \in [Node -> Seq(Events)] /\ OwnEvents'
    BY <1>0, <1>1, <1>2, OneMoreEvent
  <1>4. TypeOK'
    BY <1>0, <1>2, <1>3 DEF TypeOK, FabricTypeOK, PcTypeOK, nodeVars
  <1>5. RoundOpen'
    BY <1>0, <1>2 DEF RoundOpen, nodeVars
  <1>6. FaultTypeOK'
    BY <1>0, <1>2 DEF FaultTypeOK
  <1> QED
    BY <1>3, <1>4, <1>5, <1>6 DEF CrashTypeOK

LEMMA FlushTypes ==
  ASSUME CrashTypeOK, NEW e \in Endpoint, Flush(e)
  PROVE  CrashTypeOK'
  <1>0. TypeOK /\ RoundOpen /\ OwnEvents /\ FaultTypeOK /\ e[1] \in Node
    BY EndpointFacts DEF CrashTypeOK
  <1>1. /\ txErr' = [txErr EXCEPT ![e[1]] = @ + Len(sq[e])]
        /\ rxErr' = [rxErr EXCEPT ![e[1]] = @ + Len(rq[e])]
        /\ sq' = [sq EXCEPT ![e] = <<>>] /\ rq' = [rq EXCEPT ![e] = <<>>]
        /\ UNCHANGED <<listening, link, eq, rxc, cqtx, buf, nodeVars, crashed, crashes,
                       unseen, made>>
    BY DEF Flush
  <1>2. sq' \in [Endpoint -> Seq(Msg)] /\ rq' \in [Endpoint -> Seq(RecvSizes)]
    BY <1>0, <1>1 DEF TypeOK, FabricTypeOK
  <1>3. TypeOK'
    BY <1>0, <1>1, <1>2 DEF TypeOK, FabricTypeOK, PcTypeOK, nodeVars
  <1>4. RoundOpen' /\ OwnEvents'
    BY <1>0, <1>1 DEF RoundOpen, OwnEvents, nodeVars
  <1>5. Len(sq[e]) \in Nat /\ Len(rq[e]) \in Nat
    BY <1>0 DEF TypeOK, FabricTypeOK
  <1>6. FaultTypeOK'
    BY <1>0, <1>1, <1>5 DEF FaultTypeOK
  <1> QED
    BY <1>3, <1>4, <1>6 DEF CrashTypeOK

\* A completion with an error, or an endpoint that was never set.
LEMMA ErrorTypes ==
  ASSUME CrashTypeOK, (\E p \in Node : RxError(p) \/ TxError(p)) \/ WildEndpoint
  PROVE  CrashTypeOK'
  <1>0. TypeOK /\ RoundOpen /\ OwnEvents /\ FaultTypeOK
    BY DEF CrashTypeOK
  <1>1. PcTypeOK'
    BY FaultPlaces DEF FaultStep
  <1>2. UNCHANGED <<fabricVars, peer, remoteKeys, counter, snap, rounds, checkpoint, summary,
                    crashed, crashes, unseen, made>>
    BY DEF RxError, TxError, WildEndpoint, faultVars
  <1>3. TypeOK'
    BY <1>0, <1>1, <1>2 DEF TypeOK, FabricTypeOK, fabricVars
  <1>4. OwnEvents'
    BY <1>0, <1>2 DEF OwnEvents, fabricVars
  <1>5. pc'[CN] \in {"checkpoint_tx", "checkpoint_rx"} => pc'[CN] = pc[CN]
    <2>1. ASSUME NEW p \in Node, NEW place, Goto(p, place), place \in {"failed", "await_start"}
          PROVE  pc'[CN] \in {"checkpoint_tx", "checkpoint_rx"} => pc'[CN] = pc[CN]
      BY <1>0, <2>1, GotoOwn, NodeFacts
    <2>2. UNCHANGED pc \/ \E p \in Node : Goto(p, "failed") \/ Goto(p, "await_start")
      BY NodeFacts DEF RxError, TxError, WildEndpoint, AfterRxError, AfterTxError
    <2> QED
      BY <2>1, <2>2
  <1>6. RoundOpen'
    BY <1>0, <1>2, <1>5 DEF RoundOpen
  <1>7. txErr' \in [Node -> Nat] /\ rxErr' \in [Node -> Nat]
    <2>1. CASE \E p \in Node : RxError(p)
      <3>1. PICK p \in Node : RxError(p)
        BY <2>1
      <3>2. rxErr[p] > 0 /\ rxErr' = [rxErr EXCEPT ![p] = @ - 1] /\ txErr' = txErr
        BY <3>1 DEF RxError
      <3> QED
        BY <1>0, <3>2 DEF FaultTypeOK
    <2>2. CASE \E p \in Node : TxError(p)
      <3>1. PICK p \in Node : TxError(p)
        BY <2>2
      <3>2. txErr[p] > 0 /\ txErr' = [txErr EXCEPT ![p] = @ - 1] /\ rxErr' = rxErr
        BY <3>1 DEF TxError
      <3> QED
        BY <1>0, <3>2 DEF FaultTypeOK
    <2>3. CASE WildEndpoint
      BY <1>0, <2>3 DEF WildEndpoint, FaultTypeOK, faultVars
    <2> QED
      BY <2>1, <2>2, <2>3
  <1>8. FaultTypeOK'
    BY <1>0, <1>2, <1>7 DEF FaultTypeOK
  <1> QED
    BY <1>3, <1>4, <1>6, <1>8 DEF CrashTypeOK

\* The request of link l as the listener sees it, and its end.
Req(l) == [kind |-> "CONNREQ", ep |-> Rev(l)]
Err(l) == [kind |-> "REFUSED", ep |-> Rev(l)]

\* What may happen to queue p when the request of l is turned down.
TurnedDown(l, p) ==
  \/ eq'[p] = eq[p]
  \/ \E v \in Events : v.kind = "REFUSED" /\ v.ep[1] = p /\ eq'[p] = Append(eq[p], v)
  \/ /\ link[l] = "requested" /\ p = l[2]
     /\ \/ \E k \in DOMAIN eq[p] : eq[p][k] = Req(l) /\ eq'[p] = RemoveAt(eq[p], k)
        \/ eq'[p] = [k \in DOMAIN eq[p] |-> IF eq[p][k] = Req(l) THEN Err(l) ELSE eq[p][k]]

\* What the listener, if it is the one that lives, sees of it.
HeardDown(l) ==
  \/ link[l] = "accepted" /\ eq'[l[2]] = Append(eq[l[2]], Err(l))
  \/ /\ link[l] = "requested"
     /\ \/ \E k \in DOMAIN eq[l[2]] :
             eq[l[2]][k] = Req(l) /\ eq'[l[2]] = RemoveAt(eq[l[2]], k)
        \/ eq'[l[2]] = [k \in DOMAIN eq[l[2]] |-> IF eq[l[2]][k] = Req(l) THEN Err(l)
                                                 ELSE eq[l[2]][k]]

LEMMA TurnDownEffect ==
  ASSUME CrashTypeOK, NEW l \in Link, TurnDown(l)
  PROVE  /\ link[l] \in {"requested", "accepted"} /\ link'[l] = "closed"
         /\ \A k \in Link : k # l => link'[k] = link[k]
         /\ link' \in [Link -> LinkStates]
         /\ DOMAIN eq' = Node
         /\ \A p \in Node : TurnedDown(l, p)
         /\ ~Alive(l[1]) => HeardDown(l)
         /\ Req(l) \in Events /\ Err(l) \in Events /\ l[1] # l[2]
  <1>0. /\ link \in [Link -> LinkStates] /\ eq \in [Node -> Seq(Events)]
        /\ l[1] \in Node /\ l[2] \in Node /\ l[1] # l[2]
        /\ l \in Endpoint /\ Rev(l) \in Endpoint /\ Rev(l)[1] = l[2]
    <2>1. l[1] \in Node /\ l[2] \in Node /\ l[1] # l[2] /\ Rev(l)[1] = l[2]
      BY LinkShape, NodeFacts
    <2>2. l \in Endpoint /\ Rev(l) \in Endpoint
      BY EndpointFacts
    <2> QED
      BY <2>1, <2>2 DEF CrashTypeOK, TypeOK, FabricTypeOK
  <1>1. link[l] \in {"requested", "accepted"} /\ link' = [link EXCEPT ![l] = "closed"]
    BY DEF TurnDown
  <1>2. /\ link'[l] = "closed" /\ \A k \in Link : k # l => link'[k] = link[k]
        /\ link' \in [Link -> LinkStates]
    BY <1>0, <1>1 DEF LinkStates
  <1>3. Req(l) \in Events /\ Err(l) \in Events /\ Err(l).kind = "REFUSED" /\ Err(l).ep[1] = l[2]
    BY <1>0 DEF Req, Err, Events
  <1>4. CASE Alive(l[1])
    <2> DEFINE v == [kind |-> "REFUSED", ep |-> l]
    <2>1. eq' = [eq EXCEPT ![l[1]] = Append(@, v)]
      BY <1>4 DEF TurnDown
    <2>2. v \in Events /\ v.kind = "REFUSED" /\ v.ep[1] = l[1]
      BY <1>0 DEF Events
    <2> HIDE DEF v
    <2>3. DOMAIN eq' = Node /\ \A p \in Node : eq'[p] = IF p = l[1] THEN Append(eq[p], v) ELSE eq[p]
      BY <1>0, <2>1
    <2> QED
      BY <1>0, <1>1, <1>2, <1>3, <1>4, <2>2, <2>3 DEF TurnedDown
  <1>5. CASE ~Alive(l[1])
    <2> DEFINE q == eq[l[2]]
               changed == [k \in DOMAIN q |-> IF q[k] = Req(l) THEN Err(l) ELSE q[k]]
    <2>1. eq' \in {[eq EXCEPT ![l[2]] = r] :
                     r \in IF link[l] = "accepted" THEN {Append(q, Err(l))}
                           ELSE {RemoveAt(q, k) : k \in {n \in DOMAIN q : q[n] = Req(l)}}
                                  \cup {changed}}
      BY <1>5 DEF TurnDown, Req, Err
    <2> HIDE DEF q, changed
    <2>2. PICK r : /\ eq' = [eq EXCEPT ![l[2]] = r]
                   /\ r \in IF link[l] = "accepted" THEN {Append(q, Err(l))}
                            ELSE {RemoveAt(q, k) : k \in {n \in DOMAIN q : q[n] = Req(l)}}
                                   \cup {changed}
      BY <2>1
    <2>3. DOMAIN eq' = Node /\ \A p \in Node : eq'[p] = IF p = l[2] THEN r ELSE eq[p]
      BY <1>0, <2>2
    <2>4. HeardDown(l)
      <3>1. CASE link[l] = "accepted"
        <4>1. eq'[l[2]] = Append(eq[l[2]], Err(l))
          BY <1>0, <2>2, <2>3, <3>1 DEF q
        <4> QED
          BY <3>1, <4>1 DEF HeardDown
      <3>2. CASE link[l] = "requested"
        <4>1. \/ \E k \in DOMAIN q : q[k] = Req(l) /\ r = RemoveAt(q, k)
              \/ r = changed
          BY <2>2, <3>2
        <4>2. eq'[l[2]] = r
          BY <1>0, <2>3
        <4> QED
          BY <3>2, <4>1, <4>2 DEF HeardDown, q, changed
      <3> QED
        BY <1>1, <3>1, <3>2
    <2>5. \A p \in Node : TurnedDown(l, p)
      <3>1. TurnedDown(l, l[2])
        BY <1>3, <2>4 DEF TurnedDown, HeardDown
      <3> QED
        BY <2>3, <3>1 DEF TurnedDown
    <2> QED
      BY <1>0, <1>1, <1>2, <1>3, <2>3, <2>4, <2>5
  <1> QED
    BY <1>4, <1>5

LEMMA TurnDownTypes ==
  ASSUME CrashTypeOK, NEW l \in Link, TurnDown(l)
  PROVE  CrashTypeOK'
  <1>0. TypeOK /\ RoundOpen /\ OwnEvents /\ FaultTypeOK /\ eq \in [Node -> Seq(Events)]
    BY DEF CrashTypeOK, TypeOK, FabricTypeOK
  <1>1. UNCHANGED <<listening, sq, rq, rxc, cqtx, buf, nodeVars, faultVars>>
    BY DEF TurnDown
  <1>2. ASSUME NEW p \in Node
        PROVE  /\ eq'[p] \in Seq(Events)
               /\ \A n \in DOMAIN eq'[p] : /\ eq'[p][n].ep[1] = p
                                           /\ eq'[p][n].kind = "CONNREQ" => eq'[p][n].ep \in Passive
    <2>0. eq[p] \in Seq(Events)
          /\ \A n \in DOMAIN eq[p] : /\ eq[p][n].ep[1] = p
                                     /\ eq[p][n].kind = "CONNREQ" => eq[p][n].ep \in Passive
      BY <1>0 DEF OwnEvents
    <2>1. TurnedDown(l, p) /\ Req(l) \in Events /\ Err(l) \in Events
      BY TurnDownEffect
    <2>2. CASE eq'[p] = eq[p]
      BY <2>0, <2>2
    <2>3. ASSUME NEW v \in Events, v.kind = "REFUSED", v.ep[1] = p, eq'[p] = Append(eq[p], v)
          PROVE  /\ eq'[p] \in Seq(Events)
                 /\ \A n \in DOMAIN eq'[p] :
                      /\ eq'[p][n].ep[1] = p
                      /\ eq'[p][n].kind = "CONNREQ" => eq'[p][n].ep \in Passive
      <3>1. /\ Append(eq[p], v) \in Seq(Events)
            /\ \A k \in DOMAIN Append(eq[p], v) :
                 (k \in DOMAIN eq[p] /\ Append(eq[p], v)[k] = eq[p][k]) \/ Append(eq[p], v)[k] = v
        BY <2>0, AppendFacts
      <3> QED
        BY <2>0, <2>3, <3>1
    <2>4. ASSUME NEW k \in DOMAIN eq[p], eq'[p] = RemoveAt(eq[p], k)
          PROVE  /\ eq'[p] \in Seq(Events)
                 /\ \A n \in DOMAIN eq'[p] :
                      /\ eq'[p][n].ep[1] = p
                      /\ eq'[p][n].kind = "CONNREQ" => eq'[p][n].ep \in Passive
      <3>1. /\ eq'[p] \in Seq(Events) /\ Len(eq'[p]) = Len(eq[p]) - 1
            /\ \A n \in 1 .. k - 1 : eq'[p][n] = eq[p][n]
            /\ \A n \in k .. Len(eq[p]) - 1 : eq'[p][n] = eq[p][n + 1]
        BY <2>0, <2>4, RemoveFacts
      <3>2. /\ Len(eq[p]) \in Nat /\ DOMAIN eq[p] = 1 .. Len(eq[p]) /\ k \in 1 .. Len(eq[p])
            /\ DOMAIN eq'[p] = 1 .. Len(eq[p]) - 1
        BY <2>0, <3>1
      <3>3. ASSUME NEW n \in DOMAIN eq'[p] PROVE \E m \in DOMAIN eq[p] : eq'[p][n] = eq[p][m]
        <4>1. CASE n < k
          <5>1. n \in 1 .. k - 1 /\ n \in DOMAIN eq[p]
            BY <3>2, <4>1
          <5> QED
            BY <3>1, <5>1
        <4>2. CASE n >= k
          <5>1. n \in k .. Len(eq[p]) - 1 /\ n + 1 \in DOMAIN eq[p]
            BY <3>2, <4>2
          <5> QED
            BY <3>1, <5>1
        <4> QED
          BY <3>2, <4>1, <4>2
      <3> QED
        BY <2>0, <3>1, <3>3
    <2>5. ASSUME p = l[2],
                 eq'[p] = [k \in DOMAIN eq[p] |-> IF eq[p][k] = Req(l) THEN Err(l) ELSE eq[p][k]]
          PROVE  /\ eq'[p] \in Seq(Events)
                 /\ \A n \in DOMAIN eq'[p] :
                      /\ eq'[p][n].ep[1] = p
                      /\ eq'[p][n].kind = "CONNREQ" => eq'[p][n].ep \in Passive
      <3>1. Err(l).ep[1] = l[2] /\ Err(l).kind = "REFUSED"
        BY LinkShape DEF Err
      <3>2. Req(l).kind # "X" /\ Err(l).kind # "X"
        BY DEF Req, Err
      <3>3. eq'[p] \in Seq(Events) /\ DOMAIN eq'[p] = DOMAIN eq[p]
        BY <2>0, <2>1, <2>5, <3>2, PositionsChanged
      <3> QED
        BY <2>0, <2>5, <3>1, <3>3
    <2> QED
      BY <2>1, <2>2, <2>3, <2>4, <2>5 DEF TurnedDown
  <1>3. DOMAIN eq' = Node /\ link' \in [Link -> LinkStates]
    BY TurnDownEffect
  <1>4. eq' \in [Node -> Seq(Events)]
    <2>1. eq' = [p \in Node |-> eq'[p]]
      <3>1. eq' \in [Node -> Seq(Events)] \/ \E f : eq' = [eq EXCEPT ![l[1]] = f]
                                         \/ \E r : eq' = [eq EXCEPT ![l[2]] = r]
        BY DEF TurnDown
      <3> QED
        BY <1>0, <1>3, <3>1
    <2> QED
      BY <1>2, <2>1
  <1>5. TypeOK'
    BY <1>0, <1>1, <1>3, <1>4 DEF TypeOK, FabricTypeOK, PcTypeOK, nodeVars
  <1>6. RoundOpen' /\ FaultTypeOK'
    BY <1>0, <1>1 DEF RoundOpen, FaultTypeOK, nodeVars, faultVars
  <1>7. OwnEvents'
    BY <1>2 DEF OwnEvents
  <1> QED
    BY <1>5, <1>6, <1>7 DEF CrashTypeOK

LEMMA UsualTypes ==
  ASSUME CrashTypeOK, UsualStep
  PROVE  CrashTypeOK'
  <1>0. TypeOK /\ RoundOpen /\ OwnEvents /\ FaultTypeOK /\ [Next]_vars
    BY DEF CrashTypeOK, UsualStep
  <1>1. TypeOK' /\ RoundOpen' /\ OwnEvents'
    BY <1>0, TypesStep, RoundOpenStep, OwnEventsStep
  <1>2. made' \subseteq Passive
    <2>1. \A l \in Link : Rev(l) \in Passive
      BY LinkShape
    <2> QED
      BY <1>0, <2>1 DEF UsualStep, Making, FaultTypeOK
  <1>3. FaultTypeOK'
    BY <1>0, <1>2 DEF UsualStep, FaultTypeOK
  <1> QED
    BY <1>1, <1>3 DEF CrashTypeOK

LEMMA CrashTypesStep == CrashTypeOK /\ [CrashNext]_crashVars => CrashTypeOK'
  <1> SUFFICES ASSUME CrashTypeOK, [CrashNext]_crashVars PROVE CrashTypeOK'
    OBVIOUS
  <1>1. CASE UsualStep
    BY <1>1, UsualTypes
  <1>2. CASE FaultStep
    BY <1>2, ErrorTypes, CrashTypes, TurnDownTypes, NoticeTypes, FlushTypes, RestartTypes
       DEF FaultStep
  <1>3. CASE UNCHANGED crashVars
    BY <1>3 DEF crashVars, vars, fabricVars, nodeVars, faultVars, CrashTypeOK, TypeOK, PcTypeOK,
                FabricTypeOK, RoundOpen, OwnEvents, FaultTypeOK
  <1> QED
    BY <1>1, <1>2, <1>3, CrashSteps

LEMMA CrashTypesInit == CrashInit => CrashTypeOK
  <1> SUFFICES ASSUME CrashInit PROVE CrashTypeOK
    OBVIOUS
  <1>1. TypeOK /\ pc[CN] = "wait_all"
    BY InitTypes, NodeFacts DEF CrashInit, Init
  <1>2. \A p \in Node : eq[p] = <<>> /\ DOMAIN eq[p] = {}
    BY DEF CrashInit, Init, FabricInit
  <1>3. FaultTypeOK
    BY CrashesAssumption DEF CrashInit, FaultTypeOK
  <1> QED
    BY <1>1, <1>2, <1>3 DEF CrashTypeOK, RoundOpen, OwnEvents

\* With processes killed and started again at any point everything keeps its type,
\* every process stands at a place of its own code, and the run has no more
\* checkpoints than the loop of controller() asks for.
THEOREM CrashTypesHold == CrashSpec => []TypeOK
  <1>1. CrashTypeOK => TypeOK
    BY DEF CrashTypeOK
  <1> QED
    BY <1>1, CrashTypesInit, CrashTypesStep, PTL DEF CrashSpec

-----------------------------------------------------------------------------
(* While the controller gathers its hosts. *)

\* A host that has not called yet has no connection.
NotCalled(h) == pc[h] \in {"listen", "dial"} => link[Cep(h)] \in {"closed", "down"}

\* A request that waits for the controller is the only one of its host, and open.
Requested(h) ==
  /\ \A k \in DOMAIN eq[CN] : Told(k, h, "CONNREQ") => link[Cep(h)] = "requested"
  /\ \A j, k \in DOMAIN eq[CN] : Told(j, h, "CONNREQ") /\ Told(k, h, "CONNREQ") => j = k

\* accept() has made the endpoint of a connection.
Accepted(h) == link[Cep(h)] \in {"accepted", "up"} => <<CN, h>> \in made

GatherInv ==
  pc[CN] = "wait_all" => \A h \in Host : NotCalled(h) /\ Requested(h) /\ Accepted(h)

\* Every request waiting afterwards waited before, at a place of its own.
LEMMA RequestsFewer ==
  ASSUME NEW h, NEW f, Requested(h), link'[Cep(h)] = link[Cep(h)], Cep(h)' = Cep(h),
         \A n \in DOMAIN eq'[CN] : Told(n, h, "CONNREQ")' =>
           f[n] \in DOMAIN eq[CN] /\ Told(f[n], h, "CONNREQ"),
         \A m, n \in DOMAIN eq'[CN] :
           Told(m, h, "CONNREQ")' /\ Told(n, h, "CONNREQ")' /\ f[m] = f[n] => m = n
  PROVE  Requested(h)'
  <1>1. ASSUME NEW n \in DOMAIN eq'[CN], Told(n, h, "CONNREQ")'
        PROVE  link'[Cep(h)] = "requested"
    BY <1>1 DEF Requested
  <1>2. ASSUME NEW m \in DOMAIN eq'[CN], NEW n \in DOMAIN eq'[CN],
               Told(m, h, "CONNREQ")', Told(n, h, "CONNREQ")'
        PROVE  m = n
    <2>1. f[m] = f[n]
      BY <1>2 DEF Requested
    <2> QED
      BY <1>2, <2>1
  <1> QED
    BY <1>1, <1>2 DEF Requested

LEMMA RequestsNone ==
  ASSUME NEW h, \A n \in DOMAIN eq'[CN] : ~Told(n, h, "CONNREQ")'
  PROVE  Requested(h)'
  BY DEF Requested

\* Where the events of a queue were before one was taken out.
LEMMA RemoveShift ==
  ASSUME NEW s \in Seq(Events), NEW j \in DOMAIN s
  PROVE  \E f : /\ \A n \in DOMAIN RemoveAt(s, j) :
                     f[n] \in DOMAIN s /\ f[n] # j /\ RemoveAt(s, j)[n] = s[f[n]]
                /\ \A m, n \in DOMAIN RemoveAt(s, j) : f[m] = f[n] => m = n
                /\ \A m, n \in DOMAIN RemoveAt(s, j) : f[m] < f[n] => m < n
  <1> DEFINE f == [n \in 1 .. Len(s) - 1 |-> IF n < j THEN n ELSE n + 1]
             r == RemoveAt(s, j)
  <1>1. /\ r \in Seq(Events) /\ Len(r) = Len(s) - 1 /\ Len(s) \in Nat /\ j \in 1 .. Len(s)
        /\ DOMAIN s = 1 .. Len(s) /\ DOMAIN r = 1 .. Len(s) - 1
        /\ \A n \in 1 .. j - 1 : r[n] = s[n]
        /\ \A n \in j .. Len(s) - 1 : r[n] = s[n + 1]
    BY RemoveFacts
  <1> HIDE DEF r
  <1>2. ASSUME NEW n \in 1 .. Len(s) - 1
        PROVE  f[n] \in DOMAIN s /\ f[n] # j /\ r[n] = s[f[n]]
    <2>1. CASE n < j
      <3>1. n \in 1 .. j - 1
        BY <1>1, <2>1
      <3> QED
        BY <1>1, <2>1, <3>1
    <2>2. CASE n >= j
      <3>1. n \in j .. Len(s) - 1 /\ ~(n < j)
        BY <1>1, <2>2
      <3> QED
        BY <1>1, <3>1
    <2> QED
      BY <1>1, <2>1, <2>2
  <1>3. ASSUME NEW m \in 1 .. Len(s) - 1, NEW n \in 1 .. Len(s) - 1, f[m] = f[n] PROVE m = n
    BY <1>1, <1>3
  <1>4. ASSUME NEW m \in 1 .. Len(s) - 1, NEW n \in 1 .. Len(s) - 1, f[m] < f[n] PROVE m < n
    BY <1>1, <1>4
  <1> HIDE DEF f
  <1>5. /\ \A n \in DOMAIN r : f[n] \in DOMAIN s /\ f[n] # j /\ r[n] = s[f[n]]
        /\ \A m, n \in DOMAIN r : f[m] = f[n] => m = n
        /\ \A m, n \in DOMAIN r : f[m] < f[n] => m < n
    BY <1>1, <1>2, <1>3, <1>4
  <1> QED
    BY <1>5, Zenon DEF r

\* The controller starts to gather and never comes back to it.
LEMMA GatherBefore ==
  ASSUME CrashTypeOK, UsualStep, pc'[CN] = "wait_all"
  PROVE  pc[CN] = "wait_all" /\ (ControllerStep => WaitAllConn(CN))
  <1>0. TypeOK /\ OwnEvents /\ [Next]_vars /\ CN \in Node /\ CN \notin EN /\ CN \notin PN
    BY NodeFacts DEF CrashTypeOK, UsualStep
  <1>1. ASSUME NEW place, Goto(CN, place) PROVE place = "wait_all"
    BY <1>0, <1>1, GotoOwn
  <1>2. CASE ControllerStep
    <2>1. CASE WaitAllConn(CN)
      BY <2>1 DEF WaitAllConn
    <2>2. CASE ControllerConnect \/ ControllerStart \/ ControllerCheckpoint \/ ControllerStop
      BY <1>1, <2>2 DEF ControllerConnect, ControllerStart, ControllerCheckpoint, ControllerStop
    <2>3. CASE ConnectSent \/ StartSent \/ CheckpointSent \/ StopSent
      BY <1>1, <2>3 DEF ConnectSent, StartSent, CheckpointSent, StopSent, CommandsSent
    <2>4. CASE CheckpointDone \/ SummaryDone \/ ControllerDone \/ Exit(CN)
      BY <1>1, <2>4 DEF CheckpointDone, SummaryDone, ControllerDone, Exit
    <2>5. CASE CollectCheckpoint \/ CollectSummary
      BY <2>5 DEF CollectCheckpoint, CollectSummary
    <2>6. CASE CollectConfirm
      <3>1. pc[CN] = "connect_rx" /\ (Goto(CN, "failed") \/ pc' = pc)
        BY <2>6 DEF CollectConfirm
      <3> QED
        BY <1>1, <3>1
    <2>7. CASE AwaitShutdown
      <3>1. pc[CN] = "stop_cm" /\ Goto(CN, IF Head(eq[CN]).kind = "REFUSED" THEN "failed" ELSE pc[CN])
        BY <2>7 DEF AwaitShutdown
      <3> QED
        BY <1>1, <3>1
    <2> QED
      BY <1>2, <2>1, <2>2, <2>3, <2>4, <2>5, <2>6, <2>7 DEF ControllerStep
  <1>3. ASSUME Delivery \/ Elsewhere(CN) PROVE pc[CN] = "wait_all"
    BY <1>3 DEF Delivery, Elsewhere, nodeVars
  <1> QED
    BY <1>0, <1>2, <1>3, StepOwn

LEMMA HeadHandled ==
  ASSUME TypeOK, OwnEvents, NEW h \in Host, WaitAllConn(CN)
  PROVE  /\ eq[CN] # <<>> /\ eq'[CN] = Tail(eq[CN]) /\ 1 \in DOMAIN eq[CN]
         /\ Head(eq[CN]) \in Events /\ eq[CN][1] = Head(eq[CN]) /\ pc'[h] = pc[h]
         /\ \A k \in DOMAIN eq'[CN] : \A kind : Told(k, h, kind)' =>
              k \in Nat \ {0} /\ k + 1 \in DOMAIN eq[CN] /\ Told(k + 1, h, kind)
         /\ \/ Told(1, h, "CONNREQ") /\ link'[Cep(h)] = "accepted"
            \/ ~Told(1, h, "CONNREQ") /\ link'[Cep(h)] = link[Cep(h)]
  <1> DEFINE v == Head(eq[CN])
  <1>0. /\ h # CN /\ h \in Node /\ CN \in Node /\ Cep(h) = <<h, CN>> /\ Cep(h) \in Link
        /\ eq \in [Node -> Seq(Events)] /\ link \in [Link -> LinkStates]
    BY HostFacts DEF TypeOK, FabricTypeOK
  <1>1. eq[CN] # <<>> /\ HandleEvent(CN, v) /\ pc'[h] = pc[h]
    BY <1>0 DEF WaitAllConn, Goto, TypeOK, PcTypeOK
  <1>2. /\ eq'[CN] = Tail(eq[CN]) /\ v = eq[CN][1] /\ v.ep \in Endpoint /\ v.ep[1] = CN
        /\ 1 \in DOMAIN eq[CN] /\ v \in Events
    <2>1. eq'[CN] = Tail(eq[CN])
      BY <1>0, <1>1 DEF HandleEvent
    <2>2. v \in Events /\ v.ep[1] = CN
      BY <1>0, <1>1, HandleOwn
    <2>3. v = eq[CN][1] /\ 1 \in DOMAIN eq[CN]
      BY <1>0, <1>1, TailFacts
    <2> QED
      BY <2>1, <2>2, <2>3 DEF Events
  <1>3. ASSUME NEW k \in DOMAIN eq'[CN], NEW kind, Told(k, h, kind)'
        PROVE  k \in Nat \ {0} /\ k + 1 \in DOMAIN eq[CN] /\ Told(k + 1, h, kind)
    <2>1. k + 1 \in DOMAIN eq[CN] /\ eq'[CN][k] = eq[CN][k + 1] /\ k \in Nat \ {0}
      BY <1>0, <1>1, <1>2, TailFacts
    <2> QED
      BY <1>3, <2>1 DEF Told
  <1>4. \/ Told(1, h, "CONNREQ") /\ link'[Cep(h)] = "accepted"
        \/ ~Told(1, h, "CONNREQ") /\ link'[Cep(h)] = link[Cep(h)]
    <2>1. CASE v.kind = "CONNREQ" /\ v.ep = <<CN, h>>
      <3>1. LinkOf(v.ep) = Cep(h)
        BY <1>0, <2>1, PassiveShape, HostFacts, ControlEnds
      <3> QED
        BY <1>0, <1>1, <1>2, <2>1, <3>1 DEF HandleEvent, Told
    <2>2. CASE v.kind = "CONNREQ" /\ v.ep # <<CN, h>>
      <3>1. v.ep \in Passive
        BY <1>2, LinkShape, NodeFacts DEF Endpoint
      <3>2. LinkOf(v.ep) # Cep(h)
        BY <1>0, <1>2, <2>2, <3>1, PassiveShape
      <3> QED
        BY <1>0, <1>1, <1>2, <2>2, <3>2 DEF HandleEvent, Told
    <2>3. CASE v.kind # "CONNREQ"
      BY <1>1, <1>2, <2>3 DEF HandleEvent, Told
    <2> QED
      BY <2>1, <2>2, <2>3
  <1> QED
    BY <1>1, <1>2, <1>3, <1>4

LEMMA GatherUsual ==
  ASSUME CrashTypeOK, GatherInv, UsualStep, pc'[CN] = "wait_all", NEW h \in Host
  PROVE  NotCalled(h)' /\ Requested(h)' /\ Accepted(h)'
  <1>0. /\ TypeOK /\ OwnEvents /\ [Next]_vars /\ Cep(h)' = Cep(h) /\ Making
        /\ Cep(h) \in Link /\ Rev(Cep(h)) = <<CN, h>> /\ CN \in Node /\ h \in Node /\ h # CN
        /\ made \subseteq made' /\ eq[CN] \in Seq(Events)
        /\ Cep(h)[2] = CN /\ Cep(h) = <<h, CN>>
    <2>1. made \subseteq made'
      BY DEF UsualStep, Making
    <2>2. eq[CN] \in Seq(Events)
      BY NodeFacts DEF CrashTypeOK, TypeOK, FabricTypeOK
    <2> QED
      BY <2>1, <2>2, HostFacts DEF CrashTypeOK, UsualStep, Cep
  <1>1. pc[CN] = "wait_all" /\ NotCalled(h) /\ Requested(h) /\ Accepted(h)
    BY GatherBefore DEF GatherInv
  <1>2. CASE EqCalm(h) /\ LinkCalm(h)
    <2> DEFINE f == [n \in DOMAIN eq'[CN] |-> n]
    <2>1. \A n \in DOMAIN eq'[CN] : Told(n, h, "CONNREQ")' =>
            n \in DOMAIN eq[CN] /\ Told(n, h, "CONNREQ") /\ f[n] = n
      BY <1>0, <1>2, EqCalmNoNews DEF NoNews
    <2> HIDE DEF f
    <2>2. CASE link'[Cep(h)] = link[Cep(h)]
      <3>0. /\ \A n \in DOMAIN eq'[CN] : Told(n, h, "CONNREQ")' =>
                 f[n] \in DOMAIN eq[CN] /\ Told(f[n], h, "CONNREQ")
            /\ \A m, n \in DOMAIN eq'[CN] :
                 Told(m, h, "CONNREQ")' /\ Told(n, h, "CONNREQ")' /\ f[m] = f[n] => m = n
        BY <2>1
      <3>1. Requested(h)'
        BY <1>0, <1>1, <2>2, <3>0, RequestsFewer, Zenon
      <3>2. NotCalled(h)' /\ Accepted(h)'
        BY <1>0, <1>1, <2>2, DialOnce DEF NotCalled, Accepted
      <3> QED
        BY <3>1, <3>2
    <2>3. CASE link[Cep(h)] = "up" /\ link'[Cep(h)] = "down"
      <3>1. Requested(h)'
        BY <1>1, <2>1, <2>3, RequestsNone DEF Requested
      <3> QED
        BY <1>0, <2>3, <3>1 DEF NotCalled, Accepted
    <2> QED
      BY <1>2, <2>2, <2>3 DEF LinkCalm
  <1>3. CASE HostDial(h)
    <2> DEFINE v == [kind |-> "CONNREQ", ep |-> <<CN, h>>]
    <2>1. pc[h] = "dial" /\ pc'[h] = "await_cm" /\ Dials(h, CN)
      BY <1>0, <1>3, DialOwn DEF HostDial, Dials
    <2>2. /\ listening[CN] => link'[Cep(h)] = "requested" /\ eq'[CN] = Append(eq[CN], v)
          /\ ~listening[CN] => link' = link /\ eq'[CN] = eq[CN]
      BY <1>0, <2>1, CallMoves
    <2>3. \A k \in DOMAIN eq[CN] : ~Told(k, h, "CONNREQ")
      BY <1>1, <2>1 DEF NotCalled, Requested
    <2>4. CASE listening[CN]
      <3>1. v \in Events
        BY HostFacts DEF Events
      <3> HIDE DEF v
      <3>2. ASSUME NEW k \in DOMAIN eq'[CN], Told(k, h, "CONNREQ")' PROVE k = Len(eq[CN]) + 1
        <4>1. \/ k \in DOMAIN eq[CN] /\ eq'[CN][k] = eq[CN][k]
              \/ k = Len(eq[CN]) + 1 /\ eq'[CN][k] = v
          BY <1>0, <2>2, <2>4, <3>1, AppendFacts
        <4> QED
          BY <2>3, <3>2, <4>1 DEF Told
      <3>3. Requested(h)'
        BY <1>0, <2>2, <2>4, <3>2 DEF Requested
      <3> QED
        BY <1>0, <2>1, <2>2, <2>4, <3>3 DEF NotCalled, Accepted
    <2>5. CASE ~listening[CN]
      <3>1. \A k \in DOMAIN eq'[CN] : ~Told(k, h, "CONNREQ")'
        BY <2>2, <2>3, <2>5 DEF Told
      <3> QED
        BY <1>0, <1>1, <2>1, <2>2, <2>5, <3>1, RequestsNone DEF NotCalled, Accepted
    <2> QED
      BY <2>4, <2>5
  <1>4. CASE Joins(Cep(h))
    <2> DEFINE v == [kind |-> "CONNECTED", ep |-> <<CN, h>>]
    <2>1. link[Cep(h)] = "accepted" /\ link'[Cep(h)] = "up" /\ eq'[CN] = Append(eq[CN], v)
      BY <1>0, <1>4, JoinMoves
    <2>2. v \in Events /\ v.kind = "CONNECTED"
      BY HostFacts DEF Events
    <2> HIDE DEF v
    <2>3. \A k \in DOMAIN eq[CN] : ~Told(k, h, "CONNREQ")
      BY <1>1, <2>1 DEF Requested
    <2>4. \A k \in DOMAIN eq'[CN] : ~Told(k, h, "CONNREQ")'
      BY <1>0, <2>1, <2>2, <2>3, AppendFacts DEF Told
    <2>5. pc'[h] = pc[h]
      BY <1>4 DEF Joins, nodeVars
    <2> QED
      BY <1>0, <1>1, <2>1, <2>4, <2>5, RequestsNone DEF NotCalled, Accepted
  <1>5. CASE WaitAllConn(CN)
    <2> DEFINE f == [n \in DOMAIN eq'[CN] |-> n + 1]
    <2>1. /\ pc'[h] = pc[h] /\ 1 \in DOMAIN eq[CN]
          /\ \A k \in DOMAIN eq'[CN] : Told(k, h, "CONNREQ")' =>
               k \in Nat \ {0} /\ k + 1 \in DOMAIN eq[CN] /\ Told(k + 1, h, "CONNREQ")
          /\ \/ Told(1, h, "CONNREQ") /\ link'[Cep(h)] = "accepted"
             \/ ~Told(1, h, "CONNREQ") /\ link'[Cep(h)] = link[Cep(h)]
      BY <1>0, <1>5, HeadHandled
    <2>2. CASE Told(1, h, "CONNREQ") /\ link'[Cep(h)] = "accepted"
      <3>1. ASSUME NEW k \in DOMAIN eq'[CN], Told(k, h, "CONNREQ")' PROVE FALSE
        <4>1. k + 1 = 1 /\ k \in Nat \ {0}
          BY <1>1, <2>1, <2>2, <3>1 DEF Requested
        <4> QED
          BY <4>1
      <3>2. link[Cep(h)] = "requested"
        BY <1>1, <2>1, <2>2 DEF Requested
      <3>3. <<CN, h>> \in made'
        BY <1>0, <2>2, <3>2 DEF Making
      <3> QED
        BY <1>0, <1>1, <2>1, <2>2, <3>1, <3>2, <3>3, RequestsNone DEF NotCalled, Accepted
    <2>3. CASE link'[Cep(h)] = link[Cep(h)]
      <3>1. \A n \in DOMAIN eq'[CN] : f[n] = n + 1
        OBVIOUS
      <3> HIDE DEF f
      <3>2. ASSUME NEW m \in DOMAIN eq'[CN], NEW n \in DOMAIN eq'[CN],
                   Told(m, h, "CONNREQ")', Told(n, h, "CONNREQ")', f[m] = f[n]
            PROVE  m = n
        <4>1. m \in Nat /\ n \in Nat /\ m + 1 = n + 1
          BY <2>1, <3>1, <3>2
        <4> QED
          BY <4>1
      <3>3. Requested(h)'
        BY <1>0, <1>1, <2>1, <2>3, <3>1, <3>2, RequestsFewer
      <3>4. NotCalled(h)'
        BY <1>0, <1>1, <2>1, <2>3 DEF NotCalled
      <3>5. Accepted(h)'
        BY <1>0, <1>1, <2>3 DEF Accepted
      <3> QED
        BY <3>3, <3>4, <3>5
    <2> QED
      BY <2>1, <2>2, <2>3
  <1> QED
    BY <1>0, <1>1, <1>2, <1>3, <1>4, <1>5, CalmStep DEF SetupPC

\* What the fall of a call leaves among the controller's events.
LEMMA GatherTurnDown ==
  ASSUME CrashTypeOK, pc[CN] = "wait_all", NEW h \in Host, Requested(h),
         NEW l \in Link, TurnDown(l)
  PROVE  Requested(h)'
  <1>0. /\ eq[CN] \in Seq(Events) /\ CN \in Node /\ Cep(h)' = Cep(h) /\ Cep(h) \in Link
        /\ Rev(Cep(h)) = <<CN, h>> /\ Cep(h) = <<h, CN>>
        /\ l = <<l[1], l[2]>> /\ Rev(l) = <<l[2], l[1]>>
    BY HostFacts, LinkShape DEF CrashTypeOK, TypeOK, FabricTypeOK, Cep
  <1>1. /\ link[l] \in {"requested", "accepted"} /\ link'[l] = "closed"
        /\ \A k \in Link : k # l => link'[k] = link[k]
        /\ TurnedDown(l, CN) /\ (~Alive(l[1]) => HeardDown(l))
        /\ Req(l) \in Events /\ Err(l) \in Events /\ Err(l).kind = "REFUSED"
    <2>1. Err(l).kind = "REFUSED"
      BY DEF Err
    <2> QED
      BY <1>0, <2>1, TurnDownEffect
  <1>2. ASSUME NEW v \in Events, v.kind = "REFUSED", eq'[CN] = Append(eq[CN], v),
               NEW n \in DOMAIN eq'[CN], Told(n, h, "CONNREQ")'
        PROVE  n \in DOMAIN eq[CN] /\ Told(n, h, "CONNREQ")
    <2>1. (n \in DOMAIN eq[CN] /\ eq'[CN][n] = eq[CN][n]) \/ eq'[CN][n] = v
      BY <1>0, <1>2, AppendFacts
    <2> QED
      BY <1>2, <2>1 DEF Told
  <1>3. ASSUME eq'[CN] = [k \in DOMAIN eq[CN] |-> IF eq[CN][k] = Req(l) THEN Err(l) ELSE eq[CN][k]],
               NEW n \in DOMAIN eq'[CN], Told(n, h, "CONNREQ")'
        PROVE  n \in DOMAIN eq[CN] /\ Told(n, h, "CONNREQ") /\ eq[CN][n] # Req(l)
    <2>1. n \in DOMAIN eq[CN] /\ eq'[CN][n] = IF eq[CN][n] = Req(l) THEN Err(l) ELSE eq[CN][n]
      BY <1>3
    <2> QED
      BY <1>1, <1>3, <2>1 DEF Told
  <1>4. CASE l # Cep(h)
    <2>1. link'[Cep(h)] = link[Cep(h)]
      BY <1>0, <1>1, <1>4
    <2>2. ASSUME \A n \in DOMAIN eq'[CN] : Told(n, h, "CONNREQ")' =>
                   n \in DOMAIN eq[CN] /\ Told(n, h, "CONNREQ")
          PROVE  Requested(h)'
      BY <1>0, <2>1, <2>2 DEF Requested
    <2>3. CASE eq'[CN] = eq[CN]
      BY <2>2, <2>3 DEF Told
    <2>4. CASE \E v \in Events : v.kind = "REFUSED" /\ v.ep[1] = CN /\ eq'[CN] = Append(eq[CN], v)
      BY <1>2, <2>2, <2>4
    <2>5. CASE \E k \in DOMAIN eq[CN] : eq'[CN] = RemoveAt(eq[CN], k)
      <3>1. PICK k \in DOMAIN eq[CN] : eq'[CN] = RemoveAt(eq[CN], k)
        BY <2>5
      <3>2. PICK f : /\ \A n \in DOMAIN eq'[CN] :
                          f[n] \in DOMAIN eq[CN] /\ f[n] # k /\ eq'[CN][n] = eq[CN][f[n]]
                     /\ \A m, n \in DOMAIN eq'[CN] : f[m] = f[n] => m = n
        <4>1. \E f : /\ \A n \in DOMAIN RemoveAt(eq[CN], k) :
                          f[n] \in DOMAIN eq[CN] /\ f[n] # k /\ RemoveAt(eq[CN], k)[n] = eq[CN][f[n]]
                     /\ \A m, n \in DOMAIN RemoveAt(eq[CN], k) : f[m] = f[n] => m = n
                     /\ \A m, n \in DOMAIN RemoveAt(eq[CN], k) : f[m] < f[n] => m < n
          BY <1>0, RemoveShift, Zenon
        <4> QED
          BY <3>1, <4>1
      <3>3. /\ \A n \in DOMAIN eq'[CN] : Told(n, h, "CONNREQ")' =>
                 f[n] \in DOMAIN eq[CN] /\ Told(f[n], h, "CONNREQ")
            /\ \A m, n \in DOMAIN eq'[CN] :
                 Told(m, h, "CONNREQ")' /\ Told(n, h, "CONNREQ")' /\ f[m] = f[n] => m = n
        BY <3>2 DEF Told
      <3> QED
        BY <1>0, <2>1, <3>3, RequestsFewer, Zenon
    <2>6. CASE eq'[CN] = [k \in DOMAIN eq[CN] |-> IF eq[CN][k] = Req(l) THEN Err(l) ELSE eq[CN][k]]
      BY <1>3, <2>2, <2>6
    <2> QED
      BY <1>1, <2>3, <2>4, <2>5, <2>6 DEF TurnedDown
  <1>5. CASE l = Cep(h)
    <2>0. l[1] = h /\ l[2] = CN
      BY <1>0, <1>5
    <2>1. HeardDown(l)
      BY <1>1, <2>0 DEF TurnDown, Alive
    <2>2. Req(l).ep = <<CN, h>> /\ Req(l).kind = "CONNREQ"
      BY <1>0, <1>5 DEF Req
    <2>3. CASE link[l] = "accepted" /\ eq'[CN] = Append(eq[CN], Err(l))
      <3>1. \A n \in DOMAIN eq[CN] : ~Told(n, h, "CONNREQ")
        BY <1>5, <2>3 DEF Requested
      <3>2. \A n \in DOMAIN eq'[CN] : ~Told(n, h, "CONNREQ")'
        BY <1>1, <1>2, <2>3, <3>1
      <3> QED
        BY <3>2, RequestsNone
    <2>4. CASE \E k \in DOMAIN eq[CN] : eq[CN][k] = Req(l) /\ eq'[CN] = RemoveAt(eq[CN], k)
      <3>1. PICK k \in DOMAIN eq[CN] : eq[CN][k] = Req(l) /\ eq'[CN] = RemoveAt(eq[CN], k)
        BY <2>4
      <3>2. PICK f : \A n \in DOMAIN eq'[CN] :
                       f[n] \in DOMAIN eq[CN] /\ f[n] # k /\ eq'[CN][n] = eq[CN][f[n]]
        <4>1. \E f : /\ \A n \in DOMAIN RemoveAt(eq[CN], k) :
                          f[n] \in DOMAIN eq[CN] /\ f[n] # k /\ RemoveAt(eq[CN], k)[n] = eq[CN][f[n]]
                     /\ \A m, n \in DOMAIN RemoveAt(eq[CN], k) : f[m] = f[n] => m = n
                     /\ \A m, n \in DOMAIN RemoveAt(eq[CN], k) : f[m] < f[n] => m < n
          BY <1>0, RemoveShift, Zenon
        <4> QED
          BY <3>1, <4>1
      <3>3. Told(k, h, "CONNREQ")
        BY <2>2, <3>1 DEF Told
      <3>4. ASSUME NEW n \in DOMAIN eq'[CN], Told(n, h, "CONNREQ")' PROVE FALSE
        <4>1. Told(f[n], h, "CONNREQ") /\ f[n] \in DOMAIN eq[CN] /\ f[n] # k
          BY <3>2, <3>4 DEF Told
        <4> QED
          BY <3>3, <4>1 DEF Requested
      <3> QED
        BY <3>4, RequestsNone
    <2>5. CASE eq'[CN] = [k \in DOMAIN eq[CN] |-> IF eq[CN][k] = Req(l) THEN Err(l) ELSE eq[CN][k]]
      <3>1. ASSUME NEW n \in DOMAIN eq'[CN], Told(n, h, "CONNREQ")' PROVE FALSE
        <4>1. n \in DOMAIN eq[CN] /\ Told(n, h, "CONNREQ") /\ eq[CN][n] # Req(l)
          BY <1>3, <2>5, <3>1
        <4>2. eq[CN][n] \in Events
          BY <1>0, <4>1
        <4>3. eq[CN][n] = Req(l)
          BY <1>0, <1>5, <4>1, <4>2 DEF Told, Events, Req
        <4> QED
          BY <4>1, <4>3
      <3> QED
        BY <3>1, RequestsNone
    <2> QED
      BY <2>0, <2>1, <2>3, <2>4, <2>5 DEF HeardDown
  <1> QED
    BY <1>4, <1>5

\* No fault makes the controller gather again.
LEMMA GatherWhile ==
  ASSUME CrashTypeOK, FaultStep, pc'[CN] = "wait_all"
  PROVE  pc[CN] = "wait_all"
  <1>0. TypeOK /\ CN \in Node
    BY NodeFacts DEF CrashTypeOK
  <1>1. ASSUME NEW p \in Node, NEW place, Goto(p, place), place # "wait_all"
        PROVE  pc[CN] = "wait_all"
    BY <1>0, <1>1, GotoOwn
  <1>2. \/ UNCHANGED pc
        \/ \E p \in Node : \E place : Goto(p, place) /\ place # "wait_all"
    <2>1. ASSUME NEW p \in Node, RxError(p) \/ TxError(p)
          PROVE  UNCHANGED pc \/ Goto(p, "failed") \/ Goto(p, "await_start")
      BY <2>1 DEF RxError, TxError, AfterRxError, AfterTxError
    <2>2. ASSUME NEW p \in Node, Crash(p) PROVE Goto(p, "gone")
      BY <2>2 DEF Crash
    <2>3. ASSUME NEW h \in Host, Restart(h) PROVE h \in Node /\ (Goto(h, "listen") \/ Goto(h, "dial"))
      BY <2>3, NodeFacts DEF Restart
    <2>4. WildEndpoint => Goto(CN, "failed")
      BY DEF WildEndpoint
    <2>5. \A l \in Link : TurnDown(l) => UNCHANGED pc
      BY DEF TurnDown, nodeVars
    <2>6. \A e \in Endpoint : Notice(e) \/ Flush(e) => UNCHANGED pc
      BY DEF Notice, Flush, nodeVars
    <2> QED
      BY <1>0, <2>1, <2>2, <2>3, <2>4, <2>5, <2>6 DEF FaultStep
  <1> QED
    BY <1>1, <1>2

LEMMA GatherFault ==
  ASSUME CrashTypeOK, GatherInv, FaultStep, pc'[CN] = "wait_all", NEW h \in Host
  PROVE  NotCalled(h)' /\ Requested(h)' /\ Accepted(h)'
  <1>0. /\ TypeOK /\ OwnEvents /\ Cep(h)' = Cep(h) /\ FaultTypeOK
        /\ Cep(h) \in Link /\ Rev(Cep(h)) = <<CN, h>> /\ CN \in Node /\ h \in Node /\ h # CN
        /\ eq \in [Node -> Seq(Events)] /\ eq[CN] \in Seq(Events)
        /\ Cep(h) = <<h, CN>>
    BY HostFacts DEF CrashTypeOK, TypeOK, FabricTypeOK, Cep
  <1>1. ASSUME pc[CN] = "wait_all"
        PROVE  NotCalled(h) /\ Requested(h) /\ Accepted(h)
    BY <1>1 DEF GatherInv
  <1>2. ASSUME NEW p \in Node, NEW place, Goto(p, place), place # "wait_all"
        PROVE  /\ p # CN /\ pc[CN] = "wait_all"
               /\ pc'[h] = IF h = p THEN place ELSE pc[h]
    BY <1>0, <1>2, GotoOwn
  \* Nothing happens to links and events.
  <1>3. ASSUME UNCHANGED <<eq, link, made>>, pc[CN] = "wait_all",
               pc'[h] \in {"listen", "dial"} => pc'[h] = pc[h]
        PROVE  NotCalled(h)' /\ Requested(h)' /\ Accepted(h)'
    BY <1>0, <1>1, <1>3 DEF NotCalled, Requested, Accepted, Told
  <1>4. ASSUME NEW p \in Node, RxError(p) \/ TxError(p)
        PROVE  NotCalled(h)' /\ Requested(h)' /\ Accepted(h)'
    <2>1. UNCHANGED <<eq, link, made>>
      BY <1>4 DEF RxError, TxError, fabricVars
    <2>2. UNCHANGED pc \/ Goto(p, "failed") \/ Goto(p, "await_start")
      BY <1>4 DEF RxError, TxError, AfterRxError, AfterTxError
    <2>3. pc[CN] = "wait_all" /\ (pc'[h] \in {"listen", "dial"} => pc'[h] = pc[h])
      BY <1>2, <2>2
    <2> QED
      BY <1>3, <2>1, <2>3
  <1>5. CASE WildEndpoint
    BY <1>0, <1>2, <1>5 DEF WildEndpoint
  <1>6. ASSUME NEW p \in Node, Crash(p)
        PROVE  NotCalled(h)' /\ Requested(h)' /\ Accepted(h)'
    <2>1. Goto(p, "gone")
      BY <1>6 DEF Crash
    <2>2. p # CN /\ pc[CN] = "wait_all" /\ pc'[h] \in {"gone", pc[h]}
      BY <1>2, <2>1
    <2>3. eq'[CN] = eq[CN] /\ link'[Cep(h)] \in {link[Cep(h)], "down"}
          /\ (link'[Cep(h)] # link[Cep(h)] => link[Cep(h)] = "up")
      BY <1>0, <1>6, <2>2 DEF Crash
    <2>4. <<CN, h>> \in made => <<CN, h>> \in made'
      BY <1>6, <2>2 DEF Crash
    <2>5. Requested(h)'
      BY <1>0, <1>1, <2>2, <2>3 DEF Requested, Told
    <2> QED
      BY <1>0, <1>1, <2>2, <2>3, <2>4, <2>5 DEF NotCalled, Accepted
  <1>7. ASSUME NEW g \in Host, Restart(g)
        PROVE  NotCalled(h)' /\ Requested(h)' /\ Accepted(h)'
    <2>1. /\ \E place : place # "wait_all" /\ Goto(g, place)
          /\ eq' = [eq EXCEPT ![g] = <<>>] /\ UNCHANGED <<link, made>>
          /\ g = h => link[Cep(h)] \in {"closed", "down"}
      BY <1>0, <1>7 DEF Restart
    <2>2. g # CN /\ g \in Node
      BY NodeFacts
    <2>3. pc[CN] = "wait_all" /\ (g # h => pc'[h] = pc[h]) /\ eq'[CN] = eq[CN]
      BY <1>0, <1>2, <2>1, <2>2
    <2>4. Requested(h)'
      <3>1. Requested(h) /\ link' = link /\ eq'[CN] = eq[CN]
        BY <1>1, <2>1, <2>3
      <3> QED
        BY <1>0, <3>1 DEF Requested, Told
    <2> QED
      BY <1>0, <1>1, <2>1, <2>3, <2>4 DEF NotCalled, Accepted
  <1>8. ASSUME NEW e \in Endpoint, Notice(e)
        PROVE  NotCalled(h)' /\ Requested(h)' /\ Accepted(h)'
    <2> DEFINE v == [kind |-> "SHUTDOWN", ep |-> e]
    <2>1. eq' = [eq EXCEPT ![e[1]] = Append(@, v)] /\ UNCHANGED <<link, made, pc>>
      BY <1>8 DEF Notice, nodeVars
    <2>2. v \in Events /\ v.kind = "SHUTDOWN"
      BY DEF Events
    <2> HIDE DEF v
    <2>3. eq'[CN] = eq[CN] \/ eq'[CN] = Append(eq[CN], v)
      BY <1>0, <2>1
    <2>4. ASSUME NEW n \in DOMAIN eq'[CN], Told(n, h, "CONNREQ")'
          PROVE  n \in DOMAIN eq[CN] /\ Told(n, h, "CONNREQ")
      <3>1. (n \in DOMAIN eq[CN] /\ eq'[CN][n] = eq[CN][n]) \/ eq'[CN][n] = v
        BY <1>0, <2>2, <2>3, AppendFacts
      <3> QED
        BY <2>2, <2>4, <3>1 DEF Told
    <2>5. Requested(h)'
      BY <1>0, <1>1, <2>1, <2>4 DEF Requested
    <2> QED
      BY <1>0, <1>1, <2>1, <2>5 DEF NotCalled, Accepted
  <1>9. ASSUME NEW e \in Endpoint, Flush(e)
        PROVE  NotCalled(h)' /\ Requested(h)' /\ Accepted(h)'
    BY <1>3, <1>9 DEF Flush, nodeVars
  <1>10. ASSUME NEW l \in Link, TurnDown(l)
         PROVE  NotCalled(h)' /\ Requested(h)' /\ Accepted(h)'
    <2>1. UNCHANGED <<pc, made>>
      BY <1>10 DEF TurnDown, nodeVars, faultVars
    <2>2. link'[Cep(h)] \in {link[Cep(h)], "closed"}
      BY <1>0, <1>10, TurnDownEffect
    <2>3. Requested(h)'
      BY <1>1, <1>10, <2>1, GatherTurnDown
    <2> QED
      BY <1>0, <1>1, <2>1, <2>2, <2>3 DEF NotCalled, Accepted
  <1> QED
    BY <1>4, <1>5, <1>6, <1>7, <1>8, <1>9, <1>10 DEF FaultStep

LEMMA GatherInvStep == CrashTypeOK /\ GatherInv /\ [CrashNext]_crashVars => GatherInv'
  <1> SUFFICES ASSUME CrashTypeOK, GatherInv, [CrashNext]_crashVars, pc'[CN] = "wait_all",
                      NEW h \in Host
               PROVE  NotCalled(h)' /\ Requested(h)' /\ Accepted(h)'
    BY DEF GatherInv
  <1>1. CASE UNCHANGED crashVars
    BY <1>1 DEF crashVars, vars, fabricVars, nodeVars, faultVars, GatherInv, NotCalled,
                Requested, Accepted, Told, Cep
  <1> QED
    BY <1>1, CrashSteps, GatherUsual, GatherFault

LEMMA GatherInvInit == CrashInit => GatherInv
  <1> SUFFICES ASSUME CrashInit, NEW h \in Host
               PROVE  NotCalled(h) /\ Requested(h) /\ Accepted(h)
    BY DEF GatherInv
  <1>1. link[Cep(h)] = "closed" /\ eq[CN] = <<>>
    BY HostFacts DEF CrashInit, Init, FabricInit
  <1>2. DOMAIN eq[CN] = {}
    BY <1>1
  <1> QED
    BY <1>1, <1>2 DEF NotCalled, Requested, Accepted

-----------------------------------------------------------------------------
(* What the controller counts. *)

UpHosts    == {h \in Host : link[Cep(h)] = "up"}
Unreported == {m \in Host \X (1 .. MaxCrashes) : m[2] <= unseen[<<CN, m[1]>>]}

\* By how much a step changes the events waiting for the controller, and the
\* connections it believes to have.
News(c, s) ==
  /\ Cardinality(Positions(eq'[CN], "CONNECTED")) = Cardinality(Positions(eq[CN], "CONNECTED")) + c
  /\ Cardinality(Positions(eq'[CN], "SHUTDOWN")) = Cardinality(Positions(eq[CN], "SHUTDOWN")) + s

Beliefs(u, d) ==
  /\ Cardinality(UpHosts') = Cardinality(UpHosts) + u
  /\ Cardinality(Unreported') = Cardinality(Unreported) + d

LEMMA HostsFinite ==
  /\ IsFiniteSet(Host) /\ Cardinality(Host) = NumEP
  /\ IsFiniteSet(UpHosts) /\ Cardinality(UpHosts) \in Nat
  /\ IsFiniteSet(Unreported) /\ Cardinality(Unreported) \in Nat
  <1>1. NumEP \in Nat \ {0} /\ MaxCrashes \in Nat
    BY TopologyAssumption, CrashesAssumption DEF NumEP
  <1>2. IsFiniteSet(Host) /\ Cardinality(Host) = NumEP
    BY <1>1, FS_Interval DEF Host
  <1>3. IsFiniteSet(1 .. MaxCrashes)
    BY <1>1, FS_Interval
  <1>4. IsFiniteSet(Host \X (1 .. MaxCrashes))
    BY <1>2, <1>3, FS_Product
  <1>5. UpHosts \in SUBSET Host /\ Unreported \in SUBSET (Host \X (1 .. MaxCrashes))
    BY DEF UpHosts, Unreported
  <1> QED
    BY <1>2, <1>4, <1>5, FS_Subset, FS_CardinalityType

LEMMA ControllerQueue ==
  ASSUME CrashTypeOK
  PROVE  /\ eq[CN] \in Seq(Events) /\ counter[CN] \in Int
         /\ Cardinality(Positions(eq[CN], "CONNECTED")) \in Nat
         /\ Cardinality(Positions(eq[CN], "SHUTDOWN")) \in Nat
  <1>1. eq[CN] \in Seq(Events) /\ counter[CN] \in Int
    BY NodeFacts DEF CrashTypeOK, TypeOK, FabricTypeOK
  <1> QED
    BY <1>1, PositionsFinite

\* The changes make up for each other.
LEMMA Balanced ==
  ASSUME CrashTypeOK, CountsConnections, pc[CN] = "wait_all",
         NEW c \in Int, NEW s \in Int, NEW u \in Int, NEW d \in Int, NEW n \in Int,
         News(c, s), Beliefs(u, d), counter'[CN] = counter[CN] + n, n + c - s = u + d
  PROVE  CountsConnections'
  <1> DEFINE C == Cardinality(Positions(eq[CN], "CONNECTED"))
             D == Cardinality(Positions(eq[CN], "SHUTDOWN"))
             U == Cardinality(UpHosts)
             V == Cardinality(Unreported)
  <1>1. C \in Nat /\ D \in Nat /\ U \in Nat /\ V \in Nat /\ counter[CN] \in Int
    BY HostsFinite, ControllerQueue
  <1>2. Queued(CN, "CONNECTED") = C /\ Queued(CN, "SHUTDOWN") = D /\ Believed = U + V
    BY DEF Queued, Positions, Believed, UpHosts, Unreported
  <1>3. counter[CN] + C - D = U + V
    BY <1>2 DEF CountsConnections
  <1>4. /\ Queued(CN, "CONNECTED")' = Cardinality(Positions(eq'[CN], "CONNECTED"))
        /\ Queued(CN, "SHUTDOWN")' = Cardinality(Positions(eq'[CN], "SHUTDOWN"))
        /\ Believed' = Cardinality(UpHosts') + Cardinality(Unreported')
    BY DEF Queued, Positions, Believed, UpHosts, Unreported
  <1>5. /\ Queued(CN, "CONNECTED")' = C + c /\ Queued(CN, "SHUTDOWN")' = D + s
        /\ Believed' = (U + u) + (V + d)
    BY <1>4 DEF News, Beliefs
  <1> HIDE DEF C, D, U, V
  <1>6. (counter[CN] + n) + (C + c) - (D + s) = (U + u) + (V + d)
    BY <1>1, <1>3
  <1>7. counter'[CN] + Queued(CN, "CONNECTED")' - Queued(CN, "SHUTDOWN")' = Believed'
    BY <1>5, <1>6
  <1> QED
    BY <1>7 DEF CountsConnections

LEMMA NothingCounted ==
  ASSUME CrashTypeOK, CountsConnections, pc[CN] = "wait_all",
         News(0, 0), Beliefs(0, 0), counter'[CN] = counter[CN] + 0
  PROVE  CountsConnections'
  <1>1. 0 \in Int /\ 0 + 0 - 0 = 0 + 0
    OBVIOUS
  <1> QED
    BY <1>1, Balanced

LEMMA NewsSame ==
  ASSUME CrashTypeOK, eq'[CN] = eq[CN]
  PROVE  News(0, 0)
  BY ControllerQueue DEF News

LEMMA NewsAppend ==
  ASSUME CrashTypeOK, NEW v \in Events, eq'[CN] = Append(eq[CN], v)
  PROVE  News(One(v, "CONNECTED"), One(v, "SHUTDOWN"))
  BY ControllerQueue, PositionsAppend DEF News

LEMMA NewsTail ==
  ASSUME CrashTypeOK, eq[CN] # <<>>, eq'[CN] = Tail(eq[CN])
  PROVE  News(0 - One(Head(eq[CN]), "CONNECTED"), 0 - One(Head(eq[CN]), "SHUTDOWN"))
  <1>1. ASSUME NEW k
        PROVE  /\ Cardinality(Positions(eq[CN], k)) = Cardinality(Positions(eq'[CN], k))
                                                        + One(Head(eq[CN]), k)
               /\ Cardinality(Positions(eq'[CN], k)) \in Nat
    BY ControllerQueue, PositionsTail, PositionsFinite
  <1>2. \A k : One(Head(eq[CN]), k) \in {0, 1}
    BY DEF One
  <1> QED
    BY <1>1, <1>2 DEF News

LEMMA NewsTurnDown ==
  ASSUME CrashTypeOK, NEW l \in Link, TurnDown(l)
  PROVE  News(0, 0)
  <1>0. /\ eq[CN] \in Seq(Events) /\ TurnedDown(l, CN) /\ Req(l) \in Events /\ Err(l) \in Events
        /\ Req(l).kind = "CONNREQ" /\ Err(l).kind = "REFUSED"
    BY ControllerQueue, TurnDownEffect, NodeFacts DEF Req, Err
  <1>1. CASE eq'[CN] = eq[CN]
    BY <1>1, NewsSame
  <1>2. CASE \E v \in Events : v.kind = "REFUSED" /\ eq'[CN] = Append(eq[CN], v)
    <2>1. PICK v \in Events : v.kind = "REFUSED" /\ eq'[CN] = Append(eq[CN], v)
      BY <1>2
    <2>2. One(v, "CONNECTED") = 0 /\ One(v, "SHUTDOWN") = 0
      BY <2>1 DEF One
    <2> QED
      BY <2>1, <2>2, NewsAppend
  <1>3. ASSUME NEW j \in DOMAIN eq[CN], eq[CN][j] = Req(l), eq'[CN] = RemoveAt(eq[CN], j)
        PROVE  News(0, 0)
    <2>1. ASSUME NEW k, k # "CONNREQ"
          PROVE  Cardinality(Positions(eq'[CN], k)) = Cardinality(Positions(eq[CN], k))
      BY <1>0, <1>3, <2>1, PositionsRemoved
    <2> QED
      BY <2>1, ControllerQueue DEF News
  <1>4. CASE eq'[CN] = [k \in DOMAIN eq[CN] |-> IF eq[CN][k] = Req(l) THEN Err(l) ELSE eq[CN][k]]
    <2>1. ASSUME NEW k, k \notin {"CONNREQ", "REFUSED"}
          PROVE  Positions(eq'[CN], k) = Positions(eq[CN], k)
      BY <1>0, <1>4, <2>1, PositionsChanged
    <2> QED
      BY <2>1, ControllerQueue DEF News
  <1> QED
    BY <1>0, <1>1, <1>2, <1>3, <1>4 DEF TurnedDown

\* The hosts that are up, and the ends not reported, stay the same.
LEMMA BeliefsSame ==
  ASSUME \A h \in Host : link'[Cep(h)] = "up" <=> link[Cep(h)] = "up",
         \A h \in Host : unseen'[<<CN, h>>] = unseen[<<CN, h>>]
  PROVE  Beliefs(0, 0)
  <1>1. UpHosts' = UpHosts
    BY DEF UpHosts, Cep
  <1>2. Unreported' = Unreported
    BY DEF Unreported
  <1> QED
    BY <1>1, <1>2, HostsFinite DEF Beliefs

\* One host comes up, or goes down before everyone's eyes.
LEMMA BeliefsUp ==
  ASSUME NEW g \in Host, link[Cep(g)] # "up", link'[Cep(g)] = "up",
         \A h \in Host : h # g => (link'[Cep(h)] = "up" <=> link[Cep(h)] = "up"),
         \A h \in Host : unseen'[<<CN, h>>] = unseen[<<CN, h>>]
  PROVE  Beliefs(1, 0)
  <1>1. UpHosts' = UpHosts \cup {g} /\ g \notin UpHosts
    BY DEF UpHosts, Cep
  <1>2. Unreported' = Unreported
    BY DEF Unreported
  <1>3. Cardinality(UpHosts \cup {g}) = Cardinality(UpHosts) + 1
    BY <1>1, HostsFinite, FS_AddElement
  <1> QED
    BY <1>1, <1>2, <1>3, HostsFinite DEF Beliefs

LEMMA HostDown ==
  ASSUME NEW g \in Host, link[Cep(g)] = "up", link'[Cep(g)] # "up",
         \A h \in Host : h # g => (link'[Cep(h)] = "up" <=> link[Cep(h)] = "up")
  PROVE  Cardinality(UpHosts') = Cardinality(UpHosts) - 1
  <1>1. UpHosts' = UpHosts \ {g} /\ g \in UpHosts
    BY DEF UpHosts, Cep
  <1> QED
    BY <1>1, HostsFinite, FS_RemoveElement

LEMMA BeliefsDown ==
  ASSUME NEW g \in Host, link[Cep(g)] = "up", link'[Cep(g)] # "up",
         \A h \in Host : h # g => (link'[Cep(h)] = "up" <=> link[Cep(h)] = "up"),
         \A h \in Host : unseen'[<<CN, h>>] = unseen[<<CN, h>>]
  PROVE  Beliefs(0 - 1, 0)
  <1>2. Unreported' = Unreported
    BY DEF Unreported
  <1> QED
    BY <1>2, HostsFinite, HostDown DEF Beliefs

\* One more end, or one less, is not reported.
LEMMA OneMoreUnseen ==
  ASSUME CrashTypeOK, NEW g \in Host, unseen[<<CN, g>>] < MaxCrashes,
         unseen'[<<CN, g>>] = unseen[<<CN, g>>] + 1,
         \A h \in Host : h # g => unseen'[<<CN, h>>] = unseen[<<CN, h>>]
  PROVE  Cardinality(Unreported') = Cardinality(Unreported) + 1
  <1> DEFINE m == <<g, unseen[<<CN, g>>] + 1>>
  <1>1. unseen[<<CN, g>>] \in Nat /\ MaxCrashes \in Nat
    BY HostFacts, CrashesAssumption DEF CrashTypeOK, FaultTypeOK
  <1>2. m \in Host \X (1 .. MaxCrashes) /\ m \notin Unreported
    BY <1>1 DEF Unreported
  <1>3. ASSUME NEW h \in Host, NEW n \in 1 .. MaxCrashes
        PROVE  <<h, n>> \in Unreported' <=> <<h, n>> \in Unreported \/ <<h, n>> = m
    BY <1>1 DEF Unreported
  <1>4. Unreported' = Unreported \cup {m}
    <2>1. Unreported' \subseteq Host \X (1 .. MaxCrashes)
          /\ Unreported \cup {m} \subseteq Host \X (1 .. MaxCrashes)
      BY <1>2 DEF Unreported
    <2> HIDE DEF m
    <2> QED
      BY <1>3, <2>1
  <1> QED
    BY <1>2, <1>4, HostsFinite, FS_AddElement

LEMMA OneLessUnseen ==
  ASSUME CrashTypeOK, NEW g \in Host, unseen[<<CN, g>>] > 0,
         unseen'[<<CN, g>>] = unseen[<<CN, g>>] - 1,
         \A h \in Host : h # g => unseen'[<<CN, h>>] = unseen[<<CN, h>>]
  PROVE  Cardinality(Unreported') = Cardinality(Unreported) - 1
  <1> DEFINE m == <<g, unseen[<<CN, g>>]>>
  <1>1. unseen[<<CN, g>>] \in Nat /\ MaxCrashes \in Nat /\ unseen[<<CN, g>>] <= MaxCrashes
    BY HostFacts, CrashesAssumption DEF CrashTypeOK, FaultTypeOK
  <1>2. m \in Unreported
    BY <1>1 DEF Unreported
  <1>3. ASSUME NEW h \in Host, NEW n \in 1 .. MaxCrashes
        PROVE  <<h, n>> \in Unreported' <=> <<h, n>> \in Unreported /\ <<h, n>> # m
    BY <1>1 DEF Unreported
  <1>4. Unreported' = Unreported \ {m}
    <2>1. Unreported' \subseteq Host \X (1 .. MaxCrashes)
          /\ Unreported \subseteq Host \X (1 .. MaxCrashes)
      BY DEF Unreported
    <2> HIDE DEF m
    <2> QED
      BY <1>3, <2>1
  <1> QED
    BY <1>2, <1>4, HostsFinite, FS_RemoveElement

-----------------------------------------------------------------------------
(* Every step keeps the balance. *)

Balance == CrashTypeOK /\ GatherInv /\ CountsConnections

\* The controller reads an event.
LEMMA BalanceWait ==
  ASSUME Balance, UsualStep, WaitAllConn(CN)
  PROVE  CountsConnections'
  <1> DEFINE v == Head(eq[CN])
  <1>0. CrashTypeOK /\ TypeOK /\ OwnEvents /\ CN \in Listener /\ pc[CN] = "wait_all"
        /\ counter \in [Listener -> Int] /\ CountsConnections
    BY NodeFacts DEF Balance, CrashTypeOK, TypeOK, WaitAllConn
  <1>1. eq[CN] # <<>> /\ eq'[CN] = Tail(eq[CN]) /\ v \in Events
    <2>1. PICK h : h \in Host
      BY NodeFacts
    <2> QED
      BY <1>0, <2>1, HeadHandled
  <1>2. News(0 - One(v, "CONNECTED"), 0 - One(v, "SHUTDOWN"))
    BY <1>0, <1>1, NewsTail
  <1>3. Beliefs(0, 0)
    <2>1. ASSUME NEW h \in Host PROVE link'[Cep(h)] = "up" <=> link[Cep(h)] = "up"
      <3>1. \/ Told(1, h, "CONNREQ") /\ link'[Cep(h)] = "accepted"
            \/ link'[Cep(h)] = link[Cep(h)]
        BY <1>0, HeadHandled
      <3>2. Told(1, h, "CONNREQ") => link[Cep(h)] = "requested"
        <4>1. Requested(h) /\ 1 \in DOMAIN eq[CN]
          BY <1>0, HeadHandled DEF Balance, GatherInv
        <4> QED
          BY <4>1 DEF Requested
      <3> QED
        BY <3>1, <3>2
    <2>2. \A h \in Host : unseen'[<<CN, h>>] = unseen[<<CN, h>>]
      BY DEF UsualStep
    <2> QED
      BY <2>1, <2>2, BeliefsSame
  <1>4. Count(CN, IF v.kind = "CONNECTED" THEN counter[CN] + 1
                  ELSE IF v.kind = "SHUTDOWN" THEN counter[CN] - 1 ELSE counter[CN])
    BY DEF WaitAllConn
  <1>5. counter'[CN] = counter[CN] + (One(v, "CONNECTED") - One(v, "SHUTDOWN"))
    BY <1>0, <1>4 DEF Count, One
  <1>6. One(v, "CONNECTED") \in {0, 1} /\ One(v, "SHUTDOWN") \in {0, 1}
    BY DEF One
  <1> HIDE DEF v
  <1> DEFINE c == One(v, "CONNECTED")
             s == One(v, "SHUTDOWN")
  <1>7. /\ 0 - c \in Int /\ 0 - s \in Int /\ c - s \in Int
        /\ (c - s) + (0 - c) - (0 - s) = 0 + 0
    BY <1>6
  <1>8. News(0 - c, 0 - s) /\ counter'[CN] = counter[CN] + (c - s)
    BY <1>2, <1>5
  <1> HIDE DEF c, s
  <1> QED
    BY <1>0, <1>3, <1>7, <1>8, Balanced

\* A connection of the controller comes about.
LEMMA BalanceJoin ==
  ASSUME Balance, UsualStep, pc[CN] = "wait_all", NEW g \in Host, Joins(Cep(g))
  PROVE  CountsConnections'
  <1> DEFINE v == [kind |-> "CONNECTED", ep |-> <<CN, g>>]
  <1>0. /\ CrashTypeOK /\ TypeOK /\ CountsConnections /\ Cep(g) \in Link
        /\ Cep(g)[2] = CN /\ Rev(Cep(g)) = <<CN, g>>
    <2>1. Cep(g)[2] = CN
      BY DEF Cep
    <2> QED
      BY <2>1, HostFacts DEF Balance, CrashTypeOK
  <1>1. link[Cep(g)] = "accepted" /\ link'[Cep(g)] = "up" /\ eq'[CN] = Append(eq[CN], v)
    BY <1>0, JoinMoves
  <1>2. v \in Events /\ One(v, "CONNECTED") = 1 /\ One(v, "SHUTDOWN") = 0
    BY HostFacts DEF Events, One
  <1> HIDE DEF v
  <1>3. News(1, 0)
    BY <1>0, <1>1, <1>2, NewsAppend
  <1>4. \A h \in Host : h # g => link'[Cep(h)] = link[Cep(h)]
    <2>1. link' = [link EXCEPT ![Cep(g)] = "up"] /\ link \in [Link -> LinkStates]
      BY <1>0 DEF Joins, Establish, TypeOK, FabricTypeOK
    <2> QED
      BY <2>1, HostFacts DEF Cep
  <1>5. \A h \in Host : unseen'[<<CN, h>>] = unseen[<<CN, h>>]
    BY DEF UsualStep
  <1>6. Beliefs(1, 0)
    BY <1>1, <1>4, <1>5, BeliefsUp
  <1>7. counter'[CN] = counter[CN] + 0
    BY <1>0, ControllerQueue DEF Joins, nodeVars
  <1> QED
    BY <1>0, <1>3, <1>6, <1>7, Balanced

\* A host leaves.
LEMMA BalanceExit ==
  ASSUME Balance, UsualStep, pc[CN] = "wait_all", NEW g \in Host, Exit(g)
  PROVE  CountsConnections'
  <1> DEFINE v == [kind |-> "SHUTDOWN", ep |-> <<CN, g>>]
  <1>0. /\ CrashTypeOK /\ TypeOK /\ CountsConnections /\ Cep(g) \in Link /\ g # CN /\ CN \in Node
        /\ LinkOf(<<CN, g>>) = Cep(g) /\ <<CN, g>> \in Endpoint
        /\ link \in [Link -> LinkStates]
    BY HostFacts DEF Balance, CrashTypeOK, TypeOK, FabricTypeOK
  <1>1. /\ eq'[CN] = IF link[Cep(g)] = "up" THEN Append(eq[CN], v) ELSE eq[CN]
        /\ \A h \in Host : link'[Cep(h)] = IF h = g /\ link[Cep(h)] = "up" THEN "down"
                                           ELSE link[Cep(h)]
    <2>1. Disconnect(g)
      BY DEF Exit
    <2>2. ASSUME NEW h \in Host
          PROVE  Cep(h) \in Link /\ (g \in {Cep(h)[1], Cep(h)[2]} <=> h = g)
      <3>1. Cep(h)[1] = h /\ Cep(h)[2] = CN
        BY DEF Cep
      <3> QED
        BY <1>0, <3>1, HostFacts
    <2> QED
      BY <1>0, <2>1, <2>2 DEF Disconnect
  <1>2. v \in Events /\ One(v, "CONNECTED") = 0 /\ One(v, "SHUTDOWN") = 1
    BY <1>0 DEF Events, One
  <1> HIDE DEF v
  <1>3. \A h \in Host : unseen'[<<CN, h>>] = unseen[<<CN, h>>]
    BY DEF UsualStep
  <1>4. counter'[CN] = counter[CN] + 0
    BY <1>0, ControllerQueue DEF Exit
  <1>5. CASE link[Cep(g)] = "up"
    <2>1. News(0, 1)
      BY <1>0, <1>1, <1>2, <1>5, NewsAppend
    <2>2. Beliefs(0 - 1, 0)
      BY <1>1, <1>3, <1>5, BeliefsDown
    <2>3. 0 \in Int /\ 1 \in Int /\ 0 - 1 \in Int /\ 0 + 0 - 1 = (0 - 1) + 0
      OBVIOUS
    <2> QED
      BY <1>0, <1>4, <2>1, <2>2, <2>3, Balanced, Zenon
  <1>6. CASE link[Cep(g)] # "up"
    <2>1. News(0, 0)
      BY <1>0, <1>1, <1>6, NewsSame
    <2>2. Beliefs(0, 0)
      BY <1>1, <1>3, <1>6, BeliefsSame
    <2> QED
      BY <1>0, <1>4, <2>1, <2>2, NothingCounted
  <1> QED
    BY <1>5, <1>6

\* Anything else a process or the network does.
LEMMA BalanceCalm ==
  ASSUME Balance, UsualStep, pc[CN] = "wait_all", pc'[CN] = "wait_all", ~WaitAllConn(CN),
         \A g \in Host : ~Joins(Cep(g)) /\ ~Exit(g)
  PROVE  CountsConnections'
  <1>0. /\ CrashTypeOK /\ TypeOK /\ OwnEvents /\ [Next]_vars /\ CountsConnections /\ GatherInv
        /\ CN \in Node /\ CN \in Listener /\ CN \notin EN /\ CN \notin PN
    BY NodeFacts DEF Balance, CrashTypeOK, UsualStep
  <1>1. ~ControllerStep
    BY <1>0, GatherBefore
  <1>2. counter'[CN] = counter[CN] + 0
    <2>1. Delivery \/ Elsewhere(CN)
      BY <1>0, <1>1, StepOwn
    <2> QED
      BY <1>0, <2>1, ControllerQueue DEF Delivery, Elsewhere, nodeVars
  <1>3. ~Handles(CN) /\ ~Exit(CN)
    BY <1>0 DEF Handles, ConnectEvent, ServeEvent, AwaitShutdown, Exit
  <1>4. News(0, 0)
    <2>1. EventStep(CN)
      BY <1>0, EventSteps
    <2>2. CASE eq'[CN] = eq[CN]
      BY <1>0, <2>2, NewsSame
    <2>3. ASSUME NEW v \in Events, v.ep[1] = CN, eq'[CN] = Append(eq[CN], v), Cause(CN, v)
          PROVE  News(0, 0)
      <3>1. v.ep \in Passive /\ v.ep[2] \in Host /\ LinkOf(v.ep) = Cep(v.ep[2])
        <4>1. v.ep \in Endpoint
          BY DEF Events
        <4>2. v.ep \in Passive
          BY <2>3, <4>1, LinkShape, NodeFacts DEF Endpoint
        <4>3. v.ep[2] \in Host /\ LinkOf(v.ep) = Rev(v.ep) /\ Rev(v.ep) = <<v.ep[2], v.ep[1]>>
          BY <2>3, <4>2, PassiveShape, NodeFacts
        <4> QED
          BY <2>3, <4>2, <4>3 DEF Cep
      <3>2. v.kind \notin {"CONNECTED", "SHUTDOWN"}
        BY <2>3, <3>1 DEF Cause
      <3>3. One(v, "CONNECTED") = 0 /\ One(v, "SHUTDOWN") = 0
        BY <3>2 DEF One
      <3> QED
        BY <1>0, <2>3, <3>3, NewsAppend
    <2> QED
      BY <1>3, <2>1, <2>2, <2>3 DEF EventStep
  <1>5. Beliefs(0, 0)
    <2>1. ASSUME NEW h \in Host PROVE link'[Cep(h)] = "up" <=> link[Cep(h)] = "up"
      <3>0. Cep(h) \in Link /\ Cep(h)[1] = h /\ Cep(h)[2] = CN /\ NotCalled(h)
        <4>1. Cep(h)[1] = h /\ Cep(h)[2] = CN
          BY DEF Cep
        <4> QED
          BY <1>0, <4>1, HostFacts DEF GatherInv
      <3>1. LinkStep(Cep(h))
        BY <1>0, <3>0, EventSteps
      <3>2. ~Accepts(CN, Cep(h))
        BY <1>3 DEF Accepts, Handles
      <3>3. CASE Dials(h, CN) /\ link'[Cep(h)] = "requested"
        BY <3>0, <3>3 DEF Dials, HostDial, NotCalled
      <3> QED
        BY <1>3, <3>0, <3>1, <3>2, <3>3 DEF LinkStep
    <2>2. \A h \in Host : unseen'[<<CN, h>>] = unseen[<<CN, h>>]
      BY DEF UsualStep
    <2> QED
      BY <2>1, <2>2, BeliefsSame
  <1> QED
    BY <1>0, <1>2, <1>4, <1>5, Balanced

\* A process is killed.
LEMMA BalanceCrash ==
  ASSUME Balance, pc[CN] = "wait_all", NEW p \in Host, Crash(p)
  PROVE  CountsConnections'
  <1>0. /\ CrashTypeOK /\ TypeOK /\ FaultTypeOK /\ CountsConnections /\ CN \in Node
        /\ CN \in Listener /\ p # CN /\ p \in Node
        /\ link \in [Link -> LinkStates] /\ eq \in [Node -> Seq(Events)]
        /\ counter \in [Listener -> Int]
    BY HostFacts DEF Balance, CrashTypeOK, TypeOK, FabricTypeOK
  <1>1. eq'[CN] = eq[CN] /\ counter'[CN] = counter[CN] + 0
    BY <1>0 DEF Crash
  <1>2. ASSUME NEW h \in Host
        PROVE  /\ link'[Cep(h)] = IF h = p /\ link[Cep(h)] = "up" THEN "down" ELSE link[Cep(h)]
               /\ unseen'[<<CN, h>>] = IF h = p /\ link[Cep(h)] = "up" THEN unseen[<<CN, h>>] + 1
                                       ELSE unseen[<<CN, h>>]
    <2>1. /\ Cep(h) \in Link /\ Cep(h)[1] = h /\ Cep(h)[2] = CN /\ <<CN, h>> \in Endpoint
          /\ (IsUp(<<CN, h>>) <=> link[Cep(h)] = "up") /\ h # CN
          /\ <<CN, h>>[1] = CN /\ <<CN, h>>[2] = h
      BY HostFacts DEF IsUp
    <2> QED
      BY <1>0, <2>1 DEF Crash
  <1>3. News(0, 0)
    BY <1>0, <1>1, NewsSame
  <1>4. CASE link[Cep(p)] = "up"
    <2>1. unseen[<<CN, p>>] < MaxCrashes
      <3>1. crashes < MaxCrashes /\ crashes \in Nat /\ MaxCrashes \in Nat
            /\ unseen[<<CN, p>>] \in Nat /\ unseen[<<CN, p>>] <= crashes
        BY <1>0, CrashesAssumption, HostFacts DEF Crash, FaultTypeOK
      <3> QED
        BY <3>1
    <2>2. Cardinality(Unreported') = Cardinality(Unreported) + 1
      BY <1>0, <1>2, <1>4, <2>1, OneMoreUnseen
    <2>3. Cardinality(UpHosts') = Cardinality(UpHosts) - 1
      BY <1>2, <1>4, HostDown
    <2>4. Beliefs(0 - 1, 1)
      BY <2>2, <2>3, HostsFinite DEF Beliefs
    <2>5. 0 - 1 \in Int /\ 0 + 0 - 0 = (0 - 1) + 1
      OBVIOUS
    <2> QED
      BY <1>0, <1>1, <1>3, <2>4, <2>5, Balanced
  <1>5. CASE link[Cep(p)] # "up"
    <2>1. Beliefs(0, 0)
      BY <1>2, <1>5, BeliefsSame
    <2> QED
      BY <1>0, <1>1, <1>3, <2>1, Balanced
  <1> QED
    BY <1>4, <1>5

\* The end of a connection is reported.
LEMMA BalanceNotice ==
  ASSUME Balance, pc[CN] = "wait_all", NEW e \in Endpoint, Notice(e)
  PROVE  CountsConnections'
  <1> DEFINE v == [kind |-> "SHUTDOWN", ep |-> e]
  <1>0. /\ CrashTypeOK /\ TypeOK /\ FaultTypeOK /\ CountsConnections /\ CN \in Node
        /\ eq \in [Node -> Seq(Events)] /\ unseen \in [Endpoint -> Nat]
    BY NodeFacts DEF Balance, CrashTypeOK, TypeOK, FabricTypeOK, FaultTypeOK
  <1>1. /\ unseen[e] > 0 /\ unseen' = [unseen EXCEPT ![e] = @ - 1]
        /\ eq' = [eq EXCEPT ![e[1]] = Append(@, v)] /\ UNCHANGED <<link, counter, pc>>
    BY DEF Notice, nodeVars
  <1>2. v \in Events /\ One(v, "CONNECTED") = 0 /\ One(v, "SHUTDOWN") = 1
    BY DEF Events, One
  <1> HIDE DEF v
  <1>3. counter'[CN] = counter[CN] + 0
    BY <1>0, <1>1, ControllerQueue
  <1>4. CASE e[1] = CN
    <2>1. PICK g \in Host : e = <<CN, g>>
      <3>1. e \in Passive
        BY <1>4, LinkShape, NodeFacts DEF Endpoint
      <3> QED
        BY <1>4, <3>1, PassiveShape, NodeFacts
    <2>2. News(0, 1)
      <3>1. eq'[CN] = Append(eq[CN], v)
        BY <1>0, <1>1, <1>4
      <3> QED
        BY <1>0, <1>2, <3>1, NewsAppend
    <2>3. /\ unseen[<<CN, g>>] > 0 /\ unseen'[<<CN, g>>] = unseen[<<CN, g>>] - 1
          /\ \A h \in Host : h # g => unseen'[<<CN, h>>] = unseen[<<CN, h>>]
      BY <1>0, <1>1, <2>1, HostFacts
    <2>4. Cardinality(Unreported') = Cardinality(Unreported) - 1
      BY <1>0, <2>3, OneLessUnseen
    <2>5. UpHosts' = UpHosts
      BY <1>1 DEF UpHosts, Cep
    <2>6. Beliefs(0, 0 - 1)
      BY <2>4, <2>5, HostsFinite DEF Beliefs
    <2>7. 0 - 1 \in Int /\ 0 + 0 - 1 = 0 + (0 - 1)
      OBVIOUS
    <2> QED
      BY <1>0, <1>3, <2>2, <2>6, <2>7, Balanced
  <1>5. CASE e[1] # CN
    <2>1. News(0, 0)
      <3>1. eq'[CN] = eq[CN]
        BY <1>0, <1>1, <1>5
      <3> QED
        BY <1>0, <3>1, NewsSame
    <2>2. \A h \in Host : unseen'[<<CN, h>>] = unseen[<<CN, h>>]
      <3>1. \A h \in Host : <<CN, h>> # e /\ <<CN, h>> \in Endpoint
        BY <1>5, HostFacts
      <3> QED
        BY <1>0, <1>1, <3>1
    <2>3. Beliefs(0, 0)
      BY <1>1, <2>2, BeliefsSame
    <2> QED
      BY <1>0, <1>3, <2>1, <2>3, Balanced
  <1> QED
    BY <1>4, <1>5

\* The other faults.
LEMMA BalanceFault ==
  ASSUME Balance, FaultStep, pc[CN] = "wait_all", pc'[CN] = "wait_all"
  PROVE  CountsConnections'
  <1>0. /\ CrashTypeOK /\ TypeOK /\ CountsConnections /\ CN \in Node /\ CN \in Listener
        /\ eq \in [Node -> Seq(Events)]
    BY NodeFacts DEF Balance, CrashTypeOK, TypeOK, FabricTypeOK
  <1>1. ASSUME News(0, 0), UNCHANGED <<counter, unseen>>,
               \A h \in Host : link'[Cep(h)] = "up" <=> link[Cep(h)] = "up"
        PROVE  CountsConnections'
    <2>1. Beliefs(0, 0)
      BY <1>1, BeliefsSame
    <2>2. counter'[CN] = counter[CN] + 0
      BY <1>0, <1>1, ControllerQueue
    <2> QED
      BY <1>0, <1>1, <2>1, <2>2, NothingCounted
  <1>2. ASSUME UNCHANGED <<eq, link, counter, unseen>> PROVE CountsConnections'
    BY <1>0, <1>1, <1>2, NewsSame
  <1>3. ASSUME NEW p \in Node, RxError(p) \/ TxError(p) PROVE CountsConnections'
    BY <1>2, <1>3 DEF RxError, TxError, fabricVars
  <1>4. ASSUME NEW p \in Node, Crash(p) PROVE CountsConnections'
    <2>1. p # CN
      BY <1>0, <1>4, GotoOwn DEF Crash
    <2>2. p \in Host
      BY <2>1, NodeFacts
    <2> QED
      BY <1>4, <2>2, BalanceCrash
  <1>5. CASE WildEndpoint
    BY <1>2, <1>5 DEF WildEndpoint, fabricVars, faultVars
  <1>6. ASSUME NEW l \in Link, TurnDown(l) PROVE CountsConnections'
    <2>1. \A h \in Host : link'[Cep(h)] = "up" <=> link[Cep(h)] = "up"
      <3>1. \A k \in Link : link'[k] = "up" <=> link[k] = "up"
        BY <1>0, <1>6, TurnDownEffect
      <3> QED
        BY <3>1, HostFacts
    <2>2. UNCHANGED <<counter, unseen>>
      BY <1>6 DEF TurnDown, nodeVars, faultVars
    <2> QED
      BY <1>0, <1>1, <1>6, <2>1, <2>2, NewsTurnDown
  <1>7. ASSUME NEW e \in Endpoint, Notice(e) PROVE CountsConnections'
    BY <1>7, BalanceNotice
  <1>8. ASSUME NEW e \in Endpoint, Flush(e) PROVE CountsConnections'
    BY <1>2, <1>8 DEF Flush, nodeVars
  <1>9. ASSUME NEW h \in Host, Restart(h) PROVE CountsConnections'
    <2>1. eq'[CN] = eq[CN] /\ UNCHANGED <<link, counter, unseen>>
      BY <1>0, <1>9, HostFacts DEF Restart
    <2> QED
      BY <1>0, <1>1, <2>1, NewsSame
  <1> QED
    BY <1>3, <1>4, <1>5, <1>6, <1>7, <1>8, <1>9 DEF FaultStep

LEMMA BalanceStep == Balance /\ [CrashNext]_crashVars => Balance'
  <1> SUFFICES ASSUME Balance, [CrashNext]_crashVars PROVE Balance'
    OBVIOUS
  <1>0. CrashTypeOK /\ GatherInv /\ CountsConnections
    BY DEF Balance
  <1>1. CrashTypeOK' /\ GatherInv'
    BY <1>0, CrashTypesStep, GatherInvStep
  <1>2. ASSUME pc'[CN] # "wait_all" PROVE CountsConnections'
    BY <1>2 DEF CountsConnections
  <1>3. ASSUME UsualStep, pc'[CN] = "wait_all" PROVE CountsConnections'
    BY <1>0, <1>3, GatherBefore, BalanceWait, BalanceJoin, BalanceExit, BalanceCalm
  <1>4. ASSUME FaultStep, pc'[CN] = "wait_all" PROVE CountsConnections'
    <2>1. pc[CN] = "wait_all"
      BY <1>0, <1>4, GatherWhile
    <2> QED
      BY <1>4, <2>1, BalanceFault
  <1>5. ASSUME UNCHANGED crashVars PROVE CountsConnections'
    BY <1>0, <1>5 DEF CountsConnections, Queued, Believed, Cep, crashVars, vars, fabricVars,
                      nodeVars, faultVars
  <1>6. CountsConnections'
    BY <1>2, <1>3, <1>4, <1>5, CrashSteps
  <1> QED
    BY <1>1, <1>6 DEF Balance

LEMMA BalanceInit == CrashInit => Balance
  <1> SUFFICES ASSUME CrashInit PROVE Balance
    OBVIOUS
  <1>1. CrashTypeOK /\ GatherInv
    BY CrashTypesInit, GatherInvInit
  <1>2. eq[CN] = <<>> /\ counter[CN] = 0
    BY NodeFacts DEF CrashInit, Init, FabricInit
  <1>3. \A k : Positions(eq[CN], k) = {}
    <2>1. DOMAIN eq[CN] = {}
      BY <1>2
    <2> QED
      BY <2>1 DEF Positions
  <1>4. UpHosts = {}
    BY HostFacts DEF UpHosts, CrashInit, Init, FabricInit
  <1>5. Unreported = {}
    <2>1. \A h \in Host : unseen[<<CN, h>>] = 0
      BY HostFacts DEF CrashInit
    <2>2. \A m \in Host \X (1 .. MaxCrashes) : ~(m[2] <= unseen[<<CN, m[1]>>])
      BY <2>1
    <2> QED
      BY <2>2 DEF Unreported
  <1>6. Queued(CN, "CONNECTED") = Cardinality(Positions(eq[CN], "CONNECTED"))
        /\ Queued(CN, "SHUTDOWN") = Cardinality(Positions(eq[CN], "SHUTDOWN"))
        /\ Believed = Cardinality(UpHosts) + Cardinality(Unreported)
    BY DEF Queued, Positions, Believed, UpHosts, Unreported
  <1>7. Cardinality({}) = 0
    BY FS_EmptySet
  <1>8. Queued(CN, "CONNECTED") = 0 /\ Queued(CN, "SHUTDOWN") = 0 /\ Believed = 0 + 0
    BY <1>3, <1>4, <1>5, <1>6, <1>7
  <1>9. CountsConnections
    BY <1>2, <1>8 DEF CountsConnections
  <1> QED
    BY <1>1, <1>9 DEF Balance

\* While the controller gathers its hosts, its counter and the events it has not
\* read add up to the connections it has or believes to have, whoever is killed or
\* started again meanwhile (waitAllConn).
THEOREM ConnectionsCounted == CrashSpec => []CountsConnections
  <1>1. Balance => CountsConnections
    BY DEF Balance
  <1> QED
    BY <1>1, BalanceInit, BalanceStep, PTL DEF CrashSpec

LEMMA BalanceConnected == Balance => EveryoneWasConnected
  <1> SUFFICES ASSUME Balance, pc[CN] = "wait_all", counter[CN] = Goal(CN),
                      ~(Queued(CN, "SHUTDOWN") > 0), ~(\E h \in Host : unseen[<<CN, h>>] > 0)
               PROVE  HostEps \subseteq made
    BY DEF EveryoneWasConnected
  <1> DEFINE C == Cardinality(Positions(eq[CN], "CONNECTED"))
             D == Cardinality(Positions(eq[CN], "SHUTDOWN"))
  <1>1. CrashTypeOK /\ FaultTypeOK /\ CountsConnections /\ GatherInv
    BY DEF Balance, CrashTypeOK
  <1>2. C \in Nat /\ D \in Nat /\ counter[CN] = NumEP /\ NumEP \in Nat
    <2>1. NumEP \in Nat /\ Goal(CN) = NumEP
      BY TopologyAssumption DEF Goal, NumEP
    <2> QED
      BY <1>1, <2>1, ControllerQueue
  <1>3. Queued(CN, "CONNECTED") = C /\ Queued(CN, "SHUTDOWN") = D
        /\ Believed = Cardinality(UpHosts) + Cardinality(Unreported)
    BY DEF Queued, Positions, Believed, UpHosts, Unreported
  <1>4. Cardinality(Unreported) = 0
    <2>1. \A h \in Host : unseen[<<CN, h>>] \in Nat
      BY <1>1, HostFacts DEF FaultTypeOK
    <2>2. \A m \in Host \X (1 .. MaxCrashes) : ~(m[2] <= unseen[<<CN, m[1]>>])
      BY <2>1
    <2>3. Unreported = {}
      BY <2>2 DEF Unreported
    <2> QED
      BY <2>3, FS_EmptySet
  <1>5. Cardinality(UpHosts) = NumEP + C
    <2>1. counter[CN] + C - D = Cardinality(UpHosts) + Cardinality(Unreported)
      BY <1>1, <1>3 DEF CountsConnections
    <2>2. D = 0
      BY <1>2, <1>3
    <2> HIDE DEF C, D
    <2> QED
      BY <1>2, <1>4, <2>1, <2>2, HostsFinite
  <1>6. UpHosts = Host
    <2>1. UpHosts \in SUBSET Host
      BY DEF UpHosts
    <2>2. Cardinality(UpHosts) <= Cardinality(Host)
      BY <2>1, HostsFinite, FS_Subset
    <2>3. Cardinality(UpHosts) = Cardinality(Host)
      BY <1>2, <1>5, <2>2, HostsFinite
    <2> QED
      BY <2>1, <2>3, HostsFinite, FS_Subset
  <1>7. ASSUME NEW h \in Host PROVE <<CN, h>> \in made
    <2>1. h \in UpHosts /\ Accepted(h)
      BY <1>1, <1>6 DEF GatherInv
    <2> QED
      BY <2>1 DEF UpHosts, Accepted
  <1> QED
    BY <1>7 DEF HostEps

\* No Endpoint::ep is used that accept() has not set, although processes are killed
\* and started again, once the controller has heard of every connection that ended.
THEOREM ConnectedInTheEnd == CrashSpec => []EveryoneWasConnected
  <1> QED
    BY BalanceInit, BalanceStep, BalanceConnected, PTL DEF CrashSpec

-----------------------------------------------------------------------------
(* What is on its way between the controller and one client whose connection   *)
(* is up, whatever has happened to the others.                                  *)

Inlet(i) == <<CN, i>>
Unused(f)  == rq[f] = <<>> /\ rxc[f] = <<>>

\* The messages for endpoint f that its node has not read: the one that has come in,
\* and those its peer has posted.
OnWay(f) == IF rxc[f] = <<>> THEN sq[Rev(f)] ELSE <<buf[f]>> \o sq[Rev(f)]

Flight(i) == OnWay(Cep(i))
Answer(i) == OnWay(Inlet(i))

\* Where a client is.
Calling(i)  == pc[i] \in {"await_cm", "await_keys"} /\ peer[i] = CN
Attached(i) == (pc[i] = "linked" /\ peer[i] = CN) \/ pc[i] = "await_connect"
Touring(i)  == pc[i] \in {"await_cm", "await_keys", "linked"} /\ peer[i] # CN
Reported(i) == pc[i] \in {"confirm_tx", "await_start"}

\* Where the controller is.
LinkPC  == {"connect_tx", "connect_rx"}
OpenPC  == {"start_tx", "timer"}
RoundPC == {"checkpoint_tx", "checkpoint_rx"}
StopPC  == {"stop_tx", "stop_rx"}
RunPC   == OpenPC \cup RoundPC \cup StopPC
LivePC  == {"wait_all"} \cup LinkPC \cup RunPC

\* The client by itself: what it reads came whole, what it waits for first are its
\* keys, what it has not counted or sent yet, and nothing is left of a dead one.
Local(i) ==
  /\ AtMostOneOpen(i)
  /\ pc[i] \in {"dial", "await_connect"} => peer[i] = CN
  /\ pc[i] \notin {"finished", "failed", "gone"} /\ rxc[Cep(i)] # <<>> =>
       Head(rxc[Cep(i)]).len = LenOf(buf[Cep(i)])
  /\ Calling(i) => /\ rq[Cep(i)] # <<>>  => Head(rq[Cep(i)]) = KeysSize
                   /\ rxc[Cep(i)] # <<>> => Head(rxc[Cep(i)]).size = KeysSize
  /\ pc[i] \notin {"bench", "finished", "failed", "gone"} =>
       snap[i] = 0 /\ (Reported(i) \/ sq[Cep(i)] = <<>>)
  /\ i \in crashed => /\ pc[i] = "gone" /\ peer[i] = CN /\ snap[i] = 0
                      /\ sq[Cep(i)] = <<>> /\ \A q \in Listener : Unused(<<i, q>>)
  /\ pc[i] = "dial" => link[Cep(i)] \in {"closed", "down"}
  /\ link[Cep(i)] \in {"requested", "accepted"} =>
       /\ Calling(i) \/ pc[i] \in {"failed", "gone"}
       /\ sq[Cep(i)] = <<>> /\ rxc[Cep(i)] = <<>>

\* The controller has still to read that client i is connected.
Informed(i) == \E k \in DOMAIN eq[CN] : Told(k, i, "CONNECTED")

Heard(i) ==
  /\ link[Cep(i)] = "accepted" => ~Informed(i)
  /\ \A m, n \in DOMAIN eq[CN] :
       /\ link[Cep(i)] = "up" /\ Told(m, i, "CONNECTED") /\ Told(n, i, "CONNECTED") => m = n
       /\ Told(m, i, "CONNECTED") /\ Told(n, i, "CONNREQ") => m < n

\* What the controller waits for, and whether it has it in its array.
Expected(i) == IF pc[CN] \in LinkPC THEN Command("CONNECTED", Cep(i))
               ELSE IF pc[CN] \in RoundPC THEN Delta(i, rounds + 1) ELSE Total(i, rounds)
InRow(i) == \/ pc[CN] \in RoundPC /\ checkpoint[i] = Delta(i, rounds + 1)
            \/ pc[CN] \in StopPC /\ summary[i] = Total(i, rounds)

Collects(i) ==
  /\ Slots(Inlet(i)) <= 1
  /\ pc[CN] \in {"wait_all"} \cup OpenPC \/ InRow(i) => Unused(Inlet(i))
  /\ rxc[Inlet(i)] # <<>> => /\ Head(rxc[Inlet(i)]).len = LenOf(buf[Inlet(i)])
                             /\ buf[Inlet(i)] = Expected(i)

Joining(i) ==
  /\ pc[i] = "failed" \/ Calling(i) \/ Attached(i)
  /\ Answer(i) = <<>>
  /\ Calling(i) => \/ Flight(i) = <<>>
                   \/ Flight(i) = <<KeysOf(Inlet(i))>> /\ ~Informed(i)
  /\ Attached(i) => Flight(i) = <<>> /\ ~Informed(i)

To(c, i) == Command(c, Inlet(i))

Greeted(i) ==
  /\ pc[i] = "failed" \/ Calling(i) \/ Attached(i) \/ Touring(i) \/ Reported(i)
  /\ \/ Answer(i) = <<>>
     \/ Answer(i) = <<Expected(i)>> /\ (pc[i] = "failed" \/ Reported(i))
  /\ Calling(i)  => \/ Flight(i) = <<>> \/ Flight(i) = <<To("CONNECT", i)>>
                    \/ Flight(i) = <<KeysOf(Inlet(i)), To("CONNECT", i)>>
  /\ Attached(i) => Flight(i) = <<To("CONNECT", i)>>
  /\ Touring(i) \/ Reported(i) => Flight(i) = <<>>

\* The command of the round.
Order(i) == To(IF pc[CN] \in RoundPC THEN "CHECKPOINT" ELSE "STOP", i)

Waiting(i) ==
  /\ Answer(i) = <<>> /\ snap[i] = rounds /\ ~InRow(i)
  /\ \/ Reported(i) /\ Flight(i) = IF pc[CN] \in OpenPC THEN <<To("START", i)>>
                                   ELSE <<To("START", i), Order(i)>>
     \/ pc[i] = "bench" /\ Flight(i) = IF pc[CN] \in OpenPC THEN <<>> ELSE <<Order(i)>>

Replied(i) ==
  /\ pc[CN] \notin OpenPC
  /\ Flight(i) = <<>>
  /\ IF pc[CN] \in RoundPC THEN pc[i] = "bench" /\ snap[i] = rounds + 1
     ELSE pc[i] = "finished"
  /\ Answer(i) = IF InRow(i) THEN <<>> ELSE <<Expected(i)>>

GaveUp(i) ==
  /\ pc[i] = "failed"
  /\ \/ Answer(i) = <<>>
     \/ pc[CN] \notin OpenPC /\ ~InRow(i) /\ Answer(i) = <<Expected(i)>>

\* A client and the controller.
Remote(i) ==
  pc[CN] \in LivePC =>
    /\ pc[CN] = "wait_all" => Heard(i)
    /\ Collects(i)
    /\ link[Cep(i)] = "accepted" => pc[CN] \notin RunPC /\ rxc[Inlet(i)] = <<>>
    /\ link[Cep(i)] = "up" =>
         /\ pc[CN] = "wait_all" => Joining(i)
         /\ pc[CN] \in LinkPC   => Greeted(i)
         /\ pc[CN] \in RunPC    => Waiting(i) \/ Replied(i) \/ GaveUp(i)

\* The controller has used up the receive for the confirmation of client i.
Done(i) ==
  /\ Unused(Inlet(i))
  /\ \/ link[Cep(i)] \in {"closed", "requested", "down"}
     \/ link[Cep(i)] = "up" /\ Answer(i) = <<>> /\ (pc[i] = "failed" \/ Reported(i))

\* What the controller has written down.
Books ==
  /\ pc[CN] \in {"wait_all", "start_tx"} \cup LinkPC => rounds = 0
  /\ pc[CN] \in {"wait_all", "checkpoint_tx"} \cup LinkPC \cup OpenPC =>
       \A i \in EN : \/ rounds = 0 /\ checkpoint[i].kind = "NONE"
                     \/ rounds > 0 /\ checkpoint[i] = Delta(i, rounds)
  /\ pc[CN] \in LivePC \ {"stop_rx"} => \A i \in EN : summary[i].kind = "NONE"
  /\ pc[CN] = "connect_rx" => counter[CN] <= Cardinality({i \in EN : Done(i)})
  /\ pc[CN] \in {"checkpoint_rx", "stop_rx"} =>
       counter[CN] <= Cardinality({i \in EN : InRow(i)})
  /\ pc[CN] \in {"stop_cm", "finished"} => \A i \in EN : summary[i] = Total(i, rounds)

FlowInv == Books /\ \A i \in EN : Local(i) /\ Remote(i)

\* The front of a queue put together and taken off.
LEMMA OneBefore ==
  ASSUME NEW m \in Msg, NEW s \in Seq(Msg)
  PROVE  /\ <<m>> \o s \in Seq(Msg) /\ <<m>> \o s # <<>>
         /\ Head(<<m>> \o s) = m /\ Tail(<<m>> \o s) = s
         /\ \A v \in Msg : Append(<<m>> \o s, v) = <<m>> \o Append(s, v)
  <1>1. <<m>> \o s \in Seq(Msg) /\ <<m>> \o s # <<>> /\ Head(<<m>> \o s) = m
    OBVIOUS
  <1>2. Tail(<<m>> \o s) = s
    OBVIOUS
  <1>3. ASSUME NEW v \in Msg PROVE Append(<<m>> \o s, v) = <<m>> \o Append(s, v)
    OBVIOUS
  <1> QED
    BY <1>1, <1>2, <1>3

LEMMA FrontBack ==
  ASSUME NEW s \in Seq(Msg), s # <<>>
  PROVE  /\ Head(s) \in Msg /\ Tail(s) \in Seq(Msg) /\ <<Head(s)>> \o Tail(s) = s
  OBVIOUS

\* Queues of up to two messages.
LEMMA Pair ==
  ASSUME NEW a \in Msg, NEW b \in Msg
  PROVE  Append(<<a>>, b) = <<a, b>>
  <1> DEFINE s == Append(<<a>>, b)
             t == <<a, b>>
  <1>1. s \in Seq(Msg)
    OBVIOUS
  <1>2. t \in Seq(Msg)
    OBVIOUS
  <1>3. Len(s) = 2 /\ s[1] = a /\ s[2] = b
    OBVIOUS
  <1>4. Len(t) = 2 /\ t[1] = a /\ t[2] = b
    OBVIOUS
  <1> HIDE DEF s, t
  <1>5. \A k \in 1 .. Len(s) : s[k] = t[k]
    BY <1>3, <1>4
  <1>6. s = t
    BY <1>1, <1>2, <1>3, <1>4, <1>5
  <1> QED
    BY <1>6 DEF s, t

LEMMA ShortQueues ==
  /\ \A a, b : <<a>> # <<>> /\ <<a, b>> # <<>>
  /\ \A a, b, c : <<a>> # <<b, c>>
  /\ \A a, b : Head(<<a>>) = a /\ Tail(<<a>>) = <<>> /\ Head(<<a, b>>) = a
  /\ \A a, b \in Msg : Tail(<<a, b>>) = <<b>>
  /\ \A a : Append(<<>>, a) = <<a>>
  /\ \A a, b \in Msg : Append(<<a>>, b) = <<a, b>>
  <1>1. \A a, b : <<a>> # <<>> /\ <<a, b>> # <<>>
    OBVIOUS
  <1>2. \A a, b, c : <<a>> # <<b, c>>
    OBVIOUS
  <1>3. \A a, b : Head(<<a>>) = a /\ Head(<<a, b>>) = a
    OBVIOUS
  <1>4. \A a : Tail(<<a>>) = <<>>
    OBVIOUS
  <1>5. ASSUME NEW a \in Msg, NEW b \in Msg PROVE Tail(<<a, b>>) = <<b>>
    <2>1. <<b>> \in Seq(Msg) /\ <<>> \in Seq(Msg)
      OBVIOUS
    <2>2. <<a>> \o <<>> = <<a>>
      OBVIOUS
    <2>3. Append(<<a>> \o <<>>, b) = <<a>> \o Append(<<>>, b)
      BY <2>1, OneBefore, Zenon
    <2>4. Append(<<a>>, b) = <<a, b>> /\ Append(<<>>, b) = <<b>>
      BY Pair
    <2>5. <<a, b>> = <<a>> \o <<b>>
      BY <2>2, <2>3, <2>4, Zenon
    <2>6. Tail(<<a>> \o <<b>>) = <<b>>
      BY <2>1, OneBefore, Zenon
    <2> QED
      BY <2>5, <2>6, Zenon
  <1>6. \A a : Append(<<>>, a) = <<a>>
    OBVIOUS
  <1>7. \A a, b \in Msg : Append(<<a>>, b) = <<a, b>>
    BY Pair
  <1> QED
    BY <1>1, <1>2, <1>3, <1>4, <1>5, <1>6, <1>7, Zenon

LEMMA OnWayFacts ==
  ASSUME TypeOK, NEW f \in Endpoint
  PROVE  /\ OnWay(f) \in Seq(Msg) /\ Rev(f) \in Endpoint
         /\ OnWay(f) = <<>> <=> rxc[f] = <<>> /\ sq[Rev(f)] = <<>>
  <1>1. Rev(f) \in Endpoint /\ sq[Rev(f)] \in Seq(Msg) /\ buf[f] \in Msg
    BY EndpointFacts DEF TypeOK, FabricTypeOK
  <1> QED
    BY <1>1, OneBefore DEF OnWay

\* A message is on its way until it is read.
LEMMA OnWaySame ==
  ASSUME NEW f \in Endpoint, rxc'[f] = rxc[f], sq'[Rev(f)] = sq[Rev(f)],
         rxc[f] # <<>> => buf'[f] = buf[f]
  PROVE  OnWay(f)' = OnWay(f)
  BY DEF OnWay, Rev

LEMMA OnWayRead ==
  ASSUME TypeOK, NEW f \in Endpoint, rxc[f] # <<>>, rxc'[f] = <<>>, sq'[Rev(f)] = sq[Rev(f)]
  PROVE  OnWay(f) # <<>> /\ Head(OnWay(f)) = buf[f] /\ OnWay(f)' = Tail(OnWay(f))
  <1>1. Rev(f) \in Endpoint /\ sq[Rev(f)] \in Seq(Msg) /\ buf[f] \in Msg
    BY EndpointFacts DEF TypeOK, FabricTypeOK
  <1>2. OnWay(f) = <<buf[f]>> \o sq[Rev(f)] /\ OnWay(f)' = sq[Rev(f)]
    BY DEF OnWay, Rev
  <1> QED
    BY <1>1, <1>2, OneBefore

LEMMA OnWaySent ==
  ASSUME TypeOK, NEW f \in Endpoint, NEW m \in Msg, rxc'[f] = rxc[f],
         sq'[Rev(f)] = Append(sq[Rev(f)], m), rxc[f] # <<>> => buf'[f] = buf[f]
  PROVE  OnWay(f)' = Append(OnWay(f), m)
  <1>1. Rev(f) \in Endpoint /\ sq[Rev(f)] \in Seq(Msg) /\ buf[f] \in Msg
    BY EndpointFacts DEF TypeOK, FabricTypeOK
  <1>2. CASE rxc[f] = <<>>
    BY <1>2 DEF OnWay, Rev
  <1>3. CASE rxc[f] # <<>>
    <2>1. OnWay(f) = <<buf[f]>> \o sq[Rev(f)] /\ OnWay(f)' = <<buf[f]>> \o Append(sq[Rev(f)], m)
      BY <1>3 DEF OnWay, Rev
    <2> QED
      BY <1>1, <2>1, OneBefore
  <1> QED
    BY <1>2, <1>3

LEMMA OnWayMoved ==
  ASSUME TypeOK, NEW f \in Endpoint, rxc[f] = <<>>, Transmit(Rev(f))
  PROVE  /\ OnWay(f)' = OnWay(f) /\ rxc'[f] # <<>> /\ Len(rxc'[f]) = 1
         /\ Head(rxc'[f]).len = LenOf(buf'[f]) /\ Head(rxc'[f]).size = Head(rq[f])
         /\ buf'[f] = Head(OnWay(f)) /\ OnWay(f) # <<>>
         /\ rq[f] # <<>> /\ rq'[f] = Tail(rq[f])
  <1> DEFINE g == Rev(f)
  <1>0. /\ g \in Endpoint /\ Rev(g) = f /\ sq[g] \in Seq(Msg) /\ buf[f] \in Msg
        /\ g # f
    <2>1. g \in Endpoint /\ sq[g] \in Seq(Msg) /\ buf[f] \in Msg
      BY EndpointFacts DEF TypeOK, FabricTypeOK
    <2>2. Rev(g) = f
      BY LinkShape, PassiveShape DEF Endpoint, Rev
    <2> QED
      BY <2>1, <2>2, TransmitOwn
  <1>1. /\ sq[g] # <<>> /\ sq'[g] = Tail(sq[g]) /\ buf'[f] = Head(sq[g])
        /\ rq[f] # <<>> /\ rq'[f] = Tail(rq[f])
    BY <1>0, TransmitOwn
  <1>2. rxc'[f] = <<[size |-> Head(rq[f]), len |-> LenOf(Head(sq[g]))]>>
    BY <1>0 DEF Transmit, TypeOK, FabricTypeOK
  <1>3. OnWay(f) = sq[g] /\ OnWay(f)' = <<buf'[f]>> \o sq'[g]
    BY <1>2 DEF OnWay, Rev
  <1>4. OnWay(f)' = OnWay(f)
    BY <1>0, <1>1, <1>3, FrontBack
  <1> QED
    BY <1>1, <1>2, <1>3, <1>4

\* The messages of the conversation and their lengths.
LEMMA FlowMsgs ==
  ASSUME TypeOK, NEW i \in EN
  PROVE  /\ Inlet(i) = <<CN, i>> /\ Inlet(i) \in Endpoint /\ Inlet(i) \in Passive
         /\ Rev(Cep(i)) = Inlet(i) /\ Rev(Inlet(i)) = Cep(i)
         /\ Inlet(i) \in ClientEps /\ LinkOf(Inlet(i)) = Cep(i) /\ Inlet(i) # Cep(i)
         /\ KeysOf(Inlet(i)) \in Msg /\ LenOf(KeysOf(Inlet(i))) = KeysSize
         /\ \A c \in Commands : To(c, i) \in Msg /\ LenOf(To(c, i)) = IntSize /\ To(c, i).kind = c
         /\ Expected(i) \in Msg /\ Order(i) \in Msg
         /\ Order(i) \in {To("CHECKPOINT", i), To("STOP", i)}
         /\ IntSize # KeysSize
         /\ Flight(i) \in Seq(Msg) /\ Answer(i) \in Seq(Msg)
         /\ Flight(i) = <<>> <=> rxc[Cep(i)] = <<>> /\ sq[Inlet(i)] = <<>>
         /\ Answer(i) = <<>> <=> rxc[Inlet(i)] = <<>> /\ sq[Cep(i)] = <<>>
  <1>1. /\ Inlet(i) = <<CN, i>> /\ Inlet(i) \in Endpoint /\ Inlet(i) \in Passive
        /\ Rev(Cep(i)) = Inlet(i) /\ Rev(Inlet(i)) = Cep(i) /\ Cep(i) \in Endpoint
        /\ Inlet(i) \in ClientEps /\ LinkOf(Inlet(i)) = Cep(i) /\ Inlet(i) # Cep(i)
    BY CepFacts, HostFacts DEF Inlet
  <1>2. /\ KeysOf(Inlet(i)) \in Msg /\ LenOf(KeysOf(Inlet(i))) = KeysSize
        /\ \A c \in Commands : To(c, i) \in Msg /\ LenOf(To(c, i)) = IntSize /\ To(c, i).kind = c
    BY <1>1, MsgFacts DEF KeysOf, Command, LenOf, To, Commands
  <1>3. Order(i) \in {To("CHECKPOINT", i), To("STOP", i)} /\ Order(i) \in Msg
    BY <1>2 DEF Order, Commands
  <1>4. Expected(i) \in Msg
    <2>1. rounds \in Nat
      BY RoundsAssumption DEF TypeOK
    <2> QED
      BY <1>1, <2>1, MsgFacts DEF Expected, Commands
  <1>5. /\ Flight(i) \in Seq(Msg) /\ Answer(i) \in Seq(Msg)
        /\ Flight(i) = <<>> <=> rxc[Cep(i)] = <<>> /\ sq[Inlet(i)] = <<>>
        /\ Answer(i) = <<>> <=> rxc[Inlet(i)] = <<>> /\ sq[Cep(i)] = <<>>
    BY <1>1, OnWayFacts DEF Flight, Answer
  <1> QED
    BY <1>1, <1>2, <1>3, <1>4, <1>5 DEF IntSize, KeysSize

-----------------------------------------------------------------------------
(* What a step may leave alone. *)

\* The client, and its endpoint to the controller.
Near(i) == /\ pc'[i] = pc[i] /\ peer'[i] = peer[i] /\ snap'[i] = snap[i]
           /\ i \in crashed' <=> i \in crashed
           /\ Untouched(Cep(i))
           /\ AtMostOneOpen(i) => AtMostOneOpen(i)'
           /\ i \in crashed => \A q \in Listener : Unused(<<i, q>>) => Unused(<<i, q>>)'

\* The controller's endpoint to it; what matters of that for the controller's reads.

Far(i)  == Untouched(Inlet(i))
Shut(i) == /\ rq'[Inlet(i)] = rq[Inlet(i)] /\ rxc'[Inlet(i)] = rxc[Inlet(i)]
           /\ buf'[Inlet(i)] = buf[Inlet(i)]

\* The controller stays in the same part of the run, or leaves it.
Desk == /\ UNCHANGED <<rounds, checkpoint, summary>>
        /\ pc'[CN] \in LivePC =>
             /\ pc'[CN] = "wait_all" <=> pc[CN] = "wait_all"
             /\ pc'[CN] \in LinkPC   <=> pc[CN] \in LinkPC
             /\ pc'[CN] \in OpenPC   <=> pc[CN] \in OpenPC
             /\ pc'[CN] \in RoundPC  <=> pc[CN] \in RoundPC
             /\ pc'[CN] \in StopPC   <=> pc[CN] \in StopPC

\* It joins nobody and accepts nobody.
Wire(i) == link'[Cep(i)] = link[Cep(i)] \/ link'[Cep(i)] \in {"closed", "requested", "down"}

Steady(i) == link'[Cep(i)] = link[Cep(i)] \/ link'[Cep(i)] \in {"closed", "down"}

Mail(i) == pc'[CN] = "wait_all" => (Heard(i) => Heard(i)') /\ (Informed(i)' => Informed(i))

LEMMA DeskFacts ==
  ASSUME Desk, pc'[CN] \in LivePC, NEW i \in EN
  PROVE  /\ Expected(i)' = Expected(i) /\ InRow(i)' = InRow(i) /\ Order(i)' = Order(i)
         /\ pc[CN] \in LivePC
         /\ pc'[CN] \in OpenPC <=> pc[CN] \in OpenPC
         /\ pc'[CN] \in RunPC <=> pc[CN] \in RunPC
         /\ rounds' = rounds
  <1>1. Expected(i)' = Expected(i)
    BY DEF Desk, Expected, LivePC, RunPC, Command, Delta, Total, Cep
  <1>2. InRow(i)' = InRow(i)
    BY DEF Desk, InRow, LivePC, RunPC, Delta, Total, Cep
  <1>3. Order(i)' = Order(i)
    BY DEF Desk, Order, LivePC, RunPC, To, Command, Inlet
  <1> QED
    BY <1>1, <1>2, <1>3 DEF Desk, LivePC, RunPC

LEMMA NearWhole ==
  ASSUME NEW i \in EN, pc'[i] = pc[i], peer'[i] = peer[i], snap'[i] = snap[i],
         i \in crashed' <=> i \in crashed,
         \A q \in Listener : Untouched(<<i, q>>)
  PROVE  Near(i)
  <1>1. Untouched(Cep(i))
    BY CepFacts
  <1>2. AtMostOneOpen(i) => AtMostOneOpen(i)'
    BY DEF AtMostOneOpen, Untouched, Slots, OpenTo
  <1> QED
    BY <1>1, <1>2 DEF Near, Untouched, Unused

LEMMA NearFacts ==
  ASSUME NEW i \in EN, Near(i)
  PROVE  /\ Calling(i)' = Calling(i) /\ Attached(i)' = Attached(i)
         /\ Touring(i)' = Touring(i) /\ Reported(i)' = Reported(i)
         /\ pc'[i] = pc[i] /\ peer'[i] = peer[i] /\ snap'[i] = snap[i]
         /\ Untouched(Cep(i))
         /\ AtMostOneOpen(i) => AtMostOneOpen(i)'
  BY DEF Near, Calling, Attached, Touring, Reported

LEMMA ViewSame ==
  ASSUME TypeOK, NEW i \in EN, Near(i), Far(i)
  PROVE  Flight(i)' = Flight(i) /\ Answer(i)' = Answer(i)
  <1>1. Untouched(Cep(i)) /\ Untouched(Inlet(i))
    BY NearFacts DEF Far
  <1> QED
    BY <1>1, FlowMsgs, CepFacts, OnWaySame DEF Untouched, Flight, Answer

LEMMA KeepsLocal ==
  ASSUME NEW i \in EN, Near(i), Local(i), Steady(i)
  PROVE  Local(i)'
  <1>1. /\ Calling(i)' = Calling(i) /\ Reported(i)' = Reported(i) /\ AtMostOneOpen(i)'
        /\ pc'[i] = pc[i] /\ peer'[i] = peer[i] /\ snap'[i] = snap[i]
        /\ Untouched(Cep(i))
    BY NearFacts DEF Local
  <1>2. i \in crashed' => /\ pc'[i] = "gone" /\ peer'[i] = CN /\ snap'[i] = 0
                          /\ sq'[Cep(i)] = <<>> /\ \A q \in Listener : Unused(<<i, q>>)'
    BY <1>1 DEF Near, Local, Unused, Untouched
  <1> QED
    BY <1>1, <1>2 DEF Near, Steady, Local, Untouched

LEMMA KeepsCollects ==
  ASSUME NEW i \in EN, Shut(i), Desk, pc'[CN] \in LivePC, Collects(i)
  PROVE  Collects(i)'
  <1>1. /\ Expected(i)' = Expected(i) /\ InRow(i)' = InRow(i)
        /\ pc'[CN] \in OpenPC <=> pc[CN] \in OpenPC
        /\ pc'[CN] = "wait_all" <=> pc[CN] = "wait_all"
    BY DeskFacts DEF Desk
  <1>2. Slots(Inlet(i))' = Slots(Inlet(i)) /\ Unused(Inlet(i))' = Unused(Inlet(i))
    BY DEF Shut, Slots, Unused, Inlet
  <1> QED
    BY <1>1, <1>2 DEF Collects, Shut, Inlet

\* What a step may do to a client and the controller besides moving one of them on.
Around(i) ==
  /\ Desk /\ Wire(i) /\ Mail(i)
  /\ pc'[CN] \in LivePC => Collects(i)'
  /\ link'[Cep(i)] = "accepted" => rxc'[Inlet(i)] = rxc[Inlet(i)]

LEMMA AroundShut ==
  ASSUME NEW i \in EN, Shut(i), Desk, Wire(i), Mail(i), Remote(i)
  PROVE  Around(i)
  <1>1. pc'[CN] \in LivePC => Collects(i)'
    BY KeepsCollects, DeskFacts DEF Remote
  <1> QED
    BY <1>1 DEF Around, Shut

LEMMA AroundFar ==
  ASSUME NEW i \in EN, Far(i), Desk, Wire(i), Mail(i), Remote(i)
  PROVE  Around(i)
  BY AroundShut DEF Far, Untouched, Shut

\* A client without a connection.
LEMMA Unlinked ==
  ASSUME NEW i \in EN, Around(i), Remote(i), link'[Cep(i)] # "up"
  PROVE  Remote(i)'
  <1> SUFFICES ASSUME pc'[CN] \in LivePC PROVE Remote(i)'
    BY DEF Remote
  <1>1. /\ pc[CN] \in LivePC
        /\ pc'[CN] \in RunPC <=> pc[CN] \in RunPC
    BY DeskFacts DEF Around
  <1>2. Collects(i)' /\ (pc'[CN] = "wait_all" => Heard(i)')
    BY <1>1 DEF Remote, Around, Mail, Desk
  <1>3. link'[Cep(i)] = "accepted" => pc'[CN] \notin RunPC /\ rxc'[Inlet(i)] = <<>>
    BY <1>1 DEF Remote, Around, Wire
  <1> QED
    BY <1>2, <1>3 DEF Remote

\* One that stays in the same part of its run.
SamePlace(i) ==
  /\ Calling(i)' = Calling(i) /\ Attached(i)' = Attached(i)
  /\ Touring(i)' = Touring(i) /\ Reported(i)' = Reported(i)
  /\ snap'[i] = snap[i]
  /\ \A place \in {"failed", "bench", "finished"} : pc'[i] = place <=> pc[i] = place

LEMMA SameView ==
  ASSUME NEW i \in EN, Around(i), Remote(i), SamePlace(i),
         Flight(i)' = Flight(i), Answer(i)' = Answer(i)
  PROVE  Remote(i)'
  <1> SUFFICES ASSUME pc'[CN] \in LivePC, link'[Cep(i)] = "up" PROVE Remote(i)'
    BY Unlinked DEF Remote
  <1>1. /\ Expected(i)' = Expected(i) /\ InRow(i)' = InRow(i) /\ Order(i)' = Order(i)
        /\ pc[CN] \in LivePC /\ rounds' = rounds
        /\ pc'[CN] \in OpenPC <=> pc[CN] \in OpenPC
        /\ pc'[CN] \in RunPC <=> pc[CN] \in RunPC
        /\ Desk /\ Mail(i) /\ Collects(i)' /\ link[Cep(i)] = "up"
    BY DeskFacts DEF Around, Wire
  <1>2. pc'[CN] = "wait_all" => Joining(i)'
    BY <1>1 DEF Remote, Joining, Desk, Mail, SamePlace
  <1>3. pc'[CN] \in LinkPC => Greeted(i)'
    BY <1>1 DEF Remote, Greeted, Desk, To, Command, Inlet, SamePlace
  <1>4. Waiting(i) /\ pc'[CN] \in RunPC => Waiting(i)'
    BY <1>1 DEF Waiting, To, Command, Inlet, SamePlace
  <1>5. Replied(i) /\ pc'[CN] \in RunPC => Replied(i)'
    BY <1>1 DEF Replied, Desk, SamePlace
  <1>6. GaveUp(i) => GaveUp(i)'
    BY <1>1 DEF GaveUp, SamePlace
  <1>7. pc'[CN] = "wait_all" => Heard(i)'
    BY <1>1 DEF Remote, Desk, Mail
  <1> QED
    BY <1>1, <1>2, <1>3, <1>4, <1>5, <1>6, <1>7 DEF Remote

\* One that gives up.
LEMMA GivesUp ==
  ASSUME NEW i \in EN, Around(i), Remote(i), pc'[i] = "failed", Answer(i)' = Answer(i)
  PROVE  Remote(i)'
  <1> SUFFICES ASSUME pc'[CN] \in LivePC, link'[Cep(i)] = "up" PROVE Remote(i)'
    BY Unlinked DEF Remote
  <1>1. /\ Expected(i)' = Expected(i) /\ InRow(i)' = InRow(i)
        /\ pc[CN] \in LivePC
        /\ pc'[CN] \in OpenPC <=> pc[CN] \in OpenPC
        /\ pc'[CN] \in RunPC <=> pc[CN] \in RunPC
        /\ Desk /\ Mail(i) /\ Collects(i)' /\ link[Cep(i)] = "up"
    BY DeskFacts DEF Around, Wire
  <1>2. ~Calling(i)' /\ ~Attached(i)' /\ ~Touring(i)' /\ ~Reported(i)'
    BY DEF Calling, Attached, Touring, Reported
  <1>3. pc'[CN] = "wait_all" => Joining(i)' /\ Heard(i)'
    BY <1>1, <1>2 DEF Remote, Joining, Desk, Mail
  <1>4. pc'[CN] \in LinkPC => Greeted(i)'
    BY <1>1, <1>2 DEF Remote, Greeted, Desk
  <1>5. pc'[CN] \in RunPC => GaveUp(i)'
    <2>1. Replied(i) /\ InRow(i) => Answer(i) = <<>>
      BY DEF Replied
    <2>2. Replied(i) /\ ~InRow(i) => Answer(i) = <<Expected(i)>> /\ pc[CN] \notin OpenPC
      BY DEF Replied
    <2>3. Waiting(i) => Answer(i) = <<>>
      BY DEF Waiting
    <2> QED
      BY <1>1, <2>1, <2>2, <2>3 DEF Remote, GaveUp
  <1> QED
    BY <1>1, <1>3, <1>4, <1>5 DEF Remote

LEMMA KeepsRemote ==
  ASSUME TypeOK, NEW i \in EN, Near(i), Far(i), Desk, Wire(i), Mail(i), Remote(i)
  PROVE  Remote(i)'
  <1>1. SamePlace(i)
    BY NearFacts DEF SamePlace
  <1> QED
    BY <1>1, AroundFar, ViewSame, SameView

LEMMA KeepsDone ==
  ASSUME TypeOK, NEW i \in EN, Near(i), Far(i), Wire(i), Done(i)
  PROVE  Done(i)'
  <1>1. Answer(i)' = Answer(i) /\ Reported(i)' = Reported(i) /\ pc'[i] = pc[i]
    BY ViewSame, NearFacts
  <1> QED
    BY <1>1 DEF Done, Far, Untouched, Wire, Unused, Inlet
-----------------------------------------------------------------------------
(* What the controller hears of the steps of others. *)

\* Nothing of a new connection; at least not of one to client i.
NoNewcomer ==
  eq'[CN] = eq[CN] \/ \E v \in Events : v.kind # "CONNECTED" /\ eq'[CN] = Append(eq[CN], v)

NotOfIt(i, v) == ~(v.kind = "CONNECTED" /\ v.ep = <<CN, i>>)
Aside(i) == eq'[CN] = eq[CN] \/ \E v \in Events : NotOfIt(i, v) /\ eq'[CN] = Append(eq[CN], v)

LEMMA MailAside ==
  ASSUME TypeOK, NEW i \in EN, Aside(i), Wire(i)
  PROVE  Mail(i)
  <1>1. CASE eq'[CN] = eq[CN]
    <2>1. /\ Informed(i)' => Informed(i)
          /\ Heard(i) => Heard(i)'
      BY <1>1 DEF Informed, Heard, Told, Wire
    <2> QED
      BY <2>1 DEF Mail
  <1>2. ASSUME NEW v \in Events, NotOfIt(i, v), eq'[CN] = Append(eq[CN], v)
        PROVE  Mail(i)
    <2>1. eq[CN] \in Seq(Events)
      BY NodeFacts DEF TypeOK, FabricTypeOK
    <2>2. /\ Len(eq[CN]) \in Nat
          /\ DOMAIN eq[CN] = 1 .. Len(eq[CN])
          /\ \A k \in DOMAIN eq'[CN] :
               \/ k \in DOMAIN eq[CN] /\ eq'[CN][k] = eq[CN][k]
               \/ k = Len(eq[CN]) + 1 /\ eq'[CN][k] = v
      BY <1>2, <2>1, AppendFacts
    <2>3. \A k \in DOMAIN eq'[CN] : Told(k, i, "CONNECTED")' =>
            k \in DOMAIN eq[CN] /\ Told(k, i, "CONNECTED")
      BY <1>2, <2>2 DEF Told, NotOfIt
    <2>4. \A k \in DOMAIN eq'[CN] : Told(k, i, "CONNREQ")' =>
            \/ k \in DOMAIN eq[CN] /\ Told(k, i, "CONNREQ")
            \/ k = Len(eq[CN]) + 1
      BY <2>2 DEF Told
    <2>5. Informed(i)' => Informed(i)
      BY <2>3 DEF Informed
    <2>6. ASSUME Heard(i) PROVE Heard(i)'
      <3>1. link'[Cep(i)] = "accepted" => ~Informed(i)'
        BY <2>5, <2>6 DEF Heard, Wire
      <3>2. ASSUME NEW m \in DOMAIN eq'[CN], NEW n \in DOMAIN eq'[CN]
            PROVE  /\ link'[Cep(i)] = "up" /\ Told(m, i, "CONNECTED")' /\ Told(n, i, "CONNECTED")' => m = n
                   /\ Told(m, i, "CONNECTED")' /\ Told(n, i, "CONNREQ")' => m < n
        <4>1. link'[Cep(i)] = "up" => link[Cep(i)] = "up"
          BY DEF Wire
        <4>2. Told(m, i, "CONNECTED")' => m \in 1 .. Len(eq[CN]) /\ Told(m, i, "CONNECTED")
          BY <2>2, <2>3, Zenon
        <4>3. Told(n, i, "CONNECTED")' => n \in 1 .. Len(eq[CN]) /\ Told(n, i, "CONNECTED")
          BY <2>2, <2>3, Zenon
        <4>4. Told(n, i, "CONNREQ")' =>
                \/ n \in 1 .. Len(eq[CN]) /\ Told(n, i, "CONNREQ")
                \/ n = Len(eq[CN]) + 1
          BY <2>2, <2>4, Zenon
        <4>5. \A j, k \in 1 .. Len(eq[CN]) :
                 /\ link[Cep(i)] = "up" /\ Told(j, i, "CONNECTED") /\ Told(k, i, "CONNECTED") => j = k
                 /\ Told(j, i, "CONNECTED") /\ Told(k, i, "CONNREQ") => j < k
          BY <2>2, <2>6, Zenon DEF Heard
        <4>6. link'[Cep(i)] = "up" /\ Told(m, i, "CONNECTED")' /\ Told(n, i, "CONNECTED")' => m = n
          BY <4>1, <4>2, <4>3, <4>5, Zenon
        <4>7. Told(m, i, "CONNECTED")' /\ Told(n, i, "CONNREQ")' => m < n
          <5>1. m \in 1 .. Len(eq[CN]) => m < Len(eq[CN]) + 1
            BY <2>2
          <5> QED
            BY <4>2, <4>4, <4>5, <5>1, Zenon
        <4> QED
          BY <4>6, <4>7
      <3> QED
        BY <3>1, <3>2 DEF Heard
    <2> QED
      BY <2>5, <2>6 DEF Mail
  <1> QED
    BY <1>1, <1>2 DEF Aside

LEMMA MailAppend ==
  ASSUME TypeOK, NEW i \in EN, NoNewcomer, Wire(i)
  PROVE  Mail(i)
  BY MailAside DEF NoNewcomer, Aside, NotOfIt

LEMMA RequestNews ==
  ASSUME TypeOK, NEW l \in Link, Request(l)
  PROVE  /\ NoNewcomer
         /\ \A k \in Link : k # l => link'[k] = link[k]
         /\ link'[l] \in {link[l], "requested"}
  <1>0. /\ eq \in [Node -> Seq(Events)] /\ link \in [Link -> LinkStates] /\ CN \in Node
        /\ l \in Endpoint /\ Dialled(l) \subseteq Endpoint
    BY NodeFacts DEF TypeOK, FabricTypeOK, Endpoint, Dialled
  <1>1. ASSUME NEW p, NEW v \in Events, v.kind # "CONNECTED", eq' = [eq EXCEPT ![p] = Append(@, v)]
        PROVE  NoNewcomer
    BY <1>0, <1>1 DEF NoNewcomer
  <1>2. \A e \in Endpoint : /\ [kind |-> "CONNREQ", ep |-> e] \in Events
                            /\ [kind |-> "REFUSED", ep |-> e] \in Events
    BY DEF Events
  <1>3. NoNewcomer
    <2>1. \/ \E e \in Endpoint :
               eq' = [eq EXCEPT ![l[2]] = Append(@, [kind |-> "CONNREQ", ep |-> e])]
          \/ eq' = [eq EXCEPT ![l[1]] = Append(@, [kind |-> "REFUSED", ep |-> l])]
      BY <1>0 DEF Request
    <2>2. CASE \E e \in Endpoint :
                 eq' = [eq EXCEPT ![l[2]] = Append(@, [kind |-> "CONNREQ", ep |-> e])]
      <3>1. PICK e \in Endpoint :
                 eq' = [eq EXCEPT ![l[2]] = Append(@, [kind |-> "CONNREQ", ep |-> e])]
        BY <2>2
      <3> QED
        BY <1>1, <1>2, <3>1
    <2>3. CASE eq' = [eq EXCEPT ![l[1]] = Append(@, [kind |-> "REFUSED", ep |-> l])]
      BY <1>0, <1>1, <1>2, <2>3
    <2> QED
      BY <2>1, <2>2, <2>3
  <1> QED
    BY <1>0, <1>3 DEF Request

LEMMA ExitNews ==
  ASSUME TypeOK, NEW p \in Node, Exit(p)
  PROVE  /\ NoNewcomer
         /\ \A k \in Link : link'[k] = link[k] \/ link'[k] = "down"
         /\ \A k \in Link : p \in {k[1], k[2]} => link'[k] # "up"
  <1>0. CN \in Node
    BY NodeFacts
  <1>1. NoNewcomer
    BY <1>0 DEF Exit, Disconnect, NoNewcomer, Events
  <1> QED
    BY <1>1 DEF Exit, Disconnect
-----------------------------------------------------------------------------
(* What a client does at its endpoint to the controller. *)

\* It reads the one message there is, or finds nothing and leaves the receive.
TakesIn(i) == rxc[Cep(i)] # <<>> /\ rxc'[Cep(i)] = <<>>
Bare(i)  == rq[Cep(i)] = <<>> /\ rxc[Cep(i)] = <<>> /\ rxc'[Cep(i)] = <<>>
Mute(i)  == sq'[Cep(i)] = sq[Cep(i)] /\ buf'[Cep(i)] = buf[Cep(i)]

Moves(i, from, to) == pc[i] = from /\ pc'[i] \in to /\ snap'[i] = snap[i]

ConnectAct(i) ==
  \/ /\ Moves(i, "dial", {"await_cm"}) /\ peer'[i] = CN
     /\ Bare(i) /\ Mute(i) /\ rq'[Cep(i)] = <<KeysSize>>
  \/ Moves(i, "await_cm", {"await_keys", "failed"}) /\ peer'[i] = peer[i] /\ Untouched(Cep(i))
  \/ /\ Moves(i, "await_keys", {"linked", "failed"}) /\ peer'[i] = peer[i]
     /\ IF peer[i] # CN THEN Untouched(Cep(i))
        ELSE /\ TakesIn(i) /\ Mute(i)
             /\ pc'[i] = "linked" => Head(rxc[Cep(i)]).size = Head(rxc[Cep(i)]).len
  \/ /\ Moves(i, "finished", {"gone"}) \/ Moves(i, "failed", {"gone"})
     /\ Untouched(Cep(i)) /\ link'[Cep(i)] # "up"

LinkedAct(i) ==
  \/ /\ Moves(i, "linked", {"await_connect"}) /\ peer[i] = CN /\ peer'[i] = CN
     /\ Bare(i) /\ Mute(i)
  \/ /\ Moves(i, "await_connect", {"await_cm", "failed"})
     /\ pc'[i] = "await_cm" => peer'[i] \in PN
     /\ TakesIn(i) /\ Mute(i)
  \/ /\ Moves(i, "linked", {"await_cm"}) /\ peer[i] \in PN /\ peer'[i] \in PN
     /\ Untouched(Cep(i))
  \/ /\ Moves(i, "linked", {"confirm_tx"}) /\ peer[i] \in PN
     /\ Bare(i) /\ sq'[Cep(i)] = Append(sq[Cep(i)], Command("CONNECTED", Cep(i)))

Reply(i) == IF buf[Cep(i)].kind = "STOP" THEN Total(i, snap'[i]) ELSE Delta(i, snap'[i])

BenchAct(i) ==
  \/ Moves(i, "confirm_tx", {"await_start"}) /\ Untouched(Cep(i))
  \/ /\ Moves(i, "await_start", {"bench", "failed"})
     /\ TakesIn(i) /\ Mute(i)
  \/ /\ Moves(i, "bench", {"failed"})
     /\ TakesIn(i) /\ Mute(i)
  \/ /\ pc[i] = "bench"
     /\ pc'[i] = IF buf[Cep(i)].kind = "STOP" THEN "finished" ELSE "bench"
     /\ snap'[i] = IF buf[Cep(i)].kind = "CHECKPOINT" THEN snap[i] + 1 ELSE snap[i]
     /\ TakesIn(i)
     /\ sq'[Cep(i)] = Append(sq[Cep(i)], Reply(i))

LEMMA DialActs ==
  ASSUME TypeOK, NEW i \in EN, NEW q, <<i, q>> \in Link, Dial(i, q)
  PROVE  /\ pc'[i] = "await_cm" /\ peer'[i] = q
         /\ q # CN => rq'[Cep(i)] = rq[Cep(i)] /\ link'[Cep(i)] = link[Cep(i)]
         /\ q = CN => /\ rq'[Cep(i)] = Append(rq[Cep(i)], KeysSize)
                      /\ link'[Cep(i)] \in {link[Cep(i)], "requested"}
         /\ \A k \in EN : k # i => link'[Cep(k)] = link[Cep(k)]
         /\ NoNewcomer
  <1>0. i \in Host /\ Cep(i) = <<i, CN>> /\ Cep(i) \in Endpoint /\ Cep(i) \in Link
    BY CepFacts
  <1>1. /\ pc'[i] = "await_cm" /\ peer'[i] = q
        /\ q # CN => rq'[Cep(i)] = rq[Cep(i)]
        /\ q = CN => rq'[Cep(i)] = Append(rq[Cep(i)], KeysSize)
    BY <1>0, DialOwn
  <1>2. Request(<<i, q>>)
    BY DEF Dial
  <1>3. /\ NoNewcomer
        /\ \A k \in Link : k # <<i, q>> => link'[k] = link[k]
        /\ link'[<<i, q>>] \in {link[<<i, q>>], "requested"}
    BY <1>2, RequestNews
  <1>4. \A k \in EN : k # i => link'[Cep(k)] = link[Cep(k)]
    BY <1>3, CepFacts
  <1> QED
    BY <1>0, <1>1, <1>3, <1>4

\* The completion a client reads is the one of its open receive.
LEMMA ReadActs ==
  ASSUME TypeOK, NEW i \in EN, AtMostOneOpen(i), pc[i] \notin {"failed", "gone"},
         NEW e \in Endpoint, e[1] = i, ReadRx(e)
  PROVE  /\ e[2] \in OpenTo(i) /\ e = <<i, e[2]>>
         /\ e[2] = CN => e = Cep(i) /\ TakesIn(i) /\ Head(rxc[e]) = Head(rxc[Cep(i)])
         /\ e[2] # CN => rxc'[Cep(i)] = rxc[Cep(i)]
  <1>1. /\ e = <<i, e[2]>> /\ e[2] \in OpenTo(i)
        /\ \A q \in Listener : rq[<<i, q>>] = <<>> /\ rxc'[<<i, q>>] = <<>>
    BY ReadClears
  <1>2. rxc[e] # <<>> /\ \A d \in Endpoint : d # e => rxc'[d] = rxc[d]
    BY ReadOwn
  <1>3. CN \in Listener /\ Cep(i) = <<i, CN>> /\ Cep(i) \in Endpoint
    BY CepFacts
  <1> QED
    BY <1>1, <1>2, <1>3 DEF TakesIn

\* The steps every host takes.
LEMMA ConnectActs ==
  ASSUME TypeOK, OwnEvents, NEW i \in EN, AtMostOneOpen(i), HostStep(i)
  PROVE  /\ ConnectAct(i)
         /\ HostDial(i) \/ Exit(i) \/ link' = link
         /\ NoNewcomer /\ \A k \in EN : k # i => Steady(k) /\ snap'[k] = snap[k]
  <1>0. /\ i \in Node /\ i \in Host /\ CN \in Listener /\ CN \in Node /\ i # CN
        /\ Cep(i) = <<i, CN>> /\ Cep(i) \in Link /\ Cep(i) \in Endpoint
    BY CepFacts
  <1>1. CASE HostDial(i)
    <2>1. /\ Dial(i, CN) /\ UNCHANGED <<sq, rxc, buf, snap>> /\ pc[i] = "dial"
      BY <1>1 DEF HostDial
    <2>2. rq[Cep(i)] = <<>> /\ rxc[Cep(i)] = <<>>
      BY <1>0, <2>1, NothingOpen
    <2>3. /\ pc'[i] = "await_cm" /\ peer'[i] = CN /\ rq'[Cep(i)] = Append(rq[Cep(i)], KeysSize)
          /\ NoNewcomer /\ \A k \in EN : k # i => link'[Cep(k)] = link[Cep(k)]
      BY <1>0, <2>1, DialActs
    <2>4. rq'[Cep(i)] = <<KeysSize>>
      BY <2>2, <2>3
    <2> QED
      BY <1>1, <2>1, <2>2, <2>3, <2>4 DEF ConnectAct, Moves, Bare, Mute, Steady
  <1>2. CASE ConnectEvent(i)
    <2>1. /\ UNCHANGED <<sq, rq, rxc, buf, snap, peer, link>> /\ pc[i] = "await_cm"
          /\ pc'[i] \in {"await_keys", "failed"}
      BY <1>0, <1>2, GotoOwn DEF ConnectEvent
    <2>2. eq'[CN] = eq[CN]
      BY <1>0, <1>2 DEF ConnectEvent, TypeOK, FabricTypeOK
    <2> QED
      BY <2>1, <2>2 DEF ConnectAct, Moves, Untouched, NoNewcomer, Steady
  <1>3. CASE ConnectKeys(i)
    <2>1. /\ UNCHANGED <<sq, rq, buf, snap, peer, link, eq>> /\ pc[i] = "await_keys"
      BY <1>3 DEF ConnectKeys
    <2>2. PICK e \in Endpoint :
            /\ e[1] = i /\ ReadRx(e)
            /\ \/ Head(rxc[e]).size = Head(rxc[e]).len
               \/ Goto(i, "failed")
      BY <1>3 DEF ConnectKeys
    <2>3. pc'[i] \in {"linked", "failed"}
      BY <1>0, <1>3, GotoOwn, NodeFacts DEF ConnectKeys
    <2>4. pc'[i] = "linked" => Head(rxc[e]).size = Head(rxc[e]).len
      BY <1>0, <2>2, GotoOwn
    <2>5. e[2] = peer[i]
      BY <2>1, <2>2, ReadActs DEF OpenTo
    <2>6. /\ e[2] = CN => TakesIn(i) /\ Head(rxc[e]) = Head(rxc[Cep(i)])
          /\ e[2] # CN => rxc'[Cep(i)] = rxc[Cep(i)]
      BY <2>1, <2>2, ReadActs
    <2> QED
      BY <2>1, <2>3, <2>4, <2>5, <2>6 DEF ConnectAct, Moves, Mute, Untouched, NoNewcomer, Steady
  <1>4. CASE Exit(i)
    <2>1. /\ UNCHANGED <<sq, rq, rxc, buf, snap, peer>> /\ pc[i] \in {"finished", "failed"}
          /\ pc'[i] = "gone"
      BY <1>0, <1>4, GotoOwn DEF Exit
    <2>2. /\ NoNewcomer /\ \A k \in Link : link'[k] = link[k] \/ link'[k] = "down"
          /\ link'[Cep(i)] # "up"
      BY <1>0, <1>4, ExitNews
    <2>3. \A k \in EN : Steady(k)
      BY <2>2, CepFacts DEF Steady
    <2> QED
      BY <1>4, <2>1, <2>2, <2>3 DEF ConnectAct, Moves, Untouched
  <1> QED
    BY <1>1, <1>2, <1>3, <1>4 DEF HostStep

LEMMA LinkedActs ==
  ASSUME TypeOK, NEW i \in EN, AtMostOneOpen(i),
         AwaitConnect(i) \/ RecvConnect(i) \/ DialNext(i) \/ Confirm(i)
  PROVE  /\ LinkedAct(i)
         /\ link'[Cep(i)] = link[Cep(i)]
         /\ NoNewcomer /\ \A k \in EN : k # i => Steady(k) /\ snap'[k] = snap[k]
  <1>0. /\ i \in Node /\ i \in Host /\ CN \in Listener /\ CN \in Node /\ i # CN
        /\ Cep(i) = <<i, CN>> /\ Cep(i) \in Link /\ Cep(i) \in Endpoint
        /\ NumEN \in PN /\ NumEN # CN /\ \A s \in PN : s # CN
    BY CepFacts, NodeFacts
  <1>1. CASE AwaitConnect(i)
    <2>1. /\ UNCHANGED <<sq, rxc, buf, snap, peer, link, eq>> /\ pc[i] = "linked" /\ peer[i] = CN
          /\ pc'[i] = "await_connect"
      BY <1>0, <1>1, GotoOwn DEF AwaitConnect
    <2>2. rq[Cep(i)] = <<>> /\ rxc[Cep(i)] = <<>>
      BY <1>0, <2>1, NothingOpen
    <2> QED
      BY <2>1, <2>2 DEF LinkedAct, Moves, Bare, Mute, NoNewcomer, Steady
  <1>2. CASE RecvConnect(i)
    <2>1. UNCHANGED <<sq, buf, snap>> /\ pc[i] = "await_connect"
      BY <1>2 DEF RecvConnect
    <2>2. PICK e \in Endpoint : e[1] = i /\ ReadRx(e)
      BY <1>2 DEF RecvConnect
    <2>3. TakesIn(i)
      BY <2>1, <2>2, ReadActs DEF OpenTo
    <2>4. CASE Dial(i, NumEN)
      <3>1. <<i, NumEN>> \in Link
        BY <1>0, DataEnds
      <3>2. /\ pc'[i] = "await_cm" /\ peer'[i] = NumEN /\ NoNewcomer
            /\ \A k \in EN : link'[Cep(k)] = link[Cep(k)]
        BY <1>0, <2>4, <3>1, DialActs
      <3> QED
        BY <1>0, <2>1, <2>3, <3>2 DEF LinkedAct, Moves, Mute, Steady
    <2>5. CASE Goto(i, "failed") /\ UNCHANGED <<link, eq>>
      <3>1. pc'[i] = "failed"
        BY <1>0, <2>5, GotoOwn
      <3> QED
        BY <2>1, <2>3, <2>5, <3>1 DEF LinkedAct, Moves, Mute, Steady, NoNewcomer
    <2> QED
      BY <1>2, <2>4, <2>5 DEF RecvConnect
  <1>3. CASE DialNext(i)
    <2>1. /\ Dial(i, peer[i] + 1) /\ <<i, peer[i] + 1>> \in Link /\ peer[i] + 1 # CN
          /\ UNCHANGED <<sq, rxc, buf, snap>> /\ pc[i] = "linked" /\ peer[i] \in PN
          /\ peer[i] + 1 \in PN
      BY <1>0, <1>3, DataEnds DEF DialNext
    <2>2. /\ pc'[i] = "await_cm" /\ peer'[i] = peer[i] + 1 /\ NoNewcomer
          /\ rq'[Cep(i)] = rq[Cep(i)]
          /\ \A k \in EN : link'[Cep(k)] = link[Cep(k)]
      BY <1>0, <2>1, DialActs
    <2> QED
      BY <2>1, <2>2 DEF LinkedAct, Moves, Untouched, Steady
  <1>4. CASE Confirm(i)
    <2>1. /\ UNCHANGED <<rxc, snap, link, eq>> /\ pc[i] = "linked" /\ peer[i] \in PN
          /\ SendCommand({Cep(i)}, "CONNECTED") /\ pc'[i] = "confirm_tx"
      BY <1>0, <1>4, GotoOwn DEF Confirm
    <2>2. rq[Cep(i)] = <<>> /\ rxc[Cep(i)] = <<>>
      BY <1>0, <2>1, NothingOpen
    <2>3. sq'[Cep(i)] = Append(sq[Cep(i)], Command("CONNECTED", Cep(i)))
      BY <1>0, <2>1, CommandOwn
    <2> QED
      BY <2>1, <2>2, <2>3 DEF LinkedAct, Moves, Bare, NoNewcomer, Steady
  <1> QED
    BY <1>1, <1>2, <1>3, <1>4

LEMMA BenchActs ==
  ASSUME TypeOK, NEW i \in EN, AtMostOneOpen(i),
         ConfirmSent(i) \/ RecvStart(i) \/ BenchCommand(i)
  PROVE  /\ BenchAct(i) /\ link' = link
         /\ NoNewcomer /\ \A k \in EN : k # i => Steady(k) /\ snap'[k] = snap[k]
  <1>0. /\ i \in Node /\ i \in Host /\ CN \in Listener /\ CN \in Node /\ i # CN
        /\ Cep(i) = <<i, CN>> /\ Cep(i) \in Link /\ Cep(i) \in Endpoint
    BY CepFacts
  <1>1. CASE ConfirmSent(i)
    <2>1. /\ UNCHANGED <<sq, rq, rxc, buf, snap, link, eq>> /\ pc[i] = "confirm_tx"
          /\ pc'[i] = "await_start"
      BY <1>0, <1>1, GotoOwn DEF ConfirmSent
    <2> QED
      BY <2>1 DEF BenchAct, Moves, Untouched, NoNewcomer, Steady
  <1>2. CASE RecvStart(i)
    <2>1. /\ UNCHANGED <<sq, buf, snap, link, eq>> /\ pc[i] = "await_start"
          /\ pc'[i] \in {"bench", "failed"}
      BY <1>0, <1>2, GotoOwn DEF RecvStart
    <2>2. TakesIn(i)
      BY <1>2, <2>1, ReadActs DEF RecvStart, OpenTo
    <2> QED
      BY <2>1, <2>2 DEF BenchAct, Moves, Mute, NoNewcomer, Steady
  <1>3. CASE BenchCommand(i)
    <2>1. UNCHANGED <<link, eq>> /\ pc[i] = "bench"
      BY <1>3 DEF BenchCommand
    <2>2. TakesIn(i)
      BY <1>3, <2>1, ReadActs DEF BenchCommand, OpenTo
    <2>3. CASE Goto(i, "failed") /\ UNCHANGED <<sq, rq, buf, snap>>
      <3>1. pc'[i] = "failed"
        BY <1>0, <2>3, GotoOwn
      <3> QED
        BY <2>1, <2>2, <2>3, <3>1 DEF BenchAct, Moves, Mute, NoNewcomer, Steady
    <2> DEFINE c == buf[Cep(i)].kind
               n == IF c = "CHECKPOINT" THEN snap[i] + 1 ELSE snap[i]
               r == IF c = "STOP" THEN Total(i, n) ELSE Delta(i, n)
    <2>4. CASE /\ snap' = [snap EXCEPT ![i] = n] /\ CtrlSend([a \in {Cep(i)} |-> r])
               /\ Goto(i, IF c = "STOP" THEN "finished" ELSE "bench")
      <3>1. pc'[i] = IF c = "STOP" THEN "finished" ELSE "bench"
        BY <1>0, <2>4, GotoOwn
      <3>2. snap'[i] = n /\ \A k \in EN : k # i => snap'[k] = snap[k]
        BY <2>4 DEF TypeOK
      <3>3. sq'[Cep(i)] = Append(sq[Cep(i)], r)
        <4> DEFINE m == [a \in {Cep(i)} |-> r]
        <4>1. CtrlSend(m)
          BY <2>4, Zenon
        <4>2. Cep(i) \in DOMAIN m /\ m[Cep(i)] = r
          OBVIOUS
        <4> HIDE DEF m, r, n, c
        <4> QED
          BY <1>0, <4>1, <4>2, SendOwn
      <3>4. Reply(i) = r
        BY <3>2 DEF Reply
      <3> HIDE DEF r
      <3>5. sq'[Cep(i)] = Append(sq[Cep(i)], Reply(i))
        BY <3>3, <3>4
      <3>6. BenchAct(i)
        BY <2>1, <2>2, <3>1, <3>2, <3>5, Zenon DEF BenchAct
      <3> QED
        BY <2>1, <3>2, <3>6 DEF NoNewcomer, Steady
    <2> HIDE DEF r
    <2> QED
      BY <1>3, <2>3, <2>4 DEF BenchCommand, r
  <1> QED
    BY <1>1, <1>2, <1>3
-----------------------------------------------------------------------------
(* A step of a client. *)

LEMMA ClientActs ==
  ASSUME TypeOK, OwnEvents, NEW i \in EN, AtMostOneOpen(i), ClientStep(i)
  PROVE  /\ ConnectAct(i) \/ LinkedAct(i) \/ BenchAct(i)
         /\ \/ link'[Cep(i)] = link[Cep(i)]
            \/ pc[i] = "dial" /\ link'[Cep(i)] = "requested"
            \/ pc'[i] = "gone" /\ link'[Cep(i)] = "down"
         /\ NoNewcomer /\ Wire(i)
         /\ \A k \in EN : k # i => Steady(k) /\ snap'[k] = snap[k]
  <1>0. i \in Node /\ Cep(i) \in Link /\ Cep(i) = <<i, CN>> /\ i \in Host
    BY CepFacts
  <1>1. CASE HostStep(i)
    <2>1. /\ ConnectAct(i) /\ NoNewcomer
          /\ \A k \in EN : k # i => Steady(k) /\ snap'[k] = snap[k]
          /\ HostDial(i) \/ Exit(i) \/ link' = link
      BY <1>1, ConnectActs
    <2>2. CASE HostDial(i)
      <3>1. pc[i] = "dial" /\ Request(Cep(i))
        BY <1>0, <2>2 DEF HostDial, Dial
      <3>2. link'[Cep(i)] \in {link[Cep(i)], "requested"}
        BY <1>0, <3>1, RequestNews
      <3> QED
        BY <2>1, <3>1, <3>2 DEF Wire
    <2>3. CASE Exit(i)
      <3>1. pc'[i] = "gone"
        BY <1>0, <2>3, GotoOwn DEF Exit
      <3>2. link'[Cep(i)] = link[Cep(i)] \/ link'[Cep(i)] = "down"
        BY <1>0, <2>3, ExitNews
      <3> QED
        BY <2>1, <3>1, <3>2 DEF Wire
    <2>4. CASE link' = link
      BY <2>1, <2>4 DEF Wire
    <2> QED
      BY <2>1, <2>2, <2>3, <2>4
  <1>2. CASE AwaitConnect(i) \/ RecvConnect(i) \/ DialNext(i) \/ Confirm(i)
    BY <1>2, LinkedActs DEF Wire
  <1>3. CASE ConfirmSent(i) \/ RecvStart(i) \/ BenchCommand(i)
    BY <1>3, BenchActs DEF Wire
  <1> QED
    BY <1>1, <1>2, <1>3 DEF ClientStep

LEMMA ClientLocal ==
  ASSUME TypeOK, OwnEvents, NEW i \in EN, Local(i), ClientStep(i), crashed' = crashed
  PROVE  Local(i)'
  <1>1. /\ ConnectAct(i) \/ LinkedAct(i) \/ BenchAct(i)
        /\ \/ link'[Cep(i)] = link[Cep(i)]
           \/ pc[i] = "dial" /\ link'[Cep(i)] = "requested"
           \/ pc'[i] = "gone" /\ link'[Cep(i)] = "down"
        /\ AtMostOneOpen(i)'
    BY ClientActs, OpenStepOwn DEF Local
  <1>2. i \notin crashed'
    <2>1. pc[i] # "gone"
      BY ClientMoves
    <2> QED
      BY <2>1 DEF Local
  <1>3. \A s \in PN : s # CN
    BY NodeFacts
  <1>4. CASE ConnectAct(i)
    <2>1. pc'[i] \notin {"finished", "failed", "gone"} /\ rxc'[Cep(i)] # <<>> =>
            Head(rxc'[Cep(i)]).len = LenOf(buf'[Cep(i)])
      BY <1>4 DEF Local, ConnectAct, Moves, Bare, Mute, TakesIn, Untouched
    <2>2. Calling(i)' => /\ rq'[Cep(i)] # <<>>  => Head(rq'[Cep(i)]) = KeysSize
                         /\ rxc'[Cep(i)] # <<>> => Head(rxc'[Cep(i)]).size = KeysSize
      BY <1>4 DEF Local, ConnectAct, Moves, Bare, Mute, TakesIn, Untouched, Calling
    <2>3. /\ pc'[i] \in {"dial", "await_connect"} => peer'[i] = CN
          /\ pc'[i] \notin {"bench", "finished", "failed", "gone"} =>
               snap'[i] = 0 /\ (Reported(i)' \/ sq'[Cep(i)] = <<>>)
          /\ pc'[i] # "dial"
      BY <1>4 DEF Local, ConnectAct, Moves, Bare, Mute, TakesIn, Untouched, Reported
    <2>4. link'[Cep(i)] \in {"requested", "accepted"} =>
            /\ Calling(i)' \/ pc'[i] \in {"failed", "gone"}
            /\ sq'[Cep(i)] = <<>> /\ rxc'[Cep(i)] = <<>>
      BY <1>1, <1>4 DEF Local, ConnectAct, Moves, Bare, Mute, TakesIn, Untouched, Calling, Reported
    <2> QED
      BY <1>1, <1>2, <2>1, <2>2, <2>3, <2>4 DEF Local
  <1>5. CASE LinkedAct(i)
    <2>1. ~Calling(i)' /\ link'[Cep(i)] \notin {"requested", "accepted"}
      BY <1>1, <1>3, <1>5 DEF Local, LinkedAct, Moves, Calling
    <2>2. rxc'[Cep(i)] # <<>> /\ pc'[i] \notin {"finished", "failed", "gone"} =>
            Head(rxc'[Cep(i)]).len = LenOf(buf'[Cep(i)])
      BY <1>5 DEF Local, LinkedAct, Moves, Bare, Mute, TakesIn, Untouched
    <2>3. /\ pc'[i] \in {"dial", "await_connect"} => peer'[i] = CN
          /\ pc'[i] \notin {"bench", "finished", "failed", "gone"} =>
               snap'[i] = 0 /\ (Reported(i)' \/ sq'[Cep(i)] = <<>>)
          /\ pc'[i] # "dial"
      BY <1>5 DEF Local, LinkedAct, Moves, Bare, Mute, TakesIn, Untouched, Reported
    <2> QED
      BY <1>1, <1>2, <2>1, <2>2, <2>3 DEF Local
  <1>6. CASE BenchAct(i)
    <2>1. ~Calling(i)' /\ link'[Cep(i)] \notin {"requested", "accepted"}
      BY <1>1, <1>6 DEF Local, BenchAct, Moves, Calling
    <2>2. rxc'[Cep(i)] # <<>> /\ pc'[i] \notin {"finished", "failed", "gone"} =>
            Head(rxc'[Cep(i)]).len = LenOf(buf'[Cep(i)])
      BY <1>6 DEF Local, BenchAct, Moves, Mute, TakesIn, Untouched
    <2>3. /\ pc'[i] \in {"dial", "await_connect"} => peer'[i] = CN
          /\ pc'[i] \notin {"bench", "finished", "failed", "gone"} =>
               snap'[i] = 0 /\ (Reported(i)' \/ sq'[Cep(i)] = <<>>)
          /\ pc'[i] # "dial"
      BY <1>6 DEF Local, BenchAct, Moves, Mute, TakesIn, Untouched, Reported
    <2> QED
      BY <1>1, <1>2, <2>1, <2>2, <2>3 DEF Local
  <1> QED
    BY <1>1, <1>4, <1>5, <1>6

LEMMA ClientDesk ==
  ASSUME TypeOK, NEW i \in EN, ClientStep(i)
  PROVE  /\ UNCHANGED <<rounds, checkpoint, summary>>
         /\ pc'[CN] = pc[CN] /\ counter'[CN] = counter[CN] /\ Desk
         /\ Far(i)
         /\ \A k \in EN : k # i => Far(k)
  <1>1. UNCHANGED <<rounds, checkpoint, summary>>
    BY DEF ClientStep, HostStep, HostDial, ConnectEvent, ConnectKeys, Exit, AwaitConnect,
           RecvConnect, DialNext, Confirm, ConfirmSent, RecvStart, BenchCommand
  <1>2. OnlyItsOwn(i) /\ CN # i /\ CN \in Node /\ CN \in Listener
    BY ClientOwn, CepFacts
  <1>3. pc'[CN] = pc[CN] /\ counter'[CN] = counter[CN]
    BY <1>2 DEF OnlyItsOwn
  <1>4. ASSUME NEW k \in EN PROVE Far(k)
    <2>1. Inlet(k) \in Endpoint /\ Inlet(k) = <<CN, k>>
      BY FlowMsgs
    <2>2. Inlet(k)[1] # i
      BY <1>2, <2>1
    <2> QED
      BY <1>2, <2>1, <2>2 DEF OnlyItsOwn, Far
  <1> QED
    BY <1>1, <1>3, <1>4 DEF Desk

\* What becomes of the messages on their way when only the client acts.
LEMMA FlightStays ==
  ASSUME TypeOK, NEW i \in EN, Far(i), rxc'[Cep(i)] = rxc[Cep(i)],
         rxc[Cep(i)] # <<>> => buf'[Cep(i)] = buf[Cep(i)]
  PROVE  Flight(i)' = Flight(i)
  BY FlowMsgs, CepFacts, OnWaySame DEF Far, Untouched, Flight

LEMMA FlightRead ==
  ASSUME TypeOK, NEW i \in EN, Far(i), TakesIn(i)
  PROVE  /\ Flight(i) # <<>> /\ Head(Flight(i)) = buf[Cep(i)]
         /\ Flight(i)' = Tail(Flight(i))
  BY FlowMsgs, CepFacts, OnWayRead DEF Far, Untouched, Flight, TakesIn

LEMMA AnswerStays ==
  ASSUME TypeOK, NEW i \in EN, Far(i), sq'[Cep(i)] = sq[Cep(i)]
  PROVE  Answer(i)' = Answer(i)
  BY FlowMsgs, CepFacts, OnWaySame DEF Far, Untouched, Answer

LEMMA AnswerSent ==
  ASSUME TypeOK, NEW i \in EN, Far(i), NEW m \in Msg, sq'[Cep(i)] = Append(sq[Cep(i)], m)
  PROVE  Answer(i)' = Append(Answer(i), m)
  BY FlowMsgs, CepFacts, OnWaySent DEF Far, Untouched, Answer

LEMMA ConnectRemote ==
  ASSUME TypeOK, NEW i \in EN, Far(i), Around(i), Local(i), Remote(i), ConnectAct(i)
  PROVE  Remote(i)'
  <1>1. CASE pc[i] = "dial"
    <2>1. link'[Cep(i)] # "up"
      BY <1>1 DEF Local, Around, Wire
    <2> QED
      BY <2>1, Unlinked
  <1>2. CASE pc'[i] = "gone"
    BY <1>2, Unlinked DEF ConnectAct, Moves
  <1>3. CASE pc'[i] = "failed"
    <2>1. sq'[Cep(i)] = sq[Cep(i)]
      BY <1>3 DEF ConnectAct, Moves, Untouched, Mute
    <2> QED
      BY <1>3, <2>1, AnswerStays, GivesUp
  <1>4. CASE pc[i] = "await_cm" /\ pc'[i] = "await_keys"
    <2>1. peer'[i] = peer[i] /\ snap'[i] = snap[i] /\ Untouched(Cep(i))
      BY <1>4 DEF ConnectAct, Moves
    <2>2. SamePlace(i)
      BY <1>4, <2>1 DEF SamePlace, Calling, Attached, Touring, Reported
    <2>3. Flight(i)' = Flight(i) /\ Answer(i)' = Answer(i)
      BY <2>1, FlightStays, AnswerStays DEF Untouched
    <2> QED
      BY <2>2, <2>3, SameView
  <1>5. CASE pc[i] = "await_keys" /\ pc'[i] = "linked" /\ peer[i] # CN
    <2>1. peer'[i] = peer[i] /\ snap'[i] = snap[i] /\ Untouched(Cep(i))
      BY <1>5 DEF ConnectAct, Moves
    <2>2. SamePlace(i)
      BY <1>5, <2>1 DEF SamePlace, Calling, Attached, Touring, Reported
    <2>3. Flight(i)' = Flight(i) /\ Answer(i)' = Answer(i)
      BY <2>1, FlightStays, AnswerStays DEF Untouched
    <2> QED
      BY <2>2, <2>3, SameView
  <1>6. CASE pc[i] = "await_keys" /\ pc'[i] = "linked" /\ peer[i] = CN
    <2>1. /\ peer'[i] = peer[i] /\ snap'[i] = snap[i] /\ TakesIn(i) /\ Mute(i)
          /\ Head(rxc[Cep(i)]).size = Head(rxc[Cep(i)]).len
      BY <1>6 DEF ConnectAct, Moves
    <2>2. Answer(i)' = Answer(i)
      BY <2>1, AnswerStays DEF Mute
    <2>3. /\ Flight(i) # <<>> /\ Head(Flight(i)) = buf[Cep(i)]
          /\ Flight(i)' = Tail(Flight(i))
      BY <2>1, FlightRead
    <2>4. LenOf(buf[Cep(i)]) = KeysSize
      BY <1>6, <2>1 DEF Local, TakesIn, Calling
    <2>5. Calling(i) /\ Attached(i)' /\ ~Calling(i)' /\ ~Touring(i)' /\ ~Reported(i)'
      BY <1>6, <2>1 DEF Calling, Attached, Touring, Reported
    <2> SUFFICES ASSUME pc'[CN] \in LivePC, link'[Cep(i)] = "up" PROVE Remote(i)'
      BY Unlinked DEF Remote
    <2>6. /\ Expected(i)' = Expected(i)
          /\ pc[CN] \in LivePC
          /\ pc'[CN] \in OpenPC <=> pc[CN] \in OpenPC
          /\ pc'[CN] \in RunPC <=> pc[CN] \in RunPC
          /\ Desk /\ Mail(i) /\ Collects(i)' /\ link[Cep(i)] = "up"
      BY DeskFacts DEF Around, Wire
    <2>7. ASSUME pc'[CN] = "wait_all" PROVE Joining(i)'
      <3>1. Joining(i) /\ pc[CN] = "wait_all"
        BY <2>6, <2>7 DEF Remote, Desk
      <3>2. Flight(i) = <<KeysOf(Inlet(i))>> /\ ~Informed(i) /\ Answer(i) = <<>>
        BY <2>3, <2>5, <3>1 DEF Joining
      <3>3. Flight(i)' = <<>>
        BY <2>3, <3>2, ShortQueues
      <3>4. ~Informed(i)'
        BY <2>6, <2>7, <3>2 DEF Mail
      <3> QED
        BY <2>2, <2>5, <3>2, <3>3, <3>4 DEF Joining
    <2>8. ASSUME pc'[CN] \in LinkPC PROVE Greeted(i)'
      <3>1. Greeted(i)
        BY <2>6, <2>8 DEF Remote, Desk
      <3>2. /\ KeysOf(Inlet(i)) \in Msg /\ To("CONNECT", i) \in Msg
            /\ LenOf(To("CONNECT", i)) # KeysSize
        BY FlowMsgs DEF Commands
      <3>3. Flight(i) = <<KeysOf(Inlet(i)), To("CONNECT", i)>>
        BY <2>3, <2>4, <2>5, <3>1, <3>2, ShortQueues DEF Greeted
      <3>4. Flight(i)' = <<To("CONNECT", i)>>
        BY <2>3, <3>2, <3>3, ShortQueues
      <3>5. To("CONNECT", i)' = To("CONNECT", i)
        BY DEF To, Command, Inlet
      <3>6. Answer(i) = <<>>
        BY <1>6, <3>1 DEF Greeted, Reported
      <3> QED
        BY <2>2, <2>5, <3>4, <3>5, <3>6 DEF Greeted
    <2>9. pc'[CN] \notin RunPC
      BY <1>6, <2>6 DEF Remote, Waiting, Replied, GaveUp, Reported
    <2>10. pc'[CN] = "wait_all" => Heard(i)'
      BY <2>6 DEF Remote, Desk, Mail
    <2> QED
      BY <2>6, <2>7, <2>8, <2>9, <2>10 DEF Remote
  <1> QED
    BY <1>1, <1>2, <1>3, <1>4, <1>5, <1>6 DEF ConnectAct, Moves

LEMMA LinkedRemote ==
  ASSUME TypeOK, NEW i \in EN, Far(i), Around(i), Local(i), Remote(i), LinkedAct(i)
  PROVE  Remote(i)'
  <1>0. \A s \in PN : s # CN
    BY NodeFacts
  <1>1. CASE Moves(i, "linked", {"await_connect"}) /\ peer[i] = CN /\ peer'[i] = CN /\ Bare(i) /\ Mute(i)
    <2>1. SamePlace(i)
      BY <1>1 DEF SamePlace, Moves, Calling, Attached, Touring, Reported
    <2>2. Flight(i)' = Flight(i) /\ Answer(i)' = Answer(i)
      BY <1>1, FlightStays, AnswerStays DEF Bare, Mute
    <2> QED
      BY <2>1, <2>2, SameView
  <1>2. CASE Moves(i, "linked", {"await_cm"}) /\ peer[i] \in PN /\ peer'[i] \in PN /\ Untouched(Cep(i))
    <2>1. SamePlace(i)
      BY <1>0, <1>2 DEF SamePlace, Moves, Calling, Attached, Touring, Reported
    <2>2. Flight(i)' = Flight(i) /\ Answer(i)' = Answer(i)
      BY <1>2, FlightStays, AnswerStays DEF Untouched
    <2> QED
      BY <2>1, <2>2, SameView
  <1>3. CASE pc'[i] = "failed" /\ Mute(i)
    BY <1>3, AnswerStays, GivesUp DEF Mute
  <1>4. CASE Moves(i, "await_connect", {"await_cm"}) /\ peer'[i] \in PN /\ TakesIn(i) /\ Mute(i)
    <2>1. Answer(i)' = Answer(i)
      BY <1>4, AnswerStays DEF Mute
    <2>2. Flight(i) # <<>> /\ Flight(i)' = Tail(Flight(i))
      BY <1>4, FlightRead
    <2>3. /\ Attached(i) /\ ~Calling(i) /\ ~Reported(i) /\ pc[i] # "failed"
          /\ Touring(i)' /\ ~Calling(i)' /\ ~Attached(i)' /\ ~Reported(i)'
      BY <1>0, <1>4 DEF Moves, Calling, Attached, Touring, Reported
    <2> SUFFICES ASSUME pc'[CN] \in LivePC, link'[Cep(i)] = "up" PROVE Remote(i)'
      BY Unlinked DEF Remote
    <2>4. /\ pc[CN] \in LivePC
          /\ pc'[CN] \in RunPC <=> pc[CN] \in RunPC
          /\ Desk /\ Collects(i)' /\ link[Cep(i)] = "up"
      BY DeskFacts DEF Around, Wire
    <2>5. pc'[CN] # "wait_all"
      BY <2>2, <2>3, <2>4 DEF Remote, Desk, Joining
    <2>6. ASSUME pc'[CN] \in LinkPC PROVE Greeted(i)'
      <3>1. Greeted(i)
        BY <2>4, <2>6 DEF Remote, Desk
      <3>2. Flight(i) = <<To("CONNECT", i)>> /\ Answer(i) = <<>>
        BY <2>3, <3>1 DEF Greeted
      <3>3. Flight(i)' = <<>>
        BY <2>2, <3>2, ShortQueues
      <3> QED
        BY <2>1, <2>3, <3>2, <3>3 DEF Greeted
    <2>7. pc'[CN] \notin RunPC
      BY <1>4, <2>4 DEF Remote, Waiting, Replied, GaveUp, Reported, Moves
    <2> QED
      BY <2>4, <2>5, <2>6, <2>7 DEF Remote
  <1>5. CASE /\ Moves(i, "linked", {"confirm_tx"}) /\ peer[i] \in PN /\ Bare(i)
             /\ sq'[Cep(i)] = Append(sq[Cep(i)], Command("CONNECTED", Cep(i)))
    <2> DEFINE m == Command("CONNECTED", Cep(i))
    <2>1. m \in Msg
      BY CepFacts, MsgFacts DEF Commands
    <2>2. Answer(i)' = Append(Answer(i), m)
      <3> HIDE DEF m
      <3> QED
        BY <1>5, <2>1, AnswerSent DEF m
    <2>3. Flight(i)' = Flight(i)
      BY <1>5, FlightStays DEF Bare
    <2>4. /\ Touring(i) /\ ~Calling(i) /\ ~Attached(i) /\ pc[i] # "failed" /\ ~Reported(i)
          /\ Reported(i)' /\ ~Calling(i)' /\ ~Attached(i)' /\ ~Touring(i)'
      BY <1>0, <1>5 DEF Moves, Calling, Attached, Touring, Reported
    <2> SUFFICES ASSUME pc'[CN] \in LivePC, link'[Cep(i)] = "up" PROVE Remote(i)'
      BY Unlinked DEF Remote
    <2>5. /\ pc[CN] \in LivePC /\ Expected(i)' = Expected(i)
          /\ pc'[CN] \in RunPC <=> pc[CN] \in RunPC
          /\ Desk /\ Collects(i)' /\ link[Cep(i)] = "up"
      BY DeskFacts DEF Around, Wire
    <2>6. pc'[CN] # "wait_all"
      BY <2>4, <2>5 DEF Remote, Desk, Joining
    <2>7. ASSUME pc'[CN] \in LinkPC PROVE Greeted(i)'
      <3>1. Greeted(i) /\ Expected(i) = m
        BY <2>5, <2>7 DEF Remote, Desk, Expected
      <3>2. Flight(i) = <<>> /\ Answer(i) = <<>>
        BY <2>4, <3>1 DEF Greeted
      <3>3. Answer(i)' = <<Expected(i)'>>
        BY <2>2, <2>5, <3>1, <3>2, ShortQueues
      <3> QED
        BY <2>3, <2>4, <3>2, <3>3 DEF Greeted
    <2>8. pc'[CN] \notin RunPC
      BY <2>4, <2>5, <1>5 DEF Remote, Waiting, Replied, GaveUp, Moves
    <2> QED
      BY <2>5, <2>6, <2>7, <2>8 DEF Remote
  <1>6. \/ Moves(i, "await_connect", {"await_cm", "failed"}) =>
             Moves(i, "await_connect", {"await_cm"}) \/ pc'[i] = "failed"
    BY DEF Moves
  <1> QED
    BY <1>1, <1>2, <1>3, <1>4, <1>5, <1>6 DEF LinkedAct, Moves

LEMMA BenchRemote ==
  ASSUME TypeOK, NEW i \in EN, Far(i), Around(i), Local(i), Remote(i), BenchAct(i)
  PROVE  Remote(i)'
  <1>1. CASE Moves(i, "confirm_tx", {"await_start"}) /\ Untouched(Cep(i))
    <2>1. SamePlace(i)
      BY <1>1 DEF SamePlace, Moves, Calling, Attached, Touring, Reported
    <2>2. Flight(i)' = Flight(i) /\ Answer(i)' = Answer(i)
      BY <1>1, FlightStays, AnswerStays DEF Untouched
    <2> QED
      BY <2>1, <2>2, SameView
  <1>2. CASE pc'[i] = "failed" /\ Mute(i)
    BY <1>2, AnswerStays, GivesUp DEF Mute
  <1>3. CASE /\ pc[i] \in {"await_start", "bench"} /\ pc'[i] \in {"bench", "finished"} /\ TakesIn(i)
             /\ pc[i] = "await_start" => Moves(i, "await_start", {"bench"}) /\ Mute(i)
             /\ pc[i] = "bench" =>
                  /\ pc'[i] = IF buf[Cep(i)].kind = "STOP" THEN "finished" ELSE "bench"
                  /\ snap'[i] = IF buf[Cep(i)].kind = "CHECKPOINT" THEN snap[i] + 1 ELSE snap[i]
                  /\ sq'[Cep(i)] = Append(sq[Cep(i)], Reply(i))
    <2>1. /\ Flight(i) # <<>> /\ Flight(i)' = Tail(Flight(i))
          /\ Head(Flight(i)) = buf[Cep(i)]
      BY <1>3, FlightRead
    <2> SUFFICES ASSUME pc'[CN] \in LivePC, link'[Cep(i)] = "up" PROVE Remote(i)'
      BY Unlinked DEF Remote
    <2>2. /\ Expected(i)' = Expected(i) /\ InRow(i)' = InRow(i) /\ Order(i)' = Order(i)
          /\ pc[CN] \in LivePC /\ rounds' = rounds
          /\ pc'[CN] \in OpenPC <=> pc[CN] \in OpenPC
          /\ pc'[CN] \in RunPC <=> pc[CN] \in RunPC
          /\ Desk /\ Collects(i)' /\ link[Cep(i)] = "up"
      BY DeskFacts DEF Around, Wire
    <2>3. pc'[CN] # "wait_all"
      BY <1>3, <2>2 DEF Remote, Desk, Joining, Calling, Attached
    <2>4. pc'[CN] \notin LinkPC
      <3>1. ~Calling(i) /\ ~Attached(i) /\ ~Touring(i) /\ pc[i] # "failed"
        BY <1>3 DEF Calling, Attached, Touring
      <3>2. Greeted(i) => Flight(i) = <<>>
        BY <3>1 DEF Greeted
      <3> QED
        BY <2>1, <2>2, <3>2 DEF Remote, Desk
    <2>5. pc[CN] \in RunPC
      BY <2>2, <2>3, <2>4 DEF LivePC
    <2>6. Waiting(i)
      BY <1>3, <2>1, <2>2, <2>5 DEF Remote, Replied, GaveUp
    <2>7. To("START", i) \in Msg /\ Order(i) \in Msg
      BY FlowMsgs DEF Commands
    <2>8. CASE pc[i] = "await_start"
      <3>1. Answer(i)' = Answer(i) /\ pc'[i] = "bench" /\ snap'[i] = snap[i]
        BY <1>3, <2>8, AnswerStays DEF Mute, Moves
      <3>2. Flight(i) = IF pc[CN] \in OpenPC THEN <<To("START", i)>>
                        ELSE <<To("START", i), Order(i)>>
        BY <2>6, <2>8 DEF Waiting
      <3>3. Flight(i)' = IF pc[CN] \in OpenPC THEN <<>> ELSE <<Order(i)>>
        BY <2>1, <2>7, <3>2, ShortQueues
      <3>4. Waiting(i)'
        BY <2>2, <2>6, <3>1, <3>3 DEF Waiting
      <3> QED
        BY <2>2, <2>3, <2>4, <3>4 DEF Remote
    <2>9. CASE pc[i] = "bench"
      <3>1. Flight(i) = <<Order(i)>> /\ pc[CN] \notin OpenPC /\ buf[Cep(i)] = Order(i)
        BY <2>1, <2>6, <2>9, ShortQueues DEF Waiting, Reported
      <3>2. Flight(i)' = <<>>
        BY <2>1, <3>1, ShortQueues
      <3>3. /\ To("CHECKPOINT", i).kind = "CHECKPOINT" /\ To("STOP", i).kind = "STOP"
            /\ snap[i] = rounds /\ Answer(i) = <<>> /\ ~InRow(i) /\ Expected(i) \in Msg
        BY <2>6, FlowMsgs DEF Commands, Waiting
      <3>4. CASE pc[CN] \in RoundPC
        <4>1. buf[Cep(i)].kind = "CHECKPOINT"
          BY <3>1, <3>3, <3>4 DEF Order
        <4>2. /\ pc'[i] = "bench" /\ snap'[i] = rounds + 1
              /\ sq'[Cep(i)] = Append(sq[Cep(i)], Reply(i))
          BY <1>3, <2>9, <3>3, <4>1
        <4>3. Reply(i) = Expected(i)
          BY <3>4, <4>1, <4>2 DEF Reply, Expected, LinkPC, RoundPC
        <4>4. Answer(i)' = <<Expected(i)>>
          BY <3>3, <4>2, <4>3, AnswerSent, ShortQueues
        <4>5. Replied(i)'
          BY <2>2, <3>1, <3>2, <3>3, <3>4, <4>2, <4>4 DEF Replied, Desk
        <4> QED
          BY <2>2, <2>3, <2>4, <4>5 DEF Remote
      <3>5. CASE pc[CN] \in StopPC
        <4>1. buf[Cep(i)].kind = "STOP"
          BY <3>1, <3>3, <3>5 DEF Order, StopPC, RoundPC
        <4>2. /\ pc'[i] = "finished" /\ snap'[i] = rounds
              /\ sq'[Cep(i)] = Append(sq[Cep(i)], Reply(i))
          BY <1>3, <2>9, <3>3, <4>1
        <4>3. Reply(i) = Expected(i)
          BY <3>5, <4>1, <4>2 DEF Reply, Expected, LinkPC, RoundPC, StopPC
        <4>4. Answer(i)' = <<Expected(i)>>
          BY <3>3, <4>2, <4>3, AnswerSent, ShortQueues
        <4>5. pc'[CN] \notin RoundPC
          BY <2>2, <3>5 DEF Desk, RoundPC, StopPC
        <4>6. Replied(i)'
          BY <2>2, <3>1, <3>2, <3>3, <4>2, <4>4, <4>5 DEF Replied
        <4> QED
          BY <2>2, <2>3, <2>4, <4>6 DEF Remote
      <3> QED
        BY <2>5, <3>1, <3>4, <3>5 DEF RunPC
    <2> QED
      BY <1>3, <2>8, <2>9
  <1> QED
    BY <1>1, <1>2, <1>3 DEF BenchAct, Moves

LEMMA ClientRemote ==
  ASSUME TypeOK, OwnEvents, NEW i \in EN, Local(i), Remote(i), ClientStep(i)
  PROVE  /\ Remote(i)'
         /\ pc[CN] = "connect_rx" /\ Done(i) => Done(i)'
  <1>1. /\ ConnectAct(i) \/ LinkedAct(i) \/ BenchAct(i)
        /\ NoNewcomer /\ Wire(i)
    BY ClientActs DEF Local
  <1>2. Far(i) /\ Desk
    BY ClientDesk
  <1>3. Around(i)
    BY <1>1, <1>2, MailAppend, AroundFar
  <1>4. Remote(i)'
    BY <1>1, <1>2, <1>3, ConnectRemote, LinkedRemote, BenchRemote
  <1>5. ASSUME pc[CN] = "connect_rx", Done(i) PROVE Done(i)'
    <2>1. Unused(Inlet(i))'
      BY <1>2, <1>5 DEF Done, Unused, Far, Untouched, Inlet
    <2>2. CASE link'[Cep(i)] # "up"
      BY <1>1, <1>5, <2>1, <2>2 DEF Done, Wire
    <2>3. CASE link'[Cep(i)] = "up"
      <3>1. link[Cep(i)] = "up" /\ Answer(i) = <<>> /\ (pc[i] = "failed" \/ Reported(i))
        BY <1>1, <1>5, <2>3 DEF Done, Wire
      <3>2. Greeted(i)
        BY <1>5, <3>1 DEF Remote, LivePC, LinkPC
      <3>3. pc[i] # "failed"
        BY <1>1, <2>3 DEF ConnectAct, LinkedAct, BenchAct, Moves
      <3>4. Flight(i) = <<>>
        BY <3>1, <3>2, <3>3 DEF Greeted
      <3>5. ~TakesIn(i)
        BY <1>2, <3>4, FlightRead
      <3>6. pc'[i] = "await_start" /\ Untouched(Cep(i))
        BY <1>1, <3>1, <3>3, <3>5 DEF ConnectAct, LinkedAct, BenchAct, Moves, Reported
      <3>7. Answer(i)' = Answer(i)
        BY <1>2, <3>6, AnswerStays DEF Untouched
      <3> QED
        BY <2>1, <2>3, <3>1, <3>6, <3>7 DEF Done, Reported
    <2> QED
      BY <2>2, <2>3
  <1> QED
    BY <1>4, <1>5

-----------------------------------------------------------------------------
(* The step of one process, for all clients and the ledger. *)

\* What a step leaves of a client.
Kept(i) == /\ Local(i)' /\ Remote(i)'
           /\ pc[CN] = "connect_rx" /\ pc'[CN] = "connect_rx" /\ Done(i) => Done(i)'

Seated == (pc'[CN] = pc[CN] /\ counter'[CN] = counter[CN]) \/ pc'[CN] \in {"failed", "gone"}

LEMMA SeatedDesk ==
  ASSUME Seated, UNCHANGED <<rounds, checkpoint, summary>>
  PROVE  Desk
  BY DEF Seated, Desk, LivePC, LinkPC, RunPC, OpenPC, RoundPC, StopPC

LEMMA Bystander ==
  ASSUME TypeOK, NEW i \in EN, Near(i), Far(i), Desk, Steady(i), Mail(i), Local(i), Remote(i)
  PROVE  Kept(i)
  <1>1. Wire(i)
    BY DEF Steady, Wire
  <1>2. Done(i) => Done(i)'
    BY <1>1, KeepsDone
  <1> QED
    BY <1>1, <1>2, KeepsLocal, KeepsRemote DEF Kept

LEMMA DoneMore ==
  ASSUME pc[CN] = "connect_rx", pc'[CN] = "connect_rx", \A i \in EN : Kept(i),
         TypeOK, counter'[CN] = counter[CN],
         counter[CN] <= Cardinality({i \in EN : Done(i)})
  PROVE  counter'[CN] <= Cardinality({i \in EN : Done(i)})'
  <1> DEFINE T == {i \in EN : Done(i)}
             U == {i \in EN : Done(i)'}
  <1>1. T \subseteq U
    BY DEF Kept
  <1>2. IsFiniteSet(U) /\ Cardinality(T) \in Nat /\ Cardinality(U) \in Nat
    <2>1. T \in SUBSET EN /\ U \in SUBSET EN
      OBVIOUS
    <2> HIDE DEF T, U
    <2> QED
      BY <2>1, ClientCount
  <1>3. counter[CN] \in Int
    BY NodeFacts DEF TypeOK
  <1> HIDE DEF T, U
  <1>4. Cardinality(T) <= Cardinality(U)
    BY <1>1, <1>2, FS_Subset
  <1>5. counter'[CN] <= Cardinality(U)
    BY <1>2, <1>3, <1>4 DEF T
  <1> QED
    BY <1>5 DEF U

LEMMA BooksStay ==
  ASSUME TypeOK, Books, Seated, UNCHANGED <<rounds, checkpoint, summary>>,
         \A i \in EN : Kept(i)
  PROVE  Books'
  <1>1. CASE pc'[CN] \in {"failed", "gone"}
    BY <1>1 DEF Books, LivePC, LinkPC, RunPC, OpenPC, RoundPC, StopPC
  <1>2. CASE pc'[CN] = pc[CN] /\ counter'[CN] = counter[CN]
    <2>1. pc'[CN] = "connect_rx" => counter'[CN] <= Cardinality({i \in EN : Done(i)})'
      BY <1>2, DoneMore DEF Books
    <2>2. \A i \in EN : InRow(i)' = InRow(i) /\ Delta(i, rounds)' = Delta(i, rounds)
                        /\ Total(i, rounds)' = Total(i, rounds)
      BY <1>2 DEF InRow, Delta, Total, Cep
    <2>3. {i \in EN : InRow(i)}' = {i \in EN : InRow(i)}
      BY <2>2
    <2> QED
      BY <1>2, <2>1, <2>2, <2>3 DEF Books
  <1> QED
    BY <1>1, <1>2 DEF Seated

LEMMA ClientFlow ==
  ASSUME TypeOK, OwnEvents, FlowInv, NEW i \in EN, ClientStep(i), crashed' = crashed
  PROVE  FlowInv'
  <1>1. /\ UNCHANGED <<rounds, checkpoint, summary>>
        /\ pc'[CN] = pc[CN] /\ counter'[CN] = counter[CN] /\ Desk
        /\ \A k \in EN : k # i => Far(k)
    BY ClientDesk
  <1>2. /\ NoNewcomer
        /\ \A k \in EN : k # i => Steady(k) /\ snap'[k] = snap[k]
    BY ClientActs DEF FlowInv, Local
  <1>3. Kept(i)
    BY ClientLocal, ClientRemote DEF Kept, FlowInv
  <1>4. ASSUME NEW k \in EN, k # i PROVE Kept(k)
    <2>1. OnlyItsOwn(i) /\ k \in Node /\ k \in Host
      BY ClientOwn, CepFacts
    <2>2. \A q \in Listener : Untouched(<<k, q>>)
      BY <1>4, <2>1, ClientLinks DEF OnlyItsOwn
    <2>3. Near(k)
      BY <1>2, <1>4, <2>1, <2>2, NearWhole DEF OnlyItsOwn
    <2>4. Steady(k) /\ Mail(k)
      BY <1>2, <1>4, MailAppend DEF Steady, Wire
    <2> QED
      BY <1>1, <1>4, <2>3, <2>4, Bystander DEF FlowInv
  <1>5. \A k \in EN : Kept(k)
    BY <1>3, <1>4
  <1>6. Books'
    BY <1>1, <1>5, BooksStay DEF FlowInv, Seated
  <1> QED
    BY <1>5, <1>6 DEF Kept, FlowInv

LEMMA ServerSteady ==
  ASSUME TypeOK, OwnEvents, NEW s \in PN, ServerStep(s)
  PROVE  /\ UNCHANGED <<snap, rounds, checkpoint, summary>>
         /\ NoNewcomer /\ \A k \in EN : Steady(k)
  <1>0. s \in Node /\ s # CN /\ CN \in Node /\ s \in Host /\ Cep(s) \in Link /\ Cep(s) = <<s, CN>>
        /\ \A k \in EN : k # s
    BY NodeFacts, HostFacts
  <1>1. UNCHANGED <<snap, rounds, checkpoint, summary>>
    BY DEF ServerStep, HostStep, HostDial, ConnectEvent, ConnectKeys, Exit, ServerListen,
           WaitAllConn, ServerReady, ServeCommand, ServeEvent
  <1>2. CASE HostDial(s)
    <2>1. Request(Cep(s))
      BY <1>0, <1>2 DEF HostDial, Dial
    <2>2. NoNewcomer /\ \A k \in Link : k # Cep(s) => link'[k] = link[k]
      BY <1>0, <2>1, RequestNews
    <2>3. ASSUME NEW k \in EN PROVE Cep(k) \in Link /\ Cep(k) # Cep(s)
      <3>1. Cep(k) \in Link /\ Cep(k) = <<k, CN>> /\ k # s
        BY <1>0, CepFacts
      <3>2. <<k, CN>> # <<s, CN>>
        BY <3>1
      <3> QED
        BY <1>0, <3>1, <3>2
    <2> QED
      BY <1>1, <2>2, <2>3 DEF Steady
  <1>3. CASE ConnectEvent(s) \/ ConnectKeys(s) \/ ServerListen(s) \/ ServerReady(s) \/ ServeCommand(s)
    <2>1. link' = link /\ eq'[CN] = eq[CN]
      BY <1>0, <1>3 DEF ConnectEvent, ConnectKeys, ServerListen, ServerReady, ServeCommand,
                        TypeOK, FabricTypeOK
    <2> QED
      BY <1>1, <2>1 DEF Steady, NoNewcomer
  <1>4. CASE Exit(s)
    <2>1. NoNewcomer /\ \A k \in Link : link'[k] = link[k] \/ link'[k] = "down"
      BY <1>0, <1>4, ExitNews
    <2> QED
      BY <1>1, <2>1, CepFacts DEF Steady
  <1>5. CASE WaitAllConn(s) \/ ServeEvent(s)
    <2>1. HandleEvent(s, Head(eq[s])) /\ eq[s] # <<>>
      BY <1>5 DEF WaitAllConn, ServeEvent
    <2>2. eq'[CN] = eq[CN]
      BY <1>0, <2>1 DEF HandleEvent, TypeOK, FabricTypeOK
    <2>3. /\ Head(eq[s]).ep[1] = s
          /\ Head(eq[s]).kind = "CONNREQ" => Head(eq[s]).ep \in Passive
      <3>1. eq[s] \in Seq(Events)
        BY <1>0 DEF TypeOK, FabricTypeOK
      <3>2. 1 \in DOMAIN eq[s] /\ Head(eq[s]) = eq[s][1]
        BY <2>1, <3>1
      <3> QED
        BY <1>0, <3>2 DEF OwnEvents
    <2>4. ASSUME NEW k \in EN PROVE link'[Cep(k)] = link[Cep(k)]
      <3>1. Cep(k) \in Link /\ Cep(k) = <<k, CN>> /\ CN \in Listener
        BY CepFacts
      <3>2. CASE Head(eq[s]).kind # "CONNREQ"
        BY <2>1, <3>2 DEF HandleEvent
      <3>3. CASE Head(eq[s]).kind = "CONNREQ"
        <4>1. LinkOf(Head(eq[s]).ep)[2] = s
          BY <2>3, <3>3, LinkOfFacts
        <4>2. LinkOf(Head(eq[s]).ep) # Cep(k)
          BY <1>0, <3>1, <4>1
        <4> QED
          BY <2>1, <3>1, <4>2 DEF HandleEvent, TypeOK, FabricTypeOK
      <3> QED
        BY <3>2, <3>3
    <2> QED
      BY <1>1, <2>2, <2>4 DEF Steady, NoNewcomer
  <1> QED
    BY <1>2, <1>3, <1>4, <1>5 DEF ServerStep, HostStep

LEMMA ServerFlow ==
  ASSUME TypeOK, OwnEvents, FlowInv, NEW s \in PN, ServerStep(s), crashed' = crashed
  PROVE  FlowInv'
  <1>1. /\ UNCHANGED <<snap, rounds, checkpoint, summary>>
        /\ NoNewcomer /\ \A k \in EN : Steady(k)
    BY ServerSteady
  <1>2. OnlyItsOwn(s) /\ s # CN /\ CN \in Node /\ CN \in Listener /\ \A k \in EN : k # s
    BY ServerOwn, NodeFacts
  <1>3. pc'[CN] = pc[CN] /\ counter'[CN] = counter[CN]
    BY <1>2 DEF OnlyItsOwn
  <1>4. Desk /\ Seated
    BY <1>1, <1>3, SeatedDesk DEF Seated
  <1>5. ASSUME NEW k \in EN PROVE Kept(k)
    <2>1. k \in Node /\ k \in Host /\ Inlet(k) \in Endpoint /\ Inlet(k)[1] # s
      BY <1>2, CepFacts, FlowMsgs
    <2>2. Far(k) /\ \A q \in Listener : Untouched(<<k, q>>)
      BY <1>2, <2>1, ClientLinks DEF OnlyItsOwn, Far
    <2>3. Near(k)
      BY <1>1, <1>2, <2>1, <2>2, NearWhole DEF OnlyItsOwn
    <2>4. Steady(k) /\ Mail(k)
      BY <1>1, MailAppend DEF Steady, Wire
    <2> QED
      BY <1>4, <2>2, <2>3, <2>4, Bystander DEF FlowInv
  <1>6. Books'
    BY <1>1, <1>4, <1>5, BooksStay DEF FlowInv
  <1> QED
    BY <1>5, <1>6 DEF Kept, FlowInv

-----------------------------------------------------------------------------
(* A message is delivered. *)

LEMMA OpenDelivered ==
  ASSUME TypeOK, NEW i \in EN, NEW e \in Endpoint, Transmit(e), UNCHANGED nodeVars,
         AtMostOneOpen(i)
  PROVE  AtMostOneOpen(i)'
  <1>1. \A q \in Listener : Slots(<<i, q>>)' = Slots(<<i, q>>)
    BY ClientLinks, SlotsDelivered
  <1> QED
    BY <1>1 DEF AtMostOneOpen, OpenTo, nodeVars

LEMMA OneSlot ==
  ASSUME NEW r \in Seq(RecvSizes), NEW c \in Seq(Completions), r # <<>>, Len(r) + Len(c) <= 1
  PROVE  c = <<>> /\ Tail(r) = <<>>
  <1>1. Len(r) \in Nat \ {0} /\ Len(c) \in Nat
    <2>1. Len(r) \in Nat \ {0}
      BY TailFacts
    <2>2. Len(c) \in Nat
      OBVIOUS
    <2> QED
      BY <2>1, <2>2
  <1>2. Len(r) = 1 /\ Len(c) = 0
    <2> DEFINE m == Len(r)
               n == Len(c)
    <2>1. m \in Nat \ {0} /\ n \in Nat /\ m + n <= 1
      BY <1>1
    <2> HIDE DEF m, n
    <2>2. m = 1 /\ n = 0
      BY <2>1
    <2> QED
      BY <2>2 DEF m, n
  <1>3. Len(Tail(r)) = 0 /\ Tail(r) \in Seq(RecvSizes)
    BY <1>2, TailFacts
  <1>4. \A T : \A s \in Seq(T) : s # <<>> => Len(s) \in Nat \ {0}
    BY EmptySeq
  <1>5. c = <<>>
    BY <1>2, <1>4, Zenon
  <1>6. Tail(r) = <<>>
    BY <1>3, <1>4, Zenon
  <1> QED
    BY <1>5, <1>6

LEMMA NothingPosted ==
  ASSUME NEW a \in Seq(Msg), NEW b \in Seq(RecvSizes), a \o b = <<>>
  PROVE  a = <<>>
  <1> DEFINE T == Msg \cup RecvSizes
  <1>1. a \in Seq(T) /\ b \in Seq(T)
    BY SeqMonotonic, Zenon
  <1> QED
    BY <1>1, ConcatSimplifications, Zenon

\* Of an answer, the controller makes what it expects.
LEMMA AnswerComes ==
  ASSUME TypeOK, NEW i \in EN, Local(i), Remote(i), Transmit(Cep(i)), UNCHANGED nodeVars,
         crashed' = crashed
  PROVE  Kept(i)
  <1>0. /\ Cep(i) \in Endpoint /\ Inlet(i) \in Endpoint /\ Rev(Cep(i)) = Inlet(i)
        /\ Rev(Inlet(i)) = Cep(i) /\ Inlet(i) # Cep(i) /\ LinkOf(Cep(i)) = Cep(i)
        /\ Cep(i) \in Link
    BY CepFacts, FlowMsgs, LinkOfFacts
  <1>1. /\ link' = link /\ eq' = eq /\ link[Cep(i)] = "up"
        /\ sq'[Inlet(i)] = sq[Inlet(i)] /\ rq'[Cep(i)] = rq[Cep(i)]
        /\ rxc'[Cep(i)] = rxc[Cep(i)] /\ buf'[Cep(i)] = buf[Cep(i)]
        /\ sq[Cep(i)] # <<>> /\ rq[Inlet(i)] # <<>>
    BY <1>0, TransmitOwn DEF Transmit
  <1>2. Desk /\ Mail(i) /\ Wire(i)
    BY <1>1, SeatedDesk DEF nodeVars, Seated, Mail, Wire, Heard, Informed, Told
  <1>3. Local(i)'
    <2>1. AtMostOneOpen(i)'
      BY <1>0, OpenDelivered DEF Local
    <2>2. i \notin crashed'
      BY <1>1 DEF Local
    <2>3. Calling(i)' = Calling(i) /\ Reported(i)' = Reported(i)
      BY DEF nodeVars, Calling, Reported
    <2> QED
      BY <1>1, <2>1, <2>2, <2>3 DEF Local, nodeVars
  <1>4. ~Done(i)
    BY <1>1 DEF Done, Unused
  <1>5. CASE pc[CN] \notin LivePC
    BY <1>3, <1>4, <1>5 DEF Kept, Remote, nodeVars
  <1>6. CASE pc[CN] \in LivePC
    <2>1. Collects(i) /\ Answer(i) # <<>>
      BY <1>1, <1>6, FlowMsgs DEF Remote
    <2>2. Answer(i) = <<Expected(i)>>
      <3>1. pc[CN] = "wait_all" \/ pc[CN] \in LinkPC \/ pc[CN] \in RunPC
        BY <1>6 DEF LivePC
      <3>2. CASE pc[CN] = "wait_all"
        BY <1>1, <1>6, <2>1, <3>2 DEF Remote, Joining
      <3>3. CASE pc[CN] \in LinkPC
        BY <1>1, <1>6, <2>1, <3>3 DEF Remote, Greeted
      <3>4. CASE pc[CN] \in RunPC
        BY <1>1, <1>6, <2>1, <3>4 DEF Remote, Waiting, Replied, GaveUp
      <3> QED
        BY <3>1, <3>2, <3>3, <3>4
    <2>3. rxc[Inlet(i)] = <<>>
      <3>1. rq[Inlet(i)] \in Seq(RecvSizes) /\ rxc[Inlet(i)] \in Seq(Completions)
        BY <1>0 DEF TypeOK, FabricTypeOK
      <3>2. Len(rq[Inlet(i)]) + Len(rxc[Inlet(i)]) <= 1
        BY <2>1 DEF Collects, Slots
      <3> QED
        BY <1>1, <3>1, <3>2, OneSlot
    <2>4. /\ Answer(i)' = Answer(i)
          /\ Head(rxc'[Inlet(i)]).len = LenOf(buf'[Inlet(i)])
          /\ buf'[Inlet(i)] = Head(Answer(i))
      BY <1>0, <2>3, OnWayMoved DEF Answer
    <2>5. /\ Expected(i)' = Expected(i) /\ InRow(i)' = InRow(i)
          /\ pc'[CN] = pc[CN]
      BY DEF nodeVars, Expected, InRow, Command, Delta, Total, Cep
    <2>6. Slots(Inlet(i))' = Slots(Inlet(i))
      BY <1>0, SlotsDelivered
    <2>7. Collects(i)'
      <3>1. ~Unused(Inlet(i))
        BY <1>1 DEF Unused
      <3>2. buf'[Inlet(i)] = Expected(i)
        BY <2>2, <2>4, ShortQueues
      <3> QED
        BY <2>1, <2>4, <2>5, <2>6, <3>1, <3>2 DEF Collects, Inlet
    <2>8. Around(i)
      BY <1>1, <1>2, <2>7 DEF Around
    <2>9. Flight(i)' = Flight(i)
      BY <1>0, <1>1, OnWaySame DEF Flight
    <2>10. SamePlace(i)
      BY DEF nodeVars, SamePlace, Calling, Attached, Touring, Reported
    <2>11. Remote(i)'
      BY <2>4, <2>8, <2>9, <2>10, SameView
    <2> QED
      BY <1>3, <1>4, <2>11 DEF Kept
  <1> QED
    BY <1>5, <1>6

\* A message of the controller comes in.
LEMMA OrderComes ==
  ASSUME TypeOK, NEW i \in EN, Local(i), Remote(i), Transmit(Inlet(i)), UNCHANGED nodeVars,
         crashed' = crashed
  PROVE  Kept(i)
  <1>0. /\ Cep(i) \in Endpoint /\ Inlet(i) \in Endpoint /\ Rev(Cep(i)) = Inlet(i)
        /\ Rev(Inlet(i)) = Cep(i) /\ Inlet(i) # Cep(i) /\ LinkOf(Inlet(i)) = Cep(i)
        /\ Cep(i) \in Link /\ Cep(i) = <<i, CN>> /\ CN \in Listener
    BY CepFacts, FlowMsgs
  <1>1. /\ link' = link /\ eq' = eq /\ link[Cep(i)] = "up"
        /\ sq'[Cep(i)] = sq[Cep(i)] /\ rq'[Inlet(i)] = rq[Inlet(i)]
        /\ rxc'[Inlet(i)] = rxc[Inlet(i)] /\ buf'[Inlet(i)] = buf[Inlet(i)]
        /\ rq[Cep(i)] # <<>>
    BY <1>0, TransmitOwn DEF Transmit
  <1>2. Desk /\ Mail(i) /\ Wire(i)
    BY <1>1, SeatedDesk DEF nodeVars, Seated, Mail, Wire, Heard, Informed, Told
  <1>3. pc[i] \notin {"failed", "gone"} =>
          /\ rxc[Cep(i)] = <<>> /\ rq'[Cep(i)] = <<>>
          /\ Flight(i)' = Flight(i)
          /\ Head(rxc'[Cep(i)]).len = LenOf(buf'[Cep(i)])
          /\ Head(rxc'[Cep(i)]).size = Head(rq[Cep(i)])
    <2> SUFFICES ASSUME pc[i] \notin {"failed", "gone"}
                 PROVE  /\ rxc[Cep(i)] = <<>> /\ rq'[Cep(i)] = <<>>
                        /\ Flight(i)' = Flight(i)
                        /\ Head(rxc'[Cep(i)]).len = LenOf(buf'[Cep(i)])
                        /\ Head(rxc'[Cep(i)]).size = Head(rq[Cep(i)])
      OBVIOUS
    <2>1. rq[Cep(i)] \in Seq(RecvSizes) /\ rxc[Cep(i)] \in Seq(Completions)
      BY <1>0 DEF TypeOK, FabricTypeOK
    <2>2. Slots(Cep(i)) <= 1
      BY <1>0 DEF Local, AtMostOneOpen
    <2>3. Len(rq[Cep(i)]) + Len(rxc[Cep(i)]) <= 1
      BY <2>2 DEF Slots
    <2>4. rxc[Cep(i)] = <<>> /\ Tail(rq[Cep(i)]) = <<>>
      BY <1>1, <2>1, <2>3, OneSlot
    <2>5. Transmit(Rev(Cep(i)))
      BY <1>0
    <2> QED
      BY <1>0, <2>4, <2>5, OnWayMoved DEF Flight
  <1>4. Local(i)'
    <2>1. AtMostOneOpen(i)'
      BY <1>0, OpenDelivered DEF Local
    <2>2. i \notin crashed'
      BY <1>0, <1>1 DEF Local, Unused
    <2>3. Calling(i)' = Calling(i) /\ Reported(i)' = Reported(i)
      BY DEF nodeVars, Calling, Reported
    <2>4. Calling(i) => pc[i] \notin {"failed", "gone"}
      BY DEF Calling
    <2> QED
      BY <1>1, <1>3, <2>1, <2>2, <2>3, <2>4 DEF Local, nodeVars
  <1>5. Shut(i)
    BY <1>1 DEF Shut
  <1>6. Around(i)
    BY <1>2, <1>5, AroundShut
  <1>7. SamePlace(i)
    BY DEF nodeVars, SamePlace, Calling, Attached, Touring, Reported
  <1>8. Answer(i)' = Answer(i)
    BY <1>0, <1>1, OnWaySame DEF Answer
  <1>9. Remote(i)'
    <2>1. CASE pc[i] = "failed"
      BY <1>6, <1>8, <2>1, GivesUp DEF nodeVars
    <2>2. CASE pc[i] = "gone"
      <3>1. pc[CN] \notin LivePC
        BY <1>1, <2>2 DEF Remote, LivePC, Joining, Greeted, Waiting, Replied, GaveUp,
                          Calling, Attached, Touring, Reported
      <3> QED
        BY <3>1 DEF Remote, nodeVars
    <2>3. CASE pc[i] \notin {"failed", "gone"}
      BY <1>3, <1>6, <1>7, <1>8, <2>3, SameView
    <2> QED
      BY <2>1, <2>2, <2>3
  <1>10. Done(i) => Done(i)'
    BY <1>1, <1>8 DEF Done, nodeVars, Unused, Inlet, Reported
  <1> QED
    BY <1>4, <1>9, <1>10 DEF Kept

LEMMA DeliverFlow ==
  ASSUME TypeOK, FlowInv, NEW e \in Endpoint, Transmit(e), UNCHANGED nodeVars,
         crashed' = crashed
  PROVE  FlowInv'
  <1>1. ASSUME NEW i \in EN, e # Cep(i), e # Inlet(i) PROVE Kept(i)
    <2>0. /\ Cep(i) \in Endpoint /\ Inlet(i) \in Endpoint /\ Cep(i) = <<i, CN>>
          /\ Inlet(i) = <<CN, i>>
      BY CepFacts, FlowMsgs
    <2>1. e = <<e[1], e[2]>> /\ Rev(e) = <<e[2], e[1]>> /\ rq[Rev(e)] # <<>>
      BY TransmitOwn
    <2>2. Rev(e) # Cep(i) /\ Rev(e) # Inlet(i)
      BY <1>1, <2>0, <2>1
    <2>3. Untouched(Cep(i)) /\ Untouched(Inlet(i))
      BY <1>1, <2>0, <2>2, TransmitOwn DEF Untouched
    <2>4. AtMostOneOpen(i) => AtMostOneOpen(i)'
      BY OpenDelivered
    <2>5. ASSUME NEW q \in Listener, Unused(<<i, q>>) PROVE Unused(<<i, q>>)'
      <3>1. Rev(e) # <<i, q>> /\ <<i, q>> \in Endpoint
        BY <2>1, <2>5, ClientLinks DEF Unused
      <3> QED
        BY <2>5, <3>1, TransmitOwn DEF Unused
    <2>6. Near(i) /\ Far(i)
      BY <2>3, <2>4, <2>5 DEF Near, Far, nodeVars
    <2>7. link' = link /\ eq' = eq
      BY DEF Transmit
    <2>8. Desk /\ Steady(i) /\ Mail(i)
      BY <2>7, SeatedDesk DEF nodeVars, Seated, Mail, Steady, Heard, Informed, Told
    <2> QED
      BY <2>6, <2>8, Bystander DEF FlowInv
  <1>2. \A i \in EN : Kept(i)
    BY <1>1, AnswerComes, OrderComes DEF FlowInv
  <1>3. Books'
    BY <1>2, BooksStay DEF FlowInv, Seated, nodeVars
  <1> QED
    BY <1>2, <1>3 DEF FlowInv, Kept

-----------------------------------------------------------------------------
(* A connection comes about. *)

LEMMA Joined ==
  ASSUME TypeOK, NEW i \in EN, Local(i), Remote(i), Alive(i),
         pc[CN] = "wait_all" => Requested(i),
         Joins(Cep(i)), sq[Inlet(i)] = <<>>, crashed' = crashed
  PROVE  Kept(i)
  <1>0. /\ Cep(i) \in Link /\ Cep(i) = <<i, CN>> /\ Rev(Cep(i)) = <<CN, i>> /\ Inlet(i) = <<CN, i>>
        /\ CN \in Node /\ Cep(i)[2] = CN /\ <<CN, i>> \in Endpoint /\ Cep(i) \in Endpoint
    BY CepFacts, FlowMsgs
  <1> DEFINE v == [kind |-> "CONNECTED", ep |-> <<CN, i>>]
  <1>1. /\ link[Cep(i)] = "accepted" /\ link'[Cep(i)] = "up"
        /\ eq'[CN] = Append(eq[CN], v)
        /\ UNCHANGED <<sq, rq, rxc, buf, nodeVars>>
    BY <1>0, JoinMoves DEF Joins, Establish
  <1>2. /\ Calling(i) \/ pc[i] = "failed"
        /\ sq[Cep(i)] = <<>> /\ rxc[Cep(i)] = <<>>
    BY <1>1 DEF Local, Alive
  <1>3. Untouched(Cep(i)) /\ Far(i) /\ Desk /\ pc'[CN] = pc[CN]
    BY <1>1, SeatedDesk DEF Untouched, Far, Seated, nodeVars
  <1>4. Local(i)'
    <2>1. Calling(i)' = Calling(i) /\ Reported(i)' = Reported(i)
      BY <1>1 DEF nodeVars, Calling, Reported
    <2>2. AtMostOneOpen(i)'
      BY <1>1 DEF Local, AtMostOneOpen, OpenTo, Slots, nodeVars
    <2>3. i \in crashed' => \A q \in Listener : Unused(<<i, q>>)'
      BY <1>1 DEF Local, Unused
    <2>4. pc'[i] # "dial"
      BY <1>1, <1>2 DEF Calling, nodeVars
    <2> QED
      BY <1>1, <2>1, <2>2, <2>3, <2>4 DEF Local, nodeVars
  <1>5. ~Done(i)
    BY <1>1 DEF Done
  <1>6. Remote(i)'
    <2> SUFFICES ASSUME pc'[CN] \in LivePC PROVE Remote(i)'
      BY DEF Remote
    <2>1. pc[CN] \in LivePC /\ pc[CN] \notin RunPC /\ rxc[Inlet(i)] = <<>> /\ Collects(i)
      BY <1>1, <1>3 DEF Remote
    <2>2. Collects(i)'
      BY <1>3, <2>1, KeepsCollects DEF Far, Untouched, Shut
    <2>3. Flight(i) = <<>> /\ Answer(i) = <<>>
      BY <1>2, <2>1, FlowMsgs
    <2>4. Flight(i)' = <<>> /\ Answer(i)' = <<>>
      BY <1>3, <2>3, FlightStays, AnswerStays DEF Untouched
    <2>5. Calling(i)' = Calling(i) /\ ~Attached(i)' /\ ~Touring(i)' /\ ~Reported(i)' /\ pc'[i] = pc[i]
      BY <1>1, <1>2 DEF nodeVars, Calling, Attached, Touring, Reported
    <2>6. pc'[CN] = "wait_all" => Joining(i)'
      BY <1>2, <2>4, <2>5 DEF Joining
    <2>7. pc'[CN] \in LinkPC => Greeted(i)'
      BY <1>2, <2>4, <2>5 DEF Greeted
    <2>8. ASSUME pc'[CN] = "wait_all" PROVE Heard(i)'
      <3>1. eq[CN] \in Seq(Events) /\ v \in Events
        BY <1>0 DEF TypeOK, FabricTypeOK, Events
      <3> HIDE DEF v
      <3>2. /\ Len(eq[CN]) \in Nat
            /\ DOMAIN eq[CN] = 1 .. Len(eq[CN])
            /\ \A k \in DOMAIN eq'[CN] :
                 \/ k \in DOMAIN eq[CN] /\ eq'[CN][k] = eq[CN][k]
                 \/ k = Len(eq[CN]) + 1 /\ eq'[CN][k] = v
        BY <1>1, <3>1, AppendFacts
      <3>3. /\ \A k \in DOMAIN eq[CN] : ~Told(k, i, "CONNECTED") /\ ~Told(k, i, "CONNREQ")
        BY <1>1, <1>3, <2>1, <2>8 DEF Remote, Heard, Informed, Requested
      <3>4. \A k \in DOMAIN eq'[CN] : /\ Told(k, i, "CONNECTED")' => k = Len(eq[CN]) + 1
                                      /\ ~Told(k, i, "CONNREQ")'
        <4>1. v.kind = "CONNECTED"
          BY DEF v
        <4> QED
          BY <3>2, <3>3, <4>1 DEF Told
      <3> QED
        BY <1>1, <3>4, Zenon DEF Heard
    <2> QED
      BY <1>1, <1>3, <2>1, <2>2, <2>6, <2>7, <2>8 DEF Remote
  <1> QED
    BY <1>4, <1>5, <1>6 DEF Kept

LEMMA ConnectFlow ==
  ASSUME TypeOK, GatherInv, FlowInv, NEW l \in Link, Connect(l)
  PROVE  FlowInv'
  <1>1. /\ Alive(l[1]) /\ sq[Rev(l)] \o rq[Rev(l)] = <<>>
        /\ Joins(l) /\ crashed' = crashed
        /\ UNCHANGED <<sq, rq, rxc, buf, nodeVars>>
    BY DEF Connect, Usual, Joins, Establish
  <1>2. ASSUME NEW i \in EN, l = Cep(i) PROVE Kept(i)
    <2>1. l[1] = i /\ Rev(l) = Inlet(i) /\ Inlet(i) \in Endpoint /\ i \in Host
      BY <1>2, CepFacts, FlowMsgs
    <2>2. sq[Inlet(i)] = <<>>
      <3>1. sq[Inlet(i)] \in Seq(Msg) /\ rq[Inlet(i)] \in Seq(RecvSizes)
        BY <2>1 DEF TypeOK, FabricTypeOK
      <3> QED
        BY <1>1, <2>1, <3>1, NothingPosted
    <2>3. pc[CN] = "wait_all" => Requested(i)
      BY <2>1 DEF GatherInv
    <2> QED
      BY <1>1, <1>2, <2>1, <2>2, <2>3, Joined DEF FlowInv
  <1>3. ASSUME NEW i \in EN, l # Cep(i) PROVE Kept(i)
    <2>0. /\ Cep(i) \in Link /\ Cep(i) = <<i, CN>> /\ CN \in Node
          /\ l = <<l[1], l[2]>> /\ Rev(l) = <<l[2], l[1]>> /\ l \in Endpoint /\ Rev(l) \in Endpoint
      BY CepFacts, LinkShape, EndpointFacts
    <2>1. /\ link'[Cep(i)] = link[Cep(i)]
          /\ \/ eq'[CN] = eq[CN]
             \/ l[2] = CN /\ eq'[CN] = Append(eq[CN], [kind |-> "CONNECTED", ep |-> Rev(l)])
      <3>1. l[1] # CN /\ l[1] \in Node /\ l[2] \in Node
        BY LinkShape, NodeFacts
      <3>2. eq \in [Node -> Seq(Events)]
        BY DEF TypeOK, FabricTypeOK
      <3>3. l[2] # CN => eq'[CN] = eq[CN]
        BY <1>1, <2>0, <3>1, <3>2 DEF Joins, Establish
      <3>4. eq'[l[2]] = Append(eq[l[2]], [kind |-> "CONNECTED", ep |-> Rev(l)])
        BY <1>1, JoinMoves
      <3>5. link'[Cep(i)] = link[Cep(i)]
        BY <1>1, <1>3, <2>0 DEF Joins, Establish, TypeOK, FabricTypeOK
      <3> QED
        BY <3>3, <3>4, <3>5
    <2>2. Aside(i)
      <3>1. l[2] = CN => Rev(l) # <<CN, i>>
        BY <1>3, <2>0
      <3>2. [kind |-> "CONNECTED", ep |-> Rev(l)] \in Events
        BY <2>0 DEF Events
      <3> QED
        BY <2>1, <3>1, <3>2 DEF Aside, NotOfIt
    <2>3. Steady(i) /\ Wire(i) /\ Mail(i)
      BY <2>1, <2>2, MailAside DEF Steady, Wire
    <2>4. Near(i) /\ Far(i)
      BY <1>1, NearWhole DEF Far, Untouched, nodeVars
    <2>5. Desk
      BY <1>1, SeatedDesk DEF Seated, nodeVars
    <2> QED
      BY <2>3, <2>4, <2>5, Bystander DEF FlowInv
  <1>4. \A i \in EN : Kept(i)
    BY <1>2, <1>3
  <1>5. Books'
    BY <1>1, <1>4, BooksStay DEF FlowInv, Seated, nodeVars
  <1> QED
    BY <1>4, <1>5 DEF FlowInv, Kept

-----------------------------------------------------------------------------
(* The faults. *)

LEMMA MailShift ==
  ASSUME NEW i \in EN, Wire(i), NEW f,
         \A n \in DOMAIN eq'[CN] : \A kind \in {"CONNREQ", "CONNECTED"} :
           Told(n, i, kind)' => f[n] \in DOMAIN eq[CN] /\ Told(f[n], i, kind),
         \A m, n \in DOMAIN eq'[CN] : f[m] = f[n] => m = n,
         \A m, n \in DOMAIN eq'[CN] : f[m] < f[n] => m < n
  PROVE  Mail(i)
  <1>1. Informed(i)' => Informed(i)
    BY DEF Informed
  <1>2. ASSUME Heard(i) PROVE Heard(i)'
    <2>1. link'[Cep(i)] = "accepted" => ~Informed(i)'
      BY <1>1, <1>2 DEF Heard, Wire
    <2>2. link'[Cep(i)] = "up" => link[Cep(i)] = "up"
      BY DEF Wire
    <2>3. ASSUME NEW m \in DOMAIN eq'[CN], NEW n \in DOMAIN eq'[CN]
          PROVE  /\ link'[Cep(i)] = "up" /\ Told(m, i, "CONNECTED")' /\ Told(n, i, "CONNECTED")' => m = n
                 /\ Told(m, i, "CONNECTED")' /\ Told(n, i, "CONNREQ")' => m < n
      <3>1. Told(m, i, "CONNECTED")' => f[m] \in DOMAIN eq[CN] /\ Told(f[m], i, "CONNECTED")
        OBVIOUS
      <3>2. /\ Told(n, i, "CONNECTED")' => f[n] \in DOMAIN eq[CN] /\ Told(f[n], i, "CONNECTED")
            /\ Told(n, i, "CONNREQ")' => f[n] \in DOMAIN eq[CN] /\ Told(f[n], i, "CONNREQ")
        OBVIOUS
      <3> QED
        BY <1>2, <2>2, <3>1, <3>2, Zenon DEF Heard
    <2> QED
      BY <2>1, <2>3 DEF Heard
  <1> QED
    BY <1>1, <1>2 DEF Mail

LEMMA MailTurnDown ==
  ASSUME CrashTypeOK, NEW i \in EN, NEW l \in Link, TurnDown(l), Wire(i)
  PROVE  Mail(i)
  <1>0. eq[CN] \in Seq(Events) /\ CN \in Node /\ DOMAIN eq[CN] = 1 .. Len(eq[CN])
        /\ Len(eq[CN]) \in Nat
    BY NodeFacts DEF CrashTypeOK, TypeOK, FabricTypeOK
  <1>1. TurnedDown(l, CN) /\ Err(l).kind = "REFUSED"
    <2>1. TurnedDown(l, CN)
      BY <1>0, TurnDownEffect
    <2> QED
      BY <2>1 DEF Err
  <1>2. CASE eq'[CN] = eq[CN]
    BY <1>2, MailAside DEF Aside, CrashTypeOK
  <1>3. CASE \E v \in Events : v.kind = "REFUSED" /\ v.ep[1] = CN /\ eq'[CN] = Append(eq[CN], v)
    BY <1>3, MailAside DEF Aside, NotOfIt, CrashTypeOK
  <1>4. CASE \E k \in DOMAIN eq[CN] : eq[CN][k] = Req(l) /\ eq'[CN] = RemoveAt(eq[CN], k)
    <2>1. PICK k \in DOMAIN eq[CN] : eq'[CN] = RemoveAt(eq[CN], k)
      BY <1>4
    <2>2. PICK f : /\ \A n \in DOMAIN eq'[CN] : f[n] \in DOMAIN eq[CN] /\ eq'[CN][n] = eq[CN][f[n]]
                   /\ \A m, n \in DOMAIN eq'[CN] : f[m] = f[n] => m = n
                   /\ \A m, n \in DOMAIN eq'[CN] : f[m] < f[n] => m < n
      <3>1. \E f : /\ \A n \in DOMAIN RemoveAt(eq[CN], k) :
                        f[n] \in DOMAIN eq[CN] /\ f[n] # k /\ RemoveAt(eq[CN], k)[n] = eq[CN][f[n]]
                   /\ \A m, n \in DOMAIN RemoveAt(eq[CN], k) : f[m] = f[n] => m = n
                   /\ \A m, n \in DOMAIN RemoveAt(eq[CN], k) : f[m] < f[n] => m < n
        BY <1>0, RemoveShift, Zenon
      <3> QED
        BY <2>1, <3>1, Zenon
    <2>3. \A n \in DOMAIN eq'[CN] : \A kind \in {"CONNREQ", "CONNECTED"} :
            Told(n, i, kind)' => f[n] \in DOMAIN eq[CN] /\ Told(f[n], i, kind)
      BY <2>2 DEF Told
    <2> QED
      BY <2>2, <2>3, MailShift, Zenon
  <1>5. CASE eq'[CN] = [k \in DOMAIN eq[CN] |-> IF eq[CN][k] = Req(l) THEN Err(l) ELSE eq[CN][k]]
    <2> DEFINE f == [k \in DOMAIN eq[CN] |-> k]
    <2>1. ASSUME NEW n \in DOMAIN eq'[CN], NEW kind \in {"CONNREQ", "CONNECTED"}, Told(n, i, kind)'
          PROVE  f[n] \in DOMAIN eq[CN] /\ Told(f[n], i, kind)
      <3>1. n \in DOMAIN eq[CN] /\ f[n] = n
            /\ eq'[CN][n] = IF eq[CN][n] = Req(l) THEN Err(l) ELSE eq[CN][n]
        BY <1>5
      <3> QED
        BY <1>1, <2>1, <3>1 DEF Told
    <2>2. \A n \in DOMAIN eq'[CN] : f[n] = n
      BY <1>5
    <2> HIDE DEF f
    <2> QED
      BY <2>1, <2>2, MailShift
  <1> QED
    BY <1>1, <1>2, <1>3, <1>4, <1>5 DEF TurnedDown

\* A step that changes only the place of a process.
LEMMA PlaceFlow ==
  ASSUME TypeOK, FlowInv, NEW p \in Node,
         UNCHANGED <<fabricVars, peer, counter, snap, rounds, checkpoint, summary, crashed>>,
         \A q \in Node : q # p => pc'[q] = pc[q],
         p = CN => Seated,
         p \in EN => Kept(p)
  PROVE  FlowInv'
  <1>1. CN \in Node
    BY NodeFacts
  <1>2. Seated
    BY <1>1, CepFacts DEF Seated
  <1>3. Desk
    BY <1>2, SeatedDesk
  <1>4. ASSUME NEW i \in EN, i # p PROVE Kept(i)
    <2>1. i \in Node
      BY CepFacts
    <2>2. Near(i) /\ Far(i)
      BY <1>4, <2>1, NearWhole DEF fabricVars, Far, Untouched
    <2>3. Steady(i) /\ Mail(i)
      BY DEF fabricVars, Steady, Mail, Heard, Informed, Told
    <2> QED
      BY <1>3, <2>2, <2>3, Bystander DEF FlowInv
  <1>5. \A i \in EN : Kept(i)
    BY <1>4
  <1>6. Books'
    BY <1>2, <1>5, BooksStay DEF FlowInv
  <1> QED
    BY <1>5, <1>6 DEF FlowInv, Kept

LEMMA ErrorFlow ==
  ASSUME CrashTypeOK, FlowInv, NEW p \in Node, RxError(p) \/ TxError(p)
  PROVE  FlowInv'
  <1>0. TypeOK /\ CN \in Node
    BY NodeFacts DEF CrashTypeOK
  <1>1. /\ UNCHANGED <<fabricVars, peer, counter, snap, rounds, checkpoint, summary, crashed>>
        /\ \/ pc' = pc
           \/ Goto(p, "failed")
           \/ pc[p] = "confirm_tx" /\ Goto(p, "await_start")
        /\ pc[p] # "gone"
    BY DEF RxError, TxError, AfterRxError, AfterTxError
  <1>2. \A q \in Node : q # p => pc'[q] = pc[q]
    BY <1>0, <1>1, GotoOwn
  <1>3. p = CN => Seated
    <2>1. pc[CN] # "confirm_tx"
      BY <1>0 DEF TypeOK, PcTypeOK, ControllerPC
    <2> QED
      BY <1>0, <1>1, <2>1, GotoOwn DEF Seated
  <1>4. ASSUME p \in EN PROVE Kept(p)
    <2>0. pc'[CN] = pc[CN] /\ Desk /\ p \notin crashed
      <3>1. pc'[CN] = pc[CN]
        BY <1>0, <1>2, <1>4, CepFacts
      <3>2. p \notin crashed
        BY <1>1, <1>4 DEF FlowInv, Local
      <3> QED
        BY <1>1, <3>1, <3>2, SeatedDesk DEF Seated
    <2>1. /\ Far(p) /\ Untouched(Cep(p)) /\ Steady(p) /\ Mail(p) /\ Wire(p)
      BY <1>1 DEF fabricVars, Far, Untouched, Steady, Wire, Mail, Heard, Informed, Told
    <2>2. Flight(p)' = Flight(p) /\ Answer(p)' = Answer(p)
      BY <1>0, <1>4, <2>1, FlightStays, AnswerStays DEF Untouched
    <2>3. Around(p) /\ Local(p) /\ Remote(p)
      BY <1>4, <2>0, <2>1, AroundFar DEF FlowInv
    <2>4. CASE pc' = pc
      <3>1. Near(p)
        BY <1>1, <1>4, <2>4, NearWhole DEF fabricVars, Untouched
      <3> QED
        BY <1>0, <1>4, <2>0, <2>1, <2>3, <3>1, Bystander
    <2>5. CASE Goto(p, "failed")
      <3>1. pc'[p] = "failed"
        BY <1>0, <2>5, GotoOwn
      <3>2. Local(p)'
        BY <1>1, <2>0, <2>3, <3>1 DEF Local, AtMostOneOpen, Calling, fabricVars
      <3>3. Remote(p)'
        BY <1>4, <2>2, <2>3, <3>1, GivesUp
      <3>4. Done(p) => Done(p)'
        BY <1>1, <2>2, <3>1 DEF Done, Unused, fabricVars, Inlet
      <3> QED
        BY <3>2, <3>3, <3>4 DEF Kept
    <2>6. CASE pc[p] = "confirm_tx" /\ Goto(p, "await_start")
      <3>1. pc'[p] = "await_start"
        BY <1>0, <2>6, GotoOwn
      <3>2. Local(p)'
        <4>1. AtMostOneOpen(p)'
          BY <1>1, <2>3, <2>6, <3>1 DEF Local, AtMostOneOpen, OpenTo, Slots, fabricVars
        <4> QED
          BY <1>1, <2>0, <2>3, <2>6, <3>1, <4>1 DEF Local, Calling, Reported, fabricVars
      <3>3. SamePlace(p)
        BY <1>1, <2>6, <3>1 DEF SamePlace, Calling, Attached, Touring, Reported
      <3>4. Remote(p)'
        BY <1>4, <2>2, <2>3, <3>3, SameView
      <3>5. Done(p) => Done(p)'
        BY <1>1, <2>2, <2>6, <3>1 DEF Done, Unused, fabricVars, Inlet, Reported
      <3> QED
        BY <3>2, <3>4, <3>5 DEF Kept
    <2> QED
      BY <1>1, <2>4, <2>5, <2>6
  <1> QED
    BY <1>0, <1>1, <1>2, <1>3, <1>4, PlaceFlow

LEMMA WildFlow ==
  ASSUME CrashTypeOK, FlowInv, WildEndpoint
  PROVE  FlowInv'
  <1>0. TypeOK /\ CN \in Node /\ CN \notin EN
    BY NodeFacts DEF CrashTypeOK
  <1>1. /\ UNCHANGED <<fabricVars, peer, counter, snap, rounds, checkpoint, summary, crashed>>
        /\ Goto(CN, "failed")
    BY DEF WildEndpoint, faultVars
  <1> QED
    BY <1>0, <1>1, GotoOwn, PlaceFlow DEF Seated

\* A process is killed.
LEMMA CrashFlow ==
  ASSUME CrashTypeOK, FlowInv, NEW p \in Node, Crash(p)
  PROVE  FlowInv'
  <1>0. TypeOK /\ CN \in Node /\ CN \in Listener
    BY NodeFacts DEF CrashTypeOK
  <1>1. /\ pc'[p] = "gone" /\ \A q \in Node : q # p => pc'[q] = pc[q]
        /\ \A l \in Link : link'[l] = link[l] \/ link'[l] = "down"
        /\ \A l \in Link : p \in {l[1], l[2]} => link'[l] # "up"
        /\ UNCHANGED <<rounds, checkpoint, summary>>
        /\ crashed' = crashed \cup {p}
    <2>1. pc'[p] = "gone" /\ \A q \in Node : q # p => pc'[q] = pc[q]
      BY <1>0, GotoOwn DEF Crash
    <2> QED
      BY <2>1 DEF Crash
  <1>2. \A e \in Endpoint : e[1] # p => Untouched(e)
    BY DEF Crash, Cleared, Untouched
  <1>3. Seated
    <2>1. p # CN => counter'[CN] = counter[CN]
      BY <1>0 DEF Crash
    <2> QED
      BY <1>0, <1>1, <2>1 DEF Seated
  <1>4. Desk
    BY <1>1, <1>3, SeatedDesk
  <1>5. p # CN => eq'[CN] = eq[CN]
    BY <1>0 DEF Crash, TypeOK, FabricTypeOK
  <1>6. ASSUME NEW i \in EN PROVE Steady(i) /\ Mail(i) /\ Wire(i)
    <2>1. Steady(i) /\ Wire(i)
      BY <1>1, CepFacts DEF Steady, Wire
    <2>2. CASE p # CN
      BY <1>0, <1>5, <2>1, <2>2, MailAside DEF Aside
    <2>3. CASE p = CN
      BY <1>1, <2>1, <2>3 DEF Mail
    <2> QED
      BY <2>1, <2>2, <2>3
  <1>7. ASSUME NEW i \in EN, i # p PROVE Kept(i) \/ (p = CN /\ Local(i)')
    <2>0. i \in Node /\ i \in Host /\ CN # i /\ Inlet(i) \in Endpoint /\ Inlet(i)[1] = CN
      BY CepFacts, FlowMsgs, <1>0
    <2>1. Near(i)
      <3>1. \A q \in Listener : Untouched(<<i, q>>)
        BY <1>2, <1>7, ClientLinks
      <3>2. peer'[i] = peer[i] /\ snap'[i] = snap[i]
        BY <1>7, <2>0 DEF Crash
      <3> QED
        BY <1>1, <1>7, <2>0, <3>1, <3>2, NearWhole
    <2>2. CASE p = CN
      BY <1>6, <2>1, <2>2, KeepsLocal DEF FlowInv
    <2>3. CASE p # CN
      <3>1. Far(i)
        BY <1>2, <2>0, <2>3 DEF Far
      <3> QED
        BY <1>0, <1>4, <1>6, <2>1, <3>1, Bystander DEF FlowInv
    <2> QED
      BY <2>2, <2>3
  <1>8. ASSUME p \in EN PROVE Kept(p)
    <2>0. /\ Cep(p) \in Link /\ Cep(p) \in Endpoint /\ Cep(p) = <<p, CN>> /\ p # CN /\ p \in Host
          /\ Inlet(p) \in Endpoint /\ Inlet(p)[1] = CN
      BY <1>0, <1>8, CepFacts, FlowMsgs
    <2>1. link'[Cep(p)] # "up"
      BY <1>1, <2>0
    <2>2. /\ peer'[p] = CN /\ snap'[p] = 0
          /\ \A q \in Listener : <<p, q>> \in Endpoint /\ Unused(<<p, q>>)' /\ sq'[<<p, q>>] = <<>>
      <3>1. ASSUME NEW q \in Listener
            PROVE  <<p, q>> \in Endpoint /\ Unused(<<p, q>>)' /\ sq'[<<p, q>>] = <<>>
        BY <1>8, ClientLinks DEF Crash, Cleared, Unused
      <3>2. peer'[p] = CN /\ snap'[p] = 0
        BY <1>8, <2>0 DEF Crash
      <3> QED
        BY <3>1, <3>2
    <2>3. sq'[Cep(p)] = <<>> /\ rxc'[Cep(p)] = <<>>
      BY <1>0, <2>0, <2>2 DEF Unused
    <2>4. Local(p)'
      BY <1>1, <2>2, <2>3 DEF Local, AtMostOneOpen, Calling
    <2>5. Far(p)
      BY <1>2, <2>0 DEF Far
    <2>6. Remote(p)'
      BY <1>0, <1>4, <1>6, <1>8, <2>1, <2>5, AroundFar, Unlinked DEF FlowInv
    <2>7. Done(p) => Done(p)'
      BY <1>6, <1>8, <2>1, <2>5 DEF Done, Far, Untouched, Unused, Inlet, Wire
    <2> QED
      BY <2>4, <2>6, <2>7 DEF Kept
  <1>9. CASE p # CN
    <2>1. \A i \in EN : Kept(i)
      BY <1>7, <1>8, <1>9
    <2>2. Books'
      BY <1>0, <1>1, <1>3, <2>1, BooksStay DEF FlowInv
    <2> QED
      BY <2>1, <2>2 DEF FlowInv, Kept
  <1>10. CASE p = CN
    <2>1. pc'[CN] = "gone" /\ \A i \in EN : i # p
      BY <1>1, <1>10, CepFacts
    <2>2. \A i \in EN : Local(i)'
      BY <1>7, <2>1 DEF Kept
    <2>3. Books' /\ \A i \in EN : Remote(i)'
      BY <2>1 DEF Books, Remote, LivePC, LinkPC, RunPC, OpenPC, RoundPC, StopPC
    <2> QED
      BY <2>2, <2>3 DEF FlowInv
  <1> QED
    BY <1>9, <1>10

LEMMA RestartFlow ==
  ASSUME CrashTypeOK, FlowInv, NEW h \in Host, Restart(h)
  PROVE  FlowInv'
  <1>0. TypeOK /\ CN \in Node /\ CN \in Listener /\ h \in Node /\ h # CN
    BY NodeFacts DEF CrashTypeOK
  <1>1. /\ \A q \in Node : q # h => pc'[q] = pc[q]
        /\ h \in EN => pc'[h] = "dial"
        /\ UNCHANGED <<link, sq, rq, rxc, buf, peer, counter, snap, rounds, checkpoint, summary>>
        /\ crashed' = crashed \ {h} /\ eq'[CN] = eq[CN] /\ h \in crashed
    <2>1. h \notin PN => pc'[h] = "dial"
      BY <1>0, GotoOwn DEF Restart
    <2>2. \A q \in Node : q # h => pc'[q] = pc[q]
      BY <1>0, GotoOwn DEF Restart
    <2>3. h \in EN => h \notin PN
      BY NodeFacts
    <2> QED
      BY <1>0, <2>1, <2>2, <2>3 DEF Restart, TypeOK, FabricTypeOK
  <1>2. Seated /\ Desk
    BY <1>0, <1>1, SeatedDesk DEF Seated
  <1>3. ASSUME NEW i \in EN PROVE Steady(i) /\ Mail(i) /\ Wire(i) /\ Far(i) /\ Untouched(Cep(i))
    <2>1. Steady(i) /\ Wire(i) /\ Far(i) /\ Untouched(Cep(i))
      BY <1>1 DEF Steady, Wire, Far, Untouched
    <2> QED
      BY <1>0, <1>1, <2>1, MailAside DEF Aside
  <1>4. ASSUME NEW i \in EN, i # h PROVE Kept(i)
    <2>1. Near(i)
      BY <1>1, <1>4, CepFacts, NearWhole DEF Untouched
    <2> QED
      BY <1>0, <1>2, <1>3, <2>1, Bystander DEF FlowInv
  <1>5. ASSUME h \in EN PROVE Kept(h)
    <2>0. Cep(h) \in Link /\ Cep(h) = <<h, CN>> /\ Local(h) /\ Remote(h)
      BY <1>5, CepFacts DEF FlowInv
    <2>1. link[Cep(h)] \in {"closed", "down"}
      BY <2>0 DEF Restart
    <2>2. /\ peer[h] = CN /\ snap[h] = 0 /\ sq[Cep(h)] = <<>>
          /\ \A q \in Listener : Unused(<<h, q>>)
      BY <1>1, <2>0 DEF Local
    <2>3. rxc[Cep(h)] = <<>>
      BY <1>0, <2>0, <2>2 DEF Unused
    <2>4. AtMostOneOpen(h)'
      <3>1. ASSUME NEW q \in Listener PROVE Slots(<<h, q>>)' = 0
        <4>1. rq'[<<h, q>>] = <<>> /\ rxc'[<<h, q>>] = <<>>
          BY <1>1, <2>2 DEF Unused
        <4>2. Len(rq'[<<h, q>>]) = 0
          BY <4>1
        <4>3. Len(rxc'[<<h, q>>]) = 0
          BY <4>1
        <4> QED
          BY <4>2, <4>3 DEF Slots
      <3> QED
        BY <3>1 DEF AtMostOneOpen
    <2>5. Local(h)'
      BY <1>1, <1>5, <2>1, <2>2, <2>3, <2>4 DEF Local, Calling
    <2>6. Remote(h)'
      BY <1>1, <1>2, <1>3, <1>5, <2>0, <2>1, AroundFar, Unlinked
    <2>7. Done(h) => Done(h)'
      BY <1>1, <2>1 DEF Done, Unused, Inlet
    <2> QED
      BY <2>5, <2>6, <2>7 DEF Kept
  <1>6. \A i \in EN : Kept(i)
    BY <1>4, <1>5
  <1>7. Books'
    BY <1>0, <1>1, <1>2, <1>6, BooksStay DEF FlowInv
  <1> QED
    BY <1>6, <1>7 DEF FlowInv, Kept

\* The network reports and gives up.
LEMMA TurnDownFlow ==
  ASSUME CrashTypeOK, FlowInv, NEW l \in Link, TurnDown(l)
  PROVE  FlowInv'
  <1>0. TypeOK
    BY DEF CrashTypeOK
  <1>1. /\ UNCHANGED <<sq, rq, rxc, buf, nodeVars, crashed>>
        /\ \A k \in Link : link'[k] = link[k] \/ link'[k] = "closed"
    <2>1. UNCHANGED <<sq, rq, rxc, buf, nodeVars, crashed>>
      BY DEF TurnDown, faultVars
    <2> QED
      BY <2>1, TurnDownEffect
  <1>2. Seated /\ Desk
    BY <1>1, SeatedDesk DEF Seated, nodeVars
  <1>3. ASSUME NEW i \in EN PROVE Kept(i)
    <2>1. Steady(i) /\ Wire(i)
      BY <1>1, CepFacts DEF Steady, Wire
    <2>2. Near(i) /\ Far(i)
      BY <1>1, NearWhole DEF Far, Untouched, nodeVars
    <2> QED
      BY <1>0, <1>2, <2>1, <2>2, MailTurnDown, Bystander DEF FlowInv
  <1>4. Books'
    BY <1>0, <1>1, <1>2, <1>3, BooksStay DEF FlowInv, nodeVars
  <1> QED
    BY <1>3, <1>4 DEF FlowInv, Kept

LEMMA NoticeFlow ==
  ASSUME CrashTypeOK, FlowInv, NEW e \in Endpoint, Notice(e)
  PROVE  FlowInv'
  <1>0. TypeOK /\ CN \in Node
    BY NodeFacts DEF CrashTypeOK
  <1>1. UNCHANGED <<link, sq, rq, rxc, buf, nodeVars, crashed>>
    BY DEF Notice
  <1>2. Seated /\ Desk
    BY <1>1, SeatedDesk DEF Seated, nodeVars
  <1>3. NoNewcomer
    BY <1>0 DEF Notice, NoNewcomer, TypeOK, FabricTypeOK, Events
  <1>4. ASSUME NEW i \in EN PROVE Kept(i)
    <2>1. Steady(i) /\ Wire(i)
      BY <1>1 DEF Steady, Wire
    <2>2. Near(i) /\ Far(i)
      BY <1>1, NearWhole DEF Far, Untouched, nodeVars
    <2> QED
      BY <1>0, <1>2, <1>3, <2>1, <2>2, MailAppend, Bystander DEF FlowInv
  <1>5. Books'
    BY <1>0, <1>1, <1>2, <1>4, BooksStay DEF FlowInv, nodeVars
  <1> QED
    BY <1>4, <1>5 DEF FlowInv, Kept

LEMMA FlushFlow ==
  ASSUME CrashTypeOK, FlowInv, NEW e \in Endpoint, Flush(e)
  PROVE  FlowInv'
  <1>0. TypeOK
    BY DEF CrashTypeOK
  <1>1. /\ UNCHANGED <<link, eq, rxc, buf, nodeVars, crashed>>
        /\ IF e \in Link THEN link[e] = "down" ELSE ~IsUp(e)
        /\ sq'[e] = <<>> /\ rq'[e] = <<>>
        /\ \A d \in Endpoint : d # e => sq'[d] = sq[d] /\ rq'[d] = rq[d]
    BY <1>0 DEF Flush, TypeOK, FabricTypeOK
  <1>2. Seated /\ Desk
    BY <1>1, SeatedDesk DEF Seated, nodeVars
  <1>3. \A d \in Endpoint : /\ Unused(d) => Unused(d)'
                            /\ Slots(d) \in Int /\ Slots(d)' \in Int /\ Slots(d)' >= 0
                            /\ Slots(d)' <= Slots(d)
    <2> SUFFICES ASSUME NEW d \in Endpoint
                 PROVE  /\ Unused(d) => Unused(d)'
                        /\ Slots(d) \in Int /\ Slots(d)' \in Int /\ Slots(d)' >= 0
                        /\ Slots(d)' <= Slots(d)
      OBVIOUS
    <2>1. Len(rq[d]) \in Nat /\ Len(rxc[d]) \in Nat
      BY <1>0 DEF TypeOK, FabricTypeOK
    <2>2. rxc'[d] = rxc[d]
      BY <1>1
    <2>3. rq'[d] = rq[d] \/ (rq'[d] = <<>> /\ Len(rq'[d]) = 0)
      BY <1>1
    <2>4. Unused(d) => Unused(d)'
      BY <2>2, <2>3 DEF Unused
    <2> DEFINE before == Len(rq[d])
               after == Len(rq'[d])
               read == Len(rxc[d])
    <2>5. Slots(d) = before + read /\ Slots(d)' = after + read
      BY <2>2 DEF Slots
    <2>6. before \in Nat /\ read \in Nat /\ (after = before \/ after = 0)
      BY <2>1, <2>3
    <2> HIDE DEF before, after, read
    <2>7. /\ Slots(d) \in Int /\ Slots(d)' \in Int /\ Slots(d)' >= 0
          /\ Slots(d)' <= Slots(d)
      BY <2>5, <2>6
    <2> QED
      BY <2>4, <2>7
  <1>4. ASSUME NEW i \in EN PROVE Kept(i)
    <2>0. /\ Cep(i) \in Link /\ Cep(i) \in Endpoint /\ Inlet(i) \in Endpoint /\ Inlet(i) \in Passive
          /\ LinkOf(Inlet(i)) = Cep(i) /\ Inlet(i) # Cep(i) /\ Cep(i) = <<i, CN>>
          /\ Local(i) /\ Remote(i)
      BY <1>0, CepFacts, FlowMsgs DEF FlowInv
    <2>1. Steady(i) /\ Wire(i) /\ Mail(i)
      BY <1>1 DEF Steady, Wire, Mail, Heard, Informed, Told, nodeVars
    <2>2. AtMostOneOpen(i) => AtMostOneOpen(i)'
      <3> SUFFICES ASSUME AtMostOneOpen(i), pc[i] \notin {"failed", "gone"}, NEW q \in Listener
                   PROVE  Slots(<<i, q>>)' <= 1 /\ (q \notin OpenTo(i) => Slots(<<i, q>>)' = 0)
        BY <1>1 DEF AtMostOneOpen, OpenTo, nodeVars
      <3>1. <<i, q>> \in Endpoint
        BY ClientLinks
      <3>2. Slots(<<i, q>>) <= 1 /\ (q \notin OpenTo(i) => Slots(<<i, q>>) = 0)
        BY DEF AtMostOneOpen
      <3> QED
        BY <1>3, <3>1, <3>2
    <2>3. \A q \in Listener : Unused(<<i, q>>) => Unused(<<i, q>>)'
      BY <1>3, ClientLinks
    <2>4. CASE e # Cep(i) /\ e # Inlet(i)
      <3>1. Near(i) /\ Far(i)
        BY <1>1, <2>0, <2>2, <2>3, <2>4 DEF Near, Far, Untouched, nodeVars
      <3> QED
        BY <1>0, <1>2, <2>0, <2>1, <3>1, Bystander
    <2>5. CASE e = Cep(i)
      <3>1. link'[Cep(i)] = "down" /\ link[Cep(i)] = "down"
        BY <1>1, <2>0, <2>5
      <3>2. Far(i)
        BY <1>1, <2>0, <2>5 DEF Far, Untouched
      <3>3. Local(i)'
        BY <1>1, <2>0, <2>2, <2>3, <2>5, <3>1 DEF Local, Calling, Reported, nodeVars
      <3>4. Remote(i)'
        BY <1>0, <1>2, <2>0, <2>1, <3>1, <3>2, AroundFar, Unlinked
      <3>5. Done(i) => Done(i)'
        BY <1>3, <2>0, <3>1 DEF Done
      <3> QED
        BY <3>3, <3>4, <3>5 DEF Kept
    <2>6. CASE e = Inlet(i)
      <3>1. link[Cep(i)] # "up" /\ link'[Cep(i)] = link[Cep(i)]
        BY <1>1, <2>0, <2>6, LinkIsNotPassive DEF IsUp
      <3>2. Near(i)
        BY <1>1, <2>0, <2>2, <2>3, <2>6 DEF Near, Untouched, nodeVars
      <3>3. Local(i)'
        BY <2>0, <2>1, <3>2, KeepsLocal
      <3>4. pc'[CN] \in LivePC => Collects(i)'
        <4> SUFFICES ASSUME pc'[CN] \in LivePC PROVE Collects(i)'
          OBVIOUS
        <4>1. Collects(i) /\ pc'[CN] = pc[CN]
          BY <1>1, <2>0 DEF Remote, nodeVars
        <4>2. Expected(i)' = Expected(i) /\ InRow(i)' = InRow(i) /\ Inlet(i)' = Inlet(i)
          BY <1>1 DEF nodeVars, Expected, InRow, Command, Delta, Total, Cep, Inlet
        <4>3. Slots(Inlet(i))' <= 1
          BY <1>3, <2>0, <4>1 DEF Collects
        <4> QED
          BY <1>1, <1>3, <2>0, <4>1, <4>2, <4>3 DEF Collects
      <3>5. Around(i)
        BY <1>1, <1>2, <2>1, <3>4 DEF Around
      <3>6. Remote(i)'
        BY <2>0, <3>1, <3>5, Unlinked
      <3>7. Done(i) => Done(i)'
        BY <1>3, <2>0, <3>1 DEF Done, Inlet
      <3> QED
        BY <3>3, <3>6, <3>7 DEF Kept
    <2> QED
      BY <2>4, <2>5, <2>6
  <1>5. Books'
    BY <1>0, <1>1, <1>2, <1>4, BooksStay DEF FlowInv, nodeVars
  <1> QED
    BY <1>4, <1>5 DEF FlowInv, Kept

-----------------------------------------------------------------------------
(* The controller. *)

\* Its steps leave the clients alone.
LEMMA CtrlNear ==
  ASSUME TypeOK, OwnEvents, ControllerStep, crashed' = crashed, NEW i \in EN
  PROVE  /\ Near(i) /\ pc'[i] = pc[i] /\ snap'[i] = snap[i]
         /\ Untouched(Cep(i)) /\ Inlet(i) \in Endpoint /\ Inlet(i) \in ClientEps
         /\ Cep(i) \in Link /\ Cep(i) \in Endpoint /\ CN \in Node /\ CN \in Listener
  <1>0. /\ i \in Node /\ i \in Host /\ i # CN /\ Cep(i) \in Link /\ Cep(i) \in Endpoint
        /\ Inlet(i) \in Endpoint /\ Inlet(i) \in ClientEps /\ CN \in Node /\ CN \in Listener
    BY CepFacts, FlowMsgs
  <1>1. OnlyItsOwn(CN)
    BY ControllerOwn
  <1>2. \A q \in Listener : Untouched(<<i, q>>)
    BY <1>0, <1>1, ClientLinks DEF OnlyItsOwn
  <1>3. snap' = snap
    BY DEF ControllerStep, WaitAllConn, ControllerConnect, ConnectSent, CollectConfirm,
           ControllerStart, StartSent, ControllerCheckpoint, CheckpointSent, CollectCheckpoint,
           CheckpointDone, ControllerStop, StopSent, CollectSummary, SummaryDone,
           AwaitShutdown, ControllerDone, Exit, CommandsSent, ControllerUnchanged
  <1>4. pc'[i] = pc[i] /\ peer'[i] = peer[i]
    BY <1>0, <1>1 DEF OnlyItsOwn
  <1>5. Near(i)
    BY <1>2, <1>3, <1>4, NearWhole
  <1> QED
    BY <1>0, <1>3, <1>4, <1>5, NearFacts

\* As many clients as are in a set.
LEMMA CountedNone ==
  ASSUME NEW T \in SUBSET EN
  PROVE  0 <= Cardinality(T) /\ (NumEN <= Cardinality(T) => T = EN)
  BY ClientCount, TopologyAssumption

LEMMA CountedMore ==
  ASSUME NEW T \in SUBSET EN, NEW U \in SUBSET EN, NEW j \in EN, j \notin T,
         T \subseteq U, j \in U, NEW n \in Int, n <= Cardinality(T)
  PROVE  n + 1 <= Cardinality(U)
  <1>1. /\ IsFiniteSet(T) /\ IsFiniteSet(U)
        /\ Cardinality(T) \in Nat /\ Cardinality(U) \in Nat
    BY ClientCount
  <1>2. Cardinality(T \cup {j}) = Cardinality(T) + 1 /\ IsFiniteSet(T \cup {j})
    BY <1>1, FS_AddElement
  <1>3. Cardinality(T \cup {j}) <= Cardinality(U)
    <2>1. T \cup {j} \subseteq U
      OBVIOUS
    <2> QED
      BY <1>1, <2>1, FS_Subset
  <1> QED
    BY <1>1, <1>2, <1>3

\* It waits for its sends, for the ends of the connections, or leaves.
LEMMA WaitsFlow ==
  ASSUME TypeOK, OwnEvents, FlowInv, ControllerStep, crashed' = crashed,
         \/ ConnectSent \/ StartSent \/ CheckpointSent \/ StopSent
         \/ SummaryDone \/ AwaitShutdown \/ ControllerDone \/ Exit(CN)
  PROVE  FlowInv'
  <1>0. CN \in Node /\ CN \in Listener /\ counter[CN] \in Int
    BY NodeFacts DEF TypeOK
  <1>1. UNCHANGED <<sq, rq, rxc, buf, rounds, checkpoint, summary>>
    BY DEF ConnectSent, StartSent, CheckpointSent, StopSent, CommandsSent,
           SummaryDone, AwaitShutdown, ControllerDone, Exit, ControllerUnchanged, fabricVars
  <1>2. \/ pc[CN] = "connect_tx" /\ pc'[CN] = "connect_rx" /\ counter'[CN] = 0
        \/ pc[CN] = "start_tx" /\ pc'[CN] = "timer"
        \/ pc[CN] = "checkpoint_tx" /\ pc'[CN] = "checkpoint_rx" /\ counter'[CN] = 0
        \/ pc[CN] = "stop_tx" /\ pc'[CN] = "stop_rx" /\ counter'[CN] = 0
        \/ pc[CN] = "stop_rx" /\ pc'[CN] = "stop_cm" /\ counter[CN] = NumEN
        \/ pc[CN] = "stop_cm" /\ pc'[CN] \in {"stop_cm", "finished", "failed"}
        \/ pc'[CN] = "gone"
    <2>1. ASSUME Count(CN, 0) PROVE counter'[CN] = 0
      BY <1>0, <2>1 DEF Count, TypeOK
    <2>2. \A place : Goto(CN, place) => pc'[CN] = place
      BY <1>0, GotoOwn
    <2>3. CASE ConnectSent \/ StartSent \/ CheckpointSent \/ StopSent
      BY <2>1, <2>2, <2>3 DEF ConnectSent, StartSent, CheckpointSent, StopSent, CommandsSent
    <2>4. CASE SummaryDone \/ ControllerDone \/ Exit(CN)
      BY <2>2, <2>4 DEF SummaryDone, ControllerDone, Exit
    <2>5. CASE AwaitShutdown
      BY <2>2, <2>5 DEF AwaitShutdown
    <2> QED
      BY <2>3, <2>4, <2>5
  <1>3. \A k \in Link : link'[k] = link[k] \/ link'[k] = "down"
    <2>1. CASE Exit(CN)
      BY <1>0, <2>1, ExitNews
    <2>2. CASE ~Exit(CN)
      BY <2>2 DEF ConnectSent, StartSent, CheckpointSent, StopSent, CommandsSent,
           SummaryDone, AwaitShutdown, ControllerDone, ControllerUnchanged, fabricVars
    <2> QED
      BY <2>1, <2>2
  <1>4. Desk
    BY <1>1, <1>2 DEF Desk, LivePC, LinkPC, RunPC, OpenPC, RoundPC, StopPC
  <1>5. ASSUME NEW i \in EN PROVE Kept(i)
    <2>1. Near(i) /\ Cep(i) \in Link
      BY CtrlNear
    <2>2. Steady(i) /\ Mail(i) /\ Far(i)
      BY <1>1, <1>2, <1>3, <2>1 DEF Steady, Mail, Far, Untouched
    <2> QED
      BY <1>4, <2>1, <2>2, Bystander DEF FlowInv
  <1>6. Books'
    <2> DEFINE U == {i \in EN : Done(i)'}
               V == {i \in EN : InRow(i)'}
               R == {i \in EN : InRow(i)}
    <2>1. 0 <= Cardinality(U)
      <3>1. U \in SUBSET EN
        OBVIOUS
      <3> HIDE DEF U
      <3> QED
        BY <3>1, CountedNone
    <2>2. 0 <= Cardinality(V)
      <3>1. V \in SUBSET EN
        OBVIOUS
      <3> HIDE DEF V
      <3> QED
        BY <3>1, CountedNone
    <2>3. pc[CN] = "stop_rx" /\ counter[CN] = NumEN => \A i \in EN : summary[i] = Total(i, rounds)
      <3> SUFFICES ASSUME pc[CN] = "stop_rx", counter[CN] = NumEN
                   PROVE  \A i \in EN : summary[i] = Total(i, rounds)
        OBVIOUS
      <3>1. R \in SUBSET EN /\ NumEN <= Cardinality(R)
        BY DEF FlowInv, Books
      <3>2. R = EN
        <4> HIDE DEF R
        <4> QED
          BY <3>1, CountedNone
      <3>3. \A i \in EN : InRow(i)
        BY <3>2
      <3> QED
        BY <3>3 DEF InRow, RoundPC
    <2>4. pc'[CN] = "connect_rx" => counter'[CN] <= Cardinality({i \in EN : Done(i)})'
      BY <1>2, <2>1
    <2>5. pc'[CN] \in {"checkpoint_rx", "stop_rx"} => counter'[CN] <= Cardinality({i \in EN : InRow(i)})'
      BY <1>2, <2>2
    <2>6. \A i \in EN : Delta(i, rounds)' = Delta(i, rounds) /\ Total(i, rounds)' = Total(i, rounds)
      BY <1>1 DEF Delta, Total, Cep
    <2> HIDE DEF U, V, R
    <2> QED
      BY <1>1, <1>2, <2>3, <2>4, <2>5, <2>6 DEF FlowInv, Books, LivePC, LinkPC, RunPC, OpenPC, RoundPC, StopPC
  <1> QED
    BY <1>5, <1>6 DEF FlowInv, Kept

\* It hears of a client: a request, which it accepts; a connection, over which it
\* sends its keys; or something else.
LEMMA WelcomeKept ==
  ASSUME TypeOK, OwnEvents, NEW i \in EN, Local(i), Remote(i), Requested(i), Near(i),
         WaitAllConn(CN), pc'[CN] = "wait_all", UNCHANGED <<rounds, checkpoint, summary>>
  PROVE  Kept(i)
  <1> DEFINE v == Head(eq[CN])
  <1>0. /\ i \in Host /\ CN \in Node /\ CN \in Listener /\ Inlet(i) = <<CN, i>>
        /\ Inlet(i) \in Endpoint /\ Inlet(i) \in Passive /\ Rev(Cep(i)) = Inlet(i)
        /\ Cep(i) \in Endpoint /\ Cep(i) \in Link /\ KeysOf(Inlet(i)) \in Msg
        /\ Rev(Inlet(i)) = Cep(i)
    BY CepFacts, FlowMsgs
  <1>1. /\ eq[CN] # <<>> /\ eq'[CN] = Tail(eq[CN]) /\ 1 \in DOMAIN eq[CN]
        /\ v \in Events /\ eq[CN][1] = v
        /\ \A k \in DOMAIN eq'[CN] : \A kind : Told(k, i, kind)' =>
             k \in Nat \ {0} /\ k + 1 \in DOMAIN eq[CN] /\ Told(k + 1, i, kind)
        /\ \/ Told(1, i, "CONNREQ") /\ link'[Cep(i)] = "accepted"
           \/ ~Told(1, i, "CONNREQ") /\ link'[Cep(i)] = link[Cep(i)]
    BY <1>0, HeadHandled
  <1>2. /\ pc[CN] = "wait_all" /\ UNCHANGED <<rq, rxc>> /\ HandleEvent(CN, v)
        /\ \A e \in Endpoint : e # v.ep => sq'[e] = sq[e] /\ buf'[e] = buf[e]
    BY <1>0, HandleOwn DEF WaitAllConn
  <1>3. Desk
    BY <1>2 DEF Desk, LivePC, LinkPC, RunPC, OpenPC, RoundPC, StopPC
  <1>4. /\ Collects(i) /\ Unused(Inlet(i)) /\ rxc[Inlet(i)] = <<>> /\ Heard(i)
        /\ link[Cep(i)] = "up" => Joining(i)
    BY <1>2 DEF Remote, LivePC, Collects, Unused
  <1>5. /\ Calling(i)' = Calling(i) /\ Attached(i)' = Attached(i)
        /\ Reported(i)' = Reported(i) /\ pc'[i] = pc[i] /\ peer'[i] = peer[i] /\ snap'[i] = snap[i]
        /\ AtMostOneOpen(i)' /\ Untouched(Cep(i))
    BY NearFacts DEF Local
  <1>6. Collects(i)'
    <2>1. Slots(Inlet(i))' = Slots(Inlet(i)) /\ Unused(Inlet(i))' /\ rxc'[Inlet(i)] = <<>>
      BY <1>2, <1>4 DEF Slots, Unused, Inlet
    <2> QED
      BY <1>4, <2>1 DEF Collects, Inlet
  <1>7. CASE Told(1, i, "CONNREQ")
    <2>1. link[Cep(i)] = "requested" /\ link'[Cep(i)] = "accepted" /\ v.kind = "CONNREQ"
      BY <1>1, <1>7 DEF Requested, Told
    <2>2. Local(i)'
      <3>1. i \in crashed' => i \in crashed /\ \A q \in Listener : Unused(<<i, q>>)'
        BY DEF Near, Local
      <3>2. pc[i] # "dial" /\ (Calling(i) \/ pc[i] \in {"failed", "gone"})
        BY <2>1 DEF Local
      <3> QED
        BY <1>5, <2>1, <3>1, <3>2 DEF Local, Untouched
    <2>3. Heard(i)'
      <3>1. \A k \in DOMAIN eq[CN] : ~Told(k, i, "CONNECTED")
        <4>1. \A k \in DOMAIN eq[CN] : Told(k, i, "CONNECTED") => k < 1
          BY <1>1, <1>4, <1>7 DEF Heard
        <4>2. \A k \in DOMAIN eq[CN] : ~(k < 1)
          <5>1. eq[CN] \in Seq(Events)
            BY <1>0 DEF TypeOK, FabricTypeOK
          <5> QED
            BY <5>1
        <4> QED
          BY <4>1, <4>2
      <3>2. \A k \in DOMAIN eq'[CN] : ~Told(k, i, "CONNECTED")'
        BY <1>1, <3>1
      <3> QED
        BY <3>2 DEF Heard, Informed
    <2>4. Remote(i)'
      BY <1>2, <1>4, <1>6, <2>1, <2>3 DEF Remote, RunPC, OpenPC, RoundPC, StopPC
    <2> QED
      BY <1>2, <2>2, <2>4 DEF Kept
  <1>8. CASE ~Told(1, i, "CONNREQ") /\ ~Told(1, i, "CONNECTED")
    <2>1. Steady(i) /\ Wire(i)
      BY <1>1, <1>8 DEF Steady, Wire
    <2>2. Far(i)
      <3>1. v.ep # Inlet(i) => Far(i)
        BY <1>0, <1>2 DEF Far, Untouched
      <3>2. v.ep = Inlet(i) => Far(i)
        <4> SUFFICES ASSUME v.ep = Inlet(i) PROVE Far(i)
          OBVIOUS
        <4>1. v.kind # "CONNECTED"
          BY <1>0, <1>1, <1>8 DEF Told
        <4>2. UNCHANGED <<sq, buf>>
          BY <1>2, <4>1 DEF HandleEvent
        <4> QED
          BY <1>2, <4>2 DEF Far, Untouched
      <3> QED
        BY <3>1, <3>2
    <2>3. Mail(i)
      <3> DEFINE f == [n \in DOMAIN eq'[CN] |-> n + 1]
      <3>1. DOMAIN eq'[CN] \subseteq Nat
        <4>1. eq'[CN] \in Seq(Events)
          BY <1>0, <1>1, TailFacts DEF TypeOK, FabricTypeOK
        <4> QED
          BY <4>1
      <3>2. \A n \in DOMAIN eq'[CN] : f[n] = n + 1 /\ n \in Nat
        BY <3>1
      <3> HIDE DEF f
      <3>3. \A n \in DOMAIN eq'[CN] : \A kind \in {"CONNREQ", "CONNECTED"} :
              Told(n, i, kind)' => f[n] \in DOMAIN eq[CN] /\ Told(f[n], i, kind)
        BY <1>1, <3>2
      <3>4. /\ \A m, n \in DOMAIN eq'[CN] : f[m] = f[n] => m = n
            /\ \A m, n \in DOMAIN eq'[CN] : f[m] < f[n] => m < n
        BY <3>2
      <3> QED
        BY <2>1, <3>3, <3>4, MailShift, Zenon
    <2> QED
      BY <1>3, <2>1, <2>2, <2>3, Bystander
  <1>9. CASE Told(1, i, "CONNECTED")
    <2>1. v.kind = "CONNECTED" /\ v.ep = Inlet(i) /\ Informed(i)
      BY <1>0, <1>1, <1>9 DEF Told, Informed
    <2>2. /\ sq'[Inlet(i)] = Append(sq[Inlet(i)], KeysOf(Inlet(i)))
          /\ link' = link
      BY <1>0, <1>2, <2>1 DEF HandleEvent, CtrlSend
    <2>3. Steady(i)
      BY <2>2 DEF Steady
    <2>4. Local(i)'
      BY <2>3, KeepsLocal
    <2>5. \A k \in DOMAIN eq[CN] : k \in Nat \ {0}
      <3>1. eq[CN] \in Seq(Events)
        BY <1>0 DEF TypeOK, FabricTypeOK
      <3> QED
        BY <3>1
    <2>6. link[Cep(i)] # "accepted"
      BY <1>4, <2>1 DEF Heard
    <2>7. link[Cep(i)] = "up" => ~Informed(i)'
      <3> SUFFICES ASSUME link[Cep(i)] = "up", NEW k \in DOMAIN eq'[CN], Told(k, i, "CONNECTED")'
                   PROVE  FALSE
        BY DEF Informed
      <3>1. k \in Nat \ {0} /\ k + 1 \in DOMAIN eq[CN] /\ Told(k + 1, i, "CONNECTED")
        BY <1>1
      <3>2. k + 1 = 1
        BY <1>1, <1>4, <1>9, <3>1 DEF Heard
      <3> QED
        BY <3>1, <3>2
    <2>8. Heard(i)'
      <3> SUFFICES ASSUME NEW m \in DOMAIN eq'[CN], NEW n \in DOMAIN eq'[CN]
                   PROVE  /\ link'[Cep(i)] = "up" /\ Told(m, i, "CONNECTED")'
                                                  /\ Told(n, i, "CONNECTED")' => m = n
                          /\ Told(m, i, "CONNECTED")' /\ Told(n, i, "CONNREQ")' => m < n
        BY <2>2, <2>6 DEF Heard
      <3>1. link'[Cep(i)] = "up" => ~Told(m, i, "CONNECTED")'
        BY <2>2, <2>7 DEF Informed
      <3>2. ASSUME Told(m, i, "CONNECTED")', Told(n, i, "CONNREQ")' PROVE m < n
        <4>1. /\ m \in Nat /\ n \in Nat
              /\ m + 1 \in DOMAIN eq[CN] /\ Told(m + 1, i, "CONNECTED")
              /\ n + 1 \in DOMAIN eq[CN] /\ Told(n + 1, i, "CONNREQ")
          BY <1>1, <3>2
        <4>2. m + 1 < n + 1
          BY <1>4, <4>1 DEF Heard
        <4> QED
          BY <4>1, <4>2
      <3> QED
        BY <3>1, <3>2
    <2>9. link'[Cep(i)] = "up" => Joining(i)'
      <3> SUFFICES ASSUME link[Cep(i)] = "up" PROVE Joining(i)'
        BY <2>2
      <3>1. Answer(i)' = <<>>
        <4>1. Answer(i) = <<>>
          BY <1>4 DEF Joining
        <4>2. sq[Cep(i)] = <<>> /\ rxc[Inlet(i)] = <<>>
          BY <4>1, FlowMsgs
        <4> QED
          BY <1>0, <1>2, <1>5, <4>2 DEF Answer, OnWay, Untouched, Inlet, Rev, Cep
      <3>2. pc[i] = "failed" \/ Calling(i)
        BY <1>4, <2>1 DEF Joining
      <3>3. ~Attached(i)'
        BY <3>2, <1>5 DEF Calling, Attached
      <3>4. Calling(i)' => Flight(i)' = <<KeysOf(Inlet(i))>>'
        <4> SUFFICES ASSUME Calling(i) PROVE Flight(i)' = <<KeysOf(Inlet(i))>>'
          BY <1>5
        <4>1. Flight(i) = <<>>
          BY <1>4, <2>1 DEF Joining
        <4>2. rxc[Cep(i)] = <<>> /\ sq[Inlet(i)] = <<>>
          BY <4>1, FlowMsgs
        <4>3. sq'[Inlet(i)] = <<KeysOf(Inlet(i))>>
          BY <2>2, <4>2
        <4> QED
          BY <1>0, <1>5, <4>2, <4>3 DEF Flight, OnWay, Untouched, Inlet, Rev, Cep, KeysOf
      <3> QED
        BY <1>5, <2>7, <3>1, <3>2, <3>3, <3>4 DEF Joining
    <2>10. Remote(i)'
      BY <1>2, <1>6, <2>2, <2>6, <2>8, <2>9 DEF Remote, RunPC, OpenPC, RoundPC, StopPC, LinkPC
    <2> QED
      BY <1>2, <2>4, <2>10 DEF Kept
  <1> QED
    BY <1>7, <1>8, <1>9

LEMMA WelcomeFlow ==
  ASSUME TypeOK, OwnEvents, GatherInv, FlowInv, WaitAllConn(CN), crashed' = crashed
  PROVE  FlowInv'
  <1>0. CN \in Node /\ CN \in Listener /\ ControllerStep
    BY NodeFacts DEF ControllerStep
  <1>1. /\ pc[CN] = "wait_all" /\ UNCHANGED <<rq, rxc, rounds, checkpoint, summary>>
        /\ HandleEvent(CN, Head(eq[CN])) /\ pc'[CN] \in {"wait_all", "failed"}
        /\ pc'[CN] = "failed" => Head(eq[CN]).kind = "REFUSED"
    BY <1>0, GotoOwn DEF WaitAllConn
  <1>2. ASSUME NEW i \in EN PROVE Kept(i)
    <2>1. Near(i) /\ i \in Host
      BY <1>0, CtrlNear, CepFacts
    <2>2. CASE pc'[CN] = "wait_all"
      <3>1. Requested(i)
        BY <1>1, <2>1 DEF GatherInv
      <3> QED
        BY <1>1, <2>1, <2>2, <3>1, WelcomeKept DEF FlowInv
    <2>3. CASE pc'[CN] = "failed"
      <3>1. UNCHANGED <<link, sq, buf>>
        BY <1>1, <2>3 DEF HandleEvent
      <3>2. Desk /\ Steady(i) /\ Mail(i) /\ Far(i)
        BY <1>1, <2>3, <3>1 DEF Desk, Steady, Mail, Far, Untouched, LivePC, LinkPC, RunPC,
                                OpenPC, RoundPC, StopPC
      <3> QED
        BY <2>1, <3>2, Bystander DEF FlowInv
    <2> QED
      BY <1>1, <2>2, <2>3
  <1>3. Books'
    <2>1. \A i \in EN : Delta(i, rounds)' = Delta(i, rounds)
      BY <1>1 DEF Delta, Cep
    <2> QED
      BY <1>1, <2>1 DEF FlowInv, Books, LivePC, LinkPC, RunPC, OpenPC, RoundPC, StopPC
  <1> QED
    BY <1>2, <1>3 DEF FlowInv, Kept

\* It sends a command to all clients.
LEMMA Commanded ==
  ASSUME TypeOK, NEW i \in EN, Near(i), NEW E, ClientEps \subseteq E,
         NEW c \in Commands, SendCommand(E, c), rxc' = rxc, rxc[Inlet(i)] = <<>>
  PROVE  Flight(i)' = Append(Flight(i), To(c, i)) /\ Answer(i)' = Answer(i)
  <1>0. /\ Inlet(i) \in Endpoint /\ Inlet(i) \in E /\ Rev(Cep(i)) = Inlet(i)
        /\ Rev(Inlet(i)) = Cep(i) /\ Cep(i) \in Endpoint /\ To(c, i) \in Msg
    BY CepFacts, FlowMsgs
  <1>1. Untouched(Cep(i))
    BY NearFacts
  <1>2. sq'[Inlet(i)] = Append(sq[Inlet(i)], To(c, i))
    BY <1>0, CommandOwn DEF To
  <1>3. Flight(i)' = Append(Flight(i), To(c, i))
    BY <1>0, <1>1, <1>2, OnWaySent DEF Flight, Untouched
  <1>4. Answer(i)' = Answer(i)
    BY <1>0, <1>1, OnWaySame DEF Answer, Untouched
  <1> QED
    BY <1>3, <1>4

\* It posts a receive for all clients.
LEMMA Expecting ==
  ASSUME TypeOK, NEW i \in EN, Unused(Inlet(i)), NEW size, CtrlRecv(ClientEps, size), rxc' = rxc
  PROVE  Slots(Inlet(i))' <= 1 /\ rxc'[Inlet(i)] = <<>>
  <1>0. Inlet(i) \in Endpoint /\ Inlet(i) \in ClientEps
    BY FlowMsgs
  <1>1. rq'[Inlet(i)] = Append(<<>>, size) /\ rxc'[Inlet(i)] = <<>>
    BY <1>0, RecvOwn DEF Unused
  <1>2. Len(rq'[Inlet(i)]) = 1
    <2>1. Append(<<>>, size) = <<size>>
      BY ShortQueues, Zenon
    <2>2. Len(<<size>>) = 1
      OBVIOUS
    <2> QED
      BY <1>1, <2>1, <2>2, Zenon
  <1>3. Len(rxc'[Inlet(i)]) = 0
    BY <1>1
  <1> QED
    BY <1>1, <1>2, <1>3 DEF Slots, Inlet

\* "connect" to clients that are connected.
LEMMA ConnectOrdered ==
  ASSUME TypeOK, OwnEvents, FlowInv, ControllerConnect, crashed' = crashed
  PROVE  FlowInv'
  <1>0. CN \in Node /\ ControllerStep
    BY NodeFacts DEF ControllerStep
  <1>1. /\ pc[CN] = "wait_all" /\ pc'[CN] = "connect_tx"
        /\ UNCHANGED <<link, rxc, rounds, checkpoint, summary>>
        /\ CtrlRecv(ClientEps, IntSize) /\ SendCommand(ClientEps, "CONNECT")
    BY <1>0, GotoOwn DEF ControllerConnect, ControllerUnchanged
  <1>2. ASSUME NEW i \in EN PROVE Kept(i)
    <2>0. /\ Near(i) /\ Local(i) /\ Remote(i)
          /\ KeysOf(Inlet(i)) \in Msg /\ To("CONNECT", i) \in Msg
      BY <1>0, CtrlNear, FlowMsgs DEF FlowInv, Commands
    <2>1. Local(i)'
      BY <1>1, <2>0, KeepsLocal DEF Steady
    <2>2. /\ Unused(Inlet(i)) /\ rxc[Inlet(i)] = <<>>
          /\ link[Cep(i)] = "up" => Joining(i)
      BY <1>1, <2>0 DEF Remote, LivePC, Collects, Unused
    <2>3. Slots(Inlet(i))' <= 1 /\ rxc'[Inlet(i)] = <<>>
      BY <1>1, <2>2, Expecting
    <2>4. Collects(i)'
      BY <1>1, <2>3 DEF Collects, OpenPC, InRow, RoundPC, StopPC, Inlet
    <2>5. Flight(i)' = Append(Flight(i), To("CONNECT", i)) /\ Answer(i)' = Answer(i)
      BY <1>1, <2>0, <2>2, Commanded DEF Commands
    <2>6. /\ Calling(i)' = Calling(i) /\ Attached(i)' = Attached(i)
          /\ Touring(i)' = Touring(i) /\ Reported(i)' = Reported(i) /\ pc'[i] = pc[i]
      BY <2>0, NearFacts
    <2>7. link[Cep(i)] = "up" => Greeted(i)'
      <3> SUFFICES ASSUME Joining(i) PROVE Greeted(i)'
        BY <2>2
      <3>1. (~Touring(i) /\ ~Reported(i)) \/ pc[i] = "failed"
        BY DEF Joining, Touring, Reported, Calling, Attached
      <3>2. ~Touring(i)' /\ ~Reported(i)'
        BY <2>6, <3>1 DEF Touring, Reported
      <3>3. Answer(i)' = <<>>
        BY <2>5 DEF Joining
      <3>4. /\ Flight(i) = <<>> => Flight(i)' = <<To("CONNECT", i)>>
            /\ Flight(i) = <<KeysOf(Inlet(i))>> =>
                 Flight(i)' = <<KeysOf(Inlet(i)), To("CONNECT", i)>>
        BY <2>0, <2>5, ShortQueues, Zenon
      <3>5. KeysOf(Inlet(i))' = KeysOf(Inlet(i)) /\ To("CONNECT", i)' = To("CONNECT", i)
        BY DEF KeysOf, Inlet, To, Command
      <3>6. Calling(i)' => \/ Flight(i)' = <<To("CONNECT", i)>>
                           \/ Flight(i)' = <<KeysOf(Inlet(i)), To("CONNECT", i)>>
        BY <2>6, <3>4 DEF Joining
      <3>7. Attached(i)' => Flight(i)' = <<To("CONNECT", i)>>
        BY <2>6, <3>4 DEF Joining
      <3>8. pc'[i] = "failed" \/ Calling(i)' \/ Attached(i)'
        BY <2>6 DEF Joining
      <3> QED
        BY <3>2, <3>3, <3>5, <3>6, <3>7, <3>8 DEF Greeted
    <2>8. Remote(i)'
      BY <1>1, <2>3, <2>4, <2>7 DEF Remote, LinkPC, RunPC, OpenPC, RoundPC, StopPC
    <2> QED
      BY <1>1, <2>1, <2>8 DEF Kept
  <1>3. Books'
    <2>1. \A i \in EN : Delta(i, rounds)' = Delta(i, rounds)
      BY <1>1 DEF Delta, Cep
    <2> QED
      BY <1>1, <2>1 DEF FlowInv, Books, LivePC, LinkPC, RunPC, OpenPC, RoundPC, StopPC
  <1> QED
    BY <1>2, <1>3 DEF FlowInv, Kept

\* "start" to clients that have all confirmed.
LEMMA StartOrdered ==
  ASSUME TypeOK, OwnEvents, FlowInv, ControllerStart, crashed' = crashed
  PROVE  FlowInv'
  <1>0. CN \in Node /\ ControllerStep
    BY NodeFacts DEF ControllerStep
  <1>1. /\ pc[CN] = "connect_rx" /\ pc'[CN] = "start_tx" /\ counter[CN] = NumEN
        /\ UNCHANGED <<link, rq, rxc, rounds, checkpoint, summary>>
        /\ SendCommand(ClientEps, "START")
    BY <1>0, GotoOwn DEF ControllerStart, ControllerUnchanged
  <1>2. rounds = 0
    BY <1>1 DEF FlowInv, Books, LinkPC
  <1>3. \A i \in EN : Done(i)
    <2> DEFINE T == {i \in EN : Done(i)}
    <2>1. T \in SUBSET EN /\ NumEN <= Cardinality(T)
      BY <1>1 DEF FlowInv, Books
    <2>2. T = EN
      <3> HIDE DEF T
      <3> QED
        BY <2>1, CountedNone
    <2> QED
      BY <2>2
  <1>4. ASSUME NEW i \in EN PROVE Kept(i)
    <2>0. /\ Near(i) /\ Local(i) /\ Remote(i) /\ Done(i) /\ To("START", i) \in Msg
      BY <1>0, <1>3, CtrlNear, FlowMsgs DEF FlowInv, Commands
    <2>1. Local(i)'
      BY <1>1, <2>0, KeepsLocal DEF Steady
    <2>2. Unused(Inlet(i)) /\ rxc[Inlet(i)] = <<>> /\ Collects(i)
      BY <1>1, <2>0 DEF Done, Unused, Remote, LivePC, LinkPC
    <2>3. Collects(i)'
      BY <1>1, <2>2 DEF Collects, Unused, Slots, Inlet
    <2>4. Flight(i)' = Append(Flight(i), To("START", i)) /\ Answer(i)' = Answer(i)
      BY <1>1, <2>0, <2>2, Commanded DEF Commands
    <2>5. /\ Reported(i)' = Reported(i) /\ pc'[i] = pc[i] /\ snap'[i] = snap[i]
      BY <2>0, NearFacts
    <2>6. link[Cep(i)] = "up" => Waiting(i)' \/ GaveUp(i)'
      <3> SUFFICES ASSUME link[Cep(i)] = "up" PROVE Waiting(i)' \/ GaveUp(i)'
        OBVIOUS
      <3>1. Answer(i)' = <<>> /\ (pc[i] = "failed" \/ Reported(i)) /\ Greeted(i)
        BY <1>1, <2>0, <2>4 DEF Done, Remote, LivePC, LinkPC
      <3>2. CASE pc[i] = "failed"
        BY <2>5, <3>1, <3>2 DEF GaveUp
      <3>3. CASE Reported(i)
        <4>1. Flight(i) = <<>>
          BY <3>1, <3>3 DEF Greeted
        <4>2. Flight(i)' = <<To("START", i)>>
          BY <2>4, <4>1, ShortQueues, Zenon
        <4>3. snap[i] = 0
          BY <2>0, <3>3 DEF Local, Reported
        <4>4. ~InRow(i)' /\ To("START", i)' = To("START", i)
          BY <1>1 DEF InRow, RoundPC, StopPC, To, Command, Inlet
        <4> QED
          BY <1>1, <1>2, <2>5, <3>1, <3>3, <4>2, <4>3, <4>4 DEF Waiting, OpenPC
      <3> QED
        BY <3>1, <3>2, <3>3
    <2>7. link[Cep(i)] # "accepted"
      BY <2>0 DEF Done
    <2>8. Remote(i)'
      BY <1>1, <2>3, <2>6, <2>7 DEF Remote, LinkPC, RunPC, OpenPC
    <2> QED
      BY <1>1, <2>1, <2>8 DEF Kept
  <1>5. Books'
    <2>1. \A i \in EN : Delta(i, rounds)' = Delta(i, rounds)
      BY <1>1 DEF Delta, Cep
    <2> QED
      BY <1>1, <2>1 DEF FlowInv, Books, LivePC, LinkPC, RunPC, OpenPC, RoundPC, StopPC
  <1> QED
    BY <1>4, <1>5 DEF FlowInv, Kept

\* "checkpoint" or "stop" to clients that run.
LEMMA RoundOrdered ==
  ASSUME TypeOK, OwnEvents, FlowInv, ControllerCheckpoint \/ ControllerStop, crashed' = crashed
  PROVE  FlowInv'
  <1>0. CN \in Node /\ ControllerStep /\ rounds \in Nat
    BY NodeFacts, RoundsAssumption DEF ControllerStep, TypeOK
  <1>1. /\ pc[CN] = "timer"
        /\ UNCHANGED <<link, rxc, rounds, checkpoint, summary>>
        /\ CtrlRecv(ClientEps, TransferSize)
        /\ \/ pc'[CN] = "checkpoint_tx" /\ SendCommand(ClientEps, "CHECKPOINT")
           \/ pc'[CN] = "stop_tx" /\ SendCommand(HostEps, "STOP")
    BY <1>0, GotoOwn DEF ControllerCheckpoint, ControllerStop, ControllerUnchanged
  <1>2. ASSUME NEW i \in EN PROVE Kept(i)
    <2>0. /\ Near(i) /\ Local(i) /\ Remote(i)
          /\ To("START", i) \in Msg /\ To("STOP", i) \in Msg /\ To("CHECKPOINT", i) \in Msg
      BY <1>0, CtrlNear, FlowMsgs DEF FlowInv, Commands
    <2>1. Local(i)'
      BY <1>1, <2>0, KeepsLocal DEF Steady
    <2>2. /\ Unused(Inlet(i)) /\ rxc[Inlet(i)] = <<>>
          /\ link[Cep(i)] # "accepted"
          /\ link[Cep(i)] = "up" => Waiting(i) \/ GaveUp(i)
      BY <1>1, <2>0 DEF Remote, LivePC, RunPC, OpenPC, Collects, Unused, Replied
    <2>3. Slots(Inlet(i))' <= 1 /\ rxc'[Inlet(i)] = <<>>
      BY <1>1, <2>2, Expecting
    <2>4. ~InRow(i)'
      <3>1. /\ checkpoint[i].kind = "NONE" \/ checkpoint[i] = Delta(i, rounds)
            /\ summary[i].kind = "NONE"
        BY <1>1 DEF FlowInv, Books, LivePC, RunPC, OpenPC
      <3>2. checkpoint[i] # Delta(i, rounds + 1) /\ summary[i] # Total(i, rounds)
        BY <1>0, <3>1 DEF Delta, Total
      <3> QED
        BY <1>1, <3>2 DEF InRow, RoundPC, StopPC, Delta, Total, Cep
    <2>5. Collects(i)'
      BY <1>1, <2>3, <2>4 DEF Collects, OpenPC, Inlet
    <2>6. /\ Order(i)' \in Msg
          /\ Flight(i)' = Append(Flight(i), Order(i)') /\ Answer(i)' = Answer(i)
      <3>1. CASE pc'[CN] = "checkpoint_tx" /\ SendCommand(ClientEps, "CHECKPOINT")
        <4>1. Order(i)' = To("CHECKPOINT", i)
          BY <3>1 DEF Order, RoundPC, To, Command, Inlet
        <4> QED
          BY <1>1, <2>0, <2>2, <3>1, <4>1, Commanded DEF Commands
      <3>2. CASE pc'[CN] = "stop_tx" /\ SendCommand(HostEps, "STOP")
        <4>1. Order(i)' = To("STOP", i)
          BY <3>2 DEF Order, RoundPC, To, Command, Inlet
        <4>2. ClientEps \subseteq HostEps
          BY EndpointFacts
        <4> QED
          BY <1>1, <2>0, <2>2, <3>2, <4>1, <4>2, Commanded DEF Commands
      <3> QED
        BY <1>1, <3>1, <3>2
    <2>7. /\ Reported(i)' = Reported(i) /\ pc'[i] = pc[i] /\ snap'[i] = snap[i]
      BY <2>0, NearFacts
    <2>8. Waiting(i) => Waiting(i)'
      <3> SUFFICES ASSUME Waiting(i) PROVE Waiting(i)'
        OBVIOUS
      <3>1. /\ Flight(i) = <<>> => Flight(i)' = <<Order(i)'>>
            /\ Flight(i) = <<To("START", i)>> => Flight(i)' = <<To("START", i), Order(i)'>>
        BY <2>0, <2>6, ShortQueues, Zenon
      <3>2. To("START", i)' = To("START", i)
        BY DEF To, Command, Inlet
      <3>3. pc'[CN] \notin OpenPC /\ pc[CN] \in OpenPC
        BY <1>1 DEF OpenPC
      <3>4. \/ Reported(i)' /\ Flight(i)' = <<To("START", i)', Order(i)'>>
            \/ pc'[i] = "bench" /\ Flight(i)' = <<Order(i)'>>
        BY <2>7, <3>1, <3>2, <3>3 DEF Waiting
      <3> QED
        BY <1>1, <2>4, <2>6, <2>7, <3>3, <3>4 DEF Waiting
    <2>9. GaveUp(i) => GaveUp(i)'
      BY <1>1, <2>6, <2>7 DEF GaveUp, OpenPC
    <2>10. Remote(i)'
      BY <1>1, <2>2, <2>5, <2>8, <2>9 DEF Remote, LinkPC, RunPC, OpenPC, RoundPC, StopPC
    <2> QED
      BY <1>1, <2>1, <2>10 DEF Kept
  <1>3. Books'
    <2>1. \A i \in EN : Delta(i, rounds)' = Delta(i, rounds)
      BY <1>1 DEF Delta, Cep
    <2> QED
      BY <1>1, <2>1 DEF FlowInv, Books, LivePC, LinkPC, RunPC, OpenPC, RoundPC, StopPC
  <1> QED
    BY <1>2, <1>3 DEF FlowInv, Kept

LEMMA OneUsed ==
  ASSUME NEW r \in Seq(RecvSizes), NEW c \in Seq(Completions), c # <<>>, Len(r) + Len(c) <= 1
  PROVE  r = <<>> /\ Tail(c) = <<>>
  <1>1. Len(c) \in Nat \ {0} /\ Tail(c) \in Seq(Completions) /\ Len(Tail(c)) = Len(c) - 1
    BY TailFacts
  <1>2. Len(r) \in Nat
    OBVIOUS
  <1>3. Len(r) = 0 /\ Len(c) = 1
    <2> DEFINE m == Len(r)
               n == Len(c)
    <2>1. m \in Nat /\ n \in Nat \ {0} /\ m + n <= 1
      BY <1>1, <1>2
    <2> HIDE DEF m, n
    <2>2. m = 0 /\ n = 1
      BY <2>1
    <2> QED
      BY <2>2 DEF m, n
  <1>4. Len(Tail(c)) = 0
    BY <1>1, <1>3
  <1>5. \A T : \A s \in Seq(T) : s # <<>> => Len(s) \in Nat \ {0}
    BY EmptySeq
  <1>6. r = <<>>
    BY <1>3, <1>5, Zenon
  <1>7. Tail(c) = <<>>
    BY <1>1, <1>4, <1>5, Zenon
  <1> QED
    BY <1>6, <1>7

\* It reads what one client has sent: what it expects, and the last of that.
LEMMA InletRead ==
  ASSUME TypeOK, NEW j \in EN, Collects(j), Near(j), ReadRx(Inlet(j)), UNCHANGED <<sq, rq, buf>>
  PROVE  /\ ~Unused(Inlet(j)) /\ Unused(Inlet(j))' /\ Slots(Inlet(j))' <= 1
         /\ rxc'[Inlet(j)] = <<>>
         /\ buf[Inlet(j)] = Expected(j) /\ Head(rxc[Inlet(j)]).len = LenOf(Expected(j))
         /\ Answer(j) # <<>> /\ Answer(j)' = Tail(Answer(j)) /\ Flight(j)' = Flight(j)
         /\ \A k \in EN : k # j => Far(k)
  <1>0. /\ Inlet(j) \in Endpoint /\ Rev(Inlet(j)) = Cep(j)
        /\ rq[Inlet(j)] \in Seq(RecvSizes) /\ rxc[Inlet(j)] \in Seq(Completions)
        /\ Cep(j) \in Endpoint /\ Rev(Cep(j)) = Inlet(j)
    BY FlowMsgs, CepFacts DEF TypeOK, FabricTypeOK
  <1>1. /\ rxc[Inlet(j)] # <<>> /\ rxc'[Inlet(j)] = Tail(rxc[Inlet(j)])
        /\ \A d \in Endpoint : d # Inlet(j) => rxc'[d] = rxc[d]
    BY <1>0, ReadOwn
  <1>2. rq[Inlet(j)] = <<>> /\ rxc'[Inlet(j)] = <<>>
    <2>1. Len(rq[Inlet(j)]) + Len(rxc[Inlet(j)]) <= 1
      BY DEF Collects, Slots
    <2> QED
      BY <1>0, <1>1, <2>1, OneUsed
  <1>3. rq'[Inlet(j)] = <<>>
    BY <1>2
  <1>4. Slots(Inlet(j))' <= 1
    <2>1. Len(rq'[Inlet(j)]) = 0
      BY <1>3
    <2>2. Len(rxc'[Inlet(j)]) = 0
      BY <1>2
    <2> QED
      BY <2>1, <2>2 DEF Slots, Inlet
  <1>5. Untouched(Cep(j))
    BY NearFacts
  <1>6. Answer(j) # <<>> /\ Answer(j)' = Tail(Answer(j))
    BY <1>0, <1>1, <1>2, <1>5, OnWayRead DEF Answer, Untouched
  <1>7. Flight(j)' = Flight(j)
    BY <1>0, <1>5, OnWaySame DEF Flight, Untouched
  <1>8. ASSUME NEW k \in EN, k # j PROVE Far(k)
    <2>1. Inlet(k) \in Endpoint /\ Inlet(k) = <<CN, k>> /\ Inlet(j) = <<CN, j>>
      BY FlowMsgs
    <2>2. <<CN, k>> # <<CN, j>>
      BY <1>8
    <2>3. rxc'[Inlet(k)] = rxc[Inlet(k)]
      BY <1>1, <2>1, <2>2
    <2> QED
      BY <2>3 DEF Far, Untouched
  <1> QED
    BY <1>1, <1>2, <1>3, <1>4, <1>6, <1>7, <1>8 DEF Collects, Unused, Inlet

\* A confirmation.
LEMMA ConfirmTaken ==
  ASSUME TypeOK, OwnEvents, FlowInv, CollectConfirm, crashed' = crashed
  PROVE  FlowInv'
  <1>0. CN \in Node /\ CN \in Listener /\ ControllerStep /\ counter[CN] \in Int
    BY NodeFacts DEF ControllerStep, TypeOK
  <1>1. /\ pc[CN] = "connect_rx"
        /\ UNCHANGED <<link, eq, sq, rq, buf, rounds, checkpoint, summary>>
    BY DEF CollectConfirm, ControllerUnchanged
  <1>2. PICK j \in EN :
          /\ ReadRx(Inlet(j))
          /\ IF Head(rxc[Inlet(j)]).len # IntSize
             THEN Goto(CN, "failed") /\ UNCHANGED counter
             ELSE /\ Count(CN, IF buf[Inlet(j)].kind = "CONNECTED" THEN counter[CN] + 1
                               ELSE counter[CN])
                  /\ UNCHANGED pc
    BY DEF CollectConfirm, ClientEps, Inlet
  <1>3. Near(j) /\ Local(j) /\ Remote(j) /\ Collects(j)
    BY <1>0, <1>1, CtrlNear DEF FlowInv, Remote, LivePC, LinkPC
  <1>4. /\ ~Unused(Inlet(j)) /\ Unused(Inlet(j))' /\ Slots(Inlet(j))' <= 1
        /\ rxc'[Inlet(j)] = <<>> /\ rxc[Inlet(j)] # <<>>
        /\ buf[Inlet(j)] = Expected(j) /\ Head(rxc[Inlet(j)]).len = LenOf(Expected(j))
        /\ Answer(j) # <<>> /\ Answer(j)' = Tail(Answer(j)) /\ Flight(j)' = Flight(j)
        /\ \A k \in EN : k # j => Far(k)
    BY <1>1, <1>2, <1>3, InletRead DEF ReadRx
  <1>5. pc' = pc /\ counter'[CN] = counter[CN] + 1
    <2>1. Expected(j).kind = "CONNECTED" /\ LenOf(Expected(j)) = IntSize
      BY <1>1 DEF Expected, LinkPC, Command, LenOf, Commands
    <2>2. Count(CN, counter[CN] + 1) /\ UNCHANGED pc
      BY <1>2, <1>4, <2>1
    <2> QED
      BY <1>0, <2>2 DEF Count, TypeOK
  <1>6. Desk
    BY <1>1, <1>5 DEF Desk
  <1>7. Local(j)'
    BY <1>1, <1>3, KeepsLocal DEF Steady
  <1>8. /\ Reported(j)' = Reported(j) /\ Calling(j)' = Calling(j) /\ Attached(j)' = Attached(j)
        /\ Touring(j)' = Touring(j) /\ pc'[j] = pc[j]
    BY <1>3, NearFacts
  <1>9. link[Cep(j)] # "accepted"
    BY <1>1, <1>3, <1>4 DEF Remote, LivePC, LinkPC
  <1>10. link[Cep(j)] = "up" => /\ Answer(j)' = <<>> /\ Greeted(j)'
                                /\ pc[j] = "failed" \/ Reported(j)
    <2> SUFFICES ASSUME link[Cep(j)] = "up"
                 PROVE  /\ Answer(j)' = <<>> /\ Greeted(j)'
                        /\ pc[j] = "failed" \/ Reported(j)
      OBVIOUS
    <2>1. Greeted(j)
      BY <1>1, <1>3 DEF Remote, LivePC, LinkPC
    <2>2. Answer(j) = <<Expected(j)>> /\ (pc[j] = "failed" \/ Reported(j))
      BY <1>4, <2>1 DEF Greeted
    <2>3. Answer(j)' = <<>>
      BY <1>4, <2>2, ShortQueues, Zenon
    <2>4. KeysOf(Inlet(j))' = KeysOf(Inlet(j)) /\ To("CONNECT", j)' = To("CONNECT", j)
      BY DEF KeysOf, Inlet, To, Command
    <2> QED
      BY <1>4, <1>8, <2>1, <2>2, <2>3, <2>4 DEF Greeted
  <1>11. Remote(j)'
    <2>1. Collects(j)'
      BY <1>1, <1>4, <1>5 DEF Collects, Inlet
    <2> QED
      BY <1>1, <1>4, <1>5, <1>9, <1>10, <2>1 DEF Remote, LinkPC, RunPC, OpenPC, RoundPC, StopPC
  <1>12. Done(j)'
    <2>1. Cep(j) \in Link
      BY CepFacts
    <2>2. link[Cep(j)] \in {"closed", "requested", "down", "up"}
      BY <1>9, <2>1 DEF TypeOK, FabricTypeOK, LinkStates
    <2> QED
      BY <1>1, <1>4, <1>8, <1>10, <2>2 DEF Done
  <1>13. ASSUME NEW k \in EN, k # j PROVE Kept(k)
    <2>1. Near(k) /\ Far(k) /\ Steady(k) /\ Mail(k)
      BY <1>0, <1>1, <1>4, <1>5, <1>13, CtrlNear DEF Steady, Mail
    <2> QED
      BY <1>6, <2>1, Bystander DEF FlowInv
  <1>14. \A i \in EN : Kept(i)
    BY <1>7, <1>11, <1>12, <1>13 DEF Kept
  <1>15. counter'[CN] <= Cardinality({i \in EN : Done(i)})'
    <2> DEFINE T == {i \in EN : Done(i)}
               U == {i \in EN : Done(i)'}
    <2>1. T \in SUBSET EN /\ U \in SUBSET EN /\ j \notin T /\ j \in U
      BY <1>4, <1>12 DEF Done
    <2>2. T \subseteq U
      BY <1>1, <1>5, <1>14 DEF Kept
    <2>3. counter[CN] <= Cardinality(T)
      BY <1>1 DEF FlowInv, Books
    <2> HIDE DEF T, U
    <2>4. counter[CN] + 1 <= Cardinality(U)
      BY <1>0, <2>1, <2>2, <2>3, CountedMore
    <2> QED
      BY <1>5, <2>4 DEF U
  <1>16. Books'
    <2>1. \A i \in EN : Delta(i, rounds)' = Delta(i, rounds)
      BY <1>1 DEF Delta, Cep
    <2> QED
      BY <1>1, <1>5, <1>15, <2>1 DEF FlowInv, Books, LivePC, LinkPC, RunPC, OpenPC, RoundPC, StopPC
  <1> QED
    BY <1>14, <1>16 DEF FlowInv, Kept

\* A row of the array.
LEMMA OtherRow ==
  ASSUME TypeOK, NEW k \in EN, Near(k), Far(k), link' = link, eq' = eq, pc' = pc, rounds' = rounds,
         pc[CN] \in {"checkpoint_rx", "stop_rx"},
         checkpoint'[k] = checkpoint[k], summary'[k] = summary[k], Local(k), Remote(k)
  PROVE  Kept(k) /\ InRow(k)' = InRow(k)
  <1>1. Local(k)'
    BY KeepsLocal DEF Steady
  <1>2. Expected(k)' = Expected(k) /\ InRow(k)' = InRow(k) /\ Order(k)' = Order(k)
    BY DEF Expected, InRow, Order, Delta, Total, Cep, Command, To, Inlet
  <1>3. Flight(k)' = Flight(k) /\ Answer(k)' = Answer(k)
    BY ViewSame
  <1>4. Reported(k)' = Reported(k) /\ pc'[k] = pc[k] /\ snap'[k] = snap[k]
    BY NearFacts
  <1>5. Collects(k)'
    <2>1. Slots(Inlet(k))' = Slots(Inlet(k)) /\ Unused(Inlet(k))' = Unused(Inlet(k))
      BY DEF Far, Untouched, Slots, Unused, Inlet
    <2>2. Collects(k)
      BY DEF Remote, LivePC, RunPC, RoundPC, StopPC
    <2> QED
      BY <1>2, <2>1, <2>2 DEF Collects, Far, Untouched, Inlet
  <1>6. To("START", k)' = To("START", k)
    BY DEF To, Command, Inlet
  <1>7. Waiting(k) => Waiting(k)'
    BY <1>2, <1>3, <1>4, <1>6 DEF Waiting
  <1>8. Replied(k) => Replied(k)'
    BY <1>2, <1>3, <1>4 DEF Replied
  <1>9. GaveUp(k) => GaveUp(k)'
    BY <1>2, <1>3, <1>4 DEF GaveUp
  <1>10. pc[CN] \in LivePC /\ pc[CN] \in RunPC /\ pc[CN] \notin LinkPC /\ pc[CN] # "wait_all"
    BY DEF LivePC, LinkPC, RunPC, RoundPC, StopPC
  <1>11. Remote(k)'
    BY <1>5, <1>7, <1>8, <1>9, <1>10 DEF Remote
  <1> QED
    BY <1>1, <1>2, <1>11 DEF Kept

LEMMA RowTaken ==
  ASSUME TypeOK, OwnEvents, FlowInv, CollectCheckpoint \/ CollectSummary, crashed' = crashed
  PROVE  FlowInv'
  <1>0. /\ CN \in Node /\ CN \in Listener /\ ControllerStep /\ counter[CN] \in Int
        /\ rounds \in Nat /\ checkpoint \in [EN -> Msg] /\ summary \in [EN -> Msg]
    BY NodeFacts, RoundsAssumption DEF ControllerStep, TypeOK
  <1>1. /\ pc[CN] \in {"checkpoint_rx", "stop_rx"} /\ Count(CN, counter[CN] + 1)
        /\ UNCHANGED <<link, eq, sq, rq, buf, pc, rounds>>
    BY DEF CollectCheckpoint, CollectSummary, ControllerUnchanged
  <1>2. PICK j \in EN :
          /\ ReadRx(Inlet(j))
          /\ \/ /\ pc[CN] = "checkpoint_rx" /\ checkpoint' = Row(checkpoint, Inlet(j))
                /\ summary' = summary
             \/ /\ pc[CN] = "stop_rx" /\ summary' = Row(summary, Inlet(j))
                /\ checkpoint' = checkpoint
    BY DEF CollectCheckpoint, CollectSummary, ClientEps, Inlet
  <1>3. Near(j) /\ Local(j) /\ Remote(j) /\ Collects(j)
    BY <1>0, <1>1, CtrlNear DEF FlowInv, Remote, LivePC, RunPC, RoundPC, StopPC
  <1>4. /\ ~Unused(Inlet(j)) /\ Unused(Inlet(j))' /\ Slots(Inlet(j))' <= 1
        /\ rxc'[Inlet(j)] = <<>> /\ rxc[Inlet(j)] # <<>>
        /\ buf[Inlet(j)] = Expected(j) /\ Head(rxc[Inlet(j)]).len = LenOf(Expected(j))
        /\ Answer(j) # <<>> /\ Answer(j)' = Tail(Answer(j)) /\ Flight(j)' = Flight(j)
        /\ \A k \in EN : k # j => Far(k)
    BY <1>1, <1>2, <1>3, InletRead DEF ReadRx
  <1>5. /\ Expected(j) = IF pc[CN] = "checkpoint_rx" THEN Delta(j, rounds + 1) ELSE Total(j, rounds)
        /\ Head(rxc[Inlet(j)]).len = TransferSize /\ Inlet(j)[2] = j
    <2>1. Expected(j) = IF pc[CN] = "checkpoint_rx" THEN Delta(j, rounds + 1) ELSE Total(j, rounds)
      BY <1>1 DEF Expected, LinkPC, RoundPC
    <2>2. LenOf(Expected(j)) = TransferSize
      BY <2>1 DEF LenOf, Delta, Total, Commands
    <2> QED
      BY <1>4, <2>1, <2>2 DEF Inlet
  <1>6. /\ pc[CN] = "checkpoint_rx" => /\ checkpoint'[j] = Delta(j, rounds + 1)
                                       /\ \A k \in EN : k # j => checkpoint'[k] = checkpoint[k]
                                       /\ summary' = summary
        /\ pc[CN] = "stop_rx" => /\ summary'[j] = Total(j, rounds)
                                 /\ \A k \in EN : k # j => summary'[k] = summary[k]
                                 /\ checkpoint' = checkpoint
    BY <1>0, <1>2, <1>4, <1>5 DEF Row
  <1>7. InRow(j)' /\ ~InRow(j) /\ Expected(j)' = Expected(j)
    <2>1. ~InRow(j)
      BY <1>3, <1>4 DEF Collects
    <2>2. InRow(j)'
      BY <1>1, <1>6 DEF InRow, RoundPC, StopPC, Delta, Total, Cep
    <2>3. Expected(j)' = Expected(j)
      BY <1>1 DEF Expected, Delta, Total, Cep, Command
    <2> QED
      BY <2>1, <2>2, <2>3
  <1>8. Local(j)'
    BY <1>1, <1>3, KeepsLocal DEF Steady
  <1>9. pc'[j] = pc[j] /\ snap'[j] = snap[j]
    BY <1>3, NearFacts
  <1>10. /\ pc[CN] \in LivePC /\ pc[CN] \in RunPC /\ pc[CN] \notin LinkPC \cup OpenPC
         /\ pc[CN] # "wait_all"
    BY <1>1 DEF LivePC, LinkPC, RunPC, OpenPC, RoundPC, StopPC
  <1>11. link[Cep(j)] # "accepted"
    BY <1>3, <1>10 DEF Remote
  <1>12. link[Cep(j)] = "up" => Replied(j)' \/ GaveUp(j)'
    <2> SUFFICES ASSUME link[Cep(j)] = "up" PROVE Replied(j)' \/ GaveUp(j)'
      OBVIOUS
    <2>1. (Replied(j) \/ GaveUp(j)) /\ Answer(j) = <<Expected(j)>>
      BY <1>3, <1>4, <1>7, <1>10 DEF Remote, Waiting, Replied, GaveUp
    <2>2. Answer(j)' = <<>>
      BY <1>4, <2>1, ShortQueues, Zenon
    <2>3. Replied(j) => Replied(j)'
      BY <1>1, <1>4, <1>7, <1>9, <2>2 DEF Replied
    <2>4. GaveUp(j) => GaveUp(j)'
      BY <1>9, <2>2 DEF GaveUp
    <2> QED
      BY <2>1, <2>3, <2>4
  <1>13. Remote(j)'
    <2>1. Collects(j)'
      BY <1>4, <1>1, <1>10 DEF Collects, Inlet
    <2> QED
      BY <1>1, <1>10, <1>11, <1>12, <2>1 DEF Remote
  <1>14. ASSUME NEW k \in EN, k # j PROVE Kept(k) /\ InRow(k)' = InRow(k)
    <2>1. Near(k) /\ Far(k)
      BY <1>0, <1>4, <1>14, CtrlNear
    <2>2. checkpoint'[k] = checkpoint[k] /\ summary'[k] = summary[k]
      BY <1>1, <1>6, <1>14
    <2> QED
      BY <1>1, <2>1, <2>2, OtherRow DEF FlowInv
  <1>15. \A i \in EN : Kept(i)
    BY <1>1, <1>8, <1>13, <1>14 DEF Kept
  <1>16. counter'[CN] <= Cardinality({i \in EN : InRow(i)})'
    <2> DEFINE T == {i \in EN : InRow(i)}
               U == {i \in EN : InRow(i)'}
    <2>1. T \in SUBSET EN /\ U \in SUBSET EN /\ j \notin T /\ j \in U
      BY <1>7
    <2>2. T \subseteq U
      BY <1>7, <1>14
    <2>3. counter[CN] <= Cardinality(T)
      BY <1>1 DEF FlowInv, Books
    <2>4. counter'[CN] = counter[CN] + 1
      BY <1>0, <1>1 DEF Count, TypeOK
    <2> HIDE DEF T, U
    <2>5. counter[CN] + 1 <= Cardinality(U)
      BY <1>0, <2>1, <2>2, <2>3, CountedMore
    <2> QED
      BY <2>4, <2>5 DEF U
  <1>17. Books'
    <2>1. pc'[CN] \in LivePC \ {"stop_rx"} => \A i \in EN : summary'[i].kind = "NONE"
      BY <1>1, <1>6, <1>10 DEF FlowInv, Books
    <2> QED
      BY <1>1, <1>10, <1>16, <2>1 DEF FlowInv, Books
  <1> QED
    BY <1>15, <1>17 DEF FlowInv, Kept

\* The end of a round.
LEMMA RoundEnded ==
  ASSUME TypeOK, OwnEvents, FlowInv, CheckpointDone, crashed' = crashed
  PROVE  FlowInv'
  <1>0. CN \in Node /\ ControllerStep /\ rounds \in Nat
    BY NodeFacts, RoundsAssumption DEF ControllerStep, TypeOK
  <1>1. /\ pc[CN] = "checkpoint_rx" /\ pc'[CN] = "timer" /\ counter[CN] = NumEN
        /\ rounds' = rounds + 1 /\ UNCHANGED <<link, sq, rq, rxc, buf, checkpoint, summary>>
    BY <1>0, GotoOwn DEF CheckpointDone, fabricVars
  <1>2. \A i \in EN : InRow(i)
    <2> DEFINE T == {i \in EN : InRow(i)}
    <2>1. T \in SUBSET EN /\ NumEN <= Cardinality(T)
      BY <1>1 DEF FlowInv, Books
    <2>2. T = EN
      <3> HIDE DEF T
      <3> QED
        BY <2>1, CountedNone
    <2> QED
      BY <2>2
  <1>3. ASSUME NEW i \in EN PROVE Kept(i)
    <2>0. Near(i) /\ Far(i) /\ Local(i) /\ Remote(i) /\ InRow(i)
      BY <1>0, <1>1, <1>2, CtrlNear DEF FlowInv, Far, Untouched
    <2>1. Local(i)'
      BY <1>1, <2>0, KeepsLocal DEF Steady
    <2>2. Flight(i)' = Flight(i) /\ Answer(i)' = Answer(i)
      BY <2>0, ViewSame
    <2>3. pc'[i] = pc[i] /\ snap'[i] = snap[i]
      BY <2>0, NearFacts
    <2>4. Unused(Inlet(i)) /\ Slots(Inlet(i)) <= 1
      BY <1>1, <2>0 DEF Remote, Collects, LivePC, RunPC, RoundPC
    <2>5. Collects(i)'
      <3>1. Unused(Inlet(i))' /\ Slots(Inlet(i))' <= 1 /\ rxc'[Inlet(i)] = <<>>
        BY <1>1, <2>4 DEF Unused, Slots, Inlet
      <3> QED
        BY <3>1 DEF Collects, Unused, Inlet
    <2>6. ~InRow(i)'
      BY <1>1 DEF InRow, RoundPC, StopPC
    <2>7. link[Cep(i)] = "up" => Waiting(i)' \/ GaveUp(i)'
      <3> SUFFICES ASSUME link[Cep(i)] = "up" PROVE Waiting(i)' \/ GaveUp(i)'
        OBVIOUS
      <3>1. Replied(i) \/ GaveUp(i)
        BY <1>1, <2>0 DEF Remote, LivePC, RunPC, RoundPC, Waiting
      <3>2. Replied(i) => Waiting(i)'
        BY <1>1, <2>0, <2>2, <2>3, <2>6 DEF Replied, Waiting, RoundPC, OpenPC
      <3>3. GaveUp(i) => GaveUp(i)'
        BY <2>0, <2>2, <2>3 DEF GaveUp
      <3> QED
        BY <3>1, <3>2, <3>3
    <2>8. link[Cep(i)] # "accepted"
      BY <1>1, <2>0 DEF Remote, LivePC, RunPC, RoundPC
    <2>9. Remote(i)'
      BY <1>1, <2>5, <2>7, <2>8 DEF Remote, LinkPC, RunPC, OpenPC
    <2> QED
      BY <1>1, <2>1, <2>9 DEF Kept
  <1>4. Books'
    <2>1. \A i \in EN : checkpoint'[i] = Delta(i, rounds)'
      BY <1>1, <1>2 DEF InRow, RoundPC, StopPC, Delta, Cep
    <2>2. rounds' > 0 /\ rounds' \in Nat
      BY <1>0, <1>1
    <2>3. \A i \in EN : summary'[i].kind = "NONE"
      BY <1>1 DEF FlowInv, Books, LivePC, RunPC, RoundPC
    <2> QED
      BY <1>1, <2>1, <2>2, <2>3 DEF Books, LinkPC
  <1> QED
    BY <1>3, <1>4 DEF FlowInv, Kept

LEMMA ControllerFlow ==
  ASSUME TypeOK, OwnEvents, GatherInv, FlowInv, ControllerStep, crashed' = crashed
  PROVE  FlowInv'
  <1>1. CASE WaitAllConn(CN)
    BY <1>1, WelcomeFlow
  <1>2. CASE ControllerConnect
    BY <1>2, ConnectOrdered
  <1>3. CASE CollectConfirm
    BY <1>3, ConfirmTaken
  <1>4. CASE ControllerStart
    BY <1>4, StartOrdered
  <1>5. CASE ControllerCheckpoint \/ ControllerStop
    BY <1>5, RoundOrdered
  <1>6. CASE CollectCheckpoint \/ CollectSummary
    BY <1>6, RowTaken
  <1>7. CASE CheckpointDone
    BY <1>7, RoundEnded
  <1>8. CASE \/ ConnectSent \/ StartSent \/ CheckpointSent \/ StopSent
             \/ SummaryDone \/ AwaitShutdown \/ ControllerDone \/ Exit(CN)
    BY <1>8, WaitsFlow
  <1> QED
    BY <1>1, <1>2, <1>3, <1>4, <1>5, <1>6, <1>7, <1>8 DEF ControllerStep

-----------------------------------------------------------------------------
(* The rows. *)

\* The account of the clients is right at the start and after every step.
LEMMA FlowInvInit == CrashInit => FlowInv
  <1> SUFFICES ASSUME CrashInit PROVE FlowInv
    OBVIOUS
  <1>1. /\ pc[CN] = "wait_all" /\ rounds = 0 /\ eq[CN] = <<>>
        /\ \A i \in EN : checkpoint[i].kind = "NONE" /\ summary[i].kind = "NONE"
    BY NodeFacts DEF CrashInit, Init, FabricInit, Garbage
  <1>2. Books
    BY <1>1 DEF Books
  <1>3. ASSUME NEW i \in EN PROVE Local(i) /\ Remote(i)
    <2>0. /\ Cep(i) \in Link /\ Cep(i) \in Endpoint /\ Inlet(i) \in Endpoint
          /\ i \in Node /\ i \in Host /\ i # CN /\ i \notin PN
      BY CepFacts DEF Inlet
    <2>1. /\ pc[i] = "dial" /\ peer[i] = CN /\ snap[i] = 0 /\ link[Cep(i)] = "closed"
          /\ sq[Cep(i)] = <<>> /\ rxc[Cep(i)] = <<>> /\ rq[Cep(i)] = <<>>
          /\ crashed = {}
      BY <2>0 DEF CrashInit, Init, FabricInit
    <2>2. \A e \in Endpoint : Slots(e) = 0 /\ Unused(e)
      <3> SUFFICES ASSUME NEW e \in Endpoint PROVE Slots(e) = 0 /\ Unused(e)
        OBVIOUS
      <3>1. rq[e] = <<>> /\ rxc[e] = <<>>
        BY DEF CrashInit, Init, FabricInit
      <3>2. Len(rq[e]) = 0
        BY <3>1
      <3>3. Len(rxc[e]) = 0
        BY <3>1
      <3> QED
        BY <3>1, <3>2, <3>3 DEF Slots, Unused
    <2>3. AtMostOneOpen(i)
      BY <2>2, ClientLinks DEF AtMostOneOpen
    <2>4. Local(i)
      BY <2>1, <2>3 DEF Local, Calling
    <2>5. DOMAIN eq[CN] = {}
      BY <1>1
    <2>6. Heard(i)
      BY <2>5 DEF Heard, Informed
    <2>7. Collects(i)
      BY <2>0, <2>2 DEF Collects, Unused
    <2>8. Remote(i)
      BY <1>1, <2>1, <2>6, <2>7 DEF Remote
    <2> QED
      BY <2>4, <2>8
  <1> QED
    BY <1>2, <1>3 DEF FlowInv

LEMMA FlowInvStep == CrashTypeOK /\ GatherInv /\ FlowInv /\ [CrashNext]_crashVars => FlowInv'
  <1> SUFFICES ASSUME CrashTypeOK, GatherInv, FlowInv, [CrashNext]_crashVars PROVE FlowInv'
    OBVIOUS
  <1>0. TypeOK /\ OwnEvents
    BY DEF CrashTypeOK
  <1>1. CASE UNCHANGED crashVars
    <2>1. /\ UNCHANGED <<fabricVars, peer, counter, snap, rounds, checkpoint, summary, crashed>>
          /\ pc' = pc
      BY <1>1 DEF crashVars, vars, nodeVars, faultVars
    <2>2. CN \in Node /\ CN \notin EN
      BY NodeFacts
    <2> QED
      BY <1>0, <2>1, <2>2, PlaceFlow DEF Seated
  <1>2. CASE \E p \in Node : ProcessStep(p)
    <2>1. PICK p \in Node : ProcessStep(p)
      BY <1>2
    <2>2. CASE p \in EN /\ Usual(ClientStep(p))
      BY <1>0, <2>2, ClientFlow DEF Usual
    <2>3. CASE p \in PN /\ Usual(ServerStep(p))
      BY <1>0, <2>3, ServerFlow DEF Usual
    <2>4. CASE Usual(ControllerStep)
      BY <1>0, <2>4, ControllerFlow DEF Usual
    <2>5. CASE WildEndpoint
      BY <2>5, WildFlow
    <2>6. CASE RxError(p) \/ TxError(p)
      BY <2>6, ErrorFlow
    <2> QED
      BY <2>1, <2>2, <2>3, <2>4, <2>5, <2>6 DEF ProcessStep
  <1>3. CASE \E l \in Link : Connect(l) \/ TurnDown(l)
    BY <1>0, <1>3, ConnectFlow, TurnDownFlow
  <1>4. CASE \E e \in Endpoint : Deliver(e) \/ Notice(e) \/ Flush(e)
    <2>1. PICK e \in Endpoint : Deliver(e) \/ Notice(e) \/ Flush(e)
      BY <1>4
    <2>2. CASE Deliver(e)
      BY <1>0, <2>2, DeliverFlow DEF Deliver, Usual
    <2> QED
      BY <2>1, <2>2, NoticeFlow, FlushFlow
  <1>5. CASE (\E p \in Node : Crash(p)) \/ (\E h \in Host : Restart(h))
    BY <1>5, CrashFlow, RestartFlow
  <1> QED
    BY <1>1, <1>2, <1>3, <1>4, <1>5 DEF CrashNext

LEMMA FlowRows == FlowInv => NoPartialRows
  <1> SUFFICES ASSUME FlowInv PROVE NoPartialRows
    OBVIOUS
  <1>1. pc[CN] = "timer" /\ rounds > 0 => \A i \in EN : checkpoint[i] = Delta(i, rounds)
    BY DEF FlowInv, Books, OpenPC
  <1>2. pc[CN] \in {"stop_cm", "finished"} => \A i \in EN : summary[i] = Total(i, rounds)
    BY DEF FlowInv, Books
  <1> QED
    BY <1>1, <1>2 DEF NoPartialRows

\* Whatever the controller writes out is complete: after each of its checkpoints every
\* row holds the counts its own client sent for that checkpoint, and at the end every
\* row of the summary the totals, although processes are killed and started again at
\* any point; a client lost in the middle of a round ends the run, not the round.
THEOREM RowsWhole == CrashSpec => []NoPartialRows
  <1> QED
    BY CrashTypesInit, CrashTypesStep, GatherInvInit, GatherInvStep,
       FlowInvInit, FlowInvStep, FlowRows, PTL DEF CrashSpec

=============================================================================
