--------------------------- MODULE ExchangeProofs ---------------------------
(***************************************************************************)
(* The messages of a whole run.  No process asks whose completion it has   *)
(* read, and the sizes and commands it expects are known only from where   *)
(* it stands; so the invariant says what the sequence of messages between  *)
(* each host and the controller is, and how far each side has got in it.   *)
(* The end of the module is what follows from it: the safety properties of *)
(* a run, and that it implements the abstract Session.                     *)
(***************************************************************************)
EXTENDS CoordinationProofs

\* How far the controller has come: everybody is connected; "start" has been sent;
\* "stop" has been sent.
Gathered == pc[CN] # "wait_all"
Started  == pc[CN] \notin {"wait_all", "connect_tx", "connect_rx"}
Closed   == pc[CN] \in {"stop_tx", "stop_rx", "stop_cm", "finished", "gone"}

\* The arrays the controller has asked for, and how many messages it has sent to h
\* by where it stands; how many of them h has read by where h stands.
Asked == IF pc[CN] \in {"checkpoint_tx", "checkpoint_rx"} THEN rounds + 1 ELSE rounds

Sent(h) ==
  IF ~Gathered THEN IF Pending(h) THEN 0 ELSE 1
  ELSE IF h \in PN THEN IF Closed THEN 2 ELSE 1
  ELSE IF ~Started THEN 2
  ELSE IF Closed THEN 4 + Asked ELSE 3 + Asked

Got(h) ==
  IF \/ pc[h] \in {"listen", "dial"}
     \/ pc[h] \in {"await_cm", "await_keys"} /\ peer[h] = CN
  THEN 0
  ELSE IF h \in PN THEN IF pc[h] \in {"wait_all", "serve"} THEN 1 ELSE 2
  ELSE IF pc[h] = "await_connect" \/ (pc[h] = "linked" /\ peer[h] = CN) THEN 1
  ELSE IF pc[h] = "bench" THEN 3 + snap[h]
  ELSE IF pc[h] \in {"finished", "gone"} THEN 4 + snap[h]
  ELSE 2

\* The k-th message to h, if the stop is the last-th: keys, connect, start, one
\* command per checkpoint, stop; a server gets keys and stop.
Line(h, last, k) ==
  IF k = 1 THEN KeysOf(<<CN, h>>)
  ELSE Command(IF h \in PN THEN "STOP"
               ELSE IF k = 2 THEN "CONNECT"
               ELSE IF k = 3 THEN "START"
               ELSE IF k = last THEN "STOP"
               ELSE "CHECKPOINT", <<CN, h>>)

LastLine == IF Closed THEN 4 + rounds ELSE 0

Script(h, k) == Line(h, LastLine, k)

\* The size of the receive that h has posted or posts next.
Expect(h) == IF Got(h) = 0 THEN KeysSize
             ELSE IF h \in EN /\ Got(h) = 3 THEN CtrlSize ELSE IntSize

\* From the controller to h: what was sent and not read is queued or has come, in
\* the order of the script, and h has posted what the next message needs.
Down(h) ==
  /\ Len(sq[<<CN, h>>]) + Len(rxc[Cep(h)]) + Got(h) = Sent(h)
  /\ \A k \in DOMAIN sq[<<CN, h>>] :
       sq[<<CN, h>>][k] = Script(h, Got(h) + Len(rxc[Cep(h)]) + k)
  /\ \A k \in DOMAIN rq[Cep(h)] : rq[Cep(h)][k] = Expect(h)
  /\ \A k \in DOMAIN rxc[Cep(h)] :
       /\ buf[Cep(h)] = Script(h, Got(h) + 1)
       /\ rxc[Cep(h)][k] = [size |-> Expect(h), len |-> LenOf(Script(h, Got(h) + 1))]

\* The answers the controller has posted a receive for; those client i has sent; the
\* last of them; and the one that is waited for.
Owed == IF ~Gathered THEN 0
        ELSE IF ~Started THEN 1
        ELSE IF Closed THEN 2 + Asked ELSE 1 + Asked

Answered(i) == IF pc[i] \in {"confirm_tx", "await_start"} THEN 1
               ELSE IF pc[i] = "bench" THEN 1 + snap[i]
               ELSE IF pc[i] \in {"finished", "gone"} THEN 2 + snap[i]
               ELSE 0

LastAnswer(i) == IF pc[i] \in {"finished", "gone"} THEN Total(i, snap[i])
                 ELSE IF snap[i] = 0 THEN Command("CONNECTED", Cep(i))
                 ELSE Delta(i, snap[i])

Wanted(i) == IF ~Started THEN Command("CONNECTED", Cep(i))
             ELSE IF Closed THEN Total(i, rounds) ELSE Delta(i, rounds + 1)

\* From client i to the controller: a receive is open for every answer that was
\* asked for and has not come, and what comes is what was asked for.
Up(i) ==
  /\ Len(rq[<<CN, i>>]) + Answered(i) = Owed + Len(sq[Cep(i)])
  /\ \A k \in DOMAIN sq[Cep(i)] :
       /\ sq[Cep(i)][k] = LastAnswer(i)
       /\ Answered(i) > 1 => buf[Cep(i)] = LastAnswer(i)
  /\ \A k \in DOMAIN rq[<<CN, i>>] : rq[<<CN, i>>][k] = LenOf(Wanted(i))
  /\ \A k \in DOMAIN rxc[<<CN, i>>] :
       /\ buf[<<CN, i>>] = Wanted(i)
       /\ rxc[<<CN, i>>][k] = [size |-> LenOf(Wanted(i)), len |-> LenOf(Wanted(i))]

\* One receive at most is open for client i, and the controller waits for no more
\* than it has posted.
SlotsOf(i) ==
  /\ Slots(<<CN, i>>) <= 1
  /\ pc[CN] \in {"wait_all", "start_tx", "timer", "stop_cm", "finished", "gone"} => Slots(<<CN, i>>) = 0
  /\ pc[CN] \in {"connect_tx", "checkpoint_tx", "stop_tx"} => Slots(<<CN, i>>) = 1

\* A client has cut its counts at most as often as it was asked to.
Cuts(i) ==
  /\ pc[i] \notin {"bench", "finished", "gone"} => snap[i] = 0
  /\ snap[i] <= Asked
  /\ pc[i] \in {"finished", "gone"} => Closed /\ snap[i] = rounds

\* Every send of a client to the controller is queued, has its completion in cq_tx,
\* or was waited for; only the first is waited for.
Spent(i) == cqtx[i] + (IF pc[i] \in {"await_start", "bench", "finished", "gone"} THEN 1 ELSE 0)

TxCount(i) == Spent(i) + Len(sq[Cep(i)]) = Answered(i)

\* A client that is done has left nothing open, on whatever connection.
Idle(i) == pc[i] \in {"finished", "gone"} => \A q \in Listener : Slots(<<i, q>>) = 0

\* The row of client i, once its receive is used up, is the one of this round.
Rows(i) ==
  /\ pc[CN] = "checkpoint_rx" /\ Slots(<<CN, i>>) = 0 => checkpoint[i] = Delta(i, rounds + 1)
  /\ pc[CN] = "timer" /\ rounds > 0 => checkpoint[i] = Delta(i, rounds)
  /\ pc[CN] = "stop_rx" /\ Slots(<<CN, i>>) = 0 => summary[i] = Total(i, rounds)
  /\ pc[CN] \in {"stop_cm", "finished", "gone"} => summary[i] = Total(i, rounds)

\* Between client i and server s there are the keys and nothing else, and no
\* connection before everybody has come to the controller.
Served(s) == pc[s] \in {"wait_all", "serve", "finished", "gone"}

DataEnd(i, s) ==
  /\ sq[<<i, s>>] = <<>>
  /\ rq[<<s, i>>] = <<>> /\ rxc[<<s, i>>] = <<>>
  /\ sq[<<s, i>>] # <<>> => buf[<<s, i>>] = KeysOf(<<s, i>>)
  /\ sq[<<s, i>>] # <<>> \/ rxc[<<i, s>>] # <<>> \/ HoldsKey(i, s) => Served(s)
  /\ \A k \in DOMAIN rq[<<i, s>>] : rq[<<i, s>>][k] = KeysSize
  /\ \A k \in DOMAIN rxc[<<i, s>>] : rxc[<<i, s>>][k] = [size |-> KeysSize, len |-> KeysSize]
  /\ ~Gathered => link[<<i, s>>] = "closed"

\* A server sends nothing to the controller; it listens before it dials.
ServerEnd(s) ==
  /\ sq[Cep(s)] = <<>> /\ rq[<<CN, s>>] = <<>> /\ rxc[<<CN, s>>] = <<>>
  /\ Slots(Cep(s)) <= 1
  /\ pc[s] \in {"listen", "dial", "wait_all"} => Slots(Cep(s)) = 0
  /\ pc[s] # "listen" => listening[s]
  /\ pc[s] \in {"finished", "gone"} => Closed
  /\ ~Gathered => \A k \in DOMAIN eq[s] : eq[s][k].kind # "CONNREQ"
  /\ pc[s] \in {"listen", "dial", "await_cm"} =>
       IF link[Cep(s)] \in {"up", "down"}
       THEN eq[s] # <<>> /\ Head(eq[s]).kind = "CONNECTED" ELSE eq[s] = <<>>

\* A host that is past its connection to the controller has it.
Handshook(h) ==
  /\ pc[h] \in {"listen", "dial"} => link[Cep(h)] = "closed"
  /\ Gathered => link[Cep(h)] \in {"up", "down"}
  /\ ~Gathered => Handshake(h)

\* Keys that are still queued are in the buffer, or the first "connect" covers them.
KeysWait(h) ==
  \A k \in DOMAIN sq[<<CN, h>>] : sq[<<CN, h>>][k].kind = "KEYS" =>
    \/ buf[<<CN, h>>] = KeysOf(<<CN, h>>)
    \/ h \in EN /\ buf[<<CN, h>>] = Command("CONNECT", <<CN, h>>)

Ready == {h \in Host : ~Pending(h)}

\* The invariant.  What the controller has counted is at most the number of hosts
\* whose connection, or whose receive, is used up: it counts enough only when all are.
Exchange ==
  /\ \A p \in Node : pc[p] # "failed" /\ \A k \in DOMAIN eq[p] : eq[p][k].kind # "REFUSED"
  /\ listening[CN]
  /\ ~Gathered => counter[CN] <= Cardinality(Ready)
  /\ pc[CN] \in {"connect_rx", "checkpoint_rx", "stop_rx"} => counter[CN] <= Cardinality(Confirmed)
  /\ pc[CN] \in {"wait_all", "connect_tx", "connect_rx", "start_tx"} => rounds = 0
  /\ Started => AllEquipped
  /\ ~Closed => \A i \in EN : \A k \in DOMAIN eq[i] : eq[i][k].kind = "CONNECTED"
  /\ \A h \in Host : Handshook(h) /\ Down(h) /\ KeysWait(h)
  /\ \A s \in PN : ServerEnd(s)
  /\ \A i \in EN : Up(i) /\ SlotsOf(i) /\ Cuts(i) /\ Idle(i) /\ TxCount(i) /\ Rows(i)
  /\ \A i \in EN, s \in PN : DataEnd(i, s)

-----------------------------------------------------------------------------
(* Who moves: host h, the controller, the network, or neither end of h's    *)
(* connection to the controller.                                            *)

HostAct(h) == (h \in EN /\ ClientStep(h)) \/ (h \in PN /\ ServerStep(h))

BooksKept == UNCHANGED <<rounds, checkpoint, summary>>

HostStill(h) ==
  Elsewhere(h) /\ cqtx'[h] = cqtx[h] /\ (h \in EN => snap'[h] = snap[h])

ControlStill == Elsewhere(CN) /\ BooksKept

LEMMA ClientBooks ==
  ASSUME TypeOK, NEW i \in EN, ClientStep(i)
  PROVE  /\ BooksKept
         /\ \A j \in EN : j # i => snap'[j] = snap[j]
         /\ \A p \in Node : p # i => cqtx'[p] = cqtx[p]
  <1>1. CASE ConfirmSent(i)
    BY <1>1 DEF ConfirmSent, ReadTx, BooksKept, TypeOK, FabricTypeOK
  <1>2. CASE BenchCommand(i)
    <2>1. UNCHANGED <<cqtx, rounds, checkpoint, summary>>
          /\ (snap' = snap \/ \E n : snap' = [snap EXCEPT ![i] = n])
      BY <1>2 DEF BenchCommand
    <2> QED
      BY <2>1 DEF BooksKept, TypeOK
  <1>3. CASE HostStep(i)
    BY <1>3 DEF HostStep, HostDial, ConnectEvent, ConnectKeys, Exit, BooksKept
  <1>4. CASE AwaitConnect(i) \/ RecvConnect(i) \/ DialNext(i) \/ Confirm(i) \/ RecvStart(i)
    BY <1>4 DEF AwaitConnect, RecvConnect, DialNext, Confirm, RecvStart, BooksKept
  <1> QED
    BY <1>1, <1>2, <1>3, <1>4 DEF ClientStep

LEMMA ServerBooks ==
  ASSUME NEW s \in PN, ServerStep(s)
  PROVE  BooksKept /\ UNCHANGED <<snap, cqtx>>
  BY DEF ServerStep, HostStep, HostDial, ConnectEvent, ConnectKeys, Exit, ServerListen,
         WaitAllConn, ServerReady, ServeCommand, ServeEvent, BooksKept

LEMMA ControllerBooks ==
  ASSUME TypeOK, ControllerStep
  PROVE  snap' = snap /\ \A p \in Node : p # CN => cqtx'[p] = cqtx[p]
  <1>1. CASE ConnectSent \/ StartSent \/ CheckpointSent \/ StopSent
    BY <1>1 DEF ConnectSent, StartSent, CheckpointSent, StopSent, CommandsSent, ReadTx,
                ControllerUnchanged, TypeOK, FabricTypeOK
  <1>2. CASE WaitAllConn(CN) \/ AwaitShutdown \/ Exit(CN)
    BY <1>2 DEF WaitAllConn, AwaitShutdown, Exit
  <1>3. CASE \/ ControllerConnect \/ ControllerStart \/ ControllerCheckpoint
             \/ ControllerStop \/ CollectConfirm \/ CollectCheckpoint \/ CollectSummary
    BY <1>3 DEF ControllerConnect, ControllerStart, ControllerCheckpoint, ControllerStop,
                CollectConfirm, CollectCheckpoint, CollectSummary, ControllerUnchanged
  <1>4. CASE CheckpointDone \/ SummaryDone \/ ControllerDone
    BY <1>4 DEF CheckpointDone, SummaryDone, ControllerDone, fabricVars
  <1> QED
    BY <1>1, <1>2, <1>3, <1>4 DEF ControllerStep

LEMMA Parties ==
  ASSUME TypeOK, OwnEvents, [Next]_vars, NEW h \in Host
  PROVE  \/ HostAct(h) /\ ControlStill
         \/ ControllerStep /\ HostStill(h)
         \/ Delivery
         \/ HostStill(h) /\ ControlStill
  <1>0. h \in Node /\ CN \in Node /\ h # CN /\ CN \notin EN /\ CN \notin PN
        /\ Host = EN \cup PN /\ EN \cap PN = {}
    BY NodeFacts
  <1>1. CASE HostAct(h)
    <2>1. Elsewhere(CN)
      BY <1>0, <1>1, ClientOwn, ServerOwn DEF HostAct, OnlyItsOwn, Elsewhere
    <2>2. BooksKept
      BY <1>1, ClientBooks, ServerBooks DEF HostAct
    <2> QED
      BY <1>1, <2>1, <2>2 DEF ControlStill
  <1>2. CASE ControllerStep
    <2>1. Elsewhere(h)
      BY <1>0, <1>2, ControllerOwn DEF OnlyItsOwn, Elsewhere
    <2> QED
      BY <1>0, <1>2, <2>1, ControllerBooks DEF HostStill
  <1>3. ASSUME ~HostAct(h), ~ControllerStep, ~Delivery
        PROVE  HostStill(h) /\ ControlStill
    <2>1. Elsewhere(h) /\ Elsewhere(CN)
      BY <1>0, <1>3, StepOwn DEF HostAct
    <2>2. BooksKept /\ cqtx'[h] = cqtx[h] /\ (h \in EN => snap'[h] = snap[h])
      <3>1. CASE \E i \in EN : ClientStep(i)
        BY <1>0, <1>3, <3>1, ClientBooks DEF HostAct
      <3>2. CASE \E s \in PN : ServerStep(s)
        BY <3>2, ServerBooks
      <3>3. CASE NetworkStep
        BY <1>3, <3>3 DEF NetworkStep, Network, Delivery, Establish, nodeVars, BooksKept
      <3>4. CASE UNCHANGED vars
        BY <3>4 DEF vars, fabricVars, nodeVars, BooksKept
      <3> QED
        BY <1>3, <3>1, <3>2, <3>3, <3>4 DEF Next
    <2> QED
      BY <2>1, <2>2 DEF HostStill, ControlStill
  <1> QED
    BY <1>1, <1>2, <1>3

-----------------------------------------------------------------------------
(* The books of host h and the controller. *)

LEMMA Lengths ==
  ASSUME TypeOK, NEW e \in Endpoint
  PROVE  /\ Len(sq[e]) \in Nat /\ Len(rq[e]) \in Nat /\ Len(rxc[e]) \in Nat
         /\ Len(sq[e]) = 0 <=> sq[e] = <<>>
         /\ Len(rq[e]) = 0 <=> rq[e] = <<>>
         /\ Len(rxc[e]) = 0 <=> rxc[e] = <<>>
  BY QueueTypes DEF QueueOK

LEMMA Numbers ==
  ASSUME TypeOK
  PROVE  /\ rounds \in Nat /\ Asked \in Nat /\ Owed \in Nat
         /\ \A h \in Host : Got(h) \in Nat /\ Sent(h) \in Nat
         /\ \A i \in EN : snap[i] \in Nat /\ Answered(i) \in Nat
  <1>1. rounds \in Nat /\ \A i \in EN : snap[i] \in Nat
    BY RoundsAssumption DEF TypeOK
  <1>2. Asked \in Nat
    BY <1>1 DEF Asked
  <1>3. Owed \in Nat
    BY <1>2 DEF Owed
  <1>4. ASSUME NEW h \in Host PROVE Sent(h) \in Nat
    BY <1>2 DEF Sent
  <1>5. ASSUME NEW h \in Host PROVE Got(h) \in Nat
    BY <1>1, NodeFacts DEF Got
  <1>6. ASSUME NEW i \in EN PROVE Answered(i) \in Nat
    BY <1>1 DEF Answered
  <1> QED
    BY <1>1, <1>2, <1>3, <1>4, <1>5, <1>6

LEMMA HostParts ==
  ASSUME Exchange, NEW h \in Host
  PROVE  Handshook(h) /\ Down(h) /\ KeysWait(h)
  BY DEF Exchange

LEMMA ClientParts ==
  ASSUME Exchange, NEW i \in EN
  PROVE  Up(i) /\ SlotsOf(i) /\ Cuts(i) /\ Idle(i) /\ TxCount(i) /\ Rows(i)
  BY DEF Exchange

LEMMA ServerParts ==
  ASSUME Exchange, NEW s \in PN
  PROVE  ServerEnd(s) /\ \A i \in EN : DataEnd(i, s)
  BY DEF Exchange

\* What a client has answered follows from what it has got.
LEMMA AnsweredByGot ==
  ASSUME TypeOK, NEW i \in EN
  PROVE  /\ Got(i) <= 2 => Answered(i) <= 1
         /\ Got(i) > 2 => Answered(i) = Got(i) - 2
         /\ Answered(i) >= 1 => Got(i) >= 2
  <1>1. snap[i] \in Nat /\ i \notin PN
    BY Numbers, NodeFacts
  <1> QED
    BY <1>1 DEF Got, Answered

\* What the controller expects follows from what it has sent.
LEMMA OwedBySent ==
  ASSUME TypeOK, NEW i \in EN
  PROVE  /\ ~Gathered => Sent(i) <= 1 /\ Owed = 0
         /\ Gathered /\ ~Started => Sent(i) = 2 /\ Owed = 1
         /\ Started => Gathered /\ Owed = Sent(i) - 2 /\ Sent(i) > 2
  <1>1. Asked \in Nat /\ i \notin PN
    BY Numbers, NodeFacts
  <1> QED
    BY <1>1 DEF Sent, Owed, Gathered, Started, Closed

LEMMA GotAll ==
  ASSUME TypeOK, Exchange, NEW h \in Host
  PROVE  /\ Got(h) <= Sent(h)
         /\ Got(h) = Sent(h) => sq[<<CN, h>>] = <<>> /\ rxc[Cep(h)] = <<>>
         /\ Len(sq[<<CN, h>>]) + Len(rxc[Cep(h)]) + Got(h) = Sent(h)
  <1> DEFINE a == Len(sq[<<CN, h>>])
             b == Len(rxc[Cep(h)])
             g == Got(h)
             t == Sent(h)
  <1>1. a + b + g = t
    BY HostParts DEF Down
  <1>2. <<CN, h>> \in Endpoint /\ Cep(h) \in Endpoint
    BY HostFacts
  <1>3. a \in Nat /\ (a = 0 => sq[<<CN, h>>] = <<>>)
    BY <1>2, Lengths
  <1>4. b \in Nat /\ (b = 0 => rxc[Cep(h)] = <<>>)
    BY <1>2, Lengths
  <1>5. g \in Nat /\ t \in Nat
    BY Numbers
  <1> HIDE DEF a, b, g, t
  <1>6. g <= t /\ (g = t => a = 0 /\ b = 0)
    BY <1>1, <1>3, <1>4, <1>5
  <1> QED
    BY <1>1, <1>3, <1>4, <1>6 DEF a, b, g, t

LEMMA Ledger ==
  ASSUME TypeOK, Exchange, NEW i \in EN
  PROVE  /\ Answered(i) <= Owed
         /\ sq[Cep(i)] # <<>> => /\ Answered(i) = Owed /\ Len(sq[Cep(i)]) = 1
                                 /\ Len(rq[<<CN, i>>]) = 1 /\ rxc[<<CN, i>>] = <<>>
         /\ Started => Answered(i) >= 1 /\ Got(i) >= 2
  <1> DEFINE a == Answered(i)
             g == Got(i)
             t == Sent(i)
             m == Len(sq[Cep(i)])
             n == Len(rq[<<CN, i>>])
             c == Len(rxc[<<CN, i>>])
  <1>0. a \in Nat /\ g \in Nat /\ t \in Nat /\ Owed \in Nat /\ g <= t
    BY Numbers, GotAll, CepFacts
  <1>1. /\ m \in Nat /\ n \in Nat /\ c \in Nat
        /\ sq[Cep(i)] # <<>> => m # 0
        /\ c = 0 => rxc[<<CN, i>>] = <<>>
    BY CepFacts, Lengths
  <1>2. /\ n + a = Owed + m
        /\ n + c <= 1
        /\ pc[CN] \in {"start_tx", "timer"} => n + c = 0
    BY ClientParts DEF Up, SlotsOf, Slots
  <1>3. (g <= 2 => a <= 1) /\ (g > 2 => a = g - 2) /\ (a >= 1 => g >= 2)
    BY AnsweredByGot
  <1>4. /\ ~Gathered => t <= 1 /\ Owed = 0
        /\ Gathered /\ ~Started => t = 2 /\ Owed = 1
        /\ Started => Owed = t - 2 /\ t > 2
    BY OwedBySent
  <1>5. Started => pc[CN] \in {"start_tx", "timer"} \/ Owed >= 2
    <2> SUFFICES ASSUME Started, pc[CN] \notin {"start_tx", "timer"} PROVE Owed >= 2
      OBVIOUS
    <2>1. /\ pc[CN] \in ControllerPC /\ pc[CN] # "failed" /\ Asked \in Nat
          /\ pc[CN] \in {"checkpoint_tx", "checkpoint_rx"} => Asked = rounds + 1
          /\ rounds \in Nat
      BY Numbers, NodeFacts DEF TypeOK, PcTypeOK, Exchange, Asked
    <2> QED
      BY <2>1 DEF Owed, Started, Gathered, Closed, ControllerPC
  <1> HIDE DEF a, g, t, m, n, c
  <1>6. a <= Owed
    BY <1>0, <1>3, <1>4
  <1>7. m # 0 => a = Owed /\ m = 1 /\ n = 1 /\ c = 0
    BY <1>0, <1>1, <1>2, <1>6
  <1>8. ASSUME Started PROVE a >= 1
    <2>1. CASE n + c = 0
      <3>1. Owed >= 1
        BY <1>0, <1>4, <1>8
      <3> QED
        BY <1>0, <1>1, <1>2, <2>1, <3>1
    <2>2. CASE Owed >= 2
      BY <1>0, <1>1, <1>2, <2>2
    <2> QED
      BY <1>2, <1>5, <1>8, <2>1, <2>2
  <1> QED
    BY <1>1, <1>3, <1>6, <1>7, <1>8 DEF a, g, m, n, c

\* An answer on its way is the one the controller waits for, and nothing comes in
\* on the buffer it leaves from.
LEMMA AnswerFits ==
  ASSUME TypeOK, Exchange, NEW i \in EN, sq[Cep(i)] # <<>>
  PROVE  /\ LastAnswer(i) = Wanted(i)
         /\ Answered(i) > 1 => sq[<<CN, i>>] = <<>> /\ rxc[Cep(i)] = <<>>
  <1>0. /\ Got(i) \in Nat /\ Sent(i) \in Nat /\ Answered(i) \in Nat /\ Owed \in Nat
        /\ Got(i) <= Sent(i) /\ snap[i] \in Nat /\ rounds \in Nat /\ Asked \in Nat
        /\ Answered(i) = Owed /\ Len(rq[<<CN, i>>]) = 1 /\ rxc[<<CN, i>>] = <<>>
    BY Numbers, GotAll, Ledger, CepFacts
  <1>1. /\ pc[i] \notin {"bench", "finished", "gone"} => snap[i] = 0
        /\ snap[i] <= Asked
        /\ pc[i] \in {"finished", "gone"} => Closed /\ snap[i] = rounds
    BY ClientParts DEF Cuts
  <1>2. Slots(<<CN, i>>) # 0 /\ pc[CN] \notin {"wait_all", "start_tx", "timer"}
    <2>1. Slots(<<CN, i>>) # 0
      BY <1>0, CepFacts, Lengths DEF Slots
    <2> QED
      BY <2>1, ClientParts DEF SlotsOf
  <1>3. pc[CN] \in ControllerPC /\ pc[CN] # "failed"
    BY NodeFacts DEF TypeOK, PcTypeOK, Exchange
  <1>4. CASE ~Started
    <2>1. Owed = 1
      BY <1>2, <1>4, OwedBySent DEF Gathered
    <2>2. Got(i) <= 2
      BY <1>0, <1>4, OwedBySent, Numbers
    <2>3. pc[i] \notin {"finished", "gone", "bench"}
      BY <1>0, <2>2, NodeFacts DEF Got
    <2> QED
      BY <1>0, <1>1, <1>4, <2>1, <2>3 DEF LastAnswer, Wanted
  <1>5. CASE Started
    <2>1. Owed = 2 + rounds
      BY <1>0, <1>2, <1>3, <1>5 DEF Owed, Gathered, Started, Closed, Asked, ControllerPC
    <2>2. pc[i] \in {"bench", "finished", "gone"}
      BY <1>0, <2>1 DEF Answered
    <2>3. ASSUME Closed PROVE LastAnswer(i) = Wanted(i)
      <3>1. pc[i] # "bench"
        <4>1. Asked = rounds
          BY <2>3 DEF Asked, Closed
        <4> QED
          BY <1>0, <1>1, <2>1, <4>1 DEF Answered
      <3>2. snap[i] = rounds
        BY <1>1, <2>2, <3>1
      <3> QED
        BY <1>5, <2>2, <2>3, <3>1, <3>2 DEF LastAnswer, Wanted
    <2>4. ASSUME ~Closed PROVE LastAnswer(i) = Wanted(i)
      <3>1. pc[i] = "bench"
        BY <1>1, <2>2, <2>4
      <3>2. snap[i] = rounds + 1 /\ snap[i] # 0
        BY <1>0, <2>1, <3>1 DEF Answered
      <3>3. pc[i] \notin {"finished", "gone"}
        BY <3>1
      <3> QED
        BY <1>5, <2>4, <3>2, <3>3 DEF LastAnswer, Wanted
    <2>5. Got(i) = Sent(i)
      <3>1. Answered(i) >= 2 /\ (Got(i) <= 2 => Answered(i) <= 1)
            /\ (Got(i) > 2 => Answered(i) = Got(i) - 2)
        BY <1>0, <2>1, AnsweredByGot
      <3>2. Owed = Sent(i) - 2
        BY <1>5, OwedBySent
      <3> QED
        BY <1>0, <3>1, <3>2
    <2>6. sq[<<CN, i>>] = <<>> /\ rxc[Cep(i)] = <<>>
      BY <2>5, GotAll, NodeFacts
    <2> QED
      BY <2>3, <2>4, <2>6
  <1>6. ~Started => Answered(i) <= 1
    BY <1>0, <1>2, OwedBySent, Numbers
  <1> QED
    BY <1>4, <1>5, <1>6

-----------------------------------------------------------------------------
(* What a host reads from the controller. *)

LEMMA MessageSizes ==
  /\ \A e : LenOf(KeysOf(e)) = KeysSize
  /\ \A c \in Commands : \A e : LenOf(Command(c, e)) = IntSize /\ Command(c, e).kind = c
  /\ \A i, n : LenOf(Delta(i, n)) = TransferSize /\ LenOf(Total(i, n)) = TransferSize
  /\ IntSize # KeysSize
  BY DEF LenOf, KeysOf, Command, Delta, Total, Commands, IntSize, KeysSize

LEMMA ReadsScript ==
  ASSUME TypeOK, Exchange, NEW h \in Host, rxc[Cep(h)] # <<>>
  PROVE  /\ buf[Cep(h)] = Script(h, Got(h) + 1)
         /\ Head(rxc[Cep(h)]).size = Expect(h)
         /\ Head(rxc[Cep(h)]).len = LenOf(Script(h, Got(h) + 1))
         /\ Got(h) + 1 <= Sent(h)
  <1> DEFINE a == Len(sq[<<CN, h>>])
             b == Len(rxc[Cep(h)])
             g == Got(h)
             t == Sent(h)
  <1>1. a + b + g = t
    BY GotAll
  <1>2. a \in Nat /\ b \in Nat /\ b # 0 /\ g \in Nat /\ t \in Nat
    BY HostFacts, Lengths, Numbers
  <1>3. rxc[Cep(h)] \in Seq(Completions)
    BY HostFacts, QueueTypes DEF QueueOK
  <1>4. 1 \in DOMAIN rxc[Cep(h)] /\ Head(rxc[Cep(h)]) = rxc[Cep(h)][1]
    BY <1>3
  <1>5. /\ buf[Cep(h)] = Script(h, Got(h) + 1)
        /\ rxc[Cep(h)][1] = [size |-> Expect(h), len |-> LenOf(Script(h, Got(h) + 1))]
    BY <1>4, HostParts DEF Down
  <1> HIDE DEF a, b, g, t
  <1>6. g + 1 <= t
    BY <1>1, <1>2
  <1> QED
    BY <1>4, <1>5, <1>6 DEF g, t

\* The messages of the controller in their order.
LEMMA ScriptFacts ==
  ASSUME NEW h \in Host
  PROVE  /\ Script(h, 1) = KeysOf(<<CN, h>>)
         /\ h \in PN => Script(h, 2) = Command("STOP", <<CN, h>>)
         /\ h \in EN => /\ Script(h, 2) = Command("CONNECT", <<CN, h>>)
                        /\ Script(h, 3) = Command("START", <<CN, h>>)
         /\ h \in EN => \A k \in Nat : k > 3 =>
              Script(h, k) = Command(IF Closed /\ k = 4 + rounds THEN "STOP" ELSE "CHECKPOINT",
                                     <<CN, h>>)
  <1>1. h \in EN => h \notin PN
    BY NodeFacts
  <1>2. Script(h, 1) = KeysOf(<<CN, h>>)
    BY DEF Script, Line
  <1>3. h \in PN => Script(h, 2) = Command("STOP", <<CN, h>>)
    BY DEF Script, Line
  <1>4. h \in EN => /\ Script(h, 2) = Command("CONNECT", <<CN, h>>)
                    /\ Script(h, 3) = Command("START", <<CN, h>>)
    BY <1>1 DEF Script, Line
  <1>5. ASSUME h \in EN, NEW k \in Nat, k > 3
        PROVE  Script(h, k) = Command(IF Closed /\ k = 4 + rounds THEN "STOP" ELSE "CHECKPOINT",
                                      <<CN, h>>)
    BY <1>1, <1>5 DEF Script, Line, LastLine
  <1> QED
    BY <1>2, <1>3, <1>4, <1>5

\* Client i reads what came in from the controller, and has nothing else open.
Took(i) ==
  /\ rxc[Cep(i)] # <<>> /\ Len(rxc[Cep(i)]) = 1 /\ ReadRx(Cep(i))
  /\ \A q \in Listener : rq[<<i, q>>] = <<>> /\ rxc'[<<i, q>>] = <<>>

LEMMA ClientTook ==
  ASSUME TypeOK, BarrierInv, NEW i \in EN, pc[i] \in {"await_connect", "await_start", "bench"},
         NEW e \in Endpoint, e[1] = i, ReadRx(e)
  PROVE  e = Cep(i) /\ Took(i)
  <1>0. AtMostOneOpen(i) /\ Cep(i) = <<i, CN>> /\ CN \in Listener
    BY CepFacts DEF BarrierInv
  <1>1. /\ e = <<i, e[2]>> /\ e[2] \in OpenTo(i)
        /\ \A q \in Listener : rq[<<i, q>>] = <<>> /\ rxc'[<<i, q>>] = <<>>
    BY <1>0, ReadClears
  <1>2. e = Cep(i)
    BY <1>0, <1>1 DEF OpenTo
  <1>3. rxc[Cep(i)] # <<>>
    BY <1>2 DEF ReadRx
  <1>4. Slots(Cep(i)) <= 1
    BY <1>0 DEF AtMostOneOpen
  <1>5. Len(rxc[Cep(i)]) = 1
    <2> DEFINE a == Len(rq[Cep(i)])
               b == Len(rxc[Cep(i)])
    <2>1. a \in Nat /\ b \in Nat /\ b # 0
      BY <1>3, CepFacts, Lengths
    <2>2. a + b <= 1
      BY <1>4 DEF Slots
    <2> HIDE DEF a, b
    <2>3. b = 1
      BY <2>1, <2>2
    <2> QED
      BY <2>3 DEF b
  <1> QED
    BY <1>1, <1>2, <1>3, <1>5 DEF Took

LEMMA ConnectReads ==
  ASSUME TypeOK, BarrierInv, Exchange, NEW i \in EN, RecvConnect(i)
  PROVE  pc[i] = "await_connect" /\ Took(i) /\ Dial(i, NumEN)
  <1>0. pc[i] = "await_connect" /\ i \in Host /\ i \notin PN
    BY CepFacts DEF RecvConnect
  <1>1. PICK e \in Endpoint :
          /\ e[1] = i /\ ReadRx(e)
          /\ IF Head(rxc[e]).len = IntSize /\ buf[Cep(i)].kind # "CONNECT"
             THEN Goto(i, "failed") /\ UNCHANGED <<link, eq, rq, peer>>
             ELSE Dial(i, NumEN)
    BY DEF RecvConnect
  <1>2. e = Cep(i) /\ Took(i)
    BY <1>0, <1>1, ClientTook
  <1>3. Got(i) = 1
    BY <1>0 DEF Got
  <1>4. buf[Cep(i)] = Script(i, 2)
    BY <1>0, <1>2, <1>3, ReadsScript DEF Took
  <1>5. buf[Cep(i)].kind = "CONNECT"
    BY <1>0, <1>4, ScriptFacts, MessageSizes DEF Commands
  <1> QED
    BY <1>0, <1>1, <1>2, <1>5

LEMMA StartReads ==
  ASSUME TypeOK, BarrierInv, Exchange, NEW i \in EN, RecvStart(i)
  PROVE  /\ pc[i] = "await_start" /\ Took(i) /\ Sent(i) > 2 /\ snap[i] = 0
         /\ Goto(i, "bench") /\ CtrlRecv({Cep(i)}, CtrlSize)
  <1>0. pc[i] = "await_start" /\ i \in Host /\ i \notin PN
    BY CepFacts DEF RecvStart
  <1>1. PICK e \in Endpoint :
          /\ e[1] = i /\ ReadRx(e)
          /\ IF Head(rxc[e]).len = IntSize /\ buf[Cep(i)].kind # "START"
             THEN Goto(i, "failed") /\ UNCHANGED rq
             ELSE Goto(i, "bench") /\ CtrlRecv({Cep(i)}, CtrlSize)
    BY DEF RecvStart
  <1>2. e = Cep(i) /\ Took(i)
    BY <1>0, <1>1, ClientTook
  <1>3. Got(i) = 2
    BY <1>0 DEF Got
  <1>4. buf[Cep(i)] = Script(i, 3) /\ 3 <= Sent(i)
    BY <1>0, <1>2, <1>3, ReadsScript DEF Took
  <1>5. buf[Cep(i)].kind = "START"
    BY <1>0, <1>4, ScriptFacts, MessageSizes DEF Commands
  <1>6. snap[i] = 0
    BY <1>0, ClientParts DEF Cuts
  <1>7. Sent(i) > 2
    BY <1>0, <1>4, Numbers
  <1> QED
    BY <1>0, <1>1, <1>2, <1>5, <1>6, <1>7

\* A command in the benchmark: a cut while the controller asks for one, or the end.
BenchCut(i) ==
  /\ buf[Cep(i)].kind = "CHECKPOINT" /\ snap[i] < Asked
  /\ snap' = [snap EXCEPT ![i] = snap[i] + 1] /\ Goto(i, "bench")
  /\ CtrlRecv({Cep(i)}, IntSize) /\ CtrlSend([a \in {Cep(i)} |-> Delta(i, snap[i] + 1)])

BenchEnd(i) ==
  /\ buf[Cep(i)].kind = "STOP" /\ Closed /\ snap[i] = rounds
  /\ snap' = [snap EXCEPT ![i] = snap[i]] /\ Goto(i, "finished")
  /\ CtrlRecv({}, IntSize) /\ CtrlSend([a \in {Cep(i)} |-> Total(i, snap[i])])

LEMMA BenchReads ==
  ASSUME TypeOK, BarrierInv, Exchange, NEW i \in EN, BenchCommand(i)
  PROVE  pc[i] = "bench" /\ Took(i) /\ (BenchCut(i) \/ BenchEnd(i))
  <1> DEFINE c == buf[Cep(i)].kind
             n == IF c = "CHECKPOINT" THEN snap[i] + 1 ELSE snap[i]
  <1>0. /\ pc[i] = "bench" /\ i \in Host /\ i \notin PN
        /\ snap[i] \in Nat /\ rounds \in Nat /\ Asked \in Nat
    BY CepFacts, Numbers DEF BenchCommand
  <1>1. PICK e \in Endpoint :
          /\ e[1] = i /\ ReadRx(e)
          /\ IF Head(rxc[e]).len # IntSize
             THEN Goto(i, "failed") /\ UNCHANGED <<sq, rq, buf, snap>>
             ELSE /\ snap' = [snap EXCEPT ![i] = n]
                  /\ CtrlRecv(IF c = "CHECKPOINT" THEN {Cep(i)} ELSE {}, IntSize)
                  /\ CtrlSend([a \in {Cep(i)} |->
                                 IF c = "STOP" THEN Total(i, n) ELSE Delta(i, n)])
                  /\ Goto(i, IF c = "STOP" THEN "finished" ELSE "bench")
    BY DEF BenchCommand
  <1>2. e = Cep(i) /\ Took(i)
    BY <1>0, <1>1, ClientTook
  <1>3. Got(i) = 3 + snap[i]
    BY <1>0 DEF Got
  <1>4. /\ buf[Cep(i)] = Script(i, 4 + snap[i]) /\ 4 + snap[i] <= Sent(i)
        /\ Head(rxc[e]).len = LenOf(Script(i, 4 + snap[i]))
    <2>1. 3 + snap[i] + 1 = 4 + snap[i]
      BY <1>0
    <2> QED
      BY <1>0, <1>2, <1>3, <2>1, ReadsScript DEF Took
  <1> DEFINE d == IF Closed /\ snap[i] = rounds THEN "STOP" ELSE "CHECKPOINT"
  <1>5. Script(i, 4 + snap[i]) = Command(d, <<CN, i>>)
    <2>1. 4 + snap[i] \in Nat /\ 4 + snap[i] > 3 /\ (4 + snap[i] = 4 + rounds <=> snap[i] = rounds)
      BY <1>0
    <2> QED
      BY <1>0, <2>1, ScriptFacts
  <1>6. d \in Commands
    BY DEF Commands
  <1>7. Head(rxc[e]).len = IntSize /\ c = d
    BY <1>4, <1>5, <1>6, MessageSizes
  <1>8. Sent(i) = IF Closed THEN 4 + rounds ELSE 3 + Asked
    <2>1. Sent(i) > 2
      BY <1>0, <1>4, Numbers
    <2>2. Started
      BY <1>0, <2>1, OwedBySent, Numbers
    <2> QED
      BY <1>0, <2>2 DEF Sent, Started, Gathered, Closed, Asked
  <1>9. CASE Closed /\ snap[i] = rounds
    BY <1>0, <1>1, <1>2, <1>7, <1>9 DEF BenchEnd
  <1>10. CASE ~(Closed /\ snap[i] = rounds)
    <2>1. c = "CHECKPOINT"
      BY <1>7, <1>10
    <2>2. snap[i] < Asked
      <3>1. CASE Closed
        <4>1. Asked = rounds
          BY <3>1 DEF Closed, Asked
        <4> QED
          BY <1>0, <1>4, <1>8, <1>10, <3>1, <4>1
      <3>2. CASE ~Closed
        BY <1>0, <1>4, <1>8, <3>2
      <3> QED
        BY <3>1, <3>2
    <2> QED
      BY <1>0, <1>1, <1>2, <1>7, <2>1, <2>2 DEF BenchCut
  <1> QED
    BY <1>9, <1>10

LEMMA NoneLeft ==
  ASSUME NEW T, NEW s \in Seq(T), Len(s) = 0
  PROVE  s = <<>>
  OBVIOUS

\* The keys come in whole.
LEMMA KeysRead ==
  ASSUME TypeOK, BarrierInv, Exchange, NEW i \in EN, ConnectKeys(i)
  PROVE  /\ pc[i] = "await_keys" /\ pc'[i] = "linked" /\ peer' = peer
         /\ rxc[<<i, peer[i]>>] # <<>> /\ Len(rxc[<<i, peer[i]>>]) = 1 /\ ReadRx(<<i, peer[i]>>)
         /\ \A q \in Listener : rq[<<i, q>>] = <<>> /\ rxc'[<<i, q>>] = <<>>
  <1>0. /\ AtMostOneOpen(i) /\ OnlyKeys /\ i \in Host /\ i \notin PN /\ i \in Node
        /\ peer[i] \in Listener /\ Cep(i) = <<i, CN>> /\ <<i, peer[i]>> \in Endpoint
    BY CepFacts, NodeFacts, ClientLinks DEF BarrierInv, TypeOK
  <1>1. pc[i] = "await_keys" /\ peer' = peer
    BY <1>0, KeysStored
  <1>2. PICK e \in Endpoint :
          /\ e[1] = i /\ ReadRx(e)
          /\ IF Head(rxc[e]).size = Head(rxc[e]).len
             THEN Goto(i, IF i \in PN THEN "wait_all" ELSE "linked")
             ELSE Goto(i, "failed")
    BY DEF ConnectKeys
  <1>3. /\ e = <<i, e[2]>> /\ e[2] \in OpenTo(i)
        /\ \A q \in Listener : rq[<<i, q>>] = <<>> /\ rxc'[<<i, q>>] = <<>>
    BY <1>0, <1>1, <1>2, ReadClears
  <1>4. e = <<i, peer[i]>> /\ rxc[e] # <<>>
    BY <1>1, <1>2, <1>3 DEF OpenTo, ReadRx
  <1>5. Len(rxc[e]) = 1
    <2> DEFINE a == Len(rq[e])
               b == Len(rxc[e])
    <2>1. a \in Nat /\ b \in Nat /\ b # 0
      BY <1>4, Lengths
    <2>2. a + b <= 1
      BY <1>0, <1>1, <1>4 DEF Slots, AtMostOneOpen
    <2> HIDE DEF a, b
    <2>3. b = 1
      BY <2>1, <2>2
    <2> QED
      BY <2>3 DEF b
  <1>6. Head(rxc[e]).size = Head(rxc[e]).len
    <2>1. CASE peer[i] = CN
      <3>1. Got(i) = 0 /\ e = Cep(i)
        BY <1>0, <1>1, <1>4, <2>1 DEF Got
      <3>2. /\ Head(rxc[Cep(i)]).size = Expect(i)
            /\ Head(rxc[Cep(i)]).len = LenOf(Script(i, 1))
        BY <1>0, <1>4, <3>1, ReadsScript
      <3> QED
        BY <1>0, <3>1, <3>2, ScriptFacts, MessageSizes, ZenonT(40) DEF Expect
    <2>2. CASE peer[i] \in PN
      <3>1. rxc[e] \in Seq(Completions)
        BY QueueTypes DEF QueueOK
      <3>2. 1 \in DOMAIN rxc[e] /\ Head(rxc[e]) = rxc[e][1]
        BY <1>4, <3>1
      <3>3. rxc[e][1] = [size |-> KeysSize, len |-> KeysSize]
        BY <1>4, <2>2, <3>2, ServerParts DEF DataEnd
      <3> QED
        BY <3>2, <3>3
    <2> QED
      BY <1>0, <2>1, <2>2, NodeFacts
  <1>7. pc'[i] = "linked"
    BY <1>0, <1>2, <1>6, GotoOwn
  <1> QED
    BY <1>1, <1>2, <1>3, <1>4, <1>5, <1>7

\* A server only ever receives from the controller.
LEMMA ServerTook ==
  ASSUME TypeOK, Exchange, NEW s \in PN, NEW e \in Endpoint, e[1] = s, ReadRx(e)
  PROVE  /\ e = Cep(s) /\ rxc[Cep(s)] # <<>> /\ Len(rxc[Cep(s)]) = 1 /\ rxc'[Cep(s)] = <<>>
         /\ rq[Cep(s)] = <<>>
  <1>0. s \in Host /\ s \notin EN /\ s # CN /\ Cep(s) = <<s, CN>> /\ Cep(s) \in Endpoint
    BY NodeFacts, HostFacts
  <1>1. rxc[e] # <<>> /\ rxc'[e] = Tail(rxc[e])
    BY ReadOwn
  <1>2. e = Cep(s)
    <2>1. CASE e \in Link
      BY <1>0, <2>1, LinkShape
    <2>2. CASE e \in Passive
      <3>1. e = <<s, e[2]>> /\ e[2] \in EN
        BY <1>0, <2>2, PassiveShape
      <3>2. rxc[<<s, e[2]>>] = <<>>
        BY <3>1, ServerParts DEF DataEnd
      <3> QED
        BY <1>1, <3>1, <3>2
    <2> QED
      BY <2>1, <2>2 DEF Endpoint
  <1>3. Len(rxc[Cep(s)]) = 1 /\ rq[Cep(s)] = <<>>
    <2> DEFINE a == Len(rq[Cep(s)])
               b == Len(rxc[Cep(s)])
    <2>1. a \in Nat /\ b \in Nat /\ b # 0 /\ (a = 0 => rq[Cep(s)] = <<>>)
      BY <1>0, <1>1, <1>2, Lengths
    <2>2. a + b <= 1
      BY ServerParts DEF Slots, ServerEnd
    <2> HIDE DEF a, b
    <2>3. b = 1 /\ a = 0
      BY <2>1, <2>2
    <2> QED
      BY <2>1, <2>3 DEF b
  <1>4. Tail(rxc[Cep(s)]) = <<>>
    <2>1. rxc[Cep(s)] \in Seq(Completions)
      BY <1>0, QueueTypes DEF QueueOK
    <2> DEFINE x == rxc[Cep(s)]
    <2>2. x \in Seq(Completions) /\ Len(x) = 1
      BY <1>3, <2>1
    <2> HIDE DEF x
    <2>3. x # <<>>
      BY <2>2
    <2>4. Tail(x) \in Seq(Completions) /\ Len(Tail(x)) = 0
      BY <2>2, <2>3, TailFacts
    <2>5. Tail(x) = <<>>
      BY <2>4, NoneLeft
    <2> QED
      BY <2>5 DEF x
  <1> QED
    BY <1>1, <1>2, <1>3, <1>4

LEMMA ServerKeysRead ==
  ASSUME TypeOK, Exchange, NEW s \in PN, ConnectKeys(s)
  PROVE  /\ pc[s] = "await_keys" /\ pc'[s] = "wait_all" /\ peer' = peer /\ rq' = rq
         /\ rxc[Cep(s)] # <<>> /\ Len(rxc[Cep(s)]) = 1 /\ rxc'[Cep(s)] = <<>> /\ rq[Cep(s)] = <<>>
  <1>0. s \in Host /\ s \in Node /\ peer[s] = CN
    BY NodeFacts DEF TypeOK
  <1>1. PICK e \in Endpoint :
          /\ e[1] = s /\ ReadRx(e)
          /\ IF Head(rxc[e]).size = Head(rxc[e]).len
             THEN Goto(s, IF s \in PN THEN "wait_all" ELSE "linked")
             ELSE Goto(s, "failed")
    BY DEF ConnectKeys
  <1>2. /\ e = Cep(s) /\ rxc[Cep(s)] # <<>> /\ Len(rxc[Cep(s)]) = 1
        /\ rxc'[Cep(s)] = <<>> /\ rq[Cep(s)] = <<>>
    BY <1>1, ServerTook
  <1>3. pc[s] = "await_keys" /\ peer' = peer /\ rq' = rq
    BY DEF ConnectKeys
  <1>4. Got(s) = 0
    BY <1>0, <1>3 DEF Got
  <1>5. Head(rxc[Cep(s)]).size = Expect(s) /\ Head(rxc[Cep(s)]).len = LenOf(Script(s, 1))
    BY <1>0, <1>2, <1>4, ReadsScript
  <1>6. Head(rxc[e]).size = Head(rxc[e]).len
    BY <1>0, <1>2, <1>4, <1>5, ScriptFacts, MessageSizes DEF Expect
  <1>7. pc'[s] = "wait_all"
    BY <1>0, <1>1, <1>6, GotoOwn
  <1> QED
    BY <1>2, <1>3, <1>7

LEMMA StopRead ==
  ASSUME TypeOK, Exchange, NEW s \in PN, ServeCommand(s)
  PROVE  /\ pc[s] = "serve" /\ pc'[s] = "finished" /\ rq' = rq /\ Closed
         /\ rxc[Cep(s)] # <<>> /\ Len(rxc[Cep(s)]) = 1 /\ rxc'[Cep(s)] = <<>> /\ rq[Cep(s)] = <<>>
  <1>0. s \in Host /\ s \in Node /\ s \notin EN
    BY NodeFacts
  <1>1. PICK e \in Endpoint :
          /\ e[1] = s /\ ReadRx(e)
          /\ Goto(s, IF Head(rxc[e]).len # IntSize THEN "failed"
                     ELSE IF buf[Cep(s)].kind = "STOP" THEN "finished" ELSE "serve")
    BY DEF ServeCommand
  <1>2. /\ e = Cep(s) /\ rxc[Cep(s)] # <<>> /\ Len(rxc[Cep(s)]) = 1
        /\ rxc'[Cep(s)] = <<>> /\ rq[Cep(s)] = <<>>
    BY <1>1, ServerTook
  <1>3. pc[s] = "serve" /\ rq' = rq
    BY DEF ServeCommand
  <1>4. Got(s) = 1
    BY <1>0, <1>3 DEF Got
  <1>5. /\ buf[Cep(s)] = Script(s, 2) /\ Head(rxc[Cep(s)]).len = LenOf(Script(s, 2))
        /\ 2 <= Sent(s)
    BY <1>0, <1>2, <1>4, ReadsScript
  <1>6. buf[Cep(s)].kind = "STOP" /\ Head(rxc[e]).len = IntSize
    BY <1>0, <1>2, <1>5, ScriptFacts, MessageSizes, ZenonT(40) DEF Commands
  <1>7. pc'[s] = "finished"
    BY <1>0, <1>1, <1>6, GotoOwn
  <1>8. Closed
    BY <1>5 DEF Sent
  <1> QED
    BY <1>2, <1>3, <1>7, <1>8

\* No event is a refusal, and the first one of a host that connects is FI_CONNECTED.
LEMMA EventsGood ==
  ASSUME TypeOK, Exchange, NEW p \in Node, eq[p] # <<>>
  PROVE  Head(eq[p]).kind # "REFUSED" /\ 1 \in DOMAIN eq[p] /\ Head(eq[p]) = eq[p][1]
  <1>1. 1 \in DOMAIN eq[p] /\ Head(eq[p]) = eq[p][1]
    BY TailFacts DEF TypeOK, FabricTypeOK
  <1> QED
    BY <1>1 DEF Exchange

LEMMA ConnectHears ==
  ASSUME TypeOK, Exchange, NEW h \in Host, ConnectEvent(h)
  PROVE  pc[h] = "await_cm" /\ pc'[h] = "await_keys"
  <1>0. /\ h \in Node /\ pc[h] = "await_cm" /\ eq[h] # <<>>
        /\ Goto(h, IF Head(eq[h]).kind = "CONNECTED" THEN "await_keys" ELSE "failed")
    BY NodeFacts DEF ConnectEvent
  <1>1. CASE h \in EN
    <2>1. Answered(h) = 0
      BY <1>0 DEF Answered
    <2>2. ~Started
      <3>1. Started => Answered(h) >= 1
        BY <1>1, Ledger
      <3> QED
        BY <2>1, <3>1
    <2>3. ~Closed
      BY <2>2, NodeFacts DEF Started, Closed, Exchange, TypeOK, PcTypeOK, ControllerPC
    <2>4. Head(eq[h]).kind = "CONNECTED"
      BY <1>0, <1>1, <2>3, EventsGood DEF Exchange
    <2> QED
      BY <1>0, <2>4, GotoOwn
  <1>2. CASE h \in PN
    <2>1. Head(eq[h]).kind = "CONNECTED"
      BY <1>0, <1>2, ServerParts DEF ServerEnd
    <2> QED
      BY <1>0, <2>1, GotoOwn
  <1> QED
    BY <1>1, <1>2, NodeFacts

-----------------------------------------------------------------------------
(* What a step of host h does to its connection to the controller. *)

Quiet(h) ==
  /\ rq'[Cep(h)] = rq[Cep(h)] /\ rxc'[Cep(h)] = rxc[Cep(h)] /\ Got(h)' = Got(h)
  /\ rxc[Cep(h)] # <<>> => buf'[Cep(h)] = buf[Cep(h)]

Posts(h) ==
  /\ rq[Cep(h)] = <<>> /\ rxc[Cep(h)] = <<>> /\ rxc'[Cep(h)] = <<>> /\ Got(h)' = Got(h)
  /\ rq'[Cep(h)] = Append(rq[Cep(h)], Expect(h)')

Takes(h) ==
  /\ rq[Cep(h)] = <<>> /\ Len(rxc[Cep(h)]) = 1 /\ rxc'[Cep(h)] = <<>> /\ Got(h)' = Got(h) + 1
  /\ rq'[Cep(h)] = rq[Cep(h)] \/ rq'[Cep(h)] = Append(rq[Cep(h)], Expect(h)')

Silent(i) ==
  /\ sq'[Cep(i)] = sq[Cep(i)] /\ buf'[Cep(i)] = buf[Cep(i)]
  /\ Answered(i)' = Answered(i) /\ Spent(i)' = Spent(i) /\ snap'[i] = snap[i]
  /\ Answered(i) >= 1 => LastAnswer(i)' = LastAnswer(i)

Says(i) ==
  /\ sq[Cep(i)] = <<>> /\ sq'[Cep(i)] = Append(sq[Cep(i)], LastAnswer(i)')
  /\ buf'[Cep(i)] = LastAnswer(i)'
  /\ Answered(i)' = Answered(i) + 1 /\ Spent(i)' = Spent(i)

ClientEffect(i) ==
  /\ pc'[i] # "failed" /\ snap'[i] <= Asked
  /\ pc'[i] \notin {"bench", "finished", "gone"} => snap'[i] = 0
  /\ pc'[i] \in {"finished", "gone"} => Closed /\ snap'[i] = rounds
  /\ Quiet(i) \/ Posts(i) \/ Takes(i)
  /\ Silent(i) \/ Says(i)

LEMMA DataLink ==
  ASSUME NEW i \in EN, NEW s \in PN
  PROVE  /\ <<i, s>> \in Link /\ <<i, s>> \in Endpoint /\ <<s, i>> \in Endpoint
         /\ <<i, s>> # Cep(i) /\ <<s, i>> # Cep(s) /\ <<s, i>> # <<CN, i>>
  <1>1. /\ <<i, s>> \in Link /\ <<s, i>> \in Passive
        /\ Cep(i) = <<i, CN>> /\ Cep(s) = <<s, CN>> /\ s # CN /\ i # CN
    BY DataEnds, HostFacts, NodeFacts
  <1>2. <<i, s>> # <<i, CN>> /\ <<s, i>> # <<s, CN>> /\ <<s, i>> # <<CN, i>>
    BY <1>1
  <1> QED
    BY <1>1, <1>2, EndpointFacts

LEMMA DialEffect ==
  ASSUME TypeOK, BarrierInv, Exchange, NEW i \in EN, HostDial(i) \/ DialNext(i) \/ RecvConnect(i)
  PROVE  ClientEffect(i)
  <1>0. /\ i \in Host /\ i \in Node /\ i \notin PN /\ NumEN \in PN /\ CN \notin PN
        /\ Cep(i) \in Endpoint /\ Cep(i) = <<i, CN>> /\ CN \in Listener /\ peer[i] \in PN \cup {CN}
        /\ AtMostOneOpen(i) /\ <<i, CN>> \in Link
    BY CepFacts, NodeFacts DEF BarrierInv, TypeOK
  <1>1. /\ pc[i] \in {"dial", "linked", "await_connect"} => snap[i] = 0
        /\ 0 <= Asked
    BY ClientParts, Numbers DEF Cuts
  <1>2. UNCHANGED <<sq, buf, cqtx, snap>>
    BY DEF HostDial, DialNext, RecvConnect
  <1>3. CASE HostDial(i)
    <2>1. pc[i] = "dial" /\ rxc' = rxc
      BY <1>3 DEF HostDial
    <2>2. /\ pc'[i] = "await_cm" /\ peer'[i] = CN
          /\ rq'[Cep(i)] = Append(rq[Cep(i)], KeysSize)
      BY <1>0, <1>3, DialOwn DEF HostDial
    <2>3. rq[Cep(i)] = <<>> /\ rxc[Cep(i)] = <<>>
      BY <1>0, <2>1, NothingOpen
    <2>4. Got(i) = 0 /\ Got(i)' = 0 /\ Answered(i) = 0 /\ Answered(i)' = 0 /\ Expect(i)' = KeysSize
      BY <2>1, <2>2 DEF Got, Answered, Expect
    <2>5. Posts(i)
      BY <2>1, <2>2, <2>3, <2>4 DEF Posts
    <2>6. Silent(i)
      BY <1>2, <2>1, <2>2, <2>4 DEF Silent, Spent
    <2> QED
      BY <1>1, <1>2, <2>1, <2>2, <2>5, <2>6 DEF ClientEffect
  <1>4. CASE DialNext(i)
    <2>1. pc[i] = "linked" /\ peer[i] \in PN /\ rxc' = rxc /\ Dial(i, peer[i] + 1) /\ peer[i] + 1 \in PN
      BY <1>4 DEF DialNext
    <2>2. <<i, peer[i] + 1>> \in Link /\ <<i, peer[i] + 1>> # Cep(i)
      BY <1>0, <2>1, DataLink
    <2>3. /\ pc'[i] = "await_cm" /\ peer'[i] = peer[i] + 1 /\ rq'[Cep(i)] = rq[Cep(i)]
      BY <1>0, <2>1, <2>2, DialOwn
    <2>4. Got(i) = 2 /\ Got(i)' = 2 /\ Answered(i) = 0 /\ Answered(i)' = 0
      BY <1>0, <2>1, <2>3 DEF Got, Answered
    <2>5. Quiet(i)
      BY <1>2, <2>1, <2>3, <2>4 DEF Quiet
    <2>6. Silent(i)
      BY <1>2, <2>1, <2>3, <2>4 DEF Silent, Spent
    <2> QED
      BY <1>1, <1>2, <2>1, <2>3, <2>5, <2>6 DEF ClientEffect
  <1>5. CASE RecvConnect(i)
    <2>1. pc[i] = "await_connect" /\ Took(i) /\ Dial(i, NumEN)
      BY <1>5, ConnectReads
    <2>2. <<i, NumEN>> \in Link /\ <<i, NumEN>> # Cep(i)
      BY <1>0, DataLink
    <2>3. /\ pc'[i] = "await_cm" /\ peer'[i] = NumEN /\ rq'[Cep(i)] = rq[Cep(i)]
      BY <1>0, <2>1, <2>2, DialOwn
    <2>4. Got(i) = 1 /\ Got(i)' = 2 /\ Answered(i) = 0 /\ Answered(i)' = 0
      BY <1>0, <2>1, <2>3 DEF Got, Answered
    <2>5. rq[Cep(i)] = <<>> /\ Len(rxc[Cep(i)]) = 1 /\ rxc'[Cep(i)] = <<>>
      BY <1>0, <2>1 DEF Took
    <2>6. Takes(i)
      BY <2>3, <2>4, <2>5 DEF Takes
    <2>7. Silent(i)
      BY <1>2, <2>1, <2>3, <2>4 DEF Silent, Spent
    <2> QED
      BY <1>1, <1>2, <2>1, <2>3, <2>6, <2>7 DEF ClientEffect
  <1> QED
    BY <1>3, <1>4, <1>5

LEMMA KeysEffect ==
  ASSUME TypeOK, BarrierInv, Exchange, NEW i \in EN, ConnectEvent(i) \/ ConnectKeys(i)
  PROVE  ClientEffect(i)
  <1>0. /\ i \in Host /\ i \in Node /\ i \notin PN /\ CN \notin PN
        /\ Cep(i) = <<i, CN>> /\ Cep(i) \in Endpoint /\ CN \in Listener /\ peer[i] \in PN \cup {CN}
    BY CepFacts, NodeFacts DEF TypeOK
  <1>1. /\ pc[i] \in {"await_cm", "await_keys"} => snap[i] = 0
        /\ 0 <= Asked
    BY ClientParts, Numbers DEF Cuts
  <1>2. UNCHANGED <<rq, sq, buf, cqtx, snap, peer>>
    BY DEF ConnectEvent, ConnectKeys
  <1>3. CASE ConnectEvent(i)
    <2>1. pc[i] = "await_cm" /\ pc'[i] = "await_keys" /\ rxc' = rxc
      BY <1>0, <1>3, ConnectHears DEF ConnectEvent
    <2>2. Got(i)' = Got(i) /\ Answered(i) = 0 /\ Answered(i)' = 0
      BY <1>0, <1>2, <2>1 DEF Got, Answered
    <2>3. Quiet(i) /\ Silent(i)
      BY <1>2, <2>1, <2>2 DEF Quiet, Silent, Spent
    <2> QED
      BY <1>1, <1>2, <2>1, <2>3 DEF ClientEffect
  <1>4. CASE ConnectKeys(i)
    <2>1. /\ pc[i] = "await_keys" /\ pc'[i] = "linked"
          /\ Len(rxc[<<i, peer[i]>>]) = 1 /\ ReadRx(<<i, peer[i]>>)
          /\ rq[Cep(i)] = <<>> /\ rxc'[Cep(i)] = <<>>
      BY <1>0, <1>4, KeysRead
    <2>2. Answered(i) = 0 /\ Answered(i)' = 0
      BY <2>1 DEF Answered
    <2>3. Silent(i)
      BY <1>2, <2>1, <2>2 DEF Silent, Spent
    <2>4. CASE peer[i] = CN
      <3>1. Got(i) = 0 /\ Got(i)' = 1
        BY <1>0, <1>2, <2>1, <2>4 DEF Got
      <3>2. Takes(i)
        BY <1>0, <1>2, <2>1, <2>4, <3>1 DEF Takes
      <3> QED
        BY <1>1, <1>2, <2>1, <2>3, <3>2 DEF ClientEffect
    <2>5. CASE peer[i] \in PN
      <3>1. Got(i) = 2 /\ Got(i)' = 2
        BY <1>0, <1>2, <2>1, <2>5 DEF Got
      <3>2. <<i, peer[i]>> # Cep(i) /\ <<i, peer[i]>> \in Endpoint
        BY <2>5, DataLink
      <3>3. rxc'[Cep(i)] = rxc[Cep(i)]
        BY <1>0, <2>1, <3>2, ReadOwn
      <3>4. Quiet(i)
        BY <1>2, <3>1, <3>3 DEF Quiet
      <3> QED
        BY <1>1, <1>2, <2>1, <2>3, <3>4 DEF ClientEffect
    <2> QED
      BY <1>0, <2>4, <2>5
  <1> QED
    BY <1>3, <1>4

LEMMA NothingSaid ==
  ASSUME TypeOK, Exchange, NEW i \in EN, Answered(i) = 0
  PROVE  sq[Cep(i)] = <<>>
  <1> DEFINE a == Len(sq[Cep(i)])
             b == Spent(i)
  <1>1. b + a = 0
    BY ClientParts DEF TxCount
  <1>2. a \in Nat /\ (a = 0 => sq[Cep(i)] = <<>>)
    BY CepFacts, Lengths
  <1>3. b \in Nat
    <2>1. cqtx[i] \in Nat
      BY CepFacts DEF TypeOK, FabricTypeOK
    <2> QED
      BY <2>1 DEF Spent
  <1> HIDE DEF a, b
  <1>4. a = 0
    BY <1>1, <1>2, <1>3
  <1> QED
    BY <1>2, <1>4

LEMMA AskEffect ==
  ASSUME TypeOK, BarrierInv, Exchange, NEW i \in EN, AwaitConnect(i) \/ Confirm(i)
  PROVE  ClientEffect(i)
  <1>0. /\ i \in Host /\ i \in Node /\ i \notin PN /\ CN \notin PN
        /\ Cep(i) \in Endpoint /\ CN \in Listener
        /\ AtMostOneOpen(i) /\ Cep(i) = <<i, CN>>
    BY CepFacts, NodeFacts DEF BarrierInv
  <1>1. /\ pc[i] = "linked" /\ snap[i] = 0 /\ 0 <= Asked
        /\ UNCHANGED <<rxc, cqtx, snap, peer>>
    <2>1. pc[i] = "linked" /\ UNCHANGED <<rxc, cqtx, snap, peer>>
      BY DEF AwaitConnect, Confirm
    <2> QED
      BY <2>1, ClientParts, Numbers DEF Cuts
  <1>2. /\ rq[Cep(i)] = <<>> /\ rxc[Cep(i)] = <<>>
    BY <1>0, <1>1, NothingOpen
  <1>3. rq'[Cep(i)] = Append(rq[Cep(i)], IntSize)
    BY <1>0, RecvOwn DEF AwaitConnect, Confirm
  <1>4. Answered(i) = 0
    BY <1>1 DEF Answered
  <1>5. CASE AwaitConnect(i)
    <2>1. peer[i] = CN /\ pc'[i] = "await_connect" /\ UNCHANGED <<sq, buf>>
      BY <1>0, <1>5, GotoOwn DEF AwaitConnect
    <2>2. Got(i) = 1 /\ Got(i)' = 1 /\ Answered(i)' = 0
      BY <1>0, <1>1, <2>1 DEF Got, Answered
    <2>3. Expect(i)' = IntSize
      BY <2>2 DEF Expect
    <2>4. Posts(i) /\ Silent(i)
      BY <1>1, <1>2, <1>3, <1>4, <2>1, <2>2, <2>3 DEF Posts, Silent, Spent
    <2> QED
      BY <1>1, <2>1, <2>4 DEF ClientEffect
  <1>6. CASE Confirm(i)
    <2>1. peer[i] \in PN /\ pc'[i] = "confirm_tx" /\ SendCommand({Cep(i)}, "CONNECTED")
      BY <1>0, <1>6, GotoOwn DEF Confirm
    <2>2. Got(i) = 2 /\ Got(i)' = 2 /\ Answered(i)' = 1
      BY <1>0, <1>1, <2>1 DEF Got, Answered
    <2>3. Expect(i)' = IntSize
      BY <2>2 DEF Expect
    <2>4. Posts(i)
      BY <1>1, <1>2, <1>3, <2>2, <2>3 DEF Posts
    <2>5. LastAnswer(i)' = Command("CONNECTED", Cep(i))
      BY <1>1, <2>1 DEF LastAnswer
    <2>6. /\ sq'[Cep(i)] = Append(sq[Cep(i)], Command("CONNECTED", Cep(i)))
          /\ buf'[Cep(i)] = Command("CONNECTED", Cep(i))
      BY <1>0, <2>1 DEF SendCommand, CtrlSend
    <2>7. Says(i)
      BY <1>1, <1>4, <2>1, <2>2, <2>5, <2>6, NothingSaid DEF Says, Spent
    <2> QED
      BY <1>1, <2>1, <2>4, <2>7 DEF ClientEffect
  <1> QED
    BY <1>5, <1>6

LEMMA StartEffect ==
  ASSUME TypeOK, BarrierInv, Exchange, NEW i \in EN, ConfirmSent(i) \/ RecvStart(i) \/ Exit(i)
  PROVE  ClientEffect(i)
  <1>0. /\ i \in Host /\ i \in Node /\ i \notin PN /\ CN \notin PN
        /\ Cep(i) \in Endpoint /\ CN \in Listener /\ Cep(i) = <<i, CN>>
        /\ snap[i] \in Nat /\ Asked \in Nat
    BY CepFacts, NodeFacts, Numbers
  <1>1. UNCHANGED <<sq, buf, snap, peer>>
    BY DEF ConfirmSent, RecvStart, Exit
  <1>2. /\ pc[i] \notin {"bench", "finished", "gone"} => snap[i] = 0
        /\ snap[i] <= Asked
        /\ pc[i] \in {"finished", "gone"} => Closed /\ snap[i] = rounds
    BY ClientParts DEF Cuts
  <1>3. CASE ConfirmSent(i)
    <2>1. /\ pc[i] = "confirm_tx" /\ pc'[i] = "await_start" /\ UNCHANGED <<rq, rxc>>
          /\ cqtx'[i] = cqtx[i] - 1
      BY <1>0, <1>3, GotoOwn DEF ConfirmSent, ReadTx, TypeOK, FabricTypeOK
    <2>2. Got(i) = 2 /\ Got(i)' = 2 /\ Answered(i) = 1 /\ Answered(i)' = 1
      BY <1>0, <2>1 DEF Got, Answered
    <2>3. Spent(i)' = Spent(i)
      <3>1. cqtx[i] \in Nat
        BY <1>0 DEF TypeOK, FabricTypeOK
      <3> QED
        BY <2>1, <3>1 DEF Spent
    <2>4. LastAnswer(i)' = LastAnswer(i)
      BY <1>1, <1>2, <2>1 DEF LastAnswer
    <2>5. Quiet(i) /\ Silent(i)
      BY <1>1, <2>1, <2>2, <2>3, <2>4 DEF Quiet, Silent
    <2> QED
      BY <1>1, <1>2, <2>1, <2>5 DEF ClientEffect
  <1>4. CASE RecvStart(i)
    <2>1. pc[i] = "await_start" /\ Took(i) /\ snap[i] = 0 /\ Goto(i, "bench") /\ CtrlRecv({Cep(i)}, CtrlSize)
      BY <1>4, StartReads
    <2>2. pc'[i] = "bench" /\ rq'[Cep(i)] = Append(rq[Cep(i)], CtrlSize) /\ UNCHANGED cqtx
      BY <1>0, <1>4, <2>1, GotoOwn, RecvOwn DEF RecvStart
    <2>3. rq[Cep(i)] = <<>> /\ Len(rxc[Cep(i)]) = 1 /\ rxc'[Cep(i)] = <<>>
      BY <1>0, <2>1 DEF Took
    <2>4. Got(i) = 2 /\ Got(i)' = 3 /\ Answered(i) = 1 /\ Answered(i)' = 1
      BY <1>0, <1>1, <2>1, <2>2 DEF Got, Answered
    <2>5. Expect(i)' = CtrlSize
      BY <2>4 DEF Expect
    <2>6. Takes(i)
      BY <2>2, <2>3, <2>4, <2>5 DEF Takes
    <2>7. LastAnswer(i)' = LastAnswer(i) /\ Spent(i)' = Spent(i)
      BY <1>1, <2>1, <2>2 DEF LastAnswer, Spent
    <2>8. Silent(i)
      BY <1>1, <2>4, <2>7 DEF Silent
    <2> QED
      BY <1>1, <1>2, <2>2, <2>6, <2>8 DEF ClientEffect
  <1>5. CASE Exit(i)
    <2>1. pc[i] = "finished" /\ pc'[i] = "gone" /\ UNCHANGED <<rq, rxc, cqtx>>
      BY <1>0, <1>5, GotoOwn DEF Exit, Exchange
    <2>2. Got(i)' = Got(i) /\ Answered(i)' = Answered(i) /\ LastAnswer(i)' = LastAnswer(i)
          /\ Spent(i)' = Spent(i)
      BY <1>0, <1>1, <2>1 DEF Got, Answered, LastAnswer, Spent
    <2>3. Quiet(i) /\ Silent(i)
      BY <1>1, <2>1, <2>2 DEF Quiet, Silent
    <2> QED
      BY <1>1, <1>2, <2>1, <2>3 DEF ClientEffect
  <1> QED
    BY <1>3, <1>4, <1>5

LEMMA BenchEffect ==
  ASSUME TypeOK, BarrierInv, Exchange, NEW i \in EN, BenchCommand(i)
  PROVE  ClientEffect(i)
  <1>0. /\ i \in Host /\ i \in Node /\ i \notin PN /\ CN \notin PN
        /\ Cep(i) \in Endpoint /\ CN \in Listener /\ Cep(i) = <<i, CN>>
        /\ snap[i] \in Nat /\ Asked \in Nat /\ rounds \in Nat
    BY CepFacts, NodeFacts, Numbers
  <1>1. pc[i] = "bench" /\ Took(i) /\ (BenchCut(i) \/ BenchEnd(i)) /\ UNCHANGED <<peer, cqtx>>
    BY BenchReads DEF BenchCommand
  <1>2. rq[Cep(i)] = <<>> /\ Len(rxc[Cep(i)]) = 1 /\ rxc'[Cep(i)] = <<>> /\ rxc[Cep(i)] # <<>>
    BY <1>0, <1>1 DEF Took
  <1>3. Got(i) = 3 + snap[i] /\ Answered(i) = 1 + snap[i]
    BY <1>0, <1>1 DEF Got, Answered
  <1>4. sq[Cep(i)] = <<>>
    <2> SUFFICES ASSUME sq[Cep(i)] # <<>> PROVE FALSE
      OBVIOUS
    <2>1. Answered(i) = Owed
      BY Ledger
    <2>2. Got(i) + 1 <= Sent(i) /\ Sent(i) \in Nat /\ Owed \in Nat
      BY <1>0, <1>2, ReadsScript, Numbers
    <2>3. Sent(i) > 2
      BY <1>0, <1>3, <2>2
    <2>4. Started
      BY <2>2, <2>3, OwedBySent
    <2>5. Owed = Sent(i) - 2
      BY <2>4, OwedBySent
    <2> QED
      BY <1>0, <1>3, <2>1, <2>2, <2>5
  <1>5. CASE BenchCut(i)
    <2>1. /\ snap'[i] = snap[i] + 1 /\ pc'[i] = "bench" /\ snap[i] < Asked
          /\ rq'[Cep(i)] = Append(rq[Cep(i)], IntSize)
      <3>1. Goto(i, "bench") /\ CtrlRecv({Cep(i)}, IntSize) /\ snap[i] < Asked
            /\ snap' = [snap EXCEPT ![i] = @ + 1]
        BY <1>5 DEF BenchCut
      <3>2. pc'[i] = "bench"
        BY <1>0, <3>1, GotoOwn
      <3>3. rq'[Cep(i)] = Append(rq[Cep(i)], IntSize)
        BY <1>0, <3>1, RecvOwn
      <3>4. snap'[i] = snap[i] + 1
        BY <1>0, <3>1 DEF TypeOK
      <3> QED
        BY <3>1, <3>2, <3>3, <3>4
    <2>2. Got(i)' = Got(i) + 1 /\ Answered(i)' = Answered(i) + 1 /\ Got(i)' > 3
      BY <1>0, <1>3, <2>1 DEF Got, Answered
    <2>3. Expect(i)' = IntSize
      BY <1>0, <1>3, <2>1, <2>2 DEF Expect
    <2>4. LastAnswer(i)' = Delta(i, snap[i] + 1)
      BY <1>0, <2>1 DEF LastAnswer, Delta
    <2>5. /\ sq'[Cep(i)] = Append(sq[Cep(i)], Delta(i, snap[i] + 1))
          /\ buf'[Cep(i)] = Delta(i, snap[i] + 1)
      BY <1>0, <1>5 DEF BenchCut, CtrlSend
    <2>6. Takes(i)
      BY <1>2, <2>1, <2>2, <2>3 DEF Takes
    <2>7. Says(i)
      BY <1>1, <1>4, <2>1, <2>2, <2>4, <2>5 DEF Says, Spent
    <2>8. snap'[i] <= Asked
      BY <1>0, <2>1
    <2> QED
      BY <2>1, <2>6, <2>7, <2>8 DEF ClientEffect
  <1>6. CASE BenchEnd(i)
    <2>1. /\ snap'[i] = snap[i] /\ pc'[i] = "finished" /\ Closed /\ snap[i] = rounds
          /\ rq'[Cep(i)] = rq[Cep(i)]
      BY <1>0, <1>6, GotoOwn, RecvOwn DEF BenchEnd, TypeOK
    <2>2. Got(i)' = Got(i) + 1 /\ Answered(i)' = Answered(i) + 1
      BY <1>0, <1>3, <2>1 DEF Got, Answered
    <2>4. LastAnswer(i)' = Total(i, snap[i])
      BY <1>0, <2>1 DEF LastAnswer, Total
    <2>5. /\ sq'[Cep(i)] = Append(sq[Cep(i)], Total(i, snap[i]))
          /\ buf'[Cep(i)] = Total(i, snap[i])
      BY <1>0, <1>6 DEF BenchEnd, CtrlSend
    <2>6. Takes(i)
      BY <1>2, <2>1, <2>2 DEF Takes
    <2>7. Says(i)
      BY <1>1, <1>4, <2>1, <2>2, <2>4, <2>5 DEF Says, Spent
    <2>8. snap'[i] <= Asked
      BY <2>1, ClientParts DEF Cuts
    <2> QED
      BY <2>1, <2>6, <2>7, <2>8 DEF ClientEffect
  <1> QED
    BY <1>1, <1>5, <1>6

\* Every step of a client keeps to the protocol.
LEMMA ClientEffects ==
  ASSUME TypeOK, BarrierInv, Exchange, NEW i \in EN, ClientStep(i)
  PROVE  ClientEffect(i)
  BY DialEffect, KeysEffect, AskEffect, StartEffect, BenchEffect DEF ClientStep, HostStep

LEMMA NoSlots ==
  ASSUME TypeOK, NEW e \in Endpoint
  PROVE  Slots(e) = 0 <=> rq[e] = <<>> /\ rxc[e] = <<>>
  <1> DEFINE a == Len(rq[e])
             b == Len(rxc[e])
  <1>1. /\ a \in Nat /\ b \in Nat
        /\ (a = 0 <=> rq[e] = <<>>) /\ (b = 0 <=> rxc[e] = <<>>)
    BY Lengths
  <1>2. Slots(e) = a + b
    BY DEF Slots
  <1> HIDE DEF a, b
  <1>3. Slots(e) = 0 <=> a = 0 /\ b = 0
    BY <1>1, <1>2
  <1> QED
    BY <1>1, <1>3

LEMMA NoSlotsNext ==
  ASSUME NEW e, rq'[e] = <<>>, rxc'[e] = <<>>
  PROVE  Slots(e)' = 0
  <1>1. Len(<<>>) = 0
    OBVIOUS
  <1> QED
    BY <1>1 DEF Slots

\* A client that is done has read all that was sent to it.
LEMMA IdleStep ==
  ASSUME TypeOK, BarrierInv, Exchange, NEW i \in EN, ClientStep(i)
  PROVE  Idle(i)'
  <1> SUFFICES ASSUME pc'[i] \in {"finished", "gone"}, NEW q \in Listener
               PROVE  rq'[<<i, q>>] = <<>> /\ rxc'[<<i, q>>] = <<>>
    BY NoSlotsNext DEF Idle
  <1>0. i \in Node /\ <<i, q>> \in Endpoint /\ pc[i] # "failed"
    BY CepFacts, ClientLinks DEF Exchange
  <1>1. CASE BenchCommand(i)
    <2>1. pc[i] = "bench" /\ Took(i) /\ (BenchCut(i) \/ BenchEnd(i))
      BY <1>1, BenchReads
    <2>2. rq' = rq \/ pc'[i] = "bench"
      <3>1. CASE BenchEnd(i)
        BY <3>1 DEF BenchEnd, CtrlRecv, TypeOK, FabricTypeOK
      <3>2. CASE BenchCut(i)
        BY <1>0, <3>2, GotoOwn DEF BenchCut
      <3> QED
        BY <2>1, <3>1, <3>2
    <2> QED
      BY <2>1, <2>2 DEF Took
  <1>2. CASE ~BenchCommand(i)
    <2>1. pc[i] \in {"finished", "failed"} /\ pc'[i] = "gone"
      <3>1. pc[i] = "bench" => BenchCommand(i)
        BY DEF ClientStep, HostStep, HostDial, ConnectEvent, ConnectKeys, Exit, AwaitConnect,
               RecvConnect, DialNext, Confirm, ConfirmSent, RecvStart
      <3> QED
        BY <1>2, <3>1, ClientMoves
    <2>2. Exit(i)
      BY <2>1 DEF ClientStep, HostStep, HostDial, ConnectEvent, ConnectKeys, AwaitConnect,
                  RecvConnect, DialNext, Confirm, ConfirmSent, RecvStart, BenchCommand
    <2>3. UNCHANGED <<rq, rxc>> /\ pc[i] = "finished"
      BY <1>0, <2>1, <2>2 DEF Exit
    <2>4. Slots(<<i, q>>) = 0
      BY <2>3, ClientParts DEF Idle
    <2> QED
      BY <1>0, <2>3, <2>4, NoSlots
  <1> QED
    BY <1>1, <1>2

ServerEffect(s) ==
  /\ pc'[s] # "failed"
  /\ pc'[s] \in {"finished", "gone"} => Closed
  /\ Quiet(s) \/ Posts(s) \/ Takes(s)
  /\ sq'[Cep(s)] = sq[Cep(s)] /\ buf'[Cep(s)] = buf[Cep(s)]
  /\ pc'[s] \in {"listen", "dial", "wait_all"} => rq'[Cep(s)] = <<>> /\ rxc'[Cep(s)] = <<>>

LEMMA HandleStill ==
  ASSUME TypeOK, Exchange, NEW s \in PN, WaitAllConn(s) \/ ServeEvent(s)
  PROVE  /\ pc'[s] = pc[s] /\ UNCHANGED <<rq, rxc, cqtx, peer>>
         /\ sq'[Cep(s)] = sq[Cep(s)] /\ buf'[Cep(s)] = buf[Cep(s)]
  <1>0. s \in Host /\ s \in Node /\ s \in Listener /\ Cep(s) \in Link /\ Cep(s) \in Endpoint
    BY HostFacts, NodeFacts
  <1>1. /\ eq[s] # <<>> /\ HandleEvent(s, Head(eq[s])) /\ UNCHANGED <<rq, rxc, cqtx, peer>>
        /\ \/ Goto(s, IF Head(eq[s]).kind = "REFUSED" THEN "failed" ELSE pc[s])
           \/ pc[s] = "serve" /\ Goto(s, "serve")
    BY DEF WaitAllConn, ServeEvent
  <1>2. Head(eq[s]).kind # "REFUSED"
    BY <1>0, <1>1, EventsGood
  <1>3. pc'[s] = pc[s]
    BY <1>0, <1>1, <1>2, GotoOwn
  <1>4. sq'[Cep(s)] = sq[Cep(s)] /\ buf'[Cep(s)] = buf[Cep(s)]
    <2>1. CASE Head(eq[s]).kind = "CONNECTED" /\ Head(eq[s]).ep \in Passive
      <3>1. Head(eq[s]).ep # Cep(s)
        BY <1>0, <2>1, LinkIsNotPassive
      <3>2. CtrlSend([e \in {Head(eq[s]).ep} |-> KeysOf(e)])
        BY <1>1, <2>1 DEF HandleEvent
      <3> QED
        BY <1>0, <3>1, <3>2, SendOwn
    <2>2. CASE ~(Head(eq[s]).kind = "CONNECTED" /\ Head(eq[s]).ep \in Passive)
      BY <1>1, <2>2 DEF HandleEvent
    <2> QED
      BY <2>1, <2>2
  <1> QED
    BY <1>1, <1>3, <1>4

LEMMA ServerEffects ==
  ASSUME TypeOK, Exchange, NEW s \in PN, ServerStep(s)
  PROVE  ServerEffect(s)
  <1>0. /\ s \in Host /\ s \in Node /\ s \notin EN /\ s # CN /\ peer[s] = CN /\ s \in Listener
        /\ Cep(s) \in Endpoint /\ Cep(s) = <<s, CN>> /\ <<s, CN>> \in Link
    <2>1. s \in Host /\ s \in Node /\ s \notin EN /\ s # CN /\ s \in Listener /\ peer[s] = CN
      BY NodeFacts DEF TypeOK
    <2> QED
      BY <2>1, HostFacts
  <1>1. /\ pc[s] # "failed" /\ (pc[s] \in {"finished", "gone"} => Closed)
        /\ pc[s] \in {"listen", "dial", "wait_all"} => rq[Cep(s)] = <<>> /\ rxc[Cep(s)] = <<>>
    <2>1. /\ pc[s] # "failed" /\ (pc[s] \in {"finished", "gone"} => Closed)
          /\ pc[s] \in {"listen", "dial", "wait_all"} => Slots(Cep(s)) = 0
      BY <1>0, ServerParts DEF ServerEnd, Exchange
    <2> QED
      BY <1>0, <2>1, NoSlots
  <1>3. CASE ServerListen(s) \/ ConnectEvent(s) \/ Exit(s)
    <2>1. /\ UNCHANGED <<rq, rxc, sq, buf, peer>>
          /\ \/ pc[s] = "listen" /\ pc'[s] = "dial"
             \/ pc[s] = "await_cm" /\ pc'[s] = "await_keys"
             \/ pc[s] = "finished" /\ pc'[s] = "gone"
      BY <1>0, <1>1, <1>3, ConnectHears, GotoOwn DEF ServerListen, ConnectEvent, Exit
    <2>2. Quiet(s)
      BY <1>0, <2>1 DEF Quiet, Got
    <2> QED
      BY <1>1, <2>1, <2>2 DEF ServerEffect
  <1>4. CASE HostDial(s)
    <2>1. pc[s] = "dial" /\ UNCHANGED <<rxc, sq, buf>> /\ Dial(s, CN)
      BY <1>4 DEF HostDial
    <2>2. pc'[s] = "await_cm" /\ peer'[s] = CN /\ rq'[Cep(s)] = Append(rq[Cep(s)], KeysSize)
      BY <1>0, <2>1, DialOwn
    <2>3. Got(s) = 0 /\ Got(s)' = 0 /\ Expect(s)' = KeysSize
      BY <2>1, <2>2 DEF Got, Expect
    <2>4. Posts(s)
      BY <1>1, <2>1, <2>2, <2>3 DEF Posts
    <2> QED
      BY <2>1, <2>2, <2>4 DEF ServerEffect
  <1>5. CASE ConnectKeys(s)
    <2>1. /\ pc[s] = "await_keys" /\ pc'[s] = "wait_all" /\ peer' = peer /\ rq' = rq
          /\ Len(rxc[Cep(s)]) = 1 /\ rxc'[Cep(s)] = <<>> /\ rq[Cep(s)] = <<>>
          /\ UNCHANGED <<sq, buf>>
      BY <1>5, ServerKeysRead DEF ConnectKeys
    <2>2. Got(s) = 0 /\ Got(s)' = 1
      BY <1>0, <2>1 DEF Got
    <2>3. Takes(s)
      BY <2>1, <2>2 DEF Takes
    <2> QED
      BY <2>1, <2>3 DEF ServerEffect
  <1>6. CASE WaitAllConn(s) \/ ServeEvent(s)
    <2>1. /\ pc'[s] = pc[s] /\ UNCHANGED <<rq, rxc, cqtx, peer>>
          /\ sq'[Cep(s)] = sq[Cep(s)] /\ buf'[Cep(s)] = buf[Cep(s)]
      BY <1>6, HandleStill
    <2>2. Quiet(s)
      BY <1>0, <2>1 DEF Quiet, Got
    <2> QED
      BY <1>1, <2>1, <2>2 DEF ServerEffect
  <1>7. CASE ServerReady(s)
    <2>1. /\ pc[s] = "wait_all" /\ pc'[s] = "serve" /\ UNCHANGED <<rxc, sq, buf>>
          /\ rq'[Cep(s)] = Append(rq[Cep(s)], IntSize)
      BY <1>0, <1>7, GotoOwn, RecvOwn DEF ServerReady
    <2>2. Got(s) = 1 /\ Got(s)' = 1 /\ Expect(s)' = IntSize
      BY <1>0, <2>1 DEF Got, Expect
    <2>3. Posts(s)
      BY <1>1, <2>1, <2>2 DEF Posts
    <2> QED
      BY <2>1, <2>3 DEF ServerEffect
  <1>8. CASE ServeCommand(s)
    <2>1. /\ pc[s] = "serve" /\ pc'[s] = "finished" /\ rq' = rq /\ Closed
          /\ Len(rxc[Cep(s)]) = 1 /\ rxc'[Cep(s)] = <<>> /\ rq[Cep(s)] = <<>>
          /\ UNCHANGED <<sq, buf>>
      BY <1>8, StopRead DEF ServeCommand
    <2>2. Got(s) = 1 /\ Got(s)' = 2
      BY <1>0, <2>1 DEF Got
    <2>3. Takes(s)
      BY <2>1, <2>2 DEF Takes
    <2> QED
      BY <2>1, <2>3 DEF ServerEffect
  <1> QED
    BY <1>3, <1>4, <1>5, <1>6, <1>7, <1>8 DEF ServerStep, HostStep

-----------------------------------------------------------------------------
(* As long as the controller stays where it is, its books stay. *)

ControlHere == pc'[CN] = pc[CN] /\ counter'[CN] = counter[CN] /\ rounds' = rounds

LEMMA PendingKept ==
  ASSUME TypeOK, BarrierInv, Exchange, [Next]_vars, ControlHere, ~Gathered, NEW h \in Host
  PROVE  Handshake(h)' /\ (Pending(h)' <=> Pending(h))
  <1>1. OwnEvents /\ Handshake(h) /\ pc[CN] \in SetupPC
    BY HostParts DEF BarrierInv, Handshook, Gathered, SetupPC
  <1>2. ~(WaitAllConn(CN) /\ Told(1, h, "CONNECTED"))
    <2> SUFFICES ASSUME WaitAllConn(CN), Told(1, h, "CONNECTED") PROVE FALSE
      OBVIOUS
    <2>1. CN \in Listener /\ CN \in Node /\ counter[CN] \in Int
      BY NodeFacts DEF TypeOK
    <2>2. eq[CN] # <<>>
      BY DEF WaitAllConn
    <2>3. Head(eq[CN]).kind = "CONNECTED"
      BY <2>1, <2>2, EventsGood DEF Told
    <2>4. counter'[CN] = counter[CN] + 1
      BY <2>1, <2>3 DEF WaitAllConn, Count, TypeOK
    <2> QED
      BY <2>1, <2>4 DEF ControlHere
  <1> QED
    BY <1>1, <1>2, HandshakeStep

LEMMA ControlKept ==
  ASSUME TypeOK, BarrierInv, Exchange, [Next]_vars, ControlHere
  PROVE  /\ (Gathered' <=> Gathered) /\ (Started' <=> Started) /\ (Closed' <=> Closed)
         /\ Asked' = Asked /\ Owed' = Owed
         /\ LastLine' = LastLine
         /\ \A h \in Host : Sent(h)' = Sent(h)
         /\ \A i \in EN : Wanted(i)' = Wanted(i)
  <1>1. (Gathered' <=> Gathered) /\ (Started' <=> Started) /\ (Closed' <=> Closed)
    BY DEF ControlHere, Gathered, Started, Closed
  <1>2. Asked' = Asked
    BY DEF ControlHere, Asked
  <1>3. Owed' = Owed
    BY <1>1, <1>2 DEF Owed
  <1>4. ASSUME NEW h \in Host PROVE Sent(h)' = Sent(h)
    BY <1>1, <1>2, PendingKept DEF Sent
  <1>5. LastLine' = LastLine
    BY <1>1 DEF LastLine, ControlHere
  <1>6. ASSUME NEW i \in EN PROVE Wanted(i)' = Wanted(i)
    BY <1>1 DEF Wanted, ControlHere, Total, Delta
  <1> QED
    BY <1>1, <1>2, <1>3, <1>4, <1>5, <1>6

\* The connection of a host to the controller while the host acts.
LEMMA DownByHost ==
  ASSUME TypeOK, BarrierInv, Exchange, [Next]_vars, ControlStill, NEW h \in Host,
         Quiet(h) \/ Posts(h) \/ Takes(h)
  PROVE  Down(h)'
  <1>0. <<CN, h>> \in Endpoint /\ Cep(h) \in Endpoint /\ CN \in Listener
    BY HostFacts
  <1>1. ControlHere /\ sq'[<<CN, h>>] = sq[<<CN, h>>]
    BY <1>0 DEF ControlStill, BooksKept, ControlHere, Elsewhere, Untouched
  <1>2. Sent(h)' = Sent(h) /\ LastLine' = LastLine
    BY <1>1, ControlKept
  <1>3. Down(h)
    BY HostParts
  <1>4. Got(h)' = Got(h) => Expect(h)' = Expect(h)
    BY DEF Expect
  <1>5. CASE Quiet(h)
    <2>1. /\ rq'[Cep(h)] = rq[Cep(h)] /\ rxc'[Cep(h)] = rxc[Cep(h)] /\ Got(h)' = Got(h)
          /\ rxc[Cep(h)] # <<>> => buf'[Cep(h)] = buf[Cep(h)]
      BY <1>5 DEF Quiet
    <2>2. \A k \in DOMAIN rxc[Cep(h)] : rxc[Cep(h)] # <<>>
      OBVIOUS
    <2> QED
      BY <1>1, <1>2, <1>3, <1>4, <2>1, <2>2 DEF Down, Script
  <1>6. ASSUME rxc'[Cep(h)] = <<>>, rq[Cep(h)] = <<>>,
               rq'[Cep(h)] = rq[Cep(h)] \/ rq'[Cep(h)] = Append(rq[Cep(h)], Expect(h)'),
               Len(rxc[Cep(h)]) + Got(h) = Got(h)'
        PROVE  Down(h)'
    <2>1. Len(<<>>) = 0 /\ DOMAIN <<>> = {}
      OBVIOUS
    <2>2. \A k \in DOMAIN rq'[Cep(h)] : rq'[Cep(h)][k] = Expect(h)'
      <3>1. rq'[Cep(h)] = <<>> \/ rq'[Cep(h)] = <<Expect(h)'>>
        BY <1>6
      <3> QED
        BY <3>1
    <2> DEFINE a == Len(sq[<<CN, h>>])
               b == Len(rxc[Cep(h)])
               g == Got(h)
               t == Sent(h)
    <2>3. a \in Nat /\ b \in Nat /\ g \in Nat /\ t \in Nat /\ a + b + g = t
      BY <1>0, Lengths, Numbers, GotAll
    <2>4. b + g = Got(h)'
      BY <1>6
    <2>5. a + 0 + Got(h)' = t
      <3> HIDE DEF a, b, g, t
      <3> QED
        BY <2>3, <2>4
    <2>6. Len(sq'[<<CN, h>>]) + Len(rxc'[Cep(h)]) + Got(h)' = Sent(h)'
      BY <1>1, <1>2, <1>6, <2>1, <2>5
    <2>7. ASSUME NEW k \in DOMAIN sq'[<<CN, h>>]
          PROVE  sq'[<<CN, h>>][k] = Line(h, LastLine', Got(h)' + Len(rxc'[Cep(h)]) + k)
      <3>1. k \in DOMAIN sq[<<CN, h>>] /\ k \in Nat
        BY <1>0, <1>1, <2>7, QueueTypes DEF QueueOK
      <3>2. sq[<<CN, h>>][k] = Line(h, LastLine, g + b + k)
        BY <1>3, <3>1 DEF Down, Script
      <3>3. g + b + k = Got(h)' + Len(rxc'[Cep(h)]) + k
        <4>1. Len(rxc'[Cep(h)]) = 0
          BY <1>6, <2>1
        <4> HIDE DEF a, b, g, t
        <4>2. Got(h)' + 0 + k = g + b + k
          BY <2>3, <2>4, <3>1
        <4> QED
          BY <4>1, <4>2
      <3> QED
        BY <1>1, <1>2, <3>2, <3>3
    <2> QED
      BY <1>6, <2>1, <2>2, <2>6, <2>7 DEF Down, Script
  <1>7. CASE Posts(h)
    <2>1. Len(rxc[Cep(h)]) + Got(h) = Got(h)'
      <3>1. Len(rxc[Cep(h)]) = 0 /\ Got(h) \in Nat /\ Got(h)' = Got(h)
        BY <1>0, <1>7, Lengths, Numbers DEF Posts
      <3> QED
        BY <3>1
    <2> QED
      BY <1>6, <1>7, <2>1 DEF Posts
  <1>8. CASE Takes(h)
    <2>1. Len(rxc[Cep(h)]) + Got(h) = Got(h)'
      <3>1. Len(rxc[Cep(h)]) = 1 /\ Got(h) \in Nat /\ Got(h)' = Got(h) + 1
        BY <1>0, <1>8, Lengths, Numbers DEF Takes
      <3> QED
        BY <3>1
    <2> QED
      BY <1>6, <1>8, <2>1 DEF Takes
  <1> QED
    BY <1>5, <1>7, <1>8

LEMMA UpByClient ==
  ASSUME TypeOK, BarrierInv, Exchange, [Next]_vars, ControlStill, NEW i \in EN, ClientEffect(i)
  PROVE  Up(i)' /\ TxCount(i)' /\ Cuts(i)'
  <1>0. /\ <<CN, i>> \in Endpoint /\ Cep(i) \in Endpoint /\ CN \in Listener
        /\ Answered(i) \in Nat /\ Owed \in Nat
    BY CepFacts, Numbers
  <1>1. /\ ControlHere
        /\ rq'[<<CN, i>>] = rq[<<CN, i>>] /\ rxc'[<<CN, i>>] = rxc[<<CN, i>>]
        /\ buf'[<<CN, i>>] = buf[<<CN, i>>]
    BY <1>0 DEF ControlStill, BooksKept, ControlHere, Elsewhere, Untouched
  <1>2. Owed' = Owed /\ Wanted(i)' = Wanted(i) /\ (Closed' <=> Closed) /\ Asked' = Asked /\ rounds' = rounds
    BY <1>1, ControlKept DEF ControlHere
  <1>3. Up(i) /\ TxCount(i)
    BY ClientParts
  <1>4. Cuts(i)'
    BY <1>2 DEF ClientEffect, Cuts
  <1>5. CASE Silent(i)
    <2>1. /\ sq'[Cep(i)] = sq[Cep(i)] /\ buf'[Cep(i)] = buf[Cep(i)] /\ Answered(i)' = Answered(i)
          /\ Spent(i)' = Spent(i)
      BY <1>5 DEF Silent
    <2>2. ASSUME NEW k \in DOMAIN sq[Cep(i)] PROVE LastAnswer(i)' = LastAnswer(i)
      <3>1. Answered(i) # 0
        BY <2>2, NothingSaid
      <3>2. Answered(i) >= 1
        BY <1>0, <3>1
      <3> QED
        BY <1>5, <3>2 DEF Silent
    <2> QED
      BY <1>1, <1>2, <1>3, <1>4, <2>1, <2>2 DEF Up, TxCount
  <1>6. CASE Says(i)
    <2>1. /\ sq[Cep(i)] = <<>> /\ sq'[Cep(i)] = <<LastAnswer(i)'>> /\ buf'[Cep(i)] = LastAnswer(i)'
          /\ Answered(i)' = Answered(i) + 1 /\ Spent(i)' = Spent(i)
      BY <1>6 DEF Says
    <2>2. Len(sq'[Cep(i)]) = 1 /\ \A k \in DOMAIN sq'[Cep(i)] : sq'[Cep(i)][k] = LastAnswer(i)'
      BY <2>1
    <2>3. Len(sq[Cep(i)]) = 0
      BY <2>1
    <2> DEFINE n == Len(rq[<<CN, i>>])
               a == Answered(i)
               b == Spent(i)
    <2>4. n \in Nat /\ a \in Nat /\ n + a = Owed + 0 /\ b + 0 = a
      BY <1>0, <1>3, <2>3, Lengths DEF Up, TxCount
    <2>5. b \in Nat
      <3>1. cqtx[i] \in Nat
        BY CepFacts DEF TypeOK, FabricTypeOK
      <3> QED
        BY <3>1 DEF Spent
    <2> HIDE DEF n, a, b
    <2>6. n + (a + 1) = Owed + 1 /\ b + 1 = a + 1
      BY <1>0, <2>4, <2>5
    <2>7. /\ Len(rq'[<<CN, i>>]) + Answered(i)' = Owed' + Len(sq'[Cep(i)])
          /\ Spent(i)' + Len(sq'[Cep(i)]) = Answered(i)'
      BY <1>1, <1>2, <2>1, <2>2, <2>6 DEF n, a, b
    <2> QED
      BY <1>1, <1>2, <1>3, <1>4, <2>1, <2>2, <2>7 DEF Up, TxCount
  <1> QED
    BY <1>5, <1>6 DEF ClientEffect

\* The controller's ends while it does nothing.
LEMMA ControlSide ==
  ASSUME TypeOK, BarrierInv, Exchange, [Next]_vars, ControlStill, NEW h \in Host
  PROVE  KeysWait(h)' /\ (h \in EN => SlotsOf(h)' /\ Rows(h)')
  <1>0. <<CN, h>> \in Endpoint /\ CN \in Listener
    BY HostFacts
  <1>1. Untouched(<<CN, h>>) /\ ControlHere /\ checkpoint' = checkpoint /\ summary' = summary
    BY <1>0 DEF ControlStill, BooksKept, ControlHere, Elsewhere
  <1>2. KeysWait(h)'
    BY <1>1, HostParts DEF KeysWait, Untouched
  <1>3. ASSUME h \in EN PROVE SlotsOf(h)' /\ Rows(h)'
    <2>1. Slots(<<CN, h>>)' = Slots(<<CN, h>>)
      BY <1>1 DEF Slots, Untouched
    <2> QED
      BY <1>1, <1>3, <2>1, ClientParts DEF SlotsOf, Rows, ControlHere, Delta, Total
  <1> QED
    BY <1>2, <1>3

\* A host that does not move, towards a controller that does not.
LEMMA StillHost ==
  ASSUME TypeOK, BarrierInv, Exchange, [Next]_vars, ControlStill, NEW h \in Host, HostStill(h)
  PROVE  Down(h)' /\ (h \in EN => Up(h)' /\ TxCount(h)' /\ Cuts(h)')
  <1>0. Cep(h) \in Endpoint /\ Cep(h)[1] = h /\ h \in Node
    <2>1. Cep(h) \in Endpoint /\ Cep(h) = <<h, CN>> /\ h \in Node
      BY HostFacts
    <2> QED
      BY <2>1
  <1>1. /\ Untouched(Cep(h)) /\ pc'[h] = pc[h] /\ peer'[h] = peer[h] /\ cqtx'[h] = cqtx[h]
        /\ h \in EN => snap'[h] = snap[h]
    BY <1>0 DEF HostStill, Elsewhere
  <1>2. Got(h)' = Got(h)
    BY <1>1, NodeFacts DEF Got
  <1>3. Quiet(h)
    BY <1>1, <1>2 DEF Quiet, Untouched
  <1>4. ASSUME h \in EN PROVE ClientEffect(h)
    <2>1. /\ Answered(h)' = Answered(h) /\ LastAnswer(h)' = LastAnswer(h) /\ Spent(h)' = Spent(h)
      BY <1>1, <1>4 DEF Answered, LastAnswer, Spent, Total, Delta
    <2>2. Silent(h)
      BY <1>1, <1>4, <2>1 DEF Silent, Untouched
    <2>3. pc[h] # "failed" /\ Cuts(h)
      BY <1>0, <1>4, ClientParts DEF Exchange
    <2> QED
      BY <1>1, <1>3, <1>4, <2>2, <2>3 DEF ClientEffect, Cuts
  <1> QED
    BY <1>3, <1>4, DownByHost, UpByClient

-----------------------------------------------------------------------------
(* What a step of the controller does to its connection with host h. *)

LEMMA HostCount ==
  ASSUME NEW T \in SUBSET Host
  PROVE  /\ IsFiniteSet(T) /\ Cardinality(T) \in Nat /\ Cardinality(T) <= NumEP
         /\ T # Host => Cardinality(T) # NumEP
  <1>1. NumEP \in Nat \ {0}
    BY TopologyAssumption DEF NumEP
  <1>2. IsFiniteSet(Host) /\ Cardinality(Host) = NumEP
    BY <1>1, FS_Interval DEF Host
  <1> QED
    BY <1>2, FS_Subset, FS_CardinalityType

\* The controller goes on only when every host has joined ...
LEMMA AllJoined ==
  ASSUME TypeOK, Exchange, ControllerConnect, NEW h \in Host
  PROVE  ~Pending(h) /\ ~Gathered
  <1>0. /\ pc[CN] = "wait_all" /\ counter[CN] = NumEP /\ ~Gathered /\ NumEP \in Nat
        /\ Ready \in SUBSET Host
    BY TopologyAssumption DEF ControllerConnect, Goal, Gathered, Ready, NumEP
  <1>1. counter[CN] <= Cardinality(Ready)
    BY <1>0 DEF Exchange
  <1>2. Cardinality(Ready) \in Nat /\ Cardinality(Ready) <= NumEP
        /\ (Ready # Host => Cardinality(Ready) # NumEP)
    BY <1>0, HostCount
  <1>3. Ready = Host
    BY <1>0, <1>1, <1>2
  <1> QED
    BY <1>0, <1>3 DEF Ready

\* ... and only when it has read from every client.
LEMMA AllRead ==
  ASSUME TypeOK, Exchange, pc[CN] \in {"connect_rx", "checkpoint_rx", "stop_rx"},
         counter[CN] = NumEN, NEW i \in EN
  PROVE  Slots(<<CN, i>>) = 0 /\ rq[<<CN, i>>] = <<>> /\ rxc[<<CN, i>>] = <<>>
  <1>0. NumEN \in Nat /\ Confirmed \in SUBSET EN /\ <<CN, i>> \in Endpoint
    BY TopologyAssumption, CepFacts DEF Confirmed
  <1>1. counter[CN] <= Cardinality(Confirmed)
    BY DEF Exchange
  <1>2. Cardinality(Confirmed) \in Nat /\ Cardinality(Confirmed) <= NumEN
        /\ (Confirmed # EN => Cardinality(Confirmed) # NumEN)
    BY <1>0, ClientCount
  <1>3. Confirmed = EN
    BY <1>0, <1>1, <1>2
  <1> QED
    BY <1>0, <1>3, NoSlots DEF Confirmed

\* The keys are the first message of a connection.
LEMMA NoKeysLeft ==
  ASSUME TypeOK, Exchange, NEW h \in Host, Got(h) >= 1, NEW k \in DOMAIN sq[<<CN, h>>]
  PROVE  sq[<<CN, h>>][k].kind # "KEYS"
  <1> DEFINE g == Got(h)
             b == Len(rxc[Cep(h)])
             x == g + b + k
  <1>1. k \in Nat /\ k >= 1 /\ g \in Nat /\ b \in Nat
    BY HostFacts, QueueTypes, Numbers DEF QueueOK
  <1>2. sq[<<CN, h>>][k] = Line(h, LastLine, x)
    BY HostParts DEF Down, Script
  <1>3. x # 1
    <2>1. g >= 1
      OBVIOUS
    <2> HIDE DEF g, b
    <2> QED
      BY <1>1, <2>1
  <1>4. Line(h, LastLine, x).kind # "KEYS"
    <2> HIDE DEF x
    <2> QED
      BY <1>3 DEF Line, Command
  <1> QED
    BY <1>2, <1>4

ControlSends(h) ==
  /\ \/ sq'[<<CN, h>>] = sq[<<CN, h>>] /\ Sent(h)' = Sent(h)
     \/ /\ sq'[<<CN, h>>] = Append(sq[<<CN, h>>], Line(h, LastLine', Sent(h)'))
        /\ Sent(h)' = Sent(h) + 1
  /\ \A k \in Nat \ {0} : k <= Sent(h) => Line(h, LastLine', k) = Line(h, LastLine, k)
  /\ KeysWait(h)'

ControlAsks(i) ==
  \/ /\ rq'[<<CN, i>>] = rq[<<CN, i>>] /\ rxc'[<<CN, i>>] = rxc[<<CN, i>>] /\ Owed' = Owed
     /\ \/ rq[<<CN, i>>] = <<>> /\ rxc[<<CN, i>>] = <<>>
        \/ Wanted(i)' = Wanted(i) /\ buf'[<<CN, i>>] = buf[<<CN, i>>]
  \/ /\ rq[<<CN, i>>] = <<>> /\ rxc[<<CN, i>>] = <<>> /\ rxc'[<<CN, i>>] = <<>>
     /\ rq'[<<CN, i>>] = Append(rq[<<CN, i>>], LenOf(Wanted(i)'))
     /\ Owed' = Owed + 1
  \/ /\ rq[<<CN, i>>] = <<>> /\ rq'[<<CN, i>>] = <<>> /\ rxc'[<<CN, i>>] = <<>>
     /\ Owed' = Owed

\* The order the controller works in.
Onward == /\ (Closed => Closed' /\ rounds' = rounds) /\ Asked' \in {Asked, Asked + 1}
          /\ (Gathered => Gathered') /\ (Started => Started')

ControlEffect(h) ==
  /\ pc'[CN] # "failed" /\ Onward
  /\ ControlSends(h)
  /\ h \in EN => ControlAsks(h) /\ SlotsOf(h)' /\ Rows(h)'

\* Steps that only turn to the next wait.
LEMMA TurnEffect ==
  ASSUME TypeOK, Exchange, NEW h \in Host,
         \/ ConnectSent \/ StartSent \/ CheckpointSent \/ StopSent
         \/ SummaryDone \/ AwaitShutdown \/ ControllerDone \/ Exit(CN)
  PROVE  ControlEffect(h)
  <1>0. /\ CN \in Node /\ pc[CN] # "failed" /\ Asked \in Nat /\ rounds \in Nat
        /\ <<CN, h>> \in Endpoint
    BY NodeFacts, Numbers, HostFacts DEF Exchange
  <1>1. /\ UNCHANGED <<sq, rq, rxc, buf, rounds, checkpoint, summary>>
        /\ \/ pc[CN] = "connect_tx" /\ pc'[CN] = "connect_rx"
           \/ pc[CN] = "start_tx" /\ pc'[CN] = "timer"
           \/ pc[CN] = "checkpoint_tx" /\ pc'[CN] = "checkpoint_rx"
           \/ pc[CN] = "stop_tx" /\ pc'[CN] = "stop_rx"
           \/ pc[CN] = "stop_rx" /\ pc'[CN] = "stop_cm" /\ counter[CN] = NumEN
           \/ pc[CN] = "stop_cm" /\ pc'[CN] \in {"stop_cm", "finished"}
           \/ pc[CN] = "finished" /\ pc'[CN] = "gone"
    <2>1. CASE ConnectSent \/ StartSent \/ CheckpointSent \/ StopSent
      BY <1>0, <2>1, GotoOwn DEF ConnectSent, StartSent, CheckpointSent, StopSent, CommandsSent
    <2>2. CASE SummaryDone \/ ControllerDone
      BY <1>0, <2>2, GotoOwn DEF SummaryDone, ControllerDone, fabricVars
    <2>3. CASE AwaitShutdown
      <3>1. Head(eq[CN]).kind # "REFUSED"
        BY <1>0, <2>3, EventsGood DEF AwaitShutdown
      <3> QED
        BY <1>0, <2>3, <3>1, GotoOwn DEF AwaitShutdown
    <2>4. CASE Exit(CN)
      BY <1>0, <2>4, GotoOwn DEF Exit
    <2> QED
      BY <2>1, <2>2, <2>3, <2>4
  <1>2. /\ Gathered /\ Gathered' /\ (Closed' <=> Closed) /\ (Started' <=> Started)
        /\ Asked' = Asked
    BY <1>1 DEF Gathered, Closed, Started, Asked
  <1>3. Sent(h)' = Sent(h) /\ LastLine' = LastLine /\ Owed' = Owed
    BY <1>1, <1>2 DEF Sent, LastLine, Owed
  <1>4. ControlSends(h)
    BY <1>1, <1>3, HostParts DEF ControlSends, KeysWait
  <1>5. Onward /\ pc'[CN] # "failed"
    BY <1>0, <1>1, <1>2 DEF Onward
  <1>6. ASSUME h \in EN PROVE ControlAsks(h) /\ SlotsOf(h)' /\ Rows(h)'
    <2>1. Wanted(h)' = Wanted(h)
      BY <1>1, <1>2 DEF Wanted, Total, Delta
    <2>2. ControlAsks(h)
      BY <1>1, <1>3, <2>1 DEF ControlAsks
    <2>3. Slots(<<CN, h>>)' = Slots(<<CN, h>>)
      BY <1>1 DEF Slots
    <2>4. pc[CN] = "stop_rx" /\ pc'[CN] = "stop_cm" => Slots(<<CN, h>>) = 0
      BY <1>1, <1>6, AllRead
    <2>5. SlotsOf(h)'
      BY <1>1, <1>6, <2>3, <2>4, ClientParts DEF SlotsOf
    <2>6. pc[CN] = "start_tx" => rounds = 0
      BY DEF Exchange
    <2>7. pc[CN] \in {"checkpoint_tx", "stop_tx"} => Slots(<<CN, h>>) = 1
      BY <1>6, ClientParts DEF SlotsOf
    <2>8. Rows(h)'
      BY <1>1, <1>6, <2>3, <2>4, <2>6, <2>7, ClientParts DEF Rows, Total, Delta
    <2> QED
      BY <2>2, <2>5, <2>8
  <1> QED
    BY <1>4, <1>5, <1>6 DEF ControlEffect

\* While it waits for connections, the controller sends the keys to a host that
\* has joined.
LEMMA WaitEffect ==
  ASSUME TypeOK, BarrierInv, Exchange, NEW h \in Host, WaitAllConn(CN), [Next]_vars
  PROVE  ControlEffect(h)
  <1>0. /\ CN \in Node /\ CN \in Listener /\ Asked \in Nat /\ OwnEvents
        /\ <<CN, h>> \in Endpoint /\ <<CN, h>> \in Passive /\ Handshake(h)
    <2>1. ~Gathered
      BY DEF WaitAllConn, Gathered
    <2> QED
      BY <2>1, NodeFacts, Numbers, HostFacts, HostParts DEF Handshook, BarrierInv
  <1>1. /\ pc[CN] = "wait_all" /\ eq[CN] # <<>> /\ HandleEvent(CN, Head(eq[CN]))
        /\ UNCHANGED <<rq, rxc, rounds, checkpoint, summary>>
        /\ Goto(CN, IF Head(eq[CN]).kind = "REFUSED" THEN "failed" ELSE pc[CN])
    BY DEF WaitAllConn
  <1>2. Head(eq[CN]).kind # "REFUSED" /\ Head(eq[CN]) = eq[CN][1]
    BY <1>0, <1>1, EventsGood
  <1>3. pc'[CN] = "wait_all"
    BY <1>0, <1>1, <1>2, GotoOwn
  <1>4. /\ ~Gathered /\ ~Gathered' /\ ~Started /\ ~Started' /\ ~Closed /\ ~Closed'
        /\ Asked' = Asked /\ Owed' = Owed /\ LastLine' = LastLine
    BY <1>1, <1>3 DEF Gathered, Started, Closed, Asked, Owed, LastLine
  <1>5. ASSUME Told(1, h, "CONNECTED") PROVE ControlSends(h)
    <2>1. Pending(h) /\ ~Pending(h)'
      BY <1>0, <1>5, HandshakeWait
    <2>2. Sent(h) = 0 /\ Sent(h)' = 1
      BY <1>4, <2>1 DEF Sent
    <2>3. Head(eq[CN]).kind = "CONNECTED" /\ Head(eq[CN]).ep = <<CN, h>>
      BY <1>2, <1>5 DEF Told
    <2>4. CtrlSend([e \in {<<CN, h>>} |-> KeysOf(e)])
      BY <1>0, <1>1, <2>3 DEF HandleEvent
    <2>5. sq'[<<CN, h>>] = Append(sq[<<CN, h>>], KeysOf(<<CN, h>>)) /\ buf'[<<CN, h>>] = KeysOf(<<CN, h>>)
      BY <1>0, <2>4 DEF CtrlSend
    <2>6. Line(h, LastLine', 1) = KeysOf(<<CN, h>>)
      BY DEF Line
    <2>7. KeysWait(h)'
      BY <2>5 DEF KeysWait
    <2>8. \A k \in Nat \ {0} : k <= Sent(h) => Line(h, LastLine', k) = Line(h, LastLine, k)
      BY <1>4
    <2> QED
      BY <2>2, <2>5, <2>6, <2>7, <2>8 DEF ControlSends
  <1>6. ASSUME ~Told(1, h, "CONNECTED") PROVE ControlSends(h)
    <2>1. Pending(h)' <=> Pending(h)
      BY <1>0, <1>6, HandshakeWait
    <2>2. Sent(h)' = Sent(h)
      BY <1>4, <2>1 DEF Sent
    <2>3. sq'[<<CN, h>>] = sq[<<CN, h>>] /\ buf'[<<CN, h>>] = buf[<<CN, h>>]
      <3>1. CASE Head(eq[CN]).kind = "CONNECTED" /\ Head(eq[CN]).ep \in Passive
        <4>1. Head(eq[CN]).ep # <<CN, h>>
          BY <1>2, <1>6, <3>1 DEF Told
        <4> QED
          BY <1>0, <1>1, <4>1, HandleOwn
      <3>2. CASE ~(Head(eq[CN]).kind = "CONNECTED" /\ Head(eq[CN]).ep \in Passive)
        BY <1>1, <3>2 DEF HandleEvent
      <3> QED
        BY <3>1, <3>2
    <2>4. KeysWait(h)'
      BY <2>3, HostParts DEF KeysWait
    <2>5. \A k \in Nat \ {0} : k <= Sent(h) => Line(h, LastLine', k) = Line(h, LastLine, k)
      BY <1>4
    <2> QED
      BY <2>2, <2>3, <2>4, <2>5 DEF ControlSends
  <1>7. ControlSends(h)
    BY <1>5, <1>6
  <1>8. ASSUME h \in EN PROVE ControlAsks(h) /\ SlotsOf(h)' /\ Rows(h)'
    <2>1. Slots(<<CN, h>>) = 0
      BY <1>1, <1>8, ClientParts DEF SlotsOf
    <2>2. rq[<<CN, h>>] = <<>> /\ rxc[<<CN, h>>] = <<>>
      BY <1>0, <2>1, NoSlots
    <2>3. ControlAsks(h)
      BY <1>1, <1>4, <2>2 DEF ControlAsks
    <2>4. Slots(<<CN, h>>)' = 0
      BY <1>1, <2>1 DEF Slots
    <2> QED
      BY <1>3, <2>3, <2>4 DEF SlotsOf, Rows
  <1> QED
    BY <1>0, <1>3, <1>4, <1>7, <1>8 DEF ControlEffect, Onward

\* A read of the controller, wherever it takes one.
LEMMA CollectFacts ==
  ASSUME TypeOK, Exchange, CollectConfirm \/ CollectCheckpoint \/ CollectSummary
  PROVE  /\ pc'[CN] = pc[CN] /\ pc[CN] \in {"connect_rx", "checkpoint_rx", "stop_rx"}
         /\ UNCHANGED <<sq, rq, buf, rounds>>
         /\ counter'[CN] \in {counter[CN], counter[CN] + 1}
         /\ \E j \in EN : /\ rxc[<<CN, j>>] # <<>> /\ ReadRx(<<CN, j>>)
                          /\ buf[<<CN, j>>] = Wanted(j)
                          /\ Head(rxc[<<CN, j>>]).len = LenOf(Wanted(j))
                          /\ IF CollectCheckpoint THEN checkpoint' = Row(checkpoint, <<CN, j>>)
                             ELSE checkpoint' = checkpoint
                          /\ IF CollectSummary THEN summary' = Row(summary, <<CN, j>>)
                             ELSE summary' = summary
  <1>0. CN \in Node /\ CN \in Listener
    BY NodeFacts
  <1>1. ASSUME NEW e \in ClientEps, ReadRx(e)
        PROVE  \E j \in EN : /\ e = <<CN, j>> /\ rxc[e] # <<>> /\ buf[e] = Wanted(j)
                             /\ Head(rxc[e]).len = LenOf(Wanted(j))
    <2>1. PICK j \in EN : e = <<CN, j>>
      BY DEF ClientEps
    <2>2. rxc[e] # <<>> /\ e \in Endpoint
      BY <1>1, <2>1, CepFacts DEF ReadRx
    <2>3. rxc[e] \in Seq(Completions)
      BY <2>2, QueueTypes DEF QueueOK
    <2>4. 1 \in DOMAIN rxc[e] /\ Head(rxc[e]) = rxc[e][1]
      BY <2>2, <2>3
    <2>5. buf[e] = Wanted(j) /\ rxc[e][1] = [size |-> LenOf(Wanted(j)), len |-> LenOf(Wanted(j))]
      BY <2>1, <2>4, ClientParts DEF Up
    <2> QED
      BY <2>1, <2>2, <2>4, <2>5
  <1>2. CASE CollectConfirm
    <2>1. PICK e \in ClientEps :
            /\ ReadRx(e)
            /\ IF Head(rxc[e]).len # IntSize
               THEN Goto(CN, "failed") /\ UNCHANGED counter
               ELSE /\ Count(CN, IF buf[e].kind = "CONNECTED" THEN counter[CN] + 1
                                 ELSE counter[CN])
                    /\ UNCHANGED pc
      BY <1>2 DEF CollectConfirm
    <2>2. /\ pc[CN] = "connect_rx" /\ UNCHANGED <<sq, rq, buf, rounds, checkpoint, summary>>
          /\ ~CollectCheckpoint /\ ~CollectSummary
      BY <1>2 DEF CollectConfirm, CollectCheckpoint, CollectSummary
    <2>3. PICK j \in EN : /\ e = <<CN, j>> /\ rxc[e] # <<>> /\ buf[e] = Wanted(j)
                          /\ Head(rxc[e]).len = LenOf(Wanted(j))
      BY <1>1, <2>1
    <2>4. LenOf(Wanted(j)) = IntSize
      <3>1. Wanted(j) = Command("CONNECTED", Cep(j)) /\ "CONNECTED" \in Commands
        BY <2>2 DEF Wanted, Started, Commands
      <3> QED
        BY <3>1, MessageSizes
    <2>5. pc' = pc /\ counter'[CN] \in {counter[CN], counter[CN] + 1}
      BY <1>0, <2>1, <2>3, <2>4 DEF Count, TypeOK
    <2> QED
      BY <2>1, <2>2, <2>3, <2>5
  <1>3. CASE CollectCheckpoint
    <2>1. PICK e \in ClientEps : ReadRx(e) /\ checkpoint' = Row(checkpoint, e)
      BY <1>3 DEF CollectCheckpoint
    <2>2. /\ pc[CN] = "checkpoint_rx" /\ UNCHANGED <<sq, rq, buf, rounds, pc, summary>>
          /\ ~CollectSummary /\ Count(CN, counter[CN] + 1)
      BY <1>3 DEF CollectCheckpoint, CollectSummary
    <2>3. PICK j \in EN : /\ e = <<CN, j>> /\ rxc[e] # <<>> /\ buf[e] = Wanted(j)
                          /\ Head(rxc[e]).len = LenOf(Wanted(j))
      BY <1>1, <2>1
    <2>4. counter'[CN] = counter[CN] + 1
      BY <1>0, <2>2 DEF Count, TypeOK
    <2> QED
      BY <1>3, <2>1, <2>2, <2>3, <2>4
  <1>4. CASE CollectSummary
    <2>1. PICK e \in ClientEps : ReadRx(e) /\ summary' = Row(summary, e)
      BY <1>4 DEF CollectSummary
    <2>2. /\ pc[CN] = "stop_rx" /\ UNCHANGED <<sq, rq, buf, rounds, pc, checkpoint>>
          /\ ~CollectCheckpoint /\ Count(CN, counter[CN] + 1)
      BY <1>4 DEF CollectCheckpoint, CollectSummary
    <2>3. PICK j \in EN : /\ e = <<CN, j>> /\ rxc[e] # <<>> /\ buf[e] = Wanted(j)
                          /\ Head(rxc[e]).len = LenOf(Wanted(j))
      BY <1>1, <2>1
    <2>4. counter'[CN] = counter[CN] + 1
      BY <1>0, <2>2 DEF Count, TypeOK
    <2> QED
      BY <1>4, <2>1, <2>2, <2>3, <2>4
  <1> QED
    BY <1>2, <1>3, <1>4

LEMMA CollectEffect ==
  ASSUME TypeOK, Exchange, NEW h \in Host, CollectConfirm \/ CollectCheckpoint \/ CollectSummary
  PROVE  ControlEffect(h)
  <1>0. pc[CN] # "failed" /\ Asked \in Nat /\ rounds \in Nat /\ <<CN, h>> \in Endpoint
    BY NodeFacts, Numbers, HostFacts DEF Exchange
  <1>1. /\ pc'[CN] = pc[CN] /\ pc[CN] \in {"connect_rx", "checkpoint_rx", "stop_rx"}
        /\ UNCHANGED <<sq, rq, buf, rounds>>
    BY CollectFacts
  <1>2. PICK j \in EN : /\ rxc[<<CN, j>>] # <<>> /\ ReadRx(<<CN, j>>)
                        /\ buf[<<CN, j>>] = Wanted(j)
                        /\ Head(rxc[<<CN, j>>]).len = LenOf(Wanted(j))
                        /\ IF CollectCheckpoint THEN checkpoint' = Row(checkpoint, <<CN, j>>)
                           ELSE checkpoint' = checkpoint
                        /\ IF CollectSummary THEN summary' = Row(summary, <<CN, j>>)
                           ELSE summary' = summary
    BY CollectFacts
  <1>3. /\ Gathered /\ Gathered' /\ (Closed' <=> Closed) /\ (Started' <=> Started)
        /\ Asked' = Asked
    BY <1>1 DEF Gathered, Closed, Started, Asked
  <1>4. Sent(h)' = Sent(h) /\ LastLine' = LastLine /\ Owed' = Owed
    BY <1>1, <1>3 DEF Sent, LastLine, Owed
  <1>5. ControlSends(h)
    BY <1>1, <1>4, HostParts DEF ControlSends, KeysWait
  <1>6. Onward
    BY <1>0, <1>1, <1>3 DEF Onward
  <1>7. ASSUME h \in EN PROVE ControlAsks(h) /\ SlotsOf(h)' /\ Rows(h)'
    <2>0. <<CN, j>> \in Endpoint
      BY CepFacts
    <2>1. CASE h # j
      <3>1. <<CN, h>> # <<CN, j>>
        BY <2>1
      <3>2. rxc'[<<CN, h>>] = rxc[<<CN, h>>]
        BY <1>0, <1>2, <2>0, <3>1, ReadOwn
      <3>3. Wanted(h)' = Wanted(h)
        BY <1>1, <1>3 DEF Wanted, Total, Delta
      <3>4. ControlAsks(h)
        BY <1>1, <1>4, <3>2, <3>3 DEF ControlAsks
      <3>5. Slots(<<CN, h>>)' = Slots(<<CN, h>>)
        BY <1>1, <3>2 DEF Slots
      <3>6. checkpoint'[h] = checkpoint[h] /\ summary'[h] = summary[h]
        <4>1. <<CN, j>>[2] = j /\ checkpoint \in [EN -> Msg] /\ summary \in [EN -> Msg]
          BY DEF TypeOK
        <4> QED
          BY <1>2, <1>7, <2>1, <4>1 DEF Row
      <3> QED
        BY <1>1, <1>7, <3>4, <3>5, <3>6, ClientParts DEF SlotsOf, Rows, Total, Delta
    <2>2. CASE h = j
      <3>1. rxc'[<<CN, h>>] = Tail(rxc[<<CN, h>>]) /\ rxc[<<CN, h>>] # <<>>
        BY <1>2, <2>0, <2>2, ReadOwn
      <3>2. rq[<<CN, h>>] = <<>> /\ Tail(rxc[<<CN, h>>]) = <<>>
        <4> DEFINE x == rxc[<<CN, h>>]
                   a == Len(rq[<<CN, h>>])
        <4>1. Slots(<<CN, h>>) <= 1
          BY <1>7, ClientParts DEF SlotsOf
        <4>2. x \in Seq(Completions) /\ x # <<>> /\ a \in Nat /\ (a = 0 => rq[<<CN, h>>] = <<>>)
              /\ a + Len(x) <= 1
          BY <1>0, <3>1, <4>1, Lengths, QueueTypes DEF QueueOK, Slots
        <4> HIDE DEF x, a
        <4>3. Tail(x) \in Seq(Completions) /\ Len(Tail(x)) = Len(x) - 1 /\ Len(x) \in Nat \ {0}
          BY <4>2, TailFacts
        <4>4. a = 0 /\ Len(Tail(x)) = 0
          BY <4>2, <4>3
        <4>5. Tail(x) = <<>>
          BY <4>3, <4>4, NoneLeft
        <4> QED
          BY <4>2, <4>4, <4>5 DEF x
      <3>3. ControlAsks(h)
        BY <1>1, <1>4, <3>1, <3>2 DEF ControlAsks
      <3>4. Slots(<<CN, h>>)' = 0
        BY <1>1, <3>1, <3>2, NoSlotsNext
      <3>5. pc[CN] = "checkpoint_rx" => checkpoint'[h] = Delta(h, rounds + 1)
        <4>1. ASSUME pc[CN] = "checkpoint_rx" PROVE checkpoint'[h] = Delta(h, rounds + 1)
          <5>1. CollectCheckpoint
            BY <4>1 DEF CollectConfirm, CollectSummary
          <5>2. Wanted(h) = Delta(h, rounds + 1)
            BY <4>1 DEF Wanted, Started, Closed
          <5>3. Head(rxc[<<CN, h>>]).len = TransferSize
            BY <1>2, <2>2, <5>2, MessageSizes
          <5>4. <<CN, h>>[2] = h /\ checkpoint \in [EN -> Msg]
            BY DEF TypeOK
          <5> QED
            BY <1>2, <1>7, <2>2, <5>1, <5>2, <5>3, <5>4 DEF Row
        <4> QED
          BY <4>1
      <3>6. pc[CN] = "stop_rx" => summary'[h] = Total(h, rounds)
        <4>1. ASSUME pc[CN] = "stop_rx" PROVE summary'[h] = Total(h, rounds)
          <5>1. CollectSummary
            BY <4>1 DEF CollectConfirm, CollectCheckpoint
          <5>2. Wanted(h) = Total(h, rounds)
            BY <4>1 DEF Wanted, Started, Closed
          <5>3. Head(rxc[<<CN, h>>]).len = TransferSize
            BY <1>2, <2>2, <5>2, MessageSizes
          <5>4. <<CN, h>>[2] = h /\ summary \in [EN -> Msg]
            BY DEF TypeOK
          <5> QED
            BY <1>2, <1>7, <2>2, <5>1, <5>2, <5>3, <5>4 DEF Row
        <4> QED
          BY <4>1
      <3> QED
        BY <1>1, <3>3, <3>4, <3>5, <3>6 DEF SlotsOf, Rows, Total, Delta
    <2> QED
      BY <2>1, <2>2
  <1> QED
    BY <1>0, <1>1, <1>5, <1>6, <1>7 DEF ControlEffect

LEMMA DoneEffect ==
  ASSUME TypeOK, Exchange, NEW h \in Host, CheckpointDone
  PROVE  ControlEffect(h)
  <1>0. CN \in Node /\ rounds \in Nat
    BY NodeFacts, Numbers
  <1>1. /\ pc[CN] = "checkpoint_rx" /\ pc'[CN] = "timer" /\ counter[CN] = NumEN
        /\ rounds' = rounds + 1 /\ UNCHANGED <<sq, rq, rxc, buf, checkpoint, summary>>
    BY <1>0, GotoOwn DEF CheckpointDone, fabricVars
  <1>2. /\ Gathered /\ Gathered' /\ ~Closed /\ ~Closed' /\ Started /\ Started'
        /\ Asked' = Asked /\ Asked \in Nat
    BY <1>1, Numbers DEF Gathered, Closed, Started, Asked
  <1>3. Sent(h)' = Sent(h) /\ LastLine' = LastLine /\ Owed' = Owed
    BY <1>2 DEF Sent, LastLine, Owed
  <1>4. ControlSends(h)
    BY <1>1, <1>3, HostParts DEF ControlSends, KeysWait
  <1>5. ASSUME h \in EN PROVE ControlAsks(h) /\ SlotsOf(h)' /\ Rows(h)'
    <2>1. Slots(<<CN, h>>) = 0 /\ rq[<<CN, h>>] = <<>> /\ rxc[<<CN, h>>] = <<>>
      BY <1>1, <1>5, AllRead
    <2>2. ControlAsks(h)
      BY <1>1, <1>3, <2>1 DEF ControlAsks
    <2>3. Slots(<<CN, h>>)' = 0
      BY <1>1, <2>1 DEF Slots
    <2>4. checkpoint'[h] = Delta(h, rounds + 1)
      BY <1>1, <1>5, <2>1, ClientParts DEF Rows
    <2> QED
      BY <1>1, <2>2, <2>3, <2>4 DEF SlotsOf, Rows, Delta
  <1> QED
    BY <1>1, <1>2, <1>4, <1>5 DEF ControlEffect, Onward

\* A command to the endpoints of E, on the controller's end of host h.
LEMMA CommandTo ==
  ASSUME NEW h \in Host, NEW c, NEW E, SendCommand(E, c)
  PROVE  /\ <<CN, h>> \in E => /\ sq'[<<CN, h>>] = Append(sq[<<CN, h>>], Command(c, <<CN, h>>))
                               /\ buf'[<<CN, h>>] = Command(c, <<CN, h>>)
         /\ <<CN, h>> \notin E => sq'[<<CN, h>>] = sq[<<CN, h>>] /\ buf'[<<CN, h>>] = buf[<<CN, h>>]
  <1>1. <<CN, h>> \in Endpoint
    BY HostFacts
  <1> QED
    BY <1>1 DEF SendCommand, CtrlSend

LEMMA WhoseEnd ==
  ASSUME NEW h \in Host
  PROVE  (<<CN, h>> \in ClientEps <=> h \in EN) /\ <<CN, h>> \in HostEps
  <1>1. ASSUME NEW i \in EN, <<CN, h>> = <<CN, i>> PROVE h = i
    BY <1>1
  <1> QED
    BY <1>1 DEF ClientEps, HostEps

\* A queue that takes one more.
LEMMA PostKeys ==
  ASSUME TypeOK, Exchange, NEW h \in Host, NEW m \in Msg, m.kind # "KEYS", Got(h) >= 1,
         sq'[<<CN, h>>] = Append(sq[<<CN, h>>], m)
  PROVE  KeysWait(h)'
  <1> DEFINE s == sq[<<CN, h>>]
  <1>1. s \in Seq(Msg)
    BY HostFacts, QueueTypes DEF QueueOK
  <1>2. \A k \in DOMAIN s : s[k].kind # "KEYS"
    BY NoKeysLeft
  <1>3. \A k \in DOMAIN Append(s, m) : Append(s, m)[k].kind # "KEYS"
    <2> HIDE DEF s
    <2> QED
      BY <1>1, <1>2, AppendFacts
  <1> QED
    BY <1>3 DEF KeysWait

LEMMA ConnectEffect ==
  ASSUME TypeOK, BarrierInv, Exchange, NEW h \in Host, ControllerConnect
  PROVE  ControlEffect(h)
  <1>0. /\ CN \in Node /\ rounds \in Nat /\ <<CN, h>> \in Endpoint /\ Asked \in Nat /\ Host = EN \cup PN
        /\ EN \cap PN = {} /\ (<<CN, h>> \in ClientEps <=> h \in EN)
    BY NodeFacts, Numbers, HostFacts, WhoseEnd
  <1>1. /\ pc[CN] = "wait_all" /\ pc'[CN] = "connect_tx"
        /\ UNCHANGED <<rxc, rounds, checkpoint, summary>>
        /\ CtrlRecv(ClientEps, IntSize) /\ SendCommand(ClientEps, "CONNECT")
    BY <1>0, GotoOwn DEF ControllerConnect
  <1>2. /\ ~Gathered /\ Gathered' /\ ~Closed /\ ~Closed' /\ ~Started /\ ~Started'
        /\ Asked' = Asked /\ LastLine' = LastLine
    BY <1>1 DEF Gathered, Closed, Started, Asked, LastLine
  <1>3. Owed = 0 /\ Owed' = 1
    BY <1>2 DEF Owed
  <1>4. Sent(h) = 1 /\ Sent(h)' = IF h \in PN THEN 1 ELSE 2
    BY <1>2, AllJoined DEF Sent
  <1>5. ASSUME h \in EN
        PROVE  ControlSends(h) /\ ControlAsks(h) /\ SlotsOf(h)' /\ Rows(h)'
    <2>0. h \notin PN /\ <<CN, h>> \in ClientEps
      BY <1>0, <1>5
    <2>1. /\ sq'[<<CN, h>>] = Append(sq[<<CN, h>>], Command("CONNECT", <<CN, h>>))
          /\ buf'[<<CN, h>>] = Command("CONNECT", <<CN, h>>)
          /\ rq'[<<CN, h>>] = Append(rq[<<CN, h>>], IntSize)
      <3>1. SendCommand(ClientEps, "CONNECT") /\ CtrlRecv(ClientEps, IntSize)
        BY <1>1
      <3>2. /\ sq'[<<CN, h>>] = Append(sq[<<CN, h>>], Command("CONNECT", <<CN, h>>))
            /\ buf'[<<CN, h>>] = Command("CONNECT", <<CN, h>>)
        BY <2>0, <3>1, CommandTo
      <3>3. <<CN, h>> \in Endpoint
        BY <1>0
      <3>4. rq'[<<CN, h>>] = Append(rq[<<CN, h>>], IntSize)
        BY <2>0, <3>1, <3>3, RecvOwn
      <3> QED
        BY <3>2, <3>4
    <2>2. Line(h, LastLine', 2) = Command("CONNECT", <<CN, h>>)
      BY <2>0 DEF Line
    <2>3. KeysWait(h)'
      BY <1>5, <2>1 DEF KeysWait
    <2>4. ControlSends(h)
      BY <1>2, <1>4, <2>0, <2>1, <2>2, <2>3 DEF ControlSends
    <2>5. Slots(<<CN, h>>) = 0
      BY <1>1, <1>5, ClientParts DEF SlotsOf
    <2>6. rq[<<CN, h>>] = <<>> /\ rxc[<<CN, h>>] = <<>>
      BY <1>0, <2>5, NoSlots
    <2>7. LenOf(Wanted(h)') = IntSize
      <3>1. Wanted(h)' = Command("CONNECTED", Cep(h)) /\ "CONNECTED" \in Commands
        BY <1>2 DEF Wanted, Commands
      <3> QED
        BY <3>1, MessageSizes
    <2>8. ControlAsks(h)
      BY <1>1, <1>3, <2>1, <2>6, <2>7 DEF ControlAsks
    <2>9. Slots(<<CN, h>>)' = 1
      <3>1. rq'[<<CN, h>>] = <<IntSize>> /\ rxc'[<<CN, h>>] = <<>>
        BY <1>1, <2>1, <2>6
      <3> QED
        BY <3>1 DEF Slots
    <2> QED
      BY <1>1, <2>4, <2>8, <2>9 DEF SlotsOf, Rows
  <1>6. ASSUME h \in PN PROVE ControlSends(h)
    <2>1. <<CN, h>> \notin ClientEps
      BY <1>0, <1>6
    <2>2. sq'[<<CN, h>>] = sq[<<CN, h>>] /\ buf'[<<CN, h>>] = buf[<<CN, h>>]
      BY <1>1, <2>1, CommandTo
    <2> QED
      BY <1>2, <1>4, <1>6, <2>2, HostParts DEF ControlSends, KeysWait
  <1>7. Onward /\ pc'[CN] # "failed"
    BY <1>0, <1>1, <1>2 DEF Onward
  <1> QED
    BY <1>0, <1>5, <1>6, <1>7 DEF ControlEffect

\* Everyone has what it needs of the first messages before the start.
LEMMA GotSome ==
  ASSUME TypeOK, Exchange, NEW h \in Host
  PROVE  /\ Started => Got(h) >= 1
         /\ pc[CN] = "connect_rx" /\ counter[CN] = NumEN /\ h \in EN => Got(h) >= 1
  <1>0. Host = EN \cup PN /\ EN \cap PN = {} /\ Got(h) \in Nat
    BY NodeFacts, Numbers
  <1>1. ASSUME Started, h \in EN PROVE Got(h) >= 1
    <2>1. Got(h) >= 2
      BY <1>1, Ledger
    <2> QED
      BY <1>0, <2>1
  <1>2. ASSUME Started, h \in PN PROVE Got(h) >= 1
    <2>1. 0 \in EN
      BY TopologyAssumption DEF EN
    <2>2. HoldsKey(0, h)
      BY <1>2, <2>1 DEF Exchange, AllEquipped, Equipped, HoldsKey
    <2>3. Served(h)
      BY <1>2, <2>1, <2>2, ServerParts DEF DataEnd
    <2> QED
      BY <1>2, <2>3 DEF Served, Got
  <1>3. ASSUME pc[CN] = "connect_rx", counter[CN] = NumEN, h \in EN PROVE Got(h) >= 1
    <2>1. Len(rq[<<CN, h>>]) = 0
      <3>1. rq[<<CN, h>>] = <<>>
        BY <1>3, AllRead
      <3> QED
        BY <3>1
    <2>2. Owed = 1
      BY <1>3 DEF Owed, Gathered, Started
    <2>3. 0 + Answered(h) = 1 + Len(sq[Cep(h)])
      BY <1>3, <2>1, <2>2, ClientParts DEF Up
    <2>4. Len(sq[Cep(h)]) \in Nat /\ Answered(h) \in Nat
      BY <1>3, HostFacts, Lengths, Numbers
    <2>5. Answered(h) >= 1
      BY <2>3, <2>4
    <2>6. Got(h) >= 2
      BY <1>3, <2>5, AnsweredByGot
    <2> QED
      BY <1>0, <2>6
  <1> QED
    BY <1>0, <1>1, <1>2, <1>3

LEMMA StartEffectOfController ==
  ASSUME TypeOK, Exchange, NEW h \in Host, ControllerStart
  PROVE  ControlEffect(h)
  <1>0. /\ CN \in Node /\ <<CN, h>> \in Endpoint /\ Host = EN \cup PN
        /\ EN \cap PN = {} /\ (<<CN, h>> \in ClientEps <=> h \in EN)
    BY NodeFacts, HostFacts, WhoseEnd
  <1>1. /\ pc[CN] = "connect_rx" /\ pc'[CN] = "start_tx" /\ counter[CN] = NumEN /\ rounds = 0
        /\ UNCHANGED <<rq, rxc, rounds, checkpoint, summary>>
        /\ SendCommand(ClientEps, "START")
    BY <1>0, GotoOwn DEF ControllerStart, Exchange
  <1>2. /\ Gathered /\ Gathered' /\ ~Closed /\ ~Closed' /\ ~Started /\ Started'
        /\ Asked = 0 /\ Asked' = 0 /\ LastLine' = LastLine
    BY <1>1 DEF Gathered, Closed, Started, Asked, LastLine
  <1>3. Owed = 1 /\ Owed' = 1
    BY <1>2 DEF Owed
  <1>4. h \in EN => Sent(h) = 2 /\ Sent(h)' = 3
    BY <1>0, <1>2 DEF Sent
  <1>5. h \in PN => Sent(h)' = Sent(h)
    BY <1>2 DEF Sent
  <1>6. ASSUME h \in EN
        PROVE  ControlSends(h) /\ ControlAsks(h) /\ SlotsOf(h)' /\ Rows(h)'
    <2>0. h \notin PN /\ <<CN, h>> \in ClientEps
      BY <1>0, <1>6
    <2>1. sq'[<<CN, h>>] = Append(sq[<<CN, h>>], Command("START", <<CN, h>>))
      BY <1>0, <1>1, <2>0, CommandTo
    <2>2. Line(h, LastLine', 3) = Command("START", <<CN, h>>)
      BY <2>0 DEF Line
    <2>3. KeysWait(h)'
      <3>1. "START" \in Commands /\ "START" # "KEYS"
        BY DEF Commands
      <3>2. Command("START", <<CN, h>>) \in Msg /\ Command("START", <<CN, h>>).kind # "KEYS"
        BY <1>0, <3>1, MsgFacts, MessageSizes
      <3>3. Got(h) >= 1
        BY <1>1, <1>6, GotSome
      <3> QED
        BY <2>1, <3>2, <3>3, PostKeys
    <2>4. ControlSends(h)
      BY <1>2, <1>4, <1>6, <2>1, <2>2, <2>3 DEF ControlSends
    <2>5. Slots(<<CN, h>>) = 0 /\ rq[<<CN, h>>] = <<>> /\ rxc[<<CN, h>>] = <<>>
      BY <1>1, <1>6, AllRead
    <2>6. ControlAsks(h)
      BY <1>1, <1>3, <2>5 DEF ControlAsks
    <2>7. Slots(<<CN, h>>)' = 0
      BY <1>1, <2>5 DEF Slots
    <2> QED
      BY <1>1, <2>4, <2>6, <2>7 DEF SlotsOf, Rows
  <1>7. ASSUME h \in PN PROVE ControlSends(h)
    <2>1. sq'[<<CN, h>>] = sq[<<CN, h>>] /\ buf'[<<CN, h>>] = buf[<<CN, h>>]
      BY <1>0, <1>1, <1>7, CommandTo
    <2> QED
      BY <1>2, <1>5, <1>7, <2>1, HostParts DEF ControlSends, KeysWait
  <1>8. Onward /\ pc'[CN] # "failed"
    BY <1>1, <1>2 DEF Onward
  <1> QED
    BY <1>0, <1>6, <1>7, <1>8 DEF ControlEffect

LEMMA AskEffectOfController ==
  ASSUME TypeOK, Exchange, NEW h \in Host, ControllerCheckpoint
  PROVE  ControlEffect(h)
  <1>0. /\ CN \in Node /\ rounds \in Nat /\ <<CN, h>> \in Endpoint /\ Host = EN \cup PN
        /\ EN \cap PN = {} /\ (<<CN, h>> \in ClientEps <=> h \in EN)
    BY NodeFacts, Numbers, HostFacts, WhoseEnd
  <1>1. /\ pc[CN] = "timer" /\ pc'[CN] = "checkpoint_tx"
        /\ UNCHANGED <<rxc, rounds, checkpoint, summary>>
        /\ CtrlRecv(ClientEps, TransferSize) /\ SendCommand(ClientEps, "CHECKPOINT")
    BY <1>0, GotoOwn DEF ControllerCheckpoint
  <1>2. /\ Gathered /\ Gathered' /\ ~Closed /\ ~Closed' /\ Started /\ Started'
        /\ Asked = rounds /\ Asked' = rounds + 1 /\ LastLine' = LastLine /\ LastLine' = 0
    BY <1>1 DEF Gathered, Closed, Started, Asked, LastLine
  <1>3. Owed = 1 + rounds /\ Owed' = Owed + 1
    BY <1>0, <1>2 DEF Owed
  <1>4. h \in EN => Sent(h) = 3 + rounds /\ Sent(h)' = Sent(h) + 1
    BY <1>0, <1>2 DEF Sent
  <1>5. h \in PN => Sent(h)' = Sent(h)
    BY <1>2 DEF Sent
  <1>6. ASSUME h \in EN
        PROVE  ControlSends(h) /\ ControlAsks(h) /\ SlotsOf(h)' /\ Rows(h)'
    <2>0. h \notin PN /\ <<CN, h>> \in ClientEps
      BY <1>0, <1>6
    <2>1. /\ sq'[<<CN, h>>] = Append(sq[<<CN, h>>], Command("CHECKPOINT", <<CN, h>>))
          /\ rq'[<<CN, h>>] = Append(rq[<<CN, h>>], TransferSize)
      <3>1. sq'[<<CN, h>>] = Append(sq[<<CN, h>>], Command("CHECKPOINT", <<CN, h>>))
        BY <1>0, <1>1, <2>0, CommandTo
      <3>2. rq'[<<CN, h>>] = Append(rq[<<CN, h>>], TransferSize)
        BY <1>0, <1>1, <2>0, RecvOwn
      <3> QED
        BY <3>1, <3>2
    <2>2. Line(h, LastLine', Sent(h)') = Command("CHECKPOINT", <<CN, h>>)
      <3>1. Sent(h)' \in Nat /\ Sent(h)' > 3
        BY <1>0, <1>4, <1>6
      <3> QED
        BY <1>2, <2>0, <3>1 DEF Line
    <2>3. KeysWait(h)'
      <3>1. "CHECKPOINT" \in Commands /\ "CHECKPOINT" # "KEYS"
        BY DEF Commands
      <3>2. Command("CHECKPOINT", <<CN, h>>) \in Msg /\ Command("CHECKPOINT", <<CN, h>>).kind # "KEYS"
        BY <1>0, <3>1, MsgFacts, MessageSizes
      <3>3. Got(h) >= 1
        BY <1>2, GotSome
      <3> QED
        BY <2>1, <3>2, <3>3, PostKeys
    <2>4. ControlSends(h)
      BY <1>2, <1>4, <1>6, <2>1, <2>2, <2>3 DEF ControlSends
    <2>5. Slots(<<CN, h>>) = 0
      BY <1>1, <1>6, ClientParts DEF SlotsOf
    <2>6. rq[<<CN, h>>] = <<>> /\ rxc[<<CN, h>>] = <<>>
      BY <1>0, <2>5, NoSlots
    <2>7. LenOf(Wanted(h)') = TransferSize
      BY <1>2, MessageSizes DEF Wanted, Delta, LenOf, Commands
    <2>8. ControlAsks(h)
      BY <1>1, <1>3, <2>1, <2>6, <2>7 DEF ControlAsks
    <2>9. Slots(<<CN, h>>)' = 1
      <3>1. rq'[<<CN, h>>] = <<TransferSize>> /\ rxc'[<<CN, h>>] = <<>>
        BY <1>1, <2>1, <2>6
      <3> QED
        BY <3>1 DEF Slots
    <2> QED
      BY <1>1, <2>4, <2>8, <2>9 DEF SlotsOf, Rows
  <1>7. ASSUME h \in PN PROVE ControlSends(h)
    <2>1. sq'[<<CN, h>>] = sq[<<CN, h>>] /\ buf'[<<CN, h>>] = buf[<<CN, h>>]
      BY <1>0, <1>1, <1>7, CommandTo
    <2> QED
      BY <1>2, <1>5, <1>7, <2>1, HostParts DEF ControlSends, KeysWait
  <1>8. Onward /\ pc'[CN] # "failed"
    BY <1>0, <1>1, <1>2 DEF Onward
  <1> QED
    BY <1>0, <1>6, <1>7, <1>8 DEF ControlEffect

LEMMA StopEffectOfController ==
  ASSUME TypeOK, Exchange, NEW h \in Host, ControllerStop
  PROVE  ControlEffect(h)
  <1>0. /\ CN \in Node /\ rounds \in Nat /\ <<CN, h>> \in Endpoint /\ Host = EN \cup PN
        /\ EN \cap PN = {} /\ (<<CN, h>> \in ClientEps <=> h \in EN) /\ <<CN, h>> \in HostEps
    BY NodeFacts, Numbers, HostFacts, WhoseEnd
  <1>1. /\ pc[CN] = "timer" /\ pc'[CN] = "stop_tx"
        /\ UNCHANGED <<rxc, rounds, checkpoint, summary>>
        /\ CtrlRecv(ClientEps, TransferSize) /\ SendCommand(HostEps, "STOP")
    BY <1>0, GotoOwn DEF ControllerStop
  <1>2. /\ Gathered /\ Gathered' /\ ~Closed /\ Closed' /\ Started /\ Started'
        /\ Asked = rounds /\ Asked' = rounds /\ LastLine = 0 /\ LastLine' = 4 + rounds
    BY <1>1 DEF Gathered, Closed, Started, Asked, LastLine
  <1>3. Owed = 1 + rounds /\ Owed' = Owed + 1
    BY <1>0, <1>2 DEF Owed
  <1>4. h \in EN => Sent(h) = 3 + rounds /\ Sent(h)' = Sent(h) + 1 /\ Sent(h)' = 4 + rounds
    BY <1>0, <1>2 DEF Sent
  <1>5. h \in PN => Sent(h) = 1 /\ Sent(h)' = 2
    BY <1>2 DEF Sent
  <1>6. sq'[<<CN, h>>] = Append(sq[<<CN, h>>], Command("STOP", <<CN, h>>))
    BY <1>0, <1>1, CommandTo
  <1>7. KeysWait(h)'
    <2>1. "STOP" \in Commands /\ "STOP" # "KEYS"
      BY DEF Commands
    <2>2. Command("STOP", <<CN, h>>) \in Msg /\ Command("STOP", <<CN, h>>).kind # "KEYS"
      BY <1>0, <2>1, MsgFacts, MessageSizes
    <2>3. Got(h) >= 1
      BY <1>2, GotSome
    <2> QED
      BY <1>6, <2>2, <2>3, PostKeys
  <1>8. ControlSends(h)
    <2>1. CASE h \in EN
      <3>1. h \notin PN
        BY <1>0, <2>1
      <3>2. Line(h, LastLine', Sent(h)') = Command("STOP", <<CN, h>>)
        <4>1. Sent(h)' = LastLine' /\ LastLine' \notin {1, 2, 3}
          BY <1>0, <1>2, <1>4, <2>1
        <4>2. \A x : x \notin {1, 2, 3} => Line(h, x, x) = Command("STOP", <<CN, h>>)
          BY <3>1 DEF Line
        <4> QED
          BY <4>1, <4>2
      <3>3. ASSUME NEW k \in Nat \ {0}, k <= Sent(h) PROVE Line(h, LastLine', k) = Line(h, LastLine, k)
        <4>1. k # 4 + rounds /\ k # 0
          BY <1>0, <1>4, <2>1, <3>3
        <4> QED
          BY <1>2, <4>1 DEF Line
      <3> QED
        BY <1>4, <1>6, <1>7, <2>1, <3>2, <3>3 DEF ControlSends
    <2>2. CASE h \in PN
      <3>1. Line(h, LastLine', Sent(h)') = Command("STOP", <<CN, h>>)
        BY <1>5, <2>2 DEF Line
      <3>2. \A k \in Nat : Line(h, LastLine', k) = Line(h, LastLine, k)
        BY <2>2 DEF Line
      <3>3. Sent(h)' = Sent(h) + 1
        BY <1>5, <2>2
      <3> QED
        BY <1>6, <1>7, <3>1, <3>2, <3>3 DEF ControlSends
    <2> QED
      BY <1>0, <2>1, <2>2
  <1>9. ASSUME h \in EN
        PROVE  ControlAsks(h) /\ SlotsOf(h)' /\ Rows(h)'
    <2>1. rq'[<<CN, h>>] = Append(rq[<<CN, h>>], TransferSize)
      BY <1>0, <1>1, <1>9, RecvOwn
    <2>2. Slots(<<CN, h>>) = 0
      BY <1>1, <1>9, ClientParts DEF SlotsOf
    <2>3. rq[<<CN, h>>] = <<>> /\ rxc[<<CN, h>>] = <<>>
      BY <1>0, <2>2, NoSlots
    <2>4. LenOf(Wanted(h)') = TransferSize
      BY <1>2, MessageSizes DEF Wanted, Total, LenOf, Commands
    <2>5. ControlAsks(h)
      BY <1>1, <1>3, <2>1, <2>3, <2>4 DEF ControlAsks
    <2>6. Slots(<<CN, h>>)' = 1
      <3>1. rq'[<<CN, h>>] = <<TransferSize>> /\ rxc'[<<CN, h>>] = <<>>
        BY <1>1, <2>1, <2>3
      <3> QED
        BY <3>1 DEF Slots
    <2> QED
      BY <1>1, <2>5, <2>6 DEF SlotsOf, Rows
  <1>10. Onward /\ pc'[CN] # "failed"
    BY <1>0, <1>1, <1>2 DEF Onward
  <1> QED
    BY <1>8, <1>9, <1>10 DEF ControlEffect

LEMMA ControlEffects ==
  ASSUME TypeOK, BarrierInv, Exchange, [Next]_vars, ControllerStep, NEW h \in Host
  PROVE  ControlEffect(h)
  <1>1. CASE \/ ConnectSent \/ StartSent \/ CheckpointSent \/ StopSent
             \/ SummaryDone \/ AwaitShutdown \/ ControllerDone \/ Exit(CN)
    BY <1>1, TurnEffect
  <1>2. CASE WaitAllConn(CN)
    BY <1>2, WaitEffect
  <1>3. CASE CollectConfirm \/ CollectCheckpoint \/ CollectSummary
    BY <1>3, CollectEffect
  <1>4. CASE CheckpointDone
    BY <1>4, DoneEffect
  <1>5. CASE ControllerConnect
    BY <1>5, ConnectEffect
  <1>6. CASE ControllerStart
    BY <1>6, StartEffectOfController
  <1>7. CASE ControllerCheckpoint
    BY <1>7, AskEffectOfController
  <1>8. CASE ControllerStop
    BY <1>8, StopEffectOfController
  <1> QED
    BY <1>1, <1>2, <1>3, <1>4, <1>5, <1>6, <1>7, <1>8 DEF ControllerStep

LEMMA LineMsg ==
  ASSUME NEW h \in Host
  PROVE  \A last, k : Line(h, last, k) \in Msg
  <1>1. <<CN, h>> \in Endpoint
    BY HostFacts
  <1>2. {"STOP", "CONNECT", "START", "CHECKPOINT"} \subseteq Commands
    BY DEF Commands
  <1> QED
    BY <1>1, <1>2, MsgFacts DEF Line

\* The connection of a host to the controller while the controller acts.
LEMMA DownByControl ==
  ASSUME TypeOK, Exchange, NEW h \in Host, HostStill(h), ControlSends(h)
  PROVE  Down(h)'
  <1>0. Cep(h) \in Endpoint /\ Cep(h)[1] = h /\ h \in Node /\ <<CN, h>> \in Endpoint
    <2>1. Cep(h) \in Endpoint /\ Cep(h) = <<h, CN>> /\ h \in Node /\ <<CN, h>> \in Endpoint
      BY HostFacts
    <2> QED
      BY <2>1
  <1>1. /\ Untouched(Cep(h)) /\ pc'[h] = pc[h] /\ peer'[h] = peer[h]
        /\ h \in EN => snap'[h] = snap[h]
    BY <1>0 DEF HostStill, Elsewhere
  <1>2. Got(h)' = Got(h) /\ Expect(h)' = Expect(h)
    BY <1>1, NodeFacts DEF Got, Expect
  <1> DEFINE s == sq[<<CN, h>>]
             a == Len(s)
             b == Len(rxc[Cep(h)])
             g == Got(h)
             t == Sent(h)
             w == Line(h, LastLine', Sent(h)')
  <1>3. /\ s \in Seq(Msg)
        /\ a \in Nat /\ b \in Nat /\ g \in Nat /\ t \in Nat /\ a + b + g = t
        /\ s \in Seq(Msg)
    BY <1>0, Lengths, Numbers, GotAll, QueueTypes DEF QueueOK
  <1>4. \A k \in DOMAIN s : k \in Nat \ {0} /\ k <= a
    <2> HIDE DEF s
    <2> QED
      BY <1>3
  <1>5. ASSUME NEW k \in Nat \ {0}, k <= a
        PROVE  Line(h, LastLine', g + b + k) = Line(h, LastLine, g + b + k)
    <2> DEFINE x == g + b + k
    <2>1. x \in Nat \ {0} /\ x <= t
      <3> HIDE DEF a, b, g, t
      <3> QED
        BY <1>3, <1>5
    <2> HIDE DEF x
    <2>2. Line(h, LastLine', x) = Line(h, LastLine, x)
      BY <2>1 DEF ControlSends
    <2> QED
      BY <2>2 DEF x
  <1>6. \A k \in DOMAIN s : s[k] = Line(h, LastLine', g + b + k)
    <2>1. \A k \in DOMAIN s : s[k] = Line(h, LastLine, g + b + k)
      BY HostParts DEF Down, Script
    <2> QED
      BY <1>4, <1>5, <2>1
  <1>7. /\ \A k \in DOMAIN rq'[Cep(h)] : rq'[Cep(h)][k] = Expect(h)'
        /\ \A k \in DOMAIN rxc'[Cep(h)] :
             /\ buf'[Cep(h)] = Line(h, LastLine', Got(h)' + 1)
             /\ rxc'[Cep(h)][k] = [size |-> Expect(h)', len |-> LenOf(Line(h, LastLine', Got(h)' + 1))]
    <2>1. ASSUME NEW k \in DOMAIN rxc[Cep(h)]
          PROVE  Line(h, LastLine', g + 1) = Line(h, LastLine, g + 1)
      <3>1. rxc[Cep(h)] # <<>>
        OBVIOUS
      <3>2. g + 1 <= t
        BY <3>1, ReadsScript
      <3>3. g + 1 \in Nat \ {0}
        BY <1>3
      <3> QED
        BY <3>2, <3>3 DEF ControlSends
    <2> QED
      BY <1>1, <1>2, <2>1, HostParts DEF Down, Script, Untouched
  <1>8. /\ Len(sq'[<<CN, h>>]) + Len(rxc'[Cep(h)]) + Got(h)' = Sent(h)'
        /\ \A k \in DOMAIN sq'[<<CN, h>>] :
             sq'[<<CN, h>>][k] = Line(h, LastLine', Got(h)' + Len(rxc'[Cep(h)]) + k)
    <2>0. rxc'[Cep(h)] = rxc[Cep(h)]
      BY <1>1 DEF Untouched
    <2>1. CASE sq'[<<CN, h>>] = s /\ Sent(h)' = t
      BY <1>2, <1>3, <1>6, <2>0, <2>1
    <2>2. CASE sq'[<<CN, h>>] = Append(s, w) /\ Sent(h)' = t + 1
      <3> DEFINE z == Append(s, w)
      <3>1. /\ Len(z) = a + 1
            /\ \A k \in DOMAIN z : (k \in DOMAIN s /\ z[k] = s[k]) \/ (k = a + 1 /\ z[k] = w)
        <4>1. w \in Msg
          BY LineMsg
        <4>2. s \in Seq(Msg)
          BY <1>3
        <4> HIDE DEF w
        <4>3. /\ Len(z) = Len(s) + 1
              /\ \A k \in DOMAIN z : (k \in DOMAIN s /\ z[k] = s[k]) \/ (k = Len(s) + 1 /\ z[k] = w)
          BY <4>1, <4>2, AppendFacts
        <4> HIDE DEF s, z
        <4> QED
          BY <4>3
      <3>2. g + b + (a + 1) = t + 1 /\ (a + 1) + b + g = t + 1
        <4> HIDE DEF a, b, g, t
        <4> QED
          BY <1>3
      <3>3. w = Line(h, LastLine', t + 1)
        BY <2>2
      <3>4. \A k \in DOMAIN z : z[k] = Line(h, LastLine', g + b + k)
        <4> HIDE DEF z, w, s, a, b, g, t
        <4> QED
          BY <1>6, <3>1, <3>2, <3>3
      <3>5. sq'[<<CN, h>>] = z
        BY <2>2
      <3> HIDE DEF z
      <3> QED
        BY <1>2, <2>0, <2>2, <3>1, <3>2, <3>4, <3>5
    <2> QED
      BY <2>1, <2>2 DEF ControlSends
  <1> QED
    BY <1>7, <1>8 DEF Down, Script

LEMMA UpByControl ==
  ASSUME TypeOK, Exchange, NEW i \in EN, HostStill(i), ControlAsks(i), Onward
  PROVE  Up(i)' /\ TxCount(i)' /\ Cuts(i)'
  <1>0. Cep(i) \in Endpoint /\ Cep(i)[1] = i /\ i \in Node /\ <<CN, i>> \in Endpoint
    <2>1. Cep(i) \in Endpoint /\ Cep(i) = <<i, CN>> /\ i \in Node /\ <<CN, i>> \in Endpoint
      BY CepFacts
    <2> QED
      BY <2>1
  <1>1. Untouched(Cep(i)) /\ pc'[i] = pc[i] /\ cqtx'[i] = cqtx[i] /\ snap'[i] = snap[i]
    BY <1>0 DEF HostStill, Elsewhere
  <1>2. Answered(i)' = Answered(i) /\ LastAnswer(i)' = LastAnswer(i) /\ Spent(i)' = Spent(i)
    BY <1>1 DEF Answered, LastAnswer, Spent, Total, Delta
  <1>3. Up(i) /\ TxCount(i) /\ Cuts(i)
    BY ClientParts
  <1>4. TxCount(i)'
    BY <1>1, <1>2, <1>3 DEF TxCount, Untouched
  <1>5. Cuts(i)'
    <2>1. snap[i] <= Asked /\ snap[i] \in Nat /\ Asked \in Nat
      BY <1>3, Numbers DEF Cuts
    <2>2. snap'[i] <= Asked'
      BY <1>1, <2>1 DEF Onward
    <2> QED
      BY <1>1, <1>3, <2>2 DEF Cuts, Onward
  <1>6. ASSUME NEW w, Owed' = w + Owed, Len(rq'[<<CN, i>>]) = w + Len(rq[<<CN, i>>]),
               w \in Nat
        PROVE  Len(rq'[<<CN, i>>]) + Answered(i)' = Owed' + Len(sq'[Cep(i)])
    <2> DEFINE n == Len(rq[<<CN, i>>])
               m == Len(sq[Cep(i)])
               a == Answered(i)
    <2>1. n \in Nat /\ m \in Nat /\ a \in Nat /\ Owed \in Nat /\ n + a = Owed + m
      BY <1>0, <1>3, Lengths, Numbers DEF Up
    <2>2. (w + n) + a = (w + Owed) + m
      <3> HIDE DEF n, m, a
      <3> QED
        BY <1>6, <2>1
    <2> QED
      BY <1>1, <1>2, <1>6, <2>2 DEF Untouched
  <1>7. \A k \in DOMAIN sq'[Cep(i)] : /\ sq'[Cep(i)][k] = LastAnswer(i)'
                                      /\ Answered(i)' > 1 => buf'[Cep(i)] = LastAnswer(i)'
    BY <1>1, <1>2, <1>3 DEF Up, Untouched
  <1>8. ASSUME rq[<<CN, i>>] = <<>>, rxc[<<CN, i>>] = <<>>, rxc'[<<CN, i>>] = <<>>,
               rq'[<<CN, i>>] = Append(rq[<<CN, i>>], LenOf(Wanted(i)')), Owed' = Owed + 1
        PROVE  Up(i)'
    <2>1. rq'[<<CN, i>>] = <<LenOf(Wanted(i)')>> /\ Len(rq[<<CN, i>>]) = 0 /\ Owed \in Nat
      BY <1>8, Numbers
    <2>2. Len(rq'[<<CN, i>>]) = 1 /\ \A k \in DOMAIN rq'[<<CN, i>>] : rq'[<<CN, i>>][k] = LenOf(Wanted(i)')
      BY <2>1
    <2>3. Len(rq'[<<CN, i>>]) + Answered(i)' = Owed' + Len(sq'[Cep(i)])
      <3>1. Owed' = 1 + Owed /\ Len(rq'[<<CN, i>>]) = 1 + Len(rq[<<CN, i>>]) /\ 1 \in Nat
        BY <1>8, <2>1, <2>2
      <3> QED
        BY <1>6, <3>1
    <2>4. DOMAIN rxc'[<<CN, i>>] = {}
      BY <1>8
    <2> QED
      BY <1>7, <2>2, <2>3, <2>4 DEF Up
  <1>9. ASSUME rq[<<CN, i>>] = <<>>, rq'[<<CN, i>>] = <<>>, rxc'[<<CN, i>>] = <<>>, Owed' = Owed
        PROVE  Up(i)'
    <2>1. Len(rq'[<<CN, i>>]) = 0 /\ Len(rq[<<CN, i>>]) = 0 /\ Owed \in Nat
      BY <1>9, Numbers
    <2>2. Len(rq'[<<CN, i>>]) + Answered(i)' = Owed' + Len(sq'[Cep(i)])
      <3>1. Owed' = 0 + Owed /\ Len(rq'[<<CN, i>>]) = 0 + Len(rq[<<CN, i>>]) /\ 0 \in Nat
        BY <1>9, <2>1
      <3> QED
        BY <1>6, <3>1
    <2>3. DOMAIN rxc'[<<CN, i>>] = {} /\ DOMAIN rq'[<<CN, i>>] = {}
      BY <1>9
    <2> QED
      BY <1>7, <2>2, <2>3 DEF Up
  <1>10. ASSUME rq'[<<CN, i>>] = rq[<<CN, i>>], rxc'[<<CN, i>>] = rxc[<<CN, i>>], Owed' = Owed,
                Wanted(i)' = Wanted(i), buf'[<<CN, i>>] = buf[<<CN, i>>]
         PROVE  Up(i)'
    <2>1. Len(rq[<<CN, i>>]) \in Nat /\ Owed \in Nat
      BY <1>0, Lengths, Numbers
    <2>2. Len(rq'[<<CN, i>>]) + Answered(i)' = Owed' + Len(sq'[Cep(i)])
      <3>1. Owed' = 0 + Owed /\ Len(rq'[<<CN, i>>]) = 0 + Len(rq[<<CN, i>>]) /\ 0 \in Nat
        BY <1>10, <2>1
      <3> QED
        BY <1>6, <3>1
    <2> QED
      BY <1>3, <1>7, <1>10, <2>2 DEF Up
  <1> QED
    BY <1>4, <1>5, <1>8, <1>9, <1>10 DEF ControlAsks

-----------------------------------------------------------------------------
(* A delivery. *)

\* What is delivered: a message of the controller, an answer of a client or the keys
\* of a server.
LEMMA Delivered ==
  ASSUME TypeOK, Exchange, NEW e \in Endpoint, Transmit(e)
  PROVE  \/ \E h \in Host : e = <<CN, h>>
         \/ \E i \in EN : e = Cep(i)
         \/ \E i \in EN, s \in PN : e = <<s, i>>
  <1>0. sq[e] # <<>>
    BY DEF Transmit
  <1>1. CASE e \in Link
    <2>1. CASE e[1] \in Host /\ e[2] = CN
      <3>1. e = Cep(e[1])
        BY <1>1, <2>1, LinkShape, HostFacts
      <3>2. e[1] \notin PN
        BY <1>0, <3>1, ServerParts DEF ServerEnd
      <3> QED
        BY <2>1, <3>1, <3>2, NodeFacts
    <2>2. CASE e[1] \in EN /\ e[2] \in PN
      BY <1>0, <1>1, <2>2, LinkShape, ServerParts DEF DataEnd
    <2> QED
      BY <1>1, <2>1, <2>2, LinkShape
  <1>2. CASE e \in Passive
    BY <1>2, PassiveShape
  <1> QED
    BY <1>1, <1>2 DEF Endpoint

\* What waits for the controller's message.
LEMMA OneOpen ==
  ASSUME TypeOK, BarrierInv, Exchange, NEW h \in Host, rq[Cep(h)] # <<>>
  PROVE  Len(rq[Cep(h)]) = 1 /\ rxc[Cep(h)] = <<>>
  <1>0. Cep(h) \in Endpoint /\ Cep(h) = <<h, CN>> /\ CN \in Listener /\ h \in Node /\ pc[h] # "failed"
    BY HostFacts DEF Exchange
  <1>1. Slots(Cep(h)) <= 1
    <2>1. CASE h \in PN
      BY <2>1, ServerParts DEF ServerEnd
    <2>2. CASE h \in EN /\ pc[h] = "gone"
      <3>1. Slots(Cep(h)) = 0
        BY <1>0, <2>2, ClientParts DEF Idle
      <3> QED
        BY <3>1
    <2>3. CASE h \in EN /\ pc[h] # "gone"
      BY <1>0, <2>3 DEF BarrierInv, AtMostOneOpen
    <2> QED
      BY <2>1, <2>2, <2>3, NodeFacts
  <1> DEFINE a == Len(rq[Cep(h)])
             b == Len(rxc[Cep(h)])
  <1>2. a \in Nat /\ b \in Nat /\ a # 0 /\ a + b <= 1 /\ (b = 0 => rxc[Cep(h)] = <<>>)
    BY <1>0, <1>1, Lengths DEF Slots
  <1> HIDE DEF a, b
  <1>3. a = 1 /\ b = 0
    BY <1>2
  <1> QED
    BY <1>2, <1>3 DEF a

LEMMA SentAhead ==
  ASSUME TypeOK, Exchange, NEW h \in Host, sq[<<CN, h>>] # <<>>, rxc[Cep(h)] = <<>>
  PROVE  /\ Head(sq[<<CN, h>>]) = Script(h, Got(h) + 1)
         /\ \A k \in DOMAIN Tail(sq[<<CN, h>>]) :
              Tail(sq[<<CN, h>>])[k] = Script(h, Got(h) + 1 + k)
         /\ Len(Tail(sq[<<CN, h>>])) + 1 + Got(h) = Sent(h)
  <1> DEFINE s == sq[<<CN, h>>]
             g == Got(h)
             t == Sent(h)
  <1>1. s \in Seq(Msg) /\ g \in Nat /\ t \in Nat /\ s # <<>>
    BY HostFacts, QueueTypes, Numbers DEF QueueOK
  <1>2. Len(s) + 0 + g = t /\ \A k \in DOMAIN s : s[k] = Script(h, g + 0 + k)
    <2>1. Len(rxc[Cep(h)]) = 0
      OBVIOUS
    <2> QED
      BY <2>1, HostParts DEF Down
  <1> HIDE DEF s, g, t
  <1>3. /\ Head(s) = s[1] /\ 1 \in DOMAIN s /\ Len(Tail(s)) = Len(s) - 1 /\ Len(s) \in Nat
        /\ \A k \in DOMAIN Tail(s) : k \in Nat /\ k + 1 \in DOMAIN s /\ Tail(s)[k] = s[k + 1]
    BY <1>1
  <1>4. Head(s) = Script(h, g + 1)
    <2>1. g + 0 + 1 = g + 1
      BY <1>1
    <2> QED
      BY <1>2, <1>3, <2>1
  <1>5. ASSUME NEW k \in DOMAIN Tail(s) PROVE Tail(s)[k] = Script(h, g + 1 + k)
    <2>1. g + 0 + (k + 1) = g + 1 + k
      BY <1>1, <1>3
    <2> QED
      BY <1>2, <1>3, <2>1
  <1>6. Len(Tail(s)) + 1 + g = t
    BY <1>1, <1>2, <1>3
  <1> QED
    BY <1>4, <1>5, <1>6 DEF s, g, t

LEMMA DownDelivered ==
  ASSUME TypeOK, BarrierInv, Exchange, [Next]_vars, NEW h \in Host, UNCHANGED nodeVars,
         Transmit(<<CN, h>>)
  PROVE  Down(h)'
  <1>0. /\ <<CN, h>> \in Endpoint /\ Cep(h) \in Endpoint /\ Rev(<<CN, h>>) = Cep(h)
        /\ ControlHere
    BY HostFacts DEF nodeVars, ControlHere
  <1>1. Sent(h)' = Sent(h) /\ LastLine' = LastLine /\ Got(h)' = Got(h) /\ Expect(h)' = Expect(h)
    BY <1>0, ControlKept DEF Got, Expect, nodeVars
  <1>2. /\ sq[<<CN, h>>] # <<>> /\ sq'[<<CN, h>>] = Tail(sq[<<CN, h>>])
        /\ rq[Cep(h)] # <<>> /\ rq'[Cep(h)] = Tail(rq[Cep(h)])
        /\ buf'[Cep(h)] = Head(sq[<<CN, h>>])
    BY <1>0, TransmitOwn
  <1>3. Len(rq[Cep(h)]) = 1 /\ rxc[Cep(h)] = <<>>
    BY <1>2, OneOpen
  <1>4. rq[Cep(h)] \in Seq(RecvSizes) /\ Head(rq[Cep(h)]) = Expect(h) /\ rq'[Cep(h)] = <<>>
    <2> DEFINE r == rq[Cep(h)]
    <2>1. r \in Seq(RecvSizes) /\ Len(r) = 1 /\ r # <<>> /\ \A k \in DOMAIN r : r[k] = Expect(h)
      BY <1>0, <1>2, <1>3, QueueTypes, HostParts DEF QueueOK, Down
    <2>2. rq'[Cep(h)] = Tail(r)
      BY <1>2
    <2> HIDE DEF r
    <2>3. Head(r) = r[1] /\ 1 \in DOMAIN r /\ Tail(r) \in Seq(RecvSizes) /\ Len(Tail(r)) = 0
      BY <2>1
    <2>4. Tail(r) = <<>>
      BY <2>3, NoneLeft
    <2>5. Head(r) = Expect(h)
      BY <2>1, <2>3
    <2> QED
      BY <2>1, <2>2, <2>4, <2>5 DEF r
  <1> DEFINE c == [size |-> Expect(h), len |-> LenOf(Script(h, Got(h) + 1))]
  <1>5. rxc'[Cep(h)] = <<c>>
    <2>1. Head(sq[<<CN, h>>]) = Script(h, Got(h) + 1)
      BY <1>2, <1>3, SentAhead
    <2>2. rxc' = [rxc EXCEPT ![Cep(h)] =
                    Append(@, [size |-> Head(rq[Cep(h)]), len |-> LenOf(Head(sq[<<CN, h>>]))])]
      BY <1>0 DEF Transmit
    <2>3. rxc'[Cep(h)] = Append(rxc[Cep(h)], c)
      BY <1>0, <1>4, <2>1, <2>2 DEF TypeOK, FabricTypeOK
    <2> HIDE DEF c
    <2> QED
      BY <1>3, <2>3
  <1>6. Len(rxc'[Cep(h)]) = 1 /\ \A k \in DOMAIN rxc'[Cep(h)] : rxc'[Cep(h)][k] = c
    <2> HIDE DEF c
    <2> QED
      BY <1>5
  <1>7. /\ Len(sq'[<<CN, h>>]) + Len(rxc'[Cep(h)]) + Got(h)' = Sent(h)'
        /\ \A k \in DOMAIN sq'[<<CN, h>>] :
             sq'[<<CN, h>>][k] = Script(h, Got(h) + 1 + k)
        /\ buf'[Cep(h)] = Script(h, Got(h) + 1)
    BY <1>1, <1>2, <1>3, <1>6, SentAhead
  <1>8. DOMAIN rq'[Cep(h)] = {}
    BY <1>4
  <1> QED
    BY <1>1, <1>6, <1>7, <1>8 DEF Down, Script

\* A receive that one message fills.
LEMMA FilledOnce ==
  ASSUME TypeOK, NEW e \in Endpoint, Transmit(e), NEW d, d = Rev(e),
         Len(rq[d]) = 1, rxc[d] = <<>>
  PROVE  /\ rq'[d] = <<>>
         /\ rxc'[d] = <<[size |-> rq[d][1], len |-> LenOf(Head(sq[e]))]>>
         /\ buf'[d] = Head(sq[e]) /\ sq'[e] = Tail(sq[e]) /\ sq[e] # <<>>
         /\ cqtx'[e[1]] = cqtx[e[1]] + 1
  <1>0. d \in Endpoint /\ e[1] \in Node
    BY EndpointFacts
  <1>1. /\ rq'[d] = Tail(rq[d]) /\ buf'[d] = Head(sq[e]) /\ sq'[e] = Tail(sq[e]) /\ sq[e] # <<>>
    BY <1>0, TransmitOwn
  <1>2. cqtx'[e[1]] = cqtx[e[1]] + 1
    <2>1. cqtx' = [cqtx EXCEPT ![e[1]] = @ + 1]
      BY DEF Transmit
    <2> QED
      BY <1>0, <2>1 DEF TypeOK, FabricTypeOK
  <1> DEFINE r == rq[d]
             c == [size |-> rq[d][1], len |-> LenOf(Head(sq[e]))]
  <1>3. r \in Seq(RecvSizes) /\ Len(r) = 1 /\ r # <<>>
    BY <1>0, QueueTypes, TransmitOwn DEF QueueOK
  <1> HIDE DEF r
  <1>4. Head(r) = r[1] /\ Tail(r) = <<>>
    <2>1. Head(r) = r[1] /\ Tail(r) \in Seq(RecvSizes) /\ Len(Tail(r)) = 0
      BY <1>3
    <2> QED
      BY <2>1, NoneLeft
  <1>5. rxc'[d] = Append(rxc[d], c)
    <2>1. rxc' = [rxc EXCEPT ![d] = Append(@, [size |-> Head(rq[d]), len |-> LenOf(Head(sq[e]))])]
      BY DEF Transmit
    <2> QED
      BY <1>0, <1>4, <2>1 DEF TypeOK, FabricTypeOK, r
  <1> HIDE DEF c
  <1>6. rxc'[d] = <<c>>
    BY <1>5
  <1> QED
    BY <1>1, <1>2, <1>4, <1>6 DEF r, c

\* An answer reaches the controller, which has waited for just that.
LEMMA UpDelivered ==
  ASSUME TypeOK, BarrierInv, Exchange, [Next]_vars, NEW i \in EN, UNCHANGED nodeVars,
         Transmit(Cep(i))
  PROVE  Up(i)' /\ TxCount(i)' /\ KeysWait(i)'
  <1>0. /\ <<CN, i>> \in Endpoint /\ Cep(i) \in Endpoint /\ Rev(Cep(i)) = <<CN, i>>
        /\ i \in Host /\ <<CN, i>> # Cep(i) /\ ControlHere /\ i \in Node
    BY CepFacts, HostFacts, TransmitOwn DEF nodeVars, ControlHere
  <1>1. /\ Owed' = Owed /\ Wanted(i)' = Wanted(i) /\ Answered(i)' = Answered(i)
        /\ LastAnswer(i)' = LastAnswer(i)
    BY <1>0, ControlKept DEF Answered, LastAnswer, nodeVars
  <1>2. sq[Cep(i)] # <<>> /\ Cep(i)[1] = i
    <2>1. Cep(i) = <<i, CN>>
      BY CepFacts
    <2> QED
      BY <1>0, <2>1, TransmitOwn
  <1>3. /\ Answered(i) = Owed /\ Len(sq[Cep(i)]) = 1
        /\ Len(rq[<<CN, i>>]) = 1 /\ rxc[<<CN, i>>] = <<>>
    BY <1>2, Ledger
  <1>4. /\ rq'[<<CN, i>>] = <<>>
        /\ rxc'[<<CN, i>>] = <<[size |-> rq[<<CN, i>>][1], len |-> LenOf(Head(sq[Cep(i)]))]>>
        /\ buf'[<<CN, i>>] = Head(sq[Cep(i)]) /\ sq'[Cep(i)] = Tail(sq[Cep(i)])
        /\ cqtx'[i] = cqtx[i] + 1
    BY <1>0, <1>2, <1>3, FilledOnce
  <1>5. Head(sq[Cep(i)]) = Wanted(i) /\ sq'[Cep(i)] = <<>>
    <2> DEFINE s == sq[Cep(i)]
    <2>1. s \in Seq(Msg) /\ Len(s) = 1 /\ s # <<>> /\ \A k \in DOMAIN s : s[k] = LastAnswer(i)
      BY <1>0, <1>2, <1>3, QueueTypes, ClientParts DEF QueueOK, Up
    <2>2. sq'[Cep(i)] = Tail(s) /\ LastAnswer(i) = Wanted(i)
      BY <1>2, <1>4, AnswerFits
    <2> HIDE DEF s
    <2>3. Head(s) = s[1] /\ 1 \in DOMAIN s /\ Tail(s) \in Seq(Msg) /\ Len(Tail(s)) = 0
      BY <2>1
    <2>4. Tail(s) = <<>>
      BY <2>3, NoneLeft
    <2>5. Head(s) = LastAnswer(i)
      BY <2>1, <2>3
    <2> QED
      BY <2>2, <2>4, <2>5 DEF s
  <1>6. rq[<<CN, i>>][1] = LenOf(Wanted(i))
    <2> DEFINE r == rq[<<CN, i>>]
    <2>1. r \in Seq(RecvSizes) /\ Len(r) = 1 /\ \A k \in DOMAIN r : r[k] = LenOf(Wanted(i))
      BY <1>0, <1>3, QueueTypes, ClientParts DEF QueueOK, Up
    <2> HIDE DEF r
    <2>2. 1 \in DOMAIN r
      BY <2>1
    <2>3. r[1] = LenOf(Wanted(i))
      BY <2>1, <2>2
    <2> QED
      BY <2>3 DEF r
  <1>7. Up(i)'
    <2> DEFINE c == [size |-> LenOf(Wanted(i)), len |-> LenOf(Wanted(i))]
    <2>1. rxc'[<<CN, i>>] = <<c>>
      BY <1>4, <1>5, <1>6
    <2>2. \A k \in DOMAIN rxc'[<<CN, i>>] : rxc'[<<CN, i>>][k] = c
      <3> HIDE DEF c
      <3> QED
        BY <2>1
    <2>3. Len(rq'[<<CN, i>>]) + Answered(i)' = Owed' + Len(sq'[Cep(i)])
      <3>1. Len(rq'[<<CN, i>>]) = 0 /\ Len(sq'[Cep(i)]) = 0 /\ Owed \in Nat
        BY <1>4, <1>5, Numbers
      <3> QED
        BY <1>1, <1>3, <3>1
    <2>4. DOMAIN sq'[Cep(i)] = {} /\ DOMAIN rq'[<<CN, i>>] = {}
      <3>1. \A x : x = <<>> => DOMAIN x = {}
        OBVIOUS
      <3> QED
        BY <1>4, <1>5, <3>1
    <2>5. buf'[<<CN, i>>] = Wanted(i)
      BY <1>4, <1>5
    <2> QED
      BY <1>1, <2>2, <2>3, <2>4, <2>5 DEF Up
  <1>8. TxCount(i)'
    <2>1. cqtx[i] \in Nat /\ cqtx'[i] = cqtx[i] + 1 /\ pc'[i] = pc[i]
      BY <1>0, <1>4 DEF TypeOK, FabricTypeOK, nodeVars
    <2>2. Spent(i) \in Nat /\ Spent(i)' = Spent(i) + 1
      BY <2>1 DEF Spent
    <2>3. Spent(i) + 1 = Answered(i) /\ Len(sq'[Cep(i)]) = 0
      BY <1>3, <1>5, ClientParts DEF TxCount
    <2> QED
      BY <1>1, <2>2, <2>3 DEF TxCount
  <1>9. KeysWait(i)'
    <2>1. Answered(i) \in Nat /\ Answered(i) # 0 /\ Got(i) \in Nat
      BY <1>0, <1>2, NothingSaid, Numbers
    <2>2. Got(i) >= 1
      BY <2>1, AnsweredByGot
    <2>3. sq'[<<CN, i>>] = sq[<<CN, i>>]
      BY <1>0, TransmitOwn
    <2> QED
      BY <1>0, <2>2, <2>3, NoKeysLeft DEF KeysWait
  <1> QED
    BY <1>7, <1>8, <1>9

\* What the delivery leaves alone at the two ends of the connection of host h.
DownStill(h) ==
  /\ sq'[<<CN, h>>] = sq[<<CN, h>>] /\ rq'[Cep(h)] = rq[Cep(h)]
  /\ rxc'[Cep(h)] = rxc[Cep(h)] /\ buf'[Cep(h)] = buf[Cep(h)]
UpStill(h) ==
  /\ sq'[Cep(h)] = sq[Cep(h)] /\ rq'[<<CN, h>>] = rq[<<CN, h>>]
  /\ rxc'[<<CN, h>>] = rxc[<<CN, h>>] /\ buf'[<<CN, h>>] = buf[<<CN, h>>]

LEMMA DownUnread ==
  ASSUME TypeOK, BarrierInv, Exchange, [Next]_vars, NEW h \in Host, UNCHANGED nodeVars,
         DownStill(h)
  PROVE  Down(h)'
  <1>1. LastLine' = LastLine /\ Sent(h)' = Sent(h) /\ Got(h)' = Got(h) /\ Expect(h)' = Expect(h)
    <2>1. ControlHere
      BY DEF ControlHere, nodeVars
    <2> QED
      BY <2>1, ControlKept DEF Got, Expect, nodeVars
  <1> QED
    BY <1>1, HostParts DEF Down, Script, DownStill

LEMMA UpUnread ==
  ASSUME TypeOK, BarrierInv, Exchange, [Next]_vars, NEW i \in EN, UNCHANGED nodeVars,
         UpStill(i), cqtx'[i] = cqtx[i],
         sq[Cep(i)] # <<>> /\ Answered(i) > 1 => buf'[Cep(i)] = buf[Cep(i)]
  PROVE  Up(i)' /\ TxCount(i)'
  <1>1. /\ Owed' = Owed /\ Wanted(i)' = Wanted(i) /\ Answered(i)' = Answered(i)
        /\ LastAnswer(i)' = LastAnswer(i) /\ Spent(i)' = Spent(i)
    <2>1. ControlHere
      BY DEF ControlHere, nodeVars
    <2> QED
      BY <2>1, ControlKept DEF Answered, LastAnswer, Spent, nodeVars
  <1>2. Up(i) /\ TxCount(i)
    BY ClientParts
  <1>3. TxCount(i)'
    BY <1>1, <1>2 DEF TxCount, UpStill
  <1>4. ASSUME NEW k \in DOMAIN sq[Cep(i)], Answered(i) > 1
        PROVE  buf'[Cep(i)] = LastAnswer(i)
    <2>1. sq[Cep(i)] # <<>>
      <3>1. \A x : x = <<>> => DOMAIN x = {}
        OBVIOUS
      <3> QED
        BY <3>1
    <2> QED
      BY <1>2, <1>4, <2>1 DEF Up
  <1>5. Up(i)'
    BY <1>1, <1>2, <1>4 DEF Up, UpStill
  <1> QED
    BY <1>3, <1>5

LEMMA KeysUnsent ==
  ASSUME Exchange, NEW h \in Host, sq'[<<CN, h>>] = sq[<<CN, h>>],
         buf'[<<CN, h>>] = buf[<<CN, h>>]
  PROVE  KeysWait(h)'
  BY HostParts DEF KeysWait

LEMMA KeysGone ==
  ASSUME TypeOK, Exchange, NEW h \in Host, Transmit(<<CN, h>>)
  PROVE  KeysWait(h)'
  <1>0. <<CN, h>> \in Endpoint /\ Rev(<<CN, h>>) # <<CN, h>>
    BY HostFacts, TransmitOwn
  <1>1. /\ sq[<<CN, h>>] # <<>> /\ sq'[<<CN, h>>] = Tail(sq[<<CN, h>>])
        /\ buf'[<<CN, h>>] = buf[<<CN, h>>]
    BY <1>0, TransmitOwn
  <1>2. sq[<<CN, h>>] \in Seq(Msg)
    BY <1>0, QueueTypes DEF QueueOK
  <1> QED
    BY <1>1, <1>2, TailFacts, HostParts DEF KeysWait

LEMMA HostDelivered ==
  ASSUME TypeOK, BarrierInv, Exchange, [Next]_vars, NEW h \in Host, UNCHANGED nodeVars,
         NEW e \in Endpoint, Transmit(e)
  PROVE  Down(h)' /\ KeysWait(h)' /\ (h \in EN => Up(h)' /\ TxCount(h)')
  <1>0. /\ <<CN, h>> \in Endpoint /\ Cep(h) \in Endpoint /\ h \in Node
        /\ Rev(<<CN, h>>) = Cep(h) /\ Rev(Cep(h)) = <<CN, h>> /\ Cep(h) # <<CN, h>>
        /\ Cep(h) = <<h, CN>> /\ h # CN
    BY HostFacts
  <1>1. CASE e = <<CN, h>>
    <2>1. UpStill(h)
      BY <1>0, <1>1, TransmitOwn DEF UpStill
    <2>2. cqtx'[h] = cqtx[h]
      <3>1. cqtx' = [cqtx EXCEPT ![CN] = @ + 1]
        BY <1>1 DEF Transmit
      <3> QED
        BY <1>0, <3>1 DEF TypeOK, FabricTypeOK
    <2>3. sq[<<CN, h>>] # <<>>
      BY <1>1 DEF Transmit
    <2>4. h \in EN => Up(h)' /\ TxCount(h)'
      BY <2>1, <2>2, <2>3, AnswerFits, UpUnread
    <2> QED
      BY <1>1, <2>4, DownDelivered, KeysGone
  <1>2. CASE e = Cep(h)
    <2>1. h \in EN
      <3>1. sq[Cep(h)] # <<>>
        BY <1>2 DEF Transmit
      <3> QED
        BY <3>1, NodeFacts, ServerParts DEF ServerEnd
    <2>2. DownStill(h)
      BY <1>0, <1>2, TransmitOwn DEF DownStill
    <2> QED
      BY <1>2, <2>1, <2>2, DownUnread, UpDelivered
  <1>3. CASE e # Cep(h) /\ e # <<CN, h>>
    <2>1. Rev(e) # Cep(h) /\ Rev(e) # <<CN, h>>
      <3>1. e = <<e[1], e[2]>> /\ Rev(e) = <<e[2], e[1]>>
        BY TransmitOwn
      <3> QED
        BY <1>0, <1>3, <3>1
    <2>2. DownStill(h) /\ UpStill(h)
      BY <1>0, <1>3, <2>1, TransmitOwn DEF DownStill, UpStill
    <2>3. h \in EN => cqtx'[h] = cqtx[h]
      <3> SUFFICES ASSUME h \in EN PROVE cqtx'[h] = cqtx[h]
        OBVIOUS
      <3>1. e[1] # h
        <4>1. CASE \E g \in Host : e = <<CN, g>>
          BY <1>0, <4>1
        <4>2. CASE \E i \in EN : e = Cep(i)
          BY <1>3, <4>2 DEF Cep
        <4>3. CASE \E i \in EN, s \in PN : e = <<s, i>>
          BY <4>3, NodeFacts
        <4> QED
          BY <4>1, <4>2, <4>3, Delivered
      <3>2. cqtx' = [cqtx EXCEPT ![e[1]] = @ + 1]
        BY DEF Transmit
      <3> QED
        BY <1>0, <3>1, <3>2 DEF TypeOK, FabricTypeOK
    <2>4. h \in EN => Up(h)' /\ TxCount(h)'
      BY <2>2, <2>3, UpUnread DEF DownStill
    <2> QED
      BY <2>2, <2>4, DownUnread, KeysUnsent DEF UpStill, DownStill
  <1> QED
    BY <1>1, <1>2, <1>3

\* What only the nodes' own books and the number of open receives are about.
LEMMA BooksDelivered ==
  ASSUME TypeOK, Exchange, NEW i \in EN, UNCHANGED nodeVars, NEW e \in Endpoint, Transmit(e)
  PROVE  SlotsOf(i)' /\ Cuts(i)' /\ Idle(i)' /\ Rows(i)'
  <1>0. <<CN, i>> \in Endpoint /\ \A q \in Listener : <<i, q>> \in Endpoint
    BY CepFacts, ClientLinks
  <1>1. Slots(<<CN, i>>)' = Slots(<<CN, i>>) /\ \A q \in Listener : Slots(<<i, q>>)' = Slots(<<i, q>>)
    BY <1>0, SlotsDelivered
  <1>2. /\ pc' = pc /\ rounds' = rounds /\ snap' = snap
        /\ checkpoint' = checkpoint /\ summary' = summary
    BY DEF nodeVars
  <1>3. SlotsOf(i)'
    BY <1>1, <1>2, ClientParts DEF SlotsOf
  <1>4. Cuts(i)'
    BY <1>2, ClientParts DEF Cuts, Asked, Closed
  <1>5. Idle(i)'
    BY <1>1, <1>2, ClientParts DEF Idle
  <1>6. Rows(i)'
    BY <1>1, <1>2, ClientParts DEF Rows, Delta, Total
  <1> QED
    BY <1>3, <1>4, <1>5, <1>6

-----------------------------------------------------------------------------
(* The connections between the clients and the servers. *)

\* What a client does at its end of the connection to server s.
ClientDataEffect(i, s) ==
  /\ sq'[<<i, s>>] = sq[<<i, s>>]
  /\ rq'[<<i, s>>] \in {rq[<<i, s>>], Append(rq[<<i, s>>], KeysSize)}
  /\ \/ rxc'[<<i, s>>] = rxc[<<i, s>>]
     \/ rxc[<<i, s>>] # <<>> /\ rxc'[<<i, s>>] = Tail(rxc[<<i, s>>])
  /\ HoldsKey(i, s)' => HoldsKey(i, s) \/ rxc[<<i, s>>] # <<>>

LEMMA ClientDataEffects ==
  ASSUME TypeOK, BarrierInv, Exchange, NEW i \in EN, ClientStep(i), NEW s \in PN
  PROVE  ClientDataEffect(i, s)
  <1>0. <<i, s>> \in Link /\ <<i, s>> \in Endpoint /\ <<i, s>> # Cep(i)
    BY DataLink
  <1>1. sq'[<<i, s>>] = sq[<<i, s>>]
    <2>1. \/ sq' = sq
          \/ SendCommand({Cep(i)}, "CONNECTED")
          \/ \E m : DOMAIN m = {Cep(i)} /\ CtrlSend(m)
      BY DEF ClientStep, HostStep, HostDial, ConnectEvent, ConnectKeys, Exit, AwaitConnect,
             RecvConnect, DialNext, Confirm, ConfirmSent, RecvStart, BenchCommand
    <2>2. CASE SendCommand({Cep(i)}, "CONNECTED")
      BY <1>0, <2>2, CommandOwn
    <2>3. CASE \E m : DOMAIN m = {Cep(i)} /\ CtrlSend(m)
      BY <1>0, <2>3, SendOwn
    <2> QED
      BY <2>1, <2>2, <2>3
  <1>2. rq'[<<i, s>>] \in {rq[<<i, s>>], Append(rq[<<i, s>>], KeysSize)}
    <2>1. \/ rq' = rq
          \/ \E E \in SUBSET {Cep(i)} : \E size : CtrlRecv(E, size)
          \/ \E q : CtrlRecv({<<i, q>>}, KeysSize)
      <3>1. CASE BenchCommand(i)
        BY <3>1, BenchReads DEF BenchCut, BenchEnd
      <3>2. CASE RecvStart(i)
        BY <3>2, StartReads
      <3>3. CASE RecvConnect(i)
        BY <3>3, ConnectReads DEF Dial
      <3>4. CASE AwaitConnect(i) \/ Confirm(i)
        BY <3>4 DEF AwaitConnect, Confirm
      <3>5. CASE HostStep(i) \/ DialNext(i) \/ ConfirmSent(i)
        BY <3>5 DEF HostStep, HostDial, ConnectEvent, ConnectKeys, Exit, DialNext, ConfirmSent, Dial
      <3> QED
        BY <3>1, <3>2, <3>3, <3>4, <3>5 DEF ClientStep
    <2>2. CASE \E E \in SUBSET {Cep(i)} : \E size : CtrlRecv(E, size)
      BY <1>0, <2>2, RecvOwn
    <2>3. CASE \E q : CtrlRecv({<<i, q>>}, KeysSize)
      <3>1. PICK q : CtrlRecv({<<i, q>>}, KeysSize)
        BY <2>3
      <3> QED
        BY <1>0, <3>1, RecvOwn
    <2> QED
      BY <2>1, <2>2, <2>3
  <1>3. \/ rxc'[<<i, s>>] = rxc[<<i, s>>]
        \/ rxc[<<i, s>>] # <<>> /\ rxc'[<<i, s>>] = Tail(rxc[<<i, s>>])
    <2>1. rxc' = rxc \/ \E e \in Endpoint : ReadRx(e)
      BY DEF ClientStep, HostStep, HostDial, ConnectEvent, ConnectKeys, Exit, AwaitConnect,
             RecvConnect, DialNext, Confirm, ConfirmSent, RecvStart, BenchCommand
    <2>2. CASE \E e \in Endpoint : ReadRx(e)
      BY <1>0, <2>2, ReadOwn
    <2> QED
      BY <2>1, <2>2
  <1>4. HoldsKey(i, s)' => HoldsKey(i, s) \/ rxc[<<i, s>>] # <<>>
    <2>1. CASE ConnectKeys(i)
      <3>1. CASE peer[i] = s
        BY <2>1, <3>1, KeysRead
      <3>2. CASE peer[i] # s
        <4>1. <<i, s>> # <<i, peer[i]>>
          BY <3>2
        <4>2. remoteKeys'[<<i, s>>] = remoteKeys[<<i, s>>]
          BY <1>0, <2>1, <4>1, KeysStored DEF BarrierInv
        <4> QED
          BY <4>2 DEF HoldsKey
      <3> QED
        BY <3>1, <3>2
    <2>2. ConnectKeys(i) \/ remoteKeys' = remoteKeys
      BY DEF ClientStep, HostStep, HostDial, ConnectEvent, Exit, AwaitConnect,
             RecvConnect, DialNext, Confirm, ConfirmSent, RecvStart, BenchCommand
    <2> QED
      BY <2>1, <2>2 DEF HoldsKey
  <1> QED
    BY <1>1, <1>2, <1>3, <1>4 DEF ClientDataEffect

\* What a server does at its end.
ServerDataEffect(s, i) ==
  /\ rq'[<<s, i>>] = rq[<<s, i>>]
  /\ rxc[<<s, i>>] = <<>> => rxc'[<<s, i>>] = <<>>
  /\ \/ sq'[<<s, i>>] = sq[<<s, i>>] /\ buf'[<<s, i>>] = buf[<<s, i>>]
     \/ Served(s) /\ buf'[<<s, i>>] = KeysOf(<<s, i>>)
  /\ Served(s) => Served(s)'

LEMMA ServerDataEffects ==
  ASSUME TypeOK, Exchange, NEW s \in PN, ServerStep(s), NEW i \in EN
  PROVE  ServerDataEffect(s, i)
  <1>0. /\ <<s, i>> \in Endpoint /\ <<s, i>> # Cep(s) /\ s \in Host /\ s \in Node
        /\ Cep(s) = <<s, CN>> /\ Cep(s) \in Link
    BY DataLink, HostFacts, NodeFacts
  <1>1. rq'[<<s, i>>] = rq[<<s, i>>]
    <2>1. rq' = rq \/ \E size : CtrlRecv({Cep(s)}, size)
      BY <1>0 DEF ServerStep, HostStep, HostDial, Dial, ConnectEvent, ConnectKeys, Exit,
                  ServerListen, WaitAllConn, ServerReady, ServeCommand, ServeEvent
    <2> QED
      BY <1>0, <2>1, RecvOwn
  <1>2. rxc[<<s, i>>] = <<>> => rxc'[<<s, i>>] = <<>>
    <2>1. rxc' = rxc \/ \E e \in Endpoint : ReadRx(e)
      BY DEF ServerStep, HostStep, HostDial, ConnectEvent, ConnectKeys, Exit, ServerListen,
             WaitAllConn, ServerReady, ServeCommand, ServeEvent
    <2> QED
      BY <1>0, <2>1, ReadOwn
  <1>3. \/ sq'[<<s, i>>] = sq[<<s, i>>] /\ buf'[<<s, i>>] = buf[<<s, i>>]
        \/ Served(s) /\ buf'[<<s, i>>] = KeysOf(<<s, i>>)
    <2>1. \/ UNCHANGED <<sq, buf>>
          \/ /\ pc[s] \in {"wait_all", "serve"}
             /\ \E v : CtrlSend([e \in {v} |-> KeysOf(e)])
      BY DEF ServerStep, HostStep, HostDial, ConnectEvent, ConnectKeys, Exit, ServerListen,
             WaitAllConn, HandleEvent, ServerReady, ServeCommand, ServeEvent
    <2>2. CASE /\ pc[s] \in {"wait_all", "serve"}
               /\ \E v : CtrlSend([e \in {v} |-> KeysOf(e)])
      <3>1. PICK v : CtrlSend([e \in {v} |-> KeysOf(e)])
        BY <2>2
      <3> DEFINE m == [e \in {v} |-> KeysOf(e)]
      <3>2. CASE <<s, i>> = v
        <4>1. buf' = [e \in Endpoint |-> IF e \in DOMAIN m THEN m[e] ELSE buf[e]]
          BY <3>1 DEF CtrlSend
        <4> QED
          BY <1>0, <2>2, <3>2, <4>1 DEF Served
      <3>3. CASE <<s, i>> # v
        BY <1>0, <3>1, <3>3, SendOwn
      <3> QED
        BY <3>2, <3>3
    <2> QED
      BY <2>1, <2>2
  <1>4. Served(s) => Served(s)'
    <2>1. pc'[s] # "failed"
      BY ServerEffects DEF ServerEffect
    <2> QED
      BY <2>1, ServerMoves DEF Served
  <1> QED
    BY <1>1, <1>2, <1>3, <1>4 DEF ServerDataEffect

\* The controller does not go back.
LEMMA OnwardStep ==
  ASSUME TypeOK, BarrierInv, Exchange, [Next]_vars
  PROVE  /\ (Gathered => Gathered') /\ (Started => Started') /\ (Closed => Closed')
         /\ pc'[CN] # "failed"
  <1>0. CN \in Node /\ CN \notin EN /\ CN \notin PN /\ pc[CN] # "failed" /\ NumEN \in Host
    BY NodeFacts DEF Exchange
  <1>1. CASE ControllerStep
    <2>1. ControlEffect(NumEN)
      BY <1>0, <1>1, ControlEffects
    <2> QED
      BY <2>1 DEF ControlEffect, Onward
  <1>2. CASE pc'[CN] = pc[CN]
    BY <1>0, <1>2 DEF Gathered, Started, Closed
  <1>3. ControllerStep \/ pc'[CN] = pc[CN]
    <2>1. \/ CN \in EN /\ ClientStep(CN)
          \/ CN \in PN /\ ServerStep(CN)
          \/ ControllerStep
          \/ Delivery
          \/ Elsewhere(CN)
      BY <1>0, StepOwn DEF BarrierInv
    <2> QED
      BY <1>0, <2>1 DEF Delivery, nodeVars, Elsewhere
  <1> QED
    BY <1>1, <1>2, <1>3

\* Nobody dials a server before all have joined the controller.
LEMMA DialsGathered ==
  ASSUME TypeOK, BarrierInv, Exchange, NEW i \in EN, RecvConnect(i) \/ DialNext(i)
  PROVE  Gathered
  <1>0. i \in Host /\ (peer[i] \in PN => peer[i] # CN)
    BY NodeFacts
  <1>1. Got(i) \in Nat /\ Sent(i) \in Nat /\ Got(i) <= Sent(i)
    BY <1>0, Numbers, GotAll
  <1>2. Sent(i) >= 2
    <2>1. CASE RecvConnect(i)
      <3>1. pc[i] = "await_connect" /\ rxc[Cep(i)] # <<>>
        BY <2>1, ConnectReads DEF Took
      <3>2. Got(i) = 1 /\ Got(i) + 1 <= Sent(i)
        BY <1>0, <3>1, NodeFacts, ReadsScript DEF Got
      <3> QED
        BY <1>1, <3>2
    <2>2. CASE DialNext(i)
      <3>1. Got(i) = 2
        BY <1>0, <2>2, NodeFacts DEF DialNext, Got
      <3> QED
        BY <1>1, <3>1
    <2> QED
      BY <2>1, <2>2
  <1>3. ~Gathered => Sent(i) <= 1
    BY OwedBySent
  <1> QED
    BY <1>1, <1>2, <1>3

LEMMA DataDial ==
  ASSUME TypeOK, BarrierInv, Exchange, NEW h, NEW s \in PN, <<h, s>> \in Link, Dials(h, s)
  PROVE  Gathered /\ h \in EN
  <1>1. h \in EN /\ s # CN
    <2>1. <<h, s>>[1] = h /\ <<h, s>>[2] = s /\ s # CN
      BY NodeFacts
    <2> QED
      BY <2>1, LinkShape
  <1> QED
    BY <1>1, DialsGathered DEF Dials

\* A server that is dialled listens.
LEMMA DialledListens ==
  ASSUME TypeOK, BarrierInv, Exchange, NEW l \in Link, Dials(l[1], l[2])
  PROVE  listening[l[2]]
  <1>1. CASE l[2] = CN
    BY <1>1 DEF Exchange
  <1>2. CASE l[2] \in PN
    <2>1. l = <<l[1], l[2]>>
      BY LinkShape
    <2>2. Gathered
      BY <1>2, <2>1, DataDial
    <2>3. l[2] \in Host
      BY <1>2, NodeFacts
    <2>4. link[Cep(l[2])] \in {"up", "down"} /\ (pc[l[2]] = "listen" => link[Cep(l[2])] = "closed")
      BY <2>2, <2>3, HostParts DEF Handshook
    <2> QED
      BY <1>2, <2>4, ServerParts DEF ServerEnd
  <1> QED
    BY <1>1, <1>2, LinkShape

\* A connection to the controller that stands is not made again.
LEMMA ControlAccepts ==
  ASSUME TypeOK, Exchange, NEW h \in Host, Accepts(CN, Cep(h))
  PROVE  ~Gathered /\ link[Cep(h)] = "requested"
  <1>1. WaitAllConn(CN) /\ pc[CN] = "wait_all"
    <2>1. pc[CN] # "serve"
      BY DEF TypeOK, PcTypeOK, ControllerPC
    <2> QED
      BY <2>1 DEF Accepts, WaitAllConn, ServeEvent
  <1>2. 1 \in DOMAIN eq[CN] /\ Head(eq[CN]) = eq[CN][1]
    BY NodeFacts, EventsGood DEF Accepts
  <1>3. Told(1, h, "CONNREQ")
    <2>1. Rev(Cep(h)) = <<CN, h>>
      BY HostFacts
    <2> QED
      BY <1>2, <2>1 DEF Accepts, Told
  <1>4. ~Gathered
    BY <1>1 DEF Gathered
  <1>5. Handshake(h)
    BY <1>4, HostParts DEF Handshook
  <1> QED
    BY <1>2, <1>3, <1>4, <1>5 DEF Handshake

LEMMA LinkHeld ==
  ASSUME TypeOK, BarrierInv, Exchange, [Next]_vars, NEW h \in Host
  PROVE  /\ link[Cep(h)] \in {"up", "down"} => link'[Cep(h)] \in {"up", "down"}
         /\ link[Cep(h)] = "closed" => link'[Cep(h)] = "closed" \/ HostDial(h)
  <1>0. /\ Cep(h) \in Link /\ Cep(h) = <<h, CN>> /\ Cep(h)[1] = h /\ Cep(h)[2] = CN
    <2>1. Cep(h) \in Link /\ Cep(h) = <<h, CN>>
      BY HostFacts
    <2> QED
      BY <2>1
  <1>1. LinkStep(Cep(h))
    BY <1>0, EventSteps DEF BarrierInv
  <1>2. HostDial(h) => link[Cep(h)] = "closed"
    BY HostParts DEF HostDial, Handshook
  <1>3. Dials(Cep(h)[1], Cep(h)[2]) => HostDial(h)
    BY <1>0 DEF Dials
  <1>4. Accepts(Cep(h)[2], Cep(h)) => link[Cep(h)] = "requested"
    BY <1>0, ControlAccepts
  <1> QED
    BY <1>1, <1>2, <1>3, <1>4 DEF LinkStep

LEMMA HandshookStep ==
  ASSUME TypeOK, BarrierInv, Exchange, [Next]_vars, NEW h \in Host
  PROVE  Handshook(h)'
  <1>0. Handshook(h) /\ h \in Node
    BY HostParts, HostFacts
  <1>1. ASSUME pc'[h] \in {"listen", "dial"} PROVE link'[Cep(h)] = "closed"
    <2>1. pc[h] \in {"listen", "dial"}
      BY <1>1, DialOnce DEF BarrierInv
    <2>2. ~HostDial(h)
      <3>1. HostDial(h) => pc'[h] = "await_cm"
        BY HostFacts, DialOwn DEF HostDial
      <3> QED
        BY <1>1, <3>1
    <2> QED
      BY <1>0, <2>1, <2>2, LinkHeld DEF Handshook
  <1>2. ASSUME Gathered' PROVE link'[Cep(h)] \in {"up", "down"}
    <2>1. CASE Gathered
      BY <1>0, <2>1, LinkHeld DEF Handshook
    <2>2. CASE ControllerConnect
      <3>1. ~Pending(h) /\ link' = link /\ link[Cep(h)] \in LinkStates
        BY <2>2, AllJoined, HostFacts DEF ControllerConnect, ControllerUnchanged, TypeOK, FabricTypeOK
      <3> QED
        BY <3>1 DEF Pending, LinkStates
    <2>3. CASE ~Gathered /\ ~ControllerConnect
      <3>1. pc[CN] = "wait_all" /\ pc'[CN] # "wait_all" /\ pc'[CN] # "failed" /\ CN \in Node
        BY <1>2, <2>3, OnwardStep, NodeFacts DEF Gathered
      <3>2. \/ CN \in EN /\ ClientStep(CN)
            \/ CN \in PN /\ ServerStep(CN)
            \/ ControllerStep
            \/ Delivery
            \/ Elsewhere(CN)
        BY <3>1, StepOwn DEF BarrierInv
      <3>3. ControllerStep
        BY <3>1, <3>2, NodeFacts DEF Delivery, Elsewhere, nodeVars
      <3>4. WaitAllConn(CN)
        BY <2>3, <3>1, <3>3
        DEF ControllerStep, ConnectSent, CollectConfirm, ControllerStart, StartSent,
            ControllerCheckpoint, CheckpointSent, CollectCheckpoint, CheckpointDone, ControllerStop,
            StopSent, CollectSummary, SummaryDone, AwaitShutdown, ControllerDone, Exit, CommandsSent
      <3>5. pc'[CN] \in {"wait_all", "failed"}
        <4>1. Goto(CN, IF Head(eq[CN]).kind = "REFUSED" THEN "failed" ELSE pc[CN])
          BY <3>4 DEF WaitAllConn
        <4> QED
          BY <3>1, <4>1, GotoOwn
      <3> QED
        BY <3>1, <3>5
    <2> QED
      BY <2>1, <2>2, <2>3
  <1>3. ASSUME ~Gathered' PROVE Handshake(h)'
    <2>1. ~Gathered
      BY <1>3, OnwardStep
    <2>2. pc[CN] \in SetupPC
      BY <2>1 DEF Gathered, SetupPC
    <2> QED
      BY <1>0, <2>1, <2>2, HandshakeStep DEF BarrierInv, Handshook
  <1> QED
    BY <1>1, <1>2, <1>3 DEF Handshook

\* The two ends of a client's connection to a server, whoever moves.
LEMMA DataSides ==
  ASSUME TypeOK, BarrierInv, Exchange, [Next]_vars, NEW i \in EN, NEW s \in PN, ~Delivery
  PROVE  ClientDataEffect(i, s) /\ ServerDataEffect(s, i)
  <1>0. /\ <<i, s>> \in Endpoint /\ <<s, i>> \in Endpoint /\ <<i, s>> \in Link
        /\ i \in Host /\ s \in Host /\ i \notin PN /\ s \notin EN
        /\ <<i, s>>[1] = i /\ <<s, i>>[1] = s
    BY DataLink, NodeFacts
  <1>1. HostAct(i) \/ HostStill(i)
    BY <1>0, Parties DEF BarrierInv
  <1>2. HostAct(s) \/ HostStill(s)
    BY <1>0, Parties DEF BarrierInv
  <1>3. ClientDataEffect(i, s)
    <2>1. CASE HostAct(i)
      BY <1>0, <2>1, ClientDataEffects DEF HostAct
    <2>2. CASE HostStill(i)
      BY <1>0, <2>2 DEF HostStill, Elsewhere, Untouched, ClientDataEffect, HoldsKey
    <2> QED
      BY <1>1, <2>1, <2>2
  <1>4. ServerDataEffect(s, i)
    <2>1. CASE HostAct(s)
      BY <1>0, <2>1, ServerDataEffects DEF HostAct
    <2>2. CASE HostStill(s)
      BY <1>0, <2>2 DEF HostStill, Elsewhere, Untouched, ServerDataEffect, Served
    <2> QED
      BY <1>2, <2>1, <2>2
  <1> QED
    BY <1>3, <1>4

\* A connection between a client and a server is not begun before all have joined.
LEMMA DataClosed ==
  ASSUME TypeOK, BarrierInv, Exchange, [Next]_vars, NEW i \in EN, NEW s \in PN, ~Gathered'
  PROVE  link'[<<i, s>>] = "closed"
  <1>0. <<i, s>> \in Link /\ <<i, s>>[1] = i /\ <<i, s>>[2] = s /\ s \in Node /\ s # CN
    BY DataLink, NodeFacts
  <1>1. ~Gathered
    BY OnwardStep
  <1>2. link[<<i, s>>] = "closed"
    BY <1>1, ServerParts DEF DataEnd
  <1>3. ~Dials(i, s)
    BY <1>0, <1>1, DataDial
  <1>4. ~Accepts(s, <<i, s>>)
    <2>1. eq[s] # <<>> => Head(eq[s]) = eq[s][1] /\ 1 \in DOMAIN eq[s]
      BY <1>0, EventsGood
    <2> QED
      BY <1>1, <2>1, ServerParts DEF Accepts, ServerEnd
  <1>5. LinkStep(<<i, s>>)
    BY <1>0, EventSteps DEF BarrierInv
  <1> QED
    BY <1>0, <1>2, <1>3, <1>4, <1>5 DEF LinkStep

LEMMA DataEndMoves ==
  ASSUME TypeOK, BarrierInv, Exchange, [Next]_vars, NEW i \in EN, NEW s \in PN, ~Delivery
  PROVE  DataEnd(i, s)'
  <1>0. <<i, s>> \in Endpoint /\ <<s, i>> \in Endpoint
    BY DataLink
  <1>1. DataEnd(i, s) /\ ClientDataEffect(i, s) /\ ServerDataEffect(s, i)
    BY DataSides, ServerParts
  <1>2. sq'[<<i, s>>] = <<>> /\ rq'[<<s, i>>] = <<>> /\ rxc'[<<s, i>>] = <<>>
    BY <1>1 DEF DataEnd, ClientDataEffect, ServerDataEffect
  <1>3. sq'[<<s, i>>] # <<>> => buf'[<<s, i>>] = KeysOf(<<s, i>>)
    BY <1>1 DEF DataEnd, ServerDataEffect
  <1>4. sq'[<<s, i>>] # <<>> \/ rxc'[<<i, s>>] # <<>> \/ HoldsKey(i, s)' => Served(s)'
    <2>1. rxc'[<<i, s>>] # <<>> => rxc[<<i, s>>] # <<>>
      BY <1>1 DEF ClientDataEffect
    <2>2. HoldsKey(i, s)' => HoldsKey(i, s) \/ rxc[<<i, s>>] # <<>>
      BY <1>1 DEF ClientDataEffect
    <2>3. sq'[<<s, i>>] # <<>> => sq[<<s, i>>] # <<>> \/ Served(s)
      BY <1>1 DEF ServerDataEffect
    <2>4. Served(s) => Served(s)'
      BY <1>1 DEF ServerDataEffect
    <2> QED
      BY <1>1, <2>1, <2>2, <2>3, <2>4 DEF DataEnd
  <1>5. \A k \in DOMAIN rq'[<<i, s>>] : rq'[<<i, s>>][k] = KeysSize
    <2> DEFINE r == rq[<<i, s>>]
    <2>1. /\ r \in Seq(RecvSizes) /\ rq'[<<i, s>>] \in {r, Append(r, KeysSize)}
          /\ \A k \in DOMAIN r : r[k] = KeysSize
      BY <1>0, <1>1, QueueTypes DEF DataEnd, ClientDataEffect, QueueOK
    <2>2. KeysSize \in RecvSizes
      BY SizeFacts
    <2> HIDE DEF r
    <2>3. \A k \in DOMAIN Append(r, KeysSize) : Append(r, KeysSize)[k] = KeysSize
      BY <2>1, <2>2, AppendFacts
    <2> QED
      BY <2>1, <2>3
  <1>6. \A k \in DOMAIN rxc'[<<i, s>>] : rxc'[<<i, s>>][k] = [size |-> KeysSize, len |-> KeysSize]
    <2> DEFINE r == rxc[<<i, s>>]
               c == [size |-> KeysSize, len |-> KeysSize]
    <2>1. /\ r \in Seq(Completions) /\ (rxc'[<<i, s>>] = r \/ (r # <<>> /\ rxc'[<<i, s>>] = Tail(r)))
          /\ \A k \in DOMAIN r : r[k] = c
      BY <1>0, <1>1, QueueTypes DEF DataEnd, ClientDataEffect, QueueOK
    <2> HIDE DEF r, c
    <2>2. \A k \in DOMAIN rxc'[<<i, s>>] : rxc'[<<i, s>>][k] = c
      BY <2>1, TailFacts, ZenonT(40)
    <2> QED
      BY <2>2 DEF c
  <1>7. ~Gathered' => link'[<<i, s>>] = "closed"
    BY DataClosed
  <1> QED
    BY <1>2, <1>3, <1>4, <1>5, <1>6, <1>7 DEF DataEnd

LEMMA DataEndDelivered ==
  ASSUME TypeOK, BarrierInv, Exchange, [Next]_vars, NEW i \in EN, NEW s \in PN,
         UNCHANGED nodeVars, NEW e \in Endpoint, Transmit(e)
  PROVE  DataEnd(i, s)'
  <1>0. /\ <<i, s>> \in Endpoint /\ <<s, i>> \in Endpoint /\ <<s, i>> # <<i, s>>
        /\ i # CN /\ s # CN /\ i # s /\ s \notin EN
    BY DataLink, NodeFacts
  <1>1. e = <<s, i>> \/ e \notin {<<s, i>>, <<i, s>>}
    <2>1. e # <<i, s>>
      BY ServerParts DEF Transmit, DataEnd
    <2> QED
      BY <2>1
  <1>2. Rev(e) = <<i, s>> => e = <<s, i>>
    <2>1. e = <<e[1], e[2]>> /\ Rev(e) = <<e[2], e[1]>>
      BY TransmitOwn
    <2> QED
      BY <2>1
  <1>3. Rev(e) = <<s, i>> => e = <<i, s>>
    <2>1. e = <<e[1], e[2]>> /\ Rev(e) = <<e[2], e[1]>>
      BY TransmitOwn
    <2> QED
      BY <2>1
  <1>4. DataEnd(i, s) /\ (~Gathered' => link'[<<i, s>>] = "closed")
    BY ServerParts, DataClosed
  <1>5. (HoldsKey(i, s)' <=> HoldsKey(i, s)) /\ (Served(s)' <=> Served(s))
    BY DEF HoldsKey, Served, nodeVars
  <1>6. /\ sq'[<<i, s>>] = sq[<<i, s>>]
        /\ rq'[<<s, i>>] = rq[<<s, i>>] /\ rxc'[<<s, i>>] = rxc[<<s, i>>]
        /\ buf'[<<s, i>>] = buf[<<s, i>>]
    BY <1>0, <1>1, <1>3, TransmitOwn
  <1>7. CASE e # <<s, i>>
    <2>1. /\ sq'[<<s, i>>] = sq[<<s, i>>]
          /\ rq'[<<i, s>>] = rq[<<i, s>>] /\ rxc'[<<i, s>>] = rxc[<<i, s>>]
      BY <1>0, <1>2, <1>7, TransmitOwn
    <2> QED
      BY <1>4, <1>5, <1>6, <2>1 DEF DataEnd
  <1>8. CASE e = <<s, i>>
    <2>0. Rev(e) = <<i, s>>
      BY <1>8, DataEnds
    <2>1. /\ sq[<<s, i>>] # <<>> /\ sq'[<<s, i>>] = Tail(sq[<<s, i>>])
          /\ rq[<<i, s>>] # <<>> /\ rq'[<<i, s>>] = Tail(rq[<<i, s>>])
      BY <1>8, <2>0, TransmitOwn
    <2>2. Head(sq[<<s, i>>]) = KeysOf(<<s, i>>)
      <3> DEFINE q == sq[<<s, i>>]
      <3>1. q \in Seq(Msg) /\ q # <<>> /\ \A k \in DOMAIN q : q[k] = KeysOf(<<s, i>>)
        BY <1>0, <2>1, QueueTypes DEF QueueOK, BarrierInv, OnlyKeys
      <3> HIDE DEF q
      <3>2. Head(q) = q[1] /\ 1 \in DOMAIN q
        BY <3>1
      <3>3. Head(q) = KeysOf(<<s, i>>)
        BY <3>1, <3>2
      <3> QED
        BY <3>3 DEF q
    <2>3. /\ Head(rq[<<i, s>>]) = KeysSize
          /\ \A k \in DOMAIN rq'[<<i, s>>] : rq'[<<i, s>>][k] = KeysSize
      <3> DEFINE q == rq[<<i, s>>]
      <3>1. /\ q \in Seq(RecvSizes) /\ q # <<>> /\ \A k \in DOMAIN q : q[k] = KeysSize
            /\ rq'[<<i, s>>] = Tail(q)
        BY <1>0, <1>4, <2>1, QueueTypes DEF QueueOK, DataEnd
      <3> HIDE DEF q
      <3>2. Head(q) = q[1] /\ 1 \in DOMAIN q
        BY <3>1
      <3>3. Head(q) = KeysSize
        BY <3>1, <3>2
      <3>4. \A k \in DOMAIN Tail(q) : Tail(q)[k] = KeysSize
        BY <3>1, TailFacts
      <3>5. \A k \in DOMAIN rq'[<<i, s>>] : rq'[<<i, s>>][k] = KeysSize
        BY <3>1, <3>4
      <3> QED
        BY <3>3, <3>5 DEF q
    <2> DEFINE c == [size |-> KeysSize, len |-> KeysSize]
    <2>4. rxc'[<<i, s>>] = Append(rxc[<<i, s>>], c)
      <3>1. rxc' = [rxc EXCEPT ![<<i, s>>] =
                      Append(@, [size |-> Head(rq[<<i, s>>]), len |-> LenOf(Head(sq[<<s, i>>]))])]
        BY <1>8, <2>0 DEF Transmit
      <3>2. LenOf(KeysOf(<<s, i>>)) = KeysSize
        BY MessageSizes
      <3> QED
        BY <1>0, <2>2, <2>3, <3>1, <3>2 DEF TypeOK, FabricTypeOK
    <2>5. \A k \in DOMAIN rxc'[<<i, s>>] : rxc'[<<i, s>>][k] = c
      <3> DEFINE q == rxc[<<i, s>>]
      <3>1. q \in Seq(Completions) /\ \A k \in DOMAIN q : q[k] = c
        BY <1>0, <1>4, QueueTypes DEF QueueOK, DataEnd
      <3>2. c \in Completions
        BY SizeFacts DEF Completions
      <3>3. rxc'[<<i, s>>] = Append(q, c)
        BY <2>4
      <3> HIDE DEF q, c
      <3>4. \A k \in DOMAIN Append(q, c) : Append(q, c)[k] = c
        BY <3>1, <3>2, AppendFacts
      <3> QED
        BY <3>3, <3>4
    <2> QED
      BY <1>4, <1>5, <1>6, <2>1, <2>3, <2>5 DEF DataEnd
  <1> QED
    BY <1>7, <1>8

-----------------------------------------------------------------------------
(* The ends of a server. *)

LEMMA ListeningStep ==
  ASSUME TypeOK, BarrierInv, Exchange, [Next]_vars
  PROVE  \A q \in Listener : listening'[q] = listening[q] \/ listening'[q]
  <1>1. listening' = listening \/ \E t \in PN : ServerListen(t)
    BY DEF Next, vars, fabricVars, nodeVars, NetworkStep, Network, Establish, Transmit, ClientStep,
           ServerStep, ControllerStep, HostStep, HostDial, ConnectEvent, ConnectKeys, Exit,
           WaitAllConn, ServerReady, ServeCommand, ServeEvent, AwaitConnect, RecvConnect, DialNext,
           Confirm, ConfirmSent, RecvStart, BenchCommand, ControllerUnchanged, ControllerConnect,
           CommandsSent, ConnectSent, CollectConfirm, ControllerStart, StartSent,
           ControllerCheckpoint, CheckpointSent, CollectCheckpoint, CheckpointDone, ControllerStop,
           StopSent, CollectSummary, SummaryDone, AwaitShutdown, ControllerDone
  <1>2. ASSUME NEW t \in PN, ServerListen(t), NEW q \in Listener
        PROVE  listening'[q] = listening[q] \/ listening'[q]
    BY <1>2 DEF ServerListen, TypeOK, FabricTypeOK
  <1> QED
    BY <1>1, <1>2

\* The controller expects nothing from a server.
LEMMA NothingAsked ==
  ASSUME TypeOK, Exchange, NEW s \in PN, ControllerStep
  PROVE  rq'[<<CN, s>>] = <<>> /\ rxc'[<<CN, s>>] = <<>>
  <1>0. <<CN, s>> \in Endpoint /\ <<CN, s>> \notin ClientEps /\ s \in Host
    BY NodeFacts, HostFacts, WhoseEnd
  <1>1. rq[<<CN, s>>] = <<>> /\ rxc[<<CN, s>>] = <<>>
    BY ServerParts DEF ServerEnd
  <1>2. rq' = rq \/ \E size : CtrlRecv(ClientEps, size)
    BY DEF ControllerStep, WaitAllConn, Exit, ControllerConnect, CommandsSent, ConnectSent,
           CollectConfirm, ControllerStart, StartSent, ControllerCheckpoint, CheckpointSent,
           CollectCheckpoint, CheckpointDone, ControllerStop, StopSent, CollectSummary, SummaryDone,
           AwaitShutdown, ControllerDone, fabricVars
  <1>3. rxc' = rxc \/ \E e \in ClientEps : ReadRx(e)
    BY DEF ControllerStep, WaitAllConn, Exit, ControllerConnect, CommandsSent, ConnectSent,
           CollectConfirm, ControllerStart, StartSent, ControllerCheckpoint, CheckpointSent,
           CollectCheckpoint, CheckpointDone, ControllerStop, StopSent, CollectSummary, SummaryDone,
           AwaitShutdown, ControllerDone, fabricVars
  <1>4. rq'[<<CN, s>>] = <<>>
    BY <1>0, <1>1, <1>2, RecvOwn
  <1>5. rxc'[<<CN, s>>] = <<>>
    <2>1. ASSUME NEW e \in ClientEps, ReadRx(e) PROVE rxc'[<<CN, s>>] = <<>>
      <3>1. e \in Endpoint /\ e # <<CN, s>>
        BY <1>0, EndpointFacts
      <3> QED
        BY <1>0, <1>1, <2>1, <3>1, ReadOwn
    <2> QED
      BY <1>1, <1>3, <2>1
  <1> QED
    BY <1>4, <1>5

LEMMA ServerQueues ==
  ASSUME TypeOK, BarrierInv, Exchange, [Next]_vars, NEW s \in PN
  PROVE  /\ sq'[Cep(s)] = <<>> /\ rq'[<<CN, s>>] = <<>> /\ rxc'[<<CN, s>>] = <<>>
         /\ Slots(Cep(s))' <= 1
         /\ pc'[s] \in {"listen", "dial", "wait_all"} => Slots(Cep(s))' = 0
  <1>0. /\ s \in Host /\ s \in Node /\ s \notin EN /\ Cep(s) \in Endpoint /\ <<CN, s>> \in Endpoint
        /\ Cep(s)[1] = s /\ <<CN, s>>[1] = CN /\ ServerEnd(s)
    <2>1. Cep(s) = <<s, CN>> /\ s \in Host
      BY NodeFacts, HostFacts
    <2> QED
      BY <2>1, HostFacts, NodeFacts, ServerParts
  <1>1. CASE HostAct(s) /\ ControlStill
    <2>1. ServerEffect(s)
      BY <1>0, <1>1, ServerEffects DEF HostAct
    <2>2. sq'[Cep(s)] = <<>> /\ rq'[<<CN, s>>] = <<>> /\ rxc'[<<CN, s>>] = <<>>
      BY <1>0, <1>1, <2>1 DEF ServerEnd, ServerEffect, ControlStill, Elsewhere, Untouched
    <2>3. Slots(Cep(s))' <= 1
      <3>1. CASE Quiet(s)
        BY <1>0, <3>1 DEF Quiet, Slots, ServerEnd
      <3>2. CASE Posts(s) \/ Takes(s)
        <4>1. rxc'[Cep(s)] = <<>> /\ (rq'[Cep(s)] = <<>> \/ \E x : rq'[Cep(s)] = Append(<<>>, x))
          BY <3>2 DEF Posts, Takes
        <4>2. \A x : Len(Append(<<>>, x)) = 1
          OBVIOUS
        <4>3. Len(rxc'[Cep(s)]) = 0 /\ Len(rq'[Cep(s)]) \in {0, 1}
          <5> DEFINE a == rxc'[Cep(s)]
                     b == rq'[Cep(s)]
          <5>1. a = <<>> /\ (b = <<>> \/ \E x : b = Append(<<>>, x))
            BY <4>1
          <5> HIDE DEF a, b
          <5>2. Len(a) = 0 /\ Len(b) \in {0, 1}
            <6>1. a = <<>> /\ Len(<<>>) = 0
              BY <5>1
            <6>2. CASE b = <<>>
              BY <6>1, <6>2
            <6>3. CASE \E x : b = Append(<<>>, x)
              BY <4>2, <6>1, <6>3
            <6> QED
              BY <5>1, <6>1, <6>2, <6>3
          <5> QED
            BY <5>2 DEF a, b
        <4> DEFINE b == Len(rq'[Cep(s)])
                   n == Slots(Cep(s))'
        <4>4. b \in {0, 1} /\ n = b + 0
          BY <4>3 DEF Slots
        <4> HIDE DEF b, n
        <4>5. n <= 1
          BY <4>4
        <4> QED
          BY <4>5 DEF n
      <3> QED
        BY <2>1, <3>1, <3>2 DEF ServerEffect
    <2> QED
      BY <2>1, <2>2, <2>3, NoSlotsNext DEF ServerEffect
  <1>2. CASE ControllerStep /\ HostStill(s)
    <2>1. rq'[<<CN, s>>] = <<>> /\ rxc'[<<CN, s>>] = <<>>
      BY <1>2, NothingAsked
    <2> QED
      BY <1>0, <1>2, <2>1 DEF HostStill, Elsewhere, Untouched, ServerEnd, Slots
  <1>3. CASE Delivery
    <2>1. PICK e \in Endpoint : Transmit(e)
      BY <1>3 DEF Delivery
    <2>2. Slots(Cep(s))' = Slots(Cep(s)) /\ Slots(<<CN, s>>)' = Slots(<<CN, s>>) /\ pc' = pc
      BY <1>0, <1>3, <2>1, SlotsDelivered DEF Delivery, nodeVars
    <2>3. sq'[Cep(s)] = <<>>
      <3>1. e # Cep(s)
        BY <1>0, <2>1 DEF Transmit, ServerEnd
      <3> QED
        BY <1>0, <2>1, <3>1, TransmitOwn DEF ServerEnd
    <2>4. rq'[<<CN, s>>] = <<>> /\ rxc'[<<CN, s>>] = <<>>
      <3>1. Rev(e) # <<CN, s>>
        BY <1>0, <2>1 DEF Transmit, ServerEnd
      <3> QED
        BY <1>0, <2>1, <3>1, TransmitOwn DEF ServerEnd
    <2> QED
      BY <1>0, <2>2, <2>3, <2>4 DEF ServerEnd
  <1>4. CASE HostStill(s) /\ ControlStill
    BY <1>0, <1>4 DEF HostStill, ControlStill, Elsewhere, Untouched, ServerEnd, Slots
  <1> QED
    BY <1>0, <1>1, <1>2, <1>3, <1>4, Parties DEF BarrierInv

\* What comes into the event queue of a node.
LEMMA NewEvent ==
  ASSUME TypeOK, BarrierInv, Exchange, [Next]_vars, NEW p \in Node, NEW v \in Events,
         v.ep[1] = p, Cause(p, v)
  PROVE  /\ v.kind # "REFUSED"
         /\ v.kind = "CONNREQ" /\ p \in PN => Gathered
         /\ v.kind # "CONNECTED" /\ p \in EN => Closed
         /\ p \in PN /\ v.kind = "CONNECTED" =>
              \/ link[Cep(p)] = "accepted" /\ link'[Cep(p)] = "up"
              \/ Gathered
         /\ p \in PN /\ v.kind = "SHUTDOWN" => Gathered \/ link[Cep(p)] = "up"
  <1>0. v.ep \in Endpoint
    BY DEF Events
  <1>1. v.kind # "REFUSED"
    <2> SUFFICES ASSUME v.kind = "REFUSED" PROVE FALSE
      OBVIOUS
    <2>1. v.ep \in Link /\ Dials(p, v.ep[2]) /\ ~listening[v.ep[2]]
      BY DEF Cause
    <2> QED
      BY <2>1, DialledListens
  <1>2. ASSUME v.kind = "CONNREQ", p \in PN PROVE Gathered
    <2>1. v.ep \in Passive /\ Dials(v.ep[2], p)
      BY <1>2 DEF Cause
    <2>2. v.ep = <<p, v.ep[2]>> /\ Rev(v.ep) \in Link /\ Rev(v.ep) = <<v.ep[2], v.ep[1]>>
      BY <2>1, PassiveShape
    <2> QED
      BY <1>2, <2>1, <2>2, DataDial
  <1>3. ASSUME v.kind # "CONNECTED", p \in EN PROVE Closed
    <2>1. v.ep \in Link /\ v.ep[2] \in Listener
      <3>1. v.ep \notin Passive
        BY <1>3, PassiveShape, NodeFacts
      <3> QED
        BY <1>0, <3>1, LinkShape DEF Endpoint
    <2>2. v.kind = "SHUTDOWN" /\ Exit(v.ep[2])
      BY <1>1, <1>3, <2>1, LinkIsNotPassive DEF Cause
    <2>3. pc[v.ep[2]] = "finished"
      BY <2>1, <2>2, NodeFacts DEF Exit, Exchange
    <2>4. CASE v.ep[2] = CN
      BY <2>3, <2>4 DEF Closed
    <2>5. CASE v.ep[2] \in PN
      BY <2>3, <2>5, ServerParts DEF ServerEnd
    <2> QED
      BY <2>1, <2>4, <2>5, NodeFacts
  <1>4. ASSUME p \in PN PROVE LinkOf(v.ep) = Cep(p) \/ \E i \in EN : LinkOf(v.ep) = <<i, p>>
    <2>1. CASE v.ep \in Link
      <3>1. /\ v.ep = <<p, v.ep[2]>> /\ LinkOf(v.ep) = v.ep /\ p \notin EN
            /\ (v.ep[2] = CN \/ p \in EN)
        BY <1>4, <2>1, LinkShape, NodeFacts
      <3> QED
        BY <3>1 DEF Cep
    <2>2. CASE v.ep \in Passive
      <3>1. /\ LinkOf(v.ep) = <<v.ep[2], p>> /\ (p = CN \/ v.ep[2] \in EN) /\ p # CN
        BY <1>4, <2>2, PassiveShape, NodeFacts
      <3> QED
        BY <3>1
    <2> QED
      BY <1>0, <2>1, <2>2 DEF Endpoint
  <1>5. ASSUME p \in PN, NEW i \in EN, LinkOf(v.ep) = <<i, p>>, link[<<i, p>>] # "closed"
        PROVE  Gathered
    BY <1>5, ServerParts DEF DataEnd
  <1>6. ASSUME p \in PN, v.kind = "CONNECTED"
        PROVE  \/ link[Cep(p)] = "accepted" /\ link'[Cep(p)] = "up"
               \/ Gathered
    <2>1. Joins(LinkOf(v.ep)) /\ LinkOf(v.ep) \in Link
      <3>1. LinkOf(v.ep) \in Link
        BY <1>0, LinkShape, PassiveShape DEF Endpoint
      <3> QED
        BY <1>6, <3>1 DEF Cause
    <2>2. link[LinkOf(v.ep)] = "accepted" /\ link'[LinkOf(v.ep)] = "up"
      BY <2>1, JoinMoves
    <2> QED
      BY <1>4, <1>5, <1>6, <2>2
  <1>7. ASSUME p \in PN, v.kind = "SHUTDOWN" PROVE Gathered \/ link[Cep(p)] = "up"
    <2>1. link[LinkOf(v.ep)] = "up"
      BY <1>7 DEF Cause
    <2> QED
      BY <1>4, <1>5, <1>7, <2>1
  <1> QED
    BY <1>1, <1>2, <1>3, <1>6, <1>7

LEMMA ServerPlace ==
  ASSUME TypeOK, BarrierInv, Exchange, [Next]_vars, NEW s \in PN
  PROVE  (ServerStep(s) /\ ServerEffect(s)) \/ pc'[s] = pc[s]
  <1>0. s \in Host /\ s \notin EN
    BY NodeFacts
  <1>1. \/ HostAct(s) /\ ControlStill
        \/ ControllerStep /\ HostStill(s)
        \/ Delivery
        \/ HostStill(s) /\ ControlStill
    BY <1>0, Parties DEF BarrierInv
  <1>2. HostAct(s) \/ pc'[s] = pc[s]
    BY <1>1 DEF HostStill, Elsewhere, Delivery, nodeVars
  <1> QED
    BY <1>0, <1>2, ServerEffects DEF HostAct

\* The first event of a server is that its connection to the controller stands.
FirstEvent(s) ==
  IF link[Cep(s)] \in {"up", "down"}
  THEN eq[s] # <<>> /\ Head(eq[s]).kind = "CONNECTED" ELSE eq[s] = <<>>

LEMMA FirstEventStep ==
  ASSUME TypeOK, BarrierInv, Exchange, [Next]_vars, NEW s \in PN,
         pc'[s] \in {"listen", "dial", "await_cm"}
  PROVE  FirstEvent(s)'
  <1>0. /\ s \in Host /\ s \in Node /\ s # CN /\ s \in Listener /\ Cep(s) \in Link
        /\ Cep(s)[1] = s /\ Cep(s)[2] = CN
    <2>1. Cep(s) = <<s, CN>> /\ s \in Host
      BY NodeFacts, HostFacts
    <2>2. s \in Node /\ s # CN /\ s \in Listener /\ Cep(s) \in Link
      BY <2>1, HostFacts, NodeFacts
    <2> QED
      BY <2>1, <2>2
  <1>1. pc[s] \in {"listen", "dial", "await_cm"}
    BY ServerPlace, ServerMoves
  <1>2. FirstEvent(s)
    BY <1>1, ServerParts DEF ServerEnd, FirstEvent
  <1>3. eq[s] \in Seq(Events)
    BY <1>0 DEF TypeOK, FabricTypeOK
  <1>4. CASE eq'[s] = eq[s]
    <2>1. CASE link[Cep(s)] \in {"up", "down"}
      BY <1>0, <1>2, <1>4, <2>1, LinkHeld DEF FirstEvent
    <2>2. CASE link[Cep(s)] \notin {"up", "down"}
      <3>1. eq[s] = <<>>
        BY <1>2, <2>2 DEF FirstEvent
      <3>2. ~Joins(Cep(s))
        <4> DEFINE v == [kind |-> "CONNECTED", ep |-> Cep(s)]
        <4>1. Joins(Cep(s)) => eq'[s] = Append(eq[s], v)
          BY <1>0, JoinMoves
        <4> HIDE DEF v
        <4>2. Append(<<>>, v) # <<>>
          OBVIOUS
        <4> QED
          BY <1>4, <3>1, <4>1, <4>2
      <3>3. LinkStep(Cep(s))
        BY <1>0, EventSteps DEF BarrierInv
      <3>4. link'[Cep(s)] \notin {"up", "down"}
        BY <2>2, <3>2, <3>3 DEF LinkStep
      <3> QED
        BY <1>4, <3>1, <3>4 DEF FirstEvent
    <2> QED
      BY <2>1, <2>2
  <1>5. CASE eq[s] # <<>> /\ eq'[s] = Tail(eq[s]) /\ Handles(s)
    <2>1. ConnectEvent(s)
      BY <1>0, <1>1, <1>5 DEF Handles, WaitAllConn, ServeEvent
    <2> QED
      BY <1>0, <2>1, ConnectHears
  <1>6. ASSUME NEW v \in Events, v.ep[1] = s, eq'[s] = Append(eq[s], v), Cause(s, v)
        PROVE  FirstEvent(s)'
    <2>1. CASE link[Cep(s)] \in {"up", "down"}
      <3>1. eq[s] # <<>> /\ Head(eq[s]).kind = "CONNECTED" /\ link'[Cep(s)] \in {"up", "down"}
        BY <1>0, <1>2, <2>1, LinkHeld DEF FirstEvent
      <3>2. eq'[s] # <<>> /\ Head(eq'[s]) = Head(eq[s])
        BY <1>3, <1>6, <3>1
      <3> QED
        BY <3>1, <3>2 DEF FirstEvent
    <2>2. CASE link[Cep(s)] \notin {"up", "down"}
      <3>1. eq[s] = <<>> /\ ~Gathered
        BY <1>0, <1>2, <2>2, HostParts DEF FirstEvent, Handshook
      <3>2. eq'[s] # <<>> /\ Head(eq'[s]) = v
        BY <1>3, <1>6, <3>1
      <3>3. v.kind \in {"CONNREQ", "CONNECTED", "SHUTDOWN", "REFUSED"}
        BY DEF Events
      <3>4. v.kind = "CONNECTED" /\ link'[Cep(s)] = "up"
        BY <1>0, <1>6, <2>2, <3>1, <3>3, NewEvent
      <3> QED
        BY <3>2, <3>4 DEF FirstEvent
    <2> QED
      BY <2>1, <2>2
  <1>7. EventStep(s)
    BY <1>0, EventSteps DEF BarrierInv
  <1> QED
    BY <1>4, <1>5, <1>6, <1>7 DEF EventStep

LEMMA ServerEndStep ==
  ASSUME TypeOK, BarrierInv, Exchange, [Next]_vars, NEW s \in PN
  PROVE  ServerEnd(s)'
  <1>0. s \in Host /\ s \in Node /\ s \in Listener /\ ServerEnd(s)
    BY NodeFacts, ServerParts
  <1>1. ASSUME pc'[s] # "listen" PROVE listening'[s]
    <2>1. CASE pc[s] # "listen"
      <3>1. listening[s] /\ listening[s] \in BOOLEAN
        BY <1>0, <2>1 DEF ServerEnd, TypeOK, FabricTypeOK
      <3> QED
        BY <1>0, <3>1, ListeningStep
    <2>2. CASE pc[s] = "listen"
      <3>1. ServerStep(s)
        BY <1>1, <2>2, ServerPlace
      <3>2. ServerListen(s)
        BY <2>2, <3>1 DEF ServerStep, HostStep, HostDial, ConnectEvent, ConnectKeys, Exit,
                          WaitAllConn, ServerReady, ServeCommand, ServeEvent
      <3> QED
        BY <1>0, <3>2 DEF ServerListen, TypeOK, FabricTypeOK
    <2> QED
      BY <2>1, <2>2
  <1>2. ASSUME pc'[s] \in {"finished", "gone"} PROVE Closed'
    <2>1. Closed
      BY <1>0, <1>2, ServerPlace DEF ServerEnd, ServerEffect
    <2> QED
      BY <2>1, OnwardStep
  <1>3. ASSUME ~Gathered', NEW k \in DOMAIN eq'[s] PROVE eq'[s][k].kind # "CONNREQ"
    <2>1. ~Gathered /\ eq[s] \in Seq(Events) /\ \A j \in DOMAIN eq[s] : eq[s][j].kind # "CONNREQ"
      BY <1>0, <1>3, OnwardStep DEF ServerEnd, TypeOK, FabricTypeOK
    <2>2. EventStep(s)
      BY <1>0, EventSteps DEF BarrierInv
    <2>3. ASSUME NEW v \in Events, v.ep[1] = s, eq'[s] = Append(eq[s], v), Cause(s, v)
          PROVE  eq'[s][k].kind # "CONNREQ"
      <3>1. v.kind # "CONNREQ"
        BY <1>0, <2>1, <2>3, NewEvent
      <3>2. eq'[s][k] = v \/ (k \in DOMAIN eq[s] /\ eq'[s][k] = eq[s][k])
        BY <1>3, <2>1, <2>3, AppendFacts
      <3> QED
        BY <2>1, <3>1, <3>2
    <2>4. CASE eq[s] # <<>> /\ eq'[s] = Tail(eq[s])
      BY <1>3, <2>1, <2>4, TailFacts
    <2> QED
      BY <1>3, <2>1, <2>2, <2>3, <2>4 DEF EventStep
  <1> QED
    BY <1>1, <1>2, <1>3, ServerQueues, FirstEventStep DEF ServerEnd, FirstEvent

-----------------------------------------------------------------------------
(* What Exchange says of the run as a whole. *)

LEMMA NoFailureStep ==
  ASSUME TypeOK, BarrierInv, Exchange, [Next]_vars, NEW p \in Node
  PROVE  pc'[p] # "failed"
  <1>1. CASE p = CN
    BY <1>1, OnwardStep
  <1>2. CASE p \in PN
    BY <1>2, ServerPlace DEF ServerEffect, Exchange
  <1>3. CASE p \in EN
    <2>1. p \in Host /\ p \notin PN /\ pc[p] # "failed"
      BY <1>3, NodeFacts DEF Exchange
    <2>2. HostAct(p) \/ pc'[p] = pc[p]
      BY <2>1, Parties DEF BarrierInv, HostStill, Elsewhere, Delivery, nodeVars
    <2>3. CASE HostAct(p)
      BY <1>3, <2>1, <2>3, ClientEffects DEF HostAct, ClientEffect
    <2> QED
      BY <2>1, <2>2, <2>3
  <1> QED
    BY <1>1, <1>2, <1>3, NodeFacts

LEMMA EventsStep ==
  ASSUME TypeOK, BarrierInv, Exchange, [Next]_vars, NEW p \in Node, NEW k \in DOMAIN eq'[p]
  PROVE  /\ eq'[p][k].kind # "REFUSED"
         /\ p \in EN /\ ~Closed' => eq'[p][k].kind = "CONNECTED"
  <1>1. /\ eq[p] \in Seq(Events) /\ (Closed => Closed')
        /\ \A j \in DOMAIN eq[p] : /\ eq[p][j].kind # "REFUSED"
                                   /\ p \in EN /\ ~Closed => eq[p][j].kind = "CONNECTED"
    BY OnwardStep DEF Exchange, TypeOK, FabricTypeOK
  <1>2. CASE eq'[p] = eq[p]
    BY <1>1, <1>2
  <1>3. CASE eq[p] # <<>> /\ eq'[p] = Tail(eq[p])
    BY <1>1, <1>3, TailFacts
  <1>4. ASSUME NEW v \in Events, v.ep[1] = p, eq'[p] = Append(eq[p], v), Cause(p, v)
        PROVE  /\ eq'[p][k].kind # "REFUSED"
               /\ p \in EN /\ ~Closed' => eq'[p][k].kind = "CONNECTED"
    <2>1. v.kind # "REFUSED" /\ (p \in EN /\ ~Closed => v.kind = "CONNECTED")
      BY <1>4, NewEvent
    <2>2. eq'[p][k] = v \/ (k \in DOMAIN eq[p] /\ eq'[p][k] = eq[p][k])
      BY <1>1, <1>4, AppendFacts
    <2> QED
      BY <1>1, <2>1, <2>2
  <1>5. EventStep(p)
    BY EventSteps DEF BarrierInv
  <1> QED
    BY <1>2, <1>3, <1>4, <1>5 DEF EventStep

\* Once the clients have been told to start, each holds the keys of each server.
LEMMA EquippedStep ==
  ASSUME TypeOK, BarrierInv, Exchange, [Next]_vars, Started'
  PROVE  AllEquipped'
  <1>1. CASE AllEquipped
    <2>1. ASSUME NEW i \in EN, NEW s \in PN PROVE HoldsKey(i, s)'
      BY <1>1, <2>1, EquippedStable DEF BarrierInv, AllEquipped, Equipped
    <2> QED
      BY <2>1 DEF AllEquipped, Equipped
  <1>2. CASE ~AllEquipped
    <2>1. ~Started /\ Gathering
      BY <1>2 DEF Exchange, BarrierInv
    <2>2. ~(pc[CN] = "connect_rx" /\ counter[CN] = NumEN)
      BY <1>2, <2>1, NotAllConfirmed
    <2>3. pc[CN] \in {"wait_all", "connect_tx", "connect_rx"} /\ pc[CN] \in SetupPC
      BY <2>1 DEF Started, SetupPC
    <2>4. pc'[CN] \notin {"wait_all", "connect_tx", "connect_rx", "failed"}
      BY OnwardStep DEF Started
    <2>5. \/ pc'[CN] = pc[CN]
          \/ pc'[CN] \in {"failed", "gone", "connect_tx", "connect_rx"}
      BY <2>2, <2>3, ControllerMoves DEF BarrierInv, Reads
    <2>6. pc'[CN] # "gone"
      <3>1. CN \in Node /\ CN \notin EN /\ CN \notin PN
        BY NodeFacts
      <3>2. ControllerStep \/ pc'[CN] = pc[CN]
        <4>1. \/ CN \in EN /\ ClientStep(CN)
              \/ CN \in PN /\ ServerStep(CN)
              \/ ControllerStep
              \/ Delivery
              \/ Elsewhere(CN)
          BY <3>1, StepOwn DEF BarrierInv
        <4> QED
          BY <3>1, <4>1 DEF Delivery, nodeVars, Elsewhere
      <3>3. ASSUME pc'[CN] = "gone", ControllerStep PROVE FALSE
        <4>1. ~Exit(CN)
          BY <2>3 DEF Exit
        <4>2. WaitAllConn(CN) \/ ControllerConnect \/ ConnectSent \/ CollectConfirm
              \/ ControllerStart
          BY <2>3, <3>3, <4>1
          DEF ControllerStep, StartSent, ControllerCheckpoint, CheckpointSent, CollectCheckpoint,
              CheckpointDone, ControllerStop, StopSent, CollectSummary, SummaryDone, AwaitShutdown,
              ControllerDone, CommandsSent
        <4>3. \/ \E place \in {"wait_all", "failed", "connect_tx", "connect_rx", "start_tx"} :
                   Goto(CN, place)
              \/ pc' = pc
          BY <2>3, <4>2 DEF WaitAllConn, ControllerConnect, ConnectSent, CommandsSent,
                            CollectConfirm, ControllerStart
        <4> QED
          BY <2>3, <3>1, <3>3, <4>3, GotoOwn
      <3> QED
        BY <2>3, <3>2, <3>3
    <2> QED
      BY <2>3, <2>4, <2>5, <2>6
  <1> QED
    BY <1>1, <1>2

\* The controller at rest.
ControlIdle ==
  /\ pc'[CN] = pc[CN] /\ counter'[CN] = counter[CN] /\ rounds' = rounds
  /\ \A i \in EN : Slots(<<CN, i>>)' = Slots(<<CN, i>>)

LEMMA ControlMoves ==
  ASSUME TypeOK, BarrierInv, Exchange, [Next]_vars
  PROVE  ControllerStep \/ ControlIdle
  <1>0. NumEN \in Host /\ CN \in Listener /\ \A i \in EN : <<CN, i>> \in Endpoint /\ <<CN, i>>[1] = CN
    BY NodeFacts, CepFacts
  <1>1. CASE ControlStill
    BY <1>0, <1>1 DEF ControlStill, BooksKept, Elsewhere, Untouched, Slots, ControlIdle
  <1>2. CASE Delivery
    BY <1>0, <1>2, SlotsDelivered DEF Delivery, nodeVars, ControlIdle
  <1>3. ControllerStep \/ ControlStill \/ Delivery
    BY <1>0, Parties DEF BarrierInv
  <1> QED
    BY <1>1, <1>2, <1>3

\* Where a step of the controller leads, as far as its counter is concerned.
LEMMA ControlTurns ==
  ASSUME TypeOK, Exchange, ControllerStep
  PROVE  /\ \/ WaitAllConn(CN)
            \/ CollectConfirm \/ CollectCheckpoint \/ CollectSummary
            \/ counter'[CN] = 0 /\ pc'[CN] # "wait_all"
            \/ pc'[CN] \notin {"wait_all", "connect_rx", "checkpoint_rx", "stop_rx"}
         /\ pc'[CN] \in {"wait_all", "connect_tx", "connect_rx", "start_tx"} =>
              rounds' = rounds /\ pc[CN] \in {"wait_all", "connect_tx", "connect_rx"}
  <1>0. CN \in Node /\ CN \in Listener /\ counter \in [Listener -> Int]
    BY NodeFacts DEF TypeOK
  <1>1. CASE WaitAllConn(CN)
    BY <1>1 DEF WaitAllConn
  <1>2. CASE CollectConfirm \/ CollectCheckpoint \/ CollectSummary
    BY <1>2, CollectFacts DEF CollectConfirm, CollectCheckpoint, CollectSummary
  <1>3. CASE ConnectSent \/ StartSent \/ CheckpointSent \/ StopSent
    BY <1>0, <1>3, GotoOwn
    DEF ConnectSent, StartSent, CheckpointSent, StopSent, CommandsSent, Count
  <1>4. CASE \/ ControllerConnect \/ ControllerStart \/ ControllerCheckpoint \/ CheckpointDone
             \/ ControllerStop \/ SummaryDone \/ ControllerDone \/ Exit(CN)
    BY <1>0, <1>4, GotoOwn
    DEF ControllerConnect, ControllerStart, ControllerCheckpoint, CheckpointDone, ControllerStop,
        SummaryDone, ControllerDone, Exit
  <1>5. CASE AwaitShutdown
    <2>1. pc'[CN] \in {"failed", "stop_cm"}
      BY <1>0, <1>5, GotoOwn DEF AwaitShutdown
    <2> QED
      BY <2>1
  <1> QED
    BY <1>1, <1>2, <1>3, <1>4, <1>5 DEF ControllerStep

LEMMA RoundsStep ==
  ASSUME TypeOK, BarrierInv, Exchange, [Next]_vars,
         pc'[CN] \in {"wait_all", "connect_tx", "connect_rx", "start_tx"}
  PROVE  rounds' = 0
  BY ControlMoves, ControlTurns DEF ControlIdle, Exchange

\* One that has joined stays, and every event that is counted is of one more.
LEMMA JoinedStep ==
  ASSUME TypeOK, BarrierInv, Exchange, [Next]_vars, ~Gathered'
  PROVE  counter'[CN] <= Cardinality(Ready)'
  <1>0. /\ ~Gathered /\ pc[CN] = "wait_all" /\ pc'[CN] = "wait_all" /\ CN \in Node
        /\ CN \in Listener /\ counter[CN] \in Int /\ counter \in [Listener -> Int]
        /\ counter[CN] <= Cardinality(Ready)
    BY OnwardStep, NodeFacts DEF Gathered, TypeOK, Exchange
  <1>1. Ready \in SUBSET Host /\ Ready' \in SUBSET Host
    BY DEF Ready
  <1>2. /\ IsFiniteSet(Ready) /\ Cardinality(Ready) \in Nat
        /\ IsFiniteSet(Ready') /\ Cardinality(Ready') \in Nat
    BY <1>1, HostCount
  <1>3. ASSUME NEW h \in Host
        PROVE  \/ Pending(h)' <=> Pending(h)
               \/ WaitAllConn(CN) /\ Told(1, h, "CONNECTED") /\ Pending(h) /\ ~Pending(h)'
    BY <1>0, HostParts, HandshakeStep DEF Handshook, SetupPC, BarrierInv
  <1>4. Ready \subseteq Ready'
    BY <1>3 DEF Ready
  <1>5. Cardinality(Ready) <= Cardinality(Ready')
    BY <1>2, <1>4, FS_Subset
  <1>6. CASE counter'[CN] = counter[CN]
    <2>1. counter'[CN] <= Cardinality(Ready')
      BY <1>0, <1>2, <1>5, <1>6
    <2> QED
      BY <2>1
  <1>7. CASE WaitAllConn(CN)
    <2> DEFINE v == Head(eq[CN])
    <2>1. /\ eq[CN] # <<>> /\ eq[CN] \in Seq(Events)
          /\ Count(CN, IF v.kind = "CONNECTED" THEN counter[CN] + 1
                       ELSE IF v.kind = "SHUTDOWN" THEN counter[CN] - 1 ELSE counter[CN])
      BY <1>0, <1>7 DEF WaitAllConn, TypeOK, FabricTypeOK
    <2>2. v = eq[CN][1] /\ 1 \in DOMAIN eq[CN] /\ v \in Events
      BY <2>1
    <2>3. CASE v.kind = "CONNECTED"
      <3>1. counter'[CN] = counter[CN] + 1
        BY <1>0, <2>1, <2>3 DEF Count
      <3>2. PICK h \in Host : v.ep = <<CN, h>>
        <4>1. v.ep \in Endpoint /\ v.ep[1] = CN
          BY <1>0, <2>2 DEF Events, BarrierInv, OwnEvents
        <4>2. v.ep \in Passive
          BY <4>1, LinkShape, NodeFacts DEF Endpoint
        <4> QED
          BY <4>1, <4>2, PassiveShape, NodeFacts
      <3>3. Told(1, h, "CONNECTED")
        BY <2>2, <2>3, <3>2 DEF Told
      <3>4. Pending(h) /\ ~Pending(h)'
        BY <1>0, <1>7, <3>3, HostParts, HandshakeWait DEF Handshook, BarrierInv
      <3>5. Ready \cup {h} \subseteq Ready' /\ h \notin Ready
        BY <1>4, <3>4 DEF Ready
      <3>6. Cardinality(Ready \cup {h}) = Cardinality(Ready) + 1 /\ IsFiniteSet(Ready \cup {h})
        BY <1>2, <3>5, FS_AddElement
      <3>7. Cardinality(Ready \cup {h}) <= Cardinality(Ready')
        BY <1>2, <3>5, FS_Subset
      <3>8. counter'[CN] <= Cardinality(Ready')
        BY <1>0, <1>2, <3>1, <3>6, <3>7
      <3> QED
        BY <3>8
    <2>4. CASE v.kind # "CONNECTED"
      <3>1. counter'[CN] \in {counter[CN], counter[CN] - 1}
        BY <1>0, <2>1, <2>4 DEF Count
      <3>2. counter'[CN] <= Cardinality(Ready')
        BY <1>0, <1>2, <1>5, <3>1
      <3> QED
        BY <3>2
    <2> QED
      BY <2>3, <2>4
  <1>8. counter'[CN] = counter[CN] \/ WaitAllConn(CN)
    <2>1. CASE ControlIdle
      BY <2>1 DEF ControlIdle
    <2>2. CASE ControllerStep
      BY <1>0, <2>2, ControlTurns DEF CollectConfirm, CollectCheckpoint, CollectSummary
    <2> QED
      BY <2>1, <2>2, ControlMoves
  <1> QED
    BY <1>6, <1>7, <1>8

\* One that is read from stays read, and every message that is counted is of one more.
LEMMA ReadStep ==
  ASSUME TypeOK, BarrierInv, Exchange, [Next]_vars,
         pc'[CN] \in {"connect_rx", "checkpoint_rx", "stop_rx"}
  PROVE  counter'[CN] <= Cardinality(Confirmed)'
  <1>0. Confirmed \in SUBSET EN /\ Confirmed' \in SUBSET EN /\ CN \in Listener /\ counter[CN] \in Int
    BY NodeFacts DEF Confirmed, TypeOK
  <1>1. /\ IsFiniteSet(Confirmed) /\ Cardinality(Confirmed) \in Nat
        /\ Cardinality(Confirmed') \in Nat
    BY <1>0, ClientCount
  <1>2. CASE ControlIdle
    <2>1. Confirmed' = Confirmed
      BY <1>2 DEF ControlIdle, Confirmed
    <2>2. counter[CN] <= Cardinality(Confirmed) /\ counter'[CN] = counter[CN]
      BY <1>2 DEF ControlIdle, Exchange
    <2> QED
      BY <2>1, <2>2
  <1>3. CASE CollectConfirm \/ CollectCheckpoint \/ CollectSummary
    <2>1. /\ pc'[CN] = pc[CN] /\ rq' = rq /\ counter'[CN] \in {counter[CN], counter[CN] + 1}
          /\ \E j \in EN : rxc[<<CN, j>>] # <<>> /\ ReadRx(<<CN, j>>)
      BY <1>3, CollectFacts
    <2>2. PICK j \in EN : rxc[<<CN, j>>] # <<>> /\ ReadRx(<<CN, j>>)
      BY <2>1
    <2>3. <<CN, j>> \in Endpoint
      BY CepFacts
    <2>4. j \notin Confirmed
      BY <2>2, <2>3, NoSlots DEF Confirmed
    <2>5. ASSUME NEW i \in EN, i # j PROVE Slots(<<CN, i>>)' = Slots(<<CN, i>>)
      <3>1. <<CN, i>> # <<CN, j>> /\ <<CN, i>> \in Endpoint
        BY <2>5, CepFacts
      <3> QED
        BY <2>1, <2>2, <2>3, <3>1, ReadOwn DEF Slots
    <2>6. Slots(<<CN, j>>)' = 0
      <3> DEFINE x == rxc[<<CN, j>>]
                 a == Len(rq[<<CN, j>>])
      <3>1. Slots(<<CN, j>>) <= 1
        BY ClientParts DEF SlotsOf
      <3>2. x \in Seq(Completions) /\ x # <<>> /\ a \in Nat /\ (a = 0 => rq[<<CN, j>>] = <<>>)
            /\ a + Len(x) <= 1
        BY <2>2, <2>3, <3>1, Lengths, QueueTypes DEF QueueOK, Slots
      <3> HIDE DEF x, a
      <3>3. Tail(x) \in Seq(Completions) /\ Len(Tail(x)) = Len(x) - 1 /\ Len(x) \in Nat \ {0}
        BY <3>2, TailFacts
      <3>4. a = 0 /\ Len(Tail(x)) = 0
        BY <3>2, <3>3
      <3>5. Tail(x) = <<>>
        BY <3>3, <3>4, NoneLeft
      <3>6. rq'[<<CN, j>>] = <<>> /\ rxc'[<<CN, j>>] = <<>>
        BY <2>1, <2>2, <2>3, <3>2, <3>4, <3>5, ReadOwn DEF x
      <3> QED
        BY <3>6, NoSlotsNext
    <2>7. Confirmed' = Confirmed \cup {j}
      BY <2>5, <2>6 DEF Confirmed
    <2>8. Cardinality(Confirmed') = Cardinality(Confirmed) + 1
      BY <1>1, <2>4, <2>7, FS_AddElement
    <2>9. counter[CN] <= Cardinality(Confirmed)
      BY <2>1 DEF Exchange
    <2>10. counter'[CN] <= Cardinality(Confirmed')
      BY <1>0, <1>1, <2>1, <2>8, <2>9
    <2> QED
      BY <2>10
  <1>4. CASE counter'[CN] = 0
    <2>1. 0 <= Cardinality(Confirmed')
      BY <1>1
    <2> QED
      BY <1>4, <2>1
  <1>5. ~WaitAllConn(CN)
    <2>1. WaitAllConn(CN) => pc'[CN] \in {"wait_all", "failed"}
      BY NodeFacts, GotoOwn DEF WaitAllConn
    <2> QED
      BY <2>1
  <1> QED
    BY <1>2, <1>3, <1>4, <1>5, ControlMoves, ControlTurns

-----------------------------------------------------------------------------
(* Exchange is inductive. *)

LEMMA IdleStill ==
  ASSUME Exchange, NEW i \in EN, HostStill(i)
  PROVE  Idle(i)'
  <1>1. pc'[i] = pc[i] /\ \A q \in Listener : Slots(<<i, q>>)' = Slots(<<i, q>>)
    <2>1. \A q \in Listener : <<i, q>> \in Endpoint /\ <<i, q>>[1] = i
      BY ClientLinks
    <2> QED
      BY <2>1 DEF HostStill, Elsewhere, Untouched, Slots
  <1> QED
    BY <1>1, ClientParts DEF Idle

LEMMA HostPartsStep ==
  ASSUME TypeOK, BarrierInv, Exchange, [Next]_vars, NEW h \in Host
  PROVE  /\ Down(h)' /\ KeysWait(h)'
         /\ h \in EN => Up(h)' /\ SlotsOf(h)' /\ Cuts(h)' /\ Idle(h)' /\ TxCount(h)' /\ Rows(h)'
  <1>1. CASE HostAct(h) /\ ControlStill
    <2>1. Quiet(h) \/ Posts(h) \/ Takes(h)
      BY <1>1, ClientEffects, ServerEffects DEF HostAct, ClientEffect, ServerEffect
    <2>2. h \in EN => ClientStep(h)
      BY <1>1, NodeFacts DEF HostAct
    <2> QED
      BY <1>1, <2>1, <2>2, DownByHost, ControlSide, ClientEffects, UpByClient, IdleStep
  <1>2. CASE ControllerStep /\ HostStill(h)
    <2>1. ControlEffect(h)
      BY <1>2, ControlEffects
    <2>2. ControlSends(h) /\ Onward /\ (h \in EN => ControlAsks(h) /\ SlotsOf(h)' /\ Rows(h)')
      BY <2>1 DEF ControlEffect
    <2> QED
      BY <1>2, <2>2, DownByControl, UpByControl, IdleStill DEF ControlSends
  <1>3. CASE Delivery
    <2>1. UNCHANGED nodeVars /\ \E e \in Endpoint : Transmit(e)
      BY <1>3 DEF Delivery
    <2> QED
      BY <2>1, HostDelivered, BooksDelivered
  <1>4. CASE HostStill(h) /\ ControlStill
    BY <1>4, StillHost, ControlSide, IdleStill
  <1> QED
    BY <1>1, <1>2, <1>3, <1>4, Parties DEF BarrierInv

LEMMA DataEndStep ==
  ASSUME TypeOK, BarrierInv, Exchange, [Next]_vars, NEW i \in EN, NEW s \in PN
  PROVE  DataEnd(i, s)'
  BY DataEndMoves, DataEndDelivered DEF Delivery

LEMMA ExchangeStep == TypeOK /\ BarrierInv /\ Exchange /\ [Next]_vars => Exchange'
  <1> SUFFICES ASSUME TypeOK, BarrierInv, Exchange, [Next]_vars
               PROVE  Exchange'
    OBVIOUS
  <1>1. \A p \in Node : pc'[p] # "failed" /\ \A k \in DOMAIN eq'[p] : eq'[p][k].kind # "REFUSED"
    BY NoFailureStep, EventsStep
  <1>2. listening'[CN]
    <2>1. CN \in Listener /\ listening[CN]
      BY NodeFacts DEF Exchange
    <2> QED
      BY <2>1, ListeningStep
  <1>3. ~Gathered' => counter'[CN] <= Cardinality(Ready)'
    BY JoinedStep
  <1>4. pc'[CN] \in {"connect_rx", "checkpoint_rx", "stop_rx"} =>
          counter'[CN] <= Cardinality(Confirmed)'
    BY ReadStep
  <1>5. pc'[CN] \in {"wait_all", "connect_tx", "connect_rx", "start_tx"} => rounds' = 0
    BY RoundsStep
  <1>6. Started' => AllEquipped'
    BY EquippedStep
  <1>7. ~Closed' => \A i \in EN : \A k \in DOMAIN eq'[i] : eq'[i][k].kind = "CONNECTED"
    BY EventsStep, NodeFacts
  <1>8. \A h \in Host : Handshook(h)' /\ Down(h)' /\ KeysWait(h)'
    BY HandshookStep, HostPartsStep
  <1>9. \A s \in PN : ServerEnd(s)'
    BY ServerEndStep
  <1>10. \A i \in EN : /\ Up(i)' /\ SlotsOf(i)' /\ Cuts(i)'
                       /\ Idle(i)' /\ TxCount(i)' /\ Rows(i)'
    BY HostPartsStep, NodeFacts
  <1>11. \A i \in EN, s \in PN : DataEnd(i, s)'
    BY DataEndStep
  <1> QED
    BY <1>1, <1>2, <1>3, <1>4, <1>5, <1>6, <1>7, <1>8, <1>9, <1>10, <1>11 DEF Exchange

LEMMA ExchangeInit == Init => Exchange
  <1> SUFFICES ASSUME Init PROVE Exchange
    OBVIOUS
  <1>0. TypeOK
    BY InitTypes
  <1>1. /\ \A p \in Node : /\ pc[p] = IF p = CN THEN "wait_all"
                                      ELSE IF p \in PN THEN "listen" ELSE "dial"
                           /\ eq[p] = <<>> /\ cqtx[p] = 0
        /\ \A e \in Endpoint : sq[e] = <<>> /\ rq[e] = <<>> /\ rxc[e] = <<>>
        /\ \A l \in Link : link[l] = "closed" /\ remoteKeys[l] = Garbage(l)
        /\ \A q \in Listener : listening[q] = (q = CN) /\ counter[q] = 0
        /\ \A h \in Host : peer[h] = CN
        /\ \A i \in EN : snap[i] = 0
        /\ rounds = 0
    BY DEF Init, FabricInit
  <1>2. /\ pc[CN] = "wait_all" /\ ~Gathered /\ ~Started /\ ~Closed /\ Owed = 0 /\ CN \in Node
        /\ listening[CN] /\ counter[CN] = 0
    BY <1>1, NodeFacts DEF Gathered, Started, Closed, Owed
  <1>3. \A e \in Endpoint : Slots(e) = 0
    BY <1>0, <1>1, NoSlots
  <1>4. DOMAIN <<>> = {} /\ Len(<<>>) = 0
    OBVIOUS
  <1>5. \A h \in Host : pc[h] \in {"listen", "dial"} /\ (h \in PN => pc[h] = "listen")
                        /\ (h \in EN => pc[h] = "dial")
    BY <1>1, NodeFacts
  <1>6. ASSUME NEW h \in Host PROVE Handshook(h) /\ Down(h) /\ KeysWait(h)
    <2>1. /\ link[Cep(h)] = "closed" /\ eq[CN] = <<>> /\ Pending(h)
          /\ sq[<<CN, h>>] = <<>> /\ rxc[Cep(h)] = <<>> /\ rq[Cep(h)] = <<>>
      BY <1>1, <1>2, HostFacts DEF Pending
    <2>2. Got(h) = 0 /\ Sent(h) = 0
      BY <1>2, <1>5, <2>1 DEF Got, Sent
    <2>3. Handshook(h)
      BY <1>2, <1>4, <2>1 DEF Handshook, Handshake
    <2>4. Down(h)
      BY <1>4, <2>1, <2>2 DEF Down
    <2>5. KeysWait(h)
      BY <1>4, <2>1 DEF KeysWait
    <2> QED
      BY <2>3, <2>4, <2>5
  <1>7. ASSUME NEW s \in PN PROVE ServerEnd(s)
    <2>1. /\ s \in Host /\ s \in Node /\ Cep(s) \in Endpoint /\ <<CN, s>> \in Endpoint
          /\ Cep(s) \in Link
      BY NodeFacts, HostFacts
    <2>2. pc[s] = "listen" /\ eq[s] = <<>> /\ link[Cep(s)] = "closed" /\ Slots(Cep(s)) = 0
      BY <1>1, <1>3, <1>5, <2>1
    <2> QED
      BY <1>1, <1>4, <2>1, <2>2 DEF ServerEnd
  <1>8. ASSUME NEW i \in EN
        PROVE  Up(i) /\ SlotsOf(i) /\ Cuts(i) /\ Idle(i) /\ TxCount(i) /\ Rows(i)
    <2>1. /\ i \in Host /\ i \in Node /\ Cep(i) \in Endpoint /\ <<CN, i>> \in Endpoint
          /\ pc[i] = "dial" /\ snap[i] = 0 /\ cqtx[i] = 0
      BY <1>1, <1>5, CepFacts
    <2>2. sq[Cep(i)] = <<>> /\ rq[<<CN, i>>] = <<>> /\ rxc[<<CN, i>>] = <<>> /\ Slots(<<CN, i>>) = 0
      BY <1>1, <1>3, <2>1
    <2>3. Answered(i) = 0 /\ Spent(i) = 0 /\ Asked = 0
      BY <1>1, <1>2, <2>1 DEF Answered, Spent, Asked
    <2>4. Up(i)
      BY <1>2, <1>4, <2>2, <2>3 DEF Up
    <2>5. TxCount(i)
      BY <1>4, <2>2, <2>3 DEF TxCount
    <2>6. SlotsOf(i) /\ Cuts(i) /\ Idle(i) /\ Rows(i)
      BY <1>2, <2>1, <2>2, <2>3 DEF SlotsOf, Cuts, Idle, Rows
    <2> QED
      BY <2>4, <2>5, <2>6
  <1>9. ASSUME NEW i \in EN, NEW s \in PN PROVE DataEnd(i, s)
    <2>1. /\ <<i, s>> \in Endpoint /\ <<s, i>> \in Endpoint /\ <<i, s>> \in Link
      BY DataLink
    <2>2. ~HoldsKey(i, s)
      <3>1. remoteKeys[<<i, s>>] = Garbage(<<i, s>>)
        BY <1>1, <2>1
      <3>2. Garbage(<<i, s>>).kind # KeysOf(<<s, i>>).kind
        BY DEF Garbage, KeysOf
      <3> QED
        BY <3>1, <3>2 DEF HoldsKey
    <2> QED
      BY <1>1, <1>4, <2>1, <2>2 DEF DataEnd
  <1>10. counter[CN] <= Cardinality(Ready)
    <2>1. Cardinality(Ready) \in Nat
      BY HostCount DEF Ready
    <2> QED
      BY <1>2, <2>1
  <1>11. \A p \in Node : pc[p] # "failed" /\ \A k \in DOMAIN eq[p] : eq[p][k].kind # "REFUSED"
    BY <1>1, <1>4
  <1>12. \A i \in EN : \A k \in DOMAIN eq[i] : eq[i][k].kind = "CONNECTED"
    BY <1>1, <1>4, CepFacts
  <1> QED
    BY <1>1, <1>2, <1>6, <1>7, <1>8, <1>9, <1>10, <1>11, <1>12 DEF Exchange

\* The exchange of messages of the whole run, as the invariant has it.
THEOREM ExchangeHolds == Spec => []Exchange
  <1>1. TypeOK /\ BarrierInv /\ Exchange /\ [Next]_vars => Exchange'
    BY ExchangeStep
  <1> QED
    BY <1>1, ExchangeInit, TypesHold, BarrierInvHolds, PTL DEF Spec

-----------------------------------------------------------------------------
(* What the invariant of the exchange says of the run. *)

\* No process ever comes to an error return (connect(), waitAllConn, ctrl_recv).
THEOREM NoErrorHolds == Spec => []NoProtocolError
  <1>1. Exchange => NoProtocolError
    BY DEF Exchange, NoProtocolError
  <1> QED
    BY <1>1, ExchangeHolds, PTL

\* Whose an endpoint is: a client's, a server's towards the controller or towards
\* a client, the controller's towards either.
LEMMA EndpointForms ==
  ASSUME NEW e \in Endpoint
  PROVE  \/ \E i \in EN : e = Cep(i)
         \/ \E i \in EN, s \in PN : e = <<i, s>>
         \/ \E s \in PN : e = Cep(s)
         \/ \E i \in EN : e = <<CN, i>>
         \/ \E s \in PN : e = <<CN, s>>
         \/ \E s \in PN, i \in EN : e = <<s, i>>
  <1>1. CASE e \in Link
    BY <1>1, LinkShape, NodeFacts DEF Cep
  <1>2. CASE e \in Passive
    BY <1>2, PassiveShape, NodeFacts
  <1> QED
    BY <1>1, <1>2 DEF Endpoint

\* Every message is read before the next may come into the same buffer.
LEMMA FewSlots ==
  ASSUME TypeOK, BarrierInv, Exchange, NEW e \in Endpoint
  PROVE  Slots(e) <= 1
  <1>1. CASE \E i \in EN, q \in Listener : e = <<i, q>>
    <2>1. PICK i \in EN, q \in Listener : e = <<i, q>>
      BY <1>1
    <2>2. i \in Node /\ pc[i] # "failed"
      BY CepFacts DEF Exchange
    <2>3. CASE pc[i] = "gone"
      BY <2>1, <2>3, ClientParts DEF Idle
    <2>4. CASE pc[i] # "gone"
      BY <2>1, <2>2, <2>4 DEF BarrierInv, AtMostOneOpen
    <2> QED
      BY <2>3, <2>4
  <1>2. CASE \E s \in PN : e = Cep(s)
    BY <1>2, ServerParts DEF ServerEnd
  <1>3. CASE \E i \in EN : e = <<CN, i>>
    BY <1>3, ClientParts DEF SlotsOf
  <1>4. CASE rq[e] = <<>> /\ rxc[e] = <<>>
    BY <1>4, NoSlots
  <1>5. (\E i \in EN : e = Cep(i)) \/ (\E i \in EN, s \in PN : e = <<i, s>>)
          => \E i \in EN, q \in Listener : e = <<i, q>>
    BY NodeFacts DEF Cep
  <1>6. ASSUME NEW s \in PN, e = <<CN, s>> PROVE rq[e] = <<>> /\ rxc[e] = <<>>
    BY <1>6, ServerParts DEF ServerEnd
  <1>7. ASSUME NEW s \in PN, NEW i \in EN, e = <<s, i>> PROVE rq[e] = <<>> /\ rxc[e] = <<>>
    BY <1>7, ServerParts DEF DataEnd
  <1> QED
    BY <1>1, <1>2, <1>3, <1>4, <1>5, <1>6, <1>7, EndpointForms

LEMMA MessagesFit ==
  ASSUME TypeOK, Exchange, NEW e \in Endpoint, NEW k \in DOMAIN rxc[e]
  PROVE  rxc[e][k].len <= rxc[e][k].size
  <1>0. /\ IntSize <= CtrlSize /\ IntSize <= IntSize /\ KeysSize <= KeysSize
        /\ TransferSize <= TransferSize
    BY TopologyAssumption DEF IntSize, KeysSize, TransferSize
  <1>1. ASSUME NEW h \in Host, e = Cep(h) PROVE rxc[e][k].len <= rxc[e][k].size
    <2>1. rxc[e][k] = [size |-> Expect(h), len |-> LenOf(Script(h, Got(h) + 1))]
      BY <1>1, HostParts DEF Down
    <2>2. Got(h) \in Nat
      BY Numbers
    <2>3. CASE Got(h) = 0
      <3>1. Script(h, Got(h) + 1) = KeysOf(<<CN, h>>) /\ Expect(h) = KeysSize
        <4>1. Got(h) + 1 = 1
          BY <2>3
        <4> QED
          BY <2>3, <4>1, ScriptFacts DEF Expect
      <3>2. LenOf(Script(h, Got(h) + 1)) = KeysSize
        BY <3>1, MessageSizes
      <3> QED
        BY <1>0, <2>1, <3>1, <3>2
    <2>4. CASE Got(h) # 0
      <3>1. Got(h) + 1 # 1
        BY <2>2, <2>4
      <3>2. \E c \in Commands : Script(h, Got(h) + 1) = Command(c, <<CN, h>>)
        BY <3>1 DEF Script, Line, Commands
      <3>3. LenOf(Script(h, Got(h) + 1)) = IntSize
        BY <3>2, MessageSizes
      <3>4. Expect(h) \in {IntSize, CtrlSize}
        BY <2>4 DEF Expect
      <3> QED
        BY <1>0, <2>1, <3>3, <3>4
    <2> QED
      BY <2>3, <2>4
  <1>2. ASSUME NEW i \in EN, e = <<CN, i>> PROVE rxc[e][k].len <= rxc[e][k].size
    <2>1. rxc[e][k] = [size |-> LenOf(Wanted(i)), len |-> LenOf(Wanted(i))]
      BY <1>2, ClientParts DEF Up
    <2>2. \/ Wanted(i) = Command("CONNECTED", Cep(i))
          \/ Wanted(i) = Total(i, rounds)
          \/ Wanted(i) = Delta(i, rounds + 1)
      BY DEF Wanted
    <2>3. LenOf(Wanted(i)) \in {IntSize, TransferSize}
      BY <2>2, MessageSizes DEF Commands
    <2> QED
      BY <1>0, <2>1, <2>3
  <1>3. ASSUME NEW i \in EN, NEW s \in PN, e = <<i, s>>
        PROVE  rxc[e][k].len <= rxc[e][k].size
    <2>1. rxc[e][k] = [size |-> KeysSize, len |-> KeysSize]
      BY <1>3, ServerParts DEF DataEnd
    <2> QED
      BY <1>0, <2>1
  <1>4. rxc[e] # <<>>
    <2>1. \A x : x = <<>> => DOMAIN x = {}
      OBVIOUS
    <2> QED
      BY <2>1
  <1>5. ~ \E s \in PN : e = <<CN, s>>
    BY <1>4, ServerParts DEF ServerEnd
  <1>6. ~ \E s \in PN, i \in EN : e = <<s, i>>
    BY <1>4, ServerParts DEF DataEnd
  <1> QED
    BY <1>1, <1>2, <1>3, <1>5, <1>6, EndpointForms, NodeFacts

\* The control buffer of an endpoint is open to at most one message, which fits,
\* and the controller expects nothing from a server (ctrl_recv, ctrl_buff).
THEOREM BufferHolds == Spec => []BufferExclusive
  <1>1. TypeOK /\ BarrierInv /\ Exchange => BufferExclusive
    <2> SUFFICES ASSUME TypeOK, BarrierInv, Exchange, NEW e \in Endpoint
                 PROVE  /\ Len(rq[e]) + Len(rxc[e]) <= 1
                        /\ e \in HostEps \ ClientEps => rq[e] = <<>> /\ rxc[e] = <<>>
                        /\ \A k \in DOMAIN rxc[e] : rxc[e][k].len <= rxc[e][k].size
      BY DEF BufferExclusive
    <2>1. Len(rq[e]) + Len(rxc[e]) <= 1
      BY FewSlots DEF Slots
    <2>2. e \in HostEps \ ClientEps => rq[e] = <<>> /\ rxc[e] = <<>>
      BY NodeFacts, ServerParts DEF HostEps, ClientEps, ServerEnd
    <2> QED
      BY <2>1, <2>2, MessagesFit
  <1> QED
    BY <1>1, TypesHold, BarrierInvHolds, ExchangeHolds, PTL

\* An array of a client leaves as it was posted: no command comes into its buffer
\* before (benchmark(), ctrl_recv before memcpy and ctrl_send).
THEOREM RepliesHold == Spec => []RepliesIntact
  <1>1. TypeOK /\ Exchange => RepliesIntact
    <2> SUFFICES ASSUME TypeOK, Exchange, NEW i \in EN, NEW k \in DOMAIN sq[Cep(i)],
                        sq[Cep(i)][k].kind \in {"DELTA", "TOTAL"}
                 PROVE  buf[Cep(i)] = sq[Cep(i)][k]
      BY DEF RepliesIntact
    <2>1. sq[Cep(i)][k] = LastAnswer(i) /\ (Answered(i) > 1 => buf[Cep(i)] = LastAnswer(i))
      BY ClientParts DEF Up
    <2>2. snap[i] \in Nat /\ (pc[i] \notin {"bench", "finished", "gone"} => snap[i] = 0)
      BY Numbers, ClientParts DEF Cuts
    <2>3. Answered(i) > 1
      <3>1. CASE pc[i] \in {"finished", "gone"}
        BY <2>2, <3>1 DEF Answered
      <3>2. CASE pc[i] \notin {"finished", "gone"}
        <4>1. Command("CONNECTED", Cep(i)).kind = "CONNECTED"
          BY DEF Command
        <4>2. LastAnswer(i) # Command("CONNECTED", Cep(i))
          BY <2>1, <4>1
        <4>3. snap[i] # 0
          BY <3>2, <4>2 DEF LastAnswer
        <4>4. pc[i] = "bench"
          BY <2>2, <3>2, <4>3
        <4> QED
          BY <2>2, <4>3, <4>4 DEF Answered
      <3> QED
        BY <3>1, <3>2
    <2> QED
      BY <2>1, <2>3
  <1> QED
    BY <1>1, TypesHold, ExchangeHolds, PTL

\* Keys leave as they were posted, but for the id that the first "connect" covers
\* (waitAllConn, then controllerConnect on the same buffer).
THEOREM KeysHold == Spec => []KeysIntact
  <1>1. TypeOK /\ Exchange => KeysIntact
    <2> SUFFICES ASSUME TypeOK, Exchange, NEW e \in Endpoint, NEW k \in DOMAIN sq[e],
                        sq[e][k].kind = "KEYS"
                 PROVE  buf[e] = KeysOf(e) \/ (e \in ClientEps /\ buf[e] = Command("CONNECT", e))
      BY DEF KeysIntact
    <2>1. sq[e] # <<>>
      <3>1. \A x : x = <<>> => DOMAIN x = {}
        OBVIOUS
      <3> QED
        BY <3>1
    <2>2. ASSUME NEW i \in EN, e = Cep(i) PROVE FALSE
      <3>1. sq[e][k] = LastAnswer(i)
        BY <2>2, ClientParts DEF Up
      <3> QED
        BY <3>1 DEF LastAnswer, Command, Delta, Total
    <2>3. ASSUME NEW h \in Host, e = <<CN, h>>
          PROVE  buf[e] = KeysOf(e) \/ (h \in EN /\ buf[e] = Command("CONNECT", e))
      BY <2>3, HostParts DEF KeysWait
    <2>4. ASSUME NEW s \in PN, NEW i \in EN, e = <<s, i>> PROVE buf[e] = KeysOf(e)
      BY <2>1, <2>4, ServerParts DEF DataEnd
    <2>5. ASSUME NEW s \in PN, e = Cep(s) PROVE FALSE
      BY <2>1, <2>5, ServerParts DEF ServerEnd
    <2>6. ASSUME NEW s \in PN, NEW i \in EN, e = <<i, s>> PROVE FALSE
      BY <2>1, <2>6, ServerParts DEF DataEnd
    <2> QED
      BY <2>2, <2>3, <2>4, <2>5, <2>6, EndpointForms, NodeFacts DEF ClientEps
  <1> QED
    BY <1>1, TypesHold, ExchangeHolds, PTL

\* benchmark() finds cq_tx without the completions of the handshake.
THEOREM TxQueueHolds == Spec => []TxQueueClean
  <1>1. TypeOK /\ Exchange => TxQueueClean
    <2> SUFFICES ASSUME TypeOK, Exchange, NEW i \in EN, pc[i] \in {"await_start", "bench"}
                 PROVE  cqtx[i] <= snap[i]
      BY DEF TxQueueClean
    <2> DEFINE n == Len(sq[Cep(i)])
               a == Answered(i)
    <2>1. cqtx[i] \in Nat /\ snap[i] \in Nat /\ n \in Nat /\ a \in Nat
      BY CepFacts, Lengths, Numbers DEF TypeOK, FabricTypeOK
    <2>2. cqtx[i] + 1 + n = a
      BY ClientParts DEF TxCount, Spent
    <2>3. a = 1 \/ a = 1 + snap[i]
      BY DEF Answered
    <2> HIDE DEF n, a
    <2> QED
      BY <2>1, <2>2, <2>3
  <1> QED
    BY <1>1, TypesHold, ExchangeHolds, PTL

\* What the controller writes out has a row of every client, of the same round
\* (controllerCheckpoint, controllerStop).
THEOREM RowsHold == Spec => []RowsComplete
  <1>1. Exchange => RowsComplete
    BY ClientParts DEF RowsComplete, Rows
  <1> QED
    BY <1>1, ExchangeHolds, PTL

-----------------------------------------------------------------------------
(* The exchange implements the abstract session: stage and phase are read off *)
(* the places of the processes, and every step is a step of Session or none.  *)

StageOf(c) == CASE c \in {"confirm_tx", "await_start"} -> "ready"
                [] c = "bench"                       -> "running"
                [] c \in {"finished", "gone"}        -> "ended"
                [] OTHER                             -> "setup"

PhaseOf(c) == CASE c \in {"wait_all", "connect_tx", "connect_rx"} -> "gather"
                [] c \in {"start_tx", "timer"}                   -> "open"
                [] c \in {"checkpoint_tx", "checkpoint_rx"}      -> "round"
                [] OTHER                                         -> "closed"

LEMMA Views ==
  /\ stage = [i \in EN |-> StageOf(pc[i])] /\ stage' = [i \in EN |-> StageOf(pc'[i])]
  /\ phase = PhaseOf(pc[CN]) /\ phase' = PhaseOf(pc'[CN])
  BY DEF stage, phase, StageOf, PhaseOf

LEMMA Stages ==
  ASSUME NEW c \in ClientPC
  PROVE  /\ StageOf(c) = "ready" <=> c \in {"confirm_tx", "await_start"}
         /\ StageOf(c) = "running" <=> c = "bench"
         /\ StageOf(c) = "ended" <=> c \in {"finished", "gone"}
         /\ StageOf(c) \in {"setup", "ready", "running", "ended"}
  BY DEF StageOf

LEMMA Phases ==
  ASSUME NEW c \in ControllerPC
  PROVE  /\ PhaseOf(c) = "gather" <=> c \in {"wait_all", "connect_tx", "connect_rx"}
         /\ PhaseOf(c) = "open" <=> c \in {"start_tx", "timer"}
         /\ PhaseOf(c) = "round" <=> c \in {"checkpoint_tx", "checkpoint_rx"}
         /\ PhaseOf(c) \in {"gather", "open", "round", "closed"}
  BY DEF PhaseOf

\* A client that moves changes its own stage only.
LEMMA StageMove ==
  ASSUME NEW i \in EN, \A j \in EN : j # i => pc'[j] = pc[j]
  PROVE  stage' = [stage EXCEPT ![i] = StageOf(pc'[i])]
  BY Views

LEMMA StagesKept ==
  ASSUME \A j \in EN : pc'[j] = pc[j]
  PROVE  stage' = stage
  BY Views

\* The books of a client that is asked for more than it has cut: it is asked by
\* the round that is open, and has cut in every round before.
LEMMA CutsInRound ==
  ASSUME TypeOK, Exchange, NEW i \in EN, pc[i] = "bench", snap[i] < Asked
  PROVE  pc[CN] \in {"checkpoint_tx", "checkpoint_rx"} /\ snap[i] = rounds
  <1> DEFINE r == Len(rq[<<CN, i>>])
             x == Len(rxc[<<CN, i>>])
             n == Len(sq[Cep(i)])
             o == Owed
             a == Asked
             z == Slots(<<CN, i>>)
  <1>1. r \in Nat /\ x \in Nat /\ n \in Nat /\ z = r + x
    BY CepFacts, Lengths DEF Slots
  <1>2. o \in Nat /\ a \in Nat /\ snap[i] \in Nat /\ rounds \in Nat
    BY Numbers
  <1>3. r + (1 + snap[i]) = o + n
    <2>1. Answered(i) = 1 + snap[i]
      BY DEF Answered
    <2> QED
      BY <2>1, ClientParts DEF Up
  <1>4. z <= 1 /\ (pc[CN] \in {"start_tx", "timer"} => z = 0)
    BY ClientParts DEF SlotsOf
  <1>5. Started
    <2>1. Got(i) = 3 + snap[i] /\ i \notin PN
      BY NodeFacts DEF Got
    <2> DEFINE t == Sent(i)
    <2>2. t \in Nat /\ 3 + snap[i] <= t /\ (~Gathered => t <= 1) /\ (Gathered /\ ~Started => t = 2)
      BY <2>1, GotAll, OwedBySent, Numbers, NodeFacts
    <2> HIDE DEF t
    <2> QED
      BY <1>2, <2>2
  <1>6. IF Closed THEN o = 2 + a ELSE o = 1 + a
    BY <1>5 DEF Owed, Started, Gathered
  <1>7. snap[i] < a
    OBVIOUS
  <1>8. a = IF pc[CN] \in {"checkpoint_tx", "checkpoint_rx"} THEN rounds + 1 ELSE rounds
    BY DEF Asked
  <1>9. pc[CN] \in ControllerPC
    BY DEF TypeOK, PcTypeOK
  <1> HIDE DEF r, x, n, o, a, z
  <1>10. ~Closed
    BY <1>1, <1>2, <1>3, <1>4, <1>6, <1>7
  <1>11. z # 0
    BY <1>1, <1>2, <1>3, <1>6, <1>7, <1>10
  <1>12. pc[CN] \in {"checkpoint_tx", "checkpoint_rx"}
    BY <1>4, <1>5, <1>9, <1>10, <1>11, CepFacts DEF Exchange, ControllerPC, Started, Closed
  <1>13. snap[i] = rounds
    BY <1>1, <1>2, <1>3, <1>4, <1>6, <1>7, <1>8, <1>10, <1>12
  <1> QED
    BY <1>12, <1>13

\* Who answered everything that was asked: nobody is ahead of the controller.
LEMMA AllAnswered ==
  ASSUME TypeOK, Exchange, NEW i \in EN, pc[CN] \in {"connect_rx", "checkpoint_rx"},
         counter[CN] = NumEN
  PROVE  /\ pc[CN] = "connect_rx" => pc[i] \in {"confirm_tx", "await_start"}
         /\ pc[CN] = "checkpoint_rx" => snap[i] = rounds + 1
  <1> DEFINE a == Answered(i)
             o == Owed
             n == Len(sq[Cep(i)])
  <1>1. a \in Nat /\ o \in Nat /\ n \in Nat /\ snap[i] \in Nat /\ rounds \in Nat
    BY CepFacts, Lengths, Numbers
  <1>2. a = o + n
    <2> DEFINE r == Len(rq[<<CN, i>>])
    <2>1. r = 0
      BY AllRead, CepFacts, Lengths
    <2>2. r + a = o + n
      BY ClientParts DEF Up
    <2> HIDE DEF r, a, o, n
    <2> QED
      BY <1>1, <2>1, <2>2
  <1>3. Gathered /\ ~Closed
    BY DEF Gathered, Closed
  <1>4. pc[i] \notin {"finished", "gone"}
    BY <1>3, ClientParts DEF Cuts
  <1>5. pc[CN] = "connect_rx" => o = 1 /\ pc[i] # "bench"
    <2> SUFFICES ASSUME pc[CN] = "connect_rx" PROVE o = 1 /\ pc[i] # "bench"
      OBVIOUS
    <2> DEFINE g == Got(i)
               t == Sent(i)
    <2>1. ~Started /\ o = 1 /\ t = 2 /\ g <= t /\ g \in Nat
      BY <1>3, GotAll, OwedBySent, Numbers, NodeFacts DEF Started
    <2>2. pc[i] = "bench" => g = 3 + snap[i]
      BY NodeFacts DEF Got
    <2> HIDE DEF g, t, o
    <2> QED
      BY <1>1, <2>1, <2>2
  <1>6. pc[CN] = "checkpoint_rx" => o = rounds + 2 /\ snap[i] <= rounds + 1
    BY <1>1, <1>3, ClientParts DEF Cuts, Asked, Owed, Started
  <1>7. a = IF pc[i] \in {"confirm_tx", "await_start"} THEN 1
            ELSE IF pc[i] = "bench" THEN 1 + snap[i] ELSE 0
    BY <1>4 DEF Answered
  <1> HIDE DEF a, o, n
  <1> QED
    BY <1>1, <1>2, <1>5, <1>6, <1>7

LEMMA SessionInit == Init => S!Init
  <1> SUFFICES ASSUME Init PROVE S!Init
    OBVIOUS
  <1>1. \A i \in EN : StageOf(pc[i]) = "setup"
    BY NodeFacts DEF Init, StageOf
  <1>2. PhaseOf(pc[CN]) = "gather"
    BY NodeFacts DEF Init, PhaseOf
  <1>3. snap = [i \in EN |-> 0] /\ rounds = 0
    BY DEF Init
  <1> QED
    BY <1>1, <1>2, <1>3, Views DEF S!Init

SessionStep == S!Next \/ UNCHANGED S!sessionVars

LEMMA SessionClient ==
  ASSUME TypeOK, BarrierInv, Exchange, NEW i \in EN, ClientStep(i)
  PROVE  SessionStep
  <1>1. (\A j \in EN : j # i => pc'[j] = pc[j]) /\ pc'[CN] = pc[CN] /\ i \in Node
    BY ClientOwn, CepFacts, NodeFacts DEF OnlyItsOwn
  <1>2. stage' = [stage EXCEPT ![i] = StageOf(pc'[i])] /\ stage[i] = StageOf(pc[i])
    BY <1>1, StageMove, Views
  <1>3. phase' = phase /\ rounds' = rounds
    BY <1>1, Views, ClientBooks DEF BooksKept
  <1>4. pc[i] \in ClientPC /\ pc[CN] \in ControllerPC /\ pc[CN] # "failed"
    BY CepFacts DEF TypeOK, PcTypeOK, Exchange
  <1>5. CASE BenchCommand(i)
    <2>1. pc[i] = "bench" /\ (BenchCut(i) \/ BenchEnd(i))
      BY <1>5, BenchReads
    <2>2. stage[i] = "running"
      BY <1>2, <2>1 DEF StageOf
    <2>3. CASE BenchCut(i)
      <3>1. phase = "round" /\ snap[i] = rounds
        BY <2>1, <2>3, CutsInRound, Views DEF BenchCut, PhaseOf
      <3>2. snap' = [snap EXCEPT ![i] = snap[i] + 1] /\ pc'[i] = "bench"
        BY <1>1, <2>3, GotoOwn DEF BenchCut
      <3>3. stage' = stage
        BY <1>1, <2>1, <3>2, StagesKept
      <3>4. S!Cut(i)
        BY <1>3, <2>2, <3>1, <3>2, <3>3 DEF S!Cut
      <3> QED
        BY <3>4 DEF SessionStep, S!Next
    <2>4. CASE BenchEnd(i)
      <3>1. phase = "closed"
        BY <2>4, Views DEF BenchEnd, Closed, PhaseOf
      <3>2. snap' = snap /\ pc'[i] = "finished"
        BY <1>1, <2>4, GotoOwn DEF BenchEnd, TypeOK
      <3>3. StageOf(pc'[i]) = "ended"
        BY <3>2 DEF StageOf
      <3>4. S!End(i)
        BY <1>2, <1>3, <2>2, <3>1, <3>2, <3>3 DEF S!End, S!Advance
      <3> QED
        BY <3>4 DEF SessionStep, S!Next
    <2> QED
      BY <2>1, <2>3, <2>4
  <1>6. CASE RecvStart(i)
    <2>1. pc[i] = "await_start" /\ Sent(i) > 2 /\ pc'[i] = "bench"
      BY <1>1, <1>6, StartReads, GotoOwn
    <2>2. Started
      <3> DEFINE t == Sent(i)
      <3>1. t \in Nat /\ t > 2 /\ (~Gathered => t <= 1) /\ (Gathered /\ ~Started => t = 2)
        BY <2>1, OwedBySent, Numbers, CepFacts
      <3> HIDE DEF t
      <3> QED
        BY <3>1
    <2>3. phase # "gather"
      BY <1>4, <2>2, Phases, Views DEF Started
    <2>4. snap' = snap
      BY <1>6 DEF RecvStart
    <2>5. stage[i] = "ready" /\ StageOf(pc'[i]) = "running"
      BY <1>2, <2>1 DEF StageOf
    <2>6. S!Begin(i)
      BY <1>2, <1>3, <2>3, <2>4, <2>5 DEF S!Begin, S!Advance
    <2> QED
      BY <2>6 DEF SessionStep, S!Next
  <1>7. CASE ~BenchCommand(i) /\ ~RecvStart(i)
    <2>1. /\ snap' = snap /\ pc[i] \notin {"await_start", "bench"}
      BY <1>7 DEF ClientStep, HostStep, HostDial, ConnectEvent, ConnectKeys, Exit,
                  AwaitConnect, RecvConnect, DialNext, Confirm, ConfirmSent
    <2>2. pc[i] # "failed"
      BY <1>1 DEF Exchange
    <2>3. \/ stage[i] = "setup" /\ StageOf(pc'[i]) = "ready"
          \/ StageOf(pc'[i]) = stage[i]
      BY <1>2, <2>1, <2>2, ClientMoves DEF StageOf
    <2>4. CASE stage[i] = "setup" /\ StageOf(pc'[i]) = "ready"
      <3>1. S!Ready(i)
        BY <1>2, <1>3, <2>1, <2>4 DEF S!Ready, S!Advance
      <3> QED
        BY <3>1 DEF SessionStep, S!Next
    <2>5. CASE StageOf(pc'[i]) = stage[i]
      <3>1. stage' = stage
        BY <1>2, <2>5, Views
      <3> QED
        BY <1>3, <2>1, <3>1 DEF SessionStep, S!sessionVars
    <2> QED
      BY <2>3, <2>4, <2>5
  <1> QED
    BY <1>5, <1>6, <1>7

LEMMA SessionController ==
  ASSUME TypeOK, BarrierInv, Exchange, ControllerStep
  PROVE  SessionStep
  <1>1. snap' = snap
    BY ControllerBooks
  <1>2. stage' = stage
    BY ControllerOwn, StagesKept, CepFacts DEF OnlyItsOwn, BarrierInv
  <1>3. CN \in Node /\ pc[CN] \in ControllerPC /\ pc[CN] # "failed"
    BY NodeFacts DEF TypeOK, PcTypeOK, Exchange
  <1>4. CASE ControllerStart
    <2>1. \A i \in EN : stage[i] = "ready"
      BY <1>4, AllAnswered, Views DEF ControllerStart, StageOf
    <2>2. pc[CN] = "connect_rx" /\ pc'[CN] = "start_tx" /\ rounds' = rounds
      BY <1>3, <1>4, GotoOwn DEF ControllerStart
    <2>3. phase = "gather" /\ phase' = "open"
      BY <2>2, Views DEF PhaseOf
    <2>4. S!Release
      BY <1>1, <1>2, <2>1, <2>2, <2>3 DEF S!Release, S!Move
    <2> QED
      BY <2>4 DEF SessionStep, S!Next
  <1>5. CASE ControllerCheckpoint
    <2>1. pc[CN] = "timer" /\ pc'[CN] = "checkpoint_tx" /\ rounds' = rounds
      BY <1>3, <1>5, GotoOwn DEF ControllerCheckpoint
    <2>2. phase = "open" /\ phase' = "round"
      BY <2>1, Views DEF PhaseOf
    <2>3. S!OpenRound
      BY <1>1, <1>2, <2>1, <2>2 DEF S!OpenRound, S!Move
    <2> QED
      BY <2>3 DEF SessionStep, S!Next
  <1>6. CASE CheckpointDone
    <2>1. \A i \in EN : snap[i] = rounds + 1
      BY <1>6, AllAnswered DEF CheckpointDone
    <2>2. pc[CN] = "checkpoint_rx" /\ pc'[CN] = "timer" /\ rounds' = rounds + 1
      BY <1>3, <1>6, GotoOwn DEF CheckpointDone
    <2>3. phase = "round" /\ phase' = "open"
      BY <2>2, Views DEF PhaseOf
    <2>4. S!CloseRound
      BY <1>1, <1>2, <2>1, <2>2, <2>3 DEF S!CloseRound, S!Move
    <2> QED
      BY <2>4 DEF SessionStep, S!Next
  <1>7. CASE ControllerStop
    <2>1. pc[CN] = "timer" /\ pc'[CN] = "stop_tx" /\ rounds' = rounds
      BY <1>3, <1>7, GotoOwn DEF ControllerStop
    <2>2. phase = "open" /\ phase' = "closed"
      BY <2>1, Views DEF PhaseOf
    <2>3. S!Close
      BY <1>1, <1>2, <2>1, <2>2 DEF S!Close, S!Move
    <2> QED
      BY <2>3 DEF SessionStep, S!Next
  <1>8. ASSUME rounds' = rounds, PhaseOf(pc'[CN]) = PhaseOf(pc[CN])
        PROVE  SessionStep
    <2>1. phase' = phase
      BY <1>8, Views
    <2> QED
      BY <1>1, <1>2, <1>8, <2>1 DEF SessionStep, S!sessionVars
  <1>9. CASE WaitAllConn(CN)
    <2>1. pc[CN] = "wait_all" /\ pc'[CN] = "wait_all" /\ rounds' = rounds
      BY <1>3, <1>9, GotoOwn, EventsGood DEF WaitAllConn
    <2> QED
      BY <1>8, <2>1
  <1>10. CASE ControllerConnect
    <2>1. pc[CN] = "wait_all" /\ pc'[CN] = "connect_tx" /\ rounds' = rounds
      BY <1>3, <1>10, GotoOwn DEF ControllerConnect
    <2> QED
      BY <1>8, <2>1 DEF PhaseOf
  <1>11. CASE ConnectSent \/ StartSent \/ CheckpointSent \/ StopSent
    <2>1. /\ rounds' = rounds
          /\ \/ pc[CN] = "connect_tx" /\ pc'[CN] = "connect_rx"
             \/ pc[CN] = "start_tx" /\ pc'[CN] = "timer"
             \/ pc[CN] = "checkpoint_tx" /\ pc'[CN] = "checkpoint_rx"
             \/ pc[CN] = "stop_tx" /\ pc'[CN] = "stop_rx"
      BY <1>3, <1>11, GotoOwn DEF ConnectSent, StartSent, CheckpointSent, StopSent, CommandsSent
    <2> QED
      BY <1>8, <2>1 DEF PhaseOf
  <1>12. CASE CollectConfirm \/ CollectCheckpoint \/ CollectSummary
    <2>1. pc'[CN] = pc[CN] /\ rounds' = rounds
      BY <1>12, CollectFacts DEF CollectConfirm, CollectCheckpoint, CollectSummary
    <2> QED
      BY <1>8, <2>1
  <1>13. CASE SummaryDone
    <2>1. pc[CN] = "stop_rx" /\ pc'[CN] = "stop_cm" /\ rounds' = rounds
      BY <1>3, <1>13, GotoOwn DEF SummaryDone
    <2> QED
      BY <1>8, <2>1 DEF PhaseOf
  <1>14. CASE AwaitShutdown
    <2>1. pc[CN] = "stop_cm" /\ pc'[CN] = "stop_cm" /\ rounds' = rounds
      BY <1>3, <1>14, GotoOwn, EventsGood DEF AwaitShutdown
    <2> QED
      BY <1>8, <2>1
  <1>15. CASE ControllerDone \/ Exit(CN)
    <2>1. /\ rounds' = rounds
          /\ \/ pc[CN] = "stop_cm" /\ pc'[CN] = "finished"
             \/ pc[CN] = "finished" /\ pc'[CN] = "gone"
      BY <1>3, <1>15, GotoOwn DEF ControllerDone, Exit
    <2> QED
      BY <1>8, <2>1 DEF PhaseOf
  <1> QED
    BY <1>4, <1>5, <1>6, <1>7, <1>9, <1>10, <1>11, <1>12, <1>13, <1>14, <1>15 DEF ControllerStep

\* Servers, the network and standing still leave the session as it is.
LEMMA SessionQuiet ==
  ASSUME TypeOK, BarrierInv, Exchange, (\E s \in PN : ServerStep(s)) \/ NetworkStep \/ UNCHANGED vars
  PROVE  SessionStep
  <1>1. CASE \E s \in PN : ServerStep(s)
    <2>1. PICK s \in PN : ServerStep(s)
      BY <1>1
    <2>2. (\A j \in EN : pc'[j] = pc[j]) /\ pc'[CN] = pc[CN]
      BY <2>1, ServerOwn, CepFacts, NodeFacts DEF OnlyItsOwn, BarrierInv
    <2>3. stage' = stage /\ phase' = phase /\ snap' = snap /\ rounds' = rounds
      BY <2>1, <2>2, StagesKept, Views, ServerBooks DEF BooksKept
    <2> QED
      BY <2>3 DEF SessionStep, S!sessionVars
  <1>2. CASE NetworkStep \/ UNCHANGED vars
    <2>1. pc' = pc /\ snap' = snap /\ rounds' = rounds
      BY <1>2 DEF NetworkStep, nodeVars, vars
    <2>2. stage' = stage /\ phase' = phase
      BY <2>1, StagesKept, Views
    <2> QED
      BY <2>1, <2>2 DEF SessionStep, S!sessionVars
  <1> QED
    BY <1>1, <1>2

\* The control protocol implements the abstract session: no client writes before
\* all are ready, one cut of every client and round, no end before the stop
\* (controllerConnect, controllerStart, controllerCheckpoint, controllerStop).
THEOREM SessionHolds == Spec => ImplementsSession
  <1>1. TypeOK /\ BarrierInv /\ Exchange /\ [Next]_vars => [S!Next]_(S!sessionVars)
    BY SessionClient, SessionController, SessionQuiet DEF Next, SessionStep
  <1> QED
    BY <1>1, SessionInit, TypesHold, BarrierInvHolds, ExchangeHolds, PTL
    DEF Spec, ImplementsSession, S!Spec

=============================================================================
