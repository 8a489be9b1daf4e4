--------------------------- MODULE TransfersProofs ---------------------------
(***************************************************************************)
(* Proofs about the benchmark loop, for any number of servers, any id of   *)
(* the client, any depth of the pipeline and any number of checkpoints.    *)
(***************************************************************************)
EXTENDS Transfers, TLAPS

-----------------------------------------------------------------------------
(* The inductive invariant. *)

\* Before the first writes nothing has happened.
BeforeFill ==
  pc = "fill" => /\ flying = Zero /\ landed = Zero /\ failed = Zero /\ lost = Zero
                 /\ ~answering /\ answered = 0 /\ spoiled = 0 /\ replies = 0
                 /\ queuesize = QueueSize

\* No command is left once "stop" has been taken, and counts only grow.
Reports ==
  /\ stop => command = "none"
  /\ \A j \in Server : temp[j] <= transfer[j]

\* Every answer there is has been asked for.
Asked ==
  replies + answered + spoiled + (IF answering THEN 1 ELSE 0)
    <= cuts + (IF stop THEN 1 ELSE 0)

IInv == /\ TypeOK /\ BeforeFill /\ Reports /\ Asked
        /\ Pipeline /\ NeverRunsDry
        /\ CountsExplained /\ DeltasAddUp /\ ReportsWithin

\* The loop starts in a state of the invariant.
LEMMA InitIInv == Init => IInv
  <1> SUFFICES ASSUME Init PROVE IInv
    OBVIOUS
  <1> USE TransfersAssumption DEF Init
  <1>1. TypeOK
    <2>1. stop \in BOOLEAN /\ answering \in BOOLEAN /\ orphan \in BOOLEAN
      BY Zenon
    <2>2. broken \in SUBSET Server
      BY Zenon
    <2>3. id \in Nat
      OBVIOUS
    <2> QED
      BY <2>1, <2>2, <2>3 DEF TypeOK, Counts, Zero, Server
  <1>2. BeforeFill /\ Pipeline /\ NeverRunsDry /\ Asked
    BY DEF BeforeFill, Pipeline, NeverRunsDry, Asked
  <1>3. Reports
    BY DEF Reports, Zero
  <1>4. CountsExplained
    BY DEF CountsExplained, Miscounted, Zero
  <1>5. DeltasAddUp /\ ReportsWithin
    BY DEF DeltasAddUp, ReportsWithin, Zero
  <1> QED
    BY <1>1, <1>2, <1>3, <1>4, <1>5 DEF IInv

\* A post adds one to what is in flight or to what is lost; to a server that is
\* still there it is taken while there is room.
LEMMA RdmaWriteEffect ==
  ASSUME TypeOK, landed' \in Counts, NEW j \in Server, RdmaWrite(j)
  PROVE  /\ flying' \in Counts /\ lost' \in Counts
         /\ \A k \in Server : k # j => flying'[k] = flying[k] /\ lost'[k] = lost[k]
         /\ flying'[j] + lost'[j] = flying[j] + lost[j] + 1
         /\ j \notin broken =>
              flying'[j] = IF flying[j] + landed'[j] < Depth THEN flying[j] + 1
                           ELSE flying[j]
  <1> USE TransfersAssumption
  <1>1. flying \in Counts /\ lost \in Counts
    BY DEF TypeOK
  <1>2. CASE /\ j \in broken \/ flying[j] + landed'[j] < Depth
             /\ flying' = [flying EXCEPT ![j] = @ + 1]
             /\ UNCHANGED lost
    BY <1>1, <1>2 DEF Counts
  <1>3. CASE /\ j \in broken \/ flying[j] + landed'[j] >= Depth
             /\ lost' = [lost EXCEPT ![j] = @ + 1]
             /\ UNCHANGED flying
    BY <1>1, <1>3 DEF Counts
  <1> QED
    BY <1>2, <1>3 DEF RdmaWrite

\* Counting a completion for j and posting another write to j.
LEMMA CountAndRefillEffect ==
  ASSUME TypeOK, landed' \in Counts, NEW j, CountAndRefill(j), pc = "tx"
  PROVE  /\ transfer' \in Counts /\ flying' \in Counts /\ lost' \in Counts
         /\ queuesize' \in Nat
         /\ pc' \in {"rx", "done", "crashed"}
         /\ \A k \in Server :
              /\ transfer'[k] = transfer[k] + (IF k = j THEN 1 ELSE 0)
              /\ flying'[k] + lost'[k] = flying[k] + lost[k] + (IF k = j THEN 1 ELSE 0)
              /\ k \notin broken =>
                   flying'[k] = IF k = j /\ flying[k] + landed'[k] < Depth
                                THEN flying[k] + 1 ELSE flying[k]
         /\ pc' = "crashed" => j \notin Server
  <1>1. /\ transfer \in Counts /\ flying \in Counts /\ lost \in Counts
        /\ queuesize \in Nat
    BY DEF TypeOK
  <1>2. CASE j \in Server
    <2>1. /\ transfer' = [transfer EXCEPT ![j] = @ + 1]
          /\ queuesize' = queuesize + 1
          /\ RdmaWrite(j)
          /\ pc' \in {"rx", "done"}
      BY <1>2 DEF CountAndRefill, LoopEnd
    <2>2. /\ flying' \in Counts /\ lost' \in Counts
          /\ \A k \in Server : k # j => flying'[k] = flying[k] /\ lost'[k] = lost[k]
          /\ flying'[j] + lost'[j] = flying[j] + lost[j] + 1
          /\ j \notin broken =>
               flying'[j] = IF flying[j] + landed'[j] < Depth THEN flying[j] + 1
                            ELSE flying[j]
      BY <1>2, <2>1, RdmaWriteEffect
    <2>3. transfer' \in Counts /\ queuesize' \in Nat
      <3>1. transfer[j] + 1 \in Nat
        BY <1>1, <1>2 DEF Counts
      <3>2. transfer' \in Counts
        BY <1>1, <2>1, <3>1 DEF Counts
      <3>3. queuesize' \in Nat
        BY <1>1, <2>1
      <3> QED
        BY <3>2, <3>3
    <2>4. ASSUME NEW k \in Server
          PROVE  /\ transfer'[k] = transfer[k] + (IF k = j THEN 1 ELSE 0)
                 /\ flying'[k] + lost'[k]
                      = flying[k] + lost[k] + (IF k = j THEN 1 ELSE 0)
                 /\ k \notin broken =>
                      flying'[k] = IF k = j /\ flying[k] + landed'[k] < Depth
                                   THEN flying[k] + 1 ELSE flying[k]
      <3>1. flying[k] \in Nat /\ lost[k] \in Nat /\ transfer[k] \in Nat
        BY <1>1 DEF Counts
      <3>2. CASE k = j
        BY <1>1, <2>1, <2>2, <3>1, <3>2 DEF Counts
      <3>3. CASE k # j
        BY <1>1, <2>1, <2>2, <3>1, <3>3 DEF Counts
      <3> QED
        BY <3>2, <3>3
    <2> QED
      BY <1>2, <2>1, <2>2, <2>3, <2>4
  <1>3. CASE j \notin Server
    BY <1>1, <1>3 DEF CountAndRefill, Counts
  <1> QED
    BY <1>2, <1>3

\* Nothing a property speaks of is touched but pc.
LEMMA QuietIInv ==
  ASSUME IInv,
         UNCHANGED <<stop, transfer, temp, delta, queuesize, flying, landed, failed,
                     answering, answered, spoiled, command, history, id>>,
         broken \subseteq broken', broken' \subseteq Server, orphan' \in BOOLEAN,
         pc' \in {"fill", "rx", "tx", "done", "failed", "crashed"},
         pc' = "fill" <=> pc = "fill", pc' = "crashed" => pc = "crashed"
  PROVE  IInv'
  <1> USE DEF IInv, history
  <1>1. TypeOK'
    BY DEF TypeOK, Counts
  <1>2. (BeforeFill /\ Reports /\ Asked /\ ReportsWithin)'
    BY DEF BeforeFill, Reports, Asked, ReportsWithin
  <1>3. (Pipeline /\ NeverRunsDry /\ CountsExplained /\ DeltasAddUp)'
    BY DEF Pipeline, NeverRunsDry, CountsExplained, DeltasAddUp, Miscounted
  <1> QED
    BY <1>1, <1>2, <1>3

LEMMA FillIInv == ASSUME IInv, Fill PROVE IInv'
  <1> USE TransfersAssumption DEF IInv
  <1>1. PICK n \in [Server -> 0 .. queuesize] :
          /\ \A j \in Server \ broken : n[j] = Least(queuesize, Depth)
          /\ flying' = n
          /\ lost' = [j \in Server |-> queuesize - n[j]]
    BY DEF Fill
  <1>2. /\ pc = "fill" /\ pc' = "rx"
        /\ UNCHANGED <<stop, transfer, temp, delta, queuesize, landed, failed,
                       answering, answered, spoiled, command, id, broken, orphan,
                       written, replies, cuts, reported>>
    BY DEF Fill, linkVars
  <1>3. queuesize \in Nat /\ queuesize = QueueSize
    BY <1>2 DEF TypeOK, BeforeFill
  <1>4. lost' \in Counts /\ flying' \in Counts
    BY <1>1, <1>3 DEF Counts
  <1>5. TypeOK'
    BY <1>2, <1>4 DEF TypeOK, Counts
  <1>6. (BeforeFill /\ Reports /\ Asked /\ ReportsWithin /\ CountsExplained /\ DeltasAddUp)'
    BY <1>2 DEF BeforeFill, Reports, Asked, ReportsWithin, CountsExplained, DeltasAddUp,
                Miscounted
  <1>7. (Pipeline /\ NeverRunsDry)'
    BY <1>1, <1>2, <1>3, <1>4 DEF BeforeFill, Pipeline, NeverRunsDry, Miscounted, Zero,
                                  Counts
  <1> QED
    BY <1>5, <1>6, <1>7

LEMMA TakeCheckpointIInv == ASSUME IInv, TakeCheckpoint PROVE IInv'
  <1> USE TransfersAssumption DEF IInv
  <1>1. /\ delta' = [j \in Server |-> transfer[j] - temp[j]]
        /\ temp' = transfer /\ cuts' = cuts + 1
        /\ reported' = PlusEach(reported, delta')
        /\ command' = "none" /\ command = "checkpoint" /\ pc = "rx"
        /\ UNCHANGED <<stop, transfer, queuesize, flying, landed, failed, answered,
                       spoiled, id, broken, orphan, written, replies, lost>>
    BY DEF TakeCheckpoint, Answer, linkVars
  <1>2. pc' \in {"tx", "failed"} /\ answering' \in BOOLEAN
    BY DEF TakeCheckpoint, Answer, TypeOK
  <1>3. TypeOK'
    BY <1>1, <1>2 DEF TypeOK, Counts, PlusEach
  <1>4. (BeforeFill /\ Pipeline /\ NeverRunsDry /\ CountsExplained)'
    BY <1>1, <1>2 DEF BeforeFill, Pipeline, NeverRunsDry, CountsExplained, Miscounted
  <1>5. Reports'
    BY <1>1 DEF Reports, TypeOK, Counts
  <1>6. temp' = reported'
    <2>1. \A j \in Server : reported'[j] = transfer[j]
      BY <1>1 DEF PlusEach, DeltasAddUp, TypeOK, Counts
    <2> QED
      BY <1>1, <2>1, <1>3 DEF PlusEach, TypeOK, Counts
  <1>7. ~stop'
    BY <1>1 DEF Reports
  <1>8. Asked'
    BY <1>1, <1>2 DEF Asked, TypeOK
  <1>9. ReportsWithin'
    <2>1. replies <= cuts /\ cuts' > 0 /\ cuts' - 1 = cuts
      BY <1>1 DEF Asked, Reports, TypeOK
    <2>2. ASSUME NEW j \in Server
          PROVE  reported'[j] <= written[j] + (IF j = id THEN cuts ELSE 0)
      <3>1. reported'[j] = written[j] + Miscounted(j) /\ written[j] \in Nat
        BY <1>1, <1>6 DEF CountsExplained, TypeOK, Counts
      <3> QED
        BY <2>1, <3>1 DEF Miscounted, TypeOK
    <2> QED
      BY <1>1, <1>2, <1>7, <2>1, <2>2 DEF ReportsWithin
  <1> QED
    BY <1>3, <1>4, <1>5, <1>6, <1>7, <1>8, <1>9 DEF DeltasAddUp

LEMMA TakeStopIInv == ASSUME IInv, TakeStop PROVE IInv'
  <1> USE TransfersAssumption DEF IInv
  <1>1. /\ delta' = transfer /\ stop' = TRUE
        /\ command' = "none" /\ pc = "rx"
        /\ UNCHANGED <<transfer, temp, queuesize, flying, landed, failed, answered,
                       spoiled, id, broken, orphan, written, replies, cuts, reported, lost>>
    BY DEF TakeStop, Answer, linkVars, history
  <1>2. pc' \in {"tx", "failed"} /\ answering' \in BOOLEAN
    BY DEF TakeStop, Answer, TypeOK
  <1>3. TypeOK'
    BY <1>1, <1>2 DEF TypeOK, Counts
  <1>4. (BeforeFill /\ Pipeline /\ NeverRunsDry /\ CountsExplained)'
    BY <1>1, <1>2 DEF BeforeFill, Pipeline, NeverRunsDry, CountsExplained, Miscounted
  <1>5. (Reports /\ DeltasAddUp)'
    BY <1>1 DEF Reports, DeltasAddUp
  <1>6. ~stop
    BY DEF Reports, TakeStop
  <1>7. Asked'
    BY <1>1, <1>2, <1>6 DEF Asked, TypeOK
  <1>8. ReportsWithin'
    <2>1. replies <= cuts
      BY <1>6 DEF Asked, TypeOK
    <2>2. ASSUME NEW j \in Server
          PROVE  delta'[j] <= written[j] + (IF j = id THEN cuts ELSE 0)
      <3>1. delta'[j] = written[j] + Miscounted(j) /\ written[j] \in Nat
        BY <1>1 DEF CountsExplained, TypeOK, Counts
      <3> QED
        BY <2>1, <3>1 DEF Miscounted, TypeOK
    <2> QED
      BY <1>1, <1>2, <2>2 DEF ReportsWithin
  <1> QED
    BY <1>3, <1>4, <1>5, <1>7, <1>8

LEMMA ReapWriteIInv == ASSUME IInv, ReapWrite PROVE IInv'
  <1> USE TransfersAssumption DEF IInv
  <1>1. PICK j \in Server : /\ landed[j] > 0
                            /\ landed' = [landed EXCEPT ![j] = @ - 1]
                            /\ written' = [written EXCEPT ![j] = @ + 1]
                            /\ CountAndRefill(j)
    BY DEF ReapWrite
  <1>2. /\ pc = "tx"
        /\ UNCHANGED <<stop, temp, delta, failed, answering, answered, spoiled,
                       command, id, broken, orphan, replies, cuts, reported>>
    BY DEF ReapWrite, linkVars
  <1>3. written' \in Counts /\ landed' \in Counts
    BY <1>1 DEF TypeOK, Counts
  <1>4. /\ transfer' \in Counts /\ flying' \in Counts /\ lost' \in Counts
        /\ queuesize' \in Nat
        /\ pc' \in {"rx", "done"}
        /\ \A k \in Server :
             /\ transfer'[k] = transfer[k] + (IF k = j THEN 1 ELSE 0)
             /\ flying'[k] + lost'[k] = flying[k] + lost[k] + (IF k = j THEN 1 ELSE 0)
             /\ k \notin broken =>
                  flying'[k] = IF k = j /\ flying[k] + landed'[k] < Depth
                               THEN flying[k] + 1 ELSE flying[k]
    BY <1>1, <1>2, <1>3, CountAndRefillEffect
  <1>5. TypeOK'
    BY <1>2, <1>3, <1>4 DEF TypeOK
  <1>6. (BeforeFill /\ Asked)'
    BY <1>2, <1>4 DEF BeforeFill, Asked
  <1>7. (Reports /\ DeltasAddUp)'
    BY <1>2, <1>4 DEF Reports, DeltasAddUp, TypeOK, Counts
  <1>8. Pipeline'
    <2> SUFFICES ASSUME NEW k \in Server
                 PROVE  flying'[k] + landed'[k] + failed[k] + lost'[k]
                          = QueueSize + Miscounted(k)
      BY <1>2 DEF Pipeline, Miscounted
    <2>1. flying[k] + landed[k] + failed[k] + lost[k] = QueueSize + Miscounted(k)
      BY <1>2 DEF Pipeline
    <2>2. landed'[k] = landed[k] - (IF k = j THEN 1 ELSE 0)
      BY <1>1 DEF TypeOK, Counts
    <2>3. flying'[k] + lost'[k] = flying[k] + lost[k] + (IF k = j THEN 1 ELSE 0)
      BY <1>4
    <2>4. /\ flying[k] \in Nat /\ landed[k] \in Nat /\ failed[k] \in Nat
          /\ lost[k] \in Nat /\ flying'[k] \in Nat /\ lost'[k] \in Nat
      BY <1>4 DEF TypeOK, Counts
    <2>5. QueueSize + Miscounted(k) \in Nat
      BY DEF Miscounted, TypeOK
    <2> QED
      BY <2>1, <2>2, <2>3, <2>4, <2>5
  <1>9. CountsExplained'
    BY <1>1, <1>2, <1>4 DEF CountsExplained, Miscounted, TypeOK, Counts
  <1>10. NeverRunsDry'
    <2> SUFFICES ASSUME NEW k \in Server \ broken
                 PROVE  flying'[k] + landed'[k]
                          = Least(QueueSize + Miscounted(k), Depth)
      BY <1>2 DEF NeverRunsDry, Miscounted
    <2>1. flying[k] + landed[k] = Least(QueueSize + Miscounted(k), Depth)
      BY <1>2 DEF NeverRunsDry
    <2>2. flying[k] + landed[k] <= Depth
      BY <2>1 DEF Least, Miscounted, TypeOK
    <2> QED
      BY <1>1, <1>4, <2>1, <2>2 DEF TypeOK, Counts
  <1>11. ReportsWithin'
    <2>1. \A k \in Server : written[k] <= written'[k] /\ written[k] \in Nat
                            /\ written'[k] \in Nat /\ reported[k] \in Int
                            /\ delta[k] \in Int
      BY <1>1 DEF TypeOK, Counts
    <2>2. \A k \in Server :
            reported[k] <= written'[k] + (IF k = id /\ cuts > 0 THEN cuts - 1 ELSE 0)
      BY <2>1 DEF ReportsWithin, TypeOK
    <2>3. stop => \A k \in Server :
            delta[k] <= written'[k] + (IF k = id THEN cuts ELSE 0)
      BY <2>1 DEF ReportsWithin, TypeOK
    <2> QED
      BY <1>2, <1>4, <2>2, <2>3 DEF ReportsWithin
  <1> QED
    BY <1>5, <1>6, <1>7, <1>8, <1>9, <1>10, <1>11

LEMMA ReapReplyIInv == ASSUME IInv, ReapReply PROVE IInv'
  <1> USE TransfersAssumption DEF IInv
  <1>1. /\ pc = "tx" /\ answered > 0
        /\ answered' = answered - 1 /\ replies' = replies + 1
        /\ CountAndRefill(id)
        /\ UNCHANGED <<stop, temp, delta, landed, failed, answering, spoiled, command,
                       id, broken, orphan, written, cuts, reported>>
    BY DEF ReapReply, linkVars
  <1>2. /\ transfer' \in Counts /\ flying' \in Counts /\ lost' \in Counts
        /\ queuesize' \in Nat
        /\ pc' \in {"rx", "done", "crashed"}
        /\ \A k \in Server :
             /\ transfer'[k] = transfer[k] + (IF k = id THEN 1 ELSE 0)
             /\ flying'[k] + lost'[k] = flying[k] + lost[k] + (IF k = id THEN 1 ELSE 0)
             /\ k \notin broken =>
                  flying'[k] = IF k = id /\ flying[k] + landed'[k] < Depth
                               THEN flying[k] + 1 ELSE flying[k]
        /\ pc' = "crashed" => id \notin Server
    BY <1>1, CountAndRefillEffect DEF TypeOK
  <1>3. TypeOK'
    BY <1>1, <1>2 DEF TypeOK, Counts
  <1>4. (BeforeFill /\ Asked /\ ReportsWithin)'
    <2>1. BeforeFill' /\ Asked'
      BY <1>1, <1>2 DEF BeforeFill, Asked, TypeOK
    <2>2. cuts > 0 \/ stop
      BY <1>1 DEF Asked, TypeOK
    <2> QED
      BY <1>1, <2>1, <2>2 DEF ReportsWithin
  <1>5. (Reports /\ DeltasAddUp)'
    BY <1>1, <1>2 DEF Reports, DeltasAddUp, TypeOK, Counts
  <1>6. Pipeline'
    <2> SUFFICES ASSUME NEW k \in Server
                 PROVE  flying'[k] + landed[k] + failed[k] + lost'[k]
                          = QueueSize + Miscounted(k)'
      BY <1>1 DEF Pipeline, Miscounted
    <2>1. flying[k] + landed[k] + failed[k] + lost[k] = QueueSize + Miscounted(k)
      BY <1>1 DEF Pipeline
    <2>2. Miscounted(k)' = Miscounted(k) + (IF k = id THEN 1 ELSE 0)
      BY <1>1 DEF Miscounted, TypeOK
    <2>3. flying'[k] + lost'[k] = flying[k] + lost[k] + (IF k = id THEN 1 ELSE 0)
      BY <1>2
    <2>4. /\ flying[k] \in Nat /\ landed[k] \in Nat /\ failed[k] \in Nat
          /\ lost[k] \in Nat /\ flying'[k] \in Nat /\ lost'[k] \in Nat
      BY <1>2 DEF TypeOK, Counts
    <2>5. QueueSize \in Nat /\ Miscounted(k) \in Nat
      BY DEF Miscounted, TypeOK
    <2>6. CASE k = id
      BY <2>1, <2>2, <2>3, <2>4, <2>5, <2>6
    <2>7. CASE k # id
      BY <2>1, <2>2, <2>3, <2>4, <2>5, <2>7
    <2> QED
      BY <2>6, <2>7
  <1>7. CountsExplained'
    BY <1>1, <1>2 DEF CountsExplained, Miscounted, TypeOK, Counts
  <1>8. NeverRunsDry'
    <2> SUFFICES ASSUME NEW k \in Server \ broken
                 PROVE  flying'[k] + landed[k]
                          = Least(QueueSize + Miscounted(k)', Depth)
      BY <1>1 DEF NeverRunsDry, Miscounted
    <2>1. flying[k] + landed[k] = Least(QueueSize + Miscounted(k), Depth)
      BY <1>1 DEF NeverRunsDry
    <2>2. /\ flying[k] \in Nat /\ landed[k] \in Nat /\ landed'[k] = landed[k]
          /\ QueueSize \in Nat /\ Depth \in Nat /\ Miscounted(k) \in Nat
      BY <1>1 DEF Miscounted, TypeOK, Counts
    <2>3. Miscounted(k)' = Miscounted(k) + (IF k = id THEN 1 ELSE 0)
      BY <1>1 DEF Miscounted, TypeOK
    <2>4. flying'[k] = IF k = id /\ flying[k] + landed[k] < Depth
                       THEN flying[k] + 1 ELSE flying[k]
      BY <1>2, <2>2
    <2> QED
      BY <2>1, <2>2, <2>3, <2>4 DEF Least
  <1> QED
    BY <1>3, <1>4, <1>5, <1>6, <1>7, <1>8

LEMMA ReapErrorIInv == ASSUME IInv, ReapError PROVE IInv'
  <1> USE TransfersAssumption DEF IInv
  <1>1. /\ pc = "tx" /\ pc' \in {"rx", "done"}
        /\ UNCHANGED <<stop, transfer, temp, delta, queuesize, flying, landed,
                       answering, answered, command, id, broken, orphan, written, replies,
                       cuts, reported>>
    BY DEF ReapError, LoopEnd, linkVars
  <1>2. /\ failed' \in Counts /\ lost' \in Counts /\ spoiled' \in Nat
        /\ spoiled' = spoiled \/ (spoiled > 0 /\ spoiled' = spoiled - 1)
        /\ \A k \in Server : failed'[k] + lost'[k] = failed[k] + lost[k]
    <2>1. CASE \E j \in Server : /\ failed[j] > 0
                                 /\ failed' = [failed EXCEPT ![j] = @ - 1]
                                 /\ lost' = [lost EXCEPT ![j] = @ + 1]
                                 /\ UNCHANGED spoiled
      BY <2>1 DEF TypeOK, Counts
    <2>2. CASE spoiled > 0 /\ spoiled' = spoiled - 1 /\ UNCHANGED <<failed, lost>>
      BY <2>2 DEF TypeOK, Counts
    <2> QED
      BY <2>1, <2>2 DEF ReapError
  <1>3. TypeOK'
    BY <1>1, <1>2 DEF TypeOK
  <1>4. (BeforeFill /\ Reports /\ DeltasAddUp /\ CountsExplained /\ ReportsWithin)'
    BY <1>1 DEF BeforeFill, Reports, DeltasAddUp, CountsExplained, ReportsWithin,
                Miscounted
  <1>5. (Pipeline /\ NeverRunsDry)'
    BY <1>1, <1>2 DEF Pipeline, NeverRunsDry, Miscounted, TypeOK, Counts
  <1>6. Asked'
    <2>1. /\ replies \in Nat /\ answered \in Nat /\ spoiled \in Nat /\ cuts \in Nat
          /\ (IF answering THEN 1 ELSE 0) \in Nat /\ (IF stop THEN 1 ELSE 0) \in Nat
      BY DEF TypeOK
    <2>2. CASE spoiled' = spoiled
      BY <1>1, <2>2 DEF Asked
    <2>3. CASE spoiled > 0 /\ spoiled' = spoiled - 1
      BY <1>1, <2>1, <2>3 DEF Asked
    <2> QED
      BY <1>2, <2>2, <2>3
  <1> QED
    BY <1>3, <1>4, <1>5, <1>6

LEMMA WriteLandsIInv == ASSUME IInv, WriteLands PROVE IInv'
  <1> USE TransfersAssumption DEF IInv
  <1>1. PICK j \in Server : /\ flying[j] > 0
                            /\ flying' = [flying EXCEPT ![j] = @ - 1]
                            /\ landed' = [landed EXCEPT ![j] = @ + 1]
    BY DEF WriteLands
  <1>2. UNCHANGED <<pc, stop, transfer, temp, delta, queuesize, failed, answering,
                    answered, spoiled, command, id, broken, orphan, written, replies, cuts,
                    reported, lost>>
    BY DEF WriteLands, loopVars, linkVars, history
  <1>3. pc # "fill"
    BY <1>1 DEF BeforeFill, Zero
  <1>4. TypeOK'
    BY <1>1, <1>2 DEF TypeOK, Counts
  <1>5. (BeforeFill /\ Asked /\ ReportsWithin /\ Reports /\ DeltasAddUp /\ CountsExplained)'
    BY <1>2, <1>3 DEF BeforeFill, Asked, ReportsWithin, Reports, DeltasAddUp,
                      CountsExplained, Miscounted
  <1>6. (Pipeline /\ NeverRunsDry)'
    BY <1>1, <1>2 DEF Pipeline, NeverRunsDry, Miscounted, TypeOK, Counts
  <1> QED
    BY <1>4, <1>5, <1>6

LEMMA WriteFailsIInv == ASSUME IInv, WriteFails PROVE IInv'
  <1> USE TransfersAssumption DEF IInv
  <1>1. PICK j \in broken : /\ flying[j] > 0
                            /\ flying' = [flying EXCEPT ![j] = @ - 1]
                            /\ failed' = [failed EXCEPT ![j] = @ + 1]
    BY DEF WriteFails
  <1>2. UNCHANGED <<pc, stop, transfer, temp, delta, queuesize, landed, answering,
                    answered, spoiled, command, id, broken, orphan, written, replies, cuts,
                    reported, lost>>
    BY DEF WriteFails, loopVars, linkVars, history
  <1>3. j \in Server
    BY DEF TypeOK
  <1>4. pc # "fill"
    BY <1>1, <1>3 DEF BeforeFill, Zero
  <1>5. TypeOK'
    BY <1>1, <1>2, <1>3 DEF TypeOK, Counts
  <1>6. (BeforeFill /\ Asked /\ ReportsWithin /\ Reports /\ DeltasAddUp /\ CountsExplained)'
    BY <1>2, <1>4 DEF BeforeFill, Asked, ReportsWithin, Reports, DeltasAddUp,
                      CountsExplained, Miscounted
  <1>7. Pipeline'
    BY <1>1, <1>2, <1>3, SMTT(20) DEF Pipeline, Miscounted, TypeOK, Counts
  <1>8. NeverRunsDry'
    BY <1>1, <1>2, <1>3, SMTT(20) DEF NeverRunsDry, Miscounted, TypeOK, Counts
  <1> QED
    BY <1>5, <1>6, <1>7, <1>8

LEMMA MessagesIInv ==
  ASSUME IInv, AnswerLands \/ AnswerFails \/ CommandArrives
  PROVE  IInv'
  <1> USE TransfersAssumption DEF IInv
  <1>1. UNCHANGED <<pc, stop, transfer, temp, delta, queuesize, flying, landed, failed,
                    id, broken, orphan, written, replies, cuts, reported, lost>>
    BY DEF AnswerLands, AnswerFails, CommandArrives, loopVars, linkVars, history
  <1>2. /\ answering' \in BOOLEAN /\ answered' \in Nat /\ spoiled' \in Nat
        /\ command' \in {"none", "checkpoint", "stop"}
    <2>1. CASE AnswerLands
      <3>1. answering' = FALSE
        BY <2>1 DEF AnswerLands
      <3>2. answered' = answered + 1 /\ spoiled' = spoiled /\ command' = command
        BY <2>1 DEF AnswerLands
      <3>3. answering' \in BOOLEAN
        BY <3>1
      <3>4. /\ answered' \in Nat /\ spoiled' \in Nat
            /\ command' \in {"none", "checkpoint", "stop"}
        BY <3>2 DEF TypeOK
      <3> QED
        BY <3>3, <3>4
    <2>2. CASE AnswerFails
      <3>1. answering' = FALSE
        BY <2>2 DEF AnswerFails
      <3>2. spoiled' = spoiled + 1 /\ answered' = answered /\ command' = command
        BY <2>2 DEF AnswerFails
      <3>3. answering' \in BOOLEAN
        BY <3>1
      <3>4. /\ answered' \in Nat /\ spoiled' \in Nat
            /\ command' \in {"none", "checkpoint", "stop"}
        BY <3>2 DEF TypeOK
      <3> QED
        BY <3>3, <3>4
    <2>3. CASE CommandArrives
      BY <2>3 DEF CommandArrives, TypeOK
    <2> QED
      BY <2>1, <2>2, <2>3
  <1>3. TypeOK'
    BY <1>1, <1>2 DEF TypeOK
  <1>4. (BeforeFill /\ Reports /\ ReportsWithin)'
    BY <1>1 DEF AnswerLands, AnswerFails, CommandArrives, BeforeFill, Reports,
                ReportsWithin
  <1>6. Asked'
    <2>1. /\ replies \in Nat /\ answered \in Nat /\ spoiled \in Nat /\ cuts \in Nat
          /\ (IF stop THEN 1 ELSE 0) \in Nat
      BY DEF TypeOK
    <2>2. CASE AnswerLands
      BY <1>1, <2>1, <2>2 DEF Asked, AnswerLands
    <2>3. CASE AnswerFails
      BY <1>1, <2>1, <2>3 DEF Asked, AnswerFails
    <2>4. CASE CommandArrives
      BY <1>1, <2>1, <2>4 DEF Asked, CommandArrives
    <2> QED
      BY <2>2, <2>3, <2>4
  <1>5. (Pipeline /\ NeverRunsDry /\ CountsExplained /\ DeltasAddUp)'
    BY <1>1 DEF Pipeline, NeverRunsDry, CountsExplained, DeltasAddUp, Miscounted
  <1> QED
    BY <1>3, <1>4, <1>5, <1>6

\* Every step of the loop, the network and the controller keeps the invariant.
LEMMA NextIInv == IInv /\ [Next]_vars => IInv'
  <1> SUFFICES ASSUME IInv, [Next]_vars PROVE IInv'
    OBVIOUS
  <1>1. CASE NoCommand \/ NoCompletion
    BY <1>1, QuietIInv DEF NoCommand, NoCompletion, LoopEnd, fabricVars, linkVars,
                           IInv, TypeOK
  <1>2. CASE ServerGone \/ ControllerGone
    BY <1>2, QuietIInv DEF ServerGone, ControllerGone, loopVars, IInv, TypeOK
  <1>3. CASE UNCHANGED vars
    BY <1>3, QuietIInv DEF vars, loopVars, fabricVars, linkVars, IInv, TypeOK
  <1> QED
    BY <1>1, <1>2, <1>3, FillIInv, TakeCheckpointIInv, TakeStopIInv, ReapWriteIInv,
       ReapReplyIInv, ReapErrorIInv, WriteLandsIInv, WriteFailsIInv, MessagesIInv
       DEF Next, Loop, Outside

-----------------------------------------------------------------------------
\* The inductive invariant holds in every reachable state of the loop.
THEOREM IInvHolds == Spec => []IInv
  <1> QED
    BY InitIInv, NextIInv, PTL DEF Spec

\* The types of the loop's variables.
THEOREM LoopTypes == Spec => []TypeOK
  <1>1. IInv => TypeOK
    BY DEF IInv
  <1> QED
    BY <1>1, IInvHolds, PTL

\* The writes to a server are in flight, completed or lost; every answer taken
\* for a write adds one, on the endpoint whose number is the client's id.
THEOREM PipelineDepth == Spec => []Pipeline
  <1>1. IInv => Pipeline
    BY DEF IInv
  <1> QED
    BY <1>1, IInvHolds, PTL

\* Whatever happens to other servers or to the controller, the loop keeps a server
\* that is still there supplied.
THEOREM KeepsSupplied == Spec => []NeverRunsDry
  <1>1. IInv => NeverRunsDry
    BY DEF IInv
  <1> QED
    BY <1>1, IInvHolds, PTL

\* The counts are exact for every server but the one numbered like the client,
\* and too high by the number of answers there.
THEOREM CountsAreExplained == Spec => []CountsExplained
  <1>1. IInv => CountsExplained
    BY DEF IInv
  <1> QED
    BY <1>1, IInvHolds, PTL

\* The deltas of the checkpoints add up, and the totals cover them.
THEOREM DeltasAlwaysAddUp == Spec => []DeltasAddUp
  <1>1. IInv => DeltasAddUp
    BY DEF IInv
  <1> QED
    BY <1>1, IInvHolds, PTL

\* What the controller gets is too high by no more than the checkpoints that were
\* answered before, and for one server only; the crash that conf/conf reports comes
\* after a command has been answered.
THEOREM ReportsAreWithin == Spec => []ReportsWithin
  <1>1. IInv => ReportsWithin
    BY DEF IInv
  <1> QED
    BY <1>1, IInvHolds, PTL

=============================================================================
