------------------------------ MODULE Transfers ------------------------------
(***************************************************************************)
(* The benchmark loop of one client (Node::benchmark): it keeps data       *)
(* writes to every server in flight, counts their completions and answers  *)
(* the controller's commands with these counts.                            *)
(*                                                                         *)
(* The control endpoint shares the client's cq_tx with the data endpoints  *)
(* (Endpoint::client).  The loop takes every completion for that of a data *)
(* write and uses the id in its context as the number of a server; the     *)
(* completion of an answer carries the id of the control endpoint, which   *)
(* is the id of the client (Node::init).                                   *)
(*                                                                         *)
(* Coordination shows how the commands come: the next one only after the   *)
(* answer to the last one has been received.                               *)
(*                                                                         *)
(* A server may be gone before the client is: on "stop" it leaves at once  *)
(* (Node::listenServer), and it may be killed.  What is in flight to it    *)
(* then completes with an error and further posts may be refused; the loop *)
(* drops both (checkComp, rdma_write).                                     *)
(***************************************************************************)
EXTENDS Integers

CONSTANTS
  NumPN,          \* config->num_pn
  Ids,            \* the ids this client may have
  QueueSize,      \* queuesize: writes posted to each server at the start
  Depth,          \* writes an endpoint takes before it refuses one (tx_attr)
  MaxWrites,      \* bound on the completed writes to one server
  MaxCuts         \* bound on the checkpoints

ASSUME TransfersAssumption ==
  /\ NumPN \in Nat \ {0} /\ Ids \subseteq Nat
  /\ QueueSize \in Nat \ {0} /\ Depth \in Nat \ {0}
  /\ MaxWrites \in Nat /\ MaxCuts \in Nat

Server == 0 .. NumPN - 1
Zero   == [j \in Server |-> 0]

VARIABLES
  id,        \* cep->id, the id of this client
  pc,        \* "fill", "rx" and "tx" (the two polls of the loop); "done", "failed",
             \* "crashed"
  stop,      \* the local variable of that name
  transfer,  \* transfer[j].completions
  temp,      \* temp[j].completions
  delta,     \* delta[j].completions, as last sent
  queuesize, \* the local variable of that name
  flying,    \* flying[j]: writes to server j in flight
  landed,    \* landed[j]: completions of writes to server j waiting in cq_tx
  failed,    \* failed[j]: completions with an error of such writes
  answering, \* TRUE iff an answer to the controller is in flight
  answered,  \* completions of answers waiting in cq_tx
  spoiled,   \* completions with an error of answers waiting in cq_tx
  command,   \* the command waiting in cq_rx, or "none"
  broken,    \* servers whose connection has ended
  orphan     \* TRUE iff the connection to the controller has ended

loopVars   == <<pc, stop, transfer, temp, delta, queuesize>>
linkVars   == <<id, broken, orphan>>
fabricVars == <<flying, landed, failed, answering, answered, spoiled, command, linkVars>>

\* History: what happened, whatever the loop believes.
VARIABLES
  written,   \* written[j]: completions of writes to server j taken from cq_tx
  replies,   \* completions of answers taken from cq_tx
  cuts,      \* checkpoints answered
  reported,  \* reported[j]: sum of the delta[j] of these checkpoints
  lost       \* lost[j]: writes to server j that were refused or failed

history == <<written, replies, cuts, reported, lost>>
vars    == <<loopVars, fabricVars, history>>

Init ==
  /\ id \in Ids
  /\ pc = "fill" /\ stop = FALSE
  /\ transfer = Zero /\ temp = Zero /\ delta = Zero
  /\ queuesize = QueueSize
  /\ flying = Zero /\ landed = Zero /\ failed = Zero
  /\ answering = FALSE /\ answered = 0 /\ spoiled = 0 /\ command = "none"
  /\ broken = {} /\ orphan = FALSE
  /\ written = Zero /\ replies = 0 /\ cuts = 0 /\ reported = Zero /\ lost = Zero

Least(a, b) == IF a <= b THEN a ELSE b
PlusEach(f, g) == [j \in Server |-> f[j] + g[j]]

-----------------------------------------------------------------------------
(* The loop. *)

\* Mutant: one round too few.
Fill_OneShort ==
  /\ pc = "fill"
  /\ \E n \in [Server -> 0 .. queuesize - 1] :
       /\ \A j \in Server \ broken : n[j] = Least(queuesize - 1, Depth)
       /\ flying' = n
       /\ lost' = [j \in Server |-> queuesize - 1 - n[j]]
  /\ pc' = "rx"
  /\ UNCHANGED <<stop, transfer, temp, delta, queuesize, landed, failed, answering,
                 answered, spoiled, command, linkVars, written, replies, cuts, reported>>

\* queuesize rounds of one write to every server.  What rdma_write returns is
\* not looked at.
Fill ==
  /\ pc = "fill"
  /\ \E n \in [Server -> 0 .. queuesize] :
       /\ \A j \in Server \ broken : n[j] = Least(queuesize, Depth)
       /\ flying' = n
       /\ lost' = [j \in Server |-> queuesize - n[j]]
  /\ pc' = "rx"
  /\ UNCHANGED <<stop, transfer, temp, delta, queuesize, landed, failed, answering,
                 answered, spoiled, command, linkVars, written, replies, cuts, reported>>

NoCommand ==
  /\ pc = "rx" /\ command = "none"
  /\ pc' = "tx"
  /\ UNCHANGED <<stop, transfer, temp, delta, queuesize, fabricVars, history>>

\* ctrl_send of the array: refused, if at all, when the controller is gone, and
\* then the loop returns the error.
Answer ==
  /\ command' = "none"
  /\ \/ answering' = TRUE /\ pc' = "tx"
     \/ orphan /\ pc' = "failed" /\ UNCHANGED answering

\* Mutant: the counts of the last checkpoint are not kept.
TakeCheckpoint_NoTemp ==
  /\ pc = "rx" /\ command = "checkpoint"
  /\ delta' = [j \in Server |-> transfer[j] - temp[j]]
  /\ Answer
  /\ cuts' = cuts + 1 /\ reported' = PlusEach(reported, delta')
  /\ UNCHANGED <<stop, transfer, temp, queuesize, flying, landed, failed, answered,
                 spoiled, linkVars, written, replies, lost>>

\* "checkpoint": answer with the completions since the last one.
TakeCheckpoint ==
  /\ pc = "rx" /\ command = "checkpoint"
  /\ delta' = [j \in Server |-> transfer[j] - temp[j]]
  /\ temp' = transfer
  /\ Answer
  /\ cuts' = cuts + 1 /\ reported' = PlusEach(reported, delta')
  /\ UNCHANGED <<stop, transfer, queuesize, flying, landed, failed, answered,
                 spoiled, linkVars, written, replies, lost>>

\* Mutant: "stop" is answered like the others and the loop goes on.
TakeStop_GoOn ==
  /\ pc = "rx" /\ command = "stop"
  /\ delta' = transfer
  /\ Answer
  /\ UNCHANGED <<stop, transfer, temp, queuesize, flying, landed, failed, answered,
                 spoiled, linkVars, history>>

\* "stop": answer with all completions; the loop still polls cq_tx once.
TakeStop ==
  /\ pc = "rx" /\ command = "stop"
  /\ delta' = transfer
  /\ stop' = TRUE
  /\ Answer
  /\ UNCHANGED <<transfer, temp, queuesize, flying, landed, failed, answered,
                 spoiled, linkVars, history>>

LoopEnd == pc' = IF stop THEN "done" ELSE "rx"

NoCompletion ==
  /\ pc = "tx"
  /\ landed = Zero /\ failed = Zero /\ answered = 0 /\ spoiled = 0
  /\ LoopEnd
  /\ UNCHANGED <<stop, transfer, temp, delta, queuesize, fabricVars, history>>

\* Post one write to server j: taken while there is room, on a connection that
\* has ended either way.  A refusal is printed, nothing else.
RdmaWrite(j) ==
  \/ /\ j \in broken \/ flying[j] + landed'[j] < Depth
     /\ flying' = [flying EXCEPT ![j] = @ + 1]
     /\ UNCHANGED lost
  \/ /\ j \in broken \/ flying[j] + landed'[j] >= Depth
     /\ lost' = [lost EXCEPT ![j] = @ + 1]
     /\ UNCHANGED flying

\* Mutant: the counted write is not replaced by a new one.
CountAndRefill_NoWrite(j) ==
  /\ transfer' = [transfer EXCEPT ![j] = @ + 1]
  /\ queuesize' = queuesize + 1
  /\ LoopEnd
  /\ UNCHANGED <<flying, lost>>

\* Mutant: the count goes to the first server.
CountAndRefill_First(j) ==
  /\ transfer' = [transfer EXCEPT ![0] = @ + 1]
  /\ queuesize' = queuesize + 1
  /\ RdmaWrite(j)
  /\ LoopEnd

\* Mutant: ids are taken to start at 1.
CountAndRefill_NextServer(j) ==
  IF j + 1 \in Server
  THEN /\ transfer' = [transfer EXCEPT ![j + 1] = @ + 1]
       /\ queuesize' = queuesize + 1
       /\ RdmaWrite(j + 1)
       /\ LoopEnd
  ELSE /\ pc' = "crashed"
       /\ UNCHANGED <<transfer, queuesize, flying, lost>>

\* transfer[id]++ and eps[id]->rdma_write(): past the end of both arrays when
\* id is no server, which has no defined outcome; here the process dies.
CountAndRefill(j) ==
  IF j \in Server
  THEN /\ transfer' = [transfer EXCEPT ![j] = @ + 1]
       /\ queuesize' = queuesize + 1
       /\ RdmaWrite(j)
       /\ LoopEnd
  ELSE /\ pc' = "crashed"
       /\ UNCHANGED <<transfer, queuesize, flying, lost>>

\* Mutant: a poll that finds nothing (0) is taken for a completion.
ReapWrite_Empty ==
  /\ pc = "tx"
  /\ \E j \in Server :
       /\ landed' = [landed EXCEPT ![j] = @ - 1]
       /\ written' = [written EXCEPT ![j] = @ + 1]
       /\ CountAndRefill(j)
  /\ UNCHANGED <<stop, temp, delta, failed, answering, answered, spoiled, command,
                 linkVars, replies, cuts, reported>>

ReapWrite ==
  /\ pc = "tx"
  /\ \E j \in Server :
       /\ landed[j] > 0
       /\ landed' = [landed EXCEPT ![j] = @ - 1]
       /\ written' = [written EXCEPT ![j] = @ + 1]
       /\ CountAndRefill(j)
  /\ UNCHANGED <<stop, temp, delta, failed, answering, answered, spoiled, command,
                 linkVars, replies, cuts, reported>>

\* The completion of an answer is taken for that of a write to the server
\* with the client's id, if there is one.
ReapReply ==
  /\ pc = "tx" /\ answered > 0
  /\ answered' = answered - 1
  /\ replies' = replies + 1
  /\ UNCHANGED <<stop, temp, delta, landed, failed, answering, spoiled, command,
                 linkVars, written, cuts, reported>>
  /\ CountAndRefill(id)

\* checkComp prints an error and returns it; the loop takes it for an empty
\* poll.
ReapError ==
  /\ pc = "tx"
  /\ LoopEnd
  /\ \/ \E j \in Server :
          /\ failed[j] > 0
          /\ failed' = [failed EXCEPT ![j] = @ - 1]
          /\ lost' = [lost EXCEPT ![j] = @ + 1]
          /\ UNCHANGED spoiled
     \/ /\ spoiled > 0
        /\ spoiled' = spoiled - 1
        /\ UNCHANGED <<failed, lost>>
  /\ UNCHANGED <<stop, transfer, temp, delta, queuesize, flying, landed, answering,
                 answered, command, linkVars, written, replies, cuts, reported>>

-----------------------------------------------------------------------------
(* The network and the controller. *)

Running == pc \notin {"done", "failed", "crashed"}

WriteLands ==
  /\ Running
  /\ \E j \in Server :
       /\ flying[j] > 0
       /\ written[j] + landed[j] < MaxWrites
       /\ flying' = [flying EXCEPT ![j] = @ - 1]
       /\ landed' = [landed EXCEPT ![j] = @ + 1]
  /\ UNCHANGED <<loopVars, failed, answering, answered, spoiled, command, linkVars,
                 history>>

WriteFails ==
  /\ Running
  /\ \E j \in broken :
       /\ flying[j] > 0
       /\ flying' = [flying EXCEPT ![j] = @ - 1]
       /\ failed' = [failed EXCEPT ![j] = @ + 1]
  /\ UNCHANGED <<loopVars, landed, answering, answered, spoiled, command, linkVars,
                 history>>

AnswerLands ==
  /\ Running /\ answering
  /\ answering' = FALSE
  /\ answered' = answered + 1
  /\ UNCHANGED <<loopVars, flying, landed, failed, spoiled, command, linkVars, history>>

AnswerFails ==
  /\ Running /\ answering /\ orphan
  /\ answering' = FALSE
  /\ spoiled' = spoiled + 1
  /\ UNCHANGED <<loopVars, flying, landed, failed, answered, command, linkVars, history>>

CommandArrives ==
  /\ Running /\ ~stop /\ command = "none" /\ ~answering /\ ~orphan
  /\ command' \in {"stop"} \cup IF cuts < MaxCuts THEN {"checkpoint"} ELSE {}
  /\ UNCHANGED <<loopVars, flying, landed, failed, answering, answered, spoiled,
                 linkVars, history>>

\* A server leaves or is killed.
ServerGone ==
  /\ Running
  /\ \E j \in Server \ broken : broken' = broken \cup {j}
  /\ UNCHANGED <<id, loopVars, flying, landed, failed, answering, answered, spoiled,
                 command, orphan, history>>

ControllerGone ==
  /\ Running /\ ~orphan
  /\ orphan' = TRUE
  /\ UNCHANGED <<id, loopVars, flying, landed, failed, answering, answered, spoiled,
                 command, broken, history>>

Loop == Fill \/ NoCommand \/ TakeCheckpoint \/ TakeStop
        \/ NoCompletion \/ ReapWrite \/ ReapReply \/ ReapError

Outside == \/ WriteLands \/ WriteFails \/ AnswerLands \/ AnswerFails
           \/ CommandArrives \/ ServerGone \/ ControllerGone

Next == Loop \/ Outside

Spec == Init /\ [][Next]_vars

\* The loop never blocks: it polls both queues in turn.
FairSpec == Spec /\ WF_vars(Loop)

-----------------------------------------------------------------------------
(* Properties. *)

Counts == [Server -> Nat]

\* Types.
TypeOK ==
  /\ id \in Nat
  /\ pc \in {"fill", "rx", "tx", "done", "failed", "crashed"} /\ stop \in BOOLEAN
  /\ transfer \in Counts /\ temp \in Counts /\ queuesize \in Nat
  /\ delta \in [Server -> Int]
  /\ flying \in Counts /\ landed \in Counts /\ failed \in Counts
  /\ answering \in BOOLEAN /\ answered \in Nat /\ spoiled \in Nat
  /\ broken \in SUBSET Server /\ orphan \in BOOLEAN
  /\ command \in {"none", "checkpoint", "stop"}
  /\ written \in Counts /\ replies \in Nat /\ cuts \in Nat
  /\ reported \in [Server -> Int] /\ lost \in Counts

\* The answers taken for writes to server j.
Miscounted(j) == IF j = id THEN replies ELSE 0

\* Where the writes are that the loop believes to keep on their way to server j,
\* with one more for every answer it took for a write: in flight, completed, or
\* lost without being replaced.
Pipeline ==
  pc # "fill" => \A j \in Server :
    flying[j] + landed[j] + failed[j] + lost[j] = QueueSize + Miscounted(j)

\* Losses stay where they happened: to a server that is still there the loop
\* keeps QueueSize writes on their way, or as many as the endpoint takes, however
\* many other servers and the controller are gone.
NeverRunsDry ==
  pc # "fill" => \A j \in Server \ broken :
    flying[j] + landed[j] = Least(QueueSize + Miscounted(j), Depth)

\* What is counted for a server: its writes and, for the server numbered like the
\* client, the answers.
CountsExplained ==
  \A j \in Server : transfer[j] = written[j] + Miscounted(j)

\* The deltas of all checkpoints add up to the counts the last one saw, so no
\* completion is reported twice or skipped between checkpoints, and the totals
\* sent on "stop" cover them.
DeltasAddUp ==
  /\ temp = reported
  /\ stop => \A j \in Server : reported[j] <= delta[j]

\* A client that has "stop" ends, also when its servers or the controller are
\* gone: no error keeps the loop from its next poll.
StopEndsLoop == (command = "stop") ~> (pc \in {"done", "failed", "crashed"})

\* How far what the controller gets can be off: the deltas of the checkpoints add up
\* to no more than the writes that completed, but for the server numbered like the
\* client, where every checkpoint but the last may have been counted as a write; and
\* so the totals, with the last one.  A client whose id is no server has answered a
\* command before it dies of it (conf/conf: "if num_en > num_pn we crash with signal
\* 11 at 2nd checkpoint iter").
ReportsWithin ==
  /\ \A j \in Server :
       reported[j] <= written[j] + (IF j = id /\ cuts > 0 THEN cuts - 1 ELSE 0)
  /\ stop => \A j \in Server : delta[j] <= written[j] + (IF j = id THEN cuts ELSE 0)
  /\ pc = "crashed" => cuts > 0 \/ stop

\* Config.h:71, "number of clompetions counted up to this point per endpoint
\* (index = remote id)": the endpoint to server j, and no other.
CountsPerEndpoint == \A j \in Server : transfer[j] = written[j]

=============================================================================
