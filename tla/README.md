# A verification project for Libfabric_Benchmark

The program measures RDMA write throughput between *entry nodes* (clients) and
*processing nodes* (servers), under the command of one *central node* (the
controller). Each node is one process with one thread; they talk through
libfabric message endpoints. This directory holds TLA+ specifications of the
program, the TLC configurations that check them, and proofs checked by TLAPS.

Paths and line numbers are relative to `src/CBM_Benchmark/` unless they start
with `src/`.

## 1. Inventory

| Part | State | Operations | Interacts through |
|---|---|---|---|
| Controller (`Main.cpp: controller`, `Node.cpp: listenController, controllerConnect, -Start, -Checkpoint, -Stop`) | the local `counter` of each wait, the arrays `checkpoint` and `summary`, the timer loop | accept every host, send keys, send commands, collect confirmations and arrays, wait for disconnects | control endpoints `eps[0..num_en+num_pn)` |
| Client (`Main.cpp: client`, `Node.cpp: connectToController, connectToServers, benchmark`) | `cep`, `eps`, remote keys, counts `transfer`, `temp`, `delta` | connect to the controller, on "connect" to every server in turn, confirm, on "start" write until "stop" | `cep` (commands), `eps` (one-sided writes) |
| Server (`Main.cpp: server`, `Node.cpp: listenServer, waitAllConn`) | `eps`, `cep`, a counter | listen, connect to the controller, accept the clients, send them keys, wait for "stop" | `cep`, `eps` |
| Endpoint (`Endpoint.cpp`) | `ctrl_buff` (one buffer for all sends and receives), `remote_keys`, three contexts | `listen`, `connect`, `accept`, `ctrl_recv`, `ctrl_send`, `sendKeys`, `sendCommand`, `rdma_write` | the node's `eq`, `cq_tx`, `cq_rx` |
| Topology (`Node.cpp: init`, `Main.cpp: main`) | endpoint lists and port numbers | port arithmetic | - |
| libfabric (external) | connections, event queue, completion queues | events and completions | - |
| Timer and output (`Main.cpp:103-181`) | `elapsed_seconds`, `check`, the output file | when to checkpoint, when to stop, append rows | calls the controller's operations |
| Config (`Config.cpp`) | `num_en`, `num_pn`, `addr_v`, sizes | parse two files | read once, before the endpoints |
| Clock (`Clock.cpp`) | `_start`, `_stop` | read the clock, subtract | called by `benchmark` |
| host2ip, scripts | - | resolve names, start hosts, plot | not called by the program |

What is hard: the processes run concurrently and every wait takes *the next*
event or completion of the whole node without asking what it belongs to
(`connect` 320 and 336, the waits of the controller, `benchmark`); each endpoint
has a single buffer for what it sends and what it receives; the start of the
measurement is a barrier over all clients; send completions, which are counted
and never identified, decide when the controller goes on; a process may exit
while messages are still queued. Hosts are started by hand or by scripts, and may
die and be started again; what a peer learns of it arrives late or never. The
controller frees receive contexts that it posts again. Two clocks are read that
can be set. Some failures of library calls are handed on and some are not looked
at.

What makes each part correct: the controller starts nobody before everybody is
ready and collects one array per client and round; a client writes only with
the keys of every server and reports each completion once; a server is
listening before anyone dials it; an endpoint never receives into a buffer that
is still in use; the ports of two ends agree and no two endpoints of a node
share one; a host that dies costs the run and never a wrong result; a loss on one
connection does not starve the others; every round is taken within the duration
and written out once; the times of the rounds add up; a completion names the
endpoint it belongs to.

`PROJECT.json` lists the hazards at their lines with the properties that cover
them.

## 2. Modules

    Topology      who takes part, which endpoint leads where, port arithmetic
      ^
    Fabric        libfabric as the code uses it: connections, queues, buffers
      ^
    Coordination  the whole run: controller, clients, servers   --implements-->  Session
      ^
    Crashes       the same run with processes that are killed and started again

    Transfers     the benchmark loop of one client, with writes that fail
    Timing        the times in the arrays it sends
    Schedule      the loop of the controller against the clock; the result file
    Contexts      the receive contexts of one process and the heap
    Setup         opening a process's objects when library calls fail
    Config        the conf file and the serverlist

    Barrier             the invariant behind the start barrier of Coordination
    CoordinationProofs  theorems about Coordination and Crashes
      ^
    ExchangeProofs      theorems about Coordination and its refinement of Session
    TransfersProofs, TimingProofs, ScheduleProofs, ContextsProofs,
    SetupProofs, ConfigProofs       theorems about the module of that name

Transfers, Timing, Schedule, Contexts, Setup and Config look at one process each:
what they have as state the others cannot touch except through the events the
module has as actions of its surroundings. Barrier has definitions only.
CoordinationProofs extends Barrier and Crashes, so that a lemma about a step of
Coordination serves both kinds of run.

**Topology.** Endpoints are pairs `<<p, q>>`: endpoint of node `p` that leads to
`q`. Hosts are numbered as in the controller's `eps`: clients first, then
servers. `ListenPort` and `DialPort` are the arithmetic of `Node::init` and
`main`. `Dialled(l)` are the passive endpoints that listen where `l` dials; a
request in Fabric arrives there and nowhere else. That this is always exactly
the endpoint meant (`Rev(l)`) is not built into the model: theorem `Wiring`
proves it of the arithmetic.

**Fabric** (mostly external). One event queue per node; receive completions in
order per endpoint and in any order between endpoints; the completions in
`cq_tx` as a number, since no code on the control path looks at them; posted
sends and receives as sequences; `buf` is `ctrl_buff`. A message is delivered
when the peer has posted a receive. Loops that make the same call on several
endpoints are one step: nothing another process does can observe the difference,
since the endpoints are different.

**Coordination.** `pc[p]` is the place process `p` has come to; each action is
the code from one wait to the next, with its error returns:

| Action | Code |
|---|---|
| `HostDial`, `Dial`, `ConnectEvent`, `ConnectKeys` | `Endpoint::connect` |
| `WaitAllConn`, `HandleEvent` | `Node::waitAllConn`, event branch of `listenServer` |
| `ServerListen`, `ServerReady`, `ServeCommand`, `ServeEvent` | `Node::listenServer` |
| `AwaitConnect`, `RecvConnect` | `Node::connectToController` |
| `DialNext`, `Confirm`, `ConfirmSent`, `RecvStart` | `Node::connectToServers` |
| `BenchCommand` | the commands in `Node::benchmark` |
| `ControllerConnect`, `ConnectSent`, `CollectConfirm` | `Node::controllerConnect` |
| `ControllerStart`, `StartSent` | `Node::controllerStart` |
| `ControllerCheckpoint`, `CheckpointSent`, `CollectCheckpoint`, `CheckpointDone` | `Node::controllerCheckpoint` and the timer loop |
| `ControllerStop`, `StopSent`, `CollectSummary`, `SummaryDone`, `AwaitShutdown`, `ControllerDone` | `Node::controllerStop` |
| `Exit` | `main` returns |

At the timer the controller may take a checkpoint (at most `MaxRounds`) or stop,
whatever the time is; this covers every schedule of the loop in `Main.cpp`,
including the read of the uninitialised `elapsed_seconds`.

**Session** is the abstract specification: clients get ready, are released
together, cut their counts once per round, end when the controller has closed
the run. `ImplementsSession` maps `pc` to its stages.

**Crashes** extends Coordination. `Crash(p)` may happen at any point; the process
loses its memory, its peers keep the connection as `down`. What they see of it
comes through `Notice` (FI_SHUTDOWN, when the fabric gets to it) and `Flush`
(posted operations complete with errors, `txErr` and `rxErr`). A receive alone on
a dead connection need not complete: nothing is sent, so no retry runs out.
`TxError` and `RxError` are the error branches of `checkComp` and of the waits
(`Node.cpp:258`, `701`, `971`); all other steps are those of Coordination
(`Usual`). `made` says which passive endpoints have an `Endpoint::ep` at all, as
`accept()` makes it. `ToUse` is what each function of the controller uses
(`controllerConnect` and `controllerCheckpoint` the clients', `controllerStop` all),
`MayCall` the functions it may call next; a pointer that `accept()` never set is what
`WildEndpoint` is about. `Restart` starts a killed host again, whether
or not its end has been reported.

**Transfers** is `benchmark()` with its data writes: `flying`, `landed` and
`failed` are writes in flight and completions, good and bad, waiting in `cq_tx`;
`written`, `replies`, `reported` and `lost` are history variables that record what
really happened. `ServerGone` and `ControllerGone` end a connection: writes to that
server fail or are refused, `rdma_write` prints it and the loop goes on. `id` is the
client's, any of `Ids`, and may be the number of a server or of none.

| Action | Code |
|---|---|
| `Fill` | `Node.cpp:356-367` |
| `NoCommand`, `TakeCheckpoint`, `TakeStop` | `Node.cpp:370-434` |
| `ReapWrite`, `ReapReply`, `ReapError`, `NoCompletion` | `Node.cpp:435-455` |

**Schedule** is `Main.cpp:103-182`: `Iterate` is one pass that reads the clock,
`LoopEnds` the comparison, `Open` and `OpenFinal` the two endless loops around
`ofstream`. `Leftover` is what the memory of `elapsed_seconds` may hold before the
first assignment; `Tails` what follows the ten characters of `date`, which decides
the name of the file; `ClockIsSet` moves the clock; `DiskChanges` makes the file
impossible or possible to open. The calls of Coordination are one step each.

**Timing** has the two fields of `Clock`, the three places where `benchmark` uses
them, and `time_sec` of `transfer` and `temp`. `stamps` is the real time of each
command.

**Contexts** takes the functions of a process one after the other. Each is a
record of what it prepares in the order of its code (`ctx`, `entry` and, in
`listenServer`, `event` are allocations, `post` its receives), what it waits for and
what it frees (`ControllerCheckpoint`, `Connect`, ...), and the same steps (`Begin`,
`TakeCtx`, `TakeEntry`, `TakeEvent`, `Post`, `ReapSends`, `ReapReceive`, `End`) run
them. The heap is the list of free blocks of this size, linked through the blocks
(external, as in the C library the program is linked with): what was freed last is
handed out first. A receive posted on a free block overwrites its link (`broken`);
once that block is handed out the list begins where the link points (`loose`), and the
next allocation either dies of it (`Stray`) or, in a C library that counts the blocks,
takes a new one. `OtherMalloc` and `OtherWrites` are the libraries taking and filling
a block. The contexts of sends are never freed and are one block.

**Setup** writes each function as the sequence of the library calls it makes, with
the object each makes, the pointers it is given (`needs`) and what it cannot succeed
without in the library (`wants`: a receive wants an enabled endpoint, a request one
that listens; external), and runs the functions of a process in order (`Program`).
`Outcome` is how far a function gets, `Ignored` the functions whose result their
caller drops. A pointer that was never set is recorded in `wild`, and the process may
die of it; a call that lacks what it wants fails or waits.

**Config** reads the two files line by line. `Skipped` is the test for `//` and
`=`, `ReadConf` an assignment (`std::stoi` may throw, which ends the process),
`CheckSize` the warning in `main`, `NodeInit` the check in `Node::init`. `SizeT` is
the conversion of an `int` for the comparisons with a `size_t`; `SizeMax` is the
largest `size_t`.

## 3. Runs

One passing run for every module, with all its properties, and four that TLC
finds violated.

| Run | Instance | Shows |
|---|---|---|
| `coordination` | 2 clients, 2 servers, 2 checkpoints, fairness; module Barrier, which extends Coordination | in every interleaving: the barrier and the invariant behind it (section 5), the buffers, the completion queue, the rows, the refinement of Session; every client begins, every host leaves, the controller ends if nothing is lost |
| `crashes` | 1 + 1, 1 checkpoint, two crashes of any process, hosts come back at any time, fairness | the counter of `waitAllConn` is the number of connections the controller believes in; it returns with every host connected, but for a host that came back before its end was reported; no incomplete row is written; a host that is dead between two rounds ends the run |
| `transfers_loop` | 2 servers, client 1 or 2 (the number of a server, and of none), 2 checkpoints, depth 2, room for 3, fairness | where every write is, the counts, the deltas, how far a report may be off; losses on one connection leave the others supplied; "stop" ends the loop whatever has failed |
| `schedule` | 5 s, interval 2 s, clock set twice, any leftover, a disk that fails, fairness | the number of rounds is bounded; while nobody sets the clock the loop lasts as long as it should and no round is missing; every row is written once and in order; the controller ends, or the file stays closed to it |
| `timing_rows` | 3 arrays, clock set twice | times are real while nobody sets the clock; deltas add up even then |
| `contexts` | each role, 3 endpoints, 3 checkpoints, 2 blocks taken by other code | while nothing is taken: every completion is identified, memory does not grow, and neither controller nor client allocates along an overwritten link; nothing is ever freed twice |
| `setup_failures` | each role, 2 endpoints, any 3 failures | nothing is built on an incomplete node; a failure nobody looks at still ends the setup |
| `config_files` | every conf file of 3 lines, every list of 2, up to 26 servers | the last assignment counts, the order of the servers, no client dials past its list |
| `stop_hangs` | 1 + 1, fairness | violated: the controller waits for ever for the totals of a client that exited |
| `overwritten` | 1 + 1 | violated: a command may overwrite the one before it |
| `transfers_counts` | as `transfers_loop` | violated: a count includes answers to commands |
| `schedule_duration` | leftover of 6 s | violated: the loop may end at once |

Bounds. Two clients and two servers are the smallest instance with a fast and a
slow client, a first and a last server, and two queues that race. Two
checkpoints give a second round that could meet remains of the first.
`MaxRounds` is a parameter of the run, not a cut: `ScheduleProofs!BoundOfRounds`
proves that the timer loop takes at most `max_duration / checkpoint_intervall`
rounds, rounded up. In Transfers `MaxWrites` bounds the completed writes per
server and `MaxCuts` the checkpoints; the depth is 2 instead of 10, since the
code treats all writes alike, and `Depth`, the room an endpoint has, is one more,
so that the write in excess after an answer fits once and then does not. The
client has id 1, a server that is not the first, or id 2, which is no server's, so
that the loop also comes to the access past the end of its arrays (`pc = "crashed"`).

In Crashes `MaxCrashes` is two, so that a host can die, come back and die, or
two hosts die in the same wait, and every process is mortal. `DeadHostEndsRun` is
about one crash: a second host that dies while the controller waits for its array
need not be noticed. In Schedule `Slow` bounds the time between two readings of
the clock by one interval, so that a round can be late and still be taken
(`FullCourse` needs this; `RoundsBounded` does not, section 5); `MaxReal` is long
enough for the duration, a late start and a clock that is set back twice. A second
has two ticks, so that a reading can be truncated. `Leftover` holds a value above
the duration that no reading can have. In Timing `Jumps` sets the clock back by
less and by more than has passed. In Contexts three rounds are enough for a block to be posted,
freed, handed out and posted again; the state of the free list repeats from the
second. In Config three lines hold two assignments of a key and a comment between
them; `SizeMax` is that of 20 bits, which keeps a negative number larger than any
list (`ConfigAssumption` asks no more of it than that it can count the list).
In Setup a third failure can follow two that were dropped.

Deadlock is not checked: a run ends with all processes gone, and it may end with
the controller waiting for ever, which is the subject of `stop_hangs`, `RunEnds`
and `DeadHostEndsRun`.

Fairness. In Coordination it is weak fairness of the whole next-state relation:
the run goes on while anything can happen. Every process polls in a loop on its
own CPU, the connection manager completes what it began, and the endpoints are
reliable (`FI_EP_MSG` over verbs), so that a message that has a receive waiting
is delivered. Since every step uses something up no behaviour is infinite, and
this weak form passes nothing over for ever. Nothing forces a message to leave
before its process exits. In Crashes the same holds of `Progress`: the processes,
the connection manager, and the fabric, which reports a lost connection and fails
a *send* on it in the end (its retries run out); nothing forces a receive on it
to fail, nor a process to die or to come back. In Transfers only the loop is fair,
which never blocks; not the network, whose completions `StopEndsLoop` does not
need. In Schedule the controller is scheduled and time passes, and nobody has to
repair the disk: `Ends` allows for one that keeps failing.

## 4. What the models say of the code

Shown by a run that is violated:

* `Node.cpp:444` (`transfers_counts`): `benchmark` takes the completion of an
  answer for a data write to the server with its own id: one completion too many
  per answer and one more write in flight for the rest of the run. The diagonal
  of `src/diagnostics/gnuplot/NxN_10GB.dat` shows it: the pair `(i, i)` gets about
  twice the throughput of the others after the first checkpoint. When the id is
  not below `num_pn` the same line runs past the end of two arrays, the crash
  noted at `conf/conf:14`. `ReportsWithin` bounds what this costs: at most one write
  per checkpoint, in one column, and a crash only after an answer.
* `Endpoint.cpp:269` (`overwritten`): waits for send completions are satisfied by
  the completions of the keys that `waitAllConn` sent and nobody reaped
  (`Node.cpp:652`), so `controllerStart` returns while "start" may still be queued
  in the one control buffer of an endpoint, and the next command overwrites it.
  The keys are luckier: what may overwrite them, the first "connect", covers only
  the id, which no host reads (`KeysIntact`).
* `Node.cpp:427`, `Main.cpp:219` (`stop_hangs`): a client exits right after posting
  its totals, which may never leave.
* `Main.cpp:112` (`schedule_duration`): `elapsed_seconds` is compared before anything
  is stored in it.

Stated as the exception a property of a passing run needs:

* `EveryoneWasConnected`: `waitAllConn` counts connections and not hosts
  (`Node.cpp:1063`), so a host that comes back before its end was reported counts
  twice, and `controllerConnect` then uses an endpoint that `accept` never made.
  When a host is lost it lowers its counter (`Node.cpp:1076`) and waits on, where
  the comment promises -1.
* `Identified`: the functions of the controller free a context that is posted
  again in the next round (`Node.cpp:821`). It works because each of them also
  allocates one it does not need, and gets exactly this block; when other code
  gets it first the ids of completions are that code's data.
* `FullCourse`, `EveryRoundOnce`: a round that is late can be followed by the next
  at once (`Main.cpp:145`); `date` has no terminating zero (`Main.cpp:60`), so a row
  goes to a file whose name ends in whatever follows it.
* `TimesAreReal`: the timer of a client reads a clock that can be set, and reports
  -1 for what is not positive (`Clock.cpp:39`).
* `LinksFollowed`: a server does allocate along a link it has overwritten
  (`Node.cpp:508`, `514`). `connect()` leaves the entry and the context it has freed in
  the list, the context second; the receive for "stop" is posted on that context, the
  second allocation takes it and the third follows its link. The model has both
  outcomes, a new block and the death of the process; a C library that counts the
  blocks of its lists, as recent ones do, gives the first, since the list is used up.
* `ServersInOrder`: a blank line of the serverlist is an address (`Config.cpp:150`).
* `NodeComplete`, `NoSilentFailure`: what `server()` returns is dropped
  (`Node.cpp:171`), so that `listen()` may use a passive endpoint that was never made;
  objects of the node are never missing, and what is dropped comes back as the failure
  of a later function, as a pointer that was never set, or as a wait without end.

Only read: the comments at `Node.cpp:629` and `Main.cpp:86` promise "start" to all
hosts; servers get none (and do not wait for one). `src/README.md:43` promises that
the default settings support 10000x10000 nodes: above 25 servers the array of a
checkpoint is larger than the control buffer, and a warning is all that happens
(`Main.cpp:238`). While a server serves, an error of its event queue is dropped: what
is looked at is only the result of what it did for an event (`Node.cpp:552`, `585`).

## 5. Proofs

All theorems hold for every value of the constants that satisfies the assumptions
of their modules: `TopologyAssumption` (ports and offsets as `Node::init` uses
them), `RoundsAssumption`, `TransfersAssumption`, `ScheduleAssumption`,
`TimingAssumption`, `ContextsAssumption`, `SetupAssumption`, `CrashesAssumption`
(which processes may die and how often; any set and any number), `ConfigAssumption`;
the runs evaluate them on their instances. One theorem has a hypothesis of its own: `CourseIsFull`
assumes `Prompt`, that no more than an interval passes between two readings of the
clock.

| Theorem | Says | Inductive invariant |
|---|---|---|
| `CoordinationProofs!Wiring` | every dialled port is that of exactly the endpoint meant | none: arithmetic |
| `CoordinationProofs!TypesHold` | `[]TypeOK` | `TypeOK /\ RoundOpen` |
| `CoordinationProofs!BarrierInvHolds`, `BarrierHolds` | `[]BarrierInv`, `[]StartBarrier` | `TypeOK /\ RoundOpen /\ BarrierInv` |
| `ExchangeProofs!ExchangeHolds` | `[]Exchange`: who has sent, received and counted what | these and `Exchange` |
| `ExchangeProofs!NoErrorHolds`, `BufferHolds`, `RepliesHold`, `KeysHold`, `TxQueueHolds`, `RowsHold` | `[]NoProtocolError`, `[]BufferExclusive`, `[]RepliesIntact`, `[]KeysIntact`, `[]TxQueueClean`, `[]RowsComplete` | they follow from `Exchange` |
| `ExchangeProofs!SessionHolds` | `Spec => ImplementsSession` | step by step, under `Exchange` |
| `CoordinationProofs!CrashTypesHold` | `CrashSpec => []TypeOK` | `CrashTypeOK` |
| `CoordinationProofs!ConnectionsCounted`, `ConnectedInTheEnd` | `CrashSpec` implies `[]CountsConnections`, `[]EveryoneWasConnected` | `Balance` |
| `CoordinationProofs!RowsWhole` | `CrashSpec => []NoPartialRows` | `CrashTypeOK /\ GatherInv /\ FlowInv` |
| `TransfersProofs!LoopTypes`, `PipelineDepth`, `KeepsSupplied`, `CountsAreExplained`, `DeltasAlwaysAddUp`, `ReportsAreWithin` | the safety properties of the run on Transfers | their conjunction with `Asked` |
| `ScheduleProofs!BoundOfRounds` | `[]RoundsBounded` | `DueInv /\ RoundsBounded` |
| `ScheduleProofs!EachRoundOnce` | `[]EveryRoundOnce` | `OnceInv` |
| `ScheduleProofs!CourseIsFull` | `Prompt` implies `[]FullCourse` | `CourseInv` |
| `TimingProofs!TimesHold`, `DeltasTelescope`, `TimesAddUp` | `[]TimesAreReal`; the time of an array is that of the array before and its delta; `[]DeltasMakeTime` | `TimesInv` |
| `ContextsProofs!NoDoubleFree` | `[]FreedOnce` | `ListInv` |
| `ContextsProofs!IdentifiedHolds` | `[]Identified` | `ListInv` with `IdentInv` |
| `ContextsProofs!HeapStaysSmall`, `LinksAreIntact` | `[]HeapBounded`, `[]LinksFollowed` | `ListInv` with `HeapInv` and `LinkInv` |
| `SetupProofs!NodeHolds`, `FailuresAreFound` | `[]NodeComplete`, `[]NoSilentFailure` | `SetupInv` |
| `ConfigProofs!LastAssignmentWins`, `IdsFollowList`, `DialsWithinList` | `[]LastWins`, `[]ServersInOrder`, `[]ClientsCanDial` | `Inv` |

`TypeOK` alone is not inductive: `rounds <= MaxRounds` needs to know that the
controller opens a round only while `rounds < MaxRounds` (`RoundOpen`).

**The start barrier.** `StartBarrier` is about what the processes hold, and no
process ever looks whose event or completion it has read; so the proof has to
show that what is read is what was meant. `BarrierInv` says:

* `OnlyKeys`: nothing but its keys travels from a server to a client.
* `OwnEvents`: a node's events are about its own endpoints.
* `AtMostOneOpen(i)`: client `i` has at most one receive posted or unread, on
  the connection it waits on. Hence the completion it takes for its keys *is*
  that of its keys (`KeysStored`).
* As long as some client lacks a key, `Gathering`: the controller has not got
  past `controllerConnect`; `Handshake(i)`: it is told once of a request of
  client `i` and once of its connection; `FewSent(i)`: it has sent `i` at most
  two messages (keys, "connect"), which `i` has to read before it waits for
  "start", so that no client starts on a message meant for something else;
  `NotConfirmed(i)`: a client that lacks a key has sent the controller nothing
  and the receive posted for it is still open; and `counter <=
  Cardinality(Confirmed)`: the controller has counted no more confirmations
  than receives that were used up. With one receive still open the count
  cannot be `num_en`.

Once every client is equipped nothing takes its keys away (`EquippedStable`).
The invariant does not need `NoProtocolError`: a process may give up at any of
its error returns and the barrier still holds.

**The exchange of messages.** That nobody ever comes to an error return, and what
the buffers hold, depends on everything that is on its way, since a process
checks the size and the command of what it reads and not where it comes from.
`Exchange` gives the whole conversation. Between the controller and host `h` the
messages are known in advance: `Script(h, k)` is the `k`-th (keys, "connect",
"start", one "checkpoint" per round, "stop"; for a server keys and "stop").
How many of them have been sent (`Sent`) and read (`Got`) follows from where the
two stand, so the queues hold exactly the lines in between (`Down`), and the
receive that is posted is of the size of the next. The other way `Owed` arrays
were asked for, `Answered` were sent, and the open receives are the difference
(`Up`). `TxCount` is the same account for `cq_tx`. The waits of the controller
only count; `counter <= Cardinality(Confirmed)` and one receive per client
(`SlotsOf`) make the counted completions those of *all* clients, and so every row
one of this round (`Rows`). `DataEnd` and `ServerEnd` say that nothing but keys
travels between clients and servers and nothing at all from a server to the
controller. The invariant assumes nothing of the order in which the fabric
delivers on different connections.

Hence `pc[p] # "failed"` is itself a conjunct of the invariant: every error return
needs a message, a size or an event that `Exchange` excludes.

**The refinement.** `Session` knows stages of clients and phases of the
controller, which `ImplementsSession` reads off `pc`. `ExchangeProofs` shows that a
step of a client is getting ready, a cut, an end, or none; that a step of the
controller is one of its phases or none; and that the network is none. The guards
of the abstract steps are where the invariant is needed: that a client cuts only
in a round that is open is `Cuts`, that a round is closed only when every client
has cut is the count of its answers.

The lemmas named `...Own` say that a process touches only its own end of each
queue; `StepOwn` turns them into the case split every later proof uses: a step
of the process, a delivery, or nothing for that process.

**Crashes and the counter.** Nothing of `Exchange` is true once a process has died,
so `CountsConnections` has an invariant of its own, `Balance`: the types with what
faults leave of them (`CrashTypeOK`), the property itself, and `GatherInv`, which says
of every host, while the controller gathers them: one that has not dialled has no
connection (`NotCalled`), a request in the event queue is the only one of its host
and still open (`Requested`), so that no connection is accepted twice, and `accept()`
has made the endpoint of each connection (`Accepted`). An event that is read moves
one unit from the queue to the counter. A connection that comes up, is lost, or
whose end is reported changes one of the two cardinalities of `Believed`, by one and
for exactly that host. Neither the number of hosts, nor that of crashes, nor the
order of the events enters. `EveryoneWasConnected` follows: with `Accepted`, a host
without an endpoint has no connection, so if nothing is unread or unreported the
counter is below the number of hosts.

**The rows after crashes.** `NoPartialRows` cannot use `Exchange` either: its account runs
over all hosts and fails once one has died. `FlowInv` keeps one account per client, and
demands it only as long as the client's connection is up. `Flight(i)` is what client `i`
has still to read of the controller, `Answer(i)` the other way, each with the message
that lies in the buffer. Where the controller stands decides which of the cases holds:
in `waitAllConn` the client is `Joining` (no more than its keys on the way), in
`controllerConnect` it is `Greeted` ("connect" after the keys, or the confirmation on
its way back), later it is `Waiting` for the command of the round, has `Replied` with
the array of this round, or `GaveUp`. The other parts are what makes these cases
inductive:

* `Local(i)`: the client by itself. At most one of its receives is open, so what it reads is
  what it waits for; a dead client has left nothing, so that one who comes back starts from
  empty queues.
* `Heard(i)`: "connected" of a connection comes once, and after it no older request of
  the same host is accepted, so that the keys are sent once per connection. The events of
  `GatherInv` are used here.
* `Collects(i)`: one receive per client, and what comes in on it is what the controller
  expects (`Expected(i)`): the confirmation, the array of this round, the total.
* `Books`: the rows that are complete are those of the last round; the counter of a
  collecting function is at most the number of clients whose confirmation was used up
  (`Done`) or whose array is in place (`InRow`).

The last conjunct closes the argument: the functions leave their loop only at `num_en`, a
count of completions that names no client, and a number that is at most the size of a
subset of the clients and equal to the number of all makes it all of them. The
receive of a client that died is reported as an error, if at all, and an error ends the
function instead of counting (`RxError`): nothing incomplete is written.

The proof has a step for each action. Most of them concern one client: `Bystander` shows
once that a step which leaves alone both ends of a client's connection and what the
controller has of it (`Near`, `Far`, `Desk`, `Mail`) keeps `Local` and `Remote` of that
client, and what is left for each action is the client it is about.

**The supply of a server.** `NeverRunsDry` is inductive only together with
`Pipeline`: a failure moves a write from one place to another, and that it is not
one of a server that is still there needs that only broken connections have
failures. Both are conjuncts of `IInv`, with the types.

**The reports.** `ReportsWithin` follows from what the counts consist of as long as the
answers that have completed are no more than the commands that asked for them, which is
`Asked`; the last command's answer is still to be written when its report is cut, which
is where the "one less" comes from.

**The rounds.** `RoundsBounded` needs what the loop knows when it takes a round:
`DueInv` says that `check` is the next multiple of the interval, that the reading
the loop went on with has reached every round taken, and that a round begins at
"checkpoint" only with the reading that was before the end. The lemma `SecsBelow`
is the step that matters: the test of the loop compares seconds with a fraction,
the test for a checkpoint truncates them. Nothing is assumed of the clock: each
reading is any number.

`OnceInv` adds to `EveryRoundOnce` only what the rows are. `CourseInv`, for a clock
that nobody sets, relates the last reading to the real time: the loop is at most
one checkpoint behind what it has read. Without `Prompt` this is false, and TLC
finds the run: when a round takes longer than an interval the controller takes the
next one at once, but the end of the run cuts off the last.

**The times.** `TimesInv` says that `temp` is the time of the last array sent, that
the times read are those of the stamps, and that the stamps grow, so that
`getDelta` does not meet a difference that is not positive. `DeltasMakeTime` is a
statement about a sum; Timing keeps it as the history variable `summed`, to which
`SendDelta` adds what it sends, and the invariant says that `temp` is equal to it at
all times, also when the clock is set back and `getDelta` gives -1.

**The contexts.** `ListInv` says that the list of free blocks has no block twice
(`Shape`), how far the running function is in its preparations (`Steps`), that what it
holds and will free is not on the list (`Held`), and which contexts may be (`Order`):
the controller has at most one, the block freed last, and its next function takes this
block before it posts; a host has those of endpoints it has connected before (`Past`).
None of this needs that other code keeps off the list. `IdentInv`, `HeapInv` and
`LinkInv` do: while nothing is taken, a context that is posted keeps its id; and two
blocks circulate, or three. `LinkInv` is about the context to the controller, which a
host posts although it is free: it is the last of the list, and in a client it stays
there, because `connect()` frees the entry last and so there are always two blocks
before it. That the list is long enough is `HeapInv`, and that it has not grown is
`LinkInv`, so the two are one induction. For a server only the first half holds; it has
two blocks and takes three.

**The setup.** A process past `Node::init` has all six objects of the node, as
`Node::init` stops at its first failure (`InitStep`: every call finds what those before
it have made). For `FailuresAreFound` the invariant says where a failure still is: as
long as a call has failed and nothing that was never set has been used, some endpoint
lacks an object whose maker has run and whose user is still to come (`Lost`, one of
`Gaps`). That the user does come after the maker, in every program and for every number
of endpoints, is `Ahead`: the functions of a program are in the order of their `Stage`.
Where the user runs it finds the gap, and is recorded in `wild` or cannot succeed; so
at the end, when no user is left, there is none.

**The conf file.** The invariant is the property for the part of a file that has
been read: a key has the value of the last line so far that gives it one, or the
default; the addresses are those of the lines so far, in their order (`Index` of a
line grows by one with each line that is not skipped). `CheckInv` keeps what the
test of `Node::init` found out until the process goes on. In
`ClientsCanDial` the value -1 of `num_pn` counts as `SizeMax`, and no list is as long
(`ConfigAssumption`).

**Only model-checked.**

* Liveness: `EveryoneBegins`, `HostsLeave`, `RunEnds` of Coordination, `DeadHostEndsRun`
  of Crashes, `StopEndsLoop` of Transfers, `Ends` of Schedule. TLAPS has no rule for
  `WF` here and does not prove statements with `ENABLED`.

Every safety invariant that a passing run checks is stated by a theorem.

## 6. Not modelled

* `rdma_read` has no caller; the content of the data buffer (`setDataBuffer`) is
  never read; the threaded transfer (`cq_thread`, `client_thread`) is inside a
  comment; `host2ip` is not called; the scripts start processes and plot.
* The bandwidths and their layout in the rows: arithmetic in floating point on
  numbers that Transfers and Timing have.
* The fall-through of `Endpoint::connect` on `-FI_EAGAIN`: with a timeout of -1
  `fi_eq_sread` does not return it.
* Waits that have no end and no property: the controller that waits for an array
  of a host that died after it was asked (its receive need not fail), and a
  host whose controller died, which polls until it is killed (`Node.cpp:370`, `519`).
  `DeadHostEndsRun` is stated for the place between rounds, where the code does get
  out.
* Hosts that read different conf files: Coordination has one `NumEN` and `NumPN`
  for all.
* Data writes inside Coordination: Transfers has them, for one client. Times inside
  Coordination: Schedule has them; `BoundOfRounds` is what connects the two.
* In Contexts, blocks that the process has freed before its first function, and what
  a list of free blocks is after a link in it was followed: the process dies of it, or
  the rest of the list is lost.
* An array of a checkpoint that does not fit the control buffer (more than 25 servers
  with the default settings): what the copy at `Node.cpp:423` overwrites is undefined.
  Coordination takes the arrays to fit.
* The name of the result file: Schedule has its ten characters and any tail, another for
  each row if need be (`Main.cpp:60`); its properties allow for any.
* Allocation failures; the destructors (`~Node`, `~Endpoint`), which run at exit,
  if at all; two processes started with the same id.
* The keys of the conf file other than `num_en` and `num_pn`, and the hints for
  libfabric: values that no step changes. Their effect on ports is in Topology.

## 7. Plan

What was planned is done: the controller, the clients and the servers with the
barrier and the refinement of `Session` first, then the loop of one client, crashes,
the clock, contexts, setup and the conf file; each with its run, and with theorems for
every safety invariant of the passing runs and for the refinement.

What could follow, in this order:

1. Data writes composed with the coordination: Transfers as the loop of each client of
   Coordination, so that "stop" reaches clients whose writes are still in flight.
2. The safety half of liveness: a variant for each function of the controller, proved to
   decrease with each of its steps, which would leave to TLC only that steps are taken.
3. A controller that crashes: the clients then poll without end (section 6), so the
   statement would be about what they leave in the fabric.
4. Hosts with different conf files, and the ports that collide then.
