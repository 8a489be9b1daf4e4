------------------------------ MODULE Contexts ------------------------------
(***************************************************************************)
(* The receive contexts of the endpoints (Endpoint::rx_ctx) and the heap.  *)
(*                                                                         *)
(* ctrl_recv stores the id and the size of a receive in rx_ctx, which is   *)
(* allocated once; connect() and the functions of the controller free the  *)
(* context that the last completion brought, and ctrl_recv uses it again.  *)
(* A context (12 bytes) and a completion entry (24) come from the same     *)
(* list of free blocks: malloc takes the block that was freed last, and    *)
(* the first bytes of a free block link it to the next (external).         *)
(*                                                                         *)
(* Every function that posts receives first prepares them: it allocates a  *)
(* context, an entry, both or none, in its own order, and posts.  Then it  *)
(* waits for completions, which are written into the entry, and frees what *)
(* it holds.  The process runs its functions one after the other.          *)
(*                                                                         *)
(* A receive may be posted on a context that is free, and so overwrite its *)
(* link.  When that block is allocated, the list begins where the link     *)
(* points: the next allocation follows it and the process may die of that, *)
(* or, when the C library counts the blocks of a list, takes a new block.  *)
(***************************************************************************)
EXTENDS Integers, Sequences, FiniteSets

CONSTANTS
  NumEp,       \* endpoints besides the one to the controller
  Roles,       \* of these processes: "controller", "client", "server"
  Rounds,      \* checkpoints
  Others       \* bound on the blocks other code of the process takes

ASSUME ContextsAssumption ==
  /\ NumEp \in Nat \ {0} /\ Rounds \in Nat /\ Others \in Nat
  /\ Roles \subseteq {"controller", "client", "server"}

Ep  == 0 .. NumEp - 1
Cep == NumEp          \* the endpoint of a host to the controller

\* Block e is the receive context of endpoint e, SendCtx a context of sends;
\* the blocks above are for what is allocated later.
SendCtx  == NumEp + 1
LastBlock == SendCtx + 4 + 2 * Others
Block    == 0 .. LastBlock
NotCtx   == -1        \* a block holds something else than a context

VARIABLES
  role,    \* which process this is
  todo,    \* the functions still to run, the current one first
  phase,   \* "idle", "prepare", "send", "receive", "done", "dead"
  step,    \* the preparation that comes next
  free,    \* the free blocks, the one freed last first
  top,     \* the first block never allocated
  content, \* content[b]: the endpoint whose id and size b holds, or NotCtx
  ctx,     \* the local variables ctx and msg_entry: a block
  entry,
  event,   \* the event entry of a server: a block
  posted,  \* endpoints with a receive posted
  again,   \* receives posted after the first in the loop of the benchmark
  taken,   \* blocks other code has taken
  broken,  \* free blocks whose link was overwritten
  loose,   \* the list of free blocks begins where such a link points
  wild     \* history: a context was read that was not that of the completion

heapVars  == <<free, top, broken, loose>>
localVars == <<ctx, entry, event>>
vars == <<role, todo, phase, step, heapVars, content, localVars, posted, again, taken, wild>>

-----------------------------------------------------------------------------
(* The functions. *)

\* prepares: in this order; posts: on which endpoints; sends: waits for completions of
\* sends; reads: looks into the context a completion brings; frees: in this order.
Function(prepares, posts, sends, reads, frees) ==
  [prepares |-> prepares, posts |-> posts, sends |-> sends, reads |-> reads,
   frees |-> frees]

Command(frees) == Function(<<"ctx", "post", "entry">>, Ep, TRUE, TRUE, frees)

ControllerConnect    == Command(<<"entry", "ctx">>)
ControllerStart      == Function(<<"entry">>, {}, TRUE, FALSE, <<"entry">>)
ControllerStop       == Command(<<"entry", "ctx">>)

\* Mutant: the context that is allocated only to be replaced is not allocated.
ControllerCheckpoint_NoCtx ==
  Function(<<"post", "entry">>, Ep, TRUE, TRUE, <<"entry", "ctx">>)

\* Mutant: nothing is freed.
ControllerCheckpoint_NoFree == Command(<<>>)

ControllerCheckpoint == Command(<<"entry", "ctx">>)

\* Mutant: the frees of connect() in the order of the other functions.
Connect_EntryFirst(e) ==
  Function(<<"post", "entry">>, {e}, FALSE, TRUE, <<"entry", "ctx">>)

Connect(e) == Function(<<"post", "entry">>, {e}, FALSE, TRUE, <<"ctx", "entry">>)

Await(sends, frees) == Function(<<"post", "entry">>, {Cep}, sends, FALSE, frees)

\* Mutant: the context of the completion is freed, as elsewhere.
ConnectToController_FreesCtx ==
  Function(<<"post", "entry">>, {Cep}, FALSE, TRUE, <<"entry", "ctx">>)

ConnectToController == Await(FALSE, <<"entry">>)
ConfirmToController == Await(TRUE, <<"entry">>)
Benchmark      == Function(<<"ctx", "entry", "post">>, {Cep}, FALSE, FALSE, <<"entry", "ctx">>)
ServeUntilStop == Function(<<"post", "ctx", "entry", "event">>, {Cep}, FALSE, FALSE,
                           <<"entry", "event", "ctx">>)

Program(r) ==
  CASE r = "controller" -> <<ControllerConnect, ControllerStart>>
                           \o [k \in 1 .. Rounds |-> ControllerCheckpoint]
                           \o <<ControllerStop>>
    [] r = "client"     -> <<Connect(Cep), ConnectToController>>
                           \o [k \in 1 .. NumEp |-> Connect(k - 1)]
                           \o <<ConfirmToController, Benchmark>>
    [] r = "server"     -> <<Connect(Cep), ServeUntilStop>>

-----------------------------------------------------------------------------
(* The heap. *)

NextBlock == IF free = <<>> THEN top ELSE Head(free)

\* The block freed last is taken, or a new one.  With an overwritten link the rest of
\* the list is lost.
Malloc ==
  /\ free'  = IF free = <<>> \/ NextBlock \in broken THEN <<>> ELSE Tail(free)
  /\ top'   = IF free = <<>> THEN top + 1 ELSE top
  /\ loose' = (NextBlock \in broken)
  /\ broken' = broken \ {NextBlock}

IsFree(b) == \E k \in DOMAIN free : free[k] = b

\* ctrl_recv on the endpoints of S: it writes into their contexts, free or not.
CtrlRecv(S) ==
  /\ posted' = S
  /\ content' = [b \in Block |-> IF b \in S THEN b ELSE content[b]]
  /\ broken' = broken \cup {b \in S : IsFree(b)}
  /\ UNCHANGED <<free, top, loose>>

Init ==
  /\ role \in Roles /\ todo = Program(role) /\ phase = "idle" /\ step = 1
  /\ free = <<>> /\ top = SendCtx + 1
  /\ content = [b \in Block |-> IF b <= SendCtx THEN b ELSE NotCtx]
  /\ ctx = SendCtx /\ entry = SendCtx /\ event = SendCtx /\ posted = {} /\ again = 0
  /\ taken = {} /\ broken = {} /\ loose = FALSE /\ wild = FALSE

-----------------------------------------------------------------------------
(* The steps of a function. *)

Begin ==
  /\ phase = "idle" /\ todo # <<>>
  /\ phase' = "prepare" /\ step' = 1
  /\ UNCHANGED <<role, todo, heapVars, content, localVars, posted, again, taken, wild>>

\* The next preparation is x; after the last one the function waits.
Prepare(x) ==
  LET f == Head(todo) IN
  /\ phase = "prepare" /\ f.prepares[step] = x
  /\ step' = step + 1
  /\ phase' = IF step < Len(f.prepares) THEN phase ELSE IF f.sends THEN "send" ELSE "receive"
  /\ UNCHANGED <<role, todo, again, taken, wild>>

TakeCtx ==
  /\ Prepare("ctx")
  /\ Malloc /\ ctx' = NextBlock
  /\ UNCHANGED <<content, entry, event, posted>>

TakeEntry ==
  /\ Prepare("entry")
  /\ Malloc /\ entry' = NextBlock
  /\ UNCHANGED <<content, ctx, event, posted>>

TakeEvent ==
  /\ Prepare("event")
  /\ Malloc /\ event' = NextBlock
  /\ UNCHANGED <<content, ctx, entry, posted>>

Post ==
  /\ Prepare("post")
  /\ CtrlRecv(Head(todo).posts)
  /\ UNCHANGED localVars

\* The process itself, or other code in it, allocates a block of this size next.
MallocNext ==
  \/ phase = "prepare" /\ Head(todo).prepares[step] # "post"
  \/ Cardinality(taken) < Others

\* It follows a link that was overwritten.
Stray ==
  /\ todo # <<>> /\ phase # "dead" /\ loose /\ MallocNext
  /\ phase' = "dead"
  /\ UNCHANGED <<role, todo, step, heapVars, content, localVars, posted, again, taken, wild>>

InBenchmark == role = "client" /\ Head(todo) = Benchmark

\* fi_cq_read writes into the entry.
CqRead == content' = [content EXCEPT ![entry] = NotCtx]

\* The sends complete; nobody looks into their contexts.
ReapSends ==
  /\ phase = "send"
  /\ CqRead
  /\ phase' = IF Head(todo).posts = {} THEN "done" ELSE "receive"
  /\ UNCHANGED <<role, todo, step, heapVars, localVars, posted, again, taken, wild>>

\* In the loop of the benchmark a write or an answer completes, and ctx is the
\* context it was sent with from then on.
ReapWrite ==
  /\ phase = "receive" /\ InBenchmark
  /\ CqRead
  /\ ctx' = SendCtx
  /\ UNCHANGED <<role, todo, phase, step, heapVars, entry, event, posted, again, taken, wild>>

\* A receive completes.  What its context says of endpoint and size is read from
\* the block after the entry has been written.
ReapReceive ==
  /\ phase = "receive"
  /\ CqRead
  /\ \E e \in posted :
       /\ posted' = posted \ {e}
       /\ IF Head(todo).reads
          THEN ctx' = e /\ wild' = (wild \/ content'[e] # e)
          ELSE UNCHANGED <<ctx, wild>>
  /\ UNCHANGED <<role, todo, phase, step, heapVars, entry, event, again, taken>>

\* The loop of the benchmark expects the next command.
PostAgain ==
  /\ phase = "receive" /\ posted = {} /\ InBenchmark
  /\ again < Rounds /\ again' = again + 1
  /\ CtrlRecv({Cep})
  /\ UNCHANGED <<role, todo, phase, step, localVars, taken, wild>>

\* What is freed comes to the front of the list, one block after the other; the first
\* is linked to where the list began.
End ==
  /\ phase \in {"receive", "done"} /\ posted = {}
  /\ LET block == [ctx |-> ctx, entry |-> entry, event |-> event]
         frees == Head(todo).frees
         n     == Len(frees)
     IN /\ free' = [k \in 1 .. n |-> block[frees[n + 1 - k]]] \o free
        /\ broken' = IF loose /\ n > 0 THEN broken \cup {block[frees[1]]} ELSE broken
        /\ loose' = (loose /\ n = 0)
  /\ todo' = Tail(todo) /\ phase' = "idle"
  /\ UNCHANGED <<role, step, top, content, localVars, posted, again, taken, wild>>

-----------------------------------------------------------------------------
(* Other code of the process: the libraries. *)

OtherMalloc ==
  /\ todo # <<>> /\ phase # "dead" /\ Cardinality(taken) < Others
  /\ Malloc
  /\ taken' = taken \cup {NextBlock}
  /\ UNCHANGED <<role, todo, phase, step, content, localVars, posted, again, wild>>

OtherWrites ==
  /\ todo # <<>> /\ phase # "dead"
  /\ \E b \in taken : content' = [content EXCEPT ![b] = NotCtx]
  /\ UNCHANGED <<role, todo, phase, step, heapVars, localVars, posted, again, taken, wild>>

Next == Begin \/ TakeCtx \/ TakeEntry \/ TakeEvent \/ Post \/ Stray
        \/ ReapSends \/ ReapWrite \/ ReapReceive \/ PostAgain \/ End
        \/ OtherMalloc \/ OtherWrites

Spec == Init /\ [][Next]_vars

-----------------------------------------------------------------------------
(* Properties. *)

\* Node.cpp:969, "wait for a completion and return the custom context of the
\* respective completion": the id by which the controller finds the buffer and the
\* row of a client, and the size connect() compares, are those of the receive that
\* completed, although their block was freed after an earlier round; but only as
\* long as no other code takes a block of this size from the list.
Identified == taken = {} => ~wild

\* No block is freed while it is free, whatever the others take.
FreedOnce == \A j, k \in DOMAIN free : free[j] = free[k] => j = k

\* What a process allocates does not grow with the rounds, although every
\* round drops the context it has allocated: it frees another one instead.
HeapBounded == taken = {} => top <= SendCtx + 3

\* A client posts its context to the controller while it is free, for every command it
\* awaits, and overwrites the link of a block in the list.  It never takes that block
\* again, because connect() frees the context before the entry and so leaves it at the
\* end; and the controller takes the context it has freed before it posts.  So no
\* allocation follows an overwritten link, whoever makes it.  In a server the second
\* allocation after its post takes the very block and the third one, Node.cpp:514,
\* follows the link.
LinksFollowed == taken = {} /\ role # "server" => ~loose

=============================================================================
