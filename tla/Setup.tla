-------------------------------- MODULE Setup --------------------------------
(***************************************************************************)
(* How a process opens its libfabric objects, when single calls fail:      *)
(* main(), Node::init, the constructor of Endpoint and its functions       *)
(* server(), client(), listen(), connect(), accept() and sendKeys().       *)
(*                                                                         *)
(* Every function is a sequence of library calls, each of which makes an   *)
(* object and is given others.  Node::init, listen(), connect(), accept()  *)
(* and sendKeys() hand a failure on, and the process ends; the constructor *)
(* goes on, and what server() and client() return is not looked at.  A     *)
(* call that is given something that was never made uses a pointer that    *)
(* was never set; one that lacks what it depends on in the library fails,  *)
(* or waits for ever (external).                                           *)
(***************************************************************************)
EXTENDS Integers, Sequences, FiniteSets

CONSTANTS
  NumEp,       \* config->num_ep
  MaxFailures  \* bound on the calls that fail

ASSUME SetupAssumption == NumEp \in Nat \ {0} /\ MaxFailures \in Nat

Cep == NumEp
Ep  == 0 .. NumEp

NodeObject == {"fi", "fabric", "eq", "domain", "cq_tx", "cq_rx"}
VARIABLES
  role,     \* "client", "server", "controller"
  todo,     \* the functions to call, <<name, endpoint>>
  pc,       \* "run", "failed" (an error was returned), "died"
  open,     \* the objects of the node
  has,      \* has[n]: the objects of endpoint n
  failures, \* calls that have failed
  wild      \* objects that were used and never made

vars == <<role, todo, pc, open, has, failures, wild>>

-----------------------------------------------------------------------------
(* The functions. *)

\* A call is given the objects it needs and succeeds only with those it wants.
CallIf(makes, needs, wants) == [makes |-> makes, needs |-> needs, wants |-> wants]
Call(makes, needs) == CallIf(makes, needs, {})

\* Node::init up to the endpoints.
OpenNode == << Call("fi", {}), Call("fabric", {"fi"}), Call("eq", {"fabric"}),
               Call("domain", {"fabric", "fi"}), Call("cq_tx", {"domain"}),
               Call("cq_rx", {"domain"}) >>

Constructor == << Call("ep_fi", {}), Call("mr", {"domain"}), Call("cmr", {"domain"}),
                  Call("rkey", {"mr"}) >>

Server == << Call("pep", {"fabric", "ep_fi"}), Call("pep_eq", {"pep", "eq"}) >>

Bind == << Call("ep_eq", {"ep", "eq"}), Call("ep_tx", {"ep", "cq_tx"}),
           Call("ep_rx", {"ep", "cq_rx"}), Call("enabled", {"ep"}) >>

Client == <<Call("ep", {"domain", "ep_fi"})>> \o Bind

Listen == <<Call("listening", {"pep"})>>

\* connect() posts a receive, asks for the connection and waits for it and for
\* the keys of the peer.
Connect == << CallIf("recv", {"ep", "cmr"}, {"enabled"}),
              CallIf("asked", {"ep", "ep_fi"}, {"enabled"}),
              CallIf("connected", {"eq"}, {"ep_eq"}),
              CallIf("keys", {"cq_rx"}, {"recv"}) >>

\* The request comes through a passive endpoint that is bound and listening, and
\* brings the info the endpoint is made from.
Accept == << CallIf("request", {"eq"}, {"pep_eq", "listening"}),
             Call("ep", {"domain"}) >> \o Bind \o <<Call("accepted", {"ep"})>>

\* waitAllConn answers a connection with the keys.
SendKeys == <<CallIf("sent", {"ep", "cmr", "rkey"}, {"enabled"})>>

Calls(name) ==
  CASE name = "init"        -> OpenNode
    [] name = "constructor" -> Constructor
    [] name = "server"      -> Server
    [] name = "client"      -> Client
    [] name = "listen"      -> Listen
    [] name = "connect"     -> Connect
    [] name = "accept"      -> Accept
    [] name = "sendKeys"    -> SendKeys

ForEach(name) == [k \in 1 .. NumEp |-> <<name, k - 1>>]

\* Node::init, then what the process calls on its endpoints.
Program(r) ==
  << <<"init", 0>> >> \o ForEach("constructor") \o
  CASE r = "server"     -> << <<"constructor", Cep>>, <<"client", Cep>> >> \o ForEach("server")
                             \o ForEach("listen") \o << <<"connect", Cep>> >> \o ForEach("accept")
                             \o ForEach("sendKeys")
    [] r = "client"     -> << <<"constructor", Cep>>, <<"client", Cep>> >> \o ForEach("client")
                             \o << <<"connect", Cep>> >> \o ForEach("connect")
    [] r = "controller" -> ForEach("server") \o ForEach("listen") \o ForEach("accept")
                             \o ForEach("sendKeys")

Init ==
  /\ role \in {"client", "server", "controller"} /\ todo = Program(role)
  /\ pc = "run" /\ open = {} /\ has = [n \in Ep |-> {}] /\ failures = 0 /\ wild = {}

-----------------------------------------------------------------------------

Name == Head(todo)[1]
This == Head(todo)[2]
Made(S) == {Calls(Name)[k].makes : k \in S}

\* The calls of S are made and those of F among them fail; what they need may be
\* missing, and then the process may die of it.
Perform(S, F) ==
  LET there(k) == open \cup has[This] \cup Made({j \in S \ F : j < k})
      missing  == UNION {Calls(Name)[k].needs \ there(k) : k \in S}
  IN /\ failures + Cardinality(F) <= MaxFailures
     /\ failures' = failures + Cardinality(F)
     /\ \A k \in S \ F : Calls(Name)[k].wants \subseteq there(k)
     /\ IF Name = "init"
        THEN open' = open \cup Made(S \ F) /\ UNCHANGED has
        ELSE has' = [has EXCEPT ![This] = @ \cup Made(S \ F)] /\ UNCHANGED open
     /\ wild' = wild \cup missing
     /\ todo' = Tail(todo)
     /\ UNCHANGED role

\* How a function may go: it stops after its first failure, but for the
\* constructor, which makes all its calls; fi_mr_key does not fail.
Outcome(name) ==
  IF name = "constructor"
  THEN {[made |-> DOMAIN Calls(name), fail |-> F] : F \in SUBSET (1 .. 3)}
  ELSE {[made |-> DOMAIN Calls(name), fail |-> {}]}
         \cup {[made |-> 1 .. k, fail |-> {k}] : k \in DOMAIN Calls(name)}

\* Mutant: Node::init goes on with the endpoints after a failure.
Ignored_Init == {"init", "constructor", "server", "client"}

\* Mutant: what connect() returns is not looked at either.
Ignored_Connect == {"constructor", "server", "client", "connect"}

\* The functions whose result their caller does not look at.
Ignored == {"constructor", "server", "client"}

Step ==
  /\ pc = "run" /\ todo # <<>>
  /\ \E o \in Outcome(Name) :
       /\ Perform(o.made, o.fail)
       /\ pc' \in {IF o.fail # {} /\ Name \notin Ignored THEN "failed" ELSE "run"}
                    \cup (IF wild' # wild THEN {"died"} ELSE {})

Next == Step

Spec == Init /\ [][Next]_vars

-----------------------------------------------------------------------------
(* Properties. *)

\* Whatever fails, no endpoint is made from a node that is not complete
\* (Node::init returns at its first failure, and main() with it).
NodeComplete == wild \cap NodeObject = {}

\* A failure nobody looks at is not lost: no process comes through its setup with
\* it, to benchmark on what was never made.  Before that it is found as the failure
\* of another function, as the use of what the failed call should have made, or as a
\* request that never comes.
NoSilentFailure == pc = "run" /\ todo = <<>> /\ wild = {} => failures = 0

=============================================================================
