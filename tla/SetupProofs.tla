------------------------------ MODULE SetupProofs ------------------------------
(***************************************************************************)
(* Opening a process's objects when calls fail, for every number of        *)
(* endpoints and failures.                                                 *)
(***************************************************************************)
EXTENDS Setup, FiniteSetTheorems, TLAPS

-----------------------------------------------------------------------------
(* The calls of a function. *)

Names == {"constructor", "server", "client", "listen", "connect", "accept", "sendKeys"}
Job   == Names \X Ep
First == <<"init", 0>>

LEMMA InitCalls ==
  /\ Calls("init") = OpenNode /\ Len(OpenNode) = 6 /\ DOMAIN OpenNode = 1 .. 6
  /\ OpenNode[1].makes = "fi"     /\ OpenNode[1].needs = {}
  /\ OpenNode[2].makes = "fabric" /\ OpenNode[2].needs = {"fi"}
  /\ OpenNode[3].makes = "eq"     /\ OpenNode[3].needs = {"fabric"}
  /\ OpenNode[4].makes = "domain" /\ OpenNode[4].needs = {"fabric", "fi"}
  /\ OpenNode[5].makes = "cq_tx"  /\ OpenNode[5].needs = {"domain"}
  /\ OpenNode[6].makes = "cq_rx"  /\ OpenNode[6].needs = {"domain"}
<1>1. Calls("init") = OpenNode
  BY DEF Calls
<1>2. /\ Len(OpenNode) = 6 /\ DOMAIN OpenNode = 1 .. 6
      /\ OpenNode[1] = Call("fi", {})           /\ OpenNode[2] = Call("fabric", {"fi"})
      /\ OpenNode[3] = Call("eq", {"fabric"})   /\ OpenNode[4] = Call("domain", {"fabric", "fi"})
      /\ OpenNode[5] = Call("cq_tx", {"domain"}) /\ OpenNode[6] = Call("cq_rx", {"domain"})
  BY DEF OpenNode
<1> QED BY <1>1, <1>2 DEF Call, CallIf

LEMMA Concatenation ==
  ASSUME NEW T, NEW a \in Seq(T), NEW b \in Seq(T)
  PROVE  /\ a \o b \in Seq(T) /\ Len(a \o b) = Len(a) + Len(b)
         /\ \A j \in 1 .. Len(a) : (a \o b)[j] = a[j]
         /\ \A j \in Len(a) + 1 .. Len(a) + Len(b) : (a \o b)[j] = b[j - Len(a)]
<1>1. a \o b \in Seq(T) /\ Len(a \o b) = Len(a) + Len(b)
  OBVIOUS
<1>2. ASSUME NEW j \in 1 .. Len(a) PROVE (a \o b)[j] = a[j]
  OBVIOUS
<1>3. ASSUME NEW j \in Len(a) + 1 .. Len(a) + Len(b) PROVE (a \o b)[j] = b[j - Len(a)]
  OBVIOUS
<1> QED BY <1>1, <1>2, <1>3

CallSet == {Call("ep", {"domain", "ep_fi"}), Call("ep", {"domain"}),
            Call("ep_eq", {"ep", "eq"}), Call("ep_tx", {"ep", "cq_tx"}),
            Call("ep_rx", {"ep", "cq_rx"}), Call("enabled", {"ep"}),
            CallIf("request", {"eq"}, {"pep_eq", "listening"}),
            Call("accepted", {"ep"})}

LEMMA BindCalls ==
  /\ Bind \in Seq(CallSet) /\ Len(Bind) = 4
  /\ \A k \in 1 .. 3 : Bind[k].makes \in {"ep_eq", "ep_tx", "ep_rx"}
  /\ Bind[4].makes = "enabled"
<1>1. Bind \in Seq(CallSet)
  BY DEF Bind, CallSet
<1>2. /\ Len(Bind) = 4
      /\ Bind[1] = Call("ep_eq", {"ep", "eq"}) /\ Bind[2] = Call("ep_tx", {"ep", "cq_tx"})
      /\ Bind[3] = Call("ep_rx", {"ep", "cq_rx"}) /\ Bind[4] = Call("enabled", {"ep"})
  BY DEF Bind
<1>3. \A k \in 1 .. 3 : k \in {1, 2, 3}
  OBVIOUS
<1> QED BY <1>1, <1>2, <1>3 DEF Call, CallIf

\* client() makes the endpoint, binds it, and enables it last.
LEMMA ClientCalls ==
  /\ Calls("client") = Client /\ DOMAIN Client = 1 .. 5
  /\ Client[1].needs = {"domain", "ep_fi"} /\ Client[5].makes = "enabled"
  /\ \A k \in 1 .. 4 : Client[k].makes \in {"ep", "ep_eq", "ep_tx", "ep_rx"}
<1> DEFINE a == <<Call("ep", {"domain", "ep_fi"})>>
<1>1. a \in Seq(CallSet) /\ Len(a) = 1 /\ a[1].makes = "ep" /\ a[1].needs = {"domain", "ep_fi"}
  <2>1. a \in Seq(CallSet)
    BY DEF CallSet
  <2>2. Len(a) = 1 /\ a[1] = Call("ep", {"domain", "ep_fi"})
    OBVIOUS
  <2> QED BY <2>1, <2>2 DEF Call, CallIf
<1>2. Client = a \o Bind /\ Calls("client") = Client
  BY DEF Client, Calls
<1> HIDE DEF a
<1>3. /\ Client \in Seq(CallSet) /\ Len(Client) = Len(a) + Len(Bind)
      /\ \A j \in 1 .. Len(a) : Client[j] = a[j]
      /\ \A j \in Len(a) + 1 .. Len(a) + Len(Bind) : Client[j] = Bind[j - Len(a)]
  <2> DEFINE c == a \o Bind
  <2>1. a \in Seq(CallSet) /\ Bind \in Seq(CallSet)
    BY <1>1, BindCalls
  <2>2. /\ c \in Seq(CallSet) /\ Len(c) = Len(a) + Len(Bind)
        /\ \A j \in 1 .. Len(a) : c[j] = a[j]
        /\ \A j \in Len(a) + 1 .. Len(a) + Len(Bind) : c[j] = Bind[j - Len(a)]
    BY <2>1, Concatenation, Zenon
  <2>3. Client = c
    BY <1>2
  <2> HIDE DEF c
  <2> QED BY <2>2, <2>3
<1>4. /\ DOMAIN Client = 1 .. 5 /\ Client[1] = a[1] /\ Client[5] = Bind[4]
      /\ \A k \in 2 .. 4 : Client[k] = Bind[k - 1] /\ k - 1 \in 1 .. 3
  BY <1>1, <1>3, BindCalls
<1>5. ASSUME NEW k \in 1 .. 4 PROVE Client[k].makes \in {"ep", "ep_eq", "ep_tx", "ep_rx"}
  <2>1. k = 1 \/ k \in 2 .. 4
    OBVIOUS
  <2>2. CASE k = 1
    BY <1>1, <1>4, <2>2
  <2>3. CASE k \in 2 .. 4
    BY <1>4, <2>3, BindCalls
  <2> QED BY <2>1, <2>2, <2>3
<1> QED BY <1>1, <1>2, <1>4, <1>5, BindCalls

\* accept() waits for a request first.
LEMMA AcceptCalls ==
  /\ Calls("accept") = Accept /\ DOMAIN Accept = 1 .. 7
  /\ Accept[1].needs = {"eq"} /\ Accept[1].wants = {"pep_eq", "listening"}
  /\ \A k \in 1 .. 7 :
       Accept[k].makes \in {"request", "ep", "ep_eq", "ep_tx", "ep_rx", "enabled", "accepted"}
<1> DEFINE a == <<CallIf("request", {"eq"}, {"pep_eq", "listening"}), Call("ep", {"domain"})>>
           b == <<Call("accepted", {"ep"})>>
           c == a \o Bind
<1>1. /\ a \in Seq(CallSet) /\ Len(a) = 2 /\ a[1].makes = "request" /\ a[1].needs = {"eq"}
      /\ a[1].wants = {"pep_eq", "listening"} /\ a[2].makes = "ep"
  <2>1. a \in Seq(CallSet)
    BY DEF CallSet
  <2>2. /\ Len(a) = 2 /\ a[1] = CallIf("request", {"eq"}, {"pep_eq", "listening"})
        /\ a[2] = Call("ep", {"domain"})
    OBVIOUS
  <2> QED BY <2>1, <2>2 DEF Call, CallIf
<1>2. b \in Seq(CallSet) /\ Len(b) = 1 /\ b[1].makes = "accepted"
  <2>1. b \in Seq(CallSet)
    BY DEF CallSet
  <2>2. Len(b) = 1 /\ b[1] = Call("accepted", {"ep"})
    OBVIOUS
  <2> QED BY <2>1, <2>2 DEF Call, CallIf
<1>3. Accept = c \o b /\ Calls("accept") = Accept
  BY DEF Accept, Calls
<1> HIDE DEF a, b
<1>4. /\ c \in Seq(CallSet) /\ Len(c) = 6
      /\ \A j \in 1 .. 2 : c[j] = a[j]
      /\ \A j \in 3 .. 6 : c[j] = Bind[j - 2]
  <2>1. /\ c \in Seq(CallSet) /\ Len(c) = Len(a) + Len(Bind)
        /\ \A j \in 1 .. Len(a) : c[j] = a[j]
        /\ \A j \in Len(a) + 1 .. Len(a) + Len(Bind) : c[j] = Bind[j - Len(a)]
    <3>1. a \in Seq(CallSet) /\ Bind \in Seq(CallSet)
      BY <1>1, BindCalls
    <3> QED BY <3>1, Concatenation, Zenon
  <2> QED BY <1>1, <2>1, BindCalls
<1> HIDE DEF c
<1>5. /\ Accept \in Seq(CallSet) /\ Len(Accept) = 7
      /\ \A j \in 1 .. 6 : Accept[j] = c[j]
      /\ Accept[7] = b[1]
  <2>1. /\ c \o b \in Seq(CallSet) /\ Len(c \o b) = Len(c) + Len(b)
        /\ \A j \in 1 .. Len(c) : (c \o b)[j] = c[j]
        /\ \A j \in Len(c) + 1 .. Len(c) + Len(b) : (c \o b)[j] = b[j - Len(c)]
    <3>1. c \in Seq(CallSet) /\ b \in Seq(CallSet)
      BY <1>2, <1>4
    <3> QED BY <3>1, Concatenation, Zenon
  <2> QED BY <1>2, <1>3, <1>4, <2>1
<1>6. /\ DOMAIN Accept = 1 .. 7 /\ Accept[1] = a[1] /\ Accept[2] = a[2] /\ Accept[7] = b[1]
      /\ \A k \in 3 .. 6 : Accept[k] = Bind[k - 2] /\ k - 2 \in 1 .. 4
  BY <1>4, <1>5
<1>7. ASSUME NEW k \in 1 .. 7
      PROVE  Accept[k].makes \in {"request", "ep", "ep_eq", "ep_tx", "ep_rx", "enabled",
                                  "accepted"}
  <2>1. k \in {1, 2, 7} \/ k \in 3 .. 6
    OBVIOUS
  <2>2. CASE k \in {1, 2, 7}
    BY <1>1, <1>2, <1>6, <2>2
  <2>3. CASE k \in 3 .. 6
    <3>1. k - 2 \in 1 .. 3 \/ k - 2 = 4
      BY <2>3
    <3> QED BY <1>6, <2>3, <3>1, BindCalls
  <2> QED BY <2>1, <2>2, <2>3
<1> QED BY <1>1, <1>3, <1>6, <1>7

LEMMA OtherCalls ==
  /\ Calls("constructor") = Constructor /\ DOMAIN Constructor = 1 .. 4
  /\ Constructor[1].makes = "ep_fi" /\ Constructor[2].makes = "mr"
  /\ Constructor[3].makes = "cmr" /\ Constructor[4].makes = "rkey"
  /\ Constructor[4].needs = {"mr"}
  /\ Calls("server") = Server /\ DOMAIN Server = 1 .. 2
  /\ Server[1].makes = "pep" /\ Server[2].makes = "pep_eq"
  /\ Server[1].needs = {"fabric", "ep_fi"}
  /\ Calls("listen") = Listen /\ DOMAIN Listen = 1 .. 1
  /\ Listen[1].makes = "listening" /\ Listen[1].needs = {"pep"}
  /\ Calls("connect") = Connect /\ DOMAIN Connect = 1 .. 4
  /\ Connect[1].makes = "recv" /\ Connect[2].makes = "asked"
  /\ Connect[3].makes = "connected" /\ Connect[4].makes = "keys"
  /\ Connect[1].needs = {"ep", "cmr"} /\ Connect[1].wants = {"enabled"}
  /\ Calls("sendKeys") = SendKeys /\ DOMAIN SendKeys = 1 .. 1
  /\ SendKeys[1].makes = "sent" /\ SendKeys[1].needs = {"ep", "cmr", "rkey"}
<1>1. /\ Calls("constructor") = Constructor /\ Calls("server") = Server
      /\ Calls("listen") = Listen /\ Calls("connect") = Connect
      /\ Calls("sendKeys") = SendKeys
  BY DEF Calls
<1>2. /\ DOMAIN Constructor = 1 .. 4
      /\ Constructor[1].makes = "ep_fi" /\ Constructor[2].makes = "mr"
      /\ Constructor[3].makes = "cmr" /\ Constructor[4].makes = "rkey"
      /\ Constructor[4].needs = {"mr"}
  BY DEF Constructor, Call, CallIf
<1>3. /\ DOMAIN Server = 1 .. 2 /\ Server[1].makes = "pep" /\ Server[2].makes = "pep_eq"
      /\ Server[1].needs = {"fabric", "ep_fi"}
  BY DEF Server, Call, CallIf
<1>4. /\ DOMAIN Listen = 1 .. 1 /\ Listen[1].makes = "listening" /\ Listen[1].needs = {"pep"}
      /\ DOMAIN SendKeys = 1 .. 1 /\ SendKeys[1].makes = "sent"
      /\ SendKeys[1].needs = {"ep", "cmr", "rkey"}
  BY DEF Listen, SendKeys, Call, CallIf
<1>5. /\ DOMAIN Connect = 1 .. 4
      /\ Connect[1].makes = "recv" /\ Connect[2].makes = "asked"
      /\ Connect[3].makes = "connected" /\ Connect[4].makes = "keys"
      /\ Connect[1].needs = {"ep", "cmr"} /\ Connect[1].wants = {"enabled"}
  BY DEF Connect, CallIf
<1> QED BY <1>1, <1>2, <1>3, <1>4, <1>5

\* Which function makes what the others use.
LEMMA Makers ==
  ASSUME NEW name \in Names, NEW k \in DOMAIN Calls(name)
  PROVE  /\ Calls(name)[k].makes \in {"ep_fi", "mr", "cmr"} => name = "constructor"
         /\ Calls(name)[k].makes \in {"pep", "pep_eq"} => name = "server"
         /\ Calls(name)[k].makes = "enabled" => name \in {"client", "accept"}
<1>1. CASE name = "constructor"
  <2>1. k \in {1, 2, 3, 4}
    BY <1>1, OtherCalls
  <2> QED BY <1>1, <2>1, OtherCalls
<1>2. CASE name = "server"
  <2>1. k \in {1, 2}
    BY <1>2, OtherCalls
  <2> QED BY <1>2, <2>1, OtherCalls
<1>3. CASE name = "client"
  <2>1. k \in 1 .. 4 \/ k = 5
    BY <1>3, ClientCalls
  <2> QED BY <1>3, <2>1, ClientCalls
<1>4. CASE name \in {"listen", "sendKeys"}
  <2>1. k = 1
    BY <1>4, OtherCalls
  <2> QED BY <1>4, <2>1, OtherCalls
<1>5. CASE name = "connect"
  <2>1. k \in {1, 2, 3, 4}
    BY <1>5, OtherCalls
  <2> QED BY <1>5, <2>1, OtherCalls
<1>6. CASE name = "accept"
  BY <1>6, AcceptCalls
<1> QED BY <1>1, <1>2, <1>3, <1>4, <1>5, <1>6 DEF Names

-----------------------------------------------------------------------------
(* The order of the functions. *)

\* When a function is called.
Stage(x) ==
  CASE x[1] = "constructor" /\ x[2] # Cep -> 1
    [] x[1] = "constructor" /\ x[2] = Cep -> 2
    [] x[1] = "client" /\ x[2] = Cep      -> 3
    [] x[1] = "client" /\ x[2] # Cep      -> 4
    [] x[1] = "server"                    -> 4
    [] x[1] = "listen"                    -> 5
    [] x[1] = "connect" /\ x[2] = Cep     -> 6
    [] x[1] = "connect" /\ x[2] # Cep     -> 7
    [] x[1] = "accept"                    -> 8
    [] x[1] = "sendKeys"                  -> 9

JobsOf(s) == {s[j] : j \in DOMAIN s}

Ordered(s, lo, hi) ==
  /\ s \in Seq(Job)
  /\ \A j \in DOMAIN s : Stage(s[j]) \in lo .. hi
  /\ \A j, k \in DOMAIN s : j < k => Stage(s[j]) <= Stage(s[k]) /\ s[j] # s[k]

All(name) == {<<name, n>> : n \in 0 .. NumEp - 1}

\* What a process calls after Node::init has opened the node.
Plan(r) ==
  IF r = "server"
  THEN All("constructor") \cup {<<"constructor", Cep>>, <<"client", Cep>>} \cup All("server")
         \cup All("listen") \cup {<<"connect", Cep>>} \cup All("accept") \cup All("sendKeys")
  ELSE IF r = "client"
  THEN All("constructor") \cup {<<"constructor", Cep>>, <<"client", Cep>>} \cup All("client")
         \cup {<<"connect", Cep>>} \cup All("connect")
  ELSE All("constructor") \cup All("server") \cup All("listen") \cup All("accept")
         \cup All("sendKeys")

LEMMA EpFacts == Cep \in Ep /\ \A n \in 0 .. NumEp - 1 : n \in Ep /\ n # Cep
BY SetupAssumption DEF Cep, Ep

\* One function for every endpoint.
LEMMA Loop ==
  ASSUME NEW name \in Names, NEW st \in 1 .. 9,
         \A n \in 0 .. NumEp - 1 : Stage(<<name, n>>) = st
  PROVE  Ordered(ForEach(name), st, st) /\ JobsOf(ForEach(name)) = All(name)
<1> DEFINE f == ForEach(name)
<1>1. /\ DOMAIN f = 1 .. NumEp /\ Len(f) = NumEp
      /\ \A k \in 1 .. NumEp : f[k] = <<name, k - 1>> /\ k - 1 \in 0 .. NumEp - 1
  BY SetupAssumption DEF ForEach
<1>2. f \in Seq(Job)
  BY EpFacts, SetupAssumption DEF ForEach, Job
<1>3. \A j, k \in 1 .. NumEp : j < k => <<name, j - 1>> # <<name, k - 1>>
  BY SetupAssumption
<1>4. JobsOf(f) = All(name)
  <2>1. \A n \in 0 .. NumEp - 1 : n + 1 \in 1 .. NumEp /\ n + 1 - 1 = n
    BY SetupAssumption
  <2>2. JobsOf(f) \subseteq All(name)
    BY <1>1 DEF JobsOf, All
  <2>3. ASSUME NEW n \in 0 .. NumEp - 1 PROVE <<name, n>> \in JobsOf(f)
    <3>1. f[n + 1] = <<name, n>> /\ n + 1 \in DOMAIN f
      BY <1>1, <2>1
    <3> HIDE DEF f
    <3> QED BY <3>1 DEF JobsOf
  <2> QED BY <2>2, <2>3 DEF All
<1> HIDE DEF f
<1>5. \A j \in DOMAIN f : Stage(f[j]) = st
  BY <1>1
<1>6. \A j, k \in DOMAIN f : j < k => f[j] # f[k]
  BY <1>1, <1>3
<1>7. Ordered(f, st, st)
  BY <1>2, <1>5, <1>6 DEF Ordered
<1> QED BY <1>4, <1>7 DEF f

LEMMA Single ==
  ASSUME NEW x \in Job, Stage(x) \in 1 .. 9
  PROVE  Ordered(<<x>>, Stage(x), Stage(x)) /\ JobsOf(<<x>>) = {x}
<1> DEFINE s == <<x>>
<1>1. s \in Seq(Job) /\ DOMAIN s = {1} /\ s[1] = x
  OBVIOUS
<1> HIDE DEF s
<1>2. Ordered(s, Stage(x), Stage(x)) /\ JobsOf(s) = {x}
  BY <1>1 DEF Ordered, JobsOf
<1> QED BY <1>2 DEF s

\* What comes first is called first.
LEMMA Join ==
  ASSUME NEW a, NEW b, NEW lo \in Nat, NEW m \in Nat, NEW l \in Nat, NEW hi \in Nat,
         lo <= m, m < l, l <= hi, Ordered(a, lo, m), Ordered(b, l, hi)
  PROVE  Ordered(a \o b, lo, hi) /\ JobsOf(a \o b) = JobsOf(a) \cup JobsOf(b)
<1> DEFINE c == a \o b
<1>1. a \in Seq(Job) /\ b \in Seq(Job)
  BY DEF Ordered
<1>2. /\ c \in Seq(Job) /\ Len(c) = Len(a) + Len(b)
      /\ \A j \in 1 .. Len(a) : c[j] = a[j]
      /\ \A j \in Len(a) + 1 .. Len(a) + Len(b) : c[j] = b[j - Len(a)]
  BY <1>1, Concatenation, Zenon
<1>3. /\ DOMAIN a = 1 .. Len(a) /\ DOMAIN b = 1 .. Len(b) /\ DOMAIN c = 1 .. Len(c)
      /\ Len(a) \in Nat /\ Len(b) \in Nat
  BY <1>1, <1>2
<1> HIDE DEF c
<1>4. ASSUME NEW j \in DOMAIN c
      PROVE  \/ j \in DOMAIN a /\ c[j] = a[j]
             \/ j > Len(a) /\ j - Len(a) \in DOMAIN b /\ c[j] = b[j - Len(a)]
  <2>1. j \in 1 .. Len(a) \/ j \in Len(a) + 1 .. Len(a) + Len(b)
    BY <1>2, <1>3
  <2>2. j \in Len(a) + 1 .. Len(a) + Len(b) => j > Len(a) /\ j - Len(a) \in 1 .. Len(b)
    BY <1>3
  <2> QED BY <1>2, <1>3, <2>1, <2>2
<1>5. /\ \A j \in DOMAIN a : j \in DOMAIN c /\ c[j] = a[j]
      /\ \A k \in DOMAIN b : k + Len(a) \in DOMAIN c /\ c[k + Len(a)] = b[k]
  <2>1. \A k \in 1 .. Len(b) : /\ k + Len(a) \in Len(a) + 1 .. Len(a) + Len(b)
                                /\ k + Len(a) - Len(a) = k /\ k + Len(a) \in 1 .. Len(c)
    BY <1>2, <1>3
  <2>2. \A j \in 1 .. Len(a) : j \in 1 .. Len(c)
    BY <1>2, <1>3
  <2>3. ASSUME NEW k \in DOMAIN b PROVE k + Len(a) \in DOMAIN c /\ c[k + Len(a)] = b[k]
    <3>1. c[k + Len(a)] = b[k + Len(a) - Len(a)]
      BY <1>2, <1>3, <2>1
    <3> QED BY <1>3, <2>1, <3>1
  <2> QED BY <1>2, <1>3, <2>2, <2>3
<1>6. JobsOf(c) = JobsOf(a) \cup JobsOf(b)
  <2>1. JobsOf(c) \subseteq JobsOf(a) \cup JobsOf(b)
    BY <1>4 DEF JobsOf
  <2>2. JobsOf(a) \subseteq JobsOf(c)
    BY <1>5 DEF JobsOf
  <2>3. JobsOf(b) \subseteq JobsOf(c)
    BY <1>5 DEF JobsOf
  <2> QED BY <2>1, <2>2, <2>3
<1>7. /\ \A j \in DOMAIN a : Stage(a[j]) \in lo .. m
      /\ \A j \in DOMAIN b : Stage(b[j]) \in l .. hi
      /\ \A j, k \in DOMAIN a : j < k => Stage(a[j]) <= Stage(a[k]) /\ a[j] # a[k]
      /\ \A j, k \in DOMAIN b : j < k => Stage(b[j]) <= Stage(b[k]) /\ b[j] # b[k]
  BY DEF Ordered
<1>8. ASSUME NEW j \in DOMAIN c PROVE Stage(c[j]) \in lo .. hi
  <2>1. \A x \in lo .. m : x \in lo .. hi
    OBVIOUS
  <2>2. \A x \in l .. hi : x \in lo .. hi
    OBVIOUS
  <2> QED BY <1>4, <1>7, <2>1, <2>2
<1>9. ASSUME NEW j \in DOMAIN c, NEW k \in DOMAIN c, j < k
      PROVE  Stage(c[j]) <= Stage(c[k]) /\ c[j] # c[k]
  <2>0. j \in Nat /\ k \in Nat
    BY <1>2, <1>3
  <2>1. CASE j \in DOMAIN a /\ c[j] = a[j] /\ k \in DOMAIN a /\ c[k] = a[k]
    BY <1>7, <1>9, <2>1
  <2>2. CASE /\ j \in DOMAIN a /\ c[j] = a[j]
             /\ k - Len(a) \in DOMAIN b /\ c[k] = b[k - Len(a)]
    <3>1. Stage(c[j]) \in lo .. m /\ Stage(c[k]) \in l .. hi
      BY <1>7, <2>2
    <3>2. Stage(c[j]) < Stage(c[k])
      BY <3>1
    <3> QED BY <3>1, <3>2
  <2>3. CASE /\ j > Len(a) /\ k \in DOMAIN a
    BY <1>3, <1>9, <2>0, <2>3
  <2>4. CASE /\ j - Len(a) \in DOMAIN b /\ c[j] = b[j - Len(a)]
             /\ k - Len(a) \in DOMAIN b /\ c[k] = b[k - Len(a)]
    <3>1. j - Len(a) < k - Len(a)
      BY <1>3, <1>9, <2>0
    <3> QED BY <1>7, <2>4, <3>1
  <2> QED BY <1>4, <2>1, <2>2, <2>3, <2>4
<1>10. Ordered(c, lo, hi)
  BY <1>2, <1>8, <1>9 DEF Ordered
<1> QED BY <1>6, <1>10 DEF c

LEMMA Wider ==
  ASSUME NEW s, NEW lo \in Nat, NEW hi \in Nat, NEW l \in Nat, NEW h \in Nat,
         Ordered(s, lo, hi), l <= lo, hi <= h
  PROVE  Ordered(s, l, h)
<1>1. \A x \in lo .. hi : x \in l .. h
  OBVIOUS
<1> QED BY <1>1 DEF Ordered

LEMMA LoopStages ==
  /\ \A n \in 0 .. NumEp - 1 :
       /\ Stage(<<"constructor", n>>) = 1 /\ Stage(<<"client", n>>) = 4
       /\ Stage(<<"server", n>>) = 4 /\ Stage(<<"listen", n>>) = 5
       /\ Stage(<<"connect", n>>) = 7 /\ Stage(<<"accept", n>>) = 8
       /\ Stage(<<"sendKeys", n>>) = 9
  /\ Stage(<<"constructor", Cep>>) = 2 /\ Stage(<<"client", Cep>>) = 3
  /\ Stage(<<"connect", Cep>>) = 6
<1>1. \A n \in 0 .. NumEp - 1 : n # Cep
  BY EpFacts
<1>2. ASSUME NEW n \in 0 .. NumEp - 1
      PROVE  /\ Stage(<<"constructor", n>>) = 1 /\ Stage(<<"client", n>>) = 4
             /\ Stage(<<"server", n>>) = 4 /\ Stage(<<"listen", n>>) = 5
  BY <1>1 DEF Stage
<1>3. ASSUME NEW n \in 0 .. NumEp - 1
      PROVE  /\ Stage(<<"connect", n>>) = 7 /\ Stage(<<"accept", n>>) = 8
             /\ Stage(<<"sendKeys", n>>) = 9
  BY <1>1 DEF Stage
<1>4. /\ Stage(<<"constructor", Cep>>) = 2 /\ Stage(<<"client", Cep>>) = 3
      /\ Stage(<<"connect", Cep>>) = 6
  BY DEF Stage
<1> QED BY <1>2, <1>3, <1>4

LEMMA Loops ==
  /\ Ordered(ForEach("constructor"), 1, 1) /\ JobsOf(ForEach("constructor")) = All("constructor")
  /\ Ordered(ForEach("server"), 4, 4) /\ JobsOf(ForEach("server")) = All("server")
  /\ Ordered(ForEach("listen"), 5, 5) /\ JobsOf(ForEach("listen")) = All("listen")
  /\ Ordered(ForEach("client"), 4, 4) /\ JobsOf(ForEach("client")) = All("client")
  /\ Ordered(ForEach("connect"), 7, 7) /\ JobsOf(ForEach("connect")) = All("connect")
  /\ Ordered(ForEach("accept"), 8, 8) /\ JobsOf(ForEach("accept")) = All("accept")
  /\ Ordered(ForEach("sendKeys"), 9, 9) /\ JobsOf(ForEach("sendKeys")) = All("sendKeys")
<1>1. Ordered(ForEach("constructor"), 1, 1) /\ JobsOf(ForEach("constructor")) = All("constructor")
  <2>1. "constructor" \in Names /\ 1 \in 1 .. 9
    BY DEF Names
  <2>2. \A n \in 0 .. NumEp - 1 : Stage(<<"constructor", n>>) = 1
    BY LoopStages
  <2> QED BY <2>1, <2>2, Loop
<1>2. Ordered(ForEach("server"), 4, 4) /\ JobsOf(ForEach("server")) = All("server")
  <2>1. "server" \in Names /\ 4 \in 1 .. 9
    BY DEF Names
  <2>2. \A n \in 0 .. NumEp - 1 : Stage(<<"server", n>>) = 4
    BY LoopStages
  <2> QED BY <2>1, <2>2, Loop
<1>3. Ordered(ForEach("listen"), 5, 5) /\ JobsOf(ForEach("listen")) = All("listen")
  <2>1. "listen" \in Names /\ 5 \in 1 .. 9
    BY DEF Names
  <2>2. \A n \in 0 .. NumEp - 1 : Stage(<<"listen", n>>) = 5
    BY LoopStages
  <2> QED BY <2>1, <2>2, Loop
<1>4. Ordered(ForEach("client"), 4, 4) /\ JobsOf(ForEach("client")) = All("client")
  <2>1. "client" \in Names /\ 4 \in 1 .. 9
    BY DEF Names
  <2>2. \A n \in 0 .. NumEp - 1 : Stage(<<"client", n>>) = 4
    BY LoopStages
  <2> QED BY <2>1, <2>2, Loop
<1>5. Ordered(ForEach("connect"), 7, 7) /\ JobsOf(ForEach("connect")) = All("connect")
  <2>1. "connect" \in Names /\ 7 \in 1 .. 9
    BY DEF Names
  <2>2. \A n \in 0 .. NumEp - 1 : Stage(<<"connect", n>>) = 7
    BY LoopStages
  <2> QED BY <2>1, <2>2, Loop
<1>6. Ordered(ForEach("accept"), 8, 8) /\ JobsOf(ForEach("accept")) = All("accept")
  <2>1. "accept" \in Names /\ 8 \in 1 .. 9
    BY DEF Names
  <2>2. \A n \in 0 .. NumEp - 1 : Stage(<<"accept", n>>) = 8
    BY LoopStages
  <2> QED BY <2>1, <2>2, Loop
<1>7. Ordered(ForEach("sendKeys"), 9, 9) /\ JobsOf(ForEach("sendKeys")) = All("sendKeys")
  <2>1. "sendKeys" \in Names /\ 9 \in 1 .. 9
    BY DEF Names
  <2>2. \A n \in 0 .. NumEp - 1 : Stage(<<"sendKeys", n>>) = 9
    BY LoopStages
  <2> QED BY <2>1, <2>2, Loop
<1> QED BY <1>1, <1>2, <1>3, <1>4, <1>5, <1>6, <1>7

LEMMA ToController ==
  /\ Ordered(<< <<"connect", Cep>> >>, 6, 6)
  /\ JobsOf(<< <<"connect", Cep>> >>) = {<<"connect", Cep>>}
<1> DEFINE x == <<"connect", Cep>>
<1>1. x \in Job /\ Stage(x) = 6
  BY EpFacts, LoopStages DEF Job, Names
<1> HIDE DEF x
<1>2. Ordered(<<x>>, 6, 6) /\ JobsOf(<<x>>) = {x}
  BY <1>1, Single
<1> QED BY <1>2 DEF x

\* Node::init comes first, and once, and the rest in the order of Stage.
LEMMA InitFirst ==
  ASSUME NEW r \in {"client", "server", "controller"}
  PROVE  /\ Program(r) # <<>> /\ Head(Program(r)) = First
         /\ Ordered(Tail(Program(r)), 1, 9) /\ JobsOf(Tail(Program(r))) = Plan(r)
<1> DEFINE a == <<First>>
           b == ForEach("constructor")
           u == << <<"constructor", Cep>>, <<"client", Cep>> >>
           v == << <<"connect", Cep>> >>
           fs == ForEach("server")
           fl == ForEach("listen")
           fc == ForEach("client")
           fn == ForEach("connect")
           fa == ForEach("accept")
           fk == ForEach("sendKeys")
           c == CASE r = "server"     -> u \o fs \o fl \o v \o fa \o fk
                  [] r = "client"     -> u \o fc \o v \o fn
                  [] r = "controller" -> fs \o fl \o fa \o fk
<1>1. Program(r) = (a \o b) \o c
  BY DEF Program, First
<1>2. /\ Ordered(b, 1, 1) /\ JobsOf(b) = All("constructor")
      /\ Ordered(fs, 4, 4) /\ JobsOf(fs) = All("server")
      /\ Ordered(fl, 5, 5) /\ JobsOf(fl) = All("listen")
      /\ Ordered(fc, 4, 4) /\ JobsOf(fc) = All("client")
      /\ Ordered(fn, 7, 7) /\ JobsOf(fn) = All("connect")
      /\ Ordered(fa, 8, 8) /\ JobsOf(fa) = All("accept")
      /\ Ordered(fk, 9, 9) /\ JobsOf(fk) = All("sendKeys")
  BY Loops, Zenon
<1>3. Ordered(v, 6, 6) /\ JobsOf(v) = {<<"connect", Cep>>}
  BY ToController, Zenon
<1>4. Ordered(u, 2, 3) /\ JobsOf(u) = {<<"constructor", Cep>>, <<"client", Cep>>}
  <2> DEFINE x == <<"constructor", Cep>>
             y == <<"client", Cep>>
  <2>1. x \in Job /\ y \in Job /\ Stage(x) = 2 /\ Stage(y) = 3 /\ x # y
    BY EpFacts, LoopStages DEF Job, Names
  <2>2. u = <<x, y>>
    OBVIOUS
  <2> HIDE DEF x, y, u
  <2>3. u \in Seq(Job) /\ DOMAIN u = {1, 2} /\ u[1] = x /\ u[2] = y
    BY <2>1, <2>2
  <2>4. Ordered(u, 2, 3)
    BY <2>1, <2>3 DEF Ordered
  <2>5. JobsOf(u) = {x, y}
    BY <2>3 DEF JobsOf
  <2> QED BY <2>4, <2>5 DEF x, y
<1> HIDE DEF b, u, v, fs, fl, fc, fn, fa, fk
<1>5. Ordered(c, 2, 9) /\ JobsOf(b) \cup JobsOf(c) = Plan(r)
  <2>1. CASE r = "server"
    <3>1. Ordered(u \o fs, 2, 4) /\ JobsOf(u \o fs) = JobsOf(u) \cup JobsOf(fs)
      BY <1>2, <1>4, Join
    <3>2. /\ Ordered(u \o fs \o fl, 2, 5)
          /\ JobsOf(u \o fs \o fl) = JobsOf(u \o fs) \cup JobsOf(fl)
      BY <1>2, <3>1, Join
    <3>3. /\ Ordered(u \o fs \o fl \o v, 2, 6)
          /\ JobsOf(u \o fs \o fl \o v) = JobsOf(u \o fs \o fl) \cup JobsOf(v)
      BY <1>3, <3>2, Join
    <3>4. /\ Ordered(u \o fs \o fl \o v \o fa, 2, 8)
          /\ JobsOf(u \o fs \o fl \o v \o fa) = JobsOf(u \o fs \o fl \o v) \cup JobsOf(fa)
      BY <1>2, <3>3, Join
    <3>5. /\ Ordered(u \o fs \o fl \o v \o fa \o fk, 2, 9)
          /\ JobsOf(u \o fs \o fl \o v \o fa \o fk)
               = JobsOf(u \o fs \o fl \o v \o fa) \cup JobsOf(fk)
      BY <1>2, <3>4, Join
    <3>6. c = u \o fs \o fl \o v \o fa \o fk
      BY <2>1
    <3> HIDE DEF c
    <3>7. JobsOf(c) = JobsOf(u) \cup JobsOf(fs) \cup JobsOf(fl) \cup JobsOf(v)
                        \cup JobsOf(fa) \cup JobsOf(fk)
      BY <3>1, <3>2, <3>3, <3>4, <3>5, <3>6, Zenon
    <3>8. JobsOf(b) \cup JobsOf(c) = Plan(r)
      BY <1>2, <1>3, <1>4, <2>1, <3>7 DEF Plan
    <3> QED BY <3>5, <3>6, <3>8
  <2>2. CASE r = "client"
    <3>1. Ordered(u \o fc, 2, 4) /\ JobsOf(u \o fc) = JobsOf(u) \cup JobsOf(fc)
      BY <1>2, <1>4, Join
    <3>2. Ordered(u \o fc \o v, 2, 6) /\ JobsOf(u \o fc \o v) = JobsOf(u \o fc) \cup JobsOf(v)
      BY <1>3, <3>1, Join
    <3>3. /\ Ordered(u \o fc \o v \o fn, 2, 7)
          /\ JobsOf(u \o fc \o v \o fn) = JobsOf(u \o fc \o v) \cup JobsOf(fn)
      BY <1>2, <3>2, Join
    <3>4. Ordered(u \o fc \o v \o fn, 2, 9)
      BY <3>3, Wider
    <3>5. c = u \o fc \o v \o fn
      BY <2>2
    <3> HIDE DEF c
    <3>6. JobsOf(c) = JobsOf(u) \cup JobsOf(fc) \cup JobsOf(v) \cup JobsOf(fn)
      BY <3>1, <3>2, <3>3, <3>5, Zenon
    <3>7. JobsOf(b) \cup JobsOf(c) = Plan(r)
      BY <1>2, <1>3, <1>4, <2>2, <3>6 DEF Plan
    <3> QED BY <3>4, <3>5, <3>7
  <2>3. CASE r = "controller"
    <3>1. Ordered(fs \o fl, 4, 5) /\ JobsOf(fs \o fl) = JobsOf(fs) \cup JobsOf(fl)
      BY <1>2, Join
    <3>2. Ordered(fs \o fl \o fa, 4, 8) /\ JobsOf(fs \o fl \o fa) = JobsOf(fs \o fl) \cup JobsOf(fa)
      BY <1>2, <3>1, Join
    <3>3. /\ Ordered(fs \o fl \o fa \o fk, 4, 9)
          /\ JobsOf(fs \o fl \o fa \o fk) = JobsOf(fs \o fl \o fa) \cup JobsOf(fk)
      BY <1>2, <3>2, Join
    <3>4. Ordered(fs \o fl \o fa \o fk, 2, 9)
      BY <3>3, Wider
    <3>5. c = fs \o fl \o fa \o fk
      BY <2>3
    <3> HIDE DEF c
    <3>6. JobsOf(c) = JobsOf(fs) \cup JobsOf(fl) \cup JobsOf(fa) \cup JobsOf(fk)
      BY <3>1, <3>2, <3>3, <3>5, Zenon
    <3>7. JobsOf(b) \cup JobsOf(c) = Plan(r)
      BY <1>2, <2>3, <3>6 DEF Plan
    <3> QED BY <3>4, <3>5, <3>7
  <2> QED BY <2>1, <2>2, <2>3
<1> HIDE DEF c
<1> DEFINE d == b \o c
<1>6. Ordered(d, 1, 9) /\ JobsOf(d) = Plan(r)
  <2>1. Ordered(b, 1, 1) /\ Ordered(c, 2, 9)
    BY <1>2, <1>5
  <2>2. Ordered(b \o c, 1, 9) /\ JobsOf(b \o c) = JobsOf(b) \cup JobsOf(c)
    BY <2>1, Join
  <2> QED BY <1>5, <2>2
<1>7. b \in Seq(Job) /\ c \in Seq(Job) /\ d \in Seq(Job)
  BY <1>2, <1>5, <1>6 DEF Ordered
<1> DEFINE Any == Job \cup {First}
<1>8. (a \o b) \o c = a \o d
  <2>1. a \in Seq(Any) /\ b \in Seq(Any) /\ c \in Seq(Any)
    BY <1>7
  <2> HIDE DEF a, Any
  <2> QED BY <2>1
<1> HIDE DEF d
<1>9. a \o d # <<>> /\ Head(a \o d) = First /\ Tail(a \o d) = d
  <2>1. a \in Seq(Any) /\ d \in Seq(Any) /\ Len(a) = 1 /\ a[1] = First
    BY <1>7
  <2> HIDE DEF a, Any
  <2> DEFINE e == a \o d
  <2>2. /\ e \in Seq(Any) /\ Len(e) = 1 + Len(d) /\ Len(d) \in Nat
        /\ e[1] = First /\ \A j \in 2 .. Len(e) : e[j] = d[j - 1]
    <3>1. /\ e \in Seq(Any) /\ Len(e) = Len(a) + Len(d)
          /\ \A j \in 1 .. Len(a) : e[j] = a[j]
          /\ \A j \in Len(a) + 1 .. Len(a) + Len(d) : e[j] = d[j - Len(a)]
      BY <2>1, Concatenation
    <3> QED BY <2>1, <3>1
  <2> HIDE DEF e
  <2>3. e # <<>> /\ Head(e) = First
    BY <2>1, <2>2
  <2>4. Tail(e) \in Seq(Any) /\ Len(Tail(e)) = Len(d) /\ \A j \in 1 .. Len(d) : Tail(e)[j] = e[j + 1]
    BY <2>1, <2>2, <2>3
  <2>5. \A j \in 1 .. Len(d) : Tail(e)[j] = d[j]
    BY <2>1, <2>2, <2>4
  <2>6. Tail(e) = d
    BY <2>1, <2>4, <2>5
  <2> QED BY <2>3, <2>6 DEF e
<1> QED BY <1>1, <1>6, <1>8, <1>9

LEMMA StageOf ==
  ASSUME NEW n \in Ep
  PROVE  /\ Stage(<<"constructor", n>>) \in 1 .. 2 /\ Stage(<<"client", n>>) \in 3 .. 4
         /\ Stage(<<"server", n>>) = 4 /\ Stage(<<"listen", n>>) = 5
         /\ Stage(<<"connect", n>>) \in 6 .. 7 /\ Stage(<<"accept", n>>) = 8
         /\ Stage(<<"sendKeys", n>>) = 9
<1>1. n = Cep \/ n \in 0 .. NumEp - 1
  BY SetupAssumption DEF Ep, Cep
<1>2. CASE n \in 0 .. NumEp - 1
  <2>1. /\ Stage(<<"constructor", n>>) = 1 /\ Stage(<<"client", n>>) = 4
        /\ Stage(<<"server", n>>) = 4 /\ Stage(<<"listen", n>>) = 5
        /\ Stage(<<"connect", n>>) = 7 /\ Stage(<<"accept", n>>) = 8
        /\ Stage(<<"sendKeys", n>>) = 9
    BY <1>2, LoopStages, Zenon
  <2> QED BY <2>1
<1>3. CASE n = Cep
  <2>1. /\ Stage(<<"server", n>>) = 4 /\ Stage(<<"listen", n>>) = 5
        /\ Stage(<<"accept", n>>) = 8 /\ Stage(<<"sendKeys", n>>) = 9
    BY DEF Stage
  <2> QED BY <1>3, <2>1, LoopStages
<1> QED BY <1>1, <1>2, <1>3

\* What is left after one function.
LEMMA Rest ==
  ASSUME NEW s, Ordered(s, 1, 9), s # <<>>
  PROVE  /\ Head(s) \in Job /\ Head(s) \in JobsOf(s) /\ Ordered(Tail(s), 1, 9)
         /\ JobsOf(Tail(s)) = JobsOf(s) \ {Head(s)}
         /\ \A x \in JobsOf(s) : Stage(Head(s)) <= Stage(x)
<1>1. s \in Seq(Job) /\ DOMAIN s = 1 .. Len(s) /\ Len(s) \in Nat \ {0} /\ Head(s) = s[1]
  BY DEF Ordered
<1> DEFINE t == Tail(s)
<1>2. /\ t \in Seq(Job) /\ DOMAIN t = 1 .. Len(s) - 1
      /\ \A j \in 1 .. Len(s) - 1 : t[j] = s[j + 1]
  BY <1>1
<1> HIDE DEF t
<1>3. \A j \in 1 .. Len(s) - 1 : j + 1 \in 1 .. Len(s) /\ 1 < j + 1
  BY <1>1
<1>4. 1 \in 1 .. Len(s) /\ \A j \in 1 .. Len(s) : j = 1 \/ j - 1 \in 1 .. Len(s) - 1
  BY <1>1
<1>5. /\ \A j \in DOMAIN s : Stage(s[j]) \in 1 .. 9
      /\ \A j, k \in DOMAIN s : j < k => Stage(s[j]) <= Stage(s[k]) /\ s[j] # s[k]
  BY DEF Ordered
<1>6. Ordered(t, 1, 9)
  <2>1. \A j \in DOMAIN t : Stage(t[j]) \in 1 .. 9
    BY <1>1, <1>2, <1>3, <1>5
  <2>2. ASSUME NEW j \in DOMAIN t, NEW k \in DOMAIN t, j < k
        PROVE  Stage(t[j]) <= Stage(t[k]) /\ t[j] # t[k]
    <3>1. j + 1 < k + 1 /\ j + 1 \in DOMAIN s /\ k + 1 \in DOMAIN s
      BY <1>1, <1>2, <1>3, <2>2
    <3> QED BY <1>2, <1>5, <3>1
  <2> QED BY <1>2, <2>1, <2>2 DEF Ordered
<1>7. JobsOf(t) = JobsOf(s) \ {s[1]}
  <2>1. ASSUME NEW j \in DOMAIN t PROVE t[j] \in JobsOf(s) /\ t[j] # s[1]
    <3>1. j + 1 \in DOMAIN s /\ t[j] = s[j + 1] /\ 1 < j + 1
      BY <1>1, <1>2, <1>3
    <3> QED BY <1>1, <1>4, <1>5, <3>1 DEF JobsOf
  <2>2. ASSUME NEW j \in DOMAIN s, s[j] # s[1] PROVE s[j] \in JobsOf(t)
    <3>1. j - 1 \in DOMAIN t /\ t[j - 1] = s[j]
      <4>1. j - 1 \in 1 .. Len(s) - 1 /\ j - 1 + 1 = j
        BY <1>1, <1>4, <2>2
      <4> QED BY <1>2, <4>1
    <3> QED BY <3>1 DEF JobsOf
  <2>3. JobsOf(t) \subseteq JobsOf(s) \ {s[1]}
    BY <2>1 DEF JobsOf
  <2>4. JobsOf(s) \ {s[1]} \subseteq JobsOf(t)
    BY <2>2 DEF JobsOf
  <2> QED BY <2>3, <2>4
<1>8. ASSUME NEW x \in JobsOf(s) PROVE Stage(s[1]) <= Stage(x)
  <2>1. PICK j \in DOMAIN s : x = s[j]
    BY DEF JobsOf
  <2>2. j = 1 \/ 1 < j
    BY <1>1
  <2> QED BY <1>1, <1>4, <1>5, <2>1, <2>2
<1>9. s[1] \in Job /\ s[1] \in JobsOf(s)
  BY <1>1, <1>4 DEF JobsOf
<1> QED BY <1>1, <1>6, <1>7, <1>8, <1>9 DEF t

-----------------------------------------------------------------------------
(* What the setup has still to find. *)

\* What was to make it, what will use it.
Gaps == {<<"ep_fi", "constructor", "server">>, <<"ep_fi", "constructor", "client">>,
         <<"cmr", "constructor", "connect">>, <<"cmr", "constructor", "sendKeys">>,
         <<"pep", "server", "listen">>, <<"pep_eq", "server", "accept">>,
         <<"enabled", "client", "connect">>}

\* An object of endpoint n is missing that was to be made, and is to be used.
Lost(g, n) ==
  /\ g[1] \notin has[n]
  /\ <<g[2], n>> \notin JobsOf(todo) /\ <<g[3], n>> \in JobsOf(todo)

Fresh ==
  \A n \in Ep :
    /\ <<"constructor", n>> \in JobsOf(todo) => has[n] \cap {"ep_fi", "mr", "cmr"} = {}
    /\ <<"server", n>> \in JobsOf(todo) => has[n] \cap {"pep", "pep_eq"} = {}
    /\ <<"client", n>> \in JobsOf(todo) => "enabled" \notin has[n]

Ahead ==
  /\ Ordered(todo, 1, 9) /\ JobsOf(todo) \subseteq Plan(role)
  /\ \A x \in Plan(role) \ JobsOf(todo), y \in JobsOf(todo) : Stage(x) <= Stage(y)

AtStart ==
  /\ todo # <<>> /\ Head(todo) = First
  /\ Ordered(Tail(todo), 1, 9) /\ JobsOf(Tail(todo)) = Plan(role)
  /\ failures = 0 /\ \A n \in Ep : has[n] = {}

UnderWay ==
  /\ NodeObject \subseteq open /\ Ahead /\ Fresh
  /\ wild = {} /\ failures # 0 => \E g \in Gaps, n \in Ep : Lost(g, n)

SetupInv ==
  /\ role \in {"client", "server", "controller"}
  /\ DOMAIN has = Ep /\ open \subseteq NodeObject
  /\ NodeComplete
  /\ pc = "run" => AtStart \/ UnderWay

LEMMA SetupInit == Init => SetupInv
<1> SUFFICES ASSUME Init PROVE SetupInv
  OBVIOUS
<1>1. /\ todo # <<>> /\ Head(todo) = First
      /\ Ordered(Tail(todo), 1, 9) /\ JobsOf(Tail(todo)) = Plan(role)
  BY InitFirst DEF Init
<1> QED BY <1>1 DEF Init, SetupInv, NodeComplete, AtStart

\* A function that hands its failures on: the calls before the one that failed.
LEMMA Prefix ==
  ASSUME NEW name \in Names \cup {"init"}, name # "constructor", NEW o \in Outcome(name)
  PROVE  \/ o.made = DOMAIN Calls(name) /\ o.fail = {}
         \/ \E k \in DOMAIN Calls(name) : o.made = 1 .. k /\ o.fail = {k}
BY DEF Outcome

\* Node::init: every call finds what those before it have made.
LEMMA InitStep ==
  ASSUME pc = "run", todo # <<>>, Head(todo) = First,
         NEW o \in Outcome("init"), Perform(o.made, o.fail)
  PROVE  /\ wild' = wild /\ has' = has /\ todo' = Tail(todo)
         /\ open \subseteq NodeObject => open' \subseteq NodeObject
         /\ o.fail = {} => NodeObject \subseteq open'
<1>1. Name = "init"
  BY DEF Name, First
<1>2. "init" \in Names \cup {"init"} /\ "init" # "constructor" /\ DOMAIN Calls("init") = 1 .. 6
  BY InitCalls
<1> DEFINE there(k) == open \cup has[This] \cup Made({j \in o.made \ o.fail : j < k})
           missing  == UNION {Calls(Name)[k].needs \ there(k) : k \in o.made}
<1>3. /\ open' = open \cup Made(o.made \ o.fail) /\ has' = has
      /\ wild' = wild \cup missing /\ todo' = Tail(todo)
  BY <1>1 DEF Perform
<1>4. /\ o.made \subseteq 1 .. 6
      /\ \A k \in o.made : 1 .. k - 1 \subseteq {j \in o.made \ o.fail : j < k}
      /\ o.fail = {} => o.made = 1 .. 6
  <2>1. CASE o.made = 1 .. 6 /\ o.fail = {}
    BY <2>1
  <2>2. ASSUME NEW m \in 1 .. 6, o.made = 1 .. m, o.fail = {m}
        PROVE  /\ o.made \subseteq 1 .. 6 /\ o.fail # {}
               /\ \A k \in o.made : 1 .. k - 1 \subseteq {j \in o.made \ o.fail : j < k}
    BY <2>2
  <2> QED BY <1>2, <2>1, <2>2, Prefix
<1>5. ASSUME NEW k \in o.made PROVE Calls(Name)[k].needs \subseteq there(k)
  <2> DEFINE before == {OpenNode[j].makes : j \in 1 .. k - 1}
  <2>1. before \subseteq there(k)
    BY <1>1, <1>4, InitCalls DEF Made
  <2>2. k \in {1, 2, 3, 4, 5, 6}
    BY <1>4
  <2>3. OpenNode[k].needs \subseteq before
    <3>1. /\ k = 2 => 1 \in 1 .. k - 1
          /\ k = 3 => 2 \in 1 .. k - 1
          /\ k = 4 => 1 \in 1 .. k - 1 /\ 2 \in 1 .. k - 1
          /\ k = 5 => 4 \in 1 .. k - 1
          /\ k = 6 => 4 \in 1 .. k - 1
      OBVIOUS
    <3> QED BY <2>2, <3>1, InitCalls
  <2> QED BY <1>1, <2>1, <2>3, InitCalls
<1>6. missing = {}
  BY <1>5
<1>7. o.fail = {} => NodeObject \subseteq open'
  <2> SUFFICES ASSUME o.fail = {} PROVE NodeObject \subseteq Made(o.made \ o.fail)
    BY <1>3
  <2>1. o.made \ o.fail = 1 .. 6
    BY <1>4
  <2>2. 1 \in 1 .. 6 /\ 2 \in 1 .. 6 /\ 3 \in 1 .. 6 /\ 4 \in 1 .. 6 /\ 5 \in 1 .. 6 /\ 6 \in 1 .. 6
    OBVIOUS
  <2> QED BY <1>1, <2>1, <2>2, InitCalls DEF Made, NodeObject
<1>8. Made(o.made \ o.fail) \subseteq NodeObject
  <2>1. \A k \in 1 .. 6 : k \in {1, 2, 3, 4, 5, 6}
    OBVIOUS
  <2> QED BY <1>1, <1>4, <2>1, InitCalls DEF Made, NodeObject
<1> QED BY <1>3, <1>6, <1>7, <1>8

LEMMA Users ==
  ASSUME NEW r \in {"client", "server", "controller"}, NEW n \in Ep
  PROVE  /\ <<"constructor", n>> \in Plan(r)
              => /\ <<"server", n>> \in Plan(r) \/ <<"client", n>> \in Plan(r)
                 /\ <<"connect", n>> \in Plan(r) \/ <<"sendKeys", n>> \in Plan(r)
         /\ <<"server", n>> \in Plan(r) => /\ <<"listen", n>> \in Plan(r)
                                           /\ <<"accept", n>> \in Plan(r)
         /\ <<"client", n>> \in Plan(r) => <<"connect", n>> \in Plan(r)
<1>1. n = Cep \/ n \in 0 .. NumEp - 1
  BY SetupAssumption DEF Ep, Cep
<1>2. CASE n = Cep
  <2>1. \A name : <<name, n>> \notin All("server") /\ <<name, n>> \notin All("constructor")
    BY <1>2, EpFacts DEF All
  <2>2. \A name : <<name, n>> \in All("client") => FALSE
    BY <1>2, EpFacts DEF All
  <2> QED BY <1>2, <2>1, <2>2 DEF Plan, All
<1>3. CASE n \in 0 .. NumEp - 1 /\ n # Cep
  BY <1>3 DEF Plan, All
<1> QED BY <1>1, <1>2, <1>3, EpFacts

\* What is to be called after a function that is called is still ahead.
LEMMA StillAhead ==
  ASSUME Ahead, todo # <<>>, NEW x \in Plan(role), Stage(Head(todo)) < Stage(x),
         Stage(x) \in Nat, Stage(Head(todo)) \in Nat
  PROVE  x \in JobsOf(Tail(todo))
<1>1. Head(todo) \in JobsOf(todo) /\ JobsOf(Tail(todo)) = JobsOf(todo) \ {Head(todo)}
  BY Rest DEF Ahead
<1>2. x \in JobsOf(todo)
  <2> SUFFICES ASSUME x \notin JobsOf(todo) PROVE FALSE
    OBVIOUS
  <2>1. Stage(x) <= Stage(Head(todo))
    BY <1>1 DEF Ahead
  <2> QED BY <2>1
<1>3. x # Head(todo)
  OBVIOUS
<1> QED BY <1>1, <1>2, <1>3

\* A function that is not Node::init.
LEMMA JobStep ==
  ASSUME SetupInv, UnderWay, todo # <<>>, NEW o \in Outcome(Name), Perform(o.made, o.fail)
  PROVE  /\ Name \in Names /\ This \in Ep /\ Head(todo) = <<Name, This>>
         /\ open' = open /\ role' = role /\ todo' = Tail(todo)
         /\ has' = [has EXCEPT ![This] = @ \cup Made(o.made \ o.fail)]
         /\ o.made \subseteq DOMAIN Calls(Name) /\ o.fail \subseteq o.made /\ 1 \in o.made
         /\ wild \subseteq wild' /\ NodeComplete'
<1>1. Head(todo) \in Job
  BY Rest DEF UnderWay, Ahead
<1>2. Name \in Names /\ This \in Ep /\ Name # "init" /\ Head(todo) = <<Name, This>>
  BY <1>1 DEF Name, This, Job, Names
<1> DEFINE there(k) == open \cup has[This] \cup Made({j \in o.made \ o.fail : j < k})
           missing  == UNION {Calls(Name)[k].needs \ there(k) : k \in o.made}
<1>3. /\ open' = open /\ has' = [has EXCEPT ![This] = @ \cup Made(o.made \ o.fail)]
      /\ wild' = wild \cup missing /\ todo' = Tail(todo) /\ role' = role
  BY <1>2 DEF Perform
<1>4. missing \cap NodeObject = {}
  BY DEF UnderWay
<1>5. NodeComplete'
  BY <1>3, <1>4 DEF SetupInv, NodeComplete
<1>6. \E m \in 1 .. 7 : DOMAIN Calls(Name) = 1 .. m
  <2>1. CASE Name \in {"constructor", "server", "listen", "connect", "sendKeys"}
    BY <2>1, OtherCalls
  <2>2. CASE Name \in {"client", "accept"}
    BY <2>2, ClientCalls, AcceptCalls
  <2> QED BY <1>2, <2>1, <2>2 DEF Names
<1>7. o.made \subseteq DOMAIN Calls(Name) /\ o.fail \subseteq o.made /\ 1 \in o.made
  <2>1. CASE Name = "constructor"
    <3>1. o.made = 1 .. 4 /\ o.fail \subseteq 1 .. 3
      <4>1. PICK F \in SUBSET (1 .. 3) : o = [made |-> DOMAIN Calls("constructor"), fail |-> F]
        BY <2>1 DEF Outcome
      <4> QED BY <4>1, OtherCalls
    <3> QED BY <2>1, <3>1, OtherCalls
  <2>2. CASE Name # "constructor"
    <3>1. \/ o.made = DOMAIN Calls(Name) /\ o.fail = {}
          \/ \E k \in DOMAIN Calls(Name) : o.made = 1 .. k /\ o.fail = {k}
      BY <1>2, <2>2, Prefix
    <3> QED BY <1>6, <3>1
  <2> QED BY <2>1, <2>2
<1> QED BY <1>2, <1>3, <1>5, <1>7

\* The first call of a function finds only what was made before.
LEMMA FirstCall ==
  ASSUME SetupInv, UnderWay, todo # <<>>, NEW o \in Outcome(Name), Perform(o.made, o.fail),
         NEW x, x \notin NodeObject, x \notin has[This]
  PROVE  /\ x \in Calls(Name)[1].needs => wild' # {}
         /\ x \in Calls(Name)[1].wants => 1 \in o.fail
<1> DEFINE there(k) == open \cup has[This] \cup Made({j \in o.made \ o.fail : j < k})
           missing  == UNION {Calls(Name)[k].needs \ there(k) : k \in o.made}
<1>1. Name \in Names /\ o.made \subseteq DOMAIN Calls(Name) /\ 1 \in o.made
  BY JobStep
<1>2. \A j \in DOMAIN Calls(Name) : j \in Nat /\ 1 <= j
  <2>1. CASE Name \in {"constructor", "server", "listen", "connect", "sendKeys"}
    BY <2>1, OtherCalls
  <2>2. CASE Name \in {"client", "accept"}
    BY <2>2, ClientCalls, AcceptCalls
  <2> QED BY <1>1, <2>1, <2>2 DEF Names
<1>3. {j \in o.made \ o.fail : j < 1} = {}
  BY <1>1, <1>2
<1>4. there(1) = open \cup has[This]
  BY <1>3 DEF Made
<1>5. x \notin there(1)
  BY <1>4 DEF SetupInv
<1>6. wild' = wild \cup missing /\ \A k \in o.made \ o.fail : Calls(Name)[k].wants \subseteq there(k)
  BY DEF Perform
<1> HIDE DEF there
<1>7. x \in Calls(Name)[1].needs => x \in missing
  BY <1>1, <1>5
<1> HIDE DEF missing
<1> QED BY <1>1, <1>5, <1>6, <1>7

LEMMA AheadStays ==
  ASSUME SetupInv, UnderWay, todo # <<>>, NEW o \in Outcome(Name), Perform(o.made, o.fail)
  PROVE  Ahead'
<1>1. todo' = Tail(todo) /\ role' = role
  BY JobStep
<1>2. /\ Head(todo) \in JobsOf(todo) /\ Ordered(Tail(todo), 1, 9)
      /\ JobsOf(Tail(todo)) = JobsOf(todo) \ {Head(todo)}
      /\ \A x \in JobsOf(todo) : Stage(Head(todo)) <= Stage(x)
  BY Rest DEF UnderWay, Ahead
<1>3. ASSUME NEW x \in Plan(role) \ JobsOf(Tail(todo)), NEW y \in JobsOf(Tail(todo))
      PROVE  Stage(x) <= Stage(y)
  BY <1>2, <1>3 DEF UnderWay, Ahead
<1>4. JobsOf(Tail(todo)) \subseteq Plan(role)
  BY <1>2 DEF UnderWay, Ahead
<1> HIDE DEF Stage
<1> QED BY <1>1, <1>2, <1>3, <1>4 DEF Ahead

\* What a call makes of what others use.
LEMMA Maker ==
  ASSUME SetupInv, UnderWay, todo # <<>>, NEW o \in Outcome(Name), Perform(o.made, o.fail),
         NEW x \in {"ep_fi", "mr", "cmr", "pep", "pep_eq", "enabled"}, x \in Made(o.made \ o.fail)
  PROVE  /\ x \in {"ep_fi", "mr", "cmr"} => Name = "constructor"
         /\ x \in {"pep", "pep_eq"} => Name = "server"
         /\ x = "enabled" => Name \in {"client", "accept"}
<1>1. Name \in Names /\ o.made \subseteq DOMAIN Calls(Name)
  BY JobStep
<1>2. PICK k \in o.made \ o.fail : Calls(Name)[k].makes = x
  BY DEF Made
<1> QED BY <1>1, <1>2, Makers

LEMMA FreshStays ==
  ASSUME SetupInv, UnderWay, todo # <<>>, NEW o \in Outcome(Name), Perform(o.made, o.fail)
  PROVE  Fresh'
<1> SUFFICES ASSUME NEW n \in Ep
             PROVE  /\ <<"constructor", n>> \in JobsOf(todo') => has'[n] \cap {"ep_fi", "mr", "cmr"} = {}
                    /\ <<"server", n>> \in JobsOf(todo') => has'[n] \cap {"pep", "pep_eq"} = {}
                    /\ <<"client", n>> \in JobsOf(todo') => "enabled" \notin has'[n]
  BY DEF Fresh, JobsOf
<1>1. /\ todo' = Tail(todo) /\ Head(todo) = <<Name, This>>
      /\ has' = [has EXCEPT ![This] = @ \cup Made(o.made \ o.fail)]
  BY JobStep
<1>2. /\ JobsOf(Tail(todo)) = JobsOf(todo) \ {Head(todo)}
      /\ \A x \in JobsOf(todo) : Stage(Head(todo)) <= Stage(x)
  BY Rest DEF UnderWay, Ahead
<1>3. /\ <<"constructor", n>> \in JobsOf(todo) => has[n] \cap {"ep_fi", "mr", "cmr"} = {}
      /\ <<"server", n>> \in JobsOf(todo) => has[n] \cap {"pep", "pep_eq"} = {}
      /\ <<"client", n>> \in JobsOf(todo) => "enabled" \notin has[n]
  BY DEF UnderWay, Fresh
<1>4. CASE n # This
  <2>1. has'[n] = has[n]
    BY <1>1, <1>4 DEF SetupInv
  <2> QED BY <1>1, <1>2, <1>3, <2>1
<1>5. CASE n = This
  <2>1. has'[n] = has[n] \cup Made(o.made \ o.fail)
    BY <1>1, <1>5 DEF SetupInv
  <2>2. <<"constructor", n>> \in JobsOf(todo') => Made(o.made \ o.fail) \cap {"ep_fi", "mr", "cmr"} = {}
    BY <1>1, <1>2, <1>5, Maker
  <2>3. <<"server", n>> \in JobsOf(todo') => Made(o.made \ o.fail) \cap {"pep", "pep_eq"} = {}
    BY <1>1, <1>2, <1>5, Maker
  <2>4. <<"client", n>> \in JobsOf(todo') => "enabled" \notin Made(o.made \ o.fail)
    <3> SUFFICES ASSUME <<"client", n>> \in JobsOf(todo'), "enabled" \in Made(o.made \ o.fail)
                 PROVE  FALSE
      OBVIOUS
    <3>1. Head(todo) = <<"accept", n>>
      BY <1>1, <1>2, <1>5, Maker
    <3>2. Stage(<<"accept", n>>) <= Stage(<<"client", n>>)
      BY <1>1, <1>2, <3>1
    <3>3. Stage(<<"accept", n>>) = 8 /\ Stage(<<"client", n>>) \in 3 .. 4
      BY StageOf, Zenon
    <3> QED BY <3>2, <3>3
  <2> QED BY <1>1, <1>2, <1>3, <2>1, <2>2, <2>3, <2>4
<1> QED BY <1>4, <1>5

\* What is missing stays missing until it is used, and that does not go unnoticed.
LEMMA GapStays ==
  ASSUME SetupInv, UnderWay, todo # <<>>, NEW o \in Outcome(Name), Perform(o.made, o.fail),
         wild' = {}, o.fail = {} \/ Name \in Ignored, NEW g \in Gaps, NEW n \in Ep, Lost(g, n)
  PROVE  Lost(g, n)'
<1>1. /\ todo' = Tail(todo) /\ Head(todo) = <<Name, This>> /\ Name \in Names /\ This \in Ep
      /\ has' = [has EXCEPT ![This] = @ \cup Made(o.made \ o.fail)]
  BY JobStep
<1>2. /\ JobsOf(Tail(todo)) = JobsOf(todo) \ {Head(todo)} /\ Head(todo) \in JobsOf(todo)
      /\ \A x \in JobsOf(todo) : Stage(Head(todo)) <= Stage(x)
  BY Rest DEF UnderWay, Ahead
<1>3. CASE Head(todo) = <<g[3], n>>
  <2>1. Name = g[3] /\ This = n /\ g[1] \notin has[This] /\ g[1] \notin NodeObject
    BY <1>1, <1>3 DEF Lost, Gaps, NodeObject
  <2>2. g[1] \in Calls(Name)[1].needs \/ (g[1] \in Calls(Name)[1].wants /\ Name \notin Ignored)
    BY <2>1, OtherCalls, ClientCalls, AcceptCalls DEF Gaps, Ignored
  <2>3. g[1] \in Calls(Name)[1].wants => 1 \in o.fail
    BY <2>1, FirstCall
  <2>4. g[1] \notin Calls(Name)[1].needs
    BY <2>1, FirstCall
  <2> QED BY <2>2, <2>3, <2>4
<1>4. CASE Head(todo) # <<g[3], n>>
  <2>1. <<g[2], n>> \notin JobsOf(todo') /\ <<g[3], n>> \in JobsOf(todo')
    BY <1>1, <1>2, <1>4 DEF Lost
  <2>2. g[1] \notin has'[n]
    <3>1. CASE n # This
      <4>1. has'[n] = has[n]
        BY <1>1, <3>1 DEF SetupInv
      <4> QED BY <4>1 DEF Lost
    <3>2. CASE n = This
      <4> SUFFICES ASSUME g[1] \in Made(o.made \ o.fail) PROVE FALSE
        BY <1>1, <3>2 DEF SetupInv, Lost
      <4>1. g[1] \in {"ep_fi", "mr", "cmr", "pep", "pep_eq", "enabled"}
        BY DEF Gaps
      <4>2. Name = g[2] \/ (Name = "accept" /\ g = <<"enabled", "client", "connect">>)
        BY <4>1, Maker DEF Gaps
      <4>3. Name # g[2]
        BY <1>1, <1>2, <3>2 DEF Lost
      <4>4. Stage(<<"accept", n>>) <= Stage(<<"connect", n>>)
        BY <1>1, <1>2, <3>2, <4>2, <4>3 DEF Lost
      <4>5. Stage(<<"accept", n>>) = 8 /\ Stage(<<"connect", n>>) \in 6 .. 7
        BY StageOf, Zenon
      <4> QED BY <4>4, <4>5
    <3> QED BY <3>1, <3>2
  <2> QED BY <2>1, <2>2 DEF Lost, JobsOf
<1> QED BY <1>3, <1>4

\* What the function called now leaves unmade, another will use.
LEMMA Opens ==
  ASSUME SetupInv, UnderWay, todo # <<>>, NEW o \in Outcome(Name), Perform(o.made, o.fail),
         NEW g \in Gaps, Name = g[2], g[1] \notin Made(o.made \ o.fail),
         NEW n \in Ep, This = n, <<g[3], n>> \in Plan(role)
  PROVE  Lost(g, n)'
<1>1. /\ todo' = Tail(todo) /\ Head(todo) = <<g[2], n>>
      /\ has' = [has EXCEPT ![n] = @ \cup Made(o.made \ o.fail)]
  BY JobStep
<1>2. JobsOf(Tail(todo)) = JobsOf(todo) \ {Head(todo)} /\ Head(todo) \in JobsOf(todo)
  BY Rest DEF UnderWay, Ahead
<1>3. g[1] \notin has[n]
  <2>1. /\ <<"constructor", n>> \in JobsOf(todo) => has[n] \cap {"ep_fi", "mr", "cmr"} = {}
        /\ <<"server", n>> \in JobsOf(todo) => has[n] \cap {"pep", "pep_eq"} = {}
        /\ <<"client", n>> \in JobsOf(todo) => "enabled" \notin has[n]
    BY DEF UnderWay, Fresh
  <2>2. <<g[2], n>> \in JobsOf(todo)
    BY <1>1, <1>2
  <2> QED BY <2>1, <2>2 DEF Gaps
<1>4. g[1] \notin has'[n]
  BY <1>1, <1>3 DEF SetupInv
<1>5. <<g[2], n>> \notin JobsOf(todo')
  BY <1>1, <1>2
<1>6. <<g[3], n>> \in JobsOf(todo')
  <2>1. /\ Stage(<<"constructor", n>>) \in 1 .. 2 /\ Stage(<<"client", n>>) \in 3 .. 4
        /\ Stage(<<"server", n>>) = 4 /\ Stage(<<"listen", n>>) = 5
        /\ Stage(<<"connect", n>>) \in 6 .. 7 /\ Stage(<<"accept", n>>) = 8
        /\ Stage(<<"sendKeys", n>>) = 9
    BY StageOf, Zenon
  <2>2. /\ Stage(<<g[2], n>>) \in Nat /\ Stage(<<g[3], n>>) \in Nat
        /\ Stage(<<g[2], n>>) < Stage(<<g[3], n>>)
    BY <2>1 DEF Gaps
  <2>3. Ahead /\ Stage(Head(todo)) = Stage(<<g[2], n>>)
    BY <1>1 DEF UnderWay
  <2>4. <<g[3], n>> \in JobsOf(Tail(todo))
    BY <2>2, <2>3, StillAhead
  <2> QED BY <1>1, <2>4
<1> QED BY <1>4, <1>5, <1>6 DEF Lost, JobsOf

\* A failure nobody looks at leaves a gap, or something is used that was never made.
LEMMA NewGap ==
  ASSUME SetupInv, UnderWay, todo # <<>>, NEW o \in Outcome(Name), Perform(o.made, o.fail),
         wild' = {}, o.fail # {}, Name \in Ignored \cap Names
  PROVE  \E g \in Gaps, n \in Ep : Lost(g, n)'
<1>1. This \in Ep /\ Head(todo) = <<Name, This>> /\ <<Name, This>> \in Plan(role)
  <2>1. Head(todo) \in JobsOf(todo) /\ JobsOf(todo) \subseteq Plan(role)
    BY Rest DEF UnderWay, Ahead
  <2> QED BY <2>1, JobStep
<1>0. PICK n \in Ep : This = n
  BY <1>1
<1> DEFINE there(k) == open \cup has[This] \cup Made({j \in o.made \ o.fail : j < k})
           missing  == UNION {Calls(Name)[k].needs \ there(k) : k \in o.made}
<1>2. role \in {"client", "server", "controller"}
  BY DEF SetupInv
<1>3. CASE Name = "constructor"
  <2>1. /\ o.made = 1 .. 4 /\ o.fail \subseteq 1 .. 3
    <3>1. PICK F \in SUBSET (1 .. 3) : o = [made |-> DOMAIN Calls("constructor"), fail |-> F]
      BY <1>3 DEF Outcome
    <3> QED BY <3>1, OtherCalls
  <2>2. \A k \in 1 .. 4 : k \in {1, 2, 3, 4}
    OBVIOUS
  <2>3. /\ \A k \in 1 .. 4 : Calls(Name)[k].makes = "ep_fi" => k = 1
        /\ \A k \in 1 .. 4 : Calls(Name)[k].makes = "mr" => k = 2
        /\ \A k \in 1 .. 4 : Calls(Name)[k].makes = "cmr" => k = 3
    BY <1>3, <2>2, OtherCalls
  <2>4. /\ 1 \in o.fail => "ep_fi" \notin Made(o.made \ o.fail)
        /\ 3 \in o.fail => "cmr" \notin Made(o.made \ o.fail)
        /\ 2 \in o.fail => "mr" \notin Made(o.made \ o.fail)
    BY <2>1, <2>3 DEF Made
  <2>5. /\ <<"server", n>> \in Plan(role) \/ <<"client", n>> \in Plan(role)
        /\ <<"connect", n>> \in Plan(role) \/ <<"sendKeys", n>> \in Plan(role)
    BY <1>0, <1>1, <1>2, <1>3, Users
  <2>6. CASE 1 \in o.fail
    <3>1. PICK u \in {"server", "client"} : <<u, n>> \in Plan(role)
      BY <2>5
    <3>2. <<"ep_fi", "constructor", u>> \in Gaps
      BY DEF Gaps
    <3>3. Lost(<<"ep_fi", "constructor", u>>, n)'
      BY <1>0, <1>3, <2>4, <2>6, <3>1, <3>2, Opens
    <3> QED BY <3>2, <3>3
  <2>7. CASE 3 \in o.fail
    <3>1. PICK u \in {"connect", "sendKeys"} : <<u, n>> \in Plan(role)
      BY <2>5
    <3>2. <<"cmr", "constructor", u>> \in Gaps
      BY DEF Gaps
    <3>3. Lost(<<"cmr", "constructor", u>>, n)'
      BY <1>0, <1>3, <2>4, <2>7, <3>1, <3>2, Opens
    <3> QED BY <3>2, <3>3
  <2>8. CASE 2 \in o.fail
    <3>1. "mr" \notin has[This] /\ "mr" \notin open
      <4>1. <<"constructor", This>> \in JobsOf(todo)
        BY <1>1, <1>3, Rest DEF UnderWay, Ahead
      <4> QED BY <1>1, <4>1 DEF UnderWay, Fresh, SetupInv, NodeObject
    <3>2. "mr" \notin Made({j \in o.made \ o.fail : j < 4})
      BY <2>4, <2>8 DEF Made
    <3>3. "mr" \in Calls(Name)[4].needs /\ 4 \in o.made
      BY <1>3, <2>1, OtherCalls
    <3>4. "mr" \notin there(4)
      BY <3>1, <3>2
    <3>5. missing \subseteq wild'
      BY DEF Perform
    <3> HIDE DEF there
    <3>6. "mr" \in missing
      BY <3>3, <3>4
    <3> QED BY <3>5, <3>6
  <2> QED BY <2>1, <2>2, <2>6, <2>7, <2>8
<1>4. CASE Name \in {"server", "client"}
  <2>1. PICK k \in DOMAIN Calls(Name) : o.made = 1 .. k /\ o.fail = {k}
    BY <1>4, Prefix DEF Names
  <2>2. CASE Name = "server"
    <3>0. k \in {1, 2}
      BY <2>2, OtherCalls
    <3>1. /\ k \in {1, 2}
          /\ <<"listen", n>> \in Plan(role) /\ <<"accept", n>> \in Plan(role)
      BY <1>0, <1>1, <1>2, <2>2, <3>0, Users
    <3>2. CASE k = 1
      <4>1. "pep" \notin Made(o.made \ o.fail)
        BY <2>1, <3>2 DEF Made
      <4>3. <<"pep", "server", "listen">> \in Gaps
        BY DEF Gaps
      <4>4. Lost(<<"pep", "server", "listen">>, n)'
        BY <1>0, <2>2, <3>1, <4>1, <4>3, Opens
      <4> QED BY <4>3, <4>4
    <3>3. CASE k = 2
      <4>1. o.made \ o.fail = {1}
        BY <2>1, <3>3
      <4>2. "pep_eq" \notin Made(o.made \ o.fail)
        BY <2>2, <4>1, OtherCalls DEF Made
      <4>3. <<"pep_eq", "server", "accept">> \in Gaps
        BY DEF Gaps
      <4>4. Lost(<<"pep_eq", "server", "accept">>, n)'
        BY <1>0, <2>2, <3>1, <4>2, <4>3, Opens
      <4> QED BY <4>3, <4>4
    <3> QED BY <3>1, <3>2, <3>3
  <2>3. CASE Name = "client"
    <3>1. k \in 1 .. 5 /\ <<"connect", n>> \in Plan(role)
      BY <1>0, <1>1, <1>2, <2>3, Users, ClientCalls
    <3>2. o.made \ o.fail \subseteq 1 .. 4
      BY <2>1, <3>1
    <3>3. "enabled" \notin Made(o.made \ o.fail)
      BY <2>3, <3>2, ClientCalls DEF Made
    <3>4. <<"enabled", "client", "connect">> \in Gaps
      BY DEF Gaps
    <3>5. Lost(<<"enabled", "client", "connect">>, n)'
      BY <1>0, <2>3, <3>1, <3>3, <3>4, Opens
    <3> QED BY <3>4, <3>5
  <2> QED BY <1>4, <2>2, <2>3
<1> QED BY <1>3, <1>4 DEF Ignored

LEMMA SetupStep == SetupInv /\ [Next]_vars => SetupInv'
<1> SUFFICES ASSUME SetupInv, [Next]_vars PROVE SetupInv'
  OBVIOUS
<1>1. CASE Step
  <2>1. pc = "run" /\ todo # <<>>
    BY <1>1 DEF Step
  <2>2. PICK o \in Outcome(Name) :
          /\ Perform(o.made, o.fail)
          /\ pc' \in {IF o.fail # {} /\ Name \notin Ignored THEN "failed" ELSE "run"}
                       \cup (IF wild' # wild THEN {"died"} ELSE {})
    BY <1>1 DEF Step
  <2>3. pc' = "run" => o.fail = {} \/ Name \in Ignored
    BY <2>2
  <2>4. failures' = failures + Cardinality(o.fail) /\ role' = role
    BY <2>2 DEF Perform
  <2>5. CASE AtStart
    <3>1. Name = "init" /\ "init" \notin Ignored /\ Head(todo) = First
      BY <2>5 DEF AtStart, Name, First, Ignored
    <3>2. /\ wild' = wild /\ has' = has /\ todo' = Tail(todo) /\ open' \subseteq NodeObject
          /\ o.fail = {} => NodeObject \subseteq open'
      BY <2>1, <2>2, <3>1, InitStep DEF SetupInv
    <3>3. ASSUME pc' = "run" PROVE UnderWay'
      <4>1. NodeObject \subseteq open'
        BY <2>3, <3>1, <3>2, <3>3
      <4>2. Ordered(todo', 1, 9) /\ JobsOf(todo') = Plan(role')
        BY <2>4, <2>5, <3>2 DEF AtStart
      <4>3. Ahead'
        <5> HIDE DEF Ordered, Plan, Stage
        <5> QED BY <4>2 DEF Ahead
      <4>4. Fresh'
        BY <2>5, <3>2 DEF AtStart, Fresh
      <4>5. failures' = 0
        <5>1. Cardinality(o.fail) = 0
          BY <2>3, <3>1, <3>3, FS_EmptySet
        <5> QED BY <2>4, <2>5, <5>1 DEF AtStart
      <4> QED BY <4>1, <4>3, <4>4, <4>5 DEF UnderWay
    <3> QED BY <2>4, <3>2, <3>3 DEF SetupInv, NodeComplete
  <2>6. CASE UnderWay
    <3>1. /\ open' = open /\ wild \subseteq wild' /\ NodeComplete' /\ Name \in Names
          /\ has' = [has EXCEPT ![This] = @ \cup Made(o.made \ o.fail)]
      BY <2>1, <2>2, <2>6, JobStep
    <3>2. ASSUME pc' = "run" PROVE UnderWay'
      <4>1. Ahead' /\ Fresh'
        BY <2>1, <2>2, <2>6, AheadStays, FreshStays
      <4>2. ASSUME wild' = {}, failures' # 0 PROVE \E g \in Gaps, n \in Ep : Lost(g, n)'
        <5>1. CASE o.fail # {}
          <6>1. Name \in Ignored \cap Names
            BY <2>3, <3>1, <3>2, <5>1
          <6> QED BY <2>1, <2>2, <2>6, <4>2, <5>1, <6>1, NewGap
        <5>2. CASE o.fail = {}
          <6>1. failures # 0 /\ wild = {}
            <7>1. Cardinality(o.fail) = 0
              BY <5>2, FS_EmptySet
            <7> QED BY <2>4, <3>1, <4>2, <7>1
          <6>2. PICK g \in Gaps, n \in Ep : Lost(g, n)
            BY <2>6, <6>1 DEF UnderWay
          <6>3. Lost(g, n)'
            BY <2>1, <2>2, <2>6, <4>2, <5>2, <6>2, GapStays
          <6> QED BY <6>3
        <5> QED BY <5>1, <5>2
      <4>3. NodeObject \subseteq open'
        BY <2>6, <3>1 DEF UnderWay
      <4> HIDE DEF Lost, Gaps
      <4>4. (wild = {} /\ failures # 0 => \E g \in Gaps, n \in Ep : Lost(g, n))'
        BY <4>2
      <4> QED BY <4>1, <4>3, <4>4 DEF UnderWay
    <3> QED BY <2>4, <3>1, <3>2 DEF SetupInv
  <2> QED BY <2>1, <2>5, <2>6 DEF SetupInv
<1>2. CASE UNCHANGED vars
  <2>1. AtStart => AtStart'
    BY <1>2 DEF vars, AtStart
  <2>2. UnderWay => UnderWay'
    BY <1>2 DEF vars, UnderWay, Ahead, Fresh, Lost
  <2> QED BY <1>2, <2>1, <2>2 DEF vars, SetupInv, NodeComplete
<1> QED BY <1>1, <1>2 DEF Next

LEMMA SetupHolds == Spec => []SetupInv
<1> QED BY SetupInit, SetupStep, PTL DEF Spec

\* Whichever calls fail, and although the constructor and the callers of server() and
\* client() go on, nothing is ever built on an object of the node that was not made
\* (Node::init, and what main() does with its result).
THEOREM NodeHolds == Spec => []NodeComplete
<1>1. SetupInv => NodeComplete
  BY DEF SetupInv
<1> QED BY <1>1, SetupHolds, PTL

\* Whichever calls fail, and for every number of endpoints: a failure nobody looks at
\* (in the constructor, in server() or in client()) is found before the setup is over, by
\* a function that uses what was to be made and hands its own failure on.
THEOREM FailuresAreFound == Spec => []NoSilentFailure
<1>1. SetupInv => NoSilentFailure
  <2> SUFFICES ASSUME SetupInv, pc = "run", todo = <<>>, wild = {}, failures # 0
               PROVE  FALSE
    BY DEF NoSilentFailure
  <2>1. UnderWay
    BY DEF SetupInv, AtStart
  <2>2. PICK g \in Gaps, n \in Ep : Lost(g, n)
    BY <2>1 DEF UnderWay
  <2>3. JobsOf(todo) = {}
    BY DEF JobsOf
  <2> QED BY <2>2, <2>3 DEF Lost
<1> QED BY <1>1, SetupHolds, PTL

=============================================================================
