--------------------------- MODULE ContextsProofs ---------------------------
(***************************************************************************)
(* The receive contexts that are freed and used again, for every number of *)
(* endpoints and rounds: no block is freed twice, whatever other code of   *)
(* the process takes from the list of free blocks; and as long as it takes *)
(* none, a completion is taken for what it is, the heap does not grow and, *)
(* but in a server, no link that is followed was overwritten.              *)
(***************************************************************************)
EXTENDS Contexts, SequenceTheorems, TLAPS

-----------------------------------------------------------------------------
(* The functions of a process and their order. *)

Functions ==
  {ControllerConnect, ControllerStart, ConnectToController, ConfirmToController, Benchmark,
   ServeUntilStop} \cup {Connect(e) : e \in 0 .. Cep}

\* What a function prepares at all, and before the k-th preparation.
Does(f, x)      == \E k \in DOMAIN f.prepares : f.prepares[k] = x
Before(p, k, x) == \E j \in DOMAIN p : j < k /\ p[j] = x

LEMMA Sizes ==
  /\ NumEp \in Nat /\ NumEp >= 1 /\ Rounds \in Nat /\ Cep = NumEp /\ SendCtx = NumEp + 1
  /\ Ep \subseteq 0 .. Cep /\ Cep \in 0 .. Cep /\ Cep \notin Ep /\ Ep # {} /\ 0 \in Ep
  /\ 0 .. Cep \subseteq Nat
<1>1. NumEp \in Nat /\ NumEp >= 1 /\ Rounds \in Nat
  BY ContextsAssumption
<1> QED BY <1>1, SMT DEF Cep, SendCtx, Ep

\* Two sequences one after the other.
LEMMA Concatenation ==
  ASSUME NEW T, NEW a \in Seq(T), NEW b \in Seq(T)
  PROVE  /\ a \o b \in Seq(T) /\ Len(a \o b) = Len(a) + Len(b)
         /\ \A j \in 1 .. Len(a) : (a \o b)[j] = a[j]
         /\ \A j \in Len(a) + 1 .. Len(a) + Len(b) : (a \o b)[j] = b[j - Len(a)]
<1>1. a \o b \in Seq(T) /\ Len(a \o b) = Len(a) + Len(b)
  OBVIOUS
<1>2. ASSUME NEW j \in 1 .. Len(a) PROVE (a \o b)[j] = a[j]
  OBVIOUS
<1>3. ASSUME NEW j \in Len(a) + 1 .. Len(a) + Len(b) PROVE (a \o b)[j] = b[j - Len(a)]
  OBVIOUS
<1> QED BY <1>1, <1>2, <1>3

LEMMA Doing ==
  ASSUME NEW f
  PROVE  /\ f.prepares = <<"ctx", "post", "entry">> =>
              \A x : Does(f, x) <=> x \in {"ctx", "post", "entry"}
         /\ f.prepares = <<"entry">> => \A x : Does(f, x) <=> x = "entry"
         /\ f.prepares = <<"post", "entry">> =>
              \A x : Does(f, x) <=> x \in {"post", "entry"}
         /\ f.prepares = <<"ctx", "entry", "post">> =>
              \A x : Does(f, x) <=> x \in {"ctx", "post", "entry"}
         /\ f.prepares = <<"post", "ctx", "entry", "event">> =>
              \A x : Does(f, x) <=> x \in {"post", "ctx", "entry", "event"}
<1>1. ASSUME NEW a, NEW b, NEW c, f.prepares = <<a, b, c>>
      PROVE  \A x : Does(f, x) <=> x \in {a, b, c}
  <2>1. DOMAIN f.prepares = {1, 2, 3}
        /\ f.prepares[1] = a /\ f.prepares[2] = b /\ f.prepares[3] = c
    BY <1>1
  <2> QED BY <2>1 DEF Does
<1>2. ASSUME f.prepares = <<"entry">> PROVE \A x : Does(f, x) <=> x = "entry"
  <2>1. DOMAIN f.prepares = {1} /\ f.prepares[1] = "entry"
    BY <1>2
  <2> QED BY <2>1 DEF Does
<1>3. ASSUME f.prepares = <<"post", "entry">> PROVE \A x : Does(f, x) <=> x \in {"post", "entry"}
  <2>1. DOMAIN f.prepares = {1, 2} /\ f.prepares[1] = "post" /\ f.prepares[2] = "entry"
    BY <1>3
  <2> QED BY <2>1 DEF Does
<1>4. ASSUME f.prepares = <<"post", "ctx", "entry", "event">>
      PROVE  \A x : Does(f, x) <=> x \in {"post", "ctx", "entry", "event"}
  <2>1. DOMAIN f.prepares = {1, 2, 3, 4} /\ f.prepares[1] = "post" /\ f.prepares[2] = "ctx"
        /\ f.prepares[3] = "entry" /\ f.prepares[4] = "event"
    BY <1>4
  <2> QED BY <2>1 DEF Does
<1>5. \A x : x \in {"ctx", "entry", "post"} <=> x \in {"ctx", "post", "entry"}
  OBVIOUS
<1> QED BY <1>1, <1>2, <1>3, <1>4, <1>5

\* The functions differ in what they prepare, and what they free.
LEMMA Kinds ==
  ASSUME NEW f \in Functions
  PROVE  \/ /\ f = ControllerConnect /\ f.prepares = <<"ctx", "post", "entry">>
            /\ \A x : Does(f, x) <=> x \in {"ctx", "post", "entry"}
            /\ f.posts = Ep /\ f.sends /\ f.reads /\ f.frees = <<"entry", "ctx">>
         \/ /\ f = ControllerStart /\ f.prepares = <<"entry">>
            /\ \A x : Does(f, x) <=> x = "entry"
            /\ f.posts = {} /\ f.sends /\ ~f.reads /\ f.frees = <<"entry">>
         \/ /\ f.prepares = <<"post", "entry">>
            /\ \A x : Does(f, x) <=> x \in {"post", "entry"}
            /\ \E e \in 0 .. Cep : f = Connect(e) /\ f.posts = {e}
            /\ ~f.sends /\ f.reads /\ f.frees = <<"ctx", "entry">>
         \/ /\ f \in {ConnectToController, ConfirmToController}
            /\ f.prepares = <<"post", "entry">>
            /\ \A x : Does(f, x) <=> x \in {"post", "entry"}
            /\ f.posts = {Cep} /\ ~f.reads /\ f.frees = <<"entry">>
         \/ /\ f = Benchmark /\ f.prepares = <<"ctx", "entry", "post">>
            /\ \A x : Does(f, x) <=> x \in {"ctx", "post", "entry"}
            /\ f.posts = {Cep} /\ ~f.sends /\ ~f.reads /\ f.frees = <<"entry", "ctx">>
         \/ /\ f = ServeUntilStop /\ f.prepares = <<"post", "ctx", "entry", "event">>
            /\ \A x : Does(f, x) <=> x \in {"post", "ctx", "entry", "event"}
            /\ f.posts = {Cep} /\ ~f.sends /\ ~f.reads
            /\ f.frees = <<"entry", "event", "ctx">>
<1>1. CASE f = ControllerConnect
  <2>1. f.prepares = <<"ctx", "post", "entry">>
    BY <1>1 DEF ControllerConnect, Command, Function
  <2>2. /\ f.posts = Ep /\ f.sends = TRUE /\ f.reads = TRUE /\ f.frees = <<"entry", "ctx">>
    BY <1>1 DEF ControllerConnect, Command, Function
  <2> QED BY <1>1, <2>1, <2>2, Doing
<1>2. CASE f = ControllerStart
  <2>1. f.prepares = <<"entry">>
    BY <1>2 DEF ControllerStart, Function
  <2>2. f.posts = {} /\ f.sends = TRUE /\ f.reads = FALSE /\ f.frees = <<"entry">>
    BY <1>2 DEF ControllerStart, Function
  <2> QED BY <1>2, <2>1, <2>2, Doing
<1>3. CASE f \in {ConnectToController, ConfirmToController}
  <2>1. f.prepares = <<"post", "entry">>
    BY <1>3 DEF ConnectToController, ConfirmToController, Await, Function
  <2>2. f.posts = {Cep} /\ f.reads = FALSE /\ f.frees = <<"entry">>
    BY <1>3 DEF ConnectToController, ConfirmToController, Await, Function
  <2> QED BY <1>3, <2>1, <2>2, Doing
<1>4. CASE f = Benchmark
  <2>1. f.prepares = <<"ctx", "entry", "post">>
    BY <1>4 DEF Benchmark, Function
  <2>2. /\ f.posts = {Cep} /\ f.sends = FALSE /\ f.reads = FALSE
        /\ f.frees = <<"entry", "ctx">>
    BY <1>4 DEF Benchmark, Function
  <2> QED BY <1>4, <2>1, <2>2, Doing
<1>5. CASE f = ServeUntilStop
  <2>1. f.prepares = <<"post", "ctx", "entry", "event">>
    BY <1>5 DEF ServeUntilStop, Function
  <2>2. /\ f.posts = {Cep} /\ f.sends = FALSE /\ f.reads = FALSE
        /\ f.frees = <<"entry", "event", "ctx">>
    BY <1>5 DEF ServeUntilStop, Function
  <2> QED BY <1>5, <2>1, <2>2, Doing
<1>6. CASE \E e \in 0 .. Cep : f = Connect(e)
  <2>1. PICK e \in 0 .. Cep : f = Connect(e)
    BY <1>6
  <2>2. /\ f.prepares = <<"post", "entry">> /\ f.posts = {e} /\ f.sends = FALSE
        /\ f.reads = TRUE /\ f.frees = <<"ctx", "entry">>
    BY <2>1 DEF Connect, Function
  <2> QED BY <2>1, <2>2, Doing
<1> QED BY <1>1, <1>2, <1>3, <1>4, <1>5, <1>6 DEF Functions

LEMMA ConnectFacts ==
  ASSUME NEW e
  PROVE  /\ Connect(e).reads /\ Connect(e).posts = {e} /\ ~Does(Connect(e), "ctx")
         /\ ~Does(Connect(e), "event")
BY DEF Connect, Function, Does

LEMMA OtherFacts ==
  /\ ~ConnectToController.reads /\ ConnectToController.posts = {Cep}
  /\ ~ConfirmToController.reads /\ ConfirmToController.posts = {Cep}
  /\ ~Does(ConnectToController, "ctx") /\ ~Does(ConnectToController, "event")
  /\ ~Does(ConfirmToController, "ctx") /\ ~Does(ConfirmToController, "event")
  /\ ~Benchmark.reads /\ Benchmark.posts = {Cep}
  /\ Does(Benchmark, "ctx") /\ ~Does(Benchmark, "event")
  /\ ~ServeUntilStop.reads /\ ServeUntilStop.posts = {Cep}
  /\ ~ControllerStart.reads /\ ControllerStart.posts = {}
  /\ ~Does(ControllerStart, "ctx") /\ ~Does(ControllerStart, "event")
  /\ ControllerConnect.reads /\ ControllerConnect.posts = Ep
  /\ Does(ControllerConnect, "ctx") /\ ~Does(ControllerConnect, "event")
  /\ ControllerCheckpoint = ControllerConnect /\ ControllerStop = ControllerConnect
<1>1. ControllerCheckpoint = ControllerConnect /\ ControllerStop = ControllerConnect
  BY DEF ControllerCheckpoint, ControllerStop, ControllerConnect
<1>2. /\ ~ConnectToController.reads /\ ConnectToController.posts = {Cep}
      /\ ~Does(ConnectToController, "ctx") /\ ~Does(ConnectToController, "event")
  BY DEF ConnectToController, Await, Function, Does
<1>3. /\ ~ConfirmToController.reads /\ ConfirmToController.posts = {Cep}
      /\ ~Does(ConfirmToController, "ctx") /\ ~Does(ConfirmToController, "event")
  BY DEF ConfirmToController, Await, Function, Does
<1>4. /\ ~Benchmark.reads /\ Benchmark.posts = {Cep}
      /\ Does(Benchmark, "ctx") /\ ~Does(Benchmark, "event")
  BY DEF Benchmark, Function, Does
<1>5. ~ServeUntilStop.reads /\ ServeUntilStop.posts = {Cep}
  BY DEF ServeUntilStop, Function
<1>6. /\ ~ControllerStart.reads /\ ControllerStart.posts = {}
      /\ ~Does(ControllerStart, "ctx") /\ ~Does(ControllerStart, "event")
  BY DEF ControllerStart, Function, Does
<1>7. /\ ControllerConnect.reads /\ ControllerConnect.posts = Ep
      /\ Does(ControllerConnect, "ctx") /\ ~Does(ControllerConnect, "event")
  BY DEF ControllerConnect, Command, Function, Does
<1> QED BY <1>1, <1>2, <1>3, <1>4, <1>5, <1>6, <1>7

\* What a list of preparations holds, and what comes before its k-th.
LEMMA Before1 ==
  ASSUME NEW a, NEW k \in Nat
  PROVE  \A x : Before(<<a>>, k, x) <=> k > 1 /\ x = a
<1>1. DOMAIN <<a>> = 1 .. 1 /\ <<a>>[1] = a
  OBVIOUS
<1> QED BY <1>1 DEF Before

LEMMA Before2 ==
  ASSUME NEW a, NEW b, NEW k \in Nat
  PROVE  \A x : Before(<<a, b>>, k, x) <=> (k > 1 /\ x = a) \/ (k > 2 /\ x = b)
<1>1. DOMAIN <<a, b>> = {1, 2} /\ <<a, b>>[1] = a /\ <<a, b>>[2] = b
  OBVIOUS
<1> QED BY <1>1 DEF Before

LEMMA Before3 ==
  ASSUME NEW a, NEW b, NEW c, NEW k \in Nat
  PROVE  \A x : Before(<<a, b, c>>, k, x) <=>
                  (k > 1 /\ x = a) \/ (k > 2 /\ x = b) \/ (k > 3 /\ x = c)
<1>1. /\ DOMAIN <<a, b, c>> = {1, 2, 3}
      /\ <<a, b, c>>[1] = a /\ <<a, b, c>>[2] = b /\ <<a, b, c>>[3] = c
  OBVIOUS
<1> QED BY <1>1 DEF Before

LEMMA Before4 ==
  ASSUME NEW a, NEW b, NEW c, NEW d, NEW k \in Nat
  PROVE  \A x : Before(<<a, b, c, d>>, k, x) <=>
                  \/ (k > 1 /\ x = a) \/ (k > 2 /\ x = b)
                  \/ (k > 3 /\ x = c) \/ (k > 4 /\ x = d)
<1>1. /\ DOMAIN <<a, b, c, d>> = {1, 2, 3, 4}
      /\ <<a, b, c, d>>[1] = a /\ <<a, b, c, d>>[2] = b
      /\ <<a, b, c, d>>[3] = c /\ <<a, b, c, d>>[4] = d
  OBVIOUS
<1> QED BY <1>1 DEF Before

\* In which order a function prepares.
Ordered(f) ==
  /\ Len(f.prepares) \in Nat /\ DOMAIN f.prepares = 1 .. Len(f.prepares)
  /\ \A k \in DOMAIN f.prepares :
       LET x == f.prepares[k] IN
       /\ x \in {"ctx", "entry", "event", "post"}
       /\ ~Before(f.prepares, k, x)
       /\ x = "post" /\ f.reads =>
            ~Before(f.prepares, k, "entry") /\ (Does(f, "ctx") => Before(f.prepares, k, "ctx"))
       /\ x = "entry" /\ Does(f, "ctx") => Before(f.prepares, k, "ctx")
       /\ x = "entry" => ~Before(f.prepares, k, "event")
       /\ x = "ctx"   => ~Before(f.prepares, k, "event") /\ ~Before(f.prepares, k, "entry")
       /\ x = "event" => Before(f.prepares, k, "ctx") /\ Before(f.prepares, k, "entry")

LEMMA OrderedFunctions ==
  ASSUME NEW f \in Functions
  PROVE  Ordered(f)
<1>1. CASE f.prepares = <<"ctx", "post", "entry">>
  <2>1. /\ Len(f.prepares) = 3 /\ DOMAIN f.prepares = {1, 2, 3} /\ f.prepares[1] = "ctx"
        /\ f.prepares[2] = "post" /\ f.prepares[3] = "entry" /\ 1 .. 3 = {1, 2, 3}
    BY <1>1
  <2>2. \A k \in {1, 2, 3} : \A x : Before(f.prepares, k, x) <=>
           (k > 1 /\ x = "ctx") \/ (k > 2 /\ x = "post") \/ (k > 3 /\ x = "entry")
    BY <1>1, Before3
  <2> QED BY <2>1, <2>2 DEF Ordered
<1>2. CASE f.prepares = <<"entry">>
  <2>1. /\ Len(f.prepares) = 1 /\ DOMAIN f.prepares = {1} /\ f.prepares[1] = "entry"
        /\ 1 .. 1 = {1}
    BY <1>2
  <2>2. \A x : ~Before(f.prepares, 1, x)
    BY <1>2, Before1
  <2>3. ~Does(f, "ctx")
    BY <2>1 DEF Does
  <2> QED BY <2>1, <2>2, <2>3 DEF Ordered
<1>3. CASE f.prepares = <<"post", "entry">>
  <2>1. /\ Len(f.prepares) = 2 /\ DOMAIN f.prepares = {1, 2} /\ f.prepares[1] = "post"
        /\ f.prepares[2] = "entry" /\ 1 .. 2 = {1, 2}
    BY <1>3
  <2>2. \A k \in {1, 2} : \A x : Before(f.prepares, k, x) <=>
           (k > 1 /\ x = "post") \/ (k > 2 /\ x = "entry")
    BY <1>3, Before2
  <2>3. ~Does(f, "ctx")
    BY <2>1 DEF Does
  <2> QED BY <2>1, <2>2, <2>3 DEF Ordered
<1>4. CASE f.prepares = <<"ctx", "entry", "post">> /\ ~f.reads
  <2>1. /\ Len(f.prepares) = 3 /\ DOMAIN f.prepares = {1, 2, 3} /\ f.prepares[1] = "ctx"
        /\ f.prepares[2] = "entry" /\ f.prepares[3] = "post" /\ 1 .. 3 = {1, 2, 3}
    BY <1>4
  <2>2. \A k \in {1, 2, 3} : \A x : Before(f.prepares, k, x) <=>
           (k > 1 /\ x = "ctx") \/ (k > 2 /\ x = "entry") \/ (k > 3 /\ x = "post")
    BY <1>4, Before3
  <2> QED BY <1>4, <2>1, <2>2 DEF Ordered
<1>5. CASE f.prepares = <<"post", "ctx", "entry", "event">> /\ ~f.reads
  <2>1. /\ Len(f.prepares) = 4 /\ DOMAIN f.prepares = {1, 2, 3, 4} /\ f.prepares[1] = "post"
        /\ f.prepares[2] = "ctx" /\ f.prepares[3] = "entry" /\ f.prepares[4] = "event"
        /\ 1 .. 4 = {1, 2, 3, 4}
    BY <1>5
  <2>2. \A k \in {1, 2, 3, 4} : \A x : Before(f.prepares, k, x) <=>
           \/ (k > 1 /\ x = "post") \/ (k > 2 /\ x = "ctx")
           \/ (k > 3 /\ x = "entry") \/ (k > 4 /\ x = "event")
    BY <1>5, Before4
  <2>3. ASSUME NEW k \in {1, 2, 3, 4}, NEW x, x = f.prepares[k]
        PROVE  /\ x \in {"ctx", "entry", "event", "post"}
               /\ ~Before(f.prepares, k, x)
               /\ x = "entry" => Before(f.prepares, k, "ctx")
               /\ x = "entry" => ~Before(f.prepares, k, "event")
               /\ x = "ctx"   => /\ ~Before(f.prepares, k, "event")
                               /\ ~Before(f.prepares, k, "entry")
               /\ x = "event" => /\ Before(f.prepares, k, "ctx")
                               /\ Before(f.prepares, k, "entry")
    <3>1. CASE k = 1 \/ k = 2
      BY <2>1, <2>2, <2>3, <3>1
    <3>2. CASE k = 3 \/ k = 4
      BY <2>1, <2>2, <2>3, <3>2
    <3> QED BY <3>1, <3>2
  <2>4. Len(f.prepares) \in Nat /\ DOMAIN f.prepares = 1 .. Len(f.prepares)
    BY <2>1
  <2>5. DOMAIN f.prepares = {1, 2, 3, 4} /\ ~f.reads
    BY <1>5, <2>1
  <2> QED BY <2>3, <2>4, <2>5, Zenon DEF Ordered
<1> QED BY <1>1, <1>2, <1>3, <1>4, <1>5, Kinds

LEMMA FunctionFacts ==
  ASSUME NEW f \in Functions
  PROVE  /\ f.posts \subseteq 0 .. Cep
         /\ f.reads => f.posts # {}
         /\ Does(f, "entry") /\ (f.posts # {} => Does(f, "post"))
         /\ \/ f.frees = <<"entry">> /\ ~Does(f, "ctx") /\ ~f.reads /\ ~Does(f, "event")
            \/ f.frees = <<"ctx", "entry">> /\ ~Does(f, "ctx") /\ f.reads /\ ~Does(f, "event")
            \/ f.frees = <<"entry", "ctx">> /\ Does(f, "ctx") /\ ~Does(f, "event")
            \/ f.frees = <<"entry", "event", "ctx">> /\ Does(f, "ctx") /\ Does(f, "event")
<1>1. /\ Does(f, "entry") /\ (f.posts # {} => Does(f, "post"))
      /\ f.posts = Ep \/ f.posts = {} \/ (\E e \in 0 .. Cep : f.posts = {e}) \/ f.posts = {Cep}
      /\ f.reads => f.posts # {}
  BY Kinds, Sizes
<1>2. /\ \/ f.frees = <<"entry">> /\ ~Does(f, "ctx") /\ ~f.reads /\ ~Does(f, "event")
         \/ f.frees = <<"ctx", "entry">> /\ ~Does(f, "ctx") /\ f.reads /\ ~Does(f, "event")
         \/ f.frees = <<"entry", "ctx">> /\ Does(f, "ctx") /\ ~Does(f, "event")
         \/ f.frees = <<"entry", "event", "ctx">> /\ Does(f, "ctx") /\ Does(f, "event")
  BY Kinds
<1>3. f.posts \subseteq 0 .. Cep
  BY <1>1, Sizes
<1> QED BY <1>1, <1>2, <1>3

\* What each process calls, and when.
LEMMA ControllerProgram ==
  LET p == Program("controller") IN
  /\ p \in Seq(Functions) /\ Len(p) = Rounds + 3
  /\ \A j \in 1 .. Len(p) : p[j] = IF j = 2 THEN ControllerStart ELSE ControllerConnect
<1> DEFINE a == <<ControllerConnect, ControllerStart>>
           b == [k \in 1 .. Rounds |-> ControllerCheckpoint]
           c == <<ControllerStop>>
           p == (a \o b) \o c
<1>1. Program("controller") = p
  BY DEF Program
<1>2. ControllerConnect \in Functions /\ ControllerStart \in Functions
  BY DEF Functions
<1>3. a \in Seq(Functions) /\ Len(a) = 2 /\ a[1] = ControllerConnect /\ a[2] = ControllerStart
  BY <1>2
<1>4. b \in Seq(Functions) /\ Len(b) = Rounds /\ \A k \in 1 .. Rounds : b[k] = ControllerConnect
  BY <1>2, Sizes, OtherFacts
<1>5. c \in Seq(Functions) /\ Len(c) = 1 /\ c[1] = ControllerConnect
  BY <1>2, OtherFacts
<1> HIDE DEF a, b, c
<1> DEFINE q == a \o b
<1>6. q \in Seq(Functions) /\ Len(q) = Rounds + 2
        /\ \A j \in 1 .. Rounds + 2 : q[j] = IF j <= 2 THEN a[j] ELSE b[j - 2]
  <2>1. /\ q \in Seq(Functions) /\ Len(q) = 2 + Rounds
        /\ \A j \in 1 .. 2 : q[j] = a[j]
        /\ \A j \in 2 + 1 .. 2 + Rounds : q[j] = b[j - 2]
    <3>1. a \in Seq(Functions) /\ b \in Seq(Functions) /\ 2 \in Nat /\ Rounds \in Nat
      BY <1>3, <1>4, Sizes
    <3>2. Len(a) = 2 /\ Len(b) = Rounds
      BY <1>3, <1>4
    <3>3. /\ a \o b \in Seq(Functions) /\ Len(a \o b) = Len(a) + Len(b)
          /\ \A j \in 1 .. Len(a) : (a \o b)[j] = a[j]
          /\ \A j \in Len(a) + 1 .. Len(a) + Len(b) : (a \o b)[j] = b[j - Len(a)]
      BY <3>1, Concatenation, Zenon
    <3> QED BY <3>2, <3>3
  <2>2. \A j \in 1 .. Rounds + 2 : IF j <= 2 THEN j \in 1 .. 2 ELSE j \in 2 + 1 .. 2 + Rounds
    BY Sizes
  <2> QED BY <2>1, <2>2, Sizes
<1>7. \A j \in 1 .. Rounds + 2 : q[j] = IF j = 2 THEN ControllerStart ELSE ControllerConnect
  <2>1. \A j \in 1 .. Rounds + 2 : j = 1 \/ j = 2 \/ (j > 2 /\ j - 2 \in 1 .. Rounds)
    BY Sizes
  <2> QED BY <1>3, <1>4, <1>6, <2>1
<1> HIDE DEF q
<1>8. q \o c \in Seq(Functions) /\ Len(q \o c) = Rounds + 3
        /\ \A j \in 1 .. Rounds + 3 : (q \o c)[j] = IF j <= Rounds + 2 THEN q[j] ELSE c[j - (Rounds + 2)]
  <2> DEFINE m == Rounds + 2
  <2>0. m \in Nat /\ m = Len(q) /\ m + 1 = Rounds + 3
    BY <1>6, Sizes
  <2> HIDE DEF m
  <2>1. /\ q \o c \in Seq(Functions) /\ Len(q \o c) = m + 1
        /\ \A j \in 1 .. m : (q \o c)[j] = q[j]
        /\ \A j \in m + 1 .. m + 1 : (q \o c)[j] = c[j - m]
    <3>1. q \in Seq(Functions) /\ c \in Seq(Functions) /\ 1 \in Nat /\ m \in Nat
      BY <1>5, <1>6, <2>0
    <3>2. Len(q) = m /\ Len(c) = 1
      BY <1>5, <2>0
    <3>3. /\ q \o c \in Seq(Functions) /\ Len(q \o c) = Len(q) + Len(c)
          /\ \A j \in 1 .. Len(q) : (q \o c)[j] = q[j]
          /\ \A j \in Len(q) + 1 .. Len(q) + Len(c) : (q \o c)[j] = c[j - Len(q)]
      BY <3>1, Concatenation, Zenon
    <3> QED BY <3>2, <3>3
  <2>2. \A j \in 1 .. m + 1 : IF j <= m THEN j \in 1 .. m ELSE j \in m + 1 .. m + 1
    BY <2>0
  <2>3. \A j \in 1 .. m + 1 : (q \o c)[j] = IF j <= m THEN q[j] ELSE c[j - m]
    BY <2>1, <2>2
  <2> QED BY <2>0, <2>1, <2>3 DEF m
<1>9. \A j \in 1 .. Rounds + 3 : j \in 1 .. Rounds + 2 \/ (j = Rounds + 3 /\ j - (Rounds + 2) = 1 /\ j # 2)
  BY Sizes
<1>10. \A j \in 1 .. Rounds + 3 : (q \o c)[j] = IF j = 2 THEN ControllerStart ELSE ControllerConnect
  BY <1>5, <1>7, <1>8, <1>9, Sizes
<1> QED BY <1>1, <1>8, <1>10 DEF q

LEMMA ClientProgram ==
  LET p == Program("client") IN
  /\ p \in Seq(Functions) /\ Len(p) = NumEp + 4
  /\ p[1] = Connect(Cep) /\ p[2] = ConnectToController
  /\ \A e \in Ep : p[e + 3] = Connect(e)
  /\ p[NumEp + 3] = ConfirmToController /\ p[NumEp + 4] = Benchmark
<1> DEFINE a == <<Connect(Cep), ConnectToController>>
           b == [k \in 1 .. NumEp |-> Connect(k - 1)]
           c == <<ConfirmToController, Benchmark>>
           p == (a \o b) \o c
<1>1. Program("client") = p
  BY DEF Program
<1>2. /\ ConnectToController \in Functions /\ ConfirmToController \in Functions
      /\ Benchmark \in Functions /\ \A e \in 0 .. Cep : Connect(e) \in Functions
  BY DEF Functions
<1>3. a \in Seq(Functions) /\ Len(a) = 2 /\ a[1] = Connect(Cep) /\ a[2] = ConnectToController
  BY <1>2, Sizes
<1>4. b \in Seq(Functions) /\ Len(b) = NumEp /\ \A k \in 1 .. NumEp : b[k] = Connect(k - 1)
  <2>1. \A k \in 1 .. NumEp : k - 1 \in 0 .. Cep
    BY Sizes
  <2> QED BY <1>2, <2>1, Sizes
<1>5. c \in Seq(Functions) /\ Len(c) = 2 /\ c[1] = ConfirmToController /\ c[2] = Benchmark
  BY <1>2
<1> HIDE DEF a, b, c
<1> DEFINE q == a \o b
<1>6. q \in Seq(Functions) /\ Len(q) = NumEp + 2
        /\ \A j \in 1 .. NumEp + 2 : q[j] = IF j <= 2 THEN a[j] ELSE b[j - 2]
  <2>1. /\ q \in Seq(Functions) /\ Len(q) = 2 + NumEp
        /\ \A j \in 1 .. 2 : q[j] = a[j]
        /\ \A j \in 2 + 1 .. 2 + NumEp : q[j] = b[j - 2]
    <3>1. a \in Seq(Functions) /\ b \in Seq(Functions) /\ 2 \in Nat /\ NumEp \in Nat
      BY <1>3, <1>4, Sizes
    <3>2. Len(a) = 2 /\ Len(b) = NumEp
      BY <1>3, <1>4
    <3>3. /\ a \o b \in Seq(Functions) /\ Len(a \o b) = Len(a) + Len(b)
          /\ \A j \in 1 .. Len(a) : (a \o b)[j] = a[j]
          /\ \A j \in Len(a) + 1 .. Len(a) + Len(b) : (a \o b)[j] = b[j - Len(a)]
      BY <3>1, Concatenation, Zenon
    <3> QED BY <3>2, <3>3
  <2>2. \A j \in 1 .. NumEp + 2 : IF j <= 2 THEN j \in 1 .. 2 ELSE j \in 2 + 1 .. 2 + NumEp
    BY Sizes
  <2> QED BY <2>1, <2>2, Sizes
<1> HIDE DEF q
<1>7. q \o c \in Seq(Functions) /\ Len(q \o c) = NumEp + 4
        /\ \A j \in 1 .. NumEp + 4 : (q \o c)[j] = IF j <= NumEp + 2 THEN q[j] ELSE c[j - (NumEp + 2)]
  <2> DEFINE m == NumEp + 2
  <2>0. m \in Nat /\ m = Len(q) /\ m + 2 = NumEp + 4
    BY <1>6, Sizes
  <2> HIDE DEF m
  <2>1. /\ q \o c \in Seq(Functions) /\ Len(q \o c) = m + 2
        /\ \A j \in 1 .. m : (q \o c)[j] = q[j]
        /\ \A j \in m + 1 .. m + 2 : (q \o c)[j] = c[j - m]
    <3>1. q \in Seq(Functions) /\ c \in Seq(Functions) /\ 2 \in Nat /\ m \in Nat
      BY <1>5, <1>6, <2>0
    <3>2. Len(q) = m /\ Len(c) = 2
      BY <1>5, <2>0
    <3>3. /\ q \o c \in Seq(Functions) /\ Len(q \o c) = Len(q) + Len(c)
          /\ \A j \in 1 .. Len(q) : (q \o c)[j] = q[j]
          /\ \A j \in Len(q) + 1 .. Len(q) + Len(c) : (q \o c)[j] = c[j - Len(q)]
      BY <3>1, Concatenation, Zenon
    <3> QED BY <3>2, <3>3
  <2>2. \A j \in 1 .. m + 2 : IF j <= m THEN j \in 1 .. m ELSE j \in m + 1 .. m + 2
    BY <2>0
  <2>3. \A j \in 1 .. m + 2 : (q \o c)[j] = IF j <= m THEN q[j] ELSE c[j - m]
    BY <2>1, <2>2
  <2> QED BY <2>0, <2>1, <2>3 DEF m
<1>8. (q \o c)[1] = Connect(Cep) /\ (q \o c)[2] = ConnectToController
  BY <1>3, <1>6, <1>7, Sizes
<1>9. (q \o c)[NumEp + 3] = ConfirmToController /\ (q \o c)[NumEp + 4] = Benchmark
  <2> DEFINE r == q \o c
             x == NumEp + 3
             y == NumEp + 4
             m == NumEp + 2
  <2>1. /\ x \in 1 .. NumEp + 4 /\ ~(x <= m) /\ x - m = 1
        /\ y \in 1 .. NumEp + 4 /\ ~(y <= m) /\ y - m = 2
    BY Sizes
  <2>2. \A j \in 1 .. NumEp + 4 : ~(j <= m) => r[j] = c[j - m]
    BY <1>7
  <2> HIDE DEF r, x, y, m
  <2>3. r[x] = c[1] /\ r[y] = c[2]
    BY <2>1, <2>2
  <2> QED BY <1>5, <2>3 DEF r, x, y
<1>10. ASSUME NEW e \in Ep PROVE (q \o c)[e + 3] = Connect(e)
  <2>1. /\ e + 3 \in 1 .. NumEp + 4 /\ e + 3 <= NumEp + 2 /\ e + 3 \in 1 .. NumEp + 2
        /\ ~(e + 3 <= 2) /\ (e + 3) - 2 \in 1 .. NumEp /\ ((e + 3) - 2) - 1 = e
    <3>1. e \in 0 .. NumEp - 1 /\ NumEp \in Nat /\ NumEp >= 1
      BY Sizes DEF Ep
    <3> QED BY <3>1
  <2>2. (q \o c)[e + 3] = b[(e + 3) - 2]
    BY <1>6, <1>7, <2>1
  <2> QED BY <1>4, <2>1, <2>2
<1> QED BY <1>1, <1>7, <1>8, <1>9, <1>10 DEF q

LEMMA ServerProgram ==
  LET p == Program("server") IN
  p \in Seq(Functions) /\ Len(p) = 2 /\ p[1] = Connect(Cep) /\ p[2] = ServeUntilStop
<1>1. Program("server") = <<Connect(Cep), ServeUntilStop>>
  BY DEF Program
<1>2. Connect(Cep) \in Functions /\ ServeUntilStop \in Functions
  BY Sizes DEF Functions
<1> DEFINE x == Connect(Cep)
           y == ServeUntilStop
<1>3. x \in Functions /\ y \in Functions
  BY <1>2
<1> HIDE DEF x, y
<1>4. <<x, y>> \in Seq(Functions) /\ Len(<<x, y>>) = 2 /\ <<x, y>>[1] = x /\ <<x, y>>[2] = y
  BY <1>3
<1> QED BY <1>1, <1>4, Zenon DEF x, y

\* How many functions have returned, and the one that runs.
Done == Len(Program(role)) - Len(todo)
Now  == Head(todo)

TodoInv ==
  /\ role \in {"controller", "client", "server"}
  /\ todo \in Seq(Functions) /\ Done \in Nat
  /\ \A j \in DOMAIN todo : todo[j] = Program(role)[Done + j]

\* Which function is running, by what has returned.
LEMMA NowFacts ==
  ASSUME TodoInv, todo # <<>>
  PROVE  /\ Now \in Functions
         /\ role = "controller" => Now = IF Done = 1 THEN ControllerStart ELSE ControllerConnect
         /\ role = "client" =>
              \/ Done = 0 /\ Now = Connect(Cep)
              \/ Done = 1 /\ Now = ConnectToController
              \/ \E e \in Ep : Done = e + 2 /\ Now = Connect(e)
              \/ Done = NumEp + 2 /\ Now = ConfirmToController
              \/ Done = NumEp + 3 /\ Now = Benchmark /\ Len(todo) = 1
         /\ role = "server" =>
              \/ Done = 0 /\ Now = Connect(Cep)
              \/ Done = 1 /\ Now = ServeUntilStop /\ Len(todo) = 1
<1> DEFINE d == Done
           n == Len(todo)
           l == Len(Program(role))
<1>1. todo \in Seq(Functions) /\ n \in Nat /\ n # 0 /\ DOMAIN todo = 1 .. n
  BY DEF TodoInv
<1>2. Now = todo[1] /\ Now \in Functions
  BY <1>1 DEF Now
<1>3. d \in Nat /\ d = l - n
  BY DEF TodoInv, Done
<1>4. Now = Program(role)[d + 1]
  BY <1>1, <1>2 DEF TodoInv
<1> HIDE DEF d, n, l
<1>5. ASSUME role = "controller"
      PROVE  Now = IF d = 1 THEN ControllerStart ELSE ControllerConnect
  <2>1. l = Rounds + 3
    BY <1>5, ControllerProgram DEF l
  <2>2. d + 1 \in 1 .. l /\ (d + 1 = 2 <=> d = 1)
    BY <1>1, <1>3, <2>1, Sizes
  <2> QED BY <1>4, <1>5, <2>2, ControllerProgram DEF l
<1>6. ASSUME role = "client"
      PROVE  \/ d = 0 /\ Now = Connect(Cep)
             \/ d = 1 /\ Now = ConnectToController
             \/ \E e \in Ep : d = e + 2 /\ Now = Connect(e)
             \/ d = NumEp + 2 /\ Now = ConfirmToController
             \/ d = NumEp + 3 /\ Now = Benchmark /\ n = 1
  <2>1. l = NumEp + 4
    BY <1>6, ClientProgram DEF l
  <2>2. \/ d = 0 \/ d = 1 \/ (d - 2 \in Ep /\ d + 1 = (d - 2) + 3 /\ d = (d - 2) + 2)
        \/ d = NumEp + 2 \/ (d = NumEp + 3 /\ n = 1)
    BY <1>1, <1>3, <2>1, Sizes DEF Ep
  <2>3. (d = NumEp + 2 => d + 1 = NumEp + 3) /\ (d = NumEp + 3 => d + 1 = NumEp + 4)
        /\ (d = 0 => d + 1 = 1) /\ (d = 1 => d + 1 = 2)
    BY Sizes
  <2>4. ASSUME d - 2 \in Ep, d + 1 = (d - 2) + 3, d = (d - 2) + 2
        PROVE  \E e \in Ep : d = e + 2 /\ Now = Connect(e)
    <3> DEFINE e == d - 2
    <3>1. e \in Ep /\ d + 1 = e + 3 /\ d = e + 2
      BY <2>4
    <3> HIDE DEF e
    <3>2. Now = Connect(e)
      BY <1>4, <1>6, <3>1, ClientProgram
    <3> QED BY <3>1, <3>2
  <2> QED BY <1>4, <1>6, <2>2, <2>3, <2>4, ClientProgram
<1>7. ASSUME role = "server"
      PROVE  \/ d = 0 /\ Now = Connect(Cep)
             \/ d = 1 /\ Now = ServeUntilStop /\ n = 1
  <2>1. l = 2
    BY <1>7, ServerProgram DEF l
  <2>2. (d = 0 /\ d + 1 = 1) \/ (d = 1 /\ n = 1 /\ d + 1 = 2)
    BY <1>1, <1>3, <2>1
  <2> QED BY <1>4, <1>7, <2>2, ServerProgram
<1> QED BY <1>2, <1>5, <1>6, <1>7 DEF d, n

LEMMA TodoInit == Init => TodoInv
<1> SUFFICES ASSUME Init PROVE TodoInv
  OBVIOUS
<1>1. role \in {"controller", "client", "server"} /\ todo = Program(role)
  BY ContextsAssumption DEF Init
<1>2. todo \in Seq(Functions)
  BY <1>1, ControllerProgram, ClientProgram, ServerProgram
<1> DEFINE l == Len(todo)
<1>3. l \in Nat /\ Done = l - l
  BY <1>1, <1>2 DEF Done
<1> HIDE DEF l
<1>4. Done = 0
  BY <1>3
<1>5. \A j \in DOMAIN todo : 0 + j = j
  BY <1>2
<1> QED BY <1>1, <1>2, <1>4, <1>5 DEF TodoInv

\* A function returns.
LEMMA TodoTail ==
  ASSUME TodoInv, todo # <<>>, todo' = Tail(todo), role' = role
  PROVE  TodoInv' /\ Done' = Done + 1 /\ (Len(todo) = 1 => todo' = <<>>)
<1> DEFINE n == Len(todo)
           m == Len(todo')
           l == Len(Program(role))
           d == Done
<1>1. todo \in Seq(Functions) /\ n \in Nat /\ n # 0 /\ DOMAIN todo = 1 .. n
  BY DEF TodoInv
<1>2. todo' \in Seq(Functions) /\ m = n - 1 /\ DOMAIN todo' = 1 .. n - 1
        /\ \A j \in 1 .. n - 1 : todo'[j] = todo[j + 1]
  BY <1>1
<1>3. d \in Nat /\ d = l - n /\ Done' = l - m /\ Program(role)' = Program(role)
  BY DEF TodoInv, Done, Program
<1>4. l \in Int
  BY ControllerProgram, ClientProgram, ServerProgram, Sizes DEF TodoInv
<1>5. (n = 1 => todo' = <<>>)
  BY <1>2
<1> HIDE DEF n, m, l, d
<1>6. Done' = d + 1 /\ d + 1 \in Nat
  BY <1>1, <1>2, <1>3, <1>4
<1>7. ASSUME NEW j \in 1 .. n - 1 PROVE todo'[j] = Program(role)[(d + 1) + j]
  <2>1. j + 1 \in 1 .. n /\ d + (j + 1) = (d + 1) + j
    BY <1>1, <1>3
  <2> QED BY <1>1, <1>2, <2>1 DEF TodoInv, d
<1> QED BY <1>2, <1>3, <1>5, <1>6, <1>7 DEF TodoInv, n, d

-----------------------------------------------------------------------------
(* Lists of different blocks. *)

Cons(x, s)  == <<x>> \o s
In(b, s)    == \E k \in DOMAIN s : s[k] = b
Distinct(s) == \A j, k \in DOMAIN s : s[j] = s[k] => j = k
Last(s)     == s[Len(s)]

LEMMA EmptyList ==
  ASSUME NEW s, s = <<>>
  PROVE  s \in Seq(Nat) /\ Len(s) = 0 /\ Distinct(s) /\ \A b : ~In(b, s)
<1>1. s \in Seq(Nat) /\ Len(s) = 0 /\ DOMAIN s = {}
  OBVIOUS
<1> QED BY <1>1 DEF In, Distinct

\* The block freed last is taken.
LEMMA Pop ==
  ASSUME NEW s \in Seq(Nat), s # <<>>, Distinct(s)
  PROVE  /\ Tail(s) \in Seq(Nat) /\ Distinct(Tail(s)) /\ Len(Tail(s)) = Len(s) - 1
         /\ Head(s) \in Nat /\ In(Head(s), s)
         /\ \A b : In(b, Tail(s)) <=> In(b, s) /\ b # Head(s)
         /\ Tail(s) # <<>> => Last(Tail(s)) = Last(s)
         /\ Tail(s) = <<>> => Last(s) = Head(s)
<1> SUFFICES ASSUME NEW t, t = Tail(s)
             PROVE  /\ t \in Seq(Nat) /\ Distinct(t) /\ Len(t) = Len(s) - 1
                    /\ Head(s) \in Nat /\ In(Head(s), s)
                    /\ \A b : In(b, t) <=> In(b, s) /\ b # Head(s)
                    /\ t # <<>> => Last(t) = Last(s)
                    /\ t = <<>> => Last(s) = Head(s)
  BY Zenon
<1> DEFINE n == Len(s)
<1>1. n \in Nat /\ n >= 1 /\ DOMAIN s = 1 .. n /\ Head(s) = s[1] /\ \A k \in 1 .. n : s[k] \in Nat
  OBVIOUS
<1>2. /\ t \in Seq(Nat) /\ Len(t) = n - 1 /\ DOMAIN t = 1 .. n - 1
      /\ \A k \in 1 .. n - 1 : t[k] = s[k + 1]
  BY <1>1
<1>3. t = <<>> <=> n = 1
  <2>1. t = <<>> <=> Len(t) = 0
    <3>1. t \in Seq(Nat)
      BY <1>2
    <3> QED BY <3>1, EmptySeq
  <2> QED BY <1>1, <1>2, <2>1
<1> HIDE DEF n
<1>4. Distinct(t)
  <2>1. \A k \in 1 .. n - 1 : k + 1 \in 1 .. n
    BY <1>1
  <2>2. ASSUME NEW j \in 1 .. n - 1, NEW k \in 1 .. n - 1, t[j] = t[k] PROVE j = k
    <3>1. j + 1 \in DOMAIN s /\ k + 1 \in DOMAIN s /\ s[j + 1] = s[k + 1]
      BY <1>1, <1>2, <2>1, <2>2
    <3>2. j + 1 = k + 1
      BY <3>1, Zenon DEF Distinct
    <3> QED BY <1>1, <3>2
  <2> QED BY <1>2, <2>2 DEF Distinct
<1>5. 1 \in 1 .. n /\ In(Head(s), s)
  BY <1>1 DEF In
<1>6. ASSUME NEW b, In(b, t) PROVE In(b, s) /\ b # Head(s)
  <2>1. PICK k \in 1 .. n - 1 : s[k + 1] = b
    BY <1>2, <1>6 DEF In
  <2>2. k + 1 \in 1 .. n /\ k + 1 # 1
    BY <1>1
  <2> QED BY <1>1, <1>5, <2>1, <2>2 DEF In, Distinct
<1>7. ASSUME NEW b, In(b, s), b # Head(s) PROVE In(b, t)
  <2>1. PICK k \in 1 .. n : s[k] = b
    BY <1>1, <1>7 DEF In
  <2>2. k # 1
    BY <1>1, <1>7, <2>1
  <2>3. k - 1 \in 1 .. n - 1 /\ (k - 1) + 1 = k
    BY <1>1, <2>2
  <2> QED BY <1>2, <2>1, <2>3 DEF In
<1>8. ASSUME n # 1 PROVE Last(t) = Last(s)
  <2>1. n - 1 \in 1 .. n - 1 /\ (n - 1) + 1 = n
    BY <1>1, <1>8
  <2> QED BY <1>2, <2>1 DEF Last, n
<1>9. n = 1 => Last(s) = Head(s)
  BY <1>1 DEF Last, n
<1> QED BY <1>1, <1>2, <1>3, <1>4, <1>5, <1>6, <1>7, <1>8, <1>9 DEF n

\* One block is freed.
LEMMA Push ==
  ASSUME NEW s \in Seq(Nat), Distinct(s), NEW x \in Nat, ~In(x, s)
  PROVE  /\ Cons(x, s) \in Seq(Nat) /\ Distinct(Cons(x, s)) /\ Len(Cons(x, s)) = Len(s) + 1
         /\ Head(Cons(x, s)) = x /\ Cons(x, s) # <<>>
         /\ \A b : In(b, Cons(x, s)) <=> In(b, s) \/ b = x
         /\ s = <<>> => Last(Cons(x, s)) = x
         /\ s # <<>> => Last(Cons(x, s)) = Last(s)
<1> SUFFICES ASSUME NEW t, t = <<x>> \o s
             PROVE  /\ t \in Seq(Nat) /\ Distinct(t) /\ Len(t) = Len(s) + 1 /\ Head(t) = x
                    /\ t # <<>> /\ \A b : In(b, t) <=> In(b, s) \/ b = x
                    /\ s = <<>> => Last(t) = x
                    /\ s # <<>> => Last(t) = Last(s)
  BY Zenon DEF Cons
<1> DEFINE n == Len(s)
<1>1. n \in Nat /\ DOMAIN s = 1 .. n /\ (s = <<>> <=> n = 0)
  OBVIOUS
<1>2. t \in Seq(Nat) /\ Len(t) = n + 1 /\ DOMAIN t = 1 .. n + 1
  OBVIOUS
<1>3. t[1] = x /\ Head(t) = x
  OBVIOUS
<1>4. \A k \in 1 .. n : t[k + 1] = s[k]
  OBVIOUS
<1> HIDE DEF n
<1>5. \A k \in 1 .. n + 1 : k = 1 \/ (k - 1 \in 1 .. n /\ (k - 1) + 1 = k)
  BY <1>1
<1>6. \A k \in 1 .. n : k + 1 \in 1 .. n + 1
  BY <1>1
<1>7. 1 \in 1 .. n + 1
  BY <1>1
<1>8. ASSUME NEW k \in 1 .. n + 1 PROVE IF k = 1 THEN t[k] = x ELSE k - 1 \in 1 .. n /\ t[k] = s[k - 1]
  BY <1>3, <1>4, <1>5
<1>9. \A b : In(b, t) <=> In(b, s) \/ b = x
  <2>1. ASSUME NEW b, In(b, t) PROVE In(b, s) \/ b = x
    <3>1. PICK k \in 1 .. n + 1 : t[k] = b
      BY <1>2, <2>1 DEF In
    <3> QED BY <1>1, <1>8, <3>1 DEF In
  <2>2. ASSUME NEW b, In(b, s) PROVE In(b, t)
    <3>1. PICK k \in 1 .. n : s[k] = b
      BY <1>1, <2>2 DEF In
    <3> QED BY <1>2, <1>4, <1>6, <3>1 DEF In
  <2>3. In(x, t)
    BY <1>2, <1>3, <1>7 DEF In
  <2> QED BY <2>1, <2>2, <2>3
<1>10. ASSUME NEW j \in 1 .. n + 1, NEW k \in 1 .. n + 1, t[j] = t[k] PROVE j = k
  <2>1. \A i \in 1 .. n : s[i] # x
    BY <1>1 DEF In
  <2>2. CASE j = 1 \/ k = 1
    BY <1>8, <1>10, <2>1, <2>2
  <2>3. CASE j # 1 /\ k # 1
    <3>1. j - 1 \in 1 .. n /\ k - 1 \in 1 .. n /\ s[j - 1] = s[k - 1]
      BY <1>8, <1>10, <2>3
    <3>2. j - 1 = k - 1
      BY <1>1, <3>1 DEF Distinct
    <3> QED BY <3>2
  <2> QED BY <2>2, <2>3
<1>11. Distinct(t)
  BY <1>2, <1>10 DEF Distinct
<1>12. CASE s = <<>>
  BY <1>1, <1>2, <1>3, <1>9, <1>11, <1>12 DEF Last, n
<1>13. CASE s # <<>>
  <2>1. n \in 1 .. n
    BY <1>1, <1>13
  <2>2. Last(t) = Last(s)
    BY <1>2, <1>4, <2>1 DEF Last, n
  <2>3. t # <<>>
    BY <1>1, <1>2
  <2> QED BY <1>2, <1>3, <1>9, <1>11, <1>13, <2>2, <2>3 DEF n
<1> QED BY <1>12, <1>13

\* Two are freed, y before x.
LEMMA ConsTwo ==
  ASSUME NEW s \in Seq(Nat), NEW x \in Nat, NEW y \in Nat
  PROVE  <<x, y>> \o s = Cons(x, Cons(y, s))
<1>1. <<x>> \in Seq(Nat) /\ <<y>> \in Seq(Nat) /\ Len(<<x>>) = 1 /\ Len(<<y>>) = 1
  OBVIOUS
<1>2. /\ <<x>> \o <<y>> \in Seq(Nat) /\ Len(<<x>> \o <<y>>) = 2
      /\ (<<x>> \o <<y>>)[1] = x /\ (<<x>> \o <<y>>)[2] = y
  BY <1>1
<1>3. <<x, y>> \in Seq(Nat) /\ Len(<<x, y>>) = 2 /\ <<x, y>>[1] = x /\ <<x, y>>[2] = y
  OBVIOUS
<1>4. \A i \in 1 .. 2 : i = 1 \/ i = 2
  OBVIOUS
<1>5. <<x>> \o <<y>> = <<x, y>>
  BY <1>2, <1>3, <1>4, SeqEqual
<1>6. (<<x>> \o <<y>>) \o s = <<x>> \o (<<y>> \o s)
  BY <1>1, ConcatAssociative
<1> QED BY <1>5, <1>6 DEF Cons

LEMMA PushTwo ==
  ASSUME NEW s \in Seq(Nat), Distinct(s), NEW x \in Nat, NEW y \in Nat, x # y,
         ~In(x, s), ~In(y, s), NEW t, t = Cons(x, Cons(y, s))
  PROVE  /\ t \in Seq(Nat) /\ Distinct(t) /\ Len(t) = Len(s) + 2 /\ Head(t) = x /\ t # <<>>
         /\ \A b : In(b, t) <=> In(b, s) \/ b = x \/ b = y
         /\ s = <<>> => Last(t) = y
         /\ s # <<>> => Last(t) = Last(s)
<1> DEFINE u == Cons(y, s)
<1>1. /\ u \in Seq(Nat) /\ Distinct(u) /\ Len(u) = Len(s) + 1 /\ u # <<>>
      /\ \A b : In(b, u) <=> In(b, s) \/ b = y
      /\ s = <<>> => Last(u) = y
      /\ s # <<>> => Last(u) = Last(s)
  BY Push
<1> HIDE DEF u
<1>2. ~In(x, u)
  BY <1>1
<1>3. /\ Cons(x, u) \in Seq(Nat) /\ Distinct(Cons(x, u)) /\ Len(Cons(x, u)) = Len(u) + 1
      /\ Head(Cons(x, u)) = x /\ Cons(x, u) # <<>>
      /\ \A b : In(b, Cons(x, u)) <=> In(b, u) \/ b = x
      /\ Last(Cons(x, u)) = Last(u)
  BY <1>1, <1>2, Push
<1>4. Len(Cons(x, u)) = Len(s) + 2
  <2>1. Len(s) \in Nat
    OBVIOUS
  <2> QED BY <1>1, <1>3, <2>1
<1> QED BY <1>1, <1>3, <1>4 DEF u

-----------------------------------------------------------------------------
(* The inductive invariant. *)

Running == phase \notin {"idle", "dead"}
Busy    == phase \in {"send", "receive", "done"}

\* The running function has made preparation x.
Has(x) == Running /\ Before(Now.prepares, step, x)

\* connect() has freed the context of endpoint e (client and server).
Past(e) == IF e = Cep THEN Done >= 1 ELSE Done >= 3 + e

\* The list of free blocks.
Shape ==
  /\ free \in Seq(Nat) /\ top \in Nat /\ top > SendCtx
  /\ FreedOnce
  /\ \A k \in DOMAIN free : free[k] < top

\* How far the running function is.
Steps ==
  /\ phase \in {"idle", "prepare", "send", "receive", "done", "dead"}
  /\ ctx \in Nat /\ entry \in Nat /\ event \in Nat /\ step \in Nat
  /\ Running => todo # <<>> /\ posted \subseteq Now.posts
  /\ phase = "prepare" => step \in 1 .. Len(Now.prepares)
  /\ Busy => step > Len(Now.prepares)
  /\ phase = "idle" \/ (Running /\ ~Has("post")) => posted = {}
  /\ Has("post") /\ phase \in {"prepare", "send"} => posted = Now.posts
  /\ phase = "done" => Now.posts = {}
  /\ phase = "receive" /\ Now.reads => posted = Now.posts \/ ctx \in Now.posts

\* What the function holds, and will free, is not free; nor are the contexts it
\* reads.  SendCtx is freed at the end only.
Held ==
  /\ Has("entry") => entry < top /\ ~IsFree(entry) /\ entry # SendCtx
  /\ Has("ctx")   => /\ ctx < top /\ ~IsFree(ctx)
                     /\ Has("entry") => ctx # entry
                     /\ ctx = SendCtx => Len(todo) = 1
  /\ Has("event") => /\ event < top /\ ~IsFree(event)
                     /\ event \notin {entry, ctx, SendCtx}
  /\ Has("post") /\ Now.reads =>
       \A e \in Now.posts : ~IsFree(e) /\ (Has("entry") => entry # e)
  /\ todo # <<>> => ~IsFree(SendCtx)

\* Which contexts of receives may be free.  The controller has one at most, the
\* block freed last, and takes it before it posts; a host has those of the
\* endpoints it has connected.
Order ==
  /\ role = "controller" =>
       /\ \A b \in 0 .. Cep : IsFree(b) => b = Head(free) /\ ~Has("ctx") /\ ~Has("entry")
       /\ Has("entry") /\ Has("ctx") => entry > Cep
  /\ role # "controller" =>
       /\ \A b \in 0 .. Cep : IsFree(b) => Past(b)
       /\ Has("entry") /\ entry <= Cep => Past(entry)
       /\ Has("event") /\ event <= Cep => Past(event)
       /\ Has("ctx")   /\ ctx <= Cep   => Past(ctx)

ListInv == TodoInv /\ Shape /\ Steps /\ Held /\ Order

\* As long as no other code takes a block.
IdentInv ==
  /\ content \in [Block -> Int]
  /\ taken = {} => /\ ~wild
                   /\ Running /\ Now.reads => \A e \in posted : content[e] = e

\* How many blocks the running function has taken, and how many it leaves at least.
One(x) == IF Has(x) THEN 1 ELSE 0
Holds  == One("ctx") + One("entry") + One("event")
Need   == IF role = "client" /\ Done >= 3 THEN 3 ELSE 2

HeapInv == taken = {} =>
  /\ top <= SendCtx + 3
  /\ phase # "dead" =>
       /\ Done = 0  => free = <<>> /\ top = SendCtx + 1 + Holds
       /\ Done >= 1 => Len(free) + Holds >= Need
       /\ role = "server" /\ Done = 1 /\ ~Has("event") => top <= SendCtx + 2

\* The link that a host overwrites is that of Cep, the last of the list, and a client
\* leaves that block where it is.
LinkInv == taken = {} =>
  /\ role # "server" => ~loose
  /\ Done = 0 \/ role = "controller" => broken = {} /\ ~loose
  /\ role # "controller" /\ todo # <<>> =>
       broken \subseteq {Cep} /\ (IsFree(Cep) => Last(free) = Cep)
  /\ role = "client" => broken \subseteq {Cep} /\ (Done >= 1 => IsFree(Cep))
  /\ phase = "dead" => role = "server"

-----------------------------------------------------------------------------
(* What the steps do to the list. *)

LEMMA ListFacts ==
  /\ FreedOnce <=> Distinct(free)
  /\ FreedOnce' <=> Distinct(free')
  /\ \A b : (IsFree(b) <=> In(b, free)) /\ (IsFree(b)' <=> In(b, free'))
BY DEF FreedOnce, Distinct, IsFree, In

LEMMA ShapeFacts ==
  ASSUME Shape
  PROVE  /\ free \in Seq(Nat) /\ top \in Nat /\ top > SendCtx /\ Distinct(free)
         /\ \A b : IsFree(b) => b < top /\ b \in Nat
         /\ \A b \in 0 .. Cep : b < top /\ b # SendCtx
<1>1. free \in Seq(Nat) /\ top \in Nat /\ top > SendCtx /\ Distinct(free)
  BY ListFacts DEF Shape
<1>2. ASSUME NEW b, IsFree(b) PROVE b < top /\ b \in Nat
  BY <1>1, <1>2 DEF IsFree, Shape
<1>3. \A b \in 0 .. Cep : b < top /\ b # SendCtx
  BY <1>1, Sizes
<1> QED BY <1>1, <1>2, <1>3

LEMMA ShapeNext ==
  ASSUME free' \in Seq(Nat), top' \in Nat, top' > SendCtx, Distinct(free'),
         \A b : IsFree(b)' => b < top'
  PROVE  Shape'
<1>1. ASSUME NEW k \in DOMAIN free' PROVE free'[k] < top'
  <2>1. In(free'[k], free')
    BY DEF In
  <2> QED BY <2>1, ListFacts
<1>2. SendCtx' = SendCtx
  BY DEF SendCtx
<1> QED BY <1>1, <1>2, ListFacts DEF Shape

\* The block freed last is taken, or a new one.
LEMMA Alloc ==
  ASSUME Shape, Malloc, NEW n, n = NextBlock
  PROVE  /\ Shape' /\ n \in Nat /\ n < top' /\ top <= top' /\ top' \in Nat
         /\ \A b : IsFree(b)' => IsFree(b)
         /\ \A b : b = n => ~IsFree(b)'
         /\ IsFree(n) \/ n = top
         /\ \A b \in 0 .. Cep : b = Head(free) => ~IsFree(b)'
<1>1. /\ free \in Seq(Nat) /\ top \in Nat /\ top > SendCtx /\ Distinct(free)
      /\ \A b : IsFree(b) => b < top /\ b \in Nat
  BY ShapeFacts
<1>2. CASE free = <<>>
  <2>1. n = top /\ free' = <<>> /\ top' = top + 1
    BY <1>2 DEF NextBlock, Malloc
  <2>2. \A b : ~IsFree(b) /\ ~IsFree(b)'
    BY <1>2, <2>1, EmptyList, ListFacts, Zenon
  <2>3. top' \in Nat /\ top' > SendCtx /\ n < top' /\ top <= top' /\ n \in Nat
    BY <1>1, <2>1, Sizes
  <2>4. Shape'
    BY <2>1, <2>2, <2>3, EmptyList, ShapeNext
  <2> QED BY <1>2, <2>1, <2>2, <2>3, <2>4
<1>3. CASE free # <<>>
  <2>1. n = Head(free) /\ (free' = Tail(free) \/ free' = <<>>) /\ top' = top
    BY <1>3 DEF NextBlock, Malloc
  <2>2. /\ free' \in Seq(Nat) /\ Distinct(free') /\ n \in Nat /\ In(n, free)
        /\ \A b : In(b, free') => In(b, free) /\ b # n
    BY <1>1, <1>3, <2>1, Pop, EmptyList
  <2>3. IsFree(n) /\ \A b : IsFree(b)' => IsFree(b) /\ b # n
    BY <2>2, ListFacts, Zenon
  <2>4. n < top' /\ top <= top'
    BY <1>1, <2>1, <2>3
  <2>5. Shape'
    BY <1>1, <2>1, <2>2, <2>3, ShapeNext
  <2> QED BY <1>1, <1>3, <2>1, <2>2, <2>3, <2>4, <2>5
<1> QED BY <1>2, <1>3

LEMMA Keep ==
  ASSUME free' = free, top' = top
  PROVE  (Shape => Shape') /\ \A b : IsFree(b)' <=> IsFree(b)
BY DEF Shape, FreedOnce, IsFree, SendCtx

LEMMA NowSame ==
  ASSUME todo' = todo, role' = role
  PROVE  /\ Now' = Now /\ Done' = Done /\ (TodoInv => TodoInv')
         /\ \A e : Past(e)' <=> Past(e)
BY DEF Now, Done, TodoInv, Past

\* Nothing is prepared in a step of another kind.
LEMMA HasSame ==
  ASSUME todo' = todo, step' = step, Running' <=> Running
  PROVE  \A x : Has(x)' <=> Has(x)
BY DEF Has, Now, Before

\* What a preparation finds, and leaves.
LEMMA Prepared ==
  ASSUME ListInv, NEW x, Prepare(x)
  PROVE  /\ Running /\ Running' /\ ~Busy /\ todo # <<>> /\ Now \in Functions
         /\ UNCHANGED <<role, todo, again, taken, wild>> /\ Now' = Now /\ TodoInv'
         /\ phase = "prepare" /\ phase' \in {"prepare", "send", "receive"}
         /\ x \in {"ctx", "entry", "event", "post"}
         /\ ~Has(x) /\ \A y : Has(y)' <=> Has(y) \/ y = x
         /\ x = "post" /\ Now.reads => ~Has("entry") /\ (Does(Now, "ctx") => Has("ctx"))
         /\ x = "entry" => (Does(Now, "ctx") => Has("ctx")) /\ ~Has("event")
         /\ x = "ctx" => ~Has("event") /\ ~Has("entry")
         /\ x = "event" => Has("ctx") /\ Has("entry")
         /\ Does(Now, x)
         /\ step' \in Nat
         /\ phase' = "prepare" => step' \in 1 .. Len(Now.prepares)
         /\ Busy' => step' > Len(Now.prepares)
<1> DEFINE p == Now.prepares
           n == Len(p)
<1>1. /\ phase = "prepare" /\ p[step] = x /\ step' = step + 1
      /\ phase' = IF step < n THEN phase ELSE IF Now.sends THEN "send" ELSE "receive"
      /\ UNCHANGED <<role, todo, again, taken, wild>>
  BY DEF Prepare, Now
<1>2. Now' = Now /\ TodoInv'
  BY <1>1, NowSame DEF ListInv
<1>3. Running /\ Running' /\ ~Busy /\ (Busy' <=> ~(step < n))
  BY <1>1 DEF Running, Busy
<1>4. todo # <<>> /\ Now \in Functions /\ step \in 1 .. n
  BY <1>1, <1>3, NowFacts DEF ListInv, Steps
<1>5. Ordered(Now)
  BY <1>4, OrderedFunctions
<1>6. n \in Nat /\ DOMAIN p = 1 .. n
  BY <1>5 DEF Ordered
<1>7. /\ x \in {"ctx", "entry", "event", "post"}
      /\ ~Before(p, step, x)
      /\ x = "post" /\ Now.reads =>
           ~Before(p, step, "entry") /\ (Does(Now, "ctx") => Before(p, step, "ctx"))
      /\ x = "entry" /\ Does(Now, "ctx") => Before(p, step, "ctx")
      /\ x = "entry" => ~Before(p, step, "event")
      /\ x = "ctx"   => ~Before(p, step, "event") /\ ~Before(p, step, "entry")
      /\ x = "event" => Before(p, step, "ctx") /\ Before(p, step, "entry")
  BY <1>1, <1>4, <1>5, <1>6 DEF Ordered
<1>8. Does(Now, x)
  BY <1>1, <1>4, <1>6 DEF Does
<1>9. \A y : Has(y) <=> Before(p, step, y)
  BY <1>3 DEF Has
<1>10. \A y : Has(y)' <=> Before(p, step + 1, y)
  BY <1>1, <1>2, <1>3 DEF Has
<1>11. \A y : Before(p, step + 1, y) <=> Before(p, step, y) \/ y = x
  <2>1. \A j \in 1 .. n : j < step + 1 <=> j < step \/ j = step
    BY <1>4, <1>6
  <2> HIDE DEF p, n
  <2> QED BY <1>1, <1>4, <1>6, <2>1 DEF Before
<1>12. /\ step' \in Nat /\ (step < n => step' \in 1 .. n)
       /\ ~(step < n) => step' > n
  BY <1>1, <1>4, <1>6
<1> HIDE DEF n
<1>13. /\ phase' = "prepare" => step' \in 1 .. n
       /\ Busy' => step' > n
  BY <1>1, <1>3, <1>12
<1>14. phase' \in {"prepare", "send", "receive"}
  BY <1>1
<1> HIDE DEF p
<1> QED BY <1>1, <1>2, <1>3, <1>4, <1>7, <1>8, <1>9, <1>10, <1>11, <1>12, <1>13, <1>14 DEF n, p

\* When a function waits it has made all its preparations.
LEMMA BusyHas ==
  ASSUME ListInv, Busy
  PROVE  /\ Running /\ todo # <<>> /\ Now \in Functions
         /\ \A x : Has(x) <=> Does(Now, x)
         /\ Has("entry") /\ (Now.posts # {} => Has("post"))
<1> DEFINE p == Now.prepares
           n == Len(p)
<1>1. Running
  BY DEF Running, Busy
<1>2. todo # <<>> /\ step > n /\ step \in Nat /\ Now \in Functions
  BY <1>1, NowFacts DEF ListInv, Steps
<1>3. n \in Nat /\ DOMAIN p = 1 .. n
  BY <1>2, OrderedFunctions DEF Ordered
<1>4. \A j \in 1 .. n : j < step
  BY <1>2, <1>3
<1>5. \A x : Has(x) <=> Does(Now, x)
  BY <1>1, <1>3, <1>4 DEF Has, Before, Does
<1> QED BY <1>1, <1>2, <1>5, FunctionFacts

\* A host looks into the context of an endpoint that it connects, which it has
\* not freed yet; it has done so when the function returns.
LEMMA HostReads ==
  ASSUME TodoInv, todo # <<>>, role # "controller"
  PROVE  /\ ~(Does(Now, "ctx") /\ Now.reads)
         /\ Now.reads => /\ \E e \in 0 .. Cep : Now.posts = {e} /\ ~Past(e)
                         /\ \A e \in Now.posts : \A d : d = Done + 1 =>
                              IF e = Cep THEN d >= 1 ELSE d >= 3 + e
         /\ Does(Now, "ctx") =>
              /\ Done >= 1 /\ Len(todo) = 1
              /\ IF role = "client" THEN Done >= 3 ELSE Done = 1 /\ Now = ServeUntilStop
         /\ Does(Now, "event") => role = "server" /\ Done = 1 /\ Does(Now, "ctx")
         /\ Now.reads /\ Now.posts = {Cep} => Done = 0
         /\ Done = 0 => Now.reads /\ Now.posts = {Cep}
         /\ role = "client" /\ Done = 2 => Now.reads
         /\ ~Now.reads => Now.posts = {Cep}
<1> DEFINE d == Done
<1>0. d \in Nat
  BY DEF TodoInv
<1>1. CASE d = 0 /\ Now = Connect(Cep)
  <2>1. ~Past(Cep)
    BY <1>1 DEF Past
  <2> QED BY <1>0, <1>1, <2>1, ConnectFacts, Sizes
<1>2. ASSUME NEW e \in Ep, d = e + 2, Now = Connect(e)
      PROVE  /\ Now.reads /\ ~Does(Now, "ctx") /\ ~Does(Now, "event")
             /\ \E x \in 0 .. Cep : Now.posts = {x} /\ ~Past(x)
             /\ \A x \in Now.posts : \A y : y = Done + 1 =>
                  IF x = Cep THEN y >= 1 ELSE y >= 3 + x
             /\ Done # 0 /\ Now.posts # {Cep}
  <2>1. e # Cep /\ e \in 0 .. Cep /\ e \in Nat
    BY Sizes
  <2>2. ~Past(e)
    BY <1>2, <2>1 DEF Past
  <2>3. d # 0 /\ d + 1 >= 3 + e
    BY <1>2, <2>1
  <2>4. /\ Now.reads /\ ~Does(Now, "ctx") /\ ~Does(Now, "event")
        /\ Now.posts = {e} /\ Now.posts # {Cep}
    BY <1>2, <2>1, ConnectFacts
  <2> QED BY <2>1, <2>2, <2>3, <2>4
<1>3. CASE d >= 1 /\ d # 2 /\ Now \in {ConnectToController, ConfirmToController}
  <2>1. /\ ~Does(Now, "ctx") /\ ~Does(Now, "event") /\ ~Now.reads /\ Now.posts = {Cep}
    BY <1>3, OtherFacts
  <2>2. d # 0 /\ d # 2
    BY <1>3
  <2> QED BY <2>1, <2>2
<1>4. CASE d >= 3 /\ Now = Benchmark /\ Len(todo) = 1 /\ role = "client"
  <2>1. ~Does(Now, "event") /\ ~Now.reads /\ Now.posts = {Cep}
    BY <1>4, OtherFacts
  <2>2. d # 0 /\ d >= 1 /\ d # 2
    BY <1>0, <1>4
  <2> QED BY <1>4, <2>1, <2>2
<1>5. CASE d = 1 /\ Now = ServeUntilStop /\ Len(todo) = 1 /\ role = "server"
  <2>1. ~Now.reads /\ Now.posts = {Cep} /\ Does(Now, "ctx")
    BY <1>5, OtherFacts DEF ServeUntilStop, Function, Does
  <2>2. d # 0 /\ d >= 1
    BY <1>0, <1>5
  <2> QED BY <1>5, <2>1, <2>2
<1>6. \/ d = 0 /\ Now = Connect(Cep)
      \/ \E e \in Ep : d = e + 2 /\ Now = Connect(e)
      \/ d >= 1 /\ d # 2 /\ Now \in {ConnectToController, ConfirmToController}
      \/ d >= 3 /\ Now = Benchmark /\ Len(todo) = 1 /\ role = "client"
      \/ d = 1 /\ Now = ServeUntilStop /\ Len(todo) = 1 /\ role = "server"
  <2>1. /\ d = 1 => d >= 1 /\ d # 2
        /\ d = NumEp + 2 => d >= 1 /\ d # 2
        /\ d = NumEp + 3 => d >= 3
    BY Sizes
  <2>2. role = "client" \/ role = "server"
    BY DEF TodoInv
  <2> QED BY <2>1, <2>2, NowFacts
<1> QED BY <1>1, <1>2, <1>3, <1>4, <1>5, <1>6

\* The controller looks into the contexts of the functions that take a block first.
LEMMA ControllerReads ==
  ASSUME TodoInv, todo # <<>>, role = "controller"
  PROVE  /\ Now.reads <=> Does(Now, "ctx")
         /\ Now.reads => Now.posts = Ep /\ Cep \notin Now.posts
         /\ ~Now.reads => Now.posts = {}
         /\ ~Does(Now, "event")
         /\ Done = 0 => Now.reads
<1>1. Now = ControllerStart \/ Now = ControllerConnect
  BY NowFacts
<1>2. Done = 0 => Now = ControllerConnect
  BY NowFacts
<1> QED BY <1>1, <1>2, OtherFacts, Sizes

LEMMA ListInit == Init => ListInv
<1> SUFFICES ASSUME Init PROVE ListInv
  OBVIOUS
<1>1. /\ free = <<>> /\ top = SendCtx + 1 /\ phase = "idle" /\ step = 1
      /\ ctx = SendCtx /\ entry = SendCtx /\ event = SendCtx /\ posted = {}
  BY DEF Init
<1>2. /\ free \in Seq(Nat) /\ DOMAIN free = {}
  BY <1>1
<1>3. \A b : ~IsFree(b)
  BY <1>2 DEF IsFree
<1>4. top \in Nat /\ top > SendCtx /\ SendCtx \in Nat
  BY <1>1, Sizes
<1>5. Shape
  BY <1>2, <1>4 DEF Shape, FreedOnce
<1>6. ~Running /\ ~Busy /\ \A x : ~Has(x)
  BY <1>1 DEF Running, Busy, Has
<1>7. Steps
  BY <1>1, <1>4, <1>6 DEF Steps
<1>8. Held /\ Order
  BY <1>3, <1>6 DEF Held, Order
<1> QED BY <1>5, <1>7, <1>8, TodoInit DEF ListInv

\* A function begins: nothing is prepared.
LEMMA ListBegin ==
  ASSUME ListInv, Begin
  PROVE  ListInv'
<1>1. /\ phase = "idle" /\ todo # <<>> /\ phase' = "prepare" /\ step' = 1
      /\ UNCHANGED <<role, todo, free, top, ctx, entry, event, posted, taken>>
  BY DEF Begin, heapVars, localVars
<1>2. TodoInv' /\ Now' = Now /\ \A e : Past(e)' <=> Past(e)
  BY <1>1, NowSame DEF ListInv
<1>3. Shape' /\ \A b : IsFree(b)' <=> IsFree(b)
  BY <1>1, Keep DEF ListInv
<1>4. SendCtx' = SendCtx /\ Cep' = Cep
  BY DEF SendCtx, Cep
<1>5. Running' /\ ~Busy' /\ ~Running
  BY <1>1 DEF Running, Busy
<1>6. Now \in Functions
  BY <1>1, NowFacts DEF ListInv
<1>7. Does(Now, "entry") /\ Len(Now.prepares) \in Nat /\ DOMAIN Now.prepares = 1 .. Len(Now.prepares)
  BY <1>6, FunctionFacts, OrderedFunctions DEF Ordered
<1>8. 1 \in 1 .. Len(Now.prepares)
  BY <1>7 DEF Does
<1>9. \A x : ~Has(x) /\ ~Has(x)'
  <2>1. \A j \in 1 .. Len(Now.prepares) : ~(j < 1)
    BY <1>7
  <2> QED BY <1>1, <1>2, <1>5, <1>7, <2>1 DEF Has, Before
<1>10. Steps'
  BY <1>1, <1>2, <1>5, <1>8, <1>9 DEF ListInv, Steps
<1>11. ~IsFree(SendCtx)'
  BY <1>1, <1>3 DEF ListInv, Held, IsFree, SendCtx
<1>12. Held'
  BY <1>9, <1>11 DEF Held
<1>13. Order'
  BY <1>1, <1>2, <1>3, <1>4, <1>9 DEF ListInv, Order
<1> QED BY <1>2, <1>3, <1>10, <1>12, <1>13 DEF ListInv

\* A function allocates a block for one of its variables.
LEMMA ListTake ==
  ASSUME ListInv, NEW x \in {"ctx", "entry", "event"}, Prepare(x), Malloc,
         NEW n, n = NextBlock, posted' = posted,
         ctx'   = IF x = "ctx" THEN n ELSE ctx,
         entry' = IF x = "entry" THEN n ELSE entry,
         event' = IF x = "event" THEN n ELSE event
  PROVE  ListInv'
<1>1. /\ Running /\ Running' /\ ~Busy /\ todo # <<>> /\ Now \in Functions
      /\ UNCHANGED <<role, todo>> /\ Now' = Now /\ TodoInv'
      /\ phase = "prepare" /\ phase' \in {"prepare", "send", "receive"}
      /\ ~Has(x) /\ \A y : Has(y)' <=> Has(y) \/ y = x
      /\ x = "entry" => (Does(Now, "ctx") => Has("ctx")) /\ ~Has("event")
      /\ x = "ctx" => ~Has("event") /\ ~Has("entry")
      /\ x = "event" => Has("ctx") /\ Has("entry")
      /\ step' \in Nat
      /\ phase' = "prepare" => step' \in 1 .. Len(Now.prepares)
      /\ Busy' => step' > Len(Now.prepares)
      /\ Does(Now, x)
  BY Prepared
<1>2. /\ Shape' /\ n \in Nat /\ n < top' /\ top <= top' /\ top' \in Nat
      /\ \A b : IsFree(b)' => IsFree(b)
      /\ \A b : b = n => ~IsFree(b)'
      /\ IsFree(n) \/ n = top
      /\ \A b \in 0 .. Cep : b = Head(free) => ~IsFree(b)'
  BY Alloc DEF ListInv
<1>3. /\ ctx \in Nat /\ entry \in Nat /\ event \in Nat /\ top \in Nat /\ SendCtx \in Nat
      /\ top > SendCtx /\ SendCtx' = SendCtx /\ Cep' = Cep /\ Now.posts \subseteq 0 .. Cep
      /\ \A b \in 0 .. Cep : b < top /\ b # SendCtx /\ b \in Nat
  BY <1>1, ShapeFacts, FunctionFacts, Sizes DEF ListInv, Steps, SendCtx, Cep
<1>4. \A e : Past(e)' <=> Past(e)
  BY <1>1, NowSame
<1>5. \A b : b \in Nat /\ b < top /\ ~IsFree(b) => b # n /\ b < top' /\ ~IsFree(b)'
  BY <1>2, <1>3
<1>6. ~IsFree(SendCtx)
  BY <1>1 DEF ListInv, Held
<1>7. SendCtx # n /\ ~IsFree(SendCtx)'
  <2>1. \A b : b = SendCtx => b # n /\ ~IsFree(b)'
    BY <1>3, <1>5, <1>6
  <2> QED BY <2>1 DEF IsFree, SendCtx
<1>8. /\ Has("entry") => entry # n /\ entry < top' /\ entry # SendCtx
      /\ Has("ctx") => ctx # n /\ ctx < top' /\ (ctx = SendCtx => Len(todo) = 1)
      /\ Has("event") => event # n /\ event < top' /\ event # SendCtx
  BY <1>3, <1>5 DEF ListInv, Held
<1>9. \A b : /\ Has("entry") /\ b = entry => ~IsFree(b)'
             /\ Has("ctx") /\ b = ctx => ~IsFree(b)'
             /\ Has("event") /\ b = event => ~IsFree(b)'
  BY <1>2 DEF ListInv, Held
<1>10. Steps'
  <2>1. phase' # "idle" /\ phase' # "done" /\ (phase' \in {"prepare", "send"} \/ phase' = "receive")
    BY <1>1
  <2>2. ctx' \in Nat /\ entry' \in Nat /\ event' \in Nat
    BY <1>2, <1>3
  <2>3. Has("post")' <=> Has("post")
    BY <1>1
  <2>4. posted' \subseteq Now.posts /\ (~Has("post") => posted' = {})
        /\ (Has("post") => posted' = Now.posts)
    BY <1>1 DEF ListInv, Steps
  <2>5. Busy' /\ Now.reads => posted' = Now.posts
    <3>1. Now.posts # {} => Has("post")' \/ ~Busy'
      <4>1. ASSUME Busy', Now.posts # {} PROVE Has("post")'
        <5>1. Does(Now, "post") /\ Len(Now.prepares) \in Nat
              /\ DOMAIN Now.prepares = 1 .. Len(Now.prepares)
          BY <1>1, <4>1, FunctionFacts, OrderedFunctions DEF Ordered
        <5>2. \A j \in 1 .. Len(Now.prepares) : j < step'
          BY <1>1, <4>1, <5>1
        <5> QED BY <1>1, <5>1, <5>2 DEF Has, Does, Before
      <4> QED BY <4>1
    <3> QED BY <1>1, <2>3, <2>4, <3>1, FunctionFacts
  <2>6. phase' = "receive" => Busy'
    BY DEF Busy
  <2> QED BY <1>1, <2>1, <2>2, <2>3, <2>4, <2>5, <2>6 DEF Steps
<1>11. Held'
  <2>1. Has("entry")' => entry' < top' /\ ~IsFree(entry)' /\ entry' # SendCtx
    <3>1. ASSUME x = "entry" PROVE entry' < top' /\ ~IsFree(entry)' /\ entry' # SendCtx
      BY <1>2, <1>7, <3>1 DEF IsFree
    <3>2. ASSUME x # "entry", Has("entry") PROVE entry' < top' /\ ~IsFree(entry)' /\ entry' # SendCtx
      BY <1>8, <1>9, <3>2 DEF IsFree
    <3> QED BY <1>1, <3>1, <3>2
  <2>2. Has("ctx")' => /\ ctx' < top' /\ ~IsFree(ctx)'
                       /\ Has("entry")' => ctx' # entry'
                       /\ ctx' = SendCtx => Len(todo) = 1
    <3>1. ASSUME x = "ctx" PROVE ctx' < top' /\ ~IsFree(ctx)' /\ ctx' # SendCtx /\ ~Has("entry")'
      BY <1>1, <1>2, <1>7, <3>1 DEF IsFree
    <3>2. ASSUME x # "ctx", Has("ctx")
          PROVE  ctx' < top' /\ ~IsFree(ctx)' /\ (ctx' = SendCtx => Len(todo) = 1)
      BY <1>8, <1>9, <3>2 DEF IsFree
    <3>3. ASSUME x # "ctx", Has("ctx"), Has("entry")' PROVE ctx' # entry'
      BY <1>1, <1>8, <3>3 DEF ListInv, Held
    <3> QED BY <1>1, <3>1, <3>2, <3>3
  <2>3. Has("event")' => event' < top' /\ ~IsFree(event)' /\ event' \notin {entry', ctx', SendCtx}
    <3>1. ASSUME x = "event" PROVE event' < top' /\ ~IsFree(event)' /\ event' \notin {entry', ctx', SendCtx}
      BY <1>1, <1>2, <1>7, <1>8, <3>1 DEF IsFree
    <3>2. ASSUME x # "event", Has("event")
          PROVE  event' < top' /\ ~IsFree(event)' /\ event' \notin {entry', ctx', SendCtx}
      BY <1>1, <3>2
    <3> QED BY <1>1, <3>1, <3>2
  <2>4. ASSUME Has("post")', Now.reads, NEW e \in Now.posts
        PROVE  ~IsFree(e)' /\ (Has("entry")' => entry' # e)
    <3>1. Has("post")
      BY <1>1, <2>4
    <3>2. ~IsFree(e) /\ (Has("entry") => entry # e)
      BY <2>4, <3>1 DEF ListInv, Held
    <3>3. e # n /\ ~IsFree(e)'
      BY <1>3, <1>5, <2>4, <3>2
    <3> QED BY <1>1, <3>2, <3>3
  <2> QED BY <1>1, <1>3, <1>7, <2>1, <2>2, <2>3, <2>4 DEF Held
<1>12. n <= Cep => n \in 0 .. Cep /\ IsFree(n)
  BY <1>2, <1>3, Sizes
<1>13. CASE role = "controller"
  <2>1. \A b \in 0 .. Cep : ~IsFree(b)'
    BY <1>2, <1>13 DEF ListInv, Order
  <2>2. ~Does(Now, "event") /\ x # "event"
    BY <1>1, <1>13, ControllerReads DEF ListInv
  <2>3. ASSUME Has("entry")', Has("ctx")' PROVE entry' > Cep
    <3>1. CASE x = "entry"
      <4>1. Has("ctx")
        BY <1>1, <2>3, <3>1
      <4>2. ~(n <= Cep)
        BY <1>12, <1>13, <4>1 DEF ListInv, Order
      <4> QED BY <1>2, <3>1, <4>2, Sizes
    <3>2. CASE x = "ctx"
      BY <1>1, <2>3, <3>2
    <3> QED BY <2>2, <3>1, <3>2
  <2> QED BY <1>1, <1>3, <1>13, <1>2, <1>10, <1>11, <2>1, <2>3 DEF ListInv, Order
<1>14. CASE role # "controller"
  <2>1. \A b \in 0 .. Cep : IsFree(b)' => Past(b)
    BY <1>2, <1>14 DEF ListInv, Order
  <2>2. n <= Cep => Past(n)
    BY <1>12, <1>14 DEF ListInv, Order
  <2>3. Has("entry")' /\ entry' <= Cep => Past(entry')
    BY <1>1, <1>14, <2>2 DEF ListInv, Order
  <2>4. Has("event")' /\ event' <= Cep => Past(event')
    BY <1>1, <1>14, <2>2 DEF ListInv, Order
  <2>5. Has("ctx")' /\ ctx' <= Cep => Past(ctx')
    BY <1>1, <1>14, <2>2 DEF ListInv, Order
  <2>6. (Past(entry)' <=> Past(entry')) /\ (Past(event)' <=> Past(event')) /\ (Past(ctx)' <=> Past(ctx'))
    BY <1>1 DEF Past, Done, Cep
  <2>7. Order'
    BY <1>1, <1>3, <1>4, <1>14, <2>1, <2>3, <2>4, <2>5, <2>6 DEF Order
  <2> QED BY <1>1, <1>2, <1>10, <1>11, <2>7 DEF ListInv
<1> QED BY <1>13, <1>14

\* A function posts its receives.
LEMMA ListPost ==
  ASSUME ListInv, Post
  PROVE  ListInv'
<1>1. /\ Prepare("post") /\ posted' = Now.posts
      /\ UNCHANGED <<free, top, ctx, entry, event>>
  BY DEF Post, CtrlRecv, localVars, Now
<1>2. /\ Running /\ Running' /\ todo # <<>> /\ Now \in Functions
      /\ UNCHANGED <<role, todo>> /\ Now' = Now /\ TodoInv'
      /\ phase' \in {"prepare", "send", "receive"}
      /\ \A y : Has(y)' <=> Has(y) \/ y = "post"
      /\ Now.reads => ~Has("entry") /\ (Does(Now, "ctx") => Has("ctx"))
      /\ step' \in Nat
      /\ phase' = "prepare" => step' \in 1 .. Len(Now.prepares)
      /\ Busy' => step' > Len(Now.prepares)
  BY <1>1, Prepared
<1>3. Shape' /\ \A b : IsFree(b)' <=> IsFree(b)
  BY <1>1, Keep DEF ListInv
<1>4. SendCtx' = SendCtx /\ Cep' = Cep /\ \A e : Past(e)' <=> Past(e)
  BY <1>2, NowSame DEF SendCtx, Cep
<1>5. Now.posts \subseteq 0 .. Cep
  BY <1>2, FunctionFacts
<1>6. Steps'
  <2>1. Has("post")' /\ phase' # "idle" /\ phase' # "done"
    BY <1>2
  <2> QED BY <1>1, <1>2, <2>1 DEF ListInv, Steps
<1>7. Now.reads => \A e \in Now.posts : ~IsFree(e)
  <2>1. CASE role = "controller"
    BY <1>2, <1>5, <2>1, ControllerReads DEF ListInv, Order
  <2>2. CASE role # "controller"
    BY <1>2, <1>5, <2>2, HostReads DEF ListInv, Order
  <2> QED BY <2>1, <2>2
<1>8. /\ IsFree(entry)' <=> IsFree(entry)
      /\ IsFree(ctx)' <=> IsFree(ctx)
      /\ IsFree(event)' <=> IsFree(event)
      /\ IsFree(SendCtx)' <=> IsFree(SendCtx)
  BY <1>1 DEF IsFree, SendCtx
<1>9. Held'
  <2>1. /\ Has("entry")' <=> Has("entry")
        /\ Has("ctx")' <=> Has("ctx")
        /\ Has("event")' <=> Has("event")
    BY <1>2
  <2>2. Now.reads => \A e \in Now.posts : ~IsFree(e)' /\ ~Has("entry")
    BY <1>2, <1>3, <1>7
  <2> QED BY <1>1, <1>2, <1>4, <1>8, <2>1, <2>2 DEF ListInv, Held
<1>10. Order'
  <2>1. /\ Has("entry")' <=> Has("entry")
        /\ Has("ctx")' <=> Has("ctx")
        /\ Has("event")' <=> Has("event")
    BY <1>2
  <2>2. (Past(entry)' <=> Past(entry)) /\ (Past(event)' <=> Past(event)) /\ (Past(ctx)' <=> Past(ctx))
    BY <1>1, <1>2 DEF Past, Done, Cep
  <2> QED BY <1>1, <1>2, <1>3, <1>4, <2>1, <2>2 DEF ListInv, Order
<1> QED BY <1>2, <1>3, <1>6, <1>9, <1>10 DEF ListInv

\* A completion, or a receive posted again: the list does not change.
LEMMA ListReceive ==
  ASSUME ListInv, Busy, phase' \in {"receive", "done"},
         UNCHANGED <<role, todo, step, free, top, entry, event, taken>>,
         posted' \subseteq Now.posts, phase' = "done" => Now.posts = {},
         Now.posts # {} => \/ phase = "receive"
                           \/ posted' = posted /\ ctx' = ctx /\ phase = "send",
         \/ ctx' = ctx /\ ~Now.reads
         \/ ctx' = ctx /\ posted' = posted
         \/ ctx' \in Now.posts /\ Now.reads
         \/ ctx' = SendCtx /\ ~Now.reads /\ Len(todo) = 1 /\ role = "client"
  PROVE  ListInv'
<1>1. TodoInv' /\ Now' = Now /\ \A e : Past(e)' <=> Past(e)
  BY NowSame DEF ListInv
<1>2. Shape' /\ \A b : IsFree(b)' <=> IsFree(b)
  BY Keep DEF ListInv
<1>3. SendCtx' = SendCtx /\ Cep' = Cep
  BY DEF SendCtx, Cep
<1>4. Running /\ Running' /\ Busy'
  BY DEF Running, Busy
<1>5. /\ todo # <<>> /\ Now \in Functions /\ \A x : Has(x) <=> Does(Now, x)
      /\ Has("entry") /\ (Now.posts # {} => Has("post"))
      /\ \A x : Has(x)' <=> Has(x)
  BY <1>4, BusyHas, HasSame
<1>6. /\ Shape /\ Now.posts \subseteq 0 .. Cep
      /\ \A b \in 0 .. Cep : b < top /\ b # SendCtx /\ b \in Nat
      /\ top \in Nat /\ top > SendCtx /\ SendCtx \in Nat /\ ctx \in Nat
  BY <1>5, FunctionFacts, ShapeFacts, Sizes DEF ListInv, Steps
<1>7. Now.reads => Now.posts # {}
  BY <1>5, FunctionFacts
<1>8. Steps'
  <2>1. ctx' \in Nat
    BY <1>6
  <2>2. phase' = "receive" /\ Now.reads => posted' = Now.posts \/ ctx' \in Now.posts
    <3>1. ASSUME Now.reads, ctx' = ctx, posted' = posted PROVE posted' = Now.posts \/ ctx' \in Now.posts
      BY <1>5, <1>7, <3>1 DEF ListInv, Steps
    <3> QED BY <3>1
  <2>3. ~Has("post") => posted' = {}
    BY <1>5
  <2> QED BY <1>1, <1>4, <1>5, <2>1, <2>2, <2>3 DEF ListInv, Steps
<1>9. /\ IsFree(entry)' <=> IsFree(entry)
      /\ IsFree(event)' <=> IsFree(event)
      /\ IsFree(SendCtx)' <=> IsFree(SendCtx)
      /\ \A b : b = ctx' => (IsFree(ctx)' <=> IsFree(b))
  BY DEF IsFree, SendCtx
<1>10. Held'
  <2>1. entry < top /\ ~IsFree(entry) /\ ~IsFree(SendCtx) /\ entry # SendCtx
    BY <1>5 DEF ListInv, Held
  <2>2. Now.reads => \A e \in Now.posts : ~IsFree(e) /\ entry # e
    BY <1>5, <1>7 DEF ListInv, Held
  <2>3. ASSUME Has("ctx")
        PROVE  ctx' < top /\ ~IsFree(ctx)' /\ ctx' # entry /\ (ctx' = SendCtx => Len(todo) = 1)
    <3>1. CASE ctx' = ctx
      BY <1>5, <1>9, <2>3, <3>1 DEF ListInv, Held
    <3>2. CASE ctx' \in Now.posts /\ Now.reads
      BY <1>6, <1>9, <2>2, <3>2
    <3>3. CASE ctx' = SendCtx /\ Len(todo) = 1
      BY <1>6, <1>9, <2>1, <3>3
    <3> QED BY <3>1, <3>2, <3>3
  <2>4. ASSUME Has("event")
        PROVE  event < top /\ ~IsFree(event)' /\ event \notin {entry, ctx', SendCtx}
    <3>1. Does(Now, "event")
      BY <1>5, <2>4
    <3>2. ~Now.reads
      BY <1>5, <3>1, HostReads, ControllerReads DEF ListInv
    <3> QED BY <1>9, <2>4, <3>2 DEF ListInv, Held
  <2>5. Now.reads => \A e \in Now.posts : ~IsFree(e)' /\ entry # e
    BY <1>2, <2>2
  <2> QED BY <1>1, <1>3, <1>5, <1>9, <2>1, <2>3, <2>4, <2>5 DEF Held
<1>11. Order'
  <2>1. (Past(entry)' <=> Past(entry)) /\ (Past(event)' <=> Past(event))
    BY NowSame DEF Past
  <2>2. CASE role = "controller"
    BY <1>1, <1>2, <1>3, <1>5, <2>2 DEF ListInv, Order
  <2>3. CASE role # "controller"
    <3>1. ASSUME Has("ctx"), ctx' <= Cep PROVE Past(ctx)'
      <4>1. ~Now.reads
        BY <1>5, <2>3, <3>1, HostReads DEF ListInv
      <4>2. ctx' # SendCtx
        BY <1>6, <3>1, Sizes
      <4>3. ctx' = ctx
        BY <4>1, <4>2
      <4>4. Past(ctx)
        BY <2>3, <3>1, <4>3 DEF ListInv, Order
      <4> QED BY <4>3, <4>4, NowSame DEF Past
    <3> QED BY <1>1, <1>2, <1>3, <1>5, <2>1, <2>3, <3>1 DEF ListInv, Order
  <2> QED BY <2>2, <2>3
<1> QED BY <1>1, <1>2, <1>8, <1>10, <1>11 DEF ListInv

LEMMA ListReapSends ==
  ASSUME ListInv, ReapSends
  PROVE  ListInv'
<1>1. /\ phase = "send" /\ phase' = IF Now.posts = {} THEN "done" ELSE "receive"
      /\ UNCHANGED <<role, todo, step, free, top, ctx, entry, event, posted, taken>>
  BY DEF ReapSends, Now, heapVars, localVars
<1>2. Busy /\ posted \subseteq Now.posts
  BY <1>1 DEF Busy, Running, ListInv, Steps
<1> QED BY <1>1, <1>2, ListReceive

\* Only the benchmark of a client is called so, and it is the last function.
LEMMA BenchmarkLast ==
  ASSUME TodoInv, todo # <<>>, InBenchmark
  PROVE  ~Now.reads /\ Now.posts = {Cep} /\ Len(todo) = 1 /\ role = "client" /\ Does(Now, "ctx")
<1>1. role = "client" /\ Now = Benchmark
  BY DEF InBenchmark, Now
<1>2. Does(Now, "ctx") /\ ~Now.reads /\ Now.posts = {Cep}
  BY <1>1, OtherFacts
<1> QED BY <1>1, <1>2, HostReads

LEMMA ListReapWrite ==
  ASSUME ListInv, ReapWrite
  PROVE  ListInv'
<1>1. /\ phase = "receive" /\ InBenchmark /\ ctx' = SendCtx
      /\ UNCHANGED <<role, todo, phase, step, free, top, entry, event, posted, taken>>
  BY DEF ReapWrite, heapVars
<1>2. Busy /\ todo # <<>> /\ posted \subseteq Now.posts
  BY <1>1 DEF Busy, ListInv, Steps, Running
<1>3. ~Now.reads /\ Len(todo) = 1 /\ role = "client"
  BY <1>1, <1>2, BenchmarkLast DEF ListInv
<1> QED BY <1>1, <1>2, <1>3, ListReceive

LEMMA ListReapReceive ==
  ASSUME ListInv, ReapReceive
  PROVE  ListInv'
<1>1. PICK e \in posted : /\ posted' = posted \ {e}
                          /\ IF Now.reads THEN ctx' = e ELSE ctx' = ctx
  BY DEF ReapReceive, Now
<1>2. phase = "receive" /\ UNCHANGED <<role, todo, phase, step, free, top, entry, event, taken>>
  BY DEF ReapReceive, heapVars
<1>3. Busy /\ posted \subseteq Now.posts
  BY <1>2 DEF Busy, ListInv, Steps, Running
<1> QED BY <1>1, <1>2, <1>3, ListReceive

LEMMA ListPostAgain ==
  ASSUME ListInv, PostAgain
  PROVE  ListInv'
<1>1. /\ phase = "receive" /\ InBenchmark /\ posted' = {Cep} /\ ctx' = ctx
      /\ UNCHANGED <<role, todo, phase, step, free, top, entry, event, taken>>
  BY DEF PostAgain, CtrlRecv, localVars
<1>2. Busy /\ todo # <<>>
  BY <1>1 DEF Busy, ListInv, Steps, Running
<1>3. ~Now.reads /\ Now.posts = {Cep}
  BY <1>1, <1>2, BenchmarkLast DEF ListInv
<1> QED BY <1>1, <1>2, <1>3, ListReceive

\* The list after a function has freed what it holds, in its order.
LEMMA EndFrees ==
  ASSUME End, free \in Seq(Nat), entry \in Nat, ctx \in Nat, event \in Nat
  PROVE  /\ Now.frees = <<"entry">> => free' = Cons(entry, free)
         /\ Now.frees = <<"ctx", "entry">> => free' = Cons(entry, Cons(ctx, free))
         /\ Now.frees = <<"entry", "ctx">> => free' = Cons(ctx, Cons(entry, free))
         /\ Now.frees = <<"entry", "event", "ctx">> =>
              free' = Cons(ctx, Cons(event, Cons(entry, free)))
<1> DEFINE block == [ctx |-> ctx, entry |-> entry, event |-> event]
           freed(f) == [k \in 1 .. Len(f) |-> block[f[Len(f) + 1 - k]]]
<1>1. free' = freed(Now.frees) \o free
  BY DEF End, Now
<1>2. ASSUME Now.frees = <<"entry">> PROVE free' = Cons(entry, free)
  <2>1. freed(<<"entry">>) = <<entry>>
    <3>1. /\ freed(<<"entry">>) \in Seq(Nat) /\ Len(freed(<<"entry">>)) = 1
          /\ freed(<<"entry">>)[1] = entry
      OBVIOUS
    <3>2. <<entry>> \in Seq(Nat) /\ Len(<<entry>>) = 1 /\ <<entry>>[1] = entry
      OBVIOUS
    <3>3. \A i \in 1 .. 1 : i = 1
      OBVIOUS
    <3> HIDE DEF freed
    <3> QED BY <3>1, <3>2, <3>3, SeqEqual
  <2> HIDE DEF freed
  <2> QED BY <1>1, <1>2, <2>1, Zenon DEF Cons
<1>3. ASSUME Now.frees = <<"ctx", "entry">> PROVE free' = Cons(entry, Cons(ctx, free))
  <2>1. freed(<<"ctx", "entry">>) = <<entry, ctx>>
    <3>1. /\ freed(<<"ctx", "entry">>) \in Seq(Nat) /\ Len(freed(<<"ctx", "entry">>)) = 2
          /\ freed(<<"ctx", "entry">>)[1] = entry /\ freed(<<"ctx", "entry">>)[2] = ctx
      OBVIOUS
    <3>2. /\ <<entry, ctx>> \in Seq(Nat) /\ Len(<<entry, ctx>>) = 2
          /\ <<entry, ctx>>[1] = entry /\ <<entry, ctx>>[2] = ctx
      OBVIOUS
    <3>3. \A i \in 1 .. 2 : i = 1 \/ i = 2
      OBVIOUS
    <3> HIDE DEF freed
    <3> QED BY <3>1, <3>2, <3>3, SeqEqual
  <2> HIDE DEF freed
  <2>2. free' = <<entry, ctx>> \o free
    BY <1>1, <1>3, <2>1, Zenon
  <2> QED BY <2>2, ConsTwo
<1>4. ASSUME Now.frees = <<"entry", "ctx">> PROVE free' = Cons(ctx, Cons(entry, free))
  <2>1. freed(<<"entry", "ctx">>) = <<ctx, entry>>
    <3>1. /\ freed(<<"entry", "ctx">>) \in Seq(Nat) /\ Len(freed(<<"entry", "ctx">>)) = 2
          /\ freed(<<"entry", "ctx">>)[1] = ctx /\ freed(<<"entry", "ctx">>)[2] = entry
      OBVIOUS
    <3>2. /\ <<ctx, entry>> \in Seq(Nat) /\ Len(<<ctx, entry>>) = 2
          /\ <<ctx, entry>>[1] = ctx /\ <<ctx, entry>>[2] = entry
      OBVIOUS
    <3>3. \A i \in 1 .. 2 : i = 1 \/ i = 2
      OBVIOUS
    <3> HIDE DEF freed
    <3> QED BY <3>1, <3>2, <3>3, SeqEqual
  <2> HIDE DEF freed
  <2>2. free' = <<ctx, entry>> \o free
    BY <1>1, <1>4, <2>1, Zenon
  <2> QED BY <2>2, ConsTwo
<1>5. ASSUME Now.frees = <<"entry", "event", "ctx">>
      PROVE  free' = Cons(ctx, Cons(event, Cons(entry, free)))
  <2> DEFINE f == <<"entry", "event", "ctx">>
             u == Cons(event, Cons(entry, <<>>))
  <2>1. freed(f) = <<ctx>> \o <<event, entry>>
    <3>1. /\ freed(f) \in Seq(Nat) /\ Len(freed(f)) = 3
          /\ freed(f)[1] = ctx /\ freed(f)[2] = event /\ freed(f)[3] = entry
      OBVIOUS
    <3>2. /\ <<event, entry>> \in Seq(Nat) /\ Len(<<event, entry>>) = 2 /\ <<ctx>> \in Seq(Nat)
          /\ Len(<<ctx>>) = 1 /\ <<ctx>>[1] = ctx
          /\ <<event, entry>>[1] = event /\ <<event, entry>>[2] = entry
      OBVIOUS
    <3>3. /\ <<ctx>> \o <<event, entry>> \in Seq(Nat) /\ Len(<<ctx>> \o <<event, entry>>) = 3
          /\ (<<ctx>> \o <<event, entry>>)[1] = ctx
          /\ (<<ctx>> \o <<event, entry>>)[2] = event
          /\ (<<ctx>> \o <<event, entry>>)[3] = entry
      BY <3>2
    <3>4. \A i \in 1 .. 3 : i = 1 \/ i = 2 \/ i = 3
      OBVIOUS
    <3> HIDE DEF freed, f
    <3> QED BY <3>1, <3>3, <3>4, SeqEqual
  <2> HIDE DEF freed
  <2>2. free' = (<<ctx>> \o <<event, entry>>) \o free
    BY <1>1, <1>5, <2>1, Zenon
  <2>3. (<<ctx>> \o <<event, entry>>) \o free = <<ctx>> \o (<<event, entry>> \o free)
    <3>1. <<ctx>> \in Seq(Nat) /\ <<event, entry>> \in Seq(Nat)
      OBVIOUS
    <3> QED BY <3>1, ConcatAssociative
  <2>4. <<event, entry>> \o free = Cons(event, Cons(entry, free))
    BY ConsTwo
  <2> QED BY <2>2, <2>3, <2>4, Zenon DEF Cons
<1> QED BY <1>2, <1>3, <1>4, <1>5

\* What is known when a function returns.
LEMMA EndFacts ==
  ASSUME ListInv, End
  PROVE  /\ Busy /\ Running /\ todo # <<>> /\ todo' = Tail(todo) /\ phase' = "idle" /\ Now \in Functions
         /\ UNCHANGED <<role, step, top, ctx, entry, event, posted, taken>> /\ posted = {}
         /\ \A x : Has(x) <=> Does(Now, x)
         /\ free \in Seq(Nat) /\ Distinct(free) /\ entry \in Nat /\ ctx \in Nat /\ event \in Nat
         /\ top \in Nat /\ Has("entry")
         /\ entry < top /\ ~IsFree(entry) /\ entry # SendCtx /\ ~IsFree(SendCtx)
         /\ Has("ctx") \/ Now.reads => ctx < top /\ ~IsFree(ctx) /\ ctx # entry
         /\ Has("event") => event < top /\ ~IsFree(event) /\ event # entry /\ event # ctx
                            /\ event # SendCtx
         /\ ctx = SendCtx => ~Has("ctx") \/ Len(todo) = 1
         /\ Now.reads /\ ~Has("ctx") => ctx \in Now.posts /\ ctx \in 0 .. Cep /\ ctx # SendCtx
<1>1. /\ phase \in {"receive", "done"} /\ posted = {} /\ todo' = Tail(todo) /\ phase' = "idle"
      /\ UNCHANGED <<role, step, top, ctx, entry, event, posted, taken>>
  BY DEF End, localVars
<1>2. Busy
  BY <1>1 DEF Busy
<1>3. /\ Running /\ todo # <<>> /\ Now \in Functions /\ \A x : Has(x) <=> Does(Now, x)
      /\ Has("entry") /\ (Now.posts # {} => Has("post"))
  BY <1>2, BusyHas
<1>4. /\ free \in Seq(Nat) /\ Distinct(free) /\ entry \in Nat /\ ctx \in Nat /\ event \in Nat
      /\ top \in Nat /\ Now.posts \subseteq 0 .. Cep
      /\ \A b \in 0 .. Cep : b < top /\ b # SendCtx
  BY <1>3, ShapeFacts, FunctionFacts DEF ListInv, Steps
<1>5. entry < top /\ ~IsFree(entry) /\ entry # SendCtx /\ ~IsFree(SendCtx)
  BY <1>3 DEF ListInv, Held
<1>6. ASSUME Now.reads PROVE ctx \in Now.posts /\ Has("post")
  <2>1. Now.posts # {}
    BY <1>3, <1>6, FunctionFacts
  <2>2. phase = "receive"
    BY <1>1, <2>1 DEF ListInv, Steps
  <2> QED BY <1>1, <1>3, <1>6, <2>1, <2>2 DEF ListInv, Steps
<1>7. ASSUME Now.reads PROVE ctx < top /\ ~IsFree(ctx) /\ ctx # entry /\ ctx # SendCtx
  BY <1>3, <1>4, <1>6, <1>7 DEF ListInv, Held
<1>8. ASSUME Has("ctx")
      PROVE  ctx < top /\ ~IsFree(ctx) /\ ctx # entry /\ (ctx = SendCtx => Len(todo) = 1)
  BY <1>3, <1>8 DEF ListInv, Held
<1>9. Has("event") => event < top /\ ~IsFree(event) /\ event # entry /\ event # ctx
                      /\ event # SendCtx
  BY DEF ListInv, Held
<1> QED BY <1>1, <1>2, <1>3, <1>4, <1>5, <1>6, <1>7, <1>8, <1>9

\* The blocks that are free when it has returned.
LEMMA EndList ==
  ASSUME ListInv, End
  PROVE  /\ free' \in Seq(Nat) /\ Distinct(free') /\ free' # <<>>
         /\ \A b : IsFree(b)' <=> \/ IsFree(b) \/ b = entry
                                  \/ b = ctx /\ (Has("ctx") \/ Now.reads)
                                  \/ b = event /\ Has("event")
         /\ Len(free') = Len(free) + (IF Has("event") THEN 3 ELSE
                                      IF Has("ctx") \/ Now.reads THEN 2 ELSE 1)
         /\ Has("event") => Has("ctx")
         /\ Has("ctx") => Head(free') = ctx
         /\ ~Has("ctx") => Head(free') = entry
         /\ free = <<>> /\ ~Has("ctx") /\ Now.reads => Last(free') = ctx
         /\ free # <<>> => Last(free') = Last(free)
<1>1. /\ free \in Seq(Nat) /\ Distinct(free) /\ entry \in Nat /\ ctx \in Nat /\ event \in Nat
      /\ Now \in Functions /\ ~In(entry, free) /\ Len(free) \in Nat
      /\ \A x : Has(x) <=> Does(Now, x)
      /\ Has("ctx") \/ Now.reads => ~In(ctx, free) /\ ctx # entry
      /\ Has("event") => ~In(event, free) /\ event # ctx /\ event # entry
  BY EndFacts, ListFacts
<1>2. \A b : (IsFree(b) <=> In(b, free)) /\ (IsFree(b)' <=> In(b, free'))
  BY ListFacts
<1>3. CASE Now.frees = <<"entry">> /\ ~Has("ctx") /\ ~Now.reads /\ ~Has("event")
  <2>1. free' = Cons(entry, free)
    BY <1>1, <1>3, EndFrees
  <2>2. /\ free' \in Seq(Nat) /\ Distinct(free') /\ Len(free') = Len(free) + 1 /\ Head(free') = entry
        /\ free' # <<>>
        /\ \A b : In(b, free') <=> In(b, free) \/ b = entry
        /\ free # <<>> => Last(free') = Last(free)
    BY <1>1, <2>1, Push
  <2>3. \A b : IsFree(b)' <=> IsFree(b) \/ b = entry
    BY <1>2, <2>2, Zenon
  <2> QED BY <1>3, <2>2, <2>3, Zenon
<1>4. CASE Now.frees = <<"ctx", "entry">> /\ ~Has("ctx") /\ Now.reads /\ ~Has("event")
  <2>1. free' = Cons(entry, Cons(ctx, free))
    BY <1>1, <1>4, EndFrees
  <2>2. /\ free' \in Seq(Nat) /\ Distinct(free') /\ Len(free') = Len(free) + 2 /\ free' # <<>>
        /\ Head(free') = entry
        /\ \A b : In(b, free') <=> In(b, free) \/ b = entry \/ b = ctx
        /\ free = <<>> => Last(free') = ctx
        /\ free # <<>> => Last(free') = Last(free)
    BY <1>1, <1>4, <2>1, PushTwo
  <2>3. \A b : IsFree(b)' <=> IsFree(b) \/ b = entry \/ b = ctx
    BY <1>2, <2>2, Zenon
  <2> QED BY <1>4, <2>2, <2>3, Zenon
<1>5. CASE Now.frees = <<"entry", "ctx">> /\ Has("ctx") /\ ~Has("event")
  <2>1. free' = Cons(ctx, Cons(entry, free))
    BY <1>1, <1>5, EndFrees
  <2>2. /\ free' \in Seq(Nat) /\ Distinct(free') /\ Len(free') = Len(free) + 2 /\ Head(free') = ctx
        /\ free' # <<>>
        /\ \A b : In(b, free') <=> In(b, free) \/ b = ctx \/ b = entry
        /\ free # <<>> => Last(free') = Last(free)
    <3>1. /\ ctx # entry /\ ~In(ctx, free) /\ ~In(entry, free)
          /\ free \in Seq(Nat) /\ Distinct(free) /\ entry \in Nat /\ ctx \in Nat
      BY <1>1, <1>5
    <3> QED BY <2>1, <3>1, PushTwo
  <2>3. \A b : IsFree(b)' <=> IsFree(b) \/ b = entry \/ b = ctx
    BY <1>2, <2>2, Zenon
  <2> QED BY <1>5, <2>2, <2>3, Zenon
<1>6. CASE Now.frees = <<"entry", "event", "ctx">> /\ Has("ctx") /\ Has("event")
  <2>1. free' = Cons(ctx, Cons(event, Cons(entry, free)))
    BY <1>1, <1>6, EndFrees
  <2>2. /\ ctx # entry /\ ~In(ctx, free) /\ ~In(entry, free) /\ ~In(event, free)
        /\ event # ctx /\ event # entry /\ ctx # event
        /\ free \in Seq(Nat) /\ Distinct(free) /\ entry \in Nat /\ ctx \in Nat /\ event \in Nat
    BY <1>1, <1>6
  <2> DEFINE u == Cons(event, Cons(entry, free))
  <2>3. /\ u \in Seq(Nat) /\ Distinct(u) /\ Len(u) = Len(free) + 2 /\ u # <<>>
        /\ \A b : In(b, u) <=> In(b, free) \/ b = event \/ b = entry
        /\ free # <<>> => Last(u) = Last(free)
    <3>1. /\ event # entry /\ ~In(event, free) /\ ~In(entry, free)
          /\ free \in Seq(Nat) /\ Distinct(free) /\ entry \in Nat /\ event \in Nat
      BY <2>2, Zenon
    <3> QED BY <3>1, PushTwo
  <2>4. free' = Cons(ctx, u)
    BY <2>1
  <2> HIDE DEF u
  <2>5. ~In(ctx, u)
    BY <2>2, <2>3
  <2>6. /\ free' \in Seq(Nat) /\ Distinct(free') /\ Len(free') = Len(u) + 1 /\ free' # <<>>
        /\ Head(free') = ctx
        /\ \A b : In(b, free') <=> In(b, u) \/ b = ctx
        /\ Last(free') = Last(u)
    BY <2>2, <2>3, <2>4, <2>5, Push
  <2>7. Len(free') = Len(free) + 3
    <3>1. Len(free) \in Nat
      BY <2>2
    <3> QED BY <2>3, <2>6, <3>1
  <2>8. \A b : IsFree(b)' <=> IsFree(b) \/ b = entry \/ b = ctx \/ b = event
    BY <1>2, <2>3, <2>6, Zenon
  <2> QED BY <1>6, <2>3, <2>6, <2>7, <2>8, Zenon
<1> QED BY <1>1, <1>3, <1>4, <1>5, <1>6, FunctionFacts

LEMMA ListEnd ==
  ASSUME ListInv, End
  PROVE  ListInv'
<1>1. /\ Busy /\ Running /\ todo # <<>> /\ todo' = Tail(todo) /\ phase' = "idle" /\ Now \in Functions
      /\ UNCHANGED <<role, step, top, ctx, entry, event, posted, taken>> /\ posted = {}
      /\ \A x : Has(x) <=> Does(Now, x)
      /\ entry \in Nat /\ ctx \in Nat /\ event \in Nat /\ top \in Nat /\ Has("entry")
      /\ entry < top /\ ~IsFree(entry) /\ entry # SendCtx /\ ~IsFree(SendCtx)
      /\ Has("ctx") \/ Now.reads => ctx < top /\ ~IsFree(ctx) /\ ctx # entry
      /\ Has("event") => event < top /\ event # SendCtx
      /\ ctx = SendCtx => ~Has("ctx") \/ Len(todo) = 1
      /\ Now.reads /\ ~Has("ctx") => ctx \in Now.posts /\ ctx \in 0 .. Cep /\ ctx # SendCtx
  BY EndFacts
<1>2. TodoInv' /\ Done' = Done + 1 /\ (Len(todo) = 1 => todo' = <<>>) /\ Done \in Nat
  BY <1>1, TodoTail DEF ListInv, TodoInv
<1>3. ~Running' /\ ~Busy' /\ SendCtx' = SendCtx /\ Cep' = Cep /\ \A x : ~Has(x)'
  BY <1>1 DEF Running, Busy, SendCtx, Cep, Has
<1>4. ASSUME NEW b, IsFree(b)'
      PROVE  \/ IsFree(b) \/ b = entry
             \/ b = ctx /\ (Has("ctx") \/ Now.reads)
             \/ b = event /\ Has("event")
  BY <1>4, EndList
<1>5. /\ \A b : IsFree(b) => b < top /\ b \in Nat
      /\ top > SendCtx
  BY ShapeFacts DEF ListInv
<1>6. Shape'
  <2>1. \A b : IsFree(b)' => b < top'
    BY <1>1, <1>4, <1>5
  <2> QED BY <1>1, <1>5, <2>1, EndList, ShapeNext
<1>7. Steps'
  BY <1>1, <1>3 DEF ListInv, Steps
<1>8. Held'
  <2>1. ASSUME todo' # <<>> PROVE ~IsFree(SendCtx)'
    <3>1. \A b : b = SendCtx => ~IsFree(b)'
      BY <1>1, <1>2, <1>4, <2>1
    <3> QED BY <3>1 DEF IsFree, SendCtx
  <2> QED BY <1>3, <2>1 DEF Held
<1>9. CASE role = "controller"
  <2>1. \A b \in 0 .. Cep : ~IsFree(b)
    BY <1>1, <1>9 DEF ListInv, Order
  <2>2. (Now.reads <=> Has("ctx")) /\ ~Has("event")
    BY <1>1, <1>9, ControllerReads DEF ListInv
  <2>3. ASSUME Has("ctx"), NEW b \in 0 .. Cep, IsFree(b)' PROVE b = Head(free')
    <3>1. entry > Cep
      BY <1>1, <1>9, <2>3 DEF ListInv, Order
    <3>2. b # entry
      BY <1>1, <3>1, Sizes
    <3>3. b = ctx
      BY <1>4, <2>1, <2>2, <2>3, <3>2
    <3> QED BY <2>3, <3>3, EndList
  <2>4. ASSUME ~Has("ctx"), NEW b \in 0 .. Cep, IsFree(b)' PROVE b = Head(free')
    <3>1. b = entry
      BY <1>4, <2>1, <2>2, <2>4
    <3> QED BY <2>4, <3>1, EndList
  <2> QED BY <1>1, <1>2, <1>3, <1>6, <1>7, <1>8, <1>9, <2>3, <2>4 DEF ListInv, Order
<1>10. CASE role # "controller"
  <2>1. ASSUME NEW b \in 0 .. Cep, Past(b) PROVE Past(b)'
    BY <1>2, <2>1, Sizes DEF Past
  <2>2. ASSUME NEW b \in 0 .. Cep, IsFree(b)' PROVE Past(b)'
    <3>1. b <= Cep
      BY Sizes
    <3>2. CASE IsFree(b)
      BY <1>10, <2>1, <3>2 DEF ListInv, Order
    <3>3. CASE b = entry
      BY <1>1, <1>10, <2>1, <3>1, <3>3 DEF ListInv, Order
    <3>4. CASE b = ctx /\ Has("ctx")
      BY <1>1, <1>10, <2>1, <3>1, <3>4 DEF ListInv, Order
    <3>5. CASE b = ctx /\ Now.reads /\ ~Has("ctx")
      <4>1. b \in Now.posts
        BY <1>1, <3>5
      <4>2. IF b = Cep THEN Done' >= 1 ELSE Done' >= 3 + b
        BY <1>1, <1>2, <1>10, <3>5, <4>1, HostReads DEF ListInv
      <4> QED BY <1>3, <4>2 DEF Past
    <3>6. CASE b = event /\ Has("event")
      BY <1>1, <1>10, <2>1, <3>1, <3>6 DEF ListInv, Order
    <3> QED BY <1>4, <2>2, <3>2, <3>3, <3>4, <3>5, <3>6
  <2> QED BY <1>1, <1>2, <1>3, <1>6, <1>7, <1>8, <1>10, <2>2 DEF ListInv, Order
<1> QED BY <1>9, <1>10

LEMMA ListOtherMalloc ==
  ASSUME ListInv, OtherMalloc
  PROVE  ListInv'
<1>1. PICK n : n = NextBlock
  OBVIOUS
<1>2. UNCHANGED <<role, todo, phase, step, ctx, entry, event, posted>> /\ todo # <<>> /\ Malloc
  BY DEF OtherMalloc, localVars
<1>3. TodoInv' /\ Now' = Now /\ \A e : Past(e)' <=> Past(e)
  BY <1>2, NowSame DEF ListInv
<1>4. /\ Shape' /\ top <= top' /\ top' \in Nat /\ top \in Nat
      /\ \A b : IsFree(b)' => IsFree(b)
      /\ \A b \in 0 .. Cep : b = Head(free) => ~IsFree(b)'
  BY <1>1, <1>2, Alloc DEF Shape, ListInv
<1>5. SendCtx' = SendCtx /\ Cep' = Cep /\ (Running' <=> Running) /\ (Busy' <=> Busy)
      /\ \A x : Has(x)' <=> Has(x)
  BY <1>2, HasSame DEF SendCtx, Cep, Running, Busy
<1>6. ctx \in Nat /\ entry \in Nat /\ event \in Nat
  BY DEF ListInv, Steps
<1>7. /\ ~IsFree(entry) => ~IsFree(entry)'
      /\ ~IsFree(ctx) => ~IsFree(ctx)'
      /\ ~IsFree(event) => ~IsFree(event)'
      /\ ~IsFree(SendCtx) => ~IsFree(SendCtx)'
  <2>1. \A b : (b = entry /\ ~IsFree(b)) => ~IsFree(entry)'
    BY <1>2, <1>4 DEF IsFree
  <2>2. \A b : (b = ctx /\ ~IsFree(b)) => ~IsFree(ctx)'
    BY <1>2, <1>4 DEF IsFree
  <2>3. \A b : (b = event /\ ~IsFree(b)) => ~IsFree(event)'
    BY <1>2, <1>4 DEF IsFree
  <2>4. \A b : (b = SendCtx /\ ~IsFree(b)) => ~IsFree(SendCtx)'
    BY <1>4, <1>5 DEF IsFree
  <2> QED BY <2>1, <2>2, <2>3, <2>4
<1>8. (entry < top => entry < top') /\ (ctx < top => ctx < top') /\ (event < top => event < top')
  BY <1>4, <1>6
<1>9. Steps'
  BY <1>2, <1>3, <1>5 DEF ListInv, Steps
<1>10. Held'
  BY <1>2, <1>3, <1>4, <1>5, <1>7, <1>8 DEF ListInv, Held
<1>11. Order'
  <2>1. (Past(entry)' <=> Past(entry)) /\ (Past(event)' <=> Past(event))
    BY <1>2, NowSame DEF Past
  <2>2. Past(ctx)' <=> Past(ctx)
    BY <1>2, NowSame DEF Past
  <2>3. CASE role = "controller"
    <3>1. \A b \in 0 .. Cep : ~IsFree(b)'
      BY <1>4, <2>3 DEF ListInv, Order
    <3> QED BY <1>2, <1>3, <1>5, <2>3, <3>1 DEF ListInv, Order
  <2>4. CASE role # "controller"
    BY <1>2, <1>3, <1>4, <1>5, <2>1, <2>2, <2>4 DEF ListInv, Order
  <2> QED BY <2>3, <2>4
<1> QED BY <1>3, <1>4, <1>9, <1>10, <1>11 DEF ListInv

LEMMA ListSame ==
  ASSUME ListInv, UNCHANGED <<role, todo, step, free, top, ctx, entry, event, posted>>,
         phase' = phase \/ phase' = "dead"
  PROVE  ListInv'
<1>1. TodoInv' /\ Shape'
  BY NowSame, Keep DEF ListInv
<1>2. /\ phase' = phase => \A x : Has(x)' <=> Has(x)
      /\ phase' = "dead" => ~Running' /\ ~Busy' /\ \A x : ~Has(x)'
  BY HasSame DEF Running, Busy, Has
<1>3. Steps'
  BY <1>2 DEF ListInv, Steps, Running, Busy, Now
<1>4. Held'
  BY <1>2 DEF ListInv, Held, Now, IsFree, SendCtx
<1>5. Order'
  BY <1>2 DEF ListInv, Order, IsFree, Past, Done, Cep
<1> QED BY <1>1, <1>3, <1>4, <1>5 DEF ListInv

LEMMA ListNext == ListInv /\ [Next]_vars => ListInv'
<1> SUFFICES ASSUME ListInv, [Next]_vars PROVE ListInv'
  OBVIOUS
<1>1. CASE Begin BY <1>1, ListBegin
<1>2. CASE TakeCtx BY <1>2, ListTake DEF TakeCtx
<1>3. CASE TakeEntry BY <1>3, ListTake DEF TakeEntry
<1>4. CASE TakeEvent BY <1>4, ListTake DEF TakeEvent
<1>5. CASE Post BY <1>5, ListPost
<1>6. CASE Stray
  BY <1>6, ListSame DEF Stray, heapVars, localVars
<1>7. CASE ReapSends BY <1>7, ListReapSends
<1>8. CASE ReapWrite BY <1>8, ListReapWrite
<1>9. CASE ReapReceive BY <1>9, ListReapReceive
<1>10. CASE PostAgain BY <1>10, ListPostAgain
<1>11. CASE End BY <1>11, ListEnd
<1>12. CASE OtherMalloc BY <1>12, ListOtherMalloc
<1>13. CASE OtherWrites
  BY <1>13, ListSame DEF OtherWrites, heapVars, localVars
<1>14. CASE UNCHANGED vars
  BY <1>14, ListSame DEF vars, heapVars, localVars
<1> QED BY <1>1, <1>2, <1>3, <1>4, <1>5, <1>6, <1>7, <1>8, <1>9, <1>10, <1>11, <1>12, <1>13,
           <1>14 DEF Next

LEMMA ListHolds == Spec => []ListInv
<1> QED BY ListInit, ListNext, PTL DEF Spec

\* No function of a process frees a block that is free, and none frees what another
\* part of the process holds, for every number of endpoints and rounds and whatever
\* other code takes: that the controller frees the context of a completion and not
\* the one it has allocated, and that the next round posts the freed one, does not
\* free it twice.
THEOREM NoDoubleFree == Spec => []FreedOnce
<1>1. ListInv => FreedOnce
  BY DEF ListInv, Shape
<1> QED BY <1>1, ListHolds, PTL


-----------------------------------------------------------------------------
(* The contexts that completions bring. *)

IdentAll == ListInv /\ IdentInv

LEMMA PostsBlocks ==
  ASSUME TodoInv, todo # <<>>
  PROVE  Now.posts \subseteq Block
<1>1. Now.posts \subseteq 0 .. Cep
  BY NowFacts, FunctionFacts
<1>2. 0 .. Cep \subseteq Block
  <2>1. Others \in Nat
    BY ContextsAssumption
  <2> QED BY <2>1, Sizes DEF Block, LastBlock
<1> QED BY <1>1, <1>2

LEMMA IdentInit == Init => IdentInv
<1> SUFFICES ASSUME Init PROVE IdentInv
  OBVIOUS
<1>1. Block \subseteq Int
  <2>1. Others \in Nat
    BY ContextsAssumption
  <2> QED BY <2>1, Sizes DEF Block, LastBlock
<1>2. content \in [Block -> Int] /\ phase = "idle" /\ wild = FALSE
  BY <1>1 DEF Init, NotCtx
<1> QED BY <1>2 DEF IdentInv, Running

LEMMA IdentNext == IdentAll /\ [Next]_vars => IdentInv'
<1> SUFFICES ASSUME ListInv, IdentInv, [Next]_vars PROVE IdentInv'
  BY DEF IdentAll
<1>0. Block' = Block
  BY DEF Block, LastBlock, SendCtx
<1>1. ASSUME NEW S, CtrlRecv(S), S \subseteq Block, wild' = wild, taken' = taken PROVE IdentInv'
  <2>1. Block \subseteq Int
    <3>1. Others \in Nat
      BY ContextsAssumption
    <3> QED BY <3>1, Sizes DEF Block, LastBlock
  <2>2. content' \in [Block -> Int]
    BY <1>1, <2>1 DEF CtrlRecv, IdentInv
  <2>3. \A e \in posted' : content'[e] = e
    BY <1>1 DEF CtrlRecv
  <2> QED BY <1>0, <1>1, <2>2, <2>3 DEF IdentInv
<1>2. CASE Post
  <2>1. Prepare("post") /\ CtrlRecv(Now.posts)
    BY <1>2 DEF Post, Now
  <2>2. todo # <<>> /\ wild' = wild /\ taken' = taken
    BY <2>1, Prepared
  <2> QED BY <1>1, <2>1, <2>2, PostsBlocks DEF ListInv
<1>3. CASE PostAgain
  <2>1. phase = "receive" /\ InBenchmark /\ CtrlRecv({Cep}) /\ wild' = wild /\ taken' = taken
    BY <1>3 DEF PostAgain
  <2>2. todo # <<>>
    BY <2>1 DEF ListInv, Steps, Running
  <2>3. {Cep} \subseteq Block
    BY <2>1, <2>2, BenchmarkLast, PostsBlocks DEF ListInv
  <2> QED BY <1>1, <2>1, <2>3
<1>4. CASE TakeCtx \/ TakeEntry \/ TakeEvent
  <2>1. UNCHANGED <<content, posted>> /\ \E x : Prepare(x)
    BY <1>4 DEF TakeCtx, TakeEntry, TakeEvent
  <2>2. Running /\ Now' = Now /\ wild' = wild /\ taken' = taken
    BY <2>1, Prepared
  <2> QED BY <1>0, <2>1, <2>2 DEF IdentInv
<1>5. CASE Begin
  <2>1. posted' = {} /\ UNCHANGED <<content, taken, wild>>
    BY <1>5 DEF Begin, ListInv, Steps
  <2> QED BY <1>0, <2>1 DEF IdentInv
<1>6. CASE Stray
  BY <1>0, <1>6 DEF Stray, IdentInv, Running
<1>7. CASE End
  BY <1>0, <1>7 DEF End, IdentInv, Running
<1>8. CASE OtherMalloc
  <2>1. taken' # {} /\ content' = content
    BY <1>8 DEF OtherMalloc
  <2> QED BY <1>0, <2>1 DEF IdentInv
<1>9. CASE OtherWrites
  <2>1. PICK b \in taken : content' = [content EXCEPT ![b] = NotCtx]
    BY <1>9 DEF OtherWrites
  <2>2. taken' # {} /\ NotCtx \in Int
    BY <1>9, <2>1 DEF OtherWrites, NotCtx
  <2>3. content' \in [Block -> Int]
    BY <2>1, <2>2 DEF IdentInv
  <2> QED BY <1>0, <2>2, <2>3 DEF IdentInv
<1>10. CASE UNCHANGED vars
  BY <1>0, <1>10 DEF vars, IdentInv, Running, Now
<1>11. ASSUME Busy, CqRead, UNCHANGED <<todo, entry, taken>>, posted' \subseteq posted,
              \/ wild' = wild
              \/ \E e \in posted : Now.reads /\ wild' = (wild \/ content'[e] # e)
       PROVE  IdentInv'
  <2>1. content' = [content EXCEPT ![entry] = NotCtx] /\ NotCtx \in Int
    BY <1>11 DEF CqRead, NotCtx
  <2>2. content' \in [Block -> Int]
    BY <2>1 DEF IdentInv
  <2>3. /\ Running /\ Has("entry") /\ (Now.posts # {} => Has("post"))
        /\ posted \subseteq Now.posts /\ Now.posts \subseteq Block
    <3>1. Running /\ todo # <<>> /\ Has("entry") /\ (Now.posts # {} => Has("post"))
      BY <1>11, BusyHas
    <3>2. posted \subseteq Now.posts
      BY <3>1 DEF ListInv, Steps
    <3> QED BY <3>1, <3>2, PostsBlocks DEF ListInv
  <2>4. ASSUME taken = {}, Now.reads, NEW e \in posted PROVE content'[e] = e
    <3>1. e # entry
      BY <2>3, <2>4 DEF ListInv, Held
    <3>2. content[e] = e /\ e \in Block
      BY <2>3, <2>4 DEF IdentInv
    <3> QED BY <2>1, <3>1, <3>2 DEF IdentInv
  <2>5. Now' = Now
    BY <1>11 DEF Now
  <2>6. taken = {} => ~wild'
    BY <1>11, <2>4 DEF IdentInv
  <2> QED BY <1>0, <1>11, <2>2, <2>4, <2>5, <2>6 DEF IdentInv
<1>12. CASE ReapSends
  BY <1>11, <1>12 DEF ReapSends, Busy, localVars
<1>13. CASE ReapWrite
  BY <1>11, <1>13 DEF ReapWrite, Busy
<1>14. CASE ReapReceive
  <2>1. /\ Busy /\ CqRead /\ UNCHANGED <<todo, entry, taken>>
        /\ \E e \in posted : /\ posted' = posted \ {e}
                             /\ IF Now.reads THEN wild' = (wild \/ content'[e] # e) ELSE wild' = wild
    BY <1>14 DEF ReapReceive, Now, Busy
  <2> QED BY <1>11, <2>1
<1> QED BY <1>2, <1>3, <1>4, <1>5, <1>6, <1>7, <1>8, <1>9, <1>10, <1>12, <1>13, <1>14 DEF Next

\* As long as no other code takes a block of this size from the list, the context a
\* completion brings is that of the endpoint the receive was posted on, in every
\* round and for every number of endpoints, though ctrl_recv writes the id and the
\* size into blocks that were freed in an earlier round: the block of a context that
\* is waited for is never the completion entry, into which fi_cq_read writes.
THEOREM IdentifiedHolds == Spec => []Identified
<1>1. Init => IdentAll
  BY ListInit, IdentInit DEF IdentAll
<1>2. IdentAll /\ [Next]_vars => IdentAll'
  BY ListNext, IdentNext DEF IdentAll
<1>3. IdentAll => Identified
  BY DEF IdentAll, IdentInv, Identified
<1> QED BY <1>1, <1>2, <1>3, PTL DEF Spec

-----------------------------------------------------------------------------
(* How many blocks a process allocates, and which links it overwrites: a list of one *)
(* block is lost with its link, so the two are one invariant.                        *)

LinkAll == ListInv /\ HeapInv /\ LinkInv

\* The numbers the invariant speaks of.
LEMMA HeapNumbers ==
  ASSUME ListInv
  PROVE  /\ top \in Nat /\ SendCtx \in Nat /\ SendCtx' = SendCtx /\ Done \in Nat
         /\ Len(free) \in Nat /\ (free = <<>> <=> Len(free) = 0)
         /\ \A x : One(x) \in {0, 1}
         /\ Holds \in 0 .. 3 /\ Need \in {2, 3}
<1>1. free \in Seq(Nat)
  BY DEF ListInv, Shape
<1>2. free = <<>> <=> Len(free) = 0
  BY <1>1, EmptySeq
<1>3. \A x : One(x) \in {0, 1}
  BY DEF One
<1>4. Holds \in 0 .. 3
  <2> DEFINE a == One("ctx")
             b == One("entry")
             c == One("event")
  <2>1. a \in {0, 1} /\ b \in {0, 1} /\ c \in {0, 1} /\ Holds = a + b + c
    BY <1>3 DEF Holds
  <2> HIDE DEF a, b, c
  <2> QED BY <2>1
<1> QED BY <1>1, <1>2, <1>3, <1>4, Sizes DEF ListInv, Shape, TodoInv, Need, SendCtx

\* A function that does nothing but wait, or has returned, holds nothing.
LEMMA HoldsNone ==
  /\ (\A x : ~Has(x))  => Holds = 0
  /\ (\A x : ~Has(x)') => Holds' = 0
BY DEF Holds, One

LEMMA HoldsSame ==
  ASSUME todo' = todo, role' = role,
         \A x \in {"ctx", "entry", "event"} : Has(x)' <=> Has(x)
  PROVE  Holds' = Holds /\ Need' = Need /\ Done' = Done
<1>1. /\ One("ctx")' = One("ctx")
      /\ One("entry")' = One("entry")
      /\ One("event")' = One("event")
  BY DEF One
<1>2. Done' = Done
  BY NowSame
<1> QED BY <1>1, <1>2 DEF Holds, Need

LEMMA HeapInit == Init => HeapInv /\ LinkInv
<1> SUFFICES ASSUME Init PROVE HeapInv /\ LinkInv
  OBVIOUS
<1>1. /\ free = <<>> /\ top = SendCtx + 1 /\ phase = "idle" /\ broken = {} /\ loose = FALSE
      /\ ListInv
  BY ListInit DEF Init
<1>2. Done = 0
  <2>1. todo \in Seq(Functions) /\ todo = Program(role)
    BY TodoInit DEF Init, TodoInv
  <2>2. Len(todo) \in Nat
    BY <2>1
  <2> QED BY <2>1, <2>2 DEF Done
<1>3. Holds = 0
  <2>1. \A x : ~Has(x)
    BY <1>1 DEF Has, Running
  <2> QED BY <2>1, HoldsNone
<1>4. ~IsFree(Cep)
  BY <1>1, EmptyList, ListFacts
<1>5. top <= SendCtx + 3 /\ top = SendCtx + 1 + Holds /\ top <= SendCtx + 2 /\ ~(Done >= 1)
  BY <1>1, <1>2, <1>3, Sizes
<1>6. HeapInv
  BY <1>1, <1>2, <1>5 DEF HeapInv
<1>7. LinkInv
  BY <1>1, <1>2, <1>4 DEF LinkInv
<1> QED BY <1>6, <1>7

LEMMA LastIn ==
  ASSUME NEW s \in Seq(Nat), s # <<>>
  PROVE  In(Last(s), s)
<1>1. Len(s) \in Nat \ {0}
  BY EmptySeq
<1>2. Len(s) \in 1 .. Len(s) /\ DOMAIN s = 1 .. Len(s)
  BY <1>1
<1> QED BY <1>2 DEF In, Last

\* Whether and how many blocks a function has taken when it takes the next.
LEMMA TakeHolds ==
  ASSUME ListInv, NEW x \in {"ctx", "entry", "event"}, Prepare(x)
  PROVE  /\ Holds' = Holds + 1 /\ Done' = Done /\ Need' = Need
         /\ Holds \in 0 .. 2 /\ (x # "event" => Holds <= 1)
         /\ x = "event" => role = "server" /\ Done = 1
         /\ x = "entry" /\ Holds = 1 => Has("ctx") /\ Does(Now, "ctx")
         /\ x = "ctx" => Holds = 0
         /\ Has("event")' <=> Has("event") \/ x = "event"
         /\ x # "event" => ~Has("event")
         /\ todo # <<>> /\ phase = "prepare" /\ phase' # "dead" /\ UNCHANGED <<role, todo>>
         /\ Running /\ Now \in Functions
<1>1. /\ Running /\ Running' /\ todo # <<>> /\ Now \in Functions /\ UNCHANGED <<role, todo>>
      /\ phase = "prepare" /\ phase' \in {"prepare", "send", "receive"}
      /\ ~Has(x) /\ \A y : Has(y)' <=> Has(y) \/ y = x
      /\ x = "entry" => (Does(Now, "ctx") => Has("ctx")) /\ ~Has("event")
      /\ x = "ctx" => ~Has("event") /\ ~Has("entry")
      /\ Does(Now, x)
  BY Prepared
<1>2. Done' = Done /\ Need' = Need
  BY <1>1, NowSame DEF Need
<1>3. x = "event" => role = "server" /\ Done = 1
  <2>1. role = "controller" => ~Does(Now, "event")
    BY <1>1, ControllerReads DEF ListInv
  <2>2. role # "controller" /\ Does(Now, "event") => role = "server" /\ Done = 1
    BY <1>1, HostReads DEF ListInv
  <2> QED BY <1>1, <2>1, <2>2
<1>4. \A y : Has(y) => Does(Now, y)
  BY <1>1, OrderedFunctions DEF Has, Before, Does
<1> DEFINE a == One("ctx")
           b == One("entry")
           c == One("event")
           q == One("ctx")'
           r == One("entry")'
           s == One("event")'
<1>5. /\ a = (IF Has("ctx") THEN 1 ELSE 0) /\ b = (IF Has("entry") THEN 1 ELSE 0)
      /\ c = (IF Has("event") THEN 1 ELSE 0)
      /\ q = (IF Has("ctx")' THEN 1 ELSE 0) /\ r = (IF Has("entry")' THEN 1 ELSE 0)
      /\ s = (IF Has("event")' THEN 1 ELSE 0)
  BY DEF One
<1>6. Holds = a + b + c /\ Holds' = q + r + s
  BY DEF Holds
<1> HIDE DEF a, b, c, q, r, s
<1>7. CASE x = "ctx"
  <2>1. a = 0 /\ b = 0 /\ c = 0 /\ q = 1 /\ r = 0 /\ s = 0
    BY <1>1, <1>5, <1>7
  <2> QED BY <1>1, <1>2, <1>6, <1>7, <2>1
<1>8. CASE x = "entry"
  <2>1. b = 0 /\ c = 0 /\ r = 1 /\ s = 0 /\ q = a /\ a \in {0, 1} /\ (a = 1 => Has("ctx"))
    BY <1>1, <1>5, <1>8
  <2> QED BY <1>1, <1>2, <1>4, <1>6, <1>8, <2>1
<1>9. CASE x = "event"
  <2>1. c = 0 /\ s = 1 /\ q = a /\ r = b /\ a \in {0, 1} /\ b \in {0, 1}
    BY <1>1, <1>5, <1>9
  <2> QED BY <1>1, <1>2, <1>3, <1>6, <1>9, <2>1
<1> QED BY <1>7, <1>8, <1>9

\* What an allocation does to the list: it takes the first of at least two blocks,
\* but in a server.
LEMMA TakeList ==
  ASSUME LinkAll, taken = {}, NEW x \in {"ctx", "entry", "event"}, Prepare(x), Malloc
  PROVE  /\ free = <<>> => free' = <<>> /\ top' = top + 1
         /\ free # <<>> => /\ top' = top /\ Len(free') = Len(free) - 1
                           /\ free' # <<>> => Last(free') = Last(free)
         /\ Done = 0 => free = <<>> /\ top = SendCtx + 1 + Holds
         /\ Done >= 1 => Len(free) + Holds >= Need
         /\ Done >= 1 /\ x # "event" => free # <<>>
         /\ role = "client" /\ Done >= 1 => free' # <<>>
<1>1. /\ Holds \in 0 .. 2 /\ (x # "event" => Holds <= 1)
      /\ x = "event" => role = "server" /\ Done = 1
      /\ x = "entry" /\ Holds = 1 => Has("ctx") /\ Does(Now, "ctx")
      /\ x = "ctx" => Holds = 0
      /\ todo # <<>> /\ phase = "prepare"
  BY TakeHolds DEF LinkAll
<1>2. /\ Done = 0 => free = <<>> /\ top = SendCtx + 1 + Holds
      /\ Done >= 1 => Len(free) + Holds >= Need
  BY <1>1 DEF LinkAll, HeapInv
<1>3. /\ free \in Seq(Nat) /\ Distinct(free) /\ Done \in Nat /\ Len(free) \in Nat
      /\ (free = <<>> <=> Len(free) = 0) /\ Need \in {2, 3}
  BY HeapNumbers, ShapeFacts DEF LinkAll, ListInv
<1>4. free = <<>> => free' = <<>> /\ top' = top + 1
  BY DEF Malloc
<1>5. ASSUME free # <<>>
      PROVE  /\ top' = top /\ Len(free') = Len(free) - 1
             /\ free' # <<>> => Last(free') = Last(free)
  <2>1. top' = top /\ free' = IF Head(free) \in broken THEN <<>> ELSE Tail(free)
    BY <1>5 DEF Malloc, NextBlock
  <2>2. /\ Len(Tail(free)) = Len(free) - 1 /\ Head(free) \in Nat /\ In(Head(free), free)
        /\ \A b : In(b, Tail(free)) <=> In(b, free) /\ b # Head(free)
        /\ Tail(free) # <<>> => Last(Tail(free)) = Last(free)
        /\ Tail(free) \in Seq(Nat)
    BY <1>3, <1>5, Pop
  <2>3. CASE Head(free) \notin broken
    BY <2>1, <2>2, <2>3
  <2>4. CASE Head(free) \in broken
    <3>1. role # "controller"
      BY <2>4 DEF LinkAll, LinkInv
    <3>2. broken \subseteq {Cep} /\ (IsFree(Cep) => Last(free) = Cep)
      BY <1>1, <3>1 DEF LinkAll, LinkInv
    <3>3. Head(free) = Cep /\ IsFree(Cep)
      BY <2>2, <2>4, <3>2, ListFacts
    <3>4. Tail(free) = <<>>
      <4>1. SUFFICES ASSUME Tail(free) # <<>> PROVE FALSE
        OBVIOUS
      <4>2. In(Last(Tail(free)), Tail(free))
        BY <2>2, <4>1, LastIn
      <4> QED BY <2>2, <3>2, <3>3, <4>1, <4>2
    <3>5. free' = Tail(free)
      BY <2>1, <2>4, <3>4
    <3> QED BY <2>1, <2>2, <3>4, <3>5
  <2> QED BY <2>3, <2>4
<1>6. ASSUME Done >= 1, x # "event" PROVE free # <<>>
  <2> DEFINE h == Holds
             l == Len(free)
             k == Need
  <2>1. h \in 0 .. 2 /\ h <= 1 /\ l \in Nat /\ l + h >= k /\ k \in {2, 3}
    BY <1>1, <1>2, <1>3, <1>6
  <2> HIDE DEF h, l, k
  <2>2. l # 0
    BY <2>1
  <2> QED BY <1>3, <2>2 DEF l
<1>7. ASSUME role = "client", Done >= 1 PROVE free' # <<>>
  <2>1. x # "event" /\ free # <<>>
    BY <1>1, <1>6, <1>7
  <2>2. Holds = 1 => Need = 3
    <3>1. ASSUME Holds = 1 PROVE Does(Now, "ctx")
      BY <1>1, <2>1, <3>1
    <3>2. Does(Now, "ctx") => Done >= 3
      BY <1>1, <1>7, HostReads DEF LinkAll, ListInv
    <3> QED BY <1>7, <3>1, <3>2 DEF Need
  <2> DEFINE h == Holds
             l == Len(free)
             m == Len(free')
             k == Need
  <2>3. /\ h \in 0 .. 2 /\ h <= 1 /\ l \in Nat /\ l + h >= k /\ k \in {2, 3}
        /\ (h = 1 => k = 3) /\ m = l - 1
    BY <1>1, <1>2, <1>3, <1>5, <1>7, <2>1, <2>2
  <2> HIDE DEF h, l, k, m
  <2>4. m # 0
    BY <2>3
  <2> QED BY <2>4, EmptyList DEF m
<1> QED BY <1>2, <1>4, <1>5, <1>6, <1>7

LEMMA HeapTake ==
  ASSUME LinkAll, taken = {}, NEW x \in {"ctx", "entry", "event"}, Prepare(x), Malloc
  PROVE  HeapInv'
<1> DEFINE h == Holds
           l == Len(free)
           m == Len(free')
           d == Done
           c == SendCtx
<1>1. /\ Holds' = h + 1 /\ Done' = d /\ Need' = Need /\ h \in 0 .. 2 /\ (x # "event" => h <= 1)
      /\ x = "event" => role = "server" /\ d = 1
      /\ Has("event")' <=> Has("event") \/ x = "event"
      /\ x # "event" => ~Has("event")
      /\ phase = "prepare" /\ phase' # "dead" /\ role' = role
  BY TakeHolds DEF LinkAll
<1>2. /\ free = <<>> => free' = <<>> /\ top' = top + 1
      /\ free # <<>> => top' = top /\ m = l - 1
      /\ d = 0 => free = <<>> /\ top = c + 1 + h
      /\ d >= 1 => l + h >= Need
      /\ d >= 1 /\ x # "event" => free # <<>>
  BY TakeList
<1>3. /\ top \in Nat /\ c \in Nat /\ SendCtx' = c /\ d \in Nat /\ l \in Nat
      /\ (free = <<>> <=> l = 0) /\ Need \in {2, 3}
  BY HeapNumbers DEF LinkAll
<1>4. free' = <<>> => m = 0
  BY EmptyList
<1>5. top <= c + 3 /\ (role = "server" /\ d = 1 /\ ~Has("event") => top <= c + 2)
  BY <1>1 DEF LinkAll, HeapInv
<1>6. x = "event" => ~Has("event")
  BY Prepared DEF LinkAll
<1> HIDE DEF h, l, m, d, c
<1>7. top' <= c + 3
  <2>1. CASE free # <<>>
    BY <1>2, <1>5, <2>1
  <2>2. CASE free = <<>> /\ d = 0
    <3>1. h <= 1
      BY <1>1, <2>2
    <3> QED BY <1>1, <1>2, <1>3, <2>2, <3>1
  <2>3. CASE free = <<>> /\ d # 0
    <3>1. x = "event"
      BY <1>2, <1>3, <2>3
    <3>2. top <= c + 2
      BY <1>1, <1>5, <1>6, <3>1
    <3> QED BY <1>2, <1>3, <2>3, <3>2
  <2> QED BY <2>1, <2>2, <2>3
<1>8. d = 0 => free' = <<>> /\ top' = c + 1 + (h + 1)
  BY <1>1, <1>2, <1>3
<1>9. d >= 1 => m + (h + 1) >= Need
  <2>1. CASE free # <<>>
    BY <1>1, <1>2, <1>3, <2>1
  <2>2. CASE free = <<>>
    BY <1>1, <1>2, <1>3, <1>4, <2>2
  <2> QED BY <2>1, <2>2
<1>10. role = "server" /\ d = 1 /\ ~Has("event")' => top' <= c + 2
  <2>1. ASSUME role = "server", d = 1, ~Has("event")' PROVE top' <= c + 2
    <3>1. x # "event" /\ ~Has("event") /\ free # <<>>
      BY <1>1, <1>2, <2>1
    <3> QED BY <1>2, <1>5, <2>1, <3>1
  <2> QED BY <2>1
<1> QED BY <1>1, <1>3, <1>7, <1>8, <1>9, <1>10 DEF HeapInv, h, m, d, c

LEMMA HeapEnd ==
  ASSUME ListInv, HeapInv, taken = {}, End
  PROVE  HeapInv'
<1> DEFINE h == Holds
           l == Len(free)
           m == Len(free')
           d == Done
           c == SendCtx
<1>1. /\ Busy /\ Running /\ todo # <<>> /\ todo' = Tail(todo) /\ phase' = "idle" /\ role' = role
      /\ top' = top /\ taken' = taken /\ Has("entry") /\ \A x : Has(x) <=> Does(Now, x)
  BY EndFacts
<1>2. Done' = d + 1
  BY <1>1, TodoTail DEF ListInv
<1>3. \A x : ~Has(x)'
  BY <1>1 DEF Has, Running
<1>4. Holds' = 0
  BY <1>3, HoldsNone
<1>5. /\ m = l + (IF Has("event") THEN 3 ELSE IF Has("ctx") \/ Now.reads THEN 2 ELSE 1)
      /\ Has("event") => Has("ctx")
      /\ free' # <<>>
  BY EndList
<1>6. /\ top \in Nat /\ c \in Nat /\ SendCtx' = c /\ d \in Nat /\ l \in Nat
      /\ (free = <<>> <=> l = 0) /\ Need \in {2, 3}
  BY HeapNumbers
<1>7. /\ top <= c + 3
      /\ d = 0 => free = <<>> /\ top = c + 1 + h
      /\ d >= 1 => l + h >= Need
  BY <1>1 DEF HeapInv, Busy
<1>8. h = (IF Has("ctx") THEN 1 ELSE 0) + 1 + (IF Has("event") THEN 1 ELSE 0)
  BY <1>1 DEF Holds, One
<1>9. /\ d = 0 => Has("ctx") \/ Now.reads
      /\ role # "controller" /\ d = 0 => ~Has("ctx") /\ ~Has("event")
      /\ role = "client" /\ d = 2 => Now.reads /\ ~Has("ctx")
  <2>1. CASE role = "controller"
    BY <1>1, <2>1, ControllerReads DEF ListInv
  <2>2. CASE role # "controller"
    <3>1. /\ d = 0 => Now.reads
          /\ role = "client" /\ d = 2 => Now.reads
          /\ Does(Now, "ctx") => d >= 1 /\ ~Now.reads
          /\ Does(Now, "event") => Does(Now, "ctx")
      BY <1>1, <2>2, HostReads DEF ListInv
    <3>2. d = 0 => ~(d >= 1)
      OBVIOUS
    <3> QED BY <1>1, <2>2, <3>1, <3>2
  <2> QED BY <2>1, <2>2
<1>10. Need = (IF role = "client" /\ d >= 3 THEN 3 ELSE 2)
       /\ Need' = (IF role = "client" /\ d + 1 >= 3 THEN 3 ELSE 2)
  BY <1>1, <1>2 DEF Need
<1> HIDE DEF h, l, m, d, c
<1>11. m >= Need'
  <2>1. CASE Has("event")
    BY <1>5, <1>6, <1>10, <2>1
  <2>2. CASE ~Has("event") /\ (Has("ctx") \/ Now.reads)
    <3>1. m = l + 2
      BY <1>5, <2>2
    <3>2. CASE role = "client" /\ d >= 3
      BY <1>6, <1>7, <1>8, <1>10, <2>2, <3>1, <3>2
    <3>3. CASE role = "client" /\ d = 2
      <4>1. h = 1 /\ Need = 2
        BY <1>8, <1>9, <1>10, <2>2, <3>3
      <4> QED BY <1>6, <1>7, <1>10, <3>1, <3>3, <4>1
    <3>4. CASE ~(role = "client" /\ d >= 2)
      <4>1. Need' = 2
        BY <1>6, <1>10, <3>4
      <4> QED BY <1>6, <3>1, <4>1
    <3> QED BY <1>6, <3>2, <3>3, <3>4
  <2>3. CASE ~Has("event") /\ ~Has("ctx") /\ ~Now.reads
    <3>1. m = l + 1 /\ h = 1 /\ d # 0 /\ ~(role = "client" /\ d = 2)
      BY <1>5, <1>8, <1>9, <2>3
    <3>2. Need' = Need /\ l + h >= Need
      BY <1>6, <1>7, <1>10, <3>1
    <3> QED BY <3>1, <3>2
  <2> QED BY <2>1, <2>2, <2>3
<1>12. role = "server" /\ d + 1 = 1 => top <= c + 2
  <2>1. ASSUME role = "server", d + 1 = 1 PROVE top <= c + 2
    <3>1. d = 0
      BY <1>6, <2>1
    <3>2. h = 1
      BY <1>8, <1>9, <2>1, <3>1
    <3> QED BY <1>6, <1>7, <3>1, <3>2
  <2> QED BY <2>1
<1>13. d + 1 # 0
  BY <1>6
<1>14. m \in Nat /\ m + 0 >= Need'
  <2>1. m \in Nat
    BY <1>5, <1>6
  <2>2. m + 0 = m
    BY <2>1
  <2> QED BY <1>11, <2>1, <2>2
<1> QED BY <1>1, <1>2, <1>4, <1>6, <1>7, <1>12, <1>13, <1>14 DEF HeapInv, m, c

\* A step that leaves the list alone.
LEMMA HeapKeep ==
  ASSUME HeapInv, UNCHANGED <<role, todo, free, top, taken>>, phase' = "dead" \/ phase # "dead",
         phase' = "dead" \/ \A x \in {"ctx", "entry", "event"} : Has(x)' <=> Has(x)
  PROVE  HeapInv'
<1>1. CASE phase' = "dead"
  BY <1>1 DEF HeapInv, SendCtx
<1>2. CASE phase' # "dead"
  <2>1. /\ Holds' = Holds /\ Need' = Need /\ Done' = Done /\ phase # "dead"
        /\ Has("event")' <=> Has("event")
    BY <1>2, HoldsSame
  <2> QED BY <2>1 DEF HeapInv, SendCtx
<1> QED BY <1>1, <1>2

LEMMA HeapNext == LinkAll /\ [Next]_vars => HeapInv'
<1> SUFFICES ASSUME LinkAll, [Next]_vars, taken' = {} PROVE HeapInv'
  BY DEF HeapInv
<1> USE DEF LinkAll
<1>1. CASE OtherMalloc
  BY <1>1 DEF OtherMalloc
<1>2. ASSUME UNCHANGED <<role, todo, step, free, top, taken>>, Running, Running' PROVE HeapInv'
  <2>1. \A x : Has(x)' <=> Has(x)
    BY <1>2, HasSame
  <2> QED BY <1>2, <2>1, HeapKeep DEF Running
<1>3. CASE ReapSends \/ ReapWrite \/ ReapReceive \/ PostAgain
  <2>1. UNCHANGED <<role, todo, step, free, top, taken>> /\ Running /\ Running'
    BY <1>3 DEF ReapSends, ReapWrite, ReapReceive, PostAgain, CtrlRecv, Running, heapVars
  <2> QED BY <1>2, <2>1
<1>4. CASE OtherWrites \/ UNCHANGED vars
  <2>1. UNCHANGED <<role, todo, phase, step, free, top, taken>>
    BY <1>4 DEF OtherWrites, vars, heapVars
  <2>2. \A x : Has(x)' <=> Has(x)
    BY <2>1, HasSame DEF Running
  <2> QED BY <2>1, <2>2, HeapKeep
<1>5. CASE Stray
  BY <1>5, HeapKeep DEF Stray, heapVars
<1>6. CASE Begin
  <2>1. /\ phase = "idle" /\ phase' = "prepare" /\ step' = 1
        /\ UNCHANGED <<role, todo, free, top, taken>> /\ todo # <<>>
    BY <1>6 DEF Begin, heapVars
  <2>2. \A x : ~Has(x)
    BY <2>1 DEF Has, Running
  <2>3. Now \in Functions /\ Now' = Now
    BY <2>1, NowFacts, NowSame DEF ListInv
  <2>4. \A x : ~Has(x)'
    <3>1. Len(Now.prepares) \in Nat /\ DOMAIN Now.prepares = 1 .. Len(Now.prepares)
      BY <2>3, OrderedFunctions DEF Ordered
    <3>2. \A j \in 1 .. Len(Now.prepares) : ~(j < 1)
      BY <3>1
    <3> QED BY <2>1, <2>3, <3>1, <3>2 DEF Has, Before
  <2> QED BY <2>1, <2>2, <2>4, HeapKeep
<1>7. CASE Post
  <2>1. Prepare("post") /\ UNCHANGED <<free, top>>
    BY <1>7 DEF Post, CtrlRecv
  <2>2. /\ UNCHANGED <<role, todo, taken>> /\ phase = "prepare"
        /\ \A y : Has(y)' <=> Has(y) \/ y = "post"
    BY <2>1, Prepared
  <2> QED BY <2>1, <2>2, HeapKeep
<1>8. CASE TakeCtx \/ TakeEntry \/ TakeEvent
  <2>1. PICK x \in {"ctx", "entry", "event"} : Prepare(x) /\ Malloc
    BY <1>8 DEF TakeCtx, TakeEntry, TakeEvent
  <2>2. taken = {}
    BY <2>1, Prepared
  <2> QED BY <2>1, <2>2, HeapTake
<1>9. CASE End
  <2>1. taken = {}
    BY <1>9 DEF End
  <2> QED BY <1>9, <2>1, HeapEnd
<1> QED BY <1>1, <1>3, <1>4, <1>5, <1>6, <1>7, <1>8, <1>9 DEF Next

-----------------------------------------------------------------------------
(* Which link is overwritten. *)

LEMMA LinkTake ==
  ASSUME LinkAll, taken = {}, NEW x \in {"ctx", "entry", "event"}, Prepare(x), Malloc
  PROVE  LinkInv'
<1> USE DEF LinkAll
<1>1. PICK n : n = NextBlock
  OBVIOUS
<1>2. /\ todo # <<>> /\ UNCHANGED <<role, todo>> /\ phase' # "dead" /\ Done' = Done /\ Cep' = Cep
      /\ Done \in Nat
  BY TakeHolds, HeapNumbers DEF Cep
<1>3. broken' = broken \ {n} /\ (loose' <=> n \in broken)
  BY <1>1 DEF Malloc
<1>4. CASE role = "controller"
  BY <1>2, <1>3, <1>4 DEF LinkInv
<1>5. CASE role # "controller"
  <2>1. broken \subseteq {Cep} /\ (IsFree(Cep) => Last(free) = Cep)
    BY <1>2, <1>5 DEF LinkInv
  <2>2. Done = 0 => broken = {} /\ free = <<>> /\ free' = <<>>
    BY TakeList DEF LinkInv
  <2>3. /\ free # <<>> /\ free' # <<>> => Last(free') = Last(free)
        /\ free = <<>> => free' = <<>>
        /\ role = "client" /\ Done >= 1 => free' # <<>>
    BY TakeList
  <2>4. /\ \A b : (IsFree(b) <=> In(b, free)) /\ (IsFree(b)' <=> In(b, free'))
        /\ \A b : IsFree(b)' => IsFree(b)
        /\ \A b : b = n => ~IsFree(b)'
        /\ free' \in Seq(Nat)
    BY <1>1, ListFacts, Alloc DEF ListInv, Shape
  <2>5. PICK b : b = Cep
    OBVIOUS
  <2>6. (IsFree(Cep)' <=> IsFree(b)') /\ (IsFree(Cep) <=> IsFree(b))
    BY <2>5 DEF IsFree, Cep
  <2>7. ASSUME IsFree(b)' PROVE Last(free') = b
    <3>1. free' # <<>>
      BY <2>4, <2>7, EmptyList
    <3>2. IsFree(b)
      BY <2>4, <2>7
    <3> QED BY <2>1, <2>3, <2>5, <2>6, <3>1, <3>2
  <2>8. ASSUME role = "client", Done >= 1 PROVE IsFree(b)' /\ n # b
    <3>1. IsFree(b) /\ Last(free) = b
      BY <2>1, <2>5, <2>6, <2>8 DEF LinkInv
    <3>2. free' # <<>> /\ Last(free') = b
      BY <2>3, <2>8, <3>1
    <3>3. IsFree(b)'
      BY <2>4, <3>2, LastIn
    <3> QED BY <2>4, <3>3
  <2>9. role = "client" => ~loose'
    <3>1. CASE Done = 0
      BY <1>3, <2>2, <3>1
    <3>2. CASE Done # 0
      BY <1>2, <1>3, <2>1, <2>5, <2>8, <3>2
    <3> QED BY <3>1, <3>2
  <2>10. role \in {"client", "server"}
    BY <1>5 DEF ListInv, TodoInv
  <2>11. Done = 0 => broken' = {} /\ ~loose'
    BY <1>3, <2>2
  <2>12. broken' \subseteq {Cep}
    BY <1>3, <2>1
  <2> QED BY <1>2, <1>5, <2>5, <2>6, <2>7, <2>8, <2>9, <2>10, <2>11, <2>12 DEF LinkInv
<1> QED BY <1>4, <1>5

\* Receives are posted: only a host does so on a context that is free, the one of the
\* endpoint to the controller.
LEMMA LinkPost ==
  ASSUME LinkAll, taken = {}, todo # <<>>, UNCHANGED <<role, todo, free, loose>>, phase' # "dead",
         broken' = broken \cup {b \in Now.posts : IsFree(b)},
         role = "controller" => Now.posts = {} \/ Has("ctx")
  PROVE  LinkInv'
<1> USE DEF LinkAll
<1>1. /\ Now \in Functions /\ Now.posts \subseteq 0 .. Cep /\ Done' = Done /\ Cep' = Cep
      /\ (IsFree(Cep)' <=> IsFree(Cep)) /\ Done \in Nat
  BY NowFacts, FunctionFacts, NowSame, HeapNumbers DEF ListInv, Cep, IsFree
<1>2. CASE role = "controller"
  <2>1. \A b \in Now.posts : ~IsFree(b)
    BY <1>1, <1>2 DEF ListInv, Order
  <2>2. broken' = {}
    BY <1>2, <2>1 DEF LinkInv
  <2> QED BY <1>1, <1>2, <2>2 DEF LinkInv
<1>3. CASE role # "controller"
  <2>1. ASSUME NEW b \in Now.posts, IsFree(b) PROVE b = Cep /\ Done # 0
    <3>1. Past(b)
      BY <1>1, <1>3, <2>1 DEF ListInv, Order
    <3>2. ~Now.reads
      BY <1>3, <2>1, <3>1, HostReads DEF ListInv
    <3> QED BY <1>3, <2>1, <3>2, HostReads DEF ListInv
  <2>2. broken' \subseteq broken \cup {Cep} /\ (Done = 0 => broken' = broken)
    BY <2>1
  <2>3. broken \subseteq {Cep}
    BY <1>3 DEF LinkInv
  <2> QED BY <1>1, <1>3, <2>2, <2>3 DEF LinkInv
<1> QED BY <1>2, <1>3

\* What a function frees comes before the block whose link was overwritten.
LEMMA LinkEnd ==
  ASSUME LinkAll, taken = {}, End
  PROVE  LinkInv'
<1> USE DEF LinkAll
<1>1. /\ Busy /\ Running /\ todo # <<>> /\ todo' = Tail(todo) /\ phase' = "idle" /\ role' = role
      /\ \A x : Has(x) <=> Does(Now, x)
      /\ Now.reads /\ ~Has("ctx") => ctx \in Now.posts
  BY EndFacts
<1>2. Done' = Done + 1 /\ (Len(todo) = 1 => todo' = <<>>) /\ Done \in Nat /\ Cep' = Cep
  BY <1>1, TodoTail, HeapNumbers DEF ListInv, Cep
<1>3. ~loose => broken' = broken /\ ~loose'
  BY DEF End
<1>4. Done' >= 1 /\ Done' # 0
  <2> DEFINE d == Done
             e == Done'
  <2>1. d \in Nat /\ e = d + 1
    BY <1>2
  <2> HIDE DEF d, e
  <2>2. e >= 1 /\ e # 0
    BY <2>1
  <2> QED BY <2>2 DEF e
<1>5. CASE role = "controller"
  BY <1>1, <1>3, <1>5 DEF LinkInv
<1>6. CASE role = "server" /\ Done # 0
  <2>1. todo' = <<>>
    BY <1>1, <1>2, <1>6, NowFacts DEF ListInv
  <2> QED BY <1>1, <1>4, <1>6, <2>1 DEF LinkInv
<1>7. CASE role = "client" \/ (role = "server" /\ Done = 0)
  <2>1. PICK b : b = Cep
    OBVIOUS
  <2>2. (IsFree(Cep)' <=> IsFree(b)') /\ (IsFree(Cep) <=> IsFree(b))
    BY <2>1 DEF IsFree, Cep
  <2>3. ~loose /\ broken \subseteq {Cep}
    BY <1>1, <1>7 DEF LinkInv
  <2>4. CASE Done = 0
    <3>1. ~Has("ctx") /\ ctx = b /\ Now.reads
      <4>1. Now.reads /\ Now.posts = {Cep} /\ ~Does(Now, "ctx")
        BY <1>1, <1>7, <2>4, HostReads DEF ListInv
      <4> QED BY <1>1, <2>1, <4>1
    <3>2. free = <<>>
      BY <1>1, <2>4 DEF HeapInv, Busy
    <3>3. IsFree(b)' /\ Last(free') = b
      BY <3>1, <3>2, EndList
    <3> QED BY <1>1, <1>3, <1>4, <1>7, <2>1, <2>2, <2>3, <3>3 DEF LinkInv
  <2>5. CASE Done # 0 /\ role = "client"
    <3>1. IsFree(b) /\ Last(free) = b
      BY <1>1, <1>2, <2>1, <2>2, <2>5 DEF LinkInv
    <3>2. free # <<>>
      BY <3>1, EmptyList, ListFacts
    <3>3. IsFree(b)' /\ Last(free') = b
      BY <3>1, <3>2, EndList
    <3> QED BY <1>1, <1>3, <1>4, <1>7, <2>1, <2>2, <2>3, <2>5, <3>3 DEF LinkInv
  <2> QED BY <1>7, <2>4, <2>5
<1> QED BY <1>5, <1>6, <1>7 DEF ListInv, TodoInv

LEMMA LinkKeep ==
  ASSUME LinkInv, UNCHANGED <<role, todo, free, broken, loose, taken>>,
         phase' # "dead" \/ phase' = phase \/ loose
  PROVE  LinkInv'
<1>1. Done' = Done /\ Cep' = Cep /\ (IsFree(Cep)' <=> IsFree(Cep))
  BY NowSame DEF Cep, IsFree
<1> QED BY <1>1 DEF LinkInv

LEMMA LinkNext == LinkAll /\ [Next]_vars => LinkInv'
<1> SUFFICES ASSUME LinkAll, [Next]_vars, taken' = {} PROVE LinkInv'
  BY DEF LinkInv
<1> USE DEF LinkAll
<1>1. CASE OtherMalloc
  BY <1>1 DEF OtherMalloc
<1>2. CASE Begin
  BY <1>2, LinkKeep DEF Begin, heapVars
<1>3. CASE TakeCtx \/ TakeEntry \/ TakeEvent
  <2>1. PICK x \in {"ctx", "entry", "event"} : Prepare(x) /\ Malloc
    BY <1>3 DEF TakeCtx, TakeEntry, TakeEvent
  <2>2. taken = {}
    BY <2>1, Prepared
  <2> QED BY <2>1, <2>2, LinkTake
<1>4. CASE Post
  <2>1. /\ Prepare("post") /\ UNCHANGED <<free, loose>>
        /\ broken' = broken \cup {b \in Now.posts : IsFree(b)}
    BY <1>4 DEF Post, CtrlRecv, Now
  <2>2. /\ todo # <<>> /\ UNCHANGED <<role, todo, taken>> /\ phase' # "dead"
        /\ Now.reads /\ Does(Now, "ctx") => Has("ctx")
    BY <2>1, Prepared
  <2>3. role = "controller" => Now.posts = {} \/ Has("ctx")
    BY <2>2, ControllerReads DEF ListInv
  <2> QED BY <2>1, <2>2, <2>3, LinkPost
<1>5. CASE Stray
  BY <1>5, LinkKeep DEF Stray, heapVars
<1>6. CASE ReapSends \/ ReapWrite \/ ReapReceive
  <2>1. UNCHANGED <<role, todo, free, broken, loose, taken>> /\ phase' # "dead"
    BY <1>6 DEF ReapSends, ReapWrite, ReapReceive, heapVars
  <2> QED BY <2>1, LinkKeep
<1>7. CASE PostAgain
  <2>1. /\ phase = "receive" /\ InBenchmark /\ UNCHANGED <<role, todo, phase, free, loose, taken>>
        /\ broken' = broken \cup {b \in {Cep} : IsFree(b)}
    BY <1>7 DEF PostAgain, CtrlRecv
  <2>2. todo # <<>>
    BY <2>1 DEF ListInv, Steps, Running
  <2>3. Now.posts = {Cep} /\ role = "client"
    BY <2>1, <2>2, BenchmarkLast DEF ListInv
  <2>4. broken' = broken \cup {b \in Now.posts : IsFree(b)}
    BY <2>1, <2>3
  <2> QED BY <2>1, <2>2, <2>3, <2>4, LinkPost
<1>8. CASE End
  <2>1. taken = {}
    BY <1>8 DEF End
  <2> QED BY <1>8, <2>1, LinkEnd
<1>9. CASE OtherWrites \/ UNCHANGED vars
  <2>1. UNCHANGED <<role, todo, phase, free, broken, loose, taken>>
    BY <1>9 DEF OtherWrites, vars, heapVars
  <2> QED BY <2>1, LinkKeep
<1> QED BY <1>1, <1>2, <1>3, <1>4, <1>5, <1>6, <1>7, <1>8, <1>9 DEF Next

LEMMA LinkHolds == Spec => []LinkAll
<1>1. Init => LinkAll
  BY ListInit, HeapInit DEF LinkAll
<1>2. LinkAll /\ [Next]_vars => LinkAll'
  BY ListNext, HeapNext, LinkNext DEF LinkAll
<1> QED BY <1>1, <1>2, PTL DEF Spec

\* A process allocates two blocks besides the contexts it was built with, however many
\* rounds it serves and endpoints it has: what a function drops is made up for by the
\* context it frees instead.
THEOREM HeapStaysSmall == Spec => []HeapBounded
<1>1. LinkAll => HeapBounded
  BY DEF LinkAll, HeapInv, HeapBounded
<1> QED BY <1>1, LinkHolds, PTL

\* A client posts its context to the controller while it is free, and so overwrites the
\* link of a block of the list; for every number of endpoints and rounds that block is
\* the last of the list and stays there, so that neither the client nor the controller
\* follows a link that was overwritten.
THEOREM LinksAreIntact == Spec => []LinksFollowed
<1>1. LinkAll => LinksFollowed
  BY DEF LinkAll, LinkInv, LinksFollowed
<1> QED BY <1>1, LinkHolds, PTL

=============================================================================
