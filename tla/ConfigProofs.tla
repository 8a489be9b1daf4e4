---------------------------- MODULE ConfigProofs ----------------------------
(***************************************************************************)
(* What the files of a process mean, for files of every length, every set  *)
(* of values, and a size_t of any size that holds the sizes of the code.   *)
(*                                                                         *)
(* LastWins and ServersInOrder speak of files that were read to their end. *)
(* Neither is inductive: ReadInv and ListInv say the same of the lines     *)
(* read so far, with the line that won (or that there is none) and the     *)
(* number of addresses.  ClientsCanDial then needs what a comparison with  *)
(* a size_t says of an int that may be negative, which is where the size   *)
(* of a size_t comes in (SizeOf, SizeOfNegative).                          *)
(***************************************************************************)
EXTENDS Config, FiniteSetTheorems, TLAPS

-----------------------------------------------------------------------------
(* Sizes. *)

\* A number that a size_t holds is not changed by becoming one.
LEMMA SizeOf == ASSUME NEW n \in 0 .. SizeMax PROVE SizeT(n) = n
  BY ConfigAssumption, SMT DEF SizeT

\* A negative number becomes a large one.
LEMMA SizeOfNegative == ASSUME NEW n \in 1 .. SizeMax PROVE SizeT(-n) = SizeMax + 1 - n
  BY ConfigAssumption, SMT DEF SizeT

\* The values num_en and num_pn can have.
Settings == Values \cup {DefaultSize, -1}

\* Node::init takes a list for long enough only when it is.
LEMMA EnoughOf ==
  ASSUME NEW v \in Settings, Len(addr_v) \in 0 .. MaxList, Enough(v)
  PROVE  v \in Nat /\ v <= Len(addr_v)
<1>1. v \in Int /\ SizeMax \in Nat /\ MaxList < SizeMax /\ MaxList \in Nat
  BY ConfigAssumption DEF Settings, DefaultSize
<1>2. SizeT(v) <= Len(addr_v)
  BY DEF Enough
<1>3. CASE v >= 0
  <2>1. v \in Values \cup {DefaultSize}
    BY <1>3 DEF Settings, DefaultSize
  <2>2. v \in 0 .. SizeMax
    BY <1>1, <1>3, <2>1, ConfigAssumption
  <2> QED
    BY <1>2, <1>3, <2>2, SizeOf
<1>4. CASE v < 0
  <2>1. v = -1
    BY <1>4, ConfigAssumption DEF Settings, DefaultSize
  <2>2. 1 \in 1 .. SizeMax
    BY <1>1
  <2>3. SizeT(-1) = SizeMax + 1 - 1
    BY <2>2, SizeOfNegative
  <2> QED
    BY <1>1, <1>2, <2>1, <2>3
<1> QED
  BY <1>1, <1>3, <1>4

-----------------------------------------------------------------------------
(* Lines and types. *)

\* A line of the conf file: only assignments have a value that counts.
LEMMA LineTypes ==
  ASSUME NEW l \in ConfLine
  PROVE  /\ l.kind \in {"set", "comment", "junk", "other"}
         /\ l.key \in Keys
         /\ l.kind = "set" => l.val \in Settings
  BY DEF ConfLine, Keys, Settings

LEMMA ListTypes ==
  ASSUME NEW l \in ListLine
  PROVE  l.kind \in {"comment", "address"} /\ l.text \in Addresses \cup {"blank"}
  BY DEF ListLine

Modes  == {"client", "server", "controller"}
Points == {"conf", "list", "main", "init", "ready", "failed", "aborted"}

TypeInv ==
  /\ conf \in Seq(ConfLine)
  /\ list \in Seq(ListLine) /\ Len(list) <= MaxList
  /\ role \in Modes
  /\ pc \in Points
  /\ line \in Nat
  /\ pc = "conf" => line <= Len(conf)
  /\ pc = "list" => line <= Len(list)
  /\ config \in [Keys -> Settings]
  /\ addr_v \in Seq(Addresses \cup {"blank"})

LEMMA BoundedIsSeq ==
  ASSUME NEW S, NEW n \in Nat, NEW s \in BoundedSeq(S, n)
  PROVE  s \in Seq(S) /\ Len(s) \in 0 .. n
<1>1. PICK m \in 0 .. n : s \in [1 .. m -> S]
  BY DEF BoundedSeq, SeqOf
<1> QED
  BY <1>1

LEMMA TypeInit == Init => TypeInv
<1> SUFFICES ASSUME Init PROVE TypeInv
  OBVIOUS
<1>1. conf \in Seq(ConfLine) /\ list \in Seq(ListLine) /\ Len(list) <= MaxList
  <2>1. MaxConf \in Nat /\ MaxList \in Nat
    BY ConfigAssumption
  <2>2. conf \in BoundedSeq(ConfLine, MaxConf) /\ list \in BoundedSeq(ListLine, MaxList)
    BY DEF Init
  <2>3. conf \in Seq(ConfLine)
    BY <2>1, <2>2, BoundedIsSeq, Zenon
  <2>4. list \in Seq(ListLine) /\ Len(list) \in 0 .. MaxList
    BY <2>1, <2>2, BoundedIsSeq, Zenon
  <2> QED
    BY <2>1, <2>3, <2>4
<1> QED
  BY <1>1 DEF Init, TypeInv, Modes, Points, Default, Settings
LEMMA TypeStep == ASSUME TypeInv, [Next]_vars PROVE TypeInv'
<1> USE DEF TypeInv, Points
<1>1. CASE ReadConf
  <2> DEFINE l == conf[line + 1]
  <2>1. line + 1 \in 1 .. Len(conf) /\ l \in ConfLine
    BY <1>1 DEF ReadConf
  <2>2. l.kind \in {"set", "comment", "junk", "other"} /\ l.key \in Keys
        /\ (l.kind = "set" => l.val \in Settings)
    BY <2>1, LineTypes
  <2>3. config' \in [Keys -> Settings]
    BY <1>1, <2>2 DEF ReadConf, Skipped
  <2>4. pc' \in {"conf", "aborted"}
    BY <1>1 DEF ReadConf
  <2> QED
    BY <1>1, <2>1, <2>3, <2>4 DEF ReadConf
<1>2. CASE EndOfConf
  BY <1>2 DEF EndOfConf
<1>3. CASE ReadList
  <2>1. line + 1 \in 1 .. Len(list) /\ list[line + 1] \in ListLine
    BY <1>3 DEF ReadList
  <2>2. list[line + 1].text \in Addresses \cup {"blank"}
    BY <2>1, ListTypes
  <2>3. addr_v' \in Seq(Addresses \cup {"blank"})
    BY <1>3, <2>2 DEF ReadList
  <2> QED
    BY <1>3, <2>1, <2>3 DEF ReadList
<1>4. CASE EndOfList
  BY <1>4 DEF EndOfList
<1>5. CASE CheckSize
  BY <1>5 DEF CheckSize
<1>6. CASE NodeInit
  BY <1>6 DEF NodeInit
<1>7. CASE UNCHANGED vars
  BY <1>7 DEF vars
<1> QED
  BY <1>1, <1>2, <1>3, <1>4, <1>5, <1>6, <1>7 DEF Next

-----------------------------------------------------------------------------
(* The conf file. *)

Sets(n, k) == conf[n].kind = "set" /\ conf[n].key = k

\* The lines 1 .. p give the value v to the key k, the last of them that sets it.
Gives(p, k, v) ==
  \/ v = DefaultSize /\ \A n \in 1 .. p : ~Sets(n, k)
  \/ \E n \in 1 .. p : /\ Sets(n, k) /\ v = conf[n].val
                       /\ \A m \in n + 1 .. p : ~Sets(m, k)

ConfRead == IF pc = "conf" THEN line ELSE Len(conf)

\* What LastWins says of a whole file holds of the lines read so far.
ReadInv == pc # "aborted" => \A k \in Keys : Gives(ConfRead, k, config[k])

LEMMA ReadInit == Init => ReadInv
  BY DEF Init, ReadInv, Gives, ConfRead, Default

\* A line that sets a key is the last one so far; another does not count for it.
LEMMA GivesNext ==
  ASSUME NEW p \in Nat, NEW k, NEW v, Gives(p, k, v)
  PROVE  /\ ~Sets(p + 1, k) => Gives(p + 1, k, v)
         /\ Sets(p + 1, k) => Gives(p + 1, k, conf[p + 1].val)
<1>1. ASSUME Sets(p + 1, k) PROVE Gives(p + 1, k, conf[p + 1].val)
  BY <1>1 DEF Gives
<1>2. ASSUME ~Sets(p + 1, k) PROVE Gives(p + 1, k, v)
  <2>1. \A n \in 1 .. p + 1 : n \in 1 .. p \/ n = p + 1
    OBVIOUS
  <2>2. CASE v = DefaultSize /\ \A n \in 1 .. p : ~Sets(n, k)
    BY <1>2, <2>1, <2>2 DEF Gives
  <2>3. CASE \E n \in 1 .. p : /\ Sets(n, k) /\ v = conf[n].val
                               /\ \A m \in n + 1 .. p : ~Sets(m, k)
    <3>1. PICK n \in 1 .. p : /\ Sets(n, k) /\ v = conf[n].val
                              /\ \A m \in n + 1 .. p : ~Sets(m, k)
      BY <2>3
    <3>2. \A m \in n + 1 .. p + 1 : m \in n + 1 .. p \/ m = p + 1
      OBVIOUS
    <3>3. \A m \in n + 1 .. p + 1 : ~Sets(m, k)
      BY <1>2, <3>1, <3>2
    <3> QED
      BY <3>1, <3>3 DEF Gives
  <2> QED
    BY <2>2, <2>3 DEF Gives
<1> QED
  BY <1>1, <1>2

LEMMA ReadStep == ASSUME TypeInv, ReadInv, [Next]_vars PROVE ReadInv'
<1>1. CASE ReadConf
  <2> SUFFICES ASSUME pc' # "aborted", NEW k \in Keys
               PROVE  Gives(line + 1, k, config'[k])
    BY <1>1 DEF ReadInv, ReadConf, Gives, Sets, ConfRead
  <2> DEFINE l == conf[line + 1]
  <2>1. pc = "conf" /\ line \in Nat /\ config \in [Keys -> Settings]
    BY <1>1 DEF ReadConf, TypeInv
  <2>2. Gives(line, k, config[k])
    BY <2>1 DEF ReadInv, ConfRead
  <2>3. l \in ConfLine
    BY <1>1 DEF ReadConf, TypeInv
  <2>4. l.kind \in {"set", "comment", "junk", "other"} /\ l.key \in Keys
    BY <2>3, LineTypes
  <2>5. CASE Sets(line + 1, k)
    <3>1. config'[k] = l.val
      BY <1>1, <2>1, <2>4, <2>5 DEF ReadConf, Skipped, Sets
    <3> QED
      BY <2>1, <2>2, <2>5, <3>1, GivesNext
  <2>6. CASE ~Sets(line + 1, k)
    <3>1. config'[k] = config[k]
      BY <1>1, <2>1, <2>4, <2>6 DEF ReadConf, Skipped, Sets
    <3> QED
      BY <2>1, <2>2, <2>6, <3>1, GivesNext
  <2> QED
    BY <2>5, <2>6
<1>2. CASE EndOfConf
  BY <1>2 DEF EndOfConf, ReadInv, ConfRead, Gives, Sets
<1>3. CASE ReadList \/ EndOfList \/ CheckSize \/ NodeInit
  <2>1. pc \notin {"conf", "aborted"} /\ pc' # "conf" /\ UNCHANGED <<conf, config>>
    BY <1>3 DEF ReadList, EndOfList, CheckSize, NodeInit
  <2> QED
    BY <2>1 DEF ReadInv, ConfRead, Gives, Sets
<1>4. CASE UNCHANGED vars
  BY <1>4 DEF vars, ReadInv, ConfRead, Gives, Sets
<1> QED
  BY <1>1, <1>2, <1>3, <1>4 DEF Next

\* The invariant gives LastWins: the line that won is the one that Reading chooses.
LEMMA ReadGivesLastWins == ASSUME TypeInv, ReadInv PROVE LastWins
<1> SUFFICES ASSUME pc \in {"list", "main", "init", "ready"}, NEW k \in Keys
             PROVE  config[k] = Reading(conf, k)
  BY DEF LastWins
<1>1. Gives(Len(conf), k, config[k])
  BY DEF ReadInv, ConfRead
<1>2. Len(conf) \in Nat /\ DOMAIN conf = 1 .. Len(conf)
  BY DEF TypeInv
<1>3. Assigned(conf, k) = {n \in 1 .. Len(conf) : Sets(n, k)}
  BY <1>2 DEF Assigned, Sets
<1>4. CASE Assigned(conf, k) = {}
  <2>1. config[k] = DefaultSize
    BY <1>1, <1>3, <1>4 DEF Gives
  <2> QED
    BY <1>4, <2>1 DEF Reading, Default
<1>5. CASE Assigned(conf, k) # {}
  <2>1. PICK n \in 1 .. Len(conf) : /\ Sets(n, k) /\ config[k] = conf[n].val
                                    /\ \A m \in n + 1 .. Len(conf) : ~Sets(m, k)
    BY <1>1, <1>3, <1>5 DEF Gives
  <2>2. n \in Assigned(conf, k)
    BY <1>3, <2>1
  <2>3. \A m \in Assigned(conf, k) : m <= n
    BY <1>2, <1>3, <2>1
  <2>4. \A x \in Assigned(conf, k) : (\A m \in Assigned(conf, k) : m <= x) => x = n
    BY <1>2, <1>3, <2>2, <2>3
  <2>5. (CHOOSE x \in Assigned(conf, k) : \A m \in Assigned(conf, k) : m <= x) = n
    BY <2>2, <2>3, <2>4
  <2> QED
    BY <1>5, <2>1, <2>5 DEF Reading
<1> QED
  BY <1>4, <1>5

-----------------------------------------------------------------------------
(* The serverlist. *)

IsAddress(n) == list[n].kind = "address"

\* An address on the next line has the next index.
LEMMA IndexNext ==
  ASSUME NEW n \in Nat
  PROVE  /\ Index(0) = 0 /\ Index(n) \in Nat
         /\ IsAddress(n + 1) => Index(n + 1) = Index(n) + 1
         /\ ~IsAddress(n + 1) => Index(n + 1) = Index(n)
<1> DEFINE A(p) == {m \in 1 .. p : IsAddress(m)}
<1>1. \A p \in Nat : Index(p) = Cardinality(A(p))
  BY DEF Index, IsAddress
<1>2. IsFiniteSet(A(n))
  <2>1. IsFiniteSet(1 .. n)
    BY FS_Interval
  <2> QED
    BY <2>1, FS_Subset, A(n) \subseteq 1 .. n
<1>3. Cardinality(A(n)) \in Nat
  BY <1>2, FS_CardinalityType
<1>4. A(0) = {}
  OBVIOUS
<1>5. Cardinality(A(0)) = 0
  BY <1>4, FS_EmptySet
<1>6. ASSUME IsAddress(n + 1) PROVE Cardinality(A(n + 1)) = Cardinality(A(n)) + 1
  <2>1. A(n + 1) = A(n) \cup {n + 1}
    BY <1>6
  <2>2. n + 1 \notin A(n)
    OBVIOUS
  <2> HIDE DEF A
  <2> QED
    BY <1>2, <2>1, <2>2, FS_AddElement
<1>7. ASSUME ~IsAddress(n + 1) PROVE A(n + 1) = A(n)
  BY <1>7
<1> HIDE DEF A
<1> QED
  BY <1>1, <1>3, <1>5, <1>6, <1>7

\* The lines 1 .. p of the list are in addr_v, and nothing else.
Listed(p) ==
  /\ Len(addr_v) = Index(p) /\ Index(p) <= p
  /\ \A n \in 1 .. p :
       IsAddress(n) => Index(n) \in 1 .. Len(addr_v) /\ addr_v[Index(n)] = list[n].text

ListRead == CASE pc = "conf" -> 0 [] pc = "list" -> line [] OTHER -> Len(list)

\* What ServersInOrder says of a whole list holds of the lines read so far.
ListInv == pc # "aborted" => Listed(ListRead)

LEMMA ListInit == Init => ListInv
<1> SUFFICES ASSUME Init PROVE Listed(0)
  BY DEF Init, ListInv, ListRead
<1>1. Index(0) = 0
  BY IndexNext
<1> QED
  BY <1>1 DEF Init, Listed

\* ReadList takes the next line to the end of addr_v, or nowhere.
LEMMA ReadListStep == ASSUME TypeInv, Listed(line), ReadList PROVE Listed(line)'
<1> DEFINE l == list[line + 1]
           p == line + 1
<1>1. /\ line \in Nat /\ addr_v \in Seq(Addresses \cup {"blank"}) /\ Len(addr_v) \in Nat
      /\ UNCHANGED list /\ line' = p
      /\ addr_v' = IF l.kind = "comment" THEN addr_v ELSE Append(addr_v, l.text)
  BY DEF TypeInv, ReadList
<1>2. l \in ListLine
  BY DEF TypeInv, ReadList
<1>3. l.kind \in {"comment", "address"} /\ l.text \in Addresses \cup {"blank"}
  BY <1>2, ListTypes
<1>4. /\ Index(line) \in Nat
      /\ IsAddress(p) => Index(p) = Index(line) + 1
      /\ ~IsAddress(p) => Index(p) = Index(line)
  BY <1>1, IndexNext
<1>5. /\ Len(addr_v) = Index(line) /\ Index(line) <= line
      /\ \A n \in 1 .. line :
           IsAddress(n) => Index(n) \in 1 .. Len(addr_v) /\ addr_v[Index(n)] = list[n].text
  BY DEF Listed
<1>6. \A n \in 1 .. p : n \in 1 .. line \/ n = p
  BY <1>1
<1> SUFFICES /\ Len(addr_v') = Index(p) /\ Index(p) <= p
             /\ \A n \in 1 .. p :
                  IsAddress(n) => Index(n) \in 1 .. Len(addr_v') /\ addr_v'[Index(n)] = list[n].text
  BY <1>1 DEF Listed, IsAddress, Index
<1>7. CASE IsAddress(p)
  <2>1. addr_v' = Append(addr_v, l.text)
    BY <1>1, <1>7 DEF IsAddress
  <2>2. /\ Len(addr_v') = Len(addr_v) + 1 /\ addr_v'[Len(addr_v) + 1] = l.text
        /\ \A i \in 1 .. Len(addr_v) : addr_v'[i] = addr_v[i]
    BY <1>1, <1>3, <2>1
  <2> QED
    BY <1>1, <1>4, <1>5, <1>6, <1>7, <2>2
<1>8. CASE ~IsAddress(p)
  <2>1. addr_v' = addr_v
    BY <1>1, <1>3, <1>8 DEF IsAddress
  <2> QED
    BY <1>1, <1>4, <1>5, <1>6, <1>8, <2>1
<1> QED
  BY <1>7, <1>8

LEMMA ListStep == ASSUME TypeInv, ListInv, [Next]_vars PROVE ListInv'
<1> USE DEF ListInv, ListRead
<1>1. CASE ReadConf
  BY <1>1 DEF ReadConf, Listed, Index, IsAddress
<1>2. CASE EndOfConf
  BY <1>2 DEF EndOfConf, Listed, Index, IsAddress
<1>3. CASE ReadList
  <2>1. Listed(line)'
    BY <1>3, ReadListStep DEF ReadList
  <2>2. pc = "list" /\ pc' = "list" /\ line' = line + 1 /\ UNCHANGED list
    BY <1>3 DEF ReadList
  <2> QED
    BY <2>1, <2>2 DEF Listed, Index, IsAddress
<1>4. CASE EndOfList
  BY <1>4 DEF EndOfList, Listed, Index, IsAddress
<1>5. CASE CheckSize \/ NodeInit
  <2>1. pc \in {"main", "init"} /\ pc' \in {"init", "failed", "ready"} /\ UNCHANGED <<list, addr_v>>
    BY <1>5 DEF CheckSize, NodeInit
  <2> QED
    BY <2>1 DEF Listed, Index, IsAddress
<1>6. CASE UNCHANGED vars
  BY <1>6 DEF vars, Listed, Index, IsAddress
<1> QED
  BY <1>1, <1>2, <1>3, <1>4, <1>5, <1>6 DEF Next

LEMMA ListGivesServersInOrder == ASSUME TypeInv, ListInv PROVE ServersInOrder
<1> SUFFICES ASSUME pc \in {"main", "init", "ready"}, NEW n \in DOMAIN list, list[n].kind = "address"
             PROVE  addr_v[Index(n)] = list[n].text
  BY DEF ServersInOrder
<1>1. Listed(Len(list))
  BY DEF ListInv, ListRead
<1>2. n \in 1 .. Len(list)
  BY DEF TypeInv
<1> QED
  BY <1>1, <1>2 DEF Listed, IsAddress

-----------------------------------------------------------------------------
(* The check of Node::init. *)

\* What the check found is still so when the endpoints are opened.
CheckInv == pc = "ready" /\ role = "client" => Enough(config.num_pn)

LEMMA CheckInit == Init => CheckInv
  BY DEF Init, CheckInv

LEMMA CheckStep == ASSUME CheckInv, [Next]_vars PROVE CheckInv'
<1> USE DEF CheckInv
<1>1. CASE ReadConf
  BY <1>1 DEF ReadConf
<1>2. CASE EndOfConf
  BY <1>2 DEF EndOfConf
<1>3. CASE ReadList
  BY <1>3 DEF ReadList
<1>4. CASE EndOfList
  BY <1>4 DEF EndOfList
<1>5. CASE CheckSize
  BY <1>5 DEF CheckSize
<1>6. CASE NodeInit
  BY <1>6 DEF NodeInit, Enough
<1>7. CASE UNCHANGED vars
  BY <1>7 DEF vars, Enough
<1> QED
  BY <1>1, <1>2, <1>3, <1>4, <1>5, <1>6, <1>7 DEF Next

LEMMA ChecksGiveClientsCanDial == ASSUME TypeInv, ListInv, CheckInv PROVE ClientsCanDial
<1> SUFFICES ASSUME pc = "ready", role = "client"
             PROVE  config.num_pn >= 0 /\ 1 .. config.num_pn \subseteq DOMAIN addr_v
  BY DEF ClientsCanDial
<1>1. config.num_pn \in Settings
  BY DEF TypeInv, Keys
<1>2. Len(addr_v) \in 0 .. MaxList /\ DOMAIN addr_v = 1 .. Len(addr_v)
  <2>1. Listed(Len(list))
    BY DEF ListInv, ListRead
  <2>2. Len(list) \in Nat /\ Len(list) <= MaxList /\ addr_v \in Seq(Addresses \cup {"blank"})
    BY DEF TypeInv
  <2> QED
    BY <2>1, <2>2, ConfigAssumption DEF Listed
<1>3. Enough(config.num_pn)
  BY DEF CheckInv
<1>4. config.num_pn \in Nat /\ config.num_pn <= Len(addr_v)
  BY <1>1, <1>2, <1>3, EnoughOf
<1> QED
  BY <1>2, <1>4

-----------------------------------------------------------------------------
(* The invariants of the specification. *)

Inv == TypeInv /\ ReadInv /\ ListInv /\ CheckInv

LEMMA ConfigInvariant == Spec => []Inv
<1>1. Init => Inv
  BY TypeInit, ReadInit, ListInit, CheckInit DEF Inv
<1>2. Inv /\ [Next]_vars => Inv'
  BY TypeStep, ReadStep, ListStep, CheckStep DEF Inv
<1> QED
  BY <1>1, <1>2, PTL DEF Spec

\* Config::readConfig: a process that gets to its endpoints has, for every key, the
\* value of the last line that sets it without a comment, or the default.
THEOREM LastAssignmentWins == Spec => []LastWins
<1>1. Inv => LastWins
  BY ReadGivesLastWins DEF Inv
<1> QED
  BY <1>1, ConfigInvariant, PTL

\* Config::readConfig: the id of a server is the number of lines without a comment
\* up to its own, in a list of any length.
THEOREM IdsFollowList == Spec => []ServersInOrder
<1>1. Inv => ServersInOrder
  BY ListGivesServersInOrder DEF Inv
<1> QED
  BY <1>1, ConfigInvariant, PTL

\* Node::init compares an int with a size_t: whatever the number of servers is, also
\* a negative one, a client that goes on has an address for each of them.
THEOREM DialsWithinList == Spec => []ClientsCanDial
<1>1. Inv => ClientsCanDial
  BY ChecksGiveClientsCanDial DEF Inv
<1> QED
  BY <1>1, ConfigInvariant, PTL

=============================================================================
