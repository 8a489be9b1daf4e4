------------------------------- MODULE Config -------------------------------
(***************************************************************************)
(* What a process does with ./conf/conf and ./conf/serverlist before it    *)
(* opens its endpoints: Config::readConfig, the check of the buffer size   *)
(* in main() and the check of the addresses in Node::init.                 *)
(*                                                                         *)
(* A file is a sequence of lines; a file that cannot be opened reads like  *)
(* an empty one.  Lines whose text does not matter here (other keys, none, *)
(* blanks before "=") are "other"; the keys with a text as their value go  *)
(* the way of the numbers without being parsed.                            *)
(***************************************************************************)
EXTENDS Integers, Sequences, FiniteSets, SequencesExt

CONSTANTS
  Values,      \* numbers in the conf file; a negative one is added
  Addresses,   \* addresses in the serverlist
  CtrlSize,    \* config->ctrl_size
  SizeMax,     \* the largest size_t
  MaxConf,     \* bound on the lines of the conf file
  MaxList      \* bound on the lines of the serverlist

Keys == {"num_en", "num_pn"}

TransferSize == 40

\* num_en and num_pn of the constructor.
DefaultSize == 10

\* num_pn is an int: a size_t, which is wider, holds it, and the length of a list.
ASSUME ConfigAssumption ==
  /\ Values \subseteq Nat /\ CtrlSize \in Nat /\ SizeMax \in Nat
  /\ MaxConf \in Nat /\ MaxList \in Nat
  /\ \A v \in Values \cup {DefaultSize} : v <= SizeMax
  /\ MaxList < SizeMax

\* kind "comment" is a line with "//" anywhere, also after an assignment; "set" an
\* assignment of a number and "junk" of something std::stoi throws on.
ConfLine ==
  [kind : {"set", "comment"}, key : Keys, val : Values \cup {-1}]
    \cup [kind : {"junk"}, key : Keys, val : {0}]
    \cup [kind : {"other"}, key : {"num_pn"}, val : Values]

ListLine == [kind : {"comment", "address"}, text : Addresses]
              \cup [kind : {"address"}, text : {"blank"}]

VARIABLES
  conf,      \* the lines of the conf file
  list,      \* the lines of the serverlist
  role,      \* the mode of the node: "client", "server", "controller"
  pc,        \* "conf", "list", "main", "init", "ready", "failed", "aborted"
  line,      \* lines of the current file that were read
  config,    \* num_en and num_pn
  addr_v,
  warned     \* the warning of main() was printed

vars == <<conf, list, role, pc, line, config, addr_v, warned>>

Default == [k \in Keys |-> DefaultSize]

Init ==
  /\ conf \in BoundedSeq(ConfLine, MaxConf) /\ list \in BoundedSeq(ListLine, MaxList)
  /\ role \in {"client", "server", "controller"}
  /\ pc = "conf" /\ line = 0 /\ config = Default /\ addr_v = <<>> /\ warned = FALSE

\* Mutant: a comment after an assignment is cut off, as in other formats.
Skipped_NoComment(l) == l.kind = "other"

Skipped(l) == l.kind \in {"comment", "other"}

ReadConf ==
  /\ pc = "conf" /\ line < Len(conf)
  /\ LET l == conf[line + 1] IN
       \/ Skipped(l) /\ UNCHANGED <<config, pc>>
       \/ ~Skipped(l) /\ l.kind # "junk"
            /\ config' = [config EXCEPT ![l.key] = l.val] /\ UNCHANGED pc
       \/ l.kind = "junk" /\ pc' = "aborted" /\ UNCHANGED config
  /\ line' = line + 1
  /\ UNCHANGED <<conf, list, role, addr_v, warned>>

EndOfConf ==
  /\ pc = "conf" /\ line = Len(conf)
  /\ pc' = "list" /\ line' = 0
  /\ UNCHANGED <<conf, list, role, config, addr_v, warned>>

\* Mutant: the last line is read first.
ReadList_Front ==
  /\ pc = "list" /\ line < Len(list)
  /\ LET l == list[line + 1] IN
       addr_v' = IF l.kind = "comment" THEN addr_v ELSE <<l.text>> \o addr_v
  /\ line' = line + 1
  /\ UNCHANGED <<conf, list, role, pc, config, warned>>

\* Every line without "//" is an address.
ReadList ==
  /\ pc = "list" /\ line < Len(list)
  /\ LET l == list[line + 1] IN
       addr_v' = IF l.kind = "comment" THEN addr_v ELSE Append(addr_v, l.text)
  /\ line' = line + 1
  /\ UNCHANGED <<conf, list, role, pc, config, warned>>

EndOfList ==
  /\ pc = "list" /\ line = Len(list)
  /\ pc' = "main"
  /\ UNCHANGED <<conf, list, role, line, config, addr_v, warned>>

\* An int that is compared with a size_t becomes one.
SizeT(n) == n % (SizeMax + 1)

\* main() warns of a control buffer that is too small, and goes on with it.
CheckSize ==
  /\ pc = "main"
  /\ warned' = (CtrlSize < SizeT(TransferSize * config.num_pn))
  /\ pc' = "init"
  /\ UNCHANGED <<conf, list, role, line, config, addr_v>>

\* Mutant: the comparison with signs.
Enough_Signed(num_pn) == num_pn <= Len(addr_v)

Enough(num_pn) == SizeT(num_pn) <= Len(addr_v)

\* Node::init: only a client looks for the addresses.
NodeInit ==
  /\ pc = "init"
  /\ pc' = IF role = "client" /\ ~Enough(config.num_pn) THEN "failed" ELSE "ready"
  /\ UNCHANGED <<conf, list, role, line, config, addr_v, warned>>

Next == ReadConf \/ EndOfConf \/ ReadList \/ EndOfList \/ CheckSize \/ NodeInit

Spec == Init /\ [][Next]_vars

-----------------------------------------------------------------------------
(* Properties. *)

\* The value a conf file gives to a key: the last line that sets it and has no
\* comment in it.
Assigned(f, k) == {n \in DOMAIN f : f[n].kind = "set" /\ f[n].key = k}
Reading(f, k)  == IF Assigned(f, k) = {} THEN Default[k]
                  ELSE f[CHOOSE n \in Assigned(f, k) : \A m \in Assigned(f, k) : m <= n].val

\* A process that gets to its endpoints has for every key the value of that line,
\* whatever other lines there are, or the default of the constructor.
LastWins == pc \in {"list", "main", "init", "ready"} =>
              \A k \in Keys : config[k] = Reading(conf, k)

\* The index in addr_v of the address on line n: the lines up to it that are no
\* comment.
Index(n) == Cardinality({m \in 1 .. n : list[m].kind = "address"})

\* README.md:91, "The processing nodes(pn) id must match the order of the
\* serverlist": the address with index i is the i-th line that is no comment, so
\* that commenting out a line moves all servers behind it.
ServersInOrder ==
  pc \in {"main", "init", "ready"} =>
    \A n \in DOMAIN list : list[n].kind = "address" => addr_v[Index(n)] = list[n].text

\* A client gets past Node::init only when it can index addr_v with every id of a
\* server, and not with a negative number of servers.
ClientsCanDial ==
  pc = "ready" /\ role = "client" =>
    config.num_pn >= 0 /\ 1 .. config.num_pn \subseteq DOMAIN addr_v

=============================================================================
