------------------------------ MODULE PasvPorts ------------------------------
(***************************************************************************)
(* The search for a passive data port (process_pasv_cmd), with a port      *)
(* range configured.  All clients draw from one cursor, the function-local *)
(* static cur_end_port.  The lock around the search, port_lock_, is a      *)
(* member of client_node: it keeps out nobody but the client itself, so    *)
(* the cursor is shared without synchronisation and each access to it is a *)
(* step.  It is an unsigned short and wraps; the end of the range is       *)
(* compared with it as an int.                                             *)
(*                                                                         *)
(* What is abstracted: listen fails only when bind does; the ports other   *)
(* programs hold do not change; a port number of 0 lets the system choose. *)
(***************************************************************************)
EXTENDS Integers, FiniteSets

CONSTANTS
  Clients,    \* the clients that send PASV
  Word,       \* 2^16: the values of an unsigned short are 0 .. Word - 1
  Start,      \* data_port_range_.start
  Num,        \* data_port_range_.num, end - start + 1 in main.cpp
  Tries,      \* 10: the ports one PASV tries
  Foreign,    \* the ports other programs may hold
  NoPort      \* no acceptor is open

ASSUME PortsAssumption ==
  /\ Word \in Nat /\ Start \in 1..(Word - 1) /\ Num \in Nat \ {0}
  /\ Start + Num <= Word
  /\ Tries \in Nat \ {0}
  /\ Foreign \subseteq 0..(Word - 1)
  /\ NoPort \notin Nat

PortNumbers == 0..(Word - 1)

VARIABLES
  cursor,    \* cur_end_port
  pc,        \* per client: where its search is
  reg,       \* per client: the cursor value its search holds in a register
  port,      \* per client: data_port_
  tries,     \* per client: checked_port_count
  bound,     \* per client: the port its acceptor listens on
  foreign,   \* ports other programs hold
  raced,     \* history: one client read the cursor while another was between
             \* its read and its wrap-around test
  held,      \* history, per client: the ports its search found held by others
  alone      \* history, per client: nobody else drew a port since its PASV

vars == <<cursor, pc, reg, port, tries, bound, foreign, raced, held, alone>>

Taken(c) == foreign \cup {bound[d] : d \in Clients \ {c}}
InCursor(c) == pc[c] \in {"bump", "wrap"}

Init ==
  /\ cursor = Start
  /\ pc = [c \in Clients |-> "idle"]
  /\ reg = [c \in Clients |-> 0]
  /\ port = [c \in Clients |-> 0]
  /\ tries = [c \in Clients |-> 0]
  /\ bound = [c \in Clients |-> NoPort]
  /\ foreign \in SUBSET Foreign
  /\ raced = FALSE
  /\ held = [c \in Clients |-> {}]
  /\ alone = [c \in Clients |-> TRUE]

\* PASV: an earlier acceptor is closed, a new one opened.
Pasv(c) ==
  /\ pc[c] = "idle"
  /\ bound' = [bound EXCEPT ![c] = NoPort]
  /\ tries' = [tries EXCEPT ![c] = 0]
  /\ pc' = [pc EXCEPT ![c] = "take"]
  /\ held' = [held EXCEPT ![c] = {}]
  /\ alone' = [alone EXCEPT ![c] = TRUE]
  /\ UNCHANGED <<cursor, reg, port, foreign, raced>>

\* open_data_connection or a later command closes the acceptor.
Close(c) ==
  /\ pc[c] = "idle" /\ bound[c] # NoPort
  /\ bound' = [bound EXCEPT ![c] = NoPort]
  /\ UNCHANGED <<cursor, pc, reg, port, tries, foreign, raced, held, alone>>

\* checked_port_count >= 10: 451.
GiveUp(c) ==
  /\ pc[c] = "take" /\ tries[c] >= Tries
  /\ pc' = [pc EXCEPT ![c] = "idle"]
  /\ UNCHANGED <<cursor, reg, port, tries, bound, foreign, raced, held, alone>>

(* Mutant of Counted: the attempt is not counted.                          *)
NotCounted(c) == UNCHANGED tries

\* checked_port_count++
Counted(c) == tries' = [tries EXCEPT ![c] = @ + 1]

\* data_port_ = cur_end_port++ : the read ...
Take(c) ==
  /\ pc[c] = "take" /\ tries[c] < Tries
  /\ Counted(c)
  /\ reg' = [reg EXCEPT ![c] = cursor]
  /\ port' = [port EXCEPT ![c] = cursor]
  /\ pc' = [pc EXCEPT ![c] = "bump"]
  /\ raced' = (raced \/ \E d \in Clients \ {c} : InCursor(d))
  /\ alone' = [d \in Clients |-> alone[d] /\ d = c]
  /\ UNCHANGED <<cursor, bound, foreign, held>>

(* Mutant of Incremented: an int, which does not wrap.                     *)
IncrementedWide(v) == v + 1

\* (v + 1) % Word
Incremented(v) == IF v + 1 = Word THEN 0 ELSE v + 1

\* ... and the write.
Bump(c) ==
  /\ pc[c] = "bump"
  /\ cursor' = Incremented(reg[c])
  /\ pc' = [pc EXCEPT ![c] = "wrap"]
  /\ UNCHANGED <<reg, port, tries, bound, foreign, raced, held, alone>>

(* Mutants of PastEnd: one more port; the number of ports is forgotten.    *)
PastEndLater(v) == v > Start + Num + 1
PastStart(v) == v > Start

\* cur_end_port > (data_port_start + data_port_num)
PastEnd(v) == v > Start + Num

\* The wrap-around test, of the cursor or of the register the increment left:
\* the compiler may assume that nobody else writes it.
Wrap(c) ==
  /\ pc[c] = "wrap"
  /\ \E v \in {cursor, Incremented(reg[c])} :
       cursor' = IF PastEnd(v) THEN Start ELSE cursor
  /\ pc' = [pc EXCEPT ![c] = "bind"]
  /\ UNCHANGED <<reg, port, tries, bound, foreign, raced, held, alone>>

\* bind and listen succeed.
Free(c, p) == p \notin Taken(c)

Bind(c) ==
  /\ pc[c] = "bind"
  /\ \/ /\ port[c] # 0 /\ Free(c, port[c])
        /\ bound' = [bound EXCEPT ![c] = port[c]]
        /\ pc' = [pc EXCEPT ![c] = "idle"] /\ UNCHANGED held
     \/ /\ port[c] = 0
        /\ \E p \in (Start + Num)..(Word - 1) :
             Free(c, p) /\ bound' = [bound EXCEPT ![c] = p]
        /\ pc' = [pc EXCEPT ![c] = "idle"] /\ UNCHANGED held
     \/ /\ port[c] # 0 => ~Free(c, port[c])
        /\ pc' = [pc EXCEPT ![c] = "take"]
        /\ held' = [held EXCEPT ![c] = @ \cup {port[c]}]
        /\ UNCHANGED bound
  /\ UNCHANGED <<cursor, reg, port, tries, foreign, raced, alone>>

Search(c) == GiveUp(c) \/ Take(c) \/ Bump(c) \/ Wrap(c) \/ Bind(c)

Next == \E c \in Clients : Pasv(c) \/ Close(c) \/ Search(c)

\* A handler that runs goes on; the client's commands are its own affair.
Spec == Init /\ [][Next]_vars /\ \A c \in Clients : WF_vars(Search(c))

-----------------------------------------------------------------------------
\* Type correctness: the cursor and the ports are unsigned shorts.
TypeOK ==
  /\ cursor \in PortNumbers
  /\ pc \in [Clients -> {"idle", "take", "bump", "wrap", "bind"}]
  /\ reg \in [Clients -> PortNumbers]
  /\ port \in [Clients -> PortNumbers]
  /\ tries \in [Clients -> 0..Tries]
  /\ bound \in [Clients -> PortNumbers \cup {NoPort}]
  /\ foreign \in SUBSET PortNumbers
  /\ raced \in BOOLEAN
  /\ held \in [Clients -> SUBSET PortNumbers]
  /\ alone \in [Clients -> BOOLEAN]

\* As long as no two searches overlap, and the range ends far enough below the
\* largest unsigned short for the cursor to step past it, every port that is
\* opened is in the range or the one after it, and it is the one the 227 names.
OrderlyRange ==
  (~raced /\ Start + Num + 1 < Word) =>
    \A c \in Clients : bound[c] # NoPort =>
      bound[c] \in Start..(Start + Num) /\ bound[c] = port[c]

\* A PASV is refused for want of a port only when ports are wanting: a search that
\* is about to give up (451) has found the whole configured range held, or as many
\* different ports as one PASV tries, and has not spent its tries on the same few.
\* Said of orderly servers, and of searches during which nobody else drew from the
\* cursor: two that alternate may each miss the port that is free.
RefusalMeansBusy ==
  (~raced /\ Start + Num + 1 < Word) =>
    \A c \in Clients : pc[c] = "take" /\ tries[c] = Tries /\ alone[c] =>
      \/ Start..(Start + Num - 1) \subseteq held[c]
      \/ Cardinality(held[c]) = Tries

\* A search ends, with every port of the range taken or the cursor torn.
SearchEnds == \A c \in Clients : (pc[c] # "idle") ~> (pc[c] = "idle")

\* The configured pasv_port_range is "the port range opened in ftp pasv mode"
\* (yftpserver.xml, in Chinese): no port outside it is opened.
OpensConfiguredPorts ==
  ~raced => \A c \in Clients :
    bound[c] # NoPort => bound[c] \in Start..(Start + Num - 1)
=============================================================================
