--------------------------- MODULE PasvPortsProofs ---------------------------
(***************************************************************************)
(* Proofs about PasvPorts for every range, word size and set of clients.   *)
(* OrderlyRange needs to know where the cursor is while a search is        *)
(* between its read and its wrap-around test; as long as no two searches   *)
(* overlap there is one such search at a time and its register says.       *)
(* RefusalMeansBusy needs to know which ports a search drew: an arc of the *)
(* circle that the wrap-around test makes of the range.                    *)
(***************************************************************************)
EXTENDS PasvPorts, FiniteSetTheorems, TLAPS

Wide == Start..(Start + Num)

\* No two searches overlapped, and the cursor can step past the range.
Orderly == ~raced /\ Start + Num + 1 < Word

\* The cursor of an orderly server, and the ports drawn from it.
CursorOK ==
  Orderly =>
    /\ \A c, d \in Clients : InCursor(c) /\ InCursor(d) => c = d
    /\ \A c \in Clients : InCursor(c) =>
         /\ reg[c] \in Wide
         /\ cursor = IF pc[c] = "bump" THEN reg[c] ELSE reg[c] + 1
    /\ (\A c \in Clients : ~InCursor(c)) => cursor \in Wide
    /\ \A c \in Clients :
         /\ pc[c] \in {"bump", "wrap", "bind"} => port[c] \in Wide
         /\ bound[c] # NoPort => bound[c] \in Wide /\ bound[c] = port[c]
                                 /\ pc[c] = "idle"

PInv == TypeOK /\ CursorOK

LEMMA InitPInv == Init => PInv
<1> SUFFICES ASSUME Init PROVE PInv
  OBVIOUS
<1> USE PortsAssumption DEF Init
<1>1. Start \in PortNumbers /\ 0 \in PortNumbers /\ foreign \in SUBSET PortNumbers
  BY DEF PortNumbers
<1>2. raced \in BOOLEAN
  OBVIOUS
<1>3. TypeOK
  <2>1. tries \in [Clients -> 0..Tries]
    OBVIOUS
  <2>2. bound \in [Clients -> PortNumbers \cup {NoPort}]
    OBVIOUS
  <2>3. pc \in [Clients -> {"idle", "take", "bump", "wrap", "bind"}]
    OBVIOUS
  <2>4. reg \in [Clients -> PortNumbers] /\ port \in [Clients -> PortNumbers]
    BY <1>1
  <2>5. held \in [Clients -> SUBSET PortNumbers] /\ alone \in [Clients -> BOOLEAN]
    OBVIOUS
  <2> QED
    BY <1>1, <1>2, <2>1, <2>2, <2>3, <2>4, <2>5, Zenon DEF TypeOK
<1>4. Start \in Wide
  BY DEF Wide
<1>5. CursorOK
  BY <1>4 DEF CursorOK, InCursor
<1> QED
  BY <1>3, <1>5 DEF PInv

LEMMA NextTypes == TypeOK /\ [Next]_vars => TypeOK'
<1> SUFFICES ASSUME TypeOK, [Next]_vars PROVE TypeOK'
  OBVIOUS
<1> USE PortsAssumption DEF TypeOK, PortNumbers
<1>1. ASSUME NEW c \in Clients, Pasv(c) \/ Close(c) \/ GiveUp(c) PROVE TypeOK'
  <2>1. CASE Pasv(c)
    BY <2>1 DEF Pasv
  <2>2. CASE Close(c)
    BY <2>2 DEF Close
  <2>3. CASE GiveUp(c)
    BY <2>3 DEF GiveUp
  <2> QED
    BY <1>1, <2>1, <2>2, <2>3
<1>2. ASSUME NEW c \in Clients, Take(c) PROVE TypeOK'
  BY <1>2 DEF Take, Counted
<1>3. ASSUME NEW c \in Clients, Bump(c) \/ Wrap(c) PROVE TypeOK'
  <2>1. CASE Bump(c)
    <3>1. Incremented(reg[c]) \in PortNumbers
      BY DEF Incremented
    <3> QED
      BY <2>1, <3>1 DEF Bump
  <2>2. CASE Wrap(c)
    <3>1. cursor' \in PortNumbers
      BY <2>2 DEF Wrap
    <3> QED
      BY <2>2, <3>1 DEF Wrap
  <2> QED
    BY <1>3, <2>1, <2>2
<1>4. ASSUME NEW c \in Clients, Bind(c) PROVE TypeOK'
  BY <1>4 DEF Bind
<1>5. CASE UNCHANGED vars
  BY <1>5 DEF vars
<1> QED
  BY <1>1, <1>2, <1>3, <1>4, <1>5 DEF Next, Search

LEMMA NextCursor == PInv /\ [Next]_vars => CursorOK'
<1> SUFFICES ASSUME PInv, [Next]_vars, Orderly'
             PROVE  CursorOK'
  BY DEF CursorOK
<1> USE PortsAssumption DEF PInv, TypeOK, PortNumbers, CursorOK, InCursor, Wide, Orderly
<1>1. ASSUME NEW c \in Clients, Pasv(c) \/ Close(c) \/ GiveUp(c) PROVE CursorOK'
  BY <1>1 DEF Pasv, Close, GiveUp
<1>2. ASSUME NEW c \in Clients, Take(c) PROVE CursorOK'
  BY <1>2 DEF Take
<1>3. ASSUME NEW c \in Clients, Bump(c) PROVE CursorOK'
  <2>1. Orderly /\ InCursor(c) /\ reg[c] \in Wide /\ pc[c] = "bump"
    BY <1>3 DEF Bump
  <2>2. Incremented(reg[c]) = reg[c] + 1
    BY <2>1 DEF Incremented
  <2>3. \A d \in Clients : InCursor(d)' <=> d = c
    BY <1>3, <2>1 DEF Bump
  <2> QED
    BY <1>3, <2>1, <2>2, <2>3 DEF Bump
<1>4. ASSUME NEW c \in Clients, Wrap(c) PROVE CursorOK'
  BY <1>4 DEF Wrap, Incremented, PastEnd
<1>5. ASSUME NEW c \in Clients, Bind(c) PROVE CursorOK'
  BY <1>5 DEF Bind
<1>6. CASE UNCHANGED vars
  BY <1>6 DEF vars
<1> QED
  BY <1>1, <1>2, <1>3, <1>4, <1>5, <1>6 DEF Next, Search

LEMMA PortsInvariant == Spec => []PInv
<1>1. PInv /\ [Next]_vars => PInv'
  BY NextTypes, NextCursor DEF PInv
<1> QED
  BY <1>1, InitPInv, PTL DEF Spec

\* The cursor never leaves the unsigned short, and no count exceeds its bound.
THEOREM PortTypes == Spec => []TypeOK
<1>1. PInv => TypeOK
  BY DEF PInv
<1> QED
  BY <1>1, PortsInvariant, PTL

\* Searches that do not overlap open the ports of the range and the one after
\* it, and advertise what they opened.
THEOREM OrderlySearches == Spec => []OrderlyRange
<1>1. PInv => OrderlyRange
  BY DEF PInv, CursorOK, OrderlyRange, Wide, Orderly
<1> QED
  BY <1>1, PortsInvariant, PTL

-----------------------------------------------------------------------------
(* What a search that has the cursor to itself draws.                      *)

Last == Start + Num

\* The port that comes after p on the circle.
After(p) == IF p = Last THEN Start ELSE p + 1

\* D are the n ports from f to p on the circle, or all of them.
Arc(D, n, f, p) ==
  \/ f <= p /\ D = f..p /\ n = p - f + 1
  \/ p < f /\ D = (f..Last) \cup (Start..p) /\ n = (Last - f + 1) + (p - Start + 1)
  \/ Wide \subseteq D

\* One more draw.
LEMMA ArcGrows ==
  ASSUME NEW D, NEW n \in Nat, NEW f \in Wide, NEW p \in Wide, Arc(D, n, f, p)
  PROVE  Arc(D \cup {After(p)}, n + 1, f, After(p))
<1>0. Start \in Nat /\ Num \in Nat /\ f \in Nat /\ p \in Nat /\ Last \in Nat
      /\ Start <= f /\ f <= Last /\ Start <= p /\ p <= Last /\ Wide = Start..Last
  BY PortsAssumption DEF Wide, Last
<1>1. CASE f <= p /\ D = f..p /\ n = p - f + 1
  <2>1. CASE p = Last /\ f = Start
    <3>1. Wide \subseteq D
      BY <1>0, <1>1, <2>1
    <3> QED
      BY <3>1 DEF Arc
  <2>2. CASE p = Last /\ f # Start
    <3>1. After(p) = Start /\ Start < f
      BY <1>0, <2>2 DEF After
    <3>2. D \cup {Start} = (f..Last) \cup (Start..Start)
      BY <1>0, <1>1, <2>2
    <3>3. n + 1 = (Last - f + 1) + (Start - Start + 1)
      BY <1>0, <1>1, <2>2
    <3> QED
      BY <3>1, <3>2, <3>3 DEF Arc
  <2>3. CASE p # Last
    <3>1. After(p) = p + 1
      BY <2>3 DEF After
    <3>2. D \cup {p + 1} = f..(p + 1)
      BY <1>0, <1>1
    <3>3. n + 1 = (p + 1) - f + 1 /\ f <= p + 1
      BY <1>0, <1>1
    <3> QED
      BY <3>1, <3>2, <3>3 DEF Arc
  <2> QED
    BY <2>1, <2>2, <2>3
<1>2. CASE p < f /\ D = (f..Last) \cup (Start..p) /\ n = (Last - f + 1) + (p - Start + 1)
  <2>1. After(p) = p + 1
    BY <1>0, <1>2 DEF After
  <2>2. CASE p + 1 = f
    <3>1. Wide \subseteq D
      BY <1>0, <1>2, <2>2
    <3> QED
      BY <3>1 DEF Arc
  <2>3. CASE p + 1 # f
    <3>1. D \cup {p + 1} = (f..Last) \cup (Start..(p + 1)) /\ p + 1 < f
      BY <1>0, <1>2, <2>3
    <3>2. n + 1 = (Last - f + 1) + ((p + 1) - Start + 1)
      BY <1>0, <1>2
    <3> QED
      BY <2>1, <3>1, <3>2 DEF Arc
  <2> QED
    BY <2>2, <2>3
<1>3. CASE Wide \subseteq D
  BY <1>3 DEF Arc
<1> QED
  BY <1>1, <1>2, <1>3 DEF Arc

\* An arc has as many ports as were drawn for it, or is the whole circle.
LEMMA ArcIs ==
  ASSUME NEW D, NEW n \in Nat, NEW f \in Wide, NEW p \in Wide, Arc(D, n, f, p)
  PROVE  Wide \subseteq D \/ Cardinality(D) = n
<1>0. Start \in Int /\ f \in Int /\ p \in Int /\ Last \in Int
      /\ Start <= f /\ f <= Last /\ Start <= p /\ p <= Last
  BY PortsAssumption DEF Wide, Last
<1>1. CASE f <= p /\ D = f..p /\ n = p - f + 1
  <2>1. Cardinality(f..p) = p - f + 1
    BY <1>0, <1>1, FS_Interval
  <2> QED
    BY <1>1, <2>1
<1>2. CASE p < f /\ D = (f..Last) \cup (Start..p) /\ n = (Last - f + 1) + (p - Start + 1)
  <2> DEFINE A == f..Last
             B == Start..p
  <2>1. /\ IsFiniteSet(A) /\ Cardinality(A) = Last - f + 1
        /\ IsFiniteSet(B) /\ Cardinality(B) = p - Start + 1
    BY <1>0, FS_Interval
  <2>2. A \cap B = {}
    BY <1>0, <1>2
  <2>3. D = A \cup B
    BY <1>2
  <2> HIDE DEF A, B
  <2>4. Cardinality(A \cup B) = Cardinality(A) + Cardinality(B) - Cardinality(A \cap B)
    BY <2>1, FS_Union
  <2>5. Cardinality(A \cap B) = 0
    BY <2>2, FS_EmptySet
  <2>6. Cardinality(D) = (Last - f + 1) + (p - Start + 1) - 0
    BY <2>1, <2>3, <2>4, <2>5
  <2>7. (Last - f + 1) + (p - Start + 1) - 0 = n
    BY <1>0, <1>2
  <2> QED
    BY <2>6, <2>7
<1> QED
  BY <1>1, <1>2 DEF Arc

\* The ports that a search has drawn so far.
Drawn(c) == held[c] \cup (IF pc[c] = "take" THEN {} ELSE {port[c]})

\* What is known of a search under way.
OnItsWay(c) ==
  \/ pc[c] = "take" /\ tries[c] = 0 /\ held[c] = {}
  \/ /\ tries[c] \in Nat \ {0} /\ port[c] \in Wide
     /\ \A d \in Clients : InCursor(d) => d = c
     /\ InCursor(c) => reg[c] = port[c]
     /\ pc[c] \in {"take", "bind"} => cursor = After(port[c])
     /\ \E f \in Wide : Arc(Drawn(c), tries[c], f, port[c])

SearchOK ==
  Orderly => \A c \in Clients : alone[c] /\ pc[c] # "idle" => OnItsWay(c)

LEMMA InitSearch == Init => SearchOK
  BY DEF Init, SearchOK

LEMMA NextSearch == PInv /\ SearchOK /\ [Next]_vars => SearchOK'
<1> SUFFICES ASSUME PInv, SearchOK, [Next]_vars, Orderly',
                    NEW c \in Clients, alone'[c], pc'[c] # "idle"
             PROVE  OnItsWay(c)'
  BY DEF SearchOK
<1> USE PortsAssumption
<1>0. TypeOK /\ CursorOK /\ Start \in Nat /\ Num \in Nat
  BY DEF PInv
<1>1. ASSUME NEW d \in Clients, Pasv(d) PROVE OnItsWay(c)'
  <2>1. CASE d = c
    BY <1>0, <1>1, <2>1 DEF Pasv, OnItsWay, TypeOK
  <2>2. CASE d # c
    <3>1. Orderly /\ alone[c] /\ pc[c] # "idle" /\ OnItsWay(c)
      BY <1>0, <1>1, <2>2 DEF Pasv, TypeOK, SearchOK, Orderly
    <3>2. /\ pc'[c] = pc[c] /\ tries'[c] = tries[c] /\ held'[c] = held[c]
          /\ UNCHANGED <<cursor, reg, port>>
          /\ \A e \in Clients : InCursor(e)' => InCursor(e)
      BY <1>0, <1>1, <2>2 DEF Pasv, TypeOK, InCursor
    <3> QED
      BY <3>1, <3>2 DEF OnItsWay, Drawn, InCursor
  <2> QED
    BY <2>1, <2>2
<1>2. ASSUME NEW d \in Clients, Close(d) \/ GiveUp(d) PROVE OnItsWay(c)'
  <2>1. Orderly /\ alone[c] /\ pc[c] # "idle" /\ OnItsWay(c)
    BY <1>0, <1>2 DEF Close, GiveUp, TypeOK, SearchOK, Orderly
  <2>2. /\ pc'[c] = pc[c] /\ UNCHANGED <<cursor, reg, port, tries, held>>
        /\ \A e \in Clients : InCursor(e)' => InCursor(e)
    BY <1>0, <1>2 DEF Close, GiveUp, TypeOK, InCursor
  <2> QED
    BY <2>1, <2>2 DEF OnItsWay, Drawn, InCursor
<1>3. ASSUME NEW d \in Clients, Take(d) PROVE OnItsWay(c)'
  <2>1. d = c
    BY <1>3 DEF Take
  <2>2. /\ Orderly /\ alone[c] /\ OnItsWay(c) /\ pc[c] = "take"
        /\ \A e \in Clients : ~InCursor(e)
    <3>1. Orderly /\ alone[c] /\ pc[c] = "take" /\ \A e \in Clients \ {c} : ~InCursor(e)
      BY <1>0, <1>3, <2>1 DEF Take, Orderly, TypeOK
    <3>2. ~InCursor(c)
      BY <3>1 DEF InCursor
    <3> QED
      BY <3>1, <3>2 DEF SearchOK
  <2>3. cursor \in Wide
    BY <1>0, <2>2 DEF CursorOK
  <2>4. /\ reg'[c] = cursor /\ port'[c] = cursor /\ pc'[c] = "bump" /\ tries'[c] = tries[c] + 1
        /\ held' = held /\ tries[c] \in Nat
        /\ \A e \in Clients : InCursor(e)' => e = c
    BY <1>0, <1>3, <2>1, <2>2 DEF Take, Counted, TypeOK, InCursor
  <2>5. Drawn(c)' = held[c] \cup {cursor} /\ Drawn(c) = held[c]
    BY <2>2, <2>4 DEF Drawn
  <2>6. \E f \in Wide : Arc(held[c] \cup {cursor}, tries[c] + 1, f, cursor)
    <3>1. CASE tries[c] = 0 /\ held[c] = {}
      <4>1. cursor \in Nat /\ held[c] \cup {cursor} = cursor..cursor
        BY <2>3, <3>1 DEF Wide
      <4>2. tries[c] + 1 = cursor - cursor + 1 /\ cursor <= cursor
        BY <3>1, <4>1
      <4>3. Arc(held[c] \cup {cursor}, tries[c] + 1, cursor, cursor)
        BY <4>1, <4>2 DEF Arc
      <4> QED
        BY <2>3, <4>3
    <3>2. CASE ~(tries[c] = 0 /\ held[c] = {})
      <4>1. /\ port[c] \in Wide /\ cursor = After(port[c])
            /\ \E f \in Wide : Arc(Drawn(c), tries[c], f, port[c])
        BY <2>2, <3>2 DEF OnItsWay
      <4>2. PICK f \in Wide : Arc(held[c], tries[c], f, port[c])
        BY <2>5, <4>1
      <4>3. Arc(held[c] \cup {After(port[c])}, tries[c] + 1, f, After(port[c]))
        BY <2>4, <4>1, <4>2, ArcGrows
      <4> QED
        BY <4>1, <4>3
    <3> QED
      BY <3>1, <3>2
  <2>7. \E f \in Wide : Arc(Drawn(c)', tries'[c], f, port'[c])
    BY <2>4, <2>5, <2>6
  <2>8. tries'[c] \in Nat \ {0} /\ port'[c] \in Wide /\ Wide' = Wide
    BY <2>3, <2>4 DEF Wide
  <2> QED
    BY <2>4, <2>7, <2>8 DEF OnItsWay, Arc, Wide, Last
<1>4. ASSUME NEW d \in Clients, Bump(d) \/ Wrap(d) PROVE OnItsWay(c)'
  <2>1. Orderly /\ alone[c] /\ pc[c] # "idle" /\ OnItsWay(c) /\ InCursor(d)
    BY <1>0, <1>4 DEF Bump, Wrap, TypeOK, SearchOK, Orderly, InCursor
  <2>2. UNCHANGED <<reg, port, tries, held>>
    BY <1>4 DEF Bump, Wrap
  <2>3. CASE pc[c] = "take" /\ tries[c] = 0 /\ held[c] = {}
    <3>1. pc'[c] = "take"
      BY <1>0, <1>4, <2>1, <2>3 DEF Bump, Wrap, TypeOK, InCursor
    <3> QED
      BY <2>2, <2>3, <3>1 DEF OnItsWay
  <2>4. CASE ~(pc[c] = "take" /\ tries[c] = 0 /\ held[c] = {})
    <3>1. /\ tries[c] \in Nat \ {0} /\ port[c] \in Wide /\ d = c /\ reg[c] = port[c]
          /\ \A e \in Clients : InCursor(e) => e = c
          /\ \E f \in Wide : Arc(Drawn(c), tries[c], f, port[c])
      BY <2>1, <2>4 DEF OnItsWay
    <3>2. /\ pc'[c] \in {"wrap", "bind"} /\ pc[c] \in {"bump", "wrap"}
          /\ \A e \in Clients : InCursor(e)' => e = c
      BY <1>0, <1>4, <3>1 DEF Bump, Wrap, TypeOK, InCursor
    <3>3. Drawn(c)' = Drawn(c)
      BY <2>2, <3>2 DEF Drawn
    <3>4. pc'[c] = "bind" => cursor' = After(port[c])
      <4>1. SUFFICES ASSUME pc'[c] = "bind" PROVE cursor' = After(port[c])
        OBVIOUS
      <4>2. Wrap(c) /\ pc[c] = "wrap"
        BY <1>0, <1>4, <3>1, <4>1 DEF Bump, Wrap, TypeOK
      <4>3. cursor = port[c] + 1
        BY <1>0, <2>1, <3>1, <4>2 DEF CursorOK, InCursor
      <4>4. Incremented(reg[c]) = port[c] + 1
        BY <2>1, <3>1 DEF Incremented, Orderly, Wide
      <4>5. cursor' = IF PastEnd(port[c] + 1) THEN Start ELSE port[c] + 1
        BY <4>2, <4>3, <4>4 DEF Wrap
      <4> QED
        BY <1>0, <3>1, <4>5 DEF PastEnd, After, Last, Wide
    <3> QED
      BY <2>2, <3>1, <3>2, <3>3, <3>4 DEF OnItsWay, Arc, Wide, Last, After
  <2> QED
    BY <2>3, <2>4
<1>5. ASSUME NEW d \in Clients, Bind(d) PROVE OnItsWay(c)'
  <2>1. Orderly /\ alone[c] /\ pc[c] # "idle" /\ OnItsWay(c)
    BY <1>0, <1>5 DEF Bind, TypeOK, SearchOK, Orderly
  <2>2. /\ UNCHANGED <<cursor, reg, port, tries>>
        /\ \A e \in Clients : InCursor(e)' => InCursor(e)
    BY <1>0, <1>5 DEF Bind, TypeOK, InCursor
  <2>3. CASE d # c
    <3>1. pc'[c] = pc[c] /\ held'[c] = held[c]
      BY <1>0, <1>5, <2>3 DEF Bind, TypeOK
    <3> QED
      BY <2>1, <2>2, <3>1 DEF OnItsWay, Drawn, InCursor
  <2>4. CASE d = c
    <3>1. pc[c] = "bind" /\ pc'[c] = "take" /\ held'[c] = held[c] \cup {port[c]}
      BY <1>0, <1>5, <2>4 DEF Bind, TypeOK
    <3>2. Drawn(c)' = Drawn(c)
      BY <2>2, <3>1 DEF Drawn
    <3>3. /\ tries[c] \in Nat \ {0} /\ port[c] \in Wide /\ cursor = After(port[c])
          /\ \A e \in Clients : InCursor(e) => e = c
          /\ \E f \in Wide : Arc(Drawn(c), tries[c], f, port[c])
      BY <2>1, <3>1 DEF OnItsWay
    <3>4. ~InCursor(c)'
      BY <3>1 DEF InCursor
    <3> QED
      BY <2>2, <3>1, <3>2, <3>3, <3>4 DEF OnItsWay
  <2> QED
    BY <2>3, <2>4
<1>6. CASE UNCHANGED vars
  <2>1. Orderly /\ alone[c] /\ pc[c] # "idle" /\ OnItsWay(c)
    BY <1>6 DEF vars, SearchOK, Orderly
  <2> QED
    BY <1>6, <2>1 DEF vars, OnItsWay, Drawn, InCursor
<1> QED
  BY <1>1, <1>2, <1>3, <1>4, <1>5, <1>6 DEF Next, Search

\* A search that has the cursor to itself gives up only after it found the whole
\* range held by others, or as many different ports as it tries.
THEOREM RefusalsMeanBusy == Spec => []RefusalMeansBusy
<1>1. TypeOK /\ SearchOK => RefusalMeansBusy
  <2> SUFFICES ASSUME TypeOK, SearchOK, Orderly, NEW c \in Clients,
                      pc[c] = "take", tries[c] = Tries, alone[c]
               PROVE  Start..(Start + Num - 1) \subseteq held[c] \/ Cardinality(held[c]) = Tries
    BY DEF RefusalMeansBusy, Orderly
  <2>1. Tries \in Nat \ {0} /\ Start \in Nat /\ Num \in Nat
    BY PortsAssumption
  <2>2. OnItsWay(c) /\ Drawn(c) = held[c]
    BY DEF SearchOK, Drawn
  <2>3. PICK f \in Wide : port[c] \in Wide /\ Arc(held[c], Tries, f, port[c])
    BY <2>1, <2>2 DEF OnItsWay
  <2>4. Wide \subseteq held[c] \/ Cardinality(held[c]) = Tries
    BY <2>1, <2>3, ArcIs
  <2>5. Start..(Start + Num - 1) \subseteq Wide
    BY <2>1 DEF Wide
  <2> QED
    BY <2>4, <2>5
<1>2. Init => SearchOK
  BY InitSearch
<1> QED
  BY <1>1, <1>2, NextSearch, PortsInvariant, PortTypes, PTL DEF Spec
=============================================================================
