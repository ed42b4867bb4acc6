-------------------------- MODULE SequenceInduction --------------------------
(***************************************************************************)
(* Induction over numbers and sequences, stated with sets, and recursive   *)
(* functions: what the proofs about paths and streams, which are of any    *)
(* length, have in common.                                                 *)
(***************************************************************************)
EXTENDS SequencesExt, SequenceTheorems, WellFoundedInduction, TLAPS

-----------------------------------------------------------------------------
(* Induction and recursion.                                                *)

\* A set that holds 0 and with each number the next one holds all numbers.
LEMMA NatSet ==
  ASSUME NEW S, 0 \in S, \A n \in Nat : n \in S => n + 1 \in S
  PROVE  Nat \subseteq S
<1>1. SUFFICES ASSUME NEW T, T = Nat \ S, T # {} PROVE FALSE
  OBVIOUS
<1>2. T \subseteq Nat
  BY <1>1
<1>3. PICK m \in T : \A k \in T : <<k, m>> \notin OpToRel(<, Nat)
  BY ONLY <1>1, <1>2, NatLessThanWellFounded, WFMin
<1>4. m \in Nat /\ m # 0 /\ m - 1 \in Nat /\ m - 1 < m /\ m = (m - 1) + 1
  BY <1>1
<1>5. <<m - 1, m>> \in OpToRel(<, Nat)
  BY <1>4 DEF OpToRel
<1>6. m - 1 \notin T
  BY <1>3, <1>5
<1> QED
  BY <1>1, <1>4, <1>6

\* The front and the last of a sequence.
LEMMA FrontLast ==
  ASSUME NEW N
  PROVE  /\ \A p \in Seq(N) : p # <<>> =>
              /\ Front(p) \in Seq(N) /\ Last(p) \in N
              /\ Append(Front(p), Last(p)) = p /\ Len(Front(p)) = Len(p) - 1
         /\ \A p \in Seq(N), n \in N : Front(Append(p, n)) = p /\ Last(Append(p, n)) = n
<1>1. ASSUME NEW p \in Seq(N), NEW n \in N
      PROVE  Front(Append(p, n)) = p /\ Last(Append(p, n)) = n
  <2>1. /\ Append(p, n) \in Seq(N) /\ Len(Append(p, n)) = Len(p) + 1 /\ Len(p) \in Nat
        /\ Append(p, n)[Len(p) + 1] = n
        /\ \A i \in 1..Len(p) : Append(p, n)[i] = p[i]
    BY AppendProperties, LenProperties
  <2>2. Last(Append(p, n)) = n
    BY <2>1 DEF Last
  <2>3. Front(Append(p, n)) = p
    BY <2>1 DEF Front
  <2> QED
    BY <2>2, <2>3
<1>2. ASSUME NEW p \in Seq(N), p # <<>>
      PROVE  /\ Front(p) \in Seq(N) /\ Last(p) \in N
             /\ Append(Front(p), Last(p)) = p /\ Len(Front(p)) = Len(p) - 1
  <2>1. PICK s \in Seq(N), e \in N : p = Append(s, e)
    BY <1>2, SequenceEmptyOrAppend
  <2>2. Front(p) = s /\ Last(p) = e
    BY <1>1, <2>1
  <2>3. Len(p) = Len(s) + 1 /\ Len(s) \in Nat
    BY <2>1, AppendProperties, LenProperties
  <2> QED
    BY <2>1, <2>2, <2>3
<1> QED
  BY <1>1, <1>2

\* Induction over the length of a sequence.
LEMMA SeqSet ==
  ASSUME NEW N, NEW S, <<>> \in S,
         \A p \in Seq(N), n \in N : p \in S => Append(p, n) \in S
  PROVE  Seq(N) \subseteq S
<1> DEFINE L == {k \in Nat : \A p \in Seq(N) : Len(p) = k => p \in S}
<1>1. 0 \in L
  BY EmptySeq
<1>2. ASSUME NEW k \in Nat, k \in L PROVE k + 1 \in L
  <2> SUFFICES ASSUME NEW p \in Seq(N), Len(p) = k + 1 PROVE p \in S
    OBVIOUS
  <2>1. p # <<>>
    BY EmptySeq
  <2>2. Front(p) \in Seq(N) /\ Last(p) \in N /\ Append(Front(p), Last(p)) = p /\ Len(Front(p)) = k
    BY <2>1, FrontLast
  <2> QED
    BY <1>2, <2>2
<1>3. Nat \subseteq L
  <2> HIDE DEF L
  <2> QED
    BY <1>1, <1>2, NatSet
<1> QED
  BY <1>3, LenProperties

\* f begins with b, and its value at i is F[i] of the one before.
Iterates(f, X, b, n, F) ==
  f \in [0..n -> X] /\ f[0] = b /\ \A i \in 1..n : f[i] = F[i][f[i - 1]]

\* There is such a function for every n.
LEMMA Recursion ==
  ASSUME NEW X, NEW b \in X, NEW n \in Nat, NEW F \in [1..n -> [X -> X]]
  PROVE  \E f : Iterates(f, X, b, n, F)
<1> DEFINE Def(g, k) == /\ g \in [0..k -> X] /\ g[0] = b
                        /\ \A i \in 1..k : g[i] = F[i][g[i - 1]]
           S == {k \in Nat : k <= n => \E g : Def(g, k)}
<1>1. 0 \in S
  <2>1. Def([i \in 0..0 |-> b], 0)
    OBVIOUS
  <2> QED BY <2>1
<1>2. ASSUME NEW k \in Nat, k \in S PROVE k + 1 \in S
  <2> SUFFICES ASSUME k + 1 <= n PROVE \E z : Def(z, k + 1)
    OBVIOUS
  <2>1. PICK g : Def(g, k)
    BY <1>2
  <2> DEFINE h == [i \in 0..(k + 1) |-> IF i = k + 1 THEN F[k + 1][g[k]] ELSE g[i]]
  <2>2. h \in [0..(k + 1) -> X]
    <3>1. F[k + 1][g[k]] \in X
      BY <2>1
    <3> QED
      BY <2>1, <3>1
  <2>3. h[0] = b
    BY <2>1
  <2>4. ASSUME NEW i \in 1..(k + 1) PROVE h[i] = F[i][h[i - 1]]
    <3>1. i - 1 \in 0..(k + 1) /\ i - 1 # k + 1 /\ i \in 0..(k + 1)
      OBVIOUS
    <3>2. h[i - 1] = g[i - 1]
      BY <3>1
    <3>3. CASE i = k + 1
      <4>1. h[i] = F[k + 1][g[k]] /\ i - 1 = k
        BY <3>1, <3>3
      <4> HIDE DEF h
      <4> QED
        BY <3>2, <3>3, <4>1
    <3>4. CASE i # k + 1
      <4>1. h[i] = g[i] /\ i \in 1..k
        BY <3>1, <3>4
      <4> HIDE DEF h
      <4> QED
        BY <2>1, <3>2, <4>1
    <3> QED
      BY <3>3, <3>4
  <2>5. Def(h, k + 1)
    <3> HIDE DEF h
    <3> QED BY <2>2, <2>3, <2>4
  <2> HIDE DEF h, Def
  <2> QED
    BY <2>5
<1>3. n \in S
  <2> HIDE DEF S
  <2> QED
    BY <1>1, <1>2, NatSet
<1>4. PICK g : Def(g, n)
  <2> HIDE DEF Def
  <2> QED BY <1>3
<1> QED
  BY <1>4 DEF Iterates
=============================================================================
