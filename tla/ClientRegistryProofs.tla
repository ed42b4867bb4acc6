------------------------ MODULE ClientRegistryProofs ------------------------
(***************************************************************************)
(* Proofs about ClientRegistry for every set of connections and accounts   *)
(* and every limit.  Capacity is not inductive: between the test and the   *)
(* push of add_client it needs that the connection in between is alone and *)
(* that there is still room for it, which other connections can only make  *)
(* more of.                                                                *)
(***************************************************************************)
EXTENDS ClientRegistry, SequenceTheorems, FiniteSetTheorems, TLAPS

\* Who is inside add_client, alone, and the room it has found.
AddingOK ==
  \A a \in Accounts, c \in Conns : c \in adding[a] =>
    /\ pc[c] = "push" /\ want[c] = a
    /\ adding[a] = {c}
    /\ Len(clients[a]) < MaxClients

\* A connection inside USER has named an account, and the mutex knows who is
\* inside add_client.
WantOK ==
  \A c \in Conns : /\ pc[c] \in {"find", "enter", "push"} => want[c] \in Accounts
                   /\ pc[c] = "push" => c \in adding[want[c]]

CInv == TypeOK /\ AddingOK /\ WantOK /\ Capacity

\* delete_client returns a list of the same kind that is no longer than before.
LEMMA WithoutShrinks ==
  ASSUME NEW S, NEW l \in Seq(S), NEW c
  PROVE  Without(l, c) \in Seq(S) /\ Len(Without(l, c)) <= Len(l)
<1>1. CASE Lists(l, c)
  <2> DEFINE i == CHOOSE i \in DOMAIN l : l[i] = c
  <2>1. i \in 1..Len(l)
    BY <1>1 DEF Lists
  <2>0. Without(l, c) = RemoveAt(l, i)
    BY <1>1 DEF Without
  <2> HIDE DEF i
  <2>2. /\ SubSeq(l, 1, i - 1) \in Seq(S) /\ Len(SubSeq(l, 1, i - 1)) = i - 1
    <3>1. \A k \in 1..(i - 1) : l[k] \in S
      BY <2>1
    <3> QED
      BY <2>1, <3>1, SubSeqProperties
  <2>3. /\ SubSeq(l, i + 1, Len(l)) \in Seq(S)
        /\ Len(SubSeq(l, i + 1, Len(l))) = Len(l) - i
    <3>1. \A k \in (i + 1)..Len(l) : l[k] \in S
      BY <2>1
    <3> QED
      BY <2>1, <3>1, SubSeqProperties
  <2>4. RemoveAt(l, i) \in Seq(S) /\ Len(RemoveAt(l, i)) = Len(l) - 1
    <3> DEFINE front == SubSeq(l, 1, i - 1)
               back == SubSeq(l, i + 1, Len(l))
    <3>1. front \o back \in Seq(S) /\ Len(front \o back) = Len(front) + Len(back)
      <4> HIDE DEF front, back
      <4> QED
        BY <2>2, <2>3, ConcatProperties DEF front, back
    <3>2. RemoveAt(l, i) = front \o back
      BY DEF RemoveAt
    <3>3. /\ Len(front) = i - 1 /\ Len(back) = Len(l) - i
          /\ i \in Int /\ Len(l) \in Int
      BY <2>1, <2>2, <2>3
    <3> HIDE DEF front, back
    <3> QED
      BY <3>1, <3>2, <3>3
  <2> QED
    BY <2>0, <2>4
<1> QED
  BY <1>1 DEF Without

\* Leaving an account lengthens no list.
LEMMA LeaveShrinks ==
  ASSUME TypeOK, NEW c \in Conns
  PROVE  /\ Leave(c) \in [Accounts -> Seq(Conns)]
         /\ \A a \in Accounts : Len(Leave(c)[a]) <= Len(clients[a])
<1>1. CASE user[c] = NoAccount
  BY <1>1 DEF Leave, TypeOK
<1>2. CASE user[c] # NoAccount
  <2>1. user[c] \in Accounts /\ clients[user[c]] \in Seq(Conns)
    BY <1>2 DEF TypeOK
  <2>2. /\ Without(clients[user[c]], c) \in Seq(Conns)
        /\ Len(Without(clients[user[c]], c)) <= Len(clients[user[c]])
    BY <2>1, WithoutShrinks
  <2> QED
    BY <1>2, <2>1, <2>2 DEF Leave, TypeOK
<1> QED
  BY <1>1, <1>2

LEMMA InitCInv == Init => CInv
<1> SUFFICES ASSUME Init PROVE CInv
  OBVIOUS
<1>1. TypeOK
  <2>1. <<>> \in Seq(Conns)
    OBVIOUS
  <2>2. clients \in [Accounts -> Seq(Conns)] /\ adding \in [Accounts -> SUBSET Conns]
    BY <2>1 DEF Init
  <2>3. /\ user \in [Conns -> Accounts \cup {NoAccount}]
        /\ want \in [Conns -> Accounts \cup {NoAccount}]
        /\ pc \in [Conns -> {"idle", "find", "enter", "push", "ending", "closed"}]
    BY DEF Init
  <2>4. /\ logged \in [Conns -> BOOLEAN] /\ anonymous \in [Conns -> BOOLEAN]
        /\ rushed \in [Conns -> BOOLEAN] /\ crashed \in BOOLEAN
    BY DEF Init
  <2>5. listing \in [Conns -> {"none", "running", "stray"}] /\ disturbed \in [Conns -> BOOLEAN]
    BY DEF Init
  <2> QED
    BY <2>2, <2>3, <2>4, <2>5 DEF TypeOK
<1>2. AddingOK /\ WantOK
  BY DEF Init, AddingOK, WantOK
<1>3. Capacity
  BY RegistryAssumption DEF Init, Capacity
<1> QED
  BY <1>1, <1>2, <1>3 DEF CInv

\* A step that lengthens no list and leaves add_client alone keeps CInv.
LEMMA Shrinking ==
  ASSUME CInv, NEW c \in Conns, TypeOK', adding' = adding,
         \A a \in Accounts : Len(clients'[a]) <= Len(clients[a]),
         pc[c] # "push" /\ pc'[c] # "push",
         pc'[c] \in {"find", "enter"} => want'[c] \in Accounts,
         \A d \in Conns \ {c} : pc'[d] = pc[d] /\ want'[d] = want[d]
  PROVE  CInv'
<1>1. \A a \in Accounts : Len(clients[a]) \in Nat /\ Len(clients'[a]) \in Nat
  BY DEF CInv, TypeOK
<1>2. AddingOK'
  BY <1>1, RegistryAssumption DEF CInv, AddingOK
<1>3. WantOK'
  BY DEF CInv, WantOK
<1>4. Capacity'
  BY <1>1, RegistryAssumption DEF CInv, Capacity
<1> QED
  BY <1>2, <1>3, <1>4 DEF CInv

LEMMA StepCInv == ASSUME CInv, NEW c \in Conns, Step(c) PROVE CInv'
<1> USE DEF At, Goto, fields, threads
<1>0. /\ TypeOK /\ AddingOK /\ WantOK /\ Capacity
      /\ Leave(c) \in [Accounts -> Seq(Conns)]
      /\ \A a \in Accounts : Len(Leave(c)[a]) <= Len(clients[a])
      /\ \A a \in Accounts : Len(clients[a]) \in Nat
  BY LeaveShrinks DEF CInv, TypeOK
<1>1. ASSUME NEW a \in Accounts, User(c, a) PROVE CInv'
  <2>1. TypeOK'
    BY <1>0, <1>1 DEF User, TypeOK, Accounts, Disturbs
  <2>2. /\ adding' = adding /\ \A b \in Accounts : Len(clients'[b]) <= Len(clients[b])
        /\ pc[c] # "push" /\ pc'[c] # "push"
        /\ pc'[c] \in {"find", "enter"} => want'[c] \in Accounts
        /\ \A d \in Conns \ {c} : pc'[d] = pc[d] /\ want'[d] = want[d]
    BY <1>0, <1>1 DEF User, TypeOK
  <2> QED
    BY <2>1, <2>2, Shrinking
<1>2. CASE UserUnknown(c)
  <2>1. TypeOK'
    BY <1>0, <1>2 DEF UserUnknown, TypeOK, Keep, Disturbs
  <2>2. /\ adding' = adding /\ \A a \in Accounts : Len(clients'[a]) <= Len(clients[a])
        /\ pc[c] # "push" /\ pc'[c] # "push"
        /\ pc'[c] \in {"find", "enter"} => want'[c] \in Accounts
        /\ \A d \in Conns \ {c} : pc'[d] = pc[d] /\ want'[d] = want[d]
    BY <1>0, <1>2 DEF UserUnknown, TypeOK
  <2> QED
    BY <2>1, <2>2, Shrinking
<1>3. CASE Admit(c)
  <2> DEFINE acc == want[c]
  <2>1. acc \in Accounts /\ adding[acc] = {} /\ Len(clients[acc]) < MaxClients
    BY <1>0, <1>3 DEF Admit, WantOK, Enters
  <2>2. TypeOK'
    BY <1>0, <1>3, <2>1 DEF Admit, TypeOK
  <2>3. AddingOK'
    BY <1>0, <1>3, <2>1 DEF Admit, TypeOK, AddingOK
  <2>4. WantOK'
    BY <1>0, <1>3, <2>1 DEF Admit, TypeOK, WantOK
  <2>5. Capacity'
    BY <1>0, <1>3 DEF Admit, Capacity
  <2> QED
    BY <2>2, <2>3, <2>4, <2>5 DEF CInv
<1>4. CASE Refuse(c)
  <2>1. TypeOK'
    BY <1>0, <1>4 DEF Refuse, TypeOK
  <2>2. /\ adding' = adding /\ \A a \in Accounts : Len(clients'[a]) <= Len(clients[a])
        /\ pc[c] # "push" /\ pc'[c] # "push"
        /\ pc'[c] \in {"find", "enter"} => want'[c] \in Accounts
        /\ \A d \in Conns \ {c} : pc'[d] = pc[d] /\ want'[d] = want[d]
    BY <1>0, <1>4 DEF Refuse, TypeOK
  <2> QED
    BY <2>1, <2>2, Shrinking
<1>5. CASE Push(c)
  <2> DEFINE acc == want[c]
  <2>1. /\ acc \in Accounts /\ adding[acc] = {c} /\ Len(clients[acc]) < MaxClients
        /\ clients[acc] \in Seq(Conns)
    BY <1>0, <1>5 DEF Push, WantOK, AddingOK, TypeOK
  <2>2. Append(clients[acc], c) \in Seq(Conns) /\ Len(Append(clients[acc], c)) = Len(clients[acc]) + 1
    BY <2>1
  <2>3. TypeOK'
    BY <1>0, <1>5, <2>1, <2>2 DEF Push, TypeOK
  <2>4. adding'[acc] = {} /\ \A b \in Accounts \ {acc} : adding'[b] = adding[b] /\ clients'[b] = clients[b]
    BY <1>0, <1>5, <2>1 DEF Push, TypeOK
  <2>5. AddingOK'
    BY <1>0, <1>5, <2>1, <2>4 DEF Push, TypeOK, AddingOK
  <2>6. WantOK'
    BY <1>0, <1>5, <2>1, <2>4 DEF Push, TypeOK, WantOK, AddingOK
  <2>7. Capacity'
    <3>1. clients'[acc] = Append(clients[acc], c)
      BY <1>0, <1>5, <2>1 DEF Push, TypeOK
    <3>2. Len(clients'[acc]) <= MaxClients
      <4> DEFINE n == Len(clients[acc])
      <4>1. n \in Nat /\ n < MaxClients /\ Len(clients'[acc]) = n + 1
        BY <2>1, <2>2, <3>1
      <4> HIDE DEF n
      <4> QED
        BY <4>1, RegistryAssumption
    <3>3. \A b \in Accounts \ {acc} : Len(clients'[b]) <= MaxClients
      BY <1>0, <2>4 DEF Capacity
    <3> HIDE DEF acc
    <3>4. \A b \in Accounts : Len(clients'[b]) <= MaxClients
      BY <3>2, <3>3
    <3> QED
      BY <3>4 DEF Capacity
  <2> QED
    BY <2>3, <2>5, <2>6, <2>7 DEF CInv
<1>6. CASE PassOk(c) \/ UseAccount(c) \/ Disconnect(c)
  <2>1. TypeOK'
    <3>1. CASE PassOk(c)
      BY <1>0, <3>1 DEF PassOk, TypeOK
    <3>2. CASE UseAccount(c)
      BY <1>0, <3>2 DEF UseAccount, TypeOK
    <3>3. CASE Disconnect(c)
      BY <1>0, <3>3 DEF Disconnect, TypeOK
    <3> QED
      BY <1>6, <3>1, <3>2, <3>3
  <2>2. /\ adding' = adding /\ \A a \in Accounts : Len(clients'[a]) <= Len(clients[a])
        /\ pc[c] # "push" /\ pc'[c] # "push"
        /\ pc'[c] \in {"find", "enter"} => want'[c] \in Accounts
        /\ \A d \in Conns \ {c} : pc'[d] = pc[d] /\ want'[d] = want[d]
    BY <1>0, <1>6 DEF PassOk, UseAccount, Disconnect, TypeOK
  <2> QED
    BY <2>1, <2>2, Shrinking
<1>7. CASE PassFails(c) \/ Rein(c)
  <2>1. TypeOK'
    <3>1. CASE PassFails(c)
      BY <1>0, <3>1 DEF PassFails, TypeOK, Keep, Disturbs
    <3>2. CASE Rein(c)
      BY <1>0, <3>2 DEF Rein, TypeOK, Keep, Disturbs
    <3> QED
      BY <1>7, <3>1, <3>2
  <2>2. /\ adding' = adding /\ \A a \in Accounts : Len(clients'[a]) <= Len(clients[a])
        /\ pc[c] # "push" /\ pc'[c] # "push"
        /\ pc'[c] \in {"find", "enter"} => want'[c] \in Accounts
        /\ \A d \in Conns \ {c} : pc'[d] = pc[d] /\ want'[d] = want[d]
    BY <1>0, <1>7 DEF PassFails, Rein, TypeOK
  <2> QED
    BY <2>1, <2>2, Shrinking
<1>8. CASE End(c)
  <2>1. TypeOK'
    BY <1>0, <1>8 DEF End, TypeOK, Keep, Disturbs
  <2>2. /\ adding' = adding /\ \A a \in Accounts : Len(clients'[a]) <= Len(clients[a])
        /\ pc[c] # "push" /\ pc'[c] # "push"
        /\ pc'[c] \in {"find", "enter"} => want'[c] \in Accounts
        /\ \A d \in Conns \ {c} : pc'[d] = pc[d] /\ want'[d] = want[d]
    BY <1>0, <1>8 DEF End, TypeOK
  <2> QED
    BY <2>1, <2>2, Shrinking
<1>9. CASE Find(c)
  <2>1. pc[c] = "find" /\ want[c] \in Accounts
    BY <1>0, <1>9 DEF Find, WantOK
  <2>2. TypeOK'
    BY <1>0, <1>9, <2>1 DEF Find, TypeOK
  <2>3. /\ adding' = adding /\ \A a \in Accounts : Len(clients'[a]) <= Len(clients[a])
        /\ pc[c] # "push" /\ pc'[c] # "push"
        /\ pc'[c] \in {"find", "enter"} => want'[c] \in Accounts
        /\ \A d \in Conns \ {c} : pc'[d] = pc[d] /\ want'[d] = want[d]
    BY <1>0, <1>9, <2>1 DEF Find, TypeOK
  <2> QED
    BY <2>2, <2>3, Shrinking
<1>10. CASE List(c) \/ ListUses(c) \/ ListEnds(c)
  <2>1. TypeOK'
    <3>1. CASE List(c)
      BY <1>0, <3>1 DEF List, TypeOK
    <3>2. CASE ListUses(c)
      BY <1>0, <3>2 DEF ListUses, TypeOK
    <3>3. CASE ListEnds(c)
      BY <1>0, <3>3 DEF ListEnds, TypeOK
    <3> QED
      BY <1>10, <3>1, <3>2, <3>3
  <2>2. UNCHANGED <<clients, adding, pc, want>>
    BY <1>10 DEF List, ListUses, ListEnds
  <2> QED
    BY <1>0, <2>1, <2>2 DEF CInv, AddingOK, WantOK, Capacity
<1> QED
  BY <1>1, <1>2, <1>3, <1>4, <1>5, <1>6, <1>7, <1>8, <1>9, <1>10 DEF Step

LEMMA RegistryInvariant == Spec => []CInv
<1>1. CInv /\ [Next]_vars => CInv'
  <2> SUFFICES ASSUME CInv, [Next]_vars PROVE CInv'
    OBVIOUS
  <2>1. CASE UNCHANGED vars
    BY <2>1 DEF vars, fields, threads, CInv, TypeOK, AddingOK, WantOK, Capacity
  <2> QED
    BY <2>1, StepCInv DEF Next
<1> QED
  BY <1>1, InitCInv, PTL DEF Spec

\* The lists hold connections and the nodes' fields keep their types.
THEOREM RegistryTypes == Spec => []TypeOK
<1>1. CInv => TypeOK
  BY DEF CInv
<1> QED
  BY <1>1, RegistryInvariant, PTL

\* No interleaving of add_client, delete_client and the end of connections
\* takes an account's list over max_client_num_.
THEOREM NeverOverCapacity == Spec => []Capacity
<1>1. CInv => Capacity
  BY DEF CInv
<1> QED
  BY <1>1, RegistryInvariant, PTL

-----------------------------------------------------------------------------
(***************************************************************************)
(* Where a connection is listed, for every set of connections and accounts *)
(* and every limit: the lists and the nodes' user_ pointers agree as long  *)
(* as a connection answers each 331, whatever the others do (HomesOK).     *)
(* From it follow the null pointer nobody meets without hurrying, what a   *)
(* refusal means, and that ClientRegistry implements AccountQuota.         *)
(***************************************************************************)

\* One entry at most.
Once(l, c) == \A i, j \in DOMAIN l : l[i] = c /\ l[j] = c => i = j

\* A node that has an account, or may be logged in, is listed.
Engaged(c) == anonymous[c] \/ user[c] # NoAccount

Home(c) ==
  ~rushed[c] =>
    /\ \A a \in Accounts : Once(clients[a], c)
    /\ \A a \in Accounts : Lists(clients[a], c) => user[c] = a
    /\ Listed(c) => pc[c] \in {"idle", "ending"}
    /\ logged[c] => Listed(c)
    /\ pc[c] = "idle" /\ Engaged(c) => Listed(c)

\* The thread of a LIST that nothing has disturbed works on a listed node.
Calm(c) ==
  listing[c] # "none" /\ ~disturbed[c] /\ ~rushed[c] => listing[c] = "running" /\ Listed(c)

HomesOK == \A c \in Conns : Home(c) /\ Calm(c)

HInv == HomesOK /\ NullUserNeedsHurry

-----------------------------------------------------------------------------
(* The lists.                                                              *)

LEMMA OneTo ==
  ASSUME NEW n \in Nat
  PROVE  IsFiniteSet(1..n) /\ Cardinality(1..n) = n
BY FS_Interval


\* delete_client moves the entries behind the erased one up by one.
LEMMA WithoutEntries ==
  ASSUME NEW S, NEW l \in Seq(S), NEW c, Lists(l, c)
  PROVE  \E k \in 1..Len(l) :
           /\ l[k] = c
           /\ Len(Without(l, c)) = Len(l) - 1
           /\ Without(l, c) \in Seq(S)
           /\ \A i \in 1..(Len(l) - 1) :
                Without(l, c)[i] = IF i < k THEN l[i] ELSE l[i + 1]
<1> DEFINE k == CHOOSE i \in DOMAIN l : l[i] = c
<1>1. k \in 1..Len(l) /\ l[k] = c
  BY DEF Lists
<1>2. Without(l, c) = RemoveAt(l, k)
  BY DEF Without
<1> HIDE DEF k
<1> DEFINE front == SubSeq(l, 1, k - 1)
           back == SubSeq(l, k + 1, Len(l))
<1>3. /\ front \in Seq(S) /\ Len(front) = k - 1
      /\ \A i \in 1..(k - 1) : front[i] = l[i]
  <2>1. \A i \in 1..(k - 1) : l[i] \in S
    BY <1>1
  <2> QED
    BY <1>1, <2>1, SubSeqProperties
<1>4. /\ back \in Seq(S) /\ Len(back) = Len(l) - k
      /\ \A i \in 1..(Len(l) - k) : back[i] = l[i + k]
  <2>1. \A i \in (k + 1)..Len(l) : l[i] \in S
    BY <1>1
  <2> QED
    BY <1>1, <2>1, SubSeqProperties
<1>5. Without(l, c) = front \o back
  BY <1>2 DEF RemoveAt
<1> HIDE DEF front, back
<1>6. /\ front \o back \in Seq(S)
      /\ Len(front \o back) = Len(front) + Len(back)
      /\ \A i \in 1..(Len(front) + Len(back)) : (front \o back)[i] =
            IF i <= Len(front) THEN front[i] ELSE back[i - Len(front)]
  BY <1>3, <1>4, ConcatProperties
<1>7. \A i \in 1..(Len(l) - 1) : (front \o back)[i] = IF i < k THEN l[i] ELSE l[i + 1]
  <2> SUFFICES ASSUME NEW i \in 1..(Len(l) - 1)
               PROVE  (front \o back)[i] = IF i < k THEN l[i] ELSE l[i + 1]
    OBVIOUS
  <2>1. CASE i < k
    BY <1>1, <1>3, <1>4, <1>6, <2>1
  <2>2. CASE ~(i < k)
    <3>1. i - (k - 1) \in 1..(Len(l) - k) /\ (i - (k - 1)) + k = i + 1
      BY <1>1, <2>2
    <3>2. (front \o back)[i] = back[i - (k - 1)]
      BY <1>1, <1>3, <1>4, <1>6, <2>2
    <3>3. back[i - (k - 1)] = l[(i - (k - 1)) + k]
      BY <1>4, <3>1
    <3> QED
      BY <2>2, <3>1, <3>2, <3>3
  <2> QED
    BY <2>1, <2>2
<1>8. Len(Without(l, c)) = Len(l) - 1 /\ Without(l, c) \in Seq(S)
  BY <1>1, <1>3, <1>4, <1>5, <1>6
<1>9. \A i \in 1..(Len(l) - 1) : Without(l, c)[i] = IF i < k THEN l[i] ELSE l[i + 1]
  BY <1>5, <1>7
<1> QED
  BY <1>1, <1>8, <1>9

\* Other connections keep their entries.
LEMMA WithoutOthers ==
  ASSUME NEW S, NEW l \in Seq(S), NEW c, NEW d, d # c
  PROVE  /\ Lists(Without(l, c), d) <=> Lists(l, d)
         /\ Once(l, d) => Once(Without(l, c), d)
<1>1. CASE ~Lists(l, c)
  BY <1>1 DEF Without
<1>2. CASE Lists(l, c)
  <2>1. PICK k \in 1..Len(l) :
          /\ l[k] = c
          /\ Len(Without(l, c)) = Len(l) - 1
          /\ Without(l, c) \in Seq(S)
          /\ \A i \in 1..(Len(l) - 1) :
               Without(l, c)[i] = IF i < k THEN l[i] ELSE l[i + 1]
    BY <1>2, WithoutEntries
  <2> DEFINE m == Without(l, c)
  <2>2. /\ Len(m) = Len(l) - 1 /\ m \in Seq(S) /\ DOMAIN m = 1..(Len(l) - 1)
        /\ \A i \in 1..(Len(l) - 1) : m[i] = IF i < k THEN l[i] ELSE l[i + 1]
    BY <2>1, LenProperties
  <2> HIDE DEF m
  <2>3. Lists(m, d) => Lists(l, d)
    BY <2>2 DEF Lists
  <2>4. Lists(l, d) => Lists(m, d)
    <3> SUFFICES ASSUME NEW i \in 1..Len(l), l[i] = d PROVE \E j \in DOMAIN m : m[j] = d
      BY DEF Lists
    <3>1. i # k
      BY <2>1
    <3>2. CASE i < k
      BY <2>2, <3>2
    <3>3. CASE i > k
      <4>1. i - 1 \in 1..(Len(l) - 1) /\ m[i - 1] = l[i]
        BY <2>2, <3>3
      <4> QED
        BY <2>2, <4>1
    <3> QED
      BY <3>1, <3>2, <3>3
  <2>5. Once(l, d) => Once(m, d)
    <3> SUFFICES ASSUME Once(l, d), NEW i \in 1..(Len(l) - 1), NEW j \in 1..(Len(l) - 1),
                        m[i] = d, m[j] = d
                 PROVE  i = j
      BY <2>2 DEF Once
    <3>1. \A x, y \in 1..Len(l) : l[x] = d /\ l[y] = d => x = y
      BY DEF Once
    <3>2. CASE i < k /\ j < k
      BY <2>2, <3>1, <3>2
    <3>3. CASE ~(i < k) /\ ~(j < k)
      <4>1. i + 1 \in 1..Len(l) /\ j + 1 \in 1..Len(l) /\ l[i + 1] = d /\ l[j + 1] = d
        BY <2>2, <3>3
      <4> QED
        BY <3>1, <4>1
    <3>4. CASE i < k /\ ~(j < k)
      <4>1. i \in 1..Len(l) /\ j + 1 \in 1..Len(l) /\ l[i] = d /\ l[j + 1] = d /\ i # j + 1
        BY <2>2, <3>4
      <4> QED
        BY <3>1, <4>1
    <3>5. CASE ~(i < k) /\ j < k
      <4>1. i + 1 \in 1..Len(l) /\ j \in 1..Len(l) /\ l[i + 1] = d /\ l[j] = d /\ i + 1 # j
        BY <2>2, <3>5
      <4> QED
        BY <3>1, <4>1
    <3> QED
      BY <3>2, <3>3, <3>4, <3>5
  <2> QED
    BY <2>3, <2>4, <2>5 DEF m
<1> QED
  BY <1>1, <1>2

\* A connection with one entry is gone.
LEMMA WithoutSelf ==
  ASSUME NEW S, NEW l \in Seq(S), NEW c, Once(l, c)
  PROVE  ~Lists(Without(l, c), c)
<1>1. CASE ~Lists(l, c)
  BY <1>1 DEF Without
<1>2. CASE Lists(l, c)
  <2>1. PICK k \in 1..Len(l) :
          /\ l[k] = c
          /\ Len(Without(l, c)) = Len(l) - 1
          /\ Without(l, c) \in Seq(S)
          /\ \A i \in 1..(Len(l) - 1) :
               Without(l, c)[i] = IF i < k THEN l[i] ELSE l[i + 1]
    BY <1>2, WithoutEntries
  <2> SUFFICES ASSUME NEW i \in 1..(Len(l) - 1), Without(l, c)[i] = c PROVE FALSE
    BY <2>1 DEF Lists
  <2>2. \A x, y \in 1..Len(l) : l[x] = c /\ l[y] = c => x = y
    BY DEF Once
  <2>3. CASE i < k
    BY <2>1, <2>2, <2>3
  <2>4. CASE ~(i < k)
    <3>1. i + 1 \in 1..Len(l) /\ l[i + 1] = c /\ i + 1 # k
      BY <2>1, <2>4
    <3> QED
      BY <2>1, <2>2, <3>1
  <2> QED
    BY <2>3, <2>4
<1> QED
  BY <1>1, <1>2

\* add_client adds one entry, of c.
LEMMA AppendEntries ==
  ASSUME NEW S, NEW l \in Seq(S), NEW c \in S, NEW d
  PROVE  /\ Lists(Append(l, c), d) <=> Lists(l, d) \/ d = c
         /\ Once(l, d) /\ (d = c => ~Lists(l, d)) => Once(Append(l, c), d)
<1> DEFINE m == Append(l, c)
<1>1. /\ DOMAIN l = 1..Len(l) /\ DOMAIN m = 1..(Len(l) + 1) /\ Len(l) \in Nat
      /\ \A i \in 1..Len(l) : m[i] = l[i]
      /\ m[Len(l) + 1] = c
  BY AppendProperties, LenProperties
<1> HIDE DEF m
<1>2. Lists(m, d) <=> Lists(l, d) \/ d = c
  BY <1>1 DEF Lists
<1>3. Once(l, d) /\ (d = c => ~Lists(l, d)) => Once(m, d)
  BY <1>1 DEF Lists, Once
<1> QED
  BY <1>2, <1>3 DEF m

-----------------------------------------------------------------------------
(* Homes.                                                                  *)

\* The step of c as the other connections see it.
Aside(c) ==
  /\ \A a \in Accounts : clients'[a] \in {clients[a], Without(clients[a], c),
                                        Append(clients[a], c)}
  /\ \A d \in Conns \ {c} :
       /\ user'[d] = user[d] /\ logged'[d] = logged[d] /\ anonymous'[d] = anonymous[d]
       /\ pc'[d] = pc[d] /\ rushed'[d] = rushed[d]
       /\ listing'[d] = listing[d] /\ disturbed'[d] = disturbed[d]
  /\ rushed[c] => rushed'[c]
  /\ disturbed[c] => disturbed'[c]

\* Leaving an account is seen so.
LEMMA LeaveEntries ==
  ASSUME TypeOK, NEW c \in Conns
  PROVE  \A a \in Accounts : Leave(c)[a] \in {clients[a], Without(clients[a], c)}
BY DEF Leave, TypeOK

\* A connection that has not hurried is gone when it has left.
LEMMA LeaveGone ==
  ASSUME TypeOK, NEW c \in Conns, Home(c), ~rushed[c]
  PROVE  \A a \in Accounts : ~Lists(Leave(c)[a], c)
<1> SUFFICES ASSUME NEW a \in Accounts PROVE ~Lists(Leave(c)[a], c)
  OBVIOUS
<1>1. clients[a] \in Seq(Conns) /\ Once(clients[a], c)
  BY DEF TypeOK, Home
<1>2. ~Lists(Without(clients[a], c), c)
  BY <1>1, WithoutSelf
<1>3. Lists(clients[a], c) => user[c] = a /\ user[c] # NoAccount
  BY RegistryAssumption DEF Home, Accounts
<1>4. Lists(clients[a], c) => Leave(c)[a] = Without(clients[a], c)
  BY <1>3 DEF Leave, TypeOK
<1>5. Leave(c)[a] \in {clients[a], Without(clients[a], c)}
  BY LeaveEntries
<1> QED
  BY <1>2, <1>4, <1>5

\* What a step of c does to the entries of d.
LEMMA AsideEntries ==
  ASSUME TypeOK, NEW c \in Conns, Aside(c), NEW d \in Conns \ {c}, NEW a \in Accounts
  PROVE  /\ Lists(clients'[a], d) <=> Lists(clients[a], d)
         /\ Once(clients[a], d) => Once(clients'[a], d)
<1>1. clients[a] \in Seq(Conns)
  BY DEF TypeOK
<1>2. CASE clients'[a] = clients[a]
  BY <1>2
<1>3. CASE clients'[a] = Without(clients[a], c)
  BY <1>1, <1>3, WithoutOthers
<1>4. CASE clients'[a] = Append(clients[a], c)
  BY <1>1, <1>4, AppendEntries
<1> QED
  BY <1>2, <1>3, <1>4 DEF Aside

\* The others stay where they are.
LEMMA AsideHomes ==
  ASSUME TypeOK, HomesOK, NEW c \in Conns, Aside(c)
  PROVE  \A d \in Conns \ {c} : Home(d)' /\ Calm(d)'
<1> SUFFICES ASSUME NEW d \in Conns \ {c} PROVE Home(d)' /\ Calm(d)'
  OBVIOUS
<1>1. Home(d) /\ Calm(d)
  BY DEF HomesOK
<1>2. /\ user'[d] = user[d] /\ logged'[d] = logged[d] /\ anonymous'[d] = anonymous[d]
      /\ pc'[d] = pc[d] /\ rushed'[d] = rushed[d]
      /\ listing'[d] = listing[d] /\ disturbed'[d] = disturbed[d]
  BY DEF Aside
<1>3. \A a \in Accounts : /\ Lists(clients'[a], d) <=> Lists(clients[a], d)
                          /\ Once(clients[a], d) => Once(clients'[a], d)
  BY AsideEntries
<1>4. Listed(d)' <=> Listed(d)
  BY <1>3 DEF Listed
<1>5. Engaged(d)' <=> Engaged(d)
  BY <1>2 DEF Engaged
<1>6. Home(d)'
  BY <1>1, <1>2, <1>3, <1>4, <1>5 DEF Home
<1>7. Calm(d)'
  BY <1>1, <1>2, <1>4 DEF Calm
<1> QED
  BY <1>6, <1>7

\* A connection that is listed nowhere is at home.
LEMMA Unlisted ==
  ASSUME NEW c \in Conns, \A a \in Accounts : ~Lists(clients'[a], c),
         ~logged'[c], pc'[c] = "idle" => ~anonymous'[c] /\ user'[c] = NoAccount
  PROVE  Home(c)'
<1>1. ~Listed(c)'
  BY DEF Listed
<1>2. \A a \in Accounts : Once(clients'[a], c)
  BY DEF Once, Lists
<1> QED
  BY <1>1, <1>2 DEF Home, Engaged

\* A connection that keeps its entries and its account stays at home.
LEMMA Staying ==
  ASSUME NEW c \in Conns, Home(c), ~rushed[c], clients' = clients, user'[c] = user[c],
         Listed(c) => pc'[c] \in {"idle", "ending"},
         logged'[c] => logged[c] \/ Listed(c),
         pc'[c] = "idle" => pc[c] = "idle" /\ anonymous'[c] = anonymous[c]
  PROVE  Home(c)'
BY DEF Home, Engaged, Listed

LEMMA InitHomes == Init => HInv
<1> SUFFICES ASSUME Init PROVE HInv
  OBVIOUS
<1>1. \A c \in Conns : Home(c) /\ Calm(c)
  BY DEF Init, Home, Calm, Listed, Lists, Once, Engaged
<1> QED
  BY <1>1 DEF HInv, HomesOK, NullUserNeedsHurry, Init

\* A null user_ is met only by a connection that is not at home.
LEMMA ListedHasUser ==
  ASSUME NEW c \in Conns, Home(c), ~rushed[c], Listed(c)
  PROVE  user[c] # NoAccount
BY RegistryAssumption DEF Home, Listed, Accounts

\* Who only moves on, or is still or no more logged in, disturbs nobody.
LEMMA AsideStill ==
  ASSUME TypeOK, NEW c \in Conns, clients' = clients,
         UNCHANGED <<user, anonymous, rushed, disturbed>>,
         \A d \in Conns \ {c} :
           pc'[d] = pc[d] /\ logged'[d] = logged[d] /\ listing'[d] = listing[d]
  PROVE  Aside(c)
BY DEF Aside

\* Who leaves, or stays out, with the fields that go with it, neither.
LEMMA AsideLeaves ==
  ASSUME TypeOK, NEW c \in Conns, clients' \in {clients, Leave(c)},
         \A d \in Conns \ {c} :
           /\ user'[d] = user[d] /\ logged'[d] = logged[d] /\ anonymous'[d] = anonymous[d]
           /\ pc'[d] = pc[d] /\ rushed'[d] = rushed[d] /\ listing'[d] = listing[d],
         listing'[c] # "none" => listing[c] # "none",
         Disturbs(c), rushed[c] => rushed'[c]
  PROVE  Aside(c) /\ Calm(c)'
<1>1. /\ \A d \in Conns \ {c} : disturbed'[d] = disturbed[d]
      /\ disturbed'[c] = (disturbed[c] \/ listing[c] # "none")
  BY DEF Disturbs, TypeOK
<1>2. \A a \in Accounts : clients'[a] \in {clients[a], Without(clients[a], c)}
  BY LeaveEntries
<1>3. Aside(c)
  BY <1>1, <1>2 DEF Aside
<1> QED
  BY <1>1, <1>3 DEF Calm

\* Who leaves is a new node afterwards.
LEMMA KeepNothing ==
  ASSUME TypeOK, NEW c \in Conns, NEW u, NEW l \in BOOLEAN, NEW an \in BOOLEAN, Keep(c, u, l, an),
         \A a \in Accounts : ~Lists(clients'[a], c)
  PROVE  user'[c] = NoAccount /\ ~logged'[c] /\ ~anonymous'[c]
BY DEF Keep, TypeOK

\* The fields of the others are not Keep's.
LEMMA KeepOthers ==
  ASSUME TypeOK, NEW c \in Conns, NEW u, NEW l, NEW an, Keep(c, u, l, an)
  PROVE  /\ \A d \in Conns \ {c} :
              /\ user'[d] = user[d] /\ logged'[d] = logged[d] /\ anonymous'[d] = anonymous[d]
              /\ listing'[d] = listing[d]
         /\ listing'[c] # "none" => listing[c] # "none"
         /\ Disturbs(c)
BY DEF Keep, TypeOK

\* A thread on a listed node stays on one.
LEMMA CalmStill ==
  ASSUME NEW c \in Conns, Calm(c), clients' = clients,
         UNCHANGED <<listing, disturbed, rushed>>
  PROVE  Calm(c)'
BY DEF Calm, Listed

\* Every step of a connection leaves the others at home, and itself if it has
\* not hurried; it meets no null user_ then.
LEMMA StepHomes ==
  ASSUME CInv, HInv, NEW c \in Conns, Step(c)
  PROVE  Aside(c) /\ Home(c)' /\ Calm(c)' /\ (crashed' => rushed'[c] \/ disturbed'[c])
<1> USE DEF At, Goto, fields, threads
<1>0. TypeOK /\ WantOK /\ Home(c) /\ Calm(c)
  BY DEF CInv, HInv, HomesOK
<1>1. ASSUME NEW a \in Accounts, User(c, a) PROVE Aside(c) /\ Home(c)' /\ Calm(c)' /\ ~crashed'
  <2>1. ~crashed'
    BY <1>1 DEF User
  <2>2. Aside(c) /\ Calm(c)'
    <3>1. clients' \in {clients, Leave(c)} /\ (rushed[c] => rushed'[c])
      BY <1>0, <1>1 DEF User, TypeOK
    <3>2. \A d \in Conns \ {c} :
            /\ user'[d] = user[d] /\ logged'[d] = logged[d] /\ anonymous'[d] = anonymous[d]
            /\ pc'[d] = pc[d] /\ rushed'[d] = rushed[d]
      BY <1>0, <1>1 DEF User, TypeOK
    <3>3. Disturbs(c) /\ listing' = listing
      BY <1>1 DEF User
    <3> QED
      BY <1>0, <3>1, <3>2, <3>3, AsideLeaves
  <2>3. ASSUME ~rushed'[c] PROVE Home(c)'
    <3>1. ~rushed[c] /\ (Listed(c) => logged[c])
      BY <1>0, <1>1, <2>3 DEF User, TypeOK
    <3>2. \A b \in Accounts : ~Lists(clients'[b], c)
      BY <1>0, <1>1, <3>1, LeaveGone DEF User, Listed
    <3>3. ~logged'[c] /\ pc'[c] \in {"find", "enter"}
      BY <1>0, <1>1 DEF User, TypeOK
    <3> QED
      BY <3>2, <3>3, Unlisted
  <2> QED
    BY <2>1, <2>2, <2>3 DEF Home
<1>2. ASSUME UserUnknown(c) PROVE Aside(c) /\ Home(c)' /\ Calm(c)' /\ ~crashed'
  <2>1. ~crashed' /\ Keep(c, NoAccount, FALSE, anonymous[c])
    BY <1>2 DEF UserUnknown
  <2>2. Aside(c) /\ Calm(c)'
    <3>1. clients' \in {clients, Leave(c)} /\ (rushed[c] => rushed'[c])
      BY <1>0, <1>2 DEF UserUnknown, TypeOK
    <3>2. \A d \in Conns \ {c} : pc'[d] = pc[d] /\ rushed'[d] = rushed[d]
      BY <1>0, <1>2 DEF UserUnknown, TypeOK
    <3> QED
      BY <1>0, <2>1, <3>1, <3>2, KeepOthers, AsideLeaves
  <2>3. ASSUME ~rushed'[c] PROVE Home(c)'
    <3>1. ~rushed[c] /\ (Listed(c) => logged[c])
      BY <1>0, <1>2, <2>3 DEF UserUnknown, TypeOK
    <3>2. \A b \in Accounts : ~Lists(clients'[b], c)
      BY <1>0, <1>2, <3>1, LeaveGone DEF UserUnknown, Listed
    <3>3. user'[c] = NoAccount /\ ~logged'[c] /\ ~anonymous'[c]
      <4>1. anonymous[c] \in BOOLEAN
        BY <1>0 DEF TypeOK
      <4> QED
        BY <1>0, <2>1, <3>2, <4>1, KeepNothing
    <3> QED
      BY <3>2, <3>3, Unlisted
  <2> QED
    BY <2>1, <2>2, <2>3 DEF Home
<1>3. ASSUME Admit(c) \/ Refuse(c) PROVE Aside(c) /\ Home(c)' /\ Calm(c)' /\ ~crashed'
  <2>1. /\ ~crashed' /\ pc[c] = "enter" /\ pc'[c] \in {"push", "ending"}
        /\ UNCHANGED <<clients, user, logged, anonymous, rushed, listing, disturbed>>
        /\ \A d \in Conns \ {c} : pc'[d] = pc[d]
    BY <1>0, <1>3 DEF Admit, Refuse, TypeOK
  <2>2. Aside(c) /\ Calm(c)'
    BY <1>0, <2>1, AsideStill, CalmStill
  <2>3. ASSUME ~rushed[c] PROVE Home(c)'
    <3>1. ~Listed(c)
      BY <1>0, <2>1, <2>3 DEF Home
    <3> QED
      BY <1>0, <2>1, <2>3, <3>1, Staying
  <2> QED
    BY <2>1, <2>2, <2>3 DEF Home
<1>4. ASSUME Push(c) PROVE Aside(c) /\ Home(c)' /\ Calm(c)' /\ ~crashed'
  <2> DEFINE acc == want[c]
  <2>1. acc \in Accounts /\ pc[c] = "push" /\ ~crashed'
    BY <1>0, <1>4 DEF Push, WantOK
  <2>2. /\ clients'[acc] = Append(clients[acc], c)
        /\ \A a \in Accounts \ {acc} : clients'[a] = clients[a]
    BY <1>0, <1>4, <2>1 DEF Push, TypeOK
  <2>3. /\ pc'[c] = "idle" /\ user'[c] = acc
        /\ UNCHANGED <<rushed, listing, disturbed>>
        /\ \A d \in Conns \ {c} :
             /\ user'[d] = user[d] /\ logged'[d] = logged[d]
             /\ anonymous'[d] = anonymous[d] /\ pc'[d] = pc[d]
    BY <1>0, <1>4 DEF Push, TypeOK
  <2> HIDE DEF acc
  <2>4. Aside(c) /\ Calm(c)'
    <3>1. Aside(c)
      BY <2>2, <2>3 DEF Aside
    <3>2. clients[acc] \in Seq(Conns)
      BY <1>0, <2>1 DEF TypeOK
    <3>3. Listed(c)'
      <4>1. Lists(clients'[acc], c)
        BY <2>2, <3>2, AppendEntries
      <4>2. Listed(c)' <=> \E a \in Accounts : Lists(clients'[a], c)
        BY DEF Listed
      <4> QED
        BY <2>1, <4>1, <4>2
    <3>4. Calm(c)'
      BY <1>0, <2>3, <3>3 DEF Calm
    <3> QED
      BY <3>1, <3>4
  <2>5. ASSUME ~rushed[c] PROVE Home(c)'
    <3>1. \A a \in Accounts : ~Lists(clients[a], c) /\ Once(clients[a], c)
      BY <1>0, <2>1, <2>5 DEF Home, Listed
    <3>2. clients[acc] \in Seq(Conns)
      BY <1>0, <2>1 DEF TypeOK
    <3>3. Once(clients'[acc], c) /\ Lists(clients'[acc], c)
      BY <2>1, <2>2, <3>1, <3>2, AppendEntries
    <3>4. \A a \in Accounts : Once(clients'[a], c) /\ (Lists(clients'[a], c) => a = acc)
      BY <2>2, <3>1, <3>3
    <3>5. Listed(c)'
      BY <2>1, <3>3 DEF Listed
    <3> QED
      BY <2>3, <3>4, <3>5 DEF Home
  <2> QED
    BY <2>1, <2>3, <2>4, <2>5 DEF Home
<1>5. ASSUME PassOk(c) PROVE Aside(c) /\ Home(c)' /\ Calm(c)' /\ ~crashed'
  <2>1. /\ ~crashed' /\ pc[c] = "idle" /\ Engaged(c)
        /\ UNCHANGED <<clients, user, anonymous, rushed, pc, listing, disturbed>>
        /\ \A d \in Conns \ {c} : logged'[d] = logged[d]
    BY <1>0, <1>5 DEF PassOk, TypeOK, Engaged
  <2>2. Aside(c) /\ Calm(c)'
    BY <1>0, <2>1, AsideStill, CalmStill
  <2>3. ASSUME ~rushed[c] PROVE Home(c)'
    <3>1. Listed(c)
      BY <1>0, <2>1, <2>3 DEF Home
    <3> QED
      BY <1>0, <2>1, <2>3, <3>1, Staying
  <2> QED
    BY <2>1, <2>2, <2>3 DEF Home
<1>6. ASSUME PassFails(c) \/ Rein(c) PROVE Aside(c) /\ Home(c)' /\ Calm(c)' /\ ~crashed'
  <2>1. /\ ~crashed' /\ clients' = Leave(c) /\ UNCHANGED <<pc, rushed>>
        /\ \E l \in BOOLEAN : Keep(c, NoAccount, l, FALSE)
    <3>1. CASE PassFails(c)
      <4>1. logged[c] \in BOOLEAN /\ Keep(c, NoAccount, logged[c], FALSE)
        BY <1>0, <3>1 DEF PassFails, TypeOK
      <4> QED
        BY <3>1, <4>1 DEF PassFails
    <3>2. CASE Rein(c)
      <4>1. FALSE \in BOOLEAN /\ Keep(c, NoAccount, FALSE, FALSE)
        BY <3>2 DEF Rein
      <4> QED
        BY <3>2, <4>1 DEF Rein
    <3> QED
      BY <1>6, <3>1, <3>2
  <2>2. PICK l \in BOOLEAN : Keep(c, NoAccount, l, FALSE)
    BY <2>1
  <2>3. Aside(c) /\ Calm(c)'
    BY <1>0, <2>1, <2>2, KeepOthers, AsideLeaves
  <2>4. ASSUME ~rushed[c] PROVE Home(c)'
    <3>1. \A a \in Accounts : ~Lists(clients'[a], c)
      BY <1>0, <2>1, <2>4, LeaveGone
    <3>2. user'[c] = NoAccount /\ ~logged'[c] /\ ~anonymous'[c]
      BY <1>0, <2>2, <3>1, KeepNothing
    <3> QED
      BY <3>1, <3>2, Unlisted
  <2> QED
    BY <2>1, <2>3, <2>4 DEF Home
<1>7. ASSUME UseAccount(c) PROVE Aside(c) /\ Home(c)' /\ Calm(c)' /\ (crashed' => rushed'[c])
  <2>1. /\ UNCHANGED <<clients, user, logged, anonymous, pc, rushed, listing, disturbed>>
        /\ logged[c] /\ crashed' = (user[c] = NoAccount) /\ pc[c] = "idle"
    BY <1>7 DEF UseAccount
  <2>2. Aside(c) /\ Calm(c)'
    BY <1>0, <2>1, AsideStill, CalmStill
  <2>3. ASSUME ~rushed[c] PROVE Home(c)' /\ ~crashed'
    <3>1. Listed(c)
      BY <1>0, <2>1, <2>3 DEF Home
    <3>2. ~crashed'
      BY <1>0, <2>1, <2>3, <3>1, ListedHasUser
    <3>3. Home(c)'
      BY <1>0, <2>1, <2>3, <3>1, Staying
    <3> QED
      BY <3>2, <3>3
  <2> QED
    BY <2>1, <2>2, <2>3 DEF Home
<1>8. ASSUME Disconnect(c) PROVE Aside(c) /\ Home(c)' /\ Calm(c)' /\ ~crashed'
  <2>1. /\ ~crashed' /\ pc'[c] = "ending"
        /\ UNCHANGED <<clients, user, logged, anonymous, rushed, listing, disturbed>>
        /\ \A d \in Conns \ {c} : pc'[d] = pc[d]
    BY <1>0, <1>8 DEF Disconnect, TypeOK
  <2>2. Aside(c) /\ Calm(c)'
    BY <1>0, <2>1, AsideStill, CalmStill
  <2>3. ASSUME ~rushed[c] PROVE Home(c)'
    BY <1>0, <2>1, <2>3, Staying
  <2> QED
    BY <2>1, <2>2, <2>3 DEF Home
<1>9. ASSUME End(c) PROVE Aside(c) /\ Home(c)' /\ Calm(c)' /\ (crashed' => rushed'[c])
  <2>1. /\ rushed' = rushed /\ clients' = IF Listed(c) THEN Leave(c) ELSE clients
        /\ Keep(c, user[c], logged[c], anonymous[c]) /\ pc'[c] = "closed"
        /\ crashed' = (Listed(c) /\ user[c] = NoAccount)
        /\ \A d \in Conns \ {c} : pc'[d] = pc[d]
    BY <1>0, <1>9 DEF End, TypeOK
  <2>2. Aside(c) /\ Calm(c)'
    <3>1. clients' \in {clients, Leave(c)}
      BY <2>1
    <3> QED
      BY <1>0, <2>1, <3>1, KeepOthers, AsideLeaves
  <2>3. ASSUME ~rushed[c] PROVE Home(c)' /\ ~crashed'
    <3>1. \A a \in Accounts : ~Lists(clients'[a], c)
      BY <1>0, <2>1, <2>3, LeaveGone DEF Listed
    <3>2. ~logged'[c]
      <4>1. logged[c] \in BOOLEAN /\ anonymous[c] \in BOOLEAN
        BY <1>0 DEF TypeOK
      <4> QED
        BY <1>0, <2>1, <3>1, <4>1, KeepNothing
    <3>3. Home(c)'
      BY <2>1, <3>1, <3>2, Unlisted
    <3>4. ~crashed'
      BY <1>0, <2>1, <2>3, ListedHasUser
    <3> QED
      BY <3>3, <3>4
  <2> QED
    BY <2>1, <2>2, <2>3 DEF Home
<1>10. ASSUME Find(c) PROVE Aside(c) /\ Home(c)' /\ Calm(c)' /\ ~crashed'
  <2>1. /\ ~crashed' /\ pc[c] = "find" /\ pc'[c] = "enter"
        /\ UNCHANGED <<clients, logged, anonymous, rushed, listing, disturbed>>
        /\ \A d \in Conns \ {c} : user'[d] = user[d] /\ pc'[d] = pc[d]
    BY <1>0, <1>10 DEF Find, TypeOK
  <2>2. Aside(c) /\ Calm(c)'
    BY <1>0, <2>1, CalmStill DEF Aside
  <2>3. ASSUME ~rushed[c] PROVE Home(c)'
    <3>1. \A a \in Accounts : ~Lists(clients'[a], c)
      BY <1>0, <2>1, <2>3 DEF Home, Listed
    <3>2. ~logged'[c]
      BY <1>0, <2>1, <2>3 DEF Home
    <3> QED
      BY <2>1, <3>1, <3>2, Unlisted
  <2> QED
    BY <2>1, <2>2, <2>3 DEF Home
<1>11. ASSUME List(c) PROVE Aside(c) /\ Home(c)' /\ Calm(c)' /\ ~crashed'
  <2>1. /\ ~crashed' /\ pc[c] = "idle" /\ logged[c] /\ listing'[c] = "running"
        /\ UNCHANGED <<clients, user, logged, anonymous, rushed, pc, disturbed>>
        /\ \A d \in Conns \ {c} : listing'[d] = listing[d]
    BY <1>0, <1>11 DEF List, TypeOK
  <2>2. Aside(c)
    BY <1>0, <2>1, AsideStill
  <2>3. ASSUME ~rushed[c] PROVE Home(c)' /\ Listed(c)'
    <3>1. Listed(c) /\ Listed(c)'
      BY <1>0, <2>1, <2>3 DEF Home, Listed
    <3> QED
      BY <1>0, <2>1, <2>3, <3>1, Staying
  <2>4. Calm(c)'
    BY <2>1, <2>3 DEF Calm
  <2> QED
    BY <2>1, <2>2, <2>3, <2>4 DEF Home
<1>12. ASSUME ListUses(c)
       PROVE Aside(c) /\ Home(c)' /\ Calm(c)' /\ (crashed' => rushed'[c] \/ disturbed'[c])
  <2>1. /\ UNCHANGED <<clients, user, logged, anonymous, pc, rushed, listing, disturbed>>
        /\ listing[c] # "none"
        /\ listing[c] = "running" => crashed' = (user[c] = NoAccount)
    BY <1>12 DEF ListUses
  <2>2. Aside(c) /\ Calm(c)'
    BY <1>0, <2>1, AsideStill, CalmStill
  <2>3. Home(c)'
    BY <1>0, <2>1 DEF Home, Engaged, Listed
  <2>4. ASSUME ~rushed[c], ~disturbed[c] PROVE ~crashed'
    <3>1. listing[c] = "running" /\ Listed(c)
      BY <1>0, <2>1, <2>4 DEF Calm
    <3> QED
      BY <1>0, <2>1, <2>4, <3>1, ListedHasUser
  <2> QED
    BY <2>1, <2>2, <2>3, <2>4
<1>13. ASSUME ListEnds(c) PROVE Aside(c) /\ Home(c)' /\ Calm(c)' /\ ~crashed'
  <2>1. /\ ~crashed' /\ listing'[c] = "none"
        /\ UNCHANGED <<clients, user, logged, anonymous, rushed, pc, disturbed>>
        /\ \A d \in Conns \ {c} : listing'[d] = listing[d]
    BY <1>0, <1>13 DEF ListEnds, TypeOK
  <2>2. Aside(c)
    BY <1>0, <2>1, AsideStill
  <2>3. Home(c)' /\ Calm(c)'
    BY <1>0, <2>1 DEF Home, Engaged, Listed, Calm
  <2> QED
    BY <2>1, <2>2, <2>3
<1> QED
  BY <1>1, <1>2, <1>3, <1>4, <1>5, <1>6, <1>7, <1>8, <1>9, <1>10, <1>11, <1>12, <1>13 DEF Step

LEMMA HomesInvariant == Spec => [](CInv /\ HInv)
<1>1. CInv /\ HInv /\ [Next]_vars => HInv'
  <2> SUFFICES ASSUME CInv, HInv, [Next]_vars PROVE HInv'
    OBVIOUS
  <2>1. CASE UNCHANGED vars
    BY <2>1 DEF vars, fields, threads, HInv, HomesOK, Home, Calm, Engaged, Listed, NullUserNeedsHurry
  <2>2. CASE Next
    <3>1. PICK c \in Conns : Step(c)
      BY <2>2 DEF Next
    <3>2. Aside(c) /\ Home(c)' /\ Calm(c)' /\ (crashed' => rushed'[c] \/ disturbed'[c])
      BY <3>1, StepHomes
    <3>3. \A d \in Conns \ {c} : Home(d)' /\ Calm(d)'
      BY <3>2, AsideHomes DEF CInv, HInv
    <3>4. \A d \in Conns : Home(d)' /\ Calm(d)'
      BY <3>2, <3>3
    <3> QED
      BY <3>2, <3>4 DEF HInv, HomesOK, NullUserNeedsHurry
  <2> QED
    BY <2>1, <2>2
<1>2. CInv /\ [Next]_vars => CInv'
  <2> SUFFICES ASSUME CInv, [Next]_vars PROVE CInv'
    OBVIOUS
  <2>1. CASE UNCHANGED vars
    BY <2>1 DEF vars, fields, threads, CInv, TypeOK, AddingOK, WantOK, Capacity
  <2> QED
    BY <2>1, StepCInv DEF Next
<1> QED
  BY <1>1, <1>2, InitCInv, InitHomes, PTL DEF Spec

\* Whatever the other connections do, one that answers each 331 with PASS has one
\* entry, in the account its user_ points to: find_client finds its node,
\* delete_client its entry, and no entry outlives it.
THEOREM OneHomeEach == Spec => []OneHome
<1>1. CInv /\ HInv => OneHome
  <2> SUFFICES ASSUME CInv, HInv, NEW c \in Conns, ~rushed[c]
               PROVE  /\ \A e, f \in Entries(c) : e = f
                      /\ \A e \in Entries(c) : user[c] = e[1] /\ pc[c] # "closed"
                      /\ logged[c] => Entries(c) # {}
    BY DEF OneHome
  <2>1. Home(c)
    BY DEF HInv, HomesOK
  <2>2. ASSUME NEW e \in Entries(c)
        PROVE  /\ e[1] \in Accounts /\ e = <<e[1], e[2]>> /\ e[1] = user[c]
               /\ e[2] \in DOMAIN clients[e[1]] /\ clients[e[1]][e[2]] = c
               /\ pc[c] # "closed"
    <3>1. /\ e[1] \in Accounts /\ e = <<e[1], e[2]>>
          /\ e[2] \in DOMAIN clients[e[1]] /\ clients[e[1]][e[2]] = c
      BY <2>2 DEF Entries
    <3>2. Lists(clients[e[1]], c)
      BY <3>1 DEF Lists
    <3>3. Listed(c)
      BY <3>1, <3>2 DEF Listed
    <3> QED
      BY <2>1, <3>1, <3>2, <3>3 DEF Home
  <2>3. ASSUME NEW e \in Entries(c), NEW f \in Entries(c) PROVE e = f
    <3>1. e[1] = f[1] /\ Once(clients[e[1]], c)
      BY <2>1, <2>2, <2>3 DEF Home
    <3>2. e[2] = f[2]
      BY <2>2, <2>3, <3>1 DEF Once
    <3> QED
      BY <2>2, <2>3, <3>1, <3>2
  <2>4. ASSUME logged[c] PROVE Entries(c) # {}
    <3>0. PICK a \in Accounts : Lists(clients[a], c)
      BY <2>1, <2>4 DEF Home, Listed
    <3>1. PICK i \in DOMAIN clients[a] : clients[a][i] = c
      BY <3>0 DEF Lists
    <3>2. clients[a] \in Seq(Conns) /\ Len(clients[a]) <= MaxClients
      BY DEF CInv, TypeOK, Capacity
    <3>3. i \in 1..MaxClients
      BY <3>1, <3>2, RegistryAssumption
    <3>4. <<a, i>> \in Entries(c)
      BY <3>1, <3>3 DEF Entries
    <3> QED
      BY <3>4
  <2> QED
    BY <2>2, <2>3, <2>4
<1> QED
  BY <1>1, HomesInvariant, PTL

\* For any number of connections, a null user_ is dereferenced, by a handler or by
\* the thread of a LIST, only when a connection sent USER again instead of PASS, or
\* a command cleared user_, or the connection ended, under the thread of its LIST.
THEOREM NullUserOnlyInHurry == Spec => []NullUserNeedsHurry
<1>1. HInv => NullUserNeedsHurry
  BY DEF HInv
<1> QED
  BY <1>1, HomesInvariant, PTL

-----------------------------------------------------------------------------
(* What a refusal means.                                                   *)

\* Entries of a full list are that many connections, none of them the one that is
\* refused.
LEMMA FullOfHolders ==
  ASSUME CInv, HInv, Patient, NEW c \in Conns, Refuse(c)
  PROVE  Cardinality(Holders(want[c]) \ {c}) >= MaxClients
<1> DEFINE a == want[c]
           l == clients[a]
           T == Holders(a) \ {c}
<1>1. a \in Accounts /\ pc[c] = "enter" /\ Len(l) >= MaxClients
  BY DEF CInv, WantOK, Refuse, At
<1>2. l \in Seq(Conns) /\ Len(l) \in Nat /\ DOMAIN l = 1..Len(l)
  BY <1>1, LenProperties DEF CInv, TypeOK
<1> HIDE DEF a, l
<1>3. ASSUME NEW i \in 1..Len(l) PROVE l[i] \in T
  <2> DEFINE d == l[i]
  <2>1. d \in Conns /\ Lists(l, d)
    BY <1>2, <1>3 DEF Lists
  <2> HIDE DEF d
  <2>2. Home(d) /\ ~rushed[d] /\ Home(c) /\ ~rushed[c]
    BY <2>1 DEF HInv, HomesOK, Patient
  <2>3. Listed(d)
    BY <1>1, <2>1 DEF Listed, l
  <2>4. user[d] = a /\ pc[d] \in {"idle", "ending"}
    BY <1>1, <2>1, <2>2, <2>3 DEF Home, l
  <2>5. d # c
    BY <1>1, <2>4
  <2>6. d \in T
    BY <1>1, <2>1, <2>4, <2>5 DEF Holders, l
  <2> QED
    BY <2>6 DEF d
<1>4. \A i, j \in 1..Len(l) : l[i] = l[j] => i = j
  <2> SUFFICES ASSUME NEW i \in 1..Len(l), NEW j \in 1..Len(l), l[i] = l[j] PROVE i = j
    OBVIOUS
  <2> DEFINE d == l[i]
  <2>1. d \in Conns
    BY <1>2
  <2>2. Once(l, d)
    BY <1>1, <2>1 DEF HInv, HomesOK, Home, Patient, l
  <2> QED
    BY <1>2, <2>2 DEF Once
<1>5. IsFiniteSet(T)
  <2>1. T \in SUBSET Conns
    BY DEF Holders
  <2> QED
    BY <2>1, RegistryAssumption, FS_Subset
<1> HIDE DEF T
<1>6. l \in Injection(1..Len(l), T)
  <2>1. l \in [1..Len(l) -> T]
    BY <1>2, <1>3
  <2> QED
    BY <1>4, <2>1 DEF Injection, IsInjective
<1>7. Cardinality(1..Len(l)) <= Cardinality(T) /\ Cardinality(1..Len(l)) = Len(l)
  <2>1. Cardinality(1..Len(l)) <= Cardinality(T)
    BY <1>5, <1>6, FS_Injection
  <2>2. Cardinality(1..Len(l)) = Len(l)
    BY <1>2, OneTo
  <2> QED
    BY <2>1, <2>2
<1>8. Cardinality(T) \in Nat
  BY <1>5, FS_CardinalityType
<1>9. Cardinality(T) >= MaxClients
  BY <1>1, <1>2, <1>7, <1>8, RegistryAssumption
<1> QED
  BY <1>9 DEF T, a

\* Nobody is turned away while the account has room: for any number of
\* connections, of which none hurries, a 421 means MaxClients other ones.
THEOREM RefusalsMeanFull == Spec => RefusalMeansFull
<1> DEFINE A == \A c \in Conns :
                  (Refuse(c) /\ \A d \in Conns : ~rushed[d])
                    => Cardinality(Holders(want[c]) \ {c}) >= MaxClients
<1>1. CInv /\ HInv => A
  BY FullOfHolders DEF Patient
<1> HIDE DEF A
<1>2. CInv /\ HInv => [A]_vars
  BY <1>1
<1>3. Spec => [][A]_vars
  BY <1>2, HomesInvariant, PTL
<1> QED
  BY <1>3 DEF A, RefusalMeansFull

-----------------------------------------------------------------------------
(* ClientRegistry implements AccountQuota.                                 *)

\* The home of a connection that has not hurried is where it is listed.
LEMMA HomeIsListed ==
  ASSUME NEW c \in Conns, Home(c), ~rushed[c], NEW a \in Accounts
  PROVE  /\ HomeOf(c) = a <=> Lists(clients[a], c)
         /\ HomeOf(c) # NoAccount <=> Listed(c)
         /\ HomeOf(c) \in Accounts \cup {NoAccount}
<1>1. \A b \in Accounts : b # NoAccount
  BY RegistryAssumption DEF Accounts
<1>2. CASE Listed(c)
  <2>1. PICK b \in Accounts : Lists(clients[b], c)
    BY <1>2 DEF Listed
  <2>2. \A e \in Accounts : Lists(clients[e], c) => e = b
    BY <2>1 DEF Home
  <2>3. HomeOf(c) = b
    BY <1>2, <2>1, <2>2 DEF HomeOf
  <2> QED
    BY <1>1, <1>2, <2>1, <2>2, <2>3
<1>3. CASE ~Listed(c)
  BY <1>1, <1>3 DEF HomeOf, Listed
<1> QED
  BY <1>2, <1>3

\* A connection listed where it was is at home where it was.
LEMMA SameHome ==
  ASSUME NEW c \in Conns,
         \A a \in Accounts : Lists(clients'[a], c) <=> Lists(clients[a], c)
  PROVE  HomeOf(c)' = HomeOf(c)
<1>1. Listed(c)' <=> Listed(c)
  BY DEF Listed
<1>2. (CHOOSE a \in Accounts : Lists(clients'[a], c))
        = (CHOOSE a \in Accounts : Lists(clients[a], c))
  OBVIOUS
<1> DEFINE new == CHOOSE a \in Accounts : Lists(clients'[a], c)
           old == CHOOSE a \in Accounts : Lists(clients[a], c)
<1>3. new = old
  BY <1>2
<1>4. HomeOf(c)' = IF Listed(c)' THEN new ELSE NoAccount
  BY DEF HomeOf
<1>5. HomeOf(c) = IF Listed(c) THEN old ELSE NoAccount
  BY DEF HomeOf
<1> HIDE DEF new, old
<1> QED
  BY <1>1, <1>3, <1>4, <1>5

\* A connection that has left, or never was anywhere, has no home.
LEMMA NoHome ==
  ASSUME NEW c \in Conns, \A a \in Accounts : ~Lists(clients'[a], c)
  PROVE  HomeOf(c)' = NoAccount
BY DEF HomeOf, Listed

\* The guests of an account are entries of its list.
LEMMA GuestsFit ==
  ASSUME CInv, HInv, Patient, NEW a \in Accounts
  PROVE  /\ Cardinality(Quota!Guests(a)) <= Len(clients[a])
         /\ Cardinality(Quota!Guests(a)) \in Nat
<1> DEFINE l == clients[a]
           G == Quota!Guests(a)
<1>1. l \in Seq(Conns) /\ Len(l) \in Nat /\ DOMAIN l = 1..Len(l)
  BY LenProperties DEF CInv, TypeOK
<1>2. \A c \in Conns : c \in G <=> Lists(l, c)
  <2> SUFFICES ASSUME NEW c \in Conns PROVE c \in G <=> Lists(l, c)
    OBVIOUS
  <2>1. Home(c) /\ ~rushed[c]
    BY DEF HInv, HomesOK, Patient
  <2>2. HomeOf(c) = a <=> Lists(l, c)
    BY <2>1, HomeIsListed
  <2> QED
    BY <2>2 DEF Quota!Guests, Patient
<1>3. G \subseteq Conns
  BY DEF Quota!Guests
<1> HIDE DEF l, G
<1>4. l \in Surjection(1..Len(l), G)
  <2>1. \A i \in 1..Len(l) : l[i] \in Conns /\ Lists(l, l[i])
    BY <1>1 DEF Lists
  <2>2. l \in [1..Len(l) -> G]
    BY <1>1, <1>2, <2>1
  <2>3. \A c \in G : \E i \in 1..Len(l) : l[i] = c
    BY <1>1, <1>2, <1>3 DEF Lists
  <2> QED
    BY <2>2, <2>3 DEF Surjection
<1>5. IsFiniteSet(1..Len(l)) /\ Cardinality(1..Len(l)) = Len(l)
  BY <1>1, OneTo
<1>6. Cardinality(G) <= Len(l) /\ IsFiniteSet(G)
  BY <1>4, <1>5, FS_Surjection
<1>7. Cardinality(G) \in Nat
  BY <1>6, FS_CardinalityType
<1> QED
  BY <1>6, <1>7 DEF l, G

\* A step of c leaves its entries alone, removes them all, or is the push.
LEMMA StepMoves ==
  ASSUME CInv, HInv, NEW c \in Conns, Step(c), ~rushed[c]
  PROVE  \/ \A a \in Accounts : Lists(clients'[a], c) <=> Lists(clients[a], c)
         \/ \A a \in Accounts : ~Lists(clients'[a], c)
         \/ Push(c)
<1>1. clients' = clients \/ clients' = Leave(c) \/ Push(c)
  BY DEF Step, User, UserUnknown, Admit, Refuse, PassOk, PassFails, Rein, UseAccount,
         Find, List, ListUses, ListEnds, Disconnect, End
<1>2. \A a \in Accounts : ~Lists(Leave(c)[a], c)
  BY LeaveGone DEF CInv, HInv, HomesOK
<1> QED
  BY <1>1, <1>2

\* Every step of a connection is a step of AccountQuota, or none.
LEMMA StepQuota ==
  ASSUME CInv, HInv, HInv', NEW c \in Conns, Step(c)
  PROVE  [Quota!Next]_(Quota!vars)
<1> DEFINE H == [d \in Conns |-> IF Patient THEN HomeOf(d) ELSE NoAccount]
<1>0. Aside(c) /\ TypeOK
  BY StepHomes DEF CInv
<1>1. \A d \in Conns : rushed[d] => rushed'[d]
  BY <1>0 DEF Aside
<1>2. CASE ~Patient
  <2>1. ~Patient'
    BY <1>1, <1>2 DEF Patient
  <2>2. H' = H /\ Patient' = Patient
    BY <1>2, <2>1 DEF Patient
  <2> QED
    BY <2>2 DEF Quota!vars
<1>3. CASE Patient /\ ~Patient'
  <2>1. H' = [d \in Conns |-> NoAccount]
    BY <1>3
  <2>2. Quota!Hurry
    BY <1>3, <2>1 DEF Quota!Hurry
  <2> QED
    BY <2>2 DEF Quota!Next
<1>4. CASE Patient /\ Patient'
  <2>1. \A d \in Conns : ~rushed[d] /\ ~rushed'[d] /\ Home(d) /\ Home(d)'
    BY <1>4 DEF Patient, HInv, HomesOK
  <2>2. \A d \in Conns \ {c} : HomeOf(d)' = HomeOf(d)
    BY <1>0, AsideEntries, SameHome
  <2>3. H = [d \in Conns |-> HomeOf(d)] /\ H' = [d \in Conns |-> HomeOf(d)']
    BY <1>4
  <2>4. H' = [H EXCEPT ![c] = HomeOf(c)']
    BY <2>2, <2>3
  <2>5. H[c] = HomeOf(c)
    BY <2>3
  <2> HIDE DEF H
  <2>6. CASE HomeOf(c)' = HomeOf(c)
    <3>1. H' = H
      BY <2>3, <2>4, <2>5, <2>6
    <3> QED
      BY <1>4, <3>1 DEF Quota!vars, H
  <2>7. CASE HomeOf(c) # NoAccount /\ HomeOf(c)' = NoAccount
    <3>1. H[c] # NoAccount /\ H' = [H EXCEPT ![c] = NoAccount]
      BY <2>4, <2>5, <2>7
    <3>2. Quota!Leave(c)
      BY <1>4, <3>1 DEF Quota!Leave, H
    <3> QED
      BY <3>2 DEF Quota!Next
  <2>8. CASE Push(c)
    <3> DEFINE acc == want[c]
    <3>1. /\ acc \in Accounts /\ pc[c] = "push" /\ Len(clients[acc]) < MaxClients
          /\ clients[acc] \in Seq(Conns)
      BY <2>8 DEF CInv, WantOK, AddingOK, TypeOK, Push, At
    <3>2. clients'[acc] = Append(clients[acc], c)
      BY <1>0, <2>8, <3>1 DEF Push, TypeOK
    <3> HIDE DEF acc
    <3>3. HomeOf(c) = NoAccount
      BY <2>1, <3>1 DEF Home, HomeOf
    <3>4. HomeOf(c)' = acc
      <4>1. Lists(clients'[acc], c)
        BY <3>1, <3>2, AppendEntries
      <4>2. user'[c] = acc
        BY <1>0, <2>8 DEF Push, TypeOK, acc
      <4>3. \A a \in Accounts : Lists(clients'[a], c) => a = acc
        BY <2>1, <4>2 DEF Home
      <4> QED
        BY <3>1, <4>1, <4>3 DEF HomeOf, Listed
    <3>5. Cardinality(Quota!Guests(acc)) < MaxClients
      <4>1. /\ Cardinality(Quota!Guests(acc)) <= Len(clients[acc])
            /\ Cardinality(Quota!Guests(acc)) \in Nat
        BY <1>4, <3>1, GuestsFit
      <4>2. Len(clients[acc]) \in Nat
        BY <3>1
      <4> QED
        BY <3>1, <4>1, <4>2, RegistryAssumption
    <3>6. Quota!Enter(c, acc)
      <4>1. H[c] = NoAccount /\ H' = [H EXCEPT ![c] = acc]
        BY <2>4, <2>5, <3>3, <3>4
      <4>2. Quota!Cardinality(Quota!Guests(acc)) = Cardinality(Quota!Guests(acc))
        BY DEF Quota!Cardinality, Cardinality
      <4> QED
        BY <1>4, <3>5, <4>1, <4>2 DEF Quota!Enter, H
    <3> QED
      BY <3>1, <3>6 DEF Quota!Next
  <2>9. \/ HomeOf(c)' = HomeOf(c)
        \/ HomeOf(c)' = NoAccount
        \/ Push(c)
    BY <2>1, StepMoves, SameHome, NoHome
  <2> QED
    BY <2>6, <2>7, <2>8, <2>9
<1> QED
  BY <1>2, <1>3, <1>4

\* The lists, the two steps of add_client and the nodes' own user_ pointers keep
\* the promise of AccountQuota, for any number of connections and accounts.
THEOREM RegistryImplementsQuota == Spec => QuotaKept
<1>1. Init => Quota!Init
  <2> SUFFICES ASSUME Init PROVE Quota!Init
    OBVIOUS
  <2>1. Patient
    BY DEF Init, Patient
  <2>2. \A c \in Conns : HomeOf(c) = NoAccount
    BY DEF Init, HomeOf, Listed, Lists
  <2> QED
    BY <2>1, <2>2 DEF Quota!Init
<1>2. CInv /\ HInv /\ HInv' /\ [Next]_vars => [Quota!Next]_(Quota!vars)
  <2> SUFFICES ASSUME CInv, HInv, HInv', [Next]_vars PROVE [Quota!Next]_(Quota!vars)
    OBVIOUS
  <2>1. CASE UNCHANGED vars
    <3>1. Patient' = Patient /\ \A c \in Conns : HomeOf(c)' = HomeOf(c)
      BY <2>1 DEF vars, fields, threads, Patient, HomeOf, Listed
    <3> QED
      BY <3>1 DEF Quota!vars
  <2>2. CASE Next
    BY <2>2, StepQuota DEF Next
  <2> QED
    BY <2>1, <2>2
<1> QED
  BY <1>1, <1>2, HomesInvariant, PTL DEF Spec, QuotaKept, Quota!Spec
=============================================================================
