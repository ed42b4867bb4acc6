-------------------------- MODULE PathCommandsProofs --------------------------
(***************************************************************************)
(* Sessions, paths and a changing tree, for any tree, any number of        *)
(* sessions and paths of any length.                                       *)
(***************************************************************************)
EXTENDS PathCommands, SequenceInduction

-----------------------------------------------------------------------------
(* Paths, one name at a time.                                              *)

Places == Objects \cup {NoObject}

\* IsTree, as the proofs use it.
WellFormed(t) ==
  /\ t.kind[Home] = "dir"
  /\ Below(t, Home) = Exists(t)
  /\ \A o \in Objects, n \in Names : Child(t, o, n) # Home
  /\ \A d, e \in Objects, n, m \in Names :
       (Child(t, d, n) = Child(t, e, m) /\ Child(t, d, n) # NoObject) => d = e /\ n = m

\* What a directory holds is an object, if it is anything.
LEMMA ChildIs ==
  ASSUME NEW t \in Trees, NEW o \in Places, NEW n \in Names
  PROVE  Child(t, o, n) \in Places
BY DEF Child, Trees, Places

\* The function that Plain takes its last value of.
LEMMA PlainSteps ==
  ASSUME NEW t \in Trees, NEW p \in Seq(Names)
  PROVE  \E at : /\ at \in [0..Len(p) -> Places]
                 /\ at[0] = Home
                 /\ \A i \in 1..Len(p) : at[i] = Child(t, at[i - 1], p[i])
                 /\ Plain(t, p) = at[Len(p)]
<1> DEFINE n == Len(p)
           at == CHOOSE g : g = [i \in 0..n |-> IF i = 0 THEN Home ELSE Child(t, g[i - 1], p[i])]
           F == [i \in 1..n |-> [x \in Places |-> Child(t, x, p[i])]]
<1>1. n \in Nat /\ \A i \in 1..n : p[i] \in Names
  BY LenProperties, ElementOfSeq
<1>2. /\ F \in [1..n -> [Places -> Places]]
      /\ \A i \in 1..n, x \in Places : F[i][x] = Child(t, x, p[i])
  BY <1>1, ChildIs
<1>3. Home \in Places
  BY TreeAssumption DEF Places
<1>4. Plain(t, p) = at[n]
  BY DEF Plain
<1> HIDE DEF F, n
<1>5. PICK f : Iterates(f, Places, Home, n, F)
  BY <1>1, <1>2, <1>3, Recursion
<1>6. ASSUME NEW i \in 0..n
      PROVE  f[i] = IF i = 0 THEN Home ELSE Child(t, f[i - 1], p[i])
  <2>1. CASE i = 0
    BY <1>5, <2>1 DEF Iterates
  <2>2. CASE i # 0
    <3>1. i \in 1..n /\ i - 1 \in 0..n
      BY <1>1, <2>2
    <3> QED
      BY <1>2, <1>5, <2>2, <3>1 DEF Iterates
  <2> QED
    BY <2>1, <2>2
<1>7. f = [i \in 0..n |-> IF i = 0 THEN Home ELSE Child(t, f[i - 1], p[i])]
  <2>1. f = [i \in 0..n |-> f[i]]
    BY <1>5 DEF Iterates
  <2> QED
    BY <1>6, <2>1
<1>8. at = [i \in 0..n |-> IF i = 0 THEN Home ELSE Child(t, at[i - 1], p[i])]
  <2> DEFINE e(g) == [i \in 0..n |-> IF i = 0 THEN Home ELSE Child(t, g[i - 1], p[i])]
  <2>1. at = CHOOSE g : g = e(g)
    OBVIOUS
  <2>2. \E g : g = e(g)
    BY <1>7
  <2> HIDE DEF at, e
  <2>3. at = e(at)
    BY <2>1, <2>2
  <2> QED
    BY <2>3 DEF e
<1> HIDE DEF at
<1>9. \A i \in 1..n : at[i] = Child(t, at[i - 1], p[i])
  <2>1. \A i \in 1..n : i \in 0..n /\ i # 0
    BY <1>1
  <2> QED
    BY <1>8, <2>1
<1>10. at[0] = Home
  <2>1. 0 \in 0..n
    BY <1>1
  <2> QED
    BY <1>8, <2>1
<1>11. \A i \in 0..n : at[i] \in Places
  <2> DEFINE S == {k \in Nat : k <= n => at[k] \in Places}
  <2>1. 0 \in S
    BY <1>3, <1>10
  <2>2. ASSUME NEW k \in Nat, k \in S PROVE k + 1 \in S
    <3>1. CASE k + 1 <= n
      <4>1. at[k] \in Places /\ k + 1 \in 1..n /\ (k + 1) - 1 = k
        BY <1>1, <2>2, <3>1
      <4> QED
        <5>1. at[k + 1] = Child(t, at[k], p[k + 1]) /\ p[k + 1] \in Names
          BY <1>1, <1>9, <4>1
        <5> QED
          BY <4>1, <5>1, ChildIs
    <3>2. CASE ~(k + 1 <= n)
      BY <3>2
    <3> QED
      BY <3>1, <3>2
  <2>3. Nat \subseteq S
    <3> HIDE DEF S
    <3> QED
      BY <2>1, <2>2, NatSet
  <2> QED
    BY <1>1, <2>3
<1>12. at \in [0..n -> Places]
  BY <1>8, <1>11
<1> QED
  BY <1>4, <1>9, <1>10, <1>12 DEF n

\* Plain, one name at a time.
LEMMA PlainIs ==
  ASSUME NEW t \in Trees
  PROVE  /\ Plain(t, <<>>) = Home
         /\ \A p \in Seq(Names) : Plain(t, p) \in Places
         /\ \A p \in Seq(Names), n \in Names : Plain(t, Append(p, n)) = Child(t, Plain(t, p), n)
<1>1. Plain(t, <<>>) = Home
  <2>1. <<>> \in Seq(Names) /\ Len(<<>>) = 0
    BY EmptySeq
  <2> QED
    BY <2>1, PlainSteps
<1>2. ASSUME NEW p \in Seq(Names) PROVE Plain(t, p) \in Places
  <2>1. Len(p) \in 0..Len(p)
    BY LenProperties
  <2> QED
    BY <2>1, PlainSteps
<1>3. ASSUME NEW p \in Seq(Names), NEW n \in Names
      PROVE  Plain(t, Append(p, n)) = Child(t, Plain(t, p), n)
  <2> DEFINE q == Append(p, n)
  <2>1. /\ q \in Seq(Names) /\ Len(p) \in Nat /\ Len(q) = Len(p) + 1
        /\ q[Len(p) + 1] = n /\ \A i \in 1..Len(p) : q[i] = p[i]
    BY AppendProperties, LenProperties
  <2> HIDE DEF q
  <2>2. PICK a : /\ a[0] = Home /\ \A i \in 1..Len(p) : a[i] = Child(t, a[i - 1], p[i])
                 /\ Plain(t, p) = a[Len(p)]
    BY PlainSteps
  <2>3. PICK b : /\ b[0] = Home /\ \A i \in 1..Len(q) : b[i] = Child(t, b[i - 1], q[i])
                 /\ Plain(t, q) = b[Len(q)]
    BY <2>1, PlainSteps
  <2> DEFINE S == {k \in Nat : k <= Len(p) => a[k] = b[k]}
  <2>4. 0 \in S
    BY <2>2, <2>3
  <2>5. ASSUME NEW k \in Nat, k \in S PROVE k + 1 \in S
    <3> SUFFICES ASSUME k + 1 <= Len(p) PROVE a[k + 1] = b[k + 1]
      OBVIOUS
    <3>1. k + 1 \in 1..Len(p) /\ k + 1 \in 1..Len(q) /\ (k + 1) - 1 = k /\ a[k] = b[k]
      BY <2>1, <2>5
    <3> QED
      BY <2>1, <2>2, <2>3, <3>1
  <2>6. Nat \subseteq S
    <3> HIDE DEF S
    <3> QED
      BY <2>4, <2>5, NatSet
  <2>7. a[Len(p)] = b[Len(p)] /\ Len(q) \in 1..Len(q) /\ Len(q) - 1 = Len(p)
    BY <2>1, <2>6
  <2>8. b[Len(q)] = Child(t, b[Len(p)], n)
    BY <2>1, <2>3, <2>7
  <2> QED
    BY <2>2, <2>3, <2>7, <2>8 DEF q
<1> QED
  BY <1>1, <1>2, <1>3

\* Where a walk may be.
Spots == [object : Places, path : Seq(Names)]

LEMMA TargetIs ==
  ASSUME NEW t \in Trees, NEW o \in Objects
  PROVE  /\ t.link[o] \in Seq(Names) /\ Target(t, o) \in Places
         /\ ~IsLink(t, Target(t, o))
         /\ Target(t, o) # NoObject => Plain(t, t.link[o]) = Target(t, o)
<1>1. t.link[o] \in Seq(Names)
  BY DEF Trees
<1>2. Plain(t, t.link[o]) \in Places
  BY <1>1, PlainIs
<1> QED
  BY <1>1, <1>2 DEF Target, IsLink, Places

LEMMA FollowIs ==
  ASSUME NEW t \in Trees, NEW at \in Spots, NEW n \in Names
  PROVE  Follow(t, at, n) \in Spots
<1> DEFINE o == Child(t, at.object, n)
<1>1. o \in Places /\ at.path \in Seq(Names)
  BY ChildIs DEF Spots
<1>2. CASE IsLink(t, o)
  <2>1. o \in Objects
    BY <1>1, <1>2 DEF IsLink, Places
  <2> QED
    BY <1>2, <2>1, TargetIs DEF Follow, Spots
<1>3. CASE ~IsLink(t, o)
  <2>1. Append(at.path, n) \in Seq(Names)
    BY <1>1, AppendProperties
  <2> QED
    BY <1>1, <1>3, <2>1 DEF Follow, Spots
<1> QED
  BY <1>2, <1>3

\* The function that Walk takes its last value of.
LEMMA WalkSteps ==
  ASSUME NEW t \in Trees, NEW p \in Seq(Names)
  PROVE  \E at : /\ at \in [0..Len(p) -> Spots]
                 /\ at[0] = Top
                 /\ \A i \in 1..Len(p) : at[i] = Follow(t, at[i - 1], p[i])
                 /\ Walk(t, p) = at[Len(p)]
<1> DEFINE n == Len(p)
           at == CHOOSE g : g = [i \in 0..n |-> IF i = 0 THEN Top ELSE Follow(t, g[i - 1], p[i])]
           F == [i \in 1..n |-> [x \in Spots |-> Follow(t, x, p[i])]]
<1>1. n \in Nat /\ \A i \in 1..n : p[i] \in Names
  BY LenProperties, ElementOfSeq
<1>2. /\ F \in [1..n -> [Spots -> Spots]]
      /\ \A i \in 1..n, x \in Spots : F[i][x] = Follow(t, x, p[i])
  BY <1>1, FollowIs
<1>3. Top \in Spots
  BY TreeAssumption, EmptySeq DEF Spots, Top, Places
<1>4. Walk(t, p) = at[n]
  BY DEF Walk
<1> HIDE DEF F, n
<1>5. PICK f : Iterates(f, Spots, Top, n, F)
  BY <1>1, <1>2, <1>3, Recursion
<1>6. ASSUME NEW i \in 0..n
      PROVE  f[i] = IF i = 0 THEN Top ELSE Follow(t, f[i - 1], p[i])
  <2>1. CASE i = 0
    BY <1>5, <2>1 DEF Iterates
  <2>2. CASE i # 0
    <3>1. i \in 1..n /\ i - 1 \in 0..n
      BY <1>1, <2>2
    <3> QED
      BY <1>2, <1>5, <2>2, <3>1 DEF Iterates
  <2> QED
    BY <2>1, <2>2
<1>7. f = [i \in 0..n |-> IF i = 0 THEN Top ELSE Follow(t, f[i - 1], p[i])]
  <2>1. f = [i \in 0..n |-> f[i]]
    BY <1>5 DEF Iterates
  <2> QED
    BY <1>6, <2>1
<1>8. at = [i \in 0..n |-> IF i = 0 THEN Top ELSE Follow(t, at[i - 1], p[i])]
  <2> DEFINE e(g) == [i \in 0..n |-> IF i = 0 THEN Top ELSE Follow(t, g[i - 1], p[i])]
  <2>1. at = CHOOSE g : g = e(g)
    OBVIOUS
  <2>2. \E g : g = e(g)
    BY <1>7
  <2> HIDE DEF at, e
  <2>3. at = e(at)
    BY <2>1, <2>2
  <2> QED
    BY <2>3 DEF e
<1> HIDE DEF at
<1>9. \A i \in 1..n : at[i] = Follow(t, at[i - 1], p[i])
  <2>1. \A i \in 1..n : i \in 0..n /\ i # 0
    BY <1>1
  <2> QED
    BY <1>8, <2>1
<1>10. at[0] = Top
  <2>1. 0 \in 0..n
    BY <1>1
  <2> QED
    BY <1>8, <2>1
<1>11. \A i \in 0..n : at[i] \in Spots
  <2> DEFINE S == {k \in Nat : k <= n => at[k] \in Spots}
  <2>1. 0 \in S
    BY <1>3, <1>10
  <2>2. ASSUME NEW k \in Nat, k \in S PROVE k + 1 \in S
    <3>1. CASE k + 1 <= n
      <4>1. at[k] \in Spots /\ k + 1 \in 1..n /\ (k + 1) - 1 = k
        BY <1>1, <2>2, <3>1
      <4> QED
        <5>1. at[k + 1] = Follow(t, at[k], p[k + 1]) /\ p[k + 1] \in Names
          BY <1>1, <1>9, <4>1
        <5> QED
          BY <4>1, <5>1, FollowIs
    <3>2. CASE ~(k + 1 <= n)
      BY <3>2
    <3> QED
      BY <3>1, <3>2
  <2>3. Nat \subseteq S
    <3> HIDE DEF S
    <3> QED
      BY <2>1, <2>2, NatSet
  <2> QED
    BY <1>1, <2>3
<1>12. at \in [0..n -> Spots]
  BY <1>8, <1>11
<1> QED
  BY <1>4, <1>9, <1>10, <1>12 DEF n

\* Walk, one name at a time.
LEMMA WalkIs ==
  ASSUME NEW t \in Trees
  PROVE  /\ Walk(t, <<>>) = Top
         /\ \A p \in Seq(Names) : Walk(t, p) \in Spots
         /\ \A p \in Seq(Names), n \in Names : Walk(t, Append(p, n)) = Follow(t, Walk(t, p), n)
<1>1. Walk(t, <<>>) = Top
  <2>1. <<>> \in Seq(Names) /\ Len(<<>>) = 0
    BY EmptySeq
  <2> QED
    BY <2>1, WalkSteps
<1>2. ASSUME NEW p \in Seq(Names) PROVE Walk(t, p) \in Spots
  <2>1. Len(p) \in 0..Len(p)
    BY LenProperties
  <2> QED
    BY <2>1, WalkSteps
<1>3. ASSUME NEW p \in Seq(Names), NEW n \in Names
      PROVE  Walk(t, Append(p, n)) = Follow(t, Walk(t, p), n)
  <2> DEFINE q == Append(p, n)
  <2>1. /\ q \in Seq(Names) /\ Len(p) \in Nat /\ Len(q) = Len(p) + 1
        /\ q[Len(p) + 1] = n /\ \A i \in 1..Len(p) : q[i] = p[i]
    BY AppendProperties, LenProperties
  <2> HIDE DEF q
  <2>2. PICK a : /\ a[0] = Top /\ \A i \in 1..Len(p) : a[i] = Follow(t, a[i - 1], p[i])
                 /\ Walk(t, p) = a[Len(p)]
    BY WalkSteps
  <2>3. PICK b : /\ b[0] = Top /\ \A i \in 1..Len(q) : b[i] = Follow(t, b[i - 1], q[i])
                 /\ Walk(t, q) = b[Len(q)]
    BY <2>1, WalkSteps
  <2> DEFINE S == {k \in Nat : k <= Len(p) => a[k] = b[k]}
  <2>4. 0 \in S
    BY <2>2, <2>3
  <2>5. ASSUME NEW k \in Nat, k \in S PROVE k + 1 \in S
    <3> SUFFICES ASSUME k + 1 <= Len(p) PROVE a[k + 1] = b[k + 1]
      OBVIOUS
    <3>1. k + 1 \in 1..Len(p) /\ k + 1 \in 1..Len(q) /\ (k + 1) - 1 = k /\ a[k] = b[k]
      BY <2>1, <2>5
    <3> QED
      BY <2>1, <2>2, <2>3, <3>1
  <2>6. Nat \subseteq S
    <3> HIDE DEF S
    <3> QED
      BY <2>4, <2>5, NatSet
  <2>7. a[Len(p)] = b[Len(p)] /\ Len(q) \in 1..Len(q) /\ Len(q) - 1 = Len(p)
    BY <2>1, <2>6
  <2>8. b[Len(q)] = Follow(t, b[Len(p)], n)
    BY <2>1, <2>3, <2>7
  <2> QED
    BY <2>2, <2>3, <2>7, <2>8 DEF q
<1> QED
  BY <1>1, <1>2, <1>3

\* What a path leads to and what it names are places.
LEMMA StatusIs ==
  ASSUME NEW t \in Trees, NEW p \in Seq(Names)
  PROVE  /\ Status(t, p) \in Places /\ Walk(t, p).path \in Seq(Names)
         /\ Named(t, p) \in Places
         /\ p # <<>> => Parent(t, p) \in Places /\ Last(p) \in Names
<1>1. \A q \in Seq(Names) : Status(t, q) \in Places /\ Walk(t, q).path \in Seq(Names)
  BY WalkIs DEF Status, Spots
<1>2. ASSUME p # <<>>
      PROVE  Parent(t, p) \in Places /\ Last(p) \in Names
  BY <1>1, <1>2, FrontLast DEF Parent
<1>3. Home \in Places
  BY TreeAssumption DEF Places
<1> QED
  BY <1>1, <1>2, <1>3, ChildIs DEF Named

LEMMA NamedIs ==
  ASSUME NEW t \in Trees
  PROVE  /\ Named(t, <<>>) = Home
         /\ \A p \in Seq(Names), n \in Names : Named(t, Append(p, n)) = Child(t, Status(t, p), n)
<1>1. ASSUME NEW p \in Seq(Names), NEW n \in Names
      PROVE  Named(t, Append(p, n)) = Child(t, Status(t, p), n)
  <2>1. Append(p, n) # <<>> /\ Front(Append(p, n)) = p /\ Last(Append(p, n)) = n
    BY AppendProperties, FrontLast
  <2> QED
    BY <2>1 DEF Named, Parent
<1> QED
  BY <1>1 DEF Named

\* The canonical path leads where the path does, and over directories only.
LEMMA CanonicalIs ==
  ASSUME NEW t \in Trees, WellFormed(t), NEW p \in Seq(Names), Status(t, p) # NoObject
  PROVE  Plain(t, Walk(t, p).path) = Status(t, p) /\ ~IsLink(t, Status(t, p))
<1> DEFINE S == {q \in Seq(Names) : Status(t, q) # NoObject =>
                   Plain(t, Walk(t, q).path) = Status(t, q) /\ ~IsLink(t, Status(t, q))}
<1>1. <<>> \in S
  <2>1. Walk(t, <<>>) = [object |-> Home, path |-> <<>>]
    BY WalkIs DEF Top
  <2> QED
    BY <2>1, PlainIs, EmptySeq DEF Status, WellFormed, IsLink
<1>2. ASSUME NEW q \in Seq(Names), NEW n \in Names, q \in S PROVE Append(q, n) \in S
  <2> DEFINE at == Walk(t, q)
             o == Child(t, at.object, n)
  <2>1. Append(q, n) \in Seq(Names) /\ at \in Spots
    BY AppendProperties, WalkIs
  <2>2. Walk(t, Append(q, n)) = Follow(t, at, n)
    BY WalkIs
  <2>3. at.object \in Places /\ at.path \in Seq(Names) /\ o \in Places
    BY <2>1, ChildIs DEF Spots
  <2> SUFFICES ASSUME Follow(t, at, n).object # NoObject
               PROVE  /\ Plain(t, Follow(t, at, n).path) = Follow(t, at, n).object
                      /\ ~IsLink(t, Follow(t, at, n).object)
    BY <2>1, <2>2 DEF Status
  <2>4. CASE IsLink(t, o)
    <3>1. o \in Objects
      BY <2>3, <2>4 DEF IsLink, Places
    <3>2. Follow(t, at, n) = [object |-> Target(t, o), path |-> t.link[o]]
      BY <2>4 DEF Follow
    <3> QED
      BY <3>1, <3>2, TargetIs
  <2>5. CASE ~IsLink(t, o)
    <3>1. Follow(t, at, n) = [object |-> o, path |-> Append(at.path, n)]
      BY <2>5 DEF Follow
    <3>2. at.object # NoObject
      BY <3>1 DEF Child
    <3>3. Plain(t, at.path) = at.object
      BY <1>2, <3>2 DEF Status
    <3> QED
      BY <2>3, <2>5, <3>1, <3>3, PlainIs
  <2> QED
    BY <2>4, <2>5
<1>3. Seq(Names) \subseteq S
  <2> HIDE DEF S
  <2> QED
    BY <1>1, <1>2, SeqSet
<1> QED
  BY <1>3

\* A walk over directories only stays as it is.
LEMMA PlainWalk ==
  ASSUME NEW t \in Trees, NEW p \in Seq(Names),
         Plain(t, p) # NoObject, ~IsLink(t, Plain(t, p))
  PROVE  Walk(t, p) = [object |-> Plain(t, p), path |-> p]
<1> DEFINE S == {q \in Seq(Names) : Plain(t, q) # NoObject /\ ~IsLink(t, Plain(t, q))
                   => Walk(t, q) = [object |-> Plain(t, q), path |-> q]}
<1>1. <<>> \in S
  BY WalkIs, PlainIs, EmptySeq DEF Top
<1>2. ASSUME NEW q \in Seq(Names), NEW n \in Names, q \in S PROVE Append(q, n) \in S
  <2>1. /\ Append(q, n) \in Seq(Names)
        /\ Walk(t, Append(q, n)) = Follow(t, Walk(t, q), n)
        /\ Plain(t, Append(q, n)) = Child(t, Plain(t, q), n)
    BY AppendProperties, WalkIs, PlainIs
  <2> SUFFICES ASSUME Child(t, Plain(t, q), n) # NoObject, ~IsLink(t, Child(t, Plain(t, q), n))
               PROVE  Follow(t, Walk(t, q), n)
                      = [object |-> Child(t, Plain(t, q), n), path |-> Append(q, n)]
    BY <2>1
  <2>2. Plain(t, q) # NoObject /\ ~IsLink(t, Plain(t, q))
    BY DEF Child, IsLink
  <2>3. Walk(t, q) = [object |-> Plain(t, q), path |-> q]
    BY <1>2, <2>2
  <2> QED
    BY <2>3 DEF Follow
<1>3. Seq(Names) \subseteq S
  <2> HIDE DEF S
  <2> QED
    BY <1>1, <1>2, SeqSet
<1> QED
  BY <1>3

\* Such a path names what it leads to.
LEMMA PlainNamed ==
  ASSUME NEW t \in Trees, NEW p \in Seq(Names), Plain(t, p) # NoObject
  PROVE  Named(t, p) = Plain(t, p)
<1>1. CASE p = <<>>
  BY <1>1, NamedIs, PlainIs
<1>2. CASE p # <<>>
  <2>1. PICK q \in Seq(Names), n \in Names : p = Append(q, n)
    BY <1>2, SequenceEmptyOrAppend
  <2>2. Plain(t, p) = Child(t, Plain(t, q), n)
    BY <2>1, PlainIs
  <2>3. Plain(t, q) # NoObject /\ ~IsLink(t, Plain(t, q))
    BY <2>2 DEF Child, IsLink
  <2>4. Status(t, q) = Plain(t, q)
    BY <2>3, PlainWalk DEF Status
  <2> QED
    BY <2>1, <2>2, <2>4, NamedIs
<1> QED
  BY <1>1, <1>2

-----------------------------------------------------------------------------
(* What a change leaves where it is.                                       *)

\* From t to u nothing but S moves, goes or changes its kind.
Moves(t, u, S) ==
  /\ S \subseteq Objects /\ Home \notin S /\ Closed(t, S)
  /\ u.link = t.link
  /\ \A o \in Exists(t) \ S : u.kind[o] = t.kind[o]
  /\ \A d \in Places, n \in Names :
       Child(t, d, n) \notin S \cup {NoObject} => Child(u, d, n) = Child(t, d, n)

\* An entry is something that exists.
LEMMA ChildExists ==
  ASSUME NEW t \in Trees, WellFormed(t), NEW d \in Places, NEW n \in Names,
         Child(t, d, n) # NoObject
  PROVE  Child(t, d, n) \in Exists(t) /\ d \in Exists(t)
<1>1. d \in Objects /\ t.kind[d] = "dir" /\ Child(t, d, n) \in Objects
  BY ChildIs DEF Child, Places
<1>2. d \in Exists(t)
  BY <1>1 DEF Exists
<1>3. ASSUME NEW S \in SUBSET Objects, Home \in S, Closed(t, S)
      PROVE  Child(t, d, n) \in S
  <2>1. d \in S
    BY <1>2, <1>3 DEF WellFormed, Below
  <2> QED
    BY <1>3, <2>1 DEF Closed
<1> QED
  BY <1>1, <1>2, <1>3 DEF WellFormed, Below

\* A path of directories outside of S leads where it led.
LEMMA PlainKept ==
  ASSUME NEW t \in Trees, NEW u \in Trees, NEW S, WellFormed(t), Moves(t, u, S),
         NEW p \in Seq(Names), Plain(t, p) \notin S \cup {NoObject}
  PROVE  Plain(u, p) = Plain(t, p)
<1> DEFINE K == {q \in Seq(Names) : Plain(t, q) \notin S \cup {NoObject}
                                    => Plain(u, q) = Plain(t, q)}
<1>1. <<>> \in K
  BY PlainIs, EmptySeq
<1>2. ASSUME NEW q \in Seq(Names), NEW n \in Names, q \in K PROVE Append(q, n) \in K
  <2>1. /\ Append(q, n) \in Seq(Names) /\ Plain(t, q) \in Places
        /\ Plain(t, Append(q, n)) = Child(t, Plain(t, q), n)
        /\ Plain(u, Append(q, n)) = Child(u, Plain(u, q), n)
    BY AppendProperties, PlainIs
  <2> SUFFICES ASSUME Child(t, Plain(t, q), n) \notin S \cup {NoObject}
               PROVE  Child(u, Plain(u, q), n) = Child(t, Plain(t, q), n)
    BY <2>1
  <2>2. Plain(t, q) \notin S \cup {NoObject}
    BY <2>1 DEF Moves, Closed, Child
  <2>3. Plain(u, q) = Plain(t, q)
    BY <1>2, <2>2
  <2> QED
    BY <2>1, <2>3 DEF Moves
<1>3. Seq(Names) \subseteq K
  <2> HIDE DEF K
  <2> QED
    BY <1>1, <1>2, SeqSet
<1> QED
  BY <1>3

LEMMA PlainExists ==
  ASSUME NEW t \in Trees, WellFormed(t), NEW p \in Seq(Names), Plain(t, p) # NoObject
  PROVE  Plain(t, p) \in Exists(t)
<1>1. CASE p = <<>>
  BY <1>1, PlainIs, TreeAssumption DEF WellFormed, Exists
<1>2. CASE p # <<>>
  <2>1. PICK q \in Seq(Names), n \in Names : p = Append(q, n)
    BY <1>2, SequenceEmptyOrAppend
  <2>2. Plain(t, p) = Child(t, Plain(t, q), n) /\ Plain(t, q) \in Places
    BY <2>1, PlainIs
  <2> QED
    BY <2>2, ChildExists
<1> QED
  BY <1>1, <1>2

LEMMA StatusExists ==
  ASSUME NEW t \in Trees, WellFormed(t), NEW p \in Seq(Names), Status(t, p) # NoObject
  PROVE  Status(t, p) \in Exists(t)
<1>1. Walk(t, p).path \in Seq(Names) /\ Plain(t, Walk(t, p).path) = Status(t, p)
  BY StatusIs, CanonicalIs
<1> QED
  BY <1>1, PlainExists

\* With no link in S any path to an object outside of S leads where it led.
LEMMA WalkKept ==
  ASSUME NEW t \in Trees, NEW u \in Trees, NEW S, WellFormed(t), Moves(t, u, S),
         \A o \in S : ~IsLink(t, o),
         NEW p \in Seq(Names), Status(t, p) \notin S \cup {NoObject}
  PROVE  Walk(u, p) = Walk(t, p)
<1> DEFINE K == {q \in Seq(Names) : Status(t, q) \notin S \cup {NoObject}
                                    => Walk(u, q) = Walk(t, q)}
<1>1. <<>> \in K
  BY WalkIs, EmptySeq
<1>2. ASSUME NEW q \in Seq(Names), NEW n \in Names, q \in K PROVE Append(q, n) \in K
  <2> DEFINE at == Walk(t, q)
             o == Child(t, at.object, n)
  <2>1. /\ Append(q, n) \in Seq(Names) /\ at \in Spots /\ at.object \in Places /\ o \in Places
        /\ Walk(t, Append(q, n)) = Follow(t, at, n)
        /\ Walk(u, Append(q, n)) = Follow(u, Walk(u, q), n)
    BY AppendProperties, WalkIs, ChildIs DEF Spots
  <2> SUFFICES ASSUME Follow(t, at, n).object \notin S \cup {NoObject}
               PROVE  Follow(u, Walk(u, q), n) = Follow(t, at, n)
    BY <2>1 DEF Status
  <2>2. o \notin S \cup {NoObject}
    <3>1. CASE IsLink(t, o)
      BY <3>1 DEF IsLink
    <3>2. CASE ~IsLink(t, o)
      BY <3>2 DEF Follow
    <3> QED
      BY <3>1, <3>2
  <2>3. at.object \notin S \cup {NoObject}
    BY <2>2 DEF Moves, Closed, Child
  <2>4. Walk(u, q) = at
    BY <1>2, <2>3 DEF Status
  <2>5. Child(u, at.object, n) = o
    BY <2>1, <2>2 DEF Moves
  <2>6. o \in Exists(t)
    BY <2>1, <2>2, ChildExists
  <2>7. IsLink(u, o) = IsLink(t, o)
    BY <2>2, <2>6 DEF Moves, IsLink
  <2>8. CASE ~IsLink(t, o)
    BY <2>4, <2>5, <2>7, <2>8 DEF Follow
  <2>9. CASE IsLink(t, o)
    <3>1. o \in Objects /\ u.link[o] = t.link[o] /\ t.link[o] \in Seq(Names)
      BY <2>6, TargetIs DEF Moves, Exists
    <3>2. Target(t, o) \notin S \cup {NoObject}
      BY <2>9 DEF Follow
    <3>3. Plain(t, t.link[o]) = Target(t, o) /\ ~IsLink(t, Target(t, o))
      BY <3>1, <3>2, TargetIs
    <3>4. Plain(u, t.link[o]) = Target(t, o)
      BY <3>1, <3>2, <3>3, PlainKept
    <3>5. Target(t, o) \in Exists(t)
      BY <3>1, <3>2, <3>3, PlainExists
    <3>6. ~IsLink(u, Target(t, o))
      BY <3>2, <3>3, <3>5 DEF Moves, IsLink
    <3>7. Target(u, o) = Target(t, o)
      BY <3>1, <3>4, <3>6 DEF Target
    <3> HIDE DEF at, o
    <3> QED
      BY <2>4, <2>5, <2>7, <2>9, <3>1, <3>7 DEF Follow, o
  <2> QED
    BY <2>8, <2>9
<1>3. Seq(Names) \subseteq K
  <2> HIDE DEF K
  <2> QED
    BY <1>1, <1>2, SeqSet
<1> QED
  BY <1>3

\* Or if it leads over no link itself.
LEMMA StatusKept ==
  ASSUME NEW t \in Trees, NEW u \in Trees, NEW S, WellFormed(t), Moves(t, u, S),
         NEW p \in Seq(Names), Straight(t, p) \/ \A o \in S : ~IsLink(t, o),
         Status(t, p) \notin S \cup {NoObject}
  PROVE  Status(u, p) = Status(t, p)
<1>1. CASE \A o \in S : ~IsLink(t, o)
  BY <1>1, WalkKept DEF Status
<1>2. CASE Straight(t, p)
  <2>1. Plain(t, p) = Status(t, p) /\ ~IsLink(t, Plain(t, p)) /\ Plain(t, p) \notin S \cup {NoObject}
    BY <1>2, CanonicalIs DEF Straight
  <2>2. Plain(u, p) = Plain(t, p) /\ Plain(t, p) \in Exists(t)
    BY <2>1, PlainKept, PlainExists
  <2>3. ~IsLink(u, Plain(u, p)) /\ Plain(u, p) # NoObject
    BY <2>1, <2>2 DEF Moves, IsLink
  <2>4. Status(u, p) = Plain(u, p)
    BY <2>3, PlainWalk DEF Status
  <2> QED
    BY <2>1, <2>2, <2>4
<1> QED
  BY <1>1, <1>2

\* The same for what it names, which may be a link.
LEMMA NamedKept ==
  ASSUME NEW t \in Trees, NEW u \in Trees, NEW S, WellFormed(t), Moves(t, u, S),
         NEW p \in Seq(Names), Straight(t, Front(p)) \/ \A o \in S : ~IsLink(t, o),
         Named(t, p) \notin S \cup {NoObject}
  PROVE  Named(u, p) = Named(t, p)
<1>1. CASE p = <<>>
  BY <1>1, NamedIs
<1>2. CASE p # <<>>
  <2>1. PICK q \in Seq(Names), n \in Names : p = Append(q, n)
    BY <1>2, SequenceEmptyOrAppend
  <2>2. /\ Named(t, p) = Child(t, Status(t, q), n) /\ Named(u, p) = Child(u, Status(u, q), n)
        /\ Front(p) = q
    BY <2>1, NamedIs, FrontLast
  <2>3. Status(t, q) \in Places
    BY StatusIs
  <2>4. Status(t, q) \notin S \cup {NoObject}
    BY <2>2, <2>3 DEF Moves, Closed, Child
  <2>5. Status(u, q) = Status(t, q)
    BY <2>2, <2>4, StatusKept
  <2> QED
    BY <2>2, <2>3, <2>5 DEF Moves
<1> QED
  BY <1>1, <1>2

\* From t to u no places but those in Q are taken.
Fills(t, u, Q) ==
  \A d \in Exists(t), n \in Names :
    Child(t, d, n) = NoObject /\ <<d, n>> \notin Q => Child(u, d, n) = NoObject

\* A name that is free stays free.
LEMMA FreeKept ==
  ASSUME NEW t \in Trees, NEW u \in Trees, NEW S, NEW Q, WellFormed(t), Moves(t, u, S),
         Fills(t, u, Q), NEW p \in Seq(Names), p # <<>>,
         Straight(t, Front(p)) \/ \A o \in S : ~IsLink(t, o),
         Named(t, p) = NoObject, Parent(t, p) \notin S \cup {NoObject},
         <<Parent(t, p), Last(p)>> \notin Q
  PROVE  Parent(u, p) = Parent(t, p) /\ Named(u, p) = NoObject
<1>1. Front(p) \in Seq(Names) /\ Last(p) \in Names
  BY FrontLast
<1>2. Parent(u, p) = Parent(t, p)
  BY <1>1, StatusKept DEF Parent
<1>3. Parent(t, p) \in Exists(t)
  BY <1>1, StatusExists DEF Parent
<1> QED
  BY <1>1, <1>2, <1>3 DEF Named, Fills

-----------------------------------------------------------------------------
(* The changes keep the tree.                                              *)

LEMMA BelowIs ==
  ASSUME NEW t \in Trees, NEW o \in Objects
  PROVE  /\ Below(t, o) \subseteq Objects /\ o \in Below(t, o) /\ Closed(t, Below(t, o))
         /\ \A S \in SUBSET Objects : o \in S /\ Closed(t, S) => Below(t, o) \subseteq S
<1>1. Below(t, o) \subseteq Objects /\ o \in Below(t, o)
  BY DEF Below
<1>2. \A S \in SUBSET Objects : o \in S /\ Closed(t, S) => Below(t, o) \subseteq S
  BY DEF Below
<1>3. ASSUME NEW d \in Below(t, o), NEW n \in Names, Child(t, d, n) # NoObject
      PROVE  Child(t, d, n) \in Below(t, o)
  <2>1. d \in Objects /\ Child(t, d, n) \in Objects
    BY <1>1, <1>3, ChildIs DEF Places
  <2>2. ASSUME NEW S \in SUBSET Objects, o \in S, Closed(t, S)
        PROVE  Child(t, d, n) \in S
    <3>1. d \in S
      BY <1>2, <2>2
    <3> QED
      BY <1>3, <2>2, <3>1 DEF Closed
  <2> QED
    BY <2>1, <2>2 DEF Below
<1> QED
  BY <1>1, <1>2, <1>3 DEF Closed

LEMMA TreeIs ==
  ASSUME NEW t \in Trees
  PROVE  IsTree(t) <=> WellFormed(t)
<1>1. Home \in Objects /\ NoObject \notin Objects /\ Exists(t) \subseteq Objects
  BY TreeAssumption DEF Exists
<1>2. ASSUME IsTree(t) PROVE Below(t, Home) = Exists(t)
  <2>1. Closed(t, Exists(t)) /\ Home \in Exists(t)
    BY <1>1, <1>2 DEF IsTree, Closed, Exists
  <2>2. Below(t, Home) \subseteq Exists(t)
    BY <1>1, <2>1, BelowIs
  <2> DEFINE S == Exists(t) \ Below(t, Home)
  <2>3. S \subseteq Exists(t) \ {Home}
    BY <1>1, BelowIs
  <2>4. ASSUME NEW d \in Exists(t) \ S, NEW n \in Names, Child(t, d, n) \in S PROVE FALSE
    <3>1. d \in Below(t, Home) /\ Child(t, d, n) # NoObject
      BY <1>1, <2>4
    <3> QED
      BY <1>1, <2>4, <3>1, BelowIs DEF Closed
  <2>5. S = {}
    <3> HIDE DEF S
    <3> QED
      BY <1>2, <2>3, <2>4 DEF IsTree
  <2> QED
    BY <2>2, <2>5
<1>3. ASSUME WellFormed(t)
      PROVE  \A S \in SUBSET (Exists(t) \ {Home}) :
               S # {} => \E d \in Exists(t) \ S, n \in Names : Child(t, d, n) \in S
  <2> SUFFICES ASSUME NEW S \in SUBSET (Exists(t) \ {Home}), S # {},
                      \A d \in Exists(t) \ S, n \in Names : Child(t, d, n) \notin S
               PROVE  FALSE
    OBVIOUS
  <2> DEFINE W == Exists(t) \ S
  <2>1. Closed(t, Exists(t)) /\ Home \in Exists(t)
    BY <1>1, <1>3, BelowIs DEF WellFormed
  <2>2. W \in SUBSET Objects /\ Home \in W /\ Closed(t, W)
    BY <1>1, <2>1 DEF Closed
  <2> HIDE DEF W
  <2>3. Below(t, Home) \subseteq W
    BY <1>1, <2>2, BelowIs
  <2> QED
    BY <1>3, <2>3 DEF WellFormed, W
<1>4. ASSUME WellFormed(t), NEW d \in Objects, NEW n \in Names, Child(t, d, n) # NoObject
      PROVE  Child(t, d, n) \in Exists(t) \ {Home}
  <2>1. d \in Places
    BY DEF Places
  <2> QED
    BY <1>4, <2>1, ChildExists DEF WellFormed
<1>5. IsTree(t) => WellFormed(t)
  BY <1>1, <1>2 DEF IsTree, WellFormed
<1>6. WellFormed(t) => IsTree(t)
  BY <1>3, <1>4 DEF IsTree, WellFormed
<1> QED
  BY <1>5, <1>6

\* Everything below an object but itself is in something below it.
LEMMA BelowIn ==
  ASSUME NEW t \in Trees, NEW o \in Objects, NEW x \in Below(t, o), x # o
  PROVE  \E d \in Below(t, o), n \in Names : Child(t, d, n) = x
<1>1. SUFFICES ASSUME \A d \in Below(t, o), n \in Names : Child(t, d, n) # x PROVE FALSE
  OBVIOUS
<1> DEFINE S == Below(t, o) \ {x}
<1>2. S \in SUBSET Objects /\ o \in S
  BY BelowIs
<1>3. Closed(t, S)
  BY <1>1, BelowIs DEF Closed
<1> QED
  BY <1>2, <1>3, BelowIs

\* The account's directory is below nothing else, and nothing is below what it
\* holds.
LEMMA BelowProper ==
  ASSUME NEW t \in Trees, WellFormed(t), NEW o \in Exists(t), o # Home
  PROVE  /\ Home \notin Below(t, o)
         /\ \A d \in Places, n \in Names : Child(t, d, n) = o => d \notin Below(t, o)
<1>1. o \in Objects
  BY DEF Exists
<1>2. Home \notin Below(t, o)
  <2>1. \A d \in Below(t, o), n \in Names : Child(t, d, n) # Home
    BY <1>1, BelowIs DEF WellFormed
  <2> QED
    BY <1>1, <2>1, BelowIn
<1>3. ASSUME NEW d \in Below(t, o), NEW n \in Names, Child(t, d, n) = o PROVE FALSE
  <2> DEFINE W == Objects \ Below(t, o)
  <2>1. W \in SUBSET Objects /\ Home \in W
    BY <1>2, TreeAssumption
  <2>2. ASSUME NEW e \in W, NEW m \in Names, Child(t, e, m) \in Below(t, o) PROVE FALSE
    <3> DEFINE x == Child(t, e, m)
    <3>1. PICK f \in Below(t, o), k \in Names : Child(t, f, k) = x
      <4>1. CASE x = o
        BY <1>3, <4>1
      <4>2. CASE x # o
        BY <1>1, <2>2, <4>2, BelowIn
      <4> QED
        BY <4>1, <4>2
    <3>2. f \in Objects /\ e \in Objects /\ x # NoObject
      BY <1>1, <2>2, BelowIs, TreeAssumption
    <3>3. f = e
      BY <3>1, <3>2 DEF WellFormed
    <3> QED
      BY <3>3
  <2>3. Closed(t, W)
    <3> SUFFICES ASSUME NEW e \in W, NEW m \in Names, Child(t, e, m) # NoObject
                 PROVE  Child(t, e, m) \in W
      BY DEF Closed
    <3>1. e \in Places /\ Child(t, e, m) \in Objects
      BY ChildIs DEF Places
    <3> QED
      BY <2>2, <3>1
  <2>4. Exists(t) \subseteq W
    <3>1. Below(t, Home) \subseteq W
      <4> HIDE DEF W
      <4> QED
        BY <2>1, <2>3, TreeAssumption, BelowIs
    <3> QED
      BY <3>1 DEF WellFormed
  <2> QED
    BY <1>1, <2>4, BelowIs
<1>4. NoObject \notin Below(t, o)
  BY <1>1, BelowIs, TreeAssumption
<1> QED
  BY <1>2, <1>3

\* remove: one entry and its object go.
LEMMA UnlinkKeeps ==
  ASSUME NEW t \in Trees, WellFormed(t), NEW p \in Seq(Names), CanRemove(t, p)
  PROVE  /\ Unlink(t, p) \in Trees /\ WellFormed(Unlink(t, p))
         /\ Moves(t, Unlink(t, p), Below(t, Named(t, p))) /\ Fills(t, Unlink(t, p), {})
<1> DEFINE u == Unlink(t, p)
           N == Named(t, p)
           d == Parent(t, p)
           m == Last(p)
           B == Below(t, N)
<1>1. /\ N \in Objects /\ N # Home /\ p # <<>> /\ d \in Places /\ m \in Names /\ N = Child(t, d, m)
  BY StatusIs DEF CanRemove, Places, Named
<1>2. d \in Objects /\ t.kind[d] = "dir" /\ N \in Exists(t) /\ d \in Exists(t)
  BY <1>1, ChildExists, TreeAssumption DEF Child, Places
<1>3. /\ u \in Trees /\ u.link = t.link
      /\ \A o \in Objects : u.kind[o] = IF o = N THEN "none" ELSE t.kind[o]
      /\ \A o \in Objects, n \in Names :
           u.entry[o][n] = IF o = d /\ n = m THEN NoObject ELSE t.entry[o][n]
  BY <1>1, <1>2 DEF Unlink, Trees, Kinds
<1> HIDE DEF u, N, d, m
<1>4. \A n \in Names : Child(t, N, n) = NoObject
  BY <1>1 DEF CanRemove, Empties, Child, N
<1>5. N # NoObject /\ d # NoObject
  BY <1>1, <1>2, TreeAssumption
<1>6. B = {N}
  <2>1. Closed(t, {N})
    BY <1>4 DEF Closed
  <2> QED
    BY <1>1, <2>1, BelowIs
<1> HIDE DEF B
<1>7. \A o \in Objects, n \in Names :
        Child(u, o, n) = IF Child(t, o, n) = N THEN NoObject ELSE Child(t, o, n)
  <2> SUFFICES ASSUME NEW o \in Objects, NEW n \in Names
               PROVE  Child(u, o, n) = IF Child(t, o, n) = N THEN NoObject ELSE Child(t, o, n)
    OBVIOUS
  <2>1. CASE Child(t, o, n) = N
    <3>1. o = d /\ n = m
      BY <1>1, <1>2, <1>5, <2>1 DEF WellFormed
    <3> QED
      BY <1>3, <2>1, <3>1 DEF Child
  <2>2. CASE Child(t, o, n) # N
    <3>1. ~(o = d /\ n = m)
      BY <1>1, <2>2
    <3>2. o = N => Child(t, o, n) = NoObject /\ Child(u, o, n) = NoObject
      BY <1>3, <1>4 DEF Child
    <3>3. o # N => Child(u, o, n) = Child(t, o, n)
      BY <1>3, <3>1 DEF Child
    <3> QED
      BY <2>2, <3>2, <3>3
  <2> QED
    BY <2>1, <2>2
<1>8. Exists(u) = Exists(t) \ {N}
  BY <1>3 DEF Exists
<1>9. Below(u, Home) = Exists(u)
  <2>1. Below(u, Home) \subseteq Exists(u)
    <3>1. Home \in Exists(u) /\ Exists(u) \in SUBSET Objects
      BY <1>1, <1>8, TreeAssumption DEF WellFormed, Exists
    <3>2. Closed(u, Exists(u))
      <4> SUFFICES ASSUME NEW o \in Exists(u), NEW n \in Names, Child(u, o, n) # NoObject
                   PROVE  Child(u, o, n) \in Exists(u)
        BY DEF Closed
      <4>1. Child(t, o, n) # N /\ Child(u, o, n) = Child(t, o, n) /\ o \in Places
        BY <1>7, <3>1 DEF Places
      <4> QED
        BY <1>8, <4>1, ChildExists
    <3> QED
      BY <1>3, <3>1, <3>2, BelowIs, TreeAssumption
  <2>2. ASSUME NEW S \in SUBSET Objects, Home \in S, Closed(u, S) PROVE Exists(u) \subseteq S
    <3>1. Closed(t, S \cup {N})
      BY <1>4, <1>7, <2>2 DEF Closed
    <3>2. Below(t, Home) \subseteq S \cup {N}
      BY <1>1, <2>2, <3>1, BelowIs, TreeAssumption
    <3> QED
      BY <1>8, <3>2 DEF WellFormed
  <2> QED
    BY <2>1, <2>2 DEF Below, Exists
<1>10. WellFormed(u)
  <2>1. u.kind[Home] = "dir"
    BY <1>1, <1>3, TreeAssumption DEF WellFormed
  <2>2. \A o \in Objects, n \in Names : Child(u, o, n) # Home
    BY <1>7, TreeAssumption DEF WellFormed
  <2>3. \A a, e \in Objects, n, k \in Names :
          (Child(u, a, n) = Child(u, e, k) /\ Child(u, a, n) # NoObject) => a = e /\ n = k
    <3> SUFFICES ASSUME NEW a \in Objects, NEW e \in Objects, NEW n \in Names, NEW k \in Names,
                        Child(u, a, n) = Child(u, e, k), Child(u, a, n) # NoObject
                 PROVE  a = e /\ n = k
      OBVIOUS
    <3>1. Child(t, a, n) = Child(t, e, k) /\ Child(t, a, n) # NoObject
      BY <1>7
    <3> QED
      BY <3>1 DEF WellFormed
  <2> QED
    BY <1>9, <2>1, <2>2, <2>3 DEF WellFormed
<1>11. Moves(t, u, B)
  <2>1. B \subseteq Objects /\ Home \notin B /\ Closed(t, B)
    BY <1>1, <1>4, <1>6 DEF Closed
  <2>2. \A o \in Exists(t) \ B : u.kind[o] = t.kind[o]
    BY <1>3, <1>6 DEF Exists
  <2>3. \A e \in Places, n \in Names :
          Child(t, e, n) \notin B \cup {NoObject} => Child(u, e, n) = Child(t, e, n)
    BY <1>6, <1>7 DEF Places, Child
  <2> QED
    BY <1>3, <2>1, <2>2, <2>3 DEF Moves
<1>12. Fills(t, u, {})
  BY <1>7 DEF Fills, Exists
<1> QED
  BY <1>3, <1>10, <1>11, <1>12 DEF u, B, N

\* A new object takes a free name.
LEMMA CreateKeeps ==
  ASSUME NEW t \in Trees, WellFormed(t), NEW p \in Seq(Names), CanCreate(t, p),
         NEW k \in {"dir", "file"}
  PROVE  /\ Create(t, p, k) \in Trees /\ WellFormed(Create(t, p, k))
         /\ Moves(t, Create(t, p, k), {})
         /\ Fills(t, Create(t, p, k), {<<Parent(t, p), Last(p)>>})
<1> DEFINE N == CHOOSE new \in NewObjects(t) : TRUE
           u == Created(t, N, p, k)
           d == Parent(t, p)
           m == Last(p)
<1>1. N \in NewObjects(t) /\ Create(t, p, k) = u
  BY DEF CanCreate, Create
<1> HIDE DEF N
<1>2. N \in Objects /\ t.kind[N] = "none" /\ N # Home /\ N # NoObject /\ N \notin Exists(t)
  BY <1>1, TreeAssumption DEF NewObjects, Exists, WellFormed
<1>3. /\ d \in Objects /\ t.kind[d] = "dir" /\ m \in Names /\ d # N /\ d \in Exists(t)
      /\ d # NoObject
  BY <1>2, StatusIs, TreeAssumption DEF CanCreate, Places, Exists
<1>4. Child(t, d, m) = NoObject
  BY <1>3, TreeAssumption DEF CanCreate, Named
<1>5. /\ u \in Trees /\ u.link = t.link
      /\ \A o \in Objects : u.kind[o] = IF o = N THEN k ELSE t.kind[o]
      /\ \A o \in Objects, n \in Names :
           u.entry[o][n] = IF o = N THEN NoObject
                           ELSE IF o = d /\ n = m THEN N ELSE t.entry[o][n]
  BY <1>2, <1>3 DEF Created, Trees, Kinds
<1> HIDE DEF u, d, m
<1>6. ASSUME NEW o \in Objects, NEW n \in Names
      PROVE  Child(u, o, n) = IF o = d /\ n = m THEN N ELSE Child(t, o, n)
  <2>1. CASE o = N
    <3>1. Child(t, o, n) = NoObject /\ o # d
      BY <1>2, <1>3, <2>1 DEF Child
    <3>2. Child(u, o, n) = NoObject
      BY <1>5, <2>1 DEF Child
    <3> QED
      BY <3>1, <3>2
  <2>2. CASE o # N
    <3>1. u.kind[o] = t.kind[o] /\ u.entry[o][n] = IF o = d /\ n = m THEN N ELSE t.entry[o][n]
      BY <1>5, <2>2
    <3> QED
      BY <1>3, <3>1 DEF Child
  <2> QED
    BY <2>1, <2>2
<1>7. \A o \in Objects, n \in Names : Child(t, o, n) # N
  BY <1>2, ChildExists DEF Places
<1>8. Exists(u) = Exists(t) \cup {N}
  BY <1>2, <1>5 DEF Exists
<1>9. Below(u, Home) = Exists(u)
  <2>1. Below(u, Home) \subseteq Exists(u)
    <3>1. Home \in Exists(u) /\ Exists(u) \in SUBSET Objects
      BY <1>8, TreeAssumption DEF WellFormed, Exists
    <3>2. Closed(u, Exists(u))
      <4> SUFFICES ASSUME NEW o \in Exists(u), NEW n \in Names, Child(u, o, n) # NoObject
                   PROVE  Child(u, o, n) \in Exists(u)
        BY DEF Closed
      <4>1. o \in Objects /\ o \in Places
        BY <3>1 DEF Places
      <4>2. CASE o = d /\ n = m
        BY <1>6, <1>8, <4>1, <4>2
      <4>3. CASE ~(o = d /\ n = m)
        BY <1>6, <1>8, <4>1, <4>3, ChildExists
      <4> QED
        BY <4>2, <4>3
    <3> QED
      BY <1>5, <3>1, <3>2, BelowIs, TreeAssumption
  <2>2. ASSUME NEW S \in SUBSET Objects, Home \in S, Closed(u, S) PROVE Exists(u) \subseteq S
    <3>1. Closed(t, S)
      BY <1>4, <1>6, <2>2 DEF Closed
    <3>2. Exists(t) \subseteq S
      BY <2>2, <3>1, BelowIs, TreeAssumption DEF WellFormed
    <3>3. N \in S
      BY <1>2, <1>3, <1>6, <2>2, <3>2 DEF Closed
    <3> QED
      BY <1>8, <3>2, <3>3
  <2> QED
    BY <2>1, <2>2 DEF Below, Exists
<1>10. WellFormed(u)
  <2>1. u.kind[Home] = "dir"
    BY <1>2, <1>5, TreeAssumption DEF WellFormed
  <2>2. \A o \in Objects, n \in Names : Child(u, o, n) # Home
    BY <1>2, <1>6 DEF WellFormed
  <2>3. ASSUME NEW a \in Objects, NEW e \in Objects, NEW n \in Names, NEW l \in Names,
               Child(u, a, n) = Child(u, e, l), Child(u, a, n) # NoObject
        PROVE  a = e /\ n = l
    <3>1. CASE a = d /\ n = m
      BY <1>6, <1>7, <2>3, <3>1
    <3>2. CASE ~(a = d /\ n = m)
      <4>1. Child(u, a, n) = Child(t, a, n)
        BY <1>6, <3>2
      <4>2. ~(e = d /\ l = m)
        BY <1>6, <1>7, <2>3, <4>1
      <4>3. Child(u, e, l) = Child(t, e, l)
        BY <1>6, <4>2
      <4>4. Child(t, a, n) = Child(t, e, l) /\ Child(t, a, n) # NoObject
        BY <2>3, <4>1, <4>3
      <4> QED
        BY <4>4 DEF WellFormed
    <3> QED
      BY <3>1, <3>2
  <2> QED
    BY <1>9, <2>1, <2>2, <2>3 DEF WellFormed
<1>11. Moves(t, u, {})
  <2>1. \A o \in Exists(t) : u.kind[o] = t.kind[o]
    BY <1>2, <1>5 DEF Exists
  <2>2. ASSUME NEW e \in Places, NEW n \in Names, Child(t, e, n) # NoObject
        PROVE  Child(u, e, n) = Child(t, e, n)
    <3>1. e \in Objects
      BY <2>2 DEF Places, Child
    <3>2. ~(e = d /\ n = m)
      BY <1>4, <2>2
    <3> QED
      BY <1>6, <3>1, <3>2
  <2>3. Closed(t, {})
    BY DEF Closed
  <2> QED
    BY <1>5, <2>1, <2>2, <2>3 DEF Moves
<1>12. Fills(t, u, {<<d, m>>})
  BY <1>6 DEF Fills, Exists
<1> QED
  BY <1>1, <1>5, <1>10, <1>11, <1>12 DEF d, m

\* rename: an object comes to another name with everything below it, and takes
\* the place of what had that name.
LEMMA RenameKeeps ==
  ASSUME NEW t \in Trees, WellFormed(t), NEW p \in Seq(Names), NEW q \in Seq(Names),
         CanRename(t, p, q)
  PROVE  /\ Rename(t, p, q) \in Trees /\ WellFormed(Rename(t, p, q))
         /\ Moves(t, Rename(t, p, q), Displaced(t, p, q))
         /\ Fills(t, Rename(t, p, q), {<<Parent(t, q), Last(q)>>})
<1> DEFINE u == Rename(t, p, q)
           N == Named(t, p)
           d == Parent(t, p)
           m == Last(p)
           R == Named(t, q)
           e == Parent(t, q)
           k == Last(q)
           B == Below(t, N)
<1>1. /\ N \in Objects /\ N # Home /\ d \in Places /\ m \in Names /\ N = Child(t, d, m)
  BY StatusIs DEF CanRename, Places, Named
<1>2. /\ d \in Objects /\ t.kind[d] = "dir" /\ N \in Exists(t) /\ N # NoObject /\ d # NoObject
  BY <1>1, ChildExists, TreeAssumption DEF Child, Places
<1>3. /\ e \in Objects /\ t.kind[e] = "dir" /\ k \in Names /\ e # NoObject /\ e \in Exists(t)
      /\ R \in Places /\ R = Child(t, e, k) /\ e \notin B /\ R # N
  BY StatusIs, TreeAssumption DEF CanRename, Places, Named, Exists
<1>4. \A n \in Names : Child(t, R, n) = NoObject
  BY <1>3 DEF CanRename, Empties, Child
<1>5. /\ u \in Trees /\ u.link = t.link
      /\ \A o \in Objects : u.kind[o] = IF o = R THEN "none" ELSE t.kind[o]
      /\ \A o \in Objects, n \in Names :
           u.entry[o][n] = IF o = e /\ n = k THEN N
                           ELSE IF o = d /\ n = m THEN NoObject ELSE t.entry[o][n]
  BY <1>1, <1>2, <1>3 DEF Rename, Trees, Kinds
<1>6. /\ B \subseteq Objects /\ N \in B /\ Closed(t, B) /\ Home \notin B /\ d \notin B
      /\ \A S \in SUBSET Objects : N \in S /\ Closed(t, S) => B \subseteq S
  BY <1>1, <1>2, BelowIs, BelowProper
<1>7. Displaced(t, p, q) = B \cup ({R} \ {NoObject})
  BY DEF Displaced
<1> HIDE DEF u, N, d, m, R, e, k, B
<1>8. R # e /\ R # d /\ R # Home
  <2>1. R # e
    BY <1>1, <1>3, <1>4
  <2>2. R # d
    BY <1>1, <1>2, <1>4
  <2>3. R # Home
    BY <1>3 DEF WellFormed
  <2> QED
    BY <2>1, <2>2, <2>3
<1>9. ASSUME NEW o \in Objects, NEW n \in Names
      PROVE  Child(u, o, n) = IF o = e /\ n = k THEN N
                              ELSE IF o = d /\ n = m THEN NoObject ELSE Child(t, o, n)
  <2>1. CASE o = R
    <3>1. Child(u, o, n) = NoObject /\ Child(t, o, n) = NoObject
      BY <1>4, <1>5, <2>1 DEF Child
    <3> QED
      BY <1>8, <2>1, <3>1
  <2>2. CASE o # R
    <3>1. u.kind[o] = t.kind[o]
      BY <1>5, <2>2
    <3>2. o # NoObject
      BY TreeAssumption
    <3> QED
      BY <1>2, <1>3, <1>5, <3>1, <3>2 DEF Child
  <2> QED
    BY <2>1, <2>2
<1>10. Exists(u) = Exists(t) \ {R}
  BY <1>5 DEF Exists
<1>11. \A o \in Objects, n \in Names :
         /\ Child(t, o, n) = N => o = d /\ n = m
         /\ Child(t, o, n) = R /\ R # NoObject => o = e /\ n = k
  BY <1>1, <1>2, <1>3 DEF WellFormed
<1>12. Below(u, Home) = Exists(u)
  <2>1. Below(u, Home) \subseteq Exists(u)
    <3>1. Home \in Exists(u) /\ Exists(u) \in SUBSET Objects
      BY <1>8, <1>10, TreeAssumption DEF WellFormed, Exists
    <3>2. Closed(u, Exists(u))
      <4> SUFFICES ASSUME NEW o \in Exists(u), NEW n \in Names, Child(u, o, n) # NoObject
                   PROVE  Child(u, o, n) \in Exists(u)
        BY DEF Closed
      <4>1. o \in Objects /\ o \in Places
        BY <3>1 DEF Places
      <4>2. CASE o = e /\ n = k
        BY <1>2, <1>3, <1>9, <1>10, <4>1, <4>2
      <4>3. CASE ~(o = e /\ n = k)
        <5>1. Child(u, o, n) = Child(t, o, n)
          BY <1>9, <4>1, <4>3
        <5>2. Child(t, o, n) # R
          BY <1>11, <4>1, <4>3, <5>1
        <5> QED
          BY <1>10, <4>1, <5>1, <5>2, ChildExists
      <4> QED
        BY <4>2, <4>3
    <3> QED
      BY <1>5, <3>1, <3>2, BelowIs, TreeAssumption
  <2>2. ASSUME NEW S \in SUBSET Objects, Home \in S, Closed(u, S) PROVE Exists(u) \subseteq S
    <3> DEFINE U == S \cup B \cup ({R} \ {NoObject})
    <3>1. U \in SUBSET Objects /\ Home \in U
      BY <1>3, <1>6, <2>2 DEF Places
    <3>2. ASSUME NEW o \in U, NEW n \in Names, Child(t, o, n) # NoObject
          PROVE  Child(t, o, n) \in U
      <4>1. CASE o \in B
        BY <1>6, <3>2, <4>1 DEF Closed
      <4>2. CASE o = R
        BY <1>4, <3>2, <4>2
      <4>3. CASE o \in S /\ o = e /\ n = k
        BY <1>3, <3>2, <4>3
      <4>4. CASE o \in S /\ o = d /\ n = m
        BY <1>1, <1>6, <4>4
      <4>5. CASE o \in S /\ ~(o = e /\ n = k) /\ ~(o = d /\ n = m)
        BY <1>9, <2>2, <3>2, <4>5 DEF Closed
      <4> QED
        BY <4>1, <4>2, <4>3, <4>4, <4>5
    <3>3. Exists(t) \subseteq U
      <4>1. Closed(t, U)
        BY <3>2 DEF Closed
      <4> HIDE DEF U
      <4> QED
        BY <3>1, <4>1, BelowIs, TreeAssumption DEF WellFormed
    <3>4. e \in S
      BY <1>3, <1>8, <3>3
    <3>5. N \in S
      BY <1>2, <1>3, <1>9, <2>2, <3>4 DEF Closed
    <3>6. B \subseteq S
      <4> DEFINE V == S \cap B
      <4>1. V \in SUBSET Objects /\ N \in V
        BY <1>6, <3>5
      <4>2. Closed(t, V)
        BY <1>3, <1>6, <1>9, <2>2 DEF Closed
      <4> HIDE DEF V
      <4>3. B \subseteq V
        BY <1>6, <4>1, <4>2
      <4> QED
        BY <4>3 DEF V
    <3> QED
      BY <1>10, <3>3, <3>6
  <2> QED
    BY <2>1, <2>2 DEF Below, Exists
<1>13. WellFormed(u)
  <2>1. u.kind[Home] = "dir"
    BY <1>5, <1>8, TreeAssumption DEF WellFormed
  <2>2. \A o \in Objects, n \in Names : Child(u, o, n) # Home
    BY <1>1, <1>9, TreeAssumption DEF WellFormed
  <2>3. ASSUME NEW a \in Objects, NEW b \in Objects, NEW n \in Names, NEW l \in Names,
               Child(u, a, n) = Child(u, b, l), Child(u, a, n) # NoObject
        PROVE  a = b /\ n = l
    <3>1. \A o \in Objects, i \in Names : Child(u, o, i) = N => o = e /\ i = k
      BY <1>2, <1>9, <1>11
    <3>2. CASE Child(u, a, n) = N
      <4>1. a = e /\ n = k
        BY <3>1, <3>2
      <4>2. Child(u, b, l) = N
        BY <2>3, <3>2
      <4>3. b = e /\ l = k
        BY <3>1, <4>2
      <4> QED
        BY <4>1, <4>3
    <3>3. CASE Child(u, a, n) # N
      <4>1. Child(u, a, n) = Child(t, a, n)
        BY <1>9, <2>3, <3>3
      <4>2. Child(u, b, l) = Child(t, b, l)
        BY <1>9, <2>3, <3>3
      <4>3. Child(t, a, n) = Child(t, b, l) /\ Child(t, a, n) # NoObject
        BY <2>3, <4>1, <4>2
      <4> QED
        BY <4>3 DEF WellFormed
    <3> QED
      BY <3>2, <3>3
  <2> QED
    BY <1>12, <2>1, <2>2, <2>3 DEF WellFormed
<1>14. Moves(t, u, B \cup ({R} \ {NoObject}))
  <2> DEFINE S == B \cup ({R} \ {NoObject})
  <2>1. S \subseteq Objects /\ Home \notin S
    BY <1>3, <1>6, <1>8 DEF Places
  <2>2. Closed(t, S)
    BY <1>4, <1>6 DEF Closed
  <2>3. \A o \in Exists(t) \ S : u.kind[o] = t.kind[o]
    BY <1>5, TreeAssumption DEF Exists
  <2>4. ASSUME NEW a \in Places, NEW n \in Names, Child(t, a, n) \notin S \cup {NoObject}
        PROVE  Child(u, a, n) = Child(t, a, n)
    <3>1. a \in Objects
      BY <2>4 DEF Child, Places
    <3>2. ~(a = d /\ n = m)
      BY <1>1, <1>6, <2>4
    <3>3. ~(a = e /\ n = k)
      BY <1>3, <2>4
    <3> QED
      BY <1>9, <3>1, <3>2, <3>3
  <2> QED
    BY <1>5, <2>1, <2>2, <2>3, <2>4 DEF Moves
<1>15. Fills(t, u, {<<e, k>>})
  BY <1>9 DEF Fills, Exists
<1> QED
  BY <1>5, <1>7, <1>13, <1>14, <1>15 DEF u, e, k

-----------------------------------------------------------------------------
(* The invariant: what a session remembers, in terms of paths that lead    *)
(* over directories only, where canonical resolved them.                   *)

Stays(t, p, o) == Plain(t, p) = o /\ ~IsLink(t, o)

\* What is known of the path p of a command c.
Finds(t, c, p, o) ==
  /\ c.op # "none"
  /\ IF c.op = "LIST" /\ c.at = "begun" THEN Status(t, p) = o
     ELSE IF Makes(c) THEN p # <<>> /\ Parent(t, p) = o /\ Named(t, p) = NoObject
     ELSE IF c.op \in AsGiven THEN Named(t, p) = o
     ELSE Stays(t, p, o)

\* The path that a command in s's hand h is about.
Meant(s, h) ==
  LET c == pending[s][h] IN IF c.op = "LIST" /\ c.at = "begun" THEN Join(s, c) ELSE c.path

HereInv == \A s \in Sessions : here[s] # Changed => Stays(tree, cwd[s], here[s])

ConfirmedInv ==
  \A s \in Sessions :
    /\ confirmed[s] \in Objects => from[s] # NoPath /\ Plain(tree, from[s]) = confirmed[s]
    /\ confirmed[s] = NoObject => from[s] = NoPath

SeenInv ==
  \A s \in Sessions, h \in Hands :
    seen[s][h] # Changed => Finds(tree, pending[s][h], Meant(s, h), seen[s][h])

\* Only threads list, and a path that is resolved is a whole one.
HandsInv ==
  \A s \in Sessions :
    /\ pending[s]["handler"].op # "LIST"
    /\ pending[s]["thread"].at # "begun" => pending[s]["thread"].whole

IInv == TypeOK /\ HereInv /\ ConfirmedInv /\ SeenInv /\ HandsInv /\ emptied = {}

LEMMA StaysKept ==
  ASSUME NEW t \in Trees, NEW u \in Trees, NEW S, WellFormed(t), Moves(t, u, S),
         NEW p \in Seq(Names), NEW o \in Objects \ S, Stays(t, p, o)
  PROVE  Stays(u, p, o)
<1>1. Plain(u, p) = o /\ o \in Exists(t) /\ o # NoObject
  BY PlainKept, PlainExists, TreeAssumption DEF Stays
<1>2. u.kind[o] = t.kind[o]
  BY <1>1 DEF Moves
<1> QED
  BY <1>1, <1>2 DEF Stays, IsLink

\* The path that the links on it matter of.
Depends(c, p) ==
  IF c.op = "LIST" /\ c.at = "begun" THEN p ELSE IF c.op \in AsGiven \/ Makes(c) THEN Front(p) ELSE <<>>

LEMMA FindsKept ==
  ASSUME NEW t \in Trees, NEW u \in Trees, NEW S, NEW Q, WellFormed(t), Moves(t, u, S),
         Fills(t, u, Q), NEW c, NEW p \in Seq(Names), NEW o \in Objects \ S, Finds(t, c, p, o),
         Straight(t, Depends(c, p)) \/ \A x \in S : ~IsLink(t, x),
         Makes(c) => <<o, Last(p)>> \notin Q
  PROVE  Finds(u, c, p, o)
<1>1. o \notin S \cup {NoObject}
  BY TreeAssumption
<1>2. CASE c.op = "none"
  BY <1>2 DEF Finds
<1>3. CASE c.op = "LIST" /\ c.at = "begun"
  <2>1. Status(t, p) = o
    BY <1>3 DEF Finds, Makes, AsGiven
  <2>2. Status(u, p) = o
    BY <1>1, <1>3, <2>1, StatusKept DEF Depends
  <2> QED
    BY <1>3, <2>2 DEF Finds, Makes, AsGiven
<1>4. CASE Makes(c)
  <2>1. p # <<>> /\ Parent(t, p) = o /\ Named(t, p) = NoObject
    BY <1>4 DEF Finds, Makes
  <2>2. Depends(c, p) = Front(p)
    BY <1>4 DEF Depends, Makes
  <2>3. Parent(u, p) = o /\ Named(u, p) = NoObject
    BY <1>1, <1>4, <2>1, <2>2, FreeKept
  <2> QED
    BY <1>4, <2>1, <2>3 DEF Finds, Makes
<1>5. CASE c.op \in AsGiven /\ ~Makes(c)
  <2>1. Named(t, p) = o /\ Depends(c, p) = Front(p)
    BY <1>5 DEF Finds, Depends, AsGiven
  <2>2. Named(u, p) = o
    BY <1>1, <2>1, NamedKept
  <2> QED
    BY <1>5, <2>2 DEF Finds, AsGiven
<1>6. CASE ~(c.op = "none" \/ (c.op = "LIST" /\ c.at = "begun") \/ Makes(c) \/ c.op \in AsGiven)
  BY <1>6, StaysKept DEF Finds
<1> QED
  BY <1>2, <1>3, <1>4, <1>5, <1>6

-----------------------------------------------------------------------------
(* Paths that commands build.                                              *)

LEMMA TreeNow == TypeOK => tree \in Trees /\ WellFormed(tree)
BY TreeIs DEF TypeOK

LEMMA JoinIs ==
  ASSUME TypeOK, NEW s \in Sessions, NEW arg, arg.whole \in BOOLEAN, arg.path \in Seq(Names)
  PROVE  Join(s, arg) \in Seq(Names)
<1>1. cwd[s] \in Seq(Names)
  BY DEF TypeOK
<1> QED
  BY <1>1, ConcatProperties DEF Join

\* A path that is made canonical leads where it led, and over no link.
LEMMA BuildPathIs ==
  ASSUME TypeOK, NEW s \in Sessions, NEW arg, arg.whole \in BOOLEAN, arg.path \in Seq(Names)
  PROVE  /\ BuildPath(s, arg) \in Seq(Names)
         /\ Found(Status(tree, Join(s, arg))) \in Objects \cup {Changed}
         /\ Found(Status(tree, Join(s, arg))) # Changed =>
              Stays(tree, BuildPath(s, arg), Found(Status(tree, Join(s, arg))))
<1> DEFINE j == Join(s, arg)
<1>1. j \in Seq(Names) /\ tree \in Trees /\ WellFormed(tree)
  BY JoinIs, TreeNow
<1>2. Status(tree, j) \in Places /\ Walk(tree, j).path \in Seq(Names)
  BY <1>1, StatusIs
<1>3. BuildPath(s, arg) = IF Status(tree, j) # NoObject THEN Walk(tree, j).path ELSE j
  BY DEF BuildPath
<1> HIDE DEF j
<1>4. CASE Status(tree, j) = NoObject
  BY <1>1, <1>3, <1>4 DEF Found, j
<1>5. CASE Status(tree, j) # NoObject
  <2>1. Stays(tree, Walk(tree, j).path, Status(tree, j))
    BY <1>1, <1>5, CanonicalIs DEF Stays
  <2>2. Found(Status(tree, j)) = Status(tree, j) /\ Status(tree, j) \in Objects
    BY <1>2, <1>5 DEF Found, Places
  <2> QED
    BY <1>2, <1>3, <1>5, <2>1, <2>2 DEF j
<1> QED
  BY <1>4, <1>5

\* What is free is known by its directory.
LEMMA FreeInIs ==
  ASSUME TypeOK, NEW p \in Seq(Names), p # <<>>, Status(tree, p) = NoObject
  PROVE  /\ FreeIn(p) \in Objects \cup {Changed}
         /\ FreeIn(p) # Changed => Parent(tree, p) = FreeIn(p) /\ Named(tree, p) = NoObject
<1>1. tree \in Trees /\ WellFormed(tree)
  BY TreeNow
<1>2. Parent(tree, p) \in Places
  BY <1>1, StatusIs
<1>3. PICK q \in Seq(Names), n \in Names : p = Append(q, n)
  BY SequenceEmptyOrAppend
<1>4. Named(tree, p) = Child(tree, Status(tree, q), n) /\ Walk(tree, p) = Follow(tree, Walk(tree, q), n)
  BY <1>1, <1>3, NamedIs, WalkIs
<1>5. ~IsLink(tree, Named(tree, p)) => Named(tree, p) = NoObject
  BY <1>4 DEF Status, Follow
<1> QED
  BY <1>2, <1>5, PathsAssumption DEF FreeIn, Found, Places

-----------------------------------------------------------------------------
(* What the steps have in common.                                          *)

\* A command's path is a path.
LEMMA MeantIs ==
  ASSUME TypeOK, NEW s \in Sessions, NEW h \in Hands
  PROVE  pending[s][h] \in Commands /\ Meant(s, h) \in Seq(Names)
<1>1. pending[s][h] \in Commands
  BY DEF TypeOK
<1>2. pending[s][h].whole \in BOOLEAN /\ pending[s][h].path \in Seq(Names)
  BY <1>1 DEF Commands
<1> QED
  BY <1>1, <1>2, JoinIs DEF Meant

\* A session enters a directory.
LEMMA EnterKeeps ==
  ASSUME IInv, NEW s \in Sessions, NEW p \in Seq(Names), NEW H \in Objects \cup {Changed},
         H # Changed => Stays(tree, p, H), Enter(s, p, H),
         pending' \in [Sessions -> [Hands -> Commands]],
         \A z \in Sessions, h \in Hands :
           ~(z = s /\ h = "handler") => pending'[z][h] = pending[z][h]
  PROVE  /\ cwd' \in [Sessions -> Seq(Names)]
         /\ here' \in [Sessions -> Objects \cup {Changed}]
         /\ seen' \in [Sessions -> [Hands -> Objects \cup {Changed}]]
         /\ HereInv' /\ SeenInv' /\ UNCHANGED <<tree, emptied>>
<1>1. /\ cwd \in [Sessions -> Seq(Names)] /\ here \in [Sessions -> Objects \cup {Changed}]
      /\ seen \in [Sessions -> [Hands -> Objects \cup {Changed}]]
  BY DEF IInv, TypeOK
<1>2. /\ cwd' = [cwd EXCEPT ![s] = p] /\ here' = [here EXCEPT ![s] = H] /\ Turned(s)
      /\ UNCHANGED <<tree, emptied>>
  BY DEF Enter
<1>3. HereInv'
  BY <1>1, <1>2 DEF HereInv, IInv
<1>4. seen' \in [Sessions -> [Hands -> Objects \cup {Changed}]]
  BY <1>1, <1>2 DEF Turned, Hands
<1>5. ASSUME NEW z \in Sessions, NEW h \in Hands, seen'[z][h] # Changed
      PROVE  Finds(tree, pending'[z][h], Meant(z, h)', seen'[z][h])
  <2>1. ~(z = s /\ h = "handler")
    BY <1>1, <1>2, <1>5 DEF Turned, Hands
  <2>2. pending'[z][h] = pending[z][h]
    BY <2>1
  <2>3. h = "handler" \/ h = "thread"
    BY DEF Hands
  <2>4. seen'[z][h] = seen[z][h]
    BY <1>1, <1>2, <1>5, <2>1, <2>3 DEF Turned, Hands
  <2>5. z = s => ~(pending[z][h].op = "LIST" /\ pending[z][h].at = "begun" /\ ~pending[z][h].whole)
    BY <1>1, <1>2, <1>5, <2>1, <2>3 DEF Turned, Hands
  <2>6. Meant(z, h)' = Meant(z, h)
    BY <1>1, <1>2, <2>2, <2>5 DEF Meant, Join
  <2> QED
    BY <1>5, <2>2, <2>4, <2>6 DEF IInv, SeenInv
<1> QED
  BY <1>1, <1>2, <1>3, <1>4, <1>5 DEF SeenInv

\* The tree changes: who remembers something that moves knows nothing of it.
LEMMA DisturbedKeeps ==
  ASSUME IInv, NEW S, NEW Q, tree' \in Trees, Moves(tree, tree', S), Fills(tree, tree', Q),
         UNCHANGED cwd
  PROVE  /\ Kept(here, S) \in [Sessions -> Objects \cup {Changed}]
         /\ Kept(confirmed, S) \in [Sessions -> Objects \cup {NoObject, Changed}]
         /\ Disturbed(S, Q) \in [Sessions -> [Hands -> Objects \cup {Changed}]]
         /\ here' = Kept(here, S) => HereInv'
         /\ \A s \in Sessions :
              /\ Kept(confirmed, S)[s] \in Objects =>
                   from[s] # NoPath /\ Plain(tree', from[s]) = Kept(confirmed, S)[s]
              /\ Kept(confirmed, S)[s] = NoObject => from[s] = NoPath
         /\ \A s \in Sessions, h \in Hands :
              Disturbed(S, Q)[s][h] # Changed
                => Finds(tree', pending[s][h], Meant(s, h), Disturbed(S, Q)[s][h])
<1>1. TypeOK /\ S \subseteq Objects /\ tree \in Trees /\ WellFormed(tree)
  BY TreeNow DEF IInv, Moves
<1>2. /\ Kept(here, S) \in [Sessions -> Objects \cup {Changed}]
      /\ Kept(confirmed, S) \in [Sessions -> Objects \cup {NoObject, Changed}]
      /\ Disturbed(S, Q) \in [Sessions -> [Hands -> Objects \cup {Changed}]]
  BY <1>1 DEF TypeOK, Kept, Disturbed
<1>3. ASSUME here' = Kept(here, S), NEW s \in Sessions, here'[s] # Changed
      PROVE  Stays(tree', cwd[s], here'[s])
  <2>1. here'[s] = here[s] /\ here[s] \in Objects \ S /\ Stays(tree, cwd[s], here[s])
    BY <1>1, <1>3 DEF Kept, TypeOK, IInv, HereInv
  <2>2. cwd[s] \in Seq(Names)
    BY <1>1 DEF TypeOK
  <2> QED
    BY <1>1, <2>1, <2>2, StaysKept
<1>4. ASSUME NEW s \in Sessions, Kept(confirmed, S)[s] \in Objects
      PROVE  from[s] # NoPath /\ Plain(tree', from[s]) = Kept(confirmed, S)[s]
  <2>1. Kept(confirmed, S)[s] = confirmed[s] /\ confirmed[s] \in Objects \ S
    BY <1>4, PathsAssumption DEF Kept
  <2>2. from[s] # NoPath /\ Plain(tree, from[s]) = confirmed[s]
    BY <2>1 DEF IInv, ConfirmedInv
  <2>3. from[s] \in Seq(Names)
    BY <1>1, <2>2 DEF TypeOK
  <2> QED
    BY <1>1, <2>1, <2>2, <2>3, PlainKept, TreeAssumption
<1>5. ASSUME NEW s \in Sessions, Kept(confirmed, S)[s] = NoObject
      PROVE  from[s] = NoPath
  <2>1. confirmed[s] = NoObject
    BY <1>5, PathsAssumption DEF Kept
  <2> QED
    BY <2>1 DEF IInv, ConfirmedInv
<1>6. ASSUME NEW s \in Sessions, NEW h \in Hands, Disturbed(S, Q)[s][h] # Changed
      PROVE  Finds(tree', pending[s][h], Meant(s, h), Disturbed(S, Q)[s][h])
  <2>1. Disturbed(S, Q)[s][h] = seen[s][h] /\ ~Upset(s, h, S, Q)
    BY <1>6 DEF Disturbed
  <2>2. seen[s][h] \in Objects \ S
    BY <1>1, <1>6, <2>1 DEF Upset, TypeOK
  <2>3. Meant(s, h) \in Seq(Names) /\ Finds(tree, pending[s][h], Meant(s, h), seen[s][h])
    BY <1>1, <1>6, <2>1, MeantIs DEF IInv, SeenInv
  <2>4. Way(s, h) = Depends(pending[s][h], Meant(s, h))
    BY DEF Way, Depends, Meant, Makes, AsGiven
  <2>5. Straight(tree, Depends(pending[s][h], Meant(s, h))) \/ \A x \in S : ~IsLink(tree, x)
    BY <2>1, <2>4 DEF Upset
  <2>6. Makes(pending[s][h]) => <<seen[s][h], Last(Meant(s, h))>> \notin Q
    BY <2>1 DEF Upset, Meant, Makes
  <2> QED
    BY <1>1, <2>1, <2>2, <2>3, <2>5, <2>6, FindsKept
<1> QED
  BY <1>2, <1>3, <1>4, <1>5, <1>6 DEF HereInv

\* A command that changed the tree ends.
LEMMA FinishKeeps ==
  ASSUME IInv, NEW s \in Sessions, NEW h \in Hands, NEW S, NEW Q, Finish(s, h, S, Q),
         tree' \in Trees, WellFormed(tree'), Moves(tree, tree', S), Fills(tree, tree', Q)
  PROVE  IInv'
<1>1. /\ UNCHANGED <<cwd, from, emptied>>
      /\ pending' = [pending EXCEPT ![s][h] = Nothing]
      /\ seen' = [Disturbed(S, Q) EXCEPT ![s][h] = Changed]
      /\ here' = Kept(here, S) /\ confirmed' = Kept(confirmed, S)
  BY DEF Finish
<1>2. TypeOK
  BY DEF IInv
<1>3. /\ here' \in [Sessions -> Objects \cup {Changed}]
      /\ confirmed' \in [Sessions -> Objects \cup {NoObject, Changed}]
      /\ Disturbed(S, Q) \in [Sessions -> [Hands -> Objects \cup {Changed}]]
      /\ HereInv' /\ ConfirmedInv'
  BY <1>1, DisturbedKeeps DEF ConfirmedInv
<1>4. TypeOK'
  <2>1. Nothing \in Commands
    BY EmptySeq DEF Nothing, Commands
  <2>2. IsTree(tree')
    BY TreeIs
  <2> QED
    BY <1>1, <1>2, <1>3, <2>1, <2>2 DEF TypeOK
<1>5. ASSUME NEW z \in Sessions, NEW g \in Hands, seen'[z][g] # Changed
      PROVE  Finds(tree', pending'[z][g], Meant(z, g)', seen'[z][g])
  <2>1. ~(z = s /\ g = h)
    BY <1>1, <1>3, <1>5
  <2>2. pending'[z][g] = pending[z][g] /\ seen'[z][g] = Disturbed(S, Q)[z][g]
    BY <1>1, <1>2, <1>3, <2>1 DEF TypeOK
  <2>3. Meant(z, g)' = Meant(z, g)
    BY <1>1, <2>2 DEF Meant, Join
  <2> QED
    BY <1>1, <1>5, <2>2, <2>3, DisturbedKeeps
<1>6. HandsInv'
  BY <1>1, <1>2 DEF IInv, HandsInv, TypeOK, Hands, Nothing
<1> QED
  BY <1>1, <1>3, <1>4, <1>5, <1>6 DEF IInv, SeenInv

\* A command gives up, or a listing has been read.
LEMMA AbandonKeeps ==
  ASSUME IInv, NEW s \in Sessions, NEW h \in Hands, Abandon(s, h), UNCHANGED emptied
  PROVE  IInv'
<1>1. /\ UNCHANGED <<tree, cwd, from, here, confirmed, emptied>>
      /\ pending' = [pending EXCEPT ![s][h] = Nothing]
      /\ seen' = [seen EXCEPT ![s][h] = Changed]
  BY DEF Abandon
<1>2. TypeOK
  BY DEF IInv
<1>3. TypeOK'
  <2>1. Nothing \in Commands
    BY EmptySeq DEF Nothing, Commands
  <2> QED
    BY <1>1, <1>2, <2>1 DEF TypeOK
<1>4. HereInv' /\ ConfirmedInv'
  BY <1>1 DEF IInv, HereInv, ConfirmedInv
<1>5. ASSUME NEW z \in Sessions, NEW g \in Hands, seen'[z][g] # Changed
      PROVE  Finds(tree', pending'[z][g], Meant(z, g)', seen'[z][g])
  <2>1. pending'[z][g] = pending[z][g] /\ seen'[z][g] = seen[z][g]
    BY <1>1, <1>2, <1>5 DEF TypeOK
  <2>2. Meant(z, g)' = Meant(z, g)
    BY <1>1, <2>1 DEF Meant, Join
  <2> QED
    BY <1>1, <1>5, <2>1, <2>2 DEF IInv, SeenInv
<1>6. HandsInv'
  BY <1>1, <1>2 DEF IInv, HandsInv, TypeOK, Hands, Nothing
<1> QED
  BY <1>1, <1>3, <1>4, <1>5, <1>6 DEF IInv, SeenInv

\* A command has resolved its path, or looked.
LEMMA BeginKeeps ==
  ASSUME IInv, NEW s \in Sessions, NEW h \in Hands, NEW op, NEW at, NEW whole, NEW p,
         [op |-> op, at |-> at, whole |-> whole, path |-> p] \in Commands,
         NEW o \in Objects \cup {Changed}, Begin(s, h, op, at, whole, p, o),
         o # Changed =>
           LET c == [op |-> op, at |-> at, whole |-> whole, path |-> p] IN
           Finds(tree, c, IF op = "LIST" /\ at = "begun" THEN Join(s, c) ELSE p, o),
         op = "LIST" => h = "thread", at # "begun" => whole = TRUE,
         UNCHANGED <<tree, cwd, from, here, confirmed, emptied>>
  PROVE  IInv'
<1> DEFINE c == [op |-> op, at |-> at, whole |-> whole, path |-> p]
<1>1. /\ pending' = [pending EXCEPT ![s][h] = c] /\ seen' = [seen EXCEPT ![s][h] = o]
      /\ c \in Commands
  BY DEF Begin
<1>2. TypeOK
  BY DEF IInv
<1>3. TypeOK'
  BY <1>1, <1>2 DEF TypeOK
<1>4. HereInv' /\ ConfirmedInv'
  BY DEF IInv, HereInv, ConfirmedInv
<1>5. ASSUME NEW z \in Sessions, NEW g \in Hands, seen'[z][g] # Changed
      PROVE  Finds(tree', pending'[z][g], Meant(z, g)', seen'[z][g])
  <2>1. CASE z = s /\ g = h
    <3>1. pending'[z][g] = c /\ seen'[z][g] = o
      BY <1>1, <1>2, <2>1 DEF TypeOK
    <3>2. Meant(z, g)' = IF op = "LIST" /\ at = "begun" THEN Join(s, c) ELSE p
      BY <2>1, <3>1 DEF Meant, Join
    <3> QED
      BY <1>5, <3>1, <3>2
  <2>2. CASE ~(z = s /\ g = h)
    <3>1. pending'[z][g] = pending[z][g] /\ seen'[z][g] = seen[z][g]
      BY <1>1, <1>2, <2>2 DEF TypeOK
    <3>2. Meant(z, g)' = Meant(z, g)
      BY <3>1 DEF Meant, Join
    <3> QED
      BY <1>5, <3>1, <3>2 DEF IInv, SeenInv
  <2> QED
    BY <2>1, <2>2
<1>6. HandsInv'
  BY <1>1, <1>2 DEF IInv, HandsInv, TypeOK, Hands
<1> QED
  BY <1>3, <1>4, <1>5, <1>6 DEF IInv, SeenInv

-----------------------------------------------------------------------------
(* One lemma per command.                                                  *)

\* canonical.
LEMMA ResolveKeeps ==
  ASSUME IInv, NEW s \in Sessions, NEW op \in Resolved,
         NEW arg, arg.whole \in BOOLEAN, arg.path \in Seq(Names), Resolve(s, op, arg)
  PROVE  IInv'
<1> DEFINE p == BuildPath(s, arg)
           o == Found(Status(tree, Join(s, arg)))
           c == [op |-> op, at |-> "resolved", whole |-> TRUE, path |-> p]
<1>1. /\ Begin(s, "handler", op, "resolved", TRUE, p, o)
      /\ UNCHANGED <<tree, cwd, from, here, confirmed, emptied>>
  BY DEF Resolve
<1>2. p \in Seq(Names) /\ o \in Objects \cup {Changed} /\ (o # Changed => Stays(tree, p, o))
  BY BuildPathIs DEF IInv
<1> HIDE DEF p, o
<1>3. c \in Commands /\ op # "LIST" /\ "handler" \in Hands
  BY <1>2 DEF Commands, Resolved, Hands
<1>4. o # Changed => Finds(tree, c, p, o)
  BY <1>2 DEF Finds, Makes, Resolved, AsGiven
<1> QED
  BY <1>1, <1>2, <1>3, <1>4, BeginKeeps

LEMMA DrawKeeps ==
  ASSUME IInv, NEW s \in Sessions, NEW n \in Unique, Draw(s, n)
  PROVE  IInv'
<1> DEFINE arg == [whole |-> FALSE, path |-> <<n>>]
<1>1. Resolve(s, "STOU", arg) /\ "STOU" \in Resolved
  BY DEF Draw, Resolved
<1>2. <<n>> \in Seq(Names)
  BY PathsAssumption
<1>3. arg.whole \in BOOLEAN /\ arg.path \in Seq(Names)
  BY <1>2
<1> HIDE DEF arg
<1> QED
  BY <1>1, <1>3, ResolveKeeps

LEMMA RefuseKeeps ==
  ASSUME IInv, NEW s \in Sessions, Refuse(s)
  PROVE  IInv'
BY AbandonKeeps DEF Refuse, Hands

\* What the handler of a command that canonical has resolved knows.
LEMMA LookedIs ==
  ASSUME IInv, NEW s \in Sessions, NEW op \in Resolved, Looked(s, op)
  PROVE  LET p == pending[s]["handler"].path IN
         LET o == seen[s]["handler"] IN
         /\ p \in Seq(Names) /\ o \in Objects \cup {Changed}
         /\ o # Changed => Stays(tree, p, o)
         /\ Wanted(op, Status(tree, p))
<1> DEFINE c == pending[s]["handler"]
           o == seen[s]["handler"]
<1>1. c.op = op /\ c.at = "resolved" /\ Wanted(op, Status(tree, c.path)) /\ "handler" \in Hands
  BY DEF Looked, At, Hands
<1>2. c \in Commands /\ o \in Objects \cup {Changed}
  BY <1>1 DEF IInv, TypeOK
<1>3. c.path \in Seq(Names)
  BY <1>2 DEF Commands
<1>4. o # Changed => Finds(tree, c, c.path, o)
  BY <1>1 DEF IInv, SeenInv, Meant
<1> HIDE DEF c, o
<1>5. o # Changed => Stays(tree, c.path, o)
  BY <1>1, <1>4 DEF Finds, Makes, Resolved, AsGiven
<1> QED
  BY <1>1, <1>2, <1>3, <1>5 DEF c, o

LEMMA CwdKeeps ==
  ASSUME IInv, NEW s \in Sessions, Cwd(s)
  PROVE  IInv'
<1> DEFINE p == pending[s]["handler"].path
           o == seen[s]["handler"]
<1>1. /\ Looked(s, "CWD") /\ Enter(s, p, o)
      /\ pending' = [pending EXCEPT ![s]["handler"] = Nothing] /\ UNCHANGED <<from, confirmed>>
  BY DEF Cwd
<1>2. p \in Seq(Names) /\ o \in Objects \cup {Changed} /\ (o # Changed => Stays(tree, p, o))
  BY <1>1, LookedIs DEF Resolved
<1> HIDE DEF p, o
<1>3. Nothing \in Commands
  BY EmptySeq DEF Nothing, Commands
<1>4. /\ pending' \in [Sessions -> [Hands -> Commands]]
      /\ \A z \in Sessions, h \in Hands :
           ~(z = s /\ h = "handler") => pending'[z][h] = pending[z][h]
  BY <1>1, <1>3 DEF IInv, TypeOK, Hands
<1>5. /\ cwd' \in [Sessions -> Seq(Names)]
      /\ here' \in [Sessions -> Objects \cup {Changed}]
      /\ seen' \in [Sessions -> [Hands -> Objects \cup {Changed}]]
      /\ HereInv' /\ SeenInv' /\ UNCHANGED <<tree, emptied>>
  BY <1>1, <1>2, <1>4, EnterKeeps
<1>6. TypeOK'
  BY <1>1, <1>4, <1>5 DEF IInv, TypeOK
<1>7. ConfirmedInv'
  BY <1>1, <1>5 DEF IInv, ConfirmedInv
<1>8. HandsInv'
  BY <1>1 DEF IInv, TypeOK, HandsInv, Hands, Nothing
<1> QED
  BY <1>5, <1>6, <1>7, <1>8 DEF IInv

LEMMA CdupKeeps ==
  ASSUME IInv, NEW s \in Sessions, Cdup(s)
  PROVE  IInv'
<1> DEFINE p == Front(cwd[s])
           o == IF Straight(tree, p) THEN Found(Status(tree, p)) ELSE Changed
<1>1. p \in Seq(Names) /\ tree \in Trees /\ WellFormed(tree)
  BY FrontLast, TreeNow DEF Cdup, IInv, TypeOK
<1>2. Enter(s, p, o) /\ UNCHANGED <<from, pending, confirmed>>
  BY DEF Cdup
<1> HIDE DEF p
<1>3. o \in Objects \cup {Changed} /\ (o # Changed => Stays(tree, p, o))
  BY <1>1, StatusIs, CanonicalIs DEF Places, Stays, Straight, Found
<1> HIDE DEF o
<1>4. pending' \in [Sessions -> [Hands -> Commands]]
  BY <1>2 DEF IInv, TypeOK
<1>5. /\ cwd' \in [Sessions -> Seq(Names)]
      /\ here' \in [Sessions -> Objects \cup {Changed}]
      /\ seen' \in [Sessions -> [Hands -> Objects \cup {Changed}]]
      /\ HereInv' /\ SeenInv' /\ UNCHANGED <<tree, emptied>>
  BY <1>1, <1>2, <1>3, <1>4, EnterKeeps
<1> QED
  BY <1>2, <1>5 DEF IInv, TypeOK, ConfirmedInv, HandsInv

LEMMA ReinKeeps ==
  ASSUME IInv, NEW s \in Sessions, Rein(s)
  PROVE  IInv'
<1>1. <<>> \in Seq(Names) /\ Home \in Objects /\ Stays(tree, <<>>, Home)
  <2>1. tree \in Trees /\ tree.kind[Home] = "dir" /\ <<>> \in Seq(Names)
    BY EmptySeq, TreeNow DEF IInv, WellFormed
  <2>2. Plain(tree, <<>>) = Home
    BY <2>1, PlainIs
  <2> QED
    BY <2>1, <2>2, TreeAssumption DEF Stays, IsLink
<1>2. /\ Enter(s, <<>>, Home) /\ UNCHANGED pending
      /\ from' = [from EXCEPT ![s] = NoPath]
      /\ confirmed' = [confirmed EXCEPT ![s] = NoObject]
  BY DEF Rein
<1>3. pending' \in [Sessions -> [Hands -> Commands]]
  BY <1>2 DEF IInv, TypeOK
<1>4. /\ cwd' \in [Sessions -> Seq(Names)]
      /\ here' \in [Sessions -> Objects \cup {Changed}]
      /\ seen' \in [Sessions -> [Hands -> Objects \cup {Changed}]]
      /\ HereInv' /\ SeenInv' /\ UNCHANGED <<tree, emptied>>
  BY <1>1, <1>2, <1>3, EnterKeeps
<1>5. TypeOK'
  BY <1>2, <1>4 DEF IInv, TypeOK
<1>6. ConfirmedInv'
  BY <1>2, <1>4, TreeAssumption DEF IInv, TypeOK, ConfirmedInv
<1> QED
  BY <1>2, <1>4, <1>5, <1>6 DEF IInv, HandsInv

\* DELE goes on with what canonical found.
LEMMA DeleKeeps ==
  ASSUME IInv, NEW s \in Sessions, Dele(s)
  PROVE  IInv'
<1> DEFINE c == pending[s]["handler"]
           d == [c EXCEPT !.at = "looked"]
<1>1. /\ At(s, "handler", "DELE", "resolved") /\ UNCHANGED <<tree, cwd, from, historyVars>>
      /\ pending' = [pending EXCEPT ![s]["handler"].at = "looked"]
  BY DEF Dele, Looked
<1>2. c \in Commands /\ c.op = "DELE" /\ c.at = "resolved" /\ "handler" \in Hands
  BY <1>1 DEF IInv, TypeOK, At, Hands
<1>3. d \in Commands /\ d.op = "DELE" /\ d.at = "looked" /\ d.path = c.path
  BY <1>2 DEF Commands
<1>4. pending' = [pending EXCEPT ![s]["handler"] = d]
  BY <1>1
<1> HIDE DEF c, d
<1>5. TypeOK'
  <2>1. pending' \in [Sessions -> [Hands -> Commands]]
    BY <1>3, <1>4 DEF IInv, TypeOK
  <2> QED
    BY <1>1, <2>1 DEF IInv, TypeOK, historyVars
<1>6. HereInv' /\ ConfirmedInv'
  BY <1>1 DEF IInv, HereInv, ConfirmedInv, historyVars
<1>7. ASSUME NEW z \in Sessions, NEW h \in Hands, seen'[z][h] # Changed
      PROVE  Finds(tree', pending'[z][h], Meant(z, h)', seen'[z][h])
  <2>1. seen'[z][h] = seen[z][h] /\ tree' = tree /\ cwd' = cwd
    BY <1>1 DEF historyVars
  <2>2. Finds(tree, pending[z][h], Meant(z, h), seen[z][h])
    BY <1>7, <2>1 DEF IInv, SeenInv
  <2>3. CASE z = s /\ h = "handler"
    <3>1. pending'[z][h] = d /\ pending[z][h] = c
      BY <1>2, <1>4, <2>3 DEF IInv, TypeOK, c
    <3>2. Meant(z, h)' = c.path /\ Meant(z, h) = c.path
      BY <1>2, <1>3, <3>1 DEF Meant
    <3>3. Stays(tree, c.path, seen[z][h])
      BY <1>2, <2>2, <3>1, <3>2 DEF Finds, Makes, AsGiven
    <3> QED
      BY <1>3, <2>1, <3>1, <3>2, <3>3 DEF Finds, Makes, AsGiven
  <2>4. CASE ~(z = s /\ h = "handler")
    <3>1. pending'[z][h] = pending[z][h]
      BY <1>4, <2>4 DEF IInv, TypeOK
    <3>2. Meant(z, h)' = Meant(z, h)
      BY <2>1, <3>1 DEF Meant, Join
    <3> QED
      BY <2>1, <2>2, <3>1, <3>2
  <2> QED
    BY <2>3, <2>4
<1>8. HandsInv'
  BY <1>3, <1>4 DEF IInv, TypeOK, HandsInv, Hands
<1> QED
  BY <1>1, <1>5, <1>6, <1>7, <1>8 DEF IInv, SeenInv, historyVars

\* RMD remembers the object, MKD the directory.
LEMMA LookKeeps ==
  ASSUME IInv, NEW s \in Sessions, NEW arg \in Args, NEW op \in AsGiven, Look(s, op, arg)
  PROVE  IInv'
<1> DEFINE p == Join(s, arg)
           o == IF op = "MKD" THEN FreeIn(p) ELSE Named(tree, p)
           c == [op |-> op, at |-> "looked", whole |-> TRUE, path |-> p]
<1>1. /\ p # <<>> /\ Wanted(op, Status(tree, p)) /\ Begin(s, "handler", op, "looked", TRUE, p, o)
      /\ UNCHANGED <<tree, cwd, from, here, confirmed, emptied>>
  BY DEF Look
<1>2. TypeOK /\ p \in Seq(Names) /\ tree \in Trees
  BY JoinIs, PathsAssumption DEF IInv, TypeOK
<1> HIDE DEF p
<1>3. c \in Commands /\ op # "LIST" /\ "handler" \in Hands
  BY <1>2 DEF Commands, AsGiven, Hands
<1>4. CASE op = "MKD"
  <2>1. Status(tree, p) = NoObject /\ o = FreeIn(p)
    BY <1>1, <1>4 DEF Wanted
  <2>2. /\ o \in Objects \cup {Changed}
        /\ o # Changed => Parent(tree, p) = o /\ Named(tree, p) = NoObject
    BY <1>1, <1>2, <2>1, FreeInIs
  <2> HIDE DEF o
  <2>3. o # Changed => Finds(tree, c, p, o)
    BY <1>1, <1>4, <2>2 DEF Finds, Makes
  <2> QED
    BY <1>1, <1>3, <2>2, <2>3, BeginKeeps
<1>5. CASE op = "RMD"
  <2>1. Status(tree, p) # NoObject /\ o = Named(tree, p)
    BY <1>1, <1>5 DEF Wanted
  <2>2. o \in Objects
    <3>1. PICK q \in Seq(Names), n \in Names : p = Append(q, n)
      BY <1>1, <1>2, SequenceEmptyOrAppend
    <3>2. /\ Named(tree, p) = Child(tree, Status(tree, q), n)
          /\ Walk(tree, p) = Follow(tree, Walk(tree, q), n)
      BY <1>2, <3>1, NamedIs, WalkIs
    <3>3. Named(tree, p) # NoObject
      BY <2>1, <3>2 DEF Status, Follow, IsLink
    <3> QED
      BY <1>2, <2>1, <3>3, StatusIs DEF Places
  <2> HIDE DEF o
  <2>3. Finds(tree, c, p, o)
    BY <1>5, <2>1 DEF Finds, Makes, AsGiven
  <2> QED
    BY <1>1, <1>3, <2>2, <2>3, BeginKeeps
<1> QED
  BY <1>4, <1>5 DEF AsGiven

LEMMA ActRemoveKeeps ==
  ASSUME IInv, NEW s \in Sessions, ActRemove(s)
  PROVE  IInv'
<1> DEFINE p == pending[s]["handler"].path
<1>1. p \in Seq(Names) /\ tree \in Trees /\ WellFormed(tree) /\ "handler" \in Hands
  BY TreeNow DEF IInv, TypeOK, Commands, Hands
<1>2. CASE CanRemove(tree, p)
  <2>1. tree' = Unlink(tree, p) /\ Finish(s, "handler", Below(tree, Named(tree, p)), {})
    BY <1>2 DEF ActRemove
  <2>2. /\ tree' \in Trees /\ WellFormed(tree') /\ Moves(tree, tree', Below(tree, Named(tree, p)))
        /\ Fills(tree, tree', {})
    BY <1>1, <1>2, <2>1, UnlinkKeeps
  <2> QED
    BY <1>1, <2>1, <2>2, FinishKeeps
<1>3. CASE ~CanRemove(tree, p)
  BY <1>1, <1>3, AbandonKeeps DEF ActRemove
<1> QED
  BY <1>2, <1>3

LEMMA ActMakeKeeps ==
  ASSUME IInv, NEW s \in Sessions, ActMake(s)
  PROVE  IInv'
<1> DEFINE p == pending[s]["handler"].path
<1>1. p \in Seq(Names) /\ tree \in Trees /\ WellFormed(tree) /\ "handler" \in Hands
  BY TreeNow DEF IInv, TypeOK, Commands, Hands
<1>2. CASE CanCreate(tree, p)
  <2>1. tree' = Create(tree, p, "dir") /\ Finish(s, "handler", {}, {Place(p)})
    BY <1>2 DEF ActMake
  <2>2. /\ tree' \in Trees /\ WellFormed(tree') /\ Moves(tree, tree', {})
        /\ Fills(tree, tree', {Place(p)})
    BY <1>1, <1>2, <2>1, CreateKeeps DEF Place
  <2> QED
    BY <1>1, <2>1, <2>2, FinishKeeps
<1>3. CASE ~CanCreate(tree, p)
  BY <1>1, <1>3, AbandonKeeps DEF ActMake
<1> QED
  BY <1>2, <1>3

\* What STOU found free is free still, unless it knows nothing of it: it empties no file.
LEMMA StouOpensKeeps ==
  ASSUME IInv, NEW s \in Sessions, StouOpens(s)
  PROVE  IInv'
<1> DEFINE given == pending[s]["thread"].path
           named == Named(tree, given)
           p == IF IsLink(tree, named) THEN tree.link[named] ELSE given
           o == Status(tree, given)
<1>1. /\ given \in Seq(Names) /\ tree \in Trees /\ WellFormed(tree) /\ "thread" \in Hands
      /\ At(s, "thread", "STOU", "looked")
  BY TreeNow DEF IInv, TypeOK, Commands, Hands, StouOpens
<1>2. p \in Seq(Names)
  <2>1. named \in Places
    BY <1>1, StatusIs
  <2> QED
    BY <1>1, <2>1 DEF Places, IsLink, Trees
<1>3. CASE CanCreate(tree, p)
  <2>1. tree' = Create(tree, p, "file") /\ Finish(s, "thread", {}, {Place(p)})
    BY <1>3 DEF StouOpens
  <2>2. /\ tree' \in Trees /\ WellFormed(tree') /\ Moves(tree, tree', {})
        /\ Fills(tree, tree', {Place(p)})
    BY <1>1, <1>2, <1>3, <2>1, CreateKeeps DEF Place
  <2> QED
    BY <1>1, <2>1, <2>2, FinishKeeps
<1>4. CASE ~CanCreate(tree, p)
  <2>1. /\ Abandon(s, "thread")
        /\ emptied' = IF o # NoObject /\ tree.kind[o] = "file" /\ seen[s]["thread"] # Changed
                      THEN emptied \cup {o} ELSE emptied
    BY <1>4 DEF StouOpens
  <2>2. ASSUME seen[s]["thread"] # Changed PROVE o = NoObject
    <3>1. Finds(tree, pending[s]["thread"], given, seen[s]["thread"])
      BY <1>1, <2>2 DEF IInv, SeenInv, Meant, At
    <3>2. given # <<>> /\ named = NoObject
      BY <1>1, <3>1 DEF Finds, Makes, At
    <3>3. PICK q \in Seq(Names), n \in Names : given = Append(q, n)
      BY <1>1, <3>2, SequenceEmptyOrAppend
    <3>4. named = Child(tree, Status(tree, q), n) /\ Walk(tree, given) = Follow(tree, Walk(tree, q), n)
      BY <1>1, <3>3, NamedIs, WalkIs
    <3> HIDE DEF given, named
    <3>5. Child(tree, Walk(tree, q).object, n) = NoObject
      BY <3>2, <3>4 DEF Status
    <3>6. Walk(tree, given).object = NoObject
      BY <3>4, <3>5 DEF Follow, IsLink
    <3> QED
      BY <3>6 DEF Status
  <2>3. emptied' = emptied
    BY <2>1, <2>2
  <2> QED
    BY <1>1, <2>1, <2>3, AbandonKeeps
<1> QED
  BY <1>3, <1>4

LEMMA RnfrKeeps ==
  ASSUME IInv, NEW s \in Sessions, Rnfr(s)
  PROVE  IInv'
<1> DEFINE p == pending[s]["handler"].path
           o == seen[s]["handler"]
<1>1. /\ UNCHANGED <<tree, cwd, here, emptied>> /\ Looked(s, "RNFR")
      /\ from' = [from EXCEPT ![s] = p] /\ confirmed' = [confirmed EXCEPT ![s] = o]
      /\ pending' = [pending EXCEPT ![s]["handler"] = Nothing]
      /\ seen' = [seen EXCEPT ![s]["handler"] = Changed]
  BY DEF Rnfr
<1>2. p \in Seq(Names) /\ o \in Objects \cup {Changed} /\ (o # Changed => Stays(tree, p, o))
  BY <1>1, LookedIs DEF Resolved
<1> HIDE DEF p, o
<1>3. Nothing \in Commands /\ "handler" \in Hands
  BY EmptySeq DEF Nothing, Commands, Hands
<1>4. TypeOK'
  BY <1>1, <1>2, <1>3 DEF IInv, TypeOK
<1>5. HereInv'
  BY <1>1 DEF IInv, HereInv
<1>6. ASSUME NEW z \in Sessions, NEW h \in Hands, seen'[z][h] # Changed
      PROVE  Finds(tree', pending'[z][h], Meant(z, h)', seen'[z][h])
  <2>1. pending'[z][h] = pending[z][h] /\ seen'[z][h] = seen[z][h]
    BY <1>1, <1>3, <1>6 DEF IInv, TypeOK
  <2>2. Meant(z, h)' = Meant(z, h)
    BY <1>1, <2>1 DEF Meant, Join
  <2> QED
    BY <1>1, <1>6, <2>1, <2>2 DEF IInv, SeenInv
<1>7. ASSUME NEW z \in Sessions
      PROVE  /\ confirmed'[z] \in Objects
                  => from'[z] # NoPath /\ Plain(tree', from'[z]) = confirmed'[z]
             /\ confirmed'[z] = NoObject => from'[z] = NoPath
  <2>1. /\ confirmed \in [Sessions -> Objects \cup {NoObject, Changed}]
        /\ from \in [Sessions -> Seq(Names) \cup {NoPath}]
    BY DEF IInv, TypeOK
  <2>2. CASE z = s
    <3>1. confirmed'[z] = o /\ from'[z] = p /\ tree' = tree
      BY <1>1, <2>1, <2>2
    <3>2. p # NoPath /\ o # NoObject /\ Changed \notin Objects
      BY <1>2, PathsAssumption, TreeAssumption
    <3> QED
      BY <1>2, <3>1, <3>2 DEF Stays
  <2>3. CASE z # s
    <3>1. confirmed'[z] = confirmed[z] /\ from'[z] = from[z] /\ tree' = tree
      BY <1>1, <2>1, <2>3
    <3> QED
      BY <3>1 DEF IInv, ConfirmedInv
  <2> QED
    BY <2>2, <2>3
<1>8. HandsInv'
  BY <1>1 DEF IInv, TypeOK, HandsInv, Hands, Nothing
<1> QED
  BY <1>1, <1>4, <1>5, <1>6, <1>7, <1>8 DEF IInv, SeenInv, ConfirmedInv

LEMMA RntoKeeps ==
  ASSUME IInv, NEW s \in Sessions, NEW arg \in Args, Rnto(s, arg)
  PROVE  IInv'
<1> DEFINE p == from[s]
           q == Join(s, arg)
           moves == CanRename(tree, p, q)
           S == IF moves THEN Displaced(tree, p, q) ELSE {}
           Q == {Place(q)}
<1>1. /\ p # NoPath /\ UNCHANGED <<cwd, pending, emptied>>
      /\ from' = [from EXCEPT ![s] = NoPath]
      /\ tree' = IF moves THEN Rename(tree, p, q) ELSE tree
      /\ confirmed' = [Kept(confirmed, S) EXCEPT ![s] = NoObject]
      /\ here' = Kept(here, S)
      /\ seen' = IF moves THEN Disturbed(S, Q) ELSE seen
  BY DEF Rnto
<1>2. p \in Seq(Names) /\ q \in Seq(Names) /\ tree \in Trees /\ WellFormed(tree)
  BY <1>1, JoinIs, TreeNow, PathsAssumption DEF IInv, TypeOK
<1>3. tree' \in Trees /\ WellFormed(tree') /\ Moves(tree, tree', S) /\ Fills(tree, tree', Q)
  <2>1. CASE moves
    <3>1. tree' = Rename(tree, p, q) /\ S = Displaced(tree, p, q)
      BY <1>1, <2>1
    <3> QED
      BY <1>2, <2>1, <3>1, RenameKeeps DEF Place
  <2>2. CASE ~moves
    <3>1. tree' = tree /\ S = {}
      BY <1>1, <2>2
    <3> QED
      BY <1>2, <3>1 DEF Moves, Closed, Fills
  <2> QED
    BY <2>1, <2>2
<1>4. IsTree(tree')
  BY <1>3, TreeIs
<1> HIDE DEF Q
<1>5. /\ here' \in [Sessions -> Objects \cup {Changed}] /\ HereInv'
      /\ Kept(confirmed, S) \in [Sessions -> Objects \cup {NoObject, Changed}]
      /\ Disturbed(S, Q) \in [Sessions -> [Hands -> Objects \cup {Changed}]]
  BY <1>1, <1>3, DisturbedKeeps
<1>6. TypeOK'
  BY <1>1, <1>3, <1>4, <1>5 DEF IInv, TypeOK
<1>7. ConfirmedInv'
  <2> SUFFICES ASSUME NEW z \in Sessions
               PROVE  /\ confirmed'[z] \in Objects
                           => from'[z] # NoPath /\ Plain(tree', from'[z]) = confirmed'[z]
                      /\ confirmed'[z] = NoObject => from'[z] = NoPath
    BY DEF ConfirmedInv
  <2>1. CASE z = s
    BY <1>1, <1>5, <2>1, TreeAssumption DEF IInv, TypeOK
  <2>2. CASE z # s
    <3>1. confirmed'[z] = Kept(confirmed, S)[z] /\ from'[z] = from[z]
      BY <1>1, <1>5, <2>2 DEF IInv, TypeOK
    <3> QED
      BY <1>1, <1>3, <3>1, DisturbedKeeps
  <2> QED
    BY <2>1, <2>2
<1>8. SeenInv'
  <2>1. CASE moves
    <3>1. \A z \in Sessions, h \in Hands : Meant(z, h)' = Meant(z, h)
      BY <1>1 DEF Meant, Join
    <3>2. seen' = Disturbed(S, Q) /\ pending' = pending
      BY <1>1, <2>1
    <3> HIDE DEF S, moves
    <3> QED
      BY <1>1, <1>3, <3>1, <3>2, DisturbedKeeps DEF SeenInv
  <2>2. CASE ~moves
    BY <1>1, <2>2 DEF IInv, SeenInv, Meant, Join
  <2> QED
    BY <2>1, <2>2
<1> QED
  BY <1>1, <1>5, <1>6, <1>7, <1>8 DEF IInv, HandsInv

LEMMA ListKeeps ==
  ASSUME IInv, NEW s \in Sessions, NEW arg \in Args, List(s, arg)
  PROVE  IInv'
<1> DEFINE j == Join(s, arg)
           o == Found(Status(tree, j))
           c == [op |-> "LIST", at |-> "begun", whole |-> arg.whole, path |-> arg.path]
<1>1. /\ Begin(s, "thread", "LIST", "begun", arg.whole, arg.path, o)
      /\ UNCHANGED <<tree, cwd, from, here, confirmed, emptied>>
  BY DEF List
<1>2. c \in Commands /\ "thread" \in Hands
  BY PathsAssumption DEF Commands, Hands
<1>3. j \in Seq(Names) /\ tree \in Trees
  BY JoinIs, PathsAssumption DEF IInv, TypeOK
<1>4. o \in Objects \cup {Changed} /\ (o # Changed => Status(tree, j) = o)
  BY <1>3, StatusIs DEF Places, Found
<1>5. Join(s, c) = j
  BY DEF Join
<1> HIDE DEF j, o
<1>6. o # Changed
        => Finds(tree, c, IF "LIST" = "LIST" /\ "begun" = "begun" THEN Join(s, c) ELSE arg.path, o)
  BY <1>4, <1>5 DEF Finds, Makes, AsGiven
<1> QED
  BY <1>1, <1>2, <1>4, <1>6, BeginKeeps

\* A list thread resolves the path that led to what its command named.
LEMMA ListResolvesKeeps ==
  ASSUME IInv, NEW s \in Sessions, ListResolves(s)
  PROVE  IInv'
<1> DEFINE b == pending[s]["thread"]
           p == BuildPath(s, b)
           o == seen[s]["thread"]
           c == [op |-> "LIST", at |-> "resolved", whole |-> TRUE, path |-> p]
<1>1. /\ Begin(s, "thread", "LIST", "resolved", TRUE, p, o) /\ b.op = "LIST" /\ b.at = "begun"
      /\ UNCHANGED <<tree, cwd, from, here, confirmed, emptied>>
  BY DEF ListResolves, At
<1>2. b \in Commands /\ "thread" \in Hands /\ o \in Objects \cup {Changed} /\ TypeOK
  BY DEF IInv, TypeOK, Hands
<1>3. b.whole \in BOOLEAN /\ b.path \in Seq(Names)
  BY <1>2 DEF Commands
<1>4. o # Changed => Status(tree, Join(s, b)) = o
  BY <1>1, <1>2 DEF IInv, SeenInv, Finds, Meant, Makes, AsGiven
<1> HIDE DEF b, o
<1>5. p \in Seq(Names) /\ (o # Changed => Stays(tree, p, o))
  <2>1. o # Changed => Found(Status(tree, Join(s, b))) = o
    BY <1>2, <1>4, TreeAssumption DEF Found
  <2> QED
    BY <1>2, <1>3, <2>1, BuildPathIs
<1> HIDE DEF p
<1>6. c \in Commands
  BY <1>5 DEF Commands
<1>7. o # Changed => Finds(tree, c, p, o)
  BY <1>5 DEF Finds, Makes, AsGiven
<1> QED
  BY <1>1, <1>2, <1>6, <1>7, BeginKeeps

LEMMA StouKeeps ==
  ASSUME IInv, NEW s \in Sessions, Stou(s)
  PROVE  IInv'
<1> DEFINE p == pending[s]["handler"].path
           o == FreeIn(p)
           c == [op |-> "STOU", at |-> "looked", whole |-> TRUE, path |-> p]
<1>1. /\ Looked(s, "STOU") /\ UNCHANGED <<tree, cwd, from, here, confirmed, emptied>>
      /\ pending' = [pending EXCEPT ![s]["handler"] = Nothing, ![s]["thread"] = c]
      /\ seen' = [seen EXCEPT ![s]["handler"] = Changed, ![s]["thread"] = o]
  BY DEF Stou, StoreStarts
<1>2. TypeOK /\ p \in Seq(Names) /\ Status(tree, p) = NoObject
  BY <1>1, LookedIs DEF Resolved, Wanted, IInv
<1>3. p # <<>>
  <2>1. Status(tree, <<>>) = Home /\ Home # NoObject
    BY <1>2, WalkIs, TreeAssumption DEF TypeOK, Status, Top
  <2> QED
    BY <1>2, <2>1
<1>4. /\ o \in Objects \cup {Changed}
      /\ o # Changed => Parent(tree, p) = o /\ Named(tree, p) = NoObject
  BY <1>2, <1>3, FreeInIs
<1> HIDE DEF p, o
<1>5. c \in Commands /\ Nothing \in Commands /\ "handler" \in Hands /\ "thread" \in Hands
  BY <1>2, EmptySeq DEF Commands, Nothing, Resolved, Hands
<1>6. o # Changed => Finds(tree, c, p, o)
  BY <1>3, <1>4 DEF Finds, Makes
<1>7. TypeOK'
  BY <1>1, <1>2, <1>4, <1>5 DEF TypeOK
<1>8. HereInv' /\ ConfirmedInv'
  BY <1>1 DEF IInv, HereInv, ConfirmedInv
<1>9. ASSUME NEW z \in Sessions, NEW h \in Hands, seen'[z][h] # Changed
      PROVE  Finds(tree', pending'[z][h], Meant(z, h)', seen'[z][h])
  <2>1. CASE z = s
    <3>1. h = "thread" /\ pending'[z][h] = c /\ seen'[z][h] = o
      BY <1>1, <1>2, <1>9, <2>1 DEF TypeOK, Hands
    <3>2. pending'[z][h].op = "STOU" /\ pending'[z][h].path = p
      BY <3>1
    <3>3. Meant(z, h)' = p
      BY <3>2 DEF Meant
    <3> QED
      BY <1>1, <1>6, <1>9, <3>1, <3>3
  <2>2. CASE z # s
    <3>1. pending'[z][h] = pending[z][h] /\ seen'[z][h] = seen[z][h]
      BY <1>1, <1>2, <2>2 DEF TypeOK
    <3>2. cwd' = cwd /\ tree' = tree
      BY <1>1
    <3>3. Meant(z, h)' = Meant(z, h)
      BY <3>1, <3>2 DEF Meant, Join
    <3> QED
      BY <1>9, <3>1, <3>2, <3>3 DEF IInv, SeenInv
  <2> QED
    BY <2>1, <2>2
<1>10. HandsInv'
  BY <1>1, <1>2 DEF IInv, TypeOK, HandsInv, Hands, Nothing
<1> QED
  BY <1>1, <1>7, <1>8, <1>9, <1>10 DEF IInv, SeenInv

-----------------------------------------------------------------------------
(* The theorems.                                                           *)

LEMMA InitIs == Init => IInv
<1> SUFFICES ASSUME Init PROVE IInv
  OBVIOUS
<1>1. tree \in Trees /\ IsTree(tree)
  BY PathsAssumption DEF Init
<1>2. Plain(tree, <<>>) = Home /\ ~IsLink(tree, Home) /\ <<>> \in Seq(Names)
  BY <1>1, PlainIs, EmptySeq DEF IsTree, IsLink
<1>3. Nothing \in Commands
  BY EmptySeq DEF Nothing, Commands
<1>4. TypeOK
  BY <1>1, <1>2, <1>3, TreeAssumption DEF Init, TypeOK
<1>5. HereInv /\ ConfirmedInv /\ SeenInv /\ HandsInv /\ emptied = {}
  BY <1>2, TreeAssumption
     DEF Init, HereInv, ConfirmedInv, SeenInv, HandsInv, Hands, Stays, Nothing
<1> QED
  BY <1>4, <1>5 DEF IInv

LEMMA NextKeeps == IInv /\ [Next]_vars => IInv'
<1> SUFFICES ASSUME IInv, [Next]_vars PROVE IInv'
  OBVIOUS
<1>1. CASE UNCHANGED vars
  BY <1>1 DEF vars, historyVars, IInv, TypeOK, HereInv, ConfirmedInv, SeenInv, HandsInv,
              Meant, Join
<1>2. ASSUME NEW s \in Sessions, Session(s) PROVE IInv'
  <2>1. ASSUME NEW arg \in Args, NEW op \in Resolved \ {"STOU"}, Resolve(s, op, arg) PROVE IInv'
    BY <2>1, ResolveKeeps, PathsAssumption
  <2>2. ASSUME NEW n \in Unique, Draw(s, n) PROVE IInv'
    BY <2>2, DrawKeeps
  <2>3. ASSUME NEW arg \in Args, NEW op \in AsGiven, Look(s, op, arg) PROVE IInv'
    BY <2>3, LookKeeps
  <2>4. ASSUME NEW arg \in Args, Rnto(s, arg) \/ List(s, arg) PROVE IInv'
    BY <2>4, RntoKeeps, ListKeeps
  <2>5. CASE Refuse(s) \/ Cwd(s) \/ Rnfr(s) \/ Dele(s)
    BY <2>5, RefuseKeeps, CwdKeeps, RnfrKeeps, DeleKeeps
  <2>6. CASE Stou(s) \/ Cdup(s) \/ Rein(s)
    BY <2>6, StouKeeps, CdupKeeps, ReinKeeps
  <2>7. CASE ActRemove(s) \/ ActMake(s) \/ ListResolves(s) \/ StouOpens(s)
    BY <2>7, ActRemoveKeeps, ActMakeKeeps, ListResolvesKeeps, StouOpensKeeps
  <2>8. CASE ListRuns(s)
    BY <2>8, AbandonKeeps DEF ListRuns, Hands
  <2> QED
    BY <1>2, <2>1, <2>2, <2>3, <2>4, <2>5, <2>6, <2>7, <2>8 DEF Session
<1> QED
  BY <1>1, <1>2 DEF Next

LEMMA IInvIs ==
  IInv => TypeOK /\ InPlace /\ ConfirmedKept /\ AsSeen
<1> SUFFICES ASSUME IInv PROVE TypeOK /\ InPlace /\ ConfirmedKept /\ AsSeen
  OBVIOUS
<1>1. TypeOK /\ tree \in Trees /\ WellFormed(tree)
  BY TreeNow DEF IInv
<1>2. InPlace
  <2> SUFFICES ASSUME NEW s \in Sessions, here[s] # Changed PROVE Status(tree, cwd[s]) = here[s]
    BY DEF InPlace
  <2>1. Stays(tree, cwd[s], here[s]) /\ here[s] # NoObject /\ cwd[s] \in Seq(Names)
    BY <1>1, TreeAssumption DEF IInv, HereInv, TypeOK
  <2> QED
    BY <1>1, <2>1, PlainWalk DEF Stays, Status
<1>3. ConfirmedKept
  <2> SUFFICES ASSUME NEW s \in Sessions
               PROVE  /\ confirmed[s] \in Objects
                           => from[s] # NoPath /\ Named(tree, from[s]) = confirmed[s]
                      /\ confirmed[s] = NoObject => from[s] = NoPath
    BY DEF ConfirmedKept
  <2>1. confirmed[s] = NoObject => from[s] = NoPath
    BY DEF IInv, ConfirmedInv
  <2>2. ASSUME confirmed[s] \in Objects
        PROVE  from[s] # NoPath /\ Named(tree, from[s]) = confirmed[s]
    <3>1. from[s] # NoPath /\ Plain(tree, from[s]) = confirmed[s]
      BY <2>2 DEF IInv, ConfirmedInv
    <3>2. from[s] \in Seq(Names) /\ confirmed[s] # NoObject
      BY <1>1, <2>2, <3>1, TreeAssumption DEF TypeOK
    <3> QED
      BY <1>1, <3>1, <3>2, PlainNamed
  <2> QED
    BY <2>1, <2>2
<1>4. ASSUME NEW s \in Sessions, NEW h \in Hands, seen[s][h] # Changed
      PROVE  LET c == pending[s][h] IN
             IF c.op = "LIST" THEN Listed(s) = seen[s][h]
             ELSE IF Makes(c)
                  THEN Parent(tree, c.path) = seen[s][h] /\ Named(tree, c.path) = NoObject
                  ELSE Named(tree, c.path) = seen[s][h]
  <2> DEFINE c == pending[s][h]
             o == seen[s][h]
  <2>1. Finds(tree, c, Meant(s, h), o) /\ c \in Commands /\ Meant(s, h) \in Seq(Names)
    BY <1>1, <1>4, MeantIs DEF IInv, SeenInv
  <2>2. o \in Objects /\ o # NoObject
    BY <1>1, <1>4, TreeAssumption DEF TypeOK
  <2>3. CASE c.op = "LIST"
    <3>1. h = "thread"
      BY <2>3 DEF IInv, HandsInv, Hands
    <3>2. CASE c.at = "begun"
      BY <2>1, <2>3, <3>1, <3>2 DEF Finds, Meant, Listed, Makes, AsGiven
    <3>3. CASE c.at # "begun"
      <4>1. Stays(tree, Meant(s, h), o)
        BY <2>1, <2>3, <3>3 DEF Finds, Makes, AsGiven
      <4>2. Status(tree, Meant(s, h)) = o
        BY <1>1, <2>1, <2>2, <4>1, PlainWalk DEF Stays, Status
      <4>3. c.whole
        BY <3>1, <3>3 DEF IInv, HandsInv
      <4>4. Join(s, c) = Meant(s, h)
        BY <3>3, <4>3 DEF Join, Meant
      <4> QED
        BY <2>3, <3>1, <4>2, <4>4 DEF Listed
    <3> QED
      BY <3>2, <3>3
  <2>4. CASE c.op # "LIST" /\ Makes(c)
    BY <2>1, <2>4 DEF Finds, Meant, Makes
  <2>5. CASE c.op # "LIST" /\ ~Makes(c) /\ c.op \in AsGiven
    BY <2>1, <2>5 DEF Finds, Meant, AsGiven
  <2>6. CASE c.op # "LIST" /\ ~Makes(c) /\ c.op \notin AsGiven
    <3>1. Stays(tree, c.path, o) /\ c.path \in Seq(Names)
      BY <2>1, <2>6 DEF Finds, Meant
    <3> QED
      BY <1>1, <2>2, <2>6, <3>1, PlainNamed DEF Stays
  <2> QED
    BY <2>3, <2>4, <2>5, <2>6
<1>5. AsSeen
  BY <1>4 DEF AsSeen, IInv
<1> QED
  BY <1>1, <1>2, <1>3, <1>5

\* The account's files stay a tree whatever the sessions do to them: everything
\* that exists is where exactly one name of one directory puts it, and below the
\* account's directory; and the variables have their types.
THEOREM TypeCorrect == Spec => []TypeOK
<1>1. IInv => TypeOK
  BY IInvIs
<1> QED
  BY InitIs, NextKeeps, <1>1, PTL DEF Spec

\* Where canonical found the directory, current_directory_ is a canonical path: CWD
\* and CDUP leave the session where no other session's commands move it, not even
\* between canonical and status, but by moving or removing that directory or one
\* above it.
THEOREM StaysInPlace == Spec => []InPlace
<1>1. IInv => InPlace
  BY IInvIs
<1> QED
  BY InitIs, NextKeeps, <1>1, PTL DEF Spec

\* rename_from_path_ leads to what canonical found for RNFR: RNTO moves that
\* object, unless it was moved before, be it between canonical and status; and
\* without a 350 in force there is nothing to move.
THEOREM RenamesConfirmed == Spec => []ConfirmedKept
<1>1. IInv => ConfirmedKept
  BY IInvIs
<1> QED
  BY InitIs, NextKeeps, <1>1, PTL DEF Spec

\* From the first call that finds something to the last one on the same path, the
\* path leads to what was found, and a name that was free for MKD or STOU is free in
\* the same directory, so that STOU empties no file; unless just that was moved or
\* removed, or just that name taken.
THEOREM ActsAsSeen == Spec => []AsSeen
<1>1. IInv => AsSeen
  BY IInvIs
<1> QED
  BY InitIs, NextKeeps, <1>1, PTL DEF Spec
=============================================================================
