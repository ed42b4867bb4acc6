------------------------- MODULE CommandStreamProofs -------------------------
(***************************************************************************)
(* The parser against the stream, for every limit, every stream and every  *)
(* way it is cut into reads.  The parser is followed byte by byte (ByteIs  *)
(* to LoopIs): what it holds is determined by the bytes since its node     *)
(* was made, and a read's bytes only append to them.                       *)
(***************************************************************************)
EXTENDS CommandStream, SequenceInduction, FiniteSetTheorems

-----------------------------------------------------------------------------
(* The loop, one byte at a time.                                           *)

\* Brackets do not matter.
LEMMA Regroup ==
  ASSUME NEW S
  PROVE  \A a, b, c \in Seq(S) : (a \o b) \o c = a \o (b \o c)
BY ConcatAssociative

LEMMA AppendBehind ==
  ASSUME NEW S, NEW s \in Seq(S), NEW g \in Seq(S), NEW b \in S
  PROVE  s \o Append(g, b) = Append(s \o g, b)
<1> DEFINE u == <<b>>
<1>1. u \in Seq(S)
  OBVIOUS
<1>2. Append(s \o g, b) = (s \o g) \o u /\ Append(g, b) = g \o u
  BY ConcatProperties, AppendIsConcat
<1> HIDE DEF u
<1>3. (s \o g) \o u = s \o (g \o u)
  BY <1>1, Regroup
<1> QED
  BY <1>2, <1>3

LEMMA ByteBehind ==
  \A s, g \in Seq(Bytes) : \A b \in Bytes : s \o Append(g, b) = Append(s \o g, b)
BY AppendBehind

LEMMA ByteIs ==
  ASSUME NEW p \in Parsers, NEW b \in Bytes
  PROVE  ParseByte(p, b) \in Parsers
<1>1. /\ p.buf \in Seq(Characters) /\ p.skip \in BOOLEAN /\ p.queue \in Seq(Seq(Characters))
      /\ p = [buf |-> p.buf, skip |-> p.skip, queue |-> p.queue]
  BY DEF Parsers
<1>2. /\ <<>> \in Seq(Characters)
      /\ Append(p.queue, p.buf) \in Seq(Seq(Characters))
      /\ b # "end" => Append(p.buf, b) \in Seq(Characters)
  BY <1>1, EmptySeq, AppendProperties DEF Bytes
<1>3. [p EXCEPT !.skip = TRUE] \in Parsers /\ [p EXCEPT !.skip = FALSE] \in Parsers
  BY <1>1 DEF Parsers
<1>4. ASSUME NEW q \in Parsers, q.buf = p.buf, q.queue = p.queue
      PROVE  EndLine(q) \in Parsers /\ (b # "end" => Store(q, b) \in Parsers)
  <2>1. q = [buf |-> p.buf, skip |-> q.skip, queue |-> p.queue] /\ q.skip \in BOOLEAN
    BY <1>4 DEF Parsers
  <2> QED
    BY <1>1, <1>2, <1>4, <2>1 DEF EndLine, Store, Parsers
<1>5. /\ [p EXCEPT !.skip = FALSE].buf = p.buf /\ [p EXCEPT !.skip = FALSE].queue = p.queue
  BY <1>1
<1> QED
  BY <1>3, <1>4, <1>5 DEF ParseByte

\* The function that Parsed takes its last value of.
LEMMA ParsedSteps ==
  ASSUME parser \in Parsers, NEW g \in Seq(Bytes)
  PROVE  \E at : /\ at \in [0..Len(g) -> Parsers]
                 /\ at[0] = parser
                 /\ \A i \in 1..Len(g) : at[i] = ParseByte(at[i - 1], g[i])
                 /\ Parsed(g) = at[Len(g)]
<1> DEFINE n == Len(g)
           at == CHOOSE h : h = [i \in 0..n |-> IF i = 0 THEN parser ELSE ParseByte(h[i - 1], g[i])]
           F == [i \in 1..n |-> [x \in Parsers |-> ParseByte(x, g[i])]]
<1>1. n \in Nat /\ \A i \in 1..n : g[i] \in Bytes
  BY LenProperties, ElementOfSeq
<1>2. /\ F \in [1..n -> [Parsers -> Parsers]]
      /\ \A i \in 1..n, x \in Parsers : F[i][x] = ParseByte(x, g[i])
  BY <1>1, ByteIs
<1>3. Parsed(g) = at[n]
  BY DEF Parsed
<1> HIDE DEF F, n
<1>4. PICK f : Iterates(f, Parsers, parser, n, F)
  BY <1>1, <1>2, Recursion
<1>5. ASSUME NEW i \in 0..n
      PROVE  f[i] = IF i = 0 THEN parser ELSE ParseByte(f[i - 1], g[i])
  <2>1. CASE i = 0
    BY <1>4, <2>1 DEF Iterates
  <2>2. CASE i # 0
    <3>1. i \in 1..n /\ i - 1 \in 0..n
      BY <1>1, <2>2
    <3> QED
      BY <1>2, <1>4, <2>2, <3>1 DEF Iterates
  <2> QED
    BY <2>1, <2>2
<1>6. f = [i \in 0..n |-> IF i = 0 THEN parser ELSE ParseByte(f[i - 1], g[i])]
  <2>1. f = [i \in 0..n |-> f[i]]
    BY <1>4 DEF Iterates
  <2> QED
    BY <1>5, <2>1
<1>7. at = [i \in 0..n |-> IF i = 0 THEN parser ELSE ParseByte(at[i - 1], g[i])]
  <2> DEFINE e(h) == [i \in 0..n |-> IF i = 0 THEN parser ELSE ParseByte(h[i - 1], g[i])]
  <2>1. at = CHOOSE h : h = e(h)
    OBVIOUS
  <2>2. \E h : h = e(h)
    BY <1>6
  <2> HIDE DEF at, e
  <2>3. at = e(at)
    BY <2>1, <2>2
  <2> QED
    BY <2>3 DEF e
<1> HIDE DEF at
<1>8. \A i \in 1..n : at[i] = ParseByte(at[i - 1], g[i])
  <2>1. \A i \in 1..n : i \in 0..n /\ i # 0
    BY <1>1
  <2> QED
    BY <1>7, <2>1
<1>9. at[0] = parser
  <2>1. 0 \in 0..n
    BY <1>1
  <2> QED
    BY <1>7, <2>1
<1>10. \A i \in 0..n : at[i] \in Parsers
  <2> DEFINE S == {k \in Nat : k <= n => at[k] \in Parsers}
  <2>1. 0 \in S
    BY <1>9
  <2>2. ASSUME NEW k \in Nat, k \in S PROVE k + 1 \in S
    <3>1. CASE k + 1 <= n
      <4>1. at[k] \in Parsers /\ k + 1 \in 1..n /\ (k + 1) - 1 = k
        BY <1>1, <2>2, <3>1
      <4>2. at[k + 1] = ParseByte(at[k], g[k + 1]) /\ g[k + 1] \in Bytes
        BY <1>1, <1>8, <4>1
      <4> QED
        BY <4>1, <4>2, ByteIs
    <3>2. CASE ~(k + 1 <= n)
      BY <3>2
    <3> QED
      BY <3>1, <3>2
  <2>3. Nat \subseteq S
    <3> HIDE DEF S
    <3> QED
      BY <2>1, <2>2, NatSet
  <2> QED
    BY <1>1, <2>3
<1>11. at \in [0..n -> Parsers]
  BY <1>7, <1>10
<1> QED
  BY <1>3, <1>8, <1>9, <1>11 DEF n

\* Parsed, one byte at a time.
LEMMA ParsedIs ==
  ASSUME parser \in Parsers
  PROVE  /\ Parsed(<<>>) = parser
         /\ \A g \in Seq(Bytes) : Parsed(g) \in Parsers
         /\ \A g \in Seq(Bytes), b \in Bytes : Parsed(Append(g, b)) = ParseByte(Parsed(g), b)
<1>1. Parsed(<<>>) = parser
  <2>1. <<>> \in Seq(Bytes) /\ Len(<<>>) = 0
    BY EmptySeq
  <2> QED
    BY <2>1, ParsedSteps
<1>2. ASSUME NEW g \in Seq(Bytes) PROVE Parsed(g) \in Parsers
  <2>1. Len(g) \in 0..Len(g)
    BY LenProperties
  <2> QED
    BY <2>1, ParsedSteps
<1>3. ASSUME NEW g \in Seq(Bytes), NEW b \in Bytes
      PROVE  Parsed(Append(g, b)) = ParseByte(Parsed(g), b)
  <2> DEFINE h == Append(g, b)
  <2>1. /\ h \in Seq(Bytes) /\ Len(g) \in Nat /\ Len(h) = Len(g) + 1
        /\ h[Len(g) + 1] = b /\ \A i \in 1..Len(g) : h[i] = g[i]
    BY AppendProperties, LenProperties
  <2> HIDE DEF h
  <2>2. PICK x : /\ x[0] = parser /\ \A i \in 1..Len(g) : x[i] = ParseByte(x[i - 1], g[i])
                 /\ Parsed(g) = x[Len(g)]
    BY ParsedSteps
  <2>3. PICK y : /\ y[0] = parser /\ \A i \in 1..Len(h) : y[i] = ParseByte(y[i - 1], h[i])
                 /\ Parsed(h) = y[Len(h)]
    BY <2>1, ParsedSteps
  <2> DEFINE S == {k \in Nat : k <= Len(g) => x[k] = y[k]}
  <2>4. 0 \in S
    BY <2>2, <2>3
  <2>5. ASSUME NEW k \in Nat, k \in S PROVE k + 1 \in S
    <3> SUFFICES ASSUME k + 1 <= Len(g) PROVE x[k + 1] = y[k + 1]
      OBVIOUS
    <3>1. k + 1 \in 1..Len(g) /\ k + 1 \in 1..Len(h) /\ (k + 1) - 1 = k /\ x[k] = y[k]
      BY <2>1, <2>5
    <3> QED
      BY <2>1, <2>2, <2>3, <3>1
  <2>6. Nat \subseteq S
    <3> HIDE DEF S
    <3> QED
      BY <2>4, <2>5, NatSet
  <2>7. x[Len(g)] = y[Len(g)] /\ Len(h) \in 1..Len(h) /\ Len(h) - 1 = Len(g)
    BY <2>1, <2>6
  <2>8. y[Len(h)] = ParseByte(y[Len(g)], b)
    BY <2>1, <2>3, <2>7
  <2> QED
    BY <2>2, <2>3, <2>7, <2>8 DEF h
<1> QED
  BY <1>1, <1>2, <1>3

-----------------------------------------------------------------------------
(* The lines of a stream that grows by a byte.                             *)

LEMMA MaxIs ==
  ASSUME NEW S, S \subseteq Nat, NEW m \in S, \A y \in S : m >= y
  PROVE  Max(S) = m
<1>1. Max(S) \in S /\ Max(S) >= m
  BY DEF Max
<1>2. m \in Nat /\ Max(S) \in Nat /\ m >= Max(S)
  BY <1>1
<1> QED
  BY <1>1, <1>2

LEMMA MinIs ==
  ASSUME NEW S, S \subseteq Nat, S # {}
  PROVE  Min(S) \in S /\ \A y \in S : Min(S) <= y
<1>1. PICK m \in S : \A k \in S : <<k, m>> \notin OpToRel(<, Nat)
  BY ONLY S \subseteq Nat, S # {}, NatLessThanWellFounded, WFMin
<1>2. ASSUME NEW y \in S PROVE m <= y
  <2>1. m \in Nat /\ y \in Nat
    OBVIOUS
  <2>2. ASSUME y < m PROVE FALSE
    <3>1. <<y, m>> \in OpToRel(<, Nat)
      BY <2>1, <2>2 DEF OpToRel
    <3> QED
      BY <1>1, <3>1
  <2> QED
    BY <2>1, <2>2
<1> QED
  BY <1>2 DEF Min

LEMMA EndsIs ==
  ASSUME NEW s \in Seq(Bytes), NEW b \in Bytes
  PROVE  /\ Ends(<<>>) = {} /\ Ends(s) \subseteq 1..Len(s) /\ Len(s) \in Nat
         /\ Ends(Append(s, b)) = Ends(s) \cup (IF b = "end" THEN {Len(s) + 1} ELSE {})
<1>1. /\ Len(s) \in Nat /\ DOMAIN s = 1..Len(s)
      /\ DOMAIN Append(s, b) = 1..(Len(s) + 1)
      /\ \A i \in 1..Len(s) : Append(s, b)[i] = s[i]
      /\ Append(s, b)[Len(s) + 1] = b
  BY AppendProperties, LenProperties
<1>2. DOMAIN <<>> = {}
  BY EmptySeq
<1> HIDE DEF Ends
<1>3. ASSUME NEW i
      PROVE  i \in Ends(Append(s, b)) <=> i \in Ends(s) \/ (b = "end" /\ i = Len(s) + 1)
  <2>1. CASE i \in 1..Len(s)
    BY <1>1, <2>1 DEF Ends
  <2>2. CASE i = Len(s) + 1
    BY <1>1, <2>2 DEF Ends
  <2>3. CASE i \notin 1..(Len(s) + 1)
    BY <1>1, <2>3 DEF Ends
  <2> QED
    BY <1>1, <2>1, <2>2, <2>3
<1> QED
  BY <1>1, <1>2, <1>3 DEF Ends

\* A byte more does not move the lines that are there.
LEMMA StartGrows ==
  ASSUME NEW s \in Seq(Bytes), NEW b \in Bytes
  PROVE  /\ \A e \in 1..(Len(s) + 1) : LineStart(Append(s, b), e) = LineStart(s, e)
         /\ LineStart(Append(s, b), Len(s) + 2) =
              IF b = "end" THEN Len(s) + 2 ELSE LineStart(s, Len(s) + 1)
<1>1. /\ Ends(s) \subseteq 1..Len(s) /\ Len(s) \in Nat
      /\ Ends(Append(s, b)) = Ends(s) \cup (IF b = "end" THEN {Len(s) + 1} ELSE {})
  BY EndsIs
<1>2. ASSUME NEW e \in 1..(Len(s) + 1)
      PROVE  LineStart(Append(s, b), e) = LineStart(s, e)
  <2>1. {i \in Ends(Append(s, b)) : i < e} = {i \in Ends(s) : i < e}
    BY <1>1
  <2> QED
    BY <2>1 DEF LineStart
<1>3. CASE b = "end"
  <2> DEFINE S == {0} \cup {i \in Ends(Append(s, b)) : i < Len(s) + 2}
  <2>1. S \subseteq Nat /\ Len(s) + 1 \in S /\ \A y \in S : Len(s) + 1 >= y
    BY <1>1, <1>3
  <2> HIDE DEF S
  <2>2. Max(S) = Len(s) + 1
    BY <2>1, MaxIs
  <2>3. LineStart(Append(s, b), Len(s) + 2) = Max(S) + 1
    BY DEF LineStart, S
  <2> QED
    BY <1>1, <1>2, <1>3, <2>2, <2>3
<1>4. CASE b # "end"
  <2>1. {i \in Ends(Append(s, b)) : i < Len(s) + 2} = {i \in Ends(s) : i < Len(s) + 1}
    BY <1>1, <1>4
  <2> QED
    BY <1>2, <1>4, <2>1 DEF LineStart
<1> QED
  BY <1>3, <1>4

\* A line begins in front of its end, and holds no other.
LEMMA StartIs ==
  ASSUME NEW s \in Seq(Bytes), NEW e \in 1..(Len(s) + 1)
  PROVE  LineStart(s, e) \in 1..e /\ \A i \in LineStart(s, e)..(e - 1) : s[i] # "end"
<1> DEFINE Fits(x, f) == /\ LineStart(x, f) \in 1..f
                         /\ \A i \in LineStart(x, f)..(f - 1) : x[i] # "end"
           K == {x \in Seq(Bytes) : \A f \in 1..(Len(x) + 1) : Fits(x, f)}
<1>1. <<>> \in K
  <2>1. <<>> \in Seq(Bytes) /\ Len(<<>>) = 0 /\ Ends(<<>>) = {}
    BY EmptySeq DEF Ends
  <2> DEFINE S == {0} \cup {i \in Ends(<<>>) : i < 1}
  <2>2. S \subseteq Nat /\ 0 \in S /\ \A y \in S : 0 >= y
    BY <2>1
  <2>3. LineStart(<<>>, 1) = Max(S) + 1
    BY DEF LineStart
  <2> HIDE DEF S
  <2>4. Max(S) = 0
    BY <2>2, MaxIs
  <2>5. LineStart(<<>>, 1) = 1
    BY <2>3, <2>4
  <2> QED
    BY <2>1, <2>5
<1>2. ASSUME NEW x \in Seq(Bytes), NEW b \in Bytes, x \in K PROVE Append(x, b) \in K
  <2> DEFINE y == Append(x, b)
  <2>1. /\ y \in Seq(Bytes) /\ Len(x) \in Nat /\ Len(y) = Len(x) + 1
        /\ y[Len(x) + 1] = b /\ \A i \in 1..Len(x) : y[i] = x[i]
    BY AppendProperties, LenProperties
  <2>2. /\ \A f \in 1..(Len(x) + 1) : LineStart(y, f) = LineStart(x, f)
        /\ LineStart(y, Len(x) + 2) = IF b = "end" THEN Len(x) + 2 ELSE LineStart(x, Len(x) + 1)
    BY StartGrows
  <2> HIDE DEF y
  <2>3. ASSUME NEW f \in 1..(Len(y) + 1) PROVE Fits(y, f)
    <3>1. CASE f \in 1..(Len(x) + 1)
      <4>1. LineStart(x, f) \in 1..f /\ \A i \in LineStart(x, f)..(f - 1) : x[i] # "end"
        BY <1>2, <3>1
      <4> QED
        BY <2>1, <2>2, <3>1, <4>1
    <3>2. CASE f = Len(x) + 2 /\ b = "end"
      BY <2>1, <2>2, <3>2
    <3>3. CASE f = Len(x) + 2 /\ b # "end"
      <4> DEFINE m == LineStart(x, Len(x) + 1)
      <4>1. m \in 1..(Len(x) + 1) /\ \A i \in m..Len(x) : x[i] # "end"
        BY <1>2, <2>1
      <4>2. LineStart(y, f) = m
        BY <2>2, <3>3
      <4> HIDE DEF m
      <4> QED
        BY <2>1, <3>3, <4>1, <4>2
    <3> QED
      BY <2>1, <3>1, <3>2, <3>3
  <2> QED
    BY <2>1, <2>3 DEF y
<1>3. Seq(Bytes) \subseteq K
  <2> HIDE DEF K
  <2> QED
    BY <1>1, <1>2, SeqSet
<1> QED
  BY <1>3

LEMMA RawIs ==
  ASSUME NEW s \in Seq(Bytes), NEW e \in 1..(Len(s) + 1)
  PROVE  Raw(s, e) \in Seq(Characters)
<1>1. LineStart(s, e) \in 1..e /\ \A i \in LineStart(s, e)..(e - 1) : s[i] # "end"
  BY StartIs
<1>2. Len(s) \in Nat /\ \A i \in 1..Len(s) : s[i] \in Bytes
  BY LenProperties, ElementOfSeq
<1>3. \A i \in LineStart(s, e)..(e - 1) : s[i] \in Characters
  BY <1>1, <1>2 DEF Bytes
<1>4. LineStart(s, e) \in Int /\ e - 1 \in Int
  BY <1>1
<1> QED
  BY <1>3, <1>4, SubSeqProperties DEF Raw

LEMMA RawGrows ==
  ASSUME NEW s \in Seq(Bytes), NEW b \in Bytes
  PROVE  /\ \A e \in 1..(Len(s) + 1) : Raw(Append(s, b), e) = Raw(s, e)
         /\ Raw(Append(s, b), Len(s) + 2) =
              IF b = "end" THEN <<>> ELSE Append(Raw(s, Len(s) + 1), b)
<1> DEFINE y == Append(s, b)
<1>1. /\ y \in Seq(Bytes) /\ Len(s) \in Nat /\ Len(y) = Len(s) + 1
      /\ y[Len(s) + 1] = b /\ \A i \in 1..Len(s) : y[i] = s[i]
  BY AppendProperties, LenProperties
<1>2. /\ \A e \in 1..(Len(s) + 1) : LineStart(y, e) = LineStart(s, e)
      /\ LineStart(y, Len(s) + 2) = IF b = "end" THEN Len(s) + 2 ELSE LineStart(s, Len(s) + 1)
  BY StartGrows
<1> HIDE DEF y
<1>3. \A i \in 1..Len(s) : s[i] \in Bytes
  BY ElementOfSeq
<1>4. ASSUME NEW e \in 1..(Len(s) + 1) PROVE Raw(y, e) = Raw(s, e)
  <2> DEFINE m == LineStart(s, e)
             u == SubSeq(y, m, e - 1)
             v == SubSeq(s, m, e - 1)
  <2>1. m \in 1..e /\ m \in Int /\ e - 1 \in Int /\ e - 1 <= Len(s)
    BY <1>1, StartIs
  <2> HIDE DEF m
  <2>2. \A i \in m..(e - 1) : y[i] = s[i] /\ s[i] \in Bytes
    BY <1>1, <1>3, <2>1
  <2>3. /\ u \in Seq(Bytes) /\ v \in Seq(Bytes) /\ Len(u) = Len(v)
        /\ Len(v) = IF m <= e - 1 THEN e - 1 - m + 1 ELSE 0
        /\ \A i \in 1..(e - 1 - m + 1) : u[i] = y[m + i - 1] /\ v[i] = s[m + i - 1]
    BY <2>1, <2>2, SubSeqProperties
  <2> HIDE DEF u, v
  <2>4. \A i \in 1..Len(u) : u[i] = v[i]
    BY <2>1, <2>2, <2>3
  <2>5. u = v
    BY <2>3, <2>4, SeqEqual
  <2> QED
    BY <1>2, <2>5 DEF Raw, u, v, m
<1>5. CASE b = "end"
  <2>1. Raw(y, Len(s) + 2) = SubSeq(y, Len(s) + 2, Len(s) + 1)
    BY <1>1, <1>2, <1>5 DEF Raw
  <2>2. SubSeq(y, Len(s) + 2, Len(s) + 1) = <<>>
    BY <1>1, SubSeqEmpty
  <2> QED
    BY <1>4, <1>5, <2>1, <2>2 DEF y
<1>6. CASE b # "end"
  <2> DEFINE m == LineStart(s, Len(s) + 1)
  <2>1. m \in 1..(Len(s) + 1)
    BY <1>1, StartIs
  <2>2. Raw(y, Len(s) + 2) = SubSeq(y, m, Len(s) + 1)
    <3>1. (Len(s) + 2) - 1 = Len(s) + 1 /\ LineStart(y, Len(s) + 2) = m
      BY <1>1, <1>2, <1>6
    <3> QED
      BY <3>1 DEF Raw
  <2>3. Raw(s, Len(s) + 1) = Raw(y, Len(s) + 1) /\ Raw(y, Len(s) + 1) = SubSeq(y, m, Len(s))
    <3>1. /\ (Len(s) + 1) - 1 = Len(s) /\ Len(s) + 1 \in 1..(Len(s) + 1)
          /\ LineStart(y, Len(s) + 1) = m
      BY <1>1, <1>2
    <3> HIDE DEF m
    <3> QED
      BY <1>4, <3>1 DEF Raw
  <2> HIDE DEF m
  <2>4. SubSeq(y, m, Len(s) + 1) = SubSeq(y, m, Len(s)) \o <<b>>
    <3>1. m \in 1..Len(y) /\ Len(s) + 1 \in m..Len(y) /\ (Len(s) + 1) - 1 = Len(s)
      BY <1>1, <2>1
    <3> QED
      BY <1>1, <3>1, SubSeqRecursiveSecond
  <2>5. Raw(s, Len(s) + 1) \in Seq(Bytes)
    <3>1. Len(s) + 1 \in 1..(Len(s) + 1)
      BY <1>1
    <3>2. Raw(s, Len(s) + 1) \in Seq(Characters)
      BY <3>1, RawIs
    <3> QED
      BY <3>2, SeqMonotonic DEF Bytes
  <2>6. Append(Raw(s, Len(s) + 1), b) = Raw(s, Len(s) + 1) \o <<b>>
    BY <2>5, AppendIsConcat
  <2> QED
    BY <1>4, <1>6, <2>2, <2>3, <2>4, <2>6 DEF y
<1> QED
  BY <1>5, <1>6

-----------------------------------------------------------------------------
(* What is kept of a line that grows by a character.                       *)

LEMMA CutIs ==
  ASSUME NEW t \in Seq(Characters)
  PROVE  /\ Cut(t) \in Seq(Characters) /\ Len(Cut(t)) <= Limit
         /\ Cut(t) = <<>> <=> t = <<>>
         /\ \A b \in Characters :
              Cut(Append(t, b)) = IF Len(Cut(t)) < Limit THEN Append(Cut(t), b) ELSE Cut(t)
<1> DEFINE Short(x) == IF Len(x) < Limit THEN Len(x) ELSE Limit
<1>1. Limit \in Nat /\ Limit # 0
  BY StreamAssumption
<1>2. ASSUME NEW x \in Seq(Characters)
      PROVE  /\ Cut(x) \in Seq(Characters) /\ Len(Cut(x)) = Short(x)
             /\ \A i \in 1..Short(x) : Cut(x)[i] = x[i]
             /\ Len(x) < Limit => Cut(x) = x
  <2>1. Len(x) \in Nat /\ \A i \in 1..Len(x) : x[i] \in Characters
    BY LenProperties, ElementOfSeq
  <2>2. Short(x) \in Nat /\ Short(x) <= Len(x) /\ 1 \in Int /\ Short(x) \in Int
    BY <1>1, <2>1
  <2> HIDE DEF Short
  <2>3. \A i \in 1..Short(x) : x[i] \in Characters
    BY <2>1, <2>2
  <2>4. /\ SubSeq(x, 1, Short(x)) \in Seq(Characters)
        /\ Len(SubSeq(x, 1, Short(x))) = IF 1 <= Short(x) THEN Short(x) - 1 + 1 ELSE 0
        /\ \A i \in 1..(Short(x) - 1 + 1) : SubSeq(x, 1, Short(x))[i] = x[1 + i - 1]
    BY <2>2, <2>3, SubSeqProperties
  <2>5. Cut(x) = SubSeq(x, 1, Short(x))
    BY DEF Cut, Short
  <2>6. Len(x) < Limit => Cut(x) = x
    BY <2>5, SubSeqFull DEF Short
  <2>7. Len(Cut(x)) = Short(x) /\ \A i \in 1..Short(x) : Cut(x)[i] = x[i]
    BY <2>2, <2>4, <2>5
  <2> QED
    BY <2>4, <2>5, <2>6, <2>7
<1>3. Len(t) \in Nat
  BY LenProperties
<1>4. Len(Cut(t)) <= Limit /\ (Cut(t) = <<>> <=> t = <<>>)
  <2>1. Len(Cut(t)) <= Limit /\ (Len(Cut(t)) = 0 <=> Len(t) = 0)
    BY <1>1, <1>2, <1>3
  <2>2. \A x \in Seq(Characters) : x = <<>> <=> Len(x) = 0
    BY EmptySeq
  <2> QED
    BY <1>2, <2>1, <2>2
<1>5. ASSUME NEW b \in Characters
      PROVE  Cut(Append(t, b)) = IF Len(Cut(t)) < Limit THEN Append(Cut(t), b) ELSE Cut(t)
  <2> DEFINE u == Append(t, b)
  <2>1. /\ u \in Seq(Characters) /\ Len(u) = Len(t) + 1
        /\ \A i \in 1..Len(t) : u[i] = t[i]
        /\ u[Len(t) + 1] = b
    BY AppendProperties
  <2> HIDE DEF u
  <2>2. CASE Len(t) < Limit
    <3>1. Cut(t) = t
      BY <1>2, <2>2
    <3>2. /\ Cut(u) \in Seq(Characters) /\ Len(Cut(u)) = Len(u)
          /\ \A i \in 1..Len(u) : Cut(u)[i] = u[i]
      BY <1>1, <1>2, <1>3, <2>1, <2>2
    <3>3. Cut(u) = u
      BY <2>1, <3>2, SeqEqual
    <3> QED
      BY <2>2, <3>1, <3>3 DEF u
  <2>3. CASE ~(Len(t) < Limit)
    <3>1. Short(t) = Limit /\ Short(u) = Limit /\ Limit <= Len(t)
      BY <1>1, <1>3, <2>1, <2>3
    <3>2. /\ Cut(t) \in Seq(Characters) /\ Len(Cut(t)) = Limit
          /\ Cut(u) \in Seq(Characters) /\ Len(Cut(u)) = Limit
          /\ \A i \in 1..Limit : Cut(t)[i] = t[i] /\ Cut(u)[i] = u[i]
      BY <1>2, <2>1, <3>1
    <3>3. ASSUME NEW i \in 1..Limit PROVE Cut(t)[i] = Cut(u)[i]
      <4>1. i \in 1..Len(t)
        BY <1>1, <1>3, <3>1
      <4> QED
        BY <2>1, <3>2, <4>1
    <3>4. Cut(t) = Cut(u)
      BY <3>2, <3>3, SeqEqual
    <3> QED
      BY <1>1, <3>2, <3>4 DEF u
  <2> QED
    BY <2>2, <2>3
<1> QED
  BY <1>2, <1>4, <1>5

\* A line begins with telnet bytes that are dropped, and has come no further.
Skipping(raw) ==
  ~signed /\ raw # <<>> /\ raw[1] = "iac" /\ \A i \in 1..Len(raw) : raw[i] \in Telnet

\* Byte b will be dropped after raw, of which nothing was kept.
Drops(raw, b) == ~signed /\ IF Skipping(raw) THEN b \in Telnet ELSE b = "iac"

LEMMA UntelnetIs ==
  ASSUME NEW raw \in Seq(Characters)
  PROVE  /\ Untelnet(raw) \in Seq(Characters)
         /\ Untelnet(raw) = <<>> <=> raw = <<>> \/ Skipping(raw)
<1> DEFINE starts == {i \in DOMAIN raw : raw[i] \notin Telnet}
<1>1. /\ Len(raw) \in Nat /\ DOMAIN raw = 1..Len(raw)
      /\ \A i \in 1..Len(raw) : raw[i] \in Characters
  BY LenProperties, ElementOfSeq
<1>2. CASE signed \/ raw = <<>> \/ raw[1] # "iac"
  <2>1. Untelnet(raw) = raw
    BY <1>2 DEF Untelnet
  <2> QED
    BY <1>2, <2>1 DEF Skipping
<1>3. CASE ~(signed \/ raw = <<>> \/ raw[1] # "iac") /\ starts = {}
  <2>1. Untelnet(raw) = <<>>
    BY <1>3 DEF Untelnet
  <2>2. Skipping(raw)
    BY <1>1, <1>3 DEF Skipping
  <2> QED
    BY <2>1, <2>2, EmptySeq
<1>4. CASE ~(signed \/ raw = <<>> \/ raw[1] # "iac") /\ starts # {}
  <2>1. Min(starts) \in starts
    <3>1. starts \subseteq Nat /\ starts # {}
      BY <1>1, <1>4
    <3> HIDE DEF starts
    <3> QED
      BY <3>1, MinIs
  <2>2. Untelnet(raw) = SubSeq(raw, Min(starts), Len(raw))
    BY <1>4 DEF Untelnet
  <2> DEFINE m == Min(starts)
  <2>3. m \in 1..Len(raw) /\ raw[m] \notin Telnet
    BY <1>1, <2>1
  <2> HIDE DEF m
  <2>4. m \in Int /\ Len(raw) \in Int /\ \A i \in m..Len(raw) : raw[i] \in Characters
    BY <1>1, <2>3
  <2>5. /\ SubSeq(raw, m, Len(raw)) \in Seq(Characters)
        /\ Len(SubSeq(raw, m, Len(raw))) = IF m <= Len(raw) THEN Len(raw) - m + 1 ELSE 0
    BY <2>4, SubSeqProperties
  <2>6. SubSeq(raw, m, Len(raw)) # <<>>
    <3>1. Len(SubSeq(raw, m, Len(raw))) = Len(raw) - m + 1 /\ Len(raw) - m + 1 # 0
      BY <1>1, <2>3, <2>5
    <3> QED
      BY <3>1, EmptySeq
  <2>7. ~Skipping(raw)
    BY <2>3 DEF Skipping
  <2> QED
    BY <1>4, <2>2, <2>5, <2>6, <2>7 DEF m
<1> QED
  BY <1>2, <1>3, <1>4

LEMMA UntelnetGrows ==
  ASSUME NEW raw \in Seq(Characters), NEW b \in Characters
  PROVE  /\ Untelnet(Append(raw, b)) =
              IF Untelnet(raw) # <<>> THEN Append(Untelnet(raw), b)
              ELSE IF Drops(raw, b) THEN <<>> ELSE <<b>>
         /\ Skipping(Append(raw, b)) <=> Untelnet(raw) = <<>> /\ Drops(raw, b)
<1> DEFINE y == Append(raw, b)
           starts == {i \in DOMAIN raw : raw[i] \notin Telnet}
           grown == {i \in DOMAIN y : y[i] \notin Telnet}
<1>1. /\ Len(raw) \in Nat /\ DOMAIN raw = 1..Len(raw)
      /\ \A i \in 1..Len(raw) : raw[i] \in Characters
      /\ y \in Seq(Characters) /\ y # <<>> /\ Len(y) = Len(raw) + 1 /\ DOMAIN y = 1..Len(y)
      /\ y[Len(raw) + 1] = b /\ \A i \in 1..Len(raw) : y[i] = raw[i]
  BY LenProperties, ElementOfSeq, AppendProperties
<1>2. raw # <<>> => 1 \in 1..Len(raw)
  BY EmptySeq
<1> HIDE DEF y
<1>3. CASE signed
  <2>1. Untelnet(raw) = raw /\ Untelnet(y) = y /\ ~Skipping(y) /\ ~Drops(raw, b)
    BY <1>3 DEF Untelnet, Skipping, Drops
  <2>2. raw = <<>> => y = <<b>>
    BY DEF y
  <2> QED
    BY <2>1, <2>2 DEF y
<1>4. CASE ~signed /\ raw = <<>>
  <2>1. Untelnet(raw) = <<>> /\ ~Skipping(raw) /\ y = <<b>> /\ (Drops(raw, b) <=> b = "iac")
    BY <1>4 DEF Untelnet, Skipping, Drops, y
  <2>2. CASE b = "iac"
    <3>1. y[1] = "iac" /\ Len(y) = 1 /\ DOMAIN y = {1}
      BY <1>1, <1>4, <2>1, <2>2
    <3>2. Skipping(y)
      BY <1>1, <1>4, <3>1 DEF Skipping, Telnet
    <3>3. Untelnet(y) = <<>>
      BY <1>1, <3>2, UntelnetIs
    <3> QED
      BY <2>1, <2>2, <3>2, <3>3 DEF y
  <2>3. CASE b # "iac"
    <3>1. Untelnet(y) = y /\ ~Skipping(y)
      BY <2>1, <2>3 DEF Untelnet, Skipping
    <3> QED
      BY <2>1, <2>3, <3>1 DEF y
  <2> QED
    BY <2>2, <2>3
<1>5. CASE ~signed /\ raw # <<>> /\ raw[1] # "iac"
  <2>1. y[1] # "iac"
    BY <1>1, <1>2, <1>5
  <2>2. Untelnet(raw) = raw /\ Untelnet(y) = y /\ ~Skipping(y)
    BY <1>5, <2>1 DEF Untelnet, Skipping
  <2> QED
    BY <1>5, <2>2 DEF y
<1>6. CASE ~signed /\ raw # <<>> /\ raw[1] = "iac"
  <2>1. y[1] = "iac"
    BY <1>1, <1>2, <1>6
  <2>2. \A i : i \in grown <=> i \in starts \/ (i = Len(raw) + 1 /\ b \notin Telnet)
    BY <1>1
  <2>3. CASE starts = {}
    <3>1. Skipping(raw)
      BY <1>1, <1>6, <2>3 DEF Skipping
    <3>2. Untelnet(raw) = <<>> /\ (Drops(raw, b) <=> b \in Telnet)
      BY <1>6, <3>1, UntelnetIs DEF Drops
    <3>3. CASE b \in Telnet
      <4>1. Skipping(y)
        BY <1>1, <1>6, <2>1, <2>2, <2>3, <3>3 DEF Skipping
      <4>2. Untelnet(y) = <<>>
        BY <1>1, <4>1, UntelnetIs
      <4> QED
        BY <3>2, <3>3, <4>1, <4>2 DEF y
    <3>4. CASE b \notin Telnet
      <4>1. grown = {Len(raw) + 1}
        BY <2>2, <2>3, <3>4
      <4>2. Min(grown) = Len(raw) + 1
        BY <1>1, <4>1, MinIs
      <4>3. Untelnet(y) = SubSeq(y, Len(raw) + 1, Len(raw) + 1)
        BY <1>1, <1>6, <2>1, <4>1, <4>2 DEF Untelnet
      <4>4. SubSeq(y, Len(raw) + 1, Len(raw) + 1) = <<b>>
        <5> DEFINE k == Len(raw) + 1
        <5>1. k \in Int /\ \A i \in k..k : y[i] \in Characters
          BY <1>1
        <5>2. /\ SubSeq(y, k, k) \in Seq(Characters) /\ Len(SubSeq(y, k, k)) = 1
              /\ SubSeq(y, k, k)[1] = b
          BY <1>1, <5>1, SubSeqProperties
        <5> HIDE DEF k
        <5>3. /\ <<b>> \in Seq(Characters) /\ Len(<<b>>) = 1 /\ <<b>>[1] = b
          OBVIOUS
        <5> DEFINE u == SubSeq(y, k, k)
                   v == <<b>>
        <5>4. Len(u) = Len(v) /\ \A i \in 1..Len(u) : u[i] = v[i]
          BY <5>2, <5>3
        <5> HIDE DEF u, v
        <5>5. u = v
          BY <5>2, <5>3, <5>4, SeqEqual DEF u, v
        <5> QED
          BY <5>5 DEF k, u, v
      <4>5. ~Skipping(y)
        BY <1>1, <3>4 DEF Skipping
      <4> QED
        BY <3>2, <3>4, <4>3, <4>4, <4>5 DEF y
    <3> QED
      BY <3>3, <3>4
  <2>4. CASE starts # {}
    <3> DEFINE m == Min(starts)
    <3>1. m \in starts /\ \A i \in starts : m <= i
      <4>1. starts \subseteq Nat
        BY <1>1
      <4> HIDE DEF starts
      <4> QED
        BY <2>4, <4>1, MinIs
    <3>2. Untelnet(raw) = SubSeq(raw, m, Len(raw))
      BY <1>6, <2>4 DEF Untelnet
    <3> HIDE DEF m
    <3>3. m \in 1..Len(raw) /\ raw[m] \notin Telnet
      BY <1>1, <3>1
    <3>4. ~Skipping(raw) /\ ~Skipping(y)
      BY <1>1, <3>3 DEF Skipping
    <3>5. Untelnet(raw) # <<>>
      BY <1>6, <3>4, UntelnetIs
    <3>6. Min(grown) = m
      <4>1. grown \subseteq Nat /\ m \in grown /\ \A i \in grown : m <= i
        BY <1>1, <2>2, <3>1, <3>3
      <4> HIDE DEF grown
      <4>2. Min(grown) \in grown /\ Min(grown) <= m
        BY <4>1, MinIs
      <4>3. Min(grown) \in Nat /\ m \in Nat /\ m <= Min(grown)
        BY <4>1, <4>2
      <4> QED
        BY <4>2, <4>3
    <3>7. Untelnet(y) = SubSeq(y, m, Len(y))
      <4>1. grown # {}
        BY <2>2, <3>1
      <4> QED
        BY <1>1, <1>6, <2>1, <3>6, <4>1 DEF Untelnet
    <3>8. SubSeq(y, m, Len(y)) = SubSeq(y, m, Len(raw)) \o <<b>>
      <4>1. m \in 1..Len(y) /\ Len(y) \in m..Len(y) /\ Len(y) - 1 = Len(raw) /\ y[Len(y)] = b
        BY <1>1, <3>3
      <4> QED
        BY <1>1, <4>1, SubSeqRecursiveSecond
    <3>9. SubSeq(y, m, Len(raw)) = SubSeq(raw, m, Len(raw))
      <4>1. m \in Int /\ Len(raw) \in Int /\ \A i \in m..Len(raw) : y[i] \in Characters /\ raw[i] \in Characters
        BY <1>1, <3>3
      <4> DEFINE u == SubSeq(y, m, Len(raw))
                 v == SubSeq(raw, m, Len(raw))
      <4>2. /\ u \in Seq(Characters) /\ v \in Seq(Characters) /\ Len(u) = Len(v)
            /\ Len(v) = IF m <= Len(raw) THEN Len(raw) - m + 1 ELSE 0
            /\ \A i \in 1..(Len(raw) - m + 1) : u[i] = y[m + i - 1] /\ v[i] = raw[m + i - 1]
        BY <4>1, SubSeqProperties
      <4> HIDE DEF u, v
      <4>3. ASSUME NEW i \in 1..Len(u) PROVE u[i] = v[i]
        <5>1. i \in 1..(Len(raw) - m + 1) /\ m + i - 1 \in 1..Len(raw)
          BY <1>1, <3>3, <4>2
        <5>2. y[m + i - 1] = raw[m + i - 1]
          BY <1>1, <5>1
        <5> QED
          BY <4>2, <5>1, <5>2
      <4>4. u = v
        BY <4>2, <4>3, SeqEqual
      <4> QED
        BY <4>4 DEF u, v
    <3>10. Append(Untelnet(raw), b) = Untelnet(raw) \o <<b>>
      BY UntelnetIs, AppendIsConcat
    <3> QED
      BY <3>2, <3>4, <3>5, <3>7, <3>8, <3>9, <3>10 DEF y
  <2> QED
    BY <2>3, <2>4
<1> QED
  BY <1>3, <1>4, <1>5, <1>6

-----------------------------------------------------------------------------
(* The lines of a stream, and what comes after them.                       *)

LEMMA LineIs ==
  ASSUME NEW s \in Seq(Bytes), NEW e \in 1..(Len(s) + 1)
  PROVE  Line(s, e) \in Seq(Characters) /\ Len(Line(s, e)) <= Limit
BY RawIs, UntelnetIs, CutIs DEF Line

LEMMA RestIs ==
  ASSUME NEW s \in Seq(Bytes)
  PROVE  /\ Rest(s) \in Seq(Characters) /\ Raw(s, Len(s) + 1) \in Seq(Characters)
         /\ Rest(s) = Cut(Untelnet(Raw(s, Len(s) + 1)))
         /\ Rest(s) = <<>> <=> Untelnet(Raw(s, Len(s) + 1)) = <<>>
<1>1. Len(s) + 1 \in 1..(Len(s) + 1)
  BY LenProperties
<1>2. Raw(s, Len(s) + 1) \in Seq(Characters)
  BY <1>1, RawIs
<1>3. Rest(s) = Cut(Untelnet(Raw(s, Len(s) + 1)))
  BY DEF Rest, Line
<1> QED
  BY <1>2, <1>3, UntelnetIs, CutIs

\* A line ending completes what was the rest; a character is added to it.
LEMMA RestGrows ==
  ASSUME NEW s \in Seq(Bytes), NEW b \in Bytes
  PROVE  LET y == Append(s, b)
             raw == Raw(s, Len(s) + 1)
         IN  /\ \A e \in 1..(Len(s) + 1) : Line(y, e) = Line(s, e)
             /\ b = "end" => Rest(y) = <<>> /\ ~Skipping(Raw(y, Len(y) + 1))
             /\ b # "end" =>
                  /\ Rest(y) = IF Rest(s) # <<>>
                               THEN IF Len(Rest(s)) < Limit THEN Append(Rest(s), b) ELSE Rest(s)
                               ELSE IF Drops(raw, b) THEN <<>> ELSE <<b>>
                  /\ Skipping(Raw(y, Len(y) + 1)) <=> Rest(s) = <<>> /\ Drops(raw, b)
<1> DEFINE y == Append(s, b)
           raw == Raw(s, Len(s) + 1)
           t == Untelnet(raw)
<1>1. /\ y \in Seq(Bytes) /\ Len(s) \in Nat /\ Len(y) = Len(s) + 1 /\ Len(y) + 1 = Len(s) + 2
  BY AppendProperties, LenProperties
<1>2. /\ \A e \in 1..(Len(s) + 1) : Raw(y, e) = Raw(s, e)
      /\ Raw(y, Len(s) + 2) = IF b = "end" THEN <<>> ELSE Append(raw, b)
  BY RawGrows
<1>3. /\ raw \in Seq(Characters) /\ Rest(s) = Cut(t) /\ (Rest(s) = <<>> <=> t = <<>>)
      /\ Rest(y) = Cut(Untelnet(Raw(y, Len(y) + 1)))
  BY <1>1, RestIs
<1>4. t \in Seq(Characters) /\ <<>> \in Seq(Characters)
  BY <1>3, UntelnetIs, EmptySeq
<1> HIDE DEF y, raw, t
<1>5. \A e \in 1..(Len(s) + 1) : Line(y, e) = Line(s, e)
  BY <1>2 DEF Line
<1>6. ASSUME b = "end"
      PROVE  Rest(y) = <<>> /\ ~Skipping(Raw(y, Len(y) + 1))
  <2>1. Raw(y, Len(y) + 1) = <<>>
    BY <1>1, <1>2, <1>6
  <2>2. ~Skipping(<<>>)
    BY DEF Skipping
  <2>3. Untelnet(<<>>) = <<>>
    BY <1>4, UntelnetIs
  <2>4. Cut(<<>>) = <<>>
    BY <1>4, CutIs
  <2> QED
    BY <1>3, <2>1, <2>2, <2>3, <2>4
<1>7. ASSUME b # "end"
      PROVE  /\ Rest(y) = IF Rest(s) # <<>>
                          THEN IF Len(Rest(s)) < Limit THEN Append(Rest(s), b) ELSE Rest(s)
                          ELSE IF Drops(raw, b) THEN <<>> ELSE <<b>>
             /\ Skipping(Raw(y, Len(y) + 1)) <=> Rest(s) = <<>> /\ Drops(raw, b)
  <2>1. b \in Characters
    BY <1>7 DEF Bytes
  <2>2. Raw(y, Len(y) + 1) = Append(raw, b)
    BY <1>1, <1>2, <1>7
  <2>3. /\ Untelnet(Append(raw, b)) = IF t # <<>> THEN Append(t, b)
                                      ELSE IF Drops(raw, b) THEN <<>> ELSE <<b>>
        /\ Skipping(Append(raw, b)) <=> t = <<>> /\ Drops(raw, b)
    BY <1>3, <2>1, UntelnetGrows DEF t
  <2>4. CASE t # <<>>
    <3>1. Rest(y) = Cut(Append(t, b))
      BY <1>3, <2>2, <2>3, <2>4
    <3>2. Cut(Append(t, b)) = IF Len(Cut(t)) < Limit THEN Append(Cut(t), b) ELSE Cut(t)
      BY <1>4, <2>1, CutIs
    <3> QED
      BY <1>3, <2>2, <2>3, <2>4, <3>1, <3>2
  <2>5. CASE t = <<>> /\ Drops(raw, b)
    <3>1. Cut(<<>>) = <<>>
      BY <1>4, CutIs
    <3> QED
      BY <1>3, <2>2, <2>3, <2>5, <3>1
  <2>6. CASE t = <<>> /\ ~Drops(raw, b)
    <3>1. Cut(<<b>>) = <<b>>
      <4>1. Cut(<<>>) = <<>> /\ Len(<<>>) = 0 /\ 0 < Limit
        <5>1. Cut(<<>>) = <<>>
          BY <1>4, CutIs
        <5>2. Len(<<>>) = 0
          BY <1>4, EmptySeq
        <5>3. 0 < Limit
          BY StreamAssumption
        <5> QED
          BY <5>1, <5>2, <5>3
      <4>2. Append(<<>>, b) = <<b>>
        OBVIOUS
      <4>3. Cut(Append(<<>>, b)) = IF Len(Cut(<<>>)) < Limit THEN Append(Cut(<<>>), b) ELSE Cut(<<>>)
        BY <1>4, <2>1, CutIs
      <4> QED
        BY <4>1, <4>2, <4>3
    <3> QED
      BY <1>3, <2>2, <2>3, <2>6, <3>1
  <2> QED
    BY <2>4, <2>5, <2>6
<1> QED
  BY <1>5, <1>6, <1>7 DEF y, raw

LEMMA FullGrows ==
  ASSUME NEW s \in Seq(Bytes), NEW b \in Bytes
  PROVE  /\ Full(s) \subseteq 1..Len(s) /\ Len(s) \in Nat
         /\ Full(Append(s, b)) =
              Full(s) \cup (IF b = "end" /\ Rest(s) # <<>> THEN {Len(s) + 1} ELSE {})
         /\ \A e \in Full(s) : Line(Append(s, b), e) = Line(s, e)
         /\ Line(Append(s, b), Len(s) + 1) = Rest(s)
<1> DEFINE y == Append(s, b)
<1>1. /\ Ends(s) \subseteq 1..Len(s) /\ Len(s) \in Nat
      /\ Ends(y) = Ends(s) \cup (IF b = "end" THEN {Len(s) + 1} ELSE {})
  BY EndsIs
<1>2. \A e \in 1..(Len(s) + 1) : Line(y, e) = Line(s, e)
  BY RestGrows
<1>3. Line(y, Len(s) + 1) = Rest(s)
  BY <1>1, <1>2 DEF Rest
<1> HIDE DEF y
<1>4. Full(s) \subseteq 1..Len(s) /\ \A e \in Full(s) : Line(y, e) = Line(s, e)
  BY <1>1, <1>2 DEF Full
<1>5. Full(y) = Full(s) \cup (IF b = "end" /\ Rest(s) # <<>> THEN {Len(s) + 1} ELSE {})
  <2>1. ASSUME NEW e
        PROVE  e \in Full(y) <=> e \in Full(s) \/ (b = "end" /\ Rest(s) # <<>> /\ e = Len(s) + 1)
    <3>1. CASE e \in 1..Len(s)
      BY <1>1, <1>2, <3>1 DEF Full
    <3>2. CASE e = Len(s) + 1
      BY <1>1, <1>3, <3>2 DEF Full
    <3>3. CASE e \notin 1..Len(s) /\ e # Len(s) + 1
      BY <1>1, <3>3 DEF Full
    <3> QED
      BY <3>1, <3>2, <3>3
  <2> QED
    BY <2>1
<1> QED
  BY <1>1, <1>3, <1>4, <1>5 DEF y

\* A byte that completes no line leaves the lines as they are.
LEMMA LinesStay ==
  ASSUME NEW s \in Seq(Bytes), NEW b \in Bytes, NEW q \in Seq(Seq(Characters)), AreLines(q, s),
         b # "end" \/ Rest(s) = <<>>
  PROVE  AreLines(q, Append(s, b))
<1>1. /\ Full(Append(s, b)) = Full(s)
      /\ \A e \in Full(s) : Line(Append(s, b), e) = Line(s, e)
  BY FullGrows
<1>2. PICK at \in [1..Len(q) -> Full(s)] :
        /\ \A e \in Full(s) : \E i \in 1..Len(q) : at[i] = e
        /\ \A i, j \in 1..Len(q) : i < j => at[i] < at[j]
        /\ \A i \in 1..Len(q) : q[i] = Line(s, at[i])
  BY DEF AreLines
<1>3. \A i \in 1..Len(q) : at[i] \in Full(s) /\ q[i] = Line(Append(s, b), at[i])
  BY <1>1, <1>2
<1> QED
  BY <1>1, <1>2, <1>3 DEF AreLines

\* One that does adds the rest to them.
LEMMA LinesGrow ==
  ASSUME NEW s \in Seq(Bytes), NEW q \in Seq(Seq(Characters)), AreLines(q, s), Rest(s) # <<>>
  PROVE  AreLines(Append(q, Rest(s)), Append(s, "end"))
<1> DEFINE y == Append(s, "end")
           l == Append(q, Rest(s))
           n == Len(q)
<1>1. /\ "end" \in Bytes /\ n \in Nat /\ l \in Seq(Seq(Characters)) /\ Len(l) = n + 1
      /\ l[n + 1] = Rest(s) /\ \A i \in 1..n : l[i] = q[i]
  BY RestIs, AppendProperties, LenProperties DEF Bytes
<1>2. /\ Full(s) \subseteq 1..Len(s) /\ Len(s) \in Nat
      /\ Full(y) = Full(s) \cup {Len(s) + 1}
      /\ \A e \in Full(s) : Line(y, e) = Line(s, e)
      /\ Line(y, Len(s) + 1) = Rest(s)
  BY <1>1, FullGrows
<1>3. PICK at \in [1..n -> Full(s)] :
        /\ \A e \in Full(s) : \E i \in 1..n : at[i] = e
        /\ \A i, j \in 1..n : i < j => at[i] < at[j]
        /\ \A i \in 1..n : q[i] = Line(s, at[i])
  BY DEF AreLines
<1> HIDE DEF y, l, n
<1> DEFINE to == [i \in 1..(n + 1) |-> IF i = n + 1 THEN Len(s) + 1 ELSE at[i]]
<1>4. to[n + 1] = Len(s) + 1 /\ \A i \in 1..n : to[i] = at[i] /\ at[i] \in Full(s)
  BY <1>1, <1>3
<1>5. to \in [1..(n + 1) -> Full(y)]
  <2>1. \A i \in 1..(n + 1) : (IF i = n + 1 THEN Len(s) + 1 ELSE at[i]) \in Full(y)
    BY <1>1, <1>2, <1>4
  <2> QED
    BY <2>1
<1> HIDE DEF to
<1>6. ASSUME NEW e \in Full(y) PROVE \E i \in 1..(n + 1) : to[i] = e
  <2>1. CASE e = Len(s) + 1
    <3>1. n + 1 \in 1..(n + 1)
      BY <1>1
    <3> QED
      BY <1>4, <2>1, <3>1
  <2>2. CASE e # Len(s) + 1
    <3>1. e \in Full(s)
      BY <1>2, <2>2
    <3>2. PICK i \in 1..n : at[i] = e
      BY <1>3, <3>1
    <3>3. i \in 1..(n + 1) /\ to[i] = e
      BY <1>1, <1>4, <3>2
    <3> QED
      BY <3>3
  <2> QED
    BY <2>1, <2>2
<1>7. ASSUME NEW i \in 1..(n + 1), NEW j \in 1..(n + 1), i < j PROVE to[i] < to[j]
  <2>1. i \in 1..n /\ at[i] \in 1..Len(s)
    BY <1>1, <1>2, <1>4, <1>7
  <2>2. CASE j = n + 1
    BY <1>2, <1>4, <2>1, <2>2
  <2>3. CASE j # n + 1
    <3>1. j \in 1..n
      BY <1>1, <2>3
    <3> QED
      BY <1>3, <1>4, <1>7, <2>1, <3>1
  <2> QED
    BY <2>2, <2>3
<1>8. ASSUME NEW i \in 1..(n + 1) PROVE l[i] = Line(y, to[i])
  <2>1. CASE i = n + 1
    BY <1>1, <1>2, <1>4, <2>1
  <2>2. CASE i # n + 1
    <3>1. i \in 1..n
      BY <1>1, <2>2
    <3> QED
      BY <1>1, <1>2, <1>3, <1>4, <3>1
  <2> QED
    BY <2>1, <2>2
<1>9. AreLines(l, y)
  <2>1. /\ to \in [1..Len(l) -> Full(y)]
        /\ \A e \in Full(y) : \E i \in 1..Len(l) : to[i] = e
        /\ \A i, j \in 1..Len(l) : i < j => to[i] < to[j]
        /\ \A i \in 1..Len(l) : l[i] = Line(y, to[i])
    BY <1>1, <1>5, <1>6, <1>7, <1>8
  <2> QED
    BY <2>1 DEF AreLines
<1> QED
  BY <1>9 DEF l, y

-----------------------------------------------------------------------------
(* The parser and its stream.                                              *)

\* s are the bytes since the node was made, q the lines taken from it.
ParserIs(p, s, q) ==
  /\ p.buf = Rest(s)
  /\ p.skip <=> Skipping(Raw(s, Len(s) + 1))
  /\ AreLines(q \o p.queue, s)

LEMMA NewParserIs ==
  NewParser \in Parsers /\ ParserIs(NewParser, <<>>, <<>>)
<1>1. /\ <<>> \in Seq(Bytes) /\ <<>> \in Seq(Characters) /\ <<>> \in Seq(Seq(Characters))
      /\ Len(<<>>) = 0 /\ Ends(<<>>) = {}
  BY EmptySeq DEF Ends
<1>2. Raw(<<>>, 1) = <<>>
  <2>1. LineStart(<<>>, 1) = 1
    <3>1. 1 \in 1..(Len(<<>>) + 1)
      BY <1>1
    <3>2. LineStart(<<>>, 1) \in 1..1
      BY <1>1, <3>1, StartIs
    <3> QED
      BY <3>2
  <2>2. SubSeq(<<>>, 1, 0) = <<>>
    BY SubSeqEmpty
  <2> QED
    BY <2>1, <2>2 DEF Raw
<1>3. Rest(<<>>) = <<>> /\ ~Skipping(<<>>)
  <2>1. Untelnet(<<>>) = <<>> /\ Cut(<<>>) = <<>>
    BY <1>1, UntelnetIs, CutIs
  <2> QED
    BY <1>1, <1>2, <2>1 DEF Rest, Line, Skipping
<1>4. AreLines(<<>>, <<>>)
  <2>1. Full(<<>>) = {}
    BY <1>1 DEF Full
  <2>2. [i \in 1..0 |-> 0] \in [1..Len(<<>>) -> Full(<<>>)]
    BY <1>1
  <2> QED
    BY <1>1, <2>1, <2>2 DEF AreLines
<1>5. <<>> \o <<>> = <<>>
  BY <1>1, ConcatEmptySeq
<1> QED
  BY <1>1, <1>2, <1>3, <1>4, <1>5 DEF NewParser, Parsers, ParserIs

\* One turn of the loop.
LEMMA ByteParsed ==
  ASSUME NEW p \in Parsers, NEW s \in Seq(Bytes), NEW q \in Seq(Seq(Characters)), NEW b \in Bytes,
         ParserIs(p, s, q)
  PROVE  ParserIs(ParseByte(p, b), Append(s, b), q)
<1> DEFINE y == Append(s, b)
           raw == Raw(s, Len(s) + 1)
           r == ParseByte(p, b)
<1>1. /\ p = [buf |-> p.buf, skip |-> p.skip, queue |-> p.queue]
      /\ p.skip \in BOOLEAN /\ p.buf \in Seq(Characters) /\ p.queue \in Seq(Seq(Characters))
      /\ p.buf = Rest(s) /\ (p.skip <=> Skipping(raw)) /\ AreLines(q \o p.queue, s)
      /\ q \o p.queue \in Seq(Seq(Characters))
  BY ConcatProperties DEF Parsers, ParserIs
<1>2. /\ b = "end" => Rest(y) = <<>> /\ ~Skipping(Raw(y, Len(y) + 1))
      /\ b # "end" =>
           /\ Rest(y) = IF Rest(s) # <<>>
                        THEN IF Len(Rest(s)) < Limit THEN Append(Rest(s), b) ELSE Rest(s)
                        ELSE IF Drops(raw, b) THEN <<>> ELSE <<b>>
           /\ Skipping(Raw(y, Len(y) + 1)) <=> Rest(s) = <<>> /\ Drops(raw, b)
  BY RestGrows
<1>3. Rest(s) # <<>> => ~p.skip
  BY <1>1, RestIs, UntelnetIs
<1>4. Skips(p, b) <=> Rest(s) = <<>> /\ Drops(raw, b)
  BY <1>1 DEF Skips, Drops
<1>5. b = "end" => ~Drops(raw, b)
  BY DEF Drops, Telnet
<1> HIDE DEF raw, y
<1>6. CASE Skips(p, b)
  <2>1. r.buf = p.buf /\ r.skip = TRUE /\ r.queue = p.queue
    BY <1>1, <1>6 DEF ParseByte
  <2>2. b # "end" /\ Rest(s) = <<>> /\ Drops(raw, b)
    BY <1>4, <1>5, <1>6
  <2>3. Rest(y) = <<>> /\ Skipping(Raw(y, Len(y) + 1))
    BY <1>2, <2>2
  <2>4. AreLines(q \o p.queue, y)
    BY <1>1, <2>2, LinesStay DEF y
  <2> HIDE DEF r
  <2> QED
    BY <1>1, <2>1, <2>2, <2>3, <2>4 DEF ParserIs, r, y
<1>7. CASE ~Skips(p, b) /\ p.buf = <<>>
  <2>1. Rest(s) = <<>> /\ ~Drops(raw, b)
    BY <1>1, <1>4, <1>7
  <2>2. AreLines(q \o p.queue, y)
    BY <1>1, <2>1, LinesStay DEF y
  <2>3. CASE b = "end"
    <3>1. r.buf = p.buf /\ r.skip = FALSE /\ r.queue = p.queue
      BY <1>1, <1>7, <2>3 DEF ParseByte, EndLine
    <3> HIDE DEF r
    <3> QED
      BY <1>1, <1>2, <2>1, <2>2, <2>3, <3>1 DEF ParserIs, r, y
  <2>4. CASE b # "end"
    <3>1. 0 < Limit /\ Len(p.buf) = 0
      BY <1>7, StreamAssumption
    <3>2. r.buf = Append(p.buf, b) /\ r.skip = FALSE /\ r.queue = p.queue
      BY <1>1, <1>7, <2>4, <3>1 DEF ParseByte, Store
    <3>3. r.buf = <<b>>
      BY <1>7, <3>2
    <3> HIDE DEF r
    <3> QED
      BY <1>1, <1>2, <2>1, <2>2, <2>4, <3>2, <3>3 DEF ParserIs, r, y
  <2> QED
    BY <2>3, <2>4
<1>8. CASE ~Skips(p, b) /\ p.buf # <<>>
  <2>1. Rest(s) # <<>> /\ ~p.skip
    BY <1>1, <1>3, <1>8
  <2>2. CASE b = "end"
    <3>1. r.buf = <<>> /\ r.skip = p.skip /\ r.queue = Append(p.queue, p.buf)
      BY <1>1, <1>8, <2>2 DEF ParseByte, EndLine
    <3>2. AreLines(Append(q \o p.queue, Rest(s)), y)
      BY <1>1, <2>1, <2>2, LinesGrow DEF y
    <3>3. Append(q \o p.queue, p.buf) = q \o Append(p.queue, p.buf)
      <4> DEFINE S == Seq(Characters)
                 l == p.queue
                 e == p.buf
      <4>1. q \in Seq(S) /\ l \in Seq(S) /\ e \in S
        BY <1>1
      <4> HIDE DEF S, l, e
      <4>2. q \o Append(l, e) = Append(q \o l, e)
        BY <4>1, AppendBehind
      <4> QED
        BY <4>2 DEF l, e
    <3> HIDE DEF r
    <3>4. AreLines(q \o r.queue, y)
      BY <1>1, <3>1, <3>2, <3>3
    <3> QED
      BY <1>1, <1>2, <2>1, <2>2, <3>1, <3>4 DEF ParserIs, r, y
  <2>3. CASE b # "end"
    <3>1. /\ r.buf = IF Len(p.buf) < Limit THEN Append(p.buf, b) ELSE p.buf
          /\ r.skip = p.skip /\ r.queue = p.queue
      BY <1>1, <1>8, <2>3 DEF ParseByte, Store
    <3>2. AreLines(q \o p.queue, y)
      BY <1>1, <2>3, LinesStay DEF y
    <3> HIDE DEF r
    <3> QED
      BY <1>1, <1>2, <2>1, <2>3, <3>1, <3>2 DEF ParserIs, r, y
  <2> QED
    BY <2>2, <2>3
<1> QED
  BY <1>6, <1>7, <1>8

\* The loop appends the bytes of a read to the stream.
LEMMA LoopIs ==
  ASSUME parser \in Parsers, NEW s \in Seq(Bytes), NEW q \in Seq(Seq(Characters)),
         ParserIs(parser, s, q), NEW segment \in Seq(Bytes)
  PROVE  ParserIs(Parsed(segment), s \o segment, q)
<1> DEFINE K == {g \in Seq(Bytes) : ParserIs(Parsed(g), s \o g, q)}
<1>1. <<>> \in K
  <2>1. Parsed(<<>>) = parser /\ s \o <<>> = s /\ <<>> \in Seq(Bytes)
    BY ParsedIs, ConcatEmptySeq, EmptySeq
  <2> QED
    BY <2>1
<1>2. ASSUME NEW g \in Seq(Bytes), NEW b \in Bytes, g \in K PROVE Append(g, b) \in K
  <2>1. /\ Parsed(g) \in Parsers /\ Parsed(Append(g, b)) = ParseByte(Parsed(g), b)
        /\ Append(g, b) \in Seq(Bytes) /\ s \o g \in Seq(Bytes)
    BY ParsedIs, AppendProperties, ConcatProperties
  <2>2. ParserIs(ParseByte(Parsed(g), b), Append(s \o g, b), q)
    BY <1>2, <2>1, ByteParsed
  <2>3. Append(s \o g, b) = s \o Append(g, b)
    BY ByteBehind
  <2> QED
    BY <2>1, <2>2, <2>3
<1>3. Seq(Bytes) \subseteq K
  <2> HIDE DEF K
  <2> QED
    BY <1>1, <1>2, SeqSet
<1> QED
  BY <1>3

\* The buffer and the lines within their limits.
Bounded(p) ==
  Len(p.buf) <= Limit /\ \A i \in 1..Len(p.queue) : Len(p.queue[i]) \in 1..Limit

LEMMA ByteBounded ==
  ASSUME NEW p \in Parsers, NEW b \in Bytes, Bounded(p)
  PROVE  Bounded(ParseByte(p, b))
<1> DEFINE r == ParseByte(p, b)
<1>1. /\ p = [buf |-> p.buf, skip |-> p.skip, queue |-> p.queue]
      /\ p.buf \in Seq(Characters) /\ p.queue \in Seq(Seq(Characters))
      /\ Len(p.buf) \in Nat /\ Len(p.queue) \in Nat /\ Limit \in Nat /\ Len(<<>>) = 0
  BY StreamAssumption, LenProperties, EmptySeq DEF Parsers
<1>2. \/ r.buf = p.buf /\ r.queue = p.queue
      \/ p.buf # <<>> /\ r.buf = <<>> /\ r.queue = Append(p.queue, p.buf)
      \/ b # "end" /\ Len(p.buf) < Limit /\ r.buf = Append(p.buf, b) /\ r.queue = p.queue
  BY <1>1 DEF ParseByte, EndLine, Store
<1> HIDE DEF r
<1>3. CASE r.buf = p.buf /\ r.queue = p.queue
  BY <1>3 DEF Bounded, r
<1>4. CASE p.buf # <<>> /\ r.buf = <<>> /\ r.queue = Append(p.queue, p.buf)
  <2>1. Len(p.buf) \in 1..Limit
    BY <1>1, <1>4, EmptySeq DEF Bounded
  <2>2. /\ Len(r.queue) = Len(p.queue) + 1 /\ r.queue[Len(p.queue) + 1] = p.buf
        /\ \A i \in 1..Len(p.queue) : r.queue[i] = p.queue[i]
    BY <1>1, <1>4, AppendProperties
  <2>3. ASSUME NEW i \in 1..Len(r.queue) PROVE Len(r.queue[i]) \in 1..Limit
    <3>1. i \in 1..Len(p.queue) \/ i = Len(p.queue) + 1
      BY <1>1, <2>2
    <3> QED
      BY <2>1, <2>2, <3>1 DEF Bounded
  <2> QED
    BY <1>1, <1>4, <2>3 DEF Bounded, r
<1>5. CASE b # "end" /\ Len(p.buf) < Limit /\ r.buf = Append(p.buf, b) /\ r.queue = p.queue
  <2>1. Len(r.buf) = Len(p.buf) + 1
    BY <1>1, <1>5, AppendProperties DEF Bytes
  <2> QED
    BY <1>1, <1>5, <2>1 DEF Bounded, r
<1> QED
  BY <1>2, <1>3, <1>4, <1>5

\* A read queues as many lines as it completes, at most.
LEMMA ByteCounts ==
  ASSUME NEW p \in Parsers, NEW b \in Bytes
  PROVE  Len(ParseByte(p, b).queue) <= Len(p.queue) + (IF b = "end" /\ p.buf # <<>> THEN 1 ELSE 0)
<1>1. /\ p = [buf |-> p.buf, skip |-> p.skip, queue |-> p.queue]
      /\ p.buf \in Seq(Characters) /\ p.queue \in Seq(Seq(Characters)) /\ Len(p.queue) \in Nat
  BY LenProperties DEF Parsers
<1>2. Len(Append(p.queue, p.buf)) = Len(p.queue) + 1
  BY <1>1, AppendProperties
<1>3. \/ ParseByte(p, b).queue = p.queue
      \/ b = "end" /\ p.buf # <<>> /\ ParseByte(p, b).queue = Append(p.queue, p.buf)
  BY <1>1 DEF ParseByte, EndLine, Store
<1> QED
  BY <1>1, <1>2, <1>3

\* One more byte completes one more line, if it ends one that is not empty.
LEMMA CompletedGrows ==
  ASSUME NEW s \in Seq(Bytes), NEW b \in Bytes, NEW n \in Nat, n <= Len(s),
         IsFiniteSet(Completed(s, n))
  PROVE  /\ Cardinality(Completed(s, n)) \in Nat
         /\ IsFiniteSet(Completed(Append(s, b), n))
         /\ Cardinality(Completed(Append(s, b), n)) =
              Cardinality(Completed(s, n)) + (IF b = "end" /\ Rest(s) # <<>> THEN 1 ELSE 0)
<1> DEFINE C == Completed(s, n)
           D == Completed(Append(s, b), n)
<1>1. /\ Full(s) \subseteq 1..Len(s) /\ Len(s) \in Nat
      /\ Full(Append(s, b)) =
           Full(s) \cup (IF b = "end" /\ Rest(s) # <<>> THEN {Len(s) + 1} ELSE {})
  BY FullGrows
<1>2. Len(s) + 1 \notin C /\ Len(s) + 1 > n
  BY <1>1 DEF Completed
<1>3. D = C \cup (IF b = "end" /\ Rest(s) # <<>> THEN {Len(s) + 1} ELSE {})
  BY <1>1, <1>2 DEF Completed
<1>4. IsFiniteSet(C) /\ Cardinality(C) \in Nat
  BY FS_CardinalityType
<1> HIDE DEF C, D
<1>5. CASE b = "end" /\ Rest(s) # <<>>
  <2>1. D = C \cup {Len(s) + 1}
    BY <1>3, <1>5
  <2>2. IsFiniteSet(D) /\ Cardinality(D) = Cardinality(C) + 1
    BY <1>2, <1>4, <2>1, FS_AddElement
  <2> QED
    BY <1>4, <1>5, <2>2 DEF C, D
<1>6. CASE ~(b = "end" /\ Rest(s) # <<>>)
  <2>1. D = C
    BY <1>3, <1>6
  <2>2. Cardinality(D) = Cardinality(C) + 0
    BY <1>4, <2>1
  <2> QED
    BY <1>4, <1>6, <2>1, <2>2 DEF C, D
<1> QED
  BY <1>5, <1>6

LEMMA LoopBounds ==
  ASSUME parser \in Parsers, Bounded(parser), NEW s \in Seq(Bytes),
         NEW q \in Seq(Seq(Characters)), ParserIs(parser, s, q), NEW segment \in Seq(Bytes)
  PROVE  /\ Parsed(segment) \in Parsers /\ Bounded(Parsed(segment))
         /\ Cardinality(Completed(s \o segment, Len(s))) \in Nat
         /\ Len(Parsed(segment).queue) <=
              Len(parser.queue) + Cardinality(Completed(s \o segment, Len(s)))
<1> DEFINE New(g) == Completed(s \o g, Len(s))
           K == {g \in Seq(Bytes) :
                   /\ Bounded(Parsed(g)) /\ IsFiniteSet(New(g))
                   /\ Len(Parsed(g).queue) <= Len(parser.queue) + Cardinality(New(g))}
<1>1. <<>> \in K
  <2>1. Parsed(<<>>) = parser /\ <<>> \in Seq(Bytes) /\ s \o <<>> = s
    BY ParsedIs, EmptySeq, ConcatEmptySeq
  <2>2. IsFiniteSet({}) /\ Cardinality({}) = 0
    BY FS_EmptySet
  <2>3. Len(parser.queue) \in Nat
    BY LenProperties DEF Parsers
  <2>4. New(<<>>) = {}
    <3>1. Full(s) \subseteq 1..Len(s) /\ Len(s) \in Nat
      BY FullGrows DEF Bytes
    <3> QED
      BY <2>1, <3>1 DEF Completed
  <2> HIDE DEF New
  <2>5. Len(parser.queue) <= Len(parser.queue) + Cardinality(New(<<>>))
    <3>1. Cardinality(New(<<>>)) = 0
      BY <2>2, <2>4, Zenon
    <3> QED
      BY <2>3, <3>1
  <2>6. Bounded(Parsed(<<>>)) /\ IsFiniteSet(New(<<>>))
    BY <2>1, <2>2, <2>4
  <2>7. Len(Parsed(<<>>).queue) <= Len(parser.queue) + Cardinality(New(<<>>))
    BY <2>1, <2>5
  <2> QED
    BY <2>1, <2>6, <2>7
<1>2. ASSUME NEW g \in Seq(Bytes), NEW b \in Bytes, g \in K PROVE Append(g, b) \in K
  <2> DEFINE p == Parsed(g)
             r == ParseByte(p, b)
             y == Append(g, b)
             w == s \o g
  <2>1. /\ p \in Parsers /\ r \in Parsers /\ Parsed(y) = r /\ y \in Seq(Bytes)
        /\ Bounded(p) /\ IsFiniteSet(New(g))
        /\ Len(p.queue) <= Len(parser.queue) + Cardinality(New(g))
    BY <1>2, ParsedIs, ByteIs, AppendProperties
  <2>2. /\ w \in Seq(Bytes) /\ Len(s) \in Nat /\ Len(s) <= Len(w)
        /\ p.buf = Rest(w)
    <3>1. Len(w) = Len(s) + Len(g) /\ Len(s) \in Nat /\ Len(g) \in Nat /\ w \in Seq(Bytes)
      BY ConcatProperties, LenProperties
    <3>2. ParserIs(p, w, q)
      BY LoopIs
    <3> QED
      BY <3>1, <3>2 DEF ParserIs
  <2>3. s \o y = Append(w, b)
    BY ByteBehind
  <2>4. Bounded(r) /\ Len(r.queue) <= Len(p.queue) + (IF b = "end" /\ p.buf # <<>> THEN 1 ELSE 0)
    BY <2>1, ByteBounded, ByteCounts
  <2>5. Len(parser.queue) \in Nat /\ Len(p.queue) \in Nat /\ Len(r.queue) \in Nat
    BY <2>1, LenProperties DEF Parsers
  <2> DEFINE c == Cardinality(New(g))
             d == Cardinality(New(y))
             more == IF b = "end" /\ p.buf # <<>> THEN 1 ELSE 0
  <2>6. c \in Nat /\ IsFiniteSet(New(y)) /\ d = c + more
    <3>1. /\ Cardinality(Completed(w, Len(s))) \in Nat
          /\ IsFiniteSet(Completed(Append(w, b), Len(s)))
          /\ Cardinality(Completed(Append(w, b), Len(s))) =
               Cardinality(Completed(w, Len(s))) + (IF b = "end" /\ Rest(w) # <<>> THEN 1 ELSE 0)
      <4>1. IsFiniteSet(Completed(w, Len(s)))
        BY <2>1
      <4> DEFINE n == Len(s)
      <4>2. n \in Nat /\ n <= Len(w)
        BY <2>2
      <4> HIDE DEF w, n
      <4> QED
        BY <2>2, <4>1, <4>2, CompletedGrows DEF n
    <3>2. New(y) = Completed(Append(w, b), Len(s))
      BY <2>3
    <3> HIDE DEF y, p
    <3> QED
      BY <2>2, <3>1, <3>2
  <2>7. Len(r.queue) <= Len(parser.queue) + d
    <3> DEFINE i == Len(parser.queue)
               j == Len(p.queue)
               l == Len(r.queue)
    <3>1. more \in Nat
      OBVIOUS
    <3>2. l <= j + more /\ j <= i + c
      BY <2>1, <2>4
    <3>3. i \in Nat /\ j \in Nat /\ l \in Nat /\ c \in Nat /\ d = c + more
      BY <2>5, <2>6
    <3> HIDE DEF c, d, more, i, j, l
    <3>4. l <= i + d
      BY <3>1, <3>2, <3>3
    <3> QED
      BY <3>4 DEF i, l
  <2> HIDE DEF New, r, p
  <2> QED
    BY <2>1, <2>4, <2>6, <2>7 DEF y
<1>3. Seq(Bytes) \subseteq K
  <2> HIDE DEF K
  <2> QED
    BY <1>1, <1>2, SeqSet
<1>4. segment \in K
  BY <1>3
<1> QED
  BY <1>4, ParsedIs, FS_CardinalityType

-----------------------------------------------------------------------------
(* The invariant, and its steps.                                           *)

\* What a parser holds is what its bytes say, also while no account lists the
\* node: then there are no bytes yet.
IInv ==
  /\ TypeOK
  /\ ParserIs(parser, From(received, since.bytes), From(handled, since.lines))
  /\ PoliteNeverWaits

LEMMA FromLen ==
  ASSUME NEW S, NEW x \in Seq(S), NEW n \in 0..Len(x)
  PROVE  Len(From(x, n)) = Len(x) - n
<1>1. Len(x) \in Nat /\ \A i \in 1..Len(x) : x[i] \in S
  BY LenProperties, ElementOfSeq
<1>2. n + 1 \in Int /\ Len(x) \in Int /\ \A i \in (n + 1)..Len(x) : x[i] \in S
  BY <1>1
<1>3. Len(SubSeq(x, n + 1, Len(x))) = IF n + 1 <= Len(x) THEN Len(x) - (n + 1) + 1 ELSE 0
  BY <1>2, SubSeqProperties
<1> QED
  BY <1>1, <1>3 DEF From

LEMMA FromIs ==
  ASSUME NEW S, NEW x \in Seq(S), NEW n \in 0..Len(x)
  PROVE  /\ From(x, n) \in Seq(S) /\ From(x, Len(x)) = <<>>
         /\ \A y \in Seq(S) : From(x \o y, n) = From(x, n) \o y
<1>1. Len(x) \in Nat /\ \A i \in 1..Len(x) : x[i] \in S
  BY LenProperties, ElementOfSeq
<1>2. /\ From(x, n) \in Seq(S) /\ Len(From(x, n)) = Len(x) - n
      /\ \A i \in 1..(Len(x) - n) : From(x, n)[i] = x[n + i]
  <2>1. n + 1 \in Int /\ Len(x) \in Int /\ \A i \in (n + 1)..Len(x) : x[i] \in S
    BY <1>1
  <2>2. /\ SubSeq(x, n + 1, Len(x)) \in Seq(S)
        /\ Len(SubSeq(x, n + 1, Len(x))) = IF n + 1 <= Len(x) THEN Len(x) - (n + 1) + 1 ELSE 0
        /\ \A i \in 1..(Len(x) - (n + 1) + 1) : SubSeq(x, n + 1, Len(x))[i] = x[n + 1 + i - 1]
    BY <2>1, SubSeqProperties
  <2>3. \A i \in 1..(Len(x) - n) : n + 1 + i - 1 = n + i /\ i \in 1..(Len(x) - (n + 1) + 1)
    BY <1>1
  <2>4. (IF n + 1 <= Len(x) THEN Len(x) - (n + 1) + 1 ELSE 0) = Len(x) - n
    BY <1>1
  <2> QED
    BY <2>2, <2>3, <2>4 DEF From
<1>3. From(x, Len(x)) = <<>>
  BY <1>1, SubSeqEmpty DEF From
<1>4. ASSUME NEW y \in Seq(S) PROVE From(x \o y, n) = From(x, n) \o y
  <2> DEFINE z == x \o y
             u == From(z, n)
             v == From(x, n) \o y
  <2>1. /\ z \in Seq(S) /\ Len(y) \in Nat /\ Len(z) = Len(x) + Len(y)
        /\ \A i \in 1..(Len(x) + Len(y)) : z[i] = IF i <= Len(x) THEN x[i] ELSE y[i - Len(x)]
    BY ConcatProperties, LenProperties
  <2>2. /\ v \in Seq(S) /\ Len(v) = (Len(x) - n) + Len(y)
        /\ \A i \in 1..((Len(x) - n) + Len(y)) :
             v[i] = IF i <= Len(x) - n THEN From(x, n)[i] ELSE y[i - (Len(x) - n)]
    <3> DEFINE w == From(x, n)
    <3>1. w \in Seq(S) /\ Len(w) = Len(x) - n
      BY <1>2
    <3> HIDE DEF w
    <3>2. /\ w \o y \in Seq(S) /\ Len(w \o y) = Len(w) + Len(y)
          /\ \A i \in 1..(Len(w) + Len(y)) :
               (w \o y)[i] = IF i <= Len(w) THEN w[i] ELSE y[i - Len(w)]
      BY <3>1, ConcatProperties
    <3> QED
      BY <3>1, <3>2 DEF w
  <2> HIDE DEF z, v
  <2>3. /\ u \in Seq(S) /\ Len(u) = Len(z) - n
        /\ \A i \in 1..(Len(z) - n) : u[i] = z[n + i]
    <3>1. n + 1 \in Int /\ Len(z) \in Int /\ \A i \in (n + 1)..Len(z) : z[i] \in S
      BY <1>1, <2>1, ElementOfSeq
    <3>2. /\ SubSeq(z, n + 1, Len(z)) \in Seq(S)
          /\ Len(SubSeq(z, n + 1, Len(z))) = IF n + 1 <= Len(z) THEN Len(z) - (n + 1) + 1 ELSE 0
          /\ \A i \in 1..(Len(z) - (n + 1) + 1) : SubSeq(z, n + 1, Len(z))[i] = z[n + 1 + i - 1]
      BY <3>1, SubSeqProperties
    <3>3. \A i \in 1..(Len(z) - n) : n + 1 + i - 1 = n + i /\ i \in 1..(Len(z) - (n + 1) + 1)
      BY <1>1, <2>1
    <3>4. (IF n + 1 <= Len(z) THEN Len(z) - (n + 1) + 1 ELSE 0) = Len(z) - n
      BY <1>1, <2>1
    <3> QED
      BY <3>2, <3>3, <3>4 DEF From
  <2> HIDE DEF u
  <2>4. Len(u) = Len(v)
    BY <1>1, <2>1, <2>2, <2>3
  <2>5. ASSUME NEW i \in 1..Len(u) PROVE u[i] = v[i]
    <3>1. /\ u[i] = z[n + i] /\ n + i \in 1..(Len(x) + Len(y))
          /\ i \in 1..((Len(x) - n) + Len(y))
      BY <1>1, <2>1, <2>3
    <3>2. CASE i <= Len(x) - n
      <4>1. n + i <= Len(x) /\ i \in 1..(Len(x) - n)
        BY <1>1, <3>2
      <4> QED
        BY <1>2, <2>1, <2>2, <3>1, <3>2, <4>1
    <3>3. CASE ~(i <= Len(x) - n)
      <4>1. ~(n + i <= Len(x)) /\ (n + i) - Len(x) = i - (Len(x) - n)
        BY <1>1, <3>3
      <4> QED
        BY <2>1, <2>2, <3>1, <3>3, <4>1
    <3> QED
      BY <3>2, <3>3
  <2>6. u = v
    BY <2>2, <2>3, <2>4, <2>5, SeqEqual
  <2> QED
    BY <2>6 DEF u, v, z
<1> QED
  BY <1>2, <1>3, <1>4

\* The build does not change.
LEMMA SignedKept ==
  ASSUME UNCHANGED signed, NEW p, NEW s, NEW q
  PROVE  ParserIs(p, s, q)' <=> ParserIs(p, s, q)
BY DEF ParserIs, Rest, Line, Untelnet, Skipping, AreLines, Full

LEMMA CommandIs ==
  ASSUME TypeOK, NEW line, NEW r \in Command(line)
  PROVE  r.listed \in BOOLEAN /\ r.logged \in BOOLEAN /\ r.open \in BOOLEAN
<1>1. listed \in BOOLEAN /\ logged \in BOOLEAN
  BY DEF TypeOK
<1>2. CASE MapCommand(line) = "user"
  <2>1. r \in [listed : BOOLEAN, logged : BOOLEAN, open : BOOLEAN]
    BY <1>2 DEF Command
  <2> QED
    BY <2>1
<1>3. CASE MapCommand(line) = "pass"
  <2>1. r \in [listed : {listed, FALSE}, logged : BOOLEAN, open : {TRUE}]
    BY <1>3 DEF Command
  <2> QED
    BY <1>1, <2>1
<1>4. CASE MapCommand(line) = "rein"
  <2>1. r \in [listed : BOOLEAN, logged : {FALSE}, open : {TRUE}]
    BY <1>4 DEF Command
  <2> QED
    BY <2>1
<1>5. CASE MapCommand(line) \notin {"user", "pass", "rein"}
  <2>1. r = [listed |-> listed, logged |-> logged, open |-> TRUE]
    BY <1>5 DEF Command
  <2> QED
    BY <1>1, <2>1
<1> QED
  BY <1>2, <1>3, <1>4, <1>5

LEMMA InitIs == Init => IInv
<1> SUFFICES ASSUME Init PROVE IInv
  OBVIOUS
<1>1. /\ parser = NewParser /\ received = <<>> /\ handled = <<>>
      /\ since = [bytes |-> 0, lines |-> 0]
  BY DEF Init
<1>2. /\ <<>> \in Seq(Bytes) /\ <<>> \in Seq(Seq(Characters)) /\ Len(<<>>) = 0
      /\ 0 \in 0..Len(<<>>)
  BY EmptySeq
<1>3. From(received, since.bytes) = <<>> /\ From(handled, since.lines) = <<>>
  BY <1>1, <1>2, FromIs
<1>4. NewParser.buf = <<>> /\ NewParser.queue = <<>> /\ 0 <= Limit
  BY StreamAssumption DEF NewParser
<1>5. TypeOK
  <2>1. parser \in Parsers /\ parser.buf = <<>> /\ parser.queue = <<>>
    BY <1>1, <1>4, NewParserIs
  <2>2. Len(parser.buf) <= Limit /\ Len(parser.queue) = 0
    BY <1>2, <1>4, <2>1
  <2>3. \A i \in 1..Len(parser.queue) : Len(parser.queue[i]) \in 1..Limit
    BY <2>2
  <2>4. since \in [bytes : 0..Len(received), lines : 0..Len(handled)]
    <3>1. Len(received) = 0 /\ Len(handled) = 0
      BY <1>1, <1>2
    <3>2. 0 \in 0..Len(received) /\ 0 \in 0..Len(handled)
      BY <3>1
    <3> QED
      BY <1>1, <3>2
  <2>5. received \in Seq(Bytes) /\ handled \in Seq(Seq(Characters))
    BY <1>1, <1>2
  <2>6. /\ signed \in BOOLEAN /\ polite \in BOOLEAN
        /\ listed \in BOOLEAN /\ logged \in BOOLEAN /\ open \in BOOLEAN
    BY DEF Init
  <2> QED
    BY <2>1, <2>2, <2>3, <2>4, <2>5, <2>6 DEF TypeOK
<1>6. ParserIs(parser, From(received, since.bytes), From(handled, since.lines))
  BY <1>1, <1>3, NewParserIs
<1> QED
  BY <1>1, <1>4, <1>5, <1>6 DEF IInv, PoliteNeverWaits

\* A node that goes leaves nothing behind.
LEMMA NewNode ==
  ASSUME received' \in Seq(Bytes), handled' \in Seq(Seq(Characters)), UNCHANGED signed,
         parser' = NewParser, since' = [bytes |-> Len(received'), lines |-> Len(handled')]
  PROVE  /\ parser' \in Parsers /\ Bounded(parser')
         /\ since' \in [bytes : 0..Len(received'), lines : 0..Len(handled')]
         /\ ParserIs(parser, From(received, since.bytes), From(handled, since.lines))'
         /\ parser'.queue = <<>>
<1>1. /\ Len(received') \in Nat /\ Len(handled') \in Nat
      /\ Len(received') \in 0..Len(received') /\ Len(handled') \in 0..Len(handled')
  BY LenProperties
<1>2. From(received', Len(received')) = <<>> /\ From(handled', Len(handled')) = <<>>
  BY <1>1, FromIs
<1>3. ParserIs(NewParser, <<>>, <<>>)' <=> ParserIs(NewParser, <<>>, <<>>)
  BY SignedKept
<1>4. NewParser.buf = <<>> /\ NewParser.queue = <<>> /\ Len(<<>>) = 0 /\ 0 <= Limit
  BY StreamAssumption, EmptySeq DEF NewParser
<1>5. ParserIs(parser, From(received, since.bytes), From(handled, since.lines))'
  BY <1>2, <1>3, NewParserIs
<1> QED
  BY <1>1, <1>4, <1>5, NewParserIs DEF Bounded

LEMMA LostKeeps ==
  ASSUME IInv, Lost
  PROVE  IInv'
<1>1. /\ UNCHANGED <<signed, received, handled, polite>>
      /\ open' = FALSE /\ listed' = FALSE /\ logged' = FALSE /\ parser' = NewParser
      /\ since' = [bytes |-> Len(received'), lines |-> Len(handled')]
  BY DEF Lost
<1>2. /\ signed \in BOOLEAN /\ polite \in BOOLEAN
      /\ received' \in Seq(Bytes) /\ handled' \in Seq(Seq(Characters))
  BY <1>1 DEF IInv, TypeOK
<1>3. /\ parser' \in Parsers /\ Bounded(parser')
      /\ since' \in [bytes : 0..Len(received'), lines : 0..Len(handled')]
      /\ ParserIs(parser, From(received, since.bytes), From(handled, since.lines))'
      /\ parser'.queue = <<>>
  BY <1>1, <1>2, NewNode
<1>4. TypeOK'
  BY <1>1, <1>2, <1>3 DEF TypeOK, Bounded
<1> QED
  BY <1>3, <1>4 DEF IInv, PoliteNeverWaits

\* The line that is taken is the first of those that wait.
LEMMA TakenIs ==
  ASSUME NEW p \in Parsers, Taken(p), NEW h \in Seq(Seq(Characters)), Bounded(p)
  PROVE  /\ Popped(p) \in Parsers /\ Popped(p).buf = p.buf /\ Popped(p).skip = p.skip
         /\ Bounded(Popped(p)) /\ Len(Popped(p).queue) = Len(p.queue) - 1
         /\ Head(p.queue) \in Seq(Characters) /\ <<Head(p.queue)>> \in Seq(Seq(Characters))
         /\ (h \o <<Head(p.queue)>>) \o Popped(p).queue = h \o p.queue
<1> DEFINE l == p.queue
<1>1. /\ p = [buf |-> p.buf, skip |-> p.skip, queue |-> l] /\ p.skip \in BOOLEAN
      /\ p.buf \in Seq(Characters) /\ l \in Seq(Seq(Characters)) /\ l # <<>> /\ Len(l) \in Nat
  BY LenProperties DEF Parsers, Taken
<1>2. /\ Head(l) \in Seq(Characters) /\ Tail(l) \in Seq(Seq(Characters))
      /\ Len(Tail(l)) = Len(l) - 1
      /\ \A i \in 1..Len(Tail(l)) : Tail(l)[i] = l[i + 1]
  BY <1>1, HeadTailProperties
<1>3. /\ Popped(p).buf = p.buf /\ Popped(p).skip = p.skip /\ Popped(p).queue = Tail(l)
      /\ Popped(p) \in Parsers
  BY <1>1, <1>2 DEF Popped, Parsers
<1>4. <<Head(l)>> \in Seq(Seq(Characters))
  BY <1>2
<1>5. l = <<Head(l)>> \o Tail(l)
  <2>1. Len(l) # 0
    BY <1>1, EmptySeq
  <2>2. 1 \in 1..Len(l) /\ Len(l) \in 1..Len(l) /\ 1 + 1 = 2
    BY <1>1, <2>1
  <2>3. SubSeq(l, 1, Len(l)) = <<l[1]>> \o SubSeq(l, 2, Len(l))
    BY <1>1, <2>2, SubSeqRecursiveFirst
  <2>4. SubSeq(l, 1, Len(l)) = l /\ Tail(l) = SubSeq(l, 2, Len(l))
    BY <1>1, SubSeqFull, TailIsSubSeq
  <2>5. Head(l) = l[1]
    BY <1>1
  <2> QED
    BY <2>3, <2>4, <2>5
<1>6. (h \o <<Head(l)>>) \o Tail(l) = h \o l
  <2> DEFINE S == Seq(Characters)
             u == <<Head(l)>>
             v == Tail(l)
  <2>1. u \in Seq(S) /\ v \in Seq(S) /\ h \in Seq(S) /\ l = u \o v
    BY <1>2, <1>4, <1>5
  <2> HIDE DEF u, v, S, l
  <2>2. (h \o u) \o v = h \o (u \o v)
    BY <2>1, ConcatAssociative
  <2>3. (h \o u) \o v = h \o l
    BY <2>1, <2>2
  <2> QED
    BY <2>3 DEF u, v
<1>7. Bounded(Popped(p))
  <2>1. ASSUME NEW i \in 1..Len(Tail(l)) PROVE Len(Tail(l)[i]) \in 1..Limit
    <3>1. i + 1 \in 1..Len(l) /\ Tail(l)[i] = l[i + 1]
      BY <1>1, <1>2
    <3> QED
      BY <3>1 DEF Bounded
  <2> QED
    BY <1>3, <2>1 DEF Bounded
<1> QED
  BY <1>2, <1>3, <1>4, <1>6, <1>7

LEMMA ReadKeeps ==
  ASSUME IInv, NEW segment \in Seq(Bytes), Read(segment)
  PROVE  IInv'
<1> DEFINE p == Parsed(segment)
           lines == IF Taken(p) THEN <<Head(p.queue)>> ELSE <<>>
           left == IF Taken(p) THEN Popped(p) ELSE p
           same == [listed |-> listed, logged |-> logged, open |-> TRUE]
           s == From(received, since.bytes)
           q == From(handled, since.lines)
<1>1. TypeOK /\ ParserIs(parser, s, q) /\ PoliteNeverWaits
  BY DEF IInv
<1>2. /\ parser \in Parsers /\ Bounded(parser)
      /\ received \in Seq(Bytes) /\ handled \in Seq(Seq(Characters))
      /\ since \in [bytes : 0..Len(received), lines : 0..Len(handled)]
      /\ since.bytes \in 0..Len(received) /\ since.lines \in 0..Len(handled)
      /\ signed \in BOOLEAN /\ polite \in BOOLEAN /\ listed \in BOOLEAN /\ logged \in BOOLEAN
  BY <1>1 DEF TypeOK, Bounded
<1>3. /\ UNCHANGED signed /\ received' = received \o segment /\ handled' = handled \o lines
      /\ polite' = (polite /\ Cardinality(Completed(From(received', since.bytes),
                                                   Len(received) - since.bytes)) <= 1)
  BY DEF Read
<1>4. PICK r \in IF lines = <<>> THEN {same} ELSE Command(lines[1]) :
        /\ listed' = r.listed /\ logged' = r.logged /\ open' = r.open
        /\ IF r.listed
           THEN parser' = left /\ UNCHANGED since
           ELSE /\ parser' = NewParser
                /\ since' = [bytes |-> Len(received'), lines |-> Len(handled')]
  BY DEF Read
<1>5. r.listed \in BOOLEAN /\ r.logged \in BOOLEAN /\ r.open \in BOOLEAN
  <2>1. CASE lines = <<>>
    <3>1. r = same
      BY <1>4, <2>1
    <3> QED
      BY <1>2, <3>1
  <2>2. CASE lines # <<>>
    <3>1. r \in Command(lines[1])
      BY <1>4, <2>2
    <3> QED
      BY <1>1, <3>1, CommandIs
  <2> QED
    BY <2>1, <2>2
<1>6. s \in Seq(Bytes) /\ q \in Seq(Seq(Characters))
  BY <1>2, FromIs
<1> DEFINE c == Cardinality(Completed(s \o segment, Len(s)))
<1>7. /\ p \in Parsers /\ Bounded(p) /\ c \in Nat /\ Len(p.queue) <= Len(parser.queue) + c
      /\ ParserIs(p, s \o segment, q)
  BY <1>1, <1>2, <1>6, LoopBounds, LoopIs
<1>12. polite' = (polite /\ c <= 1)
  <2> DEFINE n == since.bytes
  <2>1. n \in 0..Len(received) /\ Len(received) \in Nat
    BY <1>2, LenProperties
  <2> HIDE DEF n
  <2>2. From(received \o segment, n) = From(received, n) \o segment
    BY <1>2, <2>1, FromIs
  <2>3. Len(From(received, n)) = Len(received) - n
    BY <1>2, <2>1, FromLen
  <2> QED
    BY <1>3, <2>2, <2>3 DEF n
<1> HIDE DEF p, s, q, c
<1>8. /\ left \in Parsers /\ Bounded(left) /\ lines \in Seq(Seq(Characters))
      /\ left.buf = p.buf /\ left.skip = p.skip
      /\ (q \o lines) \o left.queue = q \o p.queue
      /\ polite' => left.queue = <<>>
  <2>1. CASE Taken(p)
    <3>1. /\ left \in Parsers /\ Bounded(left) /\ lines \in Seq(Seq(Characters))
          /\ left.buf = p.buf /\ left.skip = p.skip
          /\ (q \o lines) \o left.queue = q \o p.queue
          /\ Len(left.queue) = Len(p.queue) - 1
      BY <1>6, <1>7, <2>1, TakenIs
    <3> HIDE DEF left, lines
    <3>2. ASSUME polite' PROVE left.queue = <<>>
      <4>1. parser.queue = <<>> /\ c <= 1
        BY <1>1, <1>2, <1>12, <3>2 DEF PoliteNeverWaits
      <4>2. Len(parser.queue) = 0
        BY <4>1
      <4>3. left.queue \in Seq(Seq(Characters)) /\ Len(left.queue) \in Nat /\ Len(p.queue) \in Nat
        BY <1>7, <3>1, LenProperties DEF Parsers
      <4>4. Len(left.queue) = 0
        <5> DEFINE m == Len(p.queue)
        <5>1. c \in Nat /\ c <= 1 /\ m \in Nat /\ m <= 0 + c /\ Len(left.queue) = m - 1
          BY <1>7, <3>1, <4>1, <4>2, <4>3
        <5> HIDE DEF m
        <5> QED
          BY <4>3, <5>1
      <4> QED
        BY <4>3, <4>4, EmptySeq
    <3> QED
      BY <3>1, <3>2
  <2>2. CASE ~Taken(p)
    <3>1. left = p /\ lines = <<>> /\ p.queue = <<>>
      BY <2>2 DEF Taken
    <3>2. <<>> \in Seq(Seq(Characters)) /\ q \o <<>> = q
      BY <1>6, EmptySeq, ConcatEmptySeq
    <3> HIDE DEF left, lines
    <3> QED
      BY <1>7, <3>1, <3>2
  <2> QED
    BY <2>1, <2>2
<1> HIDE DEF left, lines
<1>9. /\ received' \in Seq(Bytes) /\ handled' \in Seq(Seq(Characters)) /\ polite' \in BOOLEAN
      /\ Len(received) \in Nat /\ Len(handled) \in Nat
      /\ Len(received') = Len(received) + Len(segment) /\ Len(segment) \in Nat
      /\ Len(handled') = Len(handled) + Len(lines) /\ Len(lines) \in Nat
  BY <1>2, <1>3, <1>8, ConcatProperties, LenProperties
<1>10. CASE r.listed
  <2>1. parser' = left /\ since' = since
    BY <1>4, <1>10
  <2>2. From(received', since'.bytes) = s \o segment /\ From(handled', since'.lines) = q \o lines
    <3>1. From(received \o segment, since.bytes) = From(received, since.bytes) \o segment
      <4> DEFINE n == since.bytes
      <4>1. n \in 0..Len(received)
        BY <1>2
      <4> HIDE DEF n
      <4>2. From(received \o segment, n) = From(received, n) \o segment
        BY <1>2, <4>1, FromIs
      <4> QED
        BY <4>2 DEF n
    <3>2. From(handled \o lines, since.lines) = From(handled, since.lines) \o lines
      <4> DEFINE S == Seq(Characters)
                 n == since.lines
      <4>1. handled \in Seq(S) /\ lines \in Seq(S) /\ n \in 0..Len(handled)
        BY <1>2, <1>8
      <4> HIDE DEF S, n
      <4>2. From(handled \o lines, n) = From(handled, n) \o lines
        BY <4>1, FromIs
      <4> QED
        BY <4>2 DEF n
    <3> QED
      BY <1>3, <2>1, <3>1, <3>2 DEF s, q
  <2>3. ParserIs(left, s \o segment, q \o lines)
    BY <1>7, <1>8 DEF ParserIs
  <2>4. ParserIs(parser, From(received, since.bytes), From(handled, since.lines))'
    BY <1>3, <2>1, <2>2, <2>3, SignedKept
  <2>5. since' \in [bytes : 0..Len(received'), lines : 0..Len(handled')]
    <3>1. 0..Len(received) \subseteq 0..Len(received') /\ 0..Len(handled) \subseteq 0..Len(handled')
      BY <1>9
    <3> QED
      BY <1>2, <2>1, <3>1
  <2>6. TypeOK'
    BY <1>2, <1>3, <1>4, <1>5, <1>8, <1>9, <2>1, <2>5 DEF TypeOK, Bounded
  <2> QED
    BY <1>8, <2>1, <2>4, <2>6 DEF IInv, PoliteNeverWaits
<1>11. CASE ~r.listed
  <2>1. /\ parser' = NewParser
        /\ since' = [bytes |-> Len(received'), lines |-> Len(handled')]
    BY <1>4, <1>11
  <2>2. /\ parser' \in Parsers /\ Bounded(parser')
        /\ since' \in [bytes : 0..Len(received'), lines : 0..Len(handled')]
        /\ ParserIs(parser, From(received, since.bytes), From(handled, since.lines))'
        /\ parser'.queue = <<>>
    BY <1>3, <1>9, <2>1, NewNode
  <2>3. TypeOK'
    BY <1>2, <1>3, <1>4, <1>5, <1>9, <2>2 DEF TypeOK, Bounded
  <2> QED
    BY <2>2, <2>3 DEF IInv, PoliteNeverWaits
<1> QED
  BY <1>10, <1>11

LEMMA NextKeeps == IInv /\ [Next]_vars => IInv'
<1> SUFFICES ASSUME IInv, [Next]_vars PROVE IInv'
  OBVIOUS
<1>1. CASE Lost
  BY <1>1, LostKeeps
<1>2. CASE UNCHANGED vars
  <2>1. /\ UNCHANGED <<signed, parser, listed, logged, open, received, handled, since, polite>>
    BY <1>2 DEF vars
  <2>2. ParserIs(parser, From(received, since.bytes), From(handled, since.lines))'
    BY <2>1, SignedKept DEF IInv
  <2>3. TypeOK' /\ PoliteNeverWaits'
    BY <2>1 DEF IInv, TypeOK, PoliteNeverWaits
  <2> QED
    BY <2>2, <2>3 DEF IInv
<1>3. ASSUME NEW n \in 1..MaxSegment, NEW segment \in [1..n -> Bytes], Read(segment)
      PROVE  IInv'
  <2>1. n \in Nat
    BY StreamAssumption
  <2>2. segment \in Seq(Bytes)
    BY <2>1
  <2> QED
    BY <1>3, <2>2, ReadKeeps
<1> QED
  BY <1>1, <1>2, <1>3 DEF Next

-----------------------------------------------------------------------------
(* The theorems.                                                           *)

\* m_RecvBuffer is never overrun, no line is empty or longer than the limit, and
\* the variables have their types.
THEOREM TypeCorrect == Spec => []TypeOK
<1>1. IInv => TypeOK
  BY DEF IInv
<1> QED
  BY InitIs, NextKeeps, <1>1, PTL DEF Spec

\* However a stream is cut into reads, the lines that process_command was given
\* and those that wait are the lines of the stream, in its order, and the buffer
\* holds the line that has begun.
THEOREM StreamKept == Spec => []NothingLost
<1>1. IInv => NothingLost
  BY DEF IInv, NothingLost, ParserIs
<1> QED
  BY InitIs, NextKeeps, <1>1, PTL DEF Spec

\* A client whose reads complete no more than one command each, CR LF and empty
\* lines included, never has one wait for the next read.
THEOREM HandledAtOnce == Spec => []PoliteNeverWaits
<1>1. IInv => PoliteNeverWaits
  BY DEF IInv
<1> QED
  BY InitIs, NextKeeps, <1>1, PTL DEF Spec
=============================================================================

