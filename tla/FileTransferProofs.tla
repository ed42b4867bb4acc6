------------------------ MODULE FileTransferProofs ------------------------
(***************************************************************************)
(* Proofs about FileTransfer for every file to begin with and any number   *)
(* of connections and chunks.  Four invariants, of which the last needs    *)
(* the first:                                                              *)
(*   Shape     types; a running transfer has closed the acceptor, and a    *)
(*             download has no more to send than the file has;             *)
(*   Streamed  a protected transfer has a stream, or PROT has come;        *)
(*   Spent     a transfer has used up the client's offset;                 *)
(*   Underway  what has been moved and what is left make up the goal.      *)
(***************************************************************************)
EXTENDS FileTransfer, SequenceTheorems, TLAPS

Shape ==
  /\ TypeOK
  /\ busy => pc # "idle"
  /\ pc # "idle" => ~acceptor
  /\ pc = "move" /\ op = "RETR" => left <= Len(file)

Streamed ==
  /\ busy => pc # "idle"
  /\ pc # "idle" /\ level => stream # "none" \/ switched
  /\ NullStreamNeedsSwitch

Spent ==
  /\ pc # "idle" => rest = 0 /\ (offset # 0 => outlived)
  /\ OffsetKnown

\* The k chunks that connection c sends.
Chunks(c, k) == [i \in 1..k |-> c]

\* What is still to be read from the file.
Unsent(k) == SubSeq(file, Len(file) - k + 1, Len(file))

\* While bytes are moved, both sides speak the same.
Agreed ==
  pc \in {"open", "move"} =>
    level = private /\ (level => stream = "live" /\ keyed = conn)

Uploading ==
  op \in Uploads =>
    /\ pc = "open" => want = Opened \o Chunks(conn, left)
    /\ pc = "move" => want = file \o Chunks(conn, left)

Downloading ==
  op = "RETR" =>
    /\ pc = "open" => got = <<>> /\ want = SubSeq(file, offset + 1, Len(file))
    /\ pc = "move" => want = got \o Unsent(left)

Moved ==
  pc \in {"shut", "close", "end"} /\ len = "zero" =>
    /\ op \in Uploads => file = want
    /\ op = "RETR" => got = want

Underway == sure /\ Keyed => Agreed /\ Uploading /\ Downloading /\ Moved

-----------------------------------------------------------------------------
(* The stream.                                                             *)

\* There is no thread at first.
LEMMA InitStreamed == Init => Streamed
BY DEF Init, Streamed, NullStreamNeedsSwitch

\* Every command keeps the stream of a running transfer, or is a PROT.
LEMMA CommandStreamed == Streamed /\ Command => Streamed'
<1> SUFFICES ASSUME Streamed, Command PROVE Streamed'
  OBVIOUS
<1> USE DEF Streamed, NullStreamNeedsSwitch, Steady, offsetVars, levelVars,
            streamVars, connVars, chanVars, threadVars, goalVars, flagVars
<1>1. CASE Auth
  BY <1>1 DEF Auth
<1>2. ASSUME NEW p \in BOOLEAN, Prot(p) PROVE Streamed'
  BY <1>2 DEF Prot
<1>3. ASSUME NEW m \in {"port", "pasv"}, Agree(m) PROVE Streamed'
  BY <1>3 DEF Agree
<1>4. CASE AgreeCrashes
  BY <1>4 DEF AgreeCrashes, Crash
<1>5. ASSUME NEW n \in 1..MaxChunks, Rest(n) PROVE Streamed'
  BY <1>5 DEF Rest
<1>6. CASE Resume
  BY <1>6 DEF Resume
<1>7. CASE ConnectFails
  BY <1>7 DEF ConnectFails, Refuse
<1>8. CASE ConnectedInVain
  BY <1>8 DEF ConnectedInVain, Refuse
<1>9. ASSUME NEW c \in Commands, NEW n \in 1..MaxChunks, Begin(c, n) PROVE Streamed'
  BY <1>9 DEF Begin, Connect, Handshake, NullStream
<1>10. CASE Abor
  BY <1>10 DEF Abor
<1>11. CASE AborCrashes
  BY <1>11 DEF AborCrashes, Crash, NullStream
<1> QED
  BY <1>1, <1>2, <1>3, <1>4, <1>5, <1>6, <1>7, <1>8, <1>9, <1>10, <1>11 DEF Command

\* A thread never loses the stream, and uses one it has not got only after PROT.
LEMMA ThreadStreamed == Streamed /\ Thread => Streamed'
<1> SUFFICES ASSUME Streamed, Thread PROVE Streamed'
  OBVIOUS
<1> USE DEF Streamed, NullStreamNeedsSwitch, At, Goto, ThreadSame, Stop, offsetVars,
            levelVars, streamVars, connVars, chanVars, threadVars, goalVars, flagVars
<1>1. CASE ThreadOpens
  BY <1>1 DEF ThreadOpens
<1>2. CASE CannotOpen
  BY <1>2 DEF CannotOpen
<1>3. CASE Receive
  BY <1>3 DEF Receive, Returns
<1>4. CASE EndOfData
  BY <1>4 DEF EndOfData
<1>5. CASE FlushFails
  BY <1>5 DEF FlushFails
<1>6. CASE Send
  BY <1>6 DEF Send
<1>7. CASE AllSent
  BY <1>7 DEF AllSent
<1>8. CASE MoveFails
  BY <1>8 DEF MoveFails
<1>9. CASE ThreadShuts
  BY <1>9 DEF ThreadShuts
<1>10. CASE ThreadCloses
  BY <1>10 DEF ThreadCloses
<1>11. CASE ThreadCrashes
  BY <1>11 DEF ThreadCrashes, Crash, NullStream
<1>12. CASE ThreadEnds
  BY <1>12 DEF ThreadEnds
<1>13. CASE AbandonedEnd
  BY <1>13 DEF AbandonedEnd
<1> QED
  BY <1>1, <1>2, <1>3, <1>4, <1>5, <1>6, <1>7, <1>8, <1>9, <1>10, <1>11, <1>12, <1>13 DEF Thread

\* Nothing changes, nothing is lost.
LEMMA StutterStreamed == Streamed /\ UNCHANGED vars => Streamed'
BY DEF Streamed, NullStreamNeedsSwitch, vars, levelVars, streamVars, threadVars, flagVars

\* Whatever the client sends, a transfer's thread and ABOR use ssl_socket_ with
\* no stream in it only after a PROT that came in the middle of a transfer:
\* open_data_connection has made the stream a protected transfer needs.
THEOREM StreamAlwaysThere == Spec => []NullStreamNeedsSwitch
<1>1. Init => Streamed
  BY InitStreamed
<1>2. Streamed /\ [Next]_vars => Streamed'
  BY CommandStreamed, ThreadStreamed, StutterStreamed DEF Next
<1>3. Streamed => NullStreamNeedsSwitch
  BY DEF Streamed
<1> QED
  BY <1>1, <1>2, <1>3, PTL DEF Spec

-----------------------------------------------------------------------------
(* The offset.                                                             *)

\* No offset is in force at first.
LEMMA InitSpent == Init => Spent
BY DEF Init, Spent, OffsetKnown

\* REST and SIZE set both offsets; a refusal and a transfer use up the client's.
LEMMA CommandSpent == Spent /\ Command => Spent'
<1> SUFFICES ASSUME Spent, Command PROVE Spent'
  OBVIOUS
<1> USE DEF Spent, OffsetKnown, Steady, offsetVars, levelVars,
            streamVars, connVars, chanVars, threadVars, goalVars, flagVars
<1>1. CASE Auth
  BY <1>1 DEF Auth
<1>2. ASSUME NEW p \in BOOLEAN, Prot(p) PROVE Spent'
  BY <1>2 DEF Prot
<1>3. ASSUME NEW m \in {"port", "pasv"}, Agree(m) PROVE Spent'
  BY <1>3 DEF Agree
<1>4. CASE AgreeCrashes
  BY <1>4 DEF AgreeCrashes, Crash
<1>5. ASSUME NEW n \in 1..MaxChunks, Rest(n) PROVE Spent'
  BY <1>5 DEF Rest
<1>6. CASE Resume
  BY <1>6 DEF Resume
<1>7. CASE ConnectFails
  BY <1>7 DEF ConnectFails, Refuse
<1>8. CASE ConnectedInVain
  BY <1>8 DEF ConnectedInVain, Refuse
<1>9. ASSUME NEW c \in Commands, NEW n \in 1..MaxChunks, Begin(c, n) PROVE Spent'
  BY <1>9 DEF Begin
<1>10. CASE Abor
  BY <1>10 DEF Abor
<1>11. CASE AborCrashes
  BY <1>11 DEF AborCrashes, Crash
<1> QED
  BY <1>1, <1>2, <1>3, <1>4, <1>5, <1>6, <1>7, <1>8, <1>9, <1>10, <1>11 DEF Command

\* A thread that ends clears the offset, or has been list_thread.
LEMMA ThreadSpent == Spent /\ Thread => Spent'
<1> SUFFICES ASSUME Spent, Thread PROVE Spent'
  OBVIOUS
<1> USE DEF Spent, OffsetKnown, At, Goto, ThreadSame, Stop, offsetVars,
            levelVars, streamVars, connVars, chanVars, threadVars, goalVars, flagVars
<1>1. CASE ThreadOpens
  BY <1>1 DEF ThreadOpens
<1>2. CASE CannotOpen
  BY <1>2 DEF CannotOpen
<1>3. CASE Receive
  BY <1>3 DEF Receive, Returns
<1>4. CASE EndOfData
  BY <1>4 DEF EndOfData
<1>5. CASE FlushFails
  BY <1>5 DEF FlushFails
<1>6. CASE Send
  BY <1>6 DEF Send
<1>7. CASE AllSent
  BY <1>7 DEF AllSent
<1>8. CASE MoveFails
  BY <1>8 DEF MoveFails
<1>9. CASE ThreadShuts
  BY <1>9 DEF ThreadShuts
<1>10. CASE ThreadCloses
  BY <1>10 DEF ThreadCloses
<1>11. CASE ThreadCrashes
  BY <1>11 DEF ThreadCrashes, Crash
<1>12. CASE ThreadEnds
  BY <1>12 DEF ThreadEnds, Cleared
<1>13. CASE AbandonedEnd
  BY <1>13 DEF AbandonedEnd
<1> QED
  BY <1>1, <1>2, <1>3, <1>4, <1>5, <1>6, <1>7, <1>8, <1>9, <1>10, <1>11, <1>12, <1>13 DEF Thread

\* Nothing changes, nothing is forgotten.
LEMMA StutterSpent == Spent /\ UNCHANGED vars => Spent'
BY DEF Spent, OffsetKnown, vars, offsetVars, threadVars

\* Between transfers the server's restart offset is the client's, but after a
\* listing or a refusal: retrieve_thread and store_thread always clear it.
THEOREM OffsetsAgree == Spec => []OffsetKnown
<1>1. Init => Spent
  BY InitSpent
<1>2. Spent /\ [Next]_vars => Spent'
  BY CommandSpent, ThreadSpent, StutterSpent DEF Next
<1>3. Spent => OffsetKnown
  BY DEF Spent
<1> QED
  BY <1>1, <1>2, <1>3, PTL DEF Spec

-----------------------------------------------------------------------------
(* Types.                                                                  *)

\* Chunks are numbers.
LEMMA ChunksType ==
  ASSUME NEW c \in Nat, NEW k \in Nat
  PROVE  Chunks(c, k) \in Seq(Nat) /\ Len(Chunks(c, k)) = k
BY DEF Chunks

\* A part of a sequence of numbers is one.
LEMMA PartType ==
  ASSUME NEW s \in Seq(Nat), NEW m \in Nat \ {0}, NEW n \in Int, n <= Len(s)
  PROVE  SubSeq(s, m, n) \in Seq(Nat)
<1>1. \A i \in m..n : s[i] \in Nat
  BY LenProperties, ElementOfSeq
<1> QED
  BY <1>1, SubSeqProperties

\* What a command aims at is a sequence of numbers.
LEMMA GoalType ==
  ASSUME Shape, NEW c \in Commands, NEW n \in Nat, conn' \in Nat
  PROVE  Goal(c, n) \in Seq(Nat)
<1>1. file \in Seq(Nat) /\ rest \in Nat /\ Len(file) \in Nat
  BY LenProperties DEF Shape, TypeOK
<1>2. Sent(n) \in Seq(Nat)
  BY ChunksType DEF Sent, Chunks
<1>3. Before \in Seq(Nat)
  BY <1>1, PartType DEF Before
<1>4. SubSeq(file, rest + 1, Len(file)) \in Seq(Nat)
  BY <1>1, PartType
<1>5. Before \o Sent(n) \in Seq(Nat) /\ file \o Sent(n) \in Seq(Nat)
  BY <1>1, <1>2, <1>3, ConcatProperties
<1> QED
  BY <1>4, <1>5 DEF Goal

\* The first state is well formed.
LEMMA InitShape == Init => Shape
<1> SUFFICES ASSUME Init PROVE Shape
  OBVIOUS
<1>1. file \in Seq(Nat) /\ want \in Seq(Nat) /\ got \in Seq(Nat)
  BY TransferAssumption, EmptySeq DEF Init
<1>2. conn \in 0..MaxConns /\ keyed \in 0..conn
  BY TransferAssumption DEF Init
<1>3. {control, level, acceptor, busy, private, crashed, sure, outlived, switched}
        \subseteq BOOLEAN
  BY DEF Init
<1> QED
  BY <1>1, <1>2, <1>3 DEF Init, Shape, TypeOK, Commands, Uploads

\* Commands keep the types.
LEMMA CommandShape == Shape /\ Command => Shape'
<1> SUFFICES ASSUME Shape, Command PROVE Shape'
  OBVIOUS
<1> USE TransferAssumption DEF Shape, TypeOK, Steady, offsetVars, levelVars,
            streamVars, connVars, chanVars, threadVars, goalVars, flagVars
<1>1. CASE Auth
  BY <1>1 DEF Auth
<1>2. ASSUME NEW p \in BOOLEAN, Prot(p) PROVE Shape'
  BY <1>2 DEF Prot
<1>3. ASSUME NEW m \in {"port", "pasv"}, Agree(m) PROVE Shape'
  BY <1>3 DEF Agree
<1>4. CASE AgreeCrashes
  BY <1>4 DEF AgreeCrashes, Crash
<1>5. ASSUME NEW n \in 1..MaxChunks, Rest(n) PROVE Shape'
  <2>1. n \in Nat
    OBVIOUS
  <2> QED
    BY <1>5, <2>1 DEF Rest
<1>6. CASE Resume
  BY <1>6, LenProperties DEF Resume
<1>7. CASE ConnectFails
  BY <1>7 DEF ConnectFails, Refuse
<1>8. CASE ConnectedInVain
  <2>1. conn' \in 1..MaxConns /\ conn <= conn'
    BY <1>8 DEF ConnectedInVain, Connect, CanConnect
  <2>2. /\ keyed' \in 0..conn' /\ (stream' # "none" => keyed' > 0)
        /\ stream' \in {"none", "live", "failed", "spent"}
    BY <1>8, <2>1 DEF ConnectedInVain, Handshake
  <2>3. {control, level, acceptor, busy, private, crashed, sure, outlived, switched}'
          \subseteq BOOLEAN
    BY <1>8 DEF ConnectedInVain, Connect, Refuse
  <2>4. UNCHANGED <<file, offset, mode, pc, op, len, left, want, got>>
    BY <1>8 DEF ConnectedInVain, Refuse
  <2>5. rest' = 0 /\ sock' = "connected" /\ acceptor' = FALSE /\ busy' = busy
    BY <1>8 DEF ConnectedInVain, Refuse, Connect
  <2> QED
    BY <2>1, <2>2, <2>3, <2>4, <2>5
<1>9. ASSUME NEW c \in Commands, NEW n \in 1..MaxChunks, Begin(c, n) PROVE Shape'
  <2>1. conn' \in 1..MaxConns /\ n \in Nat
    BY <1>9 DEF Begin, Connect, CanConnect
  <2>2. want' \in Seq(Nat) /\ got' \in Seq(Nat)
    BY <1>9, <2>1, GoalType, EmptySeq DEF Begin
  <2>3. offset' \in Nat
    BY <1>9, LenProperties DEF Begin, StartAt
  <2>4. sure' \in BOOLEAN /\ outlived' \in BOOLEAN
    BY <1>9 DEF Begin, Exact
  <2>5. /\ keyed' \in 0..conn' /\ (stream' # "none" => keyed' > 0)
        /\ stream' \in {"none", "live", "failed", "spent"}
    BY <1>9, <2>1 DEF Begin, Connect, Handshake
  <2>6. {control, level, acceptor, busy, private, crashed, sure, outlived, switched}'
          \subseteq BOOLEAN
    BY <1>9, <2>4 DEF Begin, Connect
  <2>7. c # "none"
    BY DEF Commands, Uploads
  <2>8. rest' = 0 /\ sock' = "connected" /\ acceptor' = FALSE
    BY <1>9 DEF Begin, Connect
  <2>9. UNCHANGED <<file, mode>> /\ pc' = "open" /\ op' = c /\ len' = "going" /\ left' = n
    BY <1>9 DEF Begin
  <2> QED
    BY <2>1, <2>2, <2>3, <2>5, <2>6, <2>7, <2>8, <2>9
<1>10. CASE Abor
  BY <1>10 DEF Abor
<1>11. CASE AborCrashes
  BY <1>11 DEF AborCrashes, Crash
<1> QED
  BY <1>1, <1>2, <1>3, <1>4, <1>5, <1>6, <1>7, <1>8, <1>9, <1>10, <1>11 DEF Command

\* Threads keep the types.
LEMMA ThreadShape == Shape /\ Thread => Shape'
<1> SUFFICES ASSUME Shape, Thread PROVE Shape'
  OBVIOUS
<1> USE DEF Shape, TypeOK, At, Goto, ThreadSame, Stop, offsetVars,
            levelVars, streamVars, connVars, chanVars, threadVars, goalVars, flagVars
<1>0. Len(file) \in Nat
  BY LenProperties
<1>1. CASE ThreadOpens
  BY <1>0, <1>1, EmptySeq DEF ThreadOpens, Opened, ToRead, Uploads
<1>2. CASE CannotOpen
  BY <1>2 DEF CannotOpen
<1>3. CASE Receive
  BY <1>3, AppendProperties DEF Receive, Returns, Chunk, Junk, Uploads
<1>4. CASE EndOfData
  BY <1>4 DEF EndOfData
<1>5. CASE FlushFails
  <2>1. Front(file) \in Seq(Nat)
    BY <1>0, PartType DEF Front
  <2> QED
    BY <1>5, <2>1 DEF FlushFails, Uploads
<1>6. CASE Send
  <2>1. ASSUME op = "RETR" PROVE file[Len(file) - left + 1] \in Nat
    <3> DEFINE m == Len(file) - left + 1
    <3>1. left \in 1 .. Len(file)
      BY <1>0, <1>6, <2>1 DEF Send
    <3>2. m \in 1 .. Len(file)
      BY <1>0, <3>1
    <3>3. file \in Seq(Nat)
      OBVIOUS
    <3> HIDE DEF m
    <3>4. file[m] \in Nat
      BY <3>2, <3>3, ElementOfSeq
    <3> QED
      BY <3>4 DEF m
  <2>2. got' \in Seq(Nat)
    BY <1>6, <2>1, AppendProperties DEF Send, Junk
  <2> QED
    BY <1>0, <1>6, <2>2 DEF Send, Returns
<1>7. CASE AllSent
  BY <1>7 DEF AllSent
<1>8. CASE MoveFails
  BY <1>8 DEF MoveFails, FailedLen
<1>9. CASE ThreadShuts
  BY <1>9 DEF ThreadShuts
<1>10. CASE ThreadCloses
  BY <1>10 DEF ThreadCloses
<1>11. CASE ThreadCrashes
  BY <1>11 DEF ThreadCrashes, Crash
<1>12. CASE ThreadEnds
  BY <1>12, EmptySeq DEF ThreadEnds, Cleared
<1>13. CASE AbandonedEnd
  BY <1>13 DEF AbandonedEnd
<1> QED
  BY <1>1, <1>2, <1>3, <1>4, <1>5, <1>6, <1>7, <1>8, <1>9, <1>10, <1>11, <1>12, <1>13 DEF Thread

\* Nothing changes.
LEMMA StutterShape == Shape /\ UNCHANGED vars => Shape'
BY DEF Shape, TypeOK, vars, offsetVars, levelVars, streamVars, connVars, chanVars,
       threadVars, goalVars, flagVars

\* Every variable of a transfer has its type, for any number of connections: the
\* acceptor belongs to a PASV, a stream to a connection that was made, and the
\* chunks the client gets to the file.
THEOREM TransferTypes == Spec => []TypeOK
<1>1. Init => Shape
  BY InitShape
<1>2. Shape /\ [Next]_vars => Shape'
  BY CommandShape, ThreadShape, StutterShape DEF Next
<1>3. Shape => TypeOK
  BY DEF Shape
<1> QED
  BY <1>1, <1>2, <1>3, PTL DEF Spec

-----------------------------------------------------------------------------
(* Whole files.                                                            *)

\* The first of k chunks, and the others.
LEMMA ChunksFirst ==
  ASSUME NEW c \in Nat, NEW k \in Nat \ {0}
  PROVE  Chunks(c, k) = <<c>> \o Chunks(c, k - 1)
<1>1. Chunks(c, k) \in Seq(Nat) /\ Len(Chunks(c, k)) = k
  BY ChunksType
<1>2. Chunks(c, k - 1) \in Seq(Nat) /\ Len(Chunks(c, k - 1)) = k - 1
  BY ChunksType
<1>3. <<c>> \in Seq(Nat) /\ Len(<<c>>) = 1 /\ <<c>>[1] = c
  OBVIOUS
<1> DEFINE t == <<c>> \o Chunks(c, k - 1)
<1>4. /\ t \in Seq(Nat) /\ Len(t) = k
      /\ \A i \in 1..k : t[i] = IF i <= 1 THEN <<c>>[i] ELSE Chunks(c, k - 1)[i - 1]
  BY <1>2, <1>3, ConcatProperties
<1>5. \A i \in 1..k : Chunks(c, k)[i] = t[i]
  <2> SUFFICES ASSUME NEW i \in 1..k PROVE Chunks(c, k)[i] = t[i]
    OBVIOUS
  <2>1. Chunks(c, k)[i] = c
    BY DEF Chunks
  <2>2. i > 1 => Chunks(c, k - 1)[i - 1] = c
    BY DEF Chunks
  <2> HIDE DEF t
  <2> QED
    BY <1>3, <1>4, <2>1, <2>2
<1> HIDE DEF t
<1>6. Chunks(c, k) = t
  BY <1>1, <1>4, <1>5, SeqEqual
<1> QED
  BY <1>6 DEF t

\* What was moved, the next chunk and the others may be grouped either way.
LEMMA Regroup ==
  ASSUME NEW S
  PROVE  \A a, b, c \in Seq(S) : (a \o b) \o c = a \o (b \o c)
BY ConcatAssociative

\* No chunks.
LEMMA ChunksNone == ASSUME NEW c \in Nat PROVE Chunks(c, 0) = <<>>
BY ChunksType, EmptySeq

\* A 226 can only be wrong in a transfer that has begun.
LEMMA InitUnderway == Init => Underway
BY DEF Init, Underway, Agreed, Uploading, Downloading, Moved, Uploads

\* A transfer on its stream's connection begins with both sides speaking the same: a
\* protected one has just been handshaken, as no earlier connection bears its number.
LEMMA BeginAgreed ==
  ASSUME Shape, NEW c \in Commands, NEW n \in 1..MaxChunks, Begin(c, n), Keyed'
  PROVE  Agreed'
<1>1. level' = level /\ private' = level /\ conn' = conn + 1
  BY DEF Begin, Connect, levelVars
<1>2. ASSUME level PROVE stream' = "live" /\ keyed' = conn'
  <2>1. keyed' = conn'
    BY <1>1, <1>2 DEF Keyed
  <2>2. keyed \in 0..conn /\ conn \in Nat
    BY TransferAssumption DEF Shape, TypeOK
  <2>3. keyed # conn'
    BY <1>1, <2>2
  <2>4. stream' \in {"live", "failed"}
    BY <2>1, <2>3 DEF Begin, Handshake, streamVars
  <2>5. stream' # "failed"
    BY <1>2 DEF Begin, Broken
  <2> QED
    BY <2>1, <2>4, <2>5
<1> QED
  BY <1>1, <1>2 DEF Agreed

\* An exact upload begins with the part of the file it keeps.
LEMMA BeginUploading ==
  ASSUME Shape, NEW c \in Uploads, NEW n \in 1..MaxChunks, Begin(c, n), sure'
  PROVE  want' = Opened' \o Chunks(conn', n)
<1>1. file \in Seq(Nat) /\ Len(file) \in Nat /\ offset \in Nat
  BY LenProperties DEF Shape, TypeOK
<1>2. Sent(n) = Chunks(conn', n)
  BY DEF Sent, Chunks
<1>3. Opened' = IF offset' = 0 THEN <<>> ELSE file
  BY DEF Begin, Opened
<1>4. Len(file) = 0 => file = <<>>
  BY <1>1, EmptySeq
<1>5. CASE c = "STOR"
  <2>1. offset' = rest /\ rest \in {0, Len(file)}
    BY <1>5 DEF Begin, Exact, StartAt
  <2>2. Before = IF rest = 0 THEN <<>> ELSE file
    <3>1. SubSeq(file, 1, 0) = <<>>
      BY SubSeqEmpty
    <3>2. SubSeq(file, 1, Len(file)) = file
      BY <1>1, SubSeqFull
    <3>3. rest <= Len(file)
      BY <1>1, <2>1
    <3>4. Before = SubSeq(file, 1, rest)
      BY <3>3 DEF Before
    <3>5. CASE rest = 0
      BY <3>1, <3>4, <3>5
    <3>6. CASE rest # 0
      <4>1. rest = Len(file)
        BY <2>1, <3>6
      <4> QED
        BY <3>2, <3>4, <3>6, <4>1
    <3> QED
      BY <3>5, <3>6
  <2>3. Opened' = Before
    BY <1>3, <2>1, <2>2
  <2>4. want' = Before \o Sent(n)
    BY <1>5 DEF Begin, Goal
  <2> QED
    BY <1>2, <2>3, <2>4
<1>6. CASE c = "APPE"
  <2>1. offset' = Len(file)
    BY <1>6 DEF Begin, StartAt
  <2>2. Opened' = file
    BY <1>3, <1>4, <2>1
  <2>3. want' = file \o Sent(n)
    BY <1>6 DEF Begin, Goal
  <2> QED
    BY <1>2, <2>2, <2>3
<1> QED
  BY <1>5, <1>6 DEF Uploads

\* An exact download begins where the client thinks it does.
LEMMA BeginDownloading ==
  ASSUME NEW n \in 1..MaxChunks, Begin("RETR", n), sure'
  PROVE  got' = <<>> /\ want' = SubSeq(file, offset + 1, Len(file))' 
<1>1. offset' = offset /\ offset = rest /\ file' = file
  BY DEF Begin, StartAt, Exact
<1>2. want' = SubSeq(file, rest + 1, Len(file)) /\ got' = <<>>
  BY DEF Begin, Goal
<1> QED
  BY <1>1, <1>2

\* Commands other than RETR, STOR, APPE and LIST touch no transfer that is sure.
LEMMA CommandUnderway == Shape /\ Underway /\ Command => Underway'
<1> SUFFICES ASSUME Shape, Underway, Command PROVE Underway'
  OBVIOUS
<1>0. pc' = "idle" => Underway'
  BY DEF Underway, Agreed, Uploading, Downloading, Moved
<1>1. ASSUME Steady, UNCHANGED threadVars PROVE Underway'
  BY <1>0, <1>1 DEF Steady, threadVars
<1> DEFINE Untouched == UNCHANGED <<file, offset, level, stream, keyed, conn, private,
                                    pc, op, len, left, want, got, sure>>
<1>2. ASSUME Untouched PROVE Underway'
  BY <1>2 DEF Underway, Keyed, Agreed, Uploading, Downloading, Moved, Opened, Unsent
<1> HIDE DEF Untouched
<1>3. CASE Auth
  BY <1>1, <1>3 DEF Auth
<1>4. ASSUME NEW p \in BOOLEAN, Prot(p) PROVE Underway'
  <2>1. CASE pc = "idle"
    BY <1>0, <1>4, <2>1 DEF Prot, threadVars
  <2>2. CASE pc # "idle"
    BY <1>4, <2>2 DEF Prot, Underway
  <2> QED
    BY <2>1, <2>2
<1>5. ASSUME NEW m \in {"port", "pasv"}, Agree(m) PROVE Underway'
  BY <1>1, <1>5 DEF Agree
<1>6. CASE AgreeCrashes
  BY <1>1, <1>6 DEF AgreeCrashes, Crash
<1>7. ASSUME NEW n \in 1..MaxChunks, Rest(n) PROVE Underway'
  BY <1>1, <1>7 DEF Rest
<1>8. CASE Resume
  BY <1>1, <1>8 DEF Resume
<1>9. CASE ConnectFails
  BY <1>1, <1>9 DEF ConnectFails, Refuse
<1>10. CASE ConnectedInVain
  BY <1>1, <1>10 DEF ConnectedInVain, Refuse
<1>11. ASSUME NEW c \in Commands, NEW n \in 1..MaxChunks, Begin(c, n) PROVE Underway'
  <2> SUFFICES ASSUME sure', Keyed' PROVE (Agreed /\ Uploading /\ Downloading /\ Moved)'
    BY DEF Underway
  <2>1. pc' = "open" /\ op' = c /\ left' = n
    BY <1>11 DEF Begin
  <2>2. Agreed'
    BY <1>11, BeginAgreed
  <2>3. Uploading'
    BY <1>11, <2>1, BeginUploading DEF Uploading
  <2>4. Downloading'
    BY <1>11, <2>1, BeginDownloading DEF Downloading
  <2>5. Moved'
    BY <2>1 DEF Moved
  <2> QED
    BY <2>2, <2>3, <2>4, <2>5
<1>12. CASE Abor
  BY <1>2, <1>12 DEF Abor, Untouched, offsetVars, levelVars, streamVars, connVars,
                     threadVars, goalVars
<1>13. CASE AborCrashes
  BY <1>2, <1>13 DEF AborCrashes, Crash, Untouched, offsetVars, levelVars, streamVars,
                     connVars, threadVars, goalVars
<1> QED
  BY <1>3, <1>4, <1>5, <1>6, <1>7, <1>8, <1>9, <1>10, <1>11, <1>12, <1>13 DEF Command

\* The file is opened at the offset: what is left makes up the goal.
LEMMA OpensUnderway == Shape /\ Underway /\ ThreadOpens => Underway'
<1> SUFFICES ASSUME Shape, Underway, ThreadOpens, sure, Keyed
             PROVE  (Agreed /\ Uploading /\ Downloading /\ Moved)'
  BY DEF Underway, Keyed, ThreadOpens, ThreadSame, goalVars, levelVars, streamVars, connVars
<1>1. pc = "open" /\ pc' = "move" /\ op' = op
  BY DEF ThreadOpens, At, Goto
<1>2. Agreed'
  BY <1>1 DEF Underway, Agreed, ThreadOpens, ThreadSame, levelVars, streamVars, connVars
<1>3. Uploading'
  BY <1>1 DEF Underway, Uploading, ThreadOpens, ThreadSame, connVars, goalVars, Uploads
<1>4. ASSUME op = "RETR" PROVE want' = got' \o Unsent(left)'
  <2>1. file \in Seq(Nat) /\ Len(file) \in Nat /\ offset \in Nat
    BY LenProperties DEF Shape, TypeOK
  <2>2. file' = file /\ left' = ToRead /\ want' = want /\ got' = got
    BY <1>1, <1>4 DEF ThreadOpens, Opened, Uploads, goalVars
  <2>3. got = <<>> /\ want = SubSeq(file, offset + 1, Len(file))
    BY <1>1, <1>4 DEF Underway, Downloading
  <2>4. SubSeq(file, Len(file) - ToRead + 1, Len(file)) = want
    <3>1. CASE offset < Len(file)
      <4>1. Len(file) - ToRead + 1 = offset + 1
        BY <2>1, <3>1 DEF ToRead
      <4> QED
        BY <2>3, <4>1
    <3>2. CASE ~(offset < Len(file))
      <4>1. Len(file) - ToRead + 1 > Len(file) /\ offset + 1 > Len(file)
        BY <2>1, <3>2 DEF ToRead
      <4>2. Len(file) - ToRead + 1 \in Int
        BY <2>1, <3>2 DEF ToRead
      <4> QED
        BY <2>1, <2>3, <4>1, <4>2, SubSeqEmpty
    <3> QED
      BY <3>1, <3>2
  <2>5. <<>> \o want = want
    BY ConcatEmptySeq DEF Shape, TypeOK
  <2> QED
    BY <2>2, <2>3, <2>4, <2>5 DEF Unsent
<1>5. Downloading'
  BY <1>1, <1>4 DEF Downloading
<1>6. Moved'
  BY <1>1 DEF Moved
<1> QED
  BY <1>2, <1>3, <1>5, <1>6

\* In a transfer that is sure nothing goes over that cannot be read.
LEMMA NeverGarbled ==
  ASSUME Underway, sure, Keyed, pc = "move", Through \/ Garbled
  PROVE  Through
BY DEF Underway, Agreed, Through, Garbled

\* Regroup for one triple.
LEMMA RegroupOne ==
  ASSUME NEW a \in Seq(Nat), NEW b \in Seq(Nat), NEW c \in Seq(Nat)
  PROVE  a \o (b \o c) = (a \o b) \o c
<1>1. (a \o b) \o c = a \o (b \o c)
  BY ConcatAssociative
<1> QED
  BY <1>1

\* A sequence of one number.
LEMMA OneType == ASSUME NEW n \in Nat PROVE <<n>> \in Seq(Nat)
OBVIOUS

\* A chunk of an upload goes from what is left to the file.
LEMMA ReceiveUnderway == Shape /\ Underway /\ Receive => Underway'
<1> SUFFICES ASSUME Shape, Underway, Receive, sure, Keyed
             PROVE  (Agreed /\ Uploading /\ Downloading /\ Moved)'
  BY DEF Underway, Keyed, Receive, ThreadSame, goalVars, levelVars, streamVars, connVars
<1>1. pc = "move" /\ pc' = "move" /\ op' = op /\ op \in Uploads
  BY DEF Receive, At, Goto
<1>2. Agreed'
  BY <1>1 DEF Underway, Agreed, Receive, ThreadSame, levelVars, streamVars, connVars
<1>3. file \in Seq(Nat) /\ conn \in Nat /\ left \in Nat \ {0}
  BY TransferAssumption DEF Shape, TypeOK, Receive
<1>4. want' = want /\ conn' = conn /\ left' = left - 1
  BY DEF Receive, ThreadSame, goalVars, connVars
<1>5. file' = file \o <<conn>>
  <2>1. Through
    BY <1>1, NeverGarbled DEF Receive
  <2>2. file' = Append(file, conn)
    BY <2>1 DEF Receive, Chunk
  <2> QED
    BY <1>3, <2>2, AppendIsConcat
<1>6. want = file \o (<<conn>> \o Chunks(conn, left - 1))
  <2>1. Chunks(conn, left) = <<conn>> \o Chunks(conn, left - 1)
    BY <1>3, ChunksFirst
  <2>2. want = file \o Chunks(conn, left)
    BY <1>1 DEF Underway, Uploading
  <2> QED
    BY <2>1, <2>2
<1>7. want = (file \o <<conn>>) \o Chunks(conn, left - 1)
  <2>1. <<conn>> \in Seq(Nat)
    BY <1>3, OneType
  <2>2. Chunks(conn, left - 1) \in Seq(Nat)
    BY <1>3, ChunksType
  <2>3. file \in Seq(Nat)
    BY <1>3
  <2> DEFINE y == Chunks(conn, left - 1)
  <2> HIDE DEF y
  <2>4. file \o (<<conn>> \o y) = (file \o <<conn>>) \o y
    BY <2>1, <2>2, <2>3, RegroupOne DEF y
  <2>5. want = file \o (<<conn>> \o y)
    BY <1>6 DEF y
  <2>6. want = (file \o <<conn>>) \o y
    BY <2>4, <2>5
  <2> QED
    BY <2>6 DEF y
<1>8. Uploading'
  BY <1>1, <1>4, <1>5, <1>7 DEF Uploading
<1>9. Downloading' /\ Moved'
  BY <1>1 DEF Downloading, Moved, Uploads
<1> QED
  BY <1>2, <1>8, <1>9

\* A chunk of a download goes from what is left to the client.
LEMMA SendUnderway == Shape /\ Underway /\ Send => Underway'
<1> SUFFICES ASSUME Shape, Underway, Send, sure, Keyed
             PROVE  (Agreed /\ Uploading /\ Downloading /\ Moved)'
  BY DEF Underway, Keyed, Send, ThreadSame, levelVars, streamVars, connVars
<1>1. pc = "move" /\ pc' = "move" /\ op' = op /\ op \notin Uploads
  BY DEF Send, At, Goto
<1>2. Agreed'
  BY <1>1 DEF Underway, Agreed, Send, ThreadSame, levelVars, streamVars, connVars
<1>3. ASSUME op = "RETR" PROVE want' = got' \o Unsent(left)'
  <2>1. /\ file \in Seq(Nat) /\ Len(file) \in Nat /\ got \in Seq(Nat)
        /\ left \in 1..Len(file)
    BY <1>1, <1>3, LenProperties DEF Shape, TypeOK, Send
  <2> DEFINE m == Len(file) - left + 1
  <2>2. m \in 1..Len(file) /\ Len(file) \in m..Len(file) /\ m + 1 \in Nat \ {0}
    BY <2>1
  <2>3. file[m] \in Nat
    BY <2>1, <2>2, ElementOfSeq
  <2>4. got' = got \o <<file[m]>>
    <3>1. Through
      BY <1>1, NeverGarbled DEF Send
    <3>2. got' = Append(got, file[m])
      BY <1>3, <3>1 DEF Send
    <3> QED
      BY <2>1, <2>3, <3>2, AppendIsConcat
  <2>5. Unsent(left)' = SubSeq(file, m + 1, Len(file))
    <3>1. file' = file /\ left' = left - 1
      BY DEF Send
    <3>2. Len(file) - (left - 1) + 1 = m + 1
      BY <2>1
    <3> QED
      BY <3>1, <3>2 DEF Unsent
  <2>6. Unsent(left) = SubSeq(file, m, Len(file))
    BY DEF Unsent
  <2> HIDE DEF m
  <2>7. Unsent(left) = <<file[m]>> \o SubSeq(file, m + 1, Len(file))
    BY <2>1, <2>2, <2>6, SubSeqRecursiveFirst
  <2>8. want = got \o Unsent(left) /\ want' = want
    BY <1>1, <1>3 DEF Underway, Downloading, Send
  <2>9. SubSeq(file, m + 1, Len(file)) \in Seq(Nat) /\ <<file[m]>> \in Seq(Nat)
    BY <2>1, <2>2, <2>3, PartType
  <2>10. want = (got \o <<file[m]>>) \o SubSeq(file, m + 1, Len(file))
    <3>1. want = got \o (<<file[m]>> \o SubSeq(file, m + 1, Len(file)))
      BY <2>7, <2>8
    <3>2. got \in Seq(Nat)
      BY <2>1
    <3> DEFINE x == <<file[m]>>
               y == SubSeq(file, m + 1, Len(file))
    <3>3. x \in Seq(Nat) /\ y \in Seq(Nat) /\ want = got \o (x \o y)
      BY <2>9, <3>1
    <3> HIDE DEF x, y
    <3>4. want = (got \o x) \o y
      <4>1. (got \o x) \o y = got \o (x \o y)
        BY <3>2, <3>3, Regroup
      <4> QED
        BY <3>3, <4>1
    <3> QED
      BY <3>4 DEF x, y
  <2> QED
    BY <2>4, <2>5, <2>8, <2>10
<1>4. Uploading' /\ Downloading' /\ Moved'
  BY <1>1, <1>3 DEF Uploading, Downloading, Moved
<1> QED
  BY <1>2, <1>4

\* The loops end when nothing is left, or with an error.
LEMMA StopUnderway ==
  ASSUME Shape, Underway,
         CannotOpen \/ EndOfData \/ AbandonedEnd \/ FlushFails \/ AllSent \/ MoveFails
  PROVE  Underway'
<1>1. pc' = "shut" /\ op' = op
  BY DEF CannotOpen, EndOfData, AbandonedEnd, FlushFails, AllSent, MoveFails, Stop, Goto
<1>2. (Agreed /\ Uploading /\ Downloading)'
  BY <1>1 DEF Agreed, Uploading, Downloading
<1>3. ASSUME Moved' PROVE Underway'
  BY <1>2, <1>3 DEF Underway
<1>4. CASE CannotOpen
  BY <1>3, <1>4 DEF CannotOpen, Stop, Moved
\* The end of the data, when all has been sent.
<1>5. ASSUME pc = "move", op \in Uploads, left = 0, sure, Keyed, file' = file, want' = want
      PROVE  Moved'
  <2>1. want = file \o <<>>
    <3>1. conn \in Nat
      BY TransferAssumption DEF Shape, TypeOK
    <3> QED
      BY <1>5, <3>1, ChunksNone DEF Underway, Uploading
  <2>2. want = file
    BY <2>1, ConcatEmptySeq DEF Shape, TypeOK
  <2> QED
    BY <1>1, <1>5, <2>2 DEF Moved, Uploads
<1>6. CASE FlushFails
  BY <1>6 DEF FlushFails, Underway
<1>7. CASE AllSent
  <2> SUFFICES ASSUME sure, Keyed PROVE Moved'
    BY <1>2, <1>7 DEF Underway, Keyed, AllSent, Stop, ThreadSame, goalVars, levelVars, streamVars,
                      connVars
  <2>1. /\ pc = "move" /\ op \notin Uploads /\ left = 0
        /\ file' = file /\ want' = want /\ got' = got
    BY <1>7 DEF AllSent, At, goalVars
  <2>2. op = "RETR" => got = want
    <3> SUFFICES ASSUME op = "RETR" PROVE got = want
      OBVIOUS
    <3>1. Len(file) \in Nat /\ got \in Seq(Nat)
      BY LenProperties DEF Shape, TypeOK
    <3>2. Unsent(0) = <<>>
      <4>1. Len(file) - 0 + 1 = Len(file) + 1 /\ Len(file) < Len(file) + 1
        BY <3>1
      <4> QED
        BY <3>1, <4>1, SubSeqEmpty DEF Unsent
    <3>3. want = got \o <<>>
      BY <2>1, <3>2 DEF Underway, Downloading
    <3> QED
      BY <3>1, <3>3, ConcatEmptySeq
  <2> QED
    BY <1>1, <2>1, <2>2 DEF Moved
<1>8. CASE MoveFails
  BY <1>1, <1>3, <1>8 DEF MoveFails, Stop, FailedLen, Moved, Uploads
<1>9. CASE EndOfData
  <2> SUFFICES ASSUME sure, Keyed PROVE Moved'
    BY <1>2, <1>9 DEF Underway, Keyed, EndOfData, Stop, ThreadSame, goalVars, levelVars,
                      streamVars, connVars
  <2>1. pc = "move" /\ op \in Uploads /\ file' = file /\ want' = want
    BY <1>9 DEF EndOfData, At, goalVars
  <2>2. left = 0
    BY <1>9, <2>1 DEF EndOfData, Underway, Agreed
  <2> QED
    BY <1>5, <2>1, <2>2
<1>10. CASE AbandonedEnd
  <2>1. CASE left = 0
    <3> SUFFICES ASSUME sure, Keyed PROVE Moved'
      BY <1>2, <1>10 DEF Underway, Keyed, AbandonedEnd, Stop, ThreadSame, levelVars, streamVars,
                         connVars
    <3>1. pc = "move" /\ op \in Uploads /\ file' = file /\ want' = want
      BY <1>10 DEF AbandonedEnd, At
    <3> QED
      BY <1>5, <2>1, <3>1
  <2>2. CASE left # 0
    BY <1>10, <2>2 DEF AbandonedEnd, Underway
  <2> QED
    BY <2>1, <2>2
<1> QED
  BY <1>4, <1>6, <1>7, <1>8, <1>9, <1>10

\* After the loop nothing changes the file, or what the client got.
LEMMA AfterUnderway ==
  ASSUME Underway, ThreadShuts \/ ThreadCloses \/ ThreadCrashes \/ ThreadEnds
  PROVE  Underway'
<1>1. CASE ThreadShuts
  <2>1. pc = "shut" /\ pc' = "close"
        /\ UNCHANGED <<op, len, file, want, got, sure, level, keyed, conn>>
    BY <1>1 DEF ThreadShuts, ThreadSame, At, Goto, goalVars, levelVars, connVars
  <2> QED
    BY <2>1 DEF Underway, Keyed, Agreed, Uploading, Downloading, Moved
<1>2. CASE ThreadCloses
  <2>1. pc = "close" /\ pc' = "end"
        /\ UNCHANGED <<op, len, file, want, got, sure, level, keyed, conn>>
    BY <1>2 DEF ThreadCloses, ThreadSame, At, Goto, goalVars, levelVars, streamVars, connVars
  <2> QED
    BY <2>1 DEF Underway, Keyed, Agreed, Uploading, Downloading, Moved
<1>3. CASE ThreadCrashes
  <2>1. UNCHANGED <<file, offset, level, stream, keyed, conn, private,
                    pc, op, len, left, want, got, sure>>
    BY <1>3 DEF ThreadCrashes, Crash, offsetVars, levelVars, streamVars, connVars,
                threadVars, goalVars
  <2> QED
    BY <2>1 DEF Underway, Keyed, Agreed, Uploading, Downloading, Moved, Opened, Unsent
<1>4. CASE ThreadEnds
  BY <1>4 DEF ThreadEnds, Underway
<1> QED
  BY <1>1, <1>2, <1>3, <1>4

\* Nothing changes.
LEMMA StutterUnderway == Underway /\ UNCHANGED vars => Underway'
<1> SUFFICES ASSUME Underway, UNCHANGED vars PROVE Underway'
  OBVIOUS
<1>1. UNCHANGED <<file, offset, level, stream, keyed, conn, private,
                  pc, op, len, left, want, got, sure>>
  BY DEF vars, offsetVars, levelVars, streamVars, connVars, threadVars, goalVars
<1> QED
  BY <1>1 DEF Underway, Keyed, Agreed, Uploading, Downloading, Moved, Opened, Unsent

\* A 226 is true, for files and uploads of any length and any number of
\* connections: the file is what the client meant it to be, the client has what
\* it asked for, but for the excuses TransferredWhole lists.
THEOREM WholeFiles == Spec => []TransferredWhole
<1>1. Init => Shape /\ Underway
  BY InitShape, InitUnderway
<1>2. Shape /\ Underway /\ [Next]_vars => (Shape /\ Underway)'
  <2>1. Shape /\ Underway /\ Thread => Underway'
    BY OpensUnderway, ReceiveUnderway, SendUnderway, StopUnderway, AfterUnderway DEF Thread
  <2> QED
    BY <2>1, CommandShape, ThreadShape, StutterShape, CommandUnderway, StutterUnderway
    DEF Next
<1>3. Underway => TransferredWhole
  BY DEF Underway, Moved, Reported, TransferredWhole
<1> QED
  BY <1>1, <1>2, <1>3, PTL DEF Spec

=============================================================================
