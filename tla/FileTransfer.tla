---------------------------- MODULE FileTransfer ----------------------------
(***************************************************************************)
(* What a transfer does to the file and to the bytes, in the clear or      *)
(* under TLS: PORT, PASV, REST, SIZE, RETR, STOR, APPE, LIST, ABOR, AUTH,  *)
(* PROT, open_data_connection, read_data, send_data,                       *)
(* shut_down_data_socket, close_data_socket and the three transfer threads *)
(* of client_node.                                                         *)
(*                                                                         *)
(* One session and one file, in chunks.  The client sends its next command *)
(* when the last transfer's thread is through, but for ABOR and PROT; what *)
(* faster clients meet is TransferSession's.  Each side notices a lost     *)
(* connection as an error; a client closes it once it has sent all it has, *)
(* or after its ABOR.                                                      *)
(* In a build or a configuration without TLS no AUTH is answered and the   *)
(* control connection stays in the clear.                                  *)
(*                                                                         *)
(* ssl_socket_ is made for the first protected connection and never again. *)
(* OpenSSL, external, does nothing in a second handshake of a finished     *)
(* stream: reads then end or fail, and writes fail or reach nobody.        *)
(***************************************************************************)
EXTENDS Naturals, Sequences, SequencesExt

CONSTANTS
  FirstFiles,   \* contents the file may begin with
  MaxConns,     \* bound: data connections
  MaxChunks     \* bound: chunks of one upload, and offsets

ASSUME TransferAssumption ==
  /\ FirstFiles \subseteq Seq(Nat)
  /\ MaxConns \in Nat /\ MaxChunks \in Nat \ {0}

Uploads == {"STOR", "APPE"}
Commands == Uploads \cup {"RETR", "LIST"}
Junk == 0       \* a chunk nobody meant; others bear their connection's number

VARIABLES
  file,         \* the chunks in the file
  offset,       \* current_transfer_.restart_at_
  control,      \* the control connection is under TLS
  level,        \* data_use_ssl_
  stream,       \* ssl_socket_: none, live, failed or spent
  keyed,        \* the connection the stream was handshaken on
  sock,         \* data_socket_: null, closed, open, connected, or held: closed
                \* while a call of the thread still waits on the connection
  acceptor,     \* data_acceptor_ is listening
  mode,         \* cur_data_mode_
  busy,         \* cur_status_ is not status_waiting
  conn,         \* connections made
  private,      \* the client speaks TLS on this connection
  pc,           \* the thread: idle, open, move, shut, close or end
  op,           \* its command
  len,          \* its len: going, zero or error
  left,         \* chunks the client, or the file, has still to send
  crashed,      \* *ssl_socket_ was used with no stream
  rest,         \* history: the offset the client believes to be in force
  want,         \* history: what the file, or the client, should have in the end
  got,          \* history: what the client got
  sure,         \* history: nothing has happened that excuses a wrong 226
  outlived,     \* history: the offset is in force after the next command, too
  switched      \* history: a PROT has come during a transfer

offsetVars == <<offset, rest, outlived>>
levelVars == <<control, level>>
streamVars == <<stream, keyed>>
connVars == <<conn, private>>
chanVars == <<sock, acceptor, mode>>
threadVars == <<pc, op, len, left>>
goalVars == <<want, got, sure>>
flagVars == <<switched, crashed>>
vars == <<file, offsetVars, levelVars, streamVars, connVars, chanVars, busy,
          threadVars, goalVars, flagVars>>

-----------------------------------------------------------------------------
(* ssl_socket_.                                                            *)

NullStream == level /\ stream = "none"

Crash ==
  /\ NullStream
  /\ crashed' = TRUE
  /\ UNCHANGED <<file, offsetVars, levelVars, streamVars, connVars, chanVars, busy,
                 threadVars, goalVars, switched>>

Steady == pc = "idle" /\ ~crashed

-----------------------------------------------------------------------------
(* AUTH and PROT.                                                          *)

\* AUTH TLS, and the handshake of the control connection.
Auth ==
  /\ Steady /\ ~control
  /\ control' = TRUE
  /\ UNCHANGED <<file, offsetVars, level, streamVars, connVars, chanVars, busy,
                 threadVars, goalVars, flagVars>>

\* PROT C and PROT P look at nothing but the level and the control connection:
\* they come in the middle of a transfer, too.
Prot(p) ==
  /\ ~crashed
  /\ p # level /\ (p => control)
  /\ level' = p
  /\ sure' = (sure /\ pc = "idle")
  /\ switched' = (switched \/ pc # "idle")
  /\ UNCHANGED <<file, offsetVars, control, streamVars, connVars, chanVars, busy,
                 threadVars, want, got, crashed>>

-----------------------------------------------------------------------------
(* PORT, PASV and REST.                                                    *)

\* An earlier PORT or PASV is still in force, and has used data_socket_.
Earlier == mode # "none" /\ sock # "null"

\* The channel of the earlier PORT or PASV is closed.
Agree(m) ==
  /\ Steady
  /\ ~(Earlier /\ NullStream)
  /\ mode' = m /\ acceptor' = (m = "pasv")
  /\ sock' = IF Earlier \/ m = "port" THEN "closed" ELSE sock
  /\ UNCHANGED <<file, offsetVars, levelVars, streamVars, connVars, busy, threadVars,
                 goalVars, flagVars>>

AgreeCrashes == Steady /\ Earlier /\ Crash

Rest(n) ==
  /\ Steady
  /\ offset' = n /\ rest' = n /\ outlived' = FALSE
  /\ UNCHANGED <<file, levelVars, streamVars, connVars, chanVars, busy, threadVars,
                 goalVars, flagVars>>

\* SIZE, and the REST of a client that goes on where the file ends.
Resume ==
  /\ Steady /\ file # <<>>
  /\ offset' = Len(file) /\ rest' = Len(file) /\ outlived' = FALSE
  /\ UNCHANGED <<file, levelVars, streamVars, connVars, chanVars, busy, threadVars,
                 goalVars, flagVars>>

-----------------------------------------------------------------------------
(* open_data_connection, and the commands that need it.                    *)

CanConnect ==
  /\ mode # "none" /\ sock \in {"null", "closed"}
  /\ mode = "pasv" => acceptor
  /\ conn < MaxConns

\* 425 or 550: the mode, the offset and perhaps the connection stay.
Refuse ==
  /\ rest' = 0 /\ outlived' = (offset # 0)
  /\ UNCHANGED <<file, offset, levelVars, mode, busy, threadVars, goalVars, switched,
                 crashed>>

\* No channel is agreed upon, nobody comes, the client's port is closed, or the
\* channel was used up by a command that was refused.
ConnectFails ==
  /\ Steady
  /\ sock' = CASE mode = "port" /\ sock \in {"null", "closed"} -> "open"
               [] mode = "pasv" /\ sock = "null" -> "closed"
               [] OTHER -> sock
  /\ acceptor' = FALSE
  /\ UNCHANGED <<streamVars, connVars>>
  /\ Refuse

(* Mutant of Connect: the acceptor is not closed.                          *)
ConnectKeepsListening ==
  /\ CanConnect
  /\ sock' = "connected" /\ acceptor' = acceptor
  /\ conn' = conn + 1 /\ private' = level

Connect ==
  /\ CanConnect
  /\ sock' = "connected" /\ acceptor' = FALSE
  /\ conn' = conn + 1 /\ private' = level

(* Mutant of Handshake: no stream is made.                                 *)
HandshakeForgotten == UNCHANGED streamVars

\* A new stream is handshaken; an old one has nothing to do, or is broken.
Handshake ==
  IF NullStream THEN stream' \in {"live", "failed"} /\ keyed' = conn'
  ELSE UNCHANGED streamVars

Broken == level /\ stream' = "failed"

\* The handshake fails, or RETR does not find its file.
ConnectedInVain ==
  /\ Steady
  /\ Connect /\ Handshake
  /\ Refuse

\* REST n before STOR is exact when it continues the file; store_thread appends
\* whatever n is.
Exact(c) ==
  /\ c # "APPE" => offset = rest
  /\ c = "STOR" => rest \in {0, Len(file)}

Sent(n) == [i \in 1..n |-> conn']

\* What the offset keeps; past the end nothing is added.
Before == IF rest <= Len(file) THEN SubSeq(file, 1, rest) ELSE file

Goal(c, n) ==
  CASE c = "STOR" -> Before \o Sent(n)
    [] c = "APPE" -> file \o Sent(n)
    [] OTHER -> SubSeq(file, rest + 1, Len(file))

\* APPE overwrites the offset with the file's size.
StartAt(c) == IF c = "APPE" THEN Len(file) ELSE offset

\* The 150, and a thread for the transfer; n is what the client has to send.
Begin(c, n) ==
  /\ Steady
  /\ c \notin Uploads => n = 1
  /\ Connect /\ Handshake /\ ~Broken
  /\ offset' = StartAt(c)
  /\ rest' = 0 /\ outlived' = (offset' # 0)
  /\ want' = Goal(c, n) /\ got' = <<>> /\ sure' = Exact(c)
  /\ pc' = "open" /\ op' = c /\ len' = "going" /\ left' = n
  /\ busy' = TRUE
  /\ UNCHANGED <<file, levelVars, mode, flagVars>>

-----------------------------------------------------------------------------
(* The threads.                                                            *)

At(p) == pc = p /\ ~crashed

Goto(p) == pc' = p /\ op' = op

\* len stays; the connection, the level and the offsets do.
ThreadSame == UNCHANGED <<offsetVars, levelVars, connVars, acceptor, flagVars>>

(* Mutant of Opened: a resumed upload empties the file, too.               *)
OpenedAfresh == IF op \in Uploads THEN <<>> ELSE file

\* "app" with an offset, "trunc" without one.
Opened == IF op \in Uploads /\ offset = 0 THEN <<>> ELSE file

\* What is to be read from the offset on; nothing beyond the end.
ToRead == IF offset < Len(file) THEN Len(file) - offset ELSE 0

ThreadOpens ==
  /\ At("open") /\ Goto("move")
  /\ file' = Opened
  /\ left' = IF op = "RETR" THEN ToRead ELSE left
  /\ UNCHANGED <<len, streamVars, sock, mode, busy, goalVars>>
  /\ ThreadSame

\* The thread stops with e.
Stop(e) ==
  /\ Goto("shut") /\ len' = e
  /\ UNCHANGED <<left, streamVars, sock, mode, busy>>
  /\ ThreadSame

CannotOpen ==
  /\ At("open") /\ op # "LIST"
  /\ Stop("error")
  /\ UNCHANGED <<file, goalVars>>

Linked == sock \in {"connected", "held"}

\* Both sides speak the same on this connection.
Through ==
  /\ Linked /\ level = private
  /\ level => stream = "live" /\ keyed = conn

\* Bytes go over in a form the other side cannot read: in the clear to a client
\* that speaks TLS, or under the keys of an earlier connection.
Garbled ==
  /\ Linked /\ ~Through
  /\ level => stream = "live"

Chunk == IF Through THEN conn ELSE Junk

\* A call that ABOR did not wake was the last that finds a connection.
Returns == sock' = IF sock = "held" THEN "closed" ELSE sock

\* One round of store_thread's loop.
Receive ==
  /\ At("move") /\ op \in Uploads /\ left > 0
  /\ Through \/ (Garbled /\ ~level)
  /\ file' = Append(file, Chunk)
  /\ left' = left - 1
  /\ Goto("move") /\ Returns
  /\ UNCHANGED <<len, streamVars, mode, busy, goalVars>>
  /\ ThreadSame

\* read_data returns 0; a spent stream ends at once.
EndOfData ==
  /\ At("move") /\ op \in Uploads
  /\ \/ sock = "connected" /\ left = 0 /\ ~NullStream
     \/ Linked /\ level /\ stream = "spent"
  /\ Stop("zero")
  /\ UNCHANGED <<file, goalVars>>

\* A read that ABOR did not wake sees the client close: the end of the data, too.
AbandonedEnd ==
  /\ At("move") /\ op \in Uploads /\ sock = "held" /\ ~NullStream
  /\ sure' = (sure /\ left = 0)
  /\ Stop("zero")
  /\ UNCHANGED <<file, want, got>>

\* The disk is full when close writes the last chunk: nobody looks.
FlushFails ==
  /\ At("move") /\ op \in Uploads /\ left = 0 /\ Through /\ file # <<>>
  /\ file' = Front(file)
  /\ sure' = FALSE
  /\ Stop("zero")
  /\ UNCHANGED <<want, got>>

\* One round of the loops that send: retrieve_thread, list_thread.
Send ==
  /\ At("move") /\ op \notin Uploads /\ left > 0
  /\ Through \/ Garbled
  /\ got' = Append(got, IF Through /\ op = "RETR" THEN file[Len(file) - left + 1] ELSE Junk)
  /\ left' = left - 1
  /\ Goto("move") /\ Returns
  /\ UNCHANGED <<file, len, streamVars, mode, busy, want, sure>>
  /\ ThreadSame

AllSent ==
  /\ At("move") /\ op \notin Uploads /\ left = 0
  /\ Stop("zero")
  /\ UNCHANGED <<file, goalVars>>

(* Mutant of FailedLen: an error of read_data ends the loop as an end does.*)
FailedLenIgnored == "zero"

\* list_thread looks at no error.
FailedLen == IF op = "LIST" THEN "zero" ELSE "error"

\* A read, a write or the disk fails.
MoveFails ==
  /\ At("move") /\ ~NullStream
  /\ Stop(FailedLen)
  /\ UNCHANGED <<file, goalVars>>

\* shut_down_data_socket.
ThreadShuts ==
  /\ At("shut") /\ ~NullStream /\ Goto("close")
  /\ stream' = IF level /\ stream = "live" THEN "spent" ELSE stream
  /\ UNCHANGED <<file, keyed, len, left, sock, mode, busy, goalVars>>
  /\ ThreadSame

\* close_data_socket.
ThreadCloses ==
  /\ At("close") /\ ~NullStream /\ Goto("end")
  /\ sock' = "closed"
  /\ UNCHANGED <<file, len, left, streamVars, mode, busy, goalVars>>
  /\ ThreadSame

ThreadCrashes ==
  /\ \/ At("move") /\ left > 0
     \/ At("move") /\ op \in Uploads
     \/ At("shut") \/ At("close")
  /\ Crash

\* list_thread does not clear current_transfer_.
Cleared == offset' = IF op = "LIST" THEN offset ELSE 0

\* The bookkeeping, and 226 or 550.
ThreadEnds ==
  /\ At("end") /\ pc' = "idle" /\ op' = "none" /\ len' = "going" /\ left' = 0
  /\ Cleared /\ outlived' = (op = "LIST" /\ outlived)
  /\ mode' = "none" /\ busy' = FALSE
  /\ want' = <<>> /\ got' = <<>> /\ sure' = FALSE
  /\ UNCHANGED <<file, rest, levelVars, streamVars, connVars, sock, acceptor, flagVars>>

\* ABOR: 426 and 226.  The thread's next call finds the socket closed; close does
\* not wake a call that waits on it.
Abor ==
  /\ busy /\ ~crashed /\ ~NullStream
  /\ sock' \in {"closed"} \cup (IF pc = "move" /\ sock = "connected" THEN {"held"} ELSE {})
  /\ mode' = "none" /\ busy' = FALSE
  /\ UNCHANGED <<file, offsetVars, levelVars, streamVars, connVars, acceptor, threadVars,
                 goalVars, flagVars>>

AborCrashes == busy /\ ~crashed /\ Crash

-----------------------------------------------------------------------------
Init ==
  /\ file \in FirstFiles
  /\ offset = 0 /\ rest = 0 /\ outlived = FALSE
  /\ control \in BOOLEAN /\ level = FALSE
  /\ stream = "none" /\ keyed = 0
  /\ sock = "null" /\ acceptor = FALSE /\ mode = "none" /\ busy = FALSE
  /\ conn = 0 /\ private = FALSE
  /\ pc = "idle" /\ op = "none" /\ len = "going" /\ left = 0
  /\ want = <<>> /\ got = <<>> /\ sure = FALSE
  /\ switched = FALSE /\ crashed = FALSE

Command ==
  \/ Auth
  \/ \E p \in BOOLEAN : Prot(p)
  \/ \E m \in {"port", "pasv"} : Agree(m)
  \/ AgreeCrashes
  \/ \E n \in 1..MaxChunks : Rest(n)
  \/ Resume
  \/ ConnectFails
  \/ ConnectedInVain
  \/ \E c \in Commands, n \in 1..MaxChunks : Begin(c, n)
  \/ Abor
  \/ AborCrashes

Thread ==
  \/ ThreadOpens \/ CannotOpen
  \/ Receive \/ EndOfData \/ AbandonedEnd \/ FlushFails
  \/ Send \/ AllSent \/ MoveFails
  \/ ThreadShuts \/ ThreadCloses \/ ThreadCrashes \/ ThreadEnds

Next == Command \/ Thread

Spec == Init /\ [][Next]_vars

-----------------------------------------------------------------------------
(* Properties.                                                             *)

\* Types of the session, the channel and the thread; a stream has a connection
\* it was made for, and a running thread one it works on.
TypeOK ==
  /\ offset \in Nat /\ rest \in Nat
  /\ file \in Seq(Nat) /\ want \in Seq(Nat) /\ got \in Seq(Nat)
  /\ {control, level, acceptor, busy, private, crashed, sure, outlived, switched}
       \subseteq BOOLEAN
  /\ stream \in {"none", "live", "failed", "spent"}
  /\ conn \in 0..MaxConns /\ keyed \in 0..conn /\ (stream # "none" => keyed > 0)
  /\ sock \in {"null", "closed", "open", "connected", "held"}
  /\ mode \in {"none", "port", "pasv"} /\ (acceptor => mode = "pasv")
  /\ pc \in {"idle", "open", "move", "shut", "close", "end"}
  /\ op \in Commands \cup {"none"} /\ (op = "none" <=> pc = "idle")
  /\ len \in {"going", "zero", "error"} /\ left \in Nat

\* A 226 is due, and nothing excuses a wrong one.
Reported == pc = "end" /\ len = "zero" /\ sure

\* The connection is in the clear, or is the one ssl_socket_ was made for.
Keyed == level => keyed = conn

\* A 226 for an upload means that the file is what it was, or the part of it
\* before the offset, and then all that the client sent; a 226 for a download
\* that the client has the file from its offset on.  Excused are: an offset the
\* client has not just asked for, REST n before STOR with n not the file's
\* size, a PROT during the transfer, an upload that the client has aborted, a
\* disk that is full when the file is closed, and protected connections after
\* the session's first (FtpsUploadsArrive).
TransferredWhole ==
  Reported /\ Keyed =>
    /\ op \in Uploads => file = want
    /\ op = "RETR" => got = want


\* Between transfers the offset in force is the client's last REST, unless a
\* LIST or a command that was refused has come after it.
OffsetKnown == (pc = "idle" /\ offset # rest) => outlived

\* A running transfer's thread and ABOR use ssl_socket_ without a stream only
\* after a PROT that came in the middle of a transfer.  (A PORT or PASV does it
\* after an earlier one, under level P, that led to no handshake.)
NullStreamNeedsSwitch == (crashed /\ pc # "idle") => switched

=============================================================================
