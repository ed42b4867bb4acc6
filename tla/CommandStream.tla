---------------------------- MODULE CommandStream ----------------------------
(***************************************************************************)
(* How the bytes of one control connection become commands:                *)
(* connection::handle_read, ftp_server::process_command and                *)
(* request_parser.                                                         *)
(*                                                                         *)
(* The parser is part of the client_node.  A connection that no account    *)
(* lists has no node: each read gets a new one, and with it a new parser,  *)
(* which is gone after the read unless its command was a USER that lists   *)
(* it.  Each read handles one command, however many it completed.          *)
(*                                                                         *)
(* What is abstracted: a byte is known by its class and a word of a        *)
(* command by what the command does to the node's listing (ClientRegistry  *)
(* has the details); a line with arguments is a line of several words.     *)
(***************************************************************************)
EXTENDS Naturals, FiniteSets, SequencesExt

CONSTANTS
  Limit,         \* 2000: characters of a line that are kept
  MaxSegment,    \* bound: bytes of one read
  MaxBytes       \* bound: bytes of the connection

ASSUME StreamAssumption ==
  /\ Limit \in Nat \ {0} /\ MaxSegment \in Nat \ {0} /\ MaxBytes \in Nat

Words  == {"user", "pass", "rein", "text"}
Telnet == {"iac", "high"}    \* 255, and 240 to 254
Characters == Words \cup Telnet
Bytes  == Characters \cup {"end"}

\* m_RecvBuffer, m_nTelnetSkip and m_RecvLineBuffer of a node.
Parsers == [buf : Seq(Characters), skip : BOOLEAN, queue : Seq(Seq(Characters))]

VARIABLES
  signed,     \* the build's char is signed: pdata[i] is never above 127
  parser,     \* of the node
  listed,     \* an account lists the node
  logged,     \* is_logged_
  open,       \* the connection is served
  received,   \* history: all bytes of the connection
  handled,    \* history: all lines taken from the queue
  since,      \* history: how many of both there were before the node was made
  polite      \* history: no read completed two lines

vars == <<signed, parser, listed, logged, open, received, handled, since,
          polite>>

NewParser == [buf |-> <<>>, skip |-> FALSE, queue |-> <<>>]

Init ==
  /\ signed \in BOOLEAN
  /\ parser = NewParser
  /\ listed = FALSE /\ logged = FALSE /\ open = TRUE
  /\ received = <<>> /\ handled = <<>>
  /\ since = [bytes |-> 0, lines |-> 0]
  /\ polite = TRUE

-----------------------------------------------------------------------------
(* What the bytes of a stream say, whatever reads they came in.            *)

From(s, n) == SubSeq(s, n + 1, Len(s))

Ends(s) == {i \in DOMAIN s : s[i] = "end"}

\* A line without the telnet bytes in front of it.
Untelnet(raw) ==
  LET starts == {i \in DOMAIN raw : raw[i] \notin Telnet} IN
  IF signed \/ raw = <<>> \/ raw[1] # "iac" THEN raw
  ELSE IF starts = {} THEN <<>>
  ELSE SubSeq(raw, Min(starts), Len(raw))

\* A line as it is kept.
Cut(text) == SubSeq(text, 1, IF Len(text) < Limit THEN Len(text) ELSE Limit)

\* Where the line that position e ends begins, and the line.
LineStart(s, e) == Max({0} \cup {i \in Ends(s) : i < e}) + 1
Raw(s, e) == SubSeq(s, LineStart(s, e), e - 1)
Line(s, e) == Cut(Untelnet(Raw(s, e)))

\* What comes after the last line.
Rest(s) == Line(s, Len(s) + 1)

\* Where the lines of s end, the empty ones left out, and which of them end
\* after position n.
Full(s) == {e \in Ends(s) : Line(s, e) # <<>>}
Completed(s, n) == {e \in Full(s) : e > n}

-----------------------------------------------------------------------------
(* request_parser::parse                                                   *)

(* Mutant of Skips: telnet bytes are dropped in mid-line as well.          *)
SkipsAnywhere(p, b) ==
  /\ ~signed
  /\ IF p.skip THEN b \in Telnet ELSE b = "iac"

\* Telnet bytes are dropped in front of a line, from an IAC on.
Skips(p, b) ==
  /\ ~signed /\ p.buf = <<>>
  /\ IF p.skip THEN b \in Telnet ELSE b = "iac"

(* Mutant of EndLine: the line's length is not reset.                      *)
EndLineKeeps(p) ==
  IF p.buf = <<>> THEN p ELSE [p EXCEPT !.queue = Append(@, p.buf)]

\* A line ending; empty lines do not count.
EndLine(p) ==
  IF p.buf = <<>> THEN p
  ELSE [p EXCEPT !.queue = Append(@, p.buf), !.buf = <<>>]

(* Mutant of Store: the limit is off by one.                               *)
StoreMore(p, b) ==
  IF Len(p.buf) <= Limit THEN [p EXCEPT !.buf = Append(@, b)] ELSE p

Store(p, b) ==
  IF Len(p.buf) < Limit THEN [p EXCEPT !.buf = Append(@, b)] ELSE p

\* One turn of the loop.
ParseByte(p, b) ==
  IF Skips(p, b) THEN [p EXCEPT !.skip = TRUE]
  ELSE LET q == IF p.buf = <<>> THEN [p EXCEPT !.skip = FALSE] ELSE p
       IN IF b = "end" THEN EndLine(q) ELSE Store(q, b)

\* The loop.
Parsed(segment) ==
  LET at[i \in 0..Len(segment)] ==
        IF i = 0 THEN parser ELSE ParseByte(at[i - 1], segment[i])
  IN  at[Len(segment)]

(* Mutant of Taken: a line is taken only when no other has been begun.     *)
TakenAtEnd(p) == p.queue # <<>> /\ p.buf = <<>>

\* GetCommand is reached: a line is popped.
Taken(p) == p.queue # <<>>

\* GetCommand: the oldest line goes, however many there are.
Popped(p) == [p EXCEPT !.queue = Tail(@)]

\* MapCommand: the first word of a line, in a table that says which commands a
\* client may send before it has logged in.
MapCommand(line) ==
  IF line[1] \in {"user", "pass"} \/ (line[1] \in Words /\ logged) THEN line[1]
  ELSE "invalid"

-----------------------------------------------------------------------------
(* ftp_server::process_command                                             *)

\* What the command of a line makes of the node: whether an account lists it,
\* whether it is logged in, and whether the connection stays.  Which accounts
\* exist, have room or list the node twice is left open.  QUIT, NOOP, HELP, SYST,
\* STRU, MODE and all others, and what MapCommand refuses, only answer.
Command(line) ==
  CASE MapCommand(line) = "user" ->
         {r \in [listed : BOOLEAN, logged : BOOLEAN, open : BOOLEAN] :
            /\ r.logged => r.listed
            /\ r.listed => r.open
            /\ r.open /\ listed /\ ~logged => r.listed}
    [] MapCommand(line) = "pass" ->
         {r \in [listed : {listed, FALSE}, logged : BOOLEAN, open : {TRUE}] :
            IF r.listed THEN logged => r.logged ELSE ~r.logged}
    [] MapCommand(line) = "rein" ->
         [listed : BOOLEAN, logged : {FALSE}, open : {TRUE}]
    [] OTHER -> {[listed |-> listed, logged |-> logged, open |-> TRUE]}

\* handle_read
Read(segment) ==
  LET p == Parsed(segment)
      lines == IF Taken(p) THEN <<Head(p.queue)>> ELSE <<>>
      left == IF Taken(p) THEN Popped(p) ELSE p
      same == [listed |-> listed, logged |-> logged, open |-> TRUE]
  IN
  /\ open
  /\ UNCHANGED signed
  /\ received' = received \o segment
  /\ handled' = handled \o lines
  /\ polite' = (polite /\ Cardinality(Completed(From(received', since.bytes),
                                               Len(received) - since.bytes)) <= 1)
  /\ \E r \in IF lines = <<>> THEN {same} ELSE Command(lines[1]) :
       /\ listed' = r.listed /\ logged' = r.logged /\ open' = r.open
       /\ IF r.listed
          THEN parser' = left /\ UNCHANGED since
          ELSE /\ parser' = NewParser
               /\ since' = [bytes |-> Len(received'), lines |-> Len(handled')]

\* handle_read is told that the connection is gone: end_work.
Lost ==
  /\ open
  /\ open' = FALSE /\ listed' = FALSE /\ logged' = FALSE
  /\ parser' = NewParser
  /\ since' = [bytes |-> Len(received), lines |-> Len(handled)]
  /\ UNCHANGED <<signed, received, handled, polite>>

Next == \/ Lost
        \/ \E n \in 1..MaxSegment :
             /\ Len(received) + n <= MaxBytes
             /\ \E segment \in [1..n -> Bytes] : Read(segment)

Spec == Init /\ [][Next]_vars

-----------------------------------------------------------------------------
(* Properties.                                                             *)

\* q are the lines of s.
AreLines(q, s) ==
  \E at \in [1..Len(q) -> Full(s)] :
    /\ \A e \in Full(s) : \E i \in 1..Len(q) : at[i] = e
    /\ \A i, j \in 1..Len(q) : i < j => at[i] < at[j]
    /\ \A i \in 1..Len(q) : q[i] = Line(s, at[i])

\* Type correctness: m_RecvBuffer is never overrun and no line is empty.
TypeOK ==
  /\ signed \in BOOLEAN
  /\ parser \in Parsers /\ Len(parser.buf) <= Limit
  /\ \A i \in 1..Len(parser.queue) : Len(parser.queue[i]) \in 1..Limit
  /\ listed \in BOOLEAN /\ logged \in BOOLEAN /\ open \in BOOLEAN
  /\ received \in Seq(Bytes) /\ handled \in Seq(Seq(Characters))
  /\ since \in [bytes : 0..Len(received), lines : 0..Len(handled)]
  /\ polite \in BOOLEAN

\* While a node lasts nothing the client sends is lost, doubled or reordered,
\* however the bytes are cut into reads: the lines it handled, those that wait
\* and the one it is receiving are the lines of its bytes.
NothingLost ==
  listed =>
    /\ AreLines(From(handled, since.lines) \o parser.queue, From(received, since.bytes))
    /\ parser.buf = Rest(From(received, since.bytes))

\* A client whose reads complete one command each, whether its lines end in CR LF,
\* in CR or in LF, in one read or in two, with empty lines or without, has each
\* handled by the read that completes it: none is left waiting for the next bytes.
PoliteNeverWaits == polite => parser.queue = <<>>

\* parse "is true when a complete request has been parsed, ... indeterminate
\* when more data is required" (request_parser.h): a request that is completed
\* by more data is parsed.
MoreDataCompletes ==
  (open /\ polite) => Len(handled) = Cardinality(Full(received))
=============================================================================
