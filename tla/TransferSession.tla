--------------------------- MODULE TransferSession ---------------------------
(***************************************************************************)
(* The life of one client_node (client_node.cpp): the commands that set up *)
(* a data channel, the transfer threads those commands detach, and the end *)
(* of the node.                                                            *)
(*                                                                         *)
(* Two kinds of process share the node's fields without a common lock:     *)
(*   - the handler: the commands of one control connection, one at a time  *)
(*     (connection::handle_read re-arms the read after the reply);         *)
(*   - the transfer threads: list_thread, retrieve_thread and store_thread,*)
(*     detached, holding a raw pointer to the node.                        *)
(* ctrl_socket_lock_ is taken by a thread for its final bookkeeping and by *)
(* client_node::end, and by nobody else; list_thread talks to the     *)
(* client and reads user_ without it.                                      *)
(*                                                                         *)
(* What is abstracted.  A command that is refused (privilege, syntax, 425) *)
(* changes nothing and is a stuttering step.  Data connections are         *)
(* numbered as they are made: connection n is served by thread n, and the  *)
(* path of the transfer that connection n was made for is n as well.  A    *)
(* restart offset is known by whether it is positive.  The data channel is *)
(* the clear one (PROT C), and the node has one entry in its account's     *)
(* client list: further entries, and a USER repeated before its PASS,      *)
(* belong to ClientRegistry.                                               *)
(***************************************************************************)
EXTENDS Naturals, FiniteSets

CONSTANTS
  MaxOps,      \* bound: data connections plus STAT listings of one node
  Transfers    \* the transfers the client asks for (STOU counts as stor)

ASSUME MaxOpsAssumption == MaxOps \in Nat
ASSUME TransfersAssumption == Transfers \subseteq {"list", "retr", "stor", "appe"}

Threads == 1..MaxOps

VARIABLES
  (* client_node *)
  logged,      \* is_logged_
  user,        \* user_ is not null
  canal,       \* is_ctrl_canal_open_
  mode,        \* cur_data_mode_
  status,      \* cur_status_
  acceptor,    \* data_acceptor_: no object, closed, or bound and listening
  sock,        \* data_socket_: no object, closed, open, or connected
  peer,        \* the connection data_socket_ stands for, 0 when not connected
  restart,     \* current_transfer_.restart_at_ > 0
  path,        \* current_transfer_.transfer_path_, 0 when empty
  lock,        \* the thread inside ctrl_socket_lock_, 0 when it is free
  fate,        \* why the node left its account's client list, if it did
  alive,       \* the client_node object exists, in a running process
  (* the handler *)
  handler,     \* idle, inside a two-step command, or told the client is gone
  opening,     \* the transfer open_data_connection works for
  (* the transfer threads *)
  ops,         \* connections and STAT listings so far
  tpc,         \* per thread: where it is
  kind,        \* per thread: which transfer it runs
  file,        \* per thread: the path it opened
  (* history, read by no guard of the program *)
  abandoned,   \* per thread: ABOR declared it finished while it was running
  steady,      \* no set-up command overlapped a thread nobody waits for
  offer,       \* the data channel promised by the last 227 or 200
  restOffer,   \* a positive offset was accepted and not yet used
  late         \* what was sent on the control connection after end: the opening
               \* of a listing, lines of a STAT, the final reply of a transfer

nodeVars   == <<logged, user, canal, lock, fate, alive>>
chanVars   == <<mode, acceptor, sock, peer>>
xferVars   == <<status, restart, path>>
handVars   == <<handler, opening>>
threadVars == <<ops, tpc, kind, file>>
ghostVars  == <<abandoned, steady, offer, restOffer, late>>
vars == <<nodeVars, chanVars, xferVars, handVars, threadVars, ghostVars>>

DataModes  == {"none", "pasv", "port"}
Statuses   == {"waiting", "listing", "uploading", "downloading"}
ThreadPcs  == {"none", "start", "list", "xfer", "fin", "clear", "mode", "status",
               "reply", "done", "lost"}

StatusOf(k) == CASE k = "retr" -> "downloading"
                 [] k \in {"stor", "appe"} -> "uploading"
                 [] OTHER -> "listing"

\* Inside its final bookkeeping, under ctrl_socket_lock_.
Closing(t) == tpc[t] \in {"clear", "mode", "status", "reply"}

\* Thread t still has a use for the node's transfer fields.
Working(t) == /\ tpc[t] \in {"start", "list", "xfer", "fin", "clear", "mode", "status"}
              /\ kind[t] # "stat"

\* A listing that was accepted and has not yet announced itself: list_thread
\* sets cur_status_, process_list_cmd does not.
Unannounced(t) == tpc[t] = "start" /\ kind[t] = "list"

\* A thread is running that the node's status does not show.
Overlap == \E t \in Threads : Working(t) /\ (abandoned[t] \/ Unannounced(t))

Init ==
  /\ logged = TRUE /\ user = TRUE /\ canal = TRUE /\ lock = 0
  /\ fate = "registered" /\ alive = TRUE
  /\ mode = "none" /\ acceptor = "null" /\ sock = "null" /\ peer = 0
  /\ status = "waiting" /\ restart = FALSE /\ path = 0
  /\ handler = "idle" /\ opening = [kind |-> "none", via |-> "none"]
  /\ ops = 0
  /\ tpc = [t \in Threads |-> "none"]
  /\ kind = [t \in Threads |-> "none"]
  /\ file = [t \in Threads |-> 0]
  /\ abandoned = [t \in Threads |-> FALSE]
  /\ steady = TRUE /\ offer = "none" /\ restOffer = FALSE /\ late = {}

-----------------------------------------------------------------------------
(* Commands.  A command other than USER and PASS needs a login            *)
(* (request_parser), and a node that left its list is found by none.      *)

Listens == handler = "idle" /\ fate = "registered"
Ready   == Listens /\ logged

(* Mutants of Free: the test forgets the transfers, or forgets listings.   *)
FreeButForFiles == status \notin {"uploading", "downloading"}
FreeButForListing == status # "listing"

\* The 425 "You're already connected." test of every command that uses the
\* data channel.
Free == status = "waiting"

SetUp == steady' = (steady /\ ~Overlap)

(* Mutant of Shut: PORT and PASV leave the earlier channel open.           *)
ShutNothing(s) == s

\* PORT and PASV first close what an earlier one left, if mode says there was
\* an earlier one.
Shut(s) == IF s = "null" \/ mode = "none" THEN s ELSE "closed"

Port ==
  /\ Ready /\ Free /\ SetUp
  /\ acceptor' = Shut(acceptor)
  /\ sock' = IF sock = "null" THEN "closed" ELSE Shut(sock)
  /\ peer' = IF mode = "none" THEN peer ELSE 0
  /\ mode' = "port" /\ offer' = "port"
  /\ UNCHANGED <<nodeVars, xferVars, handVars, threadVars, abandoned, restOffer, late>>

\* Opening the acceptor fails while it is still listening; binding it fails
\* when no port is to be had (PasvPorts).
Pasv ==
  /\ Ready /\ Free /\ SetUp
  /\ sock' = Shut(sock)
  /\ peer' = IF mode = "none" THEN peer ELSE 0
  /\ \/ /\ Shut(acceptor) # "listening"
        /\ acceptor' = "listening" /\ mode' = "pasv" /\ offer' = "pasv"
     \/ /\ Shut(acceptor) # "listening"
        /\ acceptor' = "closed" /\ mode' = "none" /\ offer' = "none"
     \/ /\ Shut(acceptor) = "listening"
        /\ mode' = "none" /\ offer' = "none"
        /\ UNCHANGED acceptor
  /\ UNCHANGED <<nodeVars, xferVars, handVars, threadVars, abandoned, restOffer, late>>

Rest ==
  /\ Ready /\ Free /\ SetUp
  /\ restart' \in BOOLEAN
  /\ restOffer' = restart'
  /\ UNCHANGED <<nodeVars, chanVars, status, path, handVars, threadVars,
                 abandoned, offer, late>>

\* LIST/NLST/MLSD, RETR, STOR/STOU and APPE up to the blocking call of
\* open_data_connection.
BeginTransfer(k) ==
  /\ Ready /\ Free /\ SetUp
  /\ mode # "none"
  /\ ops < MaxOps
  /\ handler' = "opening"
  /\ opening' = [kind |-> k, via |-> mode]
  /\ sock' = IF sock = "null" THEN "closed" ELSE sock
  /\ offer' = "none"
  /\ UNCHANGED <<nodeVars, mode, acceptor, peer, xferVars, threadVars,
                 abandoned, restOffer, late>>

\* accept or connect failed: 425.  In port mode the socket may have been
\* opened before the connection was refused.
OpenFails ==
  /\ handler = "opening" /\ alive
  /\ IF opening.via = "pasv"
     THEN acceptor' = "closed" /\ UNCHANGED sock
     ELSE /\ sock' \in IF sock = "closed" THEN {"closed", "open"} ELSE {sock}
          /\ UNCHANGED acceptor
  /\ handler' = "idle" /\ opening' = [kind |-> "none", via |-> "none"]
  /\ UNCHANGED <<nodeVars, mode, peer, xferVars, threadVars, ghostVars>>

\* The connection is made.  Without a usable path the handler replies 550 (or
\* nothing, for STOR) and leaves it as it is; otherwise it records the transfer
\* and detaches the thread.  APPE takes the size of the file as its offset.
Connect ==
  LET k == opening.kind
      t == ops + 1
      Spawn == /\ tpc' = [tpc EXCEPT ![t] = "start"]
               /\ kind' = [kind EXCEPT ![t] = k]
      Record == /\ status' = StatusOf(k)
                /\ path' = t
                /\ restart' \in IF k = "appe" THEN BOOLEAN ELSE {restart}
                /\ restOffer' = FALSE
  IN
  /\ handler = "opening" /\ alive
  /\ sock = "closed"
  /\ opening.via = "pasv" => acceptor = "listening"
  /\ acceptor' = IF opening.via = "pasv" THEN "closed" ELSE acceptor
  /\ sock' = "connected" /\ peer' = t
  /\ ops' = t
  /\ \/ k = "list" /\ Spawn /\ UNCHANGED <<xferVars, restOffer>>
     \/ k # "list" /\ Spawn /\ Record
     \/ k # "list" /\ UNCHANGED <<xferVars, tpc, kind, restOffer>>
  /\ handler' = "idle" /\ opening' = [kind |-> "none", via |-> "none"]
  /\ UNCHANGED <<nodeVars, mode, file, abandoned, steady, offer, late>>

\* STAT with an argument: a listing on the control connection.
StatListing ==
  /\ Ready /\ ops < MaxOps
  /\ ops' = ops + 1
  /\ tpc' = [tpc EXCEPT ![ops + 1] = "start"]
  /\ kind' = [kind EXCEPT ![ops + 1] = "stat"]
  /\ UNCHANGED <<nodeVars, chanVars, xferVars, handVars, file, ghostVars>>

\* ABOR of a running transfer closes its socket ...
AborClose ==
  /\ Ready /\ ~Free
  /\ sock' = "closed" /\ peer' = 0
  /\ handler' = "aborting"
  /\ abandoned' = [t \in Threads |-> abandoned[t] \/ Working(t)]
  /\ UNCHANGED <<nodeVars, mode, acceptor, xferVars, opening, threadVars,
                 steady, offer, restOffer, late>>

(* Mutant of AborReset: the two enumerations are mixed up.                 *)
AborResetMixedUp ==
  /\ handler = "aborting" /\ alive
  /\ status' = "none" /\ mode' = "none"
  /\ handler' = "idle"
  /\ UNCHANGED <<nodeVars, acceptor, sock, peer, restart, path, opening,
                 threadVars, ghostVars>>

\* ... and declares it over; the thread is not waited for.
AborReset ==
  /\ handler = "aborting" /\ alive
  /\ status' = "waiting" /\ mode' = "none"
  /\ handler' = "idle"
  /\ UNCHANGED <<nodeVars, acceptor, sock, peer, restart, path, opening,
                 threadVars, ghostVars>>

-----------------------------------------------------------------------------
(* Login and the end of the node.                                          *)

\* REIN takes the node out of its list: the handler held the last reference.
Rein ==
  /\ Ready
  /\ fate' = "reined" /\ logged' = FALSE /\ user' = FALSE /\ mode' = "none"
  /\ UNCHANGED <<canal, lock, alive, acceptor, sock, peer, xferVars, handVars,
                 threadVars, ghostVars>>

\* USER of a logged-in client leaves the list, which clears user_ ...
User ==
  /\ Ready
  /\ logged' = FALSE /\ user' = FALSE
  /\ handler' = "entering"
  /\ UNCHANGED <<canal, lock, fate, alive, chanVars, xferVars, opening, threadVars,
                 ghostVars>>

\* ... and enters the one of the named account, unless there is no such account
\* or no room in it.
UserEnters ==
  /\ handler = "entering" /\ alive
  /\ \/ user' = TRUE /\ UNCHANGED fate
     \/ user' \in BOOLEAN /\ fate' = "dropped"
  /\ handler' = "idle"
  /\ UNCHANGED <<logged, canal, lock, alive, chanVars, xferVars, opening, threadVars,
                 ghostVars>>

\* PASS: accepted, or the node leaves its list.
Pass ==
  /\ Listens
  /\ \/ logged' = TRUE /\ UNCHANGED <<user, fate>>
     \/ user' = FALSE /\ fate' = "dropped" /\ UNCHANGED logged
  /\ UNCHANGED <<canal, lock, alive, chanVars, xferVars, handVars, threadVars,
                 ghostVars>>

\* The control connection closes: handle_read reports it to end_work.
ControlLost ==
  /\ Listens
  /\ handler' = "closing"
  /\ UNCHANGED <<nodeVars, chanVars, xferVars, opening, threadVars, ghostVars>>

(* Mutant of End: it does not take ctrl_socket_lock_.                      *)
EndUnlocked ==
  /\ handler = "closing" /\ fate = "registered"
  /\ canal' = FALSE /\ fate' = "ended"
  /\ UNCHANGED <<logged, user, lock, alive, chanVars, xferVars, handVars, threadVars,
                 ghostVars>>

\* client_node::end
End ==
  /\ handler = "closing" /\ fate = "registered"
  /\ lock = 0
  /\ canal' = FALSE /\ fate' = "ended"
  /\ UNCHANGED <<logged, user, lock, alive, chanVars, xferVars, handVars, threadVars,
                 ghostVars>>

\* The handler returns and drops the last reference to an unlisted node.
Destroy ==
  /\ fate # "registered" /\ alive
  /\ alive' = FALSE
  /\ UNCHANGED <<logged, user, canal, lock, fate, chanVars, xferVars, handVars,
                 threadVars, ghostVars>>

-----------------------------------------------------------------------------
(* Transfer threads.                                                       *)

Goto(t, pc) == tpc' = [tpc EXCEPT ![t] = pc]

\* A line on the control connection, in history.
Sends(what) == late' = IF canal THEN late ELSE late \cup {what}

\* list_thread announces the listing, or begins the 213 of a STAT, without the
\* lock; the other two open the file at the recorded path.
ThreadStart(t) ==
  /\ alive /\ tpc[t] = "start"
  /\ \/ kind[t] = "list" /\ status' = "listing" /\ Sends("opening")
        /\ Goto(t, "list") /\ UNCHANGED file
     \/ kind[t] = "stat" /\ Sends("status") /\ Goto(t, "list") /\ UNCHANGED <<status, file>>
     \/ /\ kind[t] \in {"retr", "stor", "appe"}
        /\ file' = [file EXCEPT ![t] = path]
        /\ Goto(t, "xfer") /\ UNCHANGED <<status, late>>
  /\ UNCHANGED <<nodeVars, chanVars, restart, path, handVars, ops, kind, abandoned,
                 steady, offer, restOffer>>

\* The listing is made, with the directory of user_.  A STAT goes to the control
\* connection and is done.
ThreadList(t) ==
  /\ alive /\ tpc[t] = "list" /\ user
  /\ IF kind[t] = "stat" THEN Sends("status") /\ Goto(t, "done")
     ELSE Goto(t, "xfer") /\ UNCHANGED late
  /\ UNCHANGED <<nodeVars, chanVars, xferVars, handVars, ops, kind, file, abandoned,
                 steady, offer, restOffer>>

\* A null user_ takes the process with it.
ThreadCrashes(t) ==
  /\ alive /\ tpc[t] = "list" /\ ~user
  /\ fate' = "crashed" /\ alive' = FALSE
  /\ Goto(t, "lost")
  /\ UNCHANGED <<logged, user, canal, lock, chanVars, xferVars, handVars, ops, kind,
                 file, ghostVars>>

\* The data is through, or the connection failed: shut down and close
\* whatever data_socket_ now is.
ThreadClose(t) ==
  /\ alive /\ tpc[t] = "xfer"
  /\ sock' = "closed" /\ peer' = 0
  /\ Goto(t, "fin")
  /\ UNCHANGED <<nodeVars, mode, acceptor, xferVars, handVars, ops, kind, file,
                 ghostVars>>

\* ctrl_socket_lock_ is taken; with the control connection gone there is
\* nothing to do.
ThreadLock(t) ==
  /\ alive /\ tpc[t] = "fin" /\ lock = 0
  /\ \/ ~canal /\ Goto(t, "done") /\ UNCHANGED lock
     \/ /\ canal /\ lock' = t
        /\ Goto(t, IF kind[t] = "list" THEN "mode" ELSE "clear")
  /\ UNCHANGED <<logged, user, canal, fate, alive, chanVars, xferVars, handVars, ops,
                 kind, file, ghostVars>>

(* Mutants of NextPc: the status is never reset, or before the mode is.    *)
NextPcKeepsStatus(pc) ==
  CASE pc = "clear" -> "mode" [] pc = "mode" -> "reply" [] pc = "status" -> "reply"
    [] pc = "reply" -> "done"
NextPcStatusFirst(pc) ==
  CASE pc = "clear" -> "status" [] pc = "status" -> "mode" [] pc = "mode" -> "reply"
    [] pc = "reply" -> "done"

\* The order of the bookkeeping; list_thread has no current_transfer_ to clear.
NextPc(pc) ==
  CASE pc = "clear" -> "mode" [] pc = "mode" -> "status" [] pc = "status" -> "reply"
    [] pc = "reply" -> "done"

(* Mutant of Release: the lock is not given back.                          *)
ReleaseForgotten(t) == UNCHANGED lock

\* The end of the lock_guard's scope.
Release(t) == lock' = IF tpc[t] = "reply" THEN 0 ELSE lock

\* The bookkeeping under the lock, field by field: the handler takes no lock
\* to read these fields.
ThreadCleanup(t) ==
  /\ alive /\ Closing(t)
  /\ restart' = (restart /\ tpc[t] # "clear")
  /\ path' = IF tpc[t] = "clear" THEN 0 ELSE path
  /\ mode' = IF tpc[t] = "mode" THEN "none" ELSE mode
  /\ status' = IF tpc[t] = "status" THEN "waiting" ELSE status
  /\ IF tpc[t] = "reply" THEN Sends("final") ELSE UNCHANGED late
  /\ Release(t)
  /\ Goto(t, NextPc(tpc[t]))
  /\ UNCHANGED <<logged, user, canal, fate, alive, acceptor, sock, peer, handVars, ops,
                 kind, file, abandoned, steady, offer, restOffer>>

\* A thread that outlived the node: its next step reads freed memory.
ThreadLost(t) ==
  /\ ~alive /\ tpc[t] \notin {"none", "done", "lost"}
  /\ Goto(t, "lost")
  /\ UNCHANGED <<nodeVars, chanVars, xferVars, handVars, ops, kind, file, ghostVars>>

-----------------------------------------------------------------------------
Thread(t) == ThreadStart(t) \/ ThreadList(t) \/ ThreadCrashes(t)
             \/ ThreadClose(t) \/ ThreadLock(t) \/ ThreadCleanup(t) \/ ThreadLost(t)

Command == \/ Port \/ Pasv \/ Rest \/ StatListing
           \/ \E k \in Transfers : BeginTransfer(k)
           \/ Connect \/ OpenFails
           \/ AborClose \/ AborReset
           \/ Rein \/ User \/ UserEnters \/ Pass \/ ControlLost

Next == Command \/ End \/ Destroy \/ \E t \in Threads : Thread(t)

\* The scheduler runs every thread; ThreadClose is fair only as long as the
\* client reads, writes or closes its data connection.  Nothing is assumed of
\* the client's commands, nor that accept or connect returns.
Fairness == /\ WF_vars(AborReset) /\ WF_vars(End) /\ WF_vars(Destroy)
            /\ \A t \in Threads : WF_vars(Thread(t))

Spec == Init /\ [][Next]_vars /\ Fairness

-----------------------------------------------------------------------------
(* Properties.                                                             *)

FlagTypes ==
  /\ logged \in BOOLEAN /\ user \in BOOLEAN
  /\ canal \in BOOLEAN /\ alive \in BOOLEAN
  /\ restart \in BOOLEAN /\ steady \in BOOLEAN /\ restOffer \in BOOLEAN

FieldTypes ==
  /\ fate \in {"registered", "reined", "dropped", "ended", "crashed"}
  /\ mode \in DataModes /\ status \in Statuses /\ offer \in DataModes
  /\ acceptor \in {"null", "closed", "listening"}
  /\ sock \in {"null", "closed", "open", "connected"}
  /\ peer \in 0..MaxOps /\ path \in 0..MaxOps /\ lock \in 0..MaxOps
  /\ handler \in {"idle", "opening", "aborting", "entering", "closing"}
  /\ late \subseteq {"opening", "status", "final"}
  /\ opening \in [kind : Transfers \cup {"none"}, via : DataModes]

ThreadTypes ==
  /\ ops \in 0..MaxOps
  /\ tpc \in [Threads -> ThreadPcs]
  /\ kind \in [Threads -> Transfers \cup {"stat", "none"}]
  /\ file \in [Threads -> 0..MaxOps]
  /\ abandoned \in [Threads -> BOOLEAN]

\* Type correctness of the node, the handler and the thread table.
TypeOK == FlagTypes /\ FieldTypes /\ ThreadTypes

\* The client has waited for the reply that ends one transfer before it set up
\* the next.  The properties below that mention Calm fail without it: nothing
\* in the code keeps a new transfer apart from an aborted or unannounced one.
Calm == steady /\ fate = "registered"

\* Threads whose transfer the client believes to be running.
Current == {t \in Threads : Working(t) /\ ~abandoned[t]}

\* One data channel, one transfer: two threads never both believe that
\* data_socket_ is theirs.
OneTransfer == Calm => \A s, t \in Current : s = t

\* cur_status_ tells exactly whether an announced transfer is running, so 425
\* is sent when, and only when, it has to be.
StatusExact ==
  (Calm /\ handler # "aborting") =>
    ((status # "waiting") <=> \E t \in Current : ~Unannounced(t))

\* A thread that moves data does it over the connection that was made for it,
\* and from or to the path of the command that made it.
Ownership ==
  Calm => \A t \in Current :
    /\ tpc[t] \in {"start", "list", "xfer"} => sock = "connected" /\ peer = t
    /\ tpc[t] = "start" /\ kind[t] # "list" => path = t
    /\ tpc[t] = "xfer" /\ kind[t] # "list" => file[t] = t

\* With no data channel agreed upon, none is left open: no port stays bound
\* and no connection lingers after the 226, the 426 or a failed PASV.
IdleClean ==
  (Calm /\ mode = "none") => /\ acceptor # "listening"
                             /\ sock \notin {"open", "connected"}

\* What a reply promised still stands when the client acts on it: the data
\* channel of 227 or 200, and the offset of 350, are not taken back by the
\* bookkeeping of the transfer before.
PromisesKept ==
  Calm => /\ offer # "none" => mode = offer
          /\ offer = "pasv" => acceptor = "listening" /\ sock \in {"null", "closed"}
          /\ offer = "port" => sock = "closed"
          /\ restOffer => restart

\* The fields of the node, the handler and the threads together do what
\* DataChannel promises.
Carried == {t \in Threads : kind[t] \in Transfers}

Channel == INSTANCE DataChannel WITH
  Transfers <- Threads,
  use <- IF ~Calm \/ (handler # "opening" /\ Current = {}) THEN "free"
         ELSE IF handler = "opening" THEN "opening" ELSE "used",
  last <- IF Calm /\ Carried # {}
          THEN CHOOSE t \in Carried : \A s \in Carried : s <= t ELSE 0,
  calm <- Calm

ChannelKept == Channel!Spec

\* Once end has had ctrl_socket_lock_, no transfer sends its final reply any more.
\* What may still go out are the lines that list_thread sends without the lock: the
\* 150 of a listing and those of a STAT.
NoFinalAfterEnd == "final" \notin late

\* REIN leaves the running transfer alone ("the current transfert must not be
\* stopped", process_rein_cmd).
ReinKeepsTransfer ==
  fate = "reined" => \A t \in Threads : kind[t] \in Transfers => tpc[t] # "lost"

\* A detached thread ends, whatever happens to the session.
TransferCompletes ==
  \A t \in Threads : (tpc[t] = "start") ~> (tpc[t] \in {"done", "lost"})

\* A closed control connection is let go of, however many threads are still
\* queued for the lock that end needs.
CloseCompletes == (handler = "closing") ~> ~alive

=============================================================================
