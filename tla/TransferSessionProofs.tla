----------------------- MODULE TransferSessionProofs -----------------------
(***************************************************************************)
(* Proofs about TransferSession for every MaxOps and every set of          *)
(* transfers.  The argument has two layers:                                *)
(*   Base    what holds of every behaviour: types, the thread table, and   *)
(*           who is inside ctrl_socket_lock_;                              *)
(*   Session what holds as long as the client is Calm: at most one thread  *)
(*           works, and the channel, the status, the offers and the path   *)
(*           are in the state that thread's program counter says.          *)
(***************************************************************************)
EXTENDS TransferSession, TLAPS

ActivePcs == {"xfer", "fin", "clear", "mode", "status", "reply"}

\* The handler only opens connections the bound has room for, and works on a
\* node that exists.
HandlerOK ==
  /\ handler = "opening" => /\ ops < MaxOps
                            /\ opening.kind \in Transfers
                            /\ opening.via # "none"
  /\ fate = "registered" => alive /\ canal

\* Slots are used in order; a STAT listing never reaches the data channel and
\* list_thread never clears current_transfer_.
ThreadTable ==
  \A t \in Threads :
    /\ t > ops => tpc[t] = "none" /\ ~abandoned[t]
    /\ tpc[t] \in ActivePcs => kind[t] # "stat"
    /\ tpc[t] = "clear" => kind[t] # "list"
    /\ tpc[t] = "list" => kind[t] \in {"list", "stat"}

\* A thread in its bookkeeping holds ctrl_socket_lock_, alone, and the canal is open.
LockHeld == \A t \in Threads : Closing(t) => canal /\ lock = t

Base == TypeOK /\ HandlerOK /\ ThreadTable /\ LockHeld /\ NoFinalAfterEnd

\* At most one thread works, abandoned or not.
OneWorker == \A s, t \in Threads : Working(s) /\ Working(t) => s = t

NoWorker == \A t \in Threads : ~Working(t)

\* The channel of the working thread.
WorkerChannel ==
  \A t \in Threads : Working(t) =>
    /\ acceptor # "listening"
    /\ tpc[t] \in {"start", "list", "xfer"} /\ ~abandoned[t]
         => sock = "connected" /\ peer = t
    /\ tpc[t] \notin {"start", "list", "xfer"} \/ abandoned[t] => sock = "closed"

\* Its path.
WorkerPath ==
  \A t \in Threads : Working(t) /\ ~abandoned[t] /\ kind[t] # "list" =>
    /\ tpc[t] = "start" => path = t
    /\ tpc[t] = "xfer" => file[t] = t

\* What the handler relies on between the two halves of a command.
HandlerChannel ==
  /\ handler = "opening" => /\ NoWorker /\ offer = "none"
                            /\ mode = opening.via
  /\ handler = "aborting" => /\ sock = "closed" /\ acceptor # "listening"
                             /\ offer = "none"
                             /\ \A t \in Threads : Working(t) => abandoned[t]

\* The channel nobody works on.
IdleChannel ==
  /\ acceptor = "listening" => mode = "pasv"
  /\ mode = "none" => sock \notin {"open", "connected"}

\* Nobody is left who would take an offer back.
Offers ==
  /\ offer # "none" => NoWorker /\ mode = offer
  /\ offer = "pasv" => acceptor = "listening" /\ sock \in {"null", "closed"}
  /\ offer = "port" => sock = "closed"
  /\ restOffer => restart /\ \A t \in Threads : Working(t) => kind[t] = "list"

Announced(t) == Working(t) /\ ~abandoned[t] /\ ~Unannounced(t)

\* The status is the working thread's, and ABOR never hits a listing that has
\* yet to announce itself.
StatusMirrors ==
  /\ handler # "aborting" =>
       ((status # "waiting") <=> \E t \in Threads : Announced(t))
  /\ \A t \in Threads : abandoned[t] => ~Unannounced(t)

Session ==
  Calm => /\ OneWorker /\ WorkerChannel /\ WorkerPath /\ HandlerChannel
          /\ IdleChannel /\ Offers /\ StatusMirrors

IInv == Base /\ Session

-----------------------------------------------------------------------------
(* The first layer.                                                        *)

\* The initial node is well formed and has no threads.
LEMMA InitBase == Init => Base
<1> SUFFICES ASSUME Init PROVE Base
  OBVIOUS
<1> USE MaxOpsAssumption DEF Init, Threads
<1>1. FlagTypes
  BY DEF FlagTypes
<1>4. FieldTypes
  BY DEF FieldTypes, DataModes, Statuses
<1>5. ThreadTypes
  BY DEF ThreadTypes, ThreadPcs
<1>2. HandlerOK /\ ThreadTable
  BY DEF HandlerOK, ThreadTable, ActivePcs
<1>3. LockHeld /\ NoFinalAfterEnd
  BY DEF LockHeld, Closing, NoFinalAfterEnd
<1> QED
  BY <1>1, <1>2, <1>3, <1>4, <1>5 DEF Base, TypeOK

\* The commands of the handler keep the first layer.
LEMMA CommandBase == Base /\ Command => Base'
<1> SUFFICES ASSUME Base, Command PROVE Base'
  OBVIOUS
<1> USE MaxOpsAssumption, TransfersAssumption
    DEF Base, TypeOK, FlagTypes, FieldTypes, ThreadTypes, HandlerOK,
        ThreadTable, LockHeld, NoFinalAfterEnd, Closing, Threads, DataModes, Statuses, ThreadPcs, ActivePcs, nodeVars, chanVars, xferVars,
        handVars, threadVars, ghostVars
<1>1. CASE Port
  BY <1>1 DEF Port, Ready, Listens, SetUp, Shut
<1>2. CASE Pasv
  BY <1>2 DEF Pasv, Ready, Listens, SetUp, Shut
<1>3. CASE Rest
  BY <1>3 DEF Rest, Ready, Listens, SetUp
<1>4. CASE StatListing
  BY <1>4 DEF StatListing, Ready, Listens
<1>5. ASSUME NEW k \in Transfers, BeginTransfer(k) PROVE Base'
  BY <1>5 DEF BeginTransfer, Ready, Listens, SetUp
<1>6. CASE Connect
  <2>1. FlagTypes'
    BY <1>6 DEF Connect, StatusOf
  <2>2. FieldTypes'
    BY <1>6 DEF Connect, StatusOf
  <2>3. ThreadTypes'
    <3>1. ops + 1 \in Threads /\ opening.kind \in Transfers
      BY <1>6 DEF Connect
    <3>2. ops' = ops + 1 /\ UNCHANGED <<file, abandoned>>
      BY <1>6 DEF Connect
    <3>3. tpc' \in [Threads -> ThreadPcs]
      BY <1>6, <3>1 DEF Connect
    <3>4. kind' \in [Threads -> Transfers \cup {"stat", "none"}]
      BY <1>6, <3>1 DEF Connect
    <3> QED
      BY <3>1, <3>2, <3>3, <3>4
  <2>4. HandlerOK'
    BY <1>6 DEF Connect, StatusOf
  <2>5. ThreadTable'
    <3>1. ops + 1 \in Threads /\ opening.kind \in Transfers /\ ops \in Nat
      BY <1>6 DEF Connect
    <3>2. ops' = ops + 1 /\ abandoned' = abandoned
      BY <1>6 DEF Connect
    <3>3. \A t \in Threads : t # ops + 1 => tpc'[t] = tpc[t] /\ kind'[t] = kind[t]
      BY <1>6, <3>1 DEF Connect
    <3>4. tpc'[ops + 1] \in {"none", "start"}
      BY <1>6, <3>1 DEF Connect
    <3> QED
      BY <3>1, <3>2, <3>3, <3>4
  <2>6. LockHeld' /\ NoFinalAfterEnd'
    BY <1>6 DEF Connect, StatusOf
  <2> QED
    BY <2>1, <2>2, <2>3, <2>4, <2>5, <2>6
<1>7. CASE OpenFails
  BY <1>7 DEF OpenFails
<1>8. CASE AborClose
  BY <1>8 DEF AborClose, Ready, Listens, Working
<1>9. CASE AborReset
  BY <1>9 DEF AborReset
<1>10. CASE Rein
  <2>1. FlagTypes'
    BY <1>10 DEF Rein, Ready, Listens
  <2>2. FieldTypes'
    BY <1>10 DEF Rein, Ready, Listens
  <2>3. ThreadTypes'
    BY <1>10 DEF Rein, Ready, Listens
  <2>4. HandlerOK'
    BY <1>10 DEF Rein, Ready, Listens
  <2>5. ThreadTable'
    BY <1>10 DEF Rein, Ready, Listens
  <2>6. LockHeld' /\ NoFinalAfterEnd'
    BY <1>10 DEF Rein, Ready, Listens
  <2> QED
    BY <2>1, <2>2, <2>3, <2>4, <2>5, <2>6
<1>11. CASE User
  <2>1. FlagTypes'
    BY <1>11 DEF User, Ready, Listens
  <2>2. FieldTypes'
    BY <1>11 DEF User, Ready, Listens
  <2>3. ThreadTypes'
    BY <1>11 DEF User, Ready, Listens
  <2>4. HandlerOK'
    BY <1>11 DEF User, Ready, Listens
  <2>5. ThreadTable'
    BY <1>11 DEF User, Ready, Listens
  <2>6. LockHeld' /\ NoFinalAfterEnd'
    BY <1>11 DEF User, Ready, Listens
  <2> QED
    BY <2>1, <2>2, <2>3, <2>4, <2>5, <2>6
<1>14. CASE UserEnters
  <2>1. FlagTypes'
    BY <1>14 DEF UserEnters
  <2>2. FieldTypes'
    BY <1>14 DEF UserEnters
  <2>3. ThreadTypes'
    BY <1>14 DEF UserEnters
  <2>4. HandlerOK'
    BY <1>14 DEF UserEnters
  <2>5. ThreadTable'
    BY <1>14 DEF UserEnters
  <2>6. LockHeld' /\ NoFinalAfterEnd'
    BY <1>14 DEF UserEnters
  <2> QED
    BY <2>1, <2>2, <2>3, <2>4, <2>5, <2>6
<1>12. CASE Pass
  <2>1. FlagTypes'
    BY <1>12 DEF Pass, Listens
  <2>2. FieldTypes'
    BY <1>12 DEF Pass, Listens
  <2>3. ThreadTypes'
    BY <1>12 DEF Pass, Listens
  <2>4. HandlerOK'
    BY <1>12 DEF Pass, Listens
  <2>5. ThreadTable'
    BY <1>12 DEF Pass, Listens
  <2>6. LockHeld' /\ NoFinalAfterEnd'
    BY <1>12 DEF Pass, Listens
  <2> QED
    BY <2>1, <2>2, <2>3, <2>4, <2>5, <2>6
<1>13. CASE ControlLost
  BY <1>13 DEF ControlLost, Listens
<1> QED
  BY <1>1, <1>2, <1>3, <1>4, <1>5, <1>6, <1>7, <1>8, <1>9, <1>10, <1>11, <1>12,
     <1>13, <1>14 DEF Command

\* The threads keep the first layer: the lock admits one of them at a time.
LEMMA ThreadBase == ASSUME NEW t \in Threads, Base, Thread(t) PROVE Base'
<1> USE MaxOpsAssumption, TransfersAssumption
    DEF Base, TypeOK, FlagTypes, FieldTypes, ThreadTypes, HandlerOK,
        ThreadTable, LockHeld, NoFinalAfterEnd, Closing, Threads, DataModes, Statuses, ThreadPcs, ActivePcs, nodeVars, chanVars, xferVars,
        handVars, threadVars, ghostVars, Goto
<1>1. CASE ThreadStart(t)
  <2>1. FlagTypes'
    BY <1>1 DEF ThreadStart, Sends
  <2>2. FieldTypes'
    <3>1. status' \in Statuses /\ late' \subseteq {"opening", "status", "final"}
      BY <1>1 DEF ThreadStart, Sends
    <3> QED
      BY <1>1, <3>1 DEF ThreadStart
  <2>3. ThreadTypes'
    <3>1. tpc' = [tpc EXCEPT ![t] = "list"] \/ tpc' = [tpc EXCEPT ![t] = "xfer"]
      BY <1>1 DEF ThreadStart
    <3>2. tpc' \in [Threads -> ThreadPcs]
      BY <3>1
    <3>3. file' \in [Threads -> 0..MaxOps]
      BY <1>1 DEF ThreadStart
    <3> QED
      BY <1>1, <3>2, <3>3 DEF ThreadStart
  <2>4. HandlerOK'
    BY <1>1 DEF ThreadStart, Sends
  <2>5. ThreadTable'
    BY <1>1 DEF ThreadStart, Sends
  <2>6. LockHeld' /\ NoFinalAfterEnd'
    BY <1>1 DEF ThreadStart, Sends
  <2> QED
    BY <2>1, <2>2, <2>3, <2>4, <2>5, <2>6
<1>2. CASE ThreadClose(t)
  BY <1>2 DEF ThreadClose
<1>3. CASE ThreadLock(t)
  <2>1. FlagTypes'
    BY <1>3 DEF ThreadLock
  <2>2. FieldTypes'
    BY <1>3 DEF ThreadLock
  <2>3. ThreadTypes'
    BY <1>3 DEF ThreadLock
  <2>4. HandlerOK'
    BY <1>3 DEF ThreadLock
  <2>5. ThreadTable'
    BY <1>3 DEF ThreadLock
  <2>6. LockHeld' /\ NoFinalAfterEnd'
    BY <1>3 DEF ThreadLock
  <2> QED
    BY <2>1, <2>2, <2>3, <2>4, <2>5, <2>6
<1>4. CASE ThreadCleanup(t)
  BY <1>4 DEF ThreadCleanup, NextPc, Release, Sends
<1>5. CASE ThreadLost(t)
  BY <1>5 DEF ThreadLost
<1>6. CASE ThreadList(t)
  <2>1. FlagTypes' /\ FieldTypes' /\ ThreadTypes'
    <3>1. late' \subseteq {"opening", "status", "final"}
      BY <1>6 DEF ThreadList, Sends
    <3>2. tpc' \in [Threads -> ThreadPcs]
      BY <1>6 DEF ThreadList
    <3> QED
      BY <1>6, <3>1, <3>2 DEF ThreadList
  <2>2. HandlerOK' /\ ThreadTable' /\ LockHeld' /\ NoFinalAfterEnd'
    BY <1>6 DEF ThreadList, Sends
  <2> QED
    BY <2>1, <2>2
<1>7. CASE ThreadCrashes(t)
  <2>1. FlagTypes' /\ FieldTypes' /\ ThreadTypes'
    <3>1. tpc' \in [Threads -> ThreadPcs]
      BY <1>7 DEF ThreadCrashes
    <3>2. FlagTypes'
      BY <1>7 DEF ThreadCrashes
    <3>3. FieldTypes'
      BY <1>7 DEF ThreadCrashes
    <3>4. ThreadTypes'
      BY <1>7, <3>1 DEF ThreadCrashes
    <3> QED
      BY <3>2, <3>3, <3>4
  <2>2. HandlerOK' /\ ThreadTable' /\ LockHeld' /\ NoFinalAfterEnd'
    BY <1>7 DEF ThreadCrashes
  <2> QED
    BY <2>1, <2>2
<1> QED
  BY <1>1, <1>2, <1>3, <1>4, <1>5, <1>6, <1>7 DEF Thread

\* Every step keeps the first layer.
LEMMA NextBase == Base /\ [Next]_vars => Base'
<1> SUFFICES ASSUME Base, [Next]_vars PROVE Base'
  OBVIOUS
<1> USE MaxOpsAssumption
    DEF Base, TypeOK, FlagTypes, FieldTypes, ThreadTypes, HandlerOK,
        ThreadTable, LockHeld, NoFinalAfterEnd, Closing, Threads, nodeVars, chanVars, xferVars, handVars, threadVars, ghostVars
<1>1. CASE Command
  BY <1>1, CommandBase
<1>2. CASE End
  <2>1. FlagTypes'
    BY <1>2 DEF End
  <2>2. FieldTypes'
    BY <1>2 DEF End
  <2>3. ThreadTypes'
    BY <1>2 DEF End
  <2>4. HandlerOK'
    BY <1>2 DEF End
  <2>5. ThreadTable'
    BY <1>2 DEF End
  <2>6. LockHeld' /\ NoFinalAfterEnd'
    BY <1>2 DEF End
  <2> QED
    BY <2>1, <2>2, <2>3, <2>4, <2>5, <2>6
<1>3. CASE Destroy
  <2>1. FlagTypes'
    BY <1>3 DEF Destroy
  <2>2. FieldTypes'
    BY <1>3 DEF Destroy
  <2>3. ThreadTypes'
    BY <1>3 DEF Destroy
  <2>4. HandlerOK'
    BY <1>3 DEF Destroy
  <2>5. ThreadTable'
    BY <1>3 DEF Destroy
  <2>6. LockHeld' /\ NoFinalAfterEnd'
    BY <1>3 DEF Destroy
  <2> QED
    BY <2>1, <2>2, <2>3, <2>4, <2>5, <2>6
<1>4. ASSUME NEW t \in Threads, Thread(t) PROVE Base'
  BY <1>4, ThreadBase
<1>5. CASE UNCHANGED vars
  BY <1>5 DEF vars
<1> QED
  BY <1>1, <1>2, <1>3, <1>4, <1>5 DEF Next

LEMMA BaseInvariant == Spec => []Base
  BY InitBase, NextBase, PTL DEF Spec

\* Every variable stays in its type, for every bound and set of transfers.
THEOREM TypeCorrect == Spec => []TypeOK
<1>1. Base => TypeOK
  BY DEF Base
<1> QED
  BY <1>1, BaseInvariant, PTL

\* Once client_node::end has had the lock, no transfer sends its final reply: a
\* thread that does holds ctrl_socket_lock_, and found the canal open under it.
THEOREM FinalsBeforeEnd == Spec => []NoFinalAfterEnd
<1>1. Base => NoFinalAfterEnd
  BY DEF Base
<1> QED
  BY <1>1, BaseInvariant, PTL

-----------------------------------------------------------------------------
(* The second layer.                                                       *)

LEMMA InitSession == Init => Session
  BY DEF Init, Session, Calm, OneWorker, WorkerChannel, WorkerPath,
         HandlerChannel, NoWorker, IdleChannel, Offers, StatusMirrors, Announced,
         Unannounced, Working, Threads

\* Calm, once lost, is lost for good: nothing has to be shown of a step that
\* loses it.
LEMMA CalmIsOld == Base /\ [Next]_vars /\ Calm' => Calm
<1> SUFFICES ASSUME Base, [Next]_vars, Calm' PROVE Calm
  OBVIOUS
<1> USE DEF Calm, nodeVars, chanVars, xferVars, handVars, threadVars, ghostVars
<1>1. CASE Command
  BY <1>1 DEF Command, Port, Pasv, Rest, StatListing, BeginTransfer, Connect,
     OpenFails, AborClose, AborReset, Rein, User, UserEnters, Pass, ControlLost, SetUp,
     Ready, Listens
<1>2. CASE End \/ Destroy
  BY <1>2 DEF End, Destroy
<1>3. ASSUME NEW t \in Threads, Thread(t) PROVE Calm
  BY <1>3 DEF Thread, ThreadStart, ThreadList, ThreadCrashes, ThreadClose, ThreadLock, ThreadCleanup, ThreadLost
<1>4. CASE UNCHANGED vars
  BY <1>4 DEF vars
<1> QED
  BY <1>1, <1>2, <1>3, <1>4 DEF Next

\* The 425 test, together with the client's patience, means that no thread is
\* at work when a channel is set up or a transfer begun.
LEMMA SetUpAlone ==
  ASSUME Base, Session, Calm, Calm', handler = "idle", Free, SetUp
  PROVE  NoWorker
  BY DEF Session, Calm, SetUp, Overlap, Free, StatusMirrors, Announced, NoWorker

LEMMA PortSession == Base /\ Session /\ Calm /\ Calm' /\ Port => Session'
<1> SUFFICES ASSUME Base, Session, Calm, Calm', Port PROVE Session'
  OBVIOUS
<1>1. NoWorker /\ NoWorker'
  <2>1. NoWorker
    BY SetUpAlone DEF Port, Ready, Listens
  <2> QED
    BY <2>1 DEF Port, threadVars, NoWorker, Working
<1>2. OneWorker' /\ WorkerChannel' /\ WorkerPath'
  BY <1>1 DEF NoWorker, OneWorker, WorkerChannel, WorkerPath
<1>3. HandlerChannel'
  BY DEF HandlerChannel, Port, Ready, Listens, handVars
<1>4. IdleChannel'
  BY DEF Session, IdleChannel, Port, Shut
<1>5. Offers'
  BY <1>1 DEF Session, IdleChannel, Offers, Port, Shut, NoWorker, xferVars, Base, TypeOK, FieldTypes
<1>6. StatusMirrors'
  BY <1>1
  DEF NoWorker, StatusMirrors, Announced, Unannounced, Working, Port, Free, xferVars
<1> QED
  BY <1>2, <1>3, <1>4, <1>5, <1>6 DEF Session

LEMMA PasvSession == Base /\ Session /\ Calm /\ Calm' /\ Pasv => Session'
<1> SUFFICES ASSUME Base, Session, Calm, Calm', Pasv PROVE Session'
  OBVIOUS
<1>1. NoWorker /\ NoWorker'
  <2>1. NoWorker
    BY SetUpAlone DEF Pasv, Ready, Listens
  <2> QED
    BY <2>1 DEF Pasv, threadVars, NoWorker, Working
<1>2. OneWorker' /\ WorkerChannel' /\ WorkerPath'
  BY <1>1 DEF NoWorker, OneWorker, WorkerChannel, WorkerPath
<1>3. HandlerChannel'
  BY DEF HandlerChannel, Pasv, Ready, Listens, handVars
<1>4. IdleChannel'
  BY DEF Session, IdleChannel, Pasv, Shut
<1>5. Offers'
  BY <1>1 DEF Session, IdleChannel, Offers, Pasv, Shut, NoWorker, xferVars, Base, TypeOK, FieldTypes
<1>6. StatusMirrors'
  BY <1>1
  DEF NoWorker, StatusMirrors, Announced, Unannounced, Working, Pasv, Free, xferVars
<1> QED
  BY <1>2, <1>3, <1>4, <1>5, <1>6 DEF Session

LEMMA RestSession == Base /\ Session /\ Calm /\ Calm' /\ Rest => Session'
<1> SUFFICES ASSUME Base, Session, Calm, Calm', Rest PROVE Session'
  OBVIOUS
<1>1. NoWorker /\ NoWorker'
  <2>1. NoWorker
    BY SetUpAlone DEF Rest, Ready, Listens
  <2> QED
    BY <2>1 DEF Rest, threadVars, NoWorker, Working
<1>2. OneWorker' /\ WorkerChannel' /\ WorkerPath'
  BY <1>1 DEF NoWorker, OneWorker, WorkerChannel, WorkerPath
<1>3. HandlerChannel'
  BY DEF HandlerChannel, Rest, Ready, Listens, handVars
<1>4. IdleChannel'
  BY DEF Session, IdleChannel, Rest, chanVars
<1>5. Offers'
  BY <1>1 DEF Session, Offers, Rest, NoWorker, chanVars
<1>6. StatusMirrors'
  BY <1>1
  DEF NoWorker, StatusMirrors, Announced, Unannounced, Working, Rest, Free
<1> QED
  BY <1>2, <1>3, <1>4, <1>5, <1>6 DEF Session

LEMMA BeginTransferSession ==
  ASSUME NEW k \in Transfers, Base, Session, Calm, Calm', BeginTransfer(k)
  PROVE  Session'
<1>1. NoWorker /\ NoWorker'
  <2>1. NoWorker
    BY SetUpAlone DEF BeginTransfer, Ready, Listens
  <2> QED
    BY <2>1 DEF BeginTransfer, threadVars, NoWorker, Working
<1>2. OneWorker' /\ WorkerChannel' /\ WorkerPath'
  BY <1>1 DEF NoWorker, OneWorker, WorkerChannel, WorkerPath
<1>3. HandlerChannel'
  BY <1>1 DEF HandlerChannel, BeginTransfer
<1>4. IdleChannel'
  BY DEF Session, IdleChannel, BeginTransfer
<1>5. Offers'
  BY <1>1 DEF Session, Offers, BeginTransfer, NoWorker, xferVars
<1>6. StatusMirrors'
  BY <1>1
  DEF NoWorker, StatusMirrors, Announced, Unannounced, Working, BeginTransfer, Free, xferVars
<1> QED
  BY <1>2, <1>3, <1>4, <1>5, <1>6 DEF Session

LEMMA ConnectSession == Base /\ Session /\ Calm /\ Calm' /\ Connect => Session'
<1> SUFFICES ASSUME Base, Session, Calm, Calm', Connect PROVE Session'
  OBVIOUS
<1> DEFINE new == ops + 1
<1>1. /\ NoWorker /\ offer = "none" /\ mode = opening.via /\ mode # "none"
      /\ status = "waiting" /\ new \in Threads /\ tpc[new] = "none"
      /\ ~abandoned[new]
  BY MaxOpsAssumption DEF Session, HandlerChannel, Connect, Base, HandlerOK,
     ThreadTable, StatusMirrors, Announced, NoWorker, Threads, TypeOK, ThreadTypes
<1>2. /\ mode' = mode /\ offer' = offer /\ abandoned' = abandoned
      /\ handler' = "idle" /\ sock' = "connected" /\ peer' = new
      /\ acceptor' # "listening"
  BY <1>1 DEF Connect, Session, IdleChannel
<1>3. \A t \in Threads : t # new => tpc'[t] = tpc[t] /\ kind'[t] = kind[t]
  BY <1>1 DEF Connect, Base, TypeOK, ThreadTypes
<1>4. \/ /\ tpc' = tpc /\ UNCHANGED <<xferVars, restOffer>>
      \/ /\ tpc'[new] = "start" /\ kind'[new] = "list"
         /\ UNCHANGED <<xferVars, restOffer>>
      \/ /\ tpc'[new] = "start" /\ kind'[new] \in Transfers \ {"list"}
         /\ status' # "waiting" /\ path' = new /\ restOffer' = FALSE
  BY <1>1 DEF Connect, Base, TypeOK, ThreadTypes, HandlerOK, StatusOf
<1>5. \A t \in Threads : Working(t)' => t = new /\ tpc'[new] = "start"
  BY <1>1, <1>3, <1>4 DEF NoWorker, Working
<1>6. OneWorker' /\ WorkerChannel'
  BY <1>1, <1>2, <1>5 DEF OneWorker, WorkerChannel
<1>7. WorkerPath'
  BY <1>1, <1>4, <1>5 DEF WorkerPath, Working
<1>8. HandlerChannel' /\ IdleChannel'
  BY <1>1, <1>2 DEF HandlerChannel, IdleChannel
<1>9. Offers'
  BY <1>1, <1>2, <1>4, <1>5 DEF Session, Offers, xferVars, Working
<1>10. StatusMirrors'
  BY <1>1, <1>2, <1>4, <1>5, TransfersAssumption
  DEF StatusMirrors, Announced, Working, Unannounced, xferVars
<1> QED
  BY <1>6, <1>7, <1>8, <1>9, <1>10 DEF Session

LEMMA OpenFailsSession == Base /\ Session /\ Calm /\ Calm' /\ OpenFails => Session'
<1> SUFFICES ASSUME Base, Session, Calm, Calm', OpenFails PROVE Session'
  OBVIOUS
<1>1. NoWorker /\ NoWorker' /\ offer = "none" /\ mode = opening.via /\ mode # "none"
  BY DEF Session, HandlerChannel, OpenFails, Base, HandlerOK, NoWorker, Working,
     threadVars
<1>2. OneWorker' /\ WorkerChannel' /\ WorkerPath'
  BY <1>1 DEF NoWorker, OneWorker, WorkerChannel, WorkerPath
<1>3. HandlerChannel' /\ IdleChannel'
  BY <1>1 DEF HandlerChannel, Session, IdleChannel, OpenFails
<1>4. Offers'
  BY <1>1 DEF Session, Offers, OpenFails, NoWorker, xferVars, ghostVars
<1>5. StatusMirrors'
  BY <1>1
  DEF NoWorker, StatusMirrors, Announced, Unannounced, Working, Session, OpenFails,
      xferVars
<1> QED
  BY <1>2, <1>3, <1>4, <1>5 DEF Session

\* Commands that leave the channel, the transfer fields and the workers alone.
LEMMA OtherCommandSession ==
  ASSUME Base, Session, Calm, Calm',
         StatListing \/ User \/ UserEnters \/ Pass \/ ControlLost
  PROVE  Session'
<1>1. /\ UNCHANGED <<chanVars, xferVars, ghostVars>>
      /\ handler' # "opening" /\ handler' # "aborting"
      /\ handler # "opening" /\ handler # "aborting"
  BY DEF StatListing, User, UserEnters, Pass, ControlLost, Ready, Listens, handVars, ghostVars
<1>2. \A t \in Threads : /\ Working(t)' <=> Working(t)
                         /\ Unannounced(t)' <=> Unannounced(t)
                         /\ Working(t) => tpc'[t] = tpc[t] /\ kind'[t] = kind[t]
                                          /\ file'[t] = file[t]
  <2>1. CASE StatListing
    <3>1. ops + 1 \in Threads /\ tpc[ops + 1] = "none"
      BY <2>1, MaxOpsAssumption
      DEF StatListing, Base, ThreadTable, TypeOK, ThreadTypes, Threads
    <3>2. /\ tpc'[ops + 1] = "start" /\ kind'[ops + 1] = "stat" /\ file' = file
          /\ \A t \in Threads : t # ops + 1 => tpc'[t] = tpc[t] /\ kind'[t] = kind[t]
      BY <2>1, <3>1 DEF StatListing, Base, TypeOK, ThreadTypes
    <3> QED
      BY <3>1, <3>2 DEF Working, Unannounced
  <2>2. CASE User \/ UserEnters \/ Pass \/ ControlLost
    BY <2>2 DEF User, UserEnters, Pass, ControlLost, threadVars, Working, Unannounced
  <2> QED
    BY <2>1, <2>2
<1>3. OneWorker' /\ WorkerChannel' /\ WorkerPath'
  BY <1>1, <1>2 DEF Session, OneWorker, WorkerChannel, WorkerPath, chanVars,
     xferVars, ghostVars
<1>4. HandlerChannel' /\ IdleChannel'
  BY <1>1 DEF Session, HandlerChannel, IdleChannel, chanVars
<1>5. Offers'
  BY <1>1, <1>2 DEF Session, Offers, NoWorker, chanVars, xferVars, ghostVars
<1>6. StatusMirrors'
  BY <1>1, <1>2 DEF Session, StatusMirrors, Announced, xferVars, ghostVars
<1> QED
  BY <1>3, <1>4, <1>5, <1>6 DEF Session

LEMMA AborCloseSession == Base /\ Session /\ Calm /\ Calm' /\ AborClose => Session'
<1> SUFFICES ASSUME Base, Session, Calm, Calm', AborClose PROVE Session'
  OBVIOUS
<1>1. PICK w \in Threads : Announced(w)
  BY DEF Session, StatusMirrors, AborClose, Ready, Listens, Free
<1>2. acceptor # "listening" /\ offer = "none"
  BY <1>1 DEF Session, Announced, WorkerChannel, Offers, NoWorker
<1>3. \A t \in Threads : /\ Working(t)' <=> Working(t)
                         /\ Working(t) => abandoned'[t]
  BY DEF AborClose, threadVars, Working
<1>4. OneWorker' /\ WorkerChannel' /\ WorkerPath'
  BY <1>2, <1>3 DEF AborClose, Session, OneWorker, WorkerChannel, WorkerPath
<1>5. HandlerChannel'
  BY <1>2, <1>3 DEF AborClose, HandlerChannel
<1>6. IdleChannel'
  BY <1>2 DEF AborClose, Session, IdleChannel
<1>7. Offers'
  BY <1>2, <1>3 DEF AborClose, Session, Offers, xferVars, threadVars
<1>8. StatusMirrors'
  <2>1. ASSUME NEW t \in Threads, abandoned'[t] PROVE ~Unannounced(t)'
    <3>1. abandoned[t] \/ t = w
      BY <1>1, <2>1 DEF AborClose, Session, OneWorker, Announced
    <3>2. ~Unannounced(t)
      BY <1>1, <3>1 DEF Session, StatusMirrors, Announced
    <3> QED
      BY <3>2 DEF AborClose, threadVars, Unannounced
  <2> QED
    BY <2>1 DEF AborClose, StatusMirrors
<1> QED
  BY <1>4, <1>5, <1>6, <1>7, <1>8 DEF Session

LEMMA AborResetSession == Base /\ Session /\ Calm /\ Calm' /\ AborReset => Session'
<1> SUFFICES ASSUME Base, Session, Calm, Calm', AborReset PROVE Session'
  OBVIOUS
<1>1. /\ sock = "closed" /\ acceptor # "listening" /\ offer = "none"
      /\ \A t \in Threads : Working(t) => abandoned[t]
  BY DEF Session, HandlerChannel, AborReset
<1>2. \A t \in Threads : Working(t)' <=> Working(t)
  BY DEF AborReset, threadVars, Working
<1>3. OneWorker' /\ WorkerChannel' /\ WorkerPath'
  BY <1>1, <1>2 DEF AborReset, Session, OneWorker, WorkerChannel, WorkerPath,
     threadVars, ghostVars
<1>4. HandlerChannel' /\ IdleChannel'
  BY <1>1 DEF AborReset, HandlerChannel, IdleChannel
<1>5. Offers'
  BY <1>1, <1>2 DEF AborReset, Session, Offers, threadVars, ghostVars
<1>6. StatusMirrors'
  BY <1>1, <1>2
  DEF AborReset, Session, StatusMirrors, Announced, Unannounced, ghostVars, threadVars
<1> QED
  BY <1>3, <1>4, <1>5, <1>6 DEF Session

\* The transfer threads.
LEMMA ThreadSession ==
  ASSUME NEW t \in Threads, Base, Session, Calm, Calm', Thread(t)
  PROVE  Session'
<1> USE DEF chanVars, xferVars, handVars, ghostVars, Goto
<1>1. /\ UNCHANGED <<acceptor, handler, opening, abandoned, offer, restOffer>>
      /\ tpc' = [tpc EXCEPT ![t] = tpc'[t]] /\ kind' = kind
      /\ \A s \in Threads : s # t => tpc'[s] = tpc[s]
  BY DEF Thread, ThreadStart, ThreadList, ThreadCrashes, ThreadClose, ThreadLock, ThreadCleanup, ThreadLost,
     Calm, Base, HandlerOK, TypeOK, ThreadTypes
<1>2. \A s \in Threads : /\ Working(s)' => Working(s)
                         /\ s # t => /\ Working(s)' <=> Working(s)
                                     /\ Unannounced(s)' <=> Unannounced(s)
  <2>1. Working(t)' => Working(t)
    BY <1>1 DEF Thread, ThreadStart, ThreadList, ThreadCrashes, ThreadClose, ThreadLock, ThreadCleanup, ThreadLost,
       Working, Closing, NextPc, Base, TypeOK, ThreadTypes
  <2> QED
    BY <1>1, <2>1 DEF Working, Unannounced
<1>3. OneWorker'
  BY <1>2 DEF Session, OneWorker
<1>4. CASE ThreadStart(t)
  <2>1. \/ /\ kind[t] = "list" /\ status' = "listing" /\ tpc'[t] = "list" /\ file' = file
        \/ kind[t] = "stat" /\ tpc'[t] = "list" /\ UNCHANGED <<status, file>>
        \/ /\ kind[t] \in {"retr", "stor", "appe"} /\ tpc'[t] = "xfer"
           /\ file'[t] = path /\ UNCHANGED status
    BY <1>4 DEF ThreadStart, Base, TypeOK, ThreadTypes
  <2>2. /\ UNCHANGED <<mode, sock, peer, restart, path>> /\ tpc[t] = "start"
        /\ \A s \in Threads : s # t => file'[s] = file[s]
    BY <1>4 DEF ThreadStart, Base, TypeOK, ThreadTypes
  <2>3. WorkerChannel'
    BY <1>1, <1>2, <2>2, <2>1 DEF Session, WorkerChannel, Working
  <2>4. WorkerPath'
    BY <1>1, <1>2, <2>1, <2>2 DEF Session, WorkerPath, Working
  <2>5. HandlerChannel' /\ IdleChannel'
    BY <1>1, <1>2, <2>2 DEF Session, HandlerChannel, IdleChannel, NoWorker
  <2>6. Offers'
    BY <1>1, <1>2, <2>2 DEF Session, Offers, NoWorker
  <2>7. StatusMirrors'
    BY <1>1, <1>2, <2>1, <2>2
    DEF Session, StatusMirrors, Announced, Working, Unannounced
  <2> QED
    BY <1>3, <2>3, <2>4, <2>5, <2>6, <2>7 DEF Session
<1>5. CASE ThreadClose(t)
  <2>1. Working(t)
    BY <1>5 DEF ThreadClose, Working, Base, ThreadTable, ActivePcs
  <2>2. /\ UNCHANGED <<mode, status, restart, path, file>>
        /\ sock' = "closed" /\ tpc[t] = "xfer" /\ tpc'[t] = "fin"
    BY <1>5 DEF ThreadClose, Base, TypeOK, ThreadTypes
  <2>3. \A s \in Threads : Working(s)' => s = t
    BY <1>2, <2>1 DEF Session, OneWorker
  <2>4. WorkerChannel' /\ WorkerPath'
    BY <1>1, <2>1, <2>2, <2>3 DEF Session, WorkerChannel, WorkerPath
  <2>5. HandlerChannel' /\ IdleChannel'
    BY <1>1, <1>2, <2>1, <2>2 DEF Session, HandlerChannel, IdleChannel, NoWorker
  <2>6. Offers'
    BY <1>1, <1>2, <2>1, <2>2 DEF Session, Offers, NoWorker
  <2>7. StatusMirrors'
    BY <1>1, <1>2, <2>1, <2>2
    DEF Session, StatusMirrors, Announced, Working, Unannounced
  <2> QED
    BY <1>3, <2>4, <2>5, <2>6, <2>7 DEF Session
<1>6. CASE ThreadLock(t)
  <2>1. Working(t)
    BY <1>6 DEF ThreadLock, Working, Base, ThreadTable, ActivePcs
  <2>2. /\ UNCHANGED <<mode, sock, peer, status, restart, path, file>>
        /\ tpc[t] = "fin" /\ tpc'[t] \in {"mode", "clear"}
    BY <1>6 DEF ThreadLock, Base, TypeOK, ThreadTypes, HandlerOK, Calm
  <2>3. \A s \in Threads : Working(s)' <=> Working(s)
    BY <1>1, <1>2, <2>1, <2>2 DEF Working
  <2>4. WorkerChannel' /\ WorkerPath'
    BY <1>1, <1>2, <2>2 DEF Session, WorkerChannel, WorkerPath
  <2>5. HandlerChannel' /\ IdleChannel'
    BY <1>1, <2>2, <2>3 DEF Session, HandlerChannel, IdleChannel, NoWorker
  <2>6. Offers'
    BY <1>1, <2>2, <2>3 DEF Session, Offers, NoWorker
  <2>7. StatusMirrors'
    BY <1>1, <1>2, <2>2, <2>3 DEF Session, StatusMirrors, Announced, Unannounced
  <2> QED
    BY <1>3, <2>4, <2>5, <2>6, <2>7 DEF Session
<1>7. CASE ThreadCleanup(t)
  <2>1. /\ UNCHANGED <<sock, peer, file>> /\ Closing(t)
        /\ tpc[t] = "clear" => tpc'[t] = "mode" /\ UNCHANGED <<mode, status>>
        /\ tpc[t] = "mode" => tpc'[t] = "status" /\ mode' = "none" /\ UNCHANGED <<status, path, restart>>
        /\ tpc[t] = "status" => tpc'[t] = "reply" /\ status' = "waiting" /\ UNCHANGED <<mode, path, restart>>
        /\ tpc[t] = "reply" => tpc'[t] = "done" /\ UNCHANGED <<mode, status, path, restart>>
    BY <1>7 DEF ThreadCleanup, NextPc, Base, TypeOK, ThreadTypes, FlagTypes, Closing
  <2>2. CASE tpc[t] = "reply"
    <3>1. UNCHANGED <<mode, status, path, restart>> /\ tpc'[t] = "done"
      BY <2>1, <2>2
    <3>2. \A s \in Threads : /\ Working(s)' <=> Working(s)
                             /\ Unannounced(s)' <=> Unannounced(s)
                             /\ Working(s) => s # t
      BY <1>1, <1>2, <2>2, <3>1 DEF Working, Unannounced
    <3>3. WorkerChannel' /\ WorkerPath'
      BY <1>1, <2>1, <3>1, <3>2 DEF Session, WorkerChannel, WorkerPath
    <3>4. HandlerChannel' /\ IdleChannel'
      BY <1>1, <2>1, <3>1, <3>2 DEF Session, HandlerChannel, IdleChannel, NoWorker
    <3>5. Offers'
      BY <1>1, <2>1, <3>1, <3>2 DEF Session, Offers, NoWorker
    <3>6. StatusMirrors'
      BY <1>1, <2>1, <3>1, <3>2 DEF Session, StatusMirrors, Announced
    <3> QED
      BY <1>3, <3>3, <3>4, <3>5, <3>6 DEF Session
  <2>3. CASE tpc[t] \in {"clear", "mode", "status"}
    <3>1. Working(t) /\ sock = "closed" /\ acceptor # "listening"
      BY <2>3 DEF Working, Base, ThreadTable, ActivePcs, Session, WorkerChannel
    <3>2. \A s \in Threads : Working(s) => s = t
      BY <3>1 DEF Session, OneWorker
    <3>3. offer = "none" /\ handler # "opening"
      BY <3>1 DEF Session, Offers, HandlerChannel, NoWorker
    <3>4. restOffer => UNCHANGED restart
      BY <2>1, <2>3, <3>1 DEF Session, Offers, Base, ThreadTable
    <3>5. WorkerChannel' /\ WorkerPath'
      BY <1>1, <1>2, <2>1, <2>3, <3>1, <3>2 DEF WorkerChannel, WorkerPath
    <3>6. HandlerChannel' /\ IdleChannel'
      BY <1>1, <1>2, <2>1, <3>1, <3>3 DEF Session, HandlerChannel, IdleChannel
    <3>7. Offers'
      BY <1>1, <1>2, <3>3, <3>4 DEF Session, Offers
    <3>8. StatusMirrors'
      <4>1. \A s \in Threads : Unannounced(s)' <=> Unannounced(s)
        BY <1>2, <2>1, <2>3 DEF Unannounced
      <4>2. CASE tpc[t] = "status"
        BY <1>1, <1>2, <2>1, <3>2, <4>1, <4>2
        DEF Session, StatusMirrors, Announced, Working
      <4>3. CASE tpc[t] \in {"clear", "mode"}
        <5>1. status' = status /\ Working(t)'
          BY <1>1, <2>1, <3>1, <4>3 DEF Working
        <5> QED
          BY <1>1, <1>2, <3>1, <4>1, <5>1 DEF Session, StatusMirrors, Announced
      <4> QED
        BY <2>3, <4>2, <4>3
    <3> QED
      BY <1>3, <3>5, <3>6, <3>7, <3>8 DEF Session
  <2> QED
    BY <2>1, <2>2, <2>3 DEF Closing
<1>8. CASE ThreadLost(t)
  BY <1>8 DEF ThreadLost, Base, HandlerOK, Calm
<1>9. CASE ThreadCrashes(t)
  BY <1>9 DEF ThreadCrashes, Calm
<1>10. CASE ThreadList(t)
  <2>1. /\ UNCHANGED <<mode, sock, peer, status, restart, path, file>>
        /\ tpc[t] = "list" /\ kind[t] \in {"list", "stat"}
        /\ tpc'[t] = IF kind[t] = "stat" THEN "done" ELSE "xfer"
    BY <1>10 DEF ThreadList, Base, ThreadTable, TypeOK, ThreadTypes
  <2>2. \A s \in Threads : /\ Working(s)' <=> Working(s)
                           /\ Unannounced(s)' <=> Unannounced(s)
    BY <1>1, <1>2, <2>1 DEF Working, Unannounced
  <2>3. WorkerChannel' /\ WorkerPath'
    BY <1>1, <2>1, <2>2 DEF Session, WorkerChannel, WorkerPath, Working
  <2>4. HandlerChannel' /\ IdleChannel'
    BY <1>1, <2>1, <2>2 DEF Session, HandlerChannel, IdleChannel, NoWorker
  <2>5. Offers'
    BY <1>1, <2>1, <2>2 DEF Session, Offers, NoWorker
  <2>6. StatusMirrors'
    BY <1>1, <2>1, <2>2 DEF Session, StatusMirrors, Announced
  <2> QED
    BY <1>3, <2>3, <2>4, <2>5, <2>6 DEF Session
<1> QED
  BY <1>4, <1>5, <1>6, <1>7, <1>8, <1>9, <1>10 DEF Thread

LEMMA NextSession == Base /\ Session /\ [Next]_vars => Session'
<1> SUFFICES ASSUME Base, Session, [Next]_vars, Calm' PROVE Session'
  BY DEF Session
<1>1. Calm
  BY CalmIsOld
<1>2. CASE Command
  <2>1. CASE Rein
    BY <2>1 DEF Rein, Calm
  <2> QED
    BY <1>1, <1>2, <2>1, PortSession, PasvSession, RestSession, BeginTransferSession,
       ConnectSession, OpenFailsSession, OtherCommandSession, AborCloseSession,
       AborResetSession
    DEF Command
<1>3. CASE End \/ Destroy
  BY <1>1, <1>3 DEF End, Destroy, Calm
<1>4. ASSUME NEW t \in Threads, Thread(t) PROVE Session'
  BY <1>1, <1>4, ThreadSession
<1>5. CASE UNCHANGED vars
  BY <1>5 DEF vars, nodeVars, chanVars, xferVars, handVars, threadVars, ghostVars,
     Session, Calm, OneWorker, WorkerChannel, WorkerPath, HandlerChannel, NoWorker,
     IdleChannel, Offers, StatusMirrors, Announced, Unannounced, Working
<1> QED
  BY <1>2, <1>3, <1>4, <1>5 DEF Next

THEOREM SessionInvariant == Spec => []IInv
<1>1. Init => IInv
  BY InitBase, InitSession DEF IInv
<1>2. IInv /\ [Next]_vars => IInv'
  BY NextBase, NextSession DEF IInv
<1> QED
  BY <1>1, <1>2, PTL DEF Spec

\* PORT, PASV, the transfers and ABOR never leave two threads that both take
\* data_socket_ for theirs.
THEOREM AtMostOneTransfer == Spec => []OneTransfer
<1>1. IInv => OneTransfer
  BY DEF IInv, Session, OneWorker, OneTransfer, Current
<1> QED
  BY <1>1, SessionInvariant, PTL

\* 425 is sent exactly while an announced transfer runs.
THEOREM StatusTellsTheTruth == Spec => []StatusExact
<1>1. IInv => StatusExact
  BY DEF IInv, Session, StatusMirrors, Announced, StatusExact, Current
<1> QED
  BY <1>1, SessionInvariant, PTL

\* A transfer thread works on its own connection and its own file.
THEOREM ThreadsOwnTheirData == Spec => []Ownership
<1>1. IInv => Ownership
  BY DEF IInv, Session, WorkerChannel, WorkerPath, Ownership, Current
<1> QED
  BY <1>1, SessionInvariant, PTL

\* Nothing is left open when no data channel is agreed upon.
THEOREM NothingLeftOpen == Spec => []IdleClean
<1>1. IInv => IdleClean
  BY DEF IInv, Session, IdleChannel, IdleClean
<1> QED
  BY <1>1, SessionInvariant, PTL

\* No bookkeeping of an earlier transfer takes back what a reply promised.
THEOREM OffersStand == Spec => []PromisesKept
<1>1. IInv => PromisesKept
  BY DEF IInv, Session, Offers, PromisesKept
<1> QED
  BY <1>1, SessionInvariant, PTL

-----------------------------------------------------------------------------
(***************************************************************************)
(* TransferSession implements DataChannel, for every MaxOps and every set  *)
(* of transfers.  The session invariant says who has the channel; what is  *)
(* still needed is that transfers are numbered in order (Numbered).        *)
(***************************************************************************)

\* Threads that are to come have no transfer, and there is a last one of those
\* that were.
Numbered ==
  /\ \A t \in Threads : t > ops => kind[t] = "none"
  /\ Carried # {} => \E t \in Carried : \A s \in Carried : s <= t

\* A step that makes a transfer, and one that does not.
Spawns(k) == /\ ops' = ops + 1 /\ ops + 1 \in Threads
             /\ kind' = [kind EXCEPT ![ops + 1] = k]

\* No transfer and no STAT listing is called none.
LEMMA NoneIsNone == "none" \notin Transfers /\ "stat" \notin Transfers
BY TransfersAssumption

\* Every step gives a kind to the next thread, or to none.
LEMMA KindSteps ==
  ASSUME Base, [Next]_vars
  PROVE  \/ kind' = kind /\ ops' \in {ops, ops + 1}
         \/ \E k \in Transfers \cup {"stat"} : Spawns(k)
<1> USE DEF nodeVars, chanVars, xferVars, handVars, threadVars, ghostVars
<1>1. CASE Connect
  <2>1. opening.kind \in Transfers /\ ops + 1 \in Threads
    BY <1>1, MaxOpsAssumption DEF Connect, Base, HandlerOK, TypeOK, ThreadTypes, Threads
  <2>2. /\ ops' = ops + 1
        /\ kind' = kind \/ kind' = [kind EXCEPT ![ops + 1] = opening.kind]
    BY <1>1 DEF Connect
  <2> QED
    BY <2>1, <2>2 DEF Spawns
<1>2. CASE StatListing
  <2>1. ops + 1 \in Threads
    BY <1>2, MaxOpsAssumption DEF StatListing, Base, TypeOK, ThreadTypes, Threads
  <2> QED
    BY <1>2, <2>1 DEF StatListing, Spawns
<1>3. CASE \/ Port \/ Pasv \/ Rest \/ \E k \in Transfers : BeginTransfer(k)
           \/ OpenFails \/ AborClose \/ AborReset
           \/ Rein \/ User \/ UserEnters \/ Pass \/ ControlLost
  BY <1>3 DEF Port, Pasv, Rest, BeginTransfer, OpenFails, AborClose, AborReset, Rein,
              User, UserEnters, Pass, ControlLost
<1>4. CASE End \/ Destroy
  BY <1>4 DEF End, Destroy
<1>5. ASSUME NEW t \in Threads, Thread(t) PROVE kind' = kind /\ ops' = ops
  BY <1>5 DEF Thread, ThreadStart, ThreadList, ThreadCrashes, ThreadClose, ThreadLock, ThreadCleanup, ThreadLost
<1>6. CASE UNCHANGED vars
  BY <1>6 DEF vars
<1> QED
  BY <1>1, <1>2, <1>3, <1>4, <1>5, <1>6 DEF Next, Command

\* What a new thread adds to the transfers.
LEMMA SpawnCarried ==
  ASSUME Base, Numbered, NEW k, Spawns(k)
  PROVE  Carried' = IF k \in Transfers THEN Carried \cup {ops + 1} ELSE Carried
<1>1. kind \in [Threads -> Transfers \cup {"stat", "none"}] /\ ops \in Nat
  BY MaxOpsAssumption DEF Base, TypeOK, ThreadTypes
<1>2. kind[ops + 1] = "none" /\ ops + 1 \in Threads
  BY <1>1 DEF Numbered, Spawns
<1>3. ops + 1 \notin Carried
  BY <1>2, NoneIsNone DEF Carried
<1>4. \A t \in Threads : kind'[t] = IF t = ops + 1 THEN k ELSE kind[t]
  BY <1>1 DEF Spawns
<1> QED
  BY <1>2, <1>3, <1>4 DEF Carried

LEMMA InitNumbered == Init => Numbered
BY NoneIsNone DEF Init, Numbered, Carried

LEMMA NextNumbered == Base /\ Numbered /\ [Next]_vars => Numbered'
<1> SUFFICES ASSUME Base, Numbered, [Next]_vars PROVE Numbered'
  OBVIOUS
<1>1. /\ ops \in Nat /\ kind \in [Threads -> Transfers \cup {"stat", "none"}]
      /\ \A t \in Threads : t \in Nat
  BY MaxOpsAssumption DEF Base, TypeOK, ThreadTypes, Threads
<1>2. CASE kind' = kind /\ ops' \in {ops, ops + 1}
  <2>1. Carried' = Carried
    BY <1>2 DEF Carried
  <2>2. \A t \in Threads : t > ops' => t > ops
    BY <1>1, <1>2
  <2> QED
    BY <1>2, <2>1, <2>2 DEF Numbered
<1>3. ASSUME NEW k \in Transfers \cup {"stat"}, Spawns(k) PROVE Numbered'
  <2>1. \A t \in Threads : t > ops' => kind'[t] = "none"
    BY <1>1, <1>3 DEF Spawns, Numbered
  <2>2. Carried' # {} => \E t \in Carried' : \A s \in Carried' : s <= t
    <3>1. CASE k \notin Transfers
      BY <1>3, <3>1, SpawnCarried DEF Numbered
    <3>2. CASE k \in Transfers
      <4>1. Carried' = Carried \cup {ops + 1}
        BY <1>3, <3>2, SpawnCarried
      <4>2. \A s \in Carried : s <= ops
        BY <1>1, NoneIsNone DEF Carried, Numbered
      <4>3. \A s \in Carried' : s <= ops + 1
        BY <1>1, <4>1, <4>2 DEF Carried
      <4> QED
        BY <4>1, <4>3
    <3> QED
      BY <3>1, <3>2
  <2> QED
    BY <2>1, <2>2 DEF Numbered
<1> QED
  BY <1>2, <1>3, KindSteps

LEMMA NumberedInvariant == Spec => [](IInv /\ Numbered)
<1>1. IInv /\ Numbered /\ [Next]_vars => Numbered'
  BY NextNumbered DEF IInv
<1> QED
  BY <1>1, InitNumbered, SessionInvariant, PTL DEF Spec

-----------------------------------------------------------------------------
(* The steps of the channel.                                               *)

Use == IF ~Calm \/ (handler # "opening" /\ Current = {}) THEN "free"
       ELSE IF handler = "opening" THEN "opening" ELSE "used"

Latest == IF Calm /\ Carried # {}
          THEN CHOOSE t \in Carried : \A s \in Carried : s <= t ELSE 0

\* The channel does what use, last and calm do.
LEMMA ChannelState ==
  ASSUME Use' = Use, Latest' = Latest, Calm' <=> Calm
  PROVE  UNCHANGED Channel!vars
BY DEF Channel!vars, Use, Latest

\* A step that begins no transfer and may end the one there is.
LEMMA EndsAtMost ==
  ASSUME IInv, Calm, Calm', handler' = "opening" <=> handler = "opening",
         Carried' = Carried, Current' \subseteq Current
  PROVE  [Channel!Next]_(Channel!vars)
<1>1. Latest' = Latest
  BY DEF Latest
<1>2. CASE Use' = Use
  BY <1>1, <1>2, ChannelState
<1>3. CASE Use' # Use
  <2>1. handler # "opening" /\ handler' # "opening" /\ Current' # Current
    BY <1>3 DEF Use
  <2>2. \A s, t \in Current : s = t
    BY DEF IInv, Session, OneWorker, Current
  <2>3. Current # {} /\ Current' = {}
    BY <2>1, <2>2
  <2>4. Use = "used" /\ Use' = "free"
    BY <2>1, <2>3 DEF Use
  <2>5. Channel!Release
    BY <1>1, <2>4 DEF Channel!Release, Use, Latest
  <2> QED
    BY <2>5 DEF Channel!Next
<1> QED
  BY <1>2, <1>3

\* An open that leads to no transfer.
LEMMA OpensInVain ==
  ASSUME IInv, Calm, Calm', handler = "opening", handler' # "opening",
         Carried' = Carried, Current' = {}
  PROVE  [Channel!Next]_(Channel!vars)
<1>1. Latest' = Latest
  BY DEF Latest
<1>2. Use = "opening" /\ Use' = "free"
  BY DEF Use
<1>3. Channel!Drop
  BY <1>1, <1>2 DEF Channel!Drop, Use, Latest
<1> QED
  BY <1>3 DEF Channel!Next

\* The commands that neither begin a transfer nor change a thread.
LEMMA CommandsAside ==
  ASSUME IInv, Numbered, Calm, Calm',
         \/ Port \/ Pasv \/ Rest \/ StatListing \/ AborClose \/ AborReset
         \/ Rein \/ User \/ UserEnters \/ Pass \/ ControlLost
  PROVE  [Channel!Next]_(Channel!vars)
<1> USE DEF nodeVars, chanVars, xferVars, handVars, threadVars, ghostVars
<1>1. handler' = "opening" <=> handler = "opening"
  BY DEF Port, Pasv, Rest, StatListing, AborClose, AborReset, Rein, User, UserEnters, Pass,
         ControlLost, Ready, Listens
<1>2. CASE StatListing
  <2>1. /\ ops + 1 \in Threads /\ tpc \in [Threads -> ThreadPcs]
        /\ kind \in [Threads -> Transfers \cup {"stat", "none"}]
    BY <1>2, MaxOpsAssumption DEF StatListing, IInv, Base, TypeOK, ThreadTypes, Threads
  <2>2. Spawns("stat")
    BY <1>2, <2>1 DEF StatListing, Spawns
  <2>3. Carried' = Carried
    BY <2>2, SpawnCarried, NoneIsNone DEF IInv
  <2>4. Current' \subseteq Current
    <3>1. \A t \in Threads \ {ops + 1} : tpc'[t] = tpc[t] /\ kind'[t] = kind[t]
      BY <1>2, <2>1 DEF StatListing
    <3>2. kind'[ops + 1] = "stat" /\ abandoned' = abandoned
      BY <1>2, <2>1 DEF StatListing
    <3> QED
      BY <3>1, <3>2 DEF Current, Working
  <2> QED
    BY <1>1, <2>3, <2>4, EndsAtMost
<1>3. CASE ~StatListing
  <2>1. kind' = kind /\ tpc' = tpc /\ \A t \in Threads : abandoned[t] => abandoned'[t]
    BY <1>3 DEF Port, Pasv, Rest, AborClose, AborReset, Rein, User, UserEnters, Pass, ControlLost
  <2>2. Carried' = Carried /\ Current' \subseteq Current
    BY <2>1 DEF Carried, Current, Working
  <2> QED
    BY <1>1, <2>2, EndsAtMost
<1> QED
  BY <1>2, <1>3

\* A transfer command opens the channel: the 425 test has seen to it that nobody
\* uses it.
LEMMA BeginOpens ==
  ASSUME IInv, Calm, Calm', NEW k \in Transfers, BeginTransfer(k)
  PROVE  [Channel!Next]_(Channel!vars)
<1>1. NoWorker /\ handler = "idle"
  BY SetUpAlone DEF BeginTransfer, Ready, Listens, IInv
<1>2. Current = {} /\ handler' = "opening" /\ Carried' = Carried
  BY <1>1 DEF NoWorker, Current, Carried, BeginTransfer, threadVars
<1>3. Use = "free" /\ Use' = "opening" /\ Latest' = Latest
  BY <1>1, <1>2 DEF Use, Latest
<1>4. Channel!Open
  BY <1>3 DEF Channel!Open, Use, Latest
<1> QED
  BY <1>4 DEF Channel!Next

\* The connection is the new transfer's, or nobody's.
LEMMA ConnectCarries ==
  ASSUME IInv, Numbered, Calm, Calm', Connect
  PROVE  [Channel!Next]_(Channel!vars)
<1> DEFINE new == ops + 1
           k == opening.kind
<1>1. /\ handler = "opening" /\ handler' = "idle" /\ NoWorker /\ k \in Transfers
      /\ abandoned' = abandoned
  BY DEF Connect, IInv, Session, HandlerChannel, Base, HandlerOK, ghostVars
<1>2. /\ ops \in Nat /\ new \in Threads /\ tpc \in [Threads -> ThreadPcs]
      /\ kind \in [Threads -> Transfers \cup {"stat", "none"}] /\ ~abandoned[new]
  BY <1>1, MaxOpsAssumption
  DEF Connect, IInv, Base, TypeOK, ThreadTypes, Threads, HandlerOK, ThreadTable
<1>3. CASE kind' = kind /\ tpc' = tpc
  <2>1. Carried' = Carried /\ Current' = {}
    BY <1>1, <1>3 DEF Carried, Current, NoWorker, Working
  <2> QED
    BY <1>1, <2>1, OpensInVain
<1>4. CASE kind' = [kind EXCEPT ![new] = k] /\ tpc' = [tpc EXCEPT ![new] = "start"]
  <2>1. Spawns(k)
    BY <1>2, <1>4 DEF Connect, Spawns
  <2>2. Carried' = Carried \cup {new}
    BY <1>1, <2>1, SpawnCarried DEF IInv
  <2>3. new \in Current'
    BY <1>1, <1>2, <1>4, NoneIsNone DEF Current, Working
  <2>4. Use = "opening" /\ Use' = "used"
    BY <1>1, <2>3 DEF Use
  <2>5. \A x \in Carried : x \in Nat /\ x < new
    BY <1>2, NoneIsNone DEF Carried, Numbered, Threads
  <2>6. Latest' = new
    <3>1. \A x \in Carried' : x <= new
      BY <1>2, <2>2, <2>5
    <3>2. \A y \in Carried' : (\A x \in Carried' : x <= y) => y = new
      BY <1>2, <2>2, <2>5
    <3> QED
      BY <2>2, <3>1, <3>2 DEF Latest
  <2>7. new > Latest
    <3>1. CASE Carried = {}
      BY <1>2, <3>1 DEF Latest
    <3>2. CASE Carried # {}
      <4>1. Latest \in Carried
        BY <3>2 DEF Latest, Numbered
      <4> QED
        BY <1>2, <2>5, <4>1
    <3> QED
      BY <3>1, <3>2
  <2> HIDE DEF new
  <2>8. PICK x \in Threads : x = new
    BY <1>2
  <2>9. Channel!Carry(x)
    BY <2>4, <2>6, <2>7, <2>8 DEF Channel!Carry, Use, Latest
  <2> QED
    BY <2>9 DEF Channel!Next
<1> QED
  BY <1>3, <1>4 DEF Connect

\* No connection came about.
LEMMA FailureDrops ==
  ASSUME IInv, Calm, Calm', OpenFails
  PROVE  [Channel!Next]_(Channel!vars)
<1>1. /\ handler = "opening" /\ handler' = "idle" /\ NoWorker
      /\ kind' = kind /\ tpc' = tpc
  BY DEF OpenFails, IInv, Session, HandlerChannel, threadVars
<1>2. Carried' = Carried /\ Current' = {}
  BY <1>1 DEF Carried, Current, NoWorker, Working
<1> QED
  BY <1>1, <1>2, OpensInVain

\* A thread goes on with its transfer, or ends it.
LEMMA ThreadsEnd ==
  ASSUME IInv, Calm, Calm', NEW t \in Threads, Thread(t)
  PROVE  [Channel!Next]_(Channel!vars)
<1>1. handler' = handler /\ kind' = kind /\ abandoned' = abandoned
  BY DEF Thread, ThreadStart, ThreadList, ThreadCrashes, ThreadClose, ThreadLock, ThreadCleanup, ThreadLost,
         handVars, ghostVars
<1>2. tpc \in [Threads -> ThreadPcs]
  BY DEF IInv, Base, TypeOK, ThreadTypes
<1>3. /\ \A s \in Threads \ {t} : tpc'[s] = tpc[s]
      /\ Working(t)' => Working(t)
  <2>1. CASE ThreadLost(t)
    BY <1>1, <1>2, <2>1 DEF ThreadLost, Goto, Working
  <2>2. CASE ThreadStart(t) \/ ThreadClose(t)
    BY <1>1, <1>2, <2>2 DEF ThreadStart, ThreadList, ThreadCrashes, ThreadClose, Goto, Working
  <2>3. CASE ThreadLock(t)
    BY <1>1, <1>2, <2>3 DEF ThreadLock, Goto, Working
  <2>5. CASE ThreadList(t) \/ ThreadCrashes(t)
    BY <1>1, <1>2, <2>5 DEF ThreadList, ThreadCrashes, Goto, Working
  <2>4. CASE ThreadCleanup(t)
    BY <1>1, <1>2, <2>4 DEF ThreadCleanup, Goto, Working, Closing, NextPc
  <2> QED
    BY <2>1, <2>2, <2>3, <2>4, <2>5 DEF Thread
<1>4. Carried' = Carried /\ Current' \subseteq Current
  BY <1>1, <1>3 DEF Carried, Current, Working
<1> QED
  BY <1>1, <1>4, EndsAtMost

\* The fields of the node, the handler and the detached threads keep the promise
\* of DataChannel: one transfer at a time, each with a connection of its own, for
\* any number of transfers.
THEOREM SessionImplementsChannel == Spec => ChannelKept
<1>1. Init => Channel!Init
  <2> SUFFICES ASSUME Init PROVE Channel!Init
    OBVIOUS
  <2>1. Calm /\ handler # "opening" /\ Current = {} /\ Carried = {}
    BY NoneIsNone DEF Init, Calm, Current, Working, Carried
  <2> QED
    BY <2>1 DEF Channel!Init
<1>2. IInv /\ Numbered /\ [Next]_vars => [Channel!Next]_(Channel!vars)
  <2> SUFFICES ASSUME IInv, Numbered, [Next]_vars PROVE [Channel!Next]_(Channel!vars)
    OBVIOUS
  <2>1. CASE ~Calm
    <3>1. ~Calm'
      BY <2>1, CalmIsOld DEF IInv
    <3> QED
      BY <2>1, <3>1, ChannelState DEF Use, Latest
  <2>2. CASE Calm /\ ~Calm'
    <3>1. Use' = "free" /\ Latest' = 0
      BY <2>2 DEF Use, Latest
    <3>2. Channel!Break
      BY <2>2, <3>1 DEF Channel!Break, Use, Latest
    <3> QED
      BY <3>2 DEF Channel!Next
  <2>3. CASE Calm /\ Calm'
    <3>1. CASE UNCHANGED vars
      <4>1. Use' = Use /\ Latest' = Latest
        BY <3>1 DEF vars, Use, Latest, Current, Carried, Working, Calm, nodeVars, handVars,
                    threadVars, ghostVars
      <4> QED
        BY <2>3, <4>1, ChannelState
    <3>2. CASE Command
      BY <2>3, <3>2, CommandsAside, BeginOpens, ConnectCarries, FailureDrops DEF Command
    <3>3. CASE End \/ Destroy
      <4>1. ~Calm' \/ ~Calm
        BY <3>3 DEF End, Destroy, Calm
      <4> QED
        BY <2>3, <4>1
    <3>4. CASE \E t \in Threads : Thread(t)
      BY <2>3, <3>4, ThreadsEnd
    <3> QED
      BY <3>1, <3>2, <3>3, <3>4 DEF Next
  <2> QED
    BY <2>1, <2>2, <2>3
<1> QED
  BY <1>1, <1>2, NumberedInvariant, PTL DEF Spec, ChannelKept, Channel!Spec
=============================================================================
