---------------------------- MODULE NativeServer ----------------------------
(***************************************************************************)
(* The two programs built without SERVER_APP: the Android application      *)
(* (MainActivity over the JNI functions) and the console program of        *)
(* main.cpp.  Both configure one YFtpServer with init_ftp_server, start    *)
(* and stop it (ftpserve_native.cpp), and the server's workers meanwhile   *)
(* serve connections (connection.cpp).                                     *)
(*                                                                         *)
(* Of a session only what the configuration can disturb is kept: whether   *)
(* its node is in the list of the anonymous account, the one account that  *)
(* is ever deleted, and whether a transfer thread uses the node.  Lists    *)
(* and running handlers keep a node alive; a transfer thread, which is     *)
(* detached with a raw this, does not.                                     *)
(***************************************************************************)
EXTENDS Accounts, Listener

CONSTANTS
  Forms,        \* what the fields of the screen, or the arguments, may say
  All, None,    \* privileges: FTP_USER_PRIV_ALL, and the 0 of g_ucPriv
  DefaultPort,  \* usPort_ of a new YFtpServer
  Width         \* number of values of an unsigned short

Form == [allow : BOOLEAN, user : Names, pass : Passwords, dir : Paths, port : Nat]

ASSUME FormsAssumption ==
  /\ Forms \subseteq Form /\ Forms # {}
  /\ {All, None} \subseteq Privileges
  /\ Width \in Nat \ {0} /\ DefaultPort \in 1 .. Width - 1

VARIABLES
  accounts,     \* the account table
  allowed,      \* is_allow_anonymous_
  usPort,       \* usPort_
  copy,         \* g_bAllowAnonymous, g_username, g_password, g_start_dir,
                \* g_ucPriv, g_listen_port
  ui,           \* where the main thread is: idle, configured, waiting, exited
  button,       \* what the button offers
  shown,        \* the fields at the latest start
  login,        \* per connection: its node and the anonymous account
  transfer,     \* per connection: a transfer thread runs
  recreated,    \* history: the screen was made anew while the server ran
  parted,       \* history: names the configuration has left
  roots,        \* history: directories of the configurations so far
  cut,          \* history: anonymous logins were ended while in use
  deserted      \* history: a session left its account during a transfer

configVars == <<accounts, allowed, usPort, copy, parted, roots, cut>>
screenVars == <<ui, button, shown, recreated>>
sessionVars == <<login, transfer, deserted>>

NewCopy == [allow |-> FALSE, user |-> Empty, pass |-> Empty, dir |-> Empty,
            priv |-> None, port |-> 0]

\* The process starts; of the fields nothing is said until they are used.
InitNative ==
  /\ accounts = NoTable
  /\ allowed = FALSE
  /\ usPort = DefaultPort
  /\ copy = NewCopy
  /\ ui = "idle"
  /\ button = "start"
  /\ shown = CHOOSE f \in Forms : TRUE
  /\ login = [c \in Conns |-> "none"]
  /\ transfer = [c \in Conns |-> FALSE]
  /\ recreated = FALSE
  /\ parted = {}
  /\ roots = {}
  /\ cut = FALSE
  /\ deserted = FALSE

-----------------------------------------------------------------------------
(* init_ftp_server, on the fields f.                                       *)

\* allow_anonymous is called, and succeeds.
Switches(f) == copy.allow # f.allow /\ CanAllow(accounts, allowed, f.allow, f.dir)

AfterAnonymous(f) ==
  IF Switches(f) THEN Allowed(accounts, allowed, f.allow, f.dir, All) ELSE accounts

\* Another name: the old account is to be deleted, which ftp_server::delete_user
\* does not do, and a new one is added.
Renames(f) == copy.user # f.user
Registers(f) == Renames(f) /\ CanRegister(AfterAnonymous(f), f.user, f.dir)

(* Mutant of Repasses: an account is never changed.                        *)
RepassesNever(f) == FALSE

\* The same name, another password.
Repasses(f) == /\ ~Renames(f) /\ copy.pass # f.pass
               /\ Addressed(AfterAnonymous(f), f.user) # {}

AfterUser(f) ==
  IF Registers(f) THEN Added(AfterAnonymous(f), f.user, f.pass, f.dir, All)
  ELSE IF Repasses(f) THEN WithPassword(AfterAnonymous(f), f.user, f.pass)
  ELSE AfterAnonymous(f)

\* set_user_home_directory(L"", ...) and set_user_privilege(L"", ...).
Moves(f) == copy.dir # f.dir /\ CanMove(AfterUser(f), Empty, f.dir)
AfterMove(f) == IF Moves(f) THEN Moved(AfterUser(f), Empty, f.dir) ELSE AfterUser(f)

Privilege(f) == IF Switches(f) \/ Registers(f) THEN All ELSE copy.priv
Grants(f) == Privilege(f) # All /\ DOMAIN AfterMove(f) # {}

Configured(f) ==
  IF Grants(f) THEN WithPrivilege(AfterMove(f), Empty, All) ELSE AfterMove(f)

(* Mutant of CopyOf: the name is kept although the account was not made.   *)
CopyAnyway(f) ==
  [allow |-> IF Switches(f) THEN f.allow ELSE copy.allow,
   user  |-> f.user,
   pass  |-> IF Renames(f) \/ Repasses(f) THEN f.pass ELSE copy.pass,
   dir   |-> IF Moves(f) THEN f.dir ELSE copy.dir,
   priv  |-> IF Grants(f) THEN All ELSE Privilege(f),
   port  |-> f.port]

CopyOf(f) ==
  [allow |-> IF Switches(f) THEN f.allow ELSE copy.allow,
   user  |-> IF Registers(f) THEN f.user
             ELSE IF Renames(f) THEN Empty ELSE copy.user,
   pass  |-> IF Registers(f) \/ Repasses(f) THEN f.pass ELSE copy.pass,
   dir   |-> IF Moves(f) THEN f.dir ELSE copy.dir,
   priv  |-> IF Grants(f) THEN All ELSE Privilege(f),
   port  |-> f.port]

\* What becomes of a node that is in no list and that no handler holds.
Unheld(busy) == IF busy THEN "dead" ELSE "none"

\* delete_user of the anonymous account: its client list is cleared, and with it
\* goes every node that no handler holds; a handler's node is doomed.  A login
\* that has found the account but is not in its list yet will enter a list that
\* nobody searches.
Dismisses(f) == Switches(f) /\ ~f.allow

Dismissed == [c \in Conns |->
  CASE login[c] = "member" -> IF serving[c] # Nothing THEN "doomed" ELSE Unheld(transfer[c])
    [] login[c] = "found" -> "stale"
    [] OTHER -> login[c]]

InUse == \E c \in Conns : login[c] = "member" /\ (transfer[c] \/ serving[c] # Nothing)

(* Mutant of Narrow: the port keeps its width.                             *)
NarrowNot(n) == n

\* SetListeningPort takes an unsigned short.
Narrow(n) == n % Width

InitFtpServer(f) ==
  /\ accounts' = Configured(f)
  /\ allowed' = IF Switches(f) THEN f.allow ELSE allowed
  /\ usPort' = IF copy.port # f.port THEN Narrow(f.port) ELSE usPort
  /\ copy' = CopyOf(f)
  /\ login' = IF Dismisses(f) THEN Dismissed ELSE login
  /\ cut' = (cut \/ (Dismisses(f) /\ InUse))
  /\ parted' = IF Renames(f) THEN parted \cup ({copy.user} \ {Empty}) ELSE parted
  /\ roots' = roots \cup {f.dir}
  /\ UNCHANGED <<transfer, deserted>>

-----------------------------------------------------------------------------
(* The main thread of both programs.                                       *)

\* The result of StartListening, and of the thread start that follows it.
Listens(r) ==
  /\ ui = "configured" /\ usPort # 0
  /\ StartServing(r)
  /\ UNCHANGED <<configVars, sessionVars, recreated, shown>>

DoesNotListen ==
  /\ ui = "configured"
  /\ StartFails(usPort # 0)
  /\ UNCHANGED <<configVars, sessionVars, recreated, shown, button>>

\* stop_ftp_server has asked the pool to stop and waits for it.
Stops ==
  /\ StopServing
  /\ ui' = "waiting"
  /\ UNCHANGED <<configVars, sessionVars, button, shown, recreated>>

\* is_stopped was seen in time, or was not.
Stopped ==
  /\ ui = "waiting" /\ Answered
  /\ UNCHANGED <<configVars, sessionVars, shown, recreated>>

GivesUp ==
  /\ ui = "waiting" /\ ~stopped
  /\ UNCHANGED <<configVars, sessionVars, shown, recreated, button,
                 acceptVars, serving, faults, poolVars>>

-----------------------------------------------------------------------------
(* MainActivity.                                                           *)

\* onClick begins with the same demands for the start and for the stop.
Complete(f) ==
  /\ f.dir # Empty
  /\ f.user # Empty => f.pass # Empty
  /\ f.allow \/ f.user # Empty

\* The JNI function refuses a port that is not positive,
Configure(f) ==
  IF f.port > 0 THEN InitFtpServer(f) ELSE UNCHANGED <<configVars, sessionVars>>

\* ... but nobody looks at its result.  A start needs an address in a wireless
\* network.
PressStart(f) ==
  /\ ui = "idle" /\ button = "start" /\ Complete(f)
  /\ Configure(f)
  /\ ui' = "configured"
  /\ shown' = f
  /\ UNCHANGED <<button, recreated, acceptVars, serving, faults, poolVars>>

AppListens(r) ==
  /\ Listens(r)
  /\ ui' = "idle" /\ button' = "stop"

AppDoesNotListen == DoesNotListen /\ ui' = "idle"

PressStop(f) == ui = "idle" /\ button = "stop" /\ Complete(f) /\ Stops

AppStopped == Stopped /\ ui' = "idle" /\ button' = "start"

AppGivesUp == GivesUp /\ ui' = "idle"

\* The system makes the screen anew, with a button as in the layout, while the
\* library stays loaded.
Recreate ==
  /\ ui = "idle"
  /\ button' = "start"
  /\ recreated' = (recreated \/ button = "stop")
  /\ UNCHANGED <<ui, shown, configVars, sessionVars,
                 acceptVars, serving, faults, poolVars>>

AppStep ==
  \/ \E f \in Forms : PressStart(f) \/ PressStop(f)
  \/ \E r \in Pools : AppListens(r)
  \/ AppDoesNotListen \/ AppStopped \/ AppGivesUp \/ Recreate

-----------------------------------------------------------------------------
(* main.                                                                   *)

ConsoleForms == {f \in Forms : f.allow /\ f.user = Empty /\ f.pass = Empty}

\* The arguments give a port and a directory; allow_anonymous may fail.
ConsoleInit(f) ==
  /\ ui = "idle" /\ button = "start"
  /\ f.port > 0
  /\ InitFtpServer(f)
  /\ ui' = IF Switches(f) THEN "configured" ELSE "exited"
  /\ shown' = f
  /\ UNCHANGED <<button, recreated, acceptVars, serving, faults, poolVars>>

ConsoleListens(r) ==
  /\ Listens(r)
  /\ ui' = "idle" /\ button' = "stop"

ConsoleFails == DoesNotListen /\ ui' = "exited"

Quit == ui = "idle" /\ button = "stop" /\ Stops

\* Whatever stop_ftp_server answers.
Exit ==
  /\ \/ Stopped /\ UNCHANGED button
     \/ GivesUp
  /\ ui' = "exited"

\* SIGINT or SIGTERM: handle_stop, once.
Signal(r) ==
  /\ Runs(r)
  /\ halted' = TRUE
  /\ UNCHANGED <<configVars, sessionVars, screenVars,
                 acceptVars, serving, faults, pc, crew, stopped, hasty>>

ConsoleStep ==
  \/ \E f \in ConsoleForms : ConsoleInit(f)
  \/ \E r \in Pools : ConsoleListens(r) \/ Signal(r)
  \/ ConsoleFails \/ Quit \/ Exit

-----------------------------------------------------------------------------
(* Connections.                                                            *)

unchangedAbove == <<configVars, screenVars>>

\* The accept loop and the pools, which do not look at the configuration.
ServerStep ==
  /\ \/ \E c \in Conns : Arrive(c) \/ SystemFails(c) \/ Rearm(c)
     \/ \E r \in Pools, c \in Conns : HandleAccept(r, c) \/ HandleFailure(r, c)
     \/ \E r \in Pools : RunBegins(r) \/ RunStarts(r) \/ WorkerLeaves(r) \/ RunEnds(r)
  /\ UNCHANGED <<unchangedAbove, sessionVars>>

\* A command begins.
Command(r, c) == Enter(r, c) /\ UNCHANGED <<unchangedAbove, sessionVars>>

\* USER anonymous, first half: a node that is logged in leaves its list; find_user.
FindAnonymous(c) ==
  /\ serving[c] # Nothing /\ login[c] \in {"none", "member", "doomed"}
  /\ Anonymous \in DOMAIN accounts
  /\ login' = [login EXCEPT ![c] = "found"]
  /\ UNCHANGED <<unchangedAbove, transfer, deserted, acceptVars, serving, faults, poolVars>>

\* ... second half: add_client, on the account that was found.
EnterAnonymous(c) ==
  /\ login[c] \in {"found", "stale"}
  /\ Leave(c, TRUE)
  /\ login' = [login EXCEPT ![c] = IF @ = "found" THEN "member" ELSE "orphan"]
  /\ UNCHANGED <<unchangedAbove, transfer, deserted>>

\* A doomed node goes with its handler.
Released(c, busy) == [login EXCEPT ![c] = IF @ = "doomed" THEN Unheld(busy) ELSE @]

\* A transfer command detaches its thread.
BeginTransfer(c) ==
  /\ login[c] \in {"member", "doomed"} /\ ~transfer[c]
  /\ Leave(c, TRUE)
  /\ transfer' = [transfer EXCEPT ![c] = TRUE]
  /\ login' = Released(c, TRUE)
  /\ UNCHANGED <<unchangedAbove, deserted>>

\* The thread ends; its last steps use the node.
EndTransfer(c) ==
  /\ transfer[c]
  /\ transfer' = [transfer EXCEPT ![c] = FALSE]
  /\ wild' = (login[c] = "dead")
  /\ UNCHANGED <<unchangedAbove, login, deserted, listening, next, accept, conn, arming,
                 undelivered, deaf, serving, faults, poolVars>>

\* A command that leaves the node in its list.
OtherCommand(c) ==
  /\ login[c] \notin {"found", "stale"}
  /\ Leave(c, TRUE)
  /\ login' = Released(c, transfer[c])
  /\ UNCHANGED <<unchangedAbove, transfer, deserted>>

\* REIN, or a USER that finds no account: the node leaves its list for none.  A
\* USER of another account takes it to that account's list.
Depart(c) ==
  /\ login[c] \in {"none", "member", "doomed"}
  /\ Leave(c, TRUE)
  /\ \/ /\ login' = [login EXCEPT ![c] = Unheld(transfer[c])]
        /\ deserted' = (deserted \/ transfer[c])
     \/ login' = [login EXCEPT ![c] = "none"] /\ UNCHANGED deserted
  /\ UNCHANGED <<unchangedAbove, transfer>>

\* The client has gone, or the account is full: end_work, and the connection
\* object goes as well.
LastCommand(c) ==
  /\ Leave(c, FALSE)
  /\ login' = [login EXCEPT ![c] = Unheld(transfer[c])]
  /\ deserted' = (deserted \/ transfer[c])
  /\ UNCHANGED <<unchangedAbove, transfer>>

SessionStep ==
  \/ \E r \in Pools, c \in Conns : Command(r, c)
  \/ \E c \in Conns : FindAnonymous(c) \/ EnterAnonymous(c) \/ BeginTransfer(c)
                      \/ EndTransfer(c) \/ OtherCommand(c) \/ Depart(c) \/ LastCommand(c)
=============================================================================
