------------------------------ MODULE ServerApp ------------------------------
(***************************************************************************)
(* The stand-alone server (SERVER_APP): FtpServerApp of main.cpp reads the *)
(* accounts and the port range from the configuration, line by line, and   *)
(* then leaves the connections to the ycommon framework.                   *)
(*                                                                         *)
(* A configured path is the path after it was joined to root_dir.  A line  *)
(* without the right number of fields is Malformed; NoLine is an entry     *)
(* that is empty, or a missing one whose default is empty, too: a missing  *)
(* allow_anonymous stands for a line.                                      *)
(***************************************************************************)
EXTENDS Accounts, Sequences

CONSTANTS
  Configs,      \* configuration files
  Malformed, NoLine,
  PortWidth     \* number of values of an unsigned short

AnonymousLine == [allow : BOOLEAN, dir : Paths, priv : Privileges]
UserLine == [user : Names \cup {FtpName}, pass : Passwords, dir : Paths, priv : Privileges]
RangeLine == [first : Nat, last : Nat]

Config == [anonymous : AnonymousLine \cup {Malformed, NoLine},
           users : Seq(UserLine \cup {Malformed, NoLine}),
           range : RangeLine \cup {Malformed, NoLine}]

ASSUME ConfigsAssumption ==
  /\ Configs \subseteq Config
  /\ Malformed # NoLine
  /\ {Malformed, NoLine} \cap (AnonymousLine \cup UserLine \cup RangeLine) = {}
  /\ PortWidth \in Nat \ {0}

VARIABLES
  conf,         \* the configuration file
  table,        \* the account table
  anonymousOn,  \* is_allow_anonymous_
  line,         \* user_index
  haveUser,     \* have_user
  range,        \* data_port_range_, as [start, num]
  phase         \* where main is: anonymous, users, range, then serving or failed

appVars == <<conf, table, anonymousOn, line, haveUser, range, phase>>

InitApp ==
  /\ table = NoTable
  /\ anonymousOn = FALSE
  /\ line = 0
  /\ haveUser = FALSE
  /\ range = [start |-> 0, num |-> 0]
  /\ phase = "anonymous"

-----------------------------------------------------------------------------
(* FtpServerApp::main                                                      *)

\* allow_anonymous: fatal when it is malformed or refused.
ReadAnonymous ==
  LET a == conf.anonymous
      ok == a \notin {Malformed, NoLine} /\ CanAllow(table, anonymousOn, a.allow, a.dir)
  IN
  /\ phase = "anonymous"
  /\ table' = IF ok THEN Allowed(table, anonymousOn, a.allow, a.dir, a.priv) ELSE table
  /\ anonymousOn' = IF ok THEN a.allow ELSE anonymousOn
  /\ phase' = IF ok \/ a = NoLine THEN "users" ELSE "failed"
  /\ UNCHANGED <<conf, line, haveUser, range>>

Line(i) == IF i \in DOMAIN conf.users THEN conf.users[i] ELSE NoLine

(* Mutant of ReadUser: a malformed line ends the list.                     *)
ReadUserStrictly ==
  LET i == line + 1
      u == Line(i)
      ok == u # Malformed /\ CanRegister(table, u.user, u.dir)
  IN
  /\ phase = "users" /\ u # NoLine
  /\ line' = i
  /\ table' = IF ok THEN Added(table, u.user, u.pass, u.dir, u.priv) ELSE table
  /\ haveUser' = (haveUser \/ u # Malformed)
  /\ phase' = IF u = Malformed THEN "range" ELSE phase
  /\ UNCHANGED <<conf, anonymousOn, range>>

\* ftp.server.user1, user2, ...: a line that is malformed or refused is skipped;
\* one that is refused still counts as a user.
ReadUser ==
  LET i == line + 1
      u == Line(i)
      ok == u # Malformed /\ CanRegister(table, u.user, u.dir)
  IN
  /\ phase = "users" /\ u # NoLine
  /\ line' = i
  /\ table' = IF ok THEN Added(table, u.user, u.pass, u.dir, u.priv) ELSE table
  /\ haveUser' = (haveUser \/ u # Malformed)
  /\ UNCHANGED <<conf, anonymousOn, range, phase>>

\* The first index without an entry ends the list.
EndOfUsers ==
  /\ phase = "users" /\ Line(line + 1) = NoLine
  /\ line' = line + 1
  /\ phase' = IF conf.anonymous = NoLine /\ ~haveUser THEN "failed" ELSE "range"
  /\ UNCHANGED <<conf, table, anonymousOn, haveUser, range>>

\* set_data_port_range refuses the ports up to 1024 and an empty range.
Usable(start, number) == start > 1024 /\ number # 0

\* pasv_port_range; without a usable one the server starts, too.  The number of a range that ends before
\* it begins is negative here, a huge unsigned number in the code.
ReadRange ==
  LET r == conf.range
      start == r.first % PortWidth
      number == (r.last % PortWidth) - start + 1
      set == r \notin {Malformed, NoLine} /\ Usable(start, number)
  IN
  /\ phase = "range"
  /\ range' = IF set THEN [start |-> start, num |-> number] ELSE range
  /\ phase' = "serving"
  /\ UNCHANGED <<conf, table, anonymousOn, line, haveUser>>

AppNext == ReadAnonymous \/ ReadUser \/ EndOfUsers \/ ReadRange

-----------------------------------------------------------------------------
(* What the configuration file means.                                      *)

\* The lines that are read, and those of them that make an account: the first
\* acceptable one of each name.
Read == {i \in DOMAIN conf.users : \A j \in 1 .. i : conf.users[j] # NoLine}

Acceptable(i) ==
  /\ conf.users[i] # Malformed
  /\ conf.users[i].user \notin {Empty, Anonymous, FtpName}
  /\ HomeDir(conf.users[i].dir) \in Directories

Defining(n) ==
  {i \in Read : /\ Acceptable(i) /\ conf.users[i].user = n
                /\ \A j \in 1 .. i - 1 : Acceptable(j) => conf.users[j].user # n}
=============================================================================
