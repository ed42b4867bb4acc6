------------------------------ MODULE Accounts ------------------------------
(***************************************************************************)
(* The account table of ftp_server (user_manager::ftp_user_list_) and the  *)
(* operations of ftp_server and user_manager that configure it, as         *)
(* operators on a table: a function from the names that exist to           *)
(* [pass, dir, priv].  Every operation holds user_lock_ while it looks at  *)
(* or changes the list; names are unique, so the order of the list, which  *)
(* only find_user sees, is left out.                                       *)
(*                                                                         *)
(* A directory is a name; Directories are those that exist on the disk.    *)
(***************************************************************************)
EXTENDS Naturals, FiniteSets

CONSTANTS
  Names,        \* account names a configuration may hold
  Passwords,    \* passwords it may hold
  Paths,        \* directory names it may hold
  Privileges,   \* privilege sets
  Empty,        \* the empty string
  Anonymous,    \* the name "anonymous"
  FtpName,      \* the name "ftp"
  Dot,          \* the path "."
  AppDir,       \* what get_app_dir answers
  Links,        \* other names of directories, and what canonical makes of them
  Directories   \* the canonical paths of directories

ASSUME AccountsAssumption ==
  /\ Empty \in Names \cap Passwords \cap Paths
  /\ Anonymous \in Names /\ Anonymous # Empty
  /\ FtpName \notin {Empty, Anonymous}
  /\ AppDir \in Paths
  /\ Directories \subseteq Paths \ {Empty, Dot}
  /\ DOMAIN Links \subseteq Paths \ (Directories \cup {Empty, Dot, AppDir})
  /\ \A d \in DOMAIN Links : Links[d] \in Directories

Account == [pass : Passwords, dir : Directories, priv : Privileges]

\* The tables: functions from some of the names.
Tables == UNION {[S -> Account] : S \in SUBSET Names}

NoTable == [n \in {} |-> Empty]

-----------------------------------------------------------------------------
(* user_manager                                                            *)

\* simplify_path: a path that leads nowhere stays what it is.
Simplified(d) == IF d \in DOMAIN Links THEN Links[d] ELSE d

\* proccess_home_directory: an empty path and "." stand for the directory of
\* the application.
HomeDir(d) == Simplified(IF d \in {Empty, Dot} THEN AppDir ELSE d)

\* find_user
Exists(t, n) == n \in DOMAIN t

\* add_user succeeds for a name that is new and a directory that exists.
CanAdd(t, n, d) ==
  n # Empty /\ HomeDir(d) \in Directories /\ ~Exists(t, n)

Added(t, n, p, d, pr) ==
  [m \in DOMAIN t \cup {n} |->
     IF m = n THEN [pass |-> p, dir |-> HomeDir(d), priv |-> pr] ELSE t[m]]

\* delete_user, of a name that may be absent.
Deleted(t, n) == [m \in DOMAIN t \ {n} |-> t[m]]

\* The accounts set_user_password and set_user_privilege change: the empty name
\* stands for all.
Addressed(t, n) == IF n = Empty THEN DOMAIN t ELSE DOMAIN t \cap {n}

WithPassword(t, n, p) ==
  [m \in DOMAIN t |->
     IF m \in Addressed(t, n) THEN [t[m] EXCEPT !.pass = p] ELSE t[m]]

WithPrivilege(t, n, pr) ==
  [m \in DOMAIN t |->
     IF m \in Addressed(t, n) THEN [t[m] EXCEPT !.priv = pr] ELSE t[m]]

\* set_user_home_directory knows no such convention: it looks for the name.
CanMove(t, n, d) == HomeDir(d) \in Directories /\ Exists(t, n)

Moved(t, n, d) == [t EXCEPT ![n].dir = HomeDir(d)]

-----------------------------------------------------------------------------
(* ftp_server                                                              *)

\* ftp_server::add_user keeps the names of the anonymous account for itself.
CanRegister(t, n, d) == n \notin {Anonymous, FtpName} /\ CanAdd(t, n, d)

\* allow_anonymous, for is_allow_anonymous_ = on: fails only where the account
\* has to be made and cannot be.  delete_user's failure to find is no failure.
CanAllow(t, on, allow, d) == allow /\ ~on => CanAdd(t, Anonymous, d)

Allowed(t, on, allow, d, pr) ==
  IF allow THEN IF on THEN t ELSE Added(t, Anonymous, Empty, d, pr)
  ELSE IF on THEN Deleted(t, Anonymous) ELSE t
=============================================================================
