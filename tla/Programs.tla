------------------------------ MODULE Programs ------------------------------
(***************************************************************************)
(* The three programs built from the one code base.  The preprocessor and  *)
(* the entry point choose: the Android application, the console program,   *)
(* or the stand-alone server.                                              *)
(***************************************************************************)
EXTENDS NativeServer, ServerApp

CONSTANT Builds   \* the programs considered

ASSUME BuildsAssumption == Builds \subseteq {"activity", "console", "server"}

VARIABLE build

nativeVars == <<configVars, screenVars, sessionVars, acceptVars, serving, faults, poolVars>>
vars == <<build, nativeVars, appVars>>

ProgramsInit ==
  /\ build \in Builds
  /\ InitNative /\ Init
  /\ InitApp
  /\ conf \in IF build = "server" THEN Configs ELSE {CHOOSE c \in Configs : TRUE}

\* Nothing is said of a process once it has used destroyed memory.
Next ==
  /\ ~wild
  /\ \/ /\ build # "server"
        /\ ServerStep \/ SessionStep
        /\ UNCHANGED <<build, appVars>>
     \/ build = "activity" /\ AppStep /\ UNCHANGED <<build, appVars>>
     \/ build = "console" /\ ui # "exited" /\ ConsoleStep /\ UNCHANGED <<build, appVars>>
     \/ build = "server" /\ AppNext /\ UNCHANGED <<build, nativeVars>>

Spec == ProgramsInit /\ [][Next]_vars

-----------------------------------------------------------------------------
(* Properties.                                                             *)

\* Type correctness of the three programs.
TypeOK ==
  /\ build \in {"activity", "console", "server"}
  /\ listening \in BOOLEAN /\ halted \in BOOLEAN /\ stopped \in BOOLEAN
  /\ next \in Conns \cup {Nothing}
  /\ accept \in [Conns -> {"none", "pending", "ready", "failed"}]
  /\ conn \in [Conns -> {"none", "waiting", "open"}]
  /\ arming \in [Conns -> Pools \cup {Nothing}]
  /\ serving \in [Conns -> Pools \cup {Nothing}]
  /\ pc \in [Pools -> {"none", "spawned", "begun", "pool"}]
  /\ crew \in [Pools -> 0 .. PoolSize]
  /\ accounts \in Tables /\ table \in Tables
  /\ usPort \in 0 .. Width - 1
  /\ ui \in {"idle", "configured", "waiting", "exited"}
  /\ button \in {"start", "stop"}
  /\ shown \in Form
  /\ login \in [Conns -> {"none", "found", "stale", "member", "doomed", "orphan", "dead"}]
  /\ phase \in {"anonymous", "users", "range", "serving", "failed"}

\* A user who does not stop before the server has begun, and whose screen is not
\* made anew while it runs.
Calm == ~hasty /\ ~recreated

\* However starts, stops and stops that time out follow each other, the calm
\* user never has two pools: a start finds every thread of the last one gone.
OnePool == Calm => Cardinality(Alive) <= 1

\* The button of the calm user tells the truth: while it offers a start, nothing
\* listens and no pool has a thread left.  (Transfer threads, which no pool
\* knows of, may outlive the stop.)
ButtonTellsTruth ==
  Calm /\ ui = "idle" /\ button = "start" => ~listening /\ Alive = {}

\* Destroyed memory is used only where listening began again before the handler
\* of an accepted connection had run, where the anonymous logins were ended in
\* use, or where a session left its account during its own transfer.
MemoryKept == wild => undelivered \/ cut \/ deserted

\* The calm user's configuration changes never come between find_user and
\* add_client of a login, so every node is in a list that is searched.
NodesReachable == Calm => \A c \in Conns : login[c] # "orphan"

\* Unless the system failed an accept, or listening began again before the
\* handler of an accepted connection had run, a listening server has an accept
\* under way, or a worker about to start it.
KeepsAccepting ==
  listening /\ ~deaf /\ ~undelivered /\ ~wild =>
    accept[next] \in {"pending", "ready"} \/ \E c \in Conns : arming[c] # Nothing

\* The copies init_ftp_server keeps of the last configuration describe the
\* accounts that exist: the anonymous login, the name and the password.
CopiesAgree ==
  /\ copy.allow = allowed
  /\ allowed = (Anonymous \in DOMAIN accounts)
  /\ copy.user # Empty =>
       /\ copy.user \in DOMAIN accounts
       /\ accounts[copy.user].pass = copy.pass

\* A form the code can do justice to: the port is one, the directory is one, the
\* name is not reserved, and it is not one the configuration has left before.
Ordinary(f) ==
  /\ f.port \in 1 .. Width - 1
  /\ HomeDir(f.dir) \in Directories
  /\ f.user \notin parted \cup {Anonymous, FtpName}

\* While the button offers to stop, the server is what the fields said when it
\* was started: the port, the anonymous login, the user and the password; and
\* the directory, if no other was ever configured.
ShownIsServed ==
  build = "activity" /\ button = "stop" /\ ui = "idle" /\ Ordinary(shown) =>
    /\ usPort = shown.port
    /\ (Anonymous \in DOMAIN accounts) = shown.allow
    /\ shown.user # Empty =>
         /\ shown.user \in DOMAIN accounts
         /\ accounts[shown.user].pass = shown.pass
         /\ roots = {shown.dir} => accounts[shown.user].dir = HomeDir(shown.dir)

\* The stand-alone server serves exactly the accounts its file defines: of each
\* name the first acceptable line above the first missing one, and the anonymous
\* account where the file allows it.
AccountsAsConfigured ==
  phase = "serving" =>
    LET named == {n \in Names : Defining(n) # {}}
        anonymous == conf.anonymous # NoLine /\ conf.anonymous.allow
    IN
    /\ DOMAIN table = named \cup (IF anonymous THEN {Anonymous} ELSE {})
    /\ \A n \in named : \A i \in Defining(n) :
         table[n] = [pass |-> conf.users[i].pass, dir |-> HomeDir(conf.users[i].dir),
                     priv |-> conf.users[i].priv]
    /\ anonymous => table[Anonymous].dir = HomeDir(conf.anonymous.dir)

=============================================================================
