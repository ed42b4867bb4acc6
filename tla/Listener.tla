------------------------------ MODULE Listener ------------------------------
(***************************************************************************)
(* YFtpServer (server.cpp): the acceptor, the chain of asynchronous        *)
(* accepts and the pools of threads that run the io_service, with          *)
(* start_ftp_server and stop_ftp_server (ftpserve_native.cpp), which       *)
(* another thread, the program's main thread, calls.                       *)
(*                                                                         *)
(* A pool is one execution of run, on a detached thread of its own.  Its   *)
(* workers execute the completion handlers of accepts and of connections;  *)
(* they leave when the io_service is stopped, a worker inside a handler    *)
(* only after it.  StartListening, StopListening, and each half of         *)
(* handle_accept are one step: start_accept comes after start().           *)
(*                                                                         *)
(* An accept operation is known by the connection object whose socket it   *)
(* fills.  The object lives as long as new_connection_ or its handlers     *)
(* hold it, an operation does not.  Once an operation or a handler works   *)
(* on the wrong object, nothing more is said of the process (wild).        *)
(***************************************************************************)
EXTENDS Naturals, FiniteSets

CONSTANTS
  Conns,        \* connection objects; one that is destroyed is made again
  Pools,        \* executions of run; one that has ended may start again
  Nothing,      \* no connection, no execution of run
  PoolSize,     \* thread_pool_size_
  MaxFaults     \* bound on the accepts the system fails

ASSUME ListenerAssumption ==
  /\ Nothing \notin Conns \cup Pools
  /\ IsFiniteSet(Conns)
  /\ PoolSize \in Nat \ {0}
  /\ MaxFaults \in Nat

VARIABLES
  listening,    \* bIsListening; the acceptor is open
  next,         \* new_connection_
  accept,       \* per connection: its accept operation
  conn,         \* per connection: waiting to be accepted, open, or not made
  arming,       \* per connection: the pool whose worker is between start and
                \* start_accept in the handler of its accept
  serving,      \* per connection: the pool whose worker is in its handler
  pc,           \* per execution of run: where it is
  crew,         \* per execution of run: its workers that have not left
  halted,       \* io_service_.stopped()
  stopped,      \* is_stopped
  wild,         \* memory of a destroyed object was used
  faults,       \* accepts the system has failed
  hasty,        \* history: a stop was answered before run had begun
  undelivered,  \* history: listening began again before the completion of an
                \* earlier accept was handled
  deaf          \* history: since listening began the system has failed an accept

acceptVars == <<listening, next, accept, conn, arming, undelivered, deaf, wild>>
poolVars == <<pc, crew, halted, stopped, hasty>>

Init ==
  /\ listening = FALSE
  /\ next = Nothing
  /\ accept = [c \in Conns |-> "none"]
  /\ conn = [c \in Conns |-> "none"]
  /\ arming = [c \in Conns |-> Nothing]
  /\ serving = [c \in Conns |-> Nothing]
  /\ pc = [r \in Pools |-> "none"]
  /\ crew = [r \in Pools |-> 0]
  /\ halted = FALSE
  /\ stopped = TRUE
  /\ wild = FALSE
  /\ faults = 0
  /\ hasty = FALSE
  /\ undelivered = FALSE
  /\ deaf = FALSE

Busy(r) == {c \in Conns : arming[c] = r} \cup {c \in Conns : serving[c] = r}

\* A worker of pool r waits in io_service::run,
Idle(r) == crew[r] > Cardinality(Busy(r))

\* ... and takes the next completion.
Runs(r) == ~halted /\ Idle(r)

Alive == {r \in Pools : pc[r] # "none" \/ crew[r] > 0}

\* Accepts whose handler is still to come, or to finish.
Undelivered == {c \in Conns : accept[c] = "ready" \/ arming[c] # Nothing}

Fresh == {c \in Conns : conn[c] = "none" /\ accept[c] = "none" /\ arming[c] = Nothing}

-----------------------------------------------------------------------------
(* The acceptor.                                                           *)

(* Mutant of Cancelled: the acceptor is not closed.                        *)
CancelledNot == accept

\* acceptor_.cancel and close: what was pending completes with an error.
Cancelled == [c \in Conns |-> IF accept[c] = "pending" THEN "failed" ELSE accept[c]]

\* start_accept, on the accept operations ops: a new object replaces the one
\* that waited.  On a closed acceptor the operation fails at once.
StartAccept(ops, open) ==
  \E new \in Fresh :
    /\ next' = new
    /\ accept' = [ops EXCEPT ![new] = IF open THEN "pending" ELSE "failed"]
    /\ conn' = [c \in Conns |-> IF c = new THEN "waiting"
                                ELSE IF conn[c] = "waiting" THEN "none" ELSE conn[c]]
    /\ wild' = (next # Nothing /\ ops[next] = "pending")

\* StartListening on a port that can be bound, and the thread that will
\* execute run.
StartServing(r) ==
  /\ pc[r] = "none"
  /\ listening' = TRUE
  /\ StartAccept(Cancelled, TRUE)
  /\ undelivered' = (undelivered \/ Undelivered # {})
  /\ deaf' = FALSE
  /\ pc' = [pc EXCEPT ![r] = "spawned"]
  /\ UNCHANGED <<arming, serving, crew, halted, stopped, faults, hasty>>

\* StartListening without success: it has stopped listening before it tried,
\* unless there was no port to try.
StartFails(tried) ==
  /\ listening' = (listening /\ ~tried)
  /\ accept' = IF tried THEN Cancelled ELSE accept
  /\ UNCHANGED <<next, conn, arming, undelivered, deaf, wild, serving, faults, poolVars>>

\* stop_ftp_server up to its wait: StopListening, io_service_.stop.
StopServing ==
  /\ listening' = FALSE
  /\ accept' = Cancelled
  /\ halted' = TRUE
  /\ UNCHANGED <<next, conn, arming, undelivered, deaf, wild, serving, faults,
                 pc, crew, stopped, hasty>>

\* IsStoped ends the wait.
Answered ==
  /\ stopped
  /\ hasty' = (hasty \/ \E r \in Pools : pc[r] = "spawned")
  /\ UNCHANGED <<acceptVars, serving, faults, pc, crew, halted, stopped>>

\* A client connects; the bound on connections leaves room for the next object.
Arrive(c) ==
  /\ accept[c] = "pending" /\ Fresh # {}
  /\ accept' = [accept EXCEPT ![c] = "ready"]
  /\ UNCHANGED <<listening, next, conn, arming, undelivered, deaf, wild, serving,
                 faults, poolVars>>

\* accept fails: there are no descriptors left.
SystemFails(c) ==
  /\ accept[c] = "pending" /\ faults < MaxFaults
  /\ accept' = [accept EXCEPT ![c] = "failed"]
  /\ faults' = faults + 1
  /\ deaf' = TRUE
  /\ UNCHANGED <<listening, next, conn, arming, undelivered, wild, serving, poolVars>>

\* connection::start: the 220, and the first read.
Started(c) == [conn EXCEPT ![c] = "open"]

\* handle_accept: new_connection_ is started, which is the connection accepted
\* unless start_accept has replaced it.
HandleAccept(r, c) ==
  /\ Runs(r) /\ accept[c] = "ready"
  /\ accept' = [accept EXCEPT ![c] = "none"]
  /\ arming' = [arming EXCEPT ![c] = r]
  /\ conn' = IF next = c THEN Started(c) ELSE conn
  /\ wild' = (next # c)
  /\ UNCHANGED <<listening, next, undelivered, deaf, serving, faults, poolVars>>

(* Mutant of Rearm: the accept loop ends with the first connection.        *)
RearmForgets(c) ==
  /\ arming[c] # Nothing
  /\ arming' = [arming EXCEPT ![c] = Nothing]
  /\ UNCHANGED <<listening, next, accept, conn, wild, undelivered, deaf, serving, faults,
                 poolVars>>

\* ... and the next accept is started.
Rearm(c) ==
  /\ arming[c] # Nothing
  /\ StartAccept(accept, listening)
  /\ arming' = [arming EXCEPT ![c] = Nothing]
  /\ UNCHANGED <<listening, undelivered, deaf, serving, faults, poolVars>>

\* handle_accept with an error starts no other accept.
HandleFailure(r, c) ==
  /\ Runs(r) /\ accept[c] = "failed"
  /\ accept' = [accept EXCEPT ![c] = "none"]
  /\ UNCHANGED <<listening, next, conn, arming, undelivered, deaf, wild, serving, faults,
                 poolVars>>

-----------------------------------------------------------------------------
(* run, and the handlers of connections.                                   *)

RunBegins(r) ==
  /\ pc[r] = "spawned"
  /\ pc' = [pc EXCEPT ![r] = "begun"]
  /\ stopped' = FALSE
  /\ UNCHANGED <<acceptVars, serving, faults, crew, halted, hasty>>

\* io_service_.reset and the threads of the pool.
RunStarts(r) ==
  /\ pc[r] = "begun"
  /\ pc' = [pc EXCEPT ![r] = "pool"]
  /\ crew' = [crew EXCEPT ![r] = PoolSize]
  /\ halted' = FALSE
  /\ UNCHANGED <<acceptVars, serving, faults, stopped, hasty>>

WorkerLeaves(r) ==
  /\ halted /\ Idle(r)
  /\ crew' = [crew EXCEPT ![r] = @ - 1]
  /\ UNCHANGED <<acceptVars, serving, faults, pc, halted, stopped, hasty>>

(* Mutant of RunEnds: run does not wait for its threads.                   *)
RunEndsEarly(r) ==
  /\ pc[r] = "pool" /\ halted
  /\ pc' = [pc EXCEPT ![r] = "none"]
  /\ stopped' = TRUE
  /\ UNCHANGED <<acceptVars, serving, faults, crew, halted, hasty>>

\* All threads of the pool are joined.
RunEnds(r) ==
  /\ pc[r] = "pool" /\ crew[r] = 0
  /\ pc' = [pc EXCEPT ![r] = "none"]
  /\ stopped' = TRUE
  /\ UNCHANGED <<acceptVars, serving, faults, crew, halted, hasty>>

\* handle_read takes the bytes of an open connection.
Enter(r, c) ==
  /\ Runs(r) /\ conn[c] = "open" /\ serving[c] = Nothing
  /\ serving' = [serving EXCEPT ![c] = r]
  /\ UNCHANGED <<acceptVars, faults, poolVars>>

\* It returns: with a new read outstanding, or for the last time, and then the
\* connection object is gone.
Leave(c, again) ==
  /\ serving[c] # Nothing
  /\ serving' = [serving EXCEPT ![c] = Nothing]
  /\ conn' = [conn EXCEPT ![c] = IF again THEN @ ELSE "none"]
  /\ UNCHANGED <<listening, next, accept, arming, undelivered, deaf, wild, faults, poolVars>>
=============================================================================
