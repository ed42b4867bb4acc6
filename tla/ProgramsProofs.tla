--------------------------- MODULE ProgramsProofs ---------------------------
(***************************************************************************)
(* The accept loop, the pools and the main thread, for any number of       *)
(* connections, executions of run, workers and forms.  Three invariants    *)
(* carry the properties: PoolTypes with Crewed, what a pool's workers do;  *)
(* AtMostOnePool, how the main thread knows that the last pool has gone;   *)
(* Chain, how the accepts follow each other.                               *)
(***************************************************************************)
EXTENDS Programs, FiniteSetTheorems, SequenceTheorems, TLAPS

\* The types of the listener's variables.
PoolTypes ==
  /\ build \in {"activity", "console", "server"}
  /\ listening \in BOOLEAN /\ halted \in BOOLEAN /\ stopped \in BOOLEAN
  /\ next \in Conns \cup {Nothing}
  /\ accept \in [Conns -> {"none", "pending", "ready", "failed"}]
  /\ conn \in [Conns -> {"none", "waiting", "open"}]
  /\ arming \in [Conns -> Pools \cup {Nothing}]
  /\ serving \in [Conns -> Pools \cup {Nothing}]
  /\ pc \in [Pools -> {"none", "spawned", "begun", "pool"}]
  /\ crew \in [Pools -> 0 .. PoolSize]

\* The steps of the listener's variables, whichever thread takes them.
ListenerStep ==
  \/ \E r \in Pools : StartServing(r)
  \/ \E tried \in BOOLEAN : StartFails(tried)
  \/ StopServing
  \/ Answered
  \/ \E c \in Conns : Arrive(c) \/ SystemFails(c) \/ Rearm(c)
  \/ \E r \in Pools, c \in Conns : HandleAccept(r, c) \/ HandleFailure(r, c) \/ Enter(r, c)
  \/ \E r \in Pools : RunBegins(r) \/ RunStarts(r) \/ WorkerLeaves(r) \/ RunEnds(r)
  \/ \E r \in Pools : Signal(r)
  \/ \E c \in Conns, again \in BOOLEAN : Leave(c, again)
  \/ \E c \in Conns : EndTransfer(c)
  \/ UNCHANGED <<acceptVars, serving, faults, poolVars>>

\* The configuration, the screen, the sessions and the file add nothing to them.
LEMMA StepsOfListener ==
  ASSUME [Next]_vars
  PROVE  ListenerStep
<1>1. CASE ServerStep
  BY <1>1 DEF ServerStep, ListenerStep
<1>2. CASE SessionStep
  <2>1. CASE \E c \in Conns : FindAnonymous(c)
    BY <2>1 DEF FindAnonymous, ListenerStep, poolVars
  <2>2. CASE \E r \in Pools, c \in Conns : Command(r, c)
    BY <2>2 DEF Command, ListenerStep
  <2>3. CASE \E c \in Conns : EnterAnonymous(c) \/ BeginTransfer(c) \/ OtherCommand(c)
                              \/ Depart(c) \/ LastCommand(c)
    <3>1. \E c \in Conns, again \in BOOLEAN : Leave(c, again)
      BY <2>3 DEF EnterAnonymous, BeginTransfer, OtherCommand, Depart, LastCommand
    <3> QED
      BY <3>1 DEF ListenerStep
  <2>4. CASE \E c \in Conns : EndTransfer(c)
    BY <2>4 DEF ListenerStep
  <2> QED
    BY <1>2, <2>1, <2>2, <2>3, <2>4 DEF SessionStep
<1>3. CASE AppStep
  <2>1. CASE \E f \in Forms : PressStart(f)
    BY <2>1 DEF PressStart, ListenerStep
  <2>2. CASE \E f \in Forms : PressStop(f)
    BY <2>2 DEF PressStop, Stops, ListenerStep
  <2>3. CASE \E r \in Pools : AppListens(r)
    BY <2>3 DEF AppListens, Listens, ListenerStep
  <2>4. CASE AppDoesNotListen
    <3>1. StartFails(usPort # 0)
      BY <2>4 DEF AppDoesNotListen, DoesNotListen
    <3> QED
      BY <3>1 DEF ListenerStep
  <2>5. CASE AppStopped
    BY <2>5 DEF AppStopped, Stopped, ListenerStep
  <2>6. CASE AppGivesUp
    BY <2>6 DEF AppGivesUp, GivesUp, ListenerStep
  <2>7. CASE Recreate
    BY <2>7 DEF Recreate, ListenerStep
  <2> QED
    BY <1>3, <2>1, <2>2, <2>3, <2>4, <2>5, <2>6, <2>7 DEF AppStep
<1>4. CASE ConsoleStep
  <2>1. CASE \E f \in ConsoleForms : ConsoleInit(f)
    BY <2>1 DEF ConsoleInit, ListenerStep
  <2>2. CASE \E r \in Pools : ConsoleListens(r)
    BY <2>2 DEF ConsoleListens, Listens, ListenerStep
  <2>3. CASE \E r \in Pools : Signal(r)
    BY <2>3 DEF ListenerStep
  <2>4. CASE ConsoleFails
    <3>1. StartFails(usPort # 0)
      BY <2>4 DEF ConsoleFails, DoesNotListen
    <3> QED
      BY <3>1 DEF ListenerStep
  <2>5. CASE Quit
    BY <2>5 DEF Quit, Stops, ListenerStep
  <2>6. CASE Exit
    BY <2>6 DEF Exit, Stopped, GivesUp, ListenerStep
  <2> QED
    BY <1>4, <2>1, <2>2, <2>3, <2>4, <2>5, <2>6 DEF ConsoleStep
<1>5. CASE UNCHANGED nativeVars
  BY <1>5 DEF nativeVars, ListenerStep
<1>6. CASE UNCHANGED vars
  BY <1>6 DEF vars, nativeVars, ListenerStep
<1> QED
  BY <1>1, <1>2, <1>3, <1>4, <1>5, <1>6 DEF Next

\* No step changes the program.
LEMMA BuildKept == [Next]_vars => build' = build
BY DEF Next, vars, nativeVars

\* No worker, and all of them, are numbers of workers.
LEMMA NumbersOfWorkers == 0 \in 0 .. PoolSize /\ PoolSize \in 0 .. PoolSize
<1>1. PoolSize \in Nat
  BY ListenerAssumption
<1> QED
  BY <1>1

LEMMA InitPoolTypes == ProgramsInit => PoolTypes
<1> SUFFICES ASSUME ProgramsInit PROVE PoolTypes
  OBVIOUS
<1>1. Init /\ build \in Builds
  BY DEF ProgramsInit
<1>2. build \in {"activity", "console", "server"}
  BY <1>1, BuildsAssumption
<1> QED
  BY <1>1, <1>2, NumbersOfWorkers DEF Init, PoolTypes

\* Wherever the next accept goes to, it goes to a connection.
LEMMA StartAcceptTypes ==
  ASSUME PoolTypes, NEW open \in BOOLEAN,
         NEW ops \in [Conns -> {"none", "pending", "ready", "failed"}],
         StartAccept(ops, open)
  PROVE  /\ next' \in Conns
         /\ accept' \in [Conns -> {"none", "pending", "ready", "failed"}]
         /\ conn' \in [Conns -> {"none", "waiting", "open"}]
BY DEF PoolTypes, StartAccept, Fresh

LEMMA CancelledTypes ==
  PoolTypes => Cancelled \in [Conns -> {"none", "pending", "ready", "failed"}]
BY DEF PoolTypes, Cancelled

\* Nothing is no pool, and a pool that has a worker to spare has a worker.
LEMMA SpareWorker ==
  ASSUME NEW r \in Pools, crew[r] \in 0 .. PoolSize, Idle(r)
  PROVE  crew[r] \in 1 .. PoolSize
<1>1. IsFiniteSet(Busy(r))
  <2>1. Busy(r) \subseteq Conns
    BY DEF Busy
  <2> QED
    BY <2>1, FS_Subset, ListenerAssumption
<1>2. Cardinality(Busy(r)) \in Nat
  BY <1>1, FS_CardinalityType
<1> QED
  BY <1>2, ListenerAssumption DEF Idle

LEMMA StepPoolTypes == PoolTypes /\ [Next]_vars => PoolTypes'
<1> SUFFICES ASSUME PoolTypes, [Next]_vars
             PROVE  PoolTypes'
  OBVIOUS
<1> USE DEF acceptVars, poolVars
<1>0. build' \in {"activity", "console", "server"}
  BY BuildKept DEF PoolTypes
<1>1. ASSUME NEW r \in Pools, StartServing(r) PROVE PoolTypes'
  <2>1. next' \in Conns /\ accept' \in [Conns -> {"none", "pending", "ready", "failed"}]
        /\ conn' \in [Conns -> {"none", "waiting", "open"}]
    BY <1>1, StartAcceptTypes, CancelledTypes DEF StartServing
  <2> QED
    BY <1>0, <1>1, <2>1 DEF StartServing, PoolTypes
<1>2. ASSUME NEW tried \in BOOLEAN, StartFails(tried) PROVE PoolTypes'
  BY <1>0, <1>2, CancelledTypes DEF StartFails, PoolTypes
<1>3. CASE StopServing
  BY <1>0, <1>3, CancelledTypes DEF StopServing, PoolTypes
<1>4. CASE Answered
  BY <1>0, <1>4 DEF Answered, PoolTypes
<1>5. ASSUME NEW c \in Conns, Arrive(c) \/ SystemFails(c) PROVE PoolTypes'
  BY <1>0, <1>5 DEF Arrive, SystemFails, PoolTypes
<1>6. ASSUME NEW c \in Conns, Rearm(c) PROVE PoolTypes'
  <2>1. next' \in Conns /\ accept' \in [Conns -> {"none", "pending", "ready", "failed"}]
        /\ conn' \in [Conns -> {"none", "waiting", "open"}]
    BY <1>6, StartAcceptTypes DEF Rearm, PoolTypes
  <2> QED
    BY <1>0, <1>6, <2>1 DEF Rearm, PoolTypes
<1>7. ASSUME NEW r \in Pools, NEW c \in Conns, HandleAccept(r, c) PROVE PoolTypes'
  BY <1>0, <1>7 DEF HandleAccept, Started, PoolTypes
<1>8. ASSUME NEW r \in Pools, NEW c \in Conns, HandleFailure(r, c) PROVE PoolTypes'
  BY <1>0, <1>8 DEF HandleFailure, PoolTypes
<1>9. ASSUME NEW r \in Pools, NEW c \in Conns, Enter(r, c) PROVE PoolTypes'
  BY <1>0, <1>9 DEF Enter, PoolTypes
<1>10. ASSUME NEW r \in Pools, RunBegins(r) \/ RunEnds(r) PROVE PoolTypes'
  BY <1>0, <1>10 DEF RunBegins, RunEnds, PoolTypes
<1>11. ASSUME NEW r \in Pools, RunStarts(r) PROVE PoolTypes'
  BY <1>0, <1>11, NumbersOfWorkers DEF RunStarts, PoolTypes
<1>12. ASSUME NEW r \in Pools, WorkerLeaves(r) PROVE PoolTypes'
  <2>1. crew[r] \in 1 .. PoolSize
    BY <1>12, SpareWorker DEF WorkerLeaves, PoolTypes
  <2>2. crew[r] - 1 \in 0 .. PoolSize
    BY <2>1, ListenerAssumption
  <2> QED
    BY <1>0, <1>12, <2>2 DEF WorkerLeaves, PoolTypes
<1>13. ASSUME NEW r \in Pools, Signal(r) PROVE PoolTypes'
  BY <1>0, <1>13 DEF Signal, PoolTypes
<1>14. ASSUME NEW c \in Conns, NEW again \in BOOLEAN, Leave(c, again) PROVE PoolTypes'
  BY <1>0, <1>14, ListenerAssumption DEF Leave, PoolTypes
<1>15. ASSUME NEW c \in Conns, EndTransfer(c) PROVE PoolTypes'
  BY <1>0, <1>15 DEF EndTransfer, PoolTypes
<1>16. CASE UNCHANGED <<acceptVars, serving, faults, poolVars>>
  BY <1>0, <1>16 DEF PoolTypes
<1> QED
  BY <1>1, <1>2, <1>3, <1>4, <1>5, <1>6, <1>7, <1>8, <1>9, <1>10, <1>11, <1>12, <1>13,
     <1>14, <1>15, <1>16, StepsOfListener DEF ListenerStep

\* The variables of the listener and of the pools keep their types, for any
\* number of connections and pools.
LEMMA PoolTypesHold == Spec => []PoolTypes
BY InitPoolTypes, StepPoolTypes, PTL DEF Spec

-----------------------------------------------------------------------------
(* The accepts.                                                            *)

\* Unless a completion was left from before a stop, only new_connection_ has an
\* accept under way, or a worker that will start the next, and not both.
Chain ==
  ~undelivered =>
    \A c \in Conns :
      /\ accept[c] \in {"pending", "ready"} \/ arming[c] # Nothing => c = next
      /\ arming[c] # Nothing => accept[c] \notin {"pending", "ready"}

\* The sessions' part: a node that a transfer uses is destroyed only when the
\* anonymous logins end, or by its own session.
Held ==
  /\ login \in [Conns -> {"none", "found", "stale", "member", "doomed", "orphan", "dead"}]
  /\ transfer \in [Conns -> BOOLEAN]
  /\ \A c \in Conns : login[c] = "doomed" => cut
  /\ \A c \in Conns : login[c] = "dead" => cut \/ deserted

\* Only one object has an accept after start_accept.
LEMMA StartAcceptChain ==
  ASSUME PoolTypes, NEW open \in BOOLEAN,
         NEW ops \in [Conns -> {"none", "pending", "ready", "failed"}],
         StartAccept(ops, open),
         \A c \in Conns : ops[c] \notin {"pending", "ready"}
  PROVE  /\ \A c \in Conns : accept'[c] \in {"pending", "ready"} => c = next'
         /\ arming[next'] = Nothing
         /\ open => accept'[next'] = "pending"
         /\ ~wild'
<1>1. PICK new \in Fresh : /\ next' = new
                          /\ accept' = [ops EXCEPT ![new] = IF open THEN "pending" ELSE "failed"]
                          /\ wild' = (next # Nothing /\ ops[next] = "pending")
  BY DEF StartAccept
<1>2. new \in Conns /\ arming[new] = Nothing
  BY DEF Fresh
<1>3. next # Nothing => ops[next] # "pending"
  BY DEF PoolTypes
<1> QED
  BY <1>1, <1>2, <1>3

LEMMA StepChain ==
  ASSUME PoolTypes, Chain, [Next]_vars
  PROVE  /\ Chain'
         /\ undelivered => undelivered'
         /\ wild' => undelivered' \/ wild \/ \E c \in Conns : login[c] = "dead"
<1> USE DEF acceptVars, poolVars
<1> DEFINE Goal == /\ Chain'
                   /\ undelivered => undelivered'
                   /\ wild' => undelivered' \/ wild \/ \E c \in Conns : login[c] = "dead"
<1>1. ASSUME NEW r \in Pools, StartServing(r) PROVE Goal
  <2>1. CASE undelivered'
    BY <1>1, <2>1 DEF StartServing, Chain
  <2>2. CASE ~undelivered'
    <3>1. ~undelivered /\ Undelivered = {} /\ arming' = arming
      BY <1>1, <2>2 DEF StartServing
    <3>2. \A c \in Conns : Cancelled[c] \notin {"pending", "ready"} /\ arming[c] = Nothing
      BY <3>1 DEF Undelivered, Cancelled
    <3>3. /\ \A c \in Conns : accept'[c] \in {"pending", "ready"} => c = next'
          /\ ~wild'
      BY <1>1, <3>2, CancelledTypes, StartAcceptChain DEF StartServing
    <3> QED
      BY <3>1, <3>2, <3>3 DEF Chain
  <2> QED
    BY <2>1, <2>2
<1>2. ASSUME NEW tried \in BOOLEAN, StartFails(tried) PROVE Goal
  BY <1>2 DEF StartFails, Cancelled, Chain, PoolTypes
<1>3. ASSUME StopServing PROVE Goal
  BY <1>3 DEF StopServing, Cancelled, Chain, PoolTypes
<1>4. ASSUME Answered PROVE Goal
  BY <1>4 DEF Answered, Chain
<1>5. ASSUME NEW c \in Conns, Arrive(c) \/ SystemFails(c) PROVE Goal
  BY <1>5 DEF Arrive, SystemFails, Chain, PoolTypes
<1>6. ASSUME NEW c \in Conns, Rearm(c) PROVE Goal
  <2>1. undelivered' = undelivered /\ arming[c] # Nothing
        /\ arming' = [arming EXCEPT ![c] = Nothing]
    BY <1>6 DEF Rearm
  <2>2. CASE undelivered
    BY <2>1, <2>2 DEF Chain
  <2>3. CASE ~undelivered
    <3>1. c = next /\ \A d \in Conns : accept[d] \notin {"pending", "ready"}
      BY <2>1, <2>3 DEF Chain
    <3>2. /\ \A d \in Conns : accept'[d] \in {"pending", "ready"} => d = next'
          /\ ~wild'
      BY <1>6, <3>1, StartAcceptChain DEF Rearm, PoolTypes
    <3>3. \A d \in Conns : arming'[d] = Nothing
      BY <2>1, <2>3, <3>1 DEF Chain, PoolTypes
    <3> QED
      BY <2>1, <3>2, <3>3 DEF Chain
  <2> QED
    BY <2>2, <2>3
<1>7. ASSUME NEW r \in Pools, NEW c \in Conns, HandleAccept(r, c) PROVE Goal
  BY <1>7 DEF HandleAccept, Chain, PoolTypes
<1>8. ASSUME NEW r \in Pools, NEW c \in Conns, HandleFailure(r, c) PROVE Goal
  BY <1>8 DEF HandleFailure, Chain, PoolTypes
<1>9. ASSUME NEW r \in Pools, NEW c \in Conns, Enter(r, c) PROVE Goal
  BY <1>9 DEF Enter, Chain
<1>10. ASSUME NEW r \in Pools,
              RunBegins(r) \/ RunStarts(r) \/ WorkerLeaves(r) \/ RunEnds(r) \/ Signal(r)
       PROVE  Goal
  BY <1>10 DEF RunBegins, RunStarts, WorkerLeaves, RunEnds, Signal, Chain
<1>11. ASSUME NEW c \in Conns, NEW again \in BOOLEAN, Leave(c, again) PROVE Goal
  BY <1>11 DEF Leave, Chain
<1>12. ASSUME NEW c \in Conns, EndTransfer(c) PROVE Goal
  BY <1>12 DEF EndTransfer, Chain
<1>13. ASSUME UNCHANGED <<acceptVars, serving, faults, poolVars>> PROVE Goal
  BY <1>13 DEF Chain
<1> HIDE DEF Goal
<1>14. Goal
  BY <1>1, <1>2, <1>3, <1>4, <1>5, <1>6, <1>7, <1>8, <1>9, <1>10, <1>11, <1>12, <1>13,
     StepsOfListener DEF ListenerStep
<1> QED
  BY <1>14 DEF Goal

\* A transfer is left with a destroyed node only where the logins were cut, or
\* where the session itself went away.
LEMMA StepHeld == Held /\ [Next]_vars => Held'
<1> SUFFICES ASSUME Held, [Next]_vars
             PROVE  Held'
  OBVIOUS
<1>1. ASSUME NEW f \in Form, InitFtpServer(f) PROVE Held'
  <2>1. CASE login' = login
    BY <1>1, <2>1 DEF InitFtpServer, Held
  <2>2. CASE Dismisses(f) /\ login' = Dismissed
    <3>1. transfer' = transfer /\ deserted' = deserted /\ cut' = (cut \/ InUse)
      BY <1>1, <2>2 DEF InitFtpServer
    <3>2. login' \in [Conns -> {"none", "found", "stale", "member", "doomed", "orphan", "dead"}]
      BY <2>2 DEF Dismissed, Unheld, Held
    <3>3. ASSUME NEW c \in Conns
          PROVE  /\ login'[c] = "doomed" => cut'
                 /\ login'[c] = "dead" => cut' \/ deserted'
      BY <2>2, <3>1 DEF Dismissed, Unheld, InUse, Held
    <3> QED
      BY <3>1, <3>2, <3>3 DEF Held
  <2> QED
    BY <1>1, <2>1, <2>2 DEF InitFtpServer
<1>2. CASE UNCHANGED <<login, transfer, cut, deserted>>
  BY <1>2 DEF Held
<1>3. CASE SessionStep
  <2> USE DEF unchangedAbove, configVars, sessionVars
  <2>1. ASSUME NEW c \in Conns, FindAnonymous(c) PROVE Held'
    BY <2>1 DEF FindAnonymous, Held
  <2>2. ASSUME NEW c \in Conns, EnterAnonymous(c) PROVE Held'
    BY <2>2 DEF EnterAnonymous, Held
  <2>3. ASSUME NEW c \in Conns, BeginTransfer(c) PROVE Held'
    BY <2>3 DEF BeginTransfer, Released, Unheld, Held
  <2>4. ASSUME NEW c \in Conns, EndTransfer(c) PROVE Held'
    BY <2>4 DEF EndTransfer, Held
  <2>5. ASSUME NEW c \in Conns, LastCommand(c) PROVE Held'
    BY <2>5 DEF LastCommand, Unheld, Held
  <2>6. ASSUME NEW c \in Conns, OtherCommand(c) PROVE Held'
    BY <2>6 DEF OtherCommand, Released, Unheld, Held
  <2>7. ASSUME NEW r \in Pools, NEW c \in Conns, Command(r, c) PROVE Held'
    BY <2>7 DEF Command, Held
  <2>8. ASSUME NEW c \in Conns, Depart(c) PROVE Held'
    <3>1. transfer' = transfer /\ cut' = cut
      BY <2>8 DEF Depart
    <3>4. deserted => deserted'
      BY <2>8 DEF Depart
    <3>2. /\ login' \in [Conns -> {"none", "found", "stale", "member", "doomed", "orphan", "dead"}]
          /\ \A d \in Conns \ {c} : login'[d] = login[d]
          /\ login'[c] = "none" \/ (login'[c] = "dead" /\ deserted')
      BY <2>8 DEF Depart, Unheld, Held
    <3> QED
      BY <3>1, <3>2, <3>4 DEF Held
  <2> QED
    BY <1>3, <2>1, <2>2, <2>3, <2>4, <2>5, <2>6, <2>7, <2>8 DEF SessionStep
<1>4. CASE ServerStep
  BY <1>4, <1>2 DEF ServerStep, unchangedAbove, configVars, sessionVars
<1>5. CASE AppStep
  <2>1. (\E f \in Form : InitFtpServer(f)) \/ UNCHANGED <<login, transfer, cut, deserted>>
    BY <1>5, FormsAssumption
    DEF AppStep, PressStart, Configure, PressStop, Stops, AppListens, Listens, AppDoesNotListen,
        DoesNotListen, AppStopped, Stopped, AppGivesUp, GivesUp, Recreate, configVars, sessionVars
  <2> QED
    BY <2>1, <1>1, <1>2
<1>6. CASE ConsoleStep
  <2>1. (\E f \in Form : InitFtpServer(f)) \/ UNCHANGED <<login, transfer, cut, deserted>>
    BY <1>6, FormsAssumption
    DEF ConsoleStep, ConsoleForms, ConsoleInit, ConsoleListens, Listens, Signal, ConsoleFails,
        DoesNotListen, Quit, Stops, Exit, Stopped, GivesUp, configVars, sessionVars
  <2> QED
    BY <2>1, <1>1, <1>2
<1> QED
  BY <1>2, <1>3, <1>4, <1>5, <1>6 DEF Next, vars, nativeVars, configVars, sessionVars

\* The server uses destroyed memory only after a start that came before the
\* handler of an earlier accept, after anonymous logins were cut off, or after a
\* session left its account during a transfer.
THEOREM MemoryOutlives == Spec => []MemoryKept
<1> DEFINE I == PoolTypes /\ Chain /\ Held /\ MemoryKept
<1>1. ProgramsInit => I
  <2>1. ProgramsInit => PoolTypes /\ ~wild /\ Held
    BY InitPoolTypes DEF ProgramsInit, InitNative, Init, Held
  <2>2. ProgramsInit => Chain
    BY DEF ProgramsInit, Init, Chain
  <2> QED
    BY <2>1, <2>2 DEF MemoryKept
<1>2. I /\ [Next]_vars => I'
  <2> SUFFICES ASSUME I, [Next]_vars
               PROVE  I'
    OBVIOUS
  <2>1. PoolTypes' /\ Held'
    BY StepPoolTypes, StepHeld
  <2>2. /\ Chain'
        /\ undelivered => undelivered'
        /\ wild' => undelivered' \/ wild \/ \E c \in Conns : login[c] = "dead"
    BY StepChain
  <2>3. cut => cut'
    BY DEF Next, vars, nativeVars, ServerStep, SessionStep, Command, FindAnonymous, EnterAnonymous,
           BeginTransfer, EndTransfer, OtherCommand, Depart, LastCommand, unchangedAbove, configVars,
           sessionVars, AppStep, PressStart, Configure, InitFtpServer, PressStop, Stops,
           AppListens, Listens, AppDoesNotListen, DoesNotListen, AppStopped, Stopped, AppGivesUp,
           GivesUp, Recreate, ConsoleStep, ConsoleInit, ConsoleListens, Signal, ConsoleFails,
           Quit, Exit
  <2>4. deserted => deserted'
    <3> USE DEF sessionVars
    <3>1. CASE ServerStep
      BY <3>1 DEF ServerStep
    <3>2. CASE SessionStep
      <4>1. CASE \E c \in Conns : Depart(c)
        BY <4>1 DEF Depart
      <4>2. CASE \E c \in Conns : LastCommand(c)
        BY <4>2 DEF LastCommand
      <4>3. CASE UNCHANGED deserted
        BY <4>3
      <4> QED
        BY <3>2, <4>1, <4>2, <4>3
        DEF SessionStep, Command, FindAnonymous, EnterAnonymous, BeginTransfer, EndTransfer,
            OtherCommand
    <3>3. CASE AppStep
      BY <3>3 DEF AppStep, PressStart, Configure, InitFtpServer, PressStop, Stops, AppListens,
                  Listens, AppDoesNotListen, DoesNotListen, AppStopped, Stopped, AppGivesUp,
                  GivesUp, Recreate
    <3>4. CASE ConsoleStep
      BY <3>4 DEF ConsoleStep, ConsoleInit, InitFtpServer, ConsoleListens, Listens, Signal,
                  ConsoleFails, DoesNotListen, Quit, Stops, Exit, Stopped, GivesUp
    <3> QED
      BY <3>1, <3>2, <3>3, <3>4 DEF Next, vars, nativeVars
  <2>5. MemoryKept'
    BY <2>2, <2>3, <2>4 DEF MemoryKept, Held
  <2> QED
    BY <2>1, <2>2, <2>5
<1>3. I => MemoryKept
  OBVIOUS
<1> QED
  BY <1>1, <1>2, <1>3, PTL DEF Spec

\* While nothing failed, each accept is followed by the next.
LEMMA StepAccepting ==
  ASSUME PoolTypes, listening => next # Nothing, KeepsAccepting, [Next]_vars
  PROVE  KeepsAccepting' /\ (listening' => next' # Nothing)
<1>a. CASE UNCHANGED vars
  BY <1>a DEF vars, nativeVars, acceptVars, KeepsAccepting
<1> SUFFICES ASSUME ~wild
             PROVE  KeepsAccepting' /\ (listening' => next' # Nothing)
  BY <1>a DEF Next
<1> USE DEF acceptVars, poolVars
<1>1. ASSUME NEW r \in Pools, StartServing(r) PROVE KeepsAccepting' /\ (listening' => next' # Nothing)
  <2>1. accept'[next'] = "pending" /\ next' # Nothing
    BY <1>1, CancelledTypes, ListenerAssumption DEF StartServing, StartAccept, Fresh
  <2> QED
    BY <2>1 DEF KeepsAccepting
<1>2. ASSUME NEW tried \in BOOLEAN, StartFails(tried) PROVE KeepsAccepting' /\ (listening' => next' # Nothing)
  BY <1>2 DEF StartFails, KeepsAccepting
<1>3. CASE StopServing
  BY <1>3 DEF StopServing, KeepsAccepting
<1>4. CASE Answered
  BY <1>4 DEF Answered, KeepsAccepting
<1>5. ASSUME NEW c \in Conns, Arrive(c) \/ SystemFails(c) PROVE KeepsAccepting' /\ (listening' => next' # Nothing)
  BY <1>5, ListenerAssumption DEF Arrive, SystemFails, KeepsAccepting, PoolTypes
<1>6. ASSUME NEW c \in Conns, Rearm(c) PROVE KeepsAccepting' /\ (listening' => next' # Nothing)
  <2>1. (listening' => accept'[next'] = "pending") /\ next' # Nothing
    BY <1>6, ListenerAssumption DEF Rearm, StartAccept, Fresh, PoolTypes
  <2> QED
    BY <2>1 DEF KeepsAccepting
<1>7. ASSUME NEW r \in Pools, NEW c \in Conns, HandleAccept(r, c) PROVE KeepsAccepting' /\ (listening' => next' # Nothing)
  BY <1>7, ListenerAssumption DEF HandleAccept, KeepsAccepting, PoolTypes
<1>8. ASSUME NEW r \in Pools, NEW c \in Conns, HandleFailure(r, c) PROVE KeepsAccepting' /\ (listening' => next' # Nothing)
  BY <1>8, ListenerAssumption DEF HandleFailure, KeepsAccepting, PoolTypes
<1>9. ASSUME NEW r \in Pools, NEW c \in Conns, Enter(r, c) PROVE KeepsAccepting' /\ (listening' => next' # Nothing)
  BY <1>9 DEF Enter, KeepsAccepting
<1>10. ASSUME NEW r \in Pools,
              RunBegins(r) \/ RunStarts(r) \/ WorkerLeaves(r) \/ RunEnds(r) \/ Signal(r)
       PROVE  KeepsAccepting' /\ (listening' => next' # Nothing)
  BY <1>10 DEF RunBegins, RunStarts, WorkerLeaves, RunEnds, Signal, KeepsAccepting
<1>11. ASSUME NEW c \in Conns, NEW again \in BOOLEAN, Leave(c, again) PROVE KeepsAccepting' /\ (listening' => next' # Nothing)
  BY <1>11 DEF Leave, KeepsAccepting
<1>12. ASSUME NEW c \in Conns, EndTransfer(c) PROVE KeepsAccepting' /\ (listening' => next' # Nothing)
  BY <1>12 DEF EndTransfer, KeepsAccepting
<1>13. CASE UNCHANGED <<acceptVars, serving, faults, poolVars>>
  BY <1>13 DEF KeepsAccepting
<1> QED
  BY <1>1, <1>2, <1>3, <1>4, <1>5, <1>6, <1>7, <1>8, <1>9, <1>10, <1>11, <1>12, <1>13,
     StepsOfListener DEF ListenerStep

\* A listening server has an accept under way, or a worker about to start it,
\* unless the system failed one or a stop came between.
THEOREM AcceptsGoOn == Spec => []KeepsAccepting
<1> DEFINE I == PoolTypes /\ (listening => next # Nothing) /\ KeepsAccepting
<1>1. ProgramsInit => I
  <2>1. ProgramsInit => ~listening
    BY DEF ProgramsInit, Init
  <2> QED
    BY <2>1, InitPoolTypes DEF KeepsAccepting
<1>2. I /\ [Next]_vars => I'
  BY StepPoolTypes, StepAccepting
<1>3. I => KeepsAccepting
  OBVIOUS
<1> QED
  BY <1>1, <1>2, <1>3, PTL DEF Spec

-----------------------------------------------------------------------------
(* The pools.                                                              *)

\* A pool has a worker for each handler it is in, and workers only while run
\* waits for them.
Crewed ==
  \A r \in Pools :
    /\ Cardinality(Busy(r)) <= crew[r]
    /\ crew[r] > 0 => pc[r] = "pool"

\* What the main thread knows of the pools of the calm user: it has one at most,
\* is_stopped is set between two executions of run, and where a start can
\* follow, the last one has gone.
AtMostOnePool ==
  Calm =>
    /\ \A r, q \in Alive : r = q
    /\ stopped => \A r \in Pools : pc[r] \in {"none", "spawned"}
    /\ ui = "waiting" => button = "stop" /\ ~listening
    /\ ui = "configured" => button = "start"
    /\ ui \in {"idle", "configured"} /\ button = "start" => Alive = {} /\ ~listening

LEMMA BusyFinite ==
  ASSUME NEW r \in Pools
  PROVE  IsFiniteSet(Busy(r)) /\ Cardinality(Busy(r)) \in Nat
<1>1. Busy(r) \subseteq Conns
  BY DEF Busy
<1> QED
  BY <1>1, FS_Subset, FS_CardinalityType, ListenerAssumption

\* A worker that takes a handler adds one to the handlers of its pool.
LEMMA OneMoreBusy ==
  ASSUME PoolTypes, NEW r \in Pools, NEW c \in Conns, Idle(r),
         Busy(r)' \subseteq Busy(r) \cup {c}
  PROVE  Cardinality(Busy(r)') <= crew[r]
<1>0. IsFiniteSet(Busy(r)) /\ Cardinality(Busy(r)) \in Nat
  BY BusyFinite
<1>1. IsFiniteSet(Busy(r) \cup {c}) /\ Cardinality(Busy(r) \cup {c}) <= Cardinality(Busy(r)) + 1
  <2>1. CASE c \in Busy(r)
    <3>1. Busy(r) \cup {c} = Busy(r)
      BY <2>1
    <3> QED
      BY <1>0, <3>1
  <2>2. CASE c \notin Busy(r)
    <3>1. /\ IsFiniteSet(Busy(r) \cup {c})
          /\ Cardinality(Busy(r) \cup {c}) = Cardinality(Busy(r)) + 1
      BY <1>0, <2>2, FS_AddElement
    <3> QED
      BY <1>0, <3>1
  <2> QED
    BY <2>1, <2>2
<1>2. Cardinality(Busy(r)') \in Nat /\ Cardinality(Busy(r)') <= Cardinality(Busy(r) \cup {c})
  BY <1>1, FS_Subset, FS_CardinalityType
<1>3. Cardinality(Busy(r)) \in Nat /\ crew[r] \in Nat
  BY BusyFinite, ListenerAssumption DEF PoolTypes
<1> QED
  BY <1>1, <1>2, <1>3, FS_CardinalityType DEF Idle

\* A pool whose workers stay and whose handlers return is crewed.
LEMMA NoMoreBusy ==
  ASSUME NEW r \in Pools, Busy(r)' \subseteq Busy(r)
  PROVE  Cardinality(Busy(r)') <= Cardinality(Busy(r)) /\ Cardinality(Busy(r)') \in Nat
BY BusyFinite, FS_Subset, FS_CardinalityType

LEMMA StepCrewed ==
  ASSUME PoolTypes, Crewed, [Next]_vars
  PROVE  Crewed'
<1> USE DEF acceptVars, poolVars
<1>a. \A r \in Pools : crew[r] \in Nat /\ Cardinality(Busy(r)) \in Nat
  BY BusyFinite, ListenerAssumption DEF PoolTypes
\* Steps that let no worker in or out.
<1>b. ASSUME crew' = crew, \A r \in Pools : crew[r] > 0 => pc'[r] = "pool",
             \A r \in Pools : Busy(r)' \subseteq Busy(r)
      PROVE  Crewed'
  <2>1. ASSUME NEW r \in Pools PROVE Cardinality(Busy(r)') <= crew[r]
    BY <1>a, <1>b, <2>1, NoMoreBusy DEF Crewed
  <2> QED
    BY <1>b, <2>1 DEF Crewed
<1>1. ASSUME NEW r \in Pools, StartServing(r) PROVE Crewed'
  BY <1>1, <1>b DEF StartServing, Busy, Crewed, PoolTypes
<1>2. CASE \/ \E tried \in BOOLEAN : StartFails(tried)
           \/ StopServing \/ Answered
           \/ \E c \in Conns : Arrive(c) \/ SystemFails(c)
           \/ \E r \in Pools, c \in Conns : HandleFailure(r, c)
           \/ \E r \in Pools : Signal(r)
           \/ \E c \in Conns : EndTransfer(c)
           \/ UNCHANGED <<acceptVars, serving, faults, poolVars>>
  <2>1. crew' = crew /\ pc' = pc /\ arming' = arming /\ serving' = serving
    BY <1>2 DEF StartFails, StopServing, Answered, Arrive, SystemFails, HandleFailure, Signal,
                EndTransfer
  <2> QED
    BY <2>1, <1>b DEF Busy, Crewed
<1>3. ASSUME NEW c \in Conns, Rearm(c) PROVE Crewed'
  <2>1. crew' = crew /\ pc' = pc
    BY <1>3 DEF Rearm
  <2>2. \A r \in Pools : Busy(r)' \subseteq Busy(r)
    BY <1>3, ListenerAssumption DEF Rearm, Busy, PoolTypes
  <2> QED
    BY <2>1, <2>2, <1>b DEF Crewed
<1>4. ASSUME NEW r \in Pools, NEW c \in Conns, HandleAccept(r, c) \/ Enter(r, c) PROVE Crewed'
  <2>1. crew' = crew /\ pc' = pc /\ Idle(r)
    BY <1>4 DEF HandleAccept, Enter, Runs
  <2>2. Busy(r)' \subseteq Busy(r) \cup {c}
    BY <1>4 DEF HandleAccept, Enter, Busy, PoolTypes
  <2>3. \A q \in Pools \ {r} : Busy(q)' \subseteq Busy(q)
    BY <1>4 DEF HandleAccept, Enter, Busy, PoolTypes
  <2>4. ASSUME NEW q \in Pools PROVE Cardinality(Busy(q)') <= crew[q]
    BY <1>a, <2>1, <2>2, <2>3, <2>4, OneMoreBusy, NoMoreBusy DEF Crewed
  <2> QED
    BY <2>1, <2>4 DEF Crewed
<1>5. ASSUME NEW r \in Pools, RunBegins(r) \/ RunEnds(r) PROVE Crewed'
  <2>1. crew' = crew /\ arming' = arming /\ serving' = serving
    BY <1>5 DEF RunBegins, RunEnds
  <2>2. \A q \in Pools : crew[q] > 0 => pc'[q] = "pool"
    BY <1>5 DEF RunBegins, RunEnds, Crewed, PoolTypes
  <2> QED
    BY <2>1, <2>2, <1>b DEF Busy
<1>6. ASSUME NEW r \in Pools, RunStarts(r) PROVE Crewed'
  <2>1. \A q \in Pools : Busy(q)' = Busy(q)
    BY <1>6 DEF RunStarts, Busy
  <2>2. crew[r] = 0 /\ pc' = [pc EXCEPT ![r] = "pool"] /\ crew' = [crew EXCEPT ![r] = PoolSize]
    BY <1>6, <1>a DEF RunStarts, Crewed
  <2>3. PoolSize \in Nat
    BY ListenerAssumption
  <2>4. ASSUME NEW q \in Pools
        PROVE  Cardinality(Busy(q)') <= crew'[q] /\ (crew'[q] > 0 => pc'[q] = "pool")
    <3>1. Cardinality(Busy(q)') <= crew[q]
      BY <2>1 DEF Crewed
    <3> QED
      BY <1>a, <2>1, <2>2, <2>3, <3>1 DEF Crewed, PoolTypes
  <2> QED
    BY <2>4 DEF Crewed
<1>7. ASSUME NEW r \in Pools, WorkerLeaves(r) PROVE Crewed'
  <2>1. \A q \in Pools : Busy(q)' = Busy(q)
    BY <1>7 DEF WorkerLeaves, Busy
  <2>2. /\ crew' = [crew EXCEPT ![r] = crew[r] - 1] /\ pc' = pc
        /\ crew[r] > Cardinality(Busy(r))
    BY <1>7 DEF WorkerLeaves, Idle
  <2>3. ASSUME NEW q \in Pools
        PROVE  Cardinality(Busy(q)') <= crew'[q] /\ (crew'[q] > 0 => pc'[q] = "pool")
    <3>1. Cardinality(Busy(q)') = Cardinality(Busy(q))
      BY <2>1
    <3> QED
      BY <1>a, <2>2, <3>1 DEF Crewed, PoolTypes
  <2> QED
    BY <2>3 DEF Crewed
<1>8. ASSUME NEW c \in Conns, NEW again \in BOOLEAN, Leave(c, again) PROVE Crewed'
  <2>1. crew' = crew /\ pc' = pc
    BY <1>8 DEF Leave
  <2>2. \A r \in Pools : Busy(r)' \subseteq Busy(r)
    BY <1>8, ListenerAssumption DEF Leave, Busy, PoolTypes
  <2> QED
    BY <2>1, <2>2, <1>b DEF Crewed
<1> QED
  BY <1>1, <1>2, <1>3, <1>4, <1>5, <1>6, <1>7, <1>8, StepsOfListener DEF ListenerStep

LEMMA InitCrewed == ProgramsInit => Crewed
<1> SUFFICES ASSUME ProgramsInit, NEW r \in Pools
             PROVE  Cardinality(Busy(r)) = 0 /\ crew[r] = 0
  BY DEF Crewed
<1>1. Busy(r) = {}
  BY ListenerAssumption DEF ProgramsInit, Init, Busy
<1> QED
  BY <1>1, FS_EmptySet DEF ProgramsInit, Init

ScreenTypes ==
  /\ ui \in {"idle", "configured", "waiting", "exited"}
  /\ button \in {"start", "stop"}
  /\ shown \in Form

LEMMA StepScreenTypes == ScreenTypes /\ [Next]_vars => ScreenTypes'
<1> SUFFICES ASSUME ScreenTypes, [Next]_vars
             PROVE  ScreenTypes'
  OBVIOUS
<1> USE DEF ScreenTypes, screenVars
<1>1. CASE ServerStep \/ SessionStep
  BY <1>1 DEF ServerStep, SessionStep, unchangedAbove, Command, FindAnonymous, EnterAnonymous,
              BeginTransfer, EndTransfer, OtherCommand, Depart, LastCommand
<1>2. CASE AppStep
  BY <1>2, FormsAssumption
  DEF AppStep, PressStart, PressStop, Stops, AppListens, Listens, AppDoesNotListen,
      DoesNotListen, AppStopped, Stopped, AppGivesUp, GivesUp, Recreate
<1>3. CASE ConsoleStep
  BY <1>3, FormsAssumption
  DEF ConsoleStep, ConsoleForms, ConsoleInit, ConsoleListens, Listens, Signal, ConsoleFails,
      DoesNotListen, Quit, Stops, Exit, Stopped, GivesUp
<1> QED
  BY <1>1, <1>2, <1>3 DEF Next, vars, nativeVars

LEMMA InitScreenTypes == ProgramsInit => ScreenTypes
BY FormsAssumption DEF ProgramsInit, InitNative, ScreenTypes

\* The listener's own steps bring no pool, and end one only for good.
LEMMA WorkersKeepPools ==
  ASSUME PoolTypes, Crewed, AtMostOnePool, ServerStep \/ SessionStep
  PROVE  AtMostOnePool'
<1> USE DEF acceptVars, poolVars, unchangedAbove, screenVars
<1>1. ui' = ui /\ button' = button /\ recreated' = recreated
  BY DEF ServerStep, SessionStep, Command, FindAnonymous, EnterAnonymous, BeginTransfer,
         EndTransfer, OtherCommand, Depart, LastCommand
<1>2. hasty' = hasty /\ listening' = listening
  BY DEF ServerStep, Arrive, SystemFails, Rearm, HandleAccept, HandleFailure, RunBegins, RunStarts,
         WorkerLeaves, RunEnds, SessionStep, Command, Enter, FindAnonymous, EnterAnonymous,
         BeginTransfer, EndTransfer, OtherCommand, Depart, LastCommand, Leave
<1> SUFFICES ASSUME Calm
             PROVE  /\ \A r, q \in Alive' : r = q
                    /\ stopped' => \A r \in Pools : pc'[r] \in {"none", "spawned"}
                    /\ Alive = {} => Alive' = {}
  BY <1>1, <1>2 DEF AtMostOnePool, Calm
<1>3. ASSUME NEW r \in Pools, RunBegins(r)
      PROVE  Alive' \subseteq Alive /\ ~stopped'
  BY <1>3 DEF RunBegins, Alive, PoolTypes
<1>4. ASSUME NEW r \in Pools, RunStarts(r)
      PROVE  Alive' \subseteq Alive /\ ~stopped'
  BY <1>4 DEF RunStarts, Alive, PoolTypes, AtMostOnePool
<1>5. ASSUME NEW r \in Pools, WorkerLeaves(r)
      PROVE  Alive' \subseteq Alive /\ pc' = pc /\ stopped' = stopped
  <2>1. crew[r] > 0
    BY <1>5, SpareWorker, ListenerAssumption DEF WorkerLeaves, PoolTypes
  <2> QED
    BY <1>5, <2>1 DEF WorkerLeaves, Alive, PoolTypes
<1>6. ASSUME NEW r \in Pools, RunEnds(r)
      PROVE  /\ Alive' \subseteq Alive
             /\ \A q \in Pools : pc'[q] = "none"
  <2>1. r \in Alive
    BY <1>6 DEF RunEnds, Alive
  <2>2. \A q \in Pools \ {r} : pc[q] = "none"
    BY <2>1 DEF AtMostOnePool, Alive
  <2> QED
    BY <1>6, <2>2 DEF RunEnds, Alive, PoolTypes
<1>7. \/ \E r \in Pools : RunBegins(r) \/ RunStarts(r) \/ WorkerLeaves(r) \/ RunEnds(r)
      \/ pc' = pc /\ crew' = crew /\ stopped' = stopped
  BY DEF ServerStep, Arrive, SystemFails, Rearm, HandleAccept, HandleFailure,
         SessionStep, Command, Enter, FindAnonymous, EnterAnonymous,
         BeginTransfer, EndTransfer, OtherCommand, Depart, LastCommand, Leave
<1>8. CASE pc' = pc /\ crew' = crew /\ stopped' = stopped
  BY <1>8 DEF AtMostOnePool, Alive
<1>9. Alive' \subseteq Alive
  BY <1>3, <1>4, <1>5, <1>6, <1>7 DEF Alive
<1>10. stopped' => \A r \in Pools : pc'[r] \in {"none", "spawned"}
  BY <1>3, <1>4, <1>5, <1>6, <1>7 DEF AtMostOnePool
<1> QED
  BY <1>9, <1>10 DEF AtMostOnePool

\* A start that the calm user makes finds no pool and makes one.
LEMMA StartKeepsPools ==
  ASSUME PoolTypes, Crewed, AtMostOnePool, NEW r \in Pools, Listens(r),
         ui' = "idle", button' = "stop"
  PROVE  AtMostOnePool'
<1> USE DEF acceptVars, poolVars
<1>1. /\ pc' = [pc EXCEPT ![r] = "spawned"]
      /\ crew' = crew /\ hasty' = hasty /\ stopped' = stopped /\ recreated' = recreated
      /\ ui = "configured"
  BY DEF Listens, StartServing
<1> SUFFICES ASSUME Calm
             PROVE  /\ \A p, q \in Alive' : p = q
                    /\ \A q \in Pools : pc'[q] \in {"none", "spawned"}
  BY <1>1 DEF AtMostOnePool, Calm
<1>2. Alive = {}
  BY <1>1 DEF AtMostOnePool
<1>3. \A q \in Pools : pc[q] = "none" /\ ~(crew[q] > 0)
  BY <1>2 DEF Alive
<1>4. Alive' \subseteq {r}
  BY <1>1, <1>3 DEF Alive, PoolTypes
<1> QED
  BY <1>1, <1>3, <1>4 DEF PoolTypes

\* is_stopped tells the truth to a user who did not stop too early.
LEMMA StoppedMeansGone ==
  ASSUME PoolTypes, Crewed, AtMostOnePool, Stopped, Calm'
  PROVE  Alive = {} /\ ~listening
<1>1. /\ stopped /\ \A r \in Pools : pc[r] # "spawned"
      /\ Calm /\ ui = "waiting"
  BY DEF Stopped, Answered, Calm
<1>2. \A r \in Pools : pc[r] = "none"
  BY <1>1 DEF AtMostOnePool
<1>3. \A r \in Pools : ~(crew[r] > 0)
  BY <1>2 DEF Crewed
<1> QED
  BY <1>1, <1>2, <1>3 DEF AtMostOnePool, Alive

LEMMA StepAtMostOnePool ==
  ASSUME PoolTypes, ScreenTypes, Crewed, AtMostOnePool, [Next]_vars
  PROVE  AtMostOnePool'
<1> USE DEF acceptVars, poolVars
\* Steps of the main thread that leave the pools alone.
<1>a. ASSUME pc' = pc, crew' = crew, stopped' = stopped, Calm' => Calm,
             Calm => /\ ui' = "waiting" => button' = "stop" /\ ~listening'
                     /\ ui' = "configured" => button' = "start"
                     /\ ui' \in {"idle", "configured"} /\ button' = "start" =>
                          Alive = {} /\ ~listening'
      PROVE  AtMostOnePool'
  BY <1>a DEF AtMostOnePool, Alive
<1>1. CASE ServerStep \/ SessionStep
  BY <1>1, WorkersKeepPools
<1>2. ASSUME NEW f \in Forms, PressStart(f) \/ ConsoleInit(f) PROVE AtMostOnePool'
  BY <1>2, <1>a DEF PressStart, ConsoleInit, AtMostOnePool, Calm
<1>3. CASE (\E f \in Forms : PressStop(f)) \/ Quit
  BY <1>3, <1>a DEF PressStop, Quit, Stops, StopServing, Calm
<1>4. ASSUME NEW r \in Pools, AppListens(r) \/ ConsoleListens(r) PROVE AtMostOnePool'
  BY <1>4, StartKeepsPools DEF AppListens, ConsoleListens
<1>5. CASE AppDoesNotListen \/ ConsoleFails
  BY <1>5, <1>a DEF AppDoesNotListen, ConsoleFails, DoesNotListen, StartFails, AtMostOnePool, Calm
<1>6. CASE AppStopped
  <2>1. /\ pc' = pc /\ crew' = crew /\ stopped' = stopped /\ listening' = listening
        /\ Calm' => Calm
        /\ ui' = "idle" /\ Stopped
    BY <1>6 DEF AppStopped, Stopped, Answered, Calm
  <2>2. Calm' => Alive = {} /\ ~listening
    BY <2>1, StoppedMeansGone
  <2> QED
    BY <2>1, <2>2 DEF AtMostOnePool, Alive
<1>7. CASE AppGivesUp
  BY <1>7, <1>a DEF AppGivesUp, GivesUp, AtMostOnePool, Calm
<1>8. CASE Recreate
  <2>1. /\ pc' = pc /\ crew' = crew /\ stopped' = stopped /\ listening' = listening
        /\ Calm' => Calm /\ button = "start"
        /\ ui = "idle" /\ ui' = ui
    BY <1>8 DEF Recreate, Calm, ScreenTypes
  <2> QED
    BY <2>1 DEF AtMostOnePool, Alive
<1>9. ASSUME NEW r \in Pools, Signal(r) PROVE AtMostOnePool'
  BY <1>9, <1>a DEF Signal, screenVars, AtMostOnePool, Calm
<1>10. CASE Exit
  <2>1. pc' = pc /\ crew' = crew /\ stopped' = stopped /\ (Calm' => Calm)
    <3>1. CASE Stopped
      BY <3>1 DEF Stopped, Answered, Calm
    <3>2. CASE GivesUp
      BY <3>2 DEF GivesUp, Calm
    <3> QED
      BY <1>10, <3>1, <3>2 DEF Exit
  <2>2. ui' = "exited"
    BY <1>10 DEF Exit
  <2> QED
    BY <2>1, <2>2, <1>a
<1>11. CASE UNCHANGED nativeVars
  BY <1>11, <1>a DEF nativeVars, screenVars, AtMostOnePool, Calm
<1> QED
  BY <1>1, <1>2, <1>3, <1>4, <1>5, <1>6, <1>7, <1>8, <1>9, <1>10, <1>11
  DEF Next, vars, AppStep, ConsoleStep, ConsoleForms

PoolInv == PoolTypes /\ ScreenTypes /\ Crewed /\ AtMostOnePool

LEMMA PoolInvariant == Spec => []PoolInv
<1>1. ProgramsInit => PoolInv
  <2>1. ASSUME ProgramsInit PROVE AtMostOnePool
    <3>1. /\ ~listening /\ ui = "idle"
          /\ \A r \in Pools : pc[r] = "none" /\ crew[r] = 0
      BY <2>1 DEF ProgramsInit, InitNative, Init
    <3> QED
      BY <3>1 DEF AtMostOnePool, Alive
  <2> QED
    BY <2>1, InitPoolTypes, InitScreenTypes, InitCrewed DEF PoolInv
<1>2. PoolInv /\ [Next]_vars => PoolInv'
  BY StepPoolTypes, StepScreenTypes, StepCrewed, StepAtMostOnePool DEF PoolInv
<1> QED
  BY <1>1, <1>2, PTL DEF Spec

\* However many connections and handlers there are, the calm user's start never
\* comes before the last thread of the pool before: stop_ftp_server answers that
\* it stopped only when run has joined all of its threads.
THEOREM OnePoolEver == Spec => []OnePool
<1>1. PoolInv => OnePool
  <2> SUFFICES ASSUME PoolInv, Calm
               PROVE  Cardinality(Alive) <= 1
    BY DEF OnePool
  <2>1. CASE Alive = {}
    BY <2>1, FS_EmptySet
  <2>2. CASE Alive # {}
    <3>1. PICK r : Alive = {r}
      BY <2>2 DEF PoolInv, AtMostOnePool
    <3> QED
      BY <3>1, FS_Singleton
  <2> QED
    BY <2>1, <2>2
<1> QED
  BY <1>1, PoolInvariant, PTL

\* While the calm user's button offers a start, the server has stopped.
THEOREM ButtonIsRight == Spec => []ButtonTellsTruth
<1>1. PoolInv => ButtonTellsTruth
  BY DEF PoolInv, AtMostOnePool, ButtonTellsTruth
<1> QED
  BY <1>1, PoolInvariant, PTL

-----------------------------------------------------------------------------
(* The logins.                                                             *)

\* A login between find_user and add_client is in a handler, and the calm user's
\* configurations leave it alone.
Reached ==
  Calm => \A c \in Conns :
            /\ login[c] \notin {"stale", "orphan"}
            /\ login[c] = "found" => serving[c] # Nothing

\* With all pools gone, no handler runs.
LEMMA NobodyServed ==
  ASSUME PoolTypes, Crewed, Alive = {}
  PROVE  \A c \in Conns : serving[c] = Nothing
<1> SUFFICES ASSUME NEW c \in Conns, serving[c] # Nothing
             PROVE  FALSE
  OBVIOUS
<1> DEFINE r == serving[c]
<1>1. r \in Pools /\ c \in Busy(r)
  BY DEF PoolTypes, Busy
<1>2. crew[r] = 0
  <2>1. crew[r] \in 0 .. PoolSize /\ ~(crew[r] > 0)
    BY <1>1 DEF PoolTypes, Alive
  <2> QED
    BY <2>1, ListenerAssumption
<1>3. Cardinality(Busy(r)) = 0
  <2>1. Cardinality(Busy(r)) <= 0 /\ Cardinality(Busy(r)) \in Nat
    BY <1>1, <1>2, BusyFinite DEF Crewed
  <2> QED
    BY <2>1
<1>4. Busy(r) = {}
  BY <1>1, <1>3, BusyFinite, FS_EmptySet
<1> QED
  BY <1>1, <1>4

LEMMA StepReached ==
  ASSUME PoolInv, Held, Reached, [Next]_vars
  PROVE  Reached'
<1> USE DEF acceptVars, poolVars, sessionVars
<1>a. ASSUME Calm' => Calm, login' = login, \A c \in Conns : serving[c] # Nothing => serving'[c] # Nothing
      PROVE  Reached'
  BY <1>a DEF Reached
<1>1. ASSUME ServerStep PROVE Reached'
  <2>1. login' = login /\ (Calm' => Calm) /\ serving' = serving
    BY <1>1 DEF ServerStep, Arrive, SystemFails, Rearm, HandleAccept, HandleFailure, RunBegins,
                RunStarts, WorkerLeaves, RunEnds, unchangedAbove, screenVars, Calm
  <2> QED
    BY <2>1, <1>a
<1>2. ASSUME NEW r \in Pools, NEW c \in Conns, Command(r, c) PROVE Reached'
  <2>1. /\ login' = login /\ (Calm' => Calm)
        /\ serving' = [serving EXCEPT ![c] = r]
    BY <1>2 DEF Command, Enter, unchangedAbove, screenVars, Calm
  <2>2. \A d \in Conns : serving[d] # Nothing => serving'[d] # Nothing
    BY <2>1, ListenerAssumption DEF PoolInv, PoolTypes
  <2> QED
    BY <2>1, <2>2, <1>a
<1>3. ASSUME NEW c \in Conns, FindAnonymous(c) PROVE Reached'
  BY <1>3 DEF FindAnonymous, unchangedAbove, screenVars, Calm, Reached, Held
<1>4. ASSUME NEW c \in Conns, EnterAnonymous(c) PROVE Reached'
  BY <1>4 DEF EnterAnonymous, Leave, unchangedAbove, screenVars, Calm, Reached, Held, PoolInv,
              PoolTypes
<1>5. ASSUME NEW c \in Conns, BeginTransfer(c) \/ OtherCommand(c) PROVE Reached'
  BY <1>5 DEF BeginTransfer, OtherCommand, Released, Unheld, Leave, unchangedAbove, screenVars, Calm,
              Reached, Held, PoolInv, PoolTypes
<1>6. ASSUME NEW c \in Conns, EndTransfer(c) PROVE Reached'
  BY <1>6 DEF EndTransfer, unchangedAbove, screenVars, Calm, Reached, Held
<1>7. ASSUME NEW c \in Conns, Depart(c) \/ LastCommand(c) PROVE Reached'
  <2>1. /\ login'[c] \in {"none", "dead"}
        /\ \A d \in Conns \ {c} : login'[d] = login[d] /\ serving'[d] = serving[d]
        /\ Calm' => Calm
    BY <1>7 DEF Depart, LastCommand, Unheld, Leave, unchangedAbove, screenVars, Calm, Held, PoolInv,
                PoolTypes
  <2> QED
    BY <2>1 DEF Reached
\* A configuration: the pools have gone.
<1>8. ASSUME NEW f \in Forms, PressStart(f) \/ ConsoleInit(f) PROVE Reached'
  <2>1. /\ ui = "idle" /\ button = "start"
        /\ serving' = serving /\ (Calm' => Calm)
        /\ InitFtpServer(f) \/ login' = login
    BY <1>8 DEF PressStart, Configure, ConsoleInit, Calm
  <2>2. CASE login' = login
    BY <2>1, <2>2, <1>a
  <2>3. CASE InitFtpServer(f) /\ Calm
    <3>1. \A c \in Conns : serving[c] = Nothing
      BY <2>1, <2>3, NobodyServed DEF PoolInv, AtMostOnePool
    <3>2. \A c \in Conns : login[c] \notin {"found", "stale", "orphan"}
      BY <2>3, <3>1 DEF Reached
    <3>3. \A c \in Conns : login'[c] \notin {"found", "stale", "orphan"}
      BY <2>3, <3>2 DEF InitFtpServer, Dismissed, Unheld
    <3> QED
      BY <3>3 DEF Reached
  <2> QED
    BY <2>1, <2>2, <2>3 DEF Reached
<1>9. ASSUME \/ \E f \in Forms : PressStop(f)
             \/ \E r \in Pools : AppListens(r) \/ ConsoleListens(r) \/ Signal(r)
             \/ AppDoesNotListen \/ AppStopped \/ AppGivesUp \/ Recreate
             \/ ConsoleFails \/ Quit \/ Exit
      PROVE  Reached'
  <2> DEFINE Same == login' = login /\ (Calm' => Calm) /\ serving' = serving
  <2>1. ASSUME (\E f \in Forms : PressStop(f)) \/ Quit PROVE Same
    BY <2>1 DEF PressStop, Quit, Stops, StopServing, Calm
  <2>2. ASSUME NEW r \in Pools, AppListens(r) \/ ConsoleListens(r) PROVE Same
    <3>1. Listens(r)
      BY <2>2 DEF AppListens, ConsoleListens
    <3>2. login' = login /\ recreated' = recreated
      BY <3>1 DEF Listens
    <3>3. hasty' = hasty /\ serving' = serving
      BY <3>1 DEF Listens, StartServing
    <3> QED
      BY <3>2, <3>3 DEF Calm
  <2>3. ASSUME NEW r \in Pools, Signal(r) PROVE Same
    BY <2>3 DEF Signal, screenVars, Calm
  <2>4. ASSUME AppDoesNotListen \/ ConsoleFails PROVE Same
    BY <2>4 DEF AppDoesNotListen, ConsoleFails, DoesNotListen, StartFails, Calm
  <2>5. ASSUME Stopped PROVE Same
    BY <2>5 DEF Stopped, Answered, Calm
  <2>6. ASSUME GivesUp PROVE Same
    BY <2>6 DEF GivesUp, Calm
  <2>7. ASSUME Recreate PROVE Same
    BY <2>7 DEF Recreate, Calm
  <2> HIDE DEF Same
  <2>8. Same
    BY <1>9, <2>1, <2>2, <2>3, <2>4, <2>5, <2>6, <2>7 DEF AppStopped, AppGivesUp, Exit
  <2> QED
    BY <2>8, <1>a DEF Same
<1>10. ASSUME UNCHANGED nativeVars PROVE Reached'
  BY <1>10, <1>a DEF nativeVars, screenVars, Calm
<1> QED
  BY <1>1, <1>2, <1>3, <1>4, <1>5, <1>6, <1>7, <1>8, <1>9, <1>10
  DEF Next, vars, SessionStep, AppStep, ConsoleStep, ConsoleForms

\* Every node that the calm user's server makes is in a list that find_client
\* searches: allow_anonymous never deletes the account of a login under way.
THEOREM NodesAreReachable == Spec => []NodesReachable
<1> DEFINE I == Held /\ Reached
<1>1. ProgramsInit => I
  BY DEF ProgramsInit, InitNative, Held, Reached
<1>2. I /\ PoolInv /\ [Next]_vars => I'
  BY StepHeld, StepReached
<1>3. I => NodesReachable
  BY DEF Reached, NodesReachable
<1> QED
  BY <1>1, <1>2, <1>3, PoolInvariant, PTL DEF Spec

-----------------------------------------------------------------------------
(***************************************************************************)
(* What the programs' configurations make of the account table, for every  *)
(* set of forms and every configuration file: the copies of                *)
(* init_ftp_server describe the table, the server is what the screen       *)
(* showed, and the stand-alone server has the accounts of its file.        *)
(***************************************************************************)

-----------------------------------------------------------------------------
(* Tables.                                                                 *)

LEMMA TableIs ==
  ASSUME NEW t
  PROVE  t \in Tables <=> t \in [DOMAIN t -> Account] /\ DOMAIN t \subseteq Names
BY DEF Tables

LEMMA NoTableIs == NoTable \in Tables /\ DOMAIN NoTable = {}
BY TableIs DEF NoTable

LEMMA AddedIs ==
  ASSUME NEW t \in Tables, NEW n \in Names, NEW p \in Passwords, NEW d, NEW pr \in Privileges,
         HomeDir(d) \in Directories
  PROVE  /\ Added(t, n, p, d, pr) \in Tables
         /\ DOMAIN Added(t, n, p, d, pr) = DOMAIN t \cup {n}
         /\ Added(t, n, p, d, pr)[n] = [pass |-> p, dir |-> HomeDir(d), priv |-> pr]
         /\ \A m \in DOMAIN t \ {n} : Added(t, n, p, d, pr)[m] = t[m]
<1>1. t \in [DOMAIN t -> Account] /\ DOMAIN t \subseteq Names
  BY TableIs
<1>2. [pass |-> p, dir |-> HomeDir(d), priv |-> pr] \in Account
  BY DEF Account
<1> DEFINE u == Added(t, n, p, d, pr)
<1>3. DOMAIN u = DOMAIN t \cup {n} /\ u \in [DOMAIN t \cup {n} -> Account]
  BY <1>1, <1>2 DEF Added
<1>4. u \in Tables
  <2> HIDE DEF u
  <2> QED
    BY <1>1, <1>3, TableIs
<1> QED
  BY <1>3, <1>4 DEF Added

LEMMA DeletedIs ==
  ASSUME NEW t \in Tables, NEW n
  PROVE  /\ Deleted(t, n) \in Tables
         /\ DOMAIN Deleted(t, n) = DOMAIN t \ {n}
         /\ \A m \in DOMAIN t \ {n} : Deleted(t, n)[m] = t[m]
<1>1. t \in [DOMAIN t -> Account] /\ DOMAIN t \subseteq Names
  BY TableIs
<1> DEFINE u == Deleted(t, n)
<1>2. DOMAIN u = DOMAIN t \ {n} /\ u \in [DOMAIN t \ {n} -> Account]
  BY <1>1 DEF Deleted
<1>3. u \in Tables
  <2> HIDE DEF u
  <2> QED
    BY <1>1, <1>2, TableIs
<1> QED
  BY <1>2, <1>3 DEF Deleted

\* A changed password or privilege changes nothing else.
LEMMA WithPasswordIs ==
  ASSUME NEW t \in Tables, NEW n, NEW p \in Passwords
  PROVE  /\ WithPassword(t, n, p) \in Tables
         /\ DOMAIN WithPassword(t, n, p) = DOMAIN t
         /\ \A m \in DOMAIN t : /\ WithPassword(t, n, p)[m].dir = t[m].dir
                                /\ m \in Addressed(t, n) => WithPassword(t, n, p)[m].pass = p
<1>1. t \in [DOMAIN t -> Account] /\ DOMAIN t \subseteq Names
  BY TableIs
<1> DEFINE u == WithPassword(t, n, p)
<1>2. DOMAIN u = DOMAIN t
  BY DEF WithPassword
<1>3. ASSUME NEW m \in DOMAIN t
      PROVE  /\ u[m] \in Account /\ u[m].dir = t[m].dir
             /\ m \in Addressed(t, n) => u[m].pass = p
  BY <1>1 DEF WithPassword, Account
<1>4. u \in [DOMAIN t -> Account]
  BY <1>3 DEF WithPassword
<1>5. u \in Tables
  <2> HIDE DEF u
  <2> QED
    BY <1>1, <1>2, <1>4, TableIs
<1> QED
  BY <1>2, <1>3, <1>5

LEMMA WithPrivilegeIs ==
  ASSUME NEW t \in Tables, NEW n, NEW pr \in Privileges
  PROVE  /\ WithPrivilege(t, n, pr) \in Tables
         /\ DOMAIN WithPrivilege(t, n, pr) = DOMAIN t
         /\ \A m \in DOMAIN t : /\ WithPrivilege(t, n, pr)[m].dir = t[m].dir
                                /\ WithPrivilege(t, n, pr)[m].pass = t[m].pass
<1>1. t \in [DOMAIN t -> Account] /\ DOMAIN t \subseteq Names
  BY TableIs
<1> DEFINE u == WithPrivilege(t, n, pr)
<1>2. DOMAIN u = DOMAIN t
  BY DEF WithPrivilege
<1>3. ASSUME NEW m \in DOMAIN t
      PROVE  u[m] \in Account /\ u[m].dir = t[m].dir /\ u[m].pass = t[m].pass
  BY <1>1 DEF WithPrivilege, Account
<1>4. u \in [DOMAIN t -> Account]
  BY <1>3 DEF WithPrivilege
<1>5. u \in Tables
  <2> HIDE DEF u
  <2> QED
    BY <1>1, <1>2, <1>4, TableIs
<1> QED
  BY <1>2, <1>3, <1>5

-----------------------------------------------------------------------------
(* init_ftp_server.                                                        *)

Copies == [allow : BOOLEAN, user : Names, pass : Passwords, dir : Paths, priv : Privileges,
           port : Nat]

\* What a table holds of the configurations so far: the names they used and
\* directories they named; the empty name is no account's.
Rooted(t, rs) ==
  /\ t \in Tables /\ Empty \notin DOMAIN t
  /\ \A n \in DOMAIN t : \E d \in rs : t[n].dir = HomeDir(d)

\* The copies and the accounts after any number of calls.
ConfigInv ==
  /\ Rooted(accounts, roots)
  /\ DOMAIN accounts \subseteq {Anonymous, copy.user} \cup parted
  /\ allowed \in BOOLEAN /\ copy \in Copies
  /\ copy.user \notin {Anonymous, FtpName}
  /\ usPort \in 0 .. Width - 1
  /\ copy.port # 0 => usPort = Narrow(copy.port)
  /\ CopiesAgree

\* allow_anonymous does what its answer says, and to the anonymous account only.
LEMMA AnonymousStage ==
  ASSUME ConfigInv, NEW f \in Form
  PROVE  LET A == AfterAnonymous(f) IN
         /\ Rooted(A, roots \cup {f.dir})
         /\ DOMAIN A \ {Anonymous} = DOMAIN accounts \ {Anonymous}
         /\ \A n \in DOMAIN A \ {Anonymous} : A[n] = accounts[n]
         /\ (Anonymous \in DOMAIN A) = IF Switches(f) THEN f.allow ELSE allowed
<1> DEFINE A == AfterAnonymous(f)
<1>1. /\ f.allow \in BOOLEAN /\ f.dir \in Paths
      /\ allowed \in BOOLEAN /\ copy.allow = allowed
      /\ allowed = (Anonymous \in DOMAIN accounts)
  BY DEF Form, ConfigInv, CopiesAgree
<1>2. CASE ~Switches(f)
  <2>1. A = accounts
    BY <1>2 DEF AfterAnonymous
  <2> QED
    BY <1>1, <1>2, <2>1 DEF ConfigInv, Rooted
<1>3. CASE Switches(f) /\ f.allow
  <2>1. ~allowed /\ HomeDir(f.dir) \in Directories
    BY <1>1, <1>3 DEF Switches, CanAllow, CanAdd
  <2>2. A = Added(accounts, Anonymous, Empty, f.dir, All)
    BY <1>3, <2>1 DEF AfterAnonymous, Allowed
  <2>3. Anonymous \in Names /\ Anonymous # Empty /\ Empty \in Passwords /\ All \in Privileges
    BY AccountsAssumption, FormsAssumption
  <2>4. /\ A \in Tables /\ DOMAIN A = DOMAIN accounts \cup {Anonymous}
        /\ A[Anonymous] = [pass |-> Empty, dir |-> HomeDir(f.dir), priv |-> All]
        /\ \A m \in DOMAIN accounts \ {Anonymous} : A[m] = accounts[m]
    <3> HIDE DEF A
    <3>1. accounts \in Tables
      BY DEF ConfigInv, Rooted
    <3> QED
      BY <2>1, <2>2, <2>3, <3>1, AddedIs
  <2> HIDE DEF A
  <2>5. Rooted(A, roots \cup {f.dir})
    BY <2>3, <2>4 DEF ConfigInv, Rooted
  <2> QED
    BY <1>1, <1>3, <2>4, <2>5 DEF A
<1>4. CASE Switches(f) /\ ~f.allow
  <2>1. allowed
    BY <1>1, <1>4 DEF Switches
  <2>2. A = Deleted(accounts, Anonymous)
    BY <1>4, <2>1 DEF AfterAnonymous, Allowed
  <2>3. /\ A \in Tables /\ DOMAIN A = DOMAIN accounts \ {Anonymous}
        /\ \A m \in DOMAIN accounts \ {Anonymous} : A[m] = accounts[m]
    <3> HIDE DEF A
    <3>1. accounts \in Tables
      BY DEF ConfigInv, Rooted
    <3> QED
      BY <2>2, <3>1, DeletedIs
  <2> HIDE DEF A
  <2>4. Rooted(A, roots \cup {f.dir})
    BY <2>3 DEF ConfigInv, Rooted
  <2> QED
    BY <1>1, <1>4, <2>3, <2>4 DEF A
<1> QED
  BY <1>1, <1>2, <1>3, <1>4

\* add_user and set_user_password leave the anonymous account where it is, and
\* what the copies then say of the user is so.
LEMMA UserStage ==
  ASSUME ConfigInv, NEW f \in Form
  PROVE  LET A == AfterAnonymous(f)
             U == AfterUser(f)
             c == CopyOf(f) IN
         /\ Rooted(U, roots \cup {f.dir})
         /\ (Anonymous \in DOMAIN U) = (Anonymous \in DOMAIN A)
         /\ DOMAIN U \subseteq DOMAIN A \cup {c.user}
         /\ c.user \in Names \ {Anonymous, FtpName} /\ c.pass \in Passwords
         /\ ~Renames(f) => c.user = copy.user
         /\ c.user # Empty => c.user \in DOMAIN U /\ U[c.user].pass = c.pass
<1> DEFINE A == AfterAnonymous(f)
           U == AfterUser(f)
           c == CopyOf(f)
<1>1. /\ Rooted(A, roots \cup {f.dir})
      /\ DOMAIN A \ {Anonymous} = DOMAIN accounts \ {Anonymous}
      /\ \A n \in DOMAIN A \ {Anonymous} : A[n] = accounts[n]
  BY AnonymousStage
<1>2. /\ f.user \in Names /\ f.pass \in Passwords /\ f.dir \in Paths
      /\ copy.user \in Names \ {Anonymous, FtpName} /\ copy.pass \in Passwords
      /\ copy.user # Empty => copy.user \in DOMAIN accounts
                              /\ accounts[copy.user].pass = copy.pass
      /\ Empty \in Names /\ Empty \notin {Anonymous, FtpName}
  BY AccountsAssumption DEF Form, ConfigInv, Copies, CopiesAgree
<1>3. CASE Registers(f)
  <2>1. /\ f.user \notin {Anonymous, FtpName, Empty} /\ HomeDir(f.dir) \in Directories
        /\ Renames(f)
    BY <1>3 DEF Registers, CanRegister, CanAdd
  <2>2. U = Added(A, f.user, f.pass, f.dir, All) /\ c.user = f.user /\ c.pass = f.pass
    BY <1>3 DEF AfterUser, CopyOf
  <2>3. /\ U \in Tables /\ DOMAIN U = DOMAIN A \cup {f.user}
        /\ U[f.user] = [pass |-> f.pass, dir |-> HomeDir(f.dir), priv |-> All]
        /\ \A m \in DOMAIN A \ {f.user} : U[m] = A[m]
    <3> HIDE DEF A, U, c
    <3>1. /\ A \in Tables /\ All \in Privileges /\ HomeDir(f.dir) \in Directories
          /\ f.user \in Names /\ f.pass \in Passwords
      BY <1>1, <1>2, <2>1, FormsAssumption DEF Rooted
    <3> DEFINE B == Added(A, f.user, f.pass, f.dir, All)
    <3>2. /\ B \in Tables /\ DOMAIN B = DOMAIN A \cup {f.user}
          /\ B[f.user] = [pass |-> f.pass, dir |-> HomeDir(f.dir), priv |-> All]
          /\ \A m \in DOMAIN A \ {f.user} : B[m] = A[m]
      BY <3>1, AddedIs
    <3> HIDE DEF B
    <3>3. U = B
      BY <2>2 DEF B
    <3> QED
      BY <3>2, <3>3
  <2> HIDE DEF A, U, c
  <2>4. Rooted(U, roots \cup {f.dir})
    BY <1>1, <2>1, <2>3 DEF Rooted
  <2> QED
    BY <1>2, <2>1, <2>2, <2>3, <2>4 DEF A, U, c
<1>4. CASE ~Registers(f) /\ Repasses(f)
  <2>1. ~Renames(f) /\ copy.user = f.user
    BY <1>4 DEF Repasses, Renames
  <2>2. U = WithPassword(A, f.user, f.pass) /\ c.user = copy.user /\ c.pass = f.pass
    BY <1>4, <2>1 DEF AfterUser, CopyOf
  <2>3. /\ U \in Tables /\ DOMAIN U = DOMAIN A
        /\ \A m \in DOMAIN A : U[m].dir = A[m].dir
        /\ \A m \in DOMAIN A : m \in Addressed(A, f.user) => U[m].pass = f.pass
    <3> HIDE DEF A, U, c
    <3>1. A \in Tables
      BY <1>1 DEF Rooted
    <3> QED
      BY <1>2, <2>2, <3>1, WithPasswordIs
  <2>4. c.user # Empty => c.user \in DOMAIN A /\ c.user \in Addressed(A, f.user)
    <3> HIDE DEF A, U, c
    <3> QED
      BY <1>1, <1>2, <2>1, <2>2 DEF Addressed
  <2> HIDE DEF A, U, c
  <2>5. Rooted(U, roots \cup {f.dir})
    BY <1>1, <2>3 DEF Rooted
  <2>6. c.user # Empty => c.user \in DOMAIN U /\ U[c.user].pass = c.pass
    BY <2>2, <2>3, <2>4
  <2> QED
    BY <1>2, <2>1, <2>2, <2>3, <2>5, <2>6 DEF A, U, c
<1>5. CASE ~Registers(f) /\ ~Repasses(f)
  <2>1. U = A /\ c.user = (IF Renames(f) THEN Empty ELSE copy.user) /\ c.pass = copy.pass
    BY <1>5 DEF AfterUser, CopyOf
  <2> HIDE DEF A, U, c
  <2>2. c.user # Empty => c.user \in DOMAIN A /\ A[c.user].pass = c.pass
    BY <1>1, <1>2, <2>1
  <2> QED
    BY <1>1, <1>2, <2>1, <2>2 DEF A, U, c
<1> QED
  BY <1>3, <1>4, <1>5

\* set_user_home_directory for the empty name finds no account, and
\* set_user_privilege touches neither names, passwords nor directories.
LEMMA RightsStage ==
  ASSUME ConfigInv, NEW f \in Form
  PROVE  LET U == AfterUser(f) IN
         /\ ~Moves(f)
         /\ Rooted(Configured(f), roots \cup {f.dir})
         /\ DOMAIN Configured(f) = DOMAIN U
         /\ \A n \in DOMAIN U : Configured(f)[n].pass = U[n].pass
<1> DEFINE U == AfterUser(f)
           C == Configured(f)
<1>1. Rooted(U, roots \cup {f.dir})
  BY UserStage
<1>2. ~Moves(f)
  BY <1>1 DEF Moves, CanMove, Exists, Rooted
<1>3. AfterMove(f) = U
  BY <1>2 DEF AfterMove
<1>4. C = U \/ C = WithPrivilege(U, Empty, All)
  BY <1>3 DEF Configured
<1> HIDE DEF U, C
<1>5. /\ C \in Tables /\ DOMAIN C = DOMAIN U
      /\ \A n \in DOMAIN U : C[n].pass = U[n].pass /\ C[n].dir = U[n].dir
  BY <1>1, <1>4, WithPrivilegeIs, FormsAssumption DEF Rooted
<1>6. Rooted(C, roots \cup {f.dir})
  BY <1>1, <1>5 DEF Rooted
<1> QED
  BY <1>2, <1>5, <1>6 DEF U, C

LEMMA CopyIs ==
  ASSUME ConfigInv, NEW f \in Form
  PROVE  /\ CopyOf(f) \in Copies
         /\ CopyOf(f).allow = (IF Switches(f) THEN f.allow ELSE allowed)
         /\ CopyOf(f).port = f.port
<1>1. CopyOf(f).user \in Names /\ CopyOf(f).pass \in Passwords
  BY UserStage
<1>2. Privilege(f) \in Privileges
  BY FormsAssumption DEF Privilege, ConfigInv, Copies
<1>3. /\ f.allow \in BOOLEAN /\ f.dir \in Paths /\ f.port \in Nat
      /\ copy.allow \in BOOLEAN /\ copy.dir \in Paths /\ copy.allow = allowed
  BY DEF Form, ConfigInv, Copies, CopiesAgree
<1> QED
  BY <1>1, <1>2, <1>3, FormsAssumption DEF CopyOf, Copies

LEMMA StepConfigured ==
  ASSUME ConfigInv, NEW f \in Form, InitFtpServer(f)
  PROVE  ConfigInv'
<1>1. /\ accounts' = Configured(f) /\ copy' = CopyOf(f) /\ roots' = roots \cup {f.dir}
      /\ allowed' = (IF Switches(f) THEN f.allow ELSE allowed)
      /\ usPort' = (IF copy.port # f.port THEN Narrow(f.port) ELSE usPort)
      /\ parted' = (IF Renames(f) THEN parted \cup ({copy.user} \ {Empty}) ELSE parted)
  BY DEF InitFtpServer
<1> DEFINE A == AfterAnonymous(f)
           U == AfterUser(f)
<1>2. /\ DOMAIN A \ {Anonymous} = DOMAIN accounts \ {Anonymous}
      /\ (Anonymous \in DOMAIN A) = allowed'
  BY <1>1, AnonymousStage
<1>3. /\ (Anonymous \in DOMAIN U) = (Anonymous \in DOMAIN A)
      /\ DOMAIN U \subseteq DOMAIN A \cup {copy'.user}
      /\ copy'.user \notin {Anonymous, FtpName}
      /\ ~Renames(f) => copy'.user = copy.user
      /\ copy'.user # Empty => copy'.user \in DOMAIN U /\ U[copy'.user].pass = copy'.pass
  BY <1>1, UserStage
<1>4. /\ Rooted(accounts', roots')
      /\ DOMAIN accounts' = DOMAIN U
      /\ \A n \in DOMAIN U : accounts'[n].pass = U[n].pass
  BY <1>1, RightsStage
<1>5. copy' \in Copies /\ copy'.allow = allowed' /\ copy'.port = f.port
  BY <1>1, CopyIs
<1> HIDE DEF A, U
<1>6. allowed' \in BOOLEAN
  BY <1>5 DEF Copies
<1>7. usPort' \in 0 .. Width - 1 /\ (copy'.port # 0 => usPort' = Narrow(copy'.port))
  <2>1. Width \in Nat /\ Width > 0 /\ f.port \in Nat
    BY FormsAssumption DEF Form
  <2>2. f.port % Width \in 0 .. Width - 1
    BY <2>1
  <2> QED
    BY <1>1, <1>5, <2>2 DEF ConfigInv, Narrow
<1>8. DOMAIN accounts' \subseteq {Anonymous, copy'.user} \cup parted'
  <2>1. DOMAIN accounts \subseteq {Anonymous, copy.user} \cup parted /\ Empty \notin DOMAIN accounts
    BY DEF ConfigInv, Rooted
  <2> QED
    BY <1>1, <1>2, <1>3, <1>4, <2>1
<1>9. CopiesAgree'
  BY <1>2, <1>3, <1>4, <1>5 DEF CopiesAgree
<1> QED
  BY <1>3, <1>4, <1>5, <1>6, <1>7, <1>8, <1>9 DEF ConfigInv

\* Only a start of the application or of the console program configures.
LEMMA WhoConfigures ==
  ASSUME [Next]_vars
  PROVE  \/ \E f \in Forms : InitFtpServer(f)
         \/ UNCHANGED configVars
<1> USE DEF configVars
<1>1. CASE ServerStep \/ SessionStep
  BY <1>1 DEF ServerStep, SessionStep, unchangedAbove, Command, FindAnonymous, EnterAnonymous,
              BeginTransfer, EndTransfer, OtherCommand, Depart, LastCommand
<1>2. CASE AppStep
  BY <1>2 DEF AppStep, PressStart, Configure, PressStop, Stops, AppListens, Listens,
              AppDoesNotListen, DoesNotListen, AppStopped, Stopped, AppGivesUp, GivesUp, Recreate
<1>3. CASE ConsoleStep
  BY <1>3 DEF ConsoleStep, ConsoleForms, ConsoleInit, ConsoleListens, Listens, Signal,
              ConsoleFails, DoesNotListen, Quit, Stops, Exit, Stopped, GivesUp
<1> QED
  BY <1>1, <1>2, <1>3 DEF Next, vars, nativeVars

LEMMA StepConfigInv == ConfigInv /\ [Next]_vars => ConfigInv'
<1> SUFFICES ASSUME ConfigInv, [Next]_vars
             PROVE  ConfigInv'
  OBVIOUS
<1>1. CASE \E f \in Forms : InitFtpServer(f)
  BY <1>1, StepConfigured, FormsAssumption
<1>2. CASE UNCHANGED configVars
  BY <1>2 DEF configVars, ConfigInv, CopiesAgree, Rooted
<1> QED
  BY <1>1, <1>2, WhoConfigures

LEMMA InitConfigInv == ProgramsInit => ConfigInv
<1> SUFFICES ASSUME ProgramsInit
             PROVE  ConfigInv
  OBVIOUS
<1>1. /\ accounts = NoTable /\ allowed = FALSE /\ usPort = DefaultPort /\ copy = NewCopy
  BY DEF ProgramsInit, InitNative
<1>2. Empty \in Names \cap Passwords \cap Paths /\ Empty \notin {Anonymous, FtpName}
  BY AccountsAssumption
<1>3. NewCopy \in Copies
  BY <1>2, FormsAssumption DEF NewCopy, Copies
<1>4. DefaultPort \in 0 .. Width - 1
  BY FormsAssumption
<1>5. CopiesAgree
  <2>1. NewCopy.allow = FALSE /\ NewCopy.user = Empty
    BY DEF NewCopy
  <2>2. Anonymous \notin DOMAIN accounts
    BY <1>1, NoTableIs
  <2>3. allowed = (Anonymous \in DOMAIN accounts)
    <3>1. allowed = FALSE
      BY <1>1
    <3>2. (Anonymous \in DOMAIN accounts) = FALSE
      BY <2>2
    <3> QED
      BY <3>1, <3>2
  <2> QED
    BY <1>1, <2>1, <2>3 DEF CopiesAgree
<1>6. Rooted(accounts, roots)
  BY <1>1, NoTableIs DEF Rooted
<1> QED
  BY <1>1, <1>2, <1>3, <1>4, <1>5, <1>6, NoTableIs DEF ConfigInv, NewCopy

LEMMA ConfigInvariant == Spec => []ConfigInv
BY InitConfigInv, StepConfigInv, PTL DEF Spec

\* However init_ftp_server is called, with calls inside it that fail: the copies
\* it compares the next configuration with describe the accounts there are.
THEOREM CopiesDescribe == Spec => []CopiesAgree
<1>1. ConfigInv => CopiesAgree
  BY DEF ConfigInv
<1> QED
  BY <1>1, ConfigInvariant, PTL

-----------------------------------------------------------------------------
(* What the screen shows.                                                  *)

\* The server is as the fields say.
AsShown ==
  Ordinary(shown) =>
    /\ usPort = shown.port
    /\ (Anonymous \in DOMAIN accounts) = shown.allow
    /\ shown.user # Empty =>
         /\ shown.user \in DOMAIN accounts
         /\ accounts[shown.user].pass = shown.pass
         /\ roots = {shown.dir} => accounts[shown.user].dir = HomeDir(shown.dir)

\* It is so from a start on that was configured.
Shown ==
  build = "activity" /\ (ui \in {"configured", "waiting"} \/ button = "stop") => AsShown

\* One call of init_ftp_server makes it so.
LEMMA ConfiguredAsShown ==
  ASSUME ConfigInv, NEW f \in Form, Configure(f), shown' = f
  PROVE  AsShown'
<1> SUFFICES ASSUME Ordinary(shown)'
             PROVE  /\ usPort' = f.port
                    /\ (Anonymous \in DOMAIN accounts') = f.allow
                    /\ f.user # Empty =>
                         /\ f.user \in DOMAIN accounts'
                         /\ accounts'[f.user].pass = f.pass
                         /\ roots' = {f.dir} => accounts'[f.user].dir = HomeDir(f.dir)
  BY DEF AsShown
<1>1. /\ f.port \in 1 .. Width - 1 /\ HomeDir(f.dir) \in Directories
      /\ f.user \notin parted' \cup {Anonymous, FtpName}
  BY DEF Ordinary
<1>2. f.port > 0 /\ Width \in Nat
  BY <1>1, FormsAssumption
<1>3. InitFtpServer(f)
  BY <1>2 DEF Configure
<1>4. ConfigInv'
  BY <1>3, StepConfigured
<1>5. usPort' = f.port
  <2>1. Narrow(f.port) = f.port
    BY <1>1, <1>2 DEF Narrow
  <2> QED
    BY <1>2, <1>3, <2>1 DEF InitFtpServer, ConfigInv
<1>6. /\ copy.allow = allowed /\ allowed = (Anonymous \in DOMAIN accounts)
      /\ allowed \in BOOLEAN /\ f.allow \in BOOLEAN
      /\ copy.user \notin {Anonymous, FtpName}
      /\ DOMAIN accounts \subseteq {Anonymous, copy.user} \cup parted
  BY DEF ConfigInv, CopiesAgree, Form
<1>7. copy' = CopyOf(f) /\ parted \subseteq parted'
  BY <1>3 DEF InitFtpServer
<1>8. (Anonymous \in DOMAIN accounts') = f.allow
  <2>1. copy.allow # f.allow => Switches(f)
    BY <1>1, <1>6, AccountsAssumption DEF Switches, CanAllow, CanAdd, Exists
  <2>2. copy'.allow = f.allow
    BY <1>6, <1>7, <2>1 DEF CopyOf
  <2> QED
    BY <1>4, <2>2 DEF ConfigInv, CopiesAgree
<1>9. ASSUME f.user # Empty
      PROVE  copy'.user = f.user /\ copy'.pass = f.pass
  <2>1. CASE Renames(f)
    <3>1. copy.user # Empty => copy.user \in parted'
      BY <1>3, <2>1 DEF InitFtpServer
    <3>2. f.user # copy.user
      BY <2>1 DEF Renames
    <3>3. f.user \notin DOMAIN AfterAnonymous(f)
      <4>1. f.user \notin DOMAIN accounts
        BY <1>1, <1>6, <1>7, <3>2
      <4> QED
        BY <1>1, <4>1, AnonymousStage
    <3>4. Registers(f)
      BY <1>1, <1>9, <2>1, <3>3 DEF Registers, CanRegister, CanAdd, Exists
    <3> QED
      BY <1>7, <3>4 DEF CopyOf
  <2>2. CASE ~Renames(f)
    <3>1. copy.user = f.user /\ ~Registers(f)
      BY <2>2 DEF Renames, Registers
    <3>2. f.user \in DOMAIN accounts /\ f.user # Anonymous
      BY <1>1, <1>9, <3>1 DEF ConfigInv, CopiesAgree
    <3>3. f.user \in Addressed(AfterAnonymous(f), f.user)
      BY <1>9, <3>2, AnonymousStage DEF Addressed
    <3>4. copy.pass # f.pass => Repasses(f)
      BY <2>2, <3>3 DEF Repasses
    <3> QED
      BY <1>7, <2>2, <3>1, <3>4 DEF CopyOf
  <2> QED
    BY <2>1, <2>2
<1>10. ASSUME f.user # Empty
       PROVE  f.user \in DOMAIN accounts' /\ accounts'[f.user].pass = f.pass
  BY <1>4, <1>9, <1>10 DEF ConfigInv, CopiesAgree
<1>11. ASSUME roots' = {f.dir}, f.user \in DOMAIN accounts'
       PROVE  accounts'[f.user].dir = HomeDir(f.dir)
  BY <1>4, <1>11 DEF ConfigInv, Rooted
<1> QED
  BY <1>5, <1>8, <1>10, <1>11

LEMMA StepShown ==
  ASSUME ConfigInv, ScreenTypes, Shown, [Next]_vars
  PROVE  Shown'
<1> SUFFICES ASSUME build' = "activity"
             PROVE  Shown'
  BY DEF Shown
<1>0. build = "activity"
  BY BuildKept
\* Steps that change neither fields nor configuration.
<1>a. ASSUME shown' = shown, UNCHANGED configVars,
             ui' \in {"configured", "waiting"} \/ button' = "stop" =>
               ui \in {"configured", "waiting"} \/ button = "stop"
      PROVE  Shown'
  BY <1>0, <1>a DEF Shown, AsShown, Ordinary, configVars
<1>1. CASE ServerStep \/ SessionStep
  <2>1. shown' = shown /\ ui' = ui /\ button' = button /\ UNCHANGED configVars
    BY <1>1 DEF ServerStep, SessionStep, unchangedAbove, Command, FindAnonymous, EnterAnonymous,
                BeginTransfer, EndTransfer, OtherCommand, Depart, LastCommand, screenVars, configVars
  <2> QED
    BY <2>1, <1>a
<1>2. ASSUME NEW f \in Forms, PressStart(f) PROVE Shown'
  BY <1>2, ConfiguredAsShown, FormsAssumption DEF PressStart, Shown
<1>3. CASE \E f \in Forms : PressStop(f)
  BY <1>3, <1>a DEF PressStop, Stops
<1>4. CASE \E r \in Pools : AppListens(r)
  BY <1>4, <1>a DEF AppListens, Listens
<1>5. CASE AppDoesNotListen
  BY <1>5, <1>a DEF AppDoesNotListen, DoesNotListen
<1>6. CASE AppStopped
  BY <1>6, <1>a DEF AppStopped, Stopped
<1>7. CASE AppGivesUp
  BY <1>7, <1>a DEF AppGivesUp, GivesUp
<1>8. CASE Recreate
  BY <1>8, <1>a DEF Recreate
<1>9. CASE UNCHANGED nativeVars
  BY <1>9, <1>a DEF nativeVars, screenVars
<1> QED
  BY <1>0, <1>1, <1>2, <1>3, <1>4, <1>5, <1>6, <1>7, <1>8, <1>9 DEF Next, vars, AppStep

\* For every set of forms a user may fill in, one after the other: the server
\* the screen offers to stop has the port, the anonymous login, the user and the
\* password that the fields showed when it was started.
THEOREM ServerIsAsShown == Spec => []ShownIsServed
<1>1. ProgramsInit => Shown
  BY DEF ProgramsInit, InitNative, Shown
<1>2. PoolInv => ScreenTypes
  BY DEF PoolInv
<1>3. Shown => ShownIsServed
  BY DEF Shown, AsShown, ShownIsServed
<1> QED
  BY <1>1, <1>2, <1>3, StepShown, ConfigInvariant, PoolInvariant, PTL DEF Spec

-----------------------------------------------------------------------------
(* The stand-alone server.                                                 *)

\* Line i makes an account: no line before it does for its name.
FirstOf(i) ==
  /\ Acceptable(i)
  /\ \A j \in 1 .. i - 1 : Acceptable(j) => conf.users[j].user # conf.users[i].user

\* The table after k lines.
After(k) ==
  /\ k \in Nat
  /\ \A i \in 1 .. k : i \in DOMAIN conf.users /\ conf.users[i] # NoLine
  /\ \A i \in 1 .. k : Acceptable(i) => conf.users[i].user \in DOMAIN table
  /\ \A n \in DOMAIN table \ {Anonymous} :
       \E i \in 1 .. k :
         /\ FirstOf(i) /\ conf.users[i].user = n
         /\ table[n] = [pass |-> conf.users[i].pass, dir |-> HomeDir(conf.users[i].dir),
                        priv |-> conf.users[i].priv]

AnonymousRead ==
  /\ conf.anonymous # Malformed
  /\ Anonymous \in DOMAIN table <=> conf.anonymous # NoLine /\ conf.anonymous.allow
  /\ Anonymous \in DOMAIN table => table[Anonymous].dir = HomeDir(conf.anonymous.dir)

\* main goes through the file from the top; in the end it has gone as far as
\* there are lines.
AppInv ==
  /\ table \in Tables
  /\ phase \in {"anonymous", "users", "range", "serving", "failed"}
  /\ build = "server" => conf \in Configs
  /\ build # "server" => phase = "anonymous"
  /\ phase = "anonymous" => table = NoTable /\ anonymousOn = FALSE /\ line = 0
  /\ phase = "users" => AnonymousRead /\ After(line)
  /\ phase \in {"range", "serving"} =>
       AnonymousRead /\ \E k \in Nat : After(k) /\ Line(k + 1) = NoLine

LEMMA ConfIs ==
  ASSUME conf \in Configs
  PROVE  /\ conf.anonymous \in AnonymousLine \cup {Malformed, NoLine}
         /\ DOMAIN conf.users = 1 .. Len(conf.users) /\ Len(conf.users) \in Nat
         /\ \A i \in DOMAIN conf.users : conf.users[i] \in UserLine \cup {Malformed, NoLine}
<1>1. conf \in Config
  BY ConfigsAssumption
<1>2. conf.users \in Seq(UserLine \cup {Malformed, NoLine})
  BY <1>1 DEF Config
<1> QED
  BY <1>1, <1>2 DEF Config

LEMMA StepAnonymous ==
  ASSUME AppInv, build = "server", ReadAnonymous
  PROVE  /\ table' \in Tables /\ phase' \in {"users", "failed"}
         /\ phase' = "users" => AnonymousRead' /\ After(line)'
<1> DEFINE a == conf.anonymous
           ok == a \notin {Malformed, NoLine} /\ CanAllow(table, anonymousOn, a.allow, a.dir)
<1>1. /\ table = NoTable /\ anonymousOn = FALSE /\ line = 0
      /\ line' = line /\ conf' = conf
      /\ table' = (IF ok THEN Allowed(table, anonymousOn, a.allow, a.dir, a.priv) ELSE table)
      /\ phase' = (IF ok \/ a = NoLine THEN "users" ELSE "failed")
  BY DEF ReadAnonymous, AppInv
<1>2. NoLine # Malformed
  BY ConfigsAssumption
<1>3. CASE ok /\ a.allow
  <2>1. a \in AnonymousLine
    BY <1>3, ConfIs DEF AppInv
  <2>2. HomeDir(a.dir) \in Directories /\ a.priv \in Privileges
    BY <1>1, <1>3, <2>1 DEF CanAllow, CanAdd, AnonymousLine
  <2>3. table' = Added(NoTable, Anonymous, Empty, a.dir, a.priv)
    BY <1>1, <1>3 DEF Allowed
  <2>4. /\ table' \in Tables /\ DOMAIN table' = {Anonymous}
        /\ table'[Anonymous].dir = HomeDir(a.dir)
    <3>1. Anonymous \in Names /\ Empty \in Passwords /\ NoTable \in Tables
      BY NoTableIs, AccountsAssumption
    <3> DEFINE B == Added(NoTable, Anonymous, Empty, a.dir, a.priv)
    <3>2. /\ B \in Tables /\ DOMAIN B = DOMAIN NoTable \cup {Anonymous}
          /\ B[Anonymous] = [pass |-> Empty, dir |-> HomeDir(a.dir), priv |-> a.priv]
      <4> HIDE DEF a
      <4> QED
        BY <2>2, <3>1, AddedIs
    <3> HIDE DEF B
    <3>3. table' = B
      BY <2>3 DEF B
    <3> QED
      BY <3>2, <3>3, NoTableIs
  <2>5. AnonymousRead'
    BY <1>1, <1>3, <2>4 DEF AnonymousRead
  <2>6. After(line)'
    BY <1>1, <2>4 DEF After
  <2> QED
    BY <1>1, <1>3, <2>4, <2>5, <2>6
<1>4. CASE ~(ok /\ a.allow)
  <2>1. table' = NoTable
    BY <1>1, <1>4 DEF Allowed
  <2>2. ok \/ a = NoLine => AnonymousRead'
    BY <1>1, <1>2, <1>4, <2>1, NoTableIs DEF AnonymousRead
  <2>3. After(line)'
    BY <1>1, <2>1, NoTableIs DEF After
  <2> HIDE DEF ok
  <2> QED
    BY <1>1, <2>1, <2>2, <2>3, NoTableIs
<1> QED
  BY <1>3, <1>4

LEMMA StepUser ==
  ASSUME AppInv, build = "server", ReadUser
  PROVE  table' \in Tables /\ AnonymousRead' /\ After(line)'
<1> DEFINE i == line + 1
           u == Line(i)
           ok == u # Malformed /\ CanRegister(table, u.user, u.dir)
<1>1. /\ line' = i /\ conf' = conf /\ u # NoLine
      /\ table' = (IF ok THEN Added(table, u.user, u.pass, u.dir, u.priv) ELSE table)
      /\ AnonymousRead /\ After(line) /\ table \in Tables /\ line \in Nat
  BY DEF ReadUser, AppInv, After
<1>2. i \in DOMAIN conf.users /\ u = conf.users[i]
  BY <1>1 DEF Line
<1>3. u \in UserLine \cup {Malformed}
  BY <1>1, <1>2, ConfIs DEF AppInv
<1>4. \A j \in 1 .. i : j \in DOMAIN conf.users /\ conf.users[j] # NoLine
  BY <1>1, <1>2 DEF After
<1>5. \A j : Acceptable(j)' <=> Acceptable(j)
  BY <1>1 DEF Acceptable
<1>6. \A j : FirstOf(j)' <=> FirstOf(j)
  BY <1>1, <1>5 DEF FirstOf
<1>7. Acceptable(i) <=> /\ u # Malformed /\ u.user \notin {Empty, Anonymous, FtpName}
                        /\ HomeDir(u.dir) \in Directories
  BY <1>2 DEF Acceptable
<1>8. CASE ok
  <2>1. /\ u.user \in Names \ {Anonymous, Empty} /\ u.pass \in Passwords
        /\ u.priv \in Privileges /\ HomeDir(u.dir) \in Directories
        /\ u.user \notin DOMAIN table
        /\ Acceptable(i)
    BY <1>3, <1>7, <1>8 DEF CanRegister, CanAdd, Exists, UserLine
  <2>2. table' = Added(table, u.user, u.pass, u.dir, u.priv)
    BY <1>1, <1>8
  <2> HIDE DEF i, u, ok
  <2>3. /\ table' \in Tables /\ DOMAIN table' = DOMAIN table \cup {u.user}
        /\ table'[u.user] = [pass |-> u.pass, dir |-> HomeDir(u.dir), priv |-> u.priv]
        /\ \A m \in DOMAIN table \ {u.user} : table'[m] = table[m]
    <3>1. /\ table \in Tables /\ u.user \in Names /\ u.pass \in Passwords
          /\ u.priv \in Privileges /\ HomeDir(u.dir) \in Directories
      BY <1>1, <2>1
    <3> DEFINE n == u.user   p == u.pass   d == u.dir   pr == u.priv
               B == Added(table, n, p, d, pr)
    <3> HIDE DEF n, p, d, pr
    <3>2. /\ B \in Tables /\ DOMAIN B = DOMAIN table \cup {n}
          /\ B[n] = [pass |-> p, dir |-> HomeDir(d), priv |-> pr]
          /\ \A m \in DOMAIN table \ {n} : B[m] = table[m]
      <4>1. /\ table \in Tables /\ n \in Names /\ p \in Passwords
            /\ pr \in Privileges /\ HomeDir(d) \in Directories
        BY <3>1 DEF n, p, d, pr
      <4> QED
        BY <4>1, AddedIs
    <3> HIDE DEF B
    <3>3. table' = B
      BY <2>2 DEF B, n, p, d, pr
    <3> QED
      BY <3>2, <3>3 DEF n, p, d, pr
  <2>4. FirstOf(i)
    BY <1>1, <1>2, <2>1 DEF FirstOf, After, i
  <2>5. AnonymousRead'
    BY <1>1, <2>1, <2>3 DEF AnonymousRead
  <2>6. \A j \in 1 .. i : Acceptable(j)' => conf'.users[j].user \in DOMAIN table'
    <3>1. \A j \in 1 .. i : j \in 1 .. line \/ j = i
      BY <1>1 DEF i
    <3> QED
      BY <1>1, <1>2, <1>5, <2>3, <3>1 DEF After
  <2>7. ASSUME NEW n \in DOMAIN table' \ {Anonymous}
        PROVE  \E j \in 1 .. i :
                 /\ FirstOf(j)' /\ conf'.users[j].user = n
                 /\ table'[n] = [pass |-> conf'.users[j].pass, dir |-> HomeDir(conf'.users[j].dir),
                                 priv |-> conf'.users[j].priv]
    <3>1. i \in 1 .. i /\ \A j \in 1 .. line : j \in 1 .. i
      BY <1>1 DEF i
    <3>2. CASE n = u.user
      BY <1>1, <1>2, <1>6, <2>3, <2>4, <3>1, <3>2
    <3>3. CASE n # u.user
      BY <1>1, <1>6, <2>3, <2>7, <3>1, <3>3 DEF After
    <3> QED
      BY <3>2, <3>3
  <2>8. i \in Nat
    BY <1>1 DEF i
  <2> QED
    BY <1>1, <1>4, <2>3, <2>5, <2>6, <2>7, <2>8 DEF After
<1>9. CASE ~ok
  <2>1. table' = table
    BY <1>1, <1>9
  <2>2. Acceptable(i) => u.user \in DOMAIN table
    BY <1>3, <1>7, <1>9 DEF CanRegister, CanAdd, Exists, UserLine
  <2> HIDE DEF i, u, ok
  <2>3. AnonymousRead'
    BY <1>1, <2>1 DEF AnonymousRead
  <2>4. \A j \in 1 .. i : j \in 1 .. line \/ j = i
    BY <1>1 DEF i
  <2>5. \A j \in 1 .. i : Acceptable(j)' => conf'.users[j].user \in DOMAIN table'
    BY <1>1, <1>2, <1>5, <2>1, <2>2, <2>4 DEF After
  <2>6. i \in Nat /\ \A j \in 1 .. line : j \in 1 .. i
    BY <1>1 DEF i
  <2> QED
    BY <1>1, <1>4, <1>6, <2>1, <2>3, <2>5, <2>6 DEF After
<1> QED
  BY <1>8, <1>9

LEMMA StepAppInv == AppInv /\ [Next]_vars => AppInv'
<1> SUFFICES ASSUME AppInv, [Next]_vars
             PROVE  AppInv'
  OBVIOUS
<1>0. build' = build
  BY BuildKept
<1>a. ASSUME UNCHANGED appVars PROVE AppInv'
  BY <1>0, <1>a DEF appVars, AppInv, AnonymousRead, After, FirstOf, Acceptable, Line
<1>b. ASSUME build = "server", AppNext PROVE AppInv'
  <2>0. conf' = conf
    BY <1>b DEF AppNext, ReadAnonymous, ReadUser, EndOfUsers, ReadRange
  <2>1. CASE ReadAnonymous
    BY <1>0, <1>b, <2>0, <2>1, StepAnonymous DEF AppInv
  <2>2. CASE ReadUser
    <3>1. phase' = "users"
      BY <2>2 DEF ReadUser
    <3> QED
      BY <1>0, <1>b, <2>0, <2>2, <3>1, StepUser DEF AppInv
  <2>3. CASE EndOfUsers
    <3>1. /\ table' = table /\ phase' \in {"failed", "range"} /\ AnonymousRead /\ After(line)
          /\ Line(line + 1) = NoLine
      BY <2>3 DEF EndOfUsers, AppInv
    <3>2. AnonymousRead'
      BY <2>0, <3>1 DEF AnonymousRead
    <3>3. \E k \in Nat : After(k)' /\ Line(k + 1)' = NoLine
      <4>1. line \in Nat /\ \A k \in Nat : After(k) /\ Line(k + 1) = NoLine
                                        => After(k)' /\ Line(k + 1)' = NoLine
        BY <2>0, <3>1 DEF After, FirstOf, Acceptable, Line
      <4> QED
        BY <3>1, <4>1
    <3> QED
      BY <1>0, <1>b, <2>0, <3>1, <3>2, <3>3 DEF AppInv
  <2>4. CASE ReadRange
    <3>1. table' = table /\ phase' = "serving" /\ phase = "range"
      BY <2>4 DEF ReadRange
    <3>2. AnonymousRead'
      BY <2>0, <3>1 DEF AppInv, AnonymousRead
    <3>3. PICK k \in Nat : After(k) /\ Line(k + 1) = NoLine
      BY <3>1 DEF AppInv
    <3>4. After(k)' /\ Line(k + 1)' = NoLine
      BY <2>0, <3>1, <3>3 DEF After, FirstOf, Acceptable, Line
    <3> QED
      BY <1>0, <1>b, <2>0, <3>1, <3>2, <3>4 DEF AppInv
  <2> QED
    BY <1>b, <2>1, <2>2, <2>3, <2>4 DEF AppNext
<1> QED
  BY <1>a, <1>b DEF Next, vars

LEMMA InitAppInv == ProgramsInit => AppInv
BY NoTableIs DEF ProgramsInit, InitApp, AppInv

LEMMA AppInvariant == Spec => []AppInv
BY InitAppInv, StepAppInv, PTL DEF Spec

\* The lines that are read are those up to the first missing one.
LEMMA ReadIs ==
  ASSUME conf \in Configs, NEW k \in Nat, After(k), Line(k + 1) = NoLine
  PROVE  /\ Read = 1 .. k
         /\ \A i : Acceptable(i) /\ i \in Read => conf.users[i].user \in Names \ {Anonymous}
<1>1. /\ DOMAIN conf.users = 1 .. Len(conf.users) /\ Len(conf.users) \in Nat
      /\ \A i \in DOMAIN conf.users : conf.users[i] \in UserLine \cup {Malformed, NoLine}
  BY ConfIs
<1>2. ASSUME NEW i \in Read PROVE i \in 1 .. k
  <2>1. i \in Nat /\ i >= 1 /\ i \in DOMAIN conf.users
    BY <1>1, <1>2 DEF Read
  <2>2. SUFFICES ASSUME i >= k + 1
                 PROVE  FALSE
    BY <2>1
  <2>3. k + 1 \in 1 .. i /\ k + 1 \in DOMAIN conf.users
    BY <1>1, <2>1, <2>2
  <2>4. conf.users[k + 1] # NoLine
    BY <1>2, <2>3 DEF Read
  <2> QED
    BY <2>3, <2>4 DEF Line
<1>3. ASSUME NEW i \in 1 .. k PROVE i \in Read
  <2>1. \A j \in 1 .. i : j \in 1 .. k
    OBVIOUS
  <2> QED
    BY <1>3, <2>1 DEF Read, After
<1>4. ASSUME NEW i \in Read, Acceptable(i) PROVE conf.users[i].user \in Names \ {Anonymous}
  <2>1. i \in DOMAIN conf.users /\ conf.users[i] # NoLine
    BY <1>2, <1>4 DEF After
  <2>2. conf.users[i] \in UserLine
    BY <1>1, <1>4, <2>1 DEF Acceptable
  <2> QED
    BY <1>4, <2>2 DEF UserLine, Acceptable
<1> QED
  BY <1>2, <1>3, <1>4

\* A name has one line that makes its account.
LEMMA OneDefining ==
  ASSUME NEW k \in Nat, Read = 1 .. k, NEW n, NEW i \in Defining(n)
  PROVE  /\ i \in 1 .. k /\ Acceptable(i) /\ conf.users[i].user = n
         /\ \A j \in 1 .. k : FirstOf(j) /\ conf.users[j].user = n => j = i
<1>1. /\ i \in 1 .. k /\ Acceptable(i) /\ conf.users[i].user = n
      /\ \A j \in 1 .. i - 1 : Acceptable(j) => conf.users[j].user # n
  BY DEF Defining
<1>2. ASSUME NEW j \in 1 .. k, FirstOf(j), conf.users[j].user = n
      PROVE  j = i
  <2>1. Acceptable(j) /\ \A m \in 1 .. j - 1 : Acceptable(m) => conf.users[m].user # n
    BY <1>2 DEF FirstOf
  <2>2. ~(j \in 1 .. i - 1) /\ ~(i \in 1 .. j - 1)
    BY <1>1, <1>2, <2>1
  <2> QED
    BY <1>1, <2>2
<1> QED
  BY <1>1, <1>2

\* For every configuration file, however long and however malformed its lines:
\* a server that starts has the accounts the file defines and no others.
THEOREM FileIsServed == Spec => []AccountsAsConfigured
<1>1. ASSUME AppInv, phase = "serving"
      PROVE  LET named == {n \in Names : Defining(n) # {}}
                 anonymous == conf.anonymous # NoLine /\ conf.anonymous.allow
             IN
             /\ DOMAIN table = named \cup (IF anonymous THEN {Anonymous} ELSE {})
             /\ \A n \in named : \A i \in Defining(n) :
                  table[n] = [pass |-> conf.users[i].pass, dir |-> HomeDir(conf.users[i].dir),
                              priv |-> conf.users[i].priv]
             /\ anonymous => table[Anonymous].dir = HomeDir(conf.anonymous.dir)
  <2>1. conf \in Configs /\ AnonymousRead
    BY <1>1 DEF AppInv
  <2>2. PICK k \in Nat : After(k) /\ Line(k + 1) = NoLine
    BY <1>1 DEF AppInv
  <2>3. /\ Read = 1 .. k
        /\ \A i : Acceptable(i) /\ i \in Read => conf.users[i].user \in Names \ {Anonymous}
    BY <2>1, <2>2, ReadIs
  <2>4. ASSUME NEW n \in DOMAIN table \ {Anonymous}
        PROVE  n \in Names /\ Defining(n) # {}
    <3>1. PICK i \in 1 .. k : FirstOf(i) /\ conf.users[i].user = n
      BY <2>2, <2>4 DEF After
    <3>2. i \in Defining(n)
      BY <2>3, <3>1 DEF Defining, FirstOf
    <3> QED
      BY <2>3, <3>1, <3>2 DEF FirstOf
  <2>5. ASSUME NEW n, NEW i \in Defining(n)
        PROVE  /\ n \in DOMAIN table \ {Anonymous}
               /\ table[n] = [pass |-> conf.users[i].pass, dir |-> HomeDir(conf.users[i].dir),
                              priv |-> conf.users[i].priv]
    <3>1. /\ i \in 1 .. k /\ Acceptable(i) /\ conf.users[i].user = n
          /\ \A j \in 1 .. k : FirstOf(j) /\ conf.users[j].user = n => j = i
      BY <2>3, OneDefining
    <3>2. n \in DOMAIN table \ {Anonymous}
      BY <2>2, <2>3, <3>1 DEF After
    <3>3. PICK j \in 1 .. k :
            /\ FirstOf(j) /\ conf.users[j].user = n
            /\ table[n] = [pass |-> conf.users[j].pass, dir |-> HomeDir(conf.users[j].dir),
                           priv |-> conf.users[j].priv]
      BY <2>2, <3>2 DEF After
    <3> QED
      BY <3>1, <3>2, <3>3
  <2> DEFINE named == {n \in Names : Defining(n) # {}}
             anonymous == conf.anonymous # NoLine /\ conf.anonymous.allow
  <2>6. (Anonymous \in DOMAIN table <=> anonymous)
        /\ (anonymous => table[Anonymous].dir = HomeDir(conf.anonymous.dir))
    BY <2>1 DEF AnonymousRead
  <2>7. DOMAIN table \subseteq Names
    BY <1>1, TableIs DEF AppInv
  <2>8. DOMAIN table = named \cup (IF anonymous THEN {Anonymous} ELSE {})
    BY <2>4, <2>5, <2>6, <2>7
  <2> QED
    BY <2>5, <2>6, <2>8
<1>2. AppInv => AccountsAsConfigured
  BY <1>1 DEF AccountsAsConfigured
<1> QED
  BY <1>2, AppInvariant, PTL

\* The variables of the three programs keep their types: the accounts are tables
\* whatever was configured, and the numbers of workers and ports have their ranges.
THEOREM ProgramTypes == Spec => []TypeOK
<1>1. PoolInv /\ Held /\ ConfigInv /\ AppInv => TypeOK
  BY DEF PoolInv, PoolTypes, ScreenTypes, Held, ConfigInv, Rooted, AppInv, TypeOK
<1>2. ProgramsInit => Held
  BY DEF ProgramsInit, InitNative, Held
<1> QED
  BY <1>1, <1>2, StepHeld, PoolInvariant, ConfigInvariant, AppInvariant, PTL DEF Spec
=============================================================================
