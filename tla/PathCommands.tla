---------------------------- MODULE PathCommands ----------------------------
(***************************************************************************)
(* The commands that name files: build_path and get_file_status            *)
(* (common.cpp), and CWD, CDUP, DELE, RMD, MKD, RNFR, RNTO, LIST, NLST,    *)
(* STOU and REIN of client_node.cpp, as several sessions of one account    *)
(* use them on one file system.                                            *)
(*                                                                         *)
(* The file system is FileTree's; the sessions make no links.              *)
(*                                                                         *)
(* An argument is a path that begins in the account's directory or in the  *)
(* current one.  ".." and links that lead elsewhere are left out.  Each    *)
(* call that the code makes on the file system is a step, and other        *)
(* sessions act between: canonical, which resolves a path, status, which   *)
(* looks at it, and the call that acts on it.                              *)
(* The account has every privilege; a refused command changes nothing and  *)
(* has no action.                                                          *)
(***************************************************************************)
EXTENDS FileTree

CONSTANTS
  Sessions,
  Changed,      \* histories: nothing is known, or no longer
  Unique,       \* names STOU makes up
  Args,         \* arguments: [whole, path]
  NoPath,
  FirstTrees    \* the trees to begin with

ASSUME PathsAssumption ==
  /\ Changed \notin Objects \cup {NoObject}
  /\ Unique \subseteq Names
  /\ \A arg \in Args : arg.whole \in BOOLEAN /\ arg.path \in Seq(Names)
  /\ NoPath \notin Seq(Names)
  /\ \A t \in FirstTrees : t \in Trees /\ IsTree(t)

Hands == {"handler", "thread"}
Resolved == {"CWD", "RNFR", "DELE", "STOU"}
AsGiven == {"RMD", "MKD"}
Nothing == [op |-> "none", at |-> "begun", whole |-> TRUE, path |-> <<>>]

VARIABLES
  tree,         \* the files of the account
  cwd,          \* per session: current_directory_
  from,         \* per session: rename_from_path_
  pending,      \* per session: the command its handler is in, and that of its
                \* data thread, as [op, at, whole, path]; at: begun, resolved
                \* (status is next) or looked (the act is next)
  here,         \* history, per session: the directory that canonical found for the
                \* client, while neither it nor one above it is moved or removed
  confirmed,    \* history, per session: likewise the object that RNFR found
  seen,         \* history, per session and hand: likewise what the command under
                \* way found, or the directory in which its name was free
  emptied       \* history: files that a STOU emptied although the name was free
                \* when it looked and nobody took it since

historyVars == <<here, confirmed, seen, emptied>>
vars == <<tree, cwd, from, pending, historyVars>>

-----------------------------------------------------------------------------
(* build_path.                                                             *)

\* With bcanonical = false.
Join(s, arg) == IF arg.whole THEN arg.path ELSE cwd[s] \o arg.path

(* Mutant of BuildPath: the path is not made canonical.                    *)
BuildPathAsGiven(s, arg) == Join(s, arg)

\* A path that cannot be resolved stays as it is.
BuildPath(s, arg) ==
  LET p == Join(s, arg) IN IF Status(tree, p) # NoObject THEN Walk(tree, p).path ELSE p

-----------------------------------------------------------------------------
(* Histories: S are the objects that move or go, Q the places that are     *)
(* taken, as <<directory, name>>.                                          *)

Ready(s) == pending[s]["handler"] = Nothing
Free(s) == Ready(s) /\ pending[s]["thread"] = Nothing
At(s, h, op, at) == pending[s][h].op = op /\ pending[s][h].at = at

\* A new object is to be made.
Makes(c) == c.op \in {"MKD", "STOU"} /\ c.at = "looked"

\* The path that a command which has not resolved its own depends on.
Way(s, h) ==
  LET c == pending[s][h] IN
  CASE c.op = "LIST" /\ c.at = "begun" -> Join(s, c)
    [] c.op \in AsGiven \/ Makes(c) -> Front(c.path)
    [] OTHER -> <<>>

\* p leads over no link.
Straight(t, p) == Walk(t, p).path = p

Kept(old, S) == [s \in Sessions |-> IF old[s] \in S THEN Changed ELSE old[s]]

\* What was found is no longer there, or no longer on the way; or the name that
\* was free is taken.
Upset(s, h, S, Q) ==
  \/ seen[s][h] \in S
  \/ ~Straight(tree, Way(s, h)) /\ \E o \in S : IsLink(tree, o)
  \/ Makes(pending[s][h]) /\ <<seen[s][h], Last(pending[s][h].path)>> \in Q

Disturbed(S, Q) ==
  [s \in Sessions |-> [h \in Hands |-> IF Upset(s, h, S, Q) THEN Changed ELSE seen[s][h]]]

Begin(s, h, op, at, whole, p, o) ==
  /\ pending' = [pending EXCEPT ![s][h] = [op |-> op, at |-> at, whole |-> whole, path |-> p]]
  /\ seen' = [seen EXCEPT ![s][h] = o]

Found(o) == IF o = NoObject THEN Changed ELSE o

\* The directory in which p has been found free; of a link that leads nowhere
\* nothing is known.
FreeIn(p) == IF IsLink(tree, Named(tree, p)) THEN Changed ELSE Found(Parent(tree, p))

\* A step that changes the tree ends the command.
Finish(s, h, S, Q) ==
  /\ pending' = [pending EXCEPT ![s][h] = Nothing]
  /\ seen' = [Disturbed(S, Q) EXCEPT ![s][h] = Changed]
  /\ here' = Kept(here, S) /\ confirmed' = Kept(confirmed, S)
  /\ UNCHANGED <<cwd, from, emptied>>

\* The command, or its thread, ends and leaves the tree alone.
Abandon(s, h) ==
  /\ pending' = [pending EXCEPT ![s][h] = Nothing]
  /\ seen' = [seen EXCEPT ![s][h] = Changed]
  /\ UNCHANGED <<tree, cwd, from, here, confirmed>>

-----------------------------------------------------------------------------
(* canonical and status.                                                   *)

Resolve(s, op, arg) ==
  /\ Ready(s)
  /\ Begin(s, "handler", op, "resolved", TRUE, BuildPath(s, arg), Found(Status(tree, Join(s, arg))))
  /\ UNCHANGED <<tree, cwd, from, here, confirmed, emptied>>

\* STOU draws a name.
Draw(s, n) == Free(s) /\ Resolve(s, "STOU", [whole |-> FALSE, path |-> <<n>>])

Wanted(op, o) ==
  CASE op \in {"MKD", "STOU"} -> o = NoObject
    [] op = "RNFR" -> o # NoObject
    [] op = "DELE" -> o # NoObject /\ tree.kind[o] = "file"
    [] op \in {"CWD", "RMD"} -> o # NoObject /\ tree.kind[o] = "dir"

\* The path of the handler, once it is resolved and status has seen what op wants.
Looked(s, op) ==
  /\ At(s, "handler", op, "resolved")
  /\ Wanted(op, Status(tree, pending[s]["handler"].path))

\* Or status has not; STOU then draws again.
Refuse(s) ==
  LET c == pending[s]["handler"] IN
  /\ c.at = "resolved"
  /\ ~Wanted(c.op, Status(tree, c.path))
  /\ Abandon(s, "handler") /\ UNCHANGED emptied

-----------------------------------------------------------------------------
(* The current directory.                                                  *)

\* A list thread reads current_directory_ when it runs.
Turned(s) ==
  LET c == pending[s]["thread"]
      turns == c.op = "LIST" /\ c.at = "begun" /\ ~c.whole IN
  seen' = [seen EXCEPT ![s]["handler"] = Changed,
                       ![s]["thread"] = IF turns THEN Changed ELSE @]

Enter(s, p, o) ==
  /\ cwd' = [cwd EXCEPT ![s] = p]
  /\ here' = [here EXCEPT ![s] = o]
  /\ Turned(s)
  /\ UNCHANGED <<tree, emptied>>

Cwd(s) ==
  /\ Looked(s, "CWD")
  /\ Enter(s, pending[s]["handler"].path, seen[s]["handler"])
  /\ pending' = [pending EXCEPT ![s]["handler"] = Nothing]
  /\ UNCHANGED <<from, confirmed>>

\* Takes the last name off, whatever is there: nothing, or a link that has taken
\* the place of a directory.
Cdup(s) ==
  LET p == Front(cwd[s]) IN
  /\ Ready(s)
  /\ cwd[s] # <<>>
  /\ Enter(s, p, IF Straight(tree, p) THEN Found(Status(tree, p)) ELSE Changed)
  /\ UNCHANGED <<from, pending, confirmed>>

(* Mutant of Rein: the file to rename is not forgotten.                    *)
ReinRemembers(s) ==
  /\ Free(s)
  /\ Enter(s, <<>>, Home)
  /\ confirmed' = [confirmed EXCEPT ![s] = NoObject]
  /\ UNCHANGED <<from, pending>>

\* REIN, and the login after it; what REIN does to a running transfer is
\* TransferSession's.
Rein(s) ==
  /\ Free(s)
  /\ Enter(s, <<>>, Home)
  /\ from' = [from EXCEPT ![s] = NoPath]
  /\ confirmed' = [confirmed EXCEPT ![s] = NoObject]
  /\ UNCHANGED pending

-----------------------------------------------------------------------------
(* DELE, RMD and MKD: look, then act.                                      *)

Dele(s) ==
  /\ Looked(s, "DELE")
  /\ pending' = [pending EXCEPT ![s]["handler"].at = "looked"]
  /\ UNCHANGED <<tree, cwd, from, historyVars>>

\* Removing and making directories takes the path as it is given.
Look(s, op, arg) ==
  LET p == Join(s, arg) IN
  /\ Ready(s) /\ p # <<>>
  /\ Wanted(op, Status(tree, p))
  /\ Begin(s, "handler", op, "looked", TRUE, p, IF op = "MKD" THEN FreeIn(p) ELSE Named(tree, p))
  /\ UNCHANGED <<tree, cwd, from, here, confirmed, emptied>>

ActRemove(s) ==
  LET c == pending[s]["handler"] IN
  /\ c.op \in {"DELE", "RMD"} /\ c.at = "looked"
  /\ \/ /\ CanRemove(tree, c.path)
        /\ tree' = Unlink(tree, c.path)
        /\ Finish(s, "handler", Below(tree, Named(tree, c.path)), {})
     \/ ~CanRemove(tree, c.path) /\ Abandon(s, "handler") /\ UNCHANGED emptied

\* The place that p names.
Place(p) == <<Parent(tree, p), Last(p)>>

ActMake(s) ==
  LET p == pending[s]["handler"].path IN
  /\ At(s, "handler", "MKD", "looked")
  /\ \/ CanCreate(tree, p) /\ tree' = Create(tree, p, "dir") /\ Finish(s, "handler", {}, {Place(p)})
     \/ ~CanCreate(tree, p) /\ Abandon(s, "handler") /\ UNCHANGED emptied

-----------------------------------------------------------------------------
(* RNFR and RNTO.                                                          *)

\* A refused RNFR leaves the earlier one in force.
Rnfr(s) ==
  /\ Looked(s, "RNFR")
  /\ from' = [from EXCEPT ![s] = pending[s]["handler"].path]
  /\ confirmed' = [confirmed EXCEPT ![s] = seen[s]["handler"]]
  /\ pending' = [pending EXCEPT ![s]["handler"] = Nothing]
  /\ seen' = [seen EXCEPT ![s]["handler"] = Changed]
  /\ UNCHANGED <<tree, cwd, here, emptied>>

Rnto(s, arg) ==
  LET p == from[s]
      q == Join(s, arg)
      moves == CanRename(tree, p, q)
      S == IF moves THEN Displaced(tree, p, q) ELSE {} IN
  /\ Ready(s)
  /\ p # NoPath
  /\ from' = [from EXCEPT ![s] = NoPath]
  /\ tree' = IF moves THEN Rename(tree, p, q) ELSE tree
  /\ confirmed' = [Kept(confirmed, S) EXCEPT ![s] = NoObject]
  /\ here' = Kept(here, S)
  /\ seen' = IF moves THEN Disturbed(S, {Place(q)}) ELSE seen
  /\ UNCHANGED <<cwd, pending, emptied>>

-----------------------------------------------------------------------------
(* LIST, NLST and STOU, which start threads.                               *)

List(s, arg) ==
  /\ Free(s)
  /\ Begin(s, "thread", "LIST", "begun", arg.whole, arg.path, Found(Status(tree, Join(s, arg))))
  /\ UNCHANGED <<tree, cwd, from, here, confirmed, emptied>>

ListResolves(s) ==
  LET c == pending[s]["thread"] IN
  /\ At(s, "thread", "LIST", "begun")
  /\ Begin(s, "thread", "LIST", "resolved", TRUE, BuildPath(s, c), seen[s]["thread"])
  /\ UNCHANGED <<tree, cwd, from, here, confirmed, emptied>>

\* What list_thread reads: status, and the names in the directory.
Listed(s) == Status(tree, Join(s, pending[s]["thread"]))

ListRuns(s) ==
  At(s, "thread", "LIST", "resolved") /\ Abandon(s, "thread") /\ UNCHANGED emptied

StoreStarts(s, p) ==
  /\ pending' = [pending EXCEPT ![s]["handler"] = Nothing,
                   ![s]["thread"] = [op |-> "STOU", at |-> "looked", whole |-> TRUE, path |-> p]]
  /\ seen' = [seen EXCEPT ![s]["handler"] = Changed, ![s]["thread"] = FreeIn(p)]
  /\ UNCHANGED <<tree, cwd, from, here, confirmed, emptied>>

(* Mutant of Stou: the name is not looked for.                             *)
StouBlindly(s) ==
  At(s, "handler", "STOU", "resolved") /\ StoreStarts(s, pending[s]["handler"].path)

\* The loop ends with a name that is free.
Stou(s) == Looked(s, "STOU") /\ StoreStarts(s, pending[s]["handler"].path)

\* The open of store_thread makes a file, where a link leads that leads nowhere
\* too; or it empties the file that has the name by now (what is in it is not
\* modelled); or it fails.
StouOpens(s) ==
  LET given == pending[s]["thread"].path
      named == Named(tree, given)
      p == IF IsLink(tree, named) THEN tree.link[named] ELSE given
      o == Status(tree, given) IN
  /\ At(s, "thread", "STOU", "looked")
  /\ \/ CanCreate(tree, p) /\ tree' = Create(tree, p, "file") /\ Finish(s, "thread", {}, {Place(p)})
     \/ /\ ~CanCreate(tree, p)
        /\ emptied' = IF o # NoObject /\ tree.kind[o] = "file" /\ seen[s]["thread"] # Changed
                      THEN emptied \cup {o} ELSE emptied
        /\ Abandon(s, "thread")

-----------------------------------------------------------------------------
Init ==
  /\ tree \in FirstTrees
  /\ cwd = [s \in Sessions |-> <<>>]
  /\ from = [s \in Sessions |-> NoPath]
  /\ pending = [s \in Sessions |-> [h \in Hands |-> Nothing]]
  /\ here = [s \in Sessions |-> Home]
  /\ confirmed = [s \in Sessions |-> NoObject]
  /\ seen = [s \in Sessions |-> [h \in Hands |-> Changed]]
  /\ emptied = {}

Session(s) ==
  \/ \E arg \in Args, op \in Resolved \ {"STOU"} : Resolve(s, op, arg)
  \/ \E n \in Unique : Draw(s, n)
  \/ \E arg \in Args, op \in AsGiven : Look(s, op, arg)
  \/ \E arg \in Args : Rnto(s, arg) \/ List(s, arg)
  \/ Refuse(s) \/ Cwd(s) \/ Rnfr(s) \/ Dele(s) \/ Stou(s) \/ Cdup(s) \/ Rein(s)
  \/ ActRemove(s) \/ ActMake(s) \/ ListResolves(s) \/ ListRuns(s) \/ StouOpens(s)

Next == \E s \in Sessions : Session(s)

Spec == Init /\ [][Next]_vars

-----------------------------------------------------------------------------
(* Properties.                                                             *)

Commands == [op : Resolved \cup AsGiven \cup {"none", "LIST"},
             at : {"begun", "resolved", "looked"}, whole : BOOLEAN, path : Seq(Names)]

\* Types, and the tree: every object that exists is where exactly one name of
\* one directory puts it, and below the account's directory.
TypeOK ==
  /\ tree \in Trees /\ IsTree(tree)
  /\ cwd \in [Sessions -> Seq(Names)]
  /\ from \in [Sessions -> Seq(Names) \cup {NoPath}]
  /\ pending \in [Sessions -> [Hands -> Commands]]
  /\ here \in [Sessions -> Objects \cup {Changed}]
  /\ confirmed \in [Sessions -> Objects \cup {NoObject, Changed}]
  /\ seen \in [Sessions -> [Hands -> Objects \cup {Changed}]]
  /\ emptied \subseteq Objects

\* A session stays in the directory that canonical found for it: what other
\* sessions do to the links it came through, or anywhere but to the directory and
\* those above it, does not move it, though status looks at the canonical path only
\* later and the path is looked up anew for each command.  (Where canonical failed,
\* CWD keeps a path that may lead over links, and nothing is promised.)
InPlace == \A s \in Sessions : here[s] # Changed => Status(tree, cwd[s]) = here[s]

\* RNTO moves what canonical found for RNFR, whatever commands came between, as
\* long as that object and those above it were left where they were; with no 350
\* in force it moves nothing.
ConfirmedKept ==
  \A s \in Sessions :
    /\ confirmed[s] \in Objects => from[s] # NoPath /\ Named(tree, from[s]) = confirmed[s]
    /\ confirmed[s] = NoObject => from[s] = NoPath

\* A command that acts on a path acts on what it found: DELE and RMD remove that
\* object, a list thread reads the directory its command named, and MKD and STOU
\* make theirs in the directory, and under the name, that they found free, so that
\* STOU empties no file; unless it is just that object or directory another command
\* moved (a link, where the path leads over one), or just that name it took, or the
\* client itself went elsewhere before its listing.
AsSeen ==
  /\ emptied = {}
  /\ \A s \in Sessions, h \in Hands :
       LET c == pending[s][h] IN
       seen[s][h] # Changed =>
         IF c.op = "LIST" THEN Listed(s) = seen[s][h]
         ELSE IF Makes(c) THEN Parent(tree, c.path) = seen[s][h] /\ Named(tree, c.path) = NoObject
         ELSE Named(tree, c.path) = seen[s][h]
=============================================================================
