------------------------------- MODULE FileTree -------------------------------
(***************************************************************************)
(* The account's directory as PathCommands uses it.  The file system is    *)
(* external: directories map names to objects, and an object keeps its     *)
(* identity when it is renamed.  A link holds the path of a directory      *)
(* inside the account's directory; a link that leads over another link     *)
(* leads nowhere.  The account's directory is not "/", and its parent is   *)
(* closed to the server.                                                   *)
(*                                                                         *)
(* A path is the sequence of its names below the account's directory.      *)
(***************************************************************************)
EXTENDS Naturals, FiniteSets, SequencesExt

CONSTANTS
  Objects,      \* identities of files, directories and links
  Home,         \* the account's directory
  NoObject,
  Names

ASSUME TreeAssumption == Home \in Objects /\ NoObject \notin Objects

Kinds == {"none", "dir", "file", "link"}

\* kind: of each object, none while it does not exist; entry: per directory and
\* name, the object of that name in it; link: the path that a link holds.
Trees == [kind : [Objects -> Kinds],
          entry : [Objects -> [Names -> Objects \cup {NoObject}]],
          link : [Objects -> Seq(Names)]]

Child(t, o, n) ==
  IF o # NoObject /\ t.kind[o] = "dir" THEN t.entry[o][n] ELSE NoObject

IsLink(t, o) == o # NoObject /\ t.kind[o] = "link"

-----------------------------------------------------------------------------
(* What paths lead to.                                                     *)

\* A path of directories that are no links.
Plain(t, p) ==
  LET at[i \in 0..Len(p)] == IF i = 0 THEN Home ELSE Child(t, at[i - 1], p[i])
  IN  at[Len(p)]

\* The object that a link stands for.
Target(t, o) ==
  LET p == Plain(t, t.link[o]) IN IF IsLink(t, p) THEN NoObject ELSE p

\* One name further; a link leads to what it holds.
Follow(t, at, n) ==
  LET o == Child(t, at.object, n) IN
  IF IsLink(t, o) THEN [object |-> Target(t, o), path |-> t.link[o]]
  ELSE [object |-> o, path |-> Append(at.path, n)]

Top == [object |-> Home, path |-> <<>>]

\* canonical: the object of a path and the path of it that has no links.
Walk(t, p) ==
  LET at[i \in 0..Len(p)] == IF i = 0 THEN Top ELSE Follow(t, at[i - 1], p[i])
  IN  at[Len(p)]

\* get_file_status: links are followed.
Status(t, p) == Walk(t, p).object

\* The object of a path itself, be it a link, and the directory it is in.
Parent(t, p) == Status(t, Front(p))
Named(t, p) == IF p = <<>> THEN Home ELSE Child(t, Parent(t, p), Last(p))

-----------------------------------------------------------------------------
(* What is where.                                                          *)

Closed(t, S) == \A o \in S, n \in Names : Child(t, o, n) \in S \cup {NoObject}

\* o and what is in it, at any depth: the least closed set that holds it.
Below(t, o) == {x \in Objects : \A S \in SUBSET Objects : o \in S /\ Closed(t, S) => x \in S}

Exists(t) == {o \in Objects : t.kind[o] # "none"}

\* Objects to come; without one the disk is full.
NewObjects(t) == Objects \ Exists(t)

\* Every entry is an object that exists, but for the account's directory, and has
\* no other name; and no objects hang together apart from the others: everything
\* that exists is below the account's directory.
IsTree(t) ==
  /\ t.kind[Home] = "dir"
  /\ \A d \in Objects, n \in Names : Child(t, d, n) # NoObject =>
       /\ Child(t, d, n) \in Exists(t) \ {Home}
       /\ \A e \in Objects, m \in Names : Child(t, e, m) = Child(t, d, n) => e = d /\ m = n
  /\ \A S \in SUBSET (Exists(t) \ {Home}) :
       S # {} => \E d \in Exists(t) \ S, n \in Names : Child(t, d, n) \in S

-----------------------------------------------------------------------------
(* Changes.                                                                *)

\* A new object can be named p.
CanCreate(t, p) ==
  /\ p # <<>> /\ Named(t, p) = NoObject /\ NewObjects(t) # {}
  /\ Parent(t, p) # NoObject /\ t.kind[Parent(t, p)] = "dir"

Created(t, o, p, k) ==
  [t EXCEPT !.kind[o] = k,
            !.entry = [@ EXCEPT ![Parent(t, p)][Last(p)] = o, ![o] = [n \in Names |-> NoObject]]]

Create(t, p, k) == Created(t, CHOOSE new \in NewObjects(t) : TRUE, p, k)

Empties(t, o) == \A n \in Names : t.entry[o][n] = NoObject

(* Mutant of CanRemove: remove_all in the place of remove.                 *)
CanRemoveAll(t, p) == Named(t, p) \notin {NoObject, Home}

\* remove takes a file, a link or an empty directory.
CanRemove(t, p) ==
  /\ Named(t, p) \notin {NoObject, Home}
  /\ t.kind[Named(t, p)] = "dir" => Empties(t, Named(t, p))

Unlink(t, p) ==
  [t EXCEPT !.kind[Named(t, p)] = "none", !.entry[Parent(t, p)][Last(p)] = NoObject]

\* rename replaces a file, or an empty directory by a directory; renaming an
\* object to itself changes nothing.
CanRename(t, p, q) ==
  /\ Named(t, p) \notin {NoObject, Home} /\ q # <<>>
  /\ Parent(t, q) # NoObject /\ t.kind[Parent(t, q)] = "dir"
  /\ Parent(t, q) \notin Below(t, Named(t, p))
  /\ Named(t, q) # Named(t, p)
  /\ Named(t, q) # NoObject =>
       /\ (t.kind[Named(t, q)] = "dir") = (t.kind[Named(t, p)] = "dir")
       /\ t.kind[Named(t, q)] = "dir" => Empties(t, Named(t, q))

Rename(t, p, q) ==
  [t EXCEPT !.kind = [o \in Objects |-> IF o = Named(t, q) THEN "none" ELSE @[o]],
            !.entry = [@ EXCEPT ![Parent(t, p)][Last(p)] = NoObject,
                                ![Parent(t, q)][Last(q)] = Named(t, p)]]

\* What moves, and what it replaces.
Displaced(t, p, q) == Below(t, Named(t, p)) \cup ({Named(t, q)} \ {NoObject})
=============================================================================
