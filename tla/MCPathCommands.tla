--------------------------- MODULE MCPathCommands ---------------------------
(* Two sessions on a tree of four objects.                                 *)
EXTENDS PathCommands

CONSTANTS home, o1, o2, o3

MCObjects == {home, o1, o2, o3}

Whole(p) == [whole |-> TRUE, path |-> p]
Relative(p) == [whole |-> FALSE, path |-> p]

MCArgs == {Whole(<<"a">>), Whole(<<"b">>), Whole(<<"a", "b">>),
           Whole(<<"b", "b">>), Relative(<<"b">>)}

NoEntries == [n \in Names |-> NoObject]
NoLinks == [o \in MCObjects |-> <<>>]

\* /a, /a/b, a file, and /b, a link to /a.
LinkTree ==
  [kind |-> (home :> "dir" @@ o1 :> "dir" @@ o2 :> "file" @@ o3 :> "link"),
   entry |-> [o \in MCObjects |->
                CASE o = home -> [NoEntries EXCEPT !["a"] = o1, !["b"] = o3]
                  [] o = o1 -> [NoEntries EXCEPT !["b"] = o2]
                  [] OTHER -> NoEntries],
   link |-> [NoLinks EXCEPT ![o3] = <<"a">>]]

\* /a and /b, directories, and /a/b, a link to /b.
NestedTree ==
  [kind |-> (home :> "dir" @@ o1 :> "dir" @@ o2 :> "dir" @@ o3 :> "link"),
   entry |-> [o \in MCObjects |->
                CASE o = home -> [NoEntries EXCEPT !["a"] = o1, !["b"] = o2]
                  [] o = o1 -> [NoEntries EXCEPT !["b"] = o3]
                  [] OTHER -> NoEntries],
   link |-> [NoLinks EXCEPT ![o3] = <<"b">>]]

MCTrees == {LinkTree, NestedTree}

\* What is under way at once: sessions in another directory, renames begun,
\* commands between look and act, and threads that have not looked.
Moved == {s \in Sessions : cwd[s] # <<>>}
Begun == {s \in Sessions : from[s] # NoPath}
Pending == {x \in Sessions \X Hands : pending[x[1]][x[2]] # Nothing}

TwoAtOnce == Cardinality(Moved) + Cardinality(Begun) + Cardinality(Pending) <= 2
\* How much of a tree has changed: removing, making and renaming an object
\* change two places of it.
Difference(t) ==
  Cardinality({o \in Objects : tree.kind[o] # t.kind[o]})
  + Cardinality({x \in Objects \X Names : tree.entry[x[1]][x[2]] # t.entry[x[1]][x[2]]})

FewChanges == \E t \in FirstTrees : Difference(t) <= 2

Symmetry == Permutations(Sessions)
=============================================================================
