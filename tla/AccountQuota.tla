----------------------------- MODULE AccountQuota -----------------------------
(***************************************************************************)
(* What the accounts promise to their clients, without lists, locks or     *)
(* nodes: a connection is at home in one account at most, and an account   *)
(* takes in no more than MaxClients of them.                               *)
(*                                                                         *)
(* The promise is made to clients that answer a 331 before they send USER  *)
(* again.  The first one that does not ends it for everybody, because it   *)
(* may occupy a place that the account then counts twice.                  *)
(***************************************************************************)
EXTENDS Naturals, FiniteSets

CONSTANTS Conns, Accounts, NoAccount, MaxClients

VARIABLES
  home,      \* per connection: the account it has a place in
  orderly    \* nobody has repeated a USER yet

vars == <<home, orderly>>

Guests(a) == {c \in Conns : home[c] = a}

Init == /\ home = [c \in Conns |-> NoAccount]
        /\ orderly = TRUE

Enter(c, a) ==
  /\ orderly /\ UNCHANGED orderly
  /\ home[c] = NoAccount
  /\ Cardinality(Guests(a)) < MaxClients
  /\ home' = [home EXCEPT ![c] = a]

Leave(c) ==
  /\ orderly /\ UNCHANGED orderly
  /\ home[c] # NoAccount
  /\ home' = [home EXCEPT ![c] = NoAccount]

\* The end of the promise; what the homes are from here on is not said.
Hurry ==
  /\ orderly /\ orderly' = FALSE
  /\ home' = [c \in Conns |-> NoAccount]

Next == \/ \E c \in Conns, a \in Accounts : Enter(c, a)
        \/ \E c \in Conns : Leave(c)
        \/ Hurry

Spec == Init /\ [][Next]_vars
=============================================================================
