--------------------------- MODULE ClientRegistry ---------------------------
(***************************************************************************)
(* The client lists of the accounts, and the login commands that keep      *)
(* them: USER, PASS, REIN and the end of a connection (client_node.cpp),   *)
(* over user_node::add_client, client_manager and user_manager.            *)
(*                                                                         *)
(* A node lives exactly as long as some account lists it: find_client is   *)
(* how the next command finds it, and for a connection listed nowhere      *)
(* process_command makes a new one.  So a node is known by its connection, *)
(* and a connection that is listed nowhere has the fields of a new node.   *)
(*                                                                         *)
(* Connections are served by several threads; the commands of one          *)
(* connection follow each other.  A list operation holds the list's mutex  *)
(* and is one step.  user_node::add_client is two, with its own mutex      *)
(* around both.  The thread of a LIST runs next to its handler and reads   *)
(* user_ without a lock (list_thread); the other transfer threads do not.  *)
(*                                                                         *)
(* What is abstracted: whether a password is right is a free choice; every *)
(* account is enabled and anonymous logins are allowed, as configured at   *)
(* start; the other commands matter only by using user_.                   *)
(***************************************************************************)
EXTENDS Naturals, FiniteSets, SequencesExt

CONSTANTS
  Conns,        \* control connections, each used once
  Listers,      \* bound: those that LIST, a thread at a time each
  Named,        \* accounts with a password
  Anonymous,    \* the anonymous account
  NoAccount,    \* a null user_
  MaxClients    \* max_client_num_ of every account

ASSUME RegistryAssumption ==
  /\ IsFiniteSet(Conns) /\ MaxClients \in Nat /\ Listers \subseteq Conns
  /\ Anonymous \notin Named /\ NoAccount \notin Named /\ NoAccount # Anonymous

Accounts == Named \cup {Anonymous}

VARIABLES
  clients,    \* per account: ftp_client_list_
  adding,     \* per account: the connections inside user_node::add_client
  user,       \* per connection: user_
  logged,     \* per connection: is_logged_
  anonymous,  \* per connection: is_anonymous_
  pc,         \* per connection: between commands, or where it is
  want,       \* per connection: the account named by the USER it is in
  listing,    \* per connection: its LIST's thread, which works on the node the
              \* connection has, or on one that is gone
  crashed,    \* a null user_ was dereferenced: the process is gone
  rushed,     \* history, per connection: USER was sent while an earlier one
              \* still waited for its PASS
  disturbed   \* history, per connection: a command cleared user_, or the
              \* connection ended, while its LIST's thread ran

fields == <<user, logged, anonymous>>
threads == <<listing, disturbed>>
vars == <<clients, adding, user, logged, anonymous, pc, want, listing, crashed,
          rushed, disturbed>>

Lists(l, c) == \E i \in DOMAIN l : l[i] = c
Listed(c) == \E a \in Accounts : Lists(clients[a], c)

\* client_manager::delete_client erases one entry; which of several equal ones
\* makes no difference.
Without(l, c) ==
  IF Lists(l, c) THEN RemoveAt(l, CHOOSE i \in DOMAIN l : l[i] = c) ELSE l

(* Mutant of Leave: the entry is forgotten.                                *)
LeaveStays(c) == clients

\* user_->get_client_manager().delete_client(shared_from_this())
Leave(c) ==
  IF user[c] = NoAccount THEN clients
  ELSE [clients EXCEPT ![user[c]] = Without(@, c)]

\* user_ is cleared, or the node goes, under the thread of a LIST.
Disturbs(c) == disturbed' = [disturbed EXCEPT ![c] = @ \/ listing[c] # "none"]

\* The fields of c's node after a command: those of a new node when no list
\* keeps the old one, whose thread goes on.
Keep(c, u, l, an) ==
  LET kept == \E a \in Accounts : Lists(clients'[a], c) IN
  /\ Disturbs(c)
  /\ listing' = [listing EXCEPT ![c] = IF kept \/ @ = "none" THEN @ ELSE "stray"]
  /\ user' = [user EXCEPT ![c] = IF kept THEN u ELSE NoAccount]
  /\ logged' = [logged EXCEPT ![c] = kept /\ l]
  /\ anonymous' = [anonymous EXCEPT ![c] = kept /\ an]

Init ==
  /\ clients = [a \in Accounts |-> <<>>]
  /\ adding = [a \in Accounts |-> {}]
  /\ user = [c \in Conns |-> NoAccount]
  /\ logged = [c \in Conns |-> FALSE]
  /\ anonymous = [c \in Conns |-> FALSE]
  /\ pc = [c \in Conns |-> "idle"]
  /\ want = [c \in Conns |-> NoAccount]
  /\ listing = [c \in Conns |-> "none"]
  /\ crashed = FALSE
  /\ disturbed = [c \in Conns |-> FALSE]
  /\ rushed = [c \in Conns |-> FALSE]

At(c, where) == ~crashed /\ pc[c] = where
Goto(c, where) == pc' = [pc EXCEPT ![c] = where]

-----------------------------------------------------------------------------
(* USER.  A logged-in client first leaves its account, and user_ is null    *)
(* until it is set: before add_client for a named account, after it for the *)
(* anonymous one.                                                           *)
User(c, a) ==
  /\ At(c, "idle")
  /\ clients' = IF logged[c] THEN Leave(c) ELSE clients
  /\ rushed' = [rushed EXCEPT ![c] = @ \/ (Listed(c) /\ ~logged[c])]
  /\ user' = [user EXCEPT ![c] = IF logged[c] THEN NoAccount ELSE @]
  /\ logged' = [logged EXCEPT ![c] = FALSE]
  /\ want' = [want EXCEPT ![c] = a]
  /\ Disturbs(c)
  /\ Goto(c, IF a \in Named THEN "find" ELSE "enter")
  /\ UNCHANGED <<adding, anonymous, listing, crashed>>

\* user_ = find_user(...)
Find(c) ==
  /\ At(c, "find")
  /\ user' = [user EXCEPT ![c] = want[c]]
  /\ Goto(c, "enter")
  /\ UNCHANGED <<clients, adding, logged, anonymous, want, crashed, rushed, threads>>

\* The account is unknown: 331 all the same.
UserUnknown(c) ==
  /\ At(c, "idle")
  /\ clients' = IF logged[c] THEN Leave(c) ELSE clients
  /\ rushed' = [rushed EXCEPT ![c] = @ \/ (Listed(c) /\ ~logged[c])]
  /\ Keep(c, NoAccount, FALSE, anonymous[c])
  /\ UNCHANGED <<adding, pc, want, crashed>>

(* Mutant of Enters: user_node::add_client without its mutex.              *)
EntersAnytime(a) == TRUE

\* One connection at a time is inside user_node::add_client.
Enters(a) == adding[a] = {}

\* add_client: the capacity test, under user_node::client_lock_ ...
Admit(c) ==
  LET a == want[c] IN
  /\ At(c, "enter") /\ Enters(a)
  /\ Len(clients[a]) < MaxClients
  /\ adding' = [adding EXCEPT ![a] = @ \cup {c}]
  /\ Goto(c, "push")
  /\ UNCHANGED <<clients, fields, want, crashed, rushed, threads>>

(* Mutant of Refuse: the result false does not end the connection.         *)
RefuseLingers(c) ==
  LET a == want[c] IN
  /\ At(c, "enter") /\ Enters(a)
  /\ Len(clients[a]) >= MaxClients
  /\ want' = [want EXCEPT ![c] = NoAccount]
  /\ Goto(c, "refused")
  /\ UNCHANGED <<clients, adding, fields, crashed, rushed, threads>>

\* ... which may fail: 421 or 550, and the connection is to be closed.
Refuse(c) ==
  LET a == want[c] IN
  /\ At(c, "enter") /\ Enters(a)
  /\ Len(clients[a]) >= MaxClients
  /\ want' = [want EXCEPT ![c] = NoAccount]
  /\ Goto(c, "ending")
  /\ UNCHANGED <<clients, adding, fields, crashed, rushed, threads>>

\* ... and the push.  The anonymous client is logged in by it.
Push(c) ==
  LET a == want[c] IN
  /\ At(c, "push")
  /\ clients' = [clients EXCEPT ![a] = Append(@, c)]
  /\ adding' = [adding EXCEPT ![a] = @ \ {c}]
  /\ user' = [user EXCEPT ![c] = a]
  /\ logged' = [logged EXCEPT ![c] = a = Anonymous]
  /\ anonymous' = [anonymous EXCEPT ![c] = @ \/ a = Anonymous]
  /\ want' = [want EXCEPT ![c] = NoAccount]
  /\ Goto(c, "idle")
  /\ UNCHANGED <<crashed, rushed, threads>>

-----------------------------------------------------------------------------
(* PASS, REIN, the commands that use the account, the end.                 *)

PassOk(c) ==
  /\ At(c, "idle")
  /\ anonymous[c] \/ user[c] # NoAccount
  /\ logged' = [logged EXCEPT ![c] = TRUE]
  /\ UNCHANGED <<clients, adding, user, anonymous, pc, want, crashed, rushed, threads>>

PassFails(c) ==
  /\ At(c, "idle")
  /\ ~anonymous[c] /\ user[c] # NoAccount
  /\ clients' = Leave(c)
  /\ Keep(c, NoAccount, logged[c], FALSE)
  /\ UNCHANGED <<adding, pc, want, crashed, rushed>>

Rein(c) ==
  /\ At(c, "idle") /\ logged[c]
  /\ clients' = Leave(c)
  /\ Keep(c, NoAccount, FALSE, FALSE)
  /\ UNCHANGED <<adding, pc, want, crashed, rushed>>

\* RETR, CWD, ... read user_ without looking whether it is null.
UseAccount(c) ==
  /\ At(c, "idle") /\ logged[c]
  /\ crashed' = (user[c] = NoAccount)
  /\ UNCHANGED <<clients, adding, fields, pc, want, rushed, threads>>

\* LIST starts a thread ...
List(c) ==
  /\ At(c, "idle") /\ logged[c] /\ c \in Listers /\ listing[c] = "none"
  /\ listing' = [listing EXCEPT ![c] = "running"]
  /\ UNCHANGED <<clients, adding, fields, pc, want, crashed, rushed, disturbed>>

\* ... that reads user_ as well, whatever the handler does; what it reads of a
\* node that is gone is open.
ListUses(c) ==
  /\ ~crashed /\ listing[c] # "none"
  /\ crashed' \in IF listing[c] = "running" THEN {user[c] = NoAccount} ELSE BOOLEAN
  /\ UNCHANGED <<clients, adding, fields, pc, want, rushed, threads>>

ListEnds(c) ==
  /\ ~crashed /\ listing[c] # "none"
  /\ listing' = [listing EXCEPT ![c] = "none"]
  /\ UNCHANGED <<clients, adding, fields, pc, want, crashed, rushed, disturbed>>

\* handle_read: the connection closed or failed.
Disconnect(c) ==
  /\ At(c, "idle")
  /\ Goto(c, "ending")
  /\ UNCHANGED <<clients, adding, fields, want, crashed, rushed, threads>>

\* end_work: the node that is found, if one is, leaves the account it is in.
End(c) ==
  /\ At(c, "ending")
  /\ crashed' = (Listed(c) /\ user[c] = NoAccount)
  /\ clients' = IF Listed(c) THEN Leave(c) ELSE clients
  /\ Keep(c, user[c], logged[c], anonymous[c])
  /\ Goto(c, "closed")
  /\ UNCHANGED <<adding, want, rushed>>

-----------------------------------------------------------------------------
Step(c) == \/ \E a \in Accounts : User(c, a)
           \/ UserUnknown(c) \/ Find(c)
           \/ Admit(c) \/ Refuse(c) \/ Push(c)
           \/ PassOk(c) \/ PassFails(c) \/ Rein(c) \/ UseAccount(c)
           \/ List(c) \/ ListUses(c) \/ ListEnds(c)
           \/ Disconnect(c) \/ End(c)

Next == \E c \in Conns : Step(c)

Spec == Init /\ [][Next]_vars

-----------------------------------------------------------------------------
(* Properties.                                                             *)

\* Type correctness of the lists and of the nodes.
TypeOK ==
  /\ clients \in [Accounts -> Seq(Conns)]
  /\ adding \in [Accounts -> SUBSET Conns]
  /\ user \in [Conns -> Accounts \cup {NoAccount}]
  /\ logged \in [Conns -> BOOLEAN]
  /\ anonymous \in [Conns -> BOOLEAN]
  /\ pc \in [Conns -> {"idle", "find", "enter", "push", "ending", "closed"}]
  /\ want \in [Conns -> Accounts \cup {NoAccount}]
  /\ listing \in [Conns -> {"none", "running", "stray"}]
  /\ crashed \in BOOLEAN
  /\ rushed \in [Conns -> BOOLEAN]
  /\ disturbed \in [Conns -> BOOLEAN]

\* However many connections send USER for one account at once, its list never
\* holds more than max_client_num_ entries.
Capacity == \A a \in Accounts : Len(clients[a]) <= MaxClients

Entries(c) == {e \in Accounts \X (1..MaxClients) :
                 e[2] \in DOMAIN clients[e[1]] /\ clients[e[1]][e[2]] = c}

\* A connection that answers each 331 with PASS has one entry, in the account
\* its user_ points to, from USER to the end: so find_client finds its node,
\* delete_client finds its entry, and no entry outlives the connection.
OneHome ==
  \A c \in Conns : ~rushed[c] =>
    /\ \A e, f \in Entries(c) : e = f
    /\ \A e \in Entries(c) : user[c] = e[1] /\ pc[c] # "closed"
    /\ logged[c] => Entries(c) # {}

\* Only a connection that hurried, or that disturbed its own LIST, can make the
\* server dereference a null user_, in a handler or in a list thread.
NullUserNeedsHurry == crashed => \E c \in Conns : rushed[c] \/ disturbed[c]

\* The connections that hold an account: they have a place in it, it is theirs and
\* they are still there.
Holders(a) == {c \in Conns : Lists(clients[a], c) /\ user[c] = a /\ pc[c] # "closed"}

\* Every connection has answered each 331 so far.
Patient == \A c \in Conns : ~rushed[c]

HomeOf(c) == IF Listed(c) THEN CHOOSE a \in Accounts : Lists(clients[a], c)
             ELSE NoAccount

Quota == INSTANCE AccountQuota WITH
  home <- [c \in Conns |-> IF Patient THEN HomeOf(c) ELSE NoAccount],
  orderly <- Patient

\* The lists, the two steps of add_client and the nodes' own user_ pointers
\* together do what AccountQuota promises.
QuotaKept == Quota!Spec

\* No connection is turned away while an account has room for it, as long as
\* nobody hurries.
RefusalMeansFull ==
  [][\A c \in Conns :
       (Refuse(c) /\ \A d \in Conns : ~rushed[d])
         => Cardinality(Holders(want[c]) \ {c}) >= MaxClients]_vars

\* max_client_num_ is the number of connections an account can have at the same
\* time (user_manager.h, set_user_max_client): that a connection which has no place
\* is refused one means that so many others have the account.
LimitCountsConnections ==
  [][\A c \in Conns :
       Refuse(c) /\ ~Listed(c) => Cardinality(Holders(want[c]) \ {c}) >= MaxClients]_vars
=============================================================================
