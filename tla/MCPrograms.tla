----------------------------- MODULE MCPrograms -----------------------------
(* A small instance of Programs.                                           *)
EXTENDS Programs, TLC

CONSTANTS alice, bob, secret, other, home, shortcut, gone, empty, anon, ftp, dot, app, rw,
          all, none, noline, malformed, c1, c2, c3, r1, r2, nothing

AllBuilds == {"activity", "console", "server"}

MCConns == {c1, c2, c3}
MCPools == {r1, r2}
Symmetry == Permutations(MCConns) \cup Permutations(MCPools)

MCPrivileges == {all, none, rw}
MCDirectories == {app, home}

MCNames == {empty, anon, alice, bob}
MCPasswords == {empty, secret, other}
MCPaths == {empty, dot, app, home, shortcut, gone}
MCLinks == shortcut :> home

Fields(a, u, w, d, n) == [allow |-> a, user |-> u, pass |-> w, dir |-> d, port |-> n]

\* Anonymous logins, a named account, its password changed, another name, a
\* directory that does not exist, ports out of range, incomplete fields.
MCForms == {Fields(TRUE, empty, empty, home, 21),
            Fields(FALSE, alice, secret, home, 22),
            Fields(FALSE, alice, other, home, 22),
            Fields(TRUE, bob, secret, dot, 22),
            Fields(FALSE, bob, secret, gone, 65536),
            Fields(TRUE, empty, other, home, 0),
            Fields(FALSE, alice, empty, home, 32)}

\* What went wrong so far: histories with two mishaps are not continued, but for
\* logins ended in use from a screen made anew.
Mishaps == {i \in 1 .. 5 : <<hasty, recreated \/ cut, undelivered, deserted, deaf>>[i]}

\* One transfer at a time: the threads of two sessions have nothing in common.
Transferring == {c \in Conns : transfer[c]}

\* Configurations after the name or the directory has changed are combined with
\* a server at rest only, and a start with a refused port with one that has no
\* connections: the server looks at none of these.
Plain == Cardinality(roots) <= 1 /\ parted = {}
Quiet == \A c \in Conns : conn[c] # "open"
AtRest == Alive = {} /\ Quiet

\* A transfer meets what ends logins, not what becomes of the listener and its pools;
\* and a session that left its transfer is as any other when that is through.
Apart ==
  /\ Transferring # {} => ~hasty /\ ~undelivered /\ ~deaf /\ Cardinality(Alive) <= 1
  /\ deserted => Transferring # {}

Considered ==
  /\ Cardinality(Mishaps) <= 1 /\ Cardinality(Transferring) <= 1 /\ Apart
  /\ Plain \/ AtRest
  /\ shown.port # 0 \/ Quiet

User(u, w, d, pr) == [user |-> u, pass |-> w, dir |-> d, priv |-> pr]

MCUserLines == {User(alice, secret, home, rw), User(alice, other, empty, all),
                User(bob, secret, gone, all), User(anon, secret, home, rw), malformed, noline}

MCConfigs ==
  [anonymous : {noline, malformed, [allow |-> TRUE, dir |-> shortcut, priv |-> rw],
                [allow |-> TRUE, dir |-> gone, priv |-> rw],
                [allow |-> FALSE, dir |-> home, priv |-> rw]},
   users : UNION {[1 .. n -> MCUserLines] : n \in 0 .. 3},
   range : {noline, [first |-> 10000, last |-> 30000]}]
=============================================================================
