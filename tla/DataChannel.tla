----------------------------- MODULE DataChannel ------------------------------
(***************************************************************************)
(* What a session promises about its data channel, without sockets, modes  *)
(* or threads: it is used by one transfer at a time, every transfer is new,*)
(* and the next one is opened only when the last has let go.               *)
(*                                                                         *)
(* The promise is made to a client that waits for the end of one transfer  *)
(* before it sets up the next, and as long as its session lasts.           *)
(***************************************************************************)
EXTENDS Naturals

CONSTANT Transfers     \* the numbers that transfers get, in order

VARIABLES
  use,       \* the channel is free, being opened, or used by transfer last
  last,      \* the last transfer that had it, 0 before the first
  calm       \* the promise holds

vars == <<use, last, calm>>

Init == use = "free" /\ last = 0 /\ calm = TRUE

Open == calm /\ use = "free" /\ use' = "opening" /\ UNCHANGED <<last, calm>>

\* No connection came about, or there was nothing to transfer.
Drop == calm /\ use = "opening" /\ use' = "free" /\ UNCHANGED <<last, calm>>

Carry(t) == /\ calm /\ use = "opening" /\ t > last
            /\ use' = "used" /\ last' = t /\ UNCHANGED calm

\* The transfer is over, or ABOR declares it to be.
Release == calm /\ use = "used" /\ use' = "free" /\ UNCHANGED <<last, calm>>

\* The end of the promise; what the channel does from here on is not said.
Break == calm /\ calm' = FALSE /\ use' = "free" /\ last' = 0

Next == Open \/ Drop \/ (\E t \in Transfers : Carry(t)) \/ Release \/ Break

Spec == Init /\ [][Next]_vars
=============================================================================
