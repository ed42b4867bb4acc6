-------------------------- MODULE MCClientRegistry --------------------------
(***************************************************************************)
(* ClientRegistry for TLC.  Three connections compete for two places in an *)
(* account, so that the last place is raced for and a connection is turned *)
(* away; one named account next to the anonymous one is enough to leave    *)
(* one for the other.                                                      *)
(***************************************************************************)
EXTENDS ClientRegistry
=============================================================================
