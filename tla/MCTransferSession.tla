------------------------- MODULE MCTransferSession -------------------------
(***************************************************************************)
(* TransferSession for TLC.  Two connections are a transfer that was       *)
(* abandoned and the one that overlaps it, and two threads that compete    *)
(* with the end of the session for the lock.                               *)
(***************************************************************************)
EXTENDS TransferSession

\* The transfer its own thread announces, and the one that may change the offset;
\* RETR and STOR are APPE without that.
TwoTransfers == {"list", "appe"}
=============================================================================
