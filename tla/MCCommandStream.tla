--------------------------- MODULE MCCommandStream ---------------------------
(***************************************************************************)
(* CommandStream for TLC: every stream of up to six bytes of seven         *)
(* classes, in reads of up to four bytes, which holds two lines and the    *)
(* beginning of a third, a line beyond the limit of two, and USER with the *)
(* next command in one read.                                               *)
(***************************************************************************)
EXTENDS CommandStream
=============================================================================
