---------------------------- MODULE MCPasvPorts ----------------------------
(***************************************************************************)
(* PasvPorts for TLC: two clients race for one cursor over a range of two  *)
(* ports, which other programs may hold in part or in full, with room      *)
(* above the range for a torn cursor to climb and to wrap to 0.            *)
(***************************************************************************)
EXTENDS PasvPorts
=============================================================================
