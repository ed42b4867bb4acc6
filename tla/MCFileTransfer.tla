--------------------------- MODULE MCFileTransfer ---------------------------
(* A file that is empty or has two chunks.                                 *)
EXTENDS FileTransfer

MCFiles == {<<>>, <<9, 9>>}
=============================================================================
