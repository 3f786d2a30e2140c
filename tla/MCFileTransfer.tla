--------------------------- MODULE MCFileTransfer ---------------------------
(* A small instance of FileTransfer for TLC. *)
EXTENDS FileTransfer
=============================================================================
