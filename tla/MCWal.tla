--------------------------------- MODULE MCWal ---------------------------------
(***************************************************************************)
(* Four calls of append, and any number of failures between them.          *)
(***************************************************************************)
EXTENDS Wal
=============================================================================
