------------------------------- MODULE MCDbPool -------------------------------
(***************************************************************************)
(* Small instances of DbPool.                                              *)
(***************************************************************************)
EXTENDS DbPool
=============================================================================
