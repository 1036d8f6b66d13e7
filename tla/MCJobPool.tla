------------------------------ MODULE MCJobPool ------------------------------
(***************************************************************************)
(* Small instances of JobPool: the configurations name the jobs and the    *)
(* workers.                                                                *)
(***************************************************************************)
EXTENDS JobPool
=============================================================================
