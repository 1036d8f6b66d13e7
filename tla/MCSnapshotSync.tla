--------------------------- MODULE MCSnapshotSync ---------------------------
(* Two contents of a snapshot, one of them the empty one; or, where only   *)
(* the ticks matter, that one alone.                                       *)
EXTENDS SnapshotSync

MCItems == {"none", "some"}
MCOneItem == {"none"}
MCEmpty == "none"
=============================================================================
