---------------------------- MODULE MCMapDownload ----------------------------
(***************************************************************************)
(* Two maps of two and of three chunks.                                    *)
(***************************************************************************)
EXTENDS MapDownload

CONSTANTS a, b

MCMaps == {a, b}
MCChunks == [m \in MCMaps |-> IF m = a THEN 2 ELSE 3]
MCOnDisk == SUBSET MCMaps
=============================================================================
