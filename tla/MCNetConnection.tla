--------------------------- MODULE MCNetConnection ---------------------------
(***************************************************************************)
(* Small instances of NetConnection: the server streams two vital chunks   *)
(* and the client only acknowledges.  Each endpoint starts with the number *)
(* of vital chunks given by Start behind it, all acknowledged, so that the *)
(* two more make the sequence numbers wrap around.                         *)
(***************************************************************************)
EXTENDS NetConnection, TLC

OneWayStart == Client :> 0 @@ Server :> 4
ShortSend == Client :> 0 @@ Server :> 6
=============================================================================
