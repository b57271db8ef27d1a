----------------------------- MODULE MCSessionIo -----------------------------
(* Instances of SessionIo for TLC. *)
EXTENDS SessionIo, TLC

ThreePackets == 0 :> 2 @@ 2 :> 3 @@ 5 :> 2
=============================================================================
