-------------------------- MODULE MCPacketCapture --------------------------
(***************************************************************************)
(* An instance of PacketCapture for TLC.                                   *)
(***************************************************************************)
EXTENDS PacketCaptureProperties

CaptureBound ==
  [kind \in Kinds |-> CASE kind \in {"entity", "claim", "evidence"} -> 1
                        [] kind = "gap" -> 2 [] OTHER -> 0]
=============================================================================
