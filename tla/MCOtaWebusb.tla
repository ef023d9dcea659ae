---------------------------- MODULE MCOtaWebusb ----------------------------
(* Two packages, of one sector and a half and of two sectors; payloads of one
   or two units, so that a payload can straddle the two sectors. *)
EXTENDS OtaWebusb, TLC

CONSTANTS a, b

MCSize == (a :> 3) @@ (b :> 4)
=============================================================================
