---------------------------- MODULE MCWebusbLink ----------------------------
(* Two packages, of one and of two units, sent one unit a request. *)
EXTENDS WebusbLink, TLC

CONSTANTS a, b

SmallSize == (a :> 1) @@ (b :> 2)
=============================================================================
