---------------------------- MODULE MCOtaInstall ----------------------------
(* Two images of different size in a partition of three blocks.            *)
EXTENDS OtaInstall

CONSTANTS v1, v2

MCImage == {v1, v2}
MCBlockCount == [v \in MCImage |-> IF v = v1 THEN 2 ELSE 3]
=============================================================================
