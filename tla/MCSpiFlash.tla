---------------------------- MODULE MCSpiFlash ----------------------------
(* Four cells in two pages and two sectors, so that a call can begin in the
   middle of a page and go over into the next one, and two contents, so that a
   cell can be programmed twice. *)
EXTENDS SpiFlash

CONSTANTS v1, v2
=============================================================================
