---------------------------- MODULE MCAppUpdate -----------------------------
(* One package; a configuration that shows the disk (the default), and one
   that hides it. *)
EXTENDS AppUpdate

CONSTANTS v, shown, hidden
=============================================================================
