----------------------------- MODULE MCKeyboard -----------------------------
(* Three keys, one slot: an ordinary key, a second one that overflows it, and
   a key with the first one's usage and a modifier. *)
EXTENDS Keyboard

Bindings == <<[modifier |-> {}, usage |-> "a"], [modifier |-> {}, usage |-> "b"],
              [modifier |-> {"alt"}, usage |-> "a"]>>
=============================================================================
