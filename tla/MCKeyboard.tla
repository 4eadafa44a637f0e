------------------------------ MODULE MCKeyboard ------------------------------
(* Instance of Keyboard for TLC: a buffer of two slots and two-bit indices,  *)
(* so that it fills up and both counters wrap.                               *)
EXTENDS Keyboard
=============================================================================
