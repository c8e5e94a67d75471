-------------------------- MODULE MCComposedValue --------------------------
(* Model values and small domains for checking ComposedValue with TLC.     *)
EXTENDS ComposedValue

MCInts == {0, 1}
MCStrs == {"", "a"}
=============================================================================
