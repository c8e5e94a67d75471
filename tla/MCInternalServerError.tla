------------------------- MODULE MCInternalServerError -------------------------
(* ModelContract over the single class InternalServerError. *)
EXTENDS ModelContract

CONSTANTS AboutBlank, v1, v2
M == INSTANCE Models
MCClasses == "InternalServerError" :> M!InternalServerError
MCVals == {v1, v2}
MCExtraKeys == {"x"}
=============================================================================
