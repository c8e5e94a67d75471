------------------------- MODULE MCDeploymentCreate -------------------------
(* ModelContract over the single class DeploymentCreate. *)
EXTENDS ModelContract

CONSTANTS AboutBlank, v1, v2
M == INSTANCE Models
MCClasses == "DeploymentCreate" :> M!DeploymentCreate
MCVals == {v1, v2}
MCExtraKeys == {"x"}
=============================================================================
