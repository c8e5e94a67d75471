------------------------------ MODULE MCModels ------------------------------
(* ModelContract over every generated model class, one key at a time.       *)
EXTENDS ModelContract

CONSTANTS AboutBlank, v1
M == INSTANCE Models
\* InternalServerError is checked on its own (InternalServerError_ModelRoundTrip).
MCClasses == [c \in DOMAIN M!AllClasses \ {"InternalServerError"} |-> M!AllClasses[c]]
MCVals == {v1}
\* "service_name" is a wire name of DeploymentCreate and only the Python
\* name of DeploymentEntity's dotted "service.name".
MCExtraKeys == {"service_name", "x"}
=============================================================================
