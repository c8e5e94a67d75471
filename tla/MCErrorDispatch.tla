------------------------- MODULE MCErrorDispatch -------------------------
(* Model values and bounds for checking ErrorDispatch with TLC.             *)
EXTENDS ErrorDispatch

CONSTANTS c1, c2
MCCalls == {c1, c2}
\* success, created, no content, each mapped failure, an unmapped failure
MCStatuses == {200, 201, 204, 400, 404, 500, 503}
=============================================================================
