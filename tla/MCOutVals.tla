----------------------------- MODULE MCOutVals -----------------------------
(* OutVals with few registers, so that pressure is the normal case.        *)
EXTENDS OutVals
=============================================================================
