---------------------------- MODULE MCEnclaveRun ----------------------------
(* EnclaveRun for TLC: the values of its constants. *)
EXTENDS EnclaveRun

CONSTANTS kms, s3, ddb
=============================================================================
