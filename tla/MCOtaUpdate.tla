---------------------------- MODULE MCOtaUpdate ----------------------------
(* OtaUpdate as TLC runs it: every constant is given in the configuration. *)
EXTENDS OtaUpdate
=============================================================================
