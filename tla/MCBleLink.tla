------------------------------- MODULE MCBleLink -------------------------------
(* BleLink as TLC runs it: every constant is given in the configurations. *)
EXTENDS BleLink
=============================================================================
