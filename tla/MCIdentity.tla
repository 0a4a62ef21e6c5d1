------------------------------ MODULE MCIdentity ------------------------------
(* TLC instances of Identity.                                                *)
EXTENDS Identity

=============================================================================
