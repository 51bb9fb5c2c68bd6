-------------------------- MODULE MCOtaAppRollback --------------------------
(* Finite instances of OtaAppRollback for TLC.                             *)
EXTENDS OtaAppRollback

AnyApp == Behaviours

=============================================================================
