------------------------------ MODULE MCKermit ------------------------------
(* Kermit with the constants of the .cfg files MCKermit*.cfg *)
EXTENDS Kermit
=============================================================================
