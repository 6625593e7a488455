----------------------------- MODULE MCHpXmodem -----------------------------
(* HpXmodem with the constants of the .cfg files MCHpXmodem*.cfg *)
EXTENDS HpXmodem
=============================================================================
