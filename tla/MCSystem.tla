------------------------------ MODULE MCSystem ------------------------------
(* Small instances of System for TLC. *)
EXTENDS System

MCExitCodes == {0}
=============================================================================
