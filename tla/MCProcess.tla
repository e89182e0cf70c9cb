----------------------------- MODULE MCProcess -----------------------------
(* Small instances of Process for TLC. *)
EXTENDS ProcessImpl

MCExitCodes == {0}
MCKillFlags == {{"SIGINT"}}
=============================================================================
