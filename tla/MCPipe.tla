------------------------------- MODULE MCPipe -------------------------------
(* Small instances of Pipe. *)
EXTENDS Pipe

MCByte == 0 .. Modulus - 1
=============================================================================
