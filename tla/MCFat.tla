-------------------------------- MODULE MCFat --------------------------------
(* A small instance of Fat: a name of one part, one of two, and its reverse. *)
EXTENDS Fat, TLC

CONSTANTS a, b

MCImageName == <<a>>
MCNames == {<<a>>, <<a, b>>, <<b, a>>}
MCSymmetry == Permutations(Data)
=============================================================================
