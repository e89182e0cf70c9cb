------------------------------- MODULE MCExt4 -------------------------------
(* Instances of Ext4 for TLC.                                              *)
EXTENDS Ext4

CONSTANTS usr, bin

SomePaths == {<<usr>>, <<bin>>, <<usr, bin>>}

\* No name begins with another.
PrefixFree == [n \in Names |-> {n}]

=============================================================================
