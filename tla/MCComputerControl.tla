-------------------------- MODULE MCComputerControl --------------------------
(***************************************************************************)
(* An instance of ComputerControl for TLC.                                  *)
(***************************************************************************)
EXTENDS ComputerControl, TLC

Same == Permutations(Slots)
=============================================================================
