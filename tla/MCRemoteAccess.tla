--------------------------- MODULE MCRemoteAccess ---------------------------
(***************************************************************************)
(* An instance of RemoteAccess for TLC.                                     *)
(***************************************************************************)
EXTENDS RemoteAccess, TLC

Same == Permutations(Calls) \cup Permutations(Gateways) \cup Permutations(Devices)
=============================================================================
