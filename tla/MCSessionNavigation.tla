------------------------- MODULE MCSessionNavigation -------------------------
(***************************************************************************)
(* Instances of SessionNavigation for TLC.                                  *)
(***************************************************************************)
EXTENDS SessionNavigation, TLC

\* Handlers are interchangeable, and so are the sessions of one surface.
Same == Permutations(Ops) \cup Permutations(Sessions \ Flows)
=============================================================================
