-------------------------- MODULE MCBackendManager --------------------------
(***************************************************************************)
(* Instances of BackendManager for TLC.                                     *)
(***************************************************************************)
EXTENDS BackendManager, TLC

Same == Permutations(Callers) \cup Permutations(Respawns)

\* Two calls after one another: the second begins when the first is over.
Alone ==
    \A k \in Callers : calls[k].pc = "idle" /\ calls'[k].pc # "idle" =>
        \A j \in Callers \ {k} : calls[j].pc \in {"idle", "ok", "threw"}

AloneSpec == Init /\ [][Next /\ Alone]_vars
=============================================================================
