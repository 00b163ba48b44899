------------------------- MODULE MCStudioConnection -------------------------
(***************************************************************************)
(* Instances of StudioConnection for TLC.                                   *)
(***************************************************************************)
EXTENDS StudioConnection, TLC

\* The slots are interchangeable; only runs without liveness use this.
HelloSymmetry == Permutations(Hellos)

\* Of the fresh clients and of the free slots a fixed one is taken: which one
\* is only a name.
Canonical ==
    /\ \A c \in Clients : R!Fresh(c) /\ state'[c] # state[c] =>
           c = CHOOSE k \in Clients : R!Fresh(k)
    /\ \A h \in Hellos : hello[h].step = "idle" /\ hello'[h].step # "idle" =>
           h = CHOOSE k \in Hellos : hello[k].step = "idle"

CanonicalSpec == Init /\ [][Next /\ Canonical]_vars /\ Fairness

\* The settled behaviours, with the fixed choice of names.
CanonicalSettledSpec ==
    Init /\ [][Next /\ PromptHello /\ SettledChanges /\ ~Refusal /\ Canonical]_vars

\* A change may race the first handshake.
EarlyChangeSpec == Init /\ [][Next /\ PromptHello /\ ~Refusal]_vars

\* A handshake may outlive its connection.
SlowHelloSpec == Init /\ [][Next /\ SettledChanges /\ ~Refusal]_vars

=============================================================================
