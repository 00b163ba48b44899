---------------------------- MODULE MCFlowOutbox ----------------------------
(***************************************************************************)
(* Instances of FlowOutbox for TLC.                                         *)
(***************************************************************************)
EXTENDS FlowOutbox

\* A controller leaves, and the program crashes, only while another controller
\* may still be mounted: the bound on mounts does not take the last one away.
RoomToReturn ==
    leaving' \ leaving # {} \/ crashes' # crashes => mounts < MaxMounts

\* One of a failed commit, a failed fetch and a failed write, beside a crash.
OneFailure == faults' + writeFaults' <= 1

PatientFairSpec ==
    Init /\ [][Next /\ Patient /\ OneFailure /\ RoomToReturn]_vars /\ Fairness
=============================================================================
