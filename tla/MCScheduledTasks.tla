-------------------------- MODULE MCScheduledTasks --------------------------
(***************************************************************************)
(* Instances of ScheduledTasks for TLC: a recurring and a one-shot task.    *)
(***************************************************************************)
EXTENDS ScheduledTasks

CONSTANTS recurring, oneShot

AgentAndReminder == [t \in Tasks |->
                        IF t = recurring THEN "agent" ELSE "reminder"]
ReminderAndMonitor == [t \in Tasks |->
                          IF t = recurring THEN "reminder" ELSE "monitor"]
MonitorAndReminder == [t \in Tasks |->
                          IF t = recurring THEN "monitor" ELSE "reminder"]

\* The same fairness until the program is restarted, and none from then on.
LastingFairness ==
    LET Lasting(A) == restarts = 0 /\ A /\ Remembers
    IN /\ WF_vars(Lasting(WorkerStep \/ BackendStep))
       /\ \A s \in Slots : WF_vars(Lasting(RecStep(s)))
       /\ \A x \in Reporters : SF_vars(Lasting(ReportWritten(x)))
       /\ WF_vars(Lasting(\E x \in Times : TimerFires(x)))
       /\ WF_vars(Lasting(Approved))

\* Bounds of the run: one restart or one request for approval, and from then on
\* the calls of reconcile() come one at a time.
Bounded ==
    /\ asks' + restarts' <= 1
    /\ asks' + restarts' = 1 =>
          Cardinality({s \in Slots : rec'[s].phase # "idle"}) <= 1

BoundedSpec == Init /\ [][Next /\ Bounded]_vars /\ LastingFairness
=============================================================================
