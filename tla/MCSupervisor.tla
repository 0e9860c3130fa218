---------------------------- MODULE MCSupervisor ----------------------------
(* Instances of Supervisor for TLC; the durations are in units of 100 ms.   *)
EXTENDS SupervisorDocs

\* A start that takes half a second, and one that waits for the socket until
\* its ten seconds are over.
QuickAndSlow == {5, 100}
Slow == {100}

=============================================================================
