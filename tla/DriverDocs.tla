----------------------------- MODULE DriverDocs -----------------------------
(* What comments and specifications of the repository say of the driver and  *)
(* its code does not keep.                                                   *)
EXTENDS Driver

\* "It stops the Tailscale supervisor and cleans up networking resources"
\* (endpoint.go:353): after Leave no object of the endpoint holds a supervisor.
LeaveStopsSupervisor ==
    \A o \in Objects :
       obj[o].id # None /\ phase[obj[o].id] \in {"left", "deleted"}
          => obj[o].sup = None

=============================================================================
