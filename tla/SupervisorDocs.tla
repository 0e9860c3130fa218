--------------------------- MODULE SupervisorDocs ---------------------------
(* What comments and specifications of the repository say of the supervisor  *)
(* and its code does not keep.                                               *)
EXTENDS Supervisor

\* "Starts at 100ms, doubles each attempt, caps at 30 seconds maximum"
\* (specs/07:33-34): while nothing resets it the delay never gets shorter.
BackoffGrows ==
    [][pc = "top" /\ pc' = "backoff" /\ attempt > 0
          => delay' >= Least(2^Least(attempt, 9), MaxBackoff)]_vars

=============================================================================
