------------------------- MODULE SupervisorContract -------------------------
(***************************************************************************)
(* What a DaemonSupervisor promises to the goroutine that starts it and to *)
(* whoever stops it (pkg/tailscale/supervisor.go): the view Driver has of  *)
(* a supervisor, in the same words.                                        *)
(***************************************************************************)

VARIABLES
    sup,      \* the supervision loop: "none", "live", "cancelled", "exited"
    result,   \* what Start has answered: "pending", "ok", "failed"
    running   \* whether a tailscaled of this supervisor runs

vars == <<sup, result, running>>

TypeOK == /\ sup \in {"none", "live", "cancelled", "exited"}
          /\ result \in {"pending", "ok", "failed"}
          /\ running \in BOOLEAN

Init == sup = "none" /\ result = "pending" /\ running = FALSE

Begin == /\ sup = "none"
         /\ sup' = "live"
         /\ UNCHANGED <<result, running>>

\* tailscaled comes and goes, only under a loop.
Runs == /\ sup \in {"live", "cancelled"}
        /\ running' = ~running
        /\ UNCHANGED <<sup, result>>

\* Start returns, at the latest when its ninety seconds are over.  With an
\* error the loop may be over, go on, or have been told to end.
Report == /\ sup = "live" /\ result = "pending"
          /\ \/ result' = "ok" /\ sup' \in {"live", "exited"}
             \/ result' = "failed" /\ sup' \in {"live", "cancelled", "exited"}
          /\ sup' = "exited" => ~running
          /\ UNCHANGED running

Stop == /\ sup = "live" /\ result = "ok"
        /\ sup' = "cancelled"
        /\ UNCHANGED <<result, running>>

\* The loop ends by itself, never from under a tailscaled.
GivesUp == /\ sup = "live" /\ result # "pending" /\ ~running
           /\ sup' = "exited"
           /\ UNCHANGED <<result, running>>

\* A loop that was told to end takes its tailscaled with it.
Stops == /\ sup = "cancelled"
         /\ sup' = "exited"
         /\ running' = FALSE
         /\ UNCHANGED result

Next == Begin \/ Runs \/ Report \/ Stop \/ GivesUp \/ Stops

Spec == Init /\ [][Next]_vars

\* Start answers, and a loop that was told to end ends.
FairSpec == Spec /\ WF_vars(Report) /\ WF_vars(Stops)

=============================================================================
