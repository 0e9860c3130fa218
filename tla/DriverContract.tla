--------------------------- MODULE DriverContract ---------------------------
(***************************************************************************)
(* Driver as a user of SupervisorContract.  Whoever starts Tailscale keeps *)
(* to the contract of the supervisor it has made (it stops one only after  *)
(* Start has answered, and starts none twice), and needs of it nothing but *)
(* what the contract allows: Supervisor, which implements the contract,    *)
(* can stand where Driver has sup[o][k].                                   *)
(***************************************************************************)
EXTENDS Driver

VARIABLE answered   \* history: what supervisor.Start has answered to <<o, k>>

historyVars == <<vars, answered>>

\* StartUp is the step in which supervisor.Start returns; the end of the plugin
\* loses the answer with everything else.
Answer(o, k) ==
    CASE start'[o][k] = "idle" -> "pending"
      [] start[o][k] = "starting" /\ start'[o][k] = "waitIP" -> "ok"
      [] start[o][k] = "starting" /\ start'[o][k] \in {"unregister", "failed"} -> "failed"
      [] OTHER -> answered[o][k]

HistoryInit == Init /\ answered = [o \in Objects |-> [k \in Kinds |-> "pending"]]

HistoryNext == Next /\ answered' = [o \in Objects |-> [k \in Kinds |-> Answer(o, k)]]

HistorySpec == HistoryInit /\ [][HistoryNext]_historyVars

\* The supervisor of <<o, k>>, whose tailscaled nobody in Driver looks at.
Loop(o, k) == INSTANCE SupervisorContract
                 WITH sup <- sup[o][k], result <- answered[o][k], running <- FALSE

\* Join, the watcher, the recoveries, Leave, DeleteEndpoint and Shutdown, in any
\* order, treat every supervisor as its contract has it, from its first state to
\* the end of the plugin (endpoint.go:252-318, 355-369, 390-402,
\* supervisor.go:84-136).
GoesByContract ==
    /\ \A o \in Objects, k \in Kinds : Loop(o, k)!Init
    /\ [][mode' = "exited" \/ \A o \in Objects, k \in Kinds :
             UNCHANGED <<sup[o][k], answered[o][k]>> \/ Loop(o, k)!Next]_historyVars

=============================================================================
