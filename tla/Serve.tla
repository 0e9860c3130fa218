------------------------------- MODULE Serve -------------------------------
(* From a container's labels to what its tailscaled serves: the parsing of    *)
(* pkg/docker/events.go:188-305, the checks of StartTailscale                 *)
(* (pkg/core/endpoint.go:219-262) and the serve commands of Daemon.Start      *)
(* (pkg/tailscale/daemon.go:429-664), for the containers that have one        *)
(* hostname one after the other.  What tailscaled is told to serve it keeps   *)
(* in the hostname's state directory.                                         *)
EXTENDS Integers, FiniteSets

CONSTANTS
    Ports,         \* what follows tslink.serve. in a label, or the colon in its value
    Numeric,       \* those of them that strconv.Atoi takes
    LabelSets,     \* the tslink.serve labels a container may have
    None,          \* no label, no target
    MaxContainers, \* bound on containers with the hostname
    MaxCrashes,    \* bound on restarts of the plugin
    MaxFaults      \* bound on failing commands and tailscaled's that die

L7 == {"http", "https"}
Protocols == L7 \cup {"tcp", "tls-terminated-tcp", "tun"}

\* The value of a label, split at the colon and the first slash.
Values == [proto : Protocols \cup {"unknown"}, target : Ports \cup {None}, path : BOOLEAN]

ASSUME PortsAssumption == IsFiniteSet(Ports) /\ Numeric \subseteq Ports /\ None \notin Ports
ASSUME LabelsAssumption == LabelSets \subseteq [Ports -> Values \cup {None}] /\ None \notin Values
ASSUME BoundsAssumption == MaxContainers \in Nat /\ MaxCrashes \in Nat /\ MaxFaults \in Nat

VARIABLES
    serve,      \* the container's tslink.serve labels,
    service,    \* whether it has tslink.service,
    direct,     \* whether tslink.direct allows to serve on its own hostname,
    version,    \* and what Tailscale it is to run: from before or after Services
    endpoints,  \* info.Endpoints, in the order in which the map gave the labels
    pc, at,     \* the next step, and the endpoint it is about
    alive,      \* tailscaled runs
    result,     \* what StartTailscale was told
    served,     \* the serve configuration in the state directory
    offered,    \* history: tailscaled has run with it since the last wipe
    inherited,  \* history: what of it the container has found there, and no wipe removed
    containers, crashes, faults

container == <<serve, service, direct, version>>
history   == <<offered, inherited>>
bounds    == <<containers, crashes, faults>>
vars == <<container, endpoints, pc, at, alive, result, served, history, bounds>>

-----------------------------------------------------------------------------
(* Labels *)

Endpoint == [proto : Protocols, port : Ports, target : Ports, path : BOOLEAN]

\* The target defaults to the port of the label.
parseServeValue(port, value) ==
    [proto |-> value.proto, port |-> port, path |-> value.path,
     target |-> IF value.target = None THEN port ELSE value.target]

\* An unknown protocol makes nil of the label.
Known(labels) == {p \in Ports : labels[p] # None /\ labels[p].proto \in Protocols}
Parsed(labels) == {parseServeValue(p, labels[p]) : p \in Known(labels)}

\* Go ranges over the map in any order.
parseServeEndpoints(labels) ==
    {s \in [1 .. Cardinality(Parsed(labels)) -> Parsed(labels)] :
        \A ep \in Parsed(labels) : \E i \in DOMAIN s : s[i] = ep}

-----------------------------------------------------------------------------
(* The serve configuration of tailscaled *)

Scopes == {"machine", "service"}
Entries == [scope : Scopes, port : Ports \cup {None}, proto : Protocols,
            target : Ports \cup {None}, path : BOOLEAN]

\* What the command for an endpoint asks for.
Entry(ep, scope) ==
    IF ep.proto = "tun"
    THEN [scope |-> scope, port |-> None, proto |-> "tun", target |-> None, path |-> FALSE]
    ELSE [scope |-> scope, port |-> ep.port, proto |-> ep.proto, target |-> ep.target,
          path |-> ep.path /\ ep.proto \in L7]

\* A port has one protocol, and a path on it one target.
Replaces(x, y) ==
    x.scope = y.scope /\ x.port = y.port /\ (x.proto = y.proto => x.path = y.path)

Put(x) == {y \in served : ~Replaces(x, y)} \cup {x}

\* tailscale may refuse a port that has another protocol.
Conflict(x) == \E y \in served : x.scope = y.scope /\ x.port = y.port /\ x.proto # y.proto

-----------------------------------------------------------------------------
(* What the labels mean, by the comments of events.go:212-217 and 228-245: they  *)
(* are served with tslink.service or without, and one whose protocol is not     *)
(* known means nothing.                                                         *)

Meaning(p, value, scope) ==
    IF value.proto = "tun"
    THEN [scope |-> scope, port |-> None, proto |-> "tun", target |-> None, path |-> FALSE]
    ELSE [scope |-> scope, port |-> p, proto |-> value.proto,
          target |-> IF value.target \in Ports THEN value.target ELSE p,
          path |-> value.proto \in L7 /\ value.path]

MachineWants(labels) == {p \in Known(labels) : labels[p].proto # "tun"}

Wants(labels, svc, dir) ==
       {Meaning(p, labels[p], "machine") : p \in IF dir THEN MachineWants(labels) ELSE {}}
  \cup {Meaning(p, labels[p], "service") : p \in IF svc THEN Known(labels) ELSE {}}

Wanted == Wants(serve, service, direct)

-----------------------------------------------------------------------------
(* State *)

Configuring == {"direct", "service"}
PCs == {"none", "check", "version", "launch", "running", "again", "over"} \cup Configuring

TypeOK ==
    /\ serve \in LabelSets
    /\ service \in BOOLEAN /\ direct \in BOOLEAN
    /\ version \in {"old", "new"}
    /\ endpoints \in parseServeEndpoints(serve)
    /\ pc \in PCs
    /\ at \in Nat /\ at >= 1
    /\ alive \in BOOLEAN
    /\ result \in {"none", "ok", "error"}
    /\ served \in SUBSET Entries
    /\ offered \in BOOLEAN /\ inherited \in SUBSET Entries
    /\ containers \in 0..MaxContainers /\ crashes \in 0..MaxCrashes /\ faults \in 0..MaxFaults

\* The values of a container that is not there do not matter.
Init ==
    /\ serve \in LabelSets /\ service = FALSE /\ direct = FALSE /\ version = "new"
    /\ endpoints \in parseServeEndpoints(serve)
    /\ pc = "none" /\ at = 1
    /\ alive = FALSE /\ result = "none"
    /\ served = {}
    /\ offered = FALSE /\ inherited = {}
    /\ containers = 0 /\ crashes = 0 /\ faults = 0

Fault == faults < MaxFaults /\ faults' = faults + 1

Told(outcome) == result' = IF result = "none" THEN outcome ELSE result

-----------------------------------------------------------------------------
(* StartTailscale *)

\* A container comes with labels, and StartTailscale begins for it.
Begin ==
    /\ pc = "none"
    /\ containers < MaxContainers /\ containers' = containers + 1
    /\ serve' \in LabelSets
    /\ service' \in BOOLEAN /\ direct' \in BOOLEAN /\ version' \in {"old", "new"}
    /\ endpoints' \in parseServeEndpoints(serve')
    /\ pc' = "check" /\ at' = 1 /\ result' = "none"
    /\ offered' = FALSE
    /\ inherited' = served
    /\ UNCHANGED <<alive, served, crashes, faults>>

\* The state directory is wiped, and the serve configuration with it.
Wiped == served' = {} /\ offered' = FALSE /\ inherited' = {}

Refuse == pc' = "over" /\ result' = "error"

\* Another auth key wipes the directory.  A service needs endpoints; binaries may
\* be missing.
Check ==
    /\ pc = "check"
    /\ Wiped \/ UNCHANGED <<served, history>>
    /\ \/ service /\ DOMAIN endpoints = {} /\ Refuse /\ UNCHANGED faults
       \/ ~(service /\ DOMAIN endpoints = {}) /\ Fault /\ Refuse
       \/ /\ ~(service /\ DOMAIN endpoints = {})
          /\ pc' = IF service THEN "version" ELSE "launch"
          /\ UNCHANGED <<result, faults>>
    /\ UNCHANGED <<container, endpoints, at, alive, containers, crashes>>

\* A version that cannot be determined passes.
CheckVersionForServices ==
    /\ pc = "version"
    /\ \/ version = "old" /\ Refuse /\ UNCHANGED faults
       \/ version = "new" /\ pc' = "launch" /\ UNCHANGED <<result, faults>>
       \/ Fault /\ pc' = "launch" /\ UNCHANGED result
    /\ UNCHANGED <<container, endpoints, at, alive, served, history, containers, crashes>>

-----------------------------------------------------------------------------
(* Daemon.Start, on every attempt of the supervisor *)

\* What comes once the machine's endpoints are served ...
Afterwards == IF service THEN "service" ELSE "running"

\* As a bug: Direct is not looked at.
FirstAlways == IF DOMAIN endpoints # {} THEN "direct" ELSE Afterwards

\* ... and what before.
First == IF direct /\ DOMAIN endpoints # {} THEN "direct" ELSE Afterwards

Proceeds(to) ==
    /\ alive' = TRUE
    /\ pc' = to /\ at' = 1
    /\ IF to = "running"
       THEN Told("ok") /\ offered' = TRUE
       ELSE UNCHANGED <<result, offered>>
    /\ UNCHANGED inherited

\* As a bug: Stop is forgotten.
FailsRunning ==
    /\ alive' = TRUE
    /\ pc' = "again" /\ at' = 1 /\ Told("error")

\* Stop, and the error goes to whoever still waits for the first attempt.
Fails ==
    /\ alive' = FALSE
    /\ pc' = "again" /\ at' = 1 /\ Told("error")

\* As a bug: every start begins with tailscale serve reset.
LaunchResets ==
    /\ pc = "launch"
    /\ Proceeds(First)
    /\ served' = {}
    /\ UNCHANGED <<container, endpoints, bounds>>

\* The process, its socket and tailscale up.  A rejected identity is wiped, and
\* with it the socket that the second attempt needs.
Launch ==
    /\ pc = "launch"
    /\ \/ Proceeds(First) /\ UNCHANGED <<served, faults>>
       \/ Fault /\ Fails /\ UNCHANGED <<served, history>>
       \/ Fault /\ Fails /\ Wiped
    /\ UNCHANGED <<container, endpoints, containers, crashes>>

ValidPorts(ep) == ep.port \in Numeric /\ ep.target \in Numeric

\* tailscale knows no --service.
Unknown(x) == x.scope = "service" /\ version = "old"

\* A tailscale serve command: it fails, perhaps after it has had its effect, or
\* because it does not know --service or will not have that protocol on that port.
Command(x) ==
    \/ /\ ~Unknown(x)
       /\ served' = Put(x)
       /\ at' = at + 1
       /\ UNCHANGED <<pc, alive, result, faults>>
    \/ /\ IF Conflict(x) \/ Unknown(x) THEN UNCHANGED faults ELSE Fault
       /\ UNCHANGED served
       /\ Fails
    \/ ~Unknown(x) /\ Fault /\ served' = Put(x) /\ Fails

\* As a bug: a tun endpoint ends the loop.
DirectStepEndsAtTun ==
    /\ pc = "direct" /\ at \in DOMAIN endpoints
    /\ LET ep == endpoints[at] IN
       \/ ~ValidPorts(ep) /\ Fails /\ UNCHANGED <<served, history, faults>>
       \/ ValidPorts(ep) /\ ep.proto = "tun" /\ Proceeds(Afterwards) /\ UNCHANGED <<served, faults>>
       \/ ValidPorts(ep) /\ ep.proto # "tun" /\ Command(Entry(ep, "machine")) /\ UNCHANGED history
    /\ UNCHANGED <<container, endpoints, containers, crashes>>

\* configureDirectServeEndpoint, which has nothing to do for tun but checks the
\* ports first.
DirectStep ==
    /\ pc = "direct" /\ at \in DOMAIN endpoints
    /\ LET ep == endpoints[at] IN
       \/ ~ValidPorts(ep) /\ Fails /\ UNCHANGED <<served, faults>>
       \/ /\ ValidPorts(ep) /\ ep.proto = "tun"
          /\ at' = at + 1
          /\ UNCHANGED <<pc, alive, result, served, faults>>
       \/ ValidPorts(ep) /\ ep.proto # "tun" /\ Command(Entry(ep, "machine"))
    /\ UNCHANGED <<container, endpoints, history, containers, crashes>>

DirectDone ==
    /\ pc = "direct" /\ at \notin DOMAIN endpoints
    /\ Proceeds(Afterwards)
    /\ UNCHANGED <<container, endpoints, served, bounds>>

\* configureServeEndpoint.
ServiceStep ==
    /\ pc = "service" /\ at \in DOMAIN endpoints
    /\ LET ep == endpoints[at] IN
       \/ ~ValidPorts(ep) /\ Fails /\ UNCHANGED <<served, faults>>
       \/ ValidPorts(ep) /\ Command(Entry(ep, "service"))
    /\ UNCHANGED <<container, endpoints, history, containers, crashes>>

ServiceDone ==
    /\ pc = "service" /\ at \notin DOMAIN endpoints
    /\ Proceeds("running")
    /\ UNCHANGED <<container, endpoints, served, bounds>>

-----------------------------------------------------------------------------
(* What else happens *)

\* tailscaled dies, and the supervisor notices.
Dies ==
    /\ pc = "running" /\ Fault
    /\ alive' = FALSE /\ pc' = "again"
    /\ UNCHANGED <<container, endpoints, at, result, served, history, containers, crashes>>

\* The supervisor tries again, also when StartTailscale was told of a failure and
\* has left it, or gives up in a crash loop.
Retry ==
    /\ pc = "again"
    /\ pc' \in {"launch", "over"}
    /\ UNCHANGED <<container, endpoints, at, alive, result, served, history, bounds>>

\* The container leaves, and its tailscaled is stopped.
Ends ==
    /\ pc # "none"
    /\ pc' = "none" /\ at' = 1 /\ alive' = FALSE /\ offered' = FALSE
    /\ UNCHANGED <<container, endpoints, result, served, inherited, bounds>>

\* The plugin restarts: tailscaled ends with it, and the recovery reads the same
\* labels once more.
PluginRestarts ==
    /\ pc # "none"
    /\ crashes < MaxCrashes /\ crashes' = crashes + 1
    /\ endpoints' \in parseServeEndpoints(serve)
    /\ pc' = "check" /\ at' = 1 /\ alive' = FALSE /\ result' = "none"
    /\ UNCHANGED <<container, served, history, containers, faults>>

Next == \/ Begin \/ Check \/ CheckVersionForServices
        \/ Launch \/ DirectStep \/ DirectDone \/ ServiceStep \/ ServiceDone
        \/ Dies \/ Retry \/ Ends \/ PluginRestarts

Spec == Init /\ [][Next]_vars

-----------------------------------------------------------------------------
(* Properties *)

\* A tailscaled that counts as running serves every label of its container that has
\* a known protocol, on its own hostname unless tslink.direct forbids it and for the
\* service if there is one, in whatever order the labels came and whatever earlier
\* containers and attempts have left; one bad port keeps it from running, unless
\* there is nobody to serve to (daemon.go:429-550, 552-664, events.go:212-305).  That
\* labels need tslink.service and that an unknown protocol is an error is in specs/04
\* and specs/02 and not in the code.
ServesLabels ==
    pc = "running" =>
       /\ alive /\ Wanted \subseteq served
       /\ direct \/ service =>
             \A p \in Known(serve) : {p, serve[p].target} \subseteq Numeric \cup {None}

\* A container adds nothing to what is served that its own labels do not ask for:
\* with tslink.direct=false nothing on its own hostname, in no attempt and after no
\* failure or restart.  What earlier containers have left is served on, also to one
\* that forbids it; a wipe ends that (daemon.go:287-298, 527-530, events.go:216-217).
OnlyAsked == served \subseteq Wanted \cup inherited

\* What has been served stays so while tailscaled and the plugin are restarted and
\* the commands are given again, until the identity is wiped
\* (daemon.go:287-314, 351-360).
StaysServed == offered => Wanted \subseteq served

\* The induction behind them: tailscaled runs only in and after a start that has
\* not failed ...
Stopped == alive <=> pc \in Configuring \cup {"running"}

\* ... and the endpoints before "at" are served, those of the machine first.
MachineServed(i) ==
    ValidPorts(endpoints[i]) /\
    (endpoints[i].proto # "tun" => Entry(endpoints[i], "machine") \in served)

ServiceServed(i) == ValidPorts(endpoints[i]) /\ Entry(endpoints[i], "service") \in served

Position ==
    /\ pc \in Configuring => at <= Cardinality(Parsed(serve)) + 1
    /\ pc = "direct" => direct /\ \A i \in DOMAIN endpoints : i < at => MachineServed(i)
    /\ pc = "service" => service /\ \A i \in DOMAIN endpoints : i < at => ServiceServed(i)
    /\ pc \in {"service", "running"} /\ direct => \A i \in DOMAIN endpoints : MachineServed(i)
    /\ pc = "running" /\ service => \A i \in DOMAIN endpoints : ServiceServed(i)

\* All of it together, which every step preserves (daemon.go:266-317, 429-664).
ServeInv ==
    /\ TypeOK /\ Stopped /\ OnlyAsked /\ StaysServed /\ Position

=============================================================================
