------------------------------ MODULE StateDir ------------------------------
(* The state directory of one hostname and the tailscaled started on it:     *)
(* StartTailscale's check of the auth key (pkg/core/endpoint.go:219-296),    *)
(* the attempts of its supervisor (pkg/tailscale/daemon.go) and the files    *)
(* (pkg/tailscale/state.go).  Supervisor has the loop's timing; here are the *)
(* steps of Daemon.Start and Stop, and what they leave on disk.              *)
EXTENDS Naturals

CONSTANTS
    Users,       \* supervisors on the directory
    Keys,        \* auth keys
    None,        \* no key, no node, no user
    Torn,        \* what a write that was begun has left of a hash
    Nodes,       \* identities; one that nobody holds any more may come again
    MaxFaults,   \* bound on what fails, dies or expires
    MaxCrashes   \* bound on ends of the plugin

ASSUME BoundsAssumption == MaxFaults \in Nat /\ MaxCrashes \in Nat
ASSUME NoneAssumption == None \notin Users \cup Keys \cup Nodes
ASSUME TornAssumption == Torn \notin Keys \cup {None}

VARIABLES
    nodeKey,    \* control plane: the key a node was registered with, or None
    valid,      \* control plane: the nodes it accepts
    state,      \* tailscaled.state: the node whose identity it holds
    hash,       \* authkey.sha256: the key it is the hash of, or Torn
    sock,       \* tailscaled.sock: the user whose tailscaled made it
    loop,       \* the next step of a user's supervision loop
    starter,    \* the next step of its StartTailscale
    cancelled,  \* its supervisor's context is done
    key,        \* its AuthKey, once it has begun
    unread,     \* history: it took for its own a hash that it could not read
    proc,       \* its tailscaled: none, booting, or listening on its socket
    node,       \* the identity that tailscaled has in memory
    up,         \* whether it is connected
    faults, crashes

control == <<nodeKey, valid>>
files   == <<state, hash, sock>>
daemon  == <<proc, node, up>>
bounds  == <<faults, crashes>>
begun   == <<key, unread>>
vars == <<control, files, loop, starter, cancelled, begun, daemon, bounds>>

Loops == {"off", "top", "ready", "socket", "up", "wipe", "again", "serve",
          "watch", "stop", "down"}

\* "failed": Start has answered an error; "dropped": the supervisor was stopped
\* because WaitForIP has; "held": StartTailscale has stored it.
Starters == {"none", "starting", "failed", "ip", "dropped", "save", "write", "held"}

TypeOK ==
    /\ nodeKey \in [Nodes -> Keys \cup {None}]
    /\ valid \in SUBSET Nodes
    /\ state \in Nodes \cup {None}
    /\ hash \in Keys \cup {None, Torn}
    /\ sock \in Users \cup {None}
    /\ loop \in [Users -> Loops]
    /\ starter \in [Users -> Starters]
    /\ cancelled \in [Users -> BOOLEAN]
    /\ key \in [Users -> Keys \cup {None}] /\ unread \in [Users -> BOOLEAN]
    /\ proc \in [Users -> {"none", "booting", "listening"}]
    /\ node \in [Users -> Nodes \cup {None}]
    /\ up \in [Users -> BOOLEAN]
    /\ faults \in 0..MaxFaults /\ crashes \in 0..MaxCrashes

Init ==
    /\ nodeKey = [n \in Nodes |-> None] /\ valid = {}
    /\ state = None /\ hash = None /\ sock = None
    /\ loop = [u \in Users |-> "off"]
    /\ starter = [u \in Users |-> "none"]
    /\ cancelled = [u \in Users |-> FALSE]
    /\ key = [u \in Users |-> None] /\ unread = [u \in Users |-> FALSE]
    /\ proc = [u \in Users |-> "none"]
    /\ node = [u \in Users |-> None]
    /\ up = [u \in Users |-> FALSE]
    /\ faults = 0 /\ crashes = 0

-----------------------------------------------------------------------------
(* Helpers *)

Fault == faults < MaxFaults /\ faults' = faults + 1

\* A command of the tailscale CLI finds a tailscaled behind the socket.
Reachable == sock # None /\ proc[sock] = "listening"

\* "tailscale down" reaches whoever is behind the socket.
TurnedDown == IF Reachable THEN [up EXCEPT ![sock] = FALSE] ELSE up

Goto(u, l) == loop' = [loop EXCEPT ![u] = l]

\* WipeState: state, hash and socket; debug.log is of no interest.
WipeState == state' = None /\ hash' = None /\ sock' = None

\* A new identity: neither on disk nor in a tailscaled.
FreshNode(n) == n # state /\ \A u \in Users : node[u] # n

\* The loop or the StartTailscale of u goes on.
Busy(u) == loop[u] # "off" \/ starter[u] \in {"starting", "ip", "save", "write"}

\* signalStartup: the first attempt's outcome goes to StartTailscale.
Signal(u, s) ==
    starter' = IF starter[u] = "starting" THEN [starter EXCEPT ![u] = s] ELSE starter

-----------------------------------------------------------------------------
(* StartTailscale and Leave *)

\* As a bug: whatever state there is is used with whatever key.
BeginBlind(u) ==
    /\ ~Busy(u)
    /\ key' \in {[key EXCEPT ![u] = k] : k \in Keys}
    /\ unread' = [unread EXCEPT ![u] = FALSE]
    /\ cancelled' = [cancelled EXCEPT ![u] = FALSE]
    /\ starter' = [starter EXCEPT ![u] = "starting"]
    /\ Goto(u, "top")
    /\ UNCHANGED <<control, files, daemon, bounds>>

\* CheckAuthKeyMatch, asked when there is a state: no hash matches any key, a torn
\* one matches none.
Matches(k) == state = None \/ hash \in {None, k}

\* The state of another auth key is wiped; but a hash that cannot be read counts as
\* a match.  Then supervisor.Start.
Begin(u) ==
    /\ ~Busy(u)
    /\ key' \in {[key EXCEPT ![u] = k] : k \in Keys}
    /\ \/ /\ IF Matches(key'[u]) THEN UNCHANGED files ELSE WipeState
          /\ unread' = [unread EXCEPT ![u] = FALSE]
          /\ UNCHANGED faults
       \/ /\ ~Matches(key'[u]) /\ Fault /\ UNCHANGED files
          /\ unread' = [unread EXCEPT ![u] = TRUE]
    /\ cancelled' = [cancelled EXCEPT ![u] = FALSE]
    /\ starter' = [starter EXCEPT ![u] = "starting"]
    /\ Goto(u, "top")
    /\ UNCHANGED <<control, daemon, crashes>>

\* Start gives up after ninety seconds, or WaitForIP after sixty, in which it has
\* seen nothing connected: the supervisor is stopped and StartTailscale returns an
\* error.
StartGivesUp(u) ==
    /\ \/ /\ starter[u] = "starting" /\ Fault
          /\ starter' = [starter EXCEPT ![u] = "failed"]
       \/ /\ starter[u] = "ip"
          /\ IF Reachable /\ up[sock] THEN Fault ELSE UNCHANGED faults
          /\ starter' = [starter EXCEPT ![u] = "dropped"]
    /\ cancelled' = [cancelled EXCEPT ![u] = TRUE]
    /\ UNCHANGED <<control, files, loop, begun, daemon, crashes>>

WaitForIP(u) ==
    /\ starter[u] = "ip"
    /\ Reachable /\ up[sock]
    /\ starter' = [starter EXCEPT ![u] = "save"]
    /\ UNCHANGED <<control, files, loop, cancelled, begun, daemon, bounds>>

\* os.WriteFile opens and truncates the file ...
TruncateHash(u) ==
    /\ starter[u] = "save"
    /\ \/ /\ hash' = Torn
          /\ starter' = [starter EXCEPT ![u] = "write"]
          /\ UNCHANGED faults
       \/ /\ Fault /\ UNCHANGED hash
          /\ starter' = [starter EXCEPT ![u] = "held"]
    /\ UNCHANGED <<control, state, sock, loop, cancelled, begun, daemon, crashes>>

\* ... and writes to it, which leaves no file if it has been wiped by now.
WriteHash(u) ==
    /\ starter[u] = "write"
    /\ \/ hash' = (IF hash = None THEN None ELSE key[u]) /\ UNCHANGED faults
       \/ Fault /\ UNCHANGED hash
    /\ starter' = [starter EXCEPT ![u] = "held"]
    /\ UNCHANGED <<control, state, sock, loop, cancelled, begun, daemon, crashes>>

\* An error is only logged; nobody asks whether the supervisor still runs.
SaveAuthKeyHash(u) == TruncateHash(u) \/ WriteHash(u)

Leave(u) ==
    /\ starter[u] = "held" /\ ~cancelled[u]
    /\ cancelled' = [cancelled EXCEPT ![u] = TRUE]
    /\ UNCHANGED <<control, files, loop, starter, begun, daemon, bounds>>

-----------------------------------------------------------------------------
(* An attempt to start: NewDaemon, Daemon.Start *)

\* The loop ends: cancelled, also during the backoff, or given up (a crash loop, no
\* container any more), which Start is told.  A tailscaled that has died may be
\* stopped once more.
Ends(u) ==
    /\ \/ loop[u] = "top" /\ up' \in {up, TurnedDown}
       \/ loop[u] = "ready" /\ cancelled[u] /\ UNCHANGED up
    /\ Goto(u, "off") /\ Signal(u, "failed")
    /\ UNCHANGED <<control, files, cancelled, begun, proc, node, bounds>>

\* The loop looks at its context, and begins its backoff.
Top(u) ==
    /\ loop[u] = "top" /\ ~cancelled[u]
    /\ Goto(u, "ready")
    /\ UNCHANGED <<control, files, starter, cancelled, begun, daemon, bounds>>

\* As a bug: NewDaemon leaves the socket of the run before.
LaunchKeepsSocket(u) ==
    /\ loop[u] = "ready"
    /\ proc' = [proc EXCEPT ![u] = "booting"]
    /\ Goto(u, "socket")
    /\ UNCHANGED <<control, files, starter, cancelled, begun, node, up, bounds>>

\* The socket of an earlier run is removed, tailscaled is started; or it cannot
\* be started, and the loop comes back later.  It may be cancelled by now.
Launch(u) ==
    /\ loop[u] = "ready"
    /\ sock' = None
    /\ \/ /\ proc' = [proc EXCEPT ![u] = "booting"]
          /\ Goto(u, "socket")
          /\ UNCHANGED <<starter, faults>>
       \/ /\ Fault /\ Signal(u, "failed")
          /\ Goto(u, "top")
          /\ UNCHANGED proc
    /\ UNCHANGED <<control, state, hash, cancelled, begun, node, up, crashes>>

\* waitForSocket, which looks for the file ...
SocketThere(u) ==
    /\ loop[u] = "socket" /\ sock # None
    /\ Goto(u, "up")
    /\ UNCHANGED <<control, files, starter, cancelled, begun, daemon, bounds>>

\* As a bug: the process is not stopped when its socket does not come.
SocketTimesOutLeaks(u) ==
    /\ loop[u] = "socket" /\ sock = None
    /\ IF proc[u] = "none" THEN UNCHANGED faults ELSE Fault
    /\ Goto(u, "top") /\ Signal(u, "failed")
    /\ UNCHANGED <<control, files, cancelled, begun, daemon, crashes>>

\* As a bug: it has no deadline and ends only when it is cancelled.
SocketTimesOutNever(u) ==
    /\ loop[u] = "socket" /\ sock = None
    /\ cancelled[u]
    /\ Goto(u, "stop")
    /\ UNCHANGED <<control, files, starter, cancelled, begun, daemon, bounds>>

\* ... for at most ten seconds.
SocketTimesOut(u) ==
    /\ loop[u] = "socket" /\ sock = None
    /\ IF proc[u] = "none" THEN UNCHANGED faults ELSE Fault
    /\ Goto(u, "stop")
    /\ UNCHANGED <<control, files, starter, cancelled, begun, daemon, crashes>>

\* tryBringUp, answered by x: it connects with its identity, or registers a new
\* one with the caller's key.
UpSucceeds(u, x) ==
    /\ \/ /\ node[x] \in valid
          /\ state' = node[x]
          /\ UNCHANGED <<control, node>>
       \/ /\ node[x] = None
          /\ \E n \in Nodes :
                /\ FreshNode(n)
                /\ nodeKey' = [nodeKey EXCEPT ![n] = key[u]]
                /\ valid' = valid \cup {n}
                /\ node' = [node EXCEPT ![x] = n]
                /\ state' = n
    /\ up' = [up EXCEPT ![x] = TRUE]

\* The control plane does not accept the identity of x, or the key: one of the
\* errors isStateError knows.
Rejected(x) == \/ node[x] # None /\ node[x] \notin valid /\ UNCHANGED faults
               \/ node[x] = None /\ Fault

\* As a bug: any error counts as a state error.
BringUpWipes(u) ==
    /\ loop[u] = "up"
    /\ \/ /\ Reachable /\ UpSucceeds(u, sock)
          /\ Goto(u, "serve")
          /\ UNCHANGED faults
       \/ /\ IF Reachable THEN Fault \/ Rejected(sock) ELSE UNCHANGED faults
          /\ Goto(u, "wipe")
          /\ UNCHANGED <<control, state, node, up>>
    /\ UNCHANGED <<hash, sock, starter, cancelled, begun, proc, crashes>>

\* The first tryBringUp of bringUp.
BringUp(u) ==
    /\ loop[u] = "up"
    /\ \/ /\ Reachable /\ UpSucceeds(u, sock)
          /\ Goto(u, "serve")
          /\ UNCHANGED faults
       \/ /\ Reachable /\ Rejected(sock)
          /\ Goto(u, "wipe")
          /\ UNCHANGED <<control, state, node, up>>
       \/ /\ IF Reachable THEN Fault ELSE UNCHANGED faults
          /\ Goto(u, "stop")
          /\ UNCHANGED <<control, state, node, up>>
    /\ UNCHANGED <<hash, sock, starter, cancelled, begun, proc, crashes>>

Wipe(u) ==
    /\ loop[u] = "wipe"
    /\ WipeState
    /\ Goto(u, "again")
    /\ UNCHANGED <<control, starter, cancelled, begun, daemon, bounds>>

\* As a bug: the outcome of the second tryBringUp is not looked at.
BringUpAgainBlind(u) ==
    /\ loop[u] = "again"
    /\ Goto(u, "serve")
    /\ UNCHANGED <<control, files, starter, cancelled, begun, daemon, bounds>>

\* The second tryBringUp.
BringUpAgain(u) ==
    /\ loop[u] = "again"
    /\ \/ /\ Reachable /\ UpSucceeds(u, sock)
          /\ Goto(u, "serve")
          /\ UNCHANGED faults
       \/ /\ IF Reachable THEN Fault \/ Rejected(sock) ELSE UNCHANGED faults
          /\ Goto(u, "stop")
          /\ UNCHANGED <<control, state, node, up>>
    /\ UNCHANGED <<hash, sock, starter, cancelled, begun, proc, crashes>>

\* The serve configuration, if there is any.
Serve(u) ==
    /\ loop[u] = "serve"
    /\ \/ /\ Goto(u, "watch") /\ Signal(u, "ip")
          /\ UNCHANGED faults
       \/ /\ IF Reachable THEN Fault ELSE UNCHANGED faults
          /\ Goto(u, "stop") /\ UNCHANGED starter
    /\ UNCHANGED <<control, files, cancelled, begun, daemon, crashes>>

-----------------------------------------------------------------------------
(* The end of a tailscaled *)

\* waitForExit: it has exited, or the supervisor is cancelled.
Watch(u) ==
    /\ loop[u] = "watch"
    /\ \/ cancelled[u] /\ Goto(u, "stop")
       \/ ~cancelled[u] /\ proc[u] = "none" /\ Goto(u, "top")
    /\ UNCHANGED <<control, files, starter, cancelled, begun, daemon, bounds>>

\* Stop: the daemon's context kills the process ...
Kill(u) ==
    /\ loop[u] = "stop"
    /\ proc' = [proc EXCEPT ![u] = "none"]
    /\ node' = [node EXCEPT ![u] = None]
    /\ up' = [up EXCEPT ![u] = FALSE]
    /\ Goto(u, "down")
    /\ UNCHANGED <<control, files, starter, cancelled, begun, bounds>>

\* ... and "tailscale down" is sent.
Down(u) ==
    /\ loop[u] = "down"
    /\ up' = TurnedDown
    /\ Signal(u, "failed")
    /\ Goto(u, "top")
    /\ UNCHANGED <<control, files, cancelled, begun, proc, node, bounds>>

-----------------------------------------------------------------------------
(* tailscaled, the control plane, the plugin *)

\* tailscaled has read its state and listens, on a path where nobody else does.
Listen(u) ==
    /\ proc[u] = "booting"
    /\ IF Reachable
       THEN proc' = [proc EXCEPT ![u] = "none"] /\ UNCHANGED <<sock, node>>
       ELSE /\ proc' = [proc EXCEPT ![u] = "listening"]
            /\ sock' = u
            /\ node' = [node EXCEPT ![u] = state]
    /\ UNCHANGED <<control, state, hash, loop, starter, cancelled, begun, up, bounds>>

\* It dies; its socket stays where it is.
Dies(u) ==
    /\ proc[u] # "none" /\ Fault
    /\ proc' = [proc EXCEPT ![u] = "none"]
    /\ node' = [node EXCEPT ![u] = None]
    /\ up' = [up EXCEPT ![u] = FALSE]
    /\ UNCHANGED <<control, files, loop, starter, cancelled, begun, crashes>>

\* A node's key expires, or an admin removes it.
Expires ==
    /\ Fault
    /\ \E n \in valid : valid' = valid \ {n}
    /\ UNCHANGED <<nodeKey, files, loop, starter, cancelled, begun, daemon, crashes>>

\* The plugin ends, with every process in its container.
Crash ==
    /\ crashes < MaxCrashes /\ crashes' = crashes + 1
    /\ loop' = [u \in Users |-> "off"]
    /\ starter' = [u \in Users |-> "none"]
    /\ cancelled' = [u \in Users |-> FALSE]
    /\ proc' = [u \in Users |-> "none"]
    /\ node' = [u \in Users |-> None]
    /\ up' = [u \in Users |-> FALSE]
    /\ key' = [u \in Users |-> None] /\ unread' = [u \in Users |-> FALSE]
    /\ UNCHANGED <<control, files, faults>>

-----------------------------------------------------------------------------
(* Specification *)

Start(u) == StartGivesUp(u) \/ WaitForIP(u) \/ SaveAuthKeyHash(u)

Attempt(u) == \/ Top(u) \/ Launch(u) \/ SocketThere(u) \/ SocketTimesOut(u) \/ BringUp(u)
              \/ Wipe(u) \/ BringUpAgain(u) \/ Serve(u)
              \/ Watch(u) \/ Kill(u) \/ Down(u)

\* What a supervisor that has begun does, and its tailscaled.
Goes(u) == Start(u) \/ Leave(u) \/ Ends(u) \/ Attempt(u) \/ Listen(u) \/ Dies(u)

Next == \/ \E u \in Users : Begin(u) \/ Goes(u)
        \/ Expires \/ Crash

Spec == Init /\ [][Next]_vars

\* Supervisors that use the directory one after the other: a container begins once
\* the loop of the one before is over, and its StartTailscale.
BeginAlone(u) == (\A v \in Users : ~Busy(v)) /\ Begin(u)

SerialNext == \/ \E u \in Users : BeginAlone(u) \/ Goes(u)
              \/ Expires \/ Crash

SerialSpec == Init /\ [][SerialNext]_vars

\* The loop goes on and tailscaled comes up; nothing makes the loop give up.
FairSpec == SerialSpec /\ \A u \in Users : WF_vars(Attempt(u)) /\ WF_vars(Listen(u))

-----------------------------------------------------------------------------
(* Properties; those up to DirInv, and Reconnects, are of supervisors that    *)
(* use the directory one after the other (SerialSpec).                       *)

\* The socket that Start has waited for is that of the tailscaled it started,
\* whatever earlier ones have left on disk (daemon.go:143-146, 266-278, 320-340).
SocketIsOwn ==
    \A u \in Users : loop[u] = "up" /\ proc[u] # "none" => proc[u] = "listening"

\* Once Start has succeeded and as long as its process lives, it is connected
\* with the identity that is on disk: the next start finds it there
\* (daemon.go:280-285, 344-364).
RunsItsIdentity ==
    \A u \in Users : loop[u] = "watch" /\ proc[u] # "none"
       => up[u] /\ node[u] # None /\ node[u] = state

\* Failures, crashes and restarts do not throw an identity away that the control
\* plane accepts; only a start with another key than the one it was registered with
\* does.  It must lie beside the hash of that key, or none: one torn by a crash or a
\* full disk, and one of an earlier node, have a start with the same key wipe it
\* (endpoint.go:222-227, daemon.go:351-360, state.go:63, 81-86).
IdentityKept ==
    [][state # None /\ state \in valid /\ hash \in {None, nodeKey[state]} /\ state' # state
          => \E u \in Users : Begin(u) /\ key'[u] # nodeKey[state]]_vars

\* The hash that tells the key of the node it lies beside is overwritten, while the
\* node stays, by a start with that key only, or one that could not read it
\* (endpoint.go:222-227, 293-296, state.go:77-78).
HashStaysTrue ==
    [][state # None /\ hash = nodeKey[state] /\ state' = state /\ hash' # hash
          => \E u \in Users : TruncateHash(u) /\ (key[u] = hash \/ unread[u])]_vars

\* Where the process of u, its socket and its identity are at each step of its
\* loop, and whose hash lies on disk ...
InStep(u) ==
    /\ proc[u] # "listening" => node[u] = None /\ ~up[u]
    /\ node[u] # None => nodeKey[node[u]] # None
    /\ loop[u] \in {"off", "top", "ready", "down"} => proc[u] = "none"
    /\ proc[u] = "booting" => loop[u] \in {"socket", "stop"}
    /\ loop[u] = "socket" /\ proc[u] = "booting" => sock = None
    /\ proc[u] = "listening" /\ loop[u] \notin {"again", "stop"} => sock = u
    /\ loop[u] = "wipe" => state \notin valid
    /\ loop[u] = "again" => sock = None
    /\ loop[u] \in {"socket", "up"} /\ proc[u] = "listening" => node[u] = state
    /\ loop[u] \in {"serve", "watch"} /\ proc[u] # "none"
          => up[u] /\ node[u] # None /\ node[u] = state
    /\ Busy(u) => key[u] # None
    /\ starter[u] = "write" => hash \in {None, Torn}
    /\ Busy(u) /\ ~unread[u] /\ state # None /\ hash = nodeKey[state] => hash = key[u]

\* ... is the induction behind the four above (endpoint.go:219-296,
\* daemon.go:135-364).
DirInv ==
    /\ TypeOK
    /\ \A u, v \in Users : Busy(u) /\ Busy(v) => u = v
    /\ state # None => nodeKey[state] # None
    /\ \A u \in Users : InStep(u)

\* The supervisor of u as the driver knows it.
KnownSup(u) ==
    IF loop[u] = "off" THEN IF starter[u] = "none" THEN "none" ELSE "exited"
    ELSE IF cancelled[u] THEN "cancelled" ELSE "live"

KnownResult(u) ==
    IF starter[u] \in {"none", "starting"} THEN "pending"
    ELSE IF starter[u] = "failed" THEN "failed" ELSE "ok"

Contract(u) == INSTANCE SupervisorContract
    WITH sup <- KnownSup(u), result <- KnownResult(u), running <- proc[u] # "none"

\* Whatever fails in an attempt, and whatever other users do to the directory, a
\* supervisor keeps its contract: no tailscaled outlives the loop, Start answers
\* once, and the next user begins with nothing running (daemon.go:160-317,
\* 741-780, supervisor.go:168-274).
KeepsContract ==
    /\ \A u \in Users : Contract(u)!Init
    /\ [][Crash \/ \A u \in Users :
             \/ Contract(u)!Next \/ UNCHANGED Contract(u)!vars
             \/ Begin(u) /\ proc[u] = "none"]_vars

\* A supervisor whose tailscaled was rejected or failed brings one up in the
\* end, unless it is stopped or gives up (daemon.go:344-364).
Reconnects ==
    \A u \in Users : loop[u] \in {"wipe", "stop", "socket"}
       ~> loop[u] \in {"watch", "off"} \/ cancelled[u]

\* "Check if auth key changed - if so, wipe state for fresh registration"
\* (endpoint.go:222): nobody runs on a node registered with another key.
KeyChangeRegisters ==
    \A u \in Users : loop[u] = "watch" /\ proc[u] # "none"
       => nodeKey[node[u]] = key[u]

=============================================================================
