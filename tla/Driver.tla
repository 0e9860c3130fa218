------------------------------- MODULE Driver -------------------------------
(***************************************************************************)
(* The Docker network driver of tslink: the registry of networks and       *)
(* endpoints (pkg/docker/driver.go), the Endpoint objects in it            *)
(* (pkg/core/endpoint.go), the container cache and the event watcher       *)
(* (pkg/docker/events.go), the recovery scans, the crash, the shutdown and *)
(* the restart of the plugin.                                              *)
(*                                                                         *)
(* Every action is one section of the code that no other goroutine can see *)
(* half done: what runs under d.mu, e.mu or the lock of the cache, or one  *)
(* call to the outside.  Docker is the environment: it serialises the      *)
(* calls for one endpoint, not those of different endpoints, and it emits  *)
(* the "network connect" event whenever it likes between CreateEndpoint    *)
(* and Leave.                                                              *)
(***************************************************************************)
EXTENDS Naturals, FiniteSets

CONSTANTS
    Endpoints,        \* Docker's endpoint IDs, each used for one attachment
    Networks,         \* Docker networks that use this driver
    NetworkOf,        \* the network of each endpoint
    None,
    MaxObjects,       \* bound: Endpoint objects one plugin process allocates
    MaxFaults,        \* bound: failures of netlink, Docker or tailscale calls
    MaxCrashes,       \* bound: times the plugin process dies or is shut down
    LossyStream,      \* whether the event stream may break (and lose events)
    Shutdowns,        \* whether the plugin may be told to stop
    Recoverers        \* the scan NewDriver runs once ("initial") and the
                      \* "watchdog" that repeats it every minute

ASSUME EndpointsAssumption == Endpoints # {} /\ None \notin Endpoints
ASSUME NetworksAssumption  == NetworkOf \in [Endpoints -> Networks]
ASSUME BoundsAssumption    == /\ MaxObjects \in Nat /\ MaxFaults \in Nat
                              /\ MaxCrashes \in Nat
                              /\ LossyStream \in BOOLEAN /\ Shutdowns \in BOOLEAN
ASSUME RecoverersAssumption == Recoverers \subseteq {"initial", "watchdog"}

Objects == 1..MaxObjects

\* The three places that run StartTailscale in a goroutine: Join when the cache
\* has the container, the watcher's callback, and the recovery.  An object is
\* given at most one goroutine of each kind, so <<o, k>> names the goroutine
\* and the DaemonSupervisor it creates.
Kinds == {"join", "event", "recover"}

ASSUME NoneAssumption == None \notin Objects /\ None \notin Kinds

VARIABLES
    dockerNets, \* networks Docker knows
    phase,      \* per endpoint: how far Docker's calls have got
    event,      \* per endpoint: the "network connect" event
    links,      \* endpoints whose host-side veth exists in the kernel
    mode,       \* the plugin process
    networks,   \* d.networks
    endpoints,  \* d.endpoints
    dmu,        \* the endpoint whose Leave or DeleteEndpoint holds d.mu
    handler,    \* per endpoint: the object the call in progress works on
    obj,        \* the Endpoint objects
    cache,      \* endpoints with an entry in the ContainerCache
    watcher,    \* the goroutine of WatchEvents
    rec,        \* the recovery goroutines
    start,      \* the goroutines that run StartTailscale
    sup,        \* the supervision loops they started
    toStop,     \* the objects Shutdown still has to stop
    faults,     \* failures used up
    crashes     \* ends of the plugin process used up

dockerVars == <<dockerNets, phase, event, links>>
procVars   == <<mode, toStop, crashes>>
regVars    == <<networks, endpoints, dmu>>
vars == <<dockerVars, procVars, regVars, handler, obj, cache, watcher, rec,
          start, sup, faults>>

-----------------------------------------------------------------------------
(* State *)

\* Docker's calls for one endpoint: CreateEndpoint, Join (with its steps
\* "linking", "storing" and "asking"), Leave, DeleteEndpoint.
Phases == {"absent", "refused", "created", "linking", "storing", "asking",
           "joined", "leaving", "left", "deleting", "deleted"}

\* A Join in progress.
Joining == {"linking", "storing", "asking"}

\* The phases in which ContainerInspect shows the endpoint, and a sandbox key.
\* Docker answers no inspection between Leave and the end of DeleteEndpoint.
Sandboxed == Joining \cup {"joined"}
Attached  == Sandboxed \cup {"created"}

\* The phases in which Docker counts the endpoint among its network's.
InUse == Attached \cup {"leaving", "left", "deleting"}

EndpointRec == [id: Endpoints \cup {None}, key: BOOLEAN, veth: BOOLEAN,
                started: BOOLEAN, sup: Kinds \cup {None}]

NewEndpoint(e) == [id |-> e, key |-> FALSE, veth |-> FALSE,
                   started |-> FALSE, sup |-> None]

Unused == NewEndpoint(None)

WatcherPCs == {"idle", "store", "lookup", "started", "key"}
WatcherRec == [pc: WatcherPCs, e: Endpoints \cup {None}, obj: Objects \cup {None}]
IdleWatcher == [pc |-> "idle", e |-> None, obj |-> None]

RecPCs == {"wait", "scan", "inspect", "network", "insert", "setkey", "publish",
           "done"}
RecoveryRec == [pc: RecPCs, todo: SUBSET Endpoints, e: Endpoints \cup {None},
                obj: Objects \cup {None}]
WaitingRec == [pc |-> "wait", todo |-> {}, e |-> None, obj |-> None]

StartPCs == {"idle", "check", "prepare", "starting", "waitIP", "store",
             "unregister", "failed", "done"}

\* A supervision loop: not there, running, told to stop, over.
SupStates == {"none", "live", "cancelled", "exited"}

\* Nobody dereferences nil: whoever is about to use an object has one.
Pointers ==
    /\ \A e \in Endpoints :
          phase[e] \in Joining \cup {"leaving"} => handler[e] \in Objects
    /\ watcher.pc # "idle" => watcher.e \in Endpoints
    /\ watcher.pc \in {"started", "key"} <=> watcher.obj # None
    /\ \A r \in Recoverers :
          /\ rec[r].pc \notin {"wait", "scan", "done"} => rec[r].e \in Endpoints
          /\ rec[r].pc \in {"setkey", "publish"} <=> rec[r].obj # None
    /\ \A o \in Objects : start[o]["recover"] = "unregister" => obj[o].id # None

Types ==
    /\ dockerNets \subseteq Networks
    /\ phase \in [Endpoints -> Phases]
    /\ event \in [Endpoints -> {"unsent", "queued", "gone"}]
    /\ links \subseteq Endpoints
    /\ mode \in {"up", "stopping", "exited"}
    /\ networks \subseteq Networks
    /\ endpoints \in [Endpoints -> Objects \cup {None}]
    /\ dmu \in Endpoints \cup {None}
    /\ handler \in [Endpoints -> Objects \cup {None}]
    /\ obj \in [Objects -> EndpointRec]
    /\ cache \subseteq Endpoints
    /\ watcher \in WatcherRec
    /\ rec \in [Recoverers -> RecoveryRec]
    /\ start \in [Objects -> [Kinds -> StartPCs]]
    /\ sup \in [Objects -> [Kinds -> SupStates]]
    /\ toStop \subseteq Objects
    /\ faults \in 0..MaxFaults
    /\ crashes \in 0..MaxCrashes

TypeOK == Types /\ Pointers

\* What NewDriver builds, before its goroutines have run.
FreshProcess ==
    /\ networks  = {}
    /\ endpoints = [e \in Endpoints |-> None]
    /\ dmu       = None
    /\ handler   = [e \in Endpoints |-> None]
    /\ obj       = [o \in Objects |-> Unused]
    /\ cache     = {}
    /\ watcher   = IdleWatcher
    /\ rec       = [r \in Recoverers |-> WaitingRec]
    /\ start     = [o \in Objects |-> [k \in Kinds |-> "idle"]]
    /\ sup       = [o \in Objects |-> [k \in Kinds |-> "none"]]
    /\ toStop    = {}

Init ==
    /\ FreshProcess
    /\ mode = "up"
    /\ dockerNets = {}
    /\ phase = [e \in Endpoints |-> "absent"]
    /\ event = [e \in Endpoints |-> "unsent"]
    /\ links = {}
    /\ faults = 0
    /\ crashes = 0

-----------------------------------------------------------------------------
(* Helpers *)

Running == mode # "exited"
Unlocked == Running /\ dmu = None
To(e, p) == phase' = [phase EXCEPT ![e] = p]

\* Something outside the driver fails.
Fault == faults < MaxFaults /\ faults' = faults + 1

\* The next Endpoint object off the heap.
Fresh(o) == /\ obj[o].id = None
            /\ \A p \in Objects : p < o => obj[p].id # None

\* d.wg.Go(func() { endpoint.StartTailscale(info) ... })
Spawn(o, k) == start' = [start EXCEPT ![o][k] = "check"]

\* supervisor.Stop() on whatever supervisor the object holds: cancel its
\* context.  The wait for the loop's end is the caller's next step.
CancelSup(o) ==
    sup' = IF obj[o].sup # None /\ sup[o][obj[o].sup] = "live"
           THEN [sup EXCEPT ![o][obj[o].sup] = "cancelled"]
           ELSE sup

\* The section of Leave and Stop under e.mu: take the supervisor away.
TakeSup(o) == obj' = [obj EXCEPT ![o].sup = None, ![o].started = FALSE]

-----------------------------------------------------------------------------
(* Docker's calls.  "joined", "left", ... say that the call has returned. *)

CreateNetwork(n) ==
    /\ Unlocked
    /\ n \notin dockerNets
    /\ dockerNets' = dockerNets \cup {n}
    /\ networks' = networks \cup {n}
    /\ UNCHANGED <<phase, event, links, procVars, endpoints, dmu, handler, obj,
                   cache, watcher, rec, start, sup, faults>>

\* Docker removes a network only once no endpoint is left on it.
DeleteNetwork(n) ==
    /\ Unlocked
    /\ n \in dockerNets
    /\ \A e \in Endpoints : NetworkOf[e] = n => phase[e] \notin InUse
    /\ dockerNets' = dockerNets \ {n}
    /\ networks' = networks \ {n}
    /\ UNCHANGED <<phase, event, links, procVars, endpoints, dmu, handler, obj,
                   cache, watcher, rec, start, sup, faults>>

\* CreateEndpoint stores the new object whatever is under that ID already.
CreateEndpoint(e) ==
    /\ Unlocked
    /\ phase[e] = "absent"
    /\ NetworkOf[e] \in dockerNets
    /\ \/ /\ NetworkOf[e] \in networks
          /\ \E o \in Objects :
                /\ Fresh(o)
                /\ obj' = [obj EXCEPT ![o] = NewEndpoint(e)]
                /\ endpoints' = [endpoints EXCEPT ![e] = o]
          /\ To(e, "created")
       \/ /\ NetworkOf[e] \notin networks
          /\ To(e, "refused")
          /\ UNCHANGED <<obj, endpoints>>
    /\ UNCHANGED <<dockerNets, event, links, procVars, networks, dmu, handler,
                   cache, watcher, rec, start, sup, faults>>

\* Join reads the registry under RLock and works on the object without it.
JoinLookup(e) ==
    /\ Unlocked
    /\ phase[e] = "created"
    /\ IF endpoints[e] = None
       THEN To(e, "left") /\ UNCHANGED handler
       ELSE To(e, "linking") /\ handler' = [handler EXCEPT ![e] = endpoints[e]]
    /\ UNCHANGED <<dockerNets, event, links, procVars, regVars, obj, cache,
                   watcher, rec, start, sup, faults>>

\* Endpoint.Join, the network operations (module Veth has their steps): a failure
\* after the pair exists deletes it again, if that does not fail as well and the
\* pair could be brought up at all, and fails the call.
JoinNetwork(e) ==
    /\ Running
    /\ phase[e] = "linking"
    /\ \/ /\ links' = links \cup {e}
          /\ To(e, "storing")
          /\ UNCHANGED <<handler, faults>>
       \/ /\ Fault
          /\ links' \in {links, links \cup {e}}
          /\ To(e, "left")
          /\ handler' = [handler EXCEPT ![e] = None]
    /\ UNCHANGED <<dockerNets, event, procVars, regVars, obj, cache, watcher,
                   rec, start, sup>>

\* Endpoint.Join, the results under e.mu.
JoinStore(e) ==
    /\ Running
    /\ phase[e] = "storing"
    /\ obj' = [obj EXCEPT ![handler[e]].key = TRUE, ![handler[e]].veth = TRUE]
    /\ To(e, "asking")
    /\ UNCHANGED <<dockerNets, event, links, procVars, regVars, handler, cache,
                   watcher, rec, start, sup, faults>>

\* As a bug: Join leaves every start to the watcher.
JoinCacheBlind(e) ==
    /\ Running
    /\ phase[e] = "asking"
    /\ handler' = [handler EXCEPT ![e] = None]
    /\ To(e, "joined")
    /\ UNCHANGED <<dockerNets, event, links, procVars, regVars, obj, cache,
                   watcher, rec, start, sup, faults>>

\* Driver.Join asks the cache: start Tailscale now or leave it to the watcher.
JoinCache(e) ==
    /\ Running
    /\ phase[e] = "asking"
    /\ IF e \in cache THEN Spawn(handler[e], "join") ELSE UNCHANGED start
    /\ handler' = [handler EXCEPT ![e] = None]
    /\ To(e, "joined")
    /\ UNCHANGED <<dockerNets, event, links, procVars, regVars, obj, cache,
                   watcher, rec, sup, faults>>

\* As a bug: Leave takes the supervisor away and does not stop it.
LeaveTakeForgets(e) ==
    /\ Unlocked
    /\ phase[e] = "joined"
    /\ IF endpoints[e] = None
       THEN To(e, "left") /\ UNCHANGED <<obj, dmu, handler>>
       ELSE /\ TakeSup(endpoints[e])
            /\ dmu' = e
            /\ handler' = [handler EXCEPT ![e] = endpoints[e]]
            /\ To(e, "leaving")
    /\ UNCHANGED <<dockerNets, event, links, procVars, networks, endpoints,
                   cache, watcher, rec, start, sup, faults>>

\* Leave holds d.mu from here to LeaveCleanup.  The object keeps its sandbox
\* key and its veth name.
LeaveTake(e) ==
    /\ Unlocked
    /\ phase[e] = "joined"
    /\ IF endpoints[e] = None
       THEN To(e, "left") /\ UNCHANGED <<obj, sup, dmu, handler>>
       ELSE /\ TakeSup(endpoints[e])
            /\ CancelSup(endpoints[e])
            /\ dmu' = e
            /\ handler' = [handler EXCEPT ![e] = endpoints[e]]
            /\ To(e, "leaving")
    /\ UNCHANGED <<dockerNets, event, links, procVars, networks, endpoints,
                   cache, watcher, rec, start, faults>>

\* As a bug: Leave takes the endpoint out of the registry as well.
LeaveCleanupUnregisters(e) ==
    /\ Running
    /\ phase[e] = "leaving"
    /\ links' = IF obj[handler[e]].veth THEN links \ {e} ELSE links
    /\ endpoints' = [endpoints EXCEPT ![e] = None]
    /\ dmu' = None
    /\ handler' = [handler EXCEPT ![e] = None]
    /\ To(e, "left")
    /\ UNCHANGED <<dockerNets, event, procVars, networks, obj, cache, watcher,
                   rec, start, sup, faults>>

\* The loop has ended or the ten seconds are over; NAT and veth cleanup, whose
\* failure is only logged; unlock.
LeaveCleanup(e) ==
    /\ Running
    /\ phase[e] = "leaving"
    /\ \/ /\ links' = IF obj[handler[e]].veth THEN links \ {e} ELSE links
          /\ UNCHANGED faults
       \/ obj[handler[e]].veth /\ Fault /\ UNCHANGED links
    /\ dmu' = None
    /\ handler' = [handler EXCEPT ![e] = None]
    /\ To(e, "left")
    /\ UNCHANGED <<dockerNets, event, procVars, networks, endpoints, obj, cache,
                   watcher, rec, start, sup>>

\* DeleteEndpoint drops the cache entry, then holds d.mu across endpoint.Stop.
DeleteTake(e) ==
    /\ Unlocked
    /\ phase[e] \in {"created", "left"}
    /\ cache' = cache \ {e}
    /\ IF endpoints[e] = None
       THEN To(e, "deleted") /\ UNCHANGED <<obj, sup, dmu>>
       ELSE /\ TakeSup(endpoints[e])
            /\ CancelSup(endpoints[e])
            /\ dmu' = e
            /\ To(e, "deleting")
    /\ UNCHANGED <<dockerNets, event, links, procVars, networks, endpoints,
                   handler, watcher, rec, start, faults>>

DeleteRemove(e) ==
    /\ Running
    /\ phase[e] = "deleting"
    /\ endpoints' = [endpoints EXCEPT ![e] = None]
    /\ dmu' = None
    /\ To(e, "deleted")
    /\ UNCHANGED <<dockerNets, event, links, procVars, networks, handler, obj,
                   cache, watcher, rec, start, sup, faults>>

-----------------------------------------------------------------------------
(* Docker on its own *)

ConnectEvent(e) ==
    /\ phase[e] \in Attached
    /\ event[e] = "unsent"
    /\ mode = "up"
    /\ event' = [event EXCEPT ![e] = "queued"]
    /\ UNCHANGED <<dockerNets, phase, links, procVars, regVars, handler, obj,
                   cache, watcher, rec, start, sup, faults>>

\* While the plugin is down Docker tears containers down without its answers.
DockerProceeds(e) ==
    /\ ~Running
    /\ phase[e] \in {"created", "joined", "left"}
    /\ To(e, "deleted")
    /\ UNCHANGED <<dockerNets, event, links, procVars, regVars, handler, obj,
                   cache, watcher, rec, start, sup, faults>>

\* The stream breaks: what was in it and what Docker emits before the watcher
\* has reconnected is lost.
StreamError(e) ==
    /\ LossyStream
    /\ mode = "up"
    /\ event[e] = "queued"
    /\ event' = [event EXCEPT ![e] = "gone"]
    /\ UNCHANGED <<dockerNets, phase, links, procVars, regVars, handler, obj,
                   cache, watcher, rec, start, sup, faults>>

-----------------------------------------------------------------------------
(* WatchEvents and onContainerInfo *)

\* Take a message and inspect its container; without the endpoint in the answer
\* the message is dropped.
WatcherReceive(e) ==
    /\ mode = "up"
    /\ watcher.pc = "idle"
    /\ event[e] = "queued"
    /\ event' = [event EXCEPT ![e] = "gone"]
    /\ \/ /\ phase[e] \in Attached
          /\ watcher' = [watcher EXCEPT !.pc = "store", !.e = e]
          /\ UNCHANGED faults
       \/ /\ IF phase[e] \in Attached THEN Fault ELSE UNCHANGED faults
          /\ UNCHANGED watcher
    /\ UNCHANGED <<dockerNets, phase, links, procVars, regVars, handler, obj,
                   cache, rec, start, sup>>

WatcherStore ==
    /\ Running
    /\ watcher.pc = "store"
    /\ cache' = cache \cup {watcher.e}
    /\ watcher' = [watcher EXCEPT !.pc = "lookup"]
    /\ UNCHANGED <<dockerVars, procVars, regVars, handler, obj, rec, start, sup,
                   faults>>

\* As a bug: the endpoint is used without asking whether it was found.
WatcherLookupBlind ==
    /\ Unlocked
    /\ watcher.pc = "lookup"
    /\ watcher' = [watcher EXCEPT !.pc = "started", !.obj = endpoints[watcher.e]]
    /\ UNCHANGED <<dockerVars, procVars, regVars, handler, obj, cache, rec,
                   start, sup, faults>>

WatcherLookup ==
    /\ Unlocked
    /\ watcher.pc = "lookup"
    /\ watcher' = IF endpoints[watcher.e] = None
                  THEN IdleWatcher
                  ELSE [watcher EXCEPT !.pc = "started",
                                       !.obj = endpoints[watcher.e]]
    /\ UNCHANGED <<dockerVars, procVars, regVars, handler, obj, cache, rec,
                   start, sup, faults>>

WatcherStarted ==
    /\ Running
    /\ watcher.pc = "started"
    /\ watcher' = IF obj[watcher.obj].started
                  THEN IdleWatcher
                  ELSE [watcher EXCEPT !.pc = "key"]
    /\ UNCHANGED <<dockerVars, procVars, regVars, handler, obj, cache, rec,
                   start, sup, faults>>

WatcherKey ==
    /\ Running
    /\ watcher.pc = "key"
    /\ IF obj[watcher.obj].key
       THEN Spawn(watcher.obj, "event")
       ELSE UNCHANGED start
    /\ watcher' = IdleWatcher
    /\ UNCHANGED <<dockerVars, procVars, regVars, handler, obj, cache, rec, sup,
                   faults>>

-----------------------------------------------------------------------------
(* RecoverEndpoints and recoverEndpoint *)

\* On to the next endpoint of the scan.
Scanning(r) == [rec[r] EXCEPT !.pc = "scan", !.e = None, !.obj = None]

\* The first scan runs once; the watchdog waits for its next tick.
Over(r) == IF r = "initial" THEN "done" ELSE "wait"

\* What Docker lists as attached; without an answer the scan is over.
RecoverList(r) ==
    /\ mode = "up"
    /\ rec[r].pc = "wait"
    /\ \/ /\ rec' = [rec EXCEPT ![r] =
                        [Scanning(r) EXCEPT !.todo = {e \in Endpoints : phase[e] \in Attached}]]
          /\ UNCHANGED faults
       \/ /\ Fault
          /\ rec' = [rec EXCEPT ![r].pc = Over(r)]
    /\ UNCHANGED <<dockerVars, procVars, regVars, handler, obj, cache, watcher,
                   start, sup>>

\* As a bug: the watchdog scans only once.
RecoverEndOnce(r) ==
    /\ Running
    /\ rec[r].pc = "scan"
    /\ rec[r].todo = {}
    /\ rec' = [rec EXCEPT ![r].pc = "done"]
    /\ UNCHANGED <<dockerVars, procVars, regVars, handler, obj, cache, watcher,
                   start, sup, faults>>

RecoverEnd(r) ==
    /\ Running
    /\ rec[r].pc = "scan"
    /\ rec[r].todo = {}
    /\ rec' = [rec EXCEPT ![r].pc = Over(r)]
    /\ UNCHANGED <<dockerVars, procVars, regVars, handler, obj, cache, watcher,
                   start, sup, faults>>

\* Is the endpoint registered?  Once the context is cancelled every call to
\* Docker fails and the scan skips what is left.
RecoverExists(r) ==
    /\ Unlocked
    /\ rec[r].pc = "scan"
    /\ \E e \in rec[r].todo :
          LET lost == endpoints[e] = None /\ mode = "up" IN
          rec' = [rec EXCEPT ![r] = [pc   |-> IF lost THEN "inspect" ELSE "scan",
                                     todo |-> rec[r].todo \ {e},
                                     e    |-> IF lost THEN e ELSE None,
                                     obj  |-> None]]
    /\ UNCHANGED <<dockerVars, procVars, regVars, handler, obj, cache, watcher,
                   start, sup, faults>>

RecoverInspect(r) ==
    /\ Running
    /\ rec[r].pc = "inspect"
    /\ LET shown == mode = "up" /\ phase[rec[r].e] \in Sandboxed IN
       \/ /\ shown
          /\ rec' = [rec EXCEPT ![r].pc = "network"]
          /\ UNCHANGED faults
       \/ /\ rec' = [rec EXCEPT ![r] = Scanning(r)]
          /\ IF shown THEN Fault ELSE UNCHANGED faults
    /\ UNCHANGED <<dockerVars, procVars, regVars, handler, obj, cache, watcher,
                   start, sup>>

\* As a bug: the network is left to the next CreateNetwork.
RecoverNetworkForgets(r) ==
    /\ Unlocked
    /\ rec[r].pc = "network"
    /\ rec' = [rec EXCEPT ![r].pc = "insert"]
    /\ UNCHANGED <<dockerVars, procVars, regVars, handler, obj, cache, watcher,
                   start, sup, faults>>

\* The auth key of a lost network comes from its options or from the
\* configuration; with neither the recovery of the endpoint fails.
RecoverNetwork(r) ==
    /\ Unlocked
    /\ rec[r].pc = "network"
    /\ LET n == NetworkOf[rec[r].e] IN
       \/ /\ networks' = networks \cup {n}
          /\ rec' = [rec EXCEPT ![r].pc = "insert"]
          /\ UNCHANGED faults
       \/ /\ n \notin networks
          /\ Fault
          /\ rec' = [rec EXCEPT ![r] = Scanning(r)]
          /\ UNCHANGED networks
    /\ UNCHANGED <<dockerVars, procVars, endpoints, dmu, handler, obj, cache,
                   watcher, start, sup>>

\* As a bug: the registry is not looked at again before the insertion.
RecoverInsertBlind(r) ==
    /\ Unlocked
    /\ rec[r].pc = "insert"
    /\ \E o \in Objects :
          /\ Fresh(o)
          /\ obj' = [obj EXCEPT ![o] = NewEndpoint(rec[r].e)]
          /\ endpoints' = [endpoints EXCEPT ![rec[r].e] = o]
          /\ rec' = [rec EXCEPT ![r].pc = "setkey", ![r].obj = o]
    /\ UNCHANGED <<dockerVars, procVars, networks, dmu, handler, cache, watcher,
                   start, sup, faults>>

\* The object goes in unless somebody else was faster.
RecoverInsert(r) ==
    /\ Unlocked
    /\ rec[r].pc = "insert"
    /\ IF endpoints[rec[r].e] # None
       THEN rec' = [rec EXCEPT ![r] = Scanning(r)] /\ UNCHANGED <<obj, endpoints>>
       ELSE \E o \in Objects :
              /\ Fresh(o)
              /\ obj' = [obj EXCEPT ![o] = NewEndpoint(rec[r].e)]
              /\ endpoints' = [endpoints EXCEPT ![rec[r].e] = o]
              /\ rec' = [rec EXCEPT ![r].pc = "setkey", ![r].obj = o]
    /\ UNCHANGED <<dockerVars, procVars, networks, dmu, handler, cache, watcher,
                   start, sup, faults>>

RecoverSetKey(r) ==
    /\ Running
    /\ rec[r].pc = "setkey"
    /\ obj' = [obj EXCEPT ![rec[r].obj].key = TRUE]
    /\ rec' = [rec EXCEPT ![r].pc = "publish"]
    /\ UNCHANGED <<dockerVars, procVars, regVars, handler, cache, watcher,
                   start, sup, faults>>

\* As a bug: the cache entry is left to start Tailscale.
RecoverPublishQuiet(r) ==
    /\ Running
    /\ rec[r].pc = "publish"
    /\ cache' = cache \cup {rec[r].e}
    /\ rec' = [rec EXCEPT ![r] = Scanning(r)]
    /\ UNCHANGED <<dockerVars, procVars, regVars, handler, obj, watcher, start,
                   sup, faults>>

RecoverPublish(r) ==
    /\ Running
    /\ rec[r].pc = "publish"
    /\ cache' = cache \cup {rec[r].e}
    /\ Spawn(rec[r].obj, "recover")
    /\ rec' = [rec EXCEPT ![r] = Scanning(r)]
    /\ UNCHANGED <<dockerVars, procVars, regVars, handler, obj, watcher, sup,
                   faults>>

-----------------------------------------------------------------------------
(* StartTailscale, run by goroutine <<o, k>> *)

At(o, k, pc) == Running /\ start[o][k] = pc
Go(o, k, pc) == start' = [start EXCEPT ![o][k] = pc]

\* An error ends the goroutine; the recovery's one first takes the endpoint
\* out of the registry.
Fail(o, k) == Go(o, k, IF k = "recover" THEN "unregister" ELSE "failed")

StartCheck(o, k) ==
    /\ At(o, k, "check")
    /\ \/ /\ obj[o].started \/ obj[o].sup # None
          /\ Go(o, k, "done")
       \/ /\ ~obj[o].started /\ obj[o].sup = None
          /\ IF obj[o].key THEN Go(o, k, "prepare") ELSE Fail(o, k)
    /\ UNCHANGED <<dockerVars, procVars, regVars, handler, obj, cache, watcher,
                   rec, sup, faults>>

\* As a bug: the object has the supervisor before Start has returned.
StartLaunchStores(o, k) ==
    /\ At(o, k, "prepare")
    /\ Go(o, k, "starting")
    /\ sup' = [sup EXCEPT ![o][k] = "live"]
    /\ obj' = [obj EXCEPT ![o].sup = k]
    /\ UNCHANGED <<dockerVars, procVars, regVars, handler, cache, watcher, rec,
                   faults>>

\* Wipe stale state, validate, download the binaries; then a new supervisor
\* whose loop runs from here on.
StartLaunch(o, k) ==
    /\ At(o, k, "prepare")
    /\ \/ /\ Go(o, k, "starting")
          /\ sup' = [sup EXCEPT ![o][k] = "live"]
          /\ UNCHANGED faults
       \/ Fault /\ Fail(o, k) /\ UNCHANGED sup
    /\ UNCHANGED <<dockerVars, procVars, regVars, handler, obj, cache, watcher,
                   rec>>

\* supervisor.Start returns.  On an error the loop goes on retrying (a daemon
\* that did not start), has ended (no network namespace), or was told to end
\* (ninety seconds are over); the goroutine forgets the supervisor.
StartUp(o, k) ==
    /\ At(o, k, "starting")
    /\ \/ /\ Go(o, k, "waitIP")
          /\ UNCHANGED <<sup, faults>>
       \/ /\ Fault
          /\ Fail(o, k)
          /\ \E s \in {"live", "cancelled", "exited"} :
                sup' = [sup EXCEPT ![o][k] = s]
    /\ UNCHANGED <<dockerVars, procVars, regVars, handler, obj, cache, watcher,
                   rec>>

\* supervisor.WaitForIP returns; without an IP the supervisor is stopped.
StartWaitIP(o, k) ==
    /\ At(o, k, "waitIP")
    /\ \/ /\ sup[o][k] = "live"
          /\ Go(o, k, "store")
          /\ UNCHANGED <<sup, faults>>
       \/ /\ Fail(o, k)
          /\ IF sup[o][k] = "live"
             THEN Fault /\ sup' = [sup EXCEPT ![o][k] = "cancelled"]
             ELSE UNCHANGED <<sup, faults>>
    /\ UNCHANGED <<dockerVars, procVars, regVars, handler, obj, cache, watcher,
                   rec>>

\* As a bug: no second look at tailscaleStarted before the results are stored.
StartStoreBlind(o, k) ==
    /\ At(o, k, "store")
    /\ obj' = [obj EXCEPT ![o].sup = k, ![o].started = TRUE]
    /\ Go(o, k, "done")
    /\ UNCHANGED <<dockerVars, procVars, regVars, handler, cache, watcher, rec,
                   sup, faults>>

StartStore(o, k) ==
    /\ At(o, k, "store")
    /\ IF obj[o].started
       THEN /\ sup' = [sup EXCEPT ![o][k] = IF @ = "live" THEN "cancelled" ELSE @]
            /\ UNCHANGED obj
       ELSE /\ obj' = [obj EXCEPT ![o].sup = k, ![o].started = TRUE]
            /\ UNCHANGED sup
    /\ Go(o, k, "done")
    /\ UNCHANGED <<dockerVars, procVars, regVars, handler, cache, watcher, rec,
                   faults>>

\* The recovery's goroutine removes the endpoint whose start failed.
StartUnregister(o) ==
    /\ Unlocked
    /\ start[o]["recover"] = "unregister"
    /\ endpoints' = [endpoints EXCEPT ![obj[o].id] = None]
    /\ Go(o, "recover", "failed")
    /\ UNCHANGED <<dockerVars, procVars, networks, dmu, handler, obj, cache,
                   watcher, rec, sup, faults>>

StartStep(o, k) ==
    \/ StartCheck(o, k) \/ StartLaunch(o, k) \/ StartUp(o, k)
    \/ StartWaitIP(o, k) \/ StartStore(o, k)
    \/ k = "recover" /\ StartUnregister(o)

-----------------------------------------------------------------------------
(* The supervision loops, as far as the driver sees them *)

\* The loop obeys its cancelled context.
SupStops(o, k) ==
    /\ Running
    /\ sup[o][k] = "cancelled"
    /\ sup' = [sup EXCEPT ![o][k] = "exited"]
    /\ UNCHANGED <<dockerVars, procVars, regVars, handler, obj, cache, watcher,
                   rec, start, faults>>

\* The loop ends by itself: the namespace is gone, or a crash loop.
SupGivesUp(o, k) ==
    /\ Running
    /\ sup[o][k] = "live"
    /\ start[o][k] # "starting"
    /\ IF phase[obj[o].id] \in {"left", "deleting", "deleted"}
       THEN UNCHANGED faults
       ELSE Fault
    /\ sup' = [sup EXCEPT ![o][k] = "exited"]
    /\ UNCHANGED <<dockerVars, procVars, regVars, handler, obj, cache, watcher,
                   rec, start>>

-----------------------------------------------------------------------------
(* The end of the plugin process and its next life *)

\* Everything in memory is lost, and the tailscaled processes die with the
\* plugin's container.  Docker sees the calls in progress fail: a container
\* whose Join failed does not start, Leave and DeleteEndpoint are not repeated.
\* The events of what was created before find nobody listening.
ProcessEnds ==
    /\ crashes < MaxCrashes
    /\ crashes' = crashes + 1
    /\ mode' = "exited"
    /\ networks'  = {}
    /\ endpoints' = [e \in Endpoints |-> None]
    /\ dmu'       = None
    /\ handler'   = [e \in Endpoints |-> None]
    /\ obj'       = [o \in Objects |-> Unused]
    /\ cache'     = {}
    /\ watcher'   = IdleWatcher
    /\ rec'       = [r \in Recoverers |-> WaitingRec]
    /\ start'     = [o \in Objects |-> [k \in Kinds |-> "idle"]]
    /\ sup'       = [o \in Objects |-> [k \in Kinds |-> "none"]]
    /\ toStop'    = {}
    /\ phase' = [e \in Endpoints |->
                    CASE phase[e] \in Joining \cup {"leaving"} -> "left"
                      [] phase[e] = "deleting" -> "deleted"
                      [] OTHER -> phase[e]]
    /\ event' = [e \in Endpoints |->
                    IF phase[e] \in {"absent", "refused"} THEN event[e] ELSE "gone"]
    /\ UNCHANGED <<dockerNets, links, faults>>

\* Once a shutdown only waits, a crash is no different from its end.
Crash == Running /\ ~(mode = "stopping" /\ toStop = {}) /\ ProcessEnds

Restart ==
    /\ mode = "exited"
    /\ mode' = "up"
    /\ UNCHANGED <<dockerVars, toStop, crashes, regVars, handler, obj, cache,
                   watcher, rec, start, sup, faults>>

\* Driver.Shutdown: cancel the context and list the registered endpoints.
ShutdownBegin ==
    /\ Shutdowns
    /\ mode = "up" /\ dmu = None
    /\ crashes < MaxCrashes
    /\ mode' = "stopping"
    /\ toStop' = {endpoints[e] : e \in Endpoints} \ {None}
    /\ UNCHANGED <<dockerVars, crashes, regVars, handler, obj, cache, watcher,
                   rec, start, sup, faults>>

\* As a bug: the endpoint is marked stopped and its supervisor forgotten.
ShutdownStopForgets(o) ==
    /\ mode = "stopping"
    /\ o \in toStop
    /\ TakeSup(o)
    /\ toStop' = toStop \ {o}
    /\ UNCHANGED <<dockerVars, mode, crashes, regVars, handler, cache, watcher,
                   rec, start, sup, faults>>

ShutdownStop(o) ==
    /\ mode = "stopping"
    /\ o \in toStop
    /\ TakeSup(o)
    /\ CancelSup(o)
    /\ toStop' = toStop \ {o}
    /\ UNCHANGED <<dockerVars, mode, crashes, regVars, handler, cache, watcher,
                   rec, start, faults>>

\* Nothing that d.wg counts is running.
Quiet ==
    /\ watcher.pc = "idle"
    /\ \A r \in Recoverers : rec[r].pc \in {"wait", "done"}
    /\ \A o \in Objects, k \in Kinds : start[o][k] \in {"idle", "failed", "done"}

ShutdownDone == mode = "stopping" /\ toStop = {} /\ Quiet /\ ProcessEnds

\* The thirty seconds of main are over.
ShutdownTimesOut == mode = "stopping" /\ toStop = {} /\ ~Quiet /\ ProcessEnds

-----------------------------------------------------------------------------
(* Specification *)

CallStep(e) == \/ JoinNetwork(e) \/ JoinStore(e) \/ JoinCache(e)
               \/ LeaveCleanup(e) \/ DeleteRemove(e)

WatcherStep == WatcherStore \/ WatcherLookup \/ WatcherStarted \/ WatcherKey

RecoverStep(r) == \/ RecoverList(r) \/ RecoverEnd(r) \/ RecoverExists(r)
                  \/ RecoverInspect(r) \/ RecoverNetwork(r) \/ RecoverInsert(r)
                  \/ RecoverSetKey(r) \/ RecoverPublish(r)

Next ==
    \/ \E n \in Networks : CreateNetwork(n) \/ DeleteNetwork(n)
    \/ \E e \in Endpoints :
          \/ CreateEndpoint(e) \/ JoinLookup(e) \/ LeaveTake(e) \/ DeleteTake(e)
          \/ CallStep(e)
          \/ ConnectEvent(e) \/ DockerProceeds(e) \/ StreamError(e)
          \/ WatcherReceive(e)
    \/ WatcherStep
    \/ \E r \in Recoverers : RecoverStep(r)
    \/ \E o \in Objects, k \in Kinds :
          StartStep(o, k) \/ SupStops(o, k) \/ SupGivesUp(o, k)
    \/ Crash \/ Restart
    \/ ShutdownBegin \/ ShutdownDone \/ ShutdownTimesOut
    \/ \E o \in Objects : ShutdownStop(o)

Spec == Init /\ [][Next]_vars

\* The goroutines of the plugin run on, Docker delivers its events, and a loop
\* whose context is cancelled ends.  Nothing obliges Docker to make a call or
\* the plugin to be restarted.
Fairness ==
    /\ \A e \in Endpoints : /\ WF_vars(CallStep(e))
                            /\ WF_vars(ConnectEvent(e))
                            /\ WF_vars(WatcherReceive(e))
    /\ WF_vars(WatcherStep)
    /\ \A r \in Recoverers : WF_vars(RecoverStep(r))
    /\ \A o \in Objects, k \in Kinds :
          WF_vars(StartStep(o, k)) /\ WF_vars(SupStops(o, k))

FairSpec == Spec /\ Fairness

-----------------------------------------------------------------------------
(* Properties *)

\* Once StartTailscale has returned without an error, the supervisor it started
\* belongs to the object, or somebody has told it to stop: Leave, Stop and the
\* loser of two racing starts never drop a running supervisor, and an object
\* never holds a supervisor that was told to stop (endpoint.go:299-318 against
\* 355-369 and 390-402).
SupervisorOwnership ==
    \A o \in Objects :
       /\ obj[o].started <=> obj[o].sup # None
       /\ \A k \in Kinds :
             /\ sup[o][k] = "live" /\ start[o][k] = "done" => obj[o].sup = k
             /\ obj[o].sup = k => /\ start[o][k] = "done"
                                  /\ sup[o][k] \in {"live", "exited"}

\* As long as Docker knows the endpoint, a running supervisor whose start
\* succeeded is the one its registered object holds: Leave, DeleteEndpoint and
\* Shutdown, which all go through the registry, reach it, and no container ever
\* keeps two, whoever started them and however many objects the endpoint has had
\* (driver.go:243-290, 397-409, 582-620, endpoint.go:298-318).
SupervisorReachable ==
    \A o \in Objects, k \in Kinds :
       /\ sup[o][k] = "live" /\ start[o][k] = "done"
       /\ phase[obj[o].id] # "deleted"
       => endpoints[obj[o].id] = o /\ obj[o].sup = k

\* Leave and DeleteEndpoint tell every supervisor of the endpoint to stop whose
\* start is over and succeeded; what runs on belongs to a start that was under
\* way or that has failed (endpoint.go:354-369, 390-402).
LeaveStopsStarted ==
    [][\A e \in Endpoints : LeaveTake(e) \/ DeleteTake(e) =>
          \A o \in Objects, k \in Kinds :
             obj[o].id = e /\ start[o][k] = "done" => sup'[o][k] # "live"]_vars

\* Two halves of a handshake that no lock covers: Join stores the key and then
\* reads the cache, the watcher stores in the cache and then reads the key.
\* Whichever is second starts Tailscale: a joined, registered endpoint whose
\* container is in the cache and that the watcher or a recovery is not just
\* working on has had a start (driver.go:109-146, 314-327, events.go:177-181).
NoLostWakeup ==
    \A e \in Endpoints :
       /\ phase[e] = "joined" /\ e \in cache /\ endpoints[e] # None
       /\ watcher.e # e
       /\ \A r \in Recoverers : rec[r].e # e
       => \E k \in Kinds : start[endpoints[e]][k] # "idle"

\* CreateEndpoint stores without looking and two recoveries may have decided to
\* add the same endpoint, yet no step puts one object over another: the loser
\* would keep a supervisor nobody can reach (driver.go:243, 590-595).
RegistrationNeverOverwritten ==
    [][\A e \in Endpoints :
          endpoints[e] # None /\ endpoints'[e] # None
             => endpoints'[e] = endpoints[e]]_vars

\* The goroutine of a recovery takes out of the registry, by ID and minutes after
\* it began, whatever is there: until DeleteEndpoint frees the ID for a scan that
\* is late, it is neither the object of another goroutine nor one that another
\* goroutine has started (driver.go:588-596, 613-620).
UnregistersOnlyFailed ==
    [][\A o \in Objects : StartUnregister(o) =>
          /\ phase[obj[o].id] # "deleted" => endpoints[obj[o].id] \in {o, None}
          /\ \A k \in Kinds \ {"recover"} : start[o][k] = "idle"]_vars

\* Networks come back after a restart with the first endpoint that is recovered on
\* them: one that has an endpoint Docker counts and the registry knows is
\* registered, so a new container is refused only on a network that is idle since
\* the restart (driver.go:227-231, 547-568).
NetworkRegistered ==
    \A e \in Endpoints :
       endpoints[e] # None /\ phase[e] \in InUse => NetworkOf[e] \in networks

\* The induction behind SupervisorOwnership and RegistrationNeverOverwritten.
\* Every pointer is to the right, allocated object ...
Registry ==
    /\ \A e \in Endpoints :
          /\ endpoints[e] # None => /\ obj[endpoints[e]].id = e
                                    /\ phase[e] # "absent"
          /\ handler[e] # None => obj[handler[e]].id = e
    /\ watcher.obj # None => obj[watcher.obj].id = watcher.e
    /\ \A r \in Recoverers :
          /\ rec[r].obj # None => obj[rec[r].obj].id = rec[r].e
          /\ rec[r].e # None => phase[rec[r].e] # "absent"
          /\ \A e \in rec[r].todo : phase[e] # "absent"
    /\ \A o \in toStop : obj[o].id # None

\* ... which is given at most one goroutine of each kind ...
FreshIdle ==
    \A o \in Objects : obj[o].id = None => \A k \in Kinds : start[o][k] = "idle"

JoinOnce ==
    \A o \in Objects :
       start[o]["join"] # "idle" =>
          phase[obj[o].id] \in {"joined", "leaving", "left", "deleting", "deleted"}

EventOnce ==
    /\ watcher.e # None => event[watcher.e] = "gone"
    /\ \A o \in Objects :
          start[o]["event"] # "idle" =>
             event[obj[o].id] = "gone" /\ watcher.e # obj[o].id

RecoverOnce ==
    \A r \in Recoverers :
       rec[r].obj # None =>
          /\ start[rec[r].obj]["recover"] = "idle"
          /\ \A q \in Recoverers : q # r => rec[q].obj # rec[r].obj

\* ... so that a goroutine that is on its way alone holds its supervisor.
StartHolds ==
    \A o \in Objects, k \in Kinds :
       /\ start[o][k] \in {"idle", "check", "prepare"} => sup[o][k] = "none"
       /\ start[o][k] = "starting" => sup[o][k] = "live"
       /\ start[o][k] \in {"waitIP", "store"} => sup[o][k] \in {"live", "exited"}

OwnershipInv ==
    /\ TypeOK /\ Registry
    /\ FreshIdle /\ JoinOnce /\ EventOnce /\ RecoverOnce
    /\ StartHolds /\ SupervisorOwnership

\* A container that stays on its network gets Tailscale, through Join, the
\* watcher or a recovery, unless the plugin stops or something fails first.
EventuallyConnected ==
    \A e \in Endpoints :
       (phase[e] = "joined" /\ mode = "up" /\ faults = 0)
         ~> \/ phase[e] # "joined"
            \/ mode # "up" \/ faults > 0
            \/ endpoints[e] # None /\ obj[endpoints[e]].started

\* A container the plugin has lost in a restart gets Tailscale back, however
\* often an attempt to recover it fails, while it stays on its network and the
\* plugin runs: the failed attempt leaves the endpoint to the next scan
\* (driver.go:427-451, 613-620).
OrphansReconnected ==
    \A e \in Endpoints :
       (phase[e] = "joined" /\ mode = "up" /\ endpoints[e] = None)
         ~> \/ phase[e] # "joined"
            \/ mode # "up"
            \/ endpoints[e] # None /\ obj[endpoints[e]].started

=============================================================================
