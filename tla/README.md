# tslink in TLA+

tslink is a Docker network plugin: it gives every container on one of its
networks a `tailscaled` of its own. This directory holds the specifications of
its concurrent core, the TLC configurations that check them on small instances,
and the proofs that TLAPS checks for every instance.

    tlc -workers 2 -config driver_calls.cfg MCDriver     # any .cfg, see "Runs"
    tlapm DriverProofs.tla                               # and the other *Proofs

## The system

| component | source | state | operations | modelled in |
|---|---|---|---|---|
| network driver | `pkg/docker/driver.go` | `networks`, `endpoints` under `d.mu`; a wait group; a context | Docker's calls: Create/DeleteNetwork, Create/DeleteEndpoint, Join, Leave; `onContainerInfo` | `Driver` |
| event watcher and cache | `pkg/docker/events.go` | `ContainerCache` under its own lock; the event stream | receive, inspect, store, callback; reconnect | `Driver` |
| recovery, watchdog | `pkg/docker/driver.go:427-624` | a scan in progress | list, inspect, re-create network and endpoint, start | `Driver` |
| shutdown | `driver.go:383-425`, `cmd/tslink/main.go` | the snapshot of endpoints | cancel, stop each, wait at most 30 s | `Driver` |
| endpoint | `pkg/core/endpoint.go` | sandbox key, veth name, `tailscaleStarted`, `supervisor` under `e.mu` | Join, StartTailscale, Leave, Stop | `Driver`, the networking of Join and Leave in `Veth` |
| supervisor | `pkg/tailscale/supervisor.go` | loop, status, crash times, backoff, `startupDone` | Start, Stop, the supervision loop | `Supervisor`, `SupervisorContract` |
| daemon | `pkg/tailscale/daemon.go` | the process, socket, pipes; the serve configuration | Start, Stop, IsRunning, WaitForIP, the serve commands | `StateDir` (its steps), `Supervisor` (its life and timing), `Serve` (what it serves) |
| state directory | `pkg/tailscale/state.go` | state file, hash of the auth key | exists, wipe, save and compare hash | `StateDir` |
| binary cache | `pkg/tailscale/binary.go` | downloaded files, cached version | ensure, download, extract | `BinaryCache` |
| netutil | `pkg/netutil/veth.go` | `chainInitialized` under `chainMu`; in the kernel links, addresses, iptables rules | create, move, configure, delete; set up and clear NAT | `Veth` |
| labels | `events.go:187-305` | none | parsing | `Serve`: those that decide what is served |
| options, config | `pkg/core/config.go`, `network.go` | none | parsing | no |
| diagnostics, logger | `pkg/diag`, `pkg/logger`, `scripts` | none | printing | no: they change nothing |

**How they interact.** Docker calls the driver over a socket, for different
endpoints concurrently. Join sets up the veth and asks the cache whether the
container's labels are known; if not, the watcher will call back when the
"network connect" event arrives. Both, and the recovery, start
`Endpoint.StartTailscale` in goroutines that run for up to minutes without a
lock. StartTailscale makes a supervisor, waits for its first start and an IP,
and only then stores it in the endpoint. Leave and DeleteEndpoint take it out
again and stop it. On its way StartTailscale compares the auth key with the hash in
the hostname's state directory, gets the binaries from a cache on disk that all
starts share, and saves the hash when `tailscaled` is connected. Between connecting and
that, `tailscale serve` is given one command for each label. After a restart nothing is left in memory; two scans compare
Docker's containers with the registry and recover what is missing.

**What is hard about it.** Registry, endpoint and cache have a lock each, and no
operation holds two of them over a decision; a start outlives the call that
began it; events come late, once, or not at all; the plugin can die between any
two steps while Docker goes on; the supervisor's loop looks at its context only
at some of its steps. The `hazards` of `PROJECT.json` list these places, with
the properties that watch them.

**What makes each part correct.** The driver: every container that stays gets
Tailscale, no object hides another, no supervisor is dropped running. The
endpoint: at most one supervisor is kept, and one that is kept was not stopped.
The supervisor: one `tailscaled` at a time, none left behind, crashes answered
by restarts or by giving up for a stated reason, and an end after Stop. The state
directory: an identity the control plane accepts outlives failures, crashes and
restarts, and goes when the auth key changes, as far as the saved hash tells. The binary cache: nobody runs from
half a directory or has it changed under its feet, and all containers of one life
of the plugin run one version. The network: a container that has joined is connected,
the host's rules are there once and before they are needed, and what a Join has made
is taken back when it fails and on Leave. Serving: a `tailscaled` that counts as
running serves what its container's labels say, and no container adds what its labels do
not ask for.

## Modules

- `Driver` - registry, endpoints, cache, watcher, recoveries, crash, shutdown.
- `DriverDocs` - what the repository says of them and the code does not do.
- `MCDriver` - instances for TLC.
- `DriverProofs` - the theorems about who owns which supervisor in `Driver`.
- `DriverHandoverProofs` - those about Join, watcher and recoveries handing a
  container to each other, and about which supervisors Docker's calls can reach;
  extends `DriverProofs`.
- `DriverContract`, `MCContract`, `DriverContractProofs` - `Driver` as a user of
  `SupervisorContract`.
- `SupervisorContract` - what a supervisor promises to its users.
- `Supervisor` - one supervisor with its loop, process, starter and stopper.
- `SupervisorDocs`, `MCSupervisor`, `SupervisorProofs` - as above.
- `StateDir`, `StateDirProofs` - one hostname's state directory and the
  `tailscaled`s started on it.
- `BinaryCache`, `BinaryCacheProofs` - EnsureBinaries with concurrent callers.
- `Veth`, `MCVeth`, `VethProofs` - how containers are wired to the host.
- `Serve`, `MCServe`, `ServeProofs` - from labels to what is served.

`Driver` uses the supervisor through its contract: `DriverContract` says so, and
`Supervisor` implements it. `StateDir`, `BinaryCache` and
`Serve` take apart what is one step of `Driver` (`StartLaunch`, `StartWaitIP`) or of
`Supervisor` (an attempt), and `Veth` what are its `JoinNetwork` and `LeaveCleanup`.
They share no state with each other but the state directory, whose wipe `Serve` has as
a choice of its `Check` and `Launch`; so they are modelled side by side.

### Driver

An action is a stretch of code that no other goroutine can see half done: what
runs under one lock, or one call to the outside. A Join is therefore `JoinLookup`
(under `d.mu`), `JoinNetwork` (netlink), `JoinStore` (under `e.mu`) and
`JoinCache` (the cache's lock); StartTailscale is `StartCheck`, `StartLaunch`,
`StartUp`, `StartWaitIP` and `StartStore`. Leave and DeleteEndpoint hold `d.mu`
over the stop of the supervisor: `dmu` names the endpoint whose call holds it,
and `Unlocked` guards whatever needs the lock.

State: `endpoints` maps endpoint IDs to objects `1..MaxObjects`, so that a stale
pointer (in `handler`, `watcher`, `rec`, `toStop`, `start`) can be told from
the registered object. `start[o][k]` and `sup[o][k]` are the goroutine of kind
`k` ("join", "event", "recover") for object `o` and its supervisor. `phase` is
how far Docker has got with the endpoint, `event` its connect event, `links` the
host-side veths in the kernel, one of which a Join that fails may leave behind.

What is assumed of Docker (external definitions in the map): it makes the calls
for one endpoint one after the other, and calls for different endpoints
concurrently; an endpoint ID is used once; the connect event of an endpoint is
emitted at most once, between CreateEndpoint and Leave, and events from before a
restart of the plugin are not replayed; an inspection does not show an endpoint
between Leave and the end of DeleteEndpoint; while the plugin is down, Docker
gets errors and goes on. `tailscaled` processes end with the plugin, in whose
container they run.

Failures: `Fault` consumes one of `MaxFaults` wherever netlink, Docker, the
download, the first start or the wait for an IP can fail. A crash or the end of
a shutdown (`ProcessEnds`) loses all memory.

### Supervisor

Time is counted in units of 100 ms with the code's own constants. It passes in
the loop's waits only: a backoff, an attempt to start (a member of
`StartDurations`), a tick of the health check. `ages` holds the ages of the last
five crashes, capped at the window, which is all `isCrashLoop` can see of
`crashTimes`. `NextBackoff` is the 64-bit shift of the code, negative results
included. The timeouts of Start (90 s) and Stop (10 s) can run out whenever the
loop is in a call that does not look at its context. `MaxAttempt` = 64 caps the
attempt counter: from there on the shift is always zero.

`SupervisorContract` has the supervisor states `Driver` uses (`none`, `live`,
`cancelled`, `exited`): `Driver`'s `StartUp`, `SupStops` and `SupGivesUp` are the
steps the contract allows. `Supervisor` implements it under the mapping
`KnownSup`, `KnownResult`: until Start has returned its caller knows only that
the loop has begun.

`DriverContract` closes the gap between the two. Beside `Driver`'s variables it keeps
`answered`, what Start has returned to each caller, a history variable that no action
reads, and instantiates the contract once for each goroutine (`Loop(o, k)`).
`GoesByContract` says that every step of the driver is, for each of its supervisors,
a step of the contract or nothing: Stop is called only after Start has answered,
nothing is started twice, a loop does not end by itself before its first answer.
The end of the plugin, which takes all supervisors with it, is excepted.
`tailscaled` is hidden in `Driver`, so `running` is FALSE there.

### StateDir

The files of a hostname's directory (`state`: whose identity tailscaled.state
holds, `hash`: of which key authkey.sha256 is, `sock`: whose tailscaled made the
socket) outlive the plugin; what a user, that is a supervisor with its
StartTailscale, and its `tailscaled` have in memory does not. `loop` is the next
step of the supervision loop (`Top`, `Ends`) and in it of Daemon.Start or Stop: `Launch` (NewDaemon removes the old socket, then the
process is started), `SocketThere` or `SocketTimesOut`, `BringUp`, `Wipe` and
`BringUpAgain` (the retry of bringUp), `Serve`, `Watch`, `Kill`, `Down`. `starter`
is the next step of StartTailscale: `Begin` has the check of the key, then
`WaitForIP` and `SaveAuthKeyHash`; it goes on by itself when the loop has ended.

os.WriteFile is two steps (`TruncateHash`, `WriteHash`): the plugin can end between
them, and either can fail. What they leave then is `Torn`, empty or cut short, which
CheckAuthKeyMatch takes for the hash of another key. A hash that cannot be read counts
as a match (`Begin`, at the cost of a failure); `unread` is the history of that, which
no action reads. Removing a file is assumed not to fail: NewDaemon and WipeState only
log it. Of users that overlap, two that write the hash at once are taken to write to
one file, though it may have been removed between their opening it.

What is assumed of `tailscaled` and the control plane: it reads the state file when
it starts and listens afterwards, unless another one listens on the path; `up` with
an accepted identity connects and ignores the key, without an identity it registers
a new node with the key; an identity that is not accepted any more gives one of the
errors isStateError knows. The plugin's container takes all processes with it.
`Nodes` are identities; one that is neither on disk nor in memory may come again.

`Spec` lets users overlap, for nothing in the code keeps the users of one hostname
apart; see "Other behaviour". The properties are about users one after the other
(`SerialSpec`): containers that replace each other, each beginning when the loop of the
one before is over, and its StartTailscale, which may still be saving a hash
(`BeginAlone`), with whatever that one has left on disk. `KeepsContract` holds in
both: seen through `KnownSup` and `KnownResult`, each user is a `SupervisorContract`.

### BinaryCache

`pc` is the next step of the holder of binaryMu: resolve "latest" (`Fetch`), look at
the two files (`Look`), request the archive, open and truncate the next binary
(`Open`), write it (`Copy`), the end of the archive, the cleaning after an error. A
file is absent, truncated or whole; `Exists` cannot tell the last two apart, as
fileExists cannot. `session` stands for cachedVersion and cachedBinDir, which are
only ever assigned together. `upstream` is the newest release, which may change.

### Veth

An action is one netlink or iptables call, the unit in which the kernel changes. `pc`
is an endpoint's next step in Join (the pair: `CreatePair` to `GuestRouting`, with
`Undo` for the DeleteVeth after an error; SetupNAT: `EnterNAT` to `AddOut`; then
`Store`) or in Leave (`DropIn`, `DropOut`, `Unlink`). Joins run at once, for d.mu is
not held while they do; Leaves hold it (`Unlocked`). `init` and `mu` are
chainInitialized and chainMu, held from `EnterNAT` to the end of initializeChain and
nowhere else. `pair`, `conf`, `inRules`, `outRules`, `chain`, `jump` and `masq` are
the kernel's, and outlive the plugin; `known`, `init` and `mu` do not.

Assumed of the kernel and of Docker: deleting one end of a pair deletes the other,
with its addresses and routes, and so does the end of the namespace it is in; `-I`
and `-A` into a chain that is not there, or a jump to it, fail; a call that fails has
changed nothing (but LinkAdd in CreateVethPair, after which bringing the pair up may
fail); the first eight characters of endpoint IDs differ, so no veth has another's
name; an endpoint joins once. A namespace is found at the path Docker gave (`box` =
"given") or only at the other one that MoveToNetNS tries. Addresses are numbers in
10.200.0.0/16, with the code's 16-bit arithmetic (`Base`).

### Serve

One container with the hostname at a time. `serve` maps what follows `tslink.serve.`
to the value of the label, split up as parseServeValue does; `endpoints` is one of the
sequences into which the map's random order can put what is known of them. `pc` runs
through StartTailscale's checks (`Check`, `CheckVersionForServices`), Daemon.Start
(`Launch` has the socket and `tailscale up`, which are in `StateDir`) and its two
loops (`direct`, `service`, with `at` as their index); "again" is the supervisor's
backoff, "over" its end. `Command` is one `tailscale serve`: it may fail before or
after its effect. `served` is what the state directory keeps of the commands.
`Wants` says what labels mean without going through the parser: it is the reference
that `ServesLabels` and `OnlyAsked` measure the code by. It follows the comments of
`events.go` where specs/02 and specs/04 say otherwise: labels count without
`tslink.service`, and one with an unknown protocol counts for nothing. `inherited` is the
history of what a container has found served when it came, less what was wiped since.

Assumed of `tailscale serve --bg`: a command replaces what is served on that port
with another protocol or with the same path, and it may refuse a port that has another
protocol; the configuration is kept until the state is wiped; a version from
before Services knows no `--service`.

## Runs

| run | instance | shows |
|---|---|---|
| `driver_calls` | 2 endpoints, 2 objects, lossy stream, no failures, symmetric endpoints | `TypeOK` and `LeaveStopsStarted` for concurrent containers |
| `driver_recovery` | 1 endpoint, 3 objects, 1 failure, 2 ends, shutdowns, lossy stream, both scans | `SupervisorOwnership`, `SupervisorReachable`, `NoLostWakeup`, `NetworkRegistered`, `RegistrationNeverOverwritten`, `UnregistersOnlyFailed`, `GoesByContract` |
| `driver_connects` | 1 endpoint, 4 objects, 2 failures, 1 end, shutdowns, watchdog, fair | `EventuallyConnected`, `OrphansReconnected` |
| `supervisor_loop` | starts of 0.5 s and 10 s, fair | `LoopInv`, `NoOrphan`, `CrashBudget`, `EndsForAReason`, `OneTailscaled`; `Supervisor` implements `SupervisorContract`, liveness included; `Recovers`, if repeated starts succeed sometime |
| `binary_cache` | 2 callers, 2 versions, 2 failures, 1 restart, fair | `CacheInv`, `GivenComplete`, `OneVersion`, `NeverRewritten`, `Answered` |
| `state_dir` | 2 users one after the other, 2 keys, 2 nodes, 2 failures, 1 crash, fair | `SocketIsOwn`, `RunsItsIdentity`, `IdentityKept`, `HashStaysTrue`, `KeepsContract`, `Reconnects` |
| `veth` | 2 endpoints with the extreme hashes, 2 failures, 1 restart, fair | `VethInv`, `GlobalRulesOnce`, `RulesTakeEffect`, `JoinedIsWired`, `NothingLeftBehind`, `SubnetsApart`, `CallsEnd` |
| `serve` | 2 containers, 7 sets of labels over 3 ports, 1 failure, 1 restart | `ServeInv`, `ServesLabels`, `OnlyAsked`, `StaysServed` |
| `doc_*` | the smallest instance that shows it | a sentence of the repository that the code does not keep, see "Findings" |

**Bounds.** Endpoints share nothing but the registry, its lock and the watcher,
and a goroutine works on one endpoint at a time; two of them suffice for one to
be in every step of another's call. Three objects are one per incarnation of
the plugin, or one lost and recovered twice by racing scans; the runs that bound
objects tightly are safety runs, or (`driver_connects`) have one object more
than the first start and the recoveries that can fail. One failure breaks any single step and two make
a retry fail as well. Two crashes let a restart be interrupted. For the
supervisor, a quick start reaches a crash loop, a ten-second one never does;
mixed, they put crashes everywhere in the window. `supervisor_loop` exhausts
every attempt count up to the cap. Two keys, two users and two nodes, the
one on disk or in memory and a fresh one, are all that a directory used by one at a time
can tell apart; the crash comes at every step of either user, also after a failure. Two callers of the binary cache are
one at work and one waiting or running; two versions are the one in use and the one
released meanwhile. Two endpoints of `veth` are one that sets up the chain and one that
waits for it or finds it there; two failures break a call and its undoing, and the
subnets of the two are the last two there are. The label sets of `serve` have every
protocol but `tls-terminated-tcp`, which `Serve` treats as `tcp`, each kind of value,
and pairs that conflict when one container follows the other; two endpoints are
enough for one command to fail after another, or for `tun` to come first or last.

Deadlock is not checked: Docker need not call, the plugin need not be restarted,
a supervisor that has ended stays so, and callers of the cache need not come.

**Fairness.** Weak fairness for every step of a goroutine of the plugin, for a
call that has begun (Docker waits for it), for the delivery of an event and for
the end of a cancelled loop (the liveness of `ImplementsContract`). Go's
scheduler justifies it, and the timeouts that the waits of the driver, the supervisor
and the daemon have; it is per step where a select has two ready cases. Nothing is assumed of new calls, restarts, failures
or crashes. In `StateDir` it is for the steps of the loop and for a `tailscaled`
that boots; in `BinaryCache` for the holder of the lock, which supposes that its requests end
(`http.Get` has no timeout, `binary.go:105`; one that hangs holds up every start), and strong for getting
binaryMu, which Go hands to a waiter that has starved for a millisecond; in `Veth` for
the steps of a Join and of a Leave, which supposes that netlink and iptables return
(the code sets them no timeout).
`Reconnects` lets the loop give up, `EventuallyConnected` is about runs without
failures. `Recovers` alone has a premise, `RetriesSucceed`, strong fairness of
a successful start: what keeps `tailscaled` from starting goes away in the end.

## Proofs

`DriverProofs` shows, for all endpoints, networks, recoverers and bounds
(assumptions: the named ASSUMEs of `Driver`, which say little more than that the
bounds are numbers), `Spec => []OwnershipInv` and from it `TypeCorrectness`,
`SupervisorsAreOwned` and `NoOverwrite`.

`SupervisorOwnership` is not inductive by itself. That a kept supervisor was not
stopped needs that nobody else holds it, so: goroutine `<<o, k>>` is started at
most once. For "join" because Join is called once (`JoinOnce`), for "event"
because the event comes once and the watcher takes it (`EventOnce`), for
"recover" because a recovery starts only the object it has allocated
(`RecoverOnce`); these speak of objects through pointers, hence `Registry`
(every pointer is to an object of the right endpoint) and `FreshIdle` (an
unallocated object has no goroutine). `StartHolds` then ties the state of a
supervisor to the step its starter has reached. `NoOverwrite` needs `Registry`:
an endpoint that is about to be created is not registered yet. The proof of the
step has one lemma per action, with one step per conjunct it can disturb.

`SupervisorProofs` shows `Spec => []LoopInv` for every set of start durations,
and from it `NoOrphan`, `CrashBudget`, `EndsForAReason`, `OneTailscaled`, and that every step of
`Supervisor` is a step of `SupervisorContract` or a stutter
(`ImplementsContractSafely`). `LoopInv` adds to them whose the running process
is (`held`), what a loop that is stopping has seen, and that a loop is cancelled
only by Stop or by the timeout of Start. That crashes only get older by waiting
(`AgedKeeps`) is what keeps `CrashBudget`.

`StateDirProofs` shows, for any number of users, any keys, nodes and bounds,
`SerialSpec => []DirInv`, and from it `SocketIsOwn`, `RunsItsIdentity`, `IdentityKept`
and `HashStaysTrue`. `DirInv` says at each step of a user's loop where process, socket
and identity are (`InStep`), and that one user at most is at work. Who is not at work
(`Busy`) has no process and no identity (`Idle`), so whoever begins finds a socket
that nobody listens on; and a step of one user leaves the others idle (`OneMoves`),
which reduces each action's proof to the user who takes it. That an accepted identity
is kept rests on two of its conjuncts: what `tailscaled` has read is what lies on
disk, so a rejected identity is the one on disk and may be wiped; and after the wipe
nobody listens, so the second attempt registers nothing. That a true hash stays true
needs that from `Begin` on it is that of the user's own key, unless the user could not
read it, and that a file being written is no key's hash.

Its last section is about users that overlap: `Spec => KeepsContract`, with no
assumption on who uses the directory when. The four properties above fail then, each
with two users and one failure (`Spec` in place of `FairSpec` shows it); what is left
is that a supervisor's own steps, whatever fails in them and whatever the others do to
its files, leave no process behind its loop and answer Start once. The invariant is
small (`Phases`): nothing in it depends on a file, so nobody else can break it. The
theorem links the three models of a supervisor: `Supervisor` with its timing and
`StateDir` with its files both implement the contract by which `Driver` goes.

`BinaryCacheProofs` shows, for any callers, versions and bounds, `Spec => []CacheInv`
and from it `GivenComplete`, `OneVersion` and `NeverRewritten`.
The argument: once the session has a version its files are there and nobody
downloads any more, because everybody looks under the lock first; a truncated file
is the one being written or the one about to be cleaned, unless a process was cut off.

`DriverHandoverProofs` adds, from the same assumptions, `Spec => []HandoverInv` and
from it `NobodyWaits`, `UnregistersItsOwn` and `NetworksComeBack`. The invariant has
two halves. The objects a recovery has made are a set apart (`Recovered`): while one
is registered and not yet started by its maker, no Join and no watcher starts it
(`Apart`), for the endpoint it belongs to has been through Join in an earlier life
(`Orphaned`, `Looking`) and its event with it. The other half is the handshake
(`Woken`): a joined endpoint whose container is in the cache has a start, or one who
will start it, and is thus at one of few steps (`Joins`, `Keyed`), because Join writes
the key before it reads the cache and the watcher writes the cache before it reads the
key. `Networked` has in addition that a recovery puts the network back before the
endpoint.

The second part of `DriverHandoverProofs` shows `Spec => []ReachInv` and from it
`SupervisorsReachable` and `LeaveStopsTheStarted`: what runs for an endpoint Docker
knows can be reached through the registry, and Leave or DeleteEndpoint does reach it.
`SupervisorOwnership` speaks of objects; what is missing is that the object of a
supervisor is the one in the registry. `Registered` says when an object is: from its
allocation until DeleteEndpoint, or until its recovery's start fails; and an object
whose recovery has failed was not started by anybody else (`Apart`). So a supervisor whose
start succeeded is on a registered object, and there is only one of those per endpoint.

`DriverContractProofs` shows `HistorySpec => []ContractInv` and
`HistorySpec => GoesByContract`. `Known` relates the history to the program counters:
Start has answered as soon as its caller is past "starting", and well if it waits for an
IP or if an object holds the supervisor. Hence whoever calls Stop, the goroutine itself
or Leave, DeleteEndpoint and Shutdown through the object, does so after a good answer.
Five lemmas, one for each thing that can happen to one supervisor, are shared by the
lemmas about `Driver`'s actions. Together with `ImplementsContractSafely` this is the
safety of the composition: what `Supervisor` may do, `Driver` is ready for.

`VethProofs` shows `Spec => []VethInv` for any endpoints, hashes and bounds, and five
of its properties from it. `Locking` (who is in initializeChain holds chainMu) is
what makes `GlobalRulesOnce` inductive: between the check and the addition of a rule
nobody else adds it; a failed check is paid for out of `faults`. `Building` says what
is there at each step of the chain's set-up, `Progress` and `Clearing` what is there
of one container. `SubnetOfHash` is the arithmetic: 4 * 16380 + 2 < 2^16, so nothing
wraps, for every hash.

`ServeProofs` shows `Spec => []ServeInv` for any ports, label sets and bounds, and
from it `ServesLabels`, `OnlyAsked` and `StaysServed`. `Position` says that endpoints
before `at` are served; it is kept by the next command because two labels have
different ports, so that what it replaces is never wanted (`WantedApart`).

Only model-checked: liveness, which is outside this prover's reach:
`EventuallyConnected`, `OrphansReconnected`, `Recovers`, `Answered`, `Reconnects`,
`CallsEnd`, and the liveness of `ImplementsContract`. Every other property of a passing
run is stated by a theorem. The inductive invariants `OwnershipInv`, `HandoverInv`,
`ReachInv`, `ContractInv` and `DirInv` are proved and in no run of their own; what follows from
them is.

## Findings

Each `doc_*` run ends in a counterexample; `PROJECT.json` quotes the sentence.

| run | what the code does |
|---|---|
| `doc_leave` | a start under way when Leave runs stores a running supervisor afterwards |
| `doc_backoff` | the backoff overflows after 36 attempts, restarts follow at once |
| `doc_truncated` | binaries cut off by the end of the plugin are taken for complete ever after |
| `doc_key` | the hash is saved after the registration: in between, a crash or failure hides a change of the key |

Other behaviour of the code, most of it met in the models, that a reader of the
documentation may not expect, and which no run is about:

- networks come back after a restart only with an endpoint on them, so a new
  container on an idle network is refused (`driver.go:230`, 547-568);
- an event that is lost while the stream reconnects is not made up for: its
  endpoint is registered, so no scan starts it (`events.go:103`, `driver.go:493`);
- two supervisors on one hostname remove each other's socket when they start, and
  the `tailscale down` of one reaches the other (`daemon.go:144`, 760-770);
- two starts of one endpoint can be past the check of StartTailscale
  (`endpoint.go:200`) together, one from Join and one from the event;
- Leave of a recovered endpoint does not know its veth and leaves the pair and
  its NAT rules (`endpoint.go:379`, `driver.go:582`);
- a recovery whose start fails removes its endpoint by ID: when DeleteEndpoint
  has freed the ID and a late scan has registered it again, the removed object is
  the other scan's (`driver.go:613-620`; hence the premise of
  `UnregistersOnlyFailed`);
- a late answer to the watcher can put a deleted endpoint back in the cache
  (`events.go:177`);
- a start under way during Shutdown stores its supervisor after its endpoint was
  stopped (`driver.go:390-409`), by the same race as `doc_leave`;
- Stop can return while `tailscaled` is being started (`supervisor.go:127`), and
  the loop may start it once more when the backoff ends with the cancellation
  (`supervisor.go:220`);
- a loop that is over can report "running" (`supervisor.go:246`);
- starts that fail after ten seconds are no crash loop and are retried for ever
  (`supervisor.go:206`);
- the wipe of a rejected identity removes the socket of the `tailscaled` that runs, so
  the second `tailscale up` cannot reach it, and only the supervisor's next attempt
  registers afresh (`daemon.go:351-360`; `DirInv` says so at the step "again");
- a pair that was created and cannot be brought up is left behind: CreateVethPair
  returns no name to delete it by (`veth.go:42-53`);
- a namespace that is only at the other path is found by MoveToNetNS and not by
  SetupInterfaceInNS, so the second path never lets a Join succeed
  (`veth.go:64-75`, 156-172);
- any error of `iptables -C`, as when another process has the xtables lock, adds a
  global rule again (`veth.go:368-375`, 378-388);
- "unique" addresses (`endpoint.go:82`) are those of a 16-bit hash modulo 16380: two
  endpoints whose hashes agree get the same two;
- a Join cut off by the end of the plugin leaves its ACCEPT rules for good;
- the hash of the key is truncated before it is written: when the plugin ends between
  the two, or the disk is full, the next start takes what is left for another key's and
  wipes the identity, although the key is the same (`state.go:63`, 81-86; specs/05:53
  has "Same hostname = same state = same IP"). So does a hash that was saved after its
  identity had been wiped (`endpoint.go:294`), when the next start registers with
  another key and is cut off before it saves its own. `IdentityKept` is about
  identities that lie beside the hash of their own key, or none;
- a hash that cannot be read counts as a match (`state.go:77-78`): the node of the old
  key is used on, and its hash replaced by that of the new one;
- ports stay served when their label is gone, until the identity is wiped; a port whose
  protocol has changed may be refused each time;
- a container with `tslink.direct=false` stops none of what earlier containers have
  left served on its hostname, where `events.go:217` has it "disable direct serve": it
  only serves nothing new there (`OnlyAsked`, `daemon.go:287-298`);
- a label with an unknown protocol is dropped with a debug message, where specs/04:178
  and specs/02:101 speak of an error "unsupported protocol" (`events.go:279-285`), so
  `ServesLabels` is about those with a known one (`Known`);
- labels without `tslink.service` are served on the container's own hostname
  (`events.go:193`, `daemon.go:289`; the README's "Expose port via Tailscale Serve"),
  where specs/04:170 has it that "Endpoints won't be configured" and specs/04:177 that
  this is an error; `ServesLabels` goes by the code's comments;
- one label with a bad port or target makes every start fail, and is retried like any
  other failure (`daemon.go:482-488`);
- streamingWriter takes complete lines out of the buffer it is asked for later, so
  the texts that configureServeEndpoint looks for ("service not found", "approval
  from an admin is required") are found in the last, unfinished line only
  (`daemon.go:39-54`, 642-656).

## Not modelled

- Parsing of `tslink.hostname` and `tslink.tags`, of network options, environment and
  JSON: strings that are copied or split; the models have the hostname as what a state
  directory belongs to. The comparison of versions is "before Services or not".
- The arguments of `tailscale up`, which succeeds, fails or finds its identity rejected.
- TS_PATH, which replaces the binary cache by two files nobody writes.
- CleanupAllNAT, ApplyHostnameChange and ApplyServiceConfig, which nothing calls.
- That netns.Set cannot bring a thread back to its namespace, which is only logged
  (`veth.go:178-182`): later calls would work in the container's namespace.
- Diagnostics and logging, which change nothing.
- The ten seconds for which Leave can hold `d.mu`, and Go's memory model: every access
  the models make is under the lock the code takes.

## Plan

1. (done) `Driver`, its documentation runs, the ownership proof.
2. (done) `SupervisorContract`, `Supervisor`, its proof and refinement.
3. (done) `BinaryCache` and its proofs.
4. (done) `StateDir`, with the steps of Daemon.Start and Stop, and its proofs.
5. (done) `Veth` and its proofs.
6. (done) `Serve` and its proofs.
7. (done) the handover proof of `Driver`.
8. (done) `Driver`'s supervisors as instances of `SupervisorContract`, with its proof,
   and the proof that what runs can be reached.
9. (done) `StateDir` for any number of users one after the other.
10. (done) `StateDir` with users that overlap: only `KeepsContract` survives.
11. (done) `StateDir`'s supervisors as instances of `SupervisorContract`, with its proof.
12. What an overlap may damage at most: for instance that the files hold nothing but
    identities the control plane has given out, and that they heal once one user is left.
