-------------------------------- MODULE Veth --------------------------------
(* How a container is wired to the host: the networking half of               *)
(* Endpoint.Join and Leave (pkg/core/endpoint.go:82-172, 371-386) on the      *)
(* netlink and iptables calls of pkg/netutil/veth.go.  One action is one call *)
(* whose effect in the kernel others can see; Joins of several containers run *)
(* at once, Leaves one at a time under d.mu, and what the plugin knows of the *)
(* kernel is lost when it ends.                                               *)
EXTENDS Integers

CONSTANTS
    Endpoints,   \* their first eight characters, which name the veth, differ
    Hash,        \* the 16-bit hash of those characters
    None,
    MaxFaults,   \* bound on failing netlink and iptables calls
    MaxCrashes   \* bound on ends of the plugin

Hashes == 0 .. 65535

ASSUME HashAssumption == Hash \in [Endpoints -> Hashes]
ASSUME NoneAssumption == None \notin Endpoints
ASSUME BoundsAssumption == MaxFaults \in Nat /\ MaxCrashes \in Nat

VARIABLES
    pc,      \* the next step of an endpoint's Join or Leave
    known,   \* endpoints whose VethName is set
    init,    \* chainInitialized
    mu,      \* the endpoint whose Join holds chainMu
    pair,    \* kernel: the veth pair of each endpoint
    conf,    \* kernel: what is configured on it
    inRules, \* kernel: its ACCEPT rules in TSLINK-FORWARD, as the interface a
    outRules,\* packet comes from and as the one it goes to
    chain,   \* kernel: whether TSLINK-FORWARD exists
    jump,    \* kernel: jumps to it from FORWARD
    masq,    \* kernel: MASQUERADE rules for 10.200.0.0/16
    box,     \* where the container's network namespace is
    faults, crashes

memory == <<known, init, mu>>
links  == <<pair, conf>>
rules  == <<inRules, outRules>>
tables == <<chain, jump, masq>>
bounds == <<faults, crashes>>
vars == <<pc, memory, links, rules, tables, box, bounds>>

-----------------------------------------------------------------------------
(* generateVethIPs, with its 16-bit arithmetic: offsets into 10.200.0.0/16 *)

\* As a bug: no room for network and broadcast address.
BaseDense(h) == ((h % 16380) + 1) % 65536

Base(h) == (((h % 16380) + 1) * 4) % 65536

HostIP(h) == Base(h) + 1
ContainerIP(h) == Base(h) + 2

\* The /30 an address is in.
Subnet(a) == a \div 4

\* Two endpoints are given the same /30.
Collide(e, f) == Hash[e] % 16380 = Hash[f] % 16380

-----------------------------------------------------------------------------
(* State *)

Linking == {"create", "move", "host", "guest", "route"}
Chaining == {"newchain", "checkjump", "addjump", "checkmasq", "addmasq"}
Joining == Linking \cup {"undo", "nat"} \cup Chaining \cup {"addin", "addout", "store"}
Unruled == {"idle", "undo", "nat"} \cup Linking \cup Chaining
Wired == {"route", "nat", "addin", "addout", "store", "joined"} \cup Chaining
Leaving == {"dropin", "dropout", "unlink"}
Steps == {"idle", "failed", "joined", "left"} \cup Joining \cup Leaving

\* "made" is a pair with both ends on the host; the peer is then "moved" into
\* the namespace and set up there ("ready").
Pairs == {"none", "made", "moved", "ready"}
Configured == {"host address", "guest address", "route"}

TypeOK ==
    /\ pc \in [Endpoints -> Steps]
    /\ known \in SUBSET Endpoints
    /\ init \in BOOLEAN
    /\ mu \in Endpoints \cup {None}
    /\ pair \in [Endpoints -> Pairs]
    /\ conf \in [Endpoints -> SUBSET Configured]
    /\ inRules \in [Endpoints -> Nat] /\ outRules \in [Endpoints -> Nat]
    /\ chain \in BOOLEAN
    /\ jump \in Nat /\ masq \in Nat
    /\ box \in [Endpoints -> {"none", "given", "alternate"}]
    /\ faults \in 0..MaxFaults /\ crashes \in 0..MaxCrashes

Init ==
    /\ pc = [e \in Endpoints |-> "idle"]
    /\ known = {} /\ init = FALSE /\ mu = None
    /\ pair = [e \in Endpoints |-> "none"]
    /\ conf = [e \in Endpoints |-> {}]
    /\ inRules = [e \in Endpoints |-> 0] /\ outRules = [e \in Endpoints |-> 0]
    /\ chain = FALSE /\ jump = 0 /\ masq = 0
    /\ box = [e \in Endpoints |-> "none"]
    /\ faults = 0 /\ crashes = 0

-----------------------------------------------------------------------------
(* Helpers *)

\* What initializeChain is to bring about.
Ready == chain /\ jump > 0 /\ masq > 0

Fault == faults < MaxFaults /\ faults' = faults + 1

\* A Leave in progress holds d.mu, which a Join takes for a moment.
Unlocked == \A e \in Endpoints : pc[e] \notin Leaving

Goto(e, s) == pc' = [pc EXCEPT ![e] = s]

Configure(e, what) == conf' = [conf EXCEPT ![e] = @ \cup what]

\* LinkDel takes both ends of a pair, with their addresses and routes.
DeletePair(e) == /\ pair' = [pair EXCEPT ![e] = "none"]
                 /\ conf' = [conf EXCEPT ![e] = {}]

-----------------------------------------------------------------------------
(* Join: the pair *)

\* Docker has made the namespace; it is at the path the plugin is given, or only
\* at the one MoveToNetNS tries next.
JoinBegin(e) ==
    /\ Unlocked
    /\ pc[e] = "idle"
    /\ Goto(e, "create")
    /\ \E at \in {"given", "alternate"} : box' = [box EXCEPT ![e] = at]
    /\ UNCHANGED <<memory, links, rules, tables, bounds>>

\* CreateVethPair.  Nobody else has a link of that name.  A pair that cannot be
\* brought up stays: CreateVethPair returns no name to delete it by.
CreatePair(e) ==
    /\ pc[e] = "create"
    /\ \/ /\ pair' = [pair EXCEPT ![e] = "made"]
          /\ Goto(e, "move")
          /\ UNCHANGED faults
       \/ /\ Fault
          /\ pair' \in {pair, [pair EXCEPT ![e] = "made"]}
          /\ Goto(e, "failed")
    /\ UNCHANGED <<memory, conf, rules, tables, box, crashes>>

\* MoveToNetNS, which finds the namespace at either path.
Move(e) ==
    /\ pc[e] = "move"
    /\ \/ /\ pair' = [pair EXCEPT ![e] = "moved"]
          /\ Goto(e, "host")
          /\ UNCHANGED faults
       \/ Fault /\ Goto(e, "undo") /\ UNCHANGED pair
    /\ UNCHANGED <<memory, conf, rules, tables, box, crashes>>

\* SetupHostRouting: an address that cannot be added is only logged.
HostRouting(e) ==
    /\ pc[e] = "host"
    /\ \/ Configure(e, {"host address"}) /\ Goto(e, "guest") /\ UNCHANGED faults
       \/ Fault /\ (Goto(e, "guest") \/ Goto(e, "undo")) /\ UNCHANGED conf
    /\ UNCHANGED <<memory, pair, rules, tables, box, crashes>>

\* SetupInterfaceInNS, which looks for the namespace at the given path only.
Guest(e) ==
    /\ pc[e] = "guest"
    /\ \/ /\ box[e] = "given"
          /\ pair' = [pair EXCEPT ![e] = "ready"]
          /\ Goto(e, "route")
          /\ UNCHANGED faults
       \/ /\ IF box[e] = "given" THEN Fault ELSE UNCHANGED faults
          /\ Goto(e, "undo")
          /\ UNCHANGED pair
    /\ UNCHANGED <<memory, conf, rules, tables, box, crashes>>

\* SetupContainerRouting: an address or a route that cannot be added is only
\* logged; without the address the gateway is out of reach.
GuestRouting(e) ==
    /\ pc[e] = "route"
    /\ \/ /\ Configure(e, {"guest address", "route"})
          /\ Goto(e, "nat")
          /\ UNCHANGED faults
       \/ /\ Fault
          /\ \/ Configure(e, {"guest address"}) /\ Goto(e, "nat")
             \/ UNCHANGED conf /\ (Goto(e, "nat") \/ Goto(e, "undo"))
    /\ UNCHANGED <<memory, pair, rules, tables, box, crashes>>

\* As a bug: the half-made pair is forgotten.
UndoNothing(e) ==
    /\ pc[e] = "undo"
    /\ Goto(e, "failed")
    /\ UNCHANGED <<memory, links, rules, tables, box, bounds>>

\* DeleteVeth after a failure, and the error to Docker.
Undo(e) ==
    /\ pc[e] = "undo"
    /\ \/ DeletePair(e) /\ UNCHANGED faults
       \/ Fault /\ UNCHANGED links
    /\ Goto(e, "failed")
    /\ UNCHANGED <<memory, rules, tables, box, crashes>>

-----------------------------------------------------------------------------
(* Join: SetupNAT.  Its failure is only logged: Join goes on to "store". *)

\* As a bug: chainInitialized is looked at without chainMu.
EnterNATUnlocked(e) ==
    /\ pc[e] = "nat"
    /\ IF init THEN Goto(e, "addin") ELSE Goto(e, "newchain")
    /\ UNCHANGED <<memory, links, rules, tables, box, bounds>>

\* Lock chainMu; the lock is kept only for initializeChain.
EnterNAT(e) ==
    /\ pc[e] = "nat"
    /\ mu = None
    /\ IF init
       THEN Goto(e, "addin") /\ UNCHANGED mu
       ELSE Goto(e, "newchain") /\ mu' = e
    /\ UNCHANGED <<known, init, links, rules, tables, box, bounds>>

\* iptables -N, whose error is taken for "exists already".
NewChain(e) ==
    /\ pc[e] = "newchain"
    /\ \/ chain' = TRUE /\ UNCHANGED faults
       \/ Fault /\ UNCHANGED chain
    /\ Goto(e, "checkjump")
    /\ UNCHANGED <<memory, links, rules, jump, masq, box, crashes>>

\* iptables -C, any error of which is taken for "not there".
CheckJump(e) ==
    /\ pc[e] = "checkjump"
    /\ \/ jump > 0 /\ Goto(e, "checkmasq") /\ UNCHANGED faults
       \/ jump = 0 /\ Goto(e, "addjump") /\ UNCHANGED faults
       \/ jump > 0 /\ Fault /\ Goto(e, "addjump")
    /\ UNCHANGED <<memory, links, rules, tables, box, crashes>>

\* As a bug: the early return forgets the lock.
AddJumpKeepsLock(e) ==
    /\ pc[e] = "addjump"
    /\ \/ chain /\ jump' = jump + 1 /\ Goto(e, "checkmasq") /\ UNCHANGED faults
       \/ /\ IF chain THEN Fault ELSE UNCHANGED faults
          /\ Goto(e, "store")
          /\ UNCHANGED jump
    /\ UNCHANGED <<memory, links, rules, chain, masq, box, crashes>>

\* iptables -I FORWARD 1 -j TSLINK-FORWARD needs the chain.
AddJump(e) ==
    /\ pc[e] = "addjump"
    /\ \/ chain /\ jump' = jump + 1 /\ Goto(e, "checkmasq") /\ UNCHANGED <<mu, faults>>
       \/ /\ IF chain THEN Fault ELSE UNCHANGED faults
          /\ Goto(e, "store") /\ mu' = None
          /\ UNCHANGED jump
    /\ UNCHANGED <<known, init, links, rules, chain, masq, box, crashes>>

\* initializeChain has succeeded.
Initialized(e) == init' = TRUE /\ mu' = None /\ Goto(e, "addin")

CheckMasq(e) ==
    /\ pc[e] = "checkmasq"
    /\ \/ masq > 0 /\ Initialized(e) /\ UNCHANGED faults
       \/ /\ IF masq = 0 THEN UNCHANGED faults ELSE Fault
          /\ Goto(e, "addmasq")
          /\ UNCHANGED <<init, mu>>
    /\ UNCHANGED <<known, links, rules, tables, box, crashes>>

\* As a bug: the outcome is not looked at.
AddMasqBlind(e) ==
    /\ pc[e] = "addmasq"
    /\ Initialized(e)
    /\ \/ masq' = masq + 1 /\ UNCHANGED faults
       \/ Fault /\ UNCHANGED masq
    /\ UNCHANGED <<known, links, rules, chain, jump, box, crashes>>

AddMasq(e) ==
    /\ pc[e] = "addmasq"
    /\ \/ masq' = masq + 1 /\ Initialized(e) /\ UNCHANGED faults
       \/ Fault /\ Goto(e, "store") /\ mu' = None /\ UNCHANGED <<init, masq>>
    /\ UNCHANGED <<known, links, rules, chain, jump, box, crashes>>

\* iptables -A, whose failure is only logged.
AddIn(e) ==
    /\ pc[e] = "addin"
    /\ \/ chain /\ inRules' = [inRules EXCEPT ![e] = @ + 1] /\ UNCHANGED faults
       \/ (IF chain THEN Fault ELSE UNCHANGED faults) /\ UNCHANGED inRules
    /\ Goto(e, "addout")
    /\ UNCHANGED <<memory, links, outRules, tables, box, crashes>>

\* As a bug: the second rule is for the first direction as well.
AddOutWrongWay(e) ==
    /\ pc[e] = "addout"
    /\ inRules' = [inRules EXCEPT ![e] = @ + 1]
    /\ Goto(e, "store")
    /\ UNCHANGED <<memory, links, outRules, tables, box, bounds>>

AddOut(e) ==
    /\ pc[e] = "addout"
    /\ \/ chain /\ outRules' = [outRules EXCEPT ![e] = @ + 1] /\ UNCHANGED faults
       \/ (IF chain THEN Fault ELSE UNCHANGED faults) /\ UNCHANGED outRules
    /\ Goto(e, "store")
    /\ UNCHANGED <<memory, links, inRules, tables, box, crashes>>

\* The results, under e.mu.
Store(e) ==
    /\ pc[e] = "store"
    /\ known' = known \cup {e}
    /\ Goto(e, "joined")
    /\ UNCHANGED <<init, mu, links, rules, tables, box, bounds>>

-----------------------------------------------------------------------------
(* Leave: CleanupNAT and DeleteVeth, if the name is known *)

LeaveBegin(e) ==
    /\ Unlocked
    /\ pc[e] = "joined"
    /\ Goto(e, IF e \in known THEN "dropin" ELSE "left")
    /\ UNCHANGED <<memory, links, rules, tables, box, bounds>>

\* iptables -D takes one rule; any error is taken for "already cleaned".
DropIn(e) ==
    /\ pc[e] = "dropin"
    /\ \/ /\ inRules' = [inRules EXCEPT ![e] = IF @ > 0 THEN @ - 1 ELSE 0]
          /\ UNCHANGED faults
       \/ Fault /\ UNCHANGED inRules
    /\ Goto(e, "dropout")
    /\ UNCHANGED <<memory, links, outRules, tables, box, crashes>>

\* As a bug: the same rule once more.
DropOutWrongWay(e) ==
    /\ pc[e] = "dropout"
    /\ Goto(e, "unlink")
    /\ UNCHANGED <<memory, links, rules, tables, box, bounds>>

DropOut(e) ==
    /\ pc[e] = "dropout"
    /\ \/ /\ outRules' = [outRules EXCEPT ![e] = IF @ > 0 THEN @ - 1 ELSE 0]
          /\ UNCHANGED faults
       \/ Fault /\ UNCHANGED outRules
    /\ Goto(e, "unlink")
    /\ UNCHANGED <<memory, links, inRules, tables, box, crashes>>

\* A pair that cannot be deleted is only logged.
Unlink(e) ==
    /\ pc[e] = "unlink"
    /\ \/ DeletePair(e) /\ UNCHANGED faults
       \/ Fault /\ UNCHANGED links
    /\ Goto(e, "left")
    /\ UNCHANGED <<memory, rules, tables, box, crashes>>

-----------------------------------------------------------------------------
(* Docker, and the end of the plugin *)

\* With the namespace goes the end of the pair that is in it, and so the pair.
SandboxEnds(e) ==
    /\ pc[e] \in {"failed", "left"}
    /\ box[e] # "none"
    /\ box' = [box EXCEPT ![e] = "none"]
    /\ IF pair[e] \in {"moved", "ready"} THEN DeletePair(e) ELSE UNCHANGED links
    /\ UNCHANGED <<pc, memory, rules, tables, bounds>>

\* The plugin ends and starts again: what it knew is lost, calls under way fail,
\* and the kernel stays as it is.
Crash ==
    /\ crashes < MaxCrashes /\ crashes' = crashes + 1
    /\ known' = {} /\ init' = FALSE /\ mu' = None
    /\ pc' = [e \in Endpoints |-> CASE pc[e] \in Joining -> "failed"
                                    [] pc[e] \in Leaving -> "left"
                                    [] OTHER -> pc[e]]
    /\ UNCHANGED <<links, rules, tables, box, faults>>

-----------------------------------------------------------------------------
(* Specification *)

JoinStep(e) ==
    \/ CreatePair(e) \/ Move(e) \/ HostRouting(e) \/ Guest(e) \/ GuestRouting(e) \/ Undo(e)
    \/ EnterNAT(e) \/ NewChain(e) \/ CheckJump(e) \/ AddJump(e) \/ CheckMasq(e) \/ AddMasq(e)
    \/ AddIn(e) \/ AddOut(e) \/ Store(e)

LeaveStep(e) == DropIn(e) \/ DropOut(e) \/ Unlink(e)

Next == \/ \E e \in Endpoints : \/ JoinBegin(e) \/ JoinStep(e)
                                \/ LeaveBegin(e) \/ LeaveStep(e) \/ SandboxEnds(e)
        \/ Crash

Spec == Init /\ [][Next]_vars

\* Every call returns, and the goroutines of the plugin run on.
FairSpec == Spec /\ \A e \in Endpoints : WF_vars(JoinStep(e)) /\ WF_vars(LeaveStep(e))

-----------------------------------------------------------------------------
(* Properties *)

\* However many Joins set up the chain at once, and however often the plugin is
\* restarted, the global rules are there once: one more only for an iptables
\* call that failed, which the check before it takes for a missing rule
\* (veth.go:333-342, 367-388).
GlobalRulesOnce == jump <= 1 + faults /\ masq <= 1 + faults

\* Rules of a container are of use: whenever it has any, FORWARD leads to them and
\* its packets are masqueraded, whoever set that up, in this life of the plugin
\* or an earlier one; and what chainInitialized remembers is so
\* (veth.go:333-357, 360-392).
RulesTakeEffect ==
    /\ init => Ready
    /\ jump > 0 => chain
    /\ \A e \in Endpoints : inRules[e] > 0 \/ outRules[e] > 0 => Ready

\* A container that has joined has an interface that is up in its namespace, and
\* it can reach the internet through it, with one rule for each direction,
\* unless a call failed (endpoint.go:123-166).
JoinedIsWired ==
    \A e \in Endpoints : pc[e] = "joined" =>
       /\ pair[e] = "ready" /\ box[e] = "given"
       /\ faults = 0 => conf[e] = Configured /\ inRules[e] = 1 /\ outRules[e] = 1

\* A Join that fails has left no rules, unless it was cut off by the end of the
\* plugin, and no pair unless a call failed; a Leave takes both away
\* (endpoint.go:131-160, 371-386, veth.go:394-412).
NothingLeftBehind ==
    crashes = 0 =>
       \A e \in Endpoints :
          /\ pc[e] \in {"idle", "failed"} => inRules[e] = 0 /\ outRules[e] = 0
          /\ pc[e] \in {"idle", "failed", "left"} /\ faults = 0
                => inRules[e] = 0 /\ outRules[e] = 0 /\ pair[e] = "none"

\* Containers whose hashes differ modulo 16380 do not meet in one /30, and each
\* of them has two addresses there that are neither the network's nor the
\* broadcast address (endpoint.go:85-106).
SubnetsApart ==
    \A e, f \in Endpoints :
       "host address" \in conf[e] /\ "host address" \in conf[f] =>
          /\ Subnet(HostIP(Hash[e])) = Subnet(ContainerIP(Hash[e]))
          /\ {HostIP(Hash[e]) % 4, ContainerIP(Hash[e]) % 4} = {1, 2}
          /\ Collide(e, f) \/ Subnet(HostIP(Hash[e])) # Subnet(HostIP(Hash[f]))

\* The induction behind them: who holds chainMu ...
Locking == \A e \in Endpoints : pc[e] \in Chaining <=> mu = e

\* ... what is there of the chain at each step of setting it up ...
Building(e) ==
    /\ pc[e] = "addjump" => jump <= faults
    /\ pc[e] = "addmasq" => masq <= faults
    /\ pc[e] \in {"checkmasq", "addmasq"} => chain /\ jump > 0
    /\ pc[e] \in {"checkjump", "addjump"} /\ faults = 0 => chain
    /\ pc[e] \in {"addin", "addout"} => init

\* ... what of the container's own ...
Progress(e) ==
    /\ pc[e] \in {"idle", "create"} => pair[e] = "none"
    /\ pc[e] \in Unruled \cup {"addin"} => inRules[e] = 0
    /\ pc[e] \in Unruled \cup {"addin", "addout"} => outRules[e] = 0
    /\ pc[e] \in Wired => pair[e] = "ready" /\ box[e] = "given"
    /\ faults = 0 =>
          /\ pc[e] \in {"guest", "route"} => "host address" \in conf[e]
          /\ pc[e] \in Wired \ {"route"} => conf[e] = Configured
          /\ pc[e] = "addout" => inRules[e] = 1
          /\ pc[e] \in {"store", "joined"} => inRules[e] = 1 /\ outRules[e] = 1

\* ... and what a life of the plugin leaves behind.
Clearing(e) ==
    crashes = 0 =>
       /\ pc[e] \in {"addout", "store", "joined", "dropin"} => inRules[e] <= 1
       /\ pc[e] \in {"store", "joined", "dropin", "dropout"} => outRules[e] <= 1
       /\ pc[e] = "joined" => e \in known
       /\ pc[e] = "failed" => inRules[e] = 0 /\ outRules[e] = 0
       /\ faults = 0 =>
             /\ pc[e] \in {"failed", "left"} => pair[e] = "none"
             /\ pc[e] \in {"dropout", "unlink", "left"} => inRules[e] = 0
             /\ pc[e] \in {"unlink", "left"} => outRules[e] = 0

\* All of it together, which every step preserves (endpoint.go:108-172,
\* veth.go:317-412).
VethInv == /\ TypeOK /\ Locking /\ RulesTakeEffect /\ GlobalRulesOnce
           /\ \A e \in Endpoints : Building(e) /\ Progress(e) /\ Clearing(e)

\* A Join and a Leave come to an end, whatever fails: chainMu is never kept
\* (veth.go:334-342).
CallsEnd ==
    \A e \in Endpoints : pc[e] \in Joining \cup Leaving
       ~> pc[e] \in {"joined", "failed", "left"}

=============================================================================
