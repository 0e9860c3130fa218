----------------------- MODULE DriverHandoverProofs -----------------------
(***************************************************************************)
(* Who starts Tailscale for an endpoint, for every number of endpoints,    *)
(* networks, objects, failures and crashes: Join and the watcher hand it   *)
(* to each other, a recovery keeps it to itself.  HandoverInv is           *)
(* inductive, and NoLostWakeup, UnregistersOnlyFailed and                  *)
(* NetworkRegistered follow from it.                                       *)
(***************************************************************************)
EXTENDS DriverProofs

USE EndpointsAssumption, NetworksAssumption, NoneAssumption

-----------------------------------------------------------------------------
(* The invariant *)

\* A recovery has made the object.
Recovered(o) == start[o]["recover"] # "idle" \/ \E r \in Recoverers : rec[r].obj = o

\* The start that a recovery has made it for is to come or under way.
Active(o) == Recovered(o) /\ start[o]["recover"] \notin {"failed", "done"}

\* Nothing more comes from the watcher for the endpoint.
Heard(e) == event[e] = "gone" /\ watcher.e # e

\* Nobody takes a recovered object out of the registry but its own goroutine and
\* DeleteEndpoint ...
Kept ==
    \A o \in Objects :
       Active(o) => endpoints[obj[o].id] = o \/ phase[obj[o].id] = "deleted"

\* ... an endpoint that has to be recovered has no event to come ...
Orphaned ==
    \A e \in Endpoints : endpoints[e] = None /\ phase[e] \in Attached => Heard(e)

\* ... nor has one that a recovery is to add, and its Join has begun ...
Looking ==
    \A r \in Recoverers :
       /\ rec[r].pc = "inspect" => Heard(rec[r].e) \/ phase[rec[r].e] \notin Attached
       /\ rec[r].pc \in {"network", "insert", "setkey", "publish"}
             => Heard(rec[r].e) /\ phase[rec[r].e] \notin {"absent", "refused", "created"}

\* ... so that neither Join nor the watcher starts Tailscale for its object.
Apart ==
    \A o \in Objects : Recovered(o) =>
       /\ obj[o].id # None
       /\ Heard(obj[o].id)
       /\ phase[obj[o].id] \notin {"absent", "refused", "created"}
       /\ phase[obj[o].id] \in Joining => handler[obj[o].id] # o
       /\ start[o]["join"] = "idle" /\ start[o]["event"] = "idle"

\* A Join works on the registered object, unless a recovery has replaced it ...
Joins ==
    \A e \in Endpoints : phase[e] \in Joining /\ endpoints[e] # None
       => handler[e] = endpoints[e] \/ Recovered(endpoints[e])

\* ... and gives it its sandbox key before it asks the cache.
Keyed ==
    \A e \in Endpoints : phase[e] \in {"asking", "joined"} /\ endpoints[e] # None
       => obj[endpoints[e]].key \/ Recovered(endpoints[e])

\* The handshake: a joined endpoint in the cache has had a start, or the watcher
\* is about to see to it.
Woken ==
    \A e \in Endpoints :
       phase[e] = "joined" /\ e \in cache /\ endpoints[e] # None =>
          \/ \E k \in Kinds : start[endpoints[e]][k] # "idle"
          \/ Recovered(endpoints[e])
          \/ watcher.e = e /\ (watcher.pc \in {"store", "lookup"} \/ watcher.obj = endpoints[e])

\* Docker has the networks of the endpoints it counts, and a recovery registers
\* one before its endpoint.
Networked ==
    /\ \A e \in Endpoints : phase[e] \in InUse => NetworkOf[e] \in dockerNets
    /\ \A r \in Recoverers : rec[r].pc = "insert" /\ phase[rec[r].e] \in InUse
          => NetworkOf[rec[r].e] \in networks

HandoverInv ==
    /\ OwnershipInv
    /\ Kept /\ Orphaned /\ Looking /\ Apart
    /\ Joins /\ Keyed /\ Woken
    /\ Networked /\ NetworkRegistered

-----------------------------------------------------------------------------
(* What the steps have in common *)

\* What the types say of the pointers the invariant follows.
LEMMA PointerTypes ==
    ASSUME OwnershipInv
    PROVE  /\ \A e \in Endpoints : endpoints[e] # None =>
                 endpoints[e] \in Objects /\ obj[endpoints[e]].id = e
           /\ \A r \in Recoverers : rec[r].obj # None =>
                 /\ rec[r].obj \in Objects /\ obj[rec[r].obj].id = rec[r].e
                 /\ rec[r].e \in Endpoints /\ rec[r].pc \in {"setkey", "publish"}
           /\ \A r \in Recoverers : rec[r].pc \in {"setkey", "publish"} => rec[r].obj # None
           /\ \A o \in Objects : obj[o].id \in Endpoints \cup {None}
           /\ "recover" \in Kinds /\ "join" \in Kinds /\ "event" \in Kinds
           /\ \A r \in Recoverers : rec[r].pc \in {"inspect", "network", "insert", "setkey", "publish"}
                 => rec[r].e \in Endpoints
<1>1. TypeOK /\ Registry
  BY DEF OwnershipInv
<1>2. \A e \in Endpoints : endpoints[e] # None =>
                 endpoints[e] \in Objects /\ obj[endpoints[e]].id = e
  BY <1>1 DEF TypeOK, Types, Registry
<1>3. \A r \in Recoverers : rec[r] \in RecoveryRec
  BY <1>1 DEF TypeOK, Types
<1>4. \A r \in Recoverers : rec[r].obj # None =>
                 /\ rec[r].obj \in Objects /\ obj[rec[r].obj].id = rec[r].e
                 /\ rec[r].e \in Endpoints /\ rec[r].pc \in {"setkey", "publish"}
  BY <1>1, <1>3 DEF TypeOK, Pointers, Registry, RecoveryRec
<1>5. \A o \in Objects : obj[o].id \in Endpoints \cup {None}
  BY <1>1 DEF TypeOK, Types, EndpointRec
<1>6. /\ \A r \in Recoverers : rec[r].pc \in {"setkey", "publish"} => rec[r].obj # None
      /\ \A r \in Recoverers : rec[r].pc \in {"inspect", "network", "insert", "setkey", "publish"}
                 => rec[r].e \in Endpoints
  BY <1>1 DEF TypeOK, Pointers
<1> QED
  BY <1>2, <1>4, <1>5, <1>6 DEF Kinds

\* A supervised start, a loop, or Shutdown moves on.
LEMMA GoroutineFrame ==
    ASSUME HandoverInv, OwnershipInv',
           UNCHANGED <<dockerNets, phase, event, networks, endpoints, handler, cache, watcher, rec>>,
           \A o \in Objects : obj'[o].id = obj[o].id /\ obj'[o].key = obj[o].key,
           \A o \in Objects, k \in Kinds : start'[o][k] = "idle" <=> start[o][k] = "idle",
           \A o \in Objects : start[o]["recover"] \in {"failed", "done"}
                                 => start'[o]["recover"] \in {"failed", "done"}
    PROVE  HandoverInv'
<1>1. /\ OwnershipInv /\ Kept /\ Orphaned /\ Looking /\ Apart
      /\ Joins /\ Keyed /\ Woken /\ Networked /\ NetworkRegistered
  BY DEF HandoverInv
<1>2. /\ \A o \in Objects : Recovered(o)' <=> Recovered(o)
      /\ \A o \in Objects : Active(o)' => Active(o)
      /\ \A e \in Endpoints : Heard(e)' <=> Heard(e)
  BY <1>1, PointerTypes DEF Recovered, Active, Heard
<1>3. Kept'
  BY <1>1, <1>2 DEF Kept
<1>4. Orphaned' /\ Looking' /\ Networked' /\ NetworkRegistered'
  BY <1>1 DEF Orphaned, Looking, Heard, Networked, NetworkRegistered
<1>5. Apart'
  BY <1>1, <1>2, PointerTypes DEF Apart, Heard
<1>6. Joins' /\ Keyed'
  BY <1>1, <1>2, PointerTypes DEF Joins, Keyed
<1>7. Woken'
  BY <1>1, <1>2, PointerTypes DEF Woken
<1> QED
  BY <1>3, <1>4, <1>5, <1>6, <1>7 DEF HandoverInv

\* An endpoint is on its way out.
LEMMA PassFrame ==
    ASSUME HandoverInv, OwnershipInv', NEW e \in Endpoints,
           NEW p \in {"leaving", "left", "deleting", "deleted"},
           phase' = [phase EXCEPT ![e] = p],
           phase[e] \in InUse,
           UNCHANGED <<dockerNets, event, networks, watcher, rec, start>>,
           \A f \in Endpoints : f # e => handler'[f] = handler[f],
           endpoints' = endpoints \/ (p = "deleted" /\ endpoints' = [endpoints EXCEPT ![e] = None]),
           \A o \in Objects : obj'[o].id = obj[o].id /\ obj'[o].key = obj[o].key,
           cache' \subseteq cache
    PROVE  HandoverInv'
<1>1. /\ OwnershipInv /\ Kept /\ Orphaned /\ Looking /\ Apart
      /\ Joins /\ Keyed /\ Woken /\ Networked /\ NetworkRegistered
  BY DEF HandoverInv
<1>2. /\ phase'[e] = p /\ \A f \in Endpoints : f # e => phase'[f] = phase[f]
      /\ \A f \in Endpoints : endpoints'[f] = endpoints[f]
                                 \/ (f = e /\ p = "deleted" /\ endpoints'[f] = None)
  BY <1>1 DEF OwnershipInv, TypeOK, Types
<1>3. /\ \A o : Recovered(o)' <=> Recovered(o)
      /\ \A o : Active(o)' <=> Active(o)
      /\ \A f : Heard(f)' <=> Heard(f)
  BY DEF Recovered, Active, Heard
<1>4. Kept'
  <2>1. ASSUME NEW o \in Objects, Active(o)'
        PROVE  endpoints'[obj'[o].id] = o \/ phase'[obj'[o].id] = "deleted"
    <3>1. Active(o) /\ Recovered(o)
      BY <1>3, <2>1 DEF Active
    <3>2. obj[o].id \in Endpoints
      BY <1>1, <3>1, PointerTypes DEF Apart
    <3>3. endpoints[obj[o].id] = o \/ phase[obj[o].id] = "deleted"
      BY <1>1, <3>1 DEF Kept
    <3> QED
      BY <1>2, <3>2, <3>3 DEF InUse, Attached, Sandboxed, Joining
  <2> QED
    BY <2>1 DEF Kept
<1>5. Orphaned' /\ Looking'
  BY <1>1, <1>2, <1>3, PointerTypes DEF Orphaned, Looking, Attached, Sandboxed, Joining
<1>6. Apart'
  BY <1>1, <1>2, <1>3, PointerTypes DEF Apart, Joining
<1>7. Joins' /\ Keyed'
  BY <1>1, <1>2, <1>3, PointerTypes DEF Joins, Keyed, Joining
<1>8. Woken'
  BY <1>1, <1>2, <1>3, PointerTypes DEF Woken
<1>9. Networked' /\ NetworkRegistered'
  BY <1>1, <1>2, PointerTypes DEF Networked, NetworkRegistered
<1> QED
  BY <1>4, <1>5, <1>6, <1>7, <1>8, <1>9 DEF HandoverInv

\* A recovery moves on without an object.
LEMMA RecoveryMoves ==
    ASSUME HandoverInv, OwnershipInv', NEW r \in Recoverers,
           UNCHANGED <<dockerNets, phase, event, endpoints, handler, obj, cache, watcher, start>>,
           networks \subseteq networks',
           rec[r].obj = None, rec'[r].obj = None,
           \A q \in Recoverers : q # r => rec'[q] = rec[q],
           rec'[r].pc = "inspect" => Heard(rec'[r].e) \/ phase[rec'[r].e] \notin Attached,
           rec'[r].pc \in {"network", "insert", "setkey", "publish"} =>
              Heard(rec'[r].e) /\ phase[rec'[r].e] \notin {"absent", "refused", "created"},
           rec'[r].pc = "insert" => NetworkOf[rec'[r].e] \in networks'
    PROVE  HandoverInv'
<1>1. /\ OwnershipInv /\ Kept /\ Orphaned /\ Looking /\ Apart
      /\ Joins /\ Keyed /\ Woken /\ Networked /\ NetworkRegistered
  BY DEF HandoverInv
<1>2. /\ \A o \in Objects : Recovered(o)' <=> Recovered(o)
      /\ \A o \in Objects : Active(o)' <=> Active(o)
      /\ \A f : Heard(f)' <=> Heard(f)
  BY NoneAssumption DEF Recovered, Active, Heard
<1>3. Kept' /\ Orphaned'
  BY <1>1, <1>2 DEF Kept, Orphaned, Heard
<1>4. Looking'
  BY <1>1, <1>2 DEF Looking, Heard
<1>5. Apart'
  BY <1>1, <1>2, PointerTypes DEF Apart, Heard
<1>6. Joins' /\ Keyed' /\ Woken'
  BY <1>1, <1>2, PointerTypes DEF Joins, Keyed, Woken
<1>7. Networked' /\ NetworkRegistered'
  BY <1>1 DEF Networked, NetworkRegistered
<1> QED
  BY <1>3, <1>4, <1>5, <1>6, <1>7 DEF HandoverInv

\* The watcher moves on, or an event comes or goes.
LEMMA WatcherMoves ==
    ASSUME HandoverInv, OwnershipInv',
           UNCHANGED <<dockerNets, phase, networks, endpoints, handler, obj, rec, start>>,
           \A e \in Endpoints : Heard(e) => Heard(e)',
           Woken'
    PROVE  HandoverInv'
<1>1. /\ OwnershipInv /\ Kept /\ Orphaned /\ Looking /\ Apart
      /\ Joins /\ Keyed /\ Woken /\ Networked /\ NetworkRegistered
  BY DEF HandoverInv
<1>2. /\ \A o : Recovered(o)' <=> Recovered(o)
      /\ \A o : Active(o)' <=> Active(o)
  BY DEF Recovered, Active
<1>3. Kept' /\ Joins' /\ Keyed' /\ Networked' /\ NetworkRegistered'
  BY <1>1, <1>2, PointerTypes DEF Kept, Joins, Keyed, Networked, NetworkRegistered
<1>4. Orphaned' /\ Looking'
  BY <1>1, PointerTypes DEF Orphaned, Looking
<1>5. Apart'
  BY <1>1, <1>2, PointerTypes DEF Apart
<1> QED
  BY <1>3, <1>4, <1>5 DEF HandoverInv

-----------------------------------------------------------------------------
(* Docker's calls *)

LEMMA NetworkCalls ==
    ASSUME HandoverInv, OwnershipInv', NEW n \in Networks,
           CreateNetwork(n) \/ DeleteNetwork(n)
    PROVE  HandoverInv'
<1>1. /\ OwnershipInv /\ Kept /\ Orphaned /\ Looking /\ Apart
      /\ Joins /\ Keyed /\ Woken /\ Networked /\ NetworkRegistered
  BY DEF HandoverInv
<1>2. UNCHANGED <<phase, event, endpoints, handler, obj, cache, watcher, rec, start>>
  BY DEF CreateNetwork, DeleteNetwork
<1>3. \A e \in Endpoints : phase[e] \in InUse =>
         /\ NetworkOf[e] \in dockerNets'
         /\ NetworkOf[e] \in networks => NetworkOf[e] \in networks'
  BY <1>1 DEF CreateNetwork, DeleteNetwork, Networked
<1>4. Networked' /\ NetworkRegistered'
  BY <1>1, <1>2, <1>3, PointerTypes DEF Networked, NetworkRegistered
<1>5. Kept' /\ Orphaned' /\ Looking' /\ Apart'
  BY <1>1, <1>2 DEF Kept, Orphaned, Looking, Apart, Active, Recovered, Heard
<1>6. Joins' /\ Keyed' /\ Woken'
  BY <1>1, <1>2 DEF Joins, Keyed, Woken, Recovered
<1> QED
  BY <1>4, <1>5, <1>6 DEF HandoverInv

LEMMA CreateEndpointHands ==
    ASSUME HandoverInv, OwnershipInv', NEW e \in Endpoints, CreateEndpoint(e)
    PROVE  HandoverInv'
<1>1. /\ OwnershipInv /\ Kept /\ Orphaned /\ Looking /\ Apart
      /\ Joins /\ Keyed /\ Woken /\ Networked /\ NetworkRegistered
  BY DEF HandoverInv
<1>2. UNCHANGED <<dockerNets, event, networks, handler, cache, watcher, rec, start>>
  BY DEF CreateEndpoint
<1>3. /\ \A o : Recovered(o)' <=> Recovered(o)
      /\ \A o : Active(o)' <=> Active(o)
      /\ \A f : Heard(f)' <=> Heard(f)
  BY <1>2 DEF Recovered, Active, Heard
<1>4. /\ phase[e] = "absent" /\ phase'[e] \in {"created", "refused"}
      /\ \A f \in Endpoints : f # e => phase'[f] = phase[f] /\ endpoints'[f] = endpoints[f]
      /\ phase'[e] = "created" =>
            NetworkOf[e] \in networks /\ NetworkOf[e] \in dockerNets /\ endpoints'[e] # None
      /\ \A o \in Objects : obj[o].id # None => obj'[o] = obj[o]
  <2>1. TypeOK /\ phase[e] = "absent"
    BY <1>1 DEF CreateEndpoint, OwnershipInv
  <2>2. CASE To(e, "refused") /\ UNCHANGED <<obj, endpoints>>
    BY <2>1, <2>2 DEF TypeOK, Types, To
  <2>3. CASE /\ NetworkOf[e] \in networks /\ To(e, "created")
             /\ \E o \in Objects :
                   /\ Fresh(o)
                   /\ obj' = [obj EXCEPT ![o] = NewEndpoint(e)]
                   /\ endpoints' = [endpoints EXCEPT ![e] = o]
    <3>1. PICK o \in Objects :
             /\ obj[o].id = None
             /\ obj' = [obj EXCEPT ![o] = NewEndpoint(e)]
             /\ endpoints' = [endpoints EXCEPT ![e] = o]
      BY <2>3 DEF Fresh
    <3>2. \A p \in Objects : obj[p].id # None => obj'[p] = obj[p]
      BY <2>1, <3>1 DEF TypeOK, Types
    <3>3. endpoints'[e] = o /\ \A f \in Endpoints : f # e => endpoints'[f] = endpoints[f]
      BY <2>1, <3>1 DEF TypeOK, Types
    <3>4. phase'[e] = "created" /\ \A f \in Endpoints : f # e => phase'[f] = phase[f]
      BY <2>1, <2>3 DEF TypeOK, Types, To
    <3>5. NetworkOf[e] \in networks /\ NetworkOf[e] \in dockerNets
      BY <2>3 DEF CreateEndpoint
    <3> QED
      BY <2>1, <3>2, <3>3, <3>4, <3>5
  <2> QED
    BY <2>2, <2>3 DEF CreateEndpoint
<1>5. \A o \in Objects : Recovered(o) => obj[o].id \in Endpoints \ {e} /\ obj'[o] = obj[o]
  BY <1>1, <1>4, PointerTypes DEF Apart
<1>6. Kept' /\ Apart'
  BY <1>1, <1>2, <1>3, <1>4, <1>5 DEF Kept, Apart, Active
<1>7. Orphaned' /\ Looking'
  <2>1. \A r \in Recoverers : rec[r].pc \in {"inspect", "network", "insert", "setkey", "publish"}
            => rec[r].e \in Endpoints \ {e}
    BY <1>1, <1>4, PointerTypes DEF OwnershipInv, Registry
  <2> QED
    BY <1>1, <1>2, <1>3, <1>4, <2>1 DEF Orphaned, Looking, Attached, Sandboxed, Joining
<1>8. \A f \in Endpoints : phase'[f] \in Joining \cup {"joined"} =>
         /\ f # e /\ phase'[f] = phase[f] /\ endpoints'[f] = endpoints[f]
         /\ endpoints[f] # None => obj'[endpoints[f]] = obj[endpoints[f]]
  BY <1>1, <1>4, PointerTypes DEF Joining
<1>9. Joins' /\ Keyed' /\ Woken'
  BY <1>1, <1>2, <1>3, <1>8 DEF Joins, Keyed, Woken, Joining
<1>10. Networked' /\ NetworkRegistered'
  BY <1>1, <1>2, <1>4, PointerTypes DEF Networked, NetworkRegistered, InUse, Attached, Sandboxed, Joining, OwnershipInv, Registry
<1> QED
  BY <1>6, <1>7, <1>9, <1>10 DEF HandoverInv

LEMMA JoinLookupHands ==
    ASSUME HandoverInv, OwnershipInv', NEW e \in Endpoints, JoinLookup(e)
    PROVE  HandoverInv'
<1>1. /\ OwnershipInv /\ Kept /\ Orphaned /\ Looking /\ Apart
      /\ Joins /\ Keyed /\ Woken /\ Networked /\ NetworkRegistered
  BY DEF HandoverInv
<1>2. phase[e] = "created" /\ UNCHANGED <<dockerNets, event, networks, endpoints, obj, cache, watcher, rec, start>>
  BY DEF JoinLookup, regVars
<1>3. CASE endpoints[e] = None
  BY <1>2, <1>3, PassFrame DEF JoinLookup, To, InUse, Attached
<1>4. CASE endpoints[e] # None
  <2>1. /\ phase'[e] = "linking" /\ handler'[e] = endpoints[e]
        /\ \A f \in Endpoints : f # e => phase'[f] = phase[f] /\ handler'[f] = handler[f]
    BY <1>1, <1>4 DEF JoinLookup, To, OwnershipInv, TypeOK, Types
  <2>2. /\ \A o : Recovered(o)' <=> Recovered(o)
        /\ \A o : Active(o)' <=> Active(o)
        /\ \A f : Heard(f)' <=> Heard(f)
    BY <1>2 DEF Recovered, Active, Heard
  <2>3. \A o \in Objects : Recovered(o) => obj[o].id \in Endpoints \ {e}
    BY <1>1, <1>2, PointerTypes DEF Apart
  <2>4. Kept' /\ Apart'
    BY <1>1, <1>2, <2>1, <2>2, <2>3 DEF Kept, Apart, Active
  <2>5. Orphaned' /\ Looking'
    BY <1>1, <1>2, <2>1, <2>2, PointerTypes DEF Orphaned, Looking, Attached, Sandboxed, Joining
  <2>6. Joins' /\ Keyed' /\ Woken'
    BY <1>1, <1>2, <2>1, <2>2 DEF Joins, Keyed, Woken
  <2>7. Networked' /\ NetworkRegistered'
    BY <1>1, <1>2, <2>1, PointerTypes DEF Networked, NetworkRegistered, InUse, Attached
  <2> QED
    BY <2>4, <2>5, <2>6, <2>7 DEF HandoverInv
<1> QED
  BY <1>3, <1>4

\* Join proceeds from one of its steps to another, with the same object.
LEMMA JoinFrame ==
    ASSUME HandoverInv, OwnershipInv', NEW e \in Endpoints, NEW p \in {"storing", "asking"},
           phase[e] \in Joining, phase' = [phase EXCEPT ![e] = p],
           UNCHANGED <<dockerNets, event, networks, endpoints, handler, cache, watcher, rec, start>>,
           \A o \in Objects : obj'[o].id = obj[o].id,
           Keyed'
    PROVE  HandoverInv'
<1>1. /\ OwnershipInv /\ Kept /\ Orphaned /\ Looking /\ Apart
      /\ Joins /\ Keyed /\ Woken /\ Networked /\ NetworkRegistered
  BY DEF HandoverInv
<1>2. /\ phase'[e] = p
      /\ \A f \in Endpoints : f # e => phase'[f] = phase[f]
  BY <1>1 DEF OwnershipInv, TypeOK, Types
<1>3. /\ \A o : Recovered(o)' <=> Recovered(o)
      /\ \A o : Active(o)' <=> Active(o)
      /\ \A f : Heard(f)' <=> Heard(f)
  BY DEF Recovered, Active, Heard
<1>4. \A f \in Endpoints : /\ phase'[f] \in Joining <=> phase[f] \in Joining
                           /\ phase'[f] \in Attached <=> phase[f] \in Attached
                           /\ phase'[f] \in InUse <=> phase[f] \in InUse
                           /\ phase'[f] \in {"absent", "refused", "created"}
                                 <=> phase[f] \in {"absent", "refused", "created"}
                           /\ phase'[f] = "deleted" <=> phase[f] = "deleted"
                           /\ phase'[f] = "joined" <=> phase[f] = "joined"
  BY <1>2 DEF Joining, Attached, Sandboxed, InUse
<1>5. Kept' /\ Apart'
  BY <1>1, <1>3, <1>4, PointerTypes DEF Kept, Apart, Active
<1>6. Orphaned' /\ Looking'
  BY <1>1, <1>3, <1>4, PointerTypes DEF Orphaned, Looking
<1>7. Joins' /\ Woken'
  BY <1>1, <1>3, <1>4, PointerTypes DEF Joins, Woken
<1>8. Networked' /\ NetworkRegistered'
  BY <1>1, <1>4, PointerTypes DEF Networked, NetworkRegistered
<1> QED
  BY <1>5, <1>6, <1>7, <1>8 DEF HandoverInv

LEMMA JoinNetworkHands ==
    ASSUME HandoverInv, OwnershipInv', NEW e \in Endpoints, JoinNetwork(e)
    PROVE  HandoverInv'
<1>1. OwnershipInv /\ Keyed
  BY DEF HandoverInv
<1>2. phase[e] = "linking" /\ UNCHANGED <<dockerNets, event, networks, endpoints, obj, cache, watcher, rec, start>>
  BY DEF JoinNetwork, regVars
<1>3. CASE phase' = [phase EXCEPT ![e] = "storing"] /\ UNCHANGED handler
  <2>1. Keyed'
    BY <1>1, <1>2, <1>3 DEF Keyed, Recovered, OwnershipInv, TypeOK, Types
  <2> QED
    BY <1>2, <1>3, <2>1, JoinFrame DEF Joining
<1>4. CASE phase' = [phase EXCEPT ![e] = "left"] /\ handler' = [handler EXCEPT ![e] = None]
  <2>1. \A f \in Endpoints : f # e => handler'[f] = handler[f]
    BY <1>1, <1>4 DEF OwnershipInv, TypeOK, Types
  <2> QED
    BY <1>2, <1>4, <2>1, PassFrame DEF InUse, Attached, Sandboxed, Joining
<1> QED
  BY <1>3, <1>4 DEF JoinNetwork, To

LEMMA JoinStoreHands ==
    ASSUME HandoverInv, OwnershipInv', NEW e \in Endpoints, JoinStore(e)
    PROVE  HandoverInv'
<1>1. OwnershipInv /\ Keyed /\ Joins
  BY DEF HandoverInv
<1>2. /\ phase[e] = "storing" /\ phase' = [phase EXCEPT ![e] = "asking"]
      /\ UNCHANGED <<dockerNets, event, networks, endpoints, handler, cache, watcher, rec, start>>
  BY DEF JoinStore, regVars, To
<1>3. handler[e] \in Objects
  BY <1>1, <1>2 DEF OwnershipInv, TypeOK, Pointers, Joining
<1>4. /\ obj'[handler[e]].key
      /\ \A o \in Objects : obj'[o].id = obj[o].id /\ (obj[o].key => obj'[o].key)
  BY <1>1, <1>3 DEF JoinStore, OwnershipInv, TypeOK, Types, EndpointRec
<1>5. Keyed'
  <2>1. ASSUME NEW f \in Endpoints, phase'[f] \in {"asking", "joined"}, endpoints'[f] # None
        PROVE  obj'[endpoints'[f]].key \/ Recovered(endpoints[f])
    <3>1. CASE f = e
      BY <1>1, <1>2, <1>4, <2>1, <3>1 DEF Joins, Joining
    <3>2. CASE f # e
      <4>1. phase[f] \in {"asking", "joined"}
        BY <1>1, <1>2, <2>1, <3>2 DEF OwnershipInv, TypeOK, Types
      <4> QED
        BY <1>1, <1>2, <1>4, <2>1, <4>1, PointerTypes DEF Keyed
    <3> QED
      BY <3>1, <3>2
  <2> QED
    BY <1>2, <2>1 DEF Keyed, Recovered
<1> QED
  BY <1>2, <1>4, <1>5, JoinFrame DEF Joining

\* A goroutine is spawned for an object a recovery has not made.
LEMMA SpawnHands ==
    ASSUME OwnershipInv, Apart, NEW o \in Objects, NEW k \in {"join", "event"},
           Spawn(o, k), ~Recovered(o), UNCHANGED <<rec>>
    PROVE  /\ \A p \in Objects : Recovered(p)' <=> Recovered(p)
           /\ \A p \in Objects : Active(p)' <=> Active(p)
           /\ \A p \in Objects : Recovered(p) =>
                 start'[p]["join"] = "idle" /\ start'[p]["event"] = "idle"
           /\ start'[o][k] = "check"
           /\ \A p \in Objects, j \in Kinds : start[p][j] # "idle" => start'[p][j] # "idle"
<1>1. start \in [Objects -> [Kinds -> StartPCs]] /\ k \in Kinds
  BY DEF OwnershipInv, TypeOK, Types, Kinds
<1>2. /\ start'[o][k] = "check"
      /\ \A p \in Objects, j \in Kinds : p # o \/ j # k => start'[p][j] = start[p][j]
  BY <1>1 DEF Spawn
<1>3. \A p \in Objects : start'[p]["recover"] = start[p]["recover"]
  BY <1>2 DEF Kinds
<1>4. \A p \in Objects : Recovered(p) =>
         start'[p]["join"] = "idle" /\ start'[p]["event"] = "idle"
  BY <1>2 DEF Apart, Kinds
<1>5. \A p \in Objects, j \in Kinds : start[p][j] # "idle" => start'[p][j] # "idle"
  BY <1>2
<1> QED
  BY <1>2, <1>3, <1>4, <1>5 DEF Recovered, Active

LEMMA JoinCacheHands ==
    ASSUME HandoverInv, OwnershipInv', NEW e \in Endpoints, JoinCache(e)
    PROVE  HandoverInv'
<1>1. /\ OwnershipInv /\ Kept /\ Orphaned /\ Looking /\ Apart
      /\ Joins /\ Keyed /\ Woken /\ Networked /\ NetworkRegistered
  BY DEF HandoverInv
<1> DEFINE o == handler[e]
<1>2. /\ phase[e] = "asking" /\ phase'[e] = "joined" /\ handler'[e] = None
      /\ \A f \in Endpoints : f # e => phase'[f] = phase[f] /\ handler'[f] = handler[f]
      /\ UNCHANGED <<dockerNets, event, networks, endpoints, obj, cache, watcher, rec>>
  BY <1>1 DEF JoinCache, To, OwnershipInv, TypeOK, Types, regVars
<1>3. o \in Objects /\ obj[o].id = e
  BY <1>1, <1>2 DEF OwnershipInv, TypeOK, Pointers, Registry, Joining
<1>4. ~Recovered(o)
  BY <1>1, <1>2, <1>3 DEF Apart, Joining
<1>5. /\ \A p \in Objects : Recovered(p)' <=> Recovered(p)
      /\ \A p \in Objects : Active(p)' <=> Active(p)
      /\ \A p \in Objects : Recovered(p) =>
            start'[p]["join"] = "idle" /\ start'[p]["event"] = "idle"
      /\ e \in cache => start'[o]["join"] # "idle"
      /\ \A p \in Objects, j \in Kinds : start[p][j] # "idle" => start'[p][j] # "idle"
  <2>1. CASE e \in cache
    <3>1. Spawn(o, "join")
      BY <2>1 DEF JoinCache
    <3> HIDE DEF o
    <3> QED
      BY <1>1, <1>2, <1>3, <1>4, <3>1, SpawnHands
  <2>2. CASE e \notin cache
    BY <1>1, <1>2, <2>2 DEF JoinCache, Recovered, Active, Apart
  <2> QED
    BY <2>1, <2>2
<1>6. \A f : Heard(f)' <=> Heard(f)
  BY <1>2 DEF Heard
<1> HIDE DEF o
<1>7. Kept' /\ Apart'
  <2>1. Kept'
    <3>1. ASSUME NEW p \in Objects, Active(p)
          PROVE  endpoints[obj[p].id] = p \/ phase'[obj[p].id] = "deleted"
      BY <1>1, <1>2, <3>1, PointerTypes DEF Kept, Apart, Active
    <3> QED
      BY <1>2, <1>5, <3>1 DEF Kept
  <2>2. Apart'
    BY <1>1, <1>2, <1>5, <1>6, PointerTypes DEF Apart, Joining
  <2> QED
    BY <2>1, <2>2
<1>8. Orphaned' /\ Looking'
  BY <1>1, <1>2, <1>6, PointerTypes DEF Orphaned, Looking, Attached, Sandboxed, Joining
<1>9. Joins' /\ Keyed'
  BY <1>1, <1>2, <1>5, PointerTypes DEF Joins, Keyed, Joining
<1>10. Woken'
  <2>1. ASSUME NEW f \in Endpoints, phase'[f] = "joined", f \in cache, endpoints[f] # None
        PROVE  \/ \E k \in Kinds : start'[endpoints[f]][k] # "idle"
               \/ Recovered(endpoints[f])
               \/ watcher.e = f /\ (watcher.pc \in {"store", "lookup"} \/ watcher.obj = endpoints[f])
    <3>1. CASE f = e
      BY <1>1, <1>2, <1>5, <2>1, <3>1, PointerTypes DEF Joins, Joining, o
    <3>2. CASE f # e
      BY <1>1, <1>2, <1>5, <2>1, <3>2, PointerTypes DEF Woken
    <3> QED
      BY <3>1, <3>2
  <2> QED
    BY <1>2, <1>5, <2>1, PointerTypes, <1>1 DEF Woken
<1>11. Networked' /\ NetworkRegistered'
  BY <1>1, <1>2, PointerTypes DEF Networked, NetworkRegistered, InUse, Attached, Sandboxed, Joining
<1> QED
  BY <1>7, <1>8, <1>9, <1>10, <1>11 DEF HandoverInv

\* Who takes a supervisor away leaves identity and sandbox key.
LEMMA TakeSupKeeps ==
    ASSUME OwnershipInv, NEW o \in Objects, TakeSup(o)
    PROVE  \A p \in Objects : obj'[p].id = obj[p].id /\ obj'[p].key = obj[p].key
  BY DEF TakeSup, OwnershipInv, TypeOK, Types, EndpointRec

LEMMA LeavingHands ==
    ASSUME HandoverInv, OwnershipInv', NEW e \in Endpoints,
           LeaveTake(e) \/ LeaveCleanup(e) \/ DeleteTake(e) \/ DeleteRemove(e) \/ DockerProceeds(e)
    PROVE  HandoverInv'
<1>1. OwnershipInv /\ TypeOK
  BY DEF HandoverInv, OwnershipInv
<1> USE DEF InUse, Attached, Sandboxed
<1>2. CASE LeaveTake(e)
  <2>1. /\ \A f \in Endpoints : f # e => handler'[f] = handler[f]
        /\ \A o \in Objects : obj'[o].id = obj[o].id /\ obj'[o].key = obj[o].key
    BY <1>1, <1>2 DEF LeaveTake, TakeSup, TypeOK, Types, EndpointRec
  <2>2. \E p \in {"leaving", "left"} : phase' = [phase EXCEPT ![e] = p]
    BY <1>2 DEF LeaveTake, To
  <2> QED
    BY <1>2, <2>1, <2>2, PassFrame DEF LeaveTake
<1>3. CASE LeaveCleanup(e)
  <2>1. \A f \in Endpoints : f # e => handler'[f] = handler[f]
    BY <1>1, <1>3 DEF LeaveCleanup, TypeOK, Types
  <2> QED
    BY <1>3, <2>1, PassFrame DEF LeaveCleanup, To
<1>4. CASE DeleteTake(e)
  <2>1. \A o \in Objects : obj'[o].id = obj[o].id /\ obj'[o].key = obj[o].key
    <3>1. UNCHANGED obj \/ (TakeSup(endpoints[e]) /\ endpoints[e] \in Objects)
      BY <1>1, <1>4 DEF DeleteTake, TypeOK, Types
    <3> QED
      BY <1>1, <3>1, TakeSupKeeps
  <2>2. \E p \in {"deleting", "deleted"} : phase' = [phase EXCEPT ![e] = p]
    BY <1>4 DEF DeleteTake, To
  <2>3. cache' \subseteq cache
    BY <1>4 DEF DeleteTake
  <2> QED
    BY <1>4, <2>1, <2>2, <2>3, PassFrame DEF DeleteTake
<1>5. CASE DeleteRemove(e)
  BY <1>5, PassFrame DEF DeleteRemove, To
<1>6. CASE DockerProceeds(e)
  BY <1>6, PassFrame DEF DockerProceeds, To, regVars
<1> QED
  BY <1>2, <1>3, <1>4, <1>5, <1>6

-----------------------------------------------------------------------------
(* Events and the watcher *)

LEMMA EventHands ==
    ASSUME HandoverInv, OwnershipInv', NEW e \in Endpoints, ConnectEvent(e) \/ StreamError(e)
    PROVE  HandoverInv'
<1>1. OwnershipInv /\ Woken
  BY DEF HandoverInv
<1>2. UNCHANGED <<dockerNets, phase, networks, endpoints, handler, obj, cache, watcher, rec, start>>
  BY DEF ConnectEvent, StreamError, regVars
<1>3. \A f \in Endpoints : Heard(f) => Heard(f)'
  BY <1>1, <1>2 DEF Heard, ConnectEvent, StreamError, OwnershipInv, TypeOK, Types
<1>4. Woken'
  BY <1>1, <1>2 DEF Woken, Recovered
<1> QED
  BY <1>2, <1>3, <1>4, WatcherMoves

LEMMA WatcherReceiveHands ==
    ASSUME HandoverInv, OwnershipInv', NEW e \in Endpoints, WatcherReceive(e)
    PROVE  HandoverInv'
<1>1. OwnershipInv /\ Woken /\ TypeOK
  BY DEF HandoverInv, OwnershipInv
<1>2. /\ watcher.pc = "idle" /\ event[e] = "queued"
      /\ UNCHANGED <<dockerNets, phase, networks, endpoints, handler, obj, cache, rec, start>>
      /\ event' = [event EXCEPT ![e] = "gone"]
      /\ watcher' = watcher \/ watcher' = [watcher EXCEPT !.pc = "store", !.e = e]
  BY DEF WatcherReceive, regVars
<1>3. watcher.obj = None /\ watcher \in WatcherRec
  BY <1>1, <1>2 DEF TypeOK, Types, Pointers
<1>4. \A f \in Endpoints : Heard(f) => Heard(f)'
  BY <1>1, <1>2, <1>3 DEF Heard, TypeOK, Types, WatcherRec
<1>5. Woken'
  BY <1>1, <1>2, <1>3, PointerTypes DEF Woken, Recovered
<1> QED
  BY <1>2, <1>4, <1>5, WatcherMoves

LEMMA WatcherStoreHands ==
    ASSUME HandoverInv, OwnershipInv', WatcherStore
    PROVE  HandoverInv'
<1>1. OwnershipInv /\ Woken /\ watcher \in WatcherRec
  BY DEF HandoverInv, OwnershipInv, TypeOK, Types
<1>2. /\ watcher.pc = "store" /\ cache' = cache \cup {watcher.e}
      /\ watcher'.pc = "lookup" /\ watcher'.e = watcher.e /\ watcher'.obj = watcher.obj
      /\ UNCHANGED <<dockerNets, phase, event, networks, endpoints, handler, obj, rec, start>>
  BY <1>1 DEF WatcherStore, WatcherRec, regVars, dockerVars
<1>3. Woken'
  BY <1>1, <1>2 DEF Woken, Recovered
<1>4. \A f \in Endpoints : Heard(f) => Heard(f)'
  BY <1>2 DEF Heard
<1> QED
  BY <1>2, <1>3, <1>4, WatcherMoves

\* What the watcher looks at is the registered object, and one that has started
\* has had a start.
LEMMA WatcherLooks ==
    ASSUME HandoverInv, OwnershipInv', WatcherLookup \/ WatcherStarted
    PROVE  HandoverInv'
<1>1. OwnershipInv /\ Woken /\ TypeOK /\ watcher \in WatcherRec /\ SupervisorOwnership
  BY DEF HandoverInv, OwnershipInv, TypeOK, Types
<1>2. /\ UNCHANGED <<dockerNets, phase, event, networks, endpoints, handler, obj, cache, rec, start>>
      /\ watcher' = IdleWatcher \/ watcher'.e = watcher.e
  BY <1>1 DEF WatcherLookup, WatcherStarted, WatcherRec, regVars, dockerVars
<1>3. IdleWatcher.e = None
  BY DEF IdleWatcher
<1>4. \A f \in Endpoints : Heard(f) => Heard(f)'
  BY <1>2, <1>3 DEF Heard
<1>5. CASE WatcherLookup
  <2>1. watcher.pc = "lookup" /\ watcher.e \in Endpoints /\ watcher.obj = None
    BY <1>1, <1>5 DEF WatcherLookup, TypeOK, Pointers
  <2>2. IF endpoints[watcher.e] = None
        THEN watcher' = IdleWatcher
        ELSE watcher'.e = watcher.e /\ watcher'.obj = endpoints[watcher.e]
    BY <1>1, <1>5 DEF WatcherLookup, WatcherRec
  <2>3. Woken'
    BY <1>1, <1>2, <2>1, <2>2 DEF Woken, Recovered
  <2> QED
    BY <1>2, <1>4, <2>3, WatcherMoves
<1>6. CASE WatcherStarted
  <2>1. watcher.pc = "started" /\ watcher.obj \in Objects
    BY <1>1, <1>6 DEF WatcherStarted, TypeOK, Types, Pointers, WatcherRec
  <2>2. IF obj[watcher.obj].started
        THEN watcher' = IdleWatcher
        ELSE watcher'.e = watcher.e /\ watcher'.obj = watcher.obj
    BY <1>1, <1>6 DEF WatcherStarted, WatcherRec
  <2>3. obj[watcher.obj].started => \E k \in Kinds : start[watcher.obj][k] # "idle"
    <3>1. obj[watcher.obj].sup \in Kinds \cup {None}
      BY <1>1, <2>1 DEF TypeOK, Types, EndpointRec
    <3> QED
      BY <1>1, <2>1, <3>1 DEF SupervisorOwnership
  <2>4. Woken'
    BY <1>1, <1>2, <2>1, <2>2, <2>3 DEF Woken, Recovered
  <2> QED
    BY <1>2, <1>4, <2>4, WatcherMoves
<1> QED
  BY <1>5, <1>6

LEMMA WatcherKeyHands ==
    ASSUME HandoverInv, OwnershipInv', WatcherKey
    PROVE  HandoverInv'
<1>1. /\ OwnershipInv /\ Kept /\ Orphaned /\ Looking /\ Apart
      /\ Joins /\ Keyed /\ Woken /\ Networked /\ NetworkRegistered
  BY DEF HandoverInv
<1> DEFINE o == watcher.obj
<1>2. /\ watcher.pc = "key" /\ o \in Objects /\ obj[o].id = watcher.e /\ watcher.e \in Endpoints
  BY <1>1 DEF WatcherKey, OwnershipInv, TypeOK, Types, Pointers, Registry, WatcherRec
<1>3. /\ UNCHANGED <<dockerNets, phase, event, networks, endpoints, handler, obj, cache, rec>>
      /\ watcher' = IdleWatcher
  BY DEF WatcherKey, regVars, dockerVars
<1>4. IdleWatcher.e = None /\ \A f \in Endpoints : Heard(f) => Heard(f)'
  BY <1>3 DEF Heard, IdleWatcher
<1>5. ~Recovered(o)
  BY <1>1, <1>2 DEF Apart, Heard
<1>6. /\ \A p \in Objects : Recovered(p)' <=> Recovered(p)
      /\ \A p \in Objects : Active(p)' <=> Active(p)
      /\ \A p \in Objects : Recovered(p) =>
            start'[p]["join"] = "idle" /\ start'[p]["event"] = "idle"
      /\ obj[o].key => start'[o]["event"] # "idle"
      /\ \A p \in Objects, j \in Kinds : start[p][j] # "idle" => start'[p][j] # "idle"
  <2>1. CASE obj[o].key
    <3>1. Spawn(o, "event")
      BY <2>1 DEF WatcherKey
    <3> HIDE DEF o
    <3> QED
      BY <1>1, <1>2, <1>3, <1>5, <3>1, SpawnHands
  <2>2. CASE ~obj[o].key
    BY <1>1, <1>3, <2>2 DEF WatcherKey, Recovered, Active, Apart
  <2> QED
    BY <2>1, <2>2
<1>7. Kept' /\ Joins' /\ Keyed' /\ Networked' /\ NetworkRegistered'
  BY <1>1, <1>3, <1>6, PointerTypes DEF Kept, Joins, Keyed, Networked, NetworkRegistered
<1>8. Orphaned' /\ Looking'
  BY <1>1, <1>3, <1>4, PointerTypes DEF Orphaned, Looking
<1>9. Apart'
  BY <1>1, <1>3, <1>4, <1>6, PointerTypes DEF Apart
<1>10. Woken'
  <2>1. ASSUME NEW f \in Endpoints, phase[f] = "joined", f \in cache, endpoints[f] # None
        PROVE  \/ \E k \in Kinds : start'[endpoints[f]][k] # "idle"
               \/ Recovered(endpoints[f])
    <3>1. obj[endpoints[f]].key \/ Recovered(endpoints[f])
      BY <1>1, <2>1 DEF Keyed
    <3>2. CASE endpoints[f] = o
      BY <1>5, <1>6, <3>1, <3>2, PointerTypes DEF Kinds
    <3>3. CASE endpoints[f] # o
      BY <1>1, <1>2, <1>6, <2>1, <3>3, PointerTypes DEF Woken
    <3> QED
      BY <3>2, <3>3
  <2> QED
    BY <1>1, <1>3, <1>6, <2>1, PointerTypes DEF Woken
<1> QED
  BY <1>7, <1>8, <1>9, <1>10 DEF HandoverInv

-----------------------------------------------------------------------------
(* Recoveries *)

LEMMA RecoveryHands ==
    ASSUME HandoverInv, OwnershipInv', NEW r \in Recoverers,
           \/ RecoverList(r) \/ RecoverEnd(r) \/ RecoverExists(r)
           \/ RecoverInspect(r) \/ RecoverNetwork(r)
    PROVE  HandoverInv'
<1>1. /\ OwnershipInv /\ Orphaned /\ Looking /\ TypeOK
      /\ rec \in [Recoverers -> RecoveryRec]
  BY DEF HandoverInv, OwnershipInv, TypeOK, Types
<1>2. /\ UNCHANGED <<dockerNets, phase, event, endpoints, handler, obj, cache, watcher, start>>
      /\ networks \subseteq networks'
  BY DEF RecoverList, RecoverEnd, RecoverExists, RecoverInspect, RecoverNetwork, dockerVars, regVars
<1>3. /\ rec[r].pc \in {"wait", "scan", "inspect", "network"} /\ rec[r].obj = None
  BY <1>1, PointerTypes DEF RecoverList, RecoverEnd, RecoverExists, RecoverInspect, RecoverNetwork,
     TypeOK, Pointers
<1>4. \A q \in Recoverers : q # r => rec'[q] = rec[q]
  BY <1>1 DEF RecoverList, RecoverEnd, RecoverExists, RecoverInspect, RecoverNetwork
<1>5. \A q \in Recoverers : rec'[q] \in RecoveryRec /\ (rec'[q].obj # None => rec'[q].pc \in {"setkey", "publish"})
  BY DEF OwnershipInv, TypeOK, Types, Pointers
<1>6. Over(r) \in {"wait", "done"} /\ Scanning(r).pc = "scan" /\ [Scanning(r) EXCEPT !.todo = {e \in Endpoints : phase[e] \in Attached}].pc = "scan"
  BY <1>1 DEF Over, Scanning, RecoveryRec
<1>7. CASE RecoverList(r) \/ RecoverEnd(r)
  <2>1. rec'[r].pc \in {"wait", "scan", "done"}
    BY <1>1, <1>6, <1>7 DEF RecoverList, RecoverEnd, RecoveryRec
  <2> QED
    BY <1>2, <1>3, <1>4, <1>5, <2>1, RecoveryMoves
<1>8. CASE RecoverExists(r)
  <2>1. PICK e \in Endpoints :
           /\ rec'[r].pc = "scan" \/ (rec'[r].pc = "inspect" /\ rec'[r].e = e /\ endpoints[e] = None)
    BY <1>1, <1>8 DEF RecoverExists, RecoveryRec
  <2>2. rec'[r].pc = "inspect" => Heard(rec'[r].e) \/ phase[rec'[r].e] \notin Attached
    BY <1>1, <2>1 DEF Orphaned
  <2> QED
    BY <1>2, <1>3, <1>4, <1>5, <2>1, <2>2, RecoveryMoves
<1>9. CASE RecoverInspect(r)
  <2>1. rec[r].pc = "inspect"
    BY <1>9 DEF RecoverInspect
  <2>2. \/ rec'[r].pc = "scan"
        \/ rec'[r].pc = "network" /\ rec'[r].e = rec[r].e /\ phase[rec[r].e] \in Sandboxed
    BY <1>1, <1>6, <1>9 DEF RecoverInspect, RecoveryRec
  <2>3. rec'[r].pc = "network" =>
           Heard(rec'[r].e) /\ phase[rec'[r].e] \notin {"absent", "refused", "created"}
    BY <1>1, <2>1, <2>2 DEF Looking, Attached, Sandboxed, Joining
  <2> QED
    BY <1>2, <1>3, <1>4, <1>5, <2>2, <2>3, RecoveryMoves
<1>10. CASE RecoverNetwork(r)
  <2>1. rec[r].pc = "network"
    BY <1>10 DEF RecoverNetwork
  <2>2. \/ rec'[r].pc = "scan"
        \/ rec'[r].pc = "insert" /\ rec'[r].e = rec[r].e /\ NetworkOf[rec[r].e] \in networks'
    BY <1>1, <1>6, <1>10 DEF RecoverNetwork, RecoveryRec
  <2>3. rec'[r].pc = "insert" =>
           Heard(rec'[r].e) /\ phase[rec'[r].e] \notin {"absent", "refused", "created"}
    BY <1>1, <2>1, <2>2 DEF Looking
  <2> QED
    BY <1>2, <1>3, <1>4, <1>5, <2>2, <2>3, RecoveryMoves
<1> QED
  BY <1>7, <1>8, <1>9, <1>10

\* The object goes in: nobody else's start for the endpoint is under way.
LEMMA RecoverInsertHands ==
    ASSUME HandoverInv, OwnershipInv', NEW r \in Recoverers, RecoverInsert(r)
    PROVE  HandoverInv'
<1>1. /\ OwnershipInv /\ Kept /\ Orphaned /\ Looking /\ Apart
      /\ Joins /\ Keyed /\ Woken /\ Networked /\ NetworkRegistered
  BY DEF HandoverInv
<1> DEFINE e == rec[r].e
<1>2. /\ rec \in [Recoverers -> RecoveryRec] /\ obj \in [Objects -> EndpointRec]
      /\ endpoints \in [Endpoints -> Objects \cup {None}]
  BY <1>1 DEF OwnershipInv, TypeOK, Types
<1>3. /\ rec[r].pc = "insert" /\ rec[r].obj = None /\ e \in Endpoints
      /\ Heard(e) /\ phase[e] \notin {"absent", "refused", "created"}
      /\ phase[e] \in InUse => NetworkOf[e] \in networks
  BY <1>1, PointerTypes DEF RecoverInsert, Looking, Networked
<1>4. UNCHANGED <<dockerNets, phase, event, networks, handler, cache, watcher, start>>
  BY DEF RecoverInsert, dockerVars
<1>5. CASE rec' = [rec EXCEPT ![r] = Scanning(r)] /\ UNCHANGED <<obj, endpoints>>
  <2>1. rec'[r].pc = "scan" /\ rec'[r].obj = None /\ \A q \in Recoverers : q # r => rec'[q] = rec[q]
    BY <1>2, <1>5 DEF Scanning, RecoveryRec
  <2> QED
    BY <1>3, <1>4, <1>5, <2>1, RecoveryMoves
<1>6. ASSUME NEW o \in Objects, Fresh(o), endpoints[e] = None,
             obj' = [obj EXCEPT ![o] = NewEndpoint(e)],
             endpoints' = [endpoints EXCEPT ![e] = o],
             rec' = [rec EXCEPT ![r].pc = "setkey", ![r].obj = o]
      PROVE  HandoverInv'
  <2>1. /\ rec'[r].pc = "setkey" /\ rec'[r].obj = o /\ rec'[r].e = e
        /\ \A q \in Recoverers : q # r => rec'[q] = rec[q]
    BY <1>2, <1>6 DEF RecoveryRec
  <2>2. /\ obj[o].id = None /\ obj'[o].id = e
        /\ \A p \in Objects : p # o => obj'[p] = obj[p]
    BY <1>2, <1>6 DEF Fresh, NewEndpoint
  <2>3. /\ endpoints'[e] = o
        /\ \A f \in Endpoints : f # e => endpoints'[f] = endpoints[f]
    BY <1>2, <1>3, <1>6
  <2> HIDE DEF e
  <2>4. /\ ~Recovered(o) /\ Recovered(o)' /\ \A k \in Kinds : start[o][k] = "idle"
        /\ \A p \in Objects : p # o => (Recovered(p)' <=> Recovered(p))
        /\ \A p \in Objects : p # o => (Active(p)' <=> Active(p))
    BY <1>1, <1>3, <1>4, <2>1, <2>2 DEF Recovered, Active, Apart, OwnershipInv, FreshIdle
  <2>5. \A f : Heard(f)' <=> Heard(f)
    BY <1>4 DEF Heard
  <2>6. \A f \in Endpoints : endpoints[f] # None =>
           endpoints[f] # o /\ f # e /\ obj'[endpoints[f]] = obj[endpoints[f]]
    BY <1>1, <1>6, <2>2, PointerTypes DEF e
  <2>7. Kept'
    <3>1. ASSUME NEW p \in Objects, p # o, Active(p)
          PROVE  endpoints'[obj[p].id] = p \/ phase[obj[p].id] = "deleted"
      <4>1. obj[p].id \in Endpoints
        BY <1>1, <3>1, PointerTypes DEF Apart, Active
      <4>2. endpoints[obj[p].id] = p \/ phase[obj[p].id] = "deleted"
        BY <1>1, <3>1 DEF Kept
      <4> QED
        BY <2>3, <2>6, <4>1, <4>2
    <3> QED
      BY <1>4, <2>2, <2>3, <2>4, <3>1 DEF Kept
  <2>8. Apart'
    <3>1. ASSUME NEW p \in Objects, p # o, Recovered(p)
          PROVE  /\ obj[p].id # None
                 /\ Heard(obj[p].id)
                 /\ phase[obj[p].id] \notin {"absent", "refused", "created"}
                 /\ phase[obj[p].id] \in Joining => handler[obj[p].id] # p
                 /\ start[p]["join"] = "idle" /\ start[p]["event"] = "idle"
      BY <1>1, <3>1 DEF Apart
    <3>2. handler[e] # o
      BY <1>1, <1>3, <2>2 DEF OwnershipInv, Registry, e
    <3>3. start[o]["join"] = "idle" /\ start[o]["event"] = "idle" /\ e # None
      BY <1>3, <2>4 DEF Kinds, e
    <3>4. Heard(e) /\ phase[e] \notin {"absent", "refused", "created"}
      BY <1>3 DEF e
    <3>5. ASSUME NEW p \in Objects, Recovered(p)'
          PROVE  /\ obj'[p].id # None
                 /\ Heard(obj'[p].id)
                 /\ phase[obj'[p].id] \notin {"absent", "refused", "created"}
                 /\ phase[obj'[p].id] \in Joining => handler[obj'[p].id] # p
                 /\ start[p]["join"] = "idle" /\ start[p]["event"] = "idle"
      <4>1. CASE p = o
        BY <2>2, <3>2, <3>3, <3>4, <4>1
      <4>2. CASE p # o
        BY <2>2, <2>4, <3>1, <3>5, <4>2
      <4> QED
        BY <4>1, <4>2
    <3> QED
      BY <1>4, <2>5, <3>5 DEF Apart, Heard
  <2>9. Orphaned' /\ Looking'
    BY <1>1, <1>3, <1>4, <1>6, <2>1, <2>3, <2>5, PointerTypes DEF Orphaned, Looking, e
  <2>10. /\ \E q \in Recoverers : rec'[q].obj = o
         /\ \A p \in Objects : (\E q \in Recoverers : rec[q].obj = p)
                                 => \E q \in Recoverers : rec'[q].obj = p
    BY <1>3, <2>1
  <2>11. Joins' /\ Keyed'
    <3>1. Joins'
      BY <1>1, <1>4, <2>3, <2>6, <2>10, PointerTypes DEF Joins, Recovered
    <3>2. Keyed'
      BY <1>1, <1>4, <2>3, <2>6, <2>10, PointerTypes DEF Keyed, Recovered
    <3> QED
      BY <3>1, <3>2
  <2>12. Woken'
    BY <1>1, <1>4, <2>3, <2>6, <2>10, PointerTypes DEF Woken, Recovered
  <2>13. Networked' /\ NetworkRegistered'
    BY <1>1, <1>3, <1>4, <2>1, <2>3, PointerTypes DEF Networked, NetworkRegistered, e
  <2> QED
    BY <2>7, <2>8, <2>9, <2>11, <2>12, <2>13 DEF HandoverInv
<1> QED
  BY <1>5, <1>6 DEF RecoverInsert

LEMMA RecoverSetKeyHands ==
    ASSUME HandoverInv, OwnershipInv', NEW r \in Recoverers, RecoverSetKey(r)
    PROVE  HandoverInv'
<1>1. /\ OwnershipInv /\ Kept /\ Orphaned /\ Looking /\ Apart
      /\ Joins /\ Keyed /\ Woken /\ Networked /\ NetworkRegistered
  BY DEF HandoverInv
<1> DEFINE o == rec[r].obj
<1>2. /\ rec[r].pc = "setkey" /\ o \in Objects
      /\ obj' = [obj EXCEPT ![o].key = TRUE]
      /\ rec' = [rec EXCEPT ![r].pc = "publish"]
      /\ UNCHANGED <<dockerNets, phase, event, networks, endpoints, handler, cache, watcher, start>>
  BY <1>1, PointerTypes DEF RecoverSetKey, dockerVars, regVars
<1> HIDE DEF o
<1>3. /\ \A q \in Recoverers : rec'[q].e = rec[q].e /\ rec'[q].obj = rec[q].obj
      /\ \A q \in Recoverers : rec'[q].pc = rec[q].pc
                                  \/ (rec[q].pc = "setkey" /\ rec'[q].pc = "publish")
      /\ \A p \in Objects : obj'[p].id = obj[p].id /\ (obj[p].key => obj'[p].key)
  BY <1>1, <1>2 DEF OwnershipInv, TypeOK, Types, RecoveryRec, EndpointRec
<1>4. /\ \A p : Recovered(p)' <=> Recovered(p)
      /\ \A p : Active(p)' <=> Active(p)
      /\ \A f : Heard(f)' <=> Heard(f)
  BY <1>2, <1>3 DEF Recovered, Active, Heard
<1>5. Kept' /\ Apart'
  BY <1>1, <1>2, <1>3, <1>4, PointerTypes DEF Kept, Apart, Heard
<1>6. Orphaned' /\ Looking'
  BY <1>1, <1>2, <1>3 DEF Orphaned, Looking, Heard
<1>7. Joins' /\ Keyed' /\ Woken'
  BY <1>1, <1>2, <1>3, PointerTypes DEF Joins, Keyed, Woken, Recovered
<1>8. Networked' /\ NetworkRegistered'
  BY <1>1, <1>2, <1>3 DEF Networked, NetworkRegistered
<1> QED
  BY <1>5, <1>6, <1>7, <1>8 DEF HandoverInv

\* The cache gets the endpoint of the very object that is given a start.
LEMMA RecoverPublishHands ==
    ASSUME HandoverInv, OwnershipInv', NEW r \in Recoverers, RecoverPublish(r)
    PROVE  HandoverInv'
<1>1. /\ OwnershipInv /\ Kept /\ Orphaned /\ Looking /\ Apart
      /\ Joins /\ Keyed /\ Woken /\ Networked /\ NetworkRegistered
  BY DEF HandoverInv
<1> DEFINE o == rec[r].obj
           e == rec[r].e
<1>2. /\ rec[r].pc = "publish" /\ o \in Objects /\ e \in Endpoints /\ obj[o].id = e
      /\ start' = [start EXCEPT ![o]["recover"] = "check"]
      /\ rec' = [rec EXCEPT ![r] = Scanning(r)]
      /\ cache' = cache \cup {e}
      /\ UNCHANGED <<dockerNets, phase, event, networks, endpoints, handler, obj, watcher>>
      /\ start[o]["recover"] = "idle"
  BY <1>1, PointerTypes DEF RecoverPublish, Spawn, dockerVars, regVars, OwnershipInv, RecoverOnce
<1>3. /\ rec'[r].pc = "scan" /\ rec'[r].obj = None
      /\ \A q \in Recoverers : q # r => rec'[q] = rec[q]
      /\ \A q \in Recoverers : q # r => rec[q].obj # o
  <2>1. rec \in [Recoverers -> RecoveryRec]
    BY <1>1 DEF OwnershipInv, TypeOK, Types
  <2>2. rec'[r] = Scanning(r) /\ \A q \in Recoverers : q # r => rec'[q] = rec[q]
    BY <1>2, <2>1
  <2>3. Scanning(r).pc = "scan" /\ Scanning(r).obj = None
    BY <2>1 DEF Scanning, RecoveryRec
  <2>4. \A q \in Recoverers : q # r => rec[q].obj # o
    BY <1>1, <1>2 DEF OwnershipInv, RecoverOnce
  <2> QED
    BY <2>2, <2>3, <2>4
<1>4. Recovered(o)
  BY DEF Recovered
<1>5. endpoints[e] = o \/ phase[e] = "deleted"
  BY <1>1, <1>2, <1>4 DEF Kept, Active
<1> HIDE DEF o
<1>6. /\ start'[o]["recover"] = "check"
      /\ \A p \in Objects : /\ p # o => start'[p] = start[p]
                            /\ \A k \in Kinds : start[p][k] # "idle" => start'[p][k] # "idle"
                            /\ start'[p]["join"] = start[p]["join"]
                            /\ start'[p]["event"] = start[p]["event"]
  BY <1>1, <1>2 DEF OwnershipInv, TypeOK, Types, Kinds
<1>7. \A p \in Objects : Recovered(p)' <=> Recovered(p)
  BY <1>2, <1>3, <1>4, <1>6 DEF Recovered, o
<1>8. \A p \in Objects : Active(p)' <=> Active(p)
  <2>1. \A p \in Objects : p # o => start'[p]["recover"] = start[p]["recover"]
    BY <1>6
  <2>2. start[o]["recover"] = "idle"
    BY <1>2
  <2> QED
    BY <1>6, <1>7, <2>1, <2>2 DEF Active
<1>9. \A f : Heard(f)' <=> Heard(f)
  BY <1>2 DEF Heard
<1>10. Kept' /\ Apart'
  <2>1. Kept'
    BY <1>1, <1>2, <1>8 DEF Kept
  <2>2. Apart'
    BY <1>1, <1>2, <1>6, <1>7, PointerTypes DEF Apart, Heard
  <2> QED
    BY <2>1, <2>2
<1>11. Orphaned' /\ Looking'
  BY <1>1, <1>2, <1>3 DEF Orphaned, Looking, Heard
<1>12. \A p \in Objects :
          (start[p]["recover"] # "idle" \/ \E q \in Recoverers : rec[q].obj = p)
             => (start'[p]["recover"] # "idle" \/ \E q \in Recoverers : rec'[q].obj = p)
  BY <1>7 DEF Recovered
<1>13. Joins' /\ Keyed'
  BY <1>1, <1>2, <1>12, PointerTypes DEF Joins, Keyed, Recovered
<1>14. Woken'
  <2>1. ASSUME NEW f \in Endpoints, phase[f] = "joined", f \in cache \cup {e}, endpoints[f] # None
        PROVE  \/ \E k \in Kinds : start'[endpoints[f]][k] # "idle"
               \/ \E q \in Recoverers : rec'[q].obj = endpoints[f]
               \/ watcher.e = f /\ (watcher.pc \in {"store", "lookup"} \/ watcher.obj = endpoints[f])
    <3>1. CASE f = e
      BY <1>5, <1>6, <2>1, <3>1, PointerTypes, <1>1
    <3>2. CASE f # e
      <4>1. endpoints[f] \in Objects
        BY <1>1, <2>1, PointerTypes
      <4> QED
        BY <1>1, <1>6, <1>12, <2>1, <3>2, <4>1 DEF Woken, Recovered, Kinds
    <3> QED
      BY <3>1, <3>2
  <2> QED
    BY <1>2, <2>1 DEF Woken, Recovered
<1>15. Networked' /\ NetworkRegistered'
  BY <1>1, <1>2, <1>3 DEF Networked, NetworkRegistered
<1> QED
  BY <1>10, <1>11, <1>13, <1>14, <1>15 DEF HandoverInv

-----------------------------------------------------------------------------
(* Starts, loops, the end of the plugin *)

LEMMA StartHands ==
    ASSUME HandoverInv, OwnershipInv', NEW o \in Objects, NEW k \in Kinds,
           \/ StartCheck(o, k) \/ StartLaunch(o, k) \/ StartUp(o, k)
           \/ StartWaitIP(o, k) \/ StartStore(o, k)
    PROVE  HandoverInv'
<1>1. /\ OwnershipInv /\ start \in [Objects -> [Kinds -> StartPCs]]
      /\ obj \in [Objects -> EndpointRec]
  BY DEF HandoverInv, OwnershipInv, TypeOK, Types
<1>2. UNCHANGED <<dockerNets, phase, event, networks, endpoints, handler, cache, watcher, rec>>
  BY DEF StartCheck, StartLaunch, StartUp, StartWaitIP, StartStore, dockerVars, regVars
<1>3. \A p \in Objects : obj'[p].id = obj[p].id /\ obj'[p].key = obj[p].key
  BY <1>1 DEF StartCheck, StartLaunch, StartUp, StartWaitIP, StartStore, EndpointRec
<1>4. /\ start[o][k] \in {"check", "prepare", "starting", "waitIP", "store"}
      /\ \E pc \in StartPCs \ {"idle"} : start' = [start EXCEPT ![o][k] = pc]
  BY DEF StartCheck, StartLaunch, StartUp, StartWaitIP, StartStore, At, Go, Fail, StartPCs
<1>5. /\ \A p \in Objects, j \in Kinds : start'[p][j] = "idle" <=> start[p][j] = "idle"
      /\ \A p \in Objects, j \in Kinds : start[p][j] \in {"failed", "done"} => start'[p][j] = start[p][j]
  BY <1>1, <1>4
<1> QED
  BY <1>2, <1>3, <1>5, GoroutineFrame DEF Kinds

LEMMA LoopHands ==
    ASSUME HandoverInv, OwnershipInv',
           \/ \E o \in Objects, k \in Kinds : SupStops(o, k) \/ SupGivesUp(o, k)
           \/ Restart \/ ShutdownBegin
           \/ \E o \in Objects : ShutdownStop(o)
           \/ UNCHANGED vars
    PROVE  HandoverInv'
<1>1. OwnershipInv
  BY DEF HandoverInv
<1>2. /\ UNCHANGED <<dockerNets, phase, event, networks, endpoints, handler, cache, watcher, rec, start>>
      /\ UNCHANGED obj \/ \E o \in Objects : TakeSup(o)
  BY DEF SupStops, SupGivesUp, Restart, ShutdownBegin, ShutdownStop, vars, dockerVars, regVars, procVars
<1>3. ASSUME NEW o \in Objects, TakeSup(o)
      PROVE  \A p \in Objects : obj'[p].id = obj[p].id /\ obj'[p].key = obj[p].key
  BY <1>1, <1>3, TakeSupKeeps
<1> QED
  BY <1>2, <1>3, GoroutineFrame

\* The recovery's goroutine takes out its own object, if the endpoint is not gone.
LEMMA StartUnregisterHands ==
    ASSUME HandoverInv, OwnershipInv', NEW o \in Objects, StartUnregister(o)
    PROVE  HandoverInv'
<1>1. /\ OwnershipInv /\ Kept /\ Orphaned /\ Looking /\ Apart
      /\ Joins /\ Keyed /\ Woken /\ Networked /\ NetworkRegistered
  BY DEF HandoverInv
<1> DEFINE e == obj[o].id
<1>2. /\ start[o]["recover"] = "unregister"
      /\ start' = [start EXCEPT ![o]["recover"] = "failed"]
      /\ endpoints' = [endpoints EXCEPT ![e] = None]
      /\ UNCHANGED <<dockerNets, phase, event, networks, handler, obj, cache, watcher, rec>>
  BY DEF StartUnregister, Go, dockerVars
<1>3. Recovered(o) /\ Active(o)
  BY <1>2 DEF Active, Recovered
<1>4. /\ e \in Endpoints /\ Heard(e)
      /\ endpoints[e] = o \/ phase[e] = "deleted"
  BY <1>1, <1>3, PointerTypes DEF Apart, Kept
<1> HIDE DEF e
<1>5. /\ endpoints'[e] = None
      /\ \A f \in Endpoints : f # e => endpoints'[f] = endpoints[f]
      /\ \A f \in Endpoints : endpoints'[f] # None => f # e /\ endpoints'[f] = endpoints[f]
  BY <1>1, <1>2, <1>4 DEF OwnershipInv, TypeOK, Types
<1>6. /\ start'[o]["recover"] = "failed"
      /\ \A p \in Objects, j \in Kinds : start'[p][j] = "idle" <=> start[p][j] = "idle"
      /\ \A p \in Objects : p # o => start'[p] = start[p]
  BY <1>1, <1>2 DEF OwnershipInv, TypeOK, Types, Kinds
<1>7. /\ \A p \in Objects : Recovered(p)' <=> Recovered(p)
      /\ \A p \in Objects : Active(p)' => Active(p) /\ p # o
      /\ \A f : Heard(f)' <=> Heard(f)
  BY <1>2, <1>6, PointerTypes, <1>1 DEF Recovered, Active, Heard
<1>8. Kept'
  <2>1. ASSUME NEW p \in Objects, Active(p), p # o
        PROVE  endpoints'[obj[p].id] = p \/ phase[obj[p].id] = "deleted"
    <3>1. obj[p].id \in Endpoints /\ (endpoints[obj[p].id] = p \/ phase[obj[p].id] = "deleted")
      BY <1>1, <2>1, PointerTypes DEF Kept, Apart, Active
    <3> QED
      BY <1>4, <1>5, <2>1, <3>1
  <2> QED
    BY <1>2, <1>7, <2>1 DEF Kept
<1>9. Apart'
  BY <1>1, <1>2, <1>6, <1>7, PointerTypes DEF Apart, Heard
<1>10. Orphaned' /\ Looking'
  BY <1>1, <1>2, <1>4, <1>5 DEF Orphaned, Looking, Heard
<1>11. \A p \in Objects :
          (start[p]["recover"] # "idle" \/ \E q \in Recoverers : rec[q].obj = p)
             => (start'[p]["recover"] # "idle" \/ \E q \in Recoverers : rec'[q].obj = p)
  BY <1>7 DEF Recovered
<1>12. Joins' /\ Keyed'
  BY <1>1, <1>2, <1>5, <1>11, PointerTypes DEF Joins, Keyed, Recovered
<1>13. Woken'
  BY <1>1, <1>2, <1>5, <1>6, <1>11, PointerTypes DEF Woken, Recovered
<1>14. Networked' /\ NetworkRegistered'
  BY <1>1, <1>2, <1>5 DEF Networked, NetworkRegistered
<1> QED
  BY <1>8, <1>9, <1>10, <1>12, <1>13, <1>14 DEF HandoverInv

LEMMA ProcessEndsHands ==
    ASSUME HandoverInv, OwnershipInv', ProcessEnds
    PROVE  HandoverInv'
<1>1. OwnershipInv /\ Networked
  BY DEF HandoverInv
<1>2. /\ \A e \in Endpoints : endpoints'[e] = None
      /\ cache' = {} /\ watcher'.e = None
      /\ \A r \in Recoverers : rec'[r].pc = "wait" /\ rec'[r].obj = None
      /\ \A o \in Objects : start'[o]["recover"] = "idle"
      /\ dockerNets' = dockerNets
  BY DEF ProcessEnds, IdleWatcher, WaitingRec, Kinds
<1>3. \A e \in Endpoints :
         /\ phase'[e] \in InUse => phase[e] \in InUse
         /\ phase'[e] \in Attached => phase[e] \notin {"absent", "refused"}
  BY DEF ProcessEnds, InUse, Attached, Sandboxed, Joining
<1>4. \A e \in Endpoints : phase[e] \notin {"absent", "refused"} => event'[e] = "gone"
  BY DEF ProcessEnds
<1>5. \A o \in Objects : ~Recovered(o)'
  BY <1>2 DEF Recovered
<1>6. Kept' /\ Apart'
  BY <1>5 DEF Kept, Apart, Active
<1>7. Orphaned' /\ Looking'
  BY <1>2, <1>3, <1>4 DEF Orphaned, Looking, Heard
<1>8. Joins' /\ Keyed' /\ Woken'
  BY <1>2 DEF Joins, Keyed, Woken
<1>9. Networked' /\ NetworkRegistered'
  BY <1>1, <1>2, <1>3 DEF Networked, NetworkRegistered
<1> QED
  BY <1>6, <1>7, <1>8, <1>9 DEF HandoverInv

-----------------------------------------------------------------------------
(* The invariant *)

\* So it is in the first state.
LEMMA HandoverInit == Init => HandoverInv
<1> SUFFICES ASSUME Init PROVE HandoverInv
  OBVIOUS
<1>1. OwnershipInv
  BY InitInv
<1>2. /\ \A e \in Endpoints : phase[e] = "absent" /\ endpoints[e] = None
      /\ cache = {}
      /\ \A r \in Recoverers : rec[r].pc = "wait" /\ rec[r].obj = None
      /\ \A o \in Objects : start[o]["recover"] = "idle"
  BY DEF Init, FreshProcess, WaitingRec, Kinds
<1>3. Kept /\ Apart
  BY <1>2 DEF Kept, Apart, Active, Recovered
<1>4. Orphaned /\ Looking /\ Joins /\ Keyed /\ Woken
  BY <1>2 DEF Orphaned, Looking, Joins, Keyed, Woken, Attached, Sandboxed, Joining
<1>5. Networked /\ NetworkRegistered
  BY <1>2 DEF Networked, NetworkRegistered, InUse, Attached, Sandboxed, Joining
<1> QED
  BY <1>1, <1>3, <1>4, <1>5 DEF HandoverInv

\* Every step keeps it.
LEMMA HandoverStep == HandoverInv /\ [Next]_vars => HandoverInv'
<1> SUFFICES ASSUME HandoverInv, [Next]_vars PROVE HandoverInv'
  OBVIOUS
<1>0. OwnershipInv'
  BY StepInv DEF HandoverInv
<1>1. ASSUME NEW n \in Networks, CreateNetwork(n) \/ DeleteNetwork(n)
      PROVE  HandoverInv'
  BY <1>0, <1>1, NetworkCalls
<1>2. ASSUME NEW e \in Endpoints, CreateEndpoint(e) \/ JoinLookup(e)
      PROVE  HandoverInv'
  BY <1>0, <1>2, CreateEndpointHands, JoinLookupHands
<1>3. ASSUME NEW e \in Endpoints, LeaveTake(e) \/ DeleteTake(e) \/ DockerProceeds(e)
      PROVE  HandoverInv'
  BY <1>0, <1>3, LeavingHands
<1>4. ASSUME NEW e \in Endpoints, CallStep(e)
      PROVE  HandoverInv'
  BY <1>0, <1>4, JoinNetworkHands, JoinStoreHands, JoinCacheHands, LeavingHands DEF CallStep
<1>5. ASSUME NEW e \in Endpoints, ConnectEvent(e) \/ StreamError(e) \/ WatcherReceive(e)
      PROVE  HandoverInv'
  BY <1>0, <1>5, EventHands, WatcherReceiveHands
<1>6. CASE WatcherStep
  BY <1>0, <1>6, WatcherStoreHands, WatcherLooks, WatcherKeyHands DEF WatcherStep
<1>7. ASSUME NEW r \in Recoverers, RecoverStep(r)
      PROVE  HandoverInv'
  BY <1>0, <1>7, RecoveryHands, RecoverInsertHands, RecoverSetKeyHands, RecoverPublishHands
     DEF RecoverStep
<1>8. ASSUME NEW o \in Objects, NEW k \in Kinds, StartStep(o, k)
      PROVE  HandoverInv'
  BY <1>0, <1>8, StartHands, StartUnregisterHands DEF StartStep
<1>9. CASE Crash \/ ShutdownDone \/ ShutdownTimesOut
  BY <1>0, <1>9, ProcessEndsHands DEF Crash, ShutdownDone, ShutdownTimesOut
<1>10. CASE \/ \E o \in Objects, k \in Kinds : SupStops(o, k) \/ SupGivesUp(o, k)
            \/ Restart \/ ShutdownBegin
            \/ \E o \in Objects : ShutdownStop(o)
            \/ UNCHANGED vars
  BY <1>0, <1>10, LoopHands
<1> QED
  BY <1>1, <1>2, <1>3, <1>4, <1>5, <1>6, <1>7, <1>8, <1>9, <1>10 DEF Next

-----------------------------------------------------------------------------
(* Theorems *)

\* In every reachable state of every instance a start that a recovery has made
\* an object for is its own affair, and Join, watcher and cache are in step.
THEOREM HandoverInvariant == Spec => []HandoverInv
<1>1. Init => HandoverInv
  BY HandoverInit
<1>2. HandoverInv /\ [Next]_vars => HandoverInv'
  BY HandoverStep
<1> QED
  BY <1>1, <1>2, PTL DEF Spec

\* Join and the watcher never both leave the start to the other, nor does a
\* recovery leave it to them (driver.go:109-146, 314-327, events.go:177-181).
THEOREM NobodyWaits == Spec => []NoLostWakeup
<1>1. HandoverInv => NoLostWakeup
  <2> SUFFICES ASSUME HandoverInv, NEW e \in Endpoints,
                      phase[e] = "joined", e \in cache, endpoints[e] # None,
                      watcher.e # e, \A r \in Recoverers : rec[r].e # e
               PROVE  \E k \in Kinds : start[endpoints[e]][k] # "idle"
    BY DEF NoLostWakeup
  <2>1. OwnershipInv /\ Woken
    BY DEF HandoverInv
  <2> QED
    BY <2>1, PointerTypes DEF Woken, Recovered
<1> QED
  BY <1>1, HandoverInvariant, PTL

\* A failed recovery takes only its own object out of the registry, one that
\* nobody else has started (driver.go:588-596, 613-620).
THEOREM UnregistersItsOwn == Spec => UnregistersOnlyFailed
<1>1. HandoverInv =>
         [\A o \in Objects : StartUnregister(o) =>
             /\ phase[obj[o].id] # "deleted" => endpoints[obj[o].id] \in {o, None}
             /\ \A k \in Kinds \ {"recover"} : start[o][k] = "idle"]_vars
  <2> SUFFICES ASSUME HandoverInv, NEW o \in Objects, StartUnregister(o)
               PROVE  /\ phase[obj[o].id] # "deleted" => endpoints[obj[o].id] \in {o, None}
                      /\ \A k \in Kinds \ {"recover"} : start[o][k] = "idle"
    OBVIOUS
  <2>1. Kept /\ Apart
    BY DEF HandoverInv
  <2>2. Recovered(o) /\ Active(o)
    BY DEF StartUnregister, Recovered, Active
  <2> QED
    BY <2>1, <2>2 DEF Kept, Apart, Kinds
<1> QED
  BY <1>1, HandoverInvariant, PTL DEF UnregistersOnlyFailed

\* A network with an endpoint that Docker counts and the registry knows is
\* registered, restarts or not (driver.go:227-231, 547-568).
THEOREM NetworksComeBack == Spec => []NetworkRegistered
<1>1. HandoverInv => NetworkRegistered
  BY DEF HandoverInv
<1> QED
  BY <1>1, HandoverInvariant, PTL

-----------------------------------------------------------------------------
(* What runs can be reached *)

\* An object is in the registry from its allocation to DeleteEndpoint, but for
\* one whose recovery has failed.
Registered ==
    \A o \in Objects : obj[o].id # None /\ start[o]["recover"] # "failed"
       => endpoints[obj[o].id] = o \/ phase[obj[o].id] = "deleted"

ReachInv == HandoverInv /\ Registered

\* Most steps leave the registry alone, and what is over stays over.
LEMMA RegistryKept ==
    ASSUME ReachInv,
           UNCHANGED endpoints,
           \A o \in Objects : obj'[o].id = obj[o].id,
           \A e \in Endpoints : phase[e] = "deleted" => phase'[e] = "deleted",
           \A o \in Objects : start[o]["recover"] = "failed" => start'[o]["recover"] = "failed"
    PROVE  Registered'
<1>1. \A o \in Objects : obj[o].id \in Endpoints \cup {None}
  BY PointerTypes DEF ReachInv, HandoverInv
<1> QED
  BY <1>1 DEF ReachInv, Registered

\* What the types say of what the registry depends on.
LEMMA RegistryTypes ==
    ASSUME ReachInv
    PROVE  /\ OwnershipInv
           /\ obj \in [Objects -> EndpointRec]
           /\ phase \in [Endpoints -> Phases]
           /\ start \in [Objects -> [Kinds -> StartPCs]]
           /\ endpoints \in [Endpoints -> Objects \cup {None}]
           /\ "recover" \in Kinds /\ "join" \in Kinds /\ "event" \in Kinds
  BY DEF ReachInv, HandoverInv, OwnershipInv, TypeOK, Types, Kinds

\* Steps that touch neither objects nor starts, and leave what is deleted alone.
LEMMA LooksRegister ==
    ASSUME ReachInv,
           \/ \E n \in Networks : CreateNetwork(n) \/ DeleteNetwork(n)
           \/ \E e \in Endpoints :
                 \/ JoinLookup(e) \/ JoinNetwork(e) \/ LeaveCleanup(e)
                 \/ ConnectEvent(e) \/ DockerProceeds(e) \/ StreamError(e) \/ WatcherReceive(e)
           \/ WatcherStore \/ WatcherLookup \/ WatcherStarted
           \/ \E r \in Recoverers :
                 \/ RecoverList(r) \/ RecoverEnd(r) \/ RecoverExists(r) \/ RecoverInspect(r)
                 \/ RecoverNetwork(r)
           \/ Restart \/ ShutdownBegin \/ UNCHANGED vars
    PROVE  Registered'
<1>1. UNCHANGED <<endpoints, obj, start>>
  <2>1. CASE \E n \in Networks : CreateNetwork(n) \/ DeleteNetwork(n)
    BY <2>1 DEF CreateNetwork, DeleteNetwork
  <2>2. CASE \E e \in Endpoints : JoinLookup(e) \/ JoinNetwork(e) \/ LeaveCleanup(e)
    BY <2>2 DEF JoinLookup, JoinNetwork, LeaveCleanup, regVars
  <2>3. CASE \E e \in Endpoints :
                ConnectEvent(e) \/ DockerProceeds(e) \/ StreamError(e) \/ WatcherReceive(e)
    BY <2>3 DEF ConnectEvent, DockerProceeds, StreamError, WatcherReceive, regVars
  <2>4. CASE WatcherStore \/ WatcherLookup \/ WatcherStarted
    BY <2>4 DEF WatcherStore, WatcherLookup, WatcherStarted, regVars
  <2>5. CASE \E r \in Recoverers : RecoverList(r) \/ RecoverEnd(r) \/ RecoverExists(r)
    BY <2>5 DEF RecoverList, RecoverEnd, RecoverExists, regVars
  <2>6. CASE \E r \in Recoverers : RecoverInspect(r) \/ RecoverNetwork(r)
    BY <2>6 DEF RecoverInspect, RecoverNetwork, regVars
  <2>7. CASE Restart \/ ShutdownBegin \/ UNCHANGED vars
    BY <2>7 DEF Restart, ShutdownBegin, vars, regVars
  <2> QED
    BY <2>1, <2>2, <2>3, <2>4, <2>5, <2>6, <2>7
<1>2. UNCHANGED phase \/ \E e \in Endpoints, p \in Phases : phase[e] # "deleted" /\ To(e, p)
  <2>1. CASE \E n \in Networks : CreateNetwork(n) \/ DeleteNetwork(n)
    BY <2>1 DEF CreateNetwork, DeleteNetwork
  <2>2. CASE \E e \in Endpoints : JoinLookup(e) \/ JoinNetwork(e) \/ LeaveCleanup(e)
    BY <2>2 DEF JoinLookup, JoinNetwork, LeaveCleanup, Phases
  <2>3. CASE \E e \in Endpoints :
                ConnectEvent(e) \/ DockerProceeds(e) \/ StreamError(e) \/ WatcherReceive(e)
    BY <2>3 DEF ConnectEvent, DockerProceeds, StreamError, WatcherReceive, Phases
  <2>4. CASE WatcherStore \/ WatcherLookup \/ WatcherStarted
    BY <2>4 DEF WatcherStore, WatcherLookup, WatcherStarted, dockerVars
  <2>5. CASE \E r \in Recoverers : RecoverList(r) \/ RecoverEnd(r) \/ RecoverExists(r)
    BY <2>5 DEF RecoverList, RecoverEnd, RecoverExists, dockerVars
  <2>6. CASE \E r \in Recoverers : RecoverInspect(r) \/ RecoverNetwork(r)
    BY <2>6 DEF RecoverInspect, RecoverNetwork, dockerVars
  <2>7. CASE Restart \/ ShutdownBegin \/ UNCHANGED vars
    BY <2>7 DEF Restart, ShutdownBegin, vars, dockerVars
  <2> QED
    BY <2>1, <2>2, <2>3, <2>4, <2>5, <2>6, <2>7
<1>3. \A e \in Endpoints : phase[e] = "deleted" => phase'[e] = "deleted"
  BY <1>2, RegistryTypes DEF To
<1> QED
  BY <1>1, <1>3, RegistryKept

\* Steps that change an object, but not whose it is.
LEMMA ObjectsRegister ==
    ASSUME ReachInv,
           \/ \E e \in Endpoints : JoinStore(e) \/ LeaveTake(e) \/ DeleteTake(e)
           \/ \E r \in Recoverers : RecoverSetKey(r)
           \/ \E o \in Objects : ShutdownStop(o)
    PROVE  Registered'
<1>1. UNCHANGED <<endpoints, start>>
  BY DEF JoinStore, LeaveTake, DeleteTake, RecoverSetKey, ShutdownStop, regVars
<1>2. \A o \in Objects : obj'[o].id = obj[o].id
  <2>1. CASE \E e \in Endpoints : JoinStore(e)
    BY <2>1, RegistryTypes DEF JoinStore, EndpointRec
  <2>2. CASE \E e \in Endpoints : LeaveTake(e) \/ DeleteTake(e)
    BY <2>2, RegistryTypes, TakeSupKeeps DEF LeaveTake, DeleteTake
  <2>3. CASE \E r \in Recoverers : RecoverSetKey(r)
    BY <2>3, RegistryTypes DEF RecoverSetKey, EndpointRec
  <2>4. CASE \E o \in Objects : ShutdownStop(o)
    BY <2>4, RegistryTypes, TakeSupKeeps DEF ShutdownStop
  <2> QED
    BY <2>1, <2>2, <2>3, <2>4
<1>3. \A e \in Endpoints : phase[e] = "deleted" => phase'[e] = "deleted"
  BY RegistryTypes
     DEF JoinStore, LeaveTake, DeleteTake, RecoverSetKey, ShutdownStop, dockerVars, To
<1> QED
  BY <1>1, <1>2, <1>3, RegistryKept

\* Goroutines begin and go on; none that has failed begins again.
LEMMA StartsRegister ==
    ASSUME ReachInv,
           \/ \E e \in Endpoints : JoinCache(e)
           \/ WatcherKey
           \/ \E r \in Recoverers : RecoverPublish(r)
           \/ \E o \in Objects, k \in Kinds :
                 \/ StartCheck(o, k) \/ StartLaunch(o, k) \/ StartUp(o, k)
                 \/ StartWaitIP(o, k) \/ StartStore(o, k)
                 \/ SupStops(o, k) \/ SupGivesUp(o, k)
    PROVE  Registered'
<1>1. CASE \E e \in Endpoints : JoinCache(e)
  <2>1. PICK e \in Endpoints : JoinCache(e)
    BY <1>1
  <2>2. UNCHANGED <<endpoints, obj>> /\ To(e, "joined") /\ phase[e] = "asking"
    BY <2>1 DEF JoinCache, regVars
  <2>3. \A o \in Objects : start'[o]["recover"] = start[o]["recover"]
    BY <2>1, RegistryTypes DEF JoinCache, Spawn
  <2> QED
    BY <2>2, <2>3, RegistryKept, RegistryTypes DEF To
<1>2. CASE WatcherKey
  <2>1. UNCHANGED <<endpoints, obj, phase>>
    BY <1>2 DEF WatcherKey, regVars, dockerVars
  <2>2. \A o \in Objects : start'[o]["recover"] = start[o]["recover"]
    BY <1>2, RegistryTypes DEF WatcherKey, Spawn
  <2> QED
    BY <2>1, <2>2, RegistryKept
<1>3. CASE \E r \in Recoverers : RecoverPublish(r)
  <2>1. PICK r \in Recoverers : RecoverPublish(r)
    BY <1>3
  <2>2. UNCHANGED <<endpoints, obj, phase>> /\ Spawn(rec[r].obj, "recover")
    BY <2>1 DEF RecoverPublish, regVars, dockerVars
  <2>3. start[rec[r].obj]["recover"] = "idle"
    BY <2>1, RegistryTypes, PointerTypes DEF RecoverPublish, OwnershipInv, RecoverOnce
  <2>4. \A o \in Objects : start[o]["recover"] = "failed" => start'[o]["recover"] = "failed"
    BY <2>2, <2>3, RegistryTypes DEF Spawn
  <2> QED
    BY <2>2, <2>4, RegistryKept
<1>4. ASSUME NEW o \in Objects, NEW k \in Kinds,
             \/ StartCheck(o, k) \/ StartLaunch(o, k) \/ StartUp(o, k)
             \/ StartWaitIP(o, k) \/ StartStore(o, k)
      PROVE  Registered'
  <2>1. /\ UNCHANGED <<endpoints, phase>>
        /\ start[o][k] # "failed" /\ \E pc : start' = [start EXCEPT ![o][k] = pc]
    BY <1>4 DEF StartCheck, StartLaunch, StartUp, StartWaitIP, StartStore, At, Go, Fail,
       regVars, dockerVars
  <2>2. \A p \in Objects : obj'[p].id = obj[p].id
    BY <1>4, RegistryTypes
       DEF StartCheck, StartLaunch, StartUp, StartWaitIP, StartStore, EndpointRec
  <2>3. \A p \in Objects : start[p]["recover"] = "failed" => start'[p]["recover"] = "failed"
    BY <2>1, RegistryTypes
  <2> QED
    BY <2>1, <2>2, <2>3, RegistryKept
<1>5. CASE \E o \in Objects, k \in Kinds : SupStops(o, k) \/ SupGivesUp(o, k)
  BY <1>5, RegistryKept DEF SupStops, SupGivesUp, regVars, dockerVars
<1> QED
  BY <1>1, <1>2, <1>3, <1>4, <1>5

\* A new object goes under an ID that has none, or whose objects have failed.
LEMMA AllocationRegisters ==
    ASSUME ReachInv, NEW e \in Endpoints, NEW o \in Objects, Fresh(o),
           endpoints[e] = None,
           obj' = [obj EXCEPT ![o] = NewEndpoint(e)],
           endpoints' = [endpoints EXCEPT ![e] = o],
           UNCHANGED start,
           \A f \in Endpoints : phase[f] = "deleted" => phase'[f] = "deleted"
    PROVE  Registered'
<1>1. /\ obj[o].id = None /\ obj'[o].id = e
      /\ \A p \in Objects : p # o => obj'[p] = obj[p]
      /\ endpoints'[e] = o
      /\ \A f \in Endpoints : f # e => endpoints'[f] = endpoints[f]
  BY RegistryTypes DEF Fresh, NewEndpoint
<1>2. \A p \in Objects : obj[p].id \in Endpoints \cup {None}
  BY RegistryTypes, PointerTypes
<1>3. ASSUME NEW p \in Objects, p # o, obj[p].id # None, start[p]["recover"] # "failed"
      PROVE  endpoints'[obj[p].id] = p \/ phase'[obj[p].id] = "deleted"
  <2>1. endpoints[obj[p].id] = p \/ phase[obj[p].id] = "deleted"
    BY <1>3 DEF ReachInv, Registered
  <2>2. endpoints[obj[p].id] = p => obj[p].id # e
    BY <1>3, NoneAssumption
  <2> QED
    BY <1>1, <1>2, <1>3, <2>1, <2>2
<1> QED
  BY <1>1, <1>3 DEF Registered

LEMMA CreateEndpointRegisters ==
    ASSUME ReachInv, NEW e \in Endpoints, CreateEndpoint(e)
    PROVE  Registered'
<1>1. phase[e] = "absent" /\ endpoints[e] = None
  BY RegistryTypes DEF CreateEndpoint, OwnershipInv, Registry
<1>2. UNCHANGED start /\ \A f \in Endpoints : phase[f] = "deleted" => phase'[f] = "deleted"
  BY <1>1, RegistryTypes DEF CreateEndpoint, To
<1>3. CASE UNCHANGED <<obj, endpoints>>
  BY <1>2, <1>3, RegistryKept
<1>4. CASE \E o \in Objects : /\ Fresh(o)
                              /\ obj' = [obj EXCEPT ![o] = NewEndpoint(e)]
                              /\ endpoints' = [endpoints EXCEPT ![e] = o]
  BY <1>1, <1>2, <1>4, AllocationRegisters
<1> QED
  BY <1>3, <1>4 DEF CreateEndpoint

LEMMA RecoverInsertRegisters ==
    ASSUME ReachInv, NEW r \in Recoverers, RecoverInsert(r)
    PROVE  Registered'
<1>1. UNCHANGED <<start, phase>> /\ rec[r].e \in Endpoints
  BY RegistryTypes, PointerTypes DEF RecoverInsert, dockerVars
<1>2. CASE UNCHANGED <<obj, endpoints>>
  BY <1>1, <1>2, RegistryKept
<1>3. CASE /\ endpoints[rec[r].e] = None
           /\ \E o \in Objects : /\ Fresh(o)
                                 /\ obj' = [obj EXCEPT ![o] = NewEndpoint(rec[r].e)]
                                 /\ endpoints' = [endpoints EXCEPT ![rec[r].e] = o]
  BY <1>1, <1>3, AllocationRegisters
<1> QED
  BY <1>2, <1>3 DEF RecoverInsert

LEMMA DeleteRemoveRegisters ==
    ASSUME ReachInv, NEW e \in Endpoints, DeleteRemove(e)
    PROVE  Registered'
<1>1. /\ UNCHANGED <<obj, start>>
      /\ endpoints'[e] = None /\ phase'[e] = "deleted"
      /\ \A f \in Endpoints : f # e => endpoints'[f] = endpoints[f] /\ phase'[f] = phase[f]
  BY RegistryTypes DEF DeleteRemove, To
<1>2. \A o \in Objects : obj[o].id \in Endpoints \cup {None}
  BY RegistryTypes, PointerTypes
<1> QED
  BY <1>1, <1>2 DEF ReachInv, Registered

\* A recovery that fails takes out the object it has registered, or one that is
\* deleted.
LEMMA UnregisterRegisters ==
    ASSUME ReachInv, NEW o \in Objects, StartUnregister(o)
    PROVE  Registered'
<1> DEFINE e == obj[o].id
<1>1. /\ start[o]["recover"] = "unregister"
      /\ start' = [start EXCEPT ![o]["recover"] = "failed"]
      /\ endpoints' = [endpoints EXCEPT ![e] = None]
      /\ UNCHANGED <<phase, obj>>
  BY DEF StartUnregister, Go, dockerVars
<1>2. /\ e \in Endpoints
      /\ endpoints[e] = o \/ phase[e] = "deleted"
  BY <1>1, RegistryTypes, PointerTypes DEF ReachInv, HandoverInv, Kept, Apart, Active, Recovered
<1>3. \A p \in Objects : obj[p].id \in Endpoints \cup {None}
  BY RegistryTypes, PointerTypes
<1> HIDE DEF e
<1>4. /\ endpoints'[e] = None
      /\ \A f \in Endpoints : f # e => endpoints'[f] = endpoints[f]
  BY <1>1, <1>2, RegistryTypes
<1>5. /\ start'[o]["recover"] = "failed"
      /\ \A p \in Objects : p # o => start'[p] = start[p]
  BY <1>1, RegistryTypes
<1>6. ASSUME NEW p \in Objects, p # o, obj[p].id # None, start[p]["recover"] # "failed"
      PROVE  endpoints'[obj[p].id] = p \/ phase[obj[p].id] = "deleted"
  <2>1. endpoints[obj[p].id] = p \/ phase[obj[p].id] = "deleted"
    BY <1>6 DEF ReachInv, Registered
  <2> QED
    BY <1>2, <1>3, <1>4, <1>6, <2>1
<1> QED
  BY <1>1, <1>5, <1>6 DEF Registered

LEMMA ReachStep == ReachInv /\ [Next]_vars => ReachInv'
<1> SUFFICES ASSUME ReachInv, [Next]_vars PROVE ReachInv'
  OBVIOUS
<1>0. HandoverInv'
  BY HandoverStep DEF ReachInv
<1> SUFFICES Registered'
  BY <1>0 DEF ReachInv
<1>1. CASE \E n \in Networks : CreateNetwork(n) \/ DeleteNetwork(n)
  BY <1>1, LooksRegister
<1>2. ASSUME NEW e \in Endpoints,
             CreateEndpoint(e) \/ JoinLookup(e) \/ LeaveTake(e) \/ DeleteTake(e)
      PROVE  Registered'
  BY <1>2, CreateEndpointRegisters, LooksRegister, ObjectsRegister
<1>3. ASSUME NEW e \in Endpoints, CallStep(e)
      PROVE  Registered'
  BY <1>3, LooksRegister, ObjectsRegister, StartsRegister, DeleteRemoveRegisters DEF CallStep
<1>4. ASSUME NEW e \in Endpoints,
             ConnectEvent(e) \/ DockerProceeds(e) \/ StreamError(e) \/ WatcherReceive(e)
      PROVE  Registered'
  BY <1>4, LooksRegister
<1>5. CASE WatcherStep
  BY <1>5, LooksRegister, StartsRegister DEF WatcherStep
<1>6. ASSUME NEW r \in Recoverers, RecoverStep(r)
      PROVE  Registered'
  BY <1>6, LooksRegister, ObjectsRegister, StartsRegister, RecoverInsertRegisters DEF RecoverStep
<1>7. ASSUME NEW o \in Objects, NEW k \in Kinds,
             StartStep(o, k) \/ SupStops(o, k) \/ SupGivesUp(o, k)
      PROVE  Registered'
  BY <1>7, StartsRegister, UnregisterRegisters DEF StartStep
<1>8. CASE Crash \/ ShutdownDone \/ ShutdownTimesOut
  <2>1. \A o \in Objects : obj'[o].id = None
    BY <1>8 DEF Crash, ShutdownDone, ShutdownTimesOut, ProcessEnds, Unused, NewEndpoint
  <2> QED
    BY <2>1 DEF Registered
<1>9. CASE Restart \/ ShutdownBegin \/ UNCHANGED vars
  BY <1>9, LooksRegister
<1>10. ASSUME NEW o \in Objects, ShutdownStop(o)
       PROVE  Registered'
  BY <1>10, ObjectsRegister
<1> QED
  BY <1>1, <1>2, <1>3, <1>4, <1>5, <1>6, <1>7, <1>8, <1>9, <1>10 DEF Next

\* A start that has succeeded is not that of an object whose recovery has failed.
LEMMA DoneIsRegistered ==
    ASSUME ReachInv, NEW o \in Objects, NEW k \in Kinds,
           start[o][k] = "done", phase[obj[o].id] # "deleted"
    PROVE  endpoints[obj[o].id] = o
<1>1. OwnershipInv /\ Apart /\ Registered
  BY DEF ReachInv, HandoverInv
<1>2. obj[o].id # None
  BY <1>1 DEF OwnershipInv, FreshIdle
<1>3. start[o]["recover"] # "failed"
  BY <1>1 DEF Apart, Recovered, Kinds
<1> QED
  BY <1>1, <1>2, <1>3 DEF Registered

LEMMA ReachedState == ReachInv => SupervisorReachable
<1> SUFFICES ASSUME ReachInv, NEW o \in Objects, NEW k \in Kinds,
                    sup[o][k] = "live", start[o][k] = "done", phase[obj[o].id] # "deleted"
             PROVE  endpoints[obj[o].id] = o /\ obj[o].sup = k
  BY DEF SupervisorReachable
<1>1. obj[o].sup = k
  BY RegistryTypes DEF OwnershipInv, SupervisorOwnership
<1> QED
  BY <1>1, DoneIsRegistered

-----------------------------------------------------------------------------
(* Theorems *)

\* In every reachable state an object is found under its ID from its allocation
\* to DeleteEndpoint, but for one whose recovery has failed.
THEOREM ReachInvariant == Spec => []ReachInv
<1>1. Init => ReachInv
  BY HandoverInit DEF ReachInv, Registered, Init, FreshProcess, Unused, NewEndpoint
<1>2. ReachInv /\ [Next]_vars => ReachInv'
  BY ReachStep
<1> QED
  BY <1>1, <1>2, PTL DEF Spec

\* While Docker knows the endpoint, whatever runs for it after a successful start
\* is within reach of Leave, DeleteEndpoint and Shutdown (driver.go:243-290,
\* 397-409, 582-620, endpoint.go:298-318).
THEOREM SupervisorsReachable == Spec => []SupervisorReachable
<1>1. ReachInv => SupervisorReachable
  BY ReachedState
<1> QED
  BY <1>1, ReachInvariant, PTL

\* Leave and DeleteEndpoint stop whatever has been started for the endpoint
\* (endpoint.go:354-369, 390-402).
THEOREM LeaveStopsTheStarted == Spec => LeaveStopsStarted
<1>1. ReachInv =>
         [\A e \in Endpoints : LeaveTake(e) \/ DeleteTake(e) =>
             \A o \in Objects, k \in Kinds :
                obj[o].id = e /\ start[o][k] = "done" => sup'[o][k] # "live"]_vars
  <2> SUFFICES ASSUME ReachInv, NEW e \in Endpoints, LeaveTake(e) \/ DeleteTake(e),
                      NEW o \in Objects, NEW k \in Kinds,
                      obj[o].id = e, start[o][k] = "done"
               PROVE  sup'[o][k] # "live"
    OBVIOUS
  <2>1. phase[e] \in {"joined", "created", "left"}
    BY DEF LeaveTake, DeleteTake
  <2>2. endpoints[e] = o
    BY <2>1, DoneIsRegistered
  <2>3. CancelSup(o)
    BY <2>2, NoneAssumption DEF LeaveTake, DeleteTake
  <2>4. sup \in [Objects -> [Kinds -> SupStates]]
    BY RegistryTypes DEF OwnershipInv, TypeOK, Types
  <2>5. /\ sup'[o][k] = sup[o][k] \/ sup'[o][k] = "cancelled"
        /\ k = obj[o].sup => sup'[o][k] # "live"
    BY <2>3, <2>4, RegistryTypes, CancelSupEffect
  <2>6. sup[o][k] = "live" => obj[o].sup = k
    BY RegistryTypes DEF OwnershipInv, SupervisorOwnership
  <2> QED
    BY <2>5, <2>6
<1> QED
  BY <1>1, ReachInvariant, PTL DEF LeaveStopsStarted

=============================================================================
