---------------------------- MODULE DriverProofs ----------------------------
(***************************************************************************)
(* What holds of the driver for every number of endpoints, networks,       *)
(* objects, failures and crashes: OwnershipInv is inductive, and           *)
(* SupervisorOwnership and RegistrationNeverOverwritten follow from it.    *)
(***************************************************************************)
EXTENDS Driver, TLAPS

USE EndpointsAssumption, NetworksAssumption, BoundsAssumption, NoneAssumption

-----------------------------------------------------------------------------
(* What the recurring updates do, point by point *)

\* A goroutine that runs StartTailscale moves; the others stay.
LEMMA GoEffect ==
    ASSUME start \in [Objects -> [Kinds -> StartPCs]],
           NEW o \in Objects, NEW k \in Kinds, NEW pc \in StartPCs,
           start' = [start EXCEPT ![o][k] = pc]
    PROVE  /\ start' \in [Objects -> [Kinds -> StartPCs]]
           /\ start'[o][k] = pc
           /\ \A p \in Objects, j \in Kinds :
                 p # o \/ j # k => start'[p][j] = start[p][j]
  OBVIOUS

\* One supervision loop changes; the others do not.
LEMMA SupEffect ==
    ASSUME sup \in [Objects -> [Kinds -> SupStates]],
           NEW o \in Objects, NEW k \in Kinds, NEW s \in SupStates,
           sup' = [sup EXCEPT ![o][k] = s]
    PROVE  /\ sup' \in [Objects -> [Kinds -> SupStates]]
           /\ sup'[o][k] = s
           /\ \A p \in Objects, j \in Kinds :
                 p # o \/ j # k => sup'[p][j] = sup[p][j]
  OBVIOUS

\* TakeSup empties the supervisor of one object and keeps every identity.
LEMMA TakeSupEffect ==
    ASSUME obj \in [Objects -> EndpointRec], NEW o \in Objects, TakeSup(o)
    PROVE  /\ obj' \in [Objects -> EndpointRec]
           /\ obj'[o].sup = None /\ obj'[o].started = FALSE
           /\ \A p \in Objects : obj'[p].id = obj[p].id
           /\ \A p \in Objects : p # o => obj'[p] = obj[p]
  BY DEF TakeSup, EndpointRec

\* CancelSup touches at most the supervisor the object holds, and leaves none live.
LEMMA CancelSupEffect ==
    ASSUME obj \in [Objects -> EndpointRec],
           sup \in [Objects -> [Kinds -> SupStates]],
           NEW o \in Objects, CancelSup(o)
    PROVE  /\ sup' \in [Objects -> [Kinds -> SupStates]]
           /\ \A p \in Objects, j \in Kinds :
                 \/ sup'[p][j] = sup[p][j]
                 \/ p = o /\ j = obj[o].sup /\ sup'[p][j] = "cancelled"
           /\ \A j \in Kinds : j = obj[o].sup => sup'[o][j] # "live"
<1>1. CASE obj[o].sup # None /\ sup[o][obj[o].sup] = "live"
  <2>1. obj[o].sup \in Kinds
    BY <1>1 DEF EndpointRec
  <2>2. sup' = [sup EXCEPT ![o][obj[o].sup] = "cancelled"]
    BY <1>1 DEF CancelSup
  <2>3. QED BY <2>1, <2>2 DEF SupStates
<1>2. CASE ~(obj[o].sup # None /\ sup[o][obj[o].sup] = "live")
  BY <1>2 DEF CancelSup
<1>3. QED BY <1>1, <1>2

\* A new object has its identity, no supervisor, and is not started.
LEMMA NewObjectEffect ==
    ASSUME obj \in [Objects -> EndpointRec], NEW o \in Objects,
           NEW e \in Endpoints, obj' = [obj EXCEPT ![o] = NewEndpoint(e)]
    PROVE  /\ obj' \in [Objects -> EndpointRec]
           /\ obj'[o].id = e /\ obj'[o].sup = None /\ obj'[o].started = FALSE
           /\ \A p \in Objects : p # o => obj'[p] = obj[p]
  BY DEF NewEndpoint, EndpointRec

-----------------------------------------------------------------------------
(* Steps that only move a goroutine on *)

\* A recovery that moves on, keeps its object or drops it, and takes up only an
\* endpoint Docker has created.
LEMMA RecoveryFrame ==
    ASSUME OwnershipInv, NEW r \in Recoverers,
           rec' \in [Recoverers -> RecoveryRec],
           \A q \in Recoverers : q # r => rec'[q] = rec[q],
           rec'[r].pc \notin {"wait", "scan", "done"} => rec'[r].e \in Endpoints,
           rec'[r].pc \in {"setkey", "publish"} <=> rec'[r].obj # None,
           rec'[r].obj # None => rec'[r].obj = rec[r].obj /\ rec'[r].e = rec[r].e,
           rec'[r].e # None => phase[rec'[r].e] # "absent",
           \A e \in rec'[r].todo : phase[e] # "absent",
           networks' \subseteq Networks, faults' \in 0..MaxFaults,
           UNCHANGED <<dockerNets, phase, event, links, mode, toStop, crashes,
                       endpoints, dmu, handler, obj, cache, watcher, start, sup>>
    PROVE  OwnershipInv'
<1>1. TypeOK'
  BY DEF OwnershipInv, TypeOK, Types, Pointers
<1>2. Registry'
  BY DEF OwnershipInv, Registry
<1>3. FreshIdle' /\ JoinOnce' /\ EventOnce'
  BY DEF OwnershipInv, FreshIdle, JoinOnce, EventOnce
<1>4. RecoverOnce'
  BY DEF OwnershipInv, RecoverOnce
<1>5. StartHolds' /\ SupervisorOwnership'
  BY DEF OwnershipInv, StartHolds, SupervisorOwnership
<1>6. QED BY <1>1, <1>2, <1>3, <1>4, <1>5 DEF OwnershipInv

\* A StartTailscale that moves on keeps everything but StartHolds and
\* SupervisorOwnership, which its own step settles.
LEMMA StartFrame ==
    ASSUME OwnershipInv, NEW o \in Objects, NEW k \in Kinds, NEW pc \in StartPCs,
           start[o][k] # "idle", pc # "idle",
           start' = [start EXCEPT ![o][k] = pc],
           obj' \in [Objects -> EndpointRec],
           \A p \in Objects : obj'[p].id = obj[p].id,
           sup' \in [Objects -> [Kinds -> SupStates]],
           endpoints' \in [Endpoints -> Objects \cup {None}],
           \A e \in Endpoints : endpoints'[e] \in {endpoints[e], None},
           faults' \in 0..MaxFaults,
           UNCHANGED <<dockerNets, phase, event, links, mode, toStop, crashes,
                       networks, dmu, handler, cache, watcher, rec>>,
           StartHolds', SupervisorOwnership'
    PROVE  OwnershipInv'
<1>1. TypeOK /\ Registry /\ FreshIdle /\ JoinOnce /\ EventOnce /\ RecoverOnce
  BY DEF OwnershipInv
<1>2. /\ start' \in [Objects -> [Kinds -> StartPCs]]
      /\ start'[o][k] = pc
      /\ \A p \in Objects, j \in Kinds :
            p # o \/ j # k => start'[p][j] = start[p][j]
  BY <1>1, GoEffect DEF TypeOK, Types
<1>3. {"join", "event", "recover"} \subseteq Kinds
  BY DEF Kinds
<1>4. \A p \in Objects, j \in Kinds : start'[p][j] = "idle" <=> start[p][j] = "idle"
  BY <1>2
<1>5. FreshIdle'
  BY <1>1, <1>4 DEF FreshIdle
<1>6. TypeOK'
  <2>1. Types'
    BY <1>1, <1>2 DEF TypeOK, Types
  <2>2. \A p \in Objects : start'[p]["recover"] = "unregister" => obj'[p].id # None
    BY <1>3, <1>5 DEF FreshIdle
  <2>3. Pointers'
    BY <1>1, <2>2 DEF TypeOK, Pointers
  <2>4. QED BY <2>1, <2>3 DEF TypeOK
<1>7. Registry'
  <2>1. \A e \in Endpoints : endpoints'[e] # None =>
           obj'[endpoints'[e]].id = e /\ phase'[e] # "absent"
    BY <1>1 DEF Registry, TypeOK, Types
  <2>2. \A e \in Endpoints : handler'[e] # None => obj'[handler'[e]].id = e
    BY <1>1 DEF Registry, TypeOK, Types
  <2>3. watcher'.obj # None => obj'[watcher'.obj].id = watcher'.e
    BY <1>1 DEF Registry, TypeOK, Types, WatcherRec
  <2>4. \A r \in Recoverers :
           rec'[r].obj # None => obj'[rec'[r].obj].id = rec'[r].e
    BY <1>1 DEF Registry, TypeOK, Types, RecoveryRec
  <2>5. \A p \in toStop' : obj'[p].id # None
    BY <1>1 DEF Registry, TypeOK, Types
  <2>6. QED BY <1>1, <2>1, <2>2, <2>3, <2>4, <2>5 DEF Registry
<1>8. JoinOnce' /\ EventOnce'
  <2>1. \A p \in Objects : /\ start'[p]["join"] = "idle" <=> start[p]["join"] = "idle"
                           /\ start'[p]["event"] = "idle" <=> start[p]["event"] = "idle"
    BY <1>3, <1>4
  <2>2. JoinOnce'
    BY <1>1, <2>1 DEF JoinOnce
  <2>3. EventOnce'
    BY <1>1, <2>1 DEF EventOnce
  <2>4. QED BY <2>2, <2>3
<1>9. RecoverOnce'
  BY <1>1, <1>3, <1>4 DEF RecoverOnce, TypeOK, Types, RecoveryRec
<1>10. QED BY <1>5, <1>6, <1>7, <1>8, <1>9 DEF OwnershipInv

-----------------------------------------------------------------------------
(* StartTailscale *)

\* The check only reads the object.
LEMMA StartCheckInv ==
    ASSUME OwnershipInv, NEW o \in Objects, NEW k \in Kinds, StartCheck(o, k)
    PROVE  OwnershipInv'
<1>1. PICK pc \in {"done", "prepare", "unregister", "failed"} :
         start' = [start EXCEPT ![o][k] = pc]
  BY DEF StartCheck, Go, Fail
<1>2. /\ start[o][k] = "check"
      /\ UNCHANGED <<dockerVars, procVars, regVars, handler, obj, cache, watcher,
                     rec, sup, faults>>
  BY DEF StartCheck, At
<1>3. pc \in StartPCs BY DEF StartPCs
<1>4. TypeOK /\ StartHolds /\ SupervisorOwnership
  BY DEF OwnershipInv
<1>5. start'[o][k] = pc /\ \A p \in Objects, j \in Kinds :
         p # o \/ j # k => start'[p][j] = start[p][j]
  BY <1>1, <1>3, <1>4, GoEffect DEF TypeOK, Types
<1>6. sup[o][k] = "none"
  BY <1>2, <1>4 DEF StartHolds
<1>7. StartHolds'
  BY <1>2, <1>4, <1>5, <1>6 DEF StartHolds
<1>8. SupervisorOwnership'
  BY <1>2, <1>4, <1>5, <1>6 DEF SupervisorOwnership
<1>9. QED
  BY <1>1, <1>2, <1>3, <1>4, <1>7, <1>8, StartFrame
     DEF TypeOK, Types, dockerVars, procVars, regVars

\* A loop begins with its goroutine in "starting", which alone holds it.
LEMMA StartLaunchInv ==
    ASSUME OwnershipInv, NEW o \in Objects, NEW k \in Kinds, StartLaunch(o, k)
    PROVE  OwnershipInv'
<1>1. /\ start[o][k] = "prepare"
      /\ UNCHANGED <<dockerVars, procVars, regVars, handler, obj, cache, watcher, rec>>
  BY DEF StartLaunch, At
<1>2. TypeOK /\ StartHolds /\ SupervisorOwnership
  BY DEF OwnershipInv
<1>3. obj \in [Objects -> EndpointRec] /\ endpoints \in [Endpoints -> Objects \cup {None}]
      /\ sup \in [Objects -> [Kinds -> SupStates]]
      /\ start \in [Objects -> [Kinds -> StartPCs]]
  BY <1>2 DEF TypeOK, Types
<1>4. CASE /\ start' = [start EXCEPT ![o][k] = "starting"]
           /\ sup' = [sup EXCEPT ![o][k] = "live"]
           /\ faults' = faults
  <2>1. "starting" \in StartPCs /\ "live" \in SupStates BY DEF StartPCs, SupStates
  <2>2. /\ start'[o][k] = "starting"
        /\ \A p \in Objects, j \in Kinds :
              p # o \/ j # k => start'[p][j] = start[p][j]
    BY <1>3, <1>4, <2>1, GoEffect
  <2>3. /\ sup' \in [Objects -> [Kinds -> SupStates]]
        /\ sup'[o][k] = "live"
        /\ \A p \in Objects, j \in Kinds :
              p # o \/ j # k => sup'[p][j] = sup[p][j]
    BY <1>3, <1>4, <2>1, SupEffect
  <2>4. StartHolds'
    BY <1>1, <1>2, <2>2, <2>3 DEF StartHolds
  <2>5. SupervisorOwnership'
    BY <1>1, <1>2, <2>2, <2>3 DEF SupervisorOwnership
  <2>6. QED
    BY <1>1, <1>2, <1>3, <1>4, <2>1, <2>3, <2>4, <2>5, StartFrame
       DEF TypeOK, Types, dockerVars, procVars, regVars
<1>5. CASE Fault /\ Fail(o, k) /\ sup' = sup
  <2>1. PICK pc \in {"unregister", "failed"} : start' = [start EXCEPT ![o][k] = pc]
    BY <1>5 DEF Fail, Go
  <2>2. pc \in StartPCs BY DEF StartPCs
  <2>3. /\ start'[o][k] = pc
        /\ \A p \in Objects, j \in Kinds :
              p # o \/ j # k => start'[p][j] = start[p][j]
    BY <1>3, <2>1, <2>2, GoEffect
  <2>4. StartHolds' /\ SupervisorOwnership'
    BY <1>1, <1>2, <1>5, <2>3 DEF StartHolds, SupervisorOwnership
  <2>5. faults' \in 0..MaxFaults
    BY <1>2, <1>5 DEF Fault, TypeOK, Types
  <2>6. QED
    BY <1>1, <1>3, <1>5, <2>1, <2>2, <2>4, <2>5, StartFrame
       DEF dockerVars, procVars, regVars
<1>6. QED BY <1>4, <1>5 DEF StartLaunch, Go

\* What a failed Start leaves running has no finished goroutine.
LEMMA StartUpInv ==
    ASSUME OwnershipInv, NEW o \in Objects, NEW k \in Kinds, StartUp(o, k)
    PROVE  OwnershipInv'
<1>1. /\ start[o][k] = "starting"
      /\ UNCHANGED <<dockerVars, procVars, regVars, handler, obj, cache, watcher, rec>>
  BY DEF StartUp, At
<1>2. TypeOK /\ StartHolds /\ SupervisorOwnership
  BY DEF OwnershipInv
<1>3. obj \in [Objects -> EndpointRec] /\ endpoints \in [Endpoints -> Objects \cup {None}]
      /\ sup \in [Objects -> [Kinds -> SupStates]]
      /\ start \in [Objects -> [Kinds -> StartPCs]] /\ faults \in 0..MaxFaults
  BY <1>2 DEF TypeOK, Types
<1>4. PICK pc \in {"waitIP", "unregister", "failed"}, s \in {"live", "cancelled", "exited"} :
         /\ start' = [start EXCEPT ![o][k] = pc]
         /\ pc = "waitIP" => s = "live"
         /\ sup' = [sup EXCEPT ![o][k] = s]
         /\ faults' \in 0..MaxFaults
  <2>1. CASE Go(o, k, "waitIP") /\ UNCHANGED <<sup, faults>>
    <3>1. sup[o][k] = "live" BY <1>1, <1>2 DEF StartHolds
    <3>2. sup' = [sup EXCEPT ![o][k] = "live"] BY <1>3, <2>1, <3>1
    <3>3. QED BY <1>3, <2>1, <3>2 DEF Go
  <2>2. CASE /\ Fault /\ Fail(o, k)
             /\ \E s \in {"live", "cancelled", "exited"} :
                   sup' = [sup EXCEPT ![o][k] = s]
    <3>1. faults' \in 0..MaxFaults BY <1>3, <2>2 DEF Fault
    <3>2. \E pc \in {"unregister", "failed"} : start' = [start EXCEPT ![o][k] = pc]
      BY <2>2 DEF Fail, Go
    <3>3. QED BY <2>2, <3>1, <3>2
  <2>3. QED BY <2>1, <2>2 DEF StartUp
<1>5. pc \in StartPCs /\ s \in SupStates BY DEF StartPCs, SupStates
<1>6. /\ start'[o][k] = pc
      /\ \A p \in Objects, j \in Kinds :
            p # o \/ j # k => start'[p][j] = start[p][j]
  BY <1>3, <1>4, <1>5, GoEffect
<1>7. /\ sup' \in [Objects -> [Kinds -> SupStates]]
      /\ sup'[o][k] = s
      /\ \A p \in Objects, j \in Kinds :
            p # o \/ j # k => sup'[p][j] = sup[p][j]
  BY <1>3, <1>4, <1>5, SupEffect
<1>8. StartHolds'
  BY <1>1, <1>2, <1>4, <1>6, <1>7 DEF StartHolds
<1>9. SupervisorOwnership'
  BY <1>1, <1>2, <1>6, <1>7 DEF SupervisorOwnership
<1>10. QED
  BY <1>1, <1>3, <1>4, <1>5, <1>7, <1>8, <1>9, StartFrame
     DEF dockerVars, procVars, regVars

\* Without an IP the goroutine cancels its supervisor before it fails.
LEMMA StartWaitIPInv ==
    ASSUME OwnershipInv, NEW o \in Objects, NEW k \in Kinds, StartWaitIP(o, k)
    PROVE  OwnershipInv'
<1>1. /\ start[o][k] = "waitIP"
      /\ UNCHANGED <<dockerVars, procVars, regVars, handler, obj, cache, watcher, rec>>
  BY DEF StartWaitIP, At
<1>2. TypeOK /\ StartHolds /\ SupervisorOwnership
  BY DEF OwnershipInv
<1>3. obj \in [Objects -> EndpointRec] /\ endpoints \in [Endpoints -> Objects \cup {None}]
      /\ sup \in [Objects -> [Kinds -> SupStates]]
      /\ start \in [Objects -> [Kinds -> StartPCs]] /\ faults \in 0..MaxFaults
  BY <1>2 DEF TypeOK, Types
<1>4. PICK pc \in {"store", "unregister", "failed"}, s \in SupStates :
         /\ start' = [start EXCEPT ![o][k] = pc]
         /\ pc = "store" => s = "live"
         /\ sup' = [sup EXCEPT ![o][k] = s]
         /\ faults' \in 0..MaxFaults
  <2>1. CASE sup[o][k] = "live" /\ Go(o, k, "store") /\ UNCHANGED <<sup, faults>>
    <3>1. sup' = [sup EXCEPT ![o][k] = "live"] BY <1>3, <2>1
    <3>2. QED BY <1>3, <2>1, <3>1 DEF Go, SupStates
  <2>2. CASE /\ Fail(o, k)
             /\ IF sup[o][k] = "live"
                THEN Fault /\ sup' = [sup EXCEPT ![o][k] = "cancelled"]
                ELSE UNCHANGED <<sup, faults>>
    <3>1. \E pc \in {"unregister", "failed"} : start' = [start EXCEPT ![o][k] = pc]
      BY <2>2 DEF Fail, Go
    <3>2. \E s \in SupStates : sup' = [sup EXCEPT ![o][k] = s]
      <4>1. CASE sup[o][k] = "live" BY <2>2, <4>1 DEF SupStates
      <4>2. CASE sup[o][k] # "live"
        <5>1. sup' = [sup EXCEPT ![o][k] = sup[o][k]] BY <1>3, <2>2, <4>2
        <5>2. sup[o][k] \in SupStates BY <1>3
        <5>3. QED BY <5>1, <5>2
      <4>3. QED BY <4>1, <4>2
    <3>3. faults' \in 0..MaxFaults BY <1>3, <2>2 DEF Fault
    <3>4. QED BY <3>1, <3>2, <3>3
  <2>3. QED BY <2>1, <2>2 DEF StartWaitIP
<1>5. pc \in StartPCs BY DEF StartPCs
<1>6. /\ start'[o][k] = pc
      /\ \A p \in Objects, j \in Kinds :
            p # o \/ j # k => start'[p][j] = start[p][j]
  BY <1>3, <1>4, <1>5, GoEffect
<1>7. /\ sup' \in [Objects -> [Kinds -> SupStates]]
      /\ sup'[o][k] = s
      /\ \A p \in Objects, j \in Kinds :
            p # o \/ j # k => sup'[p][j] = sup[p][j]
  BY <1>3, <1>4, SupEffect
<1>8. StartHolds'
  BY <1>1, <1>2, <1>4, <1>6, <1>7 DEF StartHolds
<1>9. SupervisorOwnership'
  BY <1>1, <1>2, <1>6, <1>7 DEF SupervisorOwnership
<1>10. QED
  BY <1>1, <1>3, <1>4, <1>5, <1>7, <1>8, <1>9, StartFrame
     DEF dockerVars, procVars, regVars

\* Either the object is free and takes the supervisor, or it has one already
\* and the supervisor of this goroutine is told to stop.
LEMMA StartStoreInv ==
    ASSUME OwnershipInv, NEW o \in Objects, NEW k \in Kinds, StartStore(o, k)
    PROVE  OwnershipInv'
<1>1. /\ start[o][k] = "store"
      /\ start' = [start EXCEPT ![o][k] = "done"]
      /\ UNCHANGED <<dockerVars, procVars, regVars, handler, cache, watcher, rec,
                     faults>>
  BY DEF StartStore, At, Go
<1>2. TypeOK /\ StartHolds /\ SupervisorOwnership
  BY DEF OwnershipInv
<1>3. obj \in [Objects -> EndpointRec] /\ endpoints \in [Endpoints -> Objects \cup {None}]
      /\ sup \in [Objects -> [Kinds -> SupStates]]
      /\ start \in [Objects -> [Kinds -> StartPCs]] /\ faults \in 0..MaxFaults
  BY <1>2 DEF TypeOK, Types
<1>4. "done" \in StartPCs BY DEF StartPCs
<1>5. /\ start'[o][k] = "done"
      /\ \A p \in Objects, j \in Kinds :
            p # o \/ j # k => start'[p][j] = start[p][j]
  BY <1>1, <1>3, <1>4, GoEffect
<1>6. sup[o][k] \in {"live", "exited"}
  BY <1>1, <1>2 DEF StartHolds
<1>7. CASE obj[o].started
  <2>1. PICK s \in SupStates : s # "live" /\ sup' = [sup EXCEPT ![o][k] = s]
    <3>1. CASE sup[o][k] = "live"
      <4>1. sup' = [sup EXCEPT ![o][k] = "cancelled"]
        BY <1>3, <1>7, <3>1 DEF StartStore
      <4>2. QED BY <4>1 DEF SupStates
    <3>2. CASE sup[o][k] = "exited"
      <4>1. sup' = [sup EXCEPT ![o][k] = "exited"]
        BY <1>3, <1>7, <3>2 DEF StartStore
      <4>2. QED BY <4>1 DEF SupStates
    <3>3. QED BY <1>6, <3>1, <3>2
  <2>2. obj' = obj BY <1>7 DEF StartStore
  <2>3. /\ sup' \in [Objects -> [Kinds -> SupStates]]
        /\ sup'[o][k] = s
        /\ \A p \in Objects, j \in Kinds :
              p # o \/ j # k => sup'[p][j] = sup[p][j]
    BY <1>3, <2>1, SupEffect
  <2>4. StartHolds'
    BY <1>1, <1>2, <1>5, <2>3 DEF StartHolds
  <2>5. SupervisorOwnership'
    BY <1>1, <1>2, <1>5, <2>1, <2>2, <2>3 DEF SupervisorOwnership
  <2>6. QED
    BY <1>1, <1>3, <1>4, <2>2, <2>3, <2>4, <2>5, StartFrame
       DEF dockerVars, procVars, regVars
<1>8. CASE ~obj[o].started
  <2>1. obj' = [obj EXCEPT ![o].sup = k, ![o].started = TRUE] /\ sup' = sup
    BY <1>8 DEF StartStore
  <2>2. /\ obj' \in [Objects -> EndpointRec]
        /\ obj'[o].sup = k /\ obj'[o].started = TRUE
        /\ \A p \in Objects : obj'[p].id = obj[p].id
        /\ \A p \in Objects : p # o => obj'[p] = obj[p]
    <3> DEFINE r == [obj[o] EXCEPT !.sup = k, !.started = TRUE]
    <3>1. obj' = [obj EXCEPT ![o] = r] BY <2>1
    <3>2. obj[o] \in EndpointRec BY <1>3
    <3>3. r \in EndpointRec /\ r.sup = k /\ r.started = TRUE /\ r.id = obj[o].id
      BY <3>2 DEF EndpointRec
    <3> HIDE DEF r
    <3>4. QED BY <1>3, <3>1, <3>3
  <2>3. StartHolds'
    BY <1>1, <1>2, <1>5, <2>1 DEF StartHolds
  <2>4. obj[o].sup = None
    BY <1>2, <1>8 DEF SupervisorOwnership
  <2>5. \A j \in Kinds : start[o][j] = "done" => sup[o][j] # "live"
    BY <1>2, <2>4 DEF SupervisorOwnership
  <2>6. SupervisorOwnership'
    <3>1. SUFFICES ASSUME NEW p \in Objects
                   PROVE  /\ obj'[p].started <=> obj'[p].sup # None
                          /\ \A j \in Kinds :
                                /\ sup'[p][j] = "live" /\ start'[p][j] = "done"
                                      => obj'[p].sup = j
                                /\ obj'[p].sup = j => /\ start'[p][j] = "done"
                                                      /\ sup'[p][j] \in {"live", "exited"}
      BY DEF SupervisorOwnership
    <3>2. CASE p = o
      BY <1>5, <1>6, <2>1, <2>2, <2>5, <3>2
    <3>3. CASE p # o
      BY <1>2, <1>5, <2>1, <2>2, <3>3 DEF SupervisorOwnership
    <3>4. QED BY <3>2, <3>3
  <2>7. QED
    BY <1>1, <1>3, <1>4, <2>1, <2>2, <2>3, <2>6, StartFrame
       DEF dockerVars, procVars, regVars
<1>9. QED BY <1>7, <1>8

\* Dropping a registration breaks no pointer.
LEMMA StartUnregisterInv ==
    ASSUME OwnershipInv, NEW o \in Objects, StartUnregister(o)
    PROVE  OwnershipInv'
<1> DEFINE k == "recover"
<1>1. /\ start[o][k] = "unregister"
      /\ start' = [start EXCEPT ![o][k] = "failed"]
      /\ endpoints' = [endpoints EXCEPT ![obj[o].id] = None]
      /\ UNCHANGED <<dockerVars, procVars, networks, dmu, handler, obj, cache,
                     watcher, rec, sup, faults>>
  BY DEF StartUnregister, Go
<1>2. TypeOK /\ StartHolds /\ SupervisorOwnership
  BY DEF OwnershipInv
<1>3. obj \in [Objects -> EndpointRec] /\ endpoints \in [Endpoints -> Objects \cup {None}]
      /\ sup \in [Objects -> [Kinds -> SupStates]]
      /\ start \in [Objects -> [Kinds -> StartPCs]] /\ faults \in 0..MaxFaults
  BY <1>2 DEF TypeOK, Types
<1>4. k \in Kinds /\ "failed" \in StartPCs BY DEF Kinds, StartPCs
<1>5. /\ start'[o][k] = "failed"
      /\ \A p \in Objects, j \in Kinds :
            p # o \/ j # k => start'[p][j] = start[p][j]
  <2> HIDE DEF k
  <2>1. QED BY <1>1, <1>3, <1>4, GoEffect
<1>6. endpoints' \in [Endpoints -> Objects \cup {None}]
      /\ \A e \in Endpoints : endpoints'[e] \in {endpoints[e], None}
  BY <1>1, <1>3
<1>7. StartHolds' /\ SupervisorOwnership'
  BY <1>1, <1>2, <1>4, <1>5 DEF StartHolds, SupervisorOwnership
<1>8. QED
  BY <1>1, <1>3, <1>4, <1>6, <1>7, StartFrame
     DEF dockerVars, procVars, regVars

-----------------------------------------------------------------------------
(* Docker's calls *)

\* The phases after which Join has spawned what it spawns.
Past == {"joined", "leaving", "left", "deleting", "deleted"}

\* A step in which no goroutine moves: objects keep their identity, pointers are
\* copied or dropped, no endpoint goes back before its creation or its Join.
LEMMA CallFrame ==
    ASSUME OwnershipInv, Types', Pointers',
           \A p \in Objects : obj'[p].id = obj[p].id,
           \A e \in Endpoints : endpoints'[e] \in {endpoints[e], None},
           \A e \in Endpoints : handler'[e] \in {handler[e], endpoints[e], None},
           \A p \in toStop' : obj[p].id # None,
           \A e \in Endpoints : phase[e] # "absent" => phase'[e] # "absent",
           \A e \in Endpoints : phase[e] \in Past => phase'[e] \in Past,
           \A e \in Endpoints : event[e] = "gone" => event'[e] = "gone",
           UNCHANGED <<watcher, rec, start>>,
           StartHolds', SupervisorOwnership'
    PROVE  OwnershipInv'
<1>1. TypeOK /\ Registry /\ FreshIdle /\ JoinOnce /\ EventOnce /\ RecoverOnce
  BY DEF OwnershipInv
<1>2. {"join", "event", "recover"} \subseteq Kinds
  BY DEF Kinds
<1>3. /\ endpoints \in [Endpoints -> Objects \cup {None}]
      /\ handler \in [Endpoints -> Objects \cup {None}]
      /\ obj \in [Objects -> EndpointRec]
      /\ watcher.obj \in Objects \cup {None} /\ watcher.e \in Endpoints \cup {None}
      /\ \A r \in Recoverers : /\ rec[r].obj \in Objects \cup {None}
                               /\ rec[r].e \in Endpoints \cup {None}
                              /\ rec[r].todo \subseteq Endpoints
  BY <1>1 DEF TypeOK, Types, WatcherRec, RecoveryRec
<1>4. Registry'
  <2>1. \A e \in Endpoints :
           /\ endpoints'[e] # None => obj'[endpoints'[e]].id = e /\ phase'[e] # "absent"
           /\ handler'[e] # None => obj'[handler'[e]].id = e
    BY <1>1, <1>3 DEF Registry
  <2>2. watcher'.obj # None => obj'[watcher'.obj].id = watcher'.e
    BY <1>1, <1>3 DEF Registry
  <2>3. \A r \in Recoverers :
           /\ rec'[r].obj # None => obj'[rec'[r].obj].id = rec'[r].e
           /\ rec'[r].e # None => phase'[rec'[r].e] # "absent"
           /\ \A e \in rec'[r].todo : phase'[e] # "absent"
    BY <1>1, <1>3 DEF Registry
  <2>4. \A p \in toStop' : obj'[p].id # None
    BY DEF Types
  <2>5. QED BY <2>1, <2>2, <2>3, <2>4 DEF Registry
<1>5. FreshIdle'
  BY <1>1 DEF FreshIdle
<1>6. \A p \in Objects, k \in Kinds : start[p][k] # "idle" => obj[p].id \in Endpoints
  BY <1>1, <1>3 DEF FreshIdle, EndpointRec
<1>7. JoinOnce'
  BY <1>1, <1>2, <1>6 DEF JoinOnce, Past
<1>8. EventOnce'
  BY <1>1, <1>2, <1>3, <1>6 DEF EventOnce
<1>9. RecoverOnce'
  BY <1>1 DEF RecoverOnce
<1>10. QED
  BY <1>4, <1>5, <1>7, <1>8, <1>9 DEF OwnershipInv, TypeOK

\* The same, when neither objects nor supervisors change at all.
LEMMA DockerFrame ==
    ASSUME OwnershipInv, Types', Pointers',
           \A e \in Endpoints : endpoints'[e] \in {endpoints[e], None},
           \A e \in Endpoints : handler'[e] \in {handler[e], endpoints[e], None},
           \A p \in toStop' : obj[p].id # None,
           \A e \in Endpoints : phase[e] # "absent" => phase'[e] # "absent",
           \A e \in Endpoints : phase[e] \in Past => phase'[e] \in Past,
           \A e \in Endpoints : event[e] = "gone" => event'[e] = "gone",
           UNCHANGED <<watcher, rec, start, obj, sup>>
    PROVE  OwnershipInv'
<1>1. StartHolds'
  BY DEF OwnershipInv, StartHolds
<1>2. SupervisorOwnership'
  BY DEF OwnershipInv, SupervisorOwnership
<1>3. QED BY <1>1, <1>2, CallFrame

\* Networks are in no part of the invariant but their type.
LEMMA CreateNetworkInv ==
    ASSUME OwnershipInv, NEW n \in Networks, CreateNetwork(n)
    PROVE  OwnershipInv'
<1> USE DEF CreateNetwork, procVars
<1>1. TypeOK /\ Registry BY DEF OwnershipInv
<1>2. Types' /\ Pointers'
  BY <1>1 DEF TypeOK, Types, Pointers
<1>3. QED BY <1>1, <1>2, DockerFrame DEF Registry

\* Likewise.
LEMMA DeleteNetworkInv ==
    ASSUME OwnershipInv, NEW n \in Networks, DeleteNetwork(n)
    PROVE  OwnershipInv'
<1> USE DEF DeleteNetwork, procVars
<1>1. TypeOK /\ Registry BY DEF OwnershipInv
<1>2. Types' /\ Pointers'
  BY <1>1 DEF TypeOK, Types, Pointers
<1>3. QED BY <1>1, <1>2, DockerFrame DEF Registry

\* The handler's pointer is a copy of the registry's.
LEMMA JoinLookupInv ==
    ASSUME OwnershipInv, NEW e \in Endpoints, JoinLookup(e)
    PROVE  OwnershipInv'
<1>1. TypeOK /\ Registry BY DEF OwnershipInv
<1>2. /\ phase[e] = "created"
      /\ UNCHANGED <<dockerNets, event, links, mode, toStop, crashes, networks,
                     endpoints, dmu, obj, cache, watcher, rec, start, sup, faults>>
  BY DEF JoinLookup, procVars, regVars
<1>3. Types'
  BY <1>1, <1>2 DEF JoinLookup, To, TypeOK, Types, Phases
<1>4. Pointers'
  BY <1>1, <1>2 DEF JoinLookup, To, TypeOK, Types, Pointers, Joining
<1>5. \A f \in Endpoints : /\ phase[f] # "absent" => phase'[f] # "absent"
                           /\ phase[f] \in Past => phase'[f] \in Past
  BY <1>1, <1>2 DEF JoinLookup, To, TypeOK, Types, Past
<1>6. \A f \in Endpoints : handler'[f] \in {handler[f], endpoints[f], None}
  BY <1>1 DEF JoinLookup, TypeOK, Types
<1>7. QED BY <1>1, <1>2, <1>3, <1>4, <1>5, <1>6, DockerFrame DEF Registry

\* The kernel changes; on a failure the handler drops its pointer.
LEMMA JoinNetworkInv ==
    ASSUME OwnershipInv, NEW e \in Endpoints, JoinNetwork(e)
    PROVE  OwnershipInv'
<1>1. TypeOK /\ Registry BY DEF OwnershipInv
<1>2. /\ phase[e] = "linking"
      /\ UNCHANGED <<dockerNets, event, mode, toStop, crashes, networks,
                     endpoints, dmu, obj, cache, watcher, rec, start, sup>>
  BY DEF JoinNetwork, procVars, regVars
<1>3. PICK p \in {"storing", "left"} :
         /\ phase' = [phase EXCEPT ![e] = p]
         /\ p = "storing" => handler' = handler
  BY DEF JoinNetwork, To
<1>4. /\ links' \subseteq Endpoints
      /\ handler' \in {handler, [handler EXCEPT ![e] = None]}
      /\ faults' \in 0..MaxFaults
  BY <1>1 DEF JoinNetwork, Fault, TypeOK, Types
<1>5. Types'
  BY <1>1, <1>2, <1>3, <1>4 DEF TypeOK, Types, Phases
<1>6. Pointers'
  BY <1>1, <1>2, <1>3, <1>4 DEF TypeOK, Types, Pointers, Joining
<1>7. \A f \in Endpoints : /\ phase[f] # "absent" => phase'[f] # "absent"
                           /\ phase[f] \in Past => phase'[f] \in Past
  BY <1>1, <1>2, <1>3 DEF TypeOK, Types, Past
<1>8. \A f \in Endpoints : handler'[f] \in {handler[f], endpoints[f], None}
  BY <1>1, <1>4 DEF TypeOK, Types
<1>9. QED BY <1>1, <1>2, <1>5, <1>6, <1>7, <1>8, DockerFrame DEF Registry

\* The key and the veth name are in no part of the invariant but their type.
LEMMA JoinStoreInv ==
    ASSUME OwnershipInv, NEW e \in Endpoints, JoinStore(e)
    PROVE  OwnershipInv'
<1>1. TypeOK /\ Registry /\ StartHolds /\ SupervisorOwnership BY DEF OwnershipInv
<1>2. /\ phase[e] = "storing" /\ handler[e] \in Objects
      /\ obj \in [Objects -> EndpointRec]
  BY <1>1 DEF JoinStore, TypeOK, Types, Pointers, Joining
<1>3. /\ obj' \in [Objects -> EndpointRec]
      /\ \A p \in Objects : /\ obj'[p].id = obj[p].id
                            /\ obj'[p].sup = obj[p].sup
                           /\ obj'[p].started = obj[p].started
  <2> DEFINE h == handler[e]
             r == [[obj[h] EXCEPT !.key = TRUE] EXCEPT !.veth = TRUE]
  <2>1. obj' = [obj EXCEPT ![h] = r]
    BY <1>2 DEF JoinStore
  <2>2. /\ r \in EndpointRec
        /\ r.id = obj[h].id /\ r.sup = obj[h].sup /\ r.started = obj[h].started
    BY <1>2 DEF EndpointRec
  <2> HIDE DEF r
  <2>3. QED BY <1>2, <2>1, <2>2
<1>4. /\ phase' = [phase EXCEPT ![e] = "asking"]
      /\ UNCHANGED <<dockerNets, event, links, mode, toStop, crashes, networks,
                     endpoints, dmu, handler, cache, watcher, rec, start, sup, faults>>
  BY DEF JoinStore, To, procVars, regVars
<1>5. Types'
  BY <1>1, <1>3, <1>4 DEF TypeOK, Types, Phases
<1>6. Pointers'
  BY <1>1, <1>2, <1>3, <1>4 DEF TypeOK, Types, Pointers, Joining
<1>7. \A f \in Endpoints : /\ phase[f] # "absent" => phase'[f] # "absent"
                           /\ phase[f] \in Past => phase'[f] \in Past
  BY <1>1, <1>2, <1>4 DEF TypeOK, Types, Past
<1>8. StartHolds'
  BY <1>1, <1>4 DEF StartHolds
<1>9. SupervisorOwnership'
  BY <1>1, <1>3, <1>4 DEF SupervisorOwnership
<1>10. QED
  BY <1>1, <1>3, <1>4, <1>5, <1>6, <1>7, <1>8, <1>9, CallFrame DEF Registry

\* The handler drops its pointer.
LEMMA LeaveCleanupInv ==
    ASSUME OwnershipInv, NEW e \in Endpoints, LeaveCleanup(e)
    PROVE  OwnershipInv'
<1> USE DEF LeaveCleanup, To, procVars
<1>1. TypeOK /\ Registry BY DEF OwnershipInv
<1>2. Types'
  BY <1>1 DEF TypeOK, Types, Phases, Fault
<1>3. Pointers'
  BY <1>1 DEF TypeOK, Types, Pointers, Joining
<1>4. \A f \in Endpoints : /\ phase[f] # "absent" => phase'[f] # "absent"
                           /\ phase[f] \in Past => phase'[f] \in Past
  BY <1>1 DEF TypeOK, Types, Past
<1>5. \A f \in Endpoints : handler'[f] \in {handler[f], endpoints[f], None}
  BY <1>1 DEF TypeOK, Types
<1>6. QED BY <1>1, <1>2, <1>3, <1>4, <1>5, DockerFrame DEF Registry

\* The registry drops its pointer.
LEMMA DeleteRemoveInv ==
    ASSUME OwnershipInv, NEW e \in Endpoints, DeleteRemove(e)
    PROVE  OwnershipInv'
<1> USE DEF DeleteRemove, To, procVars
<1>1. TypeOK /\ Registry BY DEF OwnershipInv
<1>2. Types'
  BY <1>1 DEF TypeOK, Types, Phases
<1>3. Pointers'
  BY <1>1 DEF TypeOK, Types, Pointers, Joining
<1>4. \A f \in Endpoints : /\ phase[f] # "absent" => phase'[f] # "absent"
                           /\ phase[f] \in Past => phase'[f] \in Past
  BY <1>1 DEF TypeOK, Types, Past
<1>5. \A f \in Endpoints : endpoints'[f] \in {endpoints[f], None}
  BY <1>1 DEF TypeOK, Types
<1>6. QED BY <1>1, <1>2, <1>3, <1>4, <1>5, DockerFrame DEF Registry

\* An event that is gone stays gone.
LEMMA ConnectEventInv ==
    ASSUME OwnershipInv, NEW e \in Endpoints, ConnectEvent(e)
    PROVE  OwnershipInv'
<1> USE DEF ConnectEvent, procVars, regVars
<1>1. TypeOK /\ Registry BY DEF OwnershipInv
<1>2. Types' /\ Pointers'
  BY <1>1 DEF TypeOK, Types, Pointers
<1>3. \A f \in Endpoints : event[f] = "gone" => event'[f] = "gone"
  BY <1>1 DEF TypeOK, Types
<1>4. QED BY <1>1, <1>2, <1>3, DockerFrame DEF Registry

\* Likewise.
LEMMA StreamErrorInv ==
    ASSUME OwnershipInv, NEW e \in Endpoints, StreamError(e)
    PROVE  OwnershipInv'
<1> USE DEF StreamError, procVars, regVars
<1>1. TypeOK /\ Registry BY DEF OwnershipInv
<1>2. Types' /\ Pointers'
  BY <1>1 DEF TypeOK, Types, Pointers
<1>3. \A f \in Endpoints : event[f] = "gone" => event'[f] = "gone"
  BY <1>1 DEF TypeOK, Types
<1>4. QED BY <1>1, <1>2, <1>3, DockerFrame DEF Registry

\* A Join that is over stays over.
LEMMA DockerProceedsInv ==
    ASSUME OwnershipInv, NEW e \in Endpoints, DockerProceeds(e)
    PROVE  OwnershipInv'
<1> USE DEF DockerProceeds, To, procVars, regVars
<1>1. TypeOK /\ Registry BY DEF OwnershipInv
<1>2. Types'
  BY <1>1 DEF TypeOK, Types, Phases
<1>3. Pointers'
  BY <1>1 DEF TypeOK, Types, Pointers, Joining
<1>4. \A f \in Endpoints : /\ phase[f] # "absent" => phase'[f] # "absent"
                           /\ phase[f] \in Past => phase'[f] \in Past
  BY <1>1 DEF TypeOK, Types, Past
<1>5. QED BY <1>1, <1>2, <1>3, <1>4, DockerFrame DEF Registry

\* Only the mode changes.
LEMMA RestartInv ==
    ASSUME OwnershipInv, Restart
    PROVE  OwnershipInv'
<1> USE DEF Restart, dockerVars, regVars
<1>1. TypeOK /\ Registry BY DEF OwnershipInv
<1>2. Types' /\ Pointers'
  BY <1>1 DEF TypeOK, Types, Pointers
<1>3. QED BY <1>1, <1>2, DockerFrame DEF Registry

\* What Shutdown lists is registered, so it is allocated.
LEMMA ShutdownBeginInv ==
    ASSUME OwnershipInv, ShutdownBegin
    PROVE  OwnershipInv'
<1> USE DEF ShutdownBegin, dockerVars, regVars
<1>1. TypeOK /\ Registry BY DEF OwnershipInv
<1>2. Types' /\ Pointers'
  BY <1>1 DEF TypeOK, Types, Pointers
<1>3. \A p \in toStop' : obj[p].id # None
  BY <1>1 DEF Registry, TypeOK, Types
<1>4. QED BY <1>1, <1>2, <1>3, DockerFrame

\* Taking an object's supervisor away and cancelling it, as Leave, Stop and
\* Shutdown do, leaves every running supervisor with an owner.
LEMMA TakeAndCancel ==
    ASSUME OwnershipInv, NEW o \in Objects, TakeSup(o), CancelSup(o),
           UNCHANGED start
    PROVE  /\ obj' \in [Objects -> EndpointRec]
           /\ sup' \in [Objects -> [Kinds -> SupStates]]
           /\ \A p \in Objects : obj'[p].id = obj[p].id
           /\ StartHolds' /\ SupervisorOwnership'
<1>1. /\ StartHolds /\ SupervisorOwnership
      /\ obj \in [Objects -> EndpointRec]
      /\ sup \in [Objects -> [Kinds -> SupStates]]
  BY DEF OwnershipInv, TypeOK, Types
<1>2. /\ obj' \in [Objects -> EndpointRec]
      /\ obj'[o].sup = None /\ obj'[o].started = FALSE
      /\ \A p \in Objects : obj'[p].id = obj[p].id
      /\ \A p \in Objects : p # o => obj'[p] = obj[p]
  BY <1>1, TakeSupEffect
<1>3. /\ sup' \in [Objects -> [Kinds -> SupStates]]
      /\ \A p \in Objects, j \in Kinds :
            \/ sup'[p][j] = sup[p][j]
            \/ p = o /\ j = obj[o].sup /\ sup'[p][j] = "cancelled"
      /\ \A j \in Kinds : j = obj[o].sup => sup'[o][j] # "live"
  BY <1>1, CancelSupEffect
<1>4. StartHolds'
  BY <1>1, <1>3 DEF StartHolds, SupervisorOwnership
<1>5. SupervisorOwnership'
  <2>1. ASSUME NEW p \in Objects
        PROVE  obj'[p].started <=> obj'[p].sup # None
    BY <1>1, <1>2 DEF SupervisorOwnership
  <2>2. ASSUME NEW p \in Objects, NEW k \in Kinds,
               sup'[p][k] = "live", start'[p][k] = "done"
        PROVE  obj'[p].sup = k
    <3>1. sup[p][k] = "live" /\ ~(p = o /\ k = obj[o].sup)
      BY <1>3, <2>2
    <3>2. obj[p].sup = k
      BY <1>1, <2>2, <3>1 DEF SupervisorOwnership
    <3>3. QED BY <1>2, <3>1, <3>2
  <2>3. ASSUME NEW p \in Objects, NEW k \in Kinds, obj'[p].sup = k
        PROVE  start'[p][k] = "done" /\ sup'[p][k] \in {"live", "exited"}
    <3>1. p # o BY <1>2, <2>3
    <3>2. QED BY <1>1, <1>2, <1>3, <2>3, <3>1 DEF SupervisorOwnership
  <2>4. QED BY <2>1, <2>2, <2>3 DEF SupervisorOwnership
<1>6. QED BY <1>2, <1>3, <1>4, <1>5

\* Leave takes the supervisor of the registered object, if there is one.
LEMMA LeaveTakeInv ==
    ASSUME OwnershipInv, NEW e \in Endpoints, LeaveTake(e)
    PROVE  OwnershipInv'
<1>1. TypeOK /\ Registry BY DEF OwnershipInv
<1>2. /\ phase[e] = "joined"
      /\ UNCHANGED <<dockerNets, event, links, mode, toStop, crashes, networks,
                     endpoints, cache, watcher, rec, start, faults>>
  BY DEF LeaveTake, procVars
<1>3. PICK q \in {"leaving", "left"} : phase' = [phase EXCEPT ![e] = q]
  BY DEF LeaveTake, To
<1>4. \A f \in Endpoints : /\ phase[f] # "absent" => phase'[f] # "absent"
                           /\ phase[f] \in Past => phase'[f] \in Past
  BY <1>1, <1>3 DEF TypeOK, Types, Past
<1>5. CASE endpoints[e] = None
  <2>1. UNCHANGED <<obj, sup, dmu, handler>> /\ phase' = [phase EXCEPT ![e] = "left"]
    BY <1>5 DEF LeaveTake, To
  <2>2. Types' /\ Pointers'
    BY <1>1, <1>2, <2>1 DEF TypeOK, Types, Pointers, Phases, Joining
  <2>3. QED BY <1>1, <1>2, <1>4, <2>1, <2>2, DockerFrame DEF Registry
<1>6. CASE endpoints[e] # None
  <2>1. /\ TakeSup(endpoints[e]) /\ CancelSup(endpoints[e]) /\ dmu' = e
        /\ handler' = [handler EXCEPT ![e] = endpoints[e]]
        /\ endpoints[e] \in Objects
    BY <1>1, <1>6 DEF LeaveTake, TypeOK, Types
  <2>2. /\ obj' \in [Objects -> EndpointRec]
        /\ sup' \in [Objects -> [Kinds -> SupStates]]
        /\ \A p \in Objects : obj'[p].id = obj[p].id
        /\ StartHolds' /\ SupervisorOwnership'
    BY <1>2, <2>1, TakeAndCancel
  <2>3. Types'
    BY <1>1, <1>2, <1>3, <2>1, <2>2 DEF TypeOK, Types, Phases
  <2>4. Pointers'
    BY <1>1, <1>2, <1>3, <2>1, <2>2 DEF TypeOK, Types, Pointers, Joining
  <2>5. \A f \in Endpoints : handler'[f] \in {handler[f], endpoints[f], None}
    BY <1>1, <2>1 DEF TypeOK, Types
  <2>6. QED
    BY <1>1, <1>2, <1>4, <2>2, <2>3, <2>4, <2>5, CallFrame DEF Registry
<1>7. QED BY <1>5, <1>6

\* DeleteEndpoint does the same through Stop.
LEMMA DeleteTakeInv ==
    ASSUME OwnershipInv, NEW e \in Endpoints, DeleteTake(e)
    PROVE  OwnershipInv'
<1>1. TypeOK /\ Registry BY DEF OwnershipInv
<1>2. /\ cache' = cache \ {e} /\ phase[e] \in {"created", "left"}
      /\ UNCHANGED <<dockerNets, event, links, mode, toStop, crashes, networks,
                     endpoints, handler, watcher, rec, start, faults>>
  BY DEF DeleteTake, procVars
<1>3. PICK q \in {"deleting", "deleted"} : phase' = [phase EXCEPT ![e] = q]
  BY DEF DeleteTake, To
<1>4. \A f \in Endpoints : /\ phase[f] # "absent" => phase'[f] # "absent"
                           /\ phase[f] \in Past => phase'[f] \in Past
  BY <1>1, <1>3 DEF TypeOK, Types, Past
<1>5. CASE endpoints[e] = None
  <2>1. UNCHANGED <<obj, sup, dmu>>
    BY <1>5 DEF DeleteTake
  <2>2. Types'
    BY <1>1, <1>2, <1>3, <2>1 DEF TypeOK, Types, Phases
  <2>3. Pointers'
    BY <1>1, <1>2, <1>3, <2>1 DEF TypeOK, Types, Pointers, Joining
  <2>4. QED BY <1>1, <1>2, <1>4, <2>1, <2>2, <2>3, DockerFrame DEF Registry
<1>6. CASE endpoints[e] # None
  <2>1. /\ TakeSup(endpoints[e]) /\ CancelSup(endpoints[e]) /\ dmu' = e
        /\ endpoints[e] \in Objects
    BY <1>1, <1>6 DEF DeleteTake, TypeOK, Types
  <2>2. /\ obj' \in [Objects -> EndpointRec]
        /\ sup' \in [Objects -> [Kinds -> SupStates]]
        /\ \A p \in Objects : obj'[p].id = obj[p].id
        /\ StartHolds' /\ SupervisorOwnership'
    BY <1>2, <2>1, TakeAndCancel
  <2>3. Types'
    BY <1>1, <1>2, <1>3, <2>1, <2>2 DEF TypeOK, Types, Phases
  <2>4. Pointers'
    BY <1>1, <1>2, <1>3, <2>1, <2>2 DEF TypeOK, Types, Pointers, Joining
  <2>5. QED
    BY <1>1, <1>2, <1>4, <2>2, <2>3, <2>4, CallFrame DEF Registry
<1>7. QED BY <1>5, <1>6

\* So does Shutdown for each object on its list.
LEMMA ShutdownStopInv ==
    ASSUME OwnershipInv, NEW o \in Objects, ShutdownStop(o)
    PROVE  OwnershipInv'
<1>1. TypeOK /\ Registry BY DEF OwnershipInv
<1>2. /\ TakeSup(o) /\ CancelSup(o) /\ toStop' = toStop \ {o}
      /\ UNCHANGED <<dockerNets, phase, event, links, mode, crashes, networks,
                     endpoints, dmu, handler, cache, watcher, rec, start, faults>>
  BY DEF ShutdownStop, dockerVars, regVars
<1>3. /\ obj' \in [Objects -> EndpointRec]
      /\ sup' \in [Objects -> [Kinds -> SupStates]]
      /\ \A p \in Objects : obj'[p].id = obj[p].id
      /\ StartHolds' /\ SupervisorOwnership'
  BY <1>2, TakeAndCancel
<1>4. Types'
  BY <1>1, <1>2, <1>3 DEF TypeOK, Types
<1>5. Pointers'
  BY <1>1, <1>2, <1>3 DEF TypeOK, Types, Pointers
<1>6. QED BY <1>1, <1>2, <1>3, <1>4, <1>5, CallFrame DEF Registry

\* A cancelled loop is owned by nobody, so nobody loses it.
LEMMA SupStopsInv ==
    ASSUME OwnershipInv, NEW o \in Objects, NEW k \in Kinds, SupStops(o, k)
    PROVE  OwnershipInv'
<1>1. TypeOK /\ Registry /\ StartHolds /\ SupervisorOwnership
  BY DEF OwnershipInv
<1>2. /\ sup[o][k] = "cancelled" /\ sup' = [sup EXCEPT ![o][k] = "exited"]
      /\ UNCHANGED <<dockerNets, phase, event, links, mode, toStop, crashes,
                     networks, endpoints, dmu, handler, obj, cache, watcher, rec,
                     start, faults>>
  BY DEF SupStops, dockerVars, procVars, regVars
<1>3. /\ sup' \in [Objects -> [Kinds -> SupStates]]
      /\ sup'[o][k] = "exited"
      /\ \A p \in Objects, j \in Kinds :
            p # o \/ j # k => sup'[p][j] = sup[p][j]
  BY <1>1, <1>2, SupEffect DEF TypeOK, Types, SupStates
<1>4. Types' /\ Pointers'
  BY <1>1, <1>2, <1>3 DEF TypeOK, Types, Pointers
<1>5. StartHolds'
  BY <1>1, <1>2, <1>3 DEF StartHolds
<1>6. SupervisorOwnership'
  BY <1>1, <1>2, <1>3 DEF SupervisorOwnership
<1>7. QED BY <1>1, <1>2, <1>4, <1>5, <1>6, CallFrame DEF Registry

\* A loop that ends by itself may stay with its object.
LEMMA SupGivesUpInv ==
    ASSUME OwnershipInv, NEW o \in Objects, NEW k \in Kinds, SupGivesUp(o, k)
    PROVE  OwnershipInv'
<1>1. TypeOK /\ Registry /\ StartHolds /\ SupervisorOwnership
  BY DEF OwnershipInv
<1>2. /\ sup[o][k] = "live" /\ sup' = [sup EXCEPT ![o][k] = "exited"]
      /\ start[o][k] # "starting" /\ faults' \in 0..MaxFaults
      /\ UNCHANGED <<dockerNets, phase, event, links, mode, toStop, crashes,
                     networks, endpoints, dmu, handler, obj, cache, watcher, rec,
                     start>>
  BY <1>1 DEF SupGivesUp, Fault, TypeOK, Types, dockerVars, procVars, regVars
<1>3. /\ sup' \in [Objects -> [Kinds -> SupStates]]
      /\ sup'[o][k] = "exited"
      /\ \A p \in Objects, j \in Kinds :
            p # o \/ j # k => sup'[p][j] = sup[p][j]
  BY <1>1, <1>2, SupEffect DEF TypeOK, Types, SupStates
<1>4. Types' /\ Pointers'
  BY <1>1, <1>2, <1>3 DEF TypeOK, Types, Pointers
<1>5. StartHolds'
  BY <1>1, <1>2, <1>3 DEF StartHolds
<1>6. SupervisorOwnership'
  BY <1>1, <1>2, <1>3 DEF SupervisorOwnership
<1>7. QED BY <1>1, <1>2, <1>4, <1>5, <1>6, CallFrame DEF Registry

-----------------------------------------------------------------------------
(* New objects, new goroutines *)

\* A fresh object enters the registry.  Nothing refers to it and it has no
\* goroutine yet.
LEMMA NewObjectFrame ==
    ASSUME OwnershipInv, NEW o \in Objects, NEW e \in Endpoints,
           obj[o].id = None, phase'[e] # "absent",
           obj' = [obj EXCEPT ![o] = NewEndpoint(e)],
           endpoints' = [endpoints EXCEPT ![e] = o],
           \A f \in Endpoints : phase[f] # "absent" => phase'[f] # "absent",
           \A f \in Endpoints : phase[f] \in Past => phase'[f] \in Past,
           UNCHANGED <<event, handler, watcher, start, sup, toStop>>
    PROVE  /\ obj' \in [Objects -> EndpointRec]
           /\ endpoints' \in [Endpoints -> Objects \cup {None}]
           /\ \A p \in Objects : p # o => obj'[p] = obj[p]
           /\ obj'[o].id = e
           /\ \A f \in Endpoints :
                 /\ endpoints'[f] # None => /\ obj'[endpoints'[f]].id = f
                                            /\ phase'[f] # "absent"
                 /\ handler'[f] # None => obj'[handler'[f]].id = f
           /\ watcher'.obj # None => obj'[watcher'.obj].id = watcher'.e
           /\ \A p \in toStop' : obj'[p].id # None
           /\ FreshIdle' /\ JoinOnce' /\ EventOnce'
           /\ StartHolds' /\ SupervisorOwnership'
<1>1. /\ TypeOK /\ Registry /\ FreshIdle /\ JoinOnce /\ EventOnce
      /\ StartHolds /\ SupervisorOwnership
  BY DEF OwnershipInv
<1>2. /\ endpoints \in [Endpoints -> Objects \cup {None}]
      /\ handler \in [Endpoints -> Objects \cup {None}]
      /\ obj \in [Objects -> EndpointRec]
      /\ watcher.obj \in Objects \cup {None} /\ watcher.e \in Endpoints \cup {None}
      /\ watcher.obj # None => watcher.e \in Endpoints
      /\ toStop \subseteq Objects
  BY <1>1 DEF TypeOK, Types, Pointers, WatcherRec
<1>3. /\ obj' \in [Objects -> EndpointRec]
      /\ obj'[o].id = e /\ obj'[o].sup = None /\ obj'[o].started = FALSE
      /\ \A p \in Objects : p # o => obj'[p] = obj[p]
  BY <1>2, NewObjectEffect
<1>4. {"join", "event", "recover"} \subseteq Kinds
  BY DEF Kinds
<1>5. \A k \in Kinds : start[o][k] = "idle" /\ sup[o][k] = "none"
  BY <1>1 DEF FreshIdle, StartHolds
<1>6. \A p \in Objects, k \in Kinds : start[p][k] # "idle" =>
         p # o /\ obj'[p] = obj[p] /\ obj[p].id \in Endpoints
  BY <1>1, <1>2, <1>3 DEF FreshIdle, EndpointRec
<1>7. /\ endpoints' \in [Endpoints -> Objects \cup {None}]
      /\ \A f \in Endpoints :
            /\ endpoints'[f] # None => obj'[endpoints'[f]].id = f /\ phase'[f] # "absent"
            /\ handler'[f] # None => obj'[handler'[f]].id = f
  <2>1. endpoints' \in [Endpoints -> Objects \cup {None}] BY <1>2
  <2>2. \A f \in Endpoints : endpoints[f] # o /\ handler[f] # o
    BY <1>1 DEF Registry
  <2>3. QED BY <1>1, <1>2, <1>3, <2>1, <2>2 DEF Registry
<1>8. watcher'.obj # None => obj'[watcher'.obj].id = watcher'.e
  BY <1>1, <1>2, <1>3 DEF Registry
<1>9. \A p \in toStop' : obj'[p].id # None
  BY <1>1, <1>2, <1>3 DEF Registry
<1>10. FreshIdle'
  BY <1>5, <1>6 DEF FreshIdle
<1>11. JoinOnce'
  BY <1>1, <1>4, <1>6 DEF JoinOnce, Past
<1>12. EventOnce'
  BY <1>1, <1>4, <1>6 DEF EventOnce
<1>13. StartHolds'
  BY <1>1 DEF StartHolds
<1>14. SupervisorOwnership'
  <2>1. \A p \in Objects : obj'[p].started <=> obj'[p].sup # None
    BY <1>1, <1>3 DEF SupervisorOwnership
  <2>2. ASSUME NEW p \in Objects, NEW k \in Kinds
        PROVE  /\ sup'[p][k] = "live" /\ start'[p][k] = "done" => obj'[p].sup = k
               /\ obj'[p].sup = k => /\ start'[p][k] = "done"
                                     /\ sup'[p][k] \in {"live", "exited"}
    <3>1. CASE p = o
      BY <1>3, <1>5, <3>1
    <3>2. CASE p # o
      BY <1>1, <1>3, <3>2 DEF SupervisorOwnership
    <3>3. QED BY <3>1, <3>2
  <2>3. QED BY <2>1, <2>2 DEF SupervisorOwnership
<1>15. QED
  BY <1>3, <1>7, <1>8, <1>9, <1>10, <1>11, <1>12, <1>13, <1>14

\* A new object, or a refusal that changes nothing but the phase.
LEMMA CreateEndpointInv ==
    ASSUME OwnershipInv, NEW e \in Endpoints, CreateEndpoint(e)
    PROVE  OwnershipInv'
<1>1. TypeOK /\ Registry /\ RecoverOnce BY DEF OwnershipInv
<1>2. /\ phase[e] = "absent"
      /\ UNCHANGED <<dockerNets, event, links, mode, toStop, crashes, networks,
                     dmu, handler, cache, watcher, rec, start, sup, faults>>
  BY DEF CreateEndpoint, procVars
<1>3. PICK q \in {"created", "refused"} : phase' = [phase EXCEPT ![e] = q]
  BY DEF CreateEndpoint, To
<1>4. /\ \A f \in Endpoints : /\ phase[f] # "absent" => phase'[f] # "absent"
                              /\ phase[f] \in Past => phase'[f] \in Past
      /\ phase' \in [Endpoints -> Phases] /\ phase'[e] # "absent"
      /\ \A f \in Endpoints :
            phase'[f] \in Joining \cup {"leaving"} => phase[f] = phase'[f]
  BY <1>1, <1>2, <1>3 DEF TypeOK, Types, Past, Phases, Joining
<1>5. CASE UNCHANGED <<obj, endpoints>>
  <2>1. Types' /\ Pointers'
    BY <1>1, <1>2, <1>4, <1>5 DEF TypeOK, Types, Pointers
  <2>2. QED BY <1>1, <1>2, <1>4, <1>5, <2>1, DockerFrame DEF Registry
<1>6. ASSUME NEW o \in Objects, Fresh(o),
             obj' = [obj EXCEPT ![o] = NewEndpoint(e)],
             endpoints' = [endpoints EXCEPT ![e] = o]
      PROVE  OwnershipInv'
  <2>1. obj[o].id = None BY <1>6 DEF Fresh
  <2>2. /\ obj' \in [Objects -> EndpointRec]
        /\ endpoints' \in [Endpoints -> Objects \cup {None}]
        /\ \A p \in Objects : p # o => obj'[p] = obj[p]
        /\ obj'[o].id = e
        /\ \A f \in Endpoints :
              /\ endpoints'[f] # None => /\ obj'[endpoints'[f]].id = f
                                         /\ phase'[f] # "absent"
              /\ handler'[f] # None => obj'[handler'[f]].id = f
        /\ watcher'.obj # None => obj'[watcher'.obj].id = watcher'.e
        /\ \A p \in toStop' : obj'[p].id # None
        /\ FreshIdle' /\ JoinOnce' /\ EventOnce'
        /\ StartHolds' /\ SupervisorOwnership'
    BY <1>2, <1>4, <1>6, <2>1, NewObjectFrame
  <2>3. Types'
    BY <1>1, <1>2, <1>4, <2>2 DEF TypeOK, Types
  <2>4. Pointers'
    BY <1>1, <1>2, <1>4, <2>2 DEF TypeOK, Types, Pointers
  <2>5. \A r \in Recoverers :
           /\ rec'[r].obj # None => obj'[rec'[r].obj].id = rec'[r].e
           /\ rec'[r].e # None => phase'[rec'[r].e] # "absent"
           /\ \A f \in rec'[r].todo : phase'[f] # "absent"
    <3>1. \A r \in Recoverers : /\ rec[r].obj \in Objects \cup {None}
                                /\ rec[r].e \in Endpoints \cup {None}
                                /\ rec[r].todo \subseteq Endpoints
                                /\ rec[r].obj # None => rec[r].e \in Endpoints
      BY <1>1 DEF TypeOK, Types, Pointers, RecoveryRec
    <3>2. \A r \in Recoverers : rec[r].obj # o
      BY <1>1, <2>1, <3>1 DEF Registry
    <3>3. QED BY <1>1, <1>2, <1>4, <2>2, <3>1, <3>2 DEF Registry
  <2>6. Registry'
    BY <2>2, <2>5 DEF Registry
  <2>7. RecoverOnce'
    BY <1>1, <1>2 DEF RecoverOnce
  <2>8. QED BY <2>2, <2>3, <2>4, <2>6, <2>7 DEF OwnershipInv, TypeOK
<1>7. QED BY <1>5, <1>6 DEF CreateEndpoint

\* A goroutine is spawned for an allocated object that has had none of its kind.
LEMMA SpawnEffect ==
    ASSUME OwnershipInv, NEW o \in Objects, NEW k \in Kinds,
           start[o][k] = "idle", obj[o].id # None, Spawn(o, k),
           UNCHANGED <<obj, sup>>
    PROVE  /\ start' \in [Objects -> [Kinds -> StartPCs]]
           /\ start'[o][k] = "check"
           /\ \A p \in Objects, j \in Kinds :
                 p # o \/ j # k => start'[p][j] = start[p][j]
           /\ FreshIdle' /\ StartHolds' /\ SupervisorOwnership'
<1>1. FreshIdle /\ StartHolds /\ SupervisorOwnership
  BY DEF OwnershipInv
<1>2. /\ start' \in [Objects -> [Kinds -> StartPCs]]
      /\ start'[o][k] = "check"
      /\ \A p \in Objects, j \in Kinds :
            p # o \/ j # k => start'[p][j] = start[p][j]
  <2>1. start \in [Objects -> [Kinds -> StartPCs]] /\ "check" \in StartPCs
    BY DEF OwnershipInv, TypeOK, Types, StartPCs
  <2>2. QED BY <2>1, GoEffect DEF Spawn
<1>3. FreshIdle'
  BY <1>1, <1>2 DEF FreshIdle
<1>4. StartHolds'
  BY <1>1, <1>2 DEF StartHolds
<1>5. SupervisorOwnership'
  BY <1>1, <1>2 DEF SupervisorOwnership
<1>6. QED BY <1>2, <1>3, <1>4, <1>5

\* The endpoint was not past its Join before, so this is the first "join" start.
LEMMA JoinCacheInv ==
    ASSUME OwnershipInv, NEW e \in Endpoints, JoinCache(e)
    PROVE  OwnershipInv'
<1>1. /\ TypeOK /\ Registry /\ FreshIdle /\ JoinOnce /\ EventOnce /\ RecoverOnce
      /\ StartHolds /\ SupervisorOwnership
  BY DEF OwnershipInv
<1>2. /\ phase[e] = "asking" /\ phase' = [phase EXCEPT ![e] = "joined"]
      /\ handler' = [handler EXCEPT ![e] = None]
      /\ UNCHANGED <<dockerNets, event, links, mode, toStop, crashes, networks,
                     endpoints, dmu, obj, cache, watcher, rec, sup, faults>>
  BY DEF JoinCache, To, procVars, regVars
<1>3. /\ \A f \in Endpoints : /\ phase[f] # "absent" => phase'[f] # "absent"
                              /\ phase[f] \in Past => phase'[f] \in Past
      /\ phase' \in [Endpoints -> Phases]
      /\ \A f \in Endpoints : phase'[f] \in Joining \cup {"leaving"} =>
            f # e /\ phase[f] = phase'[f]
      /\ handler' \in [Endpoints -> Objects \cup {None}]
      /\ \A f \in Endpoints : handler'[f] \in {handler[f], None}
      /\ handler[e] \in Objects /\ "join" \in Kinds
  BY <1>1, <1>2 DEF TypeOK, Types, Pointers, Past, Phases, Joining, Kinds
<1>4. CASE UNCHANGED start
  <2>1. Types'
    BY <1>1, <1>2, <1>3, <1>4 DEF TypeOK, Types
  <2>2. Pointers'
    BY <1>1, <1>2, <1>3, <1>4 DEF TypeOK, Types, Pointers
  <2>3. QED BY <1>1, <1>2, <1>3, <1>4, <2>1, <2>2, DockerFrame DEF Registry
<1>5. CASE Spawn(handler[e], "join")
  <2> DEFINE o == handler[e]
  <2>1. obj[o].id = e /\ start[o]["join"] = "idle"
    BY <1>1, <1>2, <1>3 DEF Registry, JoinOnce
  <2>2. /\ start' \in [Objects -> [Kinds -> StartPCs]]
        /\ start'[o]["join"] = "check"
        /\ \A p \in Objects, j \in Kinds :
              p # o \/ j # "join" => start'[p][j] = start[p][j]
        /\ FreshIdle' /\ StartHolds' /\ SupervisorOwnership'
    BY <1>2, <1>3, <1>5, <2>1, SpawnEffect
  <2>3. o \in Objects BY <1>3
  <2> HIDE DEF o
  <2>4. \A p \in Objects : /\ start'[p]["event"] = start[p]["event"]
                           /\ start'[p]["recover"] = start[p]["recover"]
                           /\ p # o => start'[p]["join"] = start[p]["join"]
    BY <2>2 DEF Kinds
  <2>5. Types'
    BY <1>1, <1>2, <1>3, <2>2 DEF TypeOK, Types
  <2>6. Pointers'
    BY <1>1, <1>2, <1>3, <2>4 DEF TypeOK, Types, Pointers
  <2>7. Registry'
    BY <1>1, <1>2, <1>3 DEF Registry, TypeOK, Types, RecoveryRec
  <2>8. JoinOnce'
    <3>1. ASSUME NEW p \in Objects, start'[p]["join"] # "idle"
          PROVE  phase'[obj'[p].id] \in Past
      <4>1. CASE p = o
        BY <1>1, <1>2, <2>1, <4>1 DEF TypeOK, Types, Past
      <4>2. CASE p # o
        <5>1. phase[obj[p].id] \in Past
          BY <1>1, <2>4, <3>1, <4>2 DEF JoinOnce, Past
        <5>2. obj[p].id \in Endpoints
          BY <1>1, <1>3, <2>4, <3>1, <4>2 DEF FreshIdle, TypeOK, Types, EndpointRec
        <5>3. QED BY <1>2, <1>3, <5>1, <5>2
      <4>3. QED BY <4>1, <4>2
    <3>2. QED BY <3>1 DEF JoinOnce, Past
  <2>9. EventOnce' /\ RecoverOnce'
    <3>1. EventOnce' BY <1>1, <1>2, <2>4 DEF EventOnce
    <3>2. RecoverOnce'
      BY <1>1, <1>2, <2>4 DEF RecoverOnce, TypeOK, Types, RecoveryRec
    <3>3. QED BY <3>1, <3>2
  <2>10. QED BY <2>2, <2>5, <2>6, <2>7, <2>8, <2>9 DEF OwnershipInv, TypeOK
<1>6. QED BY <1>4, <1>5 DEF JoinCache

-----------------------------------------------------------------------------
(* The watcher *)

\* The watcher moves on without spawning anything.
LEMMA WatcherFrame ==
    ASSUME OwnershipInv, watcher' \in WatcherRec, cache' \subseteq Endpoints,
           event' \in [Endpoints -> {"unsent", "queued", "gone"}],
           faults' \in 0..MaxFaults,
           watcher'.pc # "idle" => watcher'.e \in Endpoints,
           watcher'.pc \in {"started", "key"} <=> watcher'.obj # None,
           watcher'.obj # None => obj[watcher'.obj].id = watcher'.e,
           \A e \in Endpoints : event[e] = "gone" => event'[e] = "gone",
           watcher'.e # None =>
              event'[watcher'.e] = "gone"
              /\ (watcher'.e = watcher.e \/ event[watcher'.e] # "gone"),
           UNCHANGED <<dockerNets, phase, links, mode, toStop, crashes, networks,
                       endpoints, dmu, handler, obj, rec, start, sup>>
    PROVE  OwnershipInv'
<1>1. TypeOK /\ Registry /\ FreshIdle /\ JoinOnce /\ EventOnce /\ RecoverOnce
  BY DEF OwnershipInv
<1>2. Types' /\ Pointers'
  BY <1>1 DEF TypeOK, Types, Pointers
<1>3. Registry'
  BY <1>1 DEF Registry
<1>4. FreshIdle' /\ JoinOnce' /\ RecoverOnce'
  BY <1>1 DEF FreshIdle, JoinOnce, RecoverOnce
<1>5. \A o \in Objects : start[o]["event"] # "idle" => obj[o].id \in Endpoints
  BY <1>1 DEF FreshIdle, TypeOK, Types, EndpointRec, Kinds
<1>6. EventOnce'
  BY <1>1, <1>5 DEF EventOnce
<1>7. StartHolds' /\ SupervisorOwnership'
  BY DEF OwnershipInv, StartHolds, SupervisorOwnership
<1>8. QED BY <1>2, <1>3, <1>4, <1>6, <1>7 DEF OwnershipInv, TypeOK

\* The event is gone from here on, and no start for it has been made.
LEMMA WatcherReceiveInv ==
    ASSUME OwnershipInv, NEW e \in Endpoints, WatcherReceive(e)
    PROVE  OwnershipInv'
<1>1. TypeOK /\ Registry /\ EventOnce BY DEF OwnershipInv
<1>2. /\ watcher.pc = "idle" /\ event[e] = "queued"
      /\ event' = [event EXCEPT ![e] = "gone"]
      /\ UNCHANGED <<dockerNets, phase, links, mode, toStop, crashes, networks,
                     endpoints, dmu, handler, obj, cache, rec, start, sup>>
  BY DEF WatcherReceive, procVars, regVars
<1>3. /\ watcher \in WatcherRec
      /\ event' \in [Endpoints -> {"unsent", "queued", "gone"}]
      /\ event'[e] = "gone"
      /\ \A f \in Endpoints : event[f] = "gone" => event'[f] = "gone"
      /\ faults' \in 0..MaxFaults /\ cache' \subseteq Endpoints
  BY <1>1, <1>2 DEF WatcherReceive, Fault, TypeOK, Types
<1>4. watcher.obj = None
  BY <1>1, <1>2 DEF TypeOK, Pointers
<1>5. CASE watcher' = [watcher EXCEPT !.pc = "store", !.e = e]
  <2>1. /\ watcher' \in WatcherRec
        /\ watcher'.pc = "store" /\ watcher'.e = e /\ watcher'.obj = None
    BY <1>3, <1>4, <1>5 DEF WatcherRec, WatcherPCs
  <2>2. QED BY <1>2, <1>3, <2>1, WatcherFrame
<1>6. CASE UNCHANGED watcher
  <2>1. watcher.e # None => watcher.e \in Endpoints /\ event[watcher.e] = "gone"
    BY <1>1, <1>3 DEF EventOnce, WatcherRec
  <2>2. QED BY <1>2, <1>3, <1>4, <1>6, <2>1, WatcherFrame
<1>7. QED BY <1>5, <1>6 DEF WatcherReceive

\* The watcher keeps its endpoint.
LEMMA WatcherStoreInv ==
    ASSUME OwnershipInv, WatcherStore
    PROVE  OwnershipInv'
<1>1. TypeOK /\ Registry /\ EventOnce BY DEF OwnershipInv
<1>2. /\ watcher.pc = "store" /\ cache' = cache \cup {watcher.e}
      /\ watcher' = [watcher EXCEPT !.pc = "lookup"]
      /\ UNCHANGED <<dockerNets, phase, event, links, mode, toStop, crashes,
                     networks, endpoints, dmu, handler, obj, rec, start, sup, faults>>
  BY DEF WatcherStore, dockerVars, procVars, regVars
<1>3. /\ watcher \in WatcherRec /\ cache \subseteq Endpoints
      /\ watcher.e \in Endpoints /\ watcher.obj = None
      /\ event \in [Endpoints -> {"unsent", "queued", "gone"}]
      /\ faults \in 0..MaxFaults
  BY <1>1, <1>2 DEF TypeOK, Types, Pointers
<1>4. /\ watcher' \in WatcherRec /\ watcher'.pc = "lookup"
      /\ watcher'.e = watcher.e /\ watcher'.obj = None
  BY <1>2, <1>3 DEF WatcherRec, WatcherPCs
<1>5. QED BY <1>1, <1>2, <1>3, <1>4, WatcherFrame DEF EventOnce

\* The watcher's pointer is a copy of the registry's.
LEMMA WatcherLookupInv ==
    ASSUME OwnershipInv, WatcherLookup
    PROVE  OwnershipInv'
<1>1. TypeOK /\ Registry /\ EventOnce BY DEF OwnershipInv
<1>2. /\ watcher.pc = "lookup"
      /\ UNCHANGED <<dockerNets, phase, event, links, mode, toStop, crashes,
                     networks, endpoints, dmu, handler, obj, cache, rec, start, sup,
                     faults>>
  BY DEF WatcherLookup, dockerVars, procVars, regVars
<1>3. /\ watcher \in WatcherRec /\ cache \subseteq Endpoints
      /\ watcher.e \in Endpoints
      /\ endpoints[watcher.e] \in Objects \cup {None}
      /\ event \in [Endpoints -> {"unsent", "queued", "gone"}]
      /\ faults \in 0..MaxFaults
  BY <1>1, <1>2 DEF TypeOK, Types, Pointers
<1>4. CASE watcher' = IdleWatcher
  <2>1. /\ watcher' \in WatcherRec /\ watcher'.pc = "idle"
        /\ watcher'.e = None /\ watcher'.obj = None
    BY <1>4 DEF IdleWatcher, WatcherRec, WatcherPCs
  <2>2. QED BY <1>2, <1>3, <2>1, WatcherFrame
<1>5. CASE endpoints[watcher.e] # None
           /\ watcher' = [watcher EXCEPT !.pc = "started", !.obj = endpoints[watcher.e]]
  <2>1. /\ watcher' \in WatcherRec /\ watcher'.pc = "started"
        /\ watcher'.e = watcher.e /\ watcher'.obj = endpoints[watcher.e]
    BY <1>3, <1>5 DEF WatcherRec, WatcherPCs
  <2>2. obj[watcher'.obj].id = watcher'.e
    BY <1>1, <1>3, <1>5, <2>1 DEF Registry
  <2>3. QED BY <1>1, <1>2, <1>3, <1>5, <2>1, <2>2, WatcherFrame DEF EventOnce
<1>6. QED BY <1>4, <1>5 DEF WatcherLookup

\* The watcher keeps or drops its object.
LEMMA WatcherStartedInv ==
    ASSUME OwnershipInv, WatcherStarted
    PROVE  OwnershipInv'
<1>1. TypeOK /\ Registry /\ EventOnce BY DEF OwnershipInv
<1>2. /\ watcher.pc = "started"
      /\ UNCHANGED <<dockerNets, phase, event, links, mode, toStop, crashes,
                     networks, endpoints, dmu, handler, obj, cache, rec, start, sup,
                     faults>>
  BY DEF WatcherStarted, dockerVars, procVars, regVars
<1>3. /\ watcher \in WatcherRec /\ cache \subseteq Endpoints
      /\ watcher.e \in Endpoints /\ watcher.obj # None
      /\ event \in [Endpoints -> {"unsent", "queued", "gone"}]
      /\ faults \in 0..MaxFaults
  BY <1>1, <1>2 DEF TypeOK, Types, Pointers
<1>4. CASE watcher' = IdleWatcher
  <2>1. /\ watcher' \in WatcherRec /\ watcher'.pc = "idle"
        /\ watcher'.e = None /\ watcher'.obj = None
    BY <1>4 DEF IdleWatcher, WatcherRec, WatcherPCs
  <2>2. QED BY <1>2, <1>3, <2>1, WatcherFrame
<1>5. CASE watcher' = [watcher EXCEPT !.pc = "key"]
  <2>1. /\ watcher' \in WatcherRec /\ watcher'.pc = "key"
        /\ watcher'.e = watcher.e /\ watcher'.obj = watcher.obj
    BY <1>3, <1>5 DEF WatcherRec, WatcherPCs
  <2>2. QED BY <1>1, <1>2, <1>3, <2>1, WatcherFrame DEF EventOnce, Registry
<1>6. QED BY <1>4, <1>5 DEF WatcherStarted

\* One event, one start: the watcher forgets the endpoint as it spawns.
LEMMA WatcherKeyInv ==
    ASSUME OwnershipInv, WatcherKey
    PROVE  OwnershipInv'
<1>1. /\ TypeOK /\ Registry /\ FreshIdle /\ JoinOnce /\ EventOnce /\ RecoverOnce
      /\ StartHolds /\ SupervisorOwnership
  BY DEF OwnershipInv
<1>2. /\ watcher.pc = "key" /\ watcher' = IdleWatcher
      /\ UNCHANGED <<dockerNets, phase, event, links, mode, toStop, crashes,
                     networks, endpoints, dmu, handler, obj, cache, rec, sup, faults>>
  BY DEF WatcherKey, dockerVars, procVars, regVars
<1>3. /\ watcher' \in WatcherRec /\ watcher'.pc = "idle"
      /\ watcher'.e = None /\ watcher'.obj = None
  BY <1>2 DEF IdleWatcher, WatcherRec, WatcherPCs
<1>4. watcher.e \in Endpoints /\ watcher.obj \in Objects /\ "event" \in Kinds
  BY <1>1, <1>2 DEF TypeOK, Types, Pointers, WatcherRec, Kinds
<1>5. CASE UNCHANGED start
  <2>1. /\ event \in [Endpoints -> {"unsent", "queued", "gone"}]
        /\ faults \in 0..MaxFaults /\ cache \subseteq Endpoints
    BY <1>1 DEF TypeOK, Types
  <2>2. QED BY <1>2, <1>3, <1>5, <2>1, WatcherFrame
<1>6. CASE Spawn(watcher.obj, "event")
  <2> DEFINE o == watcher.obj
  <2>1. obj[o].id = watcher.e /\ start[o]["event"] = "idle"
    BY <1>1, <1>4 DEF Registry, EventOnce
  <2>2. /\ start' \in [Objects -> [Kinds -> StartPCs]]
        /\ start'[o]["event"] = "check"
        /\ \A p \in Objects, j \in Kinds :
              p # o \/ j # "event" => start'[p][j] = start[p][j]
        /\ FreshIdle' /\ StartHolds' /\ SupervisorOwnership'
    BY <1>2, <1>4, <1>6, <2>1, SpawnEffect
  <2>3. o \in Objects BY <1>4
  <2>4. event[watcher.e] = "gone"
    BY <1>1, <1>4 DEF EventOnce
  <2> HIDE DEF o
  <2>5. \A p \in Objects : /\ start'[p]["join"] = start[p]["join"]
                           /\ start'[p]["recover"] = start[p]["recover"]
                           /\ p # o => start'[p]["event"] = start[p]["event"]
    BY <2>2 DEF Kinds
  <2>6. Types' /\ Pointers'
    <3>1. Types' BY <1>1, <1>2, <1>3, <2>2 DEF TypeOK, Types
    <3>2. Pointers' BY <1>1, <1>2, <1>3, <2>5 DEF TypeOK, Pointers
    <3>3. QED BY <3>1, <3>2
  <2>7. Registry'
    BY <1>1, <1>2, <1>3 DEF Registry
  <2>8. JoinOnce'
    BY <1>1, <1>2, <2>5 DEF JoinOnce
  <2>9. EventOnce'
    <3>1. \A p \in Objects : start'[p]["event"] # "idle" => obj[p].id # None
      BY <1>4, <2>1, <2>5, <1>1 DEF FreshIdle
    <3>2. \A p \in Objects : start'[p]["event"] # "idle" => event[obj[p].id] = "gone"
      BY <1>1, <2>1, <2>4, <2>5 DEF EventOnce
    <3>3. QED BY <1>2, <1>3, <3>1, <3>2 DEF EventOnce
  <2>10. RecoverOnce'
    BY <1>1, <1>2, <2>5 DEF RecoverOnce, TypeOK, Types, RecoveryRec
  <2>11. QED BY <2>2, <2>6, <2>7, <2>8, <2>9, <2>10 DEF OwnershipInv, TypeOK
<1>7. QED BY <1>5, <1>6 DEF WatcherKey

-----------------------------------------------------------------------------
(* The recoveries *)

\* Giving an endpoint up, or going on to the next one.
LEMMA ScanningType ==
    ASSUME rec \in [Recoverers -> RecoveryRec], NEW r \in Recoverers
    PROVE  /\ Scanning(r) \in RecoveryRec
           /\ Scanning(r).pc = "scan" /\ Scanning(r).e = None
           /\ Scanning(r).obj = None /\ Scanning(r).todo = rec[r].todo
  BY DEF Scanning, RecoveryRec, RecPCs

\* Likewise, as a step.
LEMMA ScanningEffect ==
    ASSUME rec \in [Recoverers -> RecoveryRec], NEW r \in Recoverers,
           rec' = [rec EXCEPT ![r] = Scanning(r)]
    PROVE  /\ rec' \in [Recoverers -> RecoveryRec]
           /\ rec'[r].pc = "scan" /\ rec'[r].e = None /\ rec'[r].obj = None
           /\ rec'[r].todo = rec[r].todo
           /\ \A q \in Recoverers : q # r => rec'[q] = rec[q]
  BY ScanningType

\* Moving on in the code with the same endpoint and object.
LEMMA RecPCEffect ==
    ASSUME rec \in [Recoverers -> RecoveryRec], NEW r \in Recoverers,
           NEW pc \in RecPCs, rec' = [rec EXCEPT ![r].pc = pc]
    PROVE  /\ rec' \in [Recoverers -> RecoveryRec]
           /\ rec'[r].pc = pc /\ rec'[r].e = rec[r].e /\ rec'[r].obj = rec[r].obj
           /\ rec'[r].todo = rec[r].todo
           /\ \A q \in Recoverers : q # r => rec'[q] = rec[q]
<1> DEFINE new == [rec[r] EXCEPT !.pc = pc]
<1>1. rec' = [rec EXCEPT ![r] = new] OBVIOUS
<1>2. /\ new \in RecoveryRec /\ new.pc = pc /\ new.e = rec[r].e
      /\ new.obj = rec[r].obj /\ new.todo = rec[r].todo
  BY DEF RecoveryRec
<1> HIDE DEF new
<1>3. QED BY <1>1, <1>2

\* Docker lists only endpoints it has created.
LEMMA RecoverListInv ==
    ASSUME OwnershipInv, NEW r \in Recoverers, RecoverList(r)
    PROVE  OwnershipInv'
<1>1. TypeOK /\ Registry BY DEF OwnershipInv
<1>2. /\ rec[r].pc = "wait"
      /\ UNCHANGED <<dockerNets, phase, event, links, mode, toStop, crashes,
                     networks, endpoints, dmu, handler, obj, cache, watcher, start,
                     sup>>
  BY DEF RecoverList, dockerVars, procVars, regVars
<1>3. /\ rec \in [Recoverers -> RecoveryRec]
      /\ rec[r].obj = None /\ networks \subseteq Networks
      /\ faults' \in 0..MaxFaults
  BY <1>1, <1>2 DEF RecoverList, Fault, TypeOK, Types, Pointers
<1>4. /\ rec[r].e # None => phase[rec[r].e] # "absent"
      /\ \A e \in rec[r].todo : phase[e] # "absent"
  BY <1>1 DEF Registry
<1> DEFINE todo == {e \in Endpoints : phase[e] \in Attached}
<1>5. CASE rec' = [rec EXCEPT ![r] = [Scanning(r) EXCEPT !.todo = todo]]
  <2> DEFINE new == [Scanning(r) EXCEPT !.todo = todo]
  <2>0. rec' = [rec EXCEPT ![r] = new]
    BY <1>5
  <2>1. todo \subseteq Endpoints /\ \A e \in todo : phase[e] # "absent"
    BY DEF Attached, Sandboxed, Joining
  <2> HIDE DEF todo
  <2>2. /\ new \in RecoveryRec /\ new.pc = "scan" /\ new.e = None
        /\ new.obj = None /\ new.todo = todo
    BY <1>3, <2>1, ScanningType DEF RecoveryRec
  <2> HIDE DEF new
  <2>3. /\ rec' \in [Recoverers -> RecoveryRec] /\ rec'[r] = new
        /\ \A q \in Recoverers : q # r => rec'[q] = rec[q]
    BY <1>3, <2>0, <2>2
  <2>4. QED BY <1>2, <1>3, <2>1, <2>2, <2>3, RecoveryFrame
<1>6. CASE rec' = [rec EXCEPT ![r].pc = Over(r)]
  <2>1. Over(r) \in {"done", "wait"} /\ Over(r) \in RecPCs
    BY DEF Over, RecPCs
  <2>2. /\ rec' \in [Recoverers -> RecoveryRec] /\ rec'[r].pc = Over(r)
        /\ rec'[r].e = rec[r].e /\ rec'[r].obj = rec[r].obj
        /\ rec'[r].todo = rec[r].todo
        /\ \A q \in Recoverers : q # r => rec'[q] = rec[q]
    BY <1>3, <1>6, <2>1, RecPCEffect
  <2>3. QED BY <1>2, <1>3, <1>4, <2>1, <2>2, RecoveryFrame
<1>7. QED BY <1>5, <1>6 DEF RecoverList

\* The scan holds no object when it ends.
LEMMA RecoverEndInv ==
    ASSUME OwnershipInv, NEW r \in Recoverers, RecoverEnd(r)
    PROVE  OwnershipInv'
<1>1. TypeOK /\ Registry BY DEF OwnershipInv
<1>2. /\ rec[r].pc = "scan" /\ rec' = [rec EXCEPT ![r].pc = Over(r)]
      /\ UNCHANGED <<dockerNets, phase, event, links, mode, toStop, crashes,
                     networks, endpoints, dmu, handler, obj, cache, watcher, start,
                     sup, faults>>
  BY DEF RecoverEnd, dockerVars, procVars, regVars
<1>3. /\ rec \in [Recoverers -> RecoveryRec]
      /\ rec[r].obj = None /\ faults \in 0..MaxFaults /\ networks \subseteq Networks
  BY <1>1, <1>2 DEF TypeOK, Types, Pointers
<1>4. /\ rec[r].e # None => phase[rec[r].e] # "absent"
      /\ \A e \in rec[r].todo : phase[e] # "absent"
  BY <1>1 DEF Registry
<1>5. Over(r) \in {"done", "wait"} /\ Over(r) \in RecPCs
  BY DEF Over, RecPCs
<1>6. /\ rec' \in [Recoverers -> RecoveryRec] /\ rec'[r].pc = Over(r)
      /\ rec'[r].e = rec[r].e /\ rec'[r].obj = rec[r].obj
      /\ rec'[r].todo = rec[r].todo
      /\ \A q \in Recoverers : q # r => rec'[q] = rec[q]
  BY <1>2, <1>3, <1>5, RecPCEffect
<1>7. QED BY <1>2, <1>3, <1>4, <1>5, <1>6, RecoveryFrame

\* The scan takes up an endpoint from its list.
LEMMA RecoverExistsInv ==
    ASSUME OwnershipInv, NEW r \in Recoverers, RecoverExists(r)
    PROVE  OwnershipInv'
<1>1. TypeOK /\ Registry BY DEF OwnershipInv
<1>2. /\ rec[r].pc = "scan"
      /\ UNCHANGED <<dockerNets, phase, event, links, mode, toStop, crashes,
                     networks, endpoints, dmu, handler, obj, cache, watcher, start,
                     sup, faults>>
  BY DEF RecoverExists, dockerVars, procVars, regVars
<1>3. /\ rec \in [Recoverers -> RecoveryRec] /\ rec[r].todo \subseteq Endpoints
      /\ rec[r].obj = None /\ faults \in 0..MaxFaults /\ networks \subseteq Networks
  BY <1>1, <1>2 DEF TypeOK, Types, Pointers, RecoveryRec
<1>4. PICK e \in rec[r].todo, pc \in {"inspect", "scan"} :
         LET f == IF pc = "inspect" THEN e ELSE None
         IN  rec' = [rec EXCEPT ![r] = [pc |-> pc, todo |-> rec[r].todo \ {e},
                                        e |-> f, obj |-> None]]
  BY DEF RecoverExists
<1> DEFINE f == IF pc = "inspect" THEN e ELSE None
           new == [pc |-> pc, todo |-> rec[r].todo \ {e}, e |-> f, obj |-> None]
<1>5. rec' = [rec EXCEPT ![r] = new]
  BY <1>4
<1>6. /\ new \in RecoveryRec /\ new.pc = pc /\ new.e = f /\ new.obj = None
      /\ new.todo \subseteq rec[r].todo
  BY <1>3 DEF RecoveryRec, RecPCs
<1> HIDE DEF new
<1>7. /\ rec' \in [Recoverers -> RecoveryRec] /\ rec'[r] = new
      /\ \A q \in Recoverers : q # r => rec'[q] = rec[q]
  BY <1>3, <1>5, <1>6
<1>8. \A g \in rec[r].todo : phase[g] # "absent"
  BY <1>1 DEF Registry
<1>9. QED BY <1>2, <1>3, <1>6, <1>7, <1>8, RecoveryFrame

\* On with the endpoint, or on to the next.
LEMMA RecoverInspectInv ==
    ASSUME OwnershipInv, NEW r \in Recoverers, RecoverInspect(r)
    PROVE  OwnershipInv'
<1>1. TypeOK /\ Registry BY DEF OwnershipInv
<1>2. /\ rec[r].pc = "inspect"
      /\ UNCHANGED <<dockerNets, phase, event, links, mode, toStop, crashes,
                     networks, endpoints, dmu, handler, obj, cache, watcher, start,
                     sup>>
  BY DEF RecoverInspect, dockerVars, procVars, regVars
<1>3. /\ rec \in [Recoverers -> RecoveryRec]
      /\ rec[r].obj = None /\ rec[r].e \in Endpoints
      /\ faults' \in 0..MaxFaults /\ networks \subseteq Networks
  BY <1>1, <1>2 DEF RecoverInspect, Fault, TypeOK, Types, Pointers
<1>4. /\ phase[rec[r].e] # "absent"
      /\ \A g \in rec[r].todo : phase[g] # "absent"
  BY <1>1, <1>3 DEF Registry
<1>5. CASE rec' = [rec EXCEPT ![r].pc = "network"]
  <2>1. "network" \in RecPCs BY DEF RecPCs
  <2>2. /\ rec' \in [Recoverers -> RecoveryRec] /\ rec'[r].pc = "network"
        /\ rec'[r].e = rec[r].e /\ rec'[r].obj = None
        /\ rec'[r].todo = rec[r].todo
        /\ \A q \in Recoverers : q # r => rec'[q] = rec[q]
    BY <1>3, <1>5, <2>1, RecPCEffect
  <2>3. QED BY <1>2, <1>3, <1>4, <2>2, RecoveryFrame
<1>6. CASE rec' = [rec EXCEPT ![r] = Scanning(r)]
  <2>1. /\ rec' \in [Recoverers -> RecoveryRec] /\ rec'[r].pc = "scan"
        /\ rec'[r].e = None /\ rec'[r].obj = None /\ rec'[r].todo = rec[r].todo
        /\ \A q \in Recoverers : q # r => rec'[q] = rec[q]
    BY <1>3, <1>6, ScanningEffect
  <2>2. QED BY <1>2, <1>3, <1>4, <2>1, RecoveryFrame
<1>7. QED BY <1>5, <1>6 DEF RecoverInspect

\* Likewise, with the network registered again.
LEMMA RecoverNetworkInv ==
    ASSUME OwnershipInv, NEW r \in Recoverers, RecoverNetwork(r)
    PROVE  OwnershipInv'
<1>1. TypeOK /\ Registry BY DEF OwnershipInv
<1>2. /\ rec[r].pc = "network"
      /\ UNCHANGED <<dockerNets, phase, event, links, mode, toStop, crashes,
                     endpoints, dmu, handler, obj, cache, watcher, start, sup>>
  BY DEF RecoverNetwork, dockerVars, procVars
<1>3. /\ rec \in [Recoverers -> RecoveryRec]
      /\ rec[r].obj = None /\ rec[r].e \in Endpoints
  BY <1>1, <1>2 DEF TypeOK, Types, Pointers
<1>4. faults' \in 0..MaxFaults /\ networks' \subseteq Networks
  <2>1. NetworkOf[rec[r].e] \in Networks /\ networks \subseteq Networks
        /\ faults \in 0..MaxFaults
    BY <1>1, <1>3 DEF TypeOK, Types
  <2>2. QED BY <2>1 DEF RecoverNetwork, Fault
<1>5. /\ phase[rec[r].e] # "absent"
      /\ \A g \in rec[r].todo : phase[g] # "absent"
  BY <1>1, <1>3 DEF Registry
<1>6. CASE rec' = [rec EXCEPT ![r].pc = "insert"]
  <2>1. "insert" \in RecPCs BY DEF RecPCs
  <2>2. /\ rec' \in [Recoverers -> RecoveryRec] /\ rec'[r].pc = "insert"
        /\ rec'[r].e = rec[r].e /\ rec'[r].obj = None
        /\ rec'[r].todo = rec[r].todo
        /\ \A q \in Recoverers : q # r => rec'[q] = rec[q]
    BY <1>3, <1>6, <2>1, RecPCEffect
  <2>3. QED BY <1>2, <1>3, <1>4, <1>5, <2>2, RecoveryFrame
<1>7. CASE rec' = [rec EXCEPT ![r] = Scanning(r)]
  <2>1. /\ rec' \in [Recoverers -> RecoveryRec] /\ rec'[r].pc = "scan"
        /\ rec'[r].e = None /\ rec'[r].obj = None /\ rec'[r].todo = rec[r].todo
        /\ \A q \in Recoverers : q # r => rec'[q] = rec[q]
    BY <1>3, <1>7, ScanningEffect
  <2>2. QED BY <1>2, <1>3, <1>4, <1>5, <2>1, RecoveryFrame
<1>8. QED BY <1>6, <1>7 DEF RecoverNetwork

\* A new object that only this recovery refers to, or on to the next.
LEMMA RecoverInsertInv ==
    ASSUME OwnershipInv, NEW r \in Recoverers, RecoverInsert(r)
    PROVE  OwnershipInv'
<1>1. TypeOK /\ Registry /\ FreshIdle /\ RecoverOnce BY DEF OwnershipInv
<1>2. /\ rec[r].pc = "insert"
      /\ UNCHANGED <<dockerNets, phase, event, links, mode, toStop, crashes,
                     networks, dmu, handler, cache, watcher, start, sup, faults>>
  BY DEF RecoverInsert, dockerVars, procVars
<1>3. /\ rec \in [Recoverers -> RecoveryRec]
      /\ rec[r].obj = None /\ rec[r].e \in Endpoints
      /\ faults \in 0..MaxFaults /\ networks \subseteq Networks
      /\ "recover" \in Kinds
  BY <1>1, <1>2 DEF TypeOK, Types, Pointers, Kinds
<1>4. /\ phase[rec[r].e] # "absent"
      /\ \A g \in rec[r].todo : phase[g] # "absent"
  BY <1>1, <1>3 DEF Registry
<1>5. CASE rec' = [rec EXCEPT ![r] = Scanning(r)] /\ UNCHANGED <<obj, endpoints>>
  <2>1. /\ rec' \in [Recoverers -> RecoveryRec] /\ rec'[r].pc = "scan"
        /\ rec'[r].e = None /\ rec'[r].obj = None /\ rec'[r].todo = rec[r].todo
        /\ \A q \in Recoverers : q # r => rec'[q] = rec[q]
    BY <1>3, <1>5, ScanningEffect
  <2>2. QED BY <1>2, <1>3, <1>4, <1>5, <2>1, RecoveryFrame
<1>6. ASSUME NEW o \in Objects, Fresh(o),
             obj' = [obj EXCEPT ![o] = NewEndpoint(rec[r].e)],
             endpoints' = [endpoints EXCEPT ![rec[r].e] = o],
             rec' = [rec EXCEPT ![r].pc = "setkey", ![r].obj = o]
      PROVE  OwnershipInv'
  <2> DEFINE e == rec[r].e
             new == [[rec[r] EXCEPT !.pc = "setkey"] EXCEPT !.obj = o]
  <2>1. obj[o].id = None BY <1>6 DEF Fresh
  <2>2. rec' = [rec EXCEPT ![r] = new]
    BY <1>3, <1>6
  <2>3. /\ new \in RecoveryRec /\ new.pc = "setkey" /\ new.e = rec[r].e
        /\ new.obj = o /\ new.todo = rec[r].todo
    BY <1>3 DEF RecoveryRec, RecPCs
  <2> HIDE DEF new
  <2>4. /\ rec' \in [Recoverers -> RecoveryRec] /\ rec'[r] = new
        /\ \A q \in Recoverers : q # r => rec'[q] = rec[q]
    BY <1>3, <2>2, <2>3
  <2>5. /\ e \in Endpoints /\ phase'[e] # "absent"
        /\ obj' = [obj EXCEPT ![o] = NewEndpoint(e)]
        /\ endpoints' = [endpoints EXCEPT ![e] = o]
    BY <1>2, <1>3, <1>4, <1>6
  <2> HIDE DEF e
  <2>6. /\ obj' \in [Objects -> EndpointRec]
        /\ endpoints' \in [Endpoints -> Objects \cup {None}]
        /\ \A p \in Objects : p # o => obj'[p] = obj[p]
        /\ obj'[o].id = e
        /\ \A f \in Endpoints :
              /\ endpoints'[f] # None => /\ obj'[endpoints'[f]].id = f
                                         /\ phase'[f] # "absent"
              /\ handler'[f] # None => obj'[handler'[f]].id = f
        /\ watcher'.obj # None => obj'[watcher'.obj].id = watcher'.e
        /\ \A p \in toStop' : obj'[p].id # None
        /\ FreshIdle' /\ JoinOnce' /\ EventOnce'
        /\ StartHolds' /\ SupervisorOwnership'
    BY <1>2, <2>1, <2>5, NewObjectFrame
  <2>7. Types'
    BY <1>1, <1>2, <2>4, <2>6 DEF TypeOK, Types
  <2>8. Pointers'
    <3>1. \A q \in Recoverers :
             /\ rec'[q].pc \notin {"wait", "scan", "done"} => rec'[q].e \in Endpoints
             /\ rec'[q].pc \in {"setkey", "publish"} <=> rec'[q].obj # None
      BY <1>1, <1>3, <2>3, <2>4 DEF TypeOK, Pointers
    <3>2. \A p \in Objects : start'[p]["recover"] = "unregister" => obj'[p].id # None
      BY <1>3, <2>6 DEF FreshIdle
    <3>3. QED BY <1>1, <1>2, <3>1, <3>2 DEF TypeOK, Pointers
  <2>9. \A q \in Recoverers : rec[q].obj # o
    <3>1. \A q \in Recoverers : rec[q].obj # None => rec[q].e \in Endpoints
      BY <1>1 DEF TypeOK, Pointers
    <3>2. QED BY <1>1, <2>1, <3>1 DEF Registry
  <2>10. Registry'
    <3>1. ASSUME NEW q \in Recoverers
          PROVE  /\ rec'[q].obj # None => obj'[rec'[q].obj].id = rec'[q].e
                 /\ rec'[q].e # None => phase'[rec'[q].e] # "absent"
                 /\ \A f \in rec'[q].todo : phase'[f] # "absent"
      <4>1. CASE q = r
        BY <1>2, <1>4, <2>3, <2>4, <2>6, <4>1 DEF e
      <4>2. CASE q # r
        <5>1. rec[q].obj \in Objects \cup {None}
          BY <1>3 DEF RecoveryRec
        <5>2. QED BY <1>1, <1>2, <2>4, <2>6, <2>9, <4>2, <5>1 DEF Registry
      <4>3. QED BY <4>1, <4>2
    <3>2. QED BY <2>6, <3>1 DEF Registry
  <2>11. RecoverOnce'
    <3>1. start[o]["recover"] = "idle"
      BY <1>1, <1>3, <2>1 DEF FreshIdle
    <3>2. QED BY <1>1, <1>2, <2>3, <2>4, <2>9, <3>1 DEF RecoverOnce
  <2>12. QED BY <2>6, <2>7, <2>8, <2>10, <2>11 DEF OwnershipInv, TypeOK
<1>7. QED BY <1>5, <1>6 DEF RecoverInsert

\* The key is in no part of the invariant but its type.
LEMMA RecoverSetKeyInv ==
    ASSUME OwnershipInv, NEW r \in Recoverers, RecoverSetKey(r)
    PROVE  OwnershipInv'
<1>1. /\ TypeOK /\ Registry /\ FreshIdle /\ JoinOnce /\ EventOnce /\ RecoverOnce
      /\ StartHolds /\ SupervisorOwnership
  BY DEF OwnershipInv
<1>2. /\ rec[r].pc = "setkey" /\ rec' = [rec EXCEPT ![r].pc = "publish"]
      /\ obj' = [obj EXCEPT ![rec[r].obj].key = TRUE]
      /\ UNCHANGED <<dockerNets, phase, event, links, mode, toStop, crashes,
                     networks, endpoints, dmu, handler, cache, watcher, start, sup,
                     faults>>
  BY DEF RecoverSetKey, dockerVars, procVars, regVars
<1>3. /\ rec \in [Recoverers -> RecoveryRec] /\ obj \in [Objects -> EndpointRec]
      /\ rec[r].obj \in Objects /\ rec[r].e \in Endpoints /\ "publish" \in RecPCs
  BY <1>1, <1>2 DEF TypeOK, Types, Pointers, RecoveryRec, RecPCs
<1>4. /\ rec' \in [Recoverers -> RecoveryRec] /\ rec'[r].pc = "publish"
      /\ rec'[r].e = rec[r].e /\ rec'[r].obj = rec[r].obj
      /\ rec'[r].todo = rec[r].todo
      /\ \A q \in Recoverers : q # r => rec'[q] = rec[q]
  BY <1>2, <1>3, RecPCEffect
<1>5. /\ obj' \in [Objects -> EndpointRec]
      /\ \A p \in Objects : /\ obj'[p].id = obj[p].id
                            /\ obj'[p].sup = obj[p].sup
                            /\ obj'[p].started = obj[p].started
  <2> DEFINE o == rec[r].obj
             new == [obj[o] EXCEPT !.key = TRUE]
  <2>1. obj' = [obj EXCEPT ![o] = new]
    BY <1>2, <1>3
  <2>2. /\ new \in EndpointRec /\ new.id = obj[o].id
        /\ new.sup = obj[o].sup /\ new.started = obj[o].started
    BY <1>3 DEF EndpointRec
  <2> HIDE DEF new
  <2>3. QED BY <1>3, <2>1, <2>2
<1>6. \A q \in Recoverers : /\ rec'[q].e = rec[q].e /\ rec'[q].obj = rec[q].obj
                            /\ rec'[q].todo = rec[q].todo
  BY <1>4
<1>7. Types'
  BY <1>1, <1>2, <1>4, <1>5 DEF TypeOK, Types
<1>8. Pointers'
  <2>1. \A q \in Recoverers :
           /\ rec'[q].pc \notin {"wait", "scan", "done"} => rec'[q].e \in Endpoints
           /\ rec'[q].pc \in {"setkey", "publish"} <=> rec'[q].obj # None
    BY <1>1, <1>2, <1>3, <1>4 DEF TypeOK, Pointers
  <2>2. QED BY <1>1, <1>2, <1>5, <2>1 DEF TypeOK, Pointers
<1>9. Registry'
  <2>1. \A e \in Endpoints :
           /\ endpoints'[e] # None => obj'[endpoints'[e]].id = e /\ phase'[e] # "absent"
           /\ handler'[e] # None => obj'[handler'[e]].id = e
    BY <1>1, <1>2, <1>5 DEF Registry, TypeOK, Types
  <2>2. watcher'.obj # None => obj'[watcher'.obj].id = watcher'.e
    BY <1>1, <1>2, <1>5 DEF Registry, TypeOK, Types, WatcherRec
  <2>3. \A q \in Recoverers :
           /\ rec'[q].obj # None => obj'[rec'[q].obj].id = rec'[q].e
           /\ rec'[q].e # None => phase'[rec'[q].e] # "absent"
           /\ \A e \in rec'[q].todo : phase'[e] # "absent"
    BY <1>1, <1>2, <1>3, <1>5, <1>6 DEF Registry, RecoveryRec
  <2>4. \A p \in toStop' : obj'[p].id # None
    BY <1>1, <1>2, <1>5 DEF Registry, TypeOK, Types
  <2>5. QED BY <2>1, <2>2, <2>3, <2>4 DEF Registry
<1>10. FreshIdle' /\ JoinOnce' /\ EventOnce'
  BY <1>1, <1>2, <1>5 DEF FreshIdle, JoinOnce, EventOnce
<1>11. RecoverOnce'
  BY <1>1, <1>2, <1>6 DEF RecoverOnce
<1>12. StartHolds'
  BY <1>1, <1>2 DEF StartHolds
<1>13. SupervisorOwnership'
  BY <1>1, <1>2, <1>5 DEF SupervisorOwnership
<1>14. QED
  BY <1>7, <1>8, <1>9, <1>10, <1>11, <1>12, <1>13 DEF OwnershipInv, TypeOK

\* No other recovery has the object, so this is its first "recover" start.
LEMMA RecoverPublishInv ==
    ASSUME OwnershipInv, NEW r \in Recoverers, RecoverPublish(r)
    PROVE  OwnershipInv'
<1>1. /\ TypeOK /\ Registry /\ FreshIdle /\ JoinOnce /\ EventOnce /\ RecoverOnce
      /\ StartHolds /\ SupervisorOwnership
  BY DEF OwnershipInv
<1>2. /\ rec[r].pc = "publish" /\ rec' = [rec EXCEPT ![r] = Scanning(r)]
      /\ cache' = cache \cup {rec[r].e} /\ Spawn(rec[r].obj, "recover")
      /\ UNCHANGED <<dockerNets, phase, event, links, mode, toStop, crashes,
                     networks, endpoints, dmu, handler, obj, watcher, sup, faults>>
  BY DEF RecoverPublish, dockerVars, procVars, regVars
<1> DEFINE o == rec[r].obj
<1>3. /\ rec \in [Recoverers -> RecoveryRec]
      /\ o \in Objects /\ rec[r].e \in Endpoints /\ "recover" \in Kinds
  BY <1>1, <1>2 DEF TypeOK, Types, Pointers, RecoveryRec, Kinds
<1>4. /\ rec' \in [Recoverers -> RecoveryRec] /\ rec'[r].pc = "scan"
      /\ rec'[r].e = None /\ rec'[r].obj = None /\ rec'[r].todo = rec[r].todo
      /\ \A q \in Recoverers : q # r => rec'[q] = rec[q]
  BY <1>2, <1>3, ScanningEffect
<1>5. /\ obj[o].id = rec[r].e /\ start[o]["recover"] = "idle"
      /\ \A q \in Recoverers : q # r => rec[q].obj # o
  BY <1>1, <1>3 DEF Registry, RecoverOnce
<1>6. /\ start' \in [Objects -> [Kinds -> StartPCs]]
      /\ start'[o]["recover"] = "check"
      /\ \A p \in Objects, j \in Kinds :
            p # o \/ j # "recover" => start'[p][j] = start[p][j]
      /\ FreshIdle' /\ StartHolds' /\ SupervisorOwnership'
  BY <1>2, <1>3, <1>5, SpawnEffect
<1> HIDE DEF o
<1>7. \A p \in Objects : /\ start'[p]["join"] = start[p]["join"]
                         /\ start'[p]["event"] = start[p]["event"]
                         /\ p # o => start'[p]["recover"] = start[p]["recover"]
  BY <1>6 DEF Kinds
<1>8. Types'
  BY <1>1, <1>2, <1>3, <1>4, <1>6 DEF TypeOK, Types
<1>9. Pointers'
  <2>1. \A q \in Recoverers :
           /\ rec'[q].pc \notin {"wait", "scan", "done"} => rec'[q].e \in Endpoints
           /\ rec'[q].pc \in {"setkey", "publish"} <=> rec'[q].obj # None
    BY <1>1, <1>4 DEF TypeOK, Pointers
  <2>2. \A p \in Objects : start'[p]["recover"] = "unregister" => obj'[p].id # None
    BY <1>1, <1>2, <1>6, <1>7 DEF TypeOK, Pointers
  <2>3. QED BY <1>1, <1>2, <2>1, <2>2 DEF TypeOK, Pointers
<1>10. Registry'
  <2>1. \A q \in Recoverers :
           /\ rec'[q].obj # None => obj'[rec'[q].obj].id = rec'[q].e
           /\ rec'[q].e # None => phase'[rec'[q].e] # "absent"
           /\ \A e \in rec'[q].todo : phase'[e] # "absent"
    BY <1>1, <1>2, <1>4 DEF Registry
  <2>2. QED BY <1>1, <1>2, <2>1 DEF Registry
<1>11. JoinOnce' /\ EventOnce'
  BY <1>1, <1>2, <1>7 DEF JoinOnce, EventOnce
<1>12. RecoverOnce'
  <2>1. \A q \in Recoverers : rec'[q].obj # None =>
           q # r /\ rec'[q].obj = rec[q].obj /\ rec[q].obj \in Objects \ {o}
    BY <1>3, <1>4, <1>5 DEF RecoveryRec
  <2>2. QED BY <1>1, <1>7, <2>1 DEF RecoverOnce
<1>13. QED BY <1>6, <1>8, <1>9, <1>10, <1>11, <1>12 DEF OwnershipInv, TypeOK

-----------------------------------------------------------------------------
(* The process ends: nothing is left to own or to be owned *)

\* Every clause is about something the new state does not have.
LEMMA ProcessEndsInv ==
    ASSUME OwnershipInv, ProcessEnds
    PROVE  OwnershipInv'
<1>1. TypeOK BY DEF OwnershipInv
<1>2. /\ crashes' = crashes + 1 /\ crashes < MaxCrashes /\ mode' = "exited"
      /\ networks' = {} /\ dmu' = None /\ cache' = {} /\ toStop' = {}
      /\ endpoints' = [e \in Endpoints |-> None]
      /\ handler' = [e \in Endpoints |-> None]
      /\ obj' = [o \in Objects |-> Unused]
      /\ watcher' = IdleWatcher
      /\ rec' = [r \in Recoverers |-> WaitingRec]
      /\ start' = [o \in Objects |-> [k \in Kinds |-> "idle"]]
      /\ sup' = [o \in Objects |-> [k \in Kinds |-> "none"]]
      /\ event' = [e \in Endpoints |->
                     IF phase[e] \in {"absent", "refused"} THEN event[e] ELSE "gone"]
      /\ UNCHANGED <<dockerNets, links, faults>>
  BY DEF ProcessEnds
<1>3. \A e \in Endpoints : /\ phase'[e] \in Phases
                           /\ phase'[e] \notin Joining \cup {"leaving"}
  BY <1>1 DEF ProcessEnds, TypeOK, Types, Phases, Joining
<1>4. phase' \in [Endpoints -> Phases]
  BY <1>3 DEF ProcessEnds
<1>5. /\ IdleWatcher \in WatcherRec /\ WaitingRec \in RecoveryRec
      /\ Unused \in EndpointRec
  BY DEF IdleWatcher, WatcherRec, WatcherPCs, WaitingRec, RecoveryRec, RecPCs,
         Unused, NewEndpoint, EndpointRec
<1>6. /\ IdleWatcher.pc = "idle" /\ IdleWatcher.e = None /\ IdleWatcher.obj = None
      /\ WaitingRec.pc = "wait" /\ WaitingRec.e = None /\ WaitingRec.obj = None
      /\ WaitingRec.todo = {}
      /\ Unused.id = None /\ Unused.sup = None /\ Unused.started = FALSE
  BY DEF IdleWatcher, WaitingRec, Unused, NewEndpoint
<1>7. Types'
  <2>1. start' \in [Objects -> [Kinds -> StartPCs]]
    BY <1>2 DEF StartPCs
  <2>2. sup' \in [Objects -> [Kinds -> SupStates]]
    BY <1>2 DEF SupStates
  <2>3. event' \in [Endpoints -> {"unsent", "queued", "gone"}] /\ crashes' \in 0..MaxCrashes
    BY <1>1, <1>2 DEF TypeOK, Types
  <2>4. /\ obj' \in [Objects -> EndpointRec] /\ rec' \in [Recoverers -> RecoveryRec]
        /\ watcher' \in WatcherRec
    BY <1>2, <1>5
  <2>5. QED BY <1>1, <1>2, <1>4, <2>1, <2>2, <2>3, <2>4 DEF TypeOK, Types
<1>8. "recover" \in Kinds /\ "join" \in Kinds /\ "event" \in Kinds
  BY DEF Kinds
<1>9. Pointers'
  BY <1>2, <1>3, <1>6, <1>8 DEF Pointers
<1>10. Registry'
  BY <1>2, <1>6 DEF Registry
<1>11. FreshIdle' /\ JoinOnce' /\ EventOnce' /\ RecoverOnce'
  BY <1>2, <1>6, <1>8 DEF FreshIdle, JoinOnce, EventOnce, RecoverOnce
<1>12. StartHolds' /\ SupervisorOwnership'
  BY <1>2, <1>6 DEF StartHolds, SupervisorOwnership
<1>13. QED BY <1>7, <1>9, <1>10, <1>11, <1>12 DEF OwnershipInv, TypeOK

-----------------------------------------------------------------------------
(* The invariant *)

\* So it is in the first state.
LEMMA InitInv == Init => OwnershipInv
<1> SUFFICES ASSUME Init PROVE OwnershipInv
  OBVIOUS
<1> USE DEF Init, FreshProcess
<1>1. /\ IdleWatcher \in WatcherRec /\ WaitingRec \in RecoveryRec
      /\ Unused \in EndpointRec
  BY DEF IdleWatcher, WatcherRec, WatcherPCs, WaitingRec, RecoveryRec, RecPCs,
         Unused, NewEndpoint, EndpointRec
<1>2. /\ IdleWatcher.pc = "idle" /\ IdleWatcher.e = None /\ IdleWatcher.obj = None
      /\ WaitingRec.pc = "wait" /\ WaitingRec.e = None /\ WaitingRec.obj = None
      /\ WaitingRec.todo = {}
      /\ Unused.id = None /\ Unused.sup = None /\ Unused.started = FALSE
  BY DEF IdleWatcher, WaitingRec, Unused, NewEndpoint
<1>3. "recover" \in Kinds /\ "join" \in Kinds /\ "event" \in Kinds
  BY DEF Kinds
<1>4. Types
  <2>1. start \in [Objects -> [Kinds -> StartPCs]]
    BY DEF StartPCs
  <2>2. sup \in [Objects -> [Kinds -> SupStates]]
    BY DEF SupStates
  <2>3. phase \in [Endpoints -> Phases]
    BY DEF Phases
  <2>4. QED BY <1>1, <2>1, <2>2, <2>3 DEF Types
<1>5. Pointers
  BY <1>2, <1>3 DEF Pointers, Joining
<1>6. Registry
  BY <1>2 DEF Registry
<1>7. FreshIdle /\ JoinOnce /\ EventOnce /\ RecoverOnce
  BY <1>2, <1>3 DEF FreshIdle, JoinOnce, EventOnce, RecoverOnce
<1>8. StartHolds /\ SupervisorOwnership
  BY <1>2 DEF StartHolds, SupervisorOwnership
<1>9. QED BY <1>4, <1>5, <1>6, <1>7, <1>8 DEF OwnershipInv, TypeOK

\* A step that changes nothing keeps the invariant.
LEMMA StutterInv ==
    ASSUME OwnershipInv, UNCHANGED vars
    PROVE  OwnershipInv'
<1>1. TypeOK' /\ Registry' /\ FreshIdle'
  BY DEF OwnershipInv, TypeOK, Types, Pointers, Registry, FreshIdle, vars,
         dockerVars, procVars, regVars
<1>2. JoinOnce' /\ EventOnce' /\ RecoverOnce' /\ StartHolds' /\ SupervisorOwnership'
  BY DEF OwnershipInv, JoinOnce, EventOnce, RecoverOnce, StartHolds,
         SupervisorOwnership, vars, dockerVars
<1>3. QED BY <1>1, <1>2 DEF OwnershipInv

\* Every step keeps the invariant.
LEMMA StepInv == OwnershipInv /\ [Next]_vars => OwnershipInv'
<1> SUFFICES ASSUME OwnershipInv, [Next]_vars PROVE OwnershipInv'
  OBVIOUS
<1>1. ASSUME NEW n \in Networks, CreateNetwork(n) \/ DeleteNetwork(n)
      PROVE  OwnershipInv'
  BY <1>1, CreateNetworkInv, DeleteNetworkInv
<1>2. ASSUME NEW e \in Endpoints,
             \/ CreateEndpoint(e) \/ JoinLookup(e) \/ LeaveTake(e) \/ DeleteTake(e)
      PROVE  OwnershipInv'
  BY <1>2, CreateEndpointInv, JoinLookupInv, LeaveTakeInv, DeleteTakeInv
<1>3. ASSUME NEW e \in Endpoints, CallStep(e)
      PROVE  OwnershipInv'
  BY <1>3, JoinNetworkInv, JoinStoreInv, JoinCacheInv, LeaveCleanupInv,
     DeleteRemoveInv DEF CallStep
<1>4. ASSUME NEW e \in Endpoints,
             \/ ConnectEvent(e) \/ DockerProceeds(e) \/ StreamError(e)
             \/ WatcherReceive(e)
      PROVE  OwnershipInv'
  BY <1>4, ConnectEventInv, DockerProceedsInv, StreamErrorInv, WatcherReceiveInv
<1>5. CASE WatcherStep
  BY <1>5, WatcherStoreInv, WatcherLookupInv, WatcherStartedInv, WatcherKeyInv
     DEF WatcherStep
<1>6. ASSUME NEW r \in Recoverers, RecoverStep(r)
      PROVE  OwnershipInv'
  BY <1>6, RecoverListInv, RecoverEndInv, RecoverExistsInv, RecoverInspectInv,
     RecoverNetworkInv, RecoverInsertInv, RecoverSetKeyInv, RecoverPublishInv
     DEF RecoverStep
<1>7. ASSUME NEW o \in Objects, NEW k \in Kinds, StartStep(o, k)
      PROVE  OwnershipInv'
  BY <1>7, StartCheckInv, StartLaunchInv, StartUpInv, StartWaitIPInv,
     StartStoreInv, StartUnregisterInv DEF StartStep
<1>8. ASSUME NEW o \in Objects, NEW k \in Kinds, SupStops(o, k) \/ SupGivesUp(o, k)
      PROVE  OwnershipInv'
  BY <1>8, SupStopsInv, SupGivesUpInv
<1>9. CASE Crash \/ ShutdownDone \/ ShutdownTimesOut
  BY <1>9, ProcessEndsInv DEF Crash, ShutdownDone, ShutdownTimesOut
<1>10. CASE Restart
  BY <1>10, RestartInv
<1>11. CASE ShutdownBegin
  BY <1>11, ShutdownBeginInv
<1>12. ASSUME NEW o \in Objects, ShutdownStop(o)
       PROVE  OwnershipInv'
  BY <1>12, ShutdownStopInv
<1>13. CASE UNCHANGED vars
  BY <1>13, StutterInv
<1>14. QED
  BY <1>1, <1>2, <1>3, <1>4, <1>5, <1>6, <1>7, <1>8, <1>9, <1>10, <1>11, <1>12,
     <1>13 DEF Next

-----------------------------------------------------------------------------
(* Theorems *)

\* In every reachable state of every instance the registry points to the right
\* objects, an object has at most one goroutine of each kind, and a goroutine on
\* its way through StartTailscale alone holds its supervisor.
THEOREM OwnershipInvariant == Spec => []OwnershipInv
<1>1. Init => OwnershipInv
  BY InitInv
<1>2. OwnershipInv /\ [Next]_vars => OwnershipInv'
  BY StepInv
<1>3. QED BY <1>1, <1>2, PTL DEF Spec

\* No handler, watcher, recovery or start dereferences a nil object, and every
\* variable keeps its type.
THEOREM TypeCorrectness == Spec => []TypeOK
<1>1. OwnershipInv => TypeOK
  BY DEF OwnershipInv
<1>2. QED BY <1>1, OwnershipInvariant, PTL

\* However calls, events, recoveries and starts interleave, a running supervisor
\* whose start is over is the one its object holds.
THEOREM SupervisorsAreOwned == Spec => []SupervisorOwnership
<1>1. OwnershipInv => SupervisorOwnership
  BY DEF OwnershipInv
<1>2. QED BY <1>1, OwnershipInvariant, PTL

\* No step replaces one registered object by another: CreateEndpoint because an
\* endpoint that is registered has been created already, the recovery because it
\* looks again under the lock.
THEOREM NoOverwrite == Spec => RegistrationNeverOverwritten
<1> DEFINE Kept == \A e \in Endpoints :
                      endpoints[e] # None /\ endpoints'[e] # None
                         => endpoints'[e] = endpoints[e]
<1>1. OwnershipInv /\ [Next]_vars => [Kept]_vars
  <2> SUFFICES ASSUME OwnershipInv, Next PROVE Kept
    BY DEF vars
  <2>0. Registry /\ endpoints \in [Endpoints -> Objects \cup {None}]
    BY DEF OwnershipInv, TypeOK, Types
  <2>1. ASSUME NEW n \in Networks, CreateNetwork(n) \/ DeleteNetwork(n)
        PROVE  Kept
    BY <2>1 DEF CreateNetwork, DeleteNetwork
  <2>2. ASSUME NEW e \in Endpoints, CreateEndpoint(e)
        PROVE  Kept
    BY <2>0, <2>2 DEF CreateEndpoint, Registry
  <2>3. ASSUME NEW e \in Endpoints,
               JoinLookup(e) \/ LeaveTake(e) \/ DeleteTake(e)
        PROVE  Kept
    BY <2>3 DEF JoinLookup, LeaveTake, DeleteTake, regVars
  <2>4. ASSUME NEW e \in Endpoints, CallStep(e)
        PROVE  Kept
    BY <2>0, <2>4 DEF CallStep, JoinNetwork, JoinStore, JoinCache, LeaveCleanup,
       DeleteRemove, regVars
  <2>5. ASSUME NEW e \in Endpoints,
               \/ ConnectEvent(e) \/ DockerProceeds(e) \/ StreamError(e)
               \/ WatcherReceive(e)
        PROVE  Kept
    BY <2>5 DEF ConnectEvent, DockerProceeds, StreamError, WatcherReceive, regVars
  <2>6. CASE WatcherStep
    BY <2>6 DEF WatcherStep, WatcherStore, WatcherLookup, WatcherStarted, WatcherKey,
       regVars
  <2>7. ASSUME NEW r \in Recoverers, RecoverStep(r)
        PROVE  Kept
    <3>1. CASE RecoverInsert(r)
      BY <2>0, <3>1 DEF RecoverInsert
    <3>2. CASE \/ RecoverList(r) \/ RecoverEnd(r) \/ RecoverExists(r)
               \/ RecoverInspect(r) \/ RecoverNetwork(r) \/ RecoverSetKey(r)
               \/ RecoverPublish(r)
      BY <3>2 DEF RecoverList, RecoverEnd, RecoverExists, RecoverInspect,
         RecoverNetwork, RecoverSetKey, RecoverPublish, regVars
    <3>3. QED BY <2>7, <3>1, <3>2 DEF RecoverStep
  <2>8. ASSUME NEW o \in Objects, NEW k \in Kinds, StartStep(o, k)
        PROVE  Kept
    BY <2>0, <2>8 DEF StartStep, StartCheck, StartLaunch, StartUp, StartWaitIP,
       StartStore, StartUnregister, regVars
  <2>9. ASSUME NEW o \in Objects, NEW k \in Kinds, SupStops(o, k) \/ SupGivesUp(o, k)
        PROVE  Kept
    BY <2>9 DEF SupStops, SupGivesUp, regVars
  <2>10. CASE Crash \/ ShutdownDone \/ ShutdownTimesOut
    BY <2>10 DEF Crash, ShutdownDone, ShutdownTimesOut, ProcessEnds
  <2>11. CASE Restart \/ ShutdownBegin
    BY <2>11 DEF Restart, ShutdownBegin, regVars
  <2>12. ASSUME NEW o \in Objects, ShutdownStop(o)
         PROVE  Kept
    BY <2>12 DEF ShutdownStop, regVars
  <2>13. QED
    BY <2>1, <2>2, <2>3, <2>4, <2>5, <2>6, <2>7, <2>8, <2>9, <2>10, <2>11, <2>12
       DEF Next
<1>2. QED BY <1>1, OwnershipInvariant, PTL DEF Spec, RegistrationNeverOverwritten

=============================================================================
