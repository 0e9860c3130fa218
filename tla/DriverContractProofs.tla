------------------------ MODULE DriverContractProofs ------------------------
(***************************************************************************)
(* Driver goes by SupervisorContract, for every number of endpoints,       *)
(* objects, failures and crashes: its supervisors begin as the contract    *)
(* has them begin, and each of its steps is one of the contract for each   *)
(* of them, or does nothing to it.                                         *)
(***************************************************************************)
EXTENDS DriverContract, DriverProofs

-----------------------------------------------------------------------------
(* The invariant *)

\* What Start has answered can be read off the step its caller has reached; a
\* supervisor that an object holds has answered well.
Known(o, k) ==
    /\ answered[o][k] \in {"pending", "ok", "failed"}
    /\ answered[o][k] = "pending" <=> sup[o][k] = "none" \/ start[o][k] = "starting"
    /\ start[o][k] \in {"waitIP", "store"} \/ obj[o].sup = k => answered[o][k] = "ok"

ContractInv == OwnershipInv /\ \A o \in Objects, k \in Kinds : Known(o, k)

\* A step keeps to the contract of <<o, k>>.
Keeps(o, k) == UNCHANGED <<sup[o][k], answered[o][k]>> \/ Loop(o, k)!Next

-----------------------------------------------------------------------------
(* One supervisor: the six things that can happen to it *)

\* Its caller is where it was, or moves between steps that are not that of Start.
LEMMA Unconcerned ==
    ASSUME NEW o \in Objects, NEW k \in Kinds, Known(o, k),
           answered'[o][k] = Answer(o, k),
           sup'[o][k] = sup[o][k],
           obj'[o].sup = k => obj[o].sup = k \/ start[o][k] = "store",
           \/ start'[o][k] = start[o][k] /\ (start[o][k] = "idle" => sup[o][k] = "none")
           \/ /\ start[o][k] # "starting" /\ start'[o][k] \notin {"idle", "starting"}
              /\ start'[o][k] \in {"waitIP", "store"} => start[o][k] \in {"waitIP", "store"}
    PROVE  Known(o, k)' /\ Keeps(o, k)
  BY DEF Known, Keeps, Answer

\* It is made.
LEMMA Launched ==
    ASSUME NEW o \in Objects, NEW k \in Kinds, Known(o, k),
           answered'[o][k] = Answer(o, k),
           start[o][k] = "prepare", start'[o][k] = "starting",
           sup[o][k] = "none", sup'[o][k] = "live",
           obj'[o].sup = obj[o].sup
    PROVE  Known(o, k)' /\ Keeps(o, k)
<1>1. answered[o][k] = "pending" /\ answered'[o][k] = "pending" /\ obj[o].sup # k
  BY DEF Known, Answer
<1>2. Loop(o, k)!Begin
  BY <1>1 DEF Loop!Begin
<1> QED
  BY <1>1, <1>2 DEF Known, Keeps, Loop!Next

\* Start answers.
LEMMA Answered ==
    ASSUME NEW o \in Objects, NEW k \in Kinds, Known(o, k),
           answered'[o][k] = Answer(o, k),
           start[o][k] = "starting", sup[o][k] = "live",
           obj'[o].sup = obj[o].sup,
           \/ start'[o][k] = "waitIP" /\ sup'[o][k] = "live"
           \/ /\ start'[o][k] \in {"unregister", "failed"}
              /\ sup'[o][k] \in {"live", "cancelled", "exited"}
    PROVE  Known(o, k)' /\ Keeps(o, k)
<1>1. answered[o][k] = "pending" /\ obj[o].sup # k
  BY DEF Known
<1>2. answered'[o][k] = IF start'[o][k] = "waitIP" THEN "ok" ELSE "failed"
  BY DEF Answer
<1>3. Loop(o, k)!Report
  BY <1>1, <1>2 DEF Loop!Report
<1> QED
  BY <1>1, <1>2, <1>3 DEF Known, Keeps, Loop!Next

\* It is told to stop, after Start has answered well.
LEMMA Stopped ==
    ASSUME NEW o \in Objects, NEW k \in Kinds, Known(o, k),
           answered'[o][k] = Answer(o, k),
           sup[o][k] = "live", sup'[o][k] = "cancelled",
           obj'[o].sup # k,
           \/ obj[o].sup = k /\ start'[o][k] = start[o][k] /\ start[o][k] # "idle"
           \/ /\ start[o][k] \in {"waitIP", "store"}
              /\ start'[o][k] \in {"unregister", "failed", "done"}
    PROVE  Known(o, k)' /\ Keeps(o, k)
<1>1. answered[o][k] = "ok" /\ answered'[o][k] = "ok"
  BY DEF Known, Answer
<1>2. Loop(o, k)!Stop
  BY <1>1 DEF Loop!Stop
<1> QED
  BY <1>1, <1>2 DEF Known, Keeps, Loop!Next

\* It ends, told to or by itself.
LEMMA Ended ==
    ASSUME NEW o \in Objects, NEW k \in Kinds, Known(o, k),
           answered'[o][k] = Answer(o, k),
           sup[o][k] \in {"live", "cancelled"}, sup'[o][k] = "exited",
           start'[o][k] = start[o][k], start[o][k] \notin {"idle", "starting"},
           obj'[o].sup = obj[o].sup
    PROVE  Known(o, k)' /\ Keeps(o, k)
<1>1. answered'[o][k] = answered[o][k] /\ answered[o][k] # "pending"
  BY DEF Known, Answer
<1>2. Loop(o, k)!GivesUp \/ Loop(o, k)!Stops
  BY <1>1 DEF Loop!GivesUp, Loop!Stops
<1> QED
  BY <1>1, <1>2 DEF Known, Keeps, Loop!Next

-----------------------------------------------------------------------------
(* The steps of Driver *)

\* The history's step.
Remembers == answered' = [o \in Objects |-> [k \in Kinds |-> Answer(o, k)]]

\* What the invariant of Driver says of one supervisor.
LEMMA SupervisorFacts ==
    ASSUME ContractInv, Remembers, NEW o \in Objects, NEW k \in Kinds
    PROVE  /\ Known(o, k)
           /\ answered'[o][k] = Answer(o, k)
           /\ start[o][k] \in {"idle", "check", "prepare"} => sup[o][k] = "none"
           /\ start[o][k] = "starting" => sup[o][k] = "live"
           /\ start[o][k] \in {"waitIP", "store"} => sup[o][k] \in {"live", "exited"}
           /\ obj[o].sup = k => start[o][k] = "done"
           /\ obj \in [Objects -> EndpointRec]
           /\ start \in [Objects -> [Kinds -> StartPCs]]
           /\ sup \in [Objects -> [Kinds -> SupStates]]
  BY DEF ContractInv, Remembers, OwnershipInv, StartHolds, SupervisorOwnership, TypeOK, Types

\* The step leaves starts and loops alone, and gives no object a supervisor.
LEMMA OthersKeep ==
    ASSUME ContractInv, Remembers,
           UNCHANGED <<start, sup>>,
           \A o \in Objects : obj'[o].sup \in {obj[o].sup, None}
    PROVE  \A o \in Objects, k \in Kinds : Known(o, k)' /\ Keeps(o, k)
<1> SUFFICES ASSUME NEW o \in Objects, NEW k \in Kinds PROVE Known(o, k)' /\ Keeps(o, k)
  OBVIOUS
<1>1. obj'[o].sup = k => obj[o].sup = k
  BY NoneAssumption
<1> QED
  BY <1>1, SupervisorFacts, Unconcerned

\* Docker's calls that neither start nor stop anything, and Docker's own steps.
LEMMA CallsKeep ==
    ASSUME ContractInv, Remembers,
           \/ \E n \in Networks : CreateNetwork(n) \/ DeleteNetwork(n)
           \/ \E e \in Endpoints :
                 \/ CreateEndpoint(e) \/ JoinLookup(e) \/ JoinNetwork(e) \/ JoinStore(e)
                 \/ LeaveCleanup(e) \/ DeleteRemove(e)
                 \/ ConnectEvent(e) \/ DockerProceeds(e) \/ StreamError(e)
           \/ Restart \/ ShutdownBegin
    PROVE  \A o \in Objects, k \in Kinds : Known(o, k)' /\ Keeps(o, k)
<1>1. obj \in [Objects -> EndpointRec]
  BY DEF ContractInv, OwnershipInv, TypeOK, Types
<1>2. UNCHANGED <<start, sup>>
  BY DEF CreateNetwork, DeleteNetwork, CreateEndpoint, JoinLookup, JoinNetwork, JoinStore,
     LeaveCleanup, DeleteRemove, ConnectEvent, DockerProceeds, StreamError, Restart, ShutdownBegin
<1>3. \A o \in Objects : obj'[o].sup \in {obj[o].sup, None}
  <2>1. CASE \E e \in Endpoints : CreateEndpoint(e)
    BY <1>1, <2>1 DEF CreateEndpoint, NewEndpoint, EndpointRec
  <2>2. CASE \E e \in Endpoints : JoinStore(e)
    BY <1>1, <2>2 DEF JoinStore, EndpointRec
  <2>3. CASE UNCHANGED obj
    BY <2>3
  <2> QED
    BY <2>1, <2>2, <2>3 DEF CreateNetwork, DeleteNetwork, JoinLookup, JoinNetwork,
       LeaveCleanup, DeleteRemove, ConnectEvent, DockerProceeds, StreamError, Restart,
       ShutdownBegin
<1> QED
  BY <1>2, <1>3, OthersKeep

\* The watcher and the recoveries until they start something.
LEMMA SearchesKeep ==
    ASSUME ContractInv, Remembers,
           \/ \E e \in Endpoints : WatcherReceive(e)
           \/ WatcherStore \/ WatcherLookup \/ WatcherStarted
           \/ \E r \in Recoverers :
                 \/ RecoverList(r) \/ RecoverEnd(r) \/ RecoverExists(r) \/ RecoverInspect(r)
                 \/ RecoverNetwork(r) \/ RecoverInsert(r) \/ RecoverSetKey(r)
    PROVE  \A o \in Objects, k \in Kinds : Known(o, k)' /\ Keeps(o, k)
<1>1. obj \in [Objects -> EndpointRec]
  BY DEF ContractInv, OwnershipInv, TypeOK, Types
<1>2. UNCHANGED <<start, sup>>
  BY DEF WatcherReceive, WatcherStore, WatcherLookup, WatcherStarted, RecoverList, RecoverEnd,
     RecoverExists, RecoverInspect, RecoverNetwork, RecoverInsert, RecoverSetKey
<1>3. \A o \in Objects : obj'[o].sup \in {obj[o].sup, None}
  <2>1. CASE \E r \in Recoverers : RecoverInsert(r)
    BY <1>1, <2>1 DEF RecoverInsert, NewEndpoint, EndpointRec
  <2>2. CASE \E r \in Recoverers : RecoverSetKey(r)
    BY <1>1, <2>2 DEF RecoverSetKey, EndpointRec
  <2>3. CASE UNCHANGED obj
    BY <2>3
  <2> QED
    BY <2>1, <2>2, <2>3 DEF WatcherReceive, WatcherStore, WatcherLookup, WatcherStarted,
       RecoverList, RecoverEnd, RecoverExists, RecoverInspect, RecoverNetwork
<1> QED
  BY <1>2, <1>3, OthersKeep

\* A goroutine is started: it was not there before, and has no supervisor yet.
LEMMA SpawnsKeep ==
    ASSUME ContractInv, OwnershipInv', Remembers,
           \/ \E e \in Endpoints : JoinCache(e)
           \/ WatcherKey
           \/ \E r \in Recoverers : RecoverPublish(r)
    PROVE  \A o \in Objects, k \in Kinds : Known(o, k)' /\ Keeps(o, k)
<1>1. UNCHANGED <<obj, sup>>
  BY DEF JoinCache, WatcherKey, RecoverPublish
<1>2. UNCHANGED start \/ \E p, j : Spawn(p, j)
  BY DEF JoinCache, WatcherKey, RecoverPublish
<1> SUFFICES ASSUME NEW o \in Objects, NEW k \in Kinds PROVE Known(o, k)' /\ Keeps(o, k)
  OBVIOUS
<1>3. start'[o][k] \in {start[o][k], "check"}
  <2>1. start \in [Objects -> [Kinds -> StartPCs]]
    BY SupervisorFacts
  <2> QED
    BY <1>2, <2>1 DEF Spawn
<1>4. start'[o][k] = "check" => sup[o][k] = "none"
  BY <1>1 DEF OwnershipInv, StartHolds
<1>5. start[o][k] # "starting" \/ start'[o][k] = start[o][k]
  BY <1>3, <1>4, SupervisorFacts
<1> QED
  BY <1>1, <1>3, <1>5, SupervisorFacts, Unconcerned

-----------------------------------------------------------------------------
(* The steps that concern a supervisor *)

\* Leave, DeleteEndpoint and Shutdown stop only what an object holds.
LEMMA StopsKeep ==
    ASSUME ContractInv, Remembers, NEW p \in Objects, TakeSup(p), CancelSup(p),
           UNCHANGED start
    PROVE  \A o \in Objects, k \in Kinds : Known(o, k)' /\ Keeps(o, k)
<1> SUFFICES ASSUME NEW o \in Objects, NEW k \in Kinds PROVE Known(o, k)' /\ Keeps(o, k)
  OBVIOUS
<1>1. obj'[o].sup \in {obj[o].sup, None} /\ obj'[p].sup = None
  BY SupervisorFacts DEF TakeSup, EndpointRec
<1>2. \/ sup'[o][k] = sup[o][k]
      \/ o = p /\ k = obj[p].sup /\ sup[o][k] = "live" /\ sup'[o][k] = "cancelled"
  BY SupervisorFacts DEF CancelSup
<1>3. CASE sup'[o][k] = sup[o][k]
  BY <1>1, <1>3, SupervisorFacts, Unconcerned, NoneAssumption
<1>4. CASE o = p /\ k = obj[p].sup /\ sup[o][k] = "live" /\ sup'[o][k] = "cancelled"
  BY <1>1, <1>4, SupervisorFacts, Stopped, NoneAssumption
<1> QED
  BY <1>2, <1>3, <1>4

LEMMA LeavingKeeps ==
    ASSUME ContractInv, Remembers,
           \/ \E e \in Endpoints : LeaveTake(e) \/ DeleteTake(e)
           \/ \E o \in Objects : ShutdownStop(o)
    PROVE  \A o \in Objects, k \in Kinds : Known(o, k)' /\ Keeps(o, k)
<1>1. endpoints \in [Endpoints -> Objects \cup {None}]
  BY DEF ContractInv, OwnershipInv, TypeOK, Types
<1>2. UNCHANGED start
  BY DEF LeaveTake, DeleteTake, ShutdownStop
<1>3. UNCHANGED <<obj, sup>> \/ \E o \in Objects : TakeSup(o) /\ CancelSup(o)
  BY <1>1 DEF LeaveTake, DeleteTake, ShutdownStop
<1> QED
  BY <1>2, <1>3, OthersKeep, StopsKeep

\* StartTailscale, run by <<p, j>>: to every other supervisor it does nothing.
LEMMA StartsKeep ==
    ASSUME ContractInv, Remembers, NEW p \in Objects, NEW j \in Kinds, StartStep(p, j)
    PROVE  \A o \in Objects, k \in Kinds : Known(o, k)' /\ Keeps(o, k)
<1> SUFFICES ASSUME NEW o \in Objects, NEW k \in Kinds PROVE Known(o, k)' /\ Keeps(o, k)
  OBVIOUS
<1>1. /\ \E pc : start' = [start EXCEPT ![p][j] = pc]
      /\ sup' = sup \/ \E s : sup' = [sup EXCEPT ![p][j] = s]
      /\ obj' = obj \/ (start[p][j] = "store" /\ obj' = [obj EXCEPT ![p].sup = j, ![p].started = TRUE])
  <2>1. CASE StartCheck(p, j) \/ StartUp(p, j) \/ StartWaitIP(p, j)
    BY <2>1 DEF StartCheck, StartUp, StartWaitIP, Go, Fail
  <2>2. CASE StartLaunch(p, j) \/ StartStore(p, j)
    BY <2>2 DEF StartLaunch, StartStore, Go, Fail, At
  <2>3. CASE j = "recover" /\ StartUnregister(p)
    BY <2>3 DEF StartUnregister, Go
  <2> QED
    BY <2>1, <2>2, <2>3 DEF StartStep
<1>2. CASE o # p \/ k # j
  <2>1. start'[o][k] = start[o][k] /\ sup'[o][k] = sup[o][k]
    BY <1>1, <1>2, SupervisorFacts
  <2>2. obj'[o].sup = k => obj[o].sup = k
    BY <1>1, <1>2, SupervisorFacts DEF EndpointRec
  <2> QED
    BY <2>1, <2>2, SupervisorFacts, Unconcerned
<1>3. CASE o = p /\ k = j
  <2> DEFINE pc == start[o][k]
             q  == start'[o][k]
  <2>1. /\ \A x \in StartPCs : start' = [start EXCEPT ![p][j] = x] => q = x
        /\ \A s : sup' = [sup EXCEPT ![p][j] = s] => sup'[o][k] = s
        /\ obj' = obj => obj'[o].sup = obj[o].sup
    BY <1>3, SupervisorFacts
  <2>2. CASE StartCheck(p, j)
    <3>1. pc = "check" /\ q \in {"done", "prepare", "unregister", "failed"}
      BY <1>3, <2>1, <2>2 DEF StartCheck, Go, Fail, At, StartPCs
    <3>2. sup' = sup /\ obj' = obj
      BY <2>2 DEF StartCheck
    <3> QED
      BY <3>1, <3>2, SupervisorFacts, Unconcerned
  <2>3. CASE StartLaunch(p, j)
    <3>1. pc = "prepare" /\ obj' = obj
      BY <1>3, <2>3 DEF StartLaunch, At
    <3>2. \/ q = "starting" /\ sup'[o][k] = "live"
          \/ q \in {"unregister", "failed"} /\ sup' = sup
      BY <1>3, <2>1, <2>3 DEF StartLaunch, Go, Fail, StartPCs
    <3> QED
      BY <3>1, <3>2, SupervisorFacts, Unconcerned, Launched
  <2>4. CASE StartUp(p, j)
    <3>1. pc = "starting" /\ obj' = obj
      BY <1>3, <2>4 DEF StartUp, At
    <3>2. \/ q = "waitIP" /\ sup' = sup
          \/ /\ q \in {"unregister", "failed"}
             /\ sup'[o][k] \in {"live", "cancelled", "exited"}
      BY <1>3, <2>1, <2>4 DEF StartUp, Go, Fail, StartPCs
    <3> QED
      BY <3>1, <3>2, SupervisorFacts, Answered
  <2>5. CASE StartWaitIP(p, j)
    <3>1. pc = "waitIP" /\ obj' = obj
      BY <1>3, <2>5 DEF StartWaitIP, At
    <3>2. \/ q \in {"store", "unregister", "failed"} /\ sup' = sup
          \/ /\ q \in {"unregister", "failed"}
             /\ sup[o][k] = "live" /\ sup'[o][k] = "cancelled"
      BY <1>3, <2>1, <2>5 DEF StartWaitIP, Go, Fail, StartPCs
    <3> QED
      BY <3>1, <3>2, SupervisorFacts, Unconcerned, Stopped
  <2>6. CASE StartStore(p, j)
    <3>1. pc = "store" /\ q = "done"
      BY <1>3, <2>1, <2>6 DEF StartStore, Go, At, StartPCs
    <3>2. \/ sup'[o][k] = sup[o][k]
          \/ obj' = obj /\ sup[o][k] = "live" /\ sup'[o][k] = "cancelled"
      BY <1>3, <2>6, SupervisorFacts DEF StartStore
    <3> QED
      BY <3>1, <3>2, SupervisorFacts, Unconcerned, Stopped
  <2>7. CASE j = "recover" /\ StartUnregister(p)
    <3>1. pc = "unregister" /\ q = "failed" /\ sup' = sup /\ obj' = obj
      BY <1>3, <2>1, <2>7 DEF StartUnregister, Go, StartPCs
    <3> QED
      BY <3>1, SupervisorFacts, Unconcerned
  <2> QED
    BY <2>2, <2>3, <2>4, <2>5, <2>6, <2>7 DEF StartStep
<1> QED
  BY <1>2, <1>3

\* A loop ends, as it was told or by itself, which it does not before Start has
\* answered.
LEMMA LoopsKeep ==
    ASSUME ContractInv, Remembers, NEW p \in Objects, NEW j \in Kinds,
           SupStops(p, j) \/ SupGivesUp(p, j)
    PROVE  \A o \in Objects, k \in Kinds : Known(o, k)' /\ Keeps(o, k)
<1> SUFFICES ASSUME NEW o \in Objects, NEW k \in Kinds PROVE Known(o, k)' /\ Keeps(o, k)
  OBVIOUS
<1>1. /\ sup[p][j] \in {"live", "cancelled"} /\ sup' = [sup EXCEPT ![p][j] = "exited"]
      /\ start[p][j] = "starting" => sup[p][j] = "cancelled"
      /\ UNCHANGED <<start, obj>>
  BY DEF SupStops, SupGivesUp
<1>2. CASE o = p /\ k = j
  BY <1>1, <1>2, SupervisorFacts, Ended
<1>3. CASE o # p \/ k # j
  BY <1>1, <1>3, SupervisorFacts, Unconcerned
<1> QED
  BY <1>2, <1>3

\* The end of the plugin ends what is known of every supervisor.
LEMMA EndForgets ==
    ASSUME ContractInv, Remembers, ProcessEnds
    PROVE  mode' = "exited" /\ \A o \in Objects, k \in Kinds : Known(o, k)'
<1>1. \A o \in Objects, k \in Kinds :
         start'[o][k] = "idle" /\ sup'[o][k] = "none" /\ obj'[o].sup = None
  BY DEF ProcessEnds, Unused, NewEndpoint
<1>2. \A o \in Objects, k \in Kinds : answered'[o][k] = "pending"
  BY <1>1, SupervisorFacts DEF Answer
<1> QED
  BY <1>1, <1>2, NoneAssumption DEF Known, ProcessEnds

-----------------------------------------------------------------------------
(* Theorems *)

\* The first state.
LEMMA ContractInit ==
    HistoryInit => ContractInv /\ \A o \in Objects, k \in Kinds : Loop(o, k)!Init
<1> SUFFICES ASSUME HistoryInit
             PROVE  ContractInv /\ \A o \in Objects, k \in Kinds : Loop(o, k)!Init
  OBVIOUS
<1>1. OwnershipInv
  BY InitInv DEF HistoryInit
<1>2. \A o \in Objects, k \in Kinds :
         /\ start[o][k] = "idle" /\ sup[o][k] = "none" /\ obj[o].sup = None
         /\ answered[o][k] = "pending"
  BY DEF HistoryInit, Init, FreshProcess, Unused, NewEndpoint
<1> QED
  BY <1>1, <1>2, NoneAssumption DEF ContractInv, Known, Loop!Init

\* Every step keeps the invariant and, unless it is the end of the plugin, the
\* contract of every supervisor.
LEMMA ContractStep ==
    ASSUME ContractInv, [HistoryNext]_historyVars
    PROVE  ContractInv' /\ (mode' = "exited" \/ \A o \in Objects, k \in Kinds : Keeps(o, k))
<1>1. CASE UNCHANGED historyVars
  <2>1. ContractInv'
    <3>1. OwnershipInv'
      BY <1>1, StepInv DEF ContractInv, historyVars
    <3>2. UNCHANGED <<obj, start, sup, answered>>
      BY <1>1 DEF historyVars, vars
    <3> QED
      BY <3>1, <3>2 DEF ContractInv, Known
  <2> QED
    BY <1>1, <2>1 DEF historyVars, vars, Keeps
<1>2. CASE HistoryNext
  <2>1. OwnershipInv' /\ Remembers
    BY <1>2, StepInv DEF HistoryNext, ContractInv, Remembers
  <2> SUFFICES \/ \A o \in Objects, k \in Kinds : Known(o, k)' /\ Keeps(o, k)
               \/ mode' = "exited" /\ \A o \in Objects, k \in Kinds : Known(o, k)'
    BY <2>1 DEF ContractInv
  <2>2. CASE \/ \E n \in Networks : CreateNetwork(n) \/ DeleteNetwork(n)
             \/ \E e \in Endpoints :
                   \/ CreateEndpoint(e) \/ JoinLookup(e) \/ JoinNetwork(e) \/ JoinStore(e)
                   \/ LeaveCleanup(e) \/ DeleteRemove(e)
                   \/ ConnectEvent(e) \/ DockerProceeds(e) \/ StreamError(e)
             \/ Restart \/ ShutdownBegin
    BY <2>1, <2>2, CallsKeep
  <2>3. CASE \/ \E e \in Endpoints : WatcherReceive(e)
             \/ WatcherStore \/ WatcherLookup \/ WatcherStarted
             \/ \E r \in Recoverers :
                   \/ RecoverList(r) \/ RecoverEnd(r) \/ RecoverExists(r) \/ RecoverInspect(r)
                   \/ RecoverNetwork(r) \/ RecoverInsert(r) \/ RecoverSetKey(r)
    BY <2>1, <2>3, SearchesKeep
  <2>4. CASE \/ \E e \in Endpoints : JoinCache(e)
             \/ WatcherKey
             \/ \E r \in Recoverers : RecoverPublish(r)
    BY <2>1, <2>4, SpawnsKeep
  <2>5. CASE \/ \E e \in Endpoints : LeaveTake(e) \/ DeleteTake(e)
             \/ \E o \in Objects : ShutdownStop(o)
    BY <2>1, <2>5, LeavingKeeps
  <2>6. CASE \E p \in Objects, j \in Kinds : StartStep(p, j)
    BY <2>1, <2>6, StartsKeep
  <2>7. CASE \E p \in Objects, j \in Kinds : SupStops(p, j) \/ SupGivesUp(p, j)
    BY <2>1, <2>7, LoopsKeep
  <2>8. CASE Crash \/ ShutdownDone \/ ShutdownTimesOut
    BY <2>1, <2>8, EndForgets DEF Crash, ShutdownDone, ShutdownTimesOut
  <2> QED
    BY <1>2, <2>2, <2>3, <2>4, <2>5, <2>6, <2>7, <2>8
       DEF HistoryNext, Next, CallStep, WatcherStep, RecoverStep
<1> QED
  BY <1>1, <1>2

\* In every reachable state the answer of Start fits what its caller does, and no
\* object holds a supervisor whose Start has not succeeded.
THEOREM ContractInvariant == HistorySpec => []ContractInv
<1>1. HistoryInit => ContractInv
  BY ContractInit
<1>2. ContractInv /\ [HistoryNext]_historyVars => ContractInv'
  BY ContractStep
<1> QED
  BY <1>1, <1>2, PTL DEF HistorySpec

\* Driver and its environment treat each of their supervisors as
\* SupervisorContract says, between its making and the end of the plugin
\* (endpoint.go:252-318, 355-369, 390-402, supervisor.go:84-136).
THEOREM DriverGoesByContract == HistorySpec => GoesByContract
<1>1. HistoryInit => \A o \in Objects, k \in Kinds : Loop(o, k)!Init
  BY ContractInit
<1>2. ContractInv /\ [HistoryNext]_historyVars =>
         [mode' = "exited" \/ \A o \in Objects, k \in Kinds :
             UNCHANGED <<sup[o][k], answered[o][k]>> \/ Loop(o, k)!Next]_historyVars
  BY ContractStep DEF Keeps
<1> QED
  BY <1>1, <1>2, ContractInvariant, PTL DEF HistorySpec, GoesByContract

=============================================================================
