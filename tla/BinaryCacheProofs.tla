------------------------- MODULE BinaryCacheProofs -------------------------
(* Theorems about BinaryCache, for every set of callers and versions and     *)
(* every bound.                                                              *)
EXTENDS BinaryCache, TLAPS

\* NewDriver's process begins with nothing that could contradict CacheInv.
LEMMA CacheInit == Init => CacheInv
<1> SUFFICES ASSUME Init PROVE CacheInv
  OBVIOUS
<1>1. TypeOK
  BY BoundsAssumption DEF Init, TypeOK, FileStates, PCs, Bins
<1> QED
  BY <1>1, NoneAssumption DEF Init, CacheInv, Exists

\* An error return, with nothing half written, keeps CacheInv.
LEMMA FailKeeps ==
    ASSUME CacheInv, lock # None, pc \notin {"copy", "clean"},
           Fail, Fault, UNCHANGED <<diskVars, session, crashes>>
    PROVE  CacheInv'
<1> USE NoneAssumption, BoundsAssumption
<1>1. TypeOK'
  BY DEF CacheInv, TypeOK, PCs, FileStates, Bins, Fail, Fault, Unlock, diskVars
<1>2. /\ pc' = "off" /\ version' = None /\ using' = using /\ session' = session
      /\ disk' = disk /\ wanted' = wanted /\ crashes' = crashes
  BY DEF Fail, Unlock, diskVars
<1> QED
  BY <1>1, <1>2 DEF CacheInv, Exists

\* So does a return with a version whose files are there and not being written.
LEMMA FinishKeeps ==
    ASSUME CacheInv, lock # None, pc \in {"look", "extract"}, Finish,
           \A b \in Bins : Exists(version, b), faults' \in 0..MaxFaults,
           UNCHANGED <<diskVars, crashes>>
    PROVE  CacheInv'
<1> USE NoneAssumption, LatestAssumption, BoundsAssumption
<1>1. /\ version \in Versions /\ lock \in Callers
      /\ session \in {None, version}
      /\ wanted \in {"latest", version}
  BY DEF CacheInv, TypeOK
<1>2. /\ pc' = "off" /\ lock' = None /\ version' = None /\ left' = {}
      /\ session' = version /\ using' = [using EXCEPT ![lock] = version]
      /\ caller' = [caller EXCEPT ![lock] = "running"]
      /\ disk' = disk /\ wanted' = wanted /\ crashes' = crashes
      /\ upstream' = upstream
  BY DEF Finish, Return, Unlock, diskVars
<1>3. TypeOK'
  BY <1>1, <1>2 DEF CacheInv, TypeOK, PCs, FileStates, Bins
<1>4. \A c \in Callers : using'[c] \in {None, session'}
  BY <1>1, <1>2 DEF CacheInv, TypeOK
<1>5. crashes = 0 => \A v \in Versions, b \in Bins : disk[v][b] # "truncated"
  BY DEF CacheInv
<1>6. crashes = 0 => \A b \in Bins : disk[version][b] = "whole"
  BY <1>1, <1>5 DEF CacheInv, TypeOK, Exists, FileStates
<1> QED
  BY <1>1, <1>2, <1>3, <1>4, <1>5, <1>6 DEF CacheInv, Exists

\* Every step keeps CacheInv.
LEMMA CacheStep ==
    ASSUME CacheInv, [Next]_vars
    PROVE  CacheInv'
<1> USE NoneAssumption, LatestAssumption, BoundsAssumption
<1> USE DEF CacheInv, TypeOK, Exists, PCs, FileStates, Bins
<1>1. CASE UNCHANGED vars
  BY <1>1 DEF vars, diskVars, workVars, callVars, bounds
<1>2. ASSUME NEW c \in Callers, Call(c) PROVE CacheInv'
  BY <1>2 DEF Call, diskVars, workVars, bounds
<1>3. ASSUME NEW c \in Callers, Leaves(c) PROVE CacheInv'
  BY <1>3 DEF Leaves, diskVars, workVars, bounds
<1>4. ASSUME NEW c \in Callers, Enter(c) PROVE CacheInv'
  <2>1. lock = None /\ pc = "off" /\ version = None /\ UNCHANGED <<diskVars, session, bounds>>
    BY <1>4 DEF Enter
  <2>2. CASE wanted = "latest" /\ session # None
    <3>1. /\ using' = [using EXCEPT ![c] = session]
          /\ caller' = [caller EXCEPT ![c] = "running"]
          /\ UNCHANGED workVars
      BY <1>4, <2>2 DEF Enter
    <3>2. QED BY <2>1, <2>2, <3>1 DEF diskVars, workVars, bounds
  <2>3. CASE ~(wanted = "latest" /\ session # None)
    <3>1. /\ lock' = c /\ UNCHANGED <<left, callVars>>
          /\ IF wanted = "latest" THEN pc' = "fetch" /\ UNCHANGED version
                                  ELSE pc' = "look" /\ version' = wanted
      BY <1>4, <2>3 DEF Enter
    <3>2. QED BY <2>1, <2>3, <3>1 DEF diskVars, callVars, bounds
  <2>4. QED BY <2>2, <2>3
<1>5. CASE Fetch
  <2>1. pc = "fetch" /\ UNCHANGED <<diskVars, session, crashes>>
    BY <1>5 DEF Fetch
  <2>2. CASE /\ version' = upstream /\ pc' = "look"
             /\ UNCHANGED <<lock, left, callVars, faults>>
    BY <2>1, <2>2 DEF diskVars, callVars
  <2>3. CASE Fault /\ Fail
    BY <2>1, <2>3, FailKeeps
  <2>4. QED BY <1>5, <2>2, <2>3 DEF Fetch
<1>6. CASE Look
  <2>1. pc = "look" /\ version # None /\ UNCHANGED <<diskVars, bounds>>
    BY <1>6 DEF Look
  <2>2. CASE \A b \in Bins : Exists(version, b)
    BY <1>6, <2>1, <2>2, FinishKeeps DEF Look, bounds
  <2>3. CASE ~ \A b \in Bins : Exists(version, b)
    <3>1. pc' = "download" /\ UNCHANGED <<session, lock, version, left, callVars>>
      BY <1>6, <2>3 DEF Look
    <3>2. session = None
      BY <2>1, <2>3
    <3>3. QED BY <2>1, <3>1, <3>2 DEF diskVars, callVars, bounds
  <2>4. QED BY <2>2, <2>3
<1>7. CASE Download
  BY <1>7 DEF Download, Fault, Fail, Unlock, diskVars, callVars
<1>8. ASSUME NEW b \in Bins, Open(b) PROVE CacheInv'
  BY <1>8 DEF Open, callVars, bounds
<1>9. CASE Copy
  BY <1>9 DEF Copy, Fault, callVars
<1>10. CASE ArchiveEnds
  <2>1. pc = "extract" /\ UNCHANGED <<diskVars, crashes>>
    BY <1>10 DEF ArchiveEnds
  <2>2. CASE left = {} /\ Finish /\ UNCHANGED faults
    BY <2>1, <2>2, FinishKeeps
  <2>3. CASE /\ Fault /\ pc' = "clean"
             /\ UNCHANGED <<session, lock, version, left, callVars>>
    BY <2>1, <2>3 DEF Fault, diskVars, callVars
  <2>4. QED BY <1>10, <2>2, <2>3 DEF ArchiveEnds
<1>11. CASE Clean
  BY <1>11 DEF Clean, Fail, Unlock, bounds
<1>12. CASE Release
  BY <1>12 DEF Release, workVars, callVars, bounds
<1>13. CASE Restart
  BY <1>13 DEF Restart
<1> QED
  BY <1>1, <1>2, <1>3, <1>4, <1>5, <1>6, <1>7, <1>8, <1>9, <1>10, <1>11, <1>12,
     <1>13 DEF Next, Work

-----------------------------------------------------------------------------
(* Theorems *)

\* CacheInv holds in every reachable state (binary.go:194-246).
THEOREM CacheSafety == Spec => []CacheInv
<1>1. CacheInv /\ [Next]_vars => CacheInv'
  BY CacheStep
<1> QED
  BY CacheInit, <1>1, PTL DEF Spec

\* Nobody is given a directory without both files, and a failed extraction alone
\* never gives anybody a truncated one (binary.go:88-94, 118-129).
THEOREM AlwaysComplete == Spec => []GivenComplete
<1>1. CacheInv => GivenComplete
  BY DEF CacheInv, GivenComplete, Exists
<1> QED
  BY CacheSafety, <1>1, PTL

\* Every container of one life of the plugin runs the same version
\* (binary.go:210-236).
THEOREM AlwaysOneVersion == Spec => []OneVersion
<1>1. CacheInv => OneVersion
  BY DEF CacheInv, OneVersion
<1> QED
  BY CacheSafety, <1>1, PTL

\* The files somebody runs from are not touched (binary.go:88-131).
THEOREM FilesStay == Spec => NeverRewritten
<1>1. CacheInv /\ [Next]_vars =>
         [\A c \in Callers : using[c] # None /\ using'[c] = using[c]
             => disk'[using[c]] = disk[using[c]]]_vars
  <2> SUFFICES ASSUME CacheInv, Next, NEW c \in Callers,
                      using[c] # None, using'[c] = using[c]
               PROVE  disk'[using[c]] = disk[using[c]]
    OBVIOUS
  <2>1. session # None /\ using[c] = session /\ pc \in {"off", "look"}
    BY DEF CacheInv
  <2>2. CASE Restart
    BY <2>2 DEF Restart
  <2>3. UNCHANGED disk \/ Restart
    BY <2>1 DEF Next, Work, Call, Leaves, Enter, Fetch, Look, Download, Open, Copy,
                ArchiveEnds, Clean, Release, diskVars
  <2> QED
    BY <2>2, <2>3
<1> QED
  BY CacheSafety, <1>1, PTL DEF Spec, NeverRewritten

=============================================================================
