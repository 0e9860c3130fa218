-------------------------- MODULE SupervisorProofs --------------------------
(* Proofs about Supervisor, for every set of start durations.               *)
EXTENDS Supervisor, TLAPS

(* Lemmas on the helpers *)

\* nextBackoff returns a delay of at most thirty seconds, for every count of
\* attempts (supervisor.go:367-380).
LEMMA BackoffBounded ==
    ASSUME NEW n \in 0..MaxAttempt
    PROVE  NextBackoff(n) \in 0..MaxBackoff
<1>1. CASE n = 0
  BY <1>1 DEF NextBackoff, InitialBackoff, MaxBackoff
<1>2. CASE n # 0 /\ ShiftOverflows(n)
  BY <1>2 DEF NextBackoff, MaxBackoff
<1>3. CASE n # 0 /\ ~ShiftOverflows(n) /\ n > 8
  BY <1>3 DEF NextBackoff, MaxBackoff
<1>4. CASE n # 0 /\ ~ShiftOverflows(n) /\ ~(n > 8)
  BY <1>4 DEF NextBackoff, MaxBackoff, Doubled, MaxAttempt
<1> QED
  BY <1>1, <1>2, <1>3, <1>4


\* The smaller of two numbers is one of them.
LEMMA LeastBounded ==
    ASSUME NEW x \in Nat, NEW y \in Nat
    PROVE  Least(x, y) \in 0..y /\ (~(x < y) => Least(x, y) = y)
BY DEF Least

\* Crashes only get older: no crash loop comes about by waiting.
LEMMA AgedKeeps ==
    ASSUME ages \in [1..CrashLoopThreshold -> 0..CrashLoopWindow], NEW d \in Nat
    PROVE  /\ Aged(d) \in [1..CrashLoopThreshold -> 0..CrashLoopWindow]
           /\ ~IsCrashLoop(ages) => ~IsCrashLoop(Aged(d))
<1>1. \A i \in 1..CrashLoopThreshold :
         /\ Least(ages[i] + d, CrashLoopWindow) \in 0..CrashLoopWindow
         /\ ~(ages[i] < CrashLoopWindow) =>
               ~(Least(ages[i] + d, CrashLoopWindow) < CrashLoopWindow)
  <2> SUFFICES ASSUME NEW i \in 1..CrashLoopThreshold
               PROVE  /\ Least(ages[i] + d, CrashLoopWindow) \in 0..CrashLoopWindow
                      /\ ~(ages[i] < CrashLoopWindow) =>
                            ~(Least(ages[i] + d, CrashLoopWindow) < CrashLoopWindow)
    OBVIOUS
  <2>1. ages[i] \in 0..CrashLoopWindow
    OBVIOUS
  <2>2. \A x \in 0..CrashLoopWindow : x \in Nat /\ x + d \in Nat
    BY DEF CrashLoopWindow
  <2>3. \A x \in 0..CrashLoopWindow :
           ~(x < CrashLoopWindow) => ~(x + d < CrashLoopWindow)
    BY DEF CrashLoopWindow
  <2>4. CrashLoopWindow \in Nat /\ ~(CrashLoopWindow < CrashLoopWindow)
    BY DEF CrashLoopWindow
  <2> QED
    BY <2>1, <2>2, <2>3, <2>4, LeastBounded
<1>2. Aged(d) \in [1..CrashLoopThreshold -> 0..CrashLoopWindow]
  BY <1>1 DEF Aged
<1>3. CrashLoopThreshold \in 1..CrashLoopThreshold
  BY DEF CrashLoopThreshold
<1>4. Aged(d)[CrashLoopThreshold]
         = Least(ages[CrashLoopThreshold] + d, CrashLoopWindow)
  BY <1>3 DEF Aged
<1> QED
  BY <1>1, <1>2, <1>3, <1>4 DEF IsCrashLoop

\* recordCrash keeps a list of ages.
LEMMA RecordedType ==
    ASSUME ages \in [1..CrashLoopThreshold -> 0..CrashLoopWindow]
    PROVE  Recorded \in [1..CrashLoopThreshold -> 0..CrashLoopWindow]
BY DEF Recorded, CrashLoopThreshold, CrashLoopWindow

-----------------------------------------------------------------------------
(* The inductive invariant *)

\* The loop that has not begun satisfies LoopInv (supervisor.go:62-82).
LEMMA LoopInit == Init => LoopInv
<1>1. Init => TypeOK
  <2> SUFFICES ASSUME Init PROVE TypeOK
    OBVIOUS
  <2>1. /\ 0 \in 0..MaxAttempt /\ 0 \in 0..MaxBackoff /\ 0 \in 0..MinUptime
        /\ CrashLoopWindow \in 0..CrashLoopWindow
    BY DEF MaxAttempt, MaxBackoff, MinUptime, CrashLoopWindow
  <2> QED
    BY <2>1, Zenon DEF Init, TypeOK, LoopPCs, Statuses
<1>2. Init => LoopState
  BY DEF Init, LoopState, Trying, EndsForAReason, IsCrashLoop,
         CrashLoopThreshold, CrashLoopWindow
<1> QED
  BY <1>1, <1>2 DEF LoopInv

\* Every step keeps LoopInv.
LEMMA LoopStep ==
    ASSUME LoopInv, [Next]_vars
    PROVE  LoopInv'
<1> USE DEF LoopInv, LoopState, TypeOK, LoopPCs, Statuses, Trying, EndsForAReason, IsCrashLoop
<1>1. CASE Start
  BY <1>1 DEF Start, loopVars
<1>2. CASE StartReturns
  BY <1>2 DEF StartReturns, loopVars
<1>3. CASE StartTimesOut
  BY <1>3 DEF StartTimesOut, loopVars
<1>4. CASE Stop
  BY <1>4 DEF Stop, loopVars
<1>5. CASE StopReturns
  BY <1>5 DEF StopReturns, loopVars
<1>6. CASE JitterEnds
  BY <1>6 DEF JitterEnds, loopVars
<1>7. CASE TopCancelled
  BY <1>7 DEF TopCancelled, loopVars
<1>8. CASE TopNetnsGone
  BY <1>8 DEF TopNetnsGone, loopVars, SignalStartup
<1>9. CASE TopFirst
  BY <1>9 DEF TopFirst, loopVars
<1>10. CASE TopRetry
  <2>1. Recorded \in [1..CrashLoopThreshold -> 0..CrashLoopWindow]
    BY RecordedType
  <2>2. CASE IsCrashLoop(Recorded)
    BY <1>10, <2>1, <2>2 DEF TopRetry, SignalStartup
  <2>3. CASE ~IsCrashLoop(Recorded)
    <3>1. delay' \in 0..MaxBackoff
      BY <1>10, <2>3, BackoffBounded DEF TopRetry
    <3>2. attempt' \in 0..MaxAttempt
      <4>1. attempt' = Least(attempt + 1, MaxAttempt)
        BY <1>10, <2>3 DEF TopRetry
      <4> QED
        BY <4>1 DEF Least, MaxAttempt
    <3> QED
      BY <1>10, <2>1, <2>3, <3>1, <3>2 DEF TopRetry
  <2> QED
    BY <2>2, <2>3
<1>11. CASE BackoffCancelled
  BY <1>11 DEF BackoffCancelled, loopVars
<1>12. CASE BackoffEnds
  <2>1. /\ Aged(delay) \in [1..CrashLoopThreshold -> 0..CrashLoopWindow]
        /\ ~IsCrashLoop(ages) => ~IsCrashLoop(Aged(delay))
    <3>1. delay \in Nat
      BY DEF MaxBackoff
    <3> QED
      BY <3>1, AgedKeeps
  <2> QED
    BY <1>12, <2>1 DEF BackoffEnds, MaxBackoff
<1>13. CASE Launch
  BY <1>13 DEF Launch, loopVars
<1>14. CASE StartSucceeds
  <2>1. PICK d \in StartDurations : ages' = Aged(d)
    BY <1>14 DEF StartSucceeds
  <2>2. /\ Aged(d) \in [1..CrashLoopThreshold -> 0..CrashLoopWindow]
        /\ ~IsCrashLoop(ages) => ~IsCrashLoop(Aged(d))
    BY AgedKeeps, DurationsAssumption
  <2>3. 0 \in 0..MinUptime
    BY DEF MinUptime
  <2>4. startupDone' \in {"empty", "ok", "failed", "taken"}
    BY <1>14 DEF StartSucceeds, SignalStartup
  <2>5. TypeOK'
    BY <1>14, <2>1, <2>2, <2>3, <2>4, Zenon DEF StartSucceeds
  <2>6. LoopState'
    BY <1>14, <2>1, <2>2 DEF StartSucceeds, SignalStartup, MinUptime
  <2> QED
    BY <2>5, <2>6
<1>15. CASE StartFails
  <2>1. PICK d \in StartDurations : ages' = Aged(d)
    BY <1>15 DEF StartFails
  <2>2. /\ Aged(d) \in [1..CrashLoopThreshold -> 0..CrashLoopWindow]
        /\ ~IsCrashLoop(ages) => ~IsCrashLoop(Aged(d))
    BY AgedKeeps, DurationsAssumption
  <2>3. 0 \in 0..MinUptime
    BY DEF MinUptime
  <2>4. startupDone' \in {"empty", "ok", "failed", "taken"}
    BY <1>15 DEF StartFails, SignalStartup
  <2>5. TypeOK'
    BY <1>15, <2>1, <2>2, <2>3, <2>4, Zenon DEF StartFails
  <2>6. LoopState'
    BY <1>15, <2>1, <2>2 DEF StartFails, SignalStartup, MinUptime
  <2> QED
    BY <2>5, <2>6
<1>16. CASE WatchCancelled
  BY <1>16 DEF WatchCancelled, loopVars
<1>17. CASE WatchTick
  <2>1. /\ Aged(HealthCheckInterval) \in [1..CrashLoopThreshold -> 0..CrashLoopWindow]
        /\ ~IsCrashLoop(ages) => ~IsCrashLoop(Aged(HealthCheckInterval))
    BY AgedKeeps DEF HealthCheckInterval
  <2>2. uptime' \in 0..MinUptime /\ attempt' \in 0..MaxAttempt
    <3>1. uptime' = Least(uptime + HealthCheckInterval, MinUptime)
      BY <1>17 DEF WatchTick
    <3>2. uptime' \in 0..MinUptime
      BY <3>1 DEF Least, MinUptime, HealthCheckInterval
    <3>3. attempt' = attempt \/ attempt' = 0
      BY <1>17 DEF WatchTick
    <3> QED
      <4>1. 0 \in 0..MaxAttempt
        BY DEF MaxAttempt
      <4> QED
        BY <3>2, <3>3, <4>1
  <2> QED
    BY <1>17, <2>1, <2>2 DEF WatchTick
<1>18. CASE StopDaemon
  BY <1>18 DEF StopDaemon, loopVars
<1>19. CASE ProcessDies
  <2>5. TypeOK'
    <3>1. proc' \in BOOLEAN
      BY <1>19, Zenon DEF ProcessDies
    <3>2. /\ pc' = pc /\ firstStart' = firstStart /\ attempt' = attempt
          /\ ages' = ages /\ delay' = delay /\ uptime' = uptime
          /\ status' = status /\ cancelled' = cancelled /\ held' = held
          /\ netns' = netns /\ startupDone' = startupDone /\ caller' = caller
          /\ stop' = stop
      BY <1>19 DEF ProcessDies, loopVars
    <3> QED
      BY <3>1, <3>2
  <2>6. LoopState'
    <3>1. ~proc' /\ UNCHANGED <<pc, firstStart, ages, status, cancelled, netns, caller, stop>>
      BY <1>19 DEF ProcessDies, loopVars
    <3> QED
      BY <3>1, Zenon
  <2> QED
    BY <2>5, <2>6
<1>20. CASE NetnsGone
  <2>5. TypeOK'
    <3>1. netns' \in BOOLEAN
      BY <1>20, Zenon DEF NetnsGone
    <3>2. /\ pc' = pc /\ firstStart' = firstStart /\ attempt' = attempt
          /\ ages' = ages /\ delay' = delay /\ uptime' = uptime
          /\ status' = status /\ cancelled' = cancelled /\ held' = held
          /\ proc' = proc /\ startupDone' = startupDone /\ caller' = caller
          /\ stop' = stop
      BY <1>20 DEF NetnsGone, loopVars
    <3> QED
      BY <3>1, <3>2
  <2>6. LoopState'
    <3>1. ~netns' /\ UNCHANGED <<pc, firstStart, ages, status, cancelled, proc, held, caller, stop>>
      BY <1>20 DEF NetnsGone, loopVars
    <3> QED
      BY <3>1, Zenon
  <2> QED
    BY <2>5, <2>6
<1>21. CASE UNCHANGED vars
  BY <1>21 DEF vars, loopVars
<1> QED
  BY <1>1, <1>2, <1>3, <1>4, <1>5, <1>6, <1>7, <1>8, <1>9, <1>10, <1>11, <1>12, <1>13, <1>14, <1>15, <1>16, <1>17, <1>18, <1>19, <1>20, <1>21 DEF Next, Top

-----------------------------------------------------------------------------
(* Theorems *)

\* LoopInv holds in every reachable state, whatever attempts to start take: the
\* loop, its process, Start and Stop never disagree (supervisor.go:84-335).
THEOREM LoopSafety == Spec => []LoopInv
<1>1. LoopInv /\ [Next]_vars => LoopInv'
  BY LoopStep
<1> QED
  BY LoopInit, <1>1, PTL DEF Spec

\* No tailscaled outlives its supervision loop (supervisor.go:183-225, 311-320).
THEOREM NoOrphans == Spec => []NoOrphan
<1>1. LoopInv => NoOrphan
  BY DEF LoopInv, LoopState, NoOrphan
<1> QED
  BY LoopSafety, <1>1, PTL

\* The loop never tries again with five crashes in its window, however long its
\* attempts take (supervisor.go:201-215, 338-350).
THEOREM CrashBudgetKept == Spec => []CrashBudget
<1>1. LoopInv => CrashBudget
  BY DEF LoopInv, LoopState, CrashBudget
<1> QED
  BY LoopSafety, <1>1, PTL

\* The loop ends only when cancelled, without its container, or in a crash loop;
\* a failed attempt never ends it (supervisor.go:183-241).
THEOREM EndsOnlyForAReason == Spec => []EndsForAReason
<1>1. LoopInv => EndsForAReason
  BY DEF LoopInv, LoopState
<1> QED
  BY LoopSafety, <1>1, PTL

\* tailscaled is launched only when the one before it is gone (supervisor.go:
\* 232-273).
THEOREM OnlyOneTailscaled == Spec => OneTailscaled
<1>1. LoopInv => (Launch => ~proc)
  BY DEF LoopInv, LoopState, Launch
<1> QED
  BY LoopSafety, <1>1, PTL DEF OneTailscaled

-----------------------------------------------------------------------------
(* The supervisor implements the safety part of its contract *)

\* The supervisor before Start is the contract's initial state.
LEMMA ContractInit == Init => Contract!Init
BY Zenon DEF Init, Contract!Init, KnownSup, KnownResult

\* Every step is one of the contract's, or shows nothing of itself.
LEMMA ContractStep ==
    ASSUME LoopInv, [Next]_vars
    PROVE  [Contract!Next]_(Contract!vars)
<1> USE DEF LoopInv, LoopState, TypeOK, LoopPCs, KnownSup, KnownResult,
            Contract!Next, Contract!vars
<1>1. CASE Start
  BY <1>1 DEF Start, loopVars, Contract!Begin
<1>2. CASE StartReturns
  BY <1>2 DEF StartReturns, loopVars, Contract!Report
<1>3. CASE StartTimesOut
  BY <1>3 DEF StartTimesOut, loopVars, Contract!Report
<1>4. CASE Stop
  BY <1>4 DEF Stop, loopVars, Contract!Stop
<1>5. CASE StopReturns
  BY <1>5 DEF StopReturns, loopVars
<1>6. CASE JitterEnds
  BY <1>6 DEF JitterEnds, loopVars
<1>7. CASE TopCancelled
  BY <1>7 DEF TopCancelled, loopVars
<1>8. CASE TopNetnsGone
  BY <1>8 DEF TopNetnsGone, loopVars, Contract!GivesUp
<1>9. CASE TopFirst
  BY <1>9 DEF TopFirst, loopVars
<1>10. CASE TopRetry
  BY <1>10 DEF TopRetry, loopVars
<1>11. CASE BackoffCancelled
  BY <1>11 DEF BackoffCancelled, loopVars, Contract!Stops
<1>12. CASE BackoffEnds
  BY <1>12 DEF BackoffEnds, loopVars
<1>13. CASE Launch
  BY <1>13 DEF Launch, loopVars, Contract!Runs
<1>14. CASE StartSucceeds
  BY <1>14 DEF StartSucceeds, loopVars
<1>15. CASE StartFails
  BY <1>15 DEF StartFails, loopVars, Contract!Runs
<1>16. CASE WatchCancelled
  BY <1>16 DEF WatchCancelled, loopVars
<1>17. CASE WatchTick
  BY <1>17 DEF WatchTick, loopVars
<1>18. CASE StopDaemon
  BY <1>18 DEF StopDaemon, loopVars, Contract!Stops, Contract!GivesUp
<1>19. CASE ProcessDies
  BY <1>19 DEF ProcessDies, loopVars, Contract!Runs
<1>20. CASE NetnsGone
  BY <1>20 DEF NetnsGone, loopVars
<1>21. CASE UNCHANGED vars
  BY <1>21 DEF vars, loopVars
<1> QED
  BY <1>1, <1>2, <1>3, <1>4, <1>5, <1>6, <1>7, <1>8, <1>9, <1>10, <1>11, <1>12,
     <1>13, <1>14, <1>15, <1>16, <1>17, <1>18, <1>19, <1>20, <1>21 DEF Next, Top

\* Every behaviour of the supervisor is one its contract allows: Start answers
\* once, and a loop never ends from under a tailscaled.
THEOREM ImplementsContractSafely == Spec => Contract!Spec
<1>1. LoopInv /\ [Next]_vars => [Contract!Next]_(Contract!vars)
  BY ContractStep
<1> QED
  BY ContractInit, LoopSafety, <1>1, PTL DEF Spec, Contract!Spec

=============================================================================
