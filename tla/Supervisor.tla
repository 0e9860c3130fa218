----------------------------- MODULE Supervisor -----------------------------
(***************************************************************************)
(* One DaemonSupervisor (pkg/tailscale/supervisor.go): its supervision     *)
(* loop, the caller of Start, a later Stop, and the tailscaled process it  *)
(* looks after (pkg/tailscale/daemon.go).                                  *)
(*                                                                         *)
(* Time is counted in units of 100 ms and passes in the loop's own waits:  *)
(* the backoff, an attempt to start tailscaled, a tick of the health       *)
(* check.  The ten seconds of Stop and the ninety of Start can only run    *)
(* out while the loop is in a call that does not look at its context.      *)
(***************************************************************************)
EXTENDS Naturals, Sequences

CONSTANT StartDurations   \* how long an attempt to start tailscaled takes

ASSUME DurationsAssumption == StartDurations \subseteq Nat \ {0}

InitialBackoff      == 1
MaxBackoff          == 300
CrashLoopWindow     == 300
CrashLoopThreshold  == 5
HealthCheckInterval == 50
MinUptime           == 300    \* minUptimeForBackoffReset

\* Bound: from 64 shifts on the backoff is the same, so attempts stop counting.
MaxAttempt == 64

VARIABLES
    pc,          \* where the supervision loop is
    firstStart,
    status,      \* s.status
    cancelled,   \* s.ctx is done
    attempt,     \* s.backoffAttempt
    ages,        \* the ages of the last crashes in s.crashTimes, latest first
    delay,       \* the backoff being waited for
    uptime,      \* time since tailscaled was started
    held,        \* s.daemon is set
    proc,        \* the tailscaled process runs
    netns,       \* the container's network namespace exists
    startupDone, \* the channel and its Once
    caller,      \* the goroutine that called Start
    stop         \* the goroutine that called Stop

loopVars == <<pc, firstStart, attempt, ages, delay, uptime>>
vars == <<loopVars, status, cancelled, held, proc, netns, startupDone, caller,
          stop>>

Least(x, y) == IF x < y THEN x ELSE y

-----------------------------------------------------------------------------
(* State *)

LoopPCs == {"none", "jitter", "top", "backoff", "launch", "starting", "watch",
            "stopping", "exited"}
\* The loop is running a tailscaled or about to.
Trying == {"backoff", "launch", "starting", "watch"}

Statuses == {"stopped", "starting", "running", "failed", "crash_loop"}

TypeOK ==
    /\ pc \in LoopPCs
    /\ firstStart \in BOOLEAN
    /\ status \in Statuses
    /\ cancelled \in BOOLEAN
    /\ attempt \in 0..MaxAttempt
    /\ ages \in [1..CrashLoopThreshold -> 0..CrashLoopWindow]
    /\ delay \in 0..MaxBackoff
    /\ uptime \in 0..MinUptime
    /\ held \in BOOLEAN /\ proc \in BOOLEAN /\ netns \in BOOLEAN
    /\ startupDone \in {"empty", "ok", "failed", "taken"}
    /\ caller \in {"idle", "waiting", "ok", "failed", "timeout"}
    /\ stop \in {"none", "waiting", "returned"}

\* NewDaemonSupervisor
Init ==
    /\ pc = "none" /\ firstStart = TRUE
    /\ status = "stopped"
    /\ cancelled = FALSE
    /\ attempt = 0
    /\ ages = [i \in 1..CrashLoopThreshold |-> CrashLoopWindow]
    /\ delay = 0 /\ uptime = 0
    /\ held = FALSE /\ proc = FALSE /\ netns = TRUE
    /\ startupDone = "empty"
    /\ caller = "idle" /\ stop = "none"

-----------------------------------------------------------------------------
(* Helpers *)

\* A crash older than the window is as good as none: ages stop there.
Aged(d) == [i \in 1..CrashLoopThreshold |-> Least(ages[i] + d, CrashLoopWindow)]

\* recordCrash
Recorded == [i \in 1..CrashLoopThreshold |-> IF i = 1 THEN 0 ELSE ages[i - 1]]

\* isCrashLoop: as many crashes as the threshold are younger than the window.
IsCrashLoop(a) == a[CrashLoopThreshold] < CrashLoopWindow

\* signalStartup: the first result goes into the channel, later ones nowhere.
SignalStartup(r) ==
    startupDone' = IF startupDone = "empty" THEN r ELSE startupDone

\* initialBackoff << n is a signed 64-bit number of nanoseconds, 10^8 * 2^n.
\* From n = 37 on only the low 64 - n bits of 10^8 are left in it: none, or
\* the upper one of them as the sign, means that the timer fires at once.
ShiftOverflows(n) ==
    /\ n > 36
    /\ \/ n > 63
       \/ LET low == 100000000 % 2^(64 - n) IN
          low = 0 \/ low >= 2^(63 - n)

\* The delays below maxBackoff: initialBackoff << n for n from 1 to 8.
Doubled == <<2, 4, 8, 16, 32, 64, 128, 256>>

NextBackoff(n) ==
    IF n = 0 THEN InitialBackoff
    ELSE IF ShiftOverflows(n) THEN 0
    ELSE IF n > 8 THEN MaxBackoff ELSE Doubled[n]

-----------------------------------------------------------------------------
(* Start and Stop *)

Start ==
    /\ caller = "idle"
    /\ caller' = "waiting"
    /\ status' = "starting"
    /\ pc' = "jitter"
    /\ UNCHANGED <<firstStart, attempt, ages, delay, uptime, cancelled, held,
                   proc, netns, startupDone, stop>>

StartReturns ==
    /\ caller = "waiting"
    /\ startupDone \in {"ok", "failed"}
    /\ caller' = startupDone
    /\ startupDone' = "taken"
    /\ UNCHANGED <<loopVars, status, cancelled, held, proc, netns, stop>>

\* Ninety seconds: only the first attempt can last that long.
StartTimesOut ==
    /\ caller = "waiting"
    /\ pc = "starting" /\ firstStart
    /\ caller' = "timeout"
    /\ cancelled' = TRUE
    /\ UNCHANGED <<loopVars, status, held, proc, netns, startupDone, stop>>

\* StartTailscale keeps, and so stops, only a supervisor whose Start succeeded.
Stop ==
    /\ caller = "ok"
    /\ stop = "none"
    /\ stop' = "waiting"
    /\ cancelled' = TRUE
    /\ UNCHANGED <<loopVars, status, held, proc, netns, startupDone, caller>>

\* The loop has ended, or ten seconds are over: startDaemon and stopDaemon may
\* take longer.
StopReturns ==
    /\ stop = "waiting"
    /\ pc \in {"exited", "starting", "stopping"}
    /\ stop' = "returned"
    /\ status' = "stopped"
    /\ UNCHANGED <<loopVars, cancelled, held, proc, netns, startupDone, caller>>

-----------------------------------------------------------------------------
(* supervisionLoop *)

JitterEnds ==
    /\ pc = "jitter"
    /\ pc' = "top"
    /\ UNCHANGED <<firstStart, attempt, ages, delay, uptime, status, cancelled,
                   held, proc, netns, startupDone, caller, stop>>

TopCancelled ==
    /\ pc = "top" /\ cancelled
    /\ pc' = "stopping"
    /\ UNCHANGED <<firstStart, attempt, ages, delay, uptime, status, cancelled,
                   held, proc, netns, startupDone, caller, stop>>

TopNetnsGone ==
    /\ pc = "top" /\ ~cancelled /\ ~netns
    /\ status' = "failed"
    /\ SignalStartup("failed")
    /\ pc' = "exited"
    /\ UNCHANGED <<firstStart, attempt, ages, delay, uptime, cancelled, held,
                   proc, netns, caller, stop>>

TopFirst ==
    /\ pc = "top" /\ ~cancelled /\ netns
    /\ firstStart
    /\ pc' = "launch"
    /\ UNCHANGED <<firstStart, attempt, ages, delay, uptime, status, cancelled,
                   held, proc, netns, startupDone, caller, stop>>

\* As a bug: the crash loop is looked for before the crash is recorded.
TopRetryLate ==
    /\ pc = "top" /\ ~cancelled /\ netns
    /\ ~firstStart
    /\ ages' = Recorded
    /\ IF IsCrashLoop(ages)
       THEN /\ status' = "crash_loop"
            /\ SignalStartup("failed")
            /\ pc' = "stopping"
            /\ UNCHANGED <<attempt, delay>>
       ELSE /\ delay' = NextBackoff(attempt)
            /\ attempt' = Least(attempt + 1, MaxAttempt)
            /\ pc' = "backoff"
            /\ UNCHANGED <<status, startupDone>>
    /\ UNCHANGED <<firstStart, uptime, cancelled, held, proc, netns, caller,
                   stop>>

\* A crash, or an attempt that failed, is recorded; one too many in the window
\* ends the loop, any other is followed by the backoff.
TopRetry ==
    /\ pc = "top" /\ ~cancelled /\ netns
    /\ ~firstStart
    /\ ages' = Recorded
    /\ IF IsCrashLoop(Recorded)
       THEN /\ status' = "crash_loop"
            /\ SignalStartup("failed")
            /\ pc' = "stopping"
            /\ UNCHANGED <<attempt, delay>>
       ELSE /\ delay' = NextBackoff(attempt)
            /\ attempt' = Least(attempt + 1, MaxAttempt)
            /\ pc' = "backoff"
            /\ UNCHANGED <<status, startupDone>>
    /\ UNCHANGED <<firstStart, uptime, cancelled, held, proc, netns, caller,
                   stop>>

BackoffCancelled ==
    /\ pc = "backoff" /\ cancelled
    /\ pc' = "exited"
    /\ UNCHANGED <<firstStart, attempt, ages, delay, uptime, status, cancelled,
                   held, proc, netns, startupDone, caller, stop>>

\* When the timer fires together with the cancellation either may be taken.
BackoffEnds ==
    /\ pc = "backoff"
    /\ ages' = Aged(delay)
    /\ delay' = 0
    /\ pc' = "launch"
    /\ UNCHANGED <<firstStart, attempt, uptime, status, cancelled, held, proc,
                   netns, startupDone, caller, stop>>

\* NewDaemon and the start of the process in the container's namespace.
Launch ==
    /\ pc = "launch"
    /\ status' = "starting"
    /\ proc' = TRUE
    /\ pc' = "starting"
    /\ UNCHANGED <<firstStart, attempt, ages, delay, uptime, cancelled, held,
                   netns, startupDone, caller, stop>>

\* As a bug: the new Daemon is not stored in s.daemon.
StartSucceedsUnset ==
    /\ pc = "starting" /\ proc /\ netns
    /\ \E d \in StartDurations : ages' = Aged(d)
    /\ status' = "running"
    /\ uptime' = 0
    /\ IF firstStart THEN SignalStartup("ok") ELSE UNCHANGED startupDone
    /\ firstStart' = FALSE
    /\ pc' = "watch"
    /\ UNCHANGED <<attempt, delay, cancelled, held, proc, netns, caller, stop>>

\* Daemon.Start succeeds: the socket is there and "tailscale up" has worked.
StartSucceeds ==
    /\ pc = "starting" /\ proc /\ netns
    /\ \E d \in StartDurations : ages' = Aged(d)
    /\ held' = TRUE
    /\ status' = "running"
    /\ uptime' = 0
    /\ IF firstStart THEN SignalStartup("ok") ELSE UNCHANGED startupDone
    /\ firstStart' = FALSE
    /\ pc' = "watch"
    /\ UNCHANGED <<attempt, delay, cancelled, proc, netns, caller, stop>>

\* As a bug: the loop is over after an attempt that failed.
StartFailsForGood ==
    /\ pc = "starting"
    /\ \E d \in StartDurations : ages' = Aged(d)
    /\ proc' = FALSE
    /\ IF firstStart THEN SignalStartup("failed") ELSE UNCHANGED startupDone
    /\ firstStart' = FALSE
    /\ pc' = "exited"
    /\ UNCHANGED <<attempt, delay, uptime, status, cancelled, held, netns,
                   caller, stop>>

\* It fails, after stopping the process if it had got that far; s.daemon is
\* still the previous one.
StartFails ==
    /\ pc = "starting"
    /\ \E d \in StartDurations : ages' = Aged(d)
    /\ proc' = FALSE
    /\ IF firstStart THEN SignalStartup("failed") ELSE UNCHANGED startupDone
    /\ firstStart' = FALSE
    /\ pc' = "top"
    /\ UNCHANGED <<attempt, delay, uptime, status, cancelled, held, netns,
                   caller, stop>>

\* As a bug: waitForExit returns on a cancelled context without stopDaemon.
WatchCancelledLeaks ==
    /\ pc = "watch" /\ cancelled
    /\ pc' = "exited"
    /\ UNCHANGED <<firstStart, attempt, ages, delay, uptime, status, cancelled,
                   held, proc, netns, startupDone, caller, stop>>

\* As a bug: waitForExit hears of the cancellation only when the process exits.
WatchCancelledUnheard ==
    /\ pc = "watch" /\ cancelled /\ ~proc
    /\ pc' = "stopping"
    /\ UNCHANGED <<firstStart, attempt, ages, delay, uptime, status, cancelled,
                   held, proc, netns, startupDone, caller, stop>>

\* waitForExit
WatchCancelled ==
    /\ pc = "watch" /\ cancelled
    /\ pc' = "stopping"
    /\ UNCHANGED <<firstStart, attempt, ages, delay, uptime, status, cancelled,
                   held, proc, netns, startupDone, caller, stop>>

\* As a bug: the tick takes a running process for one that has exited.
WatchTickBlind ==
    /\ pc = "watch"
    /\ uptime' = Least(uptime + HealthCheckInterval, MinUptime)
    /\ ages' = Aged(HealthCheckInterval)
    /\ attempt' = IF uptime' < MinUptime THEN attempt ELSE 0
    /\ pc' = "top"
    /\ UNCHANGED <<firstStart, delay, status, cancelled, held, proc, netns,
                   startupDone, caller, stop>>

\* Five seconds later: nothing, or the process has exited; then the backoff
\* starts anew if tailscaled had been up for long enough.
WatchTick ==
    /\ pc = "watch"
    /\ uptime' = Least(uptime + HealthCheckInterval, MinUptime)
    /\ ages' = Aged(HealthCheckInterval)
    /\ IF proc
       THEN UNCHANGED <<pc, attempt>>
       ELSE /\ pc' = "top"
            /\ attempt' = IF uptime' < MinUptime THEN attempt ELSE 0
    /\ UNCHANGED <<firstStart, delay, status, cancelled, held, proc, netns,
                   startupDone, caller, stop>>

\* stopDaemon, and the end of the loop.
StopDaemon ==
    /\ pc = "stopping"
    /\ proc' = IF held THEN FALSE ELSE proc
    /\ held' = FALSE
    /\ pc' = "exited"
    /\ UNCHANGED <<firstStart, attempt, ages, delay, uptime, status, cancelled,
                   netns, startupDone, caller, stop>>

-----------------------------------------------------------------------------
(* The process and its container *)

ProcessDies ==
    /\ proc
    /\ proc' = FALSE
    /\ UNCHANGED <<loopVars, status, cancelled, held, netns, startupDone, caller,
                   stop>>

NetnsGone ==
    /\ netns
    /\ netns' = FALSE
    /\ UNCHANGED <<loopVars, status, cancelled, held, proc, startupDone, caller,
                   stop>>

-----------------------------------------------------------------------------
(* Specification *)

Top == TopCancelled \/ TopNetnsGone \/ TopFirst \/ TopRetry

Next ==
    \/ Start \/ StartReturns \/ StartTimesOut \/ Stop \/ StopReturns
    \/ JitterEnds \/ Top \/ BackoffCancelled \/ BackoffEnds
    \/ Launch \/ StartSucceeds \/ StartFails
    \/ WatchCancelled \/ WatchTick \/ StopDaemon
    \/ ProcessDies \/ NetnsGone

Spec == Init /\ [][Next]_vars

\* The loop runs on, its timers fire, and Daemon.Start and Stop return: every
\* wait in them has a timeout.
Fairness ==
    /\ WF_vars(StartReturns) /\ WF_vars(StopReturns)
    /\ WF_vars(JitterEnds) /\ WF_vars(Top)
    /\ WF_vars(BackoffCancelled) /\ WF_vars(BackoffEnds)
    /\ WF_vars(Launch) /\ WF_vars(StartSucceeds \/ StartFails)
    /\ WF_vars(WatchCancelled) /\ WF_vars(WatchTick) /\ WF_vars(StopDaemon)

FairSpec == Spec /\ Fairness

-----------------------------------------------------------------------------
(* Properties *)

\* A second tailscaled on the same state directory and socket would fight the
\* first: the loop launches one only when the last one is gone, however its
\* death, a failed start and a restart follow each other (supervisor.go:256-273,
\* daemon.go:266-285).
OneTailscaled == [][Launch => ~proc]_vars

\* No tailscaled outlives its loop, whichever of the loop's five ways out is
\* taken and whatever step of it the cancellation meets (supervisor.go:183-225,
\* 311-320).
NoOrphan == pc = "exited" => ~proc

\* The loop never goes on with five crashes in the last thirty seconds,
\* whether they were exits or failed starts (supervisor.go:201-215).
CrashBudget ==
    pc \in Trying => ~IsCrashLoop(ages)

\* The loop ends only because somebody cancelled it, its container is gone or
\* five crashes fell in the window, and its status says which: an attempt that
\* fails, the first included, never ends it (supervisor.go:191-215, 232-241).
EndsForAReason ==
    pc = "exited" =>
       \/ cancelled
       \/ status = "failed" /\ ~netns
       \/ status = "crash_loop" /\ IsCrashLoop(ages)

\* The induction behind the four above: whom a running tailscaled belongs to,
\* what a loop on its way out has seen, and that the first start finds no crash
\* recorded (supervisor.go:174-306).
LoopState ==
    /\ proc => pc \in {"starting", "watch", "stopping"}
    /\ proc /\ pc \in {"watch", "stopping"} => held
    /\ firstStart \/ pc \in Trying => ~IsCrashLoop(ages)
    /\ pc = "stopping" => \/ cancelled
                          \/ status = "crash_loop" /\ IsCrashLoop(ages)
    /\ EndsForAReason
    /\ pc = "stopping" /\ ~cancelled => ~proc
    /\ caller = "idle" <=> pc = "none"
    /\ stop # "none" => cancelled /\ caller = "ok"
    /\ cancelled => stop # "none" \/ caller = "timeout"

LoopInv == TypeOK /\ LoopState

\* Whatever keeps tailscaled from starting goes away in the end: an attempt
\* that is repeated for ever succeeds sometime.
RetriesSucceed == SF_vars(StartSucceeds)

\* A dead tailscaled is replaced, or the supervisor has given up for a reason or
\* been told to stop, or the container is gone: it is never left unnoticed
\* (supervisor.go:183-274).
Recovers ==
    RetriesSucceed =>
       ((pc = "watch" /\ ~proc) ~>
           \/ pc = "watch" /\ proc
           \/ status = "crash_loop" \/ cancelled \/ ~netns)

\* What the caller of Start and of Stop can know: until Start has returned, that
\* the loop has begun.
KnownSup == IF caller = "idle" THEN "none"
            ELSE IF caller = "waiting" THEN "live"
            ELSE IF pc = "exited" THEN "exited"
            ELSE IF cancelled THEN "cancelled" ELSE "live"
KnownResult == IF caller \in {"idle", "waiting"} THEN "pending"
               ELSE IF caller = "ok" THEN "ok" ELSE "failed"

Contract == INSTANCE SupervisorContract
               WITH sup <- KnownSup, result <- KnownResult, running <- proc

\* The supervisor implements its contract: Start returns, Stop's cancellation
\* ends the loop, and the loop never ends from under a tailscaled
\* (supervisor.go:84-136, 175-335).
ImplementsContract == Contract!FairSpec

=============================================================================
