---------------------------- MODULE BinaryCache ----------------------------
(* EnsureBinaries (pkg/tailscale/binary.go): the goroutines that start       *)
(* Tailscale get a directory with the binaries of TS_VERSION.  binaryMu lets *)
(* one of them at a time look, download and extract; what it finds and       *)
(* leaves on disk outlives the process, what it caches does not.  TS_PATH,   *)
(* which bypasses all of this, is not modelled.                              *)
EXTENDS Naturals

CONSTANTS
    Callers,     \* goroutines of StartTailscale
    Versions,    \* of Tailscale
    None,        \* no caller, no version
    MaxFaults,   \* bound on failures of the network, the archive and the disk
    MaxCrashes   \* bound on restarts of the plugin

ASSUME BoundsAssumption == MaxFaults \in Nat /\ MaxCrashes \in Nat
ASSUME NoneAssumption == None \notin Callers \cup Versions
ASSUME LatestAssumption == "latest" \notin Versions

VARIABLES
    upstream,  \* the version the release API names
    wanted,    \* TS_VERSION of the running process
    disk,      \* binCacheDir: the state of each version's two files
    session,   \* cachedVersion and, always for the same version, cachedBinDir
    lock,      \* who holds binaryMu
    pc,        \* what the holder is about to do
    version,   \* its version
    left,      \* the binaries it has not seen in the archive yet
    caller,    \* how far each caller is
    using,     \* the version whose directory a caller was given and runs from
    faults, crashes

diskVars == <<upstream, wanted, disk>>
workVars == <<lock, pc, version, left>>
callVars == <<caller, using>>
bounds   == <<faults, crashes>>
vars == <<diskVars, session, workVars, callVars, bounds>>

Bins == {"tailscale", "tailscaled"}
FileStates == {"absent", "truncated", "whole"}
PCs == {"off", "fetch", "look", "download", "extract", "copy", "clean"}

TypeOK ==
    /\ upstream \in Versions
    /\ wanted \in Versions \cup {"latest"}
    /\ disk \in [Versions -> [Bins -> FileStates]]
    /\ session \in Versions \cup {None}
    /\ lock \in Callers \cup {None}
    /\ pc \in PCs
    /\ version \in Versions \cup {None}
    /\ left \in SUBSET Bins
    /\ caller \in [Callers -> {"idle", "waiting", "running"}]
    /\ using \in [Callers -> Versions \cup {None}]
    /\ faults \in 0..MaxFaults /\ crashes \in 0..MaxCrashes
    /\ lock = None <=> pc = "off"
    /\ version = None <=> pc \in {"off", "fetch"}

\* Nothing downloaded, nothing cached, nobody at work.
Init ==
    /\ session = None
    /\ lock = None /\ pc = "off" /\ version = None /\ left = {}
    /\ caller = [c \in Callers |-> "idle"]
    /\ using = [c \in Callers |-> None]
    /\ upstream \in Versions
    /\ wanted \in Versions \cup {"latest"}
    /\ disk = [v \in Versions |-> [b \in Bins |-> "absent"]]
    /\ faults = 0 /\ crashes = 0

-----------------------------------------------------------------------------
(* Helpers *)

\* fileExists: a truncated file is as good as a whole one.
Exists(v, b) == disk[v][b] # "absent"

Fault == faults < MaxFaults /\ faults' = faults + 1

\* The deferred Unlock.
Unlock == lock' = None /\ pc' = "off" /\ version' = None /\ left' = {}

\* EnsureBinaries returns the directory of v, or an error.
Return(v) ==
    /\ Unlock
    /\ caller' = [caller EXCEPT ![lock] = "running"]
    /\ using' = [using EXCEPT ![lock] = v]

Fail ==
    /\ Unlock
    /\ caller' = [caller EXCEPT ![lock] = "idle"]
    /\ UNCHANGED using

\* The download is done or was not needed: the session remembers it.
Finish == Return(version) /\ session' = version

-----------------------------------------------------------------------------
(* Callers *)

\* A StartTailscale comes to EnsureBinaries.
Call(c) ==
    /\ caller[c] = "idle"
    /\ caller' = [caller EXCEPT ![c] = "waiting"]
    /\ UNCHANGED <<diskVars, session, workVars, using, bounds>>

\* The endpoint that ran from the directory is stopped.
Leaves(c) ==
    /\ caller[c] = "running"
    /\ caller' = [caller EXCEPT ![c] = "idle"]
    /\ using' = [using EXCEPT ![c] = None]
    /\ UNCHANGED <<diskVars, session, workVars, bounds>>

\* As a bug: "latest" is resolved anew for every caller.
EnterResolves(c) ==
    /\ caller[c] = "waiting" /\ lock = None
    /\ lock' = c
    /\ IF wanted = "latest"
       THEN pc' = "fetch" /\ UNCHANGED version
       ELSE pc' = "look" /\ version' = wanted
    /\ UNCHANGED <<diskVars, session, left, callVars, bounds>>

\* A caller gets binaryMu.  "latest" may be known in this session.
Enter(c) ==
    /\ caller[c] = "waiting" /\ lock = None
    /\ IF wanted = "latest" /\ session # None /\ Exists(session, "tailscale")
       THEN /\ caller' = [caller EXCEPT ![c] = "running"]
            /\ using' = [using EXCEPT ![c] = session]
            /\ UNCHANGED workVars
       ELSE /\ lock' = c
            /\ IF wanted = "latest"
               THEN pc' = "fetch" /\ UNCHANGED version
               ELSE pc' = "look" /\ version' = wanted
            /\ UNCHANGED <<left, callVars>>
    /\ UNCHANGED <<diskVars, session, bounds>>

-----------------------------------------------------------------------------
(* The holder of the lock *)

\* As a bug: an error returns without the Unlock.
FetchKeepsLock ==
    /\ pc = "fetch"
    /\ \/ /\ version' = upstream /\ pc' = "look"
          /\ UNCHANGED <<lock, left, callVars, faults>>
       \/ /\ Fault
          /\ caller' = [caller EXCEPT ![lock] = "idle"]
          /\ pc' = "off"
          /\ UNCHANGED <<lock, version, left, using>>
    /\ UNCHANGED <<diskVars, session, crashes>>

\* FetchLatestVersion
Fetch ==
    /\ pc = "fetch"
    /\ \/ /\ version' = upstream /\ pc' = "look"
          /\ UNCHANGED <<lock, left, callVars, faults>>
       \/ Fault /\ Fail
    /\ UNCHANGED <<diskVars, session, crashes>>

\* As a bug: what is on disk is downloaded again.
LookAway ==
    /\ pc = "look"
    /\ pc' = "download"
    /\ UNCHANGED <<diskVars, session, lock, version, left, callVars, bounds>>

\* As a bug: one file is taken for both.
LookOnce ==
    /\ pc = "look"
    /\ IF Exists(version, "tailscale")
       THEN Finish
       ELSE pc' = "download" /\ UNCHANGED <<session, lock, version, left, callVars>>
    /\ UNCHANGED <<diskVars, bounds>>

\* DownloadTailscale: both files are there already, or they have to be fetched.
Look ==
    /\ pc = "look"
    /\ IF \A b \in Bins : Exists(version, b)
       THEN Finish
       ELSE pc' = "download" /\ UNCHANGED <<session, lock, version, left, callVars>>
    /\ UNCHANGED <<diskVars, bounds>>

\* The archive begins to arrive, or the request fails.
Download ==
    /\ pc = "download"
    /\ \/ /\ pc' = "extract" /\ left' = Bins
          /\ UNCHANGED <<lock, version, callVars, faults>>
       \/ Fault /\ Fail
    /\ UNCHANGED <<diskVars, session, crashes>>

\* The next binary in the archive: its file is opened and truncated ...
Open(b) ==
    /\ pc = "extract" /\ b \in left
    /\ disk' = [disk EXCEPT ![version][b] = "truncated"]
    /\ left' = left \ {b}
    /\ pc' = "copy"
    /\ UNCHANGED <<upstream, wanted, session, lock, version, callVars, bounds>>

\* ... and written, as far as the connection and the disk allow.
Copy ==
    /\ pc = "copy"
    /\ \/ /\ disk' = [disk EXCEPT ![version] =
                 [b \in Bins |-> IF @[b] = "truncated" /\ b \notin left
                                 THEN "whole" ELSE @[b]]]
          /\ pc' = "extract"
          /\ UNCHANGED faults
       \/ Fault /\ pc' = "clean" /\ UNCHANGED disk
    /\ UNCHANGED <<upstream, wanted, session, lock, version, left, callVars, crashes>>

\* The end of the archive: both binaries were in it, or it is an error.
ArchiveEnds ==
    /\ pc = "extract"
    /\ \/ left = {} /\ Finish /\ UNCHANGED faults
       \/ Fault /\ pc' = "clean" /\ UNCHANGED <<session, lock, version, left, callVars>>
    /\ UNCHANGED <<diskVars, crashes>>

\* As a bug: what a failed extraction has written stays.
CleanForgets ==
    /\ pc = "clean"
    /\ Fail
    /\ UNCHANGED <<diskVars, session, bounds>>

\* os.RemoveAll(destDir)
Clean ==
    /\ pc = "clean"
    /\ disk' = [disk EXCEPT ![version] = [b \in Bins |-> "absent"]]
    /\ Fail
    /\ UNCHANGED <<upstream, wanted, session, bounds>>

Work == \/ Fetch \/ Look \/ Download \/ (\E b \in Bins : Open(b))
        \/ Copy \/ ArchiveEnds \/ Clean

-----------------------------------------------------------------------------
(* The world *)

\* A version is released.
Release ==
    /\ \E v \in Versions \ {upstream} : upstream' = v
    /\ UNCHANGED <<wanted, disk, session, workVars, callVars, bounds>>

\* The plugin dies, or is disabled, and begins again, perhaps with another
\* TS_VERSION; what it ran and what it had in memory is gone.
Restart ==
    /\ crashes < MaxCrashes /\ crashes' = crashes + 1
    /\ session' = None
    /\ lock' = None /\ pc' = "off" /\ version' = None /\ left' = {}
    /\ caller' = [c \in Callers |-> "idle"]
    /\ using' = [c \in Callers |-> None]
    /\ wanted' \in Versions \cup {"latest"}
    /\ UNCHANGED <<upstream, disk, faults>>

Next == \/ \E c \in Callers : Call(c) \/ Leaves(c) \/ Enter(c)
        \/ Work \/ Release \/ Restart

Spec == Init /\ [][Next]_vars

\* The holder of the lock goes on (requests are answered, though http.Get sets
\* no limit to how late), and a Go mutex passes nobody over for ever.
FairSpec == Spec /\ WF_vars(Work) /\ \A c \in Callers : SF_vars(Enter(c))

-----------------------------------------------------------------------------
(* Properties *)

\* What a caller was given stays as it is while it runs from there: nobody
\* truncates or removes the files again, whatever else is downloaded or fails
\* (binary.go:88-94, 118-129, 166-176).
NeverRewritten ==
    [][\A c \in Callers : using[c] # None /\ using'[c] = using[c]
          => disk'[using[c]] = disk[using[c]]]_vars

\* No caller is given a directory without both files, also when the process
\* before was cut off between them; and while none was cut off they are complete:
\* a failed extraction leaves nothing behind (binary.go:88-94, 118-129, 216-224).
GivenComplete ==
    \A c \in Callers : using[c] # None =>
       \A b \in Bins : /\ Exists(using[c], b)
                       /\ crashes = 0 => disk[using[c]][b] = "whole"

\* All containers of one life of the plugin run one version, although the newest
\* release may change in between (specs/01:75, binary.go:214-241).
OneVersion ==
    \A c, d \in Callers : using[c] # None /\ using[d] # None => using[c] = using[d]

\* The induction behind the three above: once a version is settled on, its files
\* are there, everybody gets it, and nobody downloads any more; a file is half
\* written only while it is being written (binary.go:194-245).
CacheInv ==
    /\ TypeOK
    /\ \A c \in Callers : using[c] \in {None, session}
    /\ session # None => /\ \A b \in Bins : Exists(session, b)
                         /\ pc \in {"off", "look"}
                         /\ wanted \in {"latest", session}
                         /\ wanted = "latest" => pc = "off"
    /\ pc = "fetch" => wanted = "latest"
    /\ version # None /\ wanted # "latest" => version = wanted
    /\ pc \in {"extract", "copy"} => \A b \in Bins \ left : Exists(version, b)
    /\ crashes = 0 =>
          \A v \in Versions, b \in Bins : disk[v][b] = "truncated"
             => v = version /\ b \notin left /\ pc \in {"copy", "clean"}
    /\ session # None /\ crashes = 0 => \A b \in Bins : disk[session][b] = "whole"

\* Whoever asks for the binaries gets them or an error, also after the errors of
\* others (binary.go:195-196: one lock over every download).
Answered == \A c \in Callers : caller[c] = "waiting" ~> caller[c] # "waiting"

\* "Check if already downloaded" (binary.go:88): what is taken for downloaded is
\* complete.
DownloadedIsWhole ==
    \A c \in Callers : using[c] # None => \A b \in Bins : disk[using[c]][b] = "whole"

=============================================================================
