--------------------------- MODULE StateDirProofs ---------------------------
(* Theorems about StateDir for supervisors that use a directory one after    *)
(* the other, as many as there are; those that overlap remove each other's   *)
(* socket.                                                                   *)
EXTENDS StateDir, TLAPS

USE NoneAssumption, TornAssumption, BoundsAssumption

\* Nothing on disk, nobody at work.
LEMMA DirInit == Init => DirInv
<1> SUFFICES ASSUME Init PROVE DirInv
  OBVIOUS
<1>1. TypeOK
  BY DEF Init, TypeOK, Loops, Starters
<1> QED
  BY <1>1 DEF Init, DirInv, InStep, Busy

\* Whoever is not at work has no process and nobody is behind its socket.
LEMMA Idle ==
    ASSUME DirInv, NEW u \in Users, Busy(u)
    PROVE  /\ InStep(u)
           /\ \A v \in Users : v # u =>
                 ~Busy(v) /\ proc[v] = "none" /\ node[v] = None /\ ~up[v]
           /\ Reachable => sock = u
  BY DEF DirInv, TypeOK, InStep, Reachable, Busy

\* So a step has to keep only what is said of the user that makes it.
LEMMA OneMoves ==
    ASSUME DirInv, NEW u \in Users,
           \A v \in Users : v # u => ~Busy(v),
           \A v \in Users : v # u =>
              /\ loop'[v] = loop[v] /\ starter'[v] = starter[v] /\ proc'[v] = proc[v]
              /\ node'[v] = node[v] /\ up'[v] = up[v],
           TypeOK', state' # None => nodeKey'[state'] # None, InStep(u)'
    PROVE  DirInv'
<1>1. \A v \in Users : v # u => InStep(v)' /\ ~Busy(v)'
  BY DEF DirInv, TypeOK, InStep, Busy
<1> QED
  BY <1>1 DEF DirInv

-----------------------------------------------------------------------------
(* One lemma per action *)

\* A start that gives up only cancels.
LEMMA StartGivesUpKeeps ==
    ASSUME DirInv, NEW u \in Users, StartGivesUp(u)
    PROVE  DirInv'
<1> USE DEF StartGivesUp, Fault, control, files, begun, daemon, bounds
<1>1. TypeOK'
  BY DEF DirInv, TypeOK, Loops, Starters
<1>2. /\ InStep(u) /\ (Reachable => sock = u)
      /\ \A v \in Users : v # u => ~Busy(v) /\ proc[v] = "none"
  BY Idle DEF DirInv, InStep, Busy
<1>3. state' # None => nodeKey'[state'] # None
  BY DEF DirInv
<1>4. InStep(u)'
  BY <1>2 DEF DirInv, TypeOK, InStep, Reachable, Busy
<1> QED
  BY <1>1, <1>2, <1>3, <1>4, OneMoves DEF DirInv, TypeOK

\* WaitForIP only looks.
LEMMA WaitForIPKeeps ==
    ASSUME DirInv, NEW u \in Users, WaitForIP(u)
    PROVE  DirInv'
<1> USE DEF WaitForIP, control, files, begun, daemon, bounds
<1>1. TypeOK'
  BY DEF DirInv, TypeOK, Loops, Starters
<1>2. /\ InStep(u) /\ (Reachable => sock = u)
      /\ \A v \in Users : v # u => ~Busy(v) /\ proc[v] = "none"
  BY Idle DEF DirInv, InStep, Busy
<1>3. state' # None => nodeKey'[state'] # None
  BY DEF DirInv
<1>4. InStep(u)'
  BY <1>2 DEF DirInv, TypeOK, InStep, Reachable, Busy
<1> QED
  BY <1>1, <1>2, <1>3, <1>4, OneMoves DEF DirInv, TypeOK

\* A truncated file is no key's hash.
LEMMA TruncateHashKeeps ==
    ASSUME DirInv, NEW u \in Users, TruncateHash(u)
    PROVE  DirInv'
<1> USE DEF TruncateHash, Fault, control, files, begun, daemon, bounds
<1>1. TypeOK'
  BY DEF DirInv, TypeOK, Loops, Starters
<1>2. /\ InStep(u) /\ (Reachable => sock = u)
      /\ \A v \in Users : v # u => ~Busy(v) /\ proc[v] = "none"
  BY Idle DEF DirInv, InStep, Busy
<1>3. state' # None => nodeKey'[state'] # None
  BY DEF DirInv
<1>4. InStep(u)'
  BY <1>2 DEF DirInv, TypeOK, InStep, Reachable, Busy
<1> QED
  BY <1>1, <1>2, <1>3, <1>4, OneMoves DEF DirInv, TypeOK

\* The hash written is that of the user's own key.
LEMMA WriteHashKeeps ==
    ASSUME DirInv, NEW u \in Users, WriteHash(u)
    PROVE  DirInv'
<1> USE DEF WriteHash, Fault, control, files, begun, daemon, bounds
<1>1. TypeOK'
  BY DEF DirInv, TypeOK, Loops, Starters
<1>2. /\ InStep(u) /\ (Reachable => sock = u)
      /\ \A v \in Users : v # u => ~Busy(v) /\ proc[v] = "none"
  BY Idle DEF DirInv, InStep, Busy
<1>3. state' # None => nodeKey'[state'] # None
  BY DEF DirInv
<1>4. InStep(u)'
  BY <1>2 DEF DirInv, TypeOK, InStep, Reachable, Busy
<1> QED
  BY <1>1, <1>2, <1>3, <1>4, OneMoves DEF DirInv, TypeOK

\* Leave only cancels.
LEMMA LeaveKeeps ==
    ASSUME DirInv, NEW u \in Users, Leave(u)
    PROVE  DirInv'
<1> USE DEF Leave, control, files, begun, daemon, bounds
<1>1. TypeOK'
  BY DEF DirInv, TypeOK
<1> QED
  BY <1>1 DEF DirInv, InStep, Busy

\* A loop that ends has no process left.
LEMMA EndsKeeps ==
    ASSUME DirInv, NEW u \in Users, Ends(u)
    PROVE  DirInv'
<1> USE DEF Ends, Goto, Signal, TurnedDown, Reachable, control, files, begun, daemon, bounds
<1>1. TypeOK'
  BY DEF DirInv, TypeOK, Loops, Starters
<1>2. /\ InStep(u) /\ (Reachable => sock = u)
      /\ \A v \in Users : v # u => ~Busy(v) /\ proc[v] = "none"
  BY Idle DEF DirInv, InStep, Busy
<1>3. state' # None => nodeKey'[state'] # None
  BY DEF DirInv
<1>4. InStep(u)'
  BY <1>2 DEF DirInv, TypeOK, InStep, Reachable, Busy
<1> QED
  BY <1>1, <1>2, <1>3, <1>4, OneMoves DEF DirInv, TypeOK

\* Looking changes nothing else.
LEMMA TopKeeps ==
    ASSUME DirInv, NEW u \in Users, Top(u)
    PROVE  DirInv'
<1> USE DEF Top, Goto, control, files, begun, daemon, bounds
<1>1. TypeOK'
  BY DEF DirInv, TypeOK, Loops, Starters
<1>2. /\ InStep(u) /\ (Reachable => sock = u)
      /\ \A v \in Users : v # u => ~Busy(v) /\ proc[v] = "none"
  BY Idle DEF DirInv, InStep, Busy
<1>3. state' # None => nodeKey'[state'] # None
  BY DEF DirInv
<1>4. InStep(u)'
  BY <1>2 DEF DirInv, TypeOK, InStep, Reachable, Busy
<1> QED
  BY <1>1, <1>2, <1>3, <1>4, OneMoves DEF DirInv, TypeOK

\* The types of what a start begins with.
LEMMA BeginTyped ==
    ASSUME TypeOK, NEW u \in Users, Begin(u)
    PROVE  TypeOK'
<1>1. state' \in {state, None} /\ hash' \in {hash, None} /\ sock' \in {sock, None}
  BY DEF Begin, WipeState, files
<1>2. faults' \in 0..MaxFaults /\ crashes' = crashes
  BY DEF Begin, Fault, TypeOK
<1>3. key' \in [Users -> Keys \cup {None}] /\ unread' \in [Users -> BOOLEAN]
  <2>1. PICK k \in Keys : key' = [key EXCEPT ![u] = k]
    BY DEF Begin
  <2>2. PICK b \in BOOLEAN : unread' = [unread EXCEPT ![u] = b]
    BY DEF Begin
  <2> QED
    BY <2>1, <2>2 DEF TypeOK
<1>4. /\ cancelled' \in [Users -> BOOLEAN] /\ starter' \in [Users -> Starters]
      /\ loop' \in [Users -> Loops]
  BY DEF Begin, Goto, TypeOK, Starters, Loops
<1> QED
  BY <1>1, <1>2, <1>3, <1>4 DEF Begin, TypeOK, control, daemon

\* A directory whose hash is of another key is wiped, if the hash can be read; so
\* the hash, if any, is true of the new user too.
LEMMA BeginKeeps ==
    ASSUME DirInv, NEW u \in Users, BeginAlone(u)
    PROVE  DirInv'
<1>1. TypeOK' /\ Begin(u)
  BY BeginTyped DEF BeginAlone, DirInv
<1> USE DEF BeginAlone, Begin, Matches, Goto, WipeState, control, files, daemon
<1>2. \A v \in Users : ~Busy(v) /\ InStep(v)
  BY DEF DirInv
<1>3. state' # None => nodeKey'[state'] # None
  BY DEF DirInv
<1>4. InStep(u)'
  BY <1>2 DEF DirInv, TypeOK, InStep, Reachable, Busy
<1> QED
  BY <1>1, <1>2, <1>3, <1>4, OneMoves DEF DirInv, TypeOK

\* The old socket goes before the new process comes.
LEMMA LaunchKeeps ==
    ASSUME DirInv, NEW u \in Users, Launch(u)
    PROVE  DirInv'
<1> USE DEF Launch, Goto, Signal, Fault, control, files, begun, daemon, bounds
<1>1. TypeOK'
  BY DEF DirInv, TypeOK, Loops, Starters
<1>2. /\ InStep(u) /\ (Reachable => sock = u)
      /\ \A v \in Users : v # u => ~Busy(v) /\ proc[v] = "none"
  BY Idle DEF DirInv, InStep, Busy
<1>3. state' # None => nodeKey'[state'] # None
  BY DEF DirInv
<1>4. InStep(u)'
  BY <1>2 DEF DirInv, TypeOK, InStep, Reachable, Busy
<1> QED
  BY <1>1, <1>2, <1>3, <1>4, OneMoves DEF DirInv, TypeOK

\* The socket that is there is the user's own: it has one only once it listens.
LEMMA SocketThereKeeps ==
    ASSUME DirInv, NEW u \in Users, SocketThere(u)
    PROVE  DirInv'
<1> USE DEF SocketThere, Goto, control, files, begun, daemon, bounds
<1>1. TypeOK'
  BY DEF DirInv, TypeOK, Loops, Starters
<1>2. /\ InStep(u) /\ (Reachable => sock = u)
      /\ \A v \in Users : v # u => ~Busy(v) /\ proc[v] = "none"
  BY Idle DEF DirInv, InStep, Busy
<1>3. state' # None => nodeKey'[state'] # None
  BY DEF DirInv
<1>4. InStep(u)'
  BY <1>2 DEF DirInv, TypeOK, InStep, Reachable, Busy
<1> QED
  BY <1>1, <1>2, <1>3, <1>4, OneMoves DEF DirInv, TypeOK

\* Giving up on the socket leads to Stop.
LEMMA SocketTimesOutKeeps ==
    ASSUME DirInv, NEW u \in Users, SocketTimesOut(u)
    PROVE  DirInv'
<1> USE DEF SocketTimesOut, Goto, Fault, control, files, begun, daemon, bounds
<1>1. TypeOK'
  BY DEF DirInv, TypeOK, Loops, Starters
<1>2. /\ InStep(u) /\ (Reachable => sock = u)
      /\ \A v \in Users : v # u => ~Busy(v) /\ proc[v] = "none"
  BY Idle DEF DirInv, InStep, Busy
<1>3. state' # None => nodeKey'[state'] # None
  BY DEF DirInv
<1>4. InStep(u)'
  BY <1>2 DEF DirInv, TypeOK, InStep, Reachable, Busy
<1> QED
  BY <1>1, <1>2, <1>3, <1>4, OneMoves DEF DirInv, TypeOK

\* Nothing is left on disk to contradict anything.
LEMMA WipeKeeps ==
    ASSUME DirInv, NEW u \in Users, Wipe(u)
    PROVE  DirInv'
<1> USE DEF Wipe, Goto, WipeState, control, files, begun, daemon, bounds
<1>1. TypeOK'
  BY DEF DirInv, TypeOK, Loops, Starters
<1>2. /\ InStep(u) /\ (Reachable => sock = u)
      /\ \A v \in Users : v # u => ~Busy(v) /\ proc[v] = "none"
  BY Idle DEF DirInv, InStep, Busy
<1>3. state' # None => nodeKey'[state'] # None
  BY DEF DirInv
<1>4. InStep(u)'
  BY <1>2 DEF DirInv, TypeOK, InStep, Reachable, Busy
<1> QED
  BY <1>1, <1>2, <1>3, <1>4, OneMoves DEF DirInv, TypeOK

\* A served tailscaled is one that was brought up.
LEMMA ServeKeeps ==
    ASSUME DirInv, NEW u \in Users, Serve(u)
    PROVE  DirInv'
<1> USE DEF Serve, Goto, Signal, Fault, Reachable, control, files, begun, daemon, bounds
<1>1. TypeOK'
  BY DEF DirInv, TypeOK, Loops, Starters
<1>2. /\ InStep(u) /\ (Reachable => sock = u)
      /\ \A v \in Users : v # u => ~Busy(v) /\ proc[v] = "none"
  BY Idle DEF DirInv, InStep, Busy
<1>3. state' # None => nodeKey'[state'] # None
  BY DEF DirInv
<1>4. InStep(u)'
  BY <1>2 DEF DirInv, TypeOK, InStep, Reachable, Busy
<1> QED
  BY <1>1, <1>2, <1>3, <1>4, OneMoves DEF DirInv, TypeOK

\* Watching ends with a process that is gone, or is to be killed.
LEMMA WatchKeeps ==
    ASSUME DirInv, NEW u \in Users, Watch(u)
    PROVE  DirInv'
<1> USE DEF Watch, Goto, control, files, begun, daemon, bounds
<1>1. TypeOK'
  BY DEF DirInv, TypeOK, Loops, Starters
<1>2. /\ InStep(u) /\ (Reachable => sock = u)
      /\ \A v \in Users : v # u => ~Busy(v) /\ proc[v] = "none"
  BY Idle DEF DirInv, InStep, Busy
<1>3. state' # None => nodeKey'[state'] # None
  BY DEF DirInv
<1>4. InStep(u)'
  BY <1>2 DEF DirInv, TypeOK, InStep, Reachable, Busy
<1> QED
  BY <1>1, <1>2, <1>3, <1>4, OneMoves DEF DirInv, TypeOK

\* A killed process holds no identity.
LEMMA KillKeeps ==
    ASSUME DirInv, NEW u \in Users, Kill(u)
    PROVE  DirInv'
<1> USE DEF Kill, Goto, control, files, begun, daemon, bounds
<1>1. TypeOK'
  BY DEF DirInv, TypeOK, Loops, Starters
<1>2. /\ InStep(u) /\ (Reachable => sock = u)
      /\ \A v \in Users : v # u => ~Busy(v) /\ proc[v] = "none"
  BY Idle DEF DirInv, InStep, Busy
<1>3. state' # None => nodeKey'[state'] # None
  BY DEF DirInv
<1>4. InStep(u)'
  BY <1>2 DEF DirInv, TypeOK, InStep, Reachable, Busy
<1> QED
  BY <1>1, <1>2, <1>3, <1>4, OneMoves DEF DirInv, TypeOK

\* Nobody is behind the socket of a killed process.
LEMMA DownKeeps ==
    ASSUME DirInv, NEW u \in Users, Down(u)
    PROVE  DirInv'
<1> USE DEF Down, Goto, Signal, TurnedDown, Reachable, control, files, begun, daemon, bounds
<1>1. TypeOK'
  BY DEF DirInv, TypeOK, Loops, Starters
<1>2. /\ InStep(u) /\ (Reachable => sock = u)
      /\ \A v \in Users : v # u => ~Busy(v) /\ proc[v] = "none"
  BY Idle DEF DirInv, InStep, Busy
<1>3. state' # None => nodeKey'[state'] # None
  BY DEF DirInv
<1>4. InStep(u)'
  BY <1>2 DEF DirInv, TypeOK, InStep, Reachable, Busy
<1> QED
  BY <1>1, <1>2, <1>3, <1>4, OneMoves DEF DirInv, TypeOK

\* A tailscaled that begins to listen has read what lies on disk.
LEMMA ListenKeeps ==
    ASSUME DirInv, NEW u \in Users, Listen(u)
    PROVE  DirInv'
<1> USE DEF Listen, Reachable, control, files, begun, daemon, bounds
<1>1. TypeOK'
  BY DEF DirInv, TypeOK, Loops, Starters
<1>2. /\ InStep(u) /\ (Reachable => sock = u)
      /\ \A v \in Users : v # u => ~Busy(v) /\ proc[v] = "none"
  BY Idle DEF DirInv, InStep, Busy
<1>3. state' # None => nodeKey'[state'] # None
  BY DEF DirInv
<1>4. InStep(u)'
  BY <1>2 DEF DirInv, TypeOK, InStep, Reachable, Busy
<1> QED
  BY <1>1, <1>2, <1>3, <1>4, OneMoves DEF DirInv, TypeOK

\* A dead process holds no identity.
LEMMA DiesKeeps ==
    ASSUME DirInv, NEW u \in Users, Dies(u)
    PROVE  DirInv'
<1> USE DEF Dies, Fault, control, files, begun, daemon, bounds
<1>1. TypeOK'
  BY DEF DirInv, TypeOK, Loops, Starters
<1>2. /\ InStep(u) /\ (Reachable => sock = u)
      /\ \A v \in Users : v # u => ~Busy(v) /\ proc[v] = "none"
  BY Idle DEF DirInv, InStep, Busy
<1>3. state' # None => nodeKey'[state'] # None
  BY DEF DirInv
<1>4. InStep(u)'
  BY <1>2 DEF DirInv, TypeOK, InStep, Reachable, Busy
<1> QED
  BY <1>1, <1>2, <1>3, <1>4, OneMoves DEF DirInv, TypeOK

\* Only fewer nodes are accepted.
LEMMA ExpiresKeeps ==
    ASSUME DirInv, Expires
    PROVE  DirInv'
<1> USE DEF Expires, Fault, control, files, begun, daemon, bounds
<1>1. TypeOK'
  BY DEF DirInv, TypeOK, Loops, Starters
<1> QED
  BY <1>1 DEF DirInv, InStep, TypeOK, Busy

\* After a crash no loop, starter or process is left.
LEMMA CrashKeeps ==
    ASSUME DirInv, Crash
    PROVE  DirInv'
<1> USE DEF Crash, control, files, begun, daemon, bounds
<1>1. TypeOK'
  BY DEF DirInv, TypeOK, Loops, Starters
<1> QED
  BY <1>1 DEF DirInv, InStep, TypeOK, Busy

\* The first attempt: it connects with the identity on disk, or with a new one when
\* there is none there; a rejected identity is the one on disk.
LEMMA BringUpKeeps ==
    ASSUME DirInv, NEW u \in Users, BringUp(u)
    PROVE  DirInv'
<1> USE DEF Goto, control, files, begun, daemon, bounds
<1>1. /\ loop[u] = "up"
      /\ InStep(u) /\ (Reachable => sock = u)
      /\ \A v \in Users : v # u => ~Busy(v) /\ proc[v] = "none"
  BY Idle DEF BringUp, Busy
<1>2. CASE Reachable /\ UpSucceeds(u, sock) /\ Goto(u, "serve") /\ UNCHANGED faults
  <2>1. /\ sock = u /\ proc[u] = "listening" /\ node[u] = state
        /\ UpSucceeds(u, u)
    BY <1>1, <1>2 DEF Reachable, InStep
  <2>2. CASE node[u] \in valid /\ state' = node[u] /\ UNCHANGED <<control, node>>
    <3>1. TypeOK'
      BY <1>2, <2>1, <2>2 DEF DirInv, TypeOK, Loops, BringUp, UpSucceeds
    <3>2. state' # None => nodeKey'[state'] # None
      BY <1>1, <2>1, <2>2 DEF InStep
    <3>3. InStep(u)'
      BY <1>1, <1>2, <2>1, <2>2 DEF DirInv, TypeOK, InStep, BringUp, UpSucceeds, Busy
    <3> QED
      BY <1>1, <1>2, <2>1, <2>2, <3>1, <3>2, <3>3, OneMoves DEF DirInv, TypeOK, BringUp, UpSucceeds
  <2>3. CASE node[u] = None /\ node[u] \notin valid
    <3>1. PICK n \in Nodes :
             /\ FreshNode(n)
             /\ nodeKey' = [nodeKey EXCEPT ![n] = key[u]]
             /\ valid' = valid \cup {n}
             /\ node' = [node EXCEPT ![u] = n]
             /\ state' = n
      BY <2>1, <2>3 DEF UpSucceeds
    <3>2. TypeOK'
      BY <1>2, <2>1, <3>1 DEF DirInv, TypeOK, Loops, BringUp, UpSucceeds
    <3>3. /\ state = None
          /\ hash' = hash /\ nodeKey'[n] = key[u] /\ key[u] # None
      BY <1>1, <2>1, <2>3, <3>1 DEF DirInv, TypeOK, InStep, Busy, BringUp
    <3>4. InStep(u)'
      BY <1>1, <1>2, <2>1, <3>1, <3>3 DEF DirInv, TypeOK, InStep, BringUp, UpSucceeds, Busy
    <3> QED
      BY <1>1, <1>2, <2>1, <3>1, <3>2, <3>3, <3>4, OneMoves
      DEF DirInv, TypeOK, BringUp, UpSucceeds
  <2> QED
    BY <2>1, <2>2, <2>3 DEF UpSucceeds, DirInv, TypeOK
<1>3. CASE ~(Reachable /\ UpSucceeds(u, sock) /\ Goto(u, "serve") /\ UNCHANGED faults)
  <2>1. \/ /\ Reachable /\ Rejected(sock) /\ Goto(u, "wipe")
        \/ /\ (faults' = faults \/ Fault) /\ Goto(u, "stop")
    BY <1>3 DEF BringUp
  <2>2. UNCHANGED <<control, state, node, up>>
    BY <1>3 DEF BringUp
  <2>3. TypeOK'
    BY <2>1, <2>2 DEF DirInv, TypeOK, Loops, BringUp, Rejected, Fault
  <2>4. Reachable /\ Rejected(sock) => state \notin valid
    BY <1>1 DEF DirInv, TypeOK, InStep, Reachable, Rejected
  <2>5. InStep(u)'
    BY <1>1, <2>1, <2>2, <2>4 DEF DirInv, TypeOK, InStep, BringUp, Busy
  <2>6. state' # None => nodeKey'[state'] # None
    BY <2>2 DEF DirInv
  <2> QED
    BY <1>1, <2>1, <2>2, <2>3, <2>5, <2>6, OneMoves DEF DirInv, TypeOK, BringUp
<1> QED
  BY <1>2, <1>3

\* The second attempt meets no tailscaled: the wipe has removed its socket.
LEMMA BringUpAgainKeeps ==
    ASSUME DirInv, NEW u \in Users, BringUpAgain(u)
    PROVE  DirInv'
<1> USE DEF Goto, control, files, begun, daemon, bounds
<1>1. /\ loop[u] = "again" /\ ~Reachable
      /\ InStep(u)
      /\ \A v \in Users : v # u => ~Busy(v)
  BY Idle DEF BringUpAgain, InStep, Reachable, Busy
<1>2. /\ Goto(u, "stop")
      /\ UNCHANGED <<control, files, node, up, faults>>
      /\ UNCHANGED <<starter, cancelled, begun, proc, crashes>>
  BY <1>1 DEF BringUpAgain
<1>3. TypeOK'
  BY <1>2 DEF DirInv, TypeOK, Loops
<1>4. InStep(u)'
  BY <1>1, <1>2 DEF DirInv, TypeOK, InStep, Busy
<1> QED
  BY <1>1, <1>2, <1>3, <1>4, OneMoves DEF DirInv, TypeOK

\* Every step keeps DirInv.
LEMMA DirStep ==
    ASSUME DirInv, [SerialNext]_vars
    PROVE  DirInv'
<1>1. CASE UNCHANGED vars
  BY <1>1 DEF vars, control, files, begun, daemon, bounds, DirInv, TypeOK, InStep, Busy
<1>2. ASSUME NEW u \in Users,
             BeginAlone(u) \/ Start(u) \/ Leave(u) \/ Ends(u) \/ Listen(u) \/ Dies(u)
      PROVE  DirInv'
  BY <1>2, BeginKeeps, StartGivesUpKeeps, WaitForIPKeeps, TruncateHashKeeps, WriteHashKeeps,
     LeaveKeeps, EndsKeeps, ListenKeeps, DiesKeeps DEF Start, SaveAuthKeyHash
<1>3. ASSUME NEW u \in Users, Attempt(u)
      PROVE  DirInv'
  BY <1>3, TopKeeps, LaunchKeeps, SocketThereKeeps, SocketTimesOutKeeps, BringUpKeeps,
     WipeKeeps, BringUpAgainKeeps, ServeKeeps, WatchKeeps, KillKeeps, DownKeeps
  DEF Attempt
<1> QED
  BY <1>1, <1>2, <1>3, ExpiresKeeps, CrashKeeps DEF SerialNext, Goes

-----------------------------------------------------------------------------
(* Theorems *)

\* DirInv holds in every reachable state, however many crashes, failures and users
\* one after the other (endpoint.go:219-296, daemon.go:135-364).
THEOREM DirSafety == SerialSpec => []DirInv
<1>1. DirInv /\ [SerialNext]_vars => DirInv'
  BY DirStep
<1> QED
  BY DirInit, <1>1, PTL DEF SerialSpec

\* A supervisor waits for the socket of its own tailscaled (daemon.go:143-146).
THEOREM AlwaysOwnSocket == SerialSpec => []SocketIsOwn
<1>1. DirInv => SocketIsOwn
  BY DEF DirInv, TypeOK, InStep, SocketIsOwn
<1> QED
  BY DirSafety, <1>1, PTL

\* A started tailscaled runs on the identity that lies on disk (daemon.go:344-364).
THEOREM AlwaysOwnIdentity == SerialSpec => []RunsItsIdentity
<1>1. DirInv => RunsItsIdentity
  BY DEF DirInv, InStep, RunsItsIdentity
<1> QED
  BY DirSafety, <1>1, PTL

\* Who changes the state file: a start that finds the hash of another key, a wipe,
\* and a registration when there is none.
LEMMA StateChanges ==
    ASSUME DirInv, [SerialNext]_vars, state' # state
    PROVE  \E u \in Users :
              \/ Begin(u) /\ hash \notin {None, key'[u]}
              \/ Wipe(u)
              \/ BringUp(u) /\ state = None
<1> USE DEF control, files, begun, daemon, bounds
<1>1. PICK u \in Users : Begin(u) \/ Wipe(u) \/ BringUp(u) \/ BringUpAgain(u)
  BY DEF SerialNext, BeginAlone, Goes, Start, Attempt, vars, StartGivesUp, WaitForIP,
         SaveAuthKeyHash, TruncateHash, WriteHash, Leave, Ends, Top, Launch, SocketThere, SocketTimesOut, Serve,
         Watch, Kill, Down, Listen, Dies, Expires, Crash
<1>2. CASE Begin(u)
  BY <1>2 DEF Begin, Matches
<1>3. CASE BringUp(u)
  <2>1. loop[u] = "up"
    BY <1>3 DEF BringUp
  <2>2. Reachable /\ UpSucceeds(u, u) /\ sock = u
    BY <1>3, <2>1, Idle DEF BringUp, Busy
  <2>3. proc[u] = "listening" /\ node[u] = state
    BY <2>1, <2>2, Idle DEF Reachable, InStep, Busy
  <2> QED
    BY <1>3, <2>2, <2>3 DEF UpSucceeds
<1>4. CASE BringUpAgain(u)
  BY <1>4, Idle DEF BringUpAgain, InStep, Reachable, Busy
<1> QED
  BY <1>1, <1>2, <1>3, <1>4

\* An accepted identity beside the hash of its own key, or none, is thrown away only
\* for another key (endpoint.go:222-227, daemon.go:351-360).
THEOREM IdentityIsKept == SerialSpec => IdentityKept
<1>1. DirInv /\ [SerialNext]_vars =>
         [state # None /\ state \in valid /\ hash \in {None, nodeKey[state]} /\ state' # state
             => \E u \in Users : Begin(u) /\ key'[u] # nodeKey[state]]_vars
  <2> SUFFICES ASSUME DirInv, [SerialNext]_vars, state # None, state \in valid,
                      hash \in {None, nodeKey[state]}, state' # state
               PROVE  \E u \in Users : Begin(u) /\ key'[u] # nodeKey[state]
    OBVIOUS
  <2>1. PICK u \in Users : \/ Begin(u) /\ hash \notin {None, key'[u]}
                           \/ Wipe(u)
    BY StateChanges
  <2>2. ~Wipe(u)
    BY DEF Wipe, DirInv, InStep
  <2> QED
    BY <2>1, <2>2
<1> QED
  BY DirSafety, <1>1, PTL DEF SerialSpec, IdentityKept

\* A true hash is overwritten, while its node stays, by a start with its key only, or
\* one that could not read it (endpoint.go:222-227, 293-296).
THEOREM HashIsTrue == SerialSpec => HashStaysTrue
<1>1. DirInv /\ [SerialNext]_vars =>
         [state # None /\ hash = nodeKey[state] /\ state' = state /\ hash' # hash
             => \E u \in Users : TruncateHash(u) /\ (key[u] = hash \/ unread[u])]_vars
  <2> SUFFICES ASSUME DirInv, [SerialNext]_vars, state # None, hash = nodeKey[state],
                      state' = state, hash' # hash
               PROVE  \E u \in Users : TruncateHash(u) /\ (key[u] = hash \/ unread[u])
    OBVIOUS
  <2>1. PICK u \in Users : Begin(u) \/ Wipe(u) \/ TruncateHash(u) \/ WriteHash(u)
    BY DEF SerialNext, BeginAlone, Goes, Start, SaveAuthKeyHash, Attempt, vars,
           StartGivesUp, WaitForIP, Leave, Ends, Top, Launch, SocketThere, SocketTimesOut,
           BringUp, BringUpAgain, Serve, Watch, Kill, Down, Listen, Dies, Expires, Crash,
           control, files, begun, daemon, bounds
  <2>2. ~Begin(u) /\ ~Wipe(u)
    BY DEF Begin, Wipe, WipeState, files
  <2>3. ~WriteHash(u)
    <3>1. nodeKey[state] \in Keys
      BY DEF DirInv, TypeOK
    <3> QED
      BY <3>1 DEF WriteHash, DirInv, InStep
  <2>4. TruncateHash(u) => key[u] = hash \/ unread[u]
    BY DEF TruncateHash, DirInv, InStep, Busy
  <2> QED
    BY <2>1, <2>2, <2>3, <2>4
<1> QED
  BY DirSafety, <1>1, PTL DEF SerialSpec, HashStaysTrue

-----------------------------------------------------------------------------
(* The contract, whoever else uses the directory *)

\* When a process of u may be there, and how far its StartTailscale may be: nothing
\* of it depends on the files, so nobody else can disturb it.
Phase(u) ==
    /\ loop[u] \in {"off", "top", "ready", "down"} => proc[u] = "none"
    /\ starter[u] = "none" => loop[u] = "off"
    /\ starter[u] = "starting" => loop[u] # "off"
    /\ starter[u] \in {"starting", "ip", "save", "write"} => ~cancelled[u]

Phases == TypeOK /\ \A u \in Users : Phase(u)

\* u keeps its contract in this step.
KeptBy(u) == \/ Contract(u)!Next \/ UNCHANGED Contract(u)!vars
             \/ Begin(u) /\ proc[u] = "none"

\* Nothing of u changes that its contract speaks of.
LEMMA Undisturbed ==
    ASSUME Phases, NEW u \in Users,
           loop'[u] = loop[u], starter'[u] = starter[u], cancelled'[u] = cancelled[u],
           (proc[u] # "none") <=> (proc'[u] # "none")
    PROVE  Phase(u)' /\ KeptBy(u)
  BY DEF Phases, Phase, KeptBy, KnownSup, KnownResult, Contract!vars

\* The loop goes on, its process comes and goes.
LEMMA Stepped ==
    ASSUME Phases, NEW u \in Users,
           loop[u] # "off", loop'[u] # "off",
           starter'[u] = starter[u], cancelled'[u] = cancelled[u],
           loop'[u] \in {"top", "ready", "down"} => proc'[u] = "none"
    PROVE  Phase(u)' /\ KeptBy(u)
<1>1. Phase(u)'
  BY DEF Phases, Phase
<1>2. CASE (proc[u] # "none") <=> (proc'[u] # "none")
  <2>1. UNCHANGED Contract(u)!vars
    BY <1>2 DEF KnownSup, KnownResult, Contract!vars
  <2> QED
    BY <1>1, <2>1 DEF KeptBy
<1>3. CASE (proc[u] # "none") <=> (proc'[u] = "none")
  <2>1. (proc'[u] # "none") = ~(proc[u] # "none")
    BY <1>3
  <2>2. /\ KnownSup(u) \in {"live", "cancelled"}
        /\ UNCHANGED <<KnownSup(u), KnownResult(u)>>
    BY DEF KnownSup, KnownResult
  <2>3. Contract(u)!Runs
    BY <2>1, <2>2 DEF Contract!Runs
  <2> QED
    BY <1>1, <2>3 DEF KeptBy, Contract!Next
<1> QED
  BY <1>2, <1>3

\* Start is answered; unless it already was, and nothing happens.
LEMMA Reports ==
    ASSUME Phases, NEW u \in Users, NEW s \in {"ip", "failed"}, Signal(u, s),
           loop[u] # "off", loop'[u] # "off",
           cancelled'[u] = cancelled[u], proc'[u] = proc[u],
           loop'[u] \in {"top", "ready", "down"} => proc[u] = "none"
    PROVE  Phase(u)' /\ KeptBy(u)
<1>1. starter'[u] = IF starter[u] = "starting" THEN s ELSE starter[u]
  BY DEF Signal, Phases, TypeOK
<1>2. CASE starter[u] = "starting"
  <2>1. Phase(u)'
    BY <1>1, <1>2 DEF Phases, Phase
  <2>2. Contract(u)!Report
    BY <1>1, <1>2 DEF Phases, Phase, KnownSup, KnownResult, Contract!Report
  <2> QED
    BY <2>1, <2>2 DEF KeptBy, Contract!Next
<1>3. CASE starter[u] # "starting"
  BY <1>1, <1>3, Stepped
<1> QED
  BY <1>2, <1>3

\* The loop ends, with nothing running.
LEMMA EndsByContract ==
    ASSUME Phases, NEW u \in Users, Ends(u)
    PROVE  Phase(u)' /\ KeptBy(u)
<1>1. /\ loop[u] \in {"top", "ready"} /\ loop'[u] = "off"
      /\ proc[u] = "none" /\ proc'[u] = "none" /\ cancelled'[u] = cancelled[u]
      /\ starter[u] # "none"
      /\ starter'[u] = IF starter[u] = "starting" THEN "failed" ELSE starter[u]
  BY DEF Ends, Goto, Signal, Phases, Phase, TypeOK
<1>2. Phase(u)'
  BY <1>1 DEF Phases, Phase
<1>3. CASE starter[u] = "starting"
  <2>1. Contract(u)!Report
    BY <1>1, <1>3 DEF Phases, Phase, KnownSup, KnownResult, Contract!Report
  <2> QED
    BY <1>2, <2>1 DEF KeptBy, Contract!Next
<1>4. CASE starter[u] # "starting" /\ cancelled[u]
  <2>1. Contract(u)!Stops
    BY <1>1, <1>4 DEF KnownSup, KnownResult, Contract!Stops
  <2> QED
    BY <1>2, <2>1 DEF KeptBy, Contract!Next
<1>5. CASE starter[u] # "starting" /\ ~cancelled[u]
  <2>1. Contract(u)!GivesUp
    BY <1>1, <1>5 DEF KnownSup, KnownResult, Contract!GivesUp
  <2> QED
    BY <1>2, <2>1 DEF KeptBy, Contract!Next
<1> QED
  BY <1>3, <1>4, <1>5

\* Start or WaitForIP gives up, or Leave comes: a loop that still goes on is told to
\* end.
LEMMA StopsByContract ==
    ASSUME Phases, NEW u \in Users, StartGivesUp(u) \/ Leave(u)
    PROVE  Phase(u)' /\ KeptBy(u)
<1>1. /\ loop'[u] = loop[u] /\ proc'[u] = proc[u]
      /\ ~cancelled[u] /\ cancelled'[u]
      /\ \/ starter[u] = "starting" /\ starter'[u] = "failed"
         \/ starter[u] = "ip" /\ starter'[u] = "dropped"
         \/ starter[u] = "held" /\ starter'[u] = "held"
  BY DEF StartGivesUp, Leave, Phases, Phase, TypeOK, daemon
<1>2. Phase(u)'
  BY <1>1 DEF Phases, Phase
<1>3. CASE starter[u] = "starting"
  <2>1. Contract(u)!Report
    BY <1>1, <1>3 DEF Phases, Phase, KnownSup, KnownResult, Contract!Report
  <2> QED
    BY <1>2, <2>1 DEF KeptBy, Contract!Next
<1>4. CASE starter[u] # "starting" /\ loop[u] # "off"
  <2>1. Contract(u)!Stop
    BY <1>1, <1>4 DEF KnownSup, KnownResult, Contract!Stop
  <2> QED
    BY <1>2, <2>1 DEF KeptBy, Contract!Next
<1>5. CASE starter[u] # "starting" /\ loop[u] = "off"
  <2>1. UNCHANGED Contract(u)!vars
    BY <1>1, <1>5 DEF KnownSup, KnownResult, Contract!vars
  <2> QED
    BY <1>2, <2>1 DEF KeptBy
<1> QED
  BY <1>3, <1>4, <1>5

\* WaitForIP is answered, or the hash is saved: of no concern to the loop.
LEMMA GoesOnByContract ==
    ASSUME Phases, NEW u \in Users, WaitForIP(u) \/ SaveAuthKeyHash(u)
    PROVE  Phase(u)' /\ KeptBy(u)
<1>1. /\ loop'[u] = loop[u] /\ proc'[u] = proc[u] /\ cancelled'[u] = cancelled[u]
      /\ \/ starter[u] = "ip" /\ starter'[u] = "save"
         \/ starter[u] = "save" /\ starter'[u] \in {"write", "held"}
         \/ starter[u] = "write" /\ starter'[u] = "held"
  BY DEF WaitForIP, SaveAuthKeyHash, TruncateHash, WriteHash, Phases, TypeOK, daemon
<1>2. UNCHANGED Contract(u)!vars
  BY <1>1 DEF KnownSup, KnownResult, Contract!vars
<1> QED
  BY <1>1, <1>2 DEF KeptBy, Phases, Phase

\* The steps of the loop and of tailscaled.
LEMMA AttemptsByContract ==
    ASSUME Phases, NEW u \in Users, Attempt(u) \/ Listen(u) \/ Dies(u)
    PROVE  Phase(u)' /\ KeptBy(u)
<1>1. CASE Serve(u)
  <2>1. CASE Goto(u, "watch") /\ Signal(u, "ip")
    <3>1. loop[u] = "serve" /\ loop'[u] = "watch" /\ UNCHANGED <<cancelled, proc>>
      BY <1>1, <2>1 DEF Serve, Goto, Phases, TypeOK, daemon
    <3> QED
      BY <2>1, <3>1, Reports
  <2>2. CASE Goto(u, "stop") /\ UNCHANGED starter
    <3>1. loop[u] = "serve" /\ loop'[u] = "stop" /\ UNCHANGED cancelled
      BY <1>1, <2>2 DEF Serve, Goto, Phases, TypeOK
    <3> QED
      BY <2>2, <3>1, Stepped
  <2> QED
    BY <1>1, <2>1, <2>2 DEF Serve
<1>2. CASE Down(u)
  <2>1. /\ loop[u] = "down" /\ loop'[u] = "top" /\ Signal(u, "failed")
        /\ UNCHANGED <<cancelled, proc>> /\ proc[u] = "none"
    BY <1>2 DEF Down, Goto, Phases, Phase, TypeOK
  <2> QED
    BY <2>1, Reports
<1>3. CASE Launch(u)
  <2>1. loop[u] = "ready" /\ proc[u] = "none" /\ UNCHANGED cancelled
    BY <1>3 DEF Launch, Phases, Phase
  <2>2. CASE Signal(u, "failed") /\ Goto(u, "top") /\ UNCHANGED proc
    <3>1. loop'[u] = "top"
      BY <2>2 DEF Goto, Phases, TypeOK
    <3> QED
      BY <2>1, <2>2, <3>1, Reports
  <2>3. CASE Goto(u, "socket") /\ UNCHANGED starter
    <3>1. loop'[u] = "socket"
      BY <2>3 DEF Goto, Phases, TypeOK
    <3> QED
      BY <2>1, <2>3, <3>1, Stepped
  <2> QED
    BY <1>3, <2>2, <2>3 DEF Launch
<1>4. CASE Kill(u)
  BY <1>4, Stepped DEF Kill, Goto, Phases, TypeOK
<1>5. CASE Top(u) \/ Watch(u)
  <2>1. /\ loop[u] # "off" /\ loop'[u] # "off"
        /\ loop'[u] \in {"top", "ready", "down"} => proc[u] = "none"
        /\ UNCHANGED <<starter, cancelled, proc>>
    BY <1>5 DEF Top, Watch, Goto, Phases, Phase, TypeOK, daemon
  <2> QED
    BY <2>1, Stepped
<1>6. CASE \/ SocketThere(u) \/ SocketTimesOut(u) \/ BringUp(u) \/ Wipe(u)
           \/ BringUpAgain(u)
  <2>1. /\ loop[u] # "off" /\ loop'[u] \in {"up", "stop", "serve", "wipe", "again"}
        /\ UNCHANGED <<starter, cancelled>>
    BY <1>6 DEF SocketThere, SocketTimesOut, BringUp, Wipe, BringUpAgain, Goto, Phases, TypeOK
  <2> QED
    BY <2>1, Stepped
<1>7. CASE Listen(u) \/ Dies(u)
  <2>1. /\ proc[u] # "none" /\ UNCHANGED <<loop, starter, cancelled>>
        /\ loop[u] \notin {"off", "top", "ready", "down"}
    BY <1>7 DEF Listen, Dies, Phases, Phase
  <2> QED
    BY <2>1, Stepped
<1> QED
  BY <1>1, <1>2, <1>3, <1>4, <1>5, <1>6, <1>7 DEF Attempt

\* A new supervisor, the first of its user or after one that is over.
LEMMA BeginsByContract ==
    ASSUME Phases, NEW u \in Users, Begin(u)
    PROVE  Phase(u)' /\ KeptBy(u)
<1>1. /\ proc[u] = "none" /\ UNCHANGED proc
      /\ loop'[u] = "top" /\ starter'[u] = "starting" /\ ~cancelled'[u]
  BY DEF Begin, Busy, Goto, Phases, Phase, TypeOK, daemon
<1> QED
  BY <1>1 DEF Phase, KeptBy

\* One user's step leaves all others undisturbed.
LEMMA OthersUndisturbed ==
    ASSUME Phases, NEW u \in Users, Begin(u) \/ Goes(u), NEW v \in Users, v # u
    PROVE  Phase(v)' /\ KeptBy(v)
<1>1. /\ loop'[v] = loop[v] /\ starter'[v] = starter[v] /\ cancelled'[v] = cancelled[v]
      /\ proc'[v] = proc[v]
  BY DEF Goes, Begin, Start, StartGivesUp, WaitForIP, SaveAuthKeyHash, TruncateHash,
     WriteHash, Leave, Ends, Attempt, Top, Launch, SocketThere, SocketTimesOut, BringUp, Wipe, BringUpAgain, Serve, Watch,
     Kill, Down, Listen, Dies, Goto, Signal, daemon, Phases, TypeOK
<1> QED
  BY <1>1, Undisturbed

\* Every step keeps the types, however users overlap.
LEMMA TypesKept ==
    ASSUME TypeOK, [Next]_vars
    PROVE  TypeOK'
<1> USE DEF control, files, begun, daemon, bounds, Goto, Signal, Fault
<1>1. CASE UNCHANGED vars
  BY <1>1 DEF vars, TypeOK
<1>2. ASSUME NEW u \in Users, Begin(u) \/ Start(u) \/ Leave(u)
      PROVE  TypeOK'
  <2>1. CASE Begin(u)
    BY <2>1, BeginTyped
  <2>2. CASE StartGivesUp(u)
    BY <2>2 DEF StartGivesUp, TypeOK, Starters
  <2>3. CASE WaitForIP(u) \/ Leave(u)
    BY <2>3 DEF WaitForIP, Leave, TypeOK, Starters
  <2>4. CASE SaveAuthKeyHash(u)
    BY <2>4 DEF SaveAuthKeyHash, TruncateHash, WriteHash, TypeOK, Starters
  <2> QED
    BY <1>2, <2>1, <2>2, <2>3, <2>4 DEF Start
<1>3. ASSUME NEW u \in Users, Ends(u) \/ Down(u) \/ Listen(u) \/ Dies(u) \/ Kill(u)
      PROVE  TypeOK'
  <2>1. CASE Ends(u) \/ Down(u)
    BY <2>1 DEF Ends, Down, TurnedDown, Reachable, TypeOK, Loops, Starters
  <2>2. CASE Listen(u)
    BY <2>2 DEF Listen, TypeOK
  <2>3. CASE Dies(u)
    BY <2>3 DEF Dies, TypeOK
  <2>4. CASE Kill(u)
    BY <2>4 DEF Kill, TypeOK, Loops
  <2> QED
    BY <1>3, <2>1, <2>2, <2>3, <2>4
<1>4. ASSUME NEW u \in Users,
             \/ Top(u) \/ Launch(u) \/ SocketThere(u) \/ SocketTimesOut(u)
             \/ Wipe(u) \/ Serve(u) \/ Watch(u)
      PROVE  TypeOK'
  BY <1>4 DEF Top, Launch, SocketThere, SocketTimesOut, Wipe, WipeState, Serve, Watch, TypeOK,
     Loops, Starters
<1>5. ASSUME NEW u \in Users, BringUp(u) \/ BringUpAgain(u)
      PROVE  TypeOK'
  <2>1. /\ faults' \in 0..MaxFaults
        /\ loop' \in [Users -> Loops]
        /\ UNCHANGED <<hash, sock, starter, cancelled, begun, proc, crashes>>
    BY <1>5 DEF BringUp, BringUpAgain, Rejected, TypeOK, Loops
  <2>2. CASE Reachable /\ UpSucceeds(u, sock)
    BY <2>1, <2>2 DEF Reachable, UpSucceeds, TypeOK
  <2>3. CASE UNCHANGED <<control, state, node, up>>
    BY <2>1, <2>3 DEF TypeOK
  <2> QED
    BY <1>5, <2>2, <2>3 DEF BringUp, BringUpAgain
<1>6. CASE Expires
  BY <1>6 DEF Expires, TypeOK
<1>7. CASE Crash
  BY <1>7 DEF Crash, TypeOK, Loops, Starters
<1> QED
  BY <1>1, <1>2, <1>3, <1>4, <1>5, <1>6, <1>7 DEF Next, Goes, Attempt

\* Every step keeps Phases and is one by contract.
LEMMA PhasesStep ==
    ASSUME Phases, [Next]_vars
    PROVE  Phases' /\ (UNCHANGED vars \/ Crash \/ \A u \in Users : KeptBy(u))
<1>1. TypeOK'
  BY TypesKept DEF Phases
<1>2. ASSUME NEW u \in Users, Begin(u) \/ Goes(u)
      PROVE  \A v \in Users : Phase(v)' /\ KeptBy(v)
  <2>1. Phase(u)' /\ KeptBy(u)
    BY <1>2, BeginsByContract, StopsByContract, GoesOnByContract, EndsByContract,
       AttemptsByContract DEF Goes, Start
  <2> QED
    BY <1>2, <2>1, OthersUndisturbed
<1>3. CASE UNCHANGED vars
  BY <1>1, <1>3 DEF vars, daemon, Phases, Phase
<1>4. CASE Expires
  BY <1>1, <1>4, Undisturbed DEF Expires, daemon, Phases
<1>5. CASE Crash
  BY <1>1, <1>5 DEF Crash, Phases, Phase
<1> QED
  BY <1>1, <1>2, <1>3, <1>4, <1>5 DEF Next, Phases

\* Supervisors on one directory keep the contract that the driver relies on, one
\* after the other or at once (daemon.go:160-317, 741-780, supervisor.go:168-274).
THEOREM SupervisorsKeepContract == Spec => KeepsContract
<1>1. Init => Phases /\ \A u \in Users : Contract(u)!Init
  <2> SUFFICES ASSUME Init PROVE Phases /\ \A u \in Users : Contract(u)!Init
    OBVIOUS
  <2>1. TypeOK
    BY DirInit DEF DirInv
  <2> QED
    BY <2>1 DEF Init, Phases, Phase, KnownSup, KnownResult, Contract!Init
<1>2. Phases /\ [Next]_vars => Phases'
  BY PhasesStep
<1>3. Phases /\ [Next]_vars =>
         [Crash \/ \A u \in Users :
             \/ Contract(u)!Next \/ UNCHANGED Contract(u)!vars
             \/ Begin(u) /\ proc[u] = "none"]_vars
  BY PhasesStep DEF KeptBy
<1> QED
  BY <1>1, <1>2, <1>3, PTL DEF Spec, KeepsContract

=============================================================================
