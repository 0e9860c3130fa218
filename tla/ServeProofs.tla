----------------------------- MODULE ServeProofs -----------------------------
(* Theorems about Serve, for any ports, labels, containers, restarts and       *)
(* failures.                                                                   *)
EXTENDS Serve, FiniteSetTheorems, TLAPS

-----------------------------------------------------------------------------
(* Parsing *)

\* A container has finitely many endpoints.
LEMMA ParsedFinite ==
    ASSUME NEW labels \in LabelSets
    PROVE  Cardinality(Parsed(labels)) \in Nat
<1>1. IsFiniteSet(Known(labels))
  BY PortsAssumption, FS_Subset DEF Known
<1> DEFINE f == [p \in Known(labels) |-> parseServeValue(p, labels[p])]
<1>2. f \in Surjection(Known(labels), Parsed(labels))
  BY DEF Parsed, Surjection
<1> QED
  BY <1>1, <1>2, FS_Surjection, FS_CardinalityType

\* In whatever order the labels are read, each that is known gives an endpoint,
\* and each endpoint is that of a label.
LEMMA Reading ==
    ASSUME NEW labels \in LabelSets, NEW s \in parseServeEndpoints(labels)
    PROVE  /\ DOMAIN s = 1 .. Cardinality(Parsed(labels))
           /\ \A i \in DOMAIN s : s[i] \in Parsed(labels)
           /\ \A p \in Known(labels) : \E i \in DOMAIN s : s[i] = parseServeValue(p, labels[p])
  BY DEF parseServeEndpoints, Parsed

\* The value of a label that is known.
LEMMA KnownValue ==
    ASSUME NEW labels \in LabelSets, NEW p \in Known(labels)
    PROVE  /\ p \in Ports
           /\ labels[p] \in Values
           /\ labels[p].proto \in Protocols
           /\ labels[p].target \in Ports \cup {None}
           /\ labels[p].path \in BOOLEAN
  BY LabelsAssumption DEF Known, Values

\* The command for an endpoint asks for what its label means.
LEMMA EntryMeans ==
    ASSUME NEW labels \in LabelSets, NEW p \in Known(labels), NEW scope \in Scopes
    PROVE  /\ Entry(parseServeValue(p, labels[p]), scope) = Meaning(p, labels[p], scope)
           /\ Meaning(p, labels[p], scope) \in Entries
           /\ parseServeValue(p, labels[p]).proto = labels[p].proto
<1> DEFINE v == labels[p]
<1>1. /\ p \in Ports /\ v.proto \in Protocols /\ v.target \in Ports \cup {None} /\ v.path \in BOOLEAN
  BY KnownValue
<1>2. (IF v.target \in Ports THEN v.target ELSE p) = (IF v.target = None THEN p ELSE v.target)
  BY <1>1, PortsAssumption
<1>3. (v.proto \in L7 /\ v.path) = (v.path /\ v.proto \in L7)
  BY <1>1
<1> QED
  BY <1>1, <1>2, <1>3 DEF Entry, Meaning, parseServeValue, Entries, Protocols

-----------------------------------------------------------------------------
(* What is wanted *)

\* It is made of the labels' meanings.
LEMMA WantedMeans ==
    ASSUME TypeOK, NEW x \in Wanted
    PROVE  \E p \in Known(serve), scope \in Scopes :
              /\ x = Meaning(p, serve[p], scope)
              /\ \/ scope = "machine" /\ direct /\ serve[p].proto # "tun"
                 \/ scope = "service" /\ service
<1>1. CASE x \in {Meaning(p, serve[p], "machine") : p \in IF direct THEN MachineWants(serve) ELSE {}}
  <2>1. PICK p \in IF direct THEN MachineWants(serve) ELSE {} : x = Meaning(p, serve[p], "machine")
    BY <1>1
  <2> QED
    BY <2>1 DEF MachineWants, Scopes
<1>2. CASE x \in {Meaning(p, serve[p], "service") : p \in IF service THEN Known(serve) ELSE {}}
  <2>1. PICK p \in IF service THEN Known(serve) ELSE {} : x = Meaning(p, serve[p], "service")
    BY <1>2
  <2> QED
    BY <2>1 DEF Scopes
<1> QED
  BY <1>1, <1>2 DEF Wanted, Wants

\* The command for an endpoint asks for something that is wanted.
LEMMA EntryWanted ==
    ASSUME TypeOK, NEW i \in DOMAIN endpoints
    PROVE  /\ direct /\ endpoints[i].proto # "tun" => Entry(endpoints[i], "machine") \in Wanted
           /\ service => Entry(endpoints[i], "service") \in Wanted
           /\ Entry(endpoints[i], "machine") \in Entries /\ Entry(endpoints[i], "service") \in Entries
<1>1. serve \in LabelSets /\ endpoints \in parseServeEndpoints(serve)
  BY DEF TypeOK
<1>2. PICK p \in Known(serve) : endpoints[i] = parseServeValue(p, serve[p])
  BY <1>1, Reading DEF Parsed
<1>3. \A scope \in Scopes : /\ Entry(endpoints[i], scope) = Meaning(p, serve[p], scope)
                           /\ Meaning(p, serve[p], scope) \in Entries
                           /\ endpoints[i].proto = serve[p].proto
  BY <1>1, <1>2, EntryMeans
<1>4. "machine" \in Scopes /\ "service" \in Scopes
  BY DEF Scopes
<1>5. direct /\ serve[p].proto # "tun" => Meaning(p, serve[p], "machine") \in Wanted
  BY DEF Wanted, Wants, MachineWants
<1>6. service => Meaning(p, serve[p], "service") \in Wanted
  BY DEF Wanted, Wants
<1> QED
  BY <1>3, <1>4, <1>5, <1>6

\* And whatever is wanted some command asks for.
LEMMA WantedEntry ==
    ASSUME TypeOK, NEW x \in Wanted
    PROVE  \E i \in DOMAIN endpoints :
              \/ direct /\ endpoints[i].proto # "tun" /\ x = Entry(endpoints[i], "machine")
              \/ service /\ x = Entry(endpoints[i], "service")
<1>1. serve \in LabelSets /\ endpoints \in parseServeEndpoints(serve)
  BY DEF TypeOK
<1>2. PICK p \in Known(serve), scope \in Scopes :
         /\ x = Meaning(p, serve[p], scope)
         /\ \/ scope = "machine" /\ direct /\ serve[p].proto # "tun"
            \/ scope = "service" /\ service
  BY WantedMeans
<1>3. PICK i \in DOMAIN endpoints : endpoints[i] = parseServeValue(p, serve[p])
  BY <1>1, Reading
<1>4. x = Entry(endpoints[i], scope) /\ endpoints[i].proto = serve[p].proto
  BY <1>1, <1>2, <1>3, EntryMeans
<1> QED
  BY <1>2, <1>3, <1>4

\* No two of them are in each other's way.
LEMMA WantedApart ==
    ASSUME TypeOK, NEW x \in Wanted, NEW y \in Wanted, Replaces(y, x)
    PROVE  x = y
<1>1. serve \in LabelSets
  BY DEF TypeOK
<1>2. PICK p \in Known(serve), scope \in Scopes : x = Meaning(p, serve[p], scope)
  BY WantedMeans
<1>3. PICK q \in Known(serve), other \in Scopes : y = Meaning(q, serve[q], other)
  BY WantedMeans
<1>4. p \in Ports /\ q \in Ports
  BY <1>1, KnownValue
<1>5. /\ x.scope = scope /\ y.scope = other
      /\ x.port = IF serve[p].proto = "tun" THEN None ELSE p
      /\ y.port = IF serve[q].proto = "tun" THEN None ELSE q
  BY <1>2, <1>3 DEF Meaning
<1>6. scope = other /\ x.port = y.port
  BY <1>5 DEF Replaces
<1>7. CASE serve[p].proto = "tun"
  <2>1. serve[q].proto = "tun"
    BY <1>4, <1>5, <1>6, <1>7, PortsAssumption
  <2> QED
    BY <1>2, <1>3, <1>6, <1>7, <2>1 DEF Meaning
<1>8. CASE serve[p].proto # "tun"
  <2>1. p = q
    BY <1>4, <1>5, <1>6, <1>8, PortsAssumption
  <2> QED
    BY <1>2, <1>3, <1>6, <2>1
<1> QED
  BY <1>7, <1>8

-----------------------------------------------------------------------------
(* The invariant *)

\* Nothing is served, and no container there.
LEMMA ServeInit == Init => ServeInv
<1> SUFFICES ASSUME Init PROVE ServeInv
  OBVIOUS
<1>1. TypeOK
  <2>1. pc \in PCs
    BY DEF Init, PCs
  <2>2. at \in Nat /\ at >= 1
    BY DEF Init
  <2>3. containers \in 0..MaxContainers /\ crashes \in 0..MaxCrashes /\ faults \in 0..MaxFaults
    BY BoundsAssumption DEF Init
  <2> QED
    BY <2>1, <2>2, <2>3 DEF Init, TypeOK
<1> QED
  BY <1>1 DEF Init, ServeInv, Stopped, OnlyAsked, StaysServed, Position, Configuring

\* What is served of an endpoint stays served while what is wanted does.
LEMMA Keeping ==
    ASSUME TypeOK, UNCHANGED <<container, endpoints>>,
           \A x \in Wanted : x \in served => x \in served',
           NEW i \in DOMAIN endpoints
    PROVE  /\ direct /\ MachineServed(i) => MachineServed(i)'
           /\ service /\ ServiceServed(i) => ServiceServed(i)'
  BY EntryWanted DEF MachineServed, ServiceServed, container

\* What is wanted is a matter of the labels only.
LEMMA SameWanted ==
    ASSUME UNCHANGED container
    PROVE  Wanted' = Wanted
  BY DEF Wanted, container

\* While tailscaled is not configured, what is served must only not grow beyond what
\* is wanted or was there, and not shrink once it was offered.
LEMMA Waiting ==
    ASSUME ServeInv, TypeOK', UNCHANGED container,
           pc' \notin Configuring \cup {"running"}, alive' = FALSE,
           served' \subseteq Wanted \cup inherited',
           offered' => offered /\ \A x \in Wanted : x \in served => x \in served'
    PROVE  ServeInv'
<1>1. Wanted' = Wanted
  BY SameWanted
<1>2. Stopped' /\ Position'
  BY DEF Stopped, Position, Configuring
<1>3. OnlyAsked' /\ StaysServed'
  BY <1>1 DEF ServeInv, OnlyAsked, StaysServed
<1> QED
  BY <1>2, <1>3 DEF ServeInv

\* When every endpoint has been served where it is to be, so is what is wanted.
LEMMA AllServed ==
    ASSUME TypeOK,
           direct => \A i \in DOMAIN endpoints : MachineServed(i),
           service => \A i \in DOMAIN endpoints : ServiceServed(i)
    PROVE  Wanted \subseteq served
  BY WantedEntry DEF MachineServed, ServiceServed

\* The next part of a start begins.
LEMMA Proceeding ==
    ASSUME ServeInv, TypeOK', UNCHANGED <<container, endpoints, served>>,
           pc # "none", NEW to \in Configuring \cup {"running"}, Proceeds(to),
           to = "direct" => direct,
           to = "service" => service,
           to # "direct" /\ direct => \A i \in DOMAIN endpoints : MachineServed(i),
           to = "running" /\ service => \A i \in DOMAIN endpoints : ServiceServed(i)
    PROVE  ServeInv'
<1>1. Wanted' = Wanted
  BY SameWanted
<1>2. pc' = to /\ at' = 1 /\ alive' = TRUE /\ offered' \in {offered, to = "running"}
  BY DEF Proceeds
<1>3. Stopped'
  BY <1>2 DEF Stopped
<1>4. OnlyAsked'
  BY <1>1 DEF ServeInv, OnlyAsked, Proceeds
<1>5. StaysServed'
  <2>1. CASE to = "running"
    BY <1>1, <2>1, AllServed DEF ServeInv, StaysServed
  <2>2. CASE to # "running"
    BY <1>1, <1>2, <2>2 DEF ServeInv, StaysServed, Proceeds
  <2> QED
    BY <2>1, <2>2
<1>6. Position'
  <2>1. TypeOK /\ serve \in LabelSets
    BY DEF ServeInv, TypeOK
  <2>2. Cardinality(Parsed(serve)) \in Nat /\ DOMAIN endpoints = 1 .. Cardinality(Parsed(serve))
    BY <2>1, ParsedFinite, Reading DEF TypeOK
  <2>3. \A i \in DOMAIN endpoints : ~(i < 1)
    BY <2>2
  <2>4. ASSUME NEW i \in DOMAIN endpoints
        PROVE  /\ to # "direct" /\ direct => MachineServed(i)'
               /\ to = "running" /\ service => ServiceServed(i)'
    BY <2>1, Keeping
  <2>5. serve' = serve /\ service' = service /\ direct' = direct /\ endpoints' = endpoints
    BY DEF container
  <2>6. 1 <= Cardinality(Parsed(serve)) + 1
    BY <2>2
  <2>7. at' <= Cardinality(Parsed(serve')) + 1
    BY <1>2, <2>5, <2>6
  <2>8. \A i \in DOMAIN endpoints' : ~(i < at')
    BY <1>2, <2>3, <2>5
  <2>9. /\ pc' = "direct" => direct'
        /\ pc' = "service" => service'
    BY <1>2, <2>5
  <2>10. /\ pc' \in {"service", "running"} /\ direct' => \A i \in DOMAIN endpoints' : MachineServed(i)'
         /\ pc' = "running" /\ service' => \A i \in DOMAIN endpoints' : ServiceServed(i)'
    BY <1>2, <2>4, <2>5
  <2> QED
    BY <2>7, <2>8, <2>9, <2>10 DEF Position
<1> QED
  BY <1>3, <1>4, <1>5, <1>6 DEF ServeInv

-----------------------------------------------------------------------------
(* One lemma per action *)

\* The type of the next state of a step that stays with its container.
LEMMA Typed ==
    ASSUME TypeOK, UNCHANGED <<container, endpoints, containers, crashes>>,
           pc' \in PCs, at' \in {1, at, at + 1}, alive' \in BOOLEAN, offered' \in BOOLEAN,
           inherited' \in {inherited, {}},
           result' \in {"none", "ok", "error"}, served' \in SUBSET Entries,
           faults' = faults \/ Fault
    PROVE  TypeOK'
<1>1. faults' \in 0..MaxFaults
  BY BoundsAssumption DEF TypeOK, Fault
<1>2. at' \in Nat /\ at' >= 1
  BY DEF TypeOK
<1> QED
  BY <1>1, <1>2 DEF TypeOK, container

\* What a serve command does to what is served.
LEMMA Commanding ==
    ASSUME ServeInv, NEW x \in Wanted, x \in Entries, served' \in {served, Put(x)}
    PROVE  /\ served' \in SUBSET Entries
           /\ served' \subseteq Wanted \cup inherited
           /\ \A y \in Wanted : y \in served => y \in served'
           /\ served' = Put(x) => x \in served'
<1>1. TypeOK /\ served \subseteq Entries /\ served \subseteq Wanted \cup inherited
  BY DEF ServeInv, TypeOK, OnlyAsked
<1>2. ASSUME NEW y \in Wanted, y \in served PROVE y \in Put(x)
  BY <1>1, <1>2, WantedApart DEF Put
<1> QED
  BY <1>1, <1>2 DEF Put

\* A container brings its labels, and finds what is served.
LEMMA BeginKeeps ==
    ASSUME ServeInv, Begin
    PROVE  ServeInv'
<1>1. TypeOK /\ Stopped /\ OnlyAsked
  BY DEF ServeInv
<1>2. /\ pc = "none" /\ pc' = "check" /\ at' = 1 /\ alive' = alive /\ served' = served
      /\ offered' = FALSE /\ inherited' = served
  BY DEF Begin
<1>3. TypeOK'
  <2>1. containers' \in 0..MaxContainers
    BY <1>1, BoundsAssumption DEF TypeOK, Begin
  <2>2. /\ pc' \in PCs /\ at' \in Nat /\ at' >= 1
    BY <1>2 DEF PCs
  <2> QED
    BY <1>1, <1>2, <2>1, <2>2 DEF TypeOK, Begin
<1>4. Stopped' /\ Position'
  BY <1>1, <1>2 DEF Stopped, Position, Configuring
<1>5. OnlyAsked' /\ StaysServed'
  BY <1>1, <1>2 DEF OnlyAsked, StaysServed
<1> QED
  BY <1>3, <1>4, <1>5 DEF ServeInv

\* Nothing is started yet.
LEMMA CheckKeeps ==
    ASSUME ServeInv, Check
    PROVE  ServeInv'
<1>1. TypeOK /\ Stopped /\ OnlyAsked
  BY DEF ServeInv
<1>2. /\ pc = "check" /\ pc' \in {"over", "version", "launch"} /\ at' = at /\ alive' = alive
      /\ \/ UNCHANGED <<served, offered, inherited>>
         \/ served' = {} /\ offered' = FALSE /\ inherited' = {}
      /\ result' \in {result, "error"} /\ (faults' = faults \/ Fault)
      /\ UNCHANGED <<container, endpoints, containers, crashes>>
  BY DEF Check, Refuse, Wiped, history
<1>3. TypeOK'
  BY <1>1, <1>2, Typed DEF PCs, TypeOK
<1>4. alive' = FALSE
  BY <1>1, <1>2 DEF Stopped, Configuring, TypeOK
<1>5. /\ served' \subseteq Wanted \cup inherited'
      /\ offered' => offered /\ served' = served
  BY <1>1, <1>2 DEF OnlyAsked
<1> QED
  BY <1>2, <1>3, <1>4, <1>5, Waiting DEF Configuring

LEMMA VersionKeeps ==
    ASSUME ServeInv, CheckVersionForServices
    PROVE  ServeInv'
<1>1. TypeOK /\ Stopped /\ OnlyAsked
  BY DEF ServeInv
<1>2. /\ pc = "version" /\ pc' \in {"over", "launch"} /\ at' = at /\ alive' = alive
      /\ result' \in {result, "error"} /\ (faults' = faults \/ Fault)
      /\ UNCHANGED <<container, endpoints, served, offered, inherited, containers, crashes>>
  BY DEF CheckVersionForServices, Refuse, history
<1>3. TypeOK'
  BY <1>1, <1>2, Typed DEF PCs, TypeOK
<1>4. alive' = FALSE
  BY <1>1, <1>2 DEF Stopped, Configuring, TypeOK
<1> QED
  BY <1>1, <1>2, <1>3, <1>4, Waiting DEF Configuring, OnlyAsked

\* An attempt that fails has stopped tailscaled, whatever it had come to serve.
LEMMA Failing ==
    ASSUME ServeInv, pc \notin {"none"}, Fails, faults' = faults \/ Fault,
           UNCHANGED <<container, endpoints, containers, crashes>>,
           offered' \in BOOLEAN, inherited' \in {inherited, {}},
           served' \in SUBSET Entries, served' \subseteq Wanted \cup inherited',
           offered' => offered /\ \A x \in Wanted : x \in served => x \in served'
    PROVE  ServeInv'
<1>1. TypeOK
  BY DEF ServeInv
<1>2. pc' = "again" /\ at' = 1 /\ alive' = FALSE /\ result' \in {"none", "ok", "error"}
  BY <1>1 DEF Fails, Told, TypeOK
<1>3. TypeOK'
  BY <1>1, <1>2, Typed DEF PCs
<1> QED
  BY <1>2, <1>3, Waiting DEF Configuring

\* A start that is up goes on to what is to be configured first.
LEMMA LaunchKeeps ==
    ASSUME ServeInv, Launch
    PROVE  ServeInv'
<1>1. TypeOK /\ OnlyAsked
  BY DEF ServeInv
<1>2. pc = "launch" /\ UNCHANGED <<container, endpoints, containers, crashes>>
  BY DEF Launch
<1>3. CASE Proceeds(First) /\ UNCHANGED <<served, faults>>
  <2>1. /\ First \in Configuring \cup {"running"}
        /\ First = "direct" => direct
        /\ First = "service" => service
        /\ First # "direct" /\ direct => DOMAIN endpoints = {}
        /\ First = "running" => ~service
    BY DEF First, Afterwards, Configuring
  <2>2. /\ pc' = First /\ at' = 1 /\ alive' = TRUE /\ offered' \in BOOLEAN
        /\ inherited' = inherited /\ result' \in {"none", "ok", "error"}
    BY <1>1, <1>3 DEF Proceeds, Told, TypeOK
  <2>3. TypeOK'
    <3>1. pc' \in PCs
      BY <2>1, <2>2 DEF PCs
    <3>2. served' \in SUBSET Entries
      BY <1>1, <1>3 DEF TypeOK
    <3> QED
      BY <1>1, <1>2, <1>3, <2>2, <3>1, <3>2, Typed
  <2> QED
    BY <1>2, <1>3, <2>1, <2>3, Proceeding
<1>4. CASE Fault /\ Fails /\ UNCHANGED <<served, history>>
  BY <1>1, <1>2, <1>4, Failing DEF TypeOK, OnlyAsked, history
<1>5. CASE Fault /\ Fails /\ Wiped
  BY <1>1, <1>2, <1>5, Failing DEF Wiped
<1> QED
  BY <1>3, <1>4, <1>5 DEF Launch

\* Another endpoint is served, or has nothing to be served.
LEMMA Stepping ==
    ASSUME ServeInv, UNCHANGED <<container, endpoints, containers, crashes>>,
           pc \in Configuring, at \in DOMAIN endpoints,
           at' = at + 1, UNCHANGED <<pc, alive, result, offered, inherited, faults>>,
           served' \in SUBSET Entries, served' \subseteq Wanted \cup inherited,
           \A x \in Wanted : x \in served => x \in served',
           pc = "direct" => ValidPorts(endpoints[at]) /\
              (endpoints[at].proto # "tun" => Entry(endpoints[at], "machine") \in served'),
           pc = "service" => ValidPorts(endpoints[at]) /\ Entry(endpoints[at], "service") \in served'
    PROVE  ServeInv'
<1>1. TypeOK /\ Stopped /\ Position /\ StaysServed
  BY DEF ServeInv
<1>2. Wanted' = Wanted
  BY SameWanted
<1>3. TypeOK'
  <2>1. pc' \in PCs /\ alive' \in BOOLEAN /\ offered' \in BOOLEAN /\ result' \in {"none", "ok", "error"}
    BY <1>1 DEF TypeOK
  <2> QED
    BY <1>1, <2>1, Typed
<1>4. Stopped' /\ OnlyAsked' /\ StaysServed'
  BY <1>1, <1>2 DEF Stopped, OnlyAsked, StaysServed
<1>5. Position'
  <2>1. serve' = serve /\ service' = service /\ direct' = direct /\ endpoints' = endpoints
    BY DEF container
  <2>2. Cardinality(Parsed(serve)) \in Nat /\ DOMAIN endpoints = 1 .. Cardinality(Parsed(serve))
    BY <1>1, ParsedFinite, Reading DEF TypeOK
  <2>3. at' <= Cardinality(Parsed(serve')) + 1
    BY <2>1, <2>2
  <2>4. ASSUME NEW i \in DOMAIN endpoints, i < at'
        PROVE  i < at \/ i = at
    BY <2>2, <2>4
  <2>5. ASSUME NEW i \in DOMAIN endpoints, pc = "direct"
        PROVE  direct /\ (i < at' => MachineServed(i)')
    <3>1. direct /\ (i < at => MachineServed(i))
      BY <1>1, <2>5 DEF Position
    <3>2. i < at => MachineServed(i)'
      BY <1>1, <3>1, Keeping
    <3>3. i = at => MachineServed(i)'
      BY <2>1, <2>5 DEF MachineServed, ValidPorts
    <3> QED
      BY <2>4, <3>1, <3>2, <3>3
  <2>6. ASSUME NEW i \in DOMAIN endpoints, pc = "service"
        PROVE  /\ service /\ (i < at' => ServiceServed(i)')
               /\ direct => MachineServed(i)'
    <3>1. service /\ (i < at => ServiceServed(i)) /\ (direct => MachineServed(i))
      BY <1>1, <2>6 DEF Position
    <3>2. (i < at => ServiceServed(i)') /\ (direct => MachineServed(i)')
      BY <1>1, <3>1, Keeping
    <3>3. i = at => ServiceServed(i)'
      BY <2>1, <2>6 DEF ServiceServed, ValidPorts
    <3> QED
      BY <2>4, <3>1, <3>2, <3>3
  <2>7. pc' = pc /\ pc # "running"
    BY DEF Configuring
  <2>8. (pc = "direct" => direct) /\ (pc = "service" => service)
    BY <1>1 DEF Position
  <2> QED
    BY <2>1, <2>3, <2>5, <2>6, <2>7, <2>8 DEF Position
<1> QED
  BY <1>3, <1>4, <1>5 DEF ServeInv

\* A command is for something that is wanted.
LEMMA CommandKeeps ==
    ASSUME ServeInv, pc \in Configuring, at \in DOMAIN endpoints,
           UNCHANGED <<container, endpoints, offered, inherited, containers, crashes>>,
           NEW x \in Wanted, x \in Entries, Command(x), ValidPorts(endpoints[at]),
           pc = "direct" => x = Entry(endpoints[at], "machine"),
           pc = "service" => x = Entry(endpoints[at], "service")
    PROVE  ServeInv'
<1>1. TypeOK
  BY DEF ServeInv
<1>2. pc # "none" /\ offered \in BOOLEAN
  BY <1>1 DEF Configuring, TypeOK
<1>3. served' \in {served, Put(x)}
  BY DEF Command
<1>4. /\ served' \in SUBSET Entries /\ served' \subseteq Wanted \cup inherited
      /\ \A y \in Wanted : y \in served => y \in served'
      /\ served' = Put(x) => x \in served'
  BY <1>3, Commanding
<1>5. CASE served' = Put(x) /\ at' = at + 1 /\ UNCHANGED <<pc, alive, result, faults>>
  BY <1>4, <1>5, Stepping
<1>6. CASE Fails /\ (faults' = faults \/ Fault)
  BY <1>2, <1>4, <1>6, Failing
<1> QED
  BY <1>5, <1>6 DEF Command

LEMMA DirectStepKeeps ==
    ASSUME ServeInv, DirectStep
    PROVE  ServeInv'
<1> DEFINE ep == endpoints[at]
<1>1. TypeOK /\ OnlyAsked /\ Position
  BY DEF ServeInv
<1>2. /\ pc = "direct" /\ pc \in Configuring /\ at \in DOMAIN endpoints /\ direct
      /\ UNCHANGED <<container, endpoints, offered, inherited, containers, crashes>>
  BY <1>1 DEF DirectStep, Configuring, Position, history
<1>3. served \in SUBSET Entries /\ served \subseteq Wanted \cup inherited /\ offered \in BOOLEAN
  BY <1>1 DEF TypeOK, OnlyAsked
<1>4. CASE ~ValidPorts(ep) /\ Fails /\ UNCHANGED <<served, faults>>
  BY <1>2, <1>3, <1>4, Failing
<1>5. CASE /\ ValidPorts(ep) /\ ep.proto = "tun" /\ at' = at + 1
           /\ UNCHANGED <<pc, alive, result, served, faults>>
  BY <1>2, <1>3, <1>5, Stepping
<1>6. CASE ValidPorts(ep) /\ ep.proto # "tun" /\ Command(Entry(ep, "machine"))
  <2>1. Entry(ep, "machine") \in Wanted /\ Entry(ep, "machine") \in Entries
    BY <1>1, <1>2, <1>6, EntryWanted
  <2> QED
    BY <1>2, <1>6, <2>1, CommandKeeps
<1> QED
  BY <1>4, <1>5, <1>6 DEF DirectStep

LEMMA ServiceStepKeeps ==
    ASSUME ServeInv, ServiceStep
    PROVE  ServeInv'
<1> DEFINE ep == endpoints[at]
<1>1. TypeOK /\ OnlyAsked /\ Position
  BY DEF ServeInv
<1>2. /\ pc = "service" /\ pc \in Configuring /\ at \in DOMAIN endpoints /\ service
      /\ UNCHANGED <<container, endpoints, offered, inherited, containers, crashes>>
  BY <1>1 DEF ServiceStep, Configuring, Position, history
<1>3. served \in SUBSET Entries /\ served \subseteq Wanted \cup inherited /\ offered \in BOOLEAN
  BY <1>1 DEF TypeOK, OnlyAsked
<1>4. CASE ~ValidPorts(ep) /\ Fails /\ UNCHANGED <<served, faults>>
  BY <1>2, <1>3, <1>4, Failing
<1>5. CASE ValidPorts(ep) /\ Command(Entry(ep, "service"))
  <2>1. Entry(ep, "service") \in Wanted /\ Entry(ep, "service") \in Entries
    BY <1>1, <1>2, EntryWanted
  <2> QED
    BY <1>2, <1>5, <2>1, CommandKeeps
<1> QED
  BY <1>4, <1>5 DEF ServiceStep

\* When no endpoint is left, all of them are served.
LEMMA DoneKeeps ==
    ASSUME ServeInv, DirectDone \/ ServiceDone
    PROVE  ServeInv'
<1>1. TypeOK /\ Position
  BY DEF ServeInv
<1>2. /\ at \notin DOMAIN endpoints
      /\ UNCHANGED <<container, endpoints, served, containers, crashes, faults>>
      /\ \/ pc = "direct" /\ Proceeds(Afterwards)
         \/ pc = "service" /\ Proceeds("running")
  BY DEF DirectDone, ServiceDone, bounds
<1>3. \A i \in DOMAIN endpoints : i < at
  <2>1. Cardinality(Parsed(serve)) \in Nat /\ DOMAIN endpoints = 1 .. Cardinality(Parsed(serve))
    BY <1>1, ParsedFinite, Reading DEF TypeOK
  <2>2. at \in Nat /\ at >= 1 /\ at <= Cardinality(Parsed(serve)) + 1
    BY <1>1, <1>2 DEF TypeOK, Position, Configuring
  <2> QED
    BY <1>2, <2>1, <2>2
<1>4. PICK to \in {"service", "running"} :
         /\ Proceeds(to)
         /\ to = "service" => service /\ pc = "direct"
         /\ to = "running" /\ service => pc = "service"
  BY <1>2 DEF Afterwards
<1>5. direct => \A i \in DOMAIN endpoints : MachineServed(i)
  BY <1>1, <1>2, <1>3 DEF Position
<1>6. to = "running" /\ service => \A i \in DOMAIN endpoints : ServiceServed(i)
  BY <1>1, <1>3, <1>4 DEF Position
<1>7. TypeOK'
  <2>1. /\ pc' \in PCs /\ at' = 1 /\ alive' \in BOOLEAN /\ offered' \in BOOLEAN
        /\ inherited' = inherited /\ result' \in {"none", "ok", "error"}
    BY <1>1, <1>4 DEF Proceeds, Told, TypeOK, PCs, Configuring
  <2>2. served' \in SUBSET Entries
    BY <1>1, <1>2 DEF TypeOK
  <2> QED
    BY <1>1, <1>2, <2>1, <2>2, Typed
<1>8. pc # "none" /\ to \in Configuring \cup {"running"}
  BY <1>2 DEF Configuring
<1> QED
  BY <1>2, <1>4, <1>5, <1>6, <1>7, <1>8, Proceeding

\* What is left of tailscaled is its directory.
LEMMA RestKeeps ==
    ASSUME ServeInv, Dies \/ Retry \/ Ends
    PROVE  ServeInv'
<1>1. TypeOK /\ Stopped /\ OnlyAsked
  BY DEF ServeInv
<1>2. /\ pc # "none" /\ pc' \in {"again", "launch", "over", "none"}
      /\ at' \in {1, at} /\ result' = result /\ served' = served
      /\ offered' = offered \/ offered' = FALSE
      /\ faults' = faults \/ Fault
      /\ UNCHANGED <<container, endpoints, inherited, containers, crashes>>
  BY DEF Dies, Retry, Ends, history, bounds
<1>3. alive' = FALSE
  BY <1>1 DEF Dies, Retry, Ends, Stopped, Configuring, TypeOK
<1>4. TypeOK'
  <2>1. /\ pc' \in PCs /\ alive' \in BOOLEAN /\ offered' \in BOOLEAN
        /\ result' \in {"none", "ok", "error"} /\ served' \in SUBSET Entries
    BY <1>1, <1>2, <1>3 DEF TypeOK, PCs
  <2> QED
    BY <1>1, <1>2, <2>1, Typed
<1>5. served' \subseteq Wanted \cup inherited' /\ (offered' => offered)
  BY <1>1, <1>2 DEF OnlyAsked
<1> QED
  BY <1>2, <1>3, <1>4, <1>5, Waiting DEF Configuring

\* The labels are read in another order, and mean the same.
LEMMA RestartKeeps ==
    ASSUME ServeInv, PluginRestarts
    PROVE  ServeInv'
<1>1. TypeOK /\ OnlyAsked
  BY DEF ServeInv
<1>2. /\ pc # "none" /\ pc' = "check" /\ at' = 1 /\ alive' = FALSE
      /\ UNCHANGED <<container, inherited, served, offered>>
  BY DEF PluginRestarts, history
<1>3. TypeOK'
  <2>1. crashes' \in 0..MaxCrashes
    BY <1>1, BoundsAssumption DEF TypeOK, PluginRestarts
  <2>2. pc' \in PCs /\ at' \in Nat /\ at' >= 1
    BY <1>2 DEF PCs
  <2>3. endpoints' \in parseServeEndpoints(serve')
    BY DEF PluginRestarts, container
  <2> QED
    BY <1>1, <1>2, <2>1, <2>2, <2>3 DEF TypeOK, PluginRestarts, container
<1>4. served' \subseteq Wanted \cup inherited'
  BY <1>1, <1>2 DEF OnlyAsked
<1> QED
  BY <1>2, <1>3, <1>4, Waiting DEF Configuring

-----------------------------------------------------------------------------
(* The theorems *)

\* Every step keeps the invariant.
LEMMA ServeNext == ServeInv /\ [Next]_vars => ServeInv'
<1> SUFFICES ASSUME ServeInv, [Next]_vars PROVE ServeInv'
  OBVIOUS
<1>1. CASE UNCHANGED vars
  <2>1. UNCHANGED <<container, endpoints, pc, at, alive, result, served, offered, inherited,
                    containers, crashes, faults>>
    BY <1>1 DEF vars, history, bounds
  <2>2. Wanted' = Wanted /\ TypeOK' /\ Stopped' /\ OnlyAsked'
    BY <2>1, SameWanted DEF ServeInv, TypeOK, Stopped, OnlyAsked, container
  <2>3. Position'
    BY <2>1 DEF ServeInv, Position, MachineServed, ServiceServed, container
  <2> QED
    BY <2>1, <2>2, <2>3 DEF ServeInv, StaysServed
<1>2. CASE Next
  BY <1>2, BeginKeeps, CheckKeeps, VersionKeeps, LaunchKeeps, DirectStepKeeps, ServiceStepKeeps,
     DoneKeeps, RestKeeps, RestartKeeps DEF Next
<1> QED
  BY <1>1, <1>2

\* The inductive invariant holds in every reachable state.
THEOREM ServeSafety == Spec => []ServeInv
<1>1. Init => ServeInv
  BY ServeInit
<1>2. ServeInv /\ [Next]_vars => ServeInv'
  BY ServeNext
<1> QED
  BY <1>1, <1>2, PTL DEF Spec

\* A tailscaled that runs serves every label of its container, in whatever order
\* they were read and whatever was served before.
THEOREM AlwaysServesLabels == Spec => []ServesLabels
<1>1. ServeInv => ServesLabels
  <2> SUFFICES ASSUME ServeInv, pc = "running"
               PROVE  /\ alive /\ Wanted \subseteq served
                      /\ direct \/ service =>
                           \A p \in Known(serve) : {p, serve[p].target} \subseteq Numeric \cup {None}
    BY DEF ServesLabels
  <2>1. TypeOK /\ alive /\ Position
    BY DEF ServeInv, Stopped
  <2>2. /\ direct => \A i \in DOMAIN endpoints : MachineServed(i)
        /\ service => \A i \in DOMAIN endpoints : ServiceServed(i)
    BY <2>1 DEF Position
  <2>3. Wanted \subseteq served
    BY <2>1, <2>2, AllServed
  <2>4. ASSUME NEW p \in Known(serve), direct \/ service
        PROVE  {p, serve[p].target} \subseteq Numeric \cup {None}
    <3>1. serve \in LabelSets /\ endpoints \in parseServeEndpoints(serve)
      BY <2>1 DEF TypeOK
    <3>2. PICK i \in DOMAIN endpoints : endpoints[i] = parseServeValue(p, serve[p])
      BY <3>1, Reading
    <3>3. ValidPorts(endpoints[i])
      BY <2>2, <2>4 DEF MachineServed, ServiceServed
    <3>4. serve[p].target \in Ports \cup {None}
      BY <3>1, KnownValue
    <3> QED
      BY <3>2, <3>3, <3>4 DEF ValidPorts, parseServeValue
  <2> QED
    BY <2>1, <2>3, <2>4
<1> QED
  BY <1>1, ServeSafety, PTL

\* Nothing is served that the container does not ask for and that was not there when
\* it came.
THEOREM AlwaysOnlyAsked == Spec => []OnlyAsked
<1>1. ServeInv => OnlyAsked
  BY DEF ServeInv
<1> QED
  BY <1>1, ServeSafety, PTL

\* What has been served stays so until the identity is wiped.
THEOREM AlwaysStaysServed == Spec => []StaysServed
<1>1. ServeInv => StaysServed
  BY DEF ServeInv
<1> QED
  BY <1>1, ServeSafety, PTL

=============================================================================
