----------------------------- MODULE VethProofs -----------------------------
(* Theorems about Veth, for any endpoints, hashes, failures and restarts. *)
EXTENDS Veth, TLAPS

-----------------------------------------------------------------------------
(* generateVethIPs *)

LEMMA Remainder ==
    ASSUME NEW h \in Hashes
    PROVE  h % 16380 \in Nat /\ h % 16380 < 16380
  BY SMT DEF Hashes

\* The 16-bit multiplication does not overflow: the base is a multiple of four
\* that is neither 0 nor beyond the /16.
LEMMA BaseInRange ==
    ASSUME NEW h \in Hashes
    PROVE  /\ Base(h) = ((h % 16380) + 1) * 4
           /\ Base(h) \in Nat /\ 4 <= Base(h) /\ Base(h) <= 65520
<1>1. PICK r \in Nat : r = h % 16380 /\ r < 16380
  BY Remainder
<1>2. (r + 1) * 4 \in Nat /\ 4 <= (r + 1) * 4 /\ (r + 1) * 4 <= 65520
  BY <1>1, SMT
<1>3. ASSUME NEW n \in Nat, n < 65536 PROVE n % 65536 = n
  BY <1>3, SMT
<1> QED
  BY <1>1, <1>2, <1>3 DEF Base

\* An address three or less above a multiple of four is in its /30.
LEMMA SameSubnet ==
    ASSUME NEW n \in Nat, NEW i \in 0 .. 3
    PROVE  Subnet(n * 4 + i) = n /\ (n * 4 + i) % 4 = i
  BY DEF Subnet

\* For every hash the two addresses are the usable ones of one /30, whose number
\* is the hash modulo 16380, plus one: endpoints share a subnet exactly when
\* their hashes agree in that (endpoint.go:85-106).
THEOREM SubnetOfHash ==
    ASSUME NEW h \in Hashes
    PROVE  /\ Subnet(HostIP(h)) = (h % 16380) + 1
           /\ Subnet(ContainerIP(h)) = (h % 16380) + 1
           /\ HostIP(h) % 4 = 1 /\ ContainerIP(h) % 4 = 2
           /\ HostIP(h) < 65536 /\ ContainerIP(h) < 65536
<1>1. PICK n \in Nat : n = (h % 16380) + 1
  BY Remainder
<1>2. HostIP(h) = n * 4 + 1 /\ ContainerIP(h) = n * 4 + 2
  BY <1>1, BaseInRange DEF HostIP, ContainerIP
<1>3. HostIP(h) < 65536 /\ ContainerIP(h) < 65536
  BY BaseInRange DEF HostIP, ContainerIP
<1>4. /\ Subnet(n * 4 + 1) = n /\ (n * 4 + 1) % 4 = 1
      /\ Subnet(n * 4 + 2) = n /\ (n * 4 + 2) % 4 = 2
  BY SameSubnet
<1> QED
  BY <1>1, <1>2, <1>3, <1>4

-----------------------------------------------------------------------------
(* The invariant *)

\* Nothing is there, and nobody at work.
LEMMA VethInit == Init => VethInv
<1> SUFFICES ASSUME Init PROVE VethInv
  OBVIOUS
<1> USE NoneAssumption, BoundsAssumption DEF Init
<1>1. TypeOK
  <2>1. pc \in [Endpoints -> Steps]
    BY DEF Steps
  <2>2. pair \in [Endpoints -> Pairs]
    BY DEF Pairs
  <2>3. conf \in [Endpoints -> SUBSET Configured]
    OBVIOUS
  <2>4. faults \in 0 .. MaxFaults /\ crashes \in 0 .. MaxCrashes
    OBVIOUS
  <2> QED
    BY <2>1, <2>2, <2>3, <2>4 DEF TypeOK
<1>2. Locking /\ RulesTakeEffect /\ GlobalRulesOnce
  BY DEF Locking, Chaining, RulesTakeEffect, GlobalRulesOnce
<1>3. ASSUME NEW e \in Endpoints PROVE Building(e) /\ Progress(e) /\ Clearing(e)
  BY DEF Building, Progress, Clearing, Wired, Chaining
<1> QED
  BY <1>1, <1>2, <1>3 DEF VethInv

\* What an endpoint has is its own: a step of e changes nothing of another's.
Elsewhere(e) ==
    \A f \in Endpoints : f # e =>
       /\ pc'[f] = pc[f] /\ pair'[f] = pair[f] /\ conf'[f] = conf[f] /\ box'[f] = box[f]
       /\ inRules'[f] = inRules[f] /\ outRules'[f] = outRules[f]
       /\ f \in known => f \in known'

\* TypeOK, but for the step and the bounds.
Shapes ==
    /\ known \in SUBSET Endpoints
    /\ init \in BOOLEAN
    /\ mu \in Endpoints \cup {None}
    /\ pair \in [Endpoints -> Pairs]
    /\ conf \in [Endpoints -> SUBSET Configured]
    /\ inRules \in [Endpoints -> Nat] /\ outRules \in [Endpoints -> Nat]
    /\ chain \in BOOLEAN
    /\ jump \in Nat /\ masq \in Nat
    /\ box \in [Endpoints -> {"none", "given", "alternate"}]

\* What is within the number of failures stays so as failures add up.
LEMMA StillFew ==
    ASSUME NEW n \in Nat, NEW f \in Nat, NEW g \in Nat, f <= g, n <= 1 + f
    PROVE  n <= 1 + g
  OBVIOUS

\* No step but a failing one uses up a failure, and none but the end of the plugin
\* an end.
Counted == faults' \in {faults, faults + 1} /\ crashes' = crashes

\* So what is true of the other endpoints remains true; that the chain is being
\* built by one of them needs chainMu.
LEMMA OthersKeep ==
    ASSUME NEW e \in Endpoints, VethInv, Elsewhere(e), Counted,
           \/ UNCHANGED tables /\ UNCHANGED init
           \/ mu = e /\ (init => init'),
           NEW f \in Endpoints, f # e
    PROVE  Building(f)' /\ Progress(f)' /\ Clearing(f)'
<1>1. /\ faults \in Nat /\ jump \in Nat /\ masq \in Nat /\ Locking
      /\ Building(f) /\ Progress(f) /\ Clearing(f)
  BY BoundsAssumption DEF VethInv, TypeOK
<1>2. Building(f)'
  BY <1>1, NoneAssumption DEF Building, Locking, Chaining, Elsewhere, Counted, tables
<1>3. /\ pc'[f] = pc[f] /\ pair'[f] = pair[f] /\ conf'[f] = conf[f] /\ box'[f] = box[f]
      /\ inRules'[f] = inRules[f] /\ outRules'[f] = outRules[f]
      /\ f \in known => f \in known'
      /\ faults' = 0 => faults = 0
      /\ crashes' = crashes
  BY <1>1 DEF Elsewhere, Counted
<1>4. Progress(f)'
  BY <1>1, <1>3 DEF Progress
<1>5. Clearing(f)'
  BY <1>1, <1>3 DEF Clearing
<1> QED
  BY <1>2, <1>4, <1>5

\* What is to be shown of a step of e.
LEMMA Keeps ==
    ASSUME NEW e \in Endpoints, VethInv, Elsewhere(e), Counted,
           \/ UNCHANGED tables /\ UNCHANGED init
           \/ mu = e /\ (init => init'),
           TypeOK', Locking', RulesTakeEffect', GlobalRulesOnce',
           Building(e)', Progress(e)', Clearing(e)'
    PROVE  VethInv'
<1>1. ASSUME NEW f \in Endpoints PROVE Building(f)' /\ Progress(f)' /\ Clearing(f)'
  <2>1. CASE f = e
    BY <2>1
  <2>2. CASE f # e
    BY <2>2, OthersKeep
  <2> QED
    BY <2>1, <2>2
<1> QED
  BY <1>1 DEF VethInv

-----------------------------------------------------------------------------
(* One lemma per action: what it does, and what follows for its own endpoint *)

\* A Join begins with nothing there.
LEMMA JoinBeginKeeps ==
    ASSUME VethInv, NEW e \in Endpoints, JoinBegin(e)
    PROVE  VethInv'
<1> USE NoneAssumption, BoundsAssumption
<1>1. TypeOK /\ Locking
  BY DEF VethInv
<1>2. RulesTakeEffect /\ GlobalRulesOnce /\ Building(e)
  BY DEF VethInv
<1>3. Progress(e) /\ Clearing(e)
  BY DEF VethInv
<1>4. /\ pc[e] = "idle"
      /\ pc'[e] = "create" /\ faults' = faults
      /\ box'[e] \in {"given", "alternate"}
      /\ UNCHANGED <<known, init, mu, pair, conf, inRules, outRules, chain, jump, masq>>
  BY <1>1, <1>3 DEF TypeOK, Progress, JoinBegin, Goto, Unlocked, links, bounds, memory, tables, rules
<1>5. Elsewhere(e) /\ Counted
  BY <1>1 DEF TypeOK, Elsewhere, Counted, JoinBegin, Goto, Unlocked, links, bounds, memory, tables, rules
<1>6. TypeOK'
  <2>1. pc' \in [Endpoints -> Steps]
    BY <1>1 DEF TypeOK, JoinBegin, Goto, Steps, Joining, Linking, Chaining, Leaving
  <2>2. faults' \in 0 .. MaxFaults /\ crashes' \in 0 .. MaxCrashes
    BY <1>1 DEF TypeOK, JoinBegin, bounds
  <2>3. Shapes'
    BY <1>1 DEF TypeOK, Shapes, JoinBegin, Goto, Unlocked, links, bounds, memory, tables, rules
  <2> QED
    BY <2>1, <2>2, <2>3 DEF TypeOK, Shapes
<1>7. /\ faults \in Nat /\ jump \in Nat /\ masq \in Nat
      /\ inRules[e] \in Nat /\ outRules[e] \in Nat
      /\ faults <= faults' /\ faults' \in Nat /\ crashes' = crashes
  BY <1>1, <1>5 DEF TypeOK, Counted
<1>8. Locking'
  BY <1>1, <1>4, <1>5 DEF Locking, Elsewhere, Chaining
<1>9. RulesTakeEffect'
  BY <1>2, <1>4, <1>5, <1>7 DEF RulesTakeEffect, Ready, Building, Elsewhere
<1>10. GlobalRulesOnce'
  <2>1. UNCHANGED <<jump, masq>>
    BY <1>4
  <2> QED
    BY <1>2, <1>7, <2>1, StillFew DEF GlobalRulesOnce
<1>11. Building(e)'
  BY <1>2, <1>4, <1>7 DEF Building, GlobalRulesOnce, RulesTakeEffect, Ready
<1>12. Progress(e)'
  BY <1>3, <1>4, <1>7 DEF Progress, Linking, Chaining, Wired, Unruled, Configured
<1>13. Clearing(e)'
  BY <1>3, <1>4, <1>7 DEF Clearing, Progress, Linking, Chaining, Wired, Unruled
<1> QED
  BY <1>1, <1>4, <1>5, <1>6, <1>8, <1>9, <1>10, <1>11, <1>12, <1>13, Keeps
     DEF Locking, Chaining, tables

\* A pair that is made is not wired yet; one that is left behind costs a failure.
LEMMA CreatePairKeeps ==
    ASSUME VethInv, NEW e \in Endpoints, CreatePair(e)
    PROVE  VethInv'
<1> USE NoneAssumption, BoundsAssumption
<1>1. TypeOK /\ Locking
  BY DEF VethInv
<1>2. RulesTakeEffect /\ GlobalRulesOnce /\ Building(e)
  BY DEF VethInv
<1>3. Progress(e) /\ Clearing(e)
  BY DEF VethInv
<1>4. /\ pc[e] = "create"
      /\ \/ pc'[e] = "move" /\ pair'[e] = "made" /\ faults' = faults
         \/ pc'[e] = "failed" /\ pair'[e] \in {"none", "made"} /\ faults' = faults + 1
      /\ UNCHANGED <<known, init, mu, conf, inRules, outRules, chain, jump, masq, box>>
  BY <1>1, <1>3 DEF TypeOK, Progress, CreatePair, Goto, Fault, memory, tables, rules
<1>5. Elsewhere(e) /\ Counted
  BY <1>1 DEF TypeOK, Elsewhere, Counted, CreatePair, Goto, Fault, memory, tables, rules
<1>6. TypeOK'
  <2>1. pc' \in [Endpoints -> Steps]
    BY <1>1 DEF TypeOK, CreatePair, Goto, Steps, Joining, Linking, Chaining, Leaving
  <2>2. faults' \in 0 .. MaxFaults /\ crashes' \in 0 .. MaxCrashes
    BY <1>1 DEF TypeOK, CreatePair, Fault
  <2>3. Shapes'
    BY <1>1 DEF TypeOK, Shapes, CreatePair, Goto, Fault, memory, tables, Pairs, rules
  <2> QED
    BY <2>1, <2>2, <2>3 DEF TypeOK, Shapes
<1>7. /\ faults \in Nat /\ jump \in Nat /\ masq \in Nat
      /\ inRules[e] \in Nat /\ outRules[e] \in Nat
      /\ faults <= faults' /\ faults' \in Nat /\ crashes' = crashes
  BY <1>1, <1>5 DEF TypeOK, Counted
<1>8. Locking'
  BY <1>1, <1>4, <1>5 DEF Locking, Elsewhere, Chaining
<1>9. RulesTakeEffect'
  BY <1>2, <1>4, <1>5, <1>7 DEF RulesTakeEffect, Ready, Building, Elsewhere
<1>10. GlobalRulesOnce'
  <2>1. UNCHANGED <<jump, masq>>
    BY <1>4
  <2> QED
    BY <1>2, <1>7, <2>1, StillFew DEF GlobalRulesOnce
<1>11. Building(e)'
  BY <1>2, <1>4, <1>7 DEF Building, GlobalRulesOnce, RulesTakeEffect, Ready
<1>12. Progress(e)'
  BY <1>3, <1>4, <1>7 DEF Progress, Linking, Chaining, Wired, Unruled
<1>13. Clearing(e)'
  BY <1>3, <1>4, <1>7 DEF Clearing, Progress, Linking, Chaining, Wired, Unruled
<1> QED
  BY <1>1, <1>4, <1>5, <1>6, <1>8, <1>9, <1>10, <1>11, <1>12, <1>13, Keeps
     DEF Locking, Chaining, tables

\* The container's end goes to the namespace.
LEMMA MoveKeeps ==
    ASSUME VethInv, NEW e \in Endpoints, Move(e)
    PROVE  VethInv'
<1> USE NoneAssumption, BoundsAssumption
<1>1. TypeOK /\ Locking
  BY DEF VethInv
<1>2. RulesTakeEffect /\ GlobalRulesOnce /\ Building(e)
  BY DEF VethInv
<1>3. Progress(e) /\ Clearing(e)
  BY DEF VethInv
<1>4. /\ pc[e] = "move"
      /\ \/ pc'[e] = "host" /\ pair'[e] = "moved" /\ faults' = faults
         \/ pc'[e] = "undo" /\ pair'[e] = pair[e] /\ faults' = faults + 1
      /\ UNCHANGED <<known, init, mu, conf, inRules, outRules, chain, jump, masq, box>>
  BY <1>1, <1>3 DEF TypeOK, Progress, Move, Goto, Fault, memory, tables, rules
<1>5. Elsewhere(e) /\ Counted
  BY <1>1 DEF TypeOK, Elsewhere, Counted, Move, Goto, Fault, memory, tables, rules
<1>6. TypeOK'
  <2>1. pc' \in [Endpoints -> Steps]
    BY <1>1 DEF TypeOK, Move, Goto, Steps, Joining, Linking, Chaining, Leaving
  <2>2. faults' \in 0 .. MaxFaults /\ crashes' \in 0 .. MaxCrashes
    BY <1>1 DEF TypeOK, Move, Fault
  <2>3. Shapes'
    BY <1>1 DEF TypeOK, Shapes, Move, Goto, Fault, memory, tables, Pairs, rules
  <2> QED
    BY <2>1, <2>2, <2>3 DEF TypeOK, Shapes
<1>7. /\ faults \in Nat /\ jump \in Nat /\ masq \in Nat
      /\ inRules[e] \in Nat /\ outRules[e] \in Nat
      /\ faults <= faults' /\ faults' \in Nat /\ crashes' = crashes
  BY <1>1, <1>5 DEF TypeOK, Counted
<1>8. Locking'
  BY <1>1, <1>4, <1>5 DEF Locking, Elsewhere, Chaining
<1>9. RulesTakeEffect'
  BY <1>2, <1>4, <1>5, <1>7 DEF RulesTakeEffect, Ready, Building, Elsewhere
<1>10. GlobalRulesOnce'
  <2>1. UNCHANGED <<jump, masq>>
    BY <1>4
  <2> QED
    BY <1>2, <1>7, <2>1, StillFew DEF GlobalRulesOnce
<1>11. Building(e)'
  BY <1>2, <1>4, <1>7 DEF Building, GlobalRulesOnce, RulesTakeEffect, Ready
<1>12. Progress(e)'
  BY <1>3, <1>4, <1>7 DEF Progress, Linking, Chaining, Wired, Unruled
<1>13. Clearing(e)'
  BY <1>3, <1>4, <1>7 DEF Clearing, Progress, Linking, Chaining, Wired, Unruled
<1> QED
  BY <1>1, <1>4, <1>5, <1>6, <1>8, <1>9, <1>10, <1>11, <1>12, <1>13, Keeps
     DEF Locking, Chaining, tables

\* Without a failure the host has its address.
LEMMA HostRoutingKeeps ==
    ASSUME VethInv, NEW e \in Endpoints, HostRouting(e)
    PROVE  VethInv'
<1> USE NoneAssumption, BoundsAssumption
<1>1. TypeOK /\ Locking
  BY DEF VethInv
<1>2. RulesTakeEffect /\ GlobalRulesOnce /\ Building(e)
  BY DEF VethInv
<1>3. Progress(e) /\ Clearing(e)
  BY DEF VethInv
<1>4. /\ pc[e] = "host"
      /\ \/ pc'[e] = "guest" /\ "host address" \in conf'[e] /\ faults' = faults
         \/ pc'[e] \in {"guest", "undo"} /\ conf'[e] = conf[e] /\ faults' = faults + 1
      /\ UNCHANGED <<known, init, mu, pair, inRules, outRules, chain, jump, masq, box>>
  <2>1. CASE Configure(e, {"host address"}) /\ Goto(e, "guest") /\ UNCHANGED faults
    <3>1. "host address" \in conf'[e]
      BY <1>1, <2>1 DEF TypeOK, Configure
    <3> QED
      BY <1>1, <2>1, <3>1 DEF TypeOK, HostRouting, Goto, memory, tables, rules
  <2>2. CASE Fault /\ (Goto(e, "guest") \/ Goto(e, "undo")) /\ UNCHANGED conf
    BY <1>1, <2>2 DEF TypeOK, HostRouting, Goto, Fault, memory, tables, rules
  <2> QED
    BY <2>1, <2>2 DEF HostRouting
<1>5. Elsewhere(e) /\ Counted
  BY <1>1 DEF TypeOK, Elsewhere, Counted, HostRouting, Goto, Fault, Configure, memory, tables, rules
<1>6. TypeOK'
  <2>1. pc' \in [Endpoints -> Steps]
    BY <1>1 DEF TypeOK, HostRouting, Goto, Steps, Joining, Linking, Chaining, Leaving
  <2>2. faults' \in 0 .. MaxFaults /\ crashes' \in 0 .. MaxCrashes
    <3>1. \/ faults' = faults
          \/ faults < MaxFaults /\ faults' = faults + 1
      BY DEF HostRouting, Fault
    <3>2. crashes' = crashes
      BY DEF HostRouting
    <3> QED
      BY <1>1, <3>1, <3>2 DEF TypeOK
  <2>3. Shapes'
    <3>1. PICK w \in SUBSET Configured : conf' = conf \/ conf' = [conf EXCEPT ![e] = @ \cup w]
      BY DEF HostRouting, Configure, Configured
    <3>2. conf' \in [Endpoints -> SUBSET Configured]
      BY <1>1, <3>1 DEF TypeOK
    <3> QED
      BY <1>1, <3>2 DEF TypeOK, Shapes, HostRouting, memory, tables, rules
  <2> QED
    BY <2>1, <2>2, <2>3 DEF TypeOK, Shapes
<1>7. /\ faults \in Nat /\ jump \in Nat /\ masq \in Nat
      /\ inRules[e] \in Nat /\ outRules[e] \in Nat
      /\ faults <= faults' /\ faults' \in Nat /\ crashes' = crashes
  BY <1>1, <1>5 DEF TypeOK, Counted
<1>8. Locking'
  BY <1>1, <1>4, <1>5 DEF Locking, Elsewhere, Chaining
<1>9. RulesTakeEffect'
  BY <1>2, <1>4, <1>5, <1>7 DEF RulesTakeEffect, Ready, Building, Elsewhere
<1>10. GlobalRulesOnce'
  <2>1. UNCHANGED <<jump, masq>>
    BY <1>4
  <2> QED
    BY <1>2, <1>7, <2>1, StillFew DEF GlobalRulesOnce
<1>11. Building(e)'
  BY <1>2, <1>4, <1>7 DEF Building, GlobalRulesOnce, RulesTakeEffect, Ready
<1>12. Progress(e)'
  <2>1. inRules[e] = 0 /\ outRules[e] = 0
    BY <1>3, <1>4 DEF Progress, Linking, Unruled
  <2>2. /\ pc'[e] \in {"guest", "undo"}
        /\ pc'[e] = "guest" /\ faults' = 0 => "host address" \in conf'[e]
    <3>1. faults + 1 # 0
      BY <1>7
    <3> QED
      BY <1>4, <3>1
  <2>3. UNCHANGED <<inRules, outRules>>
    BY <1>4
  <2> QED
    BY <2>1, <2>2, <2>3 DEF Progress, Linking, Chaining, Wired, Unruled
<1>13. Clearing(e)'
  BY <1>3, <1>4, <1>7 DEF Clearing, Progress, Linking, Chaining, Wired, Unruled
<1> QED
  BY <1>1, <1>4, <1>5, <1>6, <1>8, <1>9, <1>10, <1>11, <1>12, <1>13, Keeps
     DEF Locking, Chaining, tables

\* The interface comes up only where the given path leads.
LEMMA GuestKeeps ==
    ASSUME VethInv, NEW e \in Endpoints, Guest(e)
    PROVE  VethInv'
<1> USE NoneAssumption, BoundsAssumption
<1>1. TypeOK /\ Locking
  BY DEF VethInv
<1>2. RulesTakeEffect /\ GlobalRulesOnce /\ Building(e)
  BY DEF VethInv
<1>3. Progress(e) /\ Clearing(e)
  BY DEF VethInv
<1>4. /\ pc[e] = "guest"
      /\ \/ pc'[e] = "route" /\ pair'[e] = "ready" /\ box[e] = "given" /\ faults' = faults
         \/ pc'[e] = "undo" /\ pair'[e] = pair[e] /\ faults' \in {faults, faults + 1}
      /\ UNCHANGED <<known, init, mu, conf, inRules, outRules, chain, jump, masq, box>>
  BY <1>1, <1>3 DEF TypeOK, Progress, Guest, Goto, Fault, memory, tables, rules
<1>5. Elsewhere(e) /\ Counted
  BY <1>1 DEF TypeOK, Elsewhere, Counted, Guest, Goto, Fault, memory, tables, rules
<1>6. TypeOK'
  <2>1. pc' \in [Endpoints -> Steps]
    BY <1>1 DEF TypeOK, Guest, Goto, Steps, Joining, Linking, Chaining, Leaving
  <2>2. faults' \in 0 .. MaxFaults /\ crashes' \in 0 .. MaxCrashes
    BY <1>1 DEF TypeOK, Guest, Fault
  <2>3. Shapes'
    BY <1>1 DEF TypeOK, Shapes, Guest, Goto, Fault, memory, tables, Pairs, rules
  <2> QED
    BY <2>1, <2>2, <2>3 DEF TypeOK, Shapes
<1>7. /\ faults \in Nat /\ jump \in Nat /\ masq \in Nat
      /\ inRules[e] \in Nat /\ outRules[e] \in Nat
      /\ faults <= faults' /\ faults' \in Nat /\ crashes' = crashes
  BY <1>1, <1>5 DEF TypeOK, Counted
<1>8. Locking'
  BY <1>1, <1>4, <1>5 DEF Locking, Elsewhere, Chaining
<1>9. RulesTakeEffect'
  BY <1>2, <1>4, <1>5, <1>7 DEF RulesTakeEffect, Ready, Building, Elsewhere
<1>10. GlobalRulesOnce'
  <2>1. UNCHANGED <<jump, masq>>
    BY <1>4
  <2> QED
    BY <1>2, <1>7, <2>1, StillFew DEF GlobalRulesOnce
<1>11. Building(e)'
  BY <1>2, <1>4, <1>7 DEF Building, GlobalRulesOnce, RulesTakeEffect, Ready
<1>12. Progress(e)'
  BY <1>3, <1>4, <1>7 DEF Progress, Linking, Chaining, Wired, Unruled
<1>13. Clearing(e)'
  BY <1>3, <1>4, <1>7 DEF Clearing, Progress, Linking, Chaining, Wired, Unruled
<1> QED
  BY <1>1, <1>4, <1>5, <1>6, <1>8, <1>9, <1>10, <1>11, <1>12, <1>13, Keeps
     DEF Locking, Chaining, tables

\* Without a failure the container's end is configured.
LEMMA GuestRoutingKeeps ==
    ASSUME VethInv, NEW e \in Endpoints, GuestRouting(e)
    PROVE  VethInv'
<1> USE NoneAssumption, BoundsAssumption
<1>1. TypeOK /\ Locking
  BY DEF VethInv
<1>2. RulesTakeEffect /\ GlobalRulesOnce /\ Building(e)
  BY DEF VethInv
<1>3. Progress(e) /\ Clearing(e)
  BY DEF VethInv
<1>4. /\ pc[e] = "route"
      /\ \/ /\ pc'[e] = "nat" /\ faults' = faults
            /\ "host address" \in conf[e] => conf'[e] = Configured
         \/ pc'[e] \in {"nat", "undo"} /\ faults' = faults + 1
      /\ UNCHANGED <<known, init, mu, pair, inRules, outRules, chain, jump, masq, box>>
  <2>1. CASE Configure(e, {"guest address", "route"}) /\ Goto(e, "nat") /\ UNCHANGED faults
    <3>1. conf[e] \in SUBSET Configured /\ conf'[e] = conf[e] \cup {"guest address", "route"}
      BY <1>1, <2>1 DEF TypeOK, Configure
    <3>2. "host address" \in conf[e] => conf'[e] = Configured
      BY <3>1 DEF Configured
    <3> QED
      BY <1>1, <2>1, <3>2 DEF TypeOK, GuestRouting, Goto, memory, tables, rules
  <2>2. CASE Fault /\ (Goto(e, "nat") \/ Goto(e, "undo"))
    BY <1>1, <2>2 DEF TypeOK, GuestRouting, Goto, Fault, memory, tables, rules
  <2> QED
    BY <2>1, <2>2 DEF GuestRouting
<1>5. Elsewhere(e) /\ Counted
  BY <1>1 DEF TypeOK, Elsewhere, Counted, GuestRouting, Goto, Fault, Configure, memory, tables, rules
<1>6. TypeOK'
  <2>1. pc' \in [Endpoints -> Steps]
    BY <1>1 DEF TypeOK, GuestRouting, Goto, Steps, Joining, Linking, Chaining, Leaving
  <2>2. faults' \in 0 .. MaxFaults /\ crashes' \in 0 .. MaxCrashes
    <3>1. \/ faults' = faults
          \/ faults < MaxFaults /\ faults' = faults + 1
      BY DEF GuestRouting, Fault
    <3>2. crashes' = crashes
      BY DEF GuestRouting
    <3> QED
      BY <1>1, <3>1, <3>2 DEF TypeOK
  <2>3. Shapes'
    <3>1. PICK w \in SUBSET Configured : conf' = conf \/ conf' = [conf EXCEPT ![e] = @ \cup w]
      BY DEF GuestRouting, Configure, Configured
    <3>2. conf' \in [Endpoints -> SUBSET Configured]
      BY <1>1, <3>1 DEF TypeOK
    <3> QED
      BY <1>1, <3>2 DEF TypeOK, Shapes, GuestRouting, memory, tables, rules
  <2> QED
    BY <2>1, <2>2, <2>3 DEF TypeOK, Shapes
<1>7. /\ faults \in Nat /\ jump \in Nat /\ masq \in Nat
      /\ inRules[e] \in Nat /\ outRules[e] \in Nat
      /\ faults <= faults' /\ faults' \in Nat /\ crashes' = crashes
  BY <1>1, <1>5 DEF TypeOK, Counted
<1>8. Locking'
  BY <1>1, <1>4, <1>5 DEF Locking, Elsewhere, Chaining
<1>9. RulesTakeEffect'
  BY <1>2, <1>4, <1>5, <1>7 DEF RulesTakeEffect, Ready, Building, Elsewhere
<1>10. GlobalRulesOnce'
  <2>1. UNCHANGED <<jump, masq>>
    BY <1>4
  <2> QED
    BY <1>2, <1>7, <2>1, StillFew DEF GlobalRulesOnce
<1>11. Building(e)'
  BY <1>2, <1>4, <1>7 DEF Building, GlobalRulesOnce, RulesTakeEffect, Ready
<1>12. Progress(e)'
  <2>1. /\ pair[e] = "ready" /\ box[e] = "given" /\ inRules[e] = 0 /\ outRules[e] = 0
        /\ faults = 0 => "host address" \in conf[e]
    BY <1>3, <1>4 DEF Progress, Linking, Wired, Unruled
  <2>2. /\ pc'[e] \in {"nat", "undo"}
        /\ faults' = 0 => pc'[e] = "nat" /\ conf'[e] = Configured
    <3>1. faults + 1 # 0
      BY <1>7
    <3> QED
      BY <1>4, <2>1, <3>1
  <2>3. UNCHANGED <<pair, box, inRules, outRules>>
    BY <1>4
  <2> QED
    BY <2>1, <2>2, <2>3 DEF Progress, Linking, Chaining, Wired, Unruled
<1>13. Clearing(e)'
  BY <1>3, <1>4, <1>7 DEF Clearing, Progress, Linking, Chaining, Wired, Unruled
<1> QED
  BY <1>1, <1>4, <1>5, <1>6, <1>8, <1>9, <1>10, <1>11, <1>12, <1>13, Keeps
     DEF Locking, Chaining, tables

\* A pair that stays costs a failure.
LEMMA UndoKeeps ==
    ASSUME VethInv, NEW e \in Endpoints, Undo(e)
    PROVE  VethInv'
<1> USE NoneAssumption, BoundsAssumption
<1>1. TypeOK /\ Locking
  BY DEF VethInv
<1>2. RulesTakeEffect /\ GlobalRulesOnce /\ Building(e)
  BY DEF VethInv
<1>3. Progress(e) /\ Clearing(e)
  BY DEF VethInv
<1>4. /\ pc[e] = "undo"
      /\ pc'[e] = "failed"
      /\ \/ pair'[e] = "none" /\ conf'[e] = {} /\ faults' = faults
         \/ pair'[e] = pair[e] /\ conf'[e] = conf[e] /\ faults' = faults + 1
      /\ UNCHANGED <<known, init, mu, inRules, outRules, chain, jump, masq, box>>
  BY <1>1, <1>3 DEF TypeOK, Progress, Undo, Goto, Fault, DeletePair, memory, tables, links, rules
<1>5. Elsewhere(e) /\ Counted
  BY <1>1 DEF TypeOK, Elsewhere, Counted, Undo, Goto, Fault, DeletePair, memory, tables, links, rules
<1>6. TypeOK'
  <2>1. pc' \in [Endpoints -> Steps]
    BY <1>1 DEF TypeOK, Undo, Goto, Steps, Joining, Linking, Chaining, Leaving
  <2>2. faults' \in 0 .. MaxFaults /\ crashes' \in 0 .. MaxCrashes
    BY <1>1 DEF TypeOK, Undo, Fault
  <2>3. Shapes'
    BY <1>1 DEF TypeOK, Shapes, Undo, Goto, Fault, DeletePair, memory, tables, links, Pairs, rules
  <2> QED
    BY <2>1, <2>2, <2>3 DEF TypeOK, Shapes
<1>7. /\ faults \in Nat /\ jump \in Nat /\ masq \in Nat
      /\ inRules[e] \in Nat /\ outRules[e] \in Nat
      /\ faults <= faults' /\ faults' \in Nat /\ crashes' = crashes
  BY <1>1, <1>5 DEF TypeOK, Counted
<1>8. Locking'
  BY <1>1, <1>4, <1>5 DEF Locking, Elsewhere, Chaining
<1>9. RulesTakeEffect'
  BY <1>2, <1>4, <1>5, <1>7 DEF RulesTakeEffect, Ready, Building, Elsewhere
<1>10. GlobalRulesOnce'
  <2>1. UNCHANGED <<jump, masq>>
    BY <1>4
  <2> QED
    BY <1>2, <1>7, <2>1, StillFew DEF GlobalRulesOnce
<1>11. Building(e)'
  BY <1>2, <1>4, <1>7 DEF Building, GlobalRulesOnce, RulesTakeEffect, Ready
<1>12. Progress(e)'
  BY <1>3, <1>4, <1>7 DEF Progress, Linking, Chaining, Wired, Unruled
<1>13. Clearing(e)'
  BY <1>3, <1>4, <1>7 DEF Clearing, Progress, Linking, Chaining, Wired, Unruled
<1> QED
  BY <1>1, <1>4, <1>5, <1>6, <1>8, <1>9, <1>10, <1>11, <1>12, <1>13, Keeps
     DEF Locking, Chaining, tables

\* chainMu is taken only while nobody has it.
LEMMA EnterNATKeeps ==
    ASSUME VethInv, NEW e \in Endpoints, EnterNAT(e)
    PROVE  VethInv'
<1> USE NoneAssumption, BoundsAssumption
<1>1. TypeOK /\ Locking
  BY DEF VethInv
<1>2. RulesTakeEffect /\ GlobalRulesOnce /\ Building(e)
  BY DEF VethInv
<1>3. Progress(e) /\ Clearing(e)
  BY DEF VethInv
<1>4. /\ pc[e] = "nat"
      /\ mu = None /\ faults' = faults
      /\ \/ init /\ pc'[e] = "addin" /\ mu' = mu
         \/ pc'[e] = "newchain" /\ mu' = e
      /\ UNCHANGED <<known, init, pair, conf, inRules, outRules, chain, jump, masq, box>>
  BY <1>1, <1>3 DEF TypeOK, Progress, EnterNAT, Goto, tables, links, bounds, memory, rules
<1>5. Elsewhere(e) /\ Counted
  BY <1>1 DEF TypeOK, Elsewhere, Counted, EnterNAT, Goto, tables, links, bounds, memory, rules
<1>6. TypeOK'
  <2>1. pc' \in [Endpoints -> Steps]
    BY <1>1 DEF TypeOK, EnterNAT, Goto, Steps, Joining, Linking, Chaining, Leaving
  <2>2. faults' \in 0 .. MaxFaults /\ crashes' \in 0 .. MaxCrashes
    BY <1>1 DEF TypeOK, EnterNAT, bounds
  <2>3. Shapes'
    BY <1>1 DEF TypeOK, Shapes, EnterNAT, Goto, tables, links, bounds, memory, rules
  <2> QED
    BY <2>1, <2>2, <2>3 DEF TypeOK, Shapes
<1>7. /\ faults \in Nat /\ jump \in Nat /\ masq \in Nat
      /\ inRules[e] \in Nat /\ outRules[e] \in Nat
      /\ faults <= faults' /\ faults' \in Nat /\ crashes' = crashes
  BY <1>1, <1>5 DEF TypeOK, Counted
<1>8. Locking'
  BY <1>1, <1>4, <1>5 DEF Locking, Elsewhere, Chaining
<1>9. RulesTakeEffect'
  BY <1>2, <1>4, <1>5, <1>7 DEF RulesTakeEffect, Ready, Building, Elsewhere
<1>10. GlobalRulesOnce'
  <2>1. UNCHANGED <<jump, masq>>
    BY <1>4
  <2> QED
    BY <1>2, <1>7, <2>1, StillFew DEF GlobalRulesOnce
<1>11. Building(e)'
  BY <1>2, <1>4, <1>7 DEF Building, GlobalRulesOnce, RulesTakeEffect, Ready
<1>12. Progress(e)'
  BY <1>3, <1>4, <1>7 DEF Progress, Linking, Chaining, Wired, Unruled
<1>13. Clearing(e)'
  BY <1>3, <1>4, <1>7 DEF Clearing, Progress, Linking, Chaining, Wired, Unruled
<1> QED
  BY <1>1, <1>4, <1>5, <1>6, <1>8, <1>9, <1>10, <1>11, <1>12, <1>13, Keeps
     DEF Locking, Chaining, tables

\* Without a failure there is a chain afterwards.
LEMMA NewChainKeeps ==
    ASSUME VethInv, NEW e \in Endpoints, NewChain(e)
    PROVE  VethInv'
<1> USE NoneAssumption, BoundsAssumption
<1>1. TypeOK /\ Locking
  BY DEF VethInv
<1>2. RulesTakeEffect /\ GlobalRulesOnce /\ Building(e)
  BY DEF VethInv
<1>3. Progress(e) /\ Clearing(e)
  BY DEF VethInv
<1>4. /\ pc[e] = "newchain"
      /\ pc'[e] = "checkjump"
      /\ \/ chain' = TRUE /\ faults' = faults
         \/ chain' = chain /\ faults' = faults + 1
      /\ UNCHANGED <<known, init, mu, pair, conf, inRules, outRules, jump, masq, box>>
  BY <1>1, <1>3 DEF TypeOK, Progress, NewChain, Goto, Fault, memory, links, rules
<1>5. Elsewhere(e) /\ Counted
  BY <1>1 DEF TypeOK, Elsewhere, Counted, NewChain, Goto, Fault, memory, links, rules
<1>6. TypeOK'
  <2>1. pc' \in [Endpoints -> Steps]
    BY <1>1 DEF TypeOK, NewChain, Goto, Steps, Joining, Linking, Chaining, Leaving
  <2>2. faults' \in 0 .. MaxFaults /\ crashes' \in 0 .. MaxCrashes
    BY <1>1 DEF TypeOK, NewChain, Fault
  <2>3. Shapes'
    BY <1>1 DEF TypeOK, Shapes, NewChain, Goto, Fault, memory, links, rules
  <2> QED
    BY <2>1, <2>2, <2>3 DEF TypeOK, Shapes
<1>7. /\ faults \in Nat /\ jump \in Nat /\ masq \in Nat
      /\ inRules[e] \in Nat /\ outRules[e] \in Nat
      /\ faults <= faults' /\ faults' \in Nat /\ crashes' = crashes
  BY <1>1, <1>5 DEF TypeOK, Counted
<1>8. Locking'
  BY <1>1, <1>4, <1>5 DEF Locking, Elsewhere, Chaining
<1>9. RulesTakeEffect'
  BY <1>2, <1>4, <1>5, <1>7 DEF RulesTakeEffect, Ready, Building, Elsewhere
<1>10. GlobalRulesOnce'
  <2>1. UNCHANGED <<jump, masq>>
    BY <1>4
  <2> QED
    BY <1>2, <1>7, <2>1, StillFew DEF GlobalRulesOnce
<1>11. Building(e)'
  BY <1>2, <1>4, <1>7 DEF Building, GlobalRulesOnce, RulesTakeEffect, Ready
<1>12. Progress(e)'
  BY <1>3, <1>4, <1>7 DEF Progress, Linking, Chaining, Wired, Unruled
<1>13. Clearing(e)'
  BY <1>3, <1>4, <1>7 DEF Clearing, Progress, Linking, Chaining, Wired, Unruled
<1> QED
  BY <1>1, <1>4, <1>5, <1>6, <1>8, <1>9, <1>10, <1>11, <1>12, <1>13, Keeps
     DEF Locking, Chaining, tables

\* A jump that is overlooked costs a failure.
LEMMA CheckJumpKeeps ==
    ASSUME VethInv, NEW e \in Endpoints, CheckJump(e)
    PROVE  VethInv'
<1> USE NoneAssumption, BoundsAssumption
<1>1. TypeOK /\ Locking
  BY DEF VethInv
<1>2. RulesTakeEffect /\ GlobalRulesOnce /\ Building(e)
  BY DEF VethInv
<1>3. Progress(e) /\ Clearing(e)
  BY DEF VethInv
<1>4. /\ pc[e] = "checkjump"
      /\ \/ jump > 0 /\ pc'[e] = "checkmasq" /\ faults' = faults
         \/ jump = 0 /\ pc'[e] = "addjump" /\ faults' = faults
         \/ jump > 0 /\ pc'[e] = "addjump" /\ faults' = faults + 1
      /\ UNCHANGED <<known, init, mu, pair, conf, inRules, outRules, chain, jump, masq, box>>
  BY <1>1, <1>3 DEF TypeOK, Progress, CheckJump, Goto, Fault, memory, links, tables, rules
<1>5. Elsewhere(e) /\ Counted
  BY <1>1 DEF TypeOK, Elsewhere, Counted, CheckJump, Goto, Fault, memory, links, tables, rules
<1>6. TypeOK'
  <2>1. pc' \in [Endpoints -> Steps]
    BY <1>1 DEF TypeOK, CheckJump, Goto, Steps, Joining, Linking, Chaining, Leaving
  <2>2. faults' \in 0 .. MaxFaults /\ crashes' \in 0 .. MaxCrashes
    BY <1>1 DEF TypeOK, CheckJump, Fault
  <2>3. Shapes'
    BY <1>1 DEF TypeOK, Shapes, CheckJump, Goto, Fault, memory, links, tables, rules
  <2> QED
    BY <2>1, <2>2, <2>3 DEF TypeOK, Shapes
<1>7. /\ faults \in Nat /\ jump \in Nat /\ masq \in Nat
      /\ inRules[e] \in Nat /\ outRules[e] \in Nat
      /\ faults <= faults' /\ faults' \in Nat /\ crashes' = crashes
  BY <1>1, <1>5 DEF TypeOK, Counted
<1>8. Locking'
  BY <1>1, <1>4, <1>5 DEF Locking, Elsewhere, Chaining
<1>9. RulesTakeEffect'
  BY <1>2, <1>4, <1>5, <1>7 DEF RulesTakeEffect, Ready, Building, Elsewhere
<1>10. GlobalRulesOnce'
  <2>1. UNCHANGED <<jump, masq>>
    BY <1>4
  <2> QED
    BY <1>2, <1>7, <2>1, StillFew DEF GlobalRulesOnce
<1>11. Building(e)'
  BY <1>2, <1>4, <1>7 DEF Building, GlobalRulesOnce, RulesTakeEffect, Ready
<1>12. Progress(e)'
  <2>1. /\ pair[e] = "ready" /\ box[e] = "given" /\ inRules[e] = 0 /\ outRules[e] = 0
        /\ faults = 0 => conf[e] = Configured
    BY <1>3, <1>4 DEF Progress, Chaining, Wired, Unruled
  <2>2. pc'[e] \in {"checkmasq", "addjump"}
    BY <1>4, <1>7
  <2>3. faults' = 0 => faults = 0
    BY <1>7
  <2>4. UNCHANGED <<pair, box, inRules, outRules, conf>>
    BY <1>4
  <2> QED
    BY <2>1, <2>2, <2>3, <2>4 DEF Progress, Linking, Chaining, Wired, Unruled
<1>13. Clearing(e)'
  BY <1>3, <1>4, <1>7 DEF Clearing, Progress, Linking, Chaining, Wired, Unruled
<1> QED
  BY <1>1, <1>4, <1>5, <1>6, <1>8, <1>9, <1>10, <1>11, <1>12, <1>13, Keeps
     DEF Locking, Chaining, tables

\* One jump more, where there were no more than failures.
LEMMA AddJumpKeeps ==
    ASSUME VethInv, NEW e \in Endpoints, AddJump(e)
    PROVE  VethInv'
<1> USE NoneAssumption, BoundsAssumption
<1>1. TypeOK /\ Locking
  BY DEF VethInv
<1>2. RulesTakeEffect /\ GlobalRulesOnce /\ Building(e)
  BY DEF VethInv
<1>3. Progress(e) /\ Clearing(e)
  BY DEF VethInv
<1>4. /\ pc[e] = "addjump"
      /\ \/ chain /\ jump' = jump + 1 /\ pc'[e] = "checkmasq" /\ mu' = mu /\ faults' = faults
         \/ /\ pc'[e] = "store" /\ mu' = None /\ jump' = jump /\ faults' # 0
      /\ UNCHANGED <<known, init, pair, conf, inRules, outRules, chain, masq, box>>
  BY <1>1, <1>2, <1>3 DEF TypeOK, Progress, AddJump, Goto, Fault, links, rules, Building, RulesTakeEffect, Ready
<1>5. Elsewhere(e) /\ Counted
  BY <1>1 DEF TypeOK, Elsewhere, Counted, AddJump, Goto, Fault, links, rules
<1>6. TypeOK'
  <2>1. pc' \in [Endpoints -> Steps]
    BY <1>1 DEF TypeOK, AddJump, Goto, Steps, Joining, Linking, Chaining, Leaving
  <2>2. faults' \in 0 .. MaxFaults /\ crashes' \in 0 .. MaxCrashes
    BY <1>1 DEF TypeOK, AddJump, Fault
  <2>3. Shapes'
    BY <1>1 DEF TypeOK, Shapes, AddJump, Goto, Fault, links, rules
  <2> QED
    BY <2>1, <2>2, <2>3 DEF TypeOK, Shapes
<1>7. /\ faults \in Nat /\ jump \in Nat /\ masq \in Nat
      /\ inRules[e] \in Nat /\ outRules[e] \in Nat
      /\ faults <= faults' /\ faults' \in Nat /\ crashes' = crashes
  BY <1>1, <1>5 DEF TypeOK, Counted
<1>8. Locking'
  BY <1>1, <1>4, <1>5 DEF Locking, Elsewhere, Chaining
<1>9. RulesTakeEffect'
  BY <1>2, <1>4, <1>5, <1>7 DEF RulesTakeEffect, Ready, Building, Elsewhere
<1>10. GlobalRulesOnce'
  <2>1. jump <= faults /\ jump' \in {jump, jump + 1} /\ masq' = masq
    BY <1>2, <1>4 DEF Building
  <2>2. jump' \in Nat /\ jump' <= 1 + faults
    BY <1>7, <2>1
  <2> QED
    BY <1>2, <1>7, <2>1, <2>2, StillFew DEF GlobalRulesOnce
<1>11. Building(e)'
  BY <1>2, <1>4, <1>7 DEF Building, GlobalRulesOnce, RulesTakeEffect, Ready
<1>12. Progress(e)'
  BY <1>3, <1>4, <1>7 DEF Progress, Linking, Chaining, Wired, Unruled
<1>13. Clearing(e)'
  BY <1>3, <1>4, <1>7 DEF Clearing, Progress, Linking, Chaining, Wired, Unruled
<1> QED
  BY <1>1, <1>4, <1>5, <1>6, <1>8, <1>9, <1>10, <1>11, <1>12, <1>13, Keeps
     DEF Locking, Chaining, tables

\* Once both global rules are seen the chain is initialised.
LEMMA CheckMasqKeeps ==
    ASSUME VethInv, NEW e \in Endpoints, CheckMasq(e)
    PROVE  VethInv'
<1> USE NoneAssumption, BoundsAssumption
<1>1. TypeOK /\ Locking
  BY DEF VethInv
<1>2. RulesTakeEffect /\ GlobalRulesOnce /\ Building(e)
  BY DEF VethInv
<1>3. Progress(e) /\ Clearing(e)
  BY DEF VethInv
<1>4. /\ pc[e] = "checkmasq"
      /\ \/ masq > 0 /\ init' = TRUE /\ mu' = None /\ pc'[e] = "addin" /\ faults' = faults
         \/ /\ init' = init /\ mu' = mu /\ pc'[e] = "addmasq"
            /\ faults' = IF masq = 0 THEN faults ELSE faults + 1
      /\ UNCHANGED <<known, pair, conf, inRules, outRules, chain, jump, masq, box>>
  BY <1>1, <1>3 DEF TypeOK, Progress, CheckMasq, Goto, Fault, Initialized, links, tables, rules
<1>5. Elsewhere(e) /\ Counted
  BY <1>1 DEF TypeOK, Elsewhere, Counted, CheckMasq, Goto, Fault, Initialized, links, tables, rules
<1>6. TypeOK'
  <2>1. pc' \in [Endpoints -> Steps]
    BY <1>1 DEF TypeOK, CheckMasq, Goto, Initialized, Steps, Joining, Linking, Chaining, Leaving
  <2>2. faults' \in 0 .. MaxFaults /\ crashes' \in 0 .. MaxCrashes
    BY <1>1 DEF TypeOK, CheckMasq, Fault, Initialized
  <2>3. Shapes'
    BY <1>1 DEF TypeOK, Shapes, CheckMasq, Goto, Fault, Initialized, links, tables, rules
  <2> QED
    BY <2>1, <2>2, <2>3 DEF TypeOK, Shapes
<1>7. /\ faults \in Nat /\ jump \in Nat /\ masq \in Nat
      /\ inRules[e] \in Nat /\ outRules[e] \in Nat
      /\ faults <= faults' /\ faults' \in Nat /\ crashes' = crashes
  BY <1>1, <1>5 DEF TypeOK, Counted
<1>8. Locking'
  BY <1>1, <1>4, <1>5 DEF Locking, Elsewhere, Chaining
<1>9. RulesTakeEffect'
  BY <1>2, <1>4, <1>5, <1>7 DEF RulesTakeEffect, Ready, Building, Elsewhere
<1>10. GlobalRulesOnce'
  <2>1. UNCHANGED <<jump, masq>>
    BY <1>4
  <2> QED
    BY <1>2, <1>7, <2>1, StillFew DEF GlobalRulesOnce
<1>11. Building(e)'
  BY <1>2, <1>4, <1>7 DEF Building, GlobalRulesOnce, RulesTakeEffect, Ready
<1>12. Progress(e)'
  <2>1. /\ pair[e] = "ready" /\ box[e] = "given" /\ inRules[e] = 0 /\ outRules[e] = 0
        /\ faults = 0 => conf[e] = Configured
    BY <1>3, <1>4 DEF Progress, Chaining, Wired, Unruled
  <2>2. pc'[e] \in {"addin", "addmasq"}
    BY <1>4, <1>7
  <2>3. faults' = 0 => faults = 0
    BY <1>7
  <2>4. UNCHANGED <<pair, box, inRules, outRules, conf>>
    BY <1>4
  <2> QED
    BY <2>1, <2>2, <2>3, <2>4 DEF Progress, Linking, Chaining, Wired, Unruled
<1>13. Clearing(e)'
  BY <1>3, <1>4, <1>7 DEF Clearing, Progress, Linking, Chaining, Wired, Unruled
<1> QED
  BY <1>1, <1>4, <1>5, <1>6, <1>8, <1>9, <1>10, <1>11, <1>12, <1>13, Keeps
     DEF Locking, Chaining, tables

\* One MASQUERADE rule more, where there were no more than failures.
LEMMA AddMasqKeeps ==
    ASSUME VethInv, NEW e \in Endpoints, AddMasq(e)
    PROVE  VethInv'
<1> USE NoneAssumption, BoundsAssumption
<1>1. TypeOK /\ Locking
  BY DEF VethInv
<1>2. RulesTakeEffect /\ GlobalRulesOnce /\ Building(e)
  BY DEF VethInv
<1>3. Progress(e) /\ Clearing(e)
  BY DEF VethInv
<1>4. /\ pc[e] = "addmasq"
      /\ mu' = None
      /\ \/ masq' = masq + 1 /\ init' = TRUE /\ pc'[e] = "addin" /\ faults' = faults
         \/ masq' = masq /\ init' = init /\ pc'[e] = "store" /\ faults' = faults + 1
      /\ UNCHANGED <<known, pair, conf, inRules, outRules, chain, jump, box>>
  BY <1>1, <1>3 DEF TypeOK, Progress, AddMasq, Goto, Fault, Initialized, links, rules
<1>5. Elsewhere(e) /\ Counted
  BY <1>1 DEF TypeOK, Elsewhere, Counted, AddMasq, Goto, Fault, Initialized, links, rules
<1>6. TypeOK'
  <2>1. pc' \in [Endpoints -> Steps]
    BY <1>1 DEF TypeOK, AddMasq, Goto, Initialized, Steps, Joining, Linking, Chaining, Leaving
  <2>2. faults' \in 0 .. MaxFaults /\ crashes' \in 0 .. MaxCrashes
    BY <1>1 DEF TypeOK, AddMasq, Fault, Initialized
  <2>3. Shapes'
    <3>1. masq \in Nat /\ masq' \in {masq, masq + 1}
      BY <1>1, <1>4 DEF TypeOK
    <3>2. masq' \in Nat
      BY <3>1
    <3>3. mu' = None /\ init' \in {init, TRUE}
      BY <1>4
    <3>4. UNCHANGED <<known, pair, conf, inRules, outRules, chain, jump, box>>
      BY <1>4
    <3> QED
      BY <1>1, <3>2, <3>3, <3>4 DEF TypeOK, Shapes
  <2> QED
    BY <2>1, <2>2, <2>3 DEF TypeOK, Shapes
<1>7. /\ faults \in Nat /\ jump \in Nat /\ masq \in Nat
      /\ inRules[e] \in Nat /\ outRules[e] \in Nat
      /\ faults <= faults' /\ faults' \in Nat /\ crashes' = crashes
  BY <1>1, <1>5 DEF TypeOK, Counted
<1>8. Locking'
  BY <1>1, <1>4, <1>5 DEF Locking, Elsewhere, Chaining
<1>9. RulesTakeEffect'
  BY <1>2, <1>4, <1>5, <1>7 DEF RulesTakeEffect, Ready, Building, Elsewhere
<1>10. GlobalRulesOnce'
  BY <1>2, <1>4, <1>7 DEF GlobalRulesOnce, Building
<1>11. Building(e)'
  BY <1>2, <1>4, <1>7 DEF Building, GlobalRulesOnce, RulesTakeEffect, Ready
<1>12. Progress(e)'
  <2>1. /\ pair[e] = "ready" /\ box[e] = "given" /\ inRules[e] = 0 /\ outRules[e] = 0
        /\ faults = 0 => conf[e] = Configured
    BY <1>3, <1>4 DEF Progress, Chaining, Wired, Unruled
  <2>2. pc'[e] \in {"addin", "store"} /\ (pc'[e] = "store" => faults' # 0)
    BY <1>4, <1>7
  <2>3. faults' = 0 => faults = 0
    BY <1>7
  <2>4. UNCHANGED <<pair, box, inRules, outRules, conf>>
    BY <1>4
  <2> QED
    BY <2>1, <2>2, <2>3, <2>4 DEF Progress, Linking, Chaining, Wired, Unruled
<1>13. Clearing(e)'
  BY <1>3, <1>4, <1>7 DEF Clearing, Progress, Linking, Chaining, Wired, Unruled
<1> QED
  BY <1>1, <1>4, <1>5, <1>6, <1>8, <1>9, <1>10, <1>11, <1>12, <1>13, Keeps
     DEF Locking, Chaining, tables

\* A rule goes to a chain that is initialised.
LEMMA AddInKeeps ==
    ASSUME VethInv, NEW e \in Endpoints, AddIn(e)
    PROVE  VethInv'
<1> USE NoneAssumption, BoundsAssumption
<1>1. TypeOK /\ Locking
  BY DEF VethInv
<1>2. RulesTakeEffect /\ GlobalRulesOnce /\ Building(e)
  BY DEF VethInv
<1>3. Progress(e) /\ Clearing(e)
  BY DEF VethInv
<1>4. /\ pc[e] = "addin"
      /\ pc'[e] = "addout"
      /\ \/ inRules'[e] = inRules[e] + 1 /\ faults' = faults
         \/ inRules'[e] = inRules[e] /\ faults' = faults + 1
      /\ UNCHANGED <<known, init, mu, pair, conf, outRules, chain, jump, masq, box>>
  BY <1>1, <1>2, <1>3 DEF TypeOK, Progress, AddIn, Goto, Fault, memory, links, tables, rules, Building, RulesTakeEffect, Ready
<1>5. Elsewhere(e) /\ Counted
  BY <1>1 DEF TypeOK, Elsewhere, Counted, AddIn, Goto, Fault, memory, links, tables, rules
<1>6. TypeOK'
  <2>1. pc' \in [Endpoints -> Steps]
    BY <1>1 DEF TypeOK, AddIn, Goto, Steps, Joining, Linking, Chaining, Leaving
  <2>2. faults' \in 0 .. MaxFaults /\ crashes' \in 0 .. MaxCrashes
    BY <1>1 DEF TypeOK, AddIn, Fault
  <2>3. Shapes'
    BY <1>1 DEF TypeOK, Shapes, AddIn, Goto, Fault, memory, links, tables, rules
  <2> QED
    BY <2>1, <2>2, <2>3 DEF TypeOK, Shapes
<1>7. /\ faults \in Nat /\ jump \in Nat /\ masq \in Nat
      /\ inRules[e] \in Nat /\ outRules[e] \in Nat
      /\ faults <= faults' /\ faults' \in Nat /\ crashes' = crashes
  BY <1>1, <1>5 DEF TypeOK, Counted
<1>8. Locking'
  BY <1>1, <1>4, <1>5 DEF Locking, Elsewhere, Chaining
<1>9. RulesTakeEffect'
  BY <1>2, <1>4, <1>5, <1>7 DEF RulesTakeEffect, Ready, Building, Elsewhere
<1>10. GlobalRulesOnce'
  <2>1. UNCHANGED <<jump, masq>>
    BY <1>4
  <2> QED
    BY <1>2, <1>7, <2>1, StillFew DEF GlobalRulesOnce
<1>11. Building(e)'
  BY <1>2, <1>4, <1>7 DEF Building, GlobalRulesOnce, RulesTakeEffect, Ready
<1>12. Progress(e)'
  BY <1>3, <1>4, <1>7 DEF Progress, Linking, Chaining, Wired, Unruled
<1>13. Clearing(e)'
  BY <1>3, <1>4, <1>7 DEF Clearing, Progress, Linking, Chaining, Wired, Unruled
<1> QED
  BY <1>1, <1>4, <1>5, <1>6, <1>8, <1>9, <1>10, <1>11, <1>12, <1>13, Keeps
     DEF Locking, Chaining, tables

\* A rule goes to a chain that is initialised.
LEMMA AddOutKeeps ==
    ASSUME VethInv, NEW e \in Endpoints, AddOut(e)
    PROVE  VethInv'
<1> USE NoneAssumption, BoundsAssumption
<1>1. TypeOK /\ Locking
  BY DEF VethInv
<1>2. RulesTakeEffect /\ GlobalRulesOnce /\ Building(e)
  BY DEF VethInv
<1>3. Progress(e) /\ Clearing(e)
  BY DEF VethInv
<1>4. /\ pc[e] = "addout"
      /\ pc'[e] = "store"
      /\ \/ outRules'[e] = outRules[e] + 1 /\ faults' = faults
         \/ outRules'[e] = outRules[e] /\ faults' = faults + 1
      /\ UNCHANGED <<known, init, mu, pair, conf, inRules, chain, jump, masq, box>>
  BY <1>1, <1>2, <1>3 DEF TypeOK, Progress, AddOut, Goto, Fault, memory, links, tables, rules, Building, RulesTakeEffect, Ready
<1>5. Elsewhere(e) /\ Counted
  BY <1>1 DEF TypeOK, Elsewhere, Counted, AddOut, Goto, Fault, memory, links, tables, rules
<1>6. TypeOK'
  <2>1. pc' \in [Endpoints -> Steps]
    BY <1>1 DEF TypeOK, AddOut, Goto, Steps, Joining, Linking, Chaining, Leaving
  <2>2. faults' \in 0 .. MaxFaults /\ crashes' \in 0 .. MaxCrashes
    BY <1>1 DEF TypeOK, AddOut, Fault
  <2>3. Shapes'
    BY <1>1 DEF TypeOK, Shapes, AddOut, Goto, Fault, memory, links, tables, rules
  <2> QED
    BY <2>1, <2>2, <2>3 DEF TypeOK, Shapes
<1>7. /\ faults \in Nat /\ jump \in Nat /\ masq \in Nat
      /\ inRules[e] \in Nat /\ outRules[e] \in Nat
      /\ faults <= faults' /\ faults' \in Nat /\ crashes' = crashes
  BY <1>1, <1>5 DEF TypeOK, Counted
<1>8. Locking'
  BY <1>1, <1>4, <1>5 DEF Locking, Elsewhere, Chaining
<1>9. RulesTakeEffect'
  BY <1>2, <1>4, <1>5, <1>7 DEF RulesTakeEffect, Ready, Building, Elsewhere
<1>10. GlobalRulesOnce'
  <2>1. UNCHANGED <<jump, masq>>
    BY <1>4
  <2> QED
    BY <1>2, <1>7, <2>1, StillFew DEF GlobalRulesOnce
<1>11. Building(e)'
  BY <1>2, <1>4, <1>7 DEF Building, GlobalRulesOnce, RulesTakeEffect, Ready
<1>12. Progress(e)'
  BY <1>3, <1>4, <1>7 DEF Progress, Linking, Chaining, Wired, Unruled
<1>13. Clearing(e)'
  BY <1>3, <1>4, <1>7 DEF Clearing, Progress, Linking, Chaining, Wired, Unruled
<1> QED
  BY <1>1, <1>4, <1>5, <1>6, <1>8, <1>9, <1>10, <1>11, <1>12, <1>13, Keeps
     DEF Locking, Chaining, tables

\* Nothing changes in the kernel.
LEMMA StoreKeeps ==
    ASSUME VethInv, NEW e \in Endpoints, Store(e)
    PROVE  VethInv'
<1> USE NoneAssumption, BoundsAssumption
<1>1. TypeOK /\ Locking
  BY DEF VethInv
<1>2. RulesTakeEffect /\ GlobalRulesOnce /\ Building(e)
  BY DEF VethInv
<1>3. Progress(e) /\ Clearing(e)
  BY DEF VethInv
<1>4. /\ pc[e] = "store"
      /\ pc'[e] = "joined" /\ known' = known \cup {e} /\ faults' = faults
      /\ UNCHANGED <<init, mu, pair, conf, inRules, outRules, chain, jump, masq, box>>
  BY <1>1, <1>3 DEF TypeOK, Progress, Store, Goto, links, tables, bounds, rules
<1>5. Elsewhere(e) /\ Counted
  BY <1>1 DEF TypeOK, Elsewhere, Counted, Store, Goto, links, tables, bounds, rules
<1>6. TypeOK'
  <2>1. pc' \in [Endpoints -> Steps]
    BY <1>1 DEF TypeOK, Store, Goto, Steps, Joining, Linking, Chaining, Leaving
  <2>2. faults' \in 0 .. MaxFaults /\ crashes' \in 0 .. MaxCrashes
    BY <1>1 DEF TypeOK, Store, bounds
  <2>3. Shapes'
    BY <1>1 DEF TypeOK, Shapes, Store, Goto, links, tables, bounds, rules
  <2> QED
    BY <2>1, <2>2, <2>3 DEF TypeOK, Shapes
<1>7. /\ faults \in Nat /\ jump \in Nat /\ masq \in Nat
      /\ inRules[e] \in Nat /\ outRules[e] \in Nat
      /\ faults <= faults' /\ faults' \in Nat /\ crashes' = crashes
  BY <1>1, <1>5 DEF TypeOK, Counted
<1>8. Locking'
  BY <1>1, <1>4, <1>5 DEF Locking, Elsewhere, Chaining
<1>9. RulesTakeEffect'
  BY <1>2, <1>4, <1>5, <1>7 DEF RulesTakeEffect, Ready, Building, Elsewhere
<1>10. GlobalRulesOnce'
  <2>1. UNCHANGED <<jump, masq>>
    BY <1>4
  <2> QED
    BY <1>2, <1>7, <2>1, StillFew DEF GlobalRulesOnce
<1>11. Building(e)'
  BY <1>2, <1>4, <1>7 DEF Building, GlobalRulesOnce, RulesTakeEffect, Ready
<1>12. Progress(e)'
  BY <1>3, <1>4, <1>7 DEF Progress, Linking, Chaining, Wired, Unruled
<1>13. Clearing(e)'
  BY <1>3, <1>4, <1>7 DEF Clearing, Progress, Linking, Chaining, Wired, Unruled
<1> QED
  BY <1>1, <1>4, <1>5, <1>6, <1>8, <1>9, <1>10, <1>11, <1>12, <1>13, Keeps
     DEF Locking, Chaining, tables

\* A Leave in the life of its Join knows the name.
LEMMA LeaveBeginKeeps ==
    ASSUME VethInv, NEW e \in Endpoints, LeaveBegin(e)
    PROVE  VethInv'
<1> USE NoneAssumption, BoundsAssumption
<1>1. TypeOK /\ Locking
  BY DEF VethInv
<1>2. RulesTakeEffect /\ GlobalRulesOnce /\ Building(e)
  BY DEF VethInv
<1>3. Progress(e) /\ Clearing(e)
  BY DEF VethInv
<1>4. /\ pc[e] = "joined"
      /\ pc'[e] = (IF e \in known THEN "dropin" ELSE "left") /\ faults' = faults
      /\ UNCHANGED <<known, init, mu, pair, conf, inRules, outRules, chain, jump, masq, box>>
  BY <1>1, <1>3 DEF TypeOK, Progress, LeaveBegin, Goto, Unlocked, memory, links, tables, bounds, rules
<1>5. Elsewhere(e) /\ Counted
  BY <1>1 DEF TypeOK, Elsewhere, Counted, LeaveBegin, Goto, Unlocked, memory, links, tables, bounds, rules
<1>6. TypeOK'
  <2>1. pc' \in [Endpoints -> Steps]
    BY <1>1 DEF TypeOK, LeaveBegin, Goto, Steps, Joining, Linking, Chaining, Leaving
  <2>2. faults' \in 0 .. MaxFaults /\ crashes' \in 0 .. MaxCrashes
    BY <1>1 DEF TypeOK, LeaveBegin, bounds
  <2>3. Shapes'
    BY <1>1 DEF TypeOK, Shapes, LeaveBegin, Goto, Unlocked, memory, links, tables, bounds, rules
  <2> QED
    BY <2>1, <2>2, <2>3 DEF TypeOK, Shapes
<1>7. /\ faults \in Nat /\ jump \in Nat /\ masq \in Nat
      /\ inRules[e] \in Nat /\ outRules[e] \in Nat
      /\ faults <= faults' /\ faults' \in Nat /\ crashes' = crashes
  BY <1>1, <1>5 DEF TypeOK, Counted
<1>8. Locking'
  BY <1>1, <1>4, <1>5 DEF Locking, Elsewhere, Chaining
<1>9. RulesTakeEffect'
  BY <1>2, <1>4, <1>5, <1>7 DEF RulesTakeEffect, Ready, Building, Elsewhere
<1>10. GlobalRulesOnce'
  <2>1. UNCHANGED <<jump, masq>>
    BY <1>4
  <2> QED
    BY <1>2, <1>7, <2>1, StillFew DEF GlobalRulesOnce
<1>11. Building(e)'
  BY <1>2, <1>4, <1>7 DEF Building, GlobalRulesOnce, RulesTakeEffect, Ready
<1>12. Progress(e)'
  BY <1>3, <1>4, <1>7 DEF Progress, Linking, Chaining, Wired, Unruled
<1>13. Clearing(e)'
  BY <1>3, <1>4, <1>7 DEF Clearing, Progress, Linking, Chaining, Wired, Unruled
<1> QED
  BY <1>1, <1>4, <1>5, <1>6, <1>8, <1>9, <1>10, <1>11, <1>12, <1>13, Keeps
     DEF Locking, Chaining, tables

\* The one rule there is goes, or a call has failed.
LEMMA DropInKeeps ==
    ASSUME VethInv, NEW e \in Endpoints, DropIn(e)
    PROVE  VethInv'
<1> USE NoneAssumption, BoundsAssumption
<1>1. TypeOK /\ Locking
  BY DEF VethInv
<1>2. RulesTakeEffect /\ GlobalRulesOnce /\ Building(e)
  BY DEF VethInv
<1>3. Progress(e) /\ Clearing(e)
  BY DEF VethInv
<1>4. /\ pc[e] = "dropin"
      /\ pc'[e] = "dropout"
      /\ \/ inRules'[e] = (IF inRules[e] > 0 THEN inRules[e] - 1 ELSE 0) /\ faults' = faults
         \/ inRules'[e] = inRules[e] /\ faults' = faults + 1
      /\ UNCHANGED <<known, init, mu, pair, conf, outRules, chain, jump, masq, box>>
  BY <1>1, <1>3 DEF TypeOK, Progress, DropIn, Goto, Fault, memory, links, tables, rules
<1>5. Elsewhere(e) /\ Counted
  BY <1>1 DEF TypeOK, Elsewhere, Counted, DropIn, Goto, Fault, memory, links, tables, rules
<1>6. TypeOK'
  <2>1. pc' \in [Endpoints -> Steps]
    BY <1>1 DEF TypeOK, DropIn, Goto, Steps, Joining, Linking, Chaining, Leaving
  <2>2. faults' \in 0 .. MaxFaults /\ crashes' \in 0 .. MaxCrashes
    BY <1>1 DEF TypeOK, DropIn, Fault
  <2>3. Shapes'
    BY <1>1 DEF TypeOK, Shapes, DropIn, Goto, Fault, memory, links, tables, rules
  <2> QED
    BY <2>1, <2>2, <2>3 DEF TypeOK, Shapes
<1>7. /\ faults \in Nat /\ jump \in Nat /\ masq \in Nat
      /\ inRules[e] \in Nat /\ outRules[e] \in Nat
      /\ faults <= faults' /\ faults' \in Nat /\ crashes' = crashes
  BY <1>1, <1>5 DEF TypeOK, Counted
<1>8. Locking'
  BY <1>1, <1>4, <1>5 DEF Locking, Elsewhere, Chaining
<1>9. RulesTakeEffect'
  BY <1>2, <1>4, <1>5, <1>7 DEF RulesTakeEffect, Ready, Building, Elsewhere
<1>10. GlobalRulesOnce'
  <2>1. UNCHANGED <<jump, masq>>
    BY <1>4
  <2> QED
    BY <1>2, <1>7, <2>1, StillFew DEF GlobalRulesOnce
<1>11. Building(e)'
  BY <1>2, <1>4, <1>7 DEF Building, GlobalRulesOnce, RulesTakeEffect, Ready
<1>12. Progress(e)'
  BY <1>3, <1>4, <1>7 DEF Progress, Linking, Chaining, Wired, Unruled
<1>13. Clearing(e)'
  BY <1>3, <1>4, <1>7 DEF Clearing, Progress, Linking, Chaining, Wired, Unruled
<1> QED
  BY <1>1, <1>4, <1>5, <1>6, <1>8, <1>9, <1>10, <1>11, <1>12, <1>13, Keeps
     DEF Locking, Chaining, tables

\* The one rule there is goes, or a call has failed.
LEMMA DropOutKeeps ==
    ASSUME VethInv, NEW e \in Endpoints, DropOut(e)
    PROVE  VethInv'
<1> USE NoneAssumption, BoundsAssumption
<1>1. TypeOK /\ Locking
  BY DEF VethInv
<1>2. RulesTakeEffect /\ GlobalRulesOnce /\ Building(e)
  BY DEF VethInv
<1>3. Progress(e) /\ Clearing(e)
  BY DEF VethInv
<1>4. /\ pc[e] = "dropout"
      /\ pc'[e] = "unlink"
      /\ \/ outRules'[e] = (IF outRules[e] > 0 THEN outRules[e] - 1 ELSE 0) /\ faults' = faults
         \/ outRules'[e] = outRules[e] /\ faults' = faults + 1
      /\ UNCHANGED <<known, init, mu, pair, conf, inRules, chain, jump, masq, box>>
  BY <1>1, <1>3 DEF TypeOK, Progress, DropOut, Goto, Fault, memory, links, tables, rules
<1>5. Elsewhere(e) /\ Counted
  BY <1>1 DEF TypeOK, Elsewhere, Counted, DropOut, Goto, Fault, memory, links, tables, rules
<1>6. TypeOK'
  <2>1. pc' \in [Endpoints -> Steps]
    BY <1>1 DEF TypeOK, DropOut, Goto, Steps, Joining, Linking, Chaining, Leaving
  <2>2. faults' \in 0 .. MaxFaults /\ crashes' \in 0 .. MaxCrashes
    BY <1>1 DEF TypeOK, DropOut, Fault
  <2>3. Shapes'
    BY <1>1 DEF TypeOK, Shapes, DropOut, Goto, Fault, memory, links, tables, rules
  <2> QED
    BY <2>1, <2>2, <2>3 DEF TypeOK, Shapes
<1>7. /\ faults \in Nat /\ jump \in Nat /\ masq \in Nat
      /\ inRules[e] \in Nat /\ outRules[e] \in Nat
      /\ faults <= faults' /\ faults' \in Nat /\ crashes' = crashes
  BY <1>1, <1>5 DEF TypeOK, Counted
<1>8. Locking'
  BY <1>1, <1>4, <1>5 DEF Locking, Elsewhere, Chaining
<1>9. RulesTakeEffect'
  BY <1>2, <1>4, <1>5, <1>7 DEF RulesTakeEffect, Ready, Building, Elsewhere
<1>10. GlobalRulesOnce'
  <2>1. UNCHANGED <<jump, masq>>
    BY <1>4
  <2> QED
    BY <1>2, <1>7, <2>1, StillFew DEF GlobalRulesOnce
<1>11. Building(e)'
  BY <1>2, <1>4, <1>7 DEF Building, GlobalRulesOnce, RulesTakeEffect, Ready
<1>12. Progress(e)'
  BY <1>3, <1>4, <1>7 DEF Progress, Linking, Chaining, Wired, Unruled
<1>13. Clearing(e)'
  BY <1>3, <1>4, <1>7 DEF Clearing, Progress, Linking, Chaining, Wired, Unruled
<1> QED
  BY <1>1, <1>4, <1>5, <1>6, <1>8, <1>9, <1>10, <1>11, <1>12, <1>13, Keeps
     DEF Locking, Chaining, tables

\* The pair goes, or a call has failed.
LEMMA UnlinkKeeps ==
    ASSUME VethInv, NEW e \in Endpoints, Unlink(e)
    PROVE  VethInv'
<1> USE NoneAssumption, BoundsAssumption
<1>1. TypeOK /\ Locking
  BY DEF VethInv
<1>2. RulesTakeEffect /\ GlobalRulesOnce /\ Building(e)
  BY DEF VethInv
<1>3. Progress(e) /\ Clearing(e)
  BY DEF VethInv
<1>4. /\ pc[e] = "unlink"
      /\ pc'[e] = "left"
      /\ \/ pair'[e] = "none" /\ conf'[e] = {} /\ faults' = faults
         \/ pair'[e] = pair[e] /\ conf'[e] = conf[e] /\ faults' = faults + 1
      /\ UNCHANGED <<known, init, mu, inRules, outRules, chain, jump, masq, box>>
  BY <1>1, <1>3 DEF TypeOK, Progress, Unlink, Goto, Fault, DeletePair, memory, links, tables, rules
<1>5. Elsewhere(e) /\ Counted
  BY <1>1 DEF TypeOK, Elsewhere, Counted, Unlink, Goto, Fault, DeletePair, memory, links, tables, rules
<1>6. TypeOK'
  <2>1. pc' \in [Endpoints -> Steps]
    BY <1>1 DEF TypeOK, Unlink, Goto, Steps, Joining, Linking, Chaining, Leaving
  <2>2. faults' \in 0 .. MaxFaults /\ crashes' \in 0 .. MaxCrashes
    BY <1>1 DEF TypeOK, Unlink, Fault
  <2>3. Shapes'
    BY <1>1 DEF TypeOK, Shapes, Unlink, Goto, Fault, DeletePair, memory, links, tables, Pairs, rules
  <2> QED
    BY <2>1, <2>2, <2>3 DEF TypeOK, Shapes
<1>7. /\ faults \in Nat /\ jump \in Nat /\ masq \in Nat
      /\ inRules[e] \in Nat /\ outRules[e] \in Nat
      /\ faults <= faults' /\ faults' \in Nat /\ crashes' = crashes
  BY <1>1, <1>5 DEF TypeOK, Counted
<1>8. Locking'
  BY <1>1, <1>4, <1>5 DEF Locking, Elsewhere, Chaining
<1>9. RulesTakeEffect'
  BY <1>2, <1>4, <1>5, <1>7 DEF RulesTakeEffect, Ready, Building, Elsewhere
<1>10. GlobalRulesOnce'
  <2>1. UNCHANGED <<jump, masq>>
    BY <1>4
  <2> QED
    BY <1>2, <1>7, <2>1, StillFew DEF GlobalRulesOnce
<1>11. Building(e)'
  BY <1>2, <1>4, <1>7 DEF Building, GlobalRulesOnce, RulesTakeEffect, Ready
<1>12. Progress(e)'
  BY <1>3, <1>4, <1>7 DEF Progress, Linking, Chaining, Wired, Unruled
<1>13. Clearing(e)'
  BY <1>3, <1>4, <1>7 DEF Clearing, Progress, Linking, Chaining, Wired, Unruled
<1> QED
  BY <1>1, <1>4, <1>5, <1>6, <1>8, <1>9, <1>10, <1>11, <1>12, <1>13, Keeps
     DEF Locking, Chaining, tables

\* A namespace that goes takes no rules along.
LEMMA SandboxEndsKeeps ==
    ASSUME VethInv, NEW e \in Endpoints, SandboxEnds(e)
    PROVE  VethInv'
<1> USE NoneAssumption, BoundsAssumption
<1>1. TypeOK /\ Locking
  BY DEF VethInv
<1>2. RulesTakeEffect /\ GlobalRulesOnce /\ Building(e)
  BY DEF VethInv
<1>3. Progress(e) /\ Clearing(e)
  BY DEF VethInv
<1>4. /\ pc[e] \in {"failed", "left"}
      /\ pc'[e] = pc[e] /\ box'[e] = "none" /\ faults' = faults
      /\ pair'[e] \in {pair[e], "none"}
      /\ UNCHANGED <<known, init, mu, inRules, outRules, chain, jump, masq>>
  BY <1>1, <1>3 DEF TypeOK, Progress, SandboxEnds, Goto, DeletePair, memory, links, tables, bounds, rules
<1>5. Elsewhere(e) /\ Counted
  BY <1>1 DEF TypeOK, Elsewhere, Counted, SandboxEnds, Goto, DeletePair, memory, links, tables, bounds, rules
<1>6. TypeOK'
  <2>1. pc' \in [Endpoints -> Steps]
    BY <1>1 DEF TypeOK, SandboxEnds, Goto, Steps, Joining, Linking, Chaining, Leaving
  <2>2. faults' \in 0 .. MaxFaults /\ crashes' \in 0 .. MaxCrashes
    BY <1>1 DEF TypeOK, SandboxEnds, bounds
  <2>3. Shapes'
    BY <1>1 DEF TypeOK, Shapes, SandboxEnds, Goto, DeletePair, memory, links, tables, bounds, Pairs, rules
  <2> QED
    BY <2>1, <2>2, <2>3 DEF TypeOK, Shapes
<1>7. /\ faults \in Nat /\ jump \in Nat /\ masq \in Nat
      /\ inRules[e] \in Nat /\ outRules[e] \in Nat
      /\ faults <= faults' /\ faults' \in Nat /\ crashes' = crashes
  BY <1>1, <1>5 DEF TypeOK, Counted
<1>8. Locking'
  BY <1>1, <1>4, <1>5 DEF Locking, Elsewhere, Chaining
<1>9. RulesTakeEffect'
  BY <1>2, <1>4, <1>5, <1>7 DEF RulesTakeEffect, Ready, Building, Elsewhere
<1>10. GlobalRulesOnce'
  <2>1. UNCHANGED <<jump, masq>>
    BY <1>4
  <2> QED
    BY <1>2, <1>7, <2>1, StillFew DEF GlobalRulesOnce
<1>11. Building(e)'
  BY <1>2, <1>4, <1>7 DEF Building, GlobalRulesOnce, RulesTakeEffect, Ready
<1>12. Progress(e)'
  BY <1>3, <1>4, <1>7 DEF Progress, Linking, Chaining, Wired, Unruled
<1>13. Clearing(e)'
  BY <1>3, <1>4, <1>7 DEF Clearing, Progress, Linking, Chaining, Wired, Unruled
<1> QED
  BY <1>1, <1>4, <1>5, <1>6, <1>8, <1>9, <1>10, <1>11, <1>12, <1>13, Keeps
     DEF Locking, Chaining, tables

-----------------------------------------------------------------------------
(* The plugin ends, and the theorems *)

\* What the plugin remembers is forgotten; the kernel stays as it is.
LEMMA CrashKeeps ==
    ASSUME VethInv, Crash
    PROVE  VethInv'
<1> USE NoneAssumption, BoundsAssumption
<1>0. TypeOK /\ RulesTakeEffect /\ GlobalRulesOnce
  BY DEF VethInv
<1>1. /\ UNCHANGED <<pair, conf, inRules, outRules, chain, jump, masq, box, faults>>
      /\ known' = {} /\ init' = FALSE /\ mu' = None
      /\ crashes' = crashes + 1 /\ crashes < MaxCrashes
      /\ \A e \in Endpoints :
            /\ pc'[e] \in {"idle", "failed", "joined", "left"}
            /\ pc'[e] \in {"idle", "joined"} => pc[e] = pc'[e]
  BY <1>0 DEF Crash, TypeOK, Steps, links, tables, rules
<1>2. TypeOK'
  <2>1. pc' \in [Endpoints -> Steps]
    BY <1>0 DEF TypeOK, Crash, Steps
  <2>2. faults' \in 0 .. MaxFaults /\ crashes' \in 0 .. MaxCrashes
    BY <1>0, <1>1 DEF TypeOK
  <2>3. Shapes'
    BY <1>0, <1>1 DEF TypeOK, Shapes
  <2> QED
    BY <2>1, <2>2, <2>3 DEF TypeOK, Shapes
<1>3. Locking' /\ RulesTakeEffect' /\ GlobalRulesOnce'
  BY <1>0, <1>1 DEF Locking, Chaining, RulesTakeEffect, Ready, GlobalRulesOnce
<1>4. ASSUME NEW e \in Endpoints PROVE Building(e)' /\ Progress(e)' /\ Clearing(e)'
  <2>1. Progress(e) /\ crashes' # 0
    BY <1>0, <1>1 DEF VethInv, TypeOK
  <2>2. Building(e)'
    BY <1>1 DEF Building
  <2>3. Progress(e)'
    BY <1>1, <2>1 DEF Progress, Unruled, Wired, Linking, Chaining
  <2>4. Clearing(e)'
    BY <2>1 DEF Clearing
  <2> QED
    BY <2>2, <2>3, <2>4
<1> QED
  BY <1>2, <1>3, <1>4 DEF VethInv

\* Every step keeps the invariant.
LEMMA VethNext == VethInv /\ [Next]_vars => VethInv'
<1> SUFFICES ASSUME VethInv, [Next]_vars PROVE VethInv'
  OBVIOUS
<1>1. CASE UNCHANGED vars
  BY <1>1 DEF VethInv, vars, memory, links, rules, tables, bounds, TypeOK, Locking, RulesTakeEffect,
              Ready, GlobalRulesOnce, Building, Progress, Clearing
<1>2. ASSUME NEW e \in Endpoints, JoinBegin(e) \/ JoinStep(e) PROVE VethInv'
  BY <1>2, JoinBeginKeeps, CreatePairKeeps, MoveKeeps, HostRoutingKeeps, GuestKeeps,
     GuestRoutingKeeps, UndoKeeps, EnterNATKeeps, NewChainKeeps, CheckJumpKeeps, AddJumpKeeps,
     CheckMasqKeeps, AddMasqKeeps, AddInKeeps, AddOutKeeps, StoreKeeps DEF JoinStep
<1>3. ASSUME NEW e \in Endpoints, LeaveBegin(e) \/ LeaveStep(e) \/ SandboxEnds(e) PROVE VethInv'
  BY <1>3, LeaveBeginKeeps, DropInKeeps, DropOutKeeps, UnlinkKeeps, SandboxEndsKeeps DEF LeaveStep
<1>4. CASE Crash
  BY <1>4, CrashKeeps
<1> QED
  BY <1>1, <1>2, <1>3, <1>4 DEF Next

\* The inductive invariant holds in every reachable state.
THEOREM VethSafety == Spec => []VethInv
<1>1. Init => VethInv
  BY VethInit
<1>2. VethInv /\ [Next]_vars => VethInv'
  BY VethNext
<1> QED
  BY <1>1, <1>2, PTL DEF Spec

\* The global rules are there once, but for checks that failed.
THEOREM AlwaysGlobalRulesOnce == Spec => []GlobalRulesOnce
<1>1. VethInv => GlobalRulesOnce
  BY DEF VethInv
<1> QED
  BY <1>1, VethSafety, PTL

\* A container's rules are of use.
THEOREM AlwaysTakeEffect == Spec => []RulesTakeEffect
<1>1. VethInv => RulesTakeEffect
  BY DEF VethInv
<1> QED
  BY <1>1, VethSafety, PTL

\* A container that has joined is wired, and completely so if nothing failed.
THEOREM AlwaysWired == Spec => []JoinedIsWired
<1>1. VethInv => JoinedIsWired
  BY DEF VethInv, JoinedIsWired, Progress, Wired
<1> QED
  BY <1>1, VethSafety, PTL

\* A failed Join and a Leave leave nothing behind that a failure did not.
THEOREM AlwaysCleared == Spec => []NothingLeftBehind
<1>1. VethInv => NothingLeftBehind
  BY DEF VethInv, NothingLeftBehind, Progress, Clearing, Unruled
<1> QED
  BY <1>1, VethSafety, PTL

\* Two endpoints share a subnet only if their hashes collide.
THEOREM AlwaysApart == Spec => []SubnetsApart
<1>1. SubnetsApart
  <2> SUFFICES ASSUME NEW e \in Endpoints, NEW f \in Endpoints
               PROVE  /\ Subnet(HostIP(Hash[e])) = Subnet(ContainerIP(Hash[e]))
                      /\ {HostIP(Hash[e]) % 4, ContainerIP(Hash[e]) % 4} = {1, 2}
                      /\ Collide(e, f) \/ Subnet(HostIP(Hash[e])) # Subnet(HostIP(Hash[f]))
    BY DEF SubnetsApart
  <2>1. Hash[e] \in Hashes /\ Hash[f] \in Hashes
    BY HashAssumption
  <2>2. Hash[e] % 16380 \in Nat /\ Hash[f] % 16380 \in Nat
    BY <2>1, Remainder
  <2> QED
    BY <2>1, <2>2, SubnetOfHash DEF Collide
<1> QED
  BY <1>1, PTL

=============================================================================
