------------------------- MODULE PolicyManagerProofs -------------------------
(***************************************************************************)
(* What the daemon's reconciliation guarantees for any number of           *)
(* interfaces, clients, rulesets, requests, network changes and failures.  *)
(*                                                                         *)
(* The proofs never look into the operators that compute a policy: they    *)
(* hold for any selection and any merge of rules.                          *)
(***************************************************************************)
EXTENDS PolicyManager, TLAPS

(* The part of the types that the proofs need. *)
Shape ==
    /\ forceRulesets \in ForceRulesets
    /\ tmpRulesets = [o \in DOMAIN tmpRulesets |-> tmpRulesets[o]]
    /\ conn \in [Owners -> {"none", "open", "drop_force", "drop_tmp"}]
    /\ mu \in Turns
    /\ faults \in [Failures -> Nat]

AttachSteps == {"start_attach", "watch_attach", "admin_attach"}

rulesOf(policies) == [i \in DOMAIN policies |-> policies[i].rules]

(* Only the startup turn uses the startup steps. *)
StartupTurns == mu \in {"start_attach", "start_policy"} => life = "starting"

(* Once the attach step of a turn is over, and if it succeeded, the        *)
(* selected interfaces are attached until the network or the options       *)
(* change.  The policy step relies on it.                                  *)
AttachedSelected ==
    /\ life = "running" \/ mu = "start_policy"
    /\ ~pending
    /\ mu \notin AttachSteps
    /\ "attach" \notin errs
    => attached = selectInterfaces(net, opts)

(* Between turns the memory is what the state asks for. *)
CurrentWanted ==
    Calm /\ errs = {} => rulesOf(current) = [i \in attached |-> wanted(i)]

ReconcileInv == Shape /\ StartupTurns /\ AttachedSelected /\ CurrentWanted

-----------------------------------------------------------------------------
(* Shape. *)

(* The daemon starts in the right shape. *)
LEMMA InitShape == Init => Shape
  BY DEF Init, Shape, NoForce, ForceRulesets, Turns, Failures

(* No step changes the shape of the state. *)
LEMMA ShapeStep == Shape /\ [Next]_vars => Shape'
  <1> SUFFICES ASSUME Shape, [Next]_vars PROVE Shape'
    OBVIOUS
  <1> USE DEF Shape
  <1>1. CASE Turn
    BY <1>1 DEF Turn, EgressReconcile, EgressListFails, PolicyReconcile, PolicyListFails,
                PolicyWriteFails, PolicyFailed, Fault, Failures, Exit, AfterAttach, Turns,
                managerVars
  <1>2. CASE Startup \/ WatcherReconcile
    BY <1>2 DEF Startup, WatcherReconcile, TakeTurn, Turns, managerVars
  <1>3. ASSUME NEW o \in Owners, Client(o) PROVE Shape'
    <2>1. ASSUME NEW req \in Requests, AdminMutation(o, req) PROVE Shape'
      BY <2>1 DEF AdminMutation, TakeTurn, Turns, pruneForceRulesets, ForceRulesets, NoForce
    <2>2. ASSUME NEW t \in TmpChoices, SetTemporaryRuleset(o, t) PROVE Shape'
      BY <2>2 DEF SetTemporaryRuleset, TakeTurn, Turns
    <2>3. CASE RemoveTemporaryRuleset(o)
      BY <2>3 DEF RemoveTemporaryRuleset, dropTmp, TakeTurn, Turns
    <2>4. ASSUME NEW n \in RulesetNames, NEW ifaces \in ForceChoices, NEW replace \in BOOLEAN,
                 ForceRuleset(o, n, ifaces, replace)
          PROVE  Shape'
      BY <2>4 DEF ForceRuleset, forceActivateRuleset, ForceRulesets, TakeTurn, Turns
    <2>5. ASSUME NEW n \in RulesetNames, NEW ifaces \in ForceChoices, ReleaseRuleset(o, n, ifaces)
          PROVE  Shape'
      BY <2>5 DEF ReleaseRuleset, releaseForceRuleset, ForceRulesets, TakeTurn, Turns
    <2>6. CASE Connect(o) \/ Disconnect(o)
      BY <2>6 DEF Connect, Disconnect, managerVars
    <2> QED BY <1>3, <2>1, <2>2, <2>3, <2>4, <2>5, <2>6 DEF Client
  <1>4. ASSUME NEW o \in Owners, Cleanup(o) PROVE Shape'
    <2>1. CASE removeForceRulesets(o)
      BY <2>1 DEF removeForceRulesets, NoForce, ForceRulesets, TakeTurn, Turns
    <2>2. CASE removeTemporaryRuleset(o)
      BY <2>2 DEF removeTemporaryRuleset, dropTmp, TakeTurn, Turns
    <2> QED BY <1>4, <2>1, <2>2 DEF Cleanup
  <1>5. ASSUME NEW state \in ProxyStates, setSocksProxyState(state) PROVE Shape'
    BY <1>5 DEF setSocksProxyState, TakeTurn, Turns
  <1>6. CASE Network \/ SpuriousUpdate
    BY <1>6 DEF Network, LinkEvent, LinkAdded, LinkRemoved, LinkChanged, NetChange,
                SpuriousUpdate, managerVars
  <1>7. CASE Shutdown
    BY <1>7 DEF Shutdown, Exit, managerVars, Turns
  <1>8. CASE UNCHANGED vars
    BY <1>8 DEF vars, managerVars
  <1> QED BY <1>1, <1>2, <1>3, <1>4, <1>5, <1>6, <1>7, <1>8 DEF Next

-----------------------------------------------------------------------------
(* Turns. *)

(* Only a daemon that is starting makes the startup's turn. *)
LEMMA StartupTurnsStep == Shape /\ StartupTurns /\ [Next]_vars => StartupTurns'
  <1> SUFFICES ASSUME Shape, StartupTurns, [Next]_vars PROVE StartupTurns'
    OBVIOUS
  <1> USE DEF StartupTurns
  <1>1. CASE Turn
    BY <1>1 DEF Turn, EgressReconcile, EgressListFails, PolicyReconcile, PolicyListFails,
                PolicyWriteFails, PolicyFailed, Exit, AfterAttach
  <1>2. CASE Startup \/ WatcherReconcile
    BY <1>2 DEF Startup, WatcherReconcile, TakeTurn
  <1>3. ASSUME NEW o \in Owners, Client(o) \/ Cleanup(o) PROVE StartupTurns'
    BY <1>3 DEF Client, Cleanup, AdminMutation, SetTemporaryRuleset, RemoveTemporaryRuleset,
                ForceRuleset, ReleaseRuleset, Connect, Disconnect, removeForceRulesets,
                removeTemporaryRuleset, TakeTurn
  <1>4. ASSUME NEW state \in ProxyStates, setSocksProxyState(state) PROVE StartupTurns'
    BY <1>4 DEF setSocksProxyState, TakeTurn
  <1>5. CASE Network \/ SpuriousUpdate
    BY <1>5 DEF Network, LinkEvent, LinkAdded, LinkRemoved, LinkChanged, NetChange,
                SpuriousUpdate
  <1>6. CASE Shutdown
    BY <1>6 DEF Shutdown, Exit
  <1>7. CASE UNCHANGED vars
    BY <1>7 DEF vars
  <1> QED BY <1>1, <1>2, <1>3, <1>4, <1>5, <1>6, <1>7 DEF Next

(* What a turn of a client, a cleanup or the proxy's callback leaves alone *)
(* before its attach or policy step. *)
LEMMA QuietTurn ==
    ASSUME Shape,
           \/ \E o \in Owners : Client(o) \/ Cleanup(o)
           \/ \E state \in ProxyStates : setSocksProxyState(state)
    PROVE  /\ UNCHANGED <<life, pending, errs, net, attached, current, set, kernel>>
           /\ mu' # "admin_attach" => UNCHANGED opts
           /\ mu' # mu => mu = "free" /\ mu' \in {"policy", "admin_attach"}
           /\ mu' = "free" => UNCHANGED <<opts, tmpRulesets, forceRulesets, socksProxy>>
  <1> USE DEF policyVars, netVars, managerVars, TakeTurn
  <1> DEFINE Goal ==
        /\ UNCHANGED <<life, pending, errs, net, attached, current, set, kernel>>
        /\ mu' # "admin_attach" => UNCHANGED opts
        /\ mu' # mu => mu = "free" /\ mu' \in {"policy", "admin_attach"}
        /\ mu' = "free" => UNCHANGED <<opts, tmpRulesets, forceRulesets, socksProxy>>
  <1>1. ASSUME NEW o \in Owners, Client(o) PROVE Goal
    BY <1>1 DEF Client, AdminMutation, SetTemporaryRuleset, RemoveTemporaryRuleset,
                ForceRuleset, ReleaseRuleset, Connect, Disconnect
  <1>2. ASSUME NEW o \in Owners, removeForceRulesets(o) PROVE Goal
    <2>1. CASE holdsForce(o)
      BY <1>2, <2>1 DEF removeForceRulesets
    <2>2. CASE ~holdsForce(o)
      <3>1. \A n \in RulesetNames : forceRulesets[n][o] = [f \in IfNames |-> 0]
        BY <2>2 DEF holdsForce, Shape, ForceRulesets
      <3>2. \A n \in RulesetNames :
               [forceRulesets[n] EXCEPT ![o] = NoForce[n][o]] = forceRulesets[n]
        BY <3>1 DEF NoForce, Shape, ForceRulesets
      <3>3. UNCHANGED forceRulesets
        BY <1>2, <3>2 DEF removeForceRulesets, Shape, ForceRulesets
      <3> QED BY <1>2, <2>2, <3>3 DEF removeForceRulesets
    <2> QED BY <2>1, <2>2
  <1>3. ASSUME NEW o \in Owners, removeTemporaryRuleset(o) PROVE Goal
    <2>1. CASE o \in DOMAIN tmpRulesets
      BY <1>3, <2>1 DEF removeTemporaryRuleset
    <2>2. CASE o \notin DOMAIN tmpRulesets
      <3>1. DOMAIN tmpRulesets \ {o} = DOMAIN tmpRulesets
        BY <2>2
      <3>2. UNCHANGED tmpRulesets
        BY <1>3, <3>1 DEF removeTemporaryRuleset, dropTmp, Shape
      <3> QED BY <1>3, <2>2, <3>2 DEF removeTemporaryRuleset
    <2> QED BY <2>1, <2>2
  <1>4. ASSUME NEW state \in ProxyStates, setSocksProxyState(state) PROVE Goal
    BY <1>4 DEF setSocksProxyState
  <1> QED BY <1>1, <1>2, <1>3, <1>4 DEF Cleanup

(* Each step keeps AttachedSelected. *)
LEMMA AttachedSelectedStep ==
    Shape /\ StartupTurns /\ AttachedSelected /\ [Next]_vars => AttachedSelected'
  <1> SUFFICES ASSUME Shape, StartupTurns, AttachedSelected, [Next]_vars
               PROVE  AttachedSelected'
    OBVIOUS
  <1> USE DEF AttachedSelected, AttachSteps, managerVars, netVars
  <1>1. CASE EgressReconcile
    <2>1. PICK failed \in SUBSET (selectInterfaces(net, opts) \ attached) :
             /\ attached' = selectInterfaces(net, opts) \ failed
             /\ failed # {} => errs' = errs \cup {"attach"}
      BY <1>1 DEF EgressReconcile
    <2>2. CASE failed = {}
      BY <1>1, <2>1, <2>2 DEF EgressReconcile
    <2>3. CASE failed # {}
      BY <2>1, <2>3
    <2> QED BY <2>2, <2>3
  <1>2. CASE EgressListFails
    BY <1>2 DEF EgressListFails
  <1>3. CASE PolicyReconcile
    BY <1>3 DEF PolicyReconcile, StartupDone, Exit
  <1>4. CASE PolicyListFails \/ PolicyWriteFails
    BY <1>4 DEF PolicyListFails, PolicyWriteFails, PolicyFailed, StartupDone, Exit
  <1>5. CASE Startup \/ WatcherReconcile
    BY <1>5 DEF Startup, WatcherReconcile, TakeTurn
  <1>6. ASSUME \/ \E o \in Owners : Client(o) \/ Cleanup(o)
               \/ \E state \in ProxyStates : setSocksProxyState(state)
        PROVE  AttachedSelected'
    BY <1>6, QuietTurn
  <1>7. CASE Network \/ SpuriousUpdate
    BY <1>7 DEF Network, LinkEvent, LinkAdded, LinkRemoved, LinkChanged, NetChange,
                SpuriousUpdate
  <1>8. CASE Shutdown
    BY <1>8 DEF Shutdown, Exit
  <1>9. CASE UNCHANGED vars
    BY <1>9 DEF vars
  <1> QED BY <1>1, <1>2, <1>3, <1>4, <1>5, <1>6, <1>7, <1>8, <1>9 DEF Next, Turn

(* If the attached interfaces are the selected ones, the policy step       *)
(* computes a policy for each of them.                                     *)
LEMMA NextIsWanted ==
    ASSUME attached = selectInterfaces(net, opts)
    PROVE  rulesOf(nextPolicies) = [i \in attached |-> wanted(i)]
  <1>1. attached \subseteq DOMAIN net
    BY DEF selectInterfaces
  <1>2. listAttached = [i \in attached |-> net[i]]
    BY <1>1 DEF listAttached
  <1>3. selectInterfaces(listAttached, opts) = attached
    BY <1>2 DEF selectInterfaces
  <1>4. DOMAIN nextPolicies = attached
    BY <1>3 DEF nextPolicies, effectivePoliciesForInterfaces
  <1>5. \A i \in attached : nextPolicies[i].rules = wanted(i)
    BY <1>2, <1>3 DEF nextPolicies, effectivePoliciesForInterfaces, wanted
  <1> QED BY <1>4, <1>5 DEF rulesOf

(* Each step keeps CurrentWanted. *)
LEMMA CurrentWantedStep == ReconcileInv /\ [Next]_vars => CurrentWanted'
  <1> SUFFICES ASSUME ReconcileInv, [Next]_vars PROVE CurrentWanted'
    OBVIOUS
  <1> USE DEF ReconcileInv, CurrentWanted, Calm, managerVars, netVars, policyVars
  <1>1. CASE EgressReconcile \/ EgressListFails
    BY <1>1 DEF EgressReconcile, EgressListFails, AfterAttach
  <1>2. CASE PolicyReconcile
    <2>1. CASE StartupDone /\ "attach" \in errs
      BY <1>2, <2>1 DEF PolicyReconcile, Exit
    <2>2. CASE ~(StartupDone /\ "attach" \in errs)
      <3>1. SUFFICES ASSUME (Calm /\ errs = {})'
                     PROVE  (rulesOf(current) = [i \in attached |-> wanted(i)])'
        OBVIOUS
      <3>2. attached = selectInterfaces(net, opts)
        BY <1>2, <2>2, <3>1 DEF PolicyReconcile, StartupDone, AttachedSelected, AttachSteps
      <3>3. rulesOf(nextPolicies) = [i \in attached |-> wanted(i)]
        BY <3>2, NextIsWanted
      <3>4. current' = nextPolicies /\ UNCHANGED <<attached, managerVars, netVars>>
        BY <1>2, <2>2 DEF PolicyReconcile
      <3>5. \A i : wanted(i)' = wanted(i)
        BY <3>4 DEF wanted
      <3> QED BY <3>3, <3>4, <3>5 DEF rulesOf
    <2> QED BY <2>1, <2>2
  <1>3. CASE PolicyListFails \/ PolicyWriteFails
    BY <1>3 DEF PolicyListFails, PolicyWriteFails, PolicyFailed
  <1>4. CASE Startup \/ WatcherReconcile
    BY <1>4 DEF Startup, WatcherReconcile, TakeTurn
  <1>5. ASSUME \/ \E o \in Owners : Client(o) \/ Cleanup(o)
               \/ \E state \in ProxyStates : setSocksProxyState(state)
        PROVE  CurrentWanted'
    <2>1. SUFFICES ASSUME (Calm /\ errs = {})'
                   PROVE  (rulesOf(current) = [i \in attached |-> wanted(i)])'
      OBVIOUS
    <2>2. /\ UNCHANGED <<life, pending, errs, net, attached, current, mu>>
          /\ UNCHANGED <<opts, tmpRulesets, forceRulesets, socksProxy>>
      BY <1>5, <2>1, QuietTurn
    <2>3. \A i : wanted(i)' = wanted(i)
      BY <2>2 DEF wanted
    <2> QED BY <2>1, <2>2, <2>3 DEF rulesOf
  <1>6. CASE Network \/ SpuriousUpdate
    BY <1>6 DEF Network, LinkEvent, LinkAdded, LinkRemoved, LinkChanged, NetChange,
                SpuriousUpdate
  <1>7. CASE Shutdown
    BY <1>7 DEF Shutdown, Exit
  <1>8. CASE UNCHANGED vars
    BY <1>8 DEF vars, wanted, rulesOf
  <1> QED BY <1>1, <1>2, <1>3, <1>4, <1>5, <1>6, <1>7, <1>8 DEF Next, Turn

(* The three parts hold together in every state. *)
LEMMA ReconcileInvariant == Spec => []ReconcileInv
  <1>1. Init => ReconcileInv
    BY InitShape DEF Init, ReconcileInv, StartupTurns, AttachedSelected, CurrentWanted, Calm
  <1>2. ReconcileInv /\ [Next]_vars => ReconcileInv'
    BY ShapeStep, StartupTurnsStep, AttachedSelectedStep, CurrentWantedStep DEF ReconcileInv
  <1> QED BY <1>1, <1>2, PTL DEF Spec

(* With any failures, map writes included: when the daemon is calm and the *)
(* last attempt of each reconcile step succeeded, it has attached what is  *)
(* selected and remembers the policies that its state asks for             *)
(* (egress.go, policy_manager.go, admin_mutation.go).                      *)
THEOREM MemoryAlwaysWanted == Spec => []MemoryIsWanted
  <1>1. ReconcileInv => MemoryIsWanted
    BY DEF ReconcileInv, AttachedSelected, AttachSteps, CurrentWanted, MemoryIsWanted, Calm, rulesOf
  <1> QED BY <1>1, ReconcileInvariant, PTL

-----------------------------------------------------------------------------
(* The maps.  Until a map write fails, the memory that decides which       *)
(* writes are skipped is right.                                            *)

MemoryIsRight == kernel = rulesOf(current)

(* Writing the difference between the memory and the new policies leaves   *)
(* exactly the new policies in the maps, skipped or not.                   *)
LEMMA WriteIsComplete ==
    ASSUME MemoryIsRight,
           current' = nextPolicies,
           kernel' = IF skipWrite(nextPolicies) THEN kernel
                     ELSE Written(nextPolicies, toClear(nextPolicies), toWrite(nextPolicies))
    PROVE  MemoryIsRight'
  <1> DEFINE next == nextPolicies
  <1>1. kernel = [i \in DOMAIN current |-> current[i].rules]
    BY DEF MemoryIsRight, rulesOf
  <1>2. SUFFICES kernel' = [i \in DOMAIN next |-> next[i].rules]
    BY DEF MemoryIsRight, rulesOf
  <1> HIDE DEF next
  <1>3. CASE skipWrite(next)
    <2>1. DOMAIN current = DOMAIN next /\ \A i \in DOMAIN next : current[i].rules = next[i].rules
      BY <1>3 DEF skipWrite, interfacePolicyRulesEqual, SamePolicy
    <2>2. kernel' = kernel
      BY <1>3 DEF next
    <2> QED BY <1>1, <2>1, <2>2
  <1>4. CASE ~skipWrite(next)
    <2>1. kernel' = Written(next, toClear(next), toWrite(next))
      BY <1>4 DEF next
    <2>2. DOMAIN kernel = DOMAIN current
      BY <1>1
    <2>3. (DOMAIN kernel \ toClear(next)) \cup toWrite(next) = DOMAIN next
      BY <2>2 DEF toClear, toWrite
    <2>4. \A i \in DOMAIN next \ toWrite(next) : kernel[i] = next[i].rules
      BY <1>1 DEF toWrite
    <2> QED BY <2>1, <2>3, <2>4 DEF Written
  <1> QED BY <1>3, <1>4

(* A failed write is not forgotten. *)
LEMMA FaultsGrow ==
    ASSUME Shape, [Next]_vars PROVE WriteFailed \/ PolicyWriteFails => WriteFailed'
  <1> USE DEF Shape, WriteFailed
  <1>1. ASSUME NEW kind \in Failures, Fault(kind) PROVE WriteFailed => WriteFailed'
    BY <1>1 DEF Fault, Failures
  <1>2. ASSUME Fault("write") PROVE WriteFailed'
    BY <1>2 DEF Fault, Failures
  <1>3. PolicyWriteFails => WriteFailed'
    BY <1>2 DEF PolicyWriteFails
  <1>4. ASSUME UNCHANGED faults PROVE WriteFailed => WriteFailed'
    BY <1>4
  <1>5. ASSUME Turn PROVE WriteFailed => WriteFailed'
    <2>1. CASE EgressReconcile
      <3>1. UNCHANGED faults \/ Fault("attach")
        BY <2>1 DEF EgressReconcile
      <3> QED BY <1>1, <1>4, <3>1 DEF Failures
    <2>2. CASE EgressListFails \/ PolicyListFails
      <3>1. Fault("list")
        BY <2>2 DEF EgressListFails, PolicyListFails
      <3> QED BY <1>1, <3>1 DEF Failures
    <2>3. CASE PolicyReconcile
      <3>1. UNCHANGED faults
        BY <2>3 DEF PolicyReconcile
      <3> QED BY <1>4, <3>1
    <2> QED BY <1>3, <1>5, <2>1, <2>2, <2>3 DEF Turn
  <1>6. ASSUME Startup \/ WatcherReconcile \/ Shutdown PROVE UNCHANGED faults
    BY <1>6 DEF Startup, WatcherReconcile, Shutdown
  <1>7. ASSUME NEW o \in Owners, Client(o) \/ Cleanup(o) PROVE UNCHANGED faults
    BY <1>7 DEF Client, Cleanup, AdminMutation, SetTemporaryRuleset, RemoveTemporaryRuleset,
                ForceRuleset, ReleaseRuleset, Connect, Disconnect, removeForceRulesets,
                removeTemporaryRuleset
  <1>8. ASSUME NEW state \in ProxyStates, setSocksProxyState(state) PROVE UNCHANGED faults
    BY <1>8 DEF setSocksProxyState
  <1>9. ASSUME Network \/ SpuriousUpdate PROVE UNCHANGED faults
    BY <1>9 DEF Network, LinkEvent, LinkAdded, LinkRemoved, LinkChanged, NetChange,
                SpuriousUpdate
  <1>10. ASSUME UNCHANGED vars PROVE UNCHANGED faults
    BY <1>10 DEF vars
  <1>11. Turn \/ UNCHANGED faults
    BY <1>6, <1>7, <1>8, <1>9, <1>10 DEF Next
  <1> QED BY <1>3, <1>4, <1>5, <1>11

(* Only a failed write makes the memory wrong. *)
LEMMA MemoryStep ==
    ASSUME Shape, MemoryIsRight, [Next]_vars PROVE MemoryIsRight' \/ PolicyWriteFails
  <1> USE DEF policyVars, rulesOf
  <1>1. CASE EgressReconcile \/ EgressListFails
    BY <1>1 DEF EgressReconcile, EgressListFails, MemoryIsRight
  <1>2. CASE PolicyReconcile
    <2>1. CASE StartupDone /\ "attach" \in errs
      BY <1>2, <2>1 DEF PolicyReconcile, Exit, MemoryIsRight
    <2>2. CASE ~(StartupDone /\ "attach" \in errs)
      BY <1>2, <2>2, WriteIsComplete DEF PolicyReconcile
    <2> QED BY <2>1, <2>2
  <1>3. CASE PolicyListFails
    BY <1>3 DEF PolicyListFails, PolicyFailed, Exit, MemoryIsRight
  <1>4. CASE PolicyWriteFails
    BY <1>4
  <1>5. CASE Startup \/ WatcherReconcile
    BY <1>5 DEF Startup, WatcherReconcile, MemoryIsRight
  <1>6. ASSUME \/ \E o \in Owners : Client(o) \/ Cleanup(o)
               \/ \E state \in ProxyStates : setSocksProxyState(state)
        PROVE  MemoryIsRight'
    BY <1>6, QuietTurn DEF MemoryIsRight
  <1>7. CASE Network \/ SpuriousUpdate
    BY <1>7 DEF Network, LinkEvent, LinkAdded, LinkRemoved, LinkChanged, NetChange,
                SpuriousUpdate, MemoryIsRight
  <1>8. CASE Shutdown
    BY <1>8 DEF Shutdown, Exit, MemoryIsRight
  <1>9. CASE UNCHANGED vars
    BY <1>9 DEF vars, MemoryIsRight
  <1> QED BY <1>1, <1>2, <1>3, <1>4, <1>5, <1>6, <1>7, <1>8, <1>9 DEF Next, Turn

(* Until a map write fails, the daemon's memory of what it wrote is right, *)
(* whatever else fails (policyManager.reconcile, writeEffectivePolicies).  *)
THEOREM MemoryMatchesMaps == Spec => []MapsMatchMemory
  <1>1. Init => MapsMatchMemory
    BY DEF Init, MapsMatchMemory
  <1>2. Shape /\ MapsMatchMemory /\ [Next]_vars => MapsMatchMemory'
    BY FaultsGrow, MemoryStep DEF MapsMatchMemory, MemoryIsRight, rulesOf
  <1>3. Spec => []Shape
    BY ReconcileInvariant, PTL DEF ReconcileInv
  <1> QED BY <1>1, <1>2, <1>3, PTL DEF Spec

(* Whenever the daemon is calm, the last attempt of each reconcile step    *)
(* succeeded and no map write ever failed, the kernel enforces exactly     *)
(* what the options, the rulesets, the clients and the proxy ask for, on   *)
(* exactly the selected interfaces, whatever listings and attachments      *)
(* failed before and in whatever order mutations, disconnects and network  *)
(* changes came (policy_manager.go, egress.go).                            *)
THEOREM KernelEnforcesState == Spec => []ReconciledInForce
  <1>1. MemoryIsWanted /\ MapsMatchMemory => ReconciledInForce
    BY DEF MemoryIsWanted, MapsMatchMemory, ReconciledInForce, InForce
  <1> QED BY <1>1, MemoryMatchesMaps, MemoryAlwaysWanted, PTL

-----------------------------------------------------------------------------
(* Clients. *)

HoldingsInv == Shape /\ GoneOwnersHoldNothing /\ ForcedRulesetsExist

(* Each step keeps what cleanup has removed removed. *)
LEMMA HoldingsStep == HoldingsInv /\ [Next]_vars => (GoneOwnersHoldNothing /\ ForcedRulesetsExist)'
  <1> SUFFICES ASSUME HoldingsInv, [Next]_vars
               PROVE  GoneOwnersHoldNothing' /\ ForcedRulesetsExist'
    OBVIOUS
  <1> DEFINE Goal == GoneOwnersHoldNothing' /\ ForcedRulesetsExist'
  <1> USE DEF HoldingsInv, Shape
  <1>1. ASSUME UNCHANGED <<opts, tmpRulesets, forceRulesets, conn>> PROVE Goal
    BY <1>1 DEF GoneOwnersHoldNothing, ForcedRulesetsExist, holdsForce
  <1>2. CASE Turn
    BY <1>1, <1>2 DEF Turn, EgressReconcile, EgressListFails, PolicyReconcile, PolicyListFails,
                      PolicyWriteFails, PolicyFailed, managerVars
  <1>3. CASE Startup \/ WatcherReconcile
    BY <1>1, <1>3 DEF Startup, WatcherReconcile, managerVars
  <1>4. ASSUME NEW o \in Owners, Client(o) PROVE Goal
    <2>1. ASSUME NEW req \in Requests, AdminMutation(o, req) PROVE Goal
      <3>1. /\ forceRulesets' = pruneForceRulesets(forceRulesets, opts'.rulesets)
            /\ UNCHANGED <<tmpRulesets, conn>>
        BY <2>1 DEF AdminMutation
      <3>2. \A n \in RulesetNames, p \in Owners, f \in IfNames :
               forceRulesets'[n][p][f] > 0 =>
                   forceRulesets[n][p][f] > 0 /\ n \in DOMAIN opts'.rulesets
        BY <3>1 DEF pruneForceRulesets, NoForce
      <3> QED BY <3>1, <3>2 DEF GoneOwnersHoldNothing, ForcedRulesetsExist, holdsForce
    <2>2. ASSUME NEW t \in TmpChoices, SetTemporaryRuleset(o, t) PROVE Goal
      BY <2>2 DEF SetTemporaryRuleset, GoneOwnersHoldNothing, ForcedRulesetsExist, holdsForce
    <2>3. CASE RemoveTemporaryRuleset(o)
      BY <2>3 DEF RemoveTemporaryRuleset, dropTmp, GoneOwnersHoldNothing, ForcedRulesetsExist,
                  holdsForce
    <2>4. ASSUME NEW n \in RulesetNames, NEW ifaces \in ForceChoices, NEW replace \in BOOLEAN,
                 ForceRuleset(o, n, ifaces, replace)
          PROVE  Goal
      <3>1. \A m \in RulesetNames, p \in Owners :
               (p # o \/ m # n) => forceRulesets'[m][p] = forceRulesets[m][p]
        BY <2>4 DEF ForceRuleset, forceActivateRuleset, ForceRulesets
      <3>2. /\ conn[o] = "open" /\ n \in DOMAIN opts.rulesets
            /\ UNCHANGED <<opts, tmpRulesets, conn>>
        BY <2>4 DEF ForceRuleset
      <3>3. GoneOwnersHoldNothing'
        BY <3>1, <3>2 DEF GoneOwnersHoldNothing, holdsForce
      <3>4. ForcedRulesetsExist'
        BY <3>1, <3>2 DEF ForcedRulesetsExist
      <3> QED BY <3>3, <3>4
    <2>5. ASSUME NEW n \in RulesetNames, NEW ifaces \in ForceChoices, ReleaseRuleset(o, n, ifaces)
          PROVE  Goal
      <3>1. \A m \in RulesetNames, p \in Owners, f \in IfNames :
               forceRulesets'[m][p][f] > 0 => forceRulesets[m][p][f] > 0
        BY <2>5 DEF ReleaseRuleset, releaseForceRuleset, ForceRulesets
      <3>2. UNCHANGED <<opts, tmpRulesets, conn>>
        BY <2>5 DEF ReleaseRuleset
      <3> QED BY <3>1, <3>2 DEF GoneOwnersHoldNothing, ForcedRulesetsExist, holdsForce
    <2>6. CASE Connect(o) \/ Disconnect(o)
      BY <2>6 DEF Connect, Disconnect, managerVars, GoneOwnersHoldNothing, ForcedRulesetsExist,
                  holdsForce
    <2> QED BY <1>4, <2>1, <2>2, <2>3, <2>4, <2>5, <2>6 DEF Client
  <1>5. ASSUME NEW o \in Owners, removeForceRulesets(o) PROVE Goal
    <2>1. \A n \in RulesetNames, p \in Owners, f \in IfNames :
             forceRulesets'[n][p][f] > 0 => p # o /\ forceRulesets[n][p][f] > 0
      BY <1>5 DEF removeForceRulesets, NoForce, ForceRulesets
    <2>2. UNCHANGED <<opts, tmpRulesets>> /\ conn' = [conn EXCEPT ![o] = "drop_tmp"]
      BY <1>5 DEF removeForceRulesets
    <2> QED BY <2>1, <2>2 DEF GoneOwnersHoldNothing, ForcedRulesetsExist, holdsForce
  <1>6. ASSUME NEW o \in Owners, removeTemporaryRuleset(o) PROVE Goal
    BY <1>6 DEF removeTemporaryRuleset, dropTmp, GoneOwnersHoldNothing, ForcedRulesetsExist,
                holdsForce
  <1>7. ASSUME NEW state \in ProxyStates, setSocksProxyState(state) PROVE Goal
    BY <1>1, <1>7 DEF setSocksProxyState
  <1>8. CASE Network \/ SpuriousUpdate
    BY <1>1, <1>8 DEF Network, LinkEvent, LinkAdded, LinkRemoved, LinkChanged, NetChange,
                SpuriousUpdate, managerVars
  <1>9. CASE Shutdown
    BY <1>1, <1>9 DEF Shutdown, managerVars
  <1>10. CASE UNCHANGED vars
    BY <1>1, <1>10 DEF vars, managerVars
  <1> QED BY <1>2, <1>3, <1>4, <1>5, <1>6, <1>7, <1>8, <1>9, <1>10 DEF Next, Cleanup

(* So it holds in every state. *)
LEMMA HoldingsInvariant == Spec => []HoldingsInv
  <1>1. Init => HoldingsInv
    BY InitShape DEF Init, HoldingsInv, GoneOwnersHoldNothing, ForcedRulesetsExist, holdsForce,
                     NoForce
  <1>2. HoldingsInv /\ [Next]_vars => HoldingsInv'
    BY ShapeStep, HoldingsStep DEF HoldingsInv
  <1> QED BY <1>1, <1>2, PTL DEF Spec

(* A connection that is gone owns no forced and no temporary ruleset, in   *)
(* any interleaving of clients and cleanups (admin.go, handleConnection).  *)
THEOREM CleanupIsComplete == Spec => []GoneOwnersHoldNothing
  BY HoldingsInvariant, PTL DEF HoldingsInv

(* No activation outlives its ruleset (policy_manager.go,                  *)
(* pruneForceRulesetsLocked).                                              *)
THEOREM NoForceWithoutRuleset == Spec => []ForcedRulesetsExist
  BY HoldingsInvariant, PTL DEF HoldingsInv

(* A step that changes nobody's holdings and no ruleset leaves every       *)
(* client's holdings alone, for only rulesets that exist are forced.       *)
LEMMA HoldingsStay ==
    ASSUME HoldingsInv, NEW p \in Owners, UNCHANGED <<opts, tmpRulesets, forceRulesets>>
    PROVE  KeepsHoldings(p)
  BY DEF HoldingsInv, Shape, KeepsHoldings, ForcedRulesetsExist, NoForce, ForceRulesets

(* So does one that touches the holdings of another client only.           *)
LEMMA OthersStay ==
    ASSUME HoldingsInv, NEW p \in Owners, UNCHANGED opts,
           \A n \in RulesetNames : forceRulesets'[n][p] = forceRulesets[n][p],
           p \in DOMAIN tmpRulesets' <=> p \in DOMAIN tmpRulesets,
           p \in DOMAIN tmpRulesets => tmpRulesets'[p] = tmpRulesets[p]
    PROVE  KeepsHoldings(p)
  BY DEF HoldingsInv, Shape, KeepsHoldings, ForcedRulesetsExist, NoForce, ForceRulesets

(* No request of a client and no cleanup after it touches what another     *)
(* client holds.                                                           *)
LEMMA OthersKeepHoldings ==
    ASSUME HoldingsInv, NEW o \in Owners, NEW p \in Owners, o # p, ActsFor(o)
    PROVE  KeepsHoldings(p)
  <1> USE DEF HoldingsInv, Shape
  <1> DEFINE Goal == KeepsHoldings(p)
  <1>1. ASSUME NEW req \in Requests, AdminMutation(o, req) PROVE Goal
    <2>1. /\ forceRulesets' = pruneForceRulesets(forceRulesets, opts'.rulesets)
          /\ UNCHANGED tmpRulesets
      BY <1>1 DEF AdminMutation
    <2> QED BY <2>1 DEF pruneForceRulesets, KeepsHoldings
  <1>2. ASSUME NEW t \in TmpChoices, SetTemporaryRuleset(o, t) PROVE Goal
    BY <1>2, OthersStay DEF SetTemporaryRuleset
  <1>3. CASE RemoveTemporaryRuleset(o)
    BY <1>3, OthersStay DEF RemoveTemporaryRuleset, dropTmp
  <1>4. ASSUME NEW n \in RulesetNames, NEW ifaces \in ForceChoices, NEW replace \in BOOLEAN,
               ForceRuleset(o, n, ifaces, replace)
        PROVE  Goal
    BY <1>4, OthersStay DEF ForceRuleset, forceActivateRuleset, ForceRulesets
  <1>5. ASSUME NEW n \in RulesetNames, NEW ifaces \in ForceChoices, ReleaseRuleset(o, n, ifaces)
        PROVE  Goal
    BY <1>5, OthersStay DEF ReleaseRuleset, releaseForceRuleset, ForceRulesets
  <1>6. CASE Connect(o) \/ Disconnect(o)
    BY <1>6, HoldingsStay DEF Connect, Disconnect, managerVars
  <1>7. CASE removeForceRulesets(o)
    BY <1>7, OthersStay DEF removeForceRulesets, ForceRulesets
  <1>8. CASE removeTemporaryRuleset(o)
    BY <1>8, OthersStay DEF removeTemporaryRuleset, dropTmp
  <1> QED BY <1>1, <1>2, <1>3, <1>4, <1>5, <1>6, <1>7, <1>8 DEF ActsFor, Client, Cleanup

(* Turns, the watcher, the proxy and the network touch nobody's holdings.  *)
LEMMA StepsOfNobody ==
    ASSUME HoldingsInv, [Next]_vars, NEW p \in Owners, \A o \in Owners : ~ActsFor(o)
    PROVE  KeepsHoldings(p)
  <1> DEFINE Goal == KeepsHoldings(p)
  <1>1. CASE Turn
    BY <1>1, HoldingsStay DEF Turn, EgressReconcile, EgressListFails, PolicyReconcile,
                      PolicyListFails, PolicyWriteFails, PolicyFailed, managerVars
  <1>2. CASE Startup \/ WatcherReconcile \/ Shutdown
    BY <1>2, HoldingsStay DEF Startup, WatcherReconcile, Shutdown, managerVars
  <1>3. ASSUME NEW state \in ProxyStates, setSocksProxyState(state) PROVE Goal
    BY <1>3, HoldingsStay DEF setSocksProxyState
  <1>4. CASE Network \/ SpuriousUpdate
    BY <1>4, HoldingsStay DEF Network, LinkEvent, LinkAdded, LinkRemoved, LinkChanged, NetChange,
                SpuriousUpdate, managerVars
  <1>5. CASE UNCHANGED vars
    BY <1>5, HoldingsStay DEF vars, managerVars
  <1> QED BY <1>1, <1>2, <1>3, <1>4, <1>5 DEF Next, ActsFor

(* No request and no cleanup of one client touches what another holds, and *)
(* nor does anything that is no client's doing, short of the removal of a  *)
(* ruleset (policy_manager.go).                                            *)
THEOREM ClientsAreIndependent == Spec => OwnersAreIndependent
  <1> DEFINE Kept == \A p \in Owners :
                        KeepsHoldings(p) \/ (ActsFor(p) /\ \A o \in Owners \ {p} : ~ActsFor(o))
  <1>1. ASSUME HoldingsInv, [Next]_vars PROVE Kept
    <2> SUFFICES ASSUME NEW p \in Owners,
                        ~(ActsFor(p) /\ \A o \in Owners \ {p} : ~ActsFor(o))
                 PROVE  KeepsHoldings(p)
      OBVIOUS
    <2>1. CASE \E o \in Owners \ {p} : ActsFor(o)
      BY <1>1, <2>1, OthersKeepHoldings
    <2>2. CASE ~\E o \in Owners : ActsFor(o)
      BY <1>1, <2>2, StepsOfNobody
    <2> QED BY <2>1, <2>2
  <1>2. HoldingsInv /\ [Next]_vars => [Kept]_vars
    BY <1>1
  <1> QED BY <1>2, HoldingsInvariant, PTL DEF Spec, OwnersAreIndependent

-----------------------------------------------------------------------------
(* Attachments. *)

(* Between turns the daemon remembers policies of attached interfaces      *)
(* only, unless its last policy step failed.                               *)
CurrentAttached == mu = "free" /\ "policy" \notin errs => DOMAIN current \subseteq attached

(* Each step keeps CurrentAttached. *)
LEMMA CurrentAttachedStep == Shape /\ CurrentAttached /\ [Next]_vars => CurrentAttached'
  <1> SUFFICES ASSUME Shape, CurrentAttached, [Next]_vars PROVE CurrentAttached'
    OBVIOUS
  <1> USE DEF CurrentAttached, policyVars
  <1>1. CASE EgressReconcile \/ EgressListFails
    BY <1>1 DEF EgressReconcile, EgressListFails, AfterAttach
  <1>2. CASE PolicyReconcile
    <2>1. DOMAIN nextPolicies \subseteq attached
      BY DEF nextPolicies, effectivePoliciesForInterfaces, selectInterfaces, listAttached
    <2> QED BY <1>2, <2>1 DEF PolicyReconcile, Exit
  <1>3. CASE PolicyListFails \/ PolicyWriteFails
    BY <1>3 DEF PolicyListFails, PolicyWriteFails, PolicyFailed
  <1>4. CASE Startup \/ WatcherReconcile
    BY <1>4 DEF Startup, WatcherReconcile, TakeTurn
  <1>5. ASSUME \/ \E o \in Owners : Client(o) \/ Cleanup(o)
               \/ \E state \in ProxyStates : setSocksProxyState(state)
        PROVE  CurrentAttached'
    BY <1>5, QuietTurn
  <1>6. CASE Network \/ SpuriousUpdate
    BY <1>6 DEF Network, LinkEvent, LinkAdded, LinkRemoved, LinkChanged, NetChange,
                SpuriousUpdate
  <1>7. CASE Shutdown
    BY <1>7 DEF Shutdown, Exit
  <1>8. CASE UNCHANGED vars
    BY <1>8 DEF vars
  <1> QED BY <1>1, <1>2, <1>3, <1>4, <1>5, <1>6, <1>7, <1>8 DEF Next, Turn

(* A policy does not outlive the attachment it was written for, so that an *)
(* interface attached later starts without one and drops (egress.go,       *)
(* writeEffectivePolicies).                                                *)
THEOREM NoPolicyWithoutAttachment == Spec => []DetachedHaveNoPolicy
  <1>1. Init => CurrentAttached
    BY DEF Init, CurrentAttached
  <1>2. CurrentAttached /\ MapsMatchMemory => DetachedHaveNoPolicy
    BY DEF CurrentAttached, MapsMatchMemory, DetachedHaveNoPolicy
  <1>3. Spec => []Shape
    BY ReconcileInvariant, PTL DEF ReconcileInv
  <1> QED BY <1>1, <1>2, <1>3, CurrentAttachedStep, MemoryMatchesMaps, PTL DEF Spec

-----------------------------------------------------------------------------
(* Types.  Unlike the proofs above, these look into the computation of the *)
(* policies and into the mutations of the options.                         *)

(* Merging rules yields rules. *)
LEMMA MergeType ==
    ASSUME NEW S \in SUBSET AllowRules PROVE MergeAll(S) \in AllowRules
  BY DEF MergeAll, AllowRules

(* Every interface gets rules. *)
LEMMA RulesType ==
    ASSUME NEW info, NEW o, IsOptions(o), NEW tmp, PartialFunction(tmp, Owners, TmpRuleset),
           NEW force, NEW running
    PROVE  interfaceRules(info, o, tmp, force, running) \in AllowRules
  <1>1. ProxyRules \in AllowRules
    BY FWMarkAssumption DEF ProxyRules, AllowRules, Keys
  <1>2. \A n \in DOMAIN o.rulesets : o.rulesets[n].rules \in AllowRules
    BY DEF IsOptions, PartialFunction, Ruleset
  <1>3. \A q \in DOMAIN tmp : tmp[q].rules \in AllowRules
    BY DEF PartialFunction, TmpRuleset
  <1>4. o.base \in AllowRules
    BY DEF IsOptions
  <1> DEFINE A == {o.rulesets[n].rules : n \in activeRulesetsForInterface(info, o.rulesets)}
             F == {o.rulesets[n].rules : n \in forcedRulesetsForInterface(info, o.rulesets, force)}
             T == {tmp[q].rules : q \in temporaryRulesetsForInterface(info, tmp)}
             P == IF running THEN {ProxyRules} ELSE {}
  <1>5. A \subseteq AllowRules /\ F \subseteq AllowRules
    BY <1>2 DEF activeRulesetsForInterface, forcedRulesetsForInterface
  <1>6. T \subseteq AllowRules
    BY <1>3 DEF temporaryRulesetsForInterface
  <1>7. P \subseteq AllowRules
    BY <1>1
  <1> HIDE DEF A, F, T, P
  <1>8. MergeAll({o.base} \cup A \cup F \cup T \cup P) \in AllowRules
    BY <1>4, <1>5, <1>6, <1>7, MergeType
  <1> QED BY <1>8 DEF interfaceRules, effectiveAllowRules, A, F, T, P

(* The list mutations stay among the values of the list and the request. *)
LEMMA ListType ==
    ASSUME NEW T, NEW S \in SUBSET T, NEW list, NEW req, req.op \in Ops, req.values \in SUBSET T
    PROVE  mutateStringList(S, list, req) \in SUBSET T
  BY DEF mutateStringList, Ops

(* A mutation of a field of the rules yields rules. *)
LEMMA FieldType ==
    ASSUME NEW rules \in AllowRules, NEW req, req.op \in Ops,
           req.list \notin Flags => req.values \in SUBSET Keys,
           NEW next \in mutateAllowRulesField(rules, req)
    PROVE  next \in AllowRules
  <1>1. CASE req.list \in Flags
    BY <1>1 DEF mutateAllowRulesField, AllowRules
  <1>2. CASE req.list \notin Flags
    <2>1. next = [rules EXCEPT !.keys =
                     mutateStringList(rules.keys, {key \in rules.keys : key[1] = req.list}, req)]
      BY <1>2 DEF mutateAllowRulesField, AllowRules
    <2>2. mutateStringList(rules.keys, {key \in rules.keys : key[1] = req.list}, req) \in SUBSET Keys
      BY <1>2, ListType DEF AllowRules
    <2> QED BY <2>1, <2>2 DEF AllowRules
  <1> QED BY <1>1, <1>2

(* What a request carries. *)
LEMMA RequestType ==
    ASSUME NEW req \in MutationRequest
    PROVE  /\ req.op \in Ops
           /\ req.target \in {"interfaces", "ignored_interfaces", "base_policy", "base_policy.field",
                              "ruleset", "ruleset.field"}
           /\ req.target \in {"interfaces", "ignored_interfaces"} => req.values \in SUBSET Predicates
           /\ req.target = "base_policy" => req.rules \in AllowRules
           /\ req.target = "base_policy.field" /\ req.list \notin Flags => req.values \in SUBSET Keys
           /\ req.target \in {"ruleset", "ruleset.field"} => req.ruleset \in RulesetNames
           /\ req.target = "ruleset" => req.def \in Ruleset
           /\ req.target = "ruleset.field" =>
                 /\ req.field \in {"disabled", "match_all", "trigger", "policy"}
                 /\ req.field \in {"disabled", "match_all"} => req.on \in BOOLEAN
                 /\ req.field = "trigger" => req.values \in SUBSET Predicates
                 /\ req.field = "policy" /\ req.list \notin Flags => req.values \in SUBSET Keys
  BY DEF MutationRequest

(* A mutation of one field of a ruleset keeps its type and its trigger. *)
LEMMA RulesetFieldType ==
    ASSUME NEW rulesets, PartialFunction(rulesets, RulesetNames, Ruleset),
           NEW req \in MutationRequest, req.target = "ruleset.field",
           NEW next \in mutateRulesetField(rulesets, req)
    PROVE  PartialFunction(next, RulesetNames, Ruleset)
  <1> DEFINE rs == rulesets[req.ruleset]
  <1>1. req.ruleset \in DOMAIN rulesets
    BY DEF mutateRulesetField
  <1>2. rs \in Ruleset
    BY <1>1 DEF PartialFunction
  <1> DEFINE changed ==
               CASE req.field = "disabled" ->
                       IF req.op = "set" THEN {[rs EXCEPT !.disabled = req.on]} ELSE {}
                 [] req.field = "match_all" ->
                       IF req.op = "set" THEN {[rs EXCEPT !.matchAll = req.on]} ELSE {}
                 [] req.field = "trigger" ->
                       {[rs EXCEPT !.trigger = mutatePredicates(@, req)]}
                 [] req.field = "policy" ->
                       {[rs EXCEPT !.rules = r] : r \in mutateAllowRulesField(rs.rules, req)}
  <1>3. PICK c \in changed : c.trigger # {} /\ next = [rulesets EXCEPT ![req.ruleset] = c]
    BY <1>1 DEF mutateRulesetField
  <1>4. c \in Ruleset
    <2>1. CASE req.field = "disabled"
      <3>1. c = [rs EXCEPT !.disabled = req.on] /\ req.on \in BOOLEAN
        BY <1>3, <2>1, RequestType
      <3> QED BY <3>1, <1>2 DEF Ruleset
    <2>2. CASE req.field = "match_all"
      <3>1. c = [rs EXCEPT !.matchAll = req.on] /\ req.on \in BOOLEAN
        BY <1>3, <2>2, RequestType
      <3> QED BY <3>1, <1>2 DEF Ruleset
    <2>3. CASE req.field = "trigger"
      <3>1. c = [rs EXCEPT !.trigger = mutatePredicates(rs.trigger, req)]
        BY <1>2, <1>3, <2>3 DEF Ruleset
      <3>2. rs.trigger \in SUBSET Predicates /\ req.values \in SUBSET Predicates /\ req.op \in Ops
        BY <1>2, <2>3, RequestType DEF Ruleset, Trigger
      <3>3. mutatePredicates(rs.trigger, req) \in SUBSET Predicates
        BY <3>2, ListType DEF mutatePredicates
      <3>4. PICK t \in SUBSET Predicates : c = [rs EXCEPT !.trigger = t]
        BY <3>1, <3>3
      <3>5. t # {}
        BY <3>4, <1>2, <1>3 DEF Ruleset
      <3>6. t \in Trigger
        BY <3>5 DEF Trigger
      <3> QED BY <3>4, <3>6, <1>2 DEF Ruleset
    <2>4. CASE req.field = "policy"
      <3>1. PICK r \in mutateAllowRulesField(rs.rules, req) : c = [rs EXCEPT !.rules = r]
        BY <1>3, <2>4
      <3>2. r \in AllowRules
        BY <1>2, <2>4, <3>1, RequestType, FieldType DEF Ruleset
      <3> QED BY <3>1, <3>2, <1>2 DEF Ruleset
    <2> QED BY <2>1, <2>2, <2>3, <2>4, RequestType
  <1> QED BY <1>3, <1>4 DEF PartialFunction

(* A mutation that is accepted yields options (mutateOptions). *)
LEMMA OptionsType ==
    ASSUME NEW o, IsOptions(o), NEW req \in MutationRequest, NEW next \in mutateOptions(o, req)
    PROVE  IsOptions(next)
  <1>1. next.include # {}
    BY DEF mutateOptions
  <1>2. CASE req.target = "interfaces"
    <2>1. next = [o EXCEPT !.include = mutatePredicates(o.include, req)]
      BY <1>2 DEF mutateOptions
    <2>2. mutatePredicates(o.include, req) \in SUBSET Predicates
      BY <1>2, RequestType, ListType DEF mutatePredicates, IsOptions
    <2>3. PICK include \in SUBSET Predicates : next = [o EXCEPT !.include = include]
      BY <2>1, <2>2
    <2>4. include # {}
      BY <2>3, <1>1 DEF IsOptions
    <2>5. include \in (SUBSET Predicates) \ {{}}
      BY <2>4
    <2> QED BY <2>3, <2>5 DEF IsOptions
  <1>3. CASE req.target = "ignored_interfaces"
    <2>1. next = [o EXCEPT !.ignore = mutatePredicates(o.ignore, req)]
      BY <1>3 DEF mutateOptions
    <2>2. mutatePredicates(o.ignore, req) \in SUBSET Predicates
      BY <1>3, RequestType, ListType DEF mutatePredicates, IsOptions
    <2> QED BY <2>1, <2>2, <1>1 DEF IsOptions
  <1>4. CASE req.target = "base_policy"
    <2>1. next = [o EXCEPT !.base = req.rules]
      BY <1>4 DEF mutateOptions
    <2> QED BY <2>1, <1>4, RequestType DEF IsOptions
  <1>5. CASE req.target = "base_policy.field"
    <2>1. PICK r \in mutateAllowRulesField(o.base, req) : next = [o EXCEPT !.base = r]
      BY <1>5 DEF mutateOptions
    <2>2. r \in AllowRules
      BY <1>5, <2>1, RequestType, FieldType DEF IsOptions
    <2> QED BY <2>1, <2>2 DEF IsOptions
  <1>6. CASE req.target = "ruleset"
    <2>1. PICK r \in mutateWholeRuleset(o.rulesets, req) : next = [o EXCEPT !.rulesets = r]
      BY <1>6 DEF mutateOptions
    <2>2. PartialFunction(r, RulesetNames, Ruleset)
      BY <1>6, <2>1, RequestType DEF mutateWholeRuleset, IsOptions, PartialFunction, Ops
    <2> QED BY <2>1, <2>2 DEF IsOptions
  <1>7. CASE req.target = "ruleset.field"
    <2>1. PICK r \in mutateRulesetField(o.rulesets, req) : next = [o EXCEPT !.rulesets = r]
      BY <1>7 DEF mutateOptions
    <2>2. PartialFunction(r, RulesetNames, Ruleset)
      BY <1>7, <2>1, RulesetFieldType DEF IsOptions
    <2> QED BY <2>1, <2>2 DEF IsOptions
  <1> QED BY <1>2, <1>3, <1>4, <1>5, <1>6, <1>7, RequestType

(* A policy for every interface that is attached and selected. *)
LEMMA PoliciesType == TypeOK => PartialFunction(nextPolicies, Indexes, Policy)
  <1> SUFFICES ASSUME TypeOK PROVE PartialFunction(nextPolicies, Indexes, Policy)
    OBVIOUS
  <1> DEFINE S == selectInterfaces(listAttached, opts)
             rules(i) == interfaceRules(listAttached[i], opts, tmpRulesets, forceRulesets,
                                        socksProxy.running)
  <1>1. nextPolicies = [i \in S |-> [info |-> listAttached[i], rules |-> rules(i)]]
    BY DEF nextPolicies, effectivePoliciesForInterfaces
  <1>2. \A i \in S : i \in Indexes /\ listAttached[i] \in Infos
    BY DEF TypeOK, selectInterfaces, listAttached, PartialFunction
  <1>3. \A i : rules(i) \in AllowRules
    BY RulesType DEF TypeOK
  <1> HIDE DEF S, rules
  <1>4. \A i \in S : [info |-> listAttached[i], rules |-> rules(i)] \in Policy
    BY <1>2, <1>3 DEF Policy
  <1> QED BY <1>1, <1>2, <1>4 DEF PartialFunction

(* Writing some of the policies and clearing some others. *)
LEMMA WrittenType ==
    ASSUME TypeOK, NEW gone, NEW fresh \in SUBSET DOMAIN nextPolicies
    PROVE  PartialFunction(Written(nextPolicies, gone, fresh), Indexes, AllowRules)
  <1>1. PartialFunction(nextPolicies, Indexes, Policy)
    BY PoliciesType
  <1>2. \A i \in fresh : i \in Indexes /\ nextPolicies[i].rules \in AllowRules
    BY <1>1 DEF PartialFunction, Policy
  <1>3. \A i \in DOMAIN kernel : i \in Indexes /\ kernel[i] \in AllowRules
    BY DEF TypeOK, PartialFunction
  <1> QED BY <1>2, <1>3 DEF Written, PartialFunction

(* The empty maps of a daemon that has exited. *)
LEMMA EmptyType ==
    ASSUME NEW S, NEW T PROVE PartialFunction([i \in {} |-> {}], S, T)
  BY DEF PartialFunction

(* The daemon's own state keeps its types. *)
ManagerTypes ==
    /\ IsOptions(opts)
    /\ PartialFunction(tmpRulesets, Owners, TmpRuleset)
    /\ forceRulesets \in ForceRulesets
    /\ socksProxy \in SocksState
    /\ conn \in [Owners -> {"none", "open", "drop_force", "drop_tmp"}]

(* What it has put in place, and how far its turn is. *)
TurnTypes ==
    /\ PartialFunction(current, Indexes, Policy)
    /\ set \in BOOLEAN
    /\ PartialFunction(kernel, Indexes, AllowRules)
    /\ attached \in SUBSET Indexes
    /\ mu \in Turns
    /\ pending \in BOOLEAN
    /\ life \in {"starting", "running", "exited"}
    /\ errs \in SUBSET {"attach", "policy"}
    /\ faults \in [Failures -> 0..MaxFaults]

NetTypes ==
    /\ PartialFunction(net, Indexes, Infos)
    /\ born \in SUBSET Indexes
    /\ DOMAIN net \subseteq born
    /\ changes \in 0..MaxNetChanges

LEMMA TypeParts == TypeOK <=> ManagerTypes /\ TurnTypes /\ NetTypes
  BY DEF TypeOK, ManagerTypes, TurnTypes, NetTypes

LEMMA InitTypes == Init => TypeOK
  <1> SUFFICES ASSUME Init PROVE TypeOK
    OBVIOUS
  <1>1. ManagerTypes
    BY OptionsAssumption, SocksAssumption, EmptyType
       DEF Init, ManagerTypes, NoForce, ForceRulesets, SocksState
  <1>2. TurnTypes
    <2>1. faults \in [Failures -> 0..MaxFaults]
      BY BoundsAssumption DEF Init
    <2>2. PartialFunction(current, Indexes, Policy) /\ PartialFunction(kernel, Indexes, AllowRules)
      BY EmptyType DEF Init
    <2> QED BY <2>1, <2>2 DEF Init, TurnTypes, Turns
  <1>3. NetTypes
    BY BoundsAssumption DEF Init, NetTypes, PartialFunction
  <1> QED BY <1>1, <1>2, <1>3, TypeParts

LEMMA FaultType ==
    ASSUME faults \in [Failures -> 0..MaxFaults], NEW kind \in Failures, Fault(kind)
    PROVE  faults' \in [Failures -> 0..MaxFaults]
  BY BoundsAssumption DEF Fault

LEMMA TurnKeepsTypes == TypeOK /\ Turn => TypeOK'
  <1> SUFFICES ASSUME TypeOK, Turn PROVE TypeOK'
    OBVIOUS
  <1>1. ManagerTypes /\ TurnTypes /\ NetTypes
    BY TypeParts
  <1>2. UNCHANGED <<managerVars, netVars, conn>>
    BY DEF Turn, EgressReconcile, EgressListFails, PolicyReconcile, PolicyListFails,
           PolicyWriteFails, PolicyFailed
  <1>3. ManagerTypes' /\ NetTypes'
    BY <1>1, <1>2 DEF ManagerTypes, NetTypes, managerVars, netVars
  <1> SUFFICES TurnTypes'
    BY <1>3 DEF TypeOK, ManagerTypes, TurnTypes, NetTypes
  <1>4. CASE EgressReconcile
    <2>1. faults' \in [Failures -> 0..MaxFaults]
      BY <1>1, <1>4, FaultType DEF EgressReconcile, TurnTypes, Failures
    <2>2. selectInterfaces(net, opts) \subseteq Indexes
      BY <1>1 DEF NetTypes, PartialFunction, selectInterfaces
    <2> QED
      BY <1>1, <1>4, <2>1, <2>2 DEF EgressReconcile, TurnTypes, policyVars, AfterAttach, Turns
  <1>5. CASE EgressListFails
    <2>1. faults' \in [Failures -> 0..MaxFaults]
      BY <1>1, <1>5, FaultType DEF EgressListFails, TurnTypes, Failures
    <2> QED
      BY <1>1, <1>5, <2>1 DEF EgressListFails, TurnTypes, policyVars, AfterAttach, Turns
  <1>6. ASSUME Exit, errs' \in SUBSET {"attach", "policy"}, faults' \in [Failures -> 0..MaxFaults]
        PROVE  TurnTypes'
    BY <1>6, EmptyType DEF Exit, TurnTypes, Turns
  <1>7. CASE PolicyReconcile
    <2>1. errs' \in SUBSET {"attach", "policy"} /\ UNCHANGED faults
      BY <1>1, <1>7 DEF PolicyReconcile, TurnTypes
    <2>2. CASE StartupDone /\ "attach" \in errs
      BY <1>1, <1>6, <1>7, <2>1, <2>2 DEF PolicyReconcile, TurnTypes
    <2>3. CASE ~(StartupDone /\ "attach" \in errs)
      <3>1. PartialFunction(current', Indexes, Policy)
        BY <1>7, <2>3, PoliciesType DEF PolicyReconcile
      <3>2. PartialFunction(kernel', Indexes, AllowRules)
        <4>1. toWrite(nextPolicies) \in SUBSET DOMAIN nextPolicies
          BY DEF toWrite
        <4> QED BY <1>1, <1>7, <2>3, <4>1, WrittenType DEF PolicyReconcile, TurnTypes
      <3> QED BY <1>1, <1>7, <2>1, <2>3, <3>1, <3>2 DEF PolicyReconcile, TurnTypes, Turns
    <2> QED BY <2>2, <2>3
  <1>8. CASE PolicyListFails
    <2>1. faults' \in [Failures -> 0..MaxFaults]
      BY <1>1, <1>8, FaultType DEF PolicyListFails, TurnTypes, Failures
    <2> QED
      BY <1>1, <1>6, <1>8, <2>1 DEF PolicyListFails, PolicyFailed, TurnTypes, Turns
  <1>9. CASE PolicyWriteFails
    <2>1. faults' \in [Failures -> 0..MaxFaults]
      BY <1>1, <1>9, FaultType DEF PolicyWriteFails, TurnTypes, Failures
    <2>2. errs' \in SUBSET {"attach", "policy"}
      BY <1>1, <1>9 DEF PolicyWriteFails, PolicyFailed, TurnTypes
    <2>3. CASE StartupDone
      BY <1>6, <1>9, <2>1, <2>2, <2>3 DEF PolicyWriteFails, PolicyFailed
    <2>4. CASE ~StartupDone
      <3>1. toWrite(nextPolicies) \subseteq DOMAIN nextPolicies
        BY DEF toWrite
      <3>2. \E gone : \E done : kernel' = Written(nextPolicies, gone, done \cap toWrite(nextPolicies))
        BY <1>9, <2>4 DEF PolicyWriteFails
      <3>3. PICK gone : \E fresh \in SUBSET DOMAIN nextPolicies :
              kernel' = Written(nextPolicies, gone, fresh)
        BY <3>1, <3>2
      <3>4. PartialFunction(kernel', Indexes, AllowRules)
        BY <3>3, WrittenType
      <3> QED BY <1>1, <1>9, <2>1, <2>2, <2>4, <3>4
              DEF PolicyWriteFails, PolicyFailed, TurnTypes, Turns
    <2> QED BY <2>3, <2>4
  <1> QED BY <1>4, <1>5, <1>7, <1>8, <1>9 DEF Turn

LEMMA ClientKeepsTypes ==
    ASSUME TypeOK, NEW o \in Owners, Client(o) \/ Cleanup(o) PROVE TypeOK'
  <1>1. ManagerTypes /\ TurnTypes /\ NetTypes /\ Shape
    BY TypeParts, BoundsAssumption DEF TypeOK, Shape, PartialFunction
  <1>2. UNCHANGED <<life, pending, errs, attached, current, set, kernel>>
    BY <1>1, QuietTurn
  <1>3. UNCHANGED <<netVars, faults>> /\ mu' \in Turns
    BY <1>1 DEF Client, Cleanup, AdminMutation, SetTemporaryRuleset, RemoveTemporaryRuleset,
                ForceRuleset, ReleaseRuleset, Connect, Disconnect, removeForceRulesets,
                removeTemporaryRuleset, TakeTurn, TurnTypes, Turns
  <1>4. TurnTypes' /\ NetTypes'
    BY <1>1, <1>2, <1>3 DEF TurnTypes, NetTypes, netVars
  <1> SUFFICES ManagerTypes'
    BY <1>4 DEF TypeOK, ManagerTypes, TurnTypes, NetTypes
  <1>5. forceRulesets' \in ForceRulesets /\ conn' \in [Owners -> {"none", "open", "drop_force", "drop_tmp"}]
    BY <1>1, ShapeStep DEF Shape, Next
  <1>6. ASSUME NEW req \in Requests, AdminMutation(o, req) PROVE ManagerTypes'
    <2>1. opts' \in mutateOptions(opts, req)
      BY <1>6 DEF AdminMutation
    <2>2. req \in MutationRequest
      BY RequestsAssumption
    <2>3. IsOptions(opts')
      BY <1>1, <2>1, <2>2, OptionsType DEF ManagerTypes
    <2>4. socksProxy' \in SocksState
      BY <1>1, <1>6, SocksAssumption DEF AdminMutation, ManagerTypes, SocksState
    <2> QED BY <1>1, <1>5, <1>6, <2>3, <2>4 DEF AdminMutation, ManagerTypes
  <1>7. ASSUME UNCHANGED <<opts, socksProxy>>, PartialFunction(tmpRulesets', Owners, TmpRuleset)
        PROVE  ManagerTypes'
    BY <1>1, <1>5, <1>7 DEF ManagerTypes
  <1>8. ASSUME NEW t \in TmpChoices, SetTemporaryRuleset(o, t) PROVE ManagerTypes'
    <2>1. PartialFunction(tmpRulesets', Owners, TmpRuleset)
      BY <1>1, <1>8, TmpAssumption DEF SetTemporaryRuleset, ManagerTypes, PartialFunction
    <2> QED BY <1>7, <1>8, <2>1 DEF SetTemporaryRuleset
  <1>9. CASE RemoveTemporaryRuleset(o) \/ removeTemporaryRuleset(o)
    <2>1. PartialFunction(dropTmp(o), Owners, TmpRuleset)
      BY <1>1 DEF dropTmp, ManagerTypes, PartialFunction
    <2> QED BY <1>7, <1>9, <2>1 DEF RemoveTemporaryRuleset, removeTemporaryRuleset
  <1>10. CASE UNCHANGED <<opts, socksProxy, tmpRulesets>>
    BY <1>1, <1>7, <1>10 DEF ManagerTypes
  <1>11. ASSUME NEW n \in RulesetNames, NEW ifaces \in ForceChoices, NEW replace \in BOOLEAN,
                ForceRuleset(o, n, ifaces, replace) \/ ReleaseRuleset(o, n, ifaces)
         PROVE  UNCHANGED <<opts, socksProxy, tmpRulesets>>
    BY <1>11 DEF ForceRuleset, ReleaseRuleset
  <1>12. CASE Connect(o) \/ Disconnect(o) \/ removeForceRulesets(o)
    BY <1>10, <1>12 DEF Connect, Disconnect, removeForceRulesets, managerVars
  <1> QED BY <1>6, <1>8, <1>9, <1>10, <1>11, <1>12 DEF Client, Cleanup

LEMMA NetworkKeepsTypes == TypeOK /\ Network => TypeOK'
  <1> SUFFICES ASSUME TypeOK, Network PROVE TypeOK'
    OBVIOUS
  <1>1. ManagerTypes /\ TurnTypes /\ NetTypes
    BY TypeParts
  <1>2. PICK i \in Indexes : LinkEvent(i)
    BY DEF Network
  <1>3. NetChange
    BY <1>2 DEF LinkEvent, LinkAdded, LinkRemoved, LinkChanged
  <1>4. PartialFunction(net', Indexes, Infos) /\ born' \in SUBSET Indexes /\ DOMAIN net' \subseteq born'
    <2>1. ASSUME NEW info \in Infos, LinkAdded(i, info) \/ LinkChanged(i, info)
          PROVE  /\ PartialFunction(net', Indexes, Infos)
                 /\ born' \in SUBSET Indexes /\ DOMAIN net' \subseteq born'
      BY <1>1, <2>1 DEF NetTypes, LinkAdded, LinkChanged, PartialFunction
    <2>2. CASE LinkRemoved(i)
      BY <1>1, <2>2 DEF NetTypes, LinkRemoved, PartialFunction
    <2> QED BY <1>2, <2>1, <2>2 DEF LinkEvent
  <1>5. changes' \in 0..MaxNetChanges
    BY <1>1, <1>3, BoundsAssumption DEF NetTypes, NetChange
  <1>6. ManagerTypes'
    BY <1>1, <1>3 DEF NetChange, ManagerTypes, managerVars
  <1>7. pending' \in BOOLEAN
    BY <1>1 DEF Network, TurnTypes
  <1>8. TurnTypes'
    BY <1>1, <1>3, <1>7 DEF NetChange, TurnTypes, policyVars
  <1> QED BY <1>4, <1>5, <1>6, <1>8 DEF TypeOK, ManagerTypes, TurnTypes

(* The daemon's options, rulesets, memory, attachments and maps are well   *)
(* formed in every state: no accepted mutation leaves the interfaces       *)
(* without an include selector or a ruleset without a trigger, and counts  *)
(* of activations do not go below zero (admin_mutation.go, mutateOptions). *)
THEOREM DaemonTypeCorrect == Spec => []TypeOK
  <1>1. TypeOK /\ [Next]_vars => TypeOK'
    <2> SUFFICES ASSUME TypeOK, [Next]_vars PROVE TypeOK'
      OBVIOUS
    <2>1. CASE Turn
      BY <2>1, TurnKeepsTypes
    <2>2. CASE Startup \/ WatcherReconcile \/ SpuriousUpdate
      BY <2>2 DEF Startup, WatcherReconcile, SpuriousUpdate, TakeTurn, TypeOK, Turns,
                  managerVars, policyVars, netVars
    <2>3. ASSUME NEW o \in Owners, Client(o) \/ Cleanup(o) PROVE TypeOK'
      BY <2>3, ClientKeepsTypes
    <2>4. ASSUME NEW state \in ProxyStates, setSocksProxyState(state) PROVE TypeOK'
      BY <2>4, SocksAssumption DEF setSocksProxyState, TakeTurn, TypeOK, Turns, SocksState,
                                   policyVars, netVars
    <2>5. CASE Network
      BY <2>5, NetworkKeepsTypes
    <2>6. CASE Shutdown
      BY <2>6, EmptyType DEF Shutdown, Exit, TypeOK, Turns, managerVars, netVars
    <2>7. CASE UNCHANGED vars
      BY <2>7 DEF vars, TypeOK, managerVars, policyVars, netVars
    <2> QED BY <2>1, <2>2, <2>3, <2>4, <2>5, <2>6, <2>7 DEF Next
  <1> QED BY <1>1, InitTypes, PTL DEF Spec
=============================================================================
