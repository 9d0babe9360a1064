---------------------------- MODULE PolicyManager ----------------------------
(***************************************************************************)
(* The system daemon's reconciliation: policy_manager.go, the attachments  *)
(* of egress.go, the mutation handlers of admin_mutation.go, and the       *)
(* goroutines that call them (interface watcher, admin connections, proxy  *)
(* callback), which take turns under reconcileMu.                          *)
(*                                                                         *)
(* A turn is two or three steps: change the daemon's state (or not),       *)
(* attach and detach the egress program, then recompute the policies and   *)
(* write those that changed.  The network may change between the steps,    *)
(* and listing interfaces, attaching and writing may each fail.            *)
(*                                                                         *)
(* The eBPF maps are the store of whole policies that module BpfMaps       *)
(* implements.                                                             *)
(***************************************************************************)
EXTENDS EffectivePolicy

CONSTANTS
    Indexes,        \* interface indexes
    InitialOptions, \* the options the daemon may be configured with
    Requests,       \* option mutations that clients may ask for
    TmpChoices,     \* temporary rulesets that clients may ask for
    ForceChoices,   \* lists of interface names in force_ruleset requests
    ProxyStates,    \* the states the SOCKS proxy may report
    SocksEnabled,   \* socks_proxy.enabled in the configuration
    FaultKinds,     \* the failures that may happen: "list", "attach", "write"
    MaxFaults,      \* bound on the failures of each kind
    MaxNetChanges,  \* bound on the number of network changes
    MaxRefs         \* bound on a client's activations of one forced ruleset

ASSUME OptionsAssumption == \A o \in InitialOptions : IsOptions(o)
ASSUME RequestsAssumption == Requests \subseteq MutationRequest
ASSUME TmpAssumption == TmpChoices \subseteq TmpRuleset
ASSUME ForceAssumption == ForceChoices \subseteq SUBSET IfNames
ASSUME SocksAssumption ==
    /\ SocksEnabled \in BOOLEAN
    /\ ProxyStates \subseteq [enabled : BOOLEAN, running : BOOLEAN]
Failures == {"list", "attach", "write"}
ASSUME FaultsAssumption == FaultKinds \subseteq Failures
ASSUME BoundsAssumption ==
    MaxFaults \in Nat /\ MaxNetChanges \in Nat /\ MaxRefs \in Nat

VARIABLES
    opts,           \* policyManager.opts
    tmpRulesets,    \* policyManager.tmpRulesets
    forceRulesets,  \* policyManager.forceRulesets
    socksProxy,     \* policyManager.socksProxy
    current,        \* policyManager.current
    set,            \* policyManager.set
    attached,       \* egressManager.attached
    kernel,         \* the policies in the eBPF maps
    mu,             \* reconcileMu: "free", or what its holder does next
    pending,        \* the watcher owes a reconcile to a netlink update
    life,           \* "starting", "running" or "exited"
    conn,           \* the state of each admin connection
    net,            \* the interfaces that exist, by index
    born,           \* the indexes that were ever used; Linux does not reuse them
    errs,           \* the reconcile steps whose last attempt failed
    faults,         \* the number of failures of each kind so far
    changes         \* the number of network changes so far

managerVars == <<opts, tmpRulesets, forceRulesets, socksProxy>>
policyVars == <<current, set, kernel>>
netVars == <<net, born, changes>>
vars == <<managerVars, policyVars, netVars, attached, mu, pending, life, conn, errs, faults>>

Policy == [info : Infos, rules : AllowRules]
SocksState == [enabled : BOOLEAN, running : BOOLEAN]
Turns == {"free", "start_attach", "watch_attach", "admin_attach", "start_policy", "policy"}

(* Linux keeps interface names unique. *)
uniqueNames(n) == \A i, k \in DOMAIN n : n[i].name = n[k].name => i = k

NoForce == [n \in RulesetNames |-> [o \in Owners |-> [f \in IfNames |-> 0]]]

Init ==
    /\ opts \in InitialOptions
    /\ tmpRulesets = [o \in {} |-> {}]
    /\ forceRulesets = NoForce
    /\ socksProxy = [enabled |-> SocksEnabled, running |-> FALSE]
    /\ current = [i \in {} |-> {}]
    /\ set = FALSE
    /\ kernel = [i \in {} |-> {}]
    /\ attached = {}
    /\ mu = "free"
    /\ pending = FALSE
    /\ life = "starting"
    /\ conn = [o \in Owners |-> "none"]
    /\ \E D \in SUBSET Indexes : net \in [D -> Infos]
    /\ uniqueNames(net)
    /\ born = DOMAIN net
    /\ errs = {}
    /\ faults = [k \in Failures |-> 0]
    /\ changes = 0

Fault(kind) ==
    /\ kind \in FaultKinds
    /\ faults[kind] < MaxFaults
    /\ faults' = [faults EXCEPT ![kind] = @ + 1]

Alive == life # "exited"

(* A goroutine takes reconcileMu and goes on to the given step. *)
TakeTurn(step) ==
    /\ Alive
    /\ mu = "free"
    /\ mu' = step

(* run returns: the links are closed and the maps are freed. *)
Exit ==
    /\ life' = "exited"
    /\ attached' = {}
    /\ current' = [i \in {} |-> {}]
    /\ set' = FALSE
    /\ kernel' = [i \in {} |-> {}]
    /\ mu' = "free"
    /\ pending' = FALSE

-----------------------------------------------------------------------------
(* egressManager.reconcileCurrent. *)

AfterAttach == IF mu = "start_attach" THEN "start_policy" ELSE "policy"

(* Detach what is no longer selected, attach what is.  An interface that   *)
(* cannot be attached is skipped; only the startup reconcile is strict.    *)
EgressReconcile ==
    /\ mu \in {"start_attach", "watch_attach", "admin_attach"}
    /\ \E failed \in SUBSET (selectInterfaces(net, opts) \ attached) :
          /\ attached' = selectInterfaces(net, opts) \ failed
          /\ \/ /\ failed = {}
                /\ errs' = errs \ {"attach"}
                /\ UNCHANGED faults
             \/ /\ failed # {}
                /\ errs' = errs \cup {"attach"}
                /\ Fault("attach")
    /\ mu' = AfterAttach
    /\ UNCHANGED <<managerVars, policyVars, netVars, pending, life, conn>>

(* listInterfaces fails.  The watcher goes on to the policies, a mutation  *)
(* returns with its options replaced and nothing recomputed.               *)
EgressListFails ==
    /\ mu \in {"start_attach", "watch_attach", "admin_attach"}
    /\ Fault("list")
    /\ \/ /\ mu = "admin_attach"
          /\ mu' = "free"
          /\ errs' = errs \cup {"attach", "policy"}
       \/ /\ mu # "admin_attach"
          /\ mu' = AfterAttach
          /\ errs' = errs \cup {"attach"}
    /\ UNCHANGED <<managerVars, policyVars, netVars, attached, pending, life, conn>>

-----------------------------------------------------------------------------
(* policyManager.reconcileAttached and reconcile. *)

(* The attached interfaces that a listing finds. *)
listAttached == [i \in attached \cap DOMAIN net |-> net[i]]

nextPolicies ==
    effectivePoliciesForInterfaces(
        listAttached, opts, tmpRulesets, forceRulesets, socksProxy.running)

(* Faulty variants, here and below, are slips that a property must catch;  *)
(* no action uses them.  This one does not compare the rules.              *)
SamePolicyButRules(p, q) ==
    /\ p.info.name = q.info.name
    /\ p.info.type = q.info.type
    /\ p.info.addrs = q.info.addrs

(* interfacePolicyRulesEqual: what changes only in the SSID, the BSSID or  *)
(* the gateways does not count.  (DeepEqual also tells an empty list of    *)
(* addresses from the nil that its clone is: with an interface without an  *)
(* address every reconcile reports a change, although toWrite is empty.)   *)
SamePolicy(p, q) ==
    /\ p.info.name = q.info.name
    /\ p.info.type = q.info.type
    /\ p.info.addrs = q.info.addrs
    /\ p.rules = q.rules

interfacePolicyRulesEqual(p, q) ==
    /\ DOMAIN p = DOMAIN q
    /\ \A i \in DOMAIN p : SamePolicy(p[i], q[i])

skipWrite(next) == set /\ interfacePolicyRulesEqual(current, next)

(* Faulty: vanished interfaces are not cleared; known ones not rewritten. *)
toClearNothing(next) == {}
toWriteNewOnly(next) == DOMAIN next \ DOMAIN current

(* writeEffectivePolicies compares with what it believes to be in the      *)
(* maps: it clears the interfaces that left and writes those whose rules   *)
(* are new.                                                                *)
toClear(next) == DOMAIN current \ DOMAIN next
toWrite(next) ==
    {i \in DOMAIN next : i \notin DOMAIN current \/ current[i].rules # next[i].rules}

(* The maps after the interfaces in "gone" were cleared and those in       *)
(* "fresh" written.                                                        *)
Written(next, gone, fresh) ==
    [i \in (DOMAIN kernel \ gone) \cup fresh |->
        IF i \in fresh THEN next[i].rules ELSE kernel[i]]

(* Startup succeeds if neither step of its reconcile failed. *)
StartupDone == mu = "start_policy"

PolicyReconcile ==
    /\ mu \in {"policy", "start_policy"}
    /\ errs' = errs \ {"policy"}
    /\ \/ /\ StartupDone /\ "attach" \in errs
          /\ Exit
       \/ /\ ~(StartupDone /\ "attach" \in errs)
          /\ kernel' = IF skipWrite(nextPolicies) THEN kernel
                       ELSE Written(nextPolicies, toClear(nextPolicies), toWrite(nextPolicies))
          /\ current' = nextPolicies
          /\ set' = TRUE
          /\ life' = IF StartupDone THEN "running" ELSE life
          /\ mu' = "free"
          /\ UNCHANGED <<attached, pending>>
    /\ UNCHANGED <<managerVars, netVars, conn, faults>>

(* After an error in the policy step the handler returns; at startup the   *)
(* daemon exits.                                                           *)
PolicyFailed ==
    /\ errs' = errs \cup {"policy"}
    /\ \/ StartupDone /\ Exit
       \/ /\ ~StartupDone
          /\ mu' = "free"
          /\ UNCHANGED <<current, set, attached, pending, life>>
    /\ UNCHANGED <<managerVars, netVars, conn>>

(* listInterfaces is only called if something is attached. *)
PolicyListFails ==
    /\ mu \in {"policy", "start_policy"}
    /\ attached # {}
    /\ Fault("list")
    /\ PolicyFailed
    /\ ~StartupDone => UNCHANGED kernel

(* writeEffectivePolicies stops at interface i after the ones in "done":   *)
(* Go visits a map in no fixed order, but clears before it writes.  The    *)
(* maps keep i's old policy or none (PolicyStore!Stop), m.current is not   *)
(* updated.                                                                *)
PolicyWriteFails ==
    /\ mu \in {"policy", "start_policy"}
    /\ ~skipWrite(nextPolicies)
    /\ Fault("write")
    /\ PolicyFailed
    /\ LET clear == toClear(nextPolicies)
           write == toWrite(nextPolicies)
       IN  \E done \in SUBSET (clear \cup write) :
             \E i \in (clear \cup write) \ done : \E lost \in SUBSET {i} :
               /\ (done \cup {i}) \cap write # {} => clear \subseteq done
               /\ ~StartupDone =>
                     kernel' = Written(nextPolicies, (done \cap clear) \cup lost, done \cap write)

-----------------------------------------------------------------------------
(* Turns. *)

(* watchInterfaces begins with a strict reconcile. *)
Startup ==
    /\ life = "starting"
    /\ TakeTurn("start_attach")
    /\ UNCHANGED <<managerVars, policyVars, netVars, attached, pending, life, conn, errs, faults>>

(* The debounce timer fires, or the netlink subscription was renewed; the  *)
(* next update may be waiting already (InterfaceWatcher has the details).  *)
WatcherReconcile ==
    /\ life = "running"
    /\ pending
    /\ TakeTurn("watch_attach")
    /\ pending' \in BOOLEAN
    /\ UNCHANGED <<managerVars, policyVars, netVars, attached, life, conn, errs, faults>>

(* Faulty: activations outlive their ruleset. *)
pruneNothing(force, rulesets) == force

(* pruneForceRulesetsLocked: drop the activations of vanished rulesets. *)
pruneForceRulesets(force, rulesets) ==
    [n \in RulesetNames |-> IF n \in DOMAIN rulesets THEN force[n] ELSE NoForce[n]]

(* applyAdminMutation up to replaceOptions.  A rejected request changes    *)
(* nothing.                                                                *)
AdminMutation(o, req) ==
    /\ conn[o] = "open"
    /\ TakeTurn("admin_attach")
    /\ \E next \in mutateOptions(opts, req) :
          /\ opts' = next
          /\ forceRulesets' = pruneForceRulesets(forceRulesets, next.rulesets)
    /\ socksProxy' = IF socksProxy.enabled \/ socksProxy.running THEN socksProxy
                     ELSE [enabled |-> SocksEnabled, running |-> FALSE]
    /\ UNCHANGED <<tmpRulesets, policyVars, netVars, attached, pending, life, conn, errs, faults>>

(* The proxy reports its state, by its callback or after a mutation. *)
setSocksProxyState(state) ==
    /\ TakeTurn("policy")
    /\ socksProxy' = state
    /\ UNCHANGED <<opts, tmpRulesets, forceRulesets, policyVars, netVars, attached, pending,
                   life, conn, errs, faults>>

(* applyTemporaryRulesetMutation: an owner has at most one. *)
SetTemporaryRuleset(o, t) ==
    /\ conn[o] = "open"
    /\ t.interfaces # {}
    /\ TakeTurn("policy")
    /\ tmpRulesets' = [p \in DOMAIN tmpRulesets \cup {o} |->
                          IF p = o THEN t ELSE tmpRulesets[p]]
    /\ UNCHANGED <<opts, forceRulesets, socksProxy, policyVars, netVars, attached, pending,
                   life, conn, errs, faults>>

(* Faulty: the temporary ruleset stays. *)
dropNothing(o) == tmpRulesets

dropTmp(o) == [p \in DOMAIN tmpRulesets \ {o} |-> tmpRulesets[p]]

RemoveTemporaryRuleset(o) ==
    /\ conn[o] = "open"
    /\ TakeTurn("policy")
    /\ tmpRulesets' = dropTmp(o)
    /\ UNCHANGED <<opts, forceRulesets, socksProxy, policyVars, netVars, attached, pending,
                   life, conn, errs, faults>>

(* forceActivateRuleset: "set" replaces the owner's interfaces, "add"      *)
(* counts one more activation of each.                                     *)
forceActivateRuleset(o, n, ifaces, replace) ==
    [forceRulesets EXCEPT ![n][o] =
        [f \in IfNames |->
            (IF replace THEN 0 ELSE forceRulesets[n][o][f]) + (IF f \in ifaces THEN 1 ELSE 0)]]

ForceRuleset(o, n, ifaces, replace) ==
    /\ conn[o] = "open"
    /\ ifaces # {}
    /\ n \in DOMAIN opts.rulesets
    /\ replace \/ \A f \in ifaces : forceRulesets[n][o][f] < MaxRefs
    /\ TakeTurn("policy")
    /\ forceRulesets' = forceActivateRuleset(o, n, ifaces, replace)
    /\ UNCHANGED <<opts, tmpRulesets, socksProxy, policyVars, netVars, attached, pending,
                   life, conn, errs, faults>>

(* Faulty: a release without an activation counts below zero. *)
releaseBelowZero(o, n, ifaces) ==
    [forceRulesets EXCEPT ![n][o] =
        [f \in IfNames |->
            IF ifaces = {} THEN 0
            ELSE IF f \in ifaces THEN forceRulesets[n][o][f] - 1 ELSE forceRulesets[n][o][f]]]

(* releaseForceRulesetLocked: no interfaces means all of them. *)
releaseForceRuleset(o, n, ifaces) ==
    [forceRulesets EXCEPT ![n][o] =
        [f \in IfNames |->
            IF ifaces = {} THEN 0
            ELSE IF f \in ifaces /\ forceRulesets[n][o][f] > 0
                 THEN forceRulesets[n][o][f] - 1
                 ELSE forceRulesets[n][o][f]]]

ReleaseRuleset(o, n, ifaces) ==
    /\ conn[o] = "open"
    /\ TakeTurn("policy")
    /\ forceRulesets' = releaseForceRuleset(o, n, ifaces)
    /\ UNCHANGED <<opts, tmpRulesets, socksProxy, policyVars, netVars, attached, pending,
                   life, conn, errs, faults>>

-----------------------------------------------------------------------------
(* Admin connections.  handleConnection's deferred cleanup removes the     *)
(* owner's forced rulesets in one turn and its temporary ruleset in the    *)
(* next; either turn ends at once if there is nothing to remove.           *)

Connect(o) ==
    /\ Alive
    /\ conn[o] = "none"
    /\ conn' = [conn EXCEPT ![o] = "open"]
    /\ UNCHANGED <<managerVars, policyVars, netVars, attached, mu, pending, life, errs, faults>>

Disconnect(o) ==
    /\ Alive
    /\ conn[o] = "open"
    /\ conn' = [conn EXCEPT ![o] = "drop_force"]
    /\ UNCHANGED <<managerVars, policyVars, netVars, attached, mu, pending, life, errs, faults>>

holdsForce(o) == \E n \in RulesetNames, f \in IfNames : forceRulesets[n][o][f] > 0

(* Faulty: everybody's activations go; or the cleanup ends where there is  *)
(* nothing to remove.                                                      *)
removeAllForceRulesets(o) ==
    /\ conn[o] = "drop_force"
    /\ conn' = [conn EXCEPT ![o] = "drop_tmp"]
    /\ forceRulesets' = NoForce
    /\ TakeTurn(IF holdsForce(o) THEN "policy" ELSE "free")
    /\ UNCHANGED <<opts, tmpRulesets, socksProxy, policyVars, netVars, attached, pending,
                   life, errs, faults>>

removeForceRulesetsEndsEarly(o) ==
    /\ conn[o] = "drop_force"
    /\ holdsForce(o)
    /\ conn' = [conn EXCEPT ![o] = "drop_tmp"]
    /\ forceRulesets' = [n \in RulesetNames |-> [forceRulesets[n] EXCEPT ![o] = NoForce[n][o]]]
    /\ TakeTurn("policy")
    /\ UNCHANGED <<opts, tmpRulesets, socksProxy, policyVars, netVars, attached, pending,
                   life, errs, faults>>

removeForceRulesets(o) ==
    /\ conn[o] = "drop_force"
    /\ conn' = [conn EXCEPT ![o] = "drop_tmp"]
    /\ forceRulesets' = [n \in RulesetNames |-> [forceRulesets[n] EXCEPT ![o] = NoForce[n][o]]]
    /\ TakeTurn(IF holdsForce(o) THEN "policy" ELSE "free")
    /\ UNCHANGED <<opts, tmpRulesets, socksProxy, policyVars, netVars, attached, pending,
                   life, errs, faults>>

(* Faulty: the removal is not followed by a reconcile. *)
removeTemporaryRulesetOnly(o) ==
    /\ conn[o] = "drop_tmp"
    /\ conn' = [conn EXCEPT ![o] = "none"]
    /\ tmpRulesets' = dropTmp(o)
    /\ TakeTurn("free")
    /\ UNCHANGED <<opts, forceRulesets, socksProxy, policyVars, netVars, attached, pending,
                   life, errs, faults>>

removeTemporaryRuleset(o) ==
    /\ conn[o] = "drop_tmp"
    /\ conn' = [conn EXCEPT ![o] = "none"]
    /\ tmpRulesets' = dropTmp(o)
    /\ TakeTurn(IF o \in DOMAIN tmpRulesets THEN "policy" ELSE "free")
    /\ UNCHANGED <<opts, forceRulesets, socksProxy, policyVars, netVars, attached, pending,
                   life, errs, faults>>

-----------------------------------------------------------------------------
(* The network.  Every change sends a netlink update, and the watcher      *)
(* remembers that it has to reconcile.  Before the watcher has subscribed, *)
(* the startup reconcile will see the change.                              *)

NetChange ==
    /\ Alive
    /\ changes < MaxNetChanges
    /\ changes' = changes + 1
    /\ uniqueNames(net')
    /\ UNCHANGED <<managerVars, policyVars, attached, mu, life, conn, errs, faults>>

LinkAdded(i, info) ==
    /\ i \notin born
    /\ born' = born \cup {i}
    /\ net' = [k \in DOMAIN net \cup {i} |-> IF k = i THEN info ELSE net[k]]
    /\ NetChange

(* The kernel detaches the program from a vanished interface by itself. *)
LinkRemoved(i) ==
    /\ i \in DOMAIN net
    /\ net' = [k \in DOMAIN net \ {i} |-> net[k]]
    /\ UNCHANGED born
    /\ NetChange

(* A new name, address, access point or gateway. *)
LinkChanged(i, info) ==
    /\ i \in DOMAIN net
    /\ info # net[i]
    /\ net' = [net EXCEPT ![i] = info]
    /\ UNCHANGED born
    /\ NetChange

LinkEvent(i) ==
    \/ \E info \in Infos : LinkAdded(i, info) \/ LinkChanged(i, info)
    \/ LinkRemoved(i)

Network ==
    /\ \E i \in Indexes : LinkEvent(i)
    /\ \/ pending' = TRUE
       \/ life = "starting" /\ mu \notin {"start_attach", "start_policy"} /\ UNCHANGED pending

(* The watcher hears of something that changes no interface, or of an      *)
(* error of its subscriptions.                                             *)
SpuriousUpdate ==
    /\ Alive
    /\ ~pending
    /\ pending' = TRUE
    /\ UNCHANGED <<managerVars, policyVars, netVars, attached, mu, life, conn, errs, faults>>

(* A signal ends the daemon. *)
Shutdown ==
    /\ Alive
    /\ Exit
    /\ UNCHANGED <<managerVars, netVars, conn, errs, faults>>

-----------------------------------------------------------------------------
Turn ==
    \/ EgressReconcile
    \/ EgressListFails
    \/ PolicyReconcile
    \/ PolicyListFails
    \/ PolicyWriteFails

Client(o) ==
    \/ \E req \in Requests : AdminMutation(o, req)
    \/ \E t \in TmpChoices : SetTemporaryRuleset(o, t)
    \/ RemoveTemporaryRuleset(o)
    \/ \E n \in RulesetNames, ifaces \in ForceChoices :
          \/ \E replace \in BOOLEAN : ForceRuleset(o, n, ifaces, replace)
          \/ ReleaseRuleset(o, n, ifaces)
    \/ Connect(o)
    \/ Disconnect(o)

Cleanup(o) == removeForceRulesets(o) \/ removeTemporaryRuleset(o)

Next ==
    \/ Turn
    \/ Startup
    \/ WatcherReconcile
    \/ \E o \in Owners : Client(o) \/ Cleanup(o)
    \/ \E state \in ProxyStates : setSocksProxyState(state)
    \/ Network
    \/ SpuriousUpdate
    \/ Shutdown

Spec == Init /\ [][Next]_vars

-----------------------------------------------------------------------------
(* Properties. *)

(* The variables keep their types. *)
TypeOK ==
    /\ IsOptions(opts)
    /\ PartialFunction(tmpRulesets, Owners, TmpRuleset)
    /\ forceRulesets \in ForceRulesets
    /\ socksProxy \in SocksState
    /\ PartialFunction(current, Indexes, Policy)
    /\ set \in BOOLEAN
    /\ PartialFunction(kernel, Indexes, AllowRules)
    /\ attached \in SUBSET Indexes
    /\ mu \in Turns
    /\ pending \in BOOLEAN
    /\ life \in {"starting", "running", "exited"}
    /\ conn \in [Owners -> {"none", "open", "drop_force", "drop_tmp"}]
    /\ PartialFunction(net, Indexes, Infos)
    /\ born \in SUBSET Indexes
    /\ DOMAIN net \subseteq born
    /\ errs \in SUBSET {"attach", "policy"}
    /\ faults \in [Failures -> 0..MaxFaults]
    /\ changes \in 0..MaxNetChanges

(* What the daemon's state asks for on interface i. *)
wanted(i) == interfaceRules(net[i], opts, tmpRulesets, forceRulesets, socksProxy.running)

(* Every selected interface is attached, and no other, and the maps hold   *)
(* for each exactly the rules that the options, the rulesets, the clients  *)
(* and the proxy ask for.                                                  *)
InForce ==
    /\ attached = selectInterfaces(net, opts)
    /\ kernel = [i \in attached |-> wanted(i)]

(* Nobody holds reconcileMu and no netlink update waits for its reconcile. *)
Calm == life = "running" /\ mu = "free" /\ ~pending

(* A write of the maps has failed, which the daemon's memory does not      *)
(* recover from.                                                           *)
WriteFailed == faults["write"] > 0

(* Whenever the daemon is calm, the last attempt of each reconcile step    *)
(* succeeded and no map write ever failed, the kernel enforces what the    *)
(* daemon's state asks for: in particular skipping a write                 *)
(* (policyManager.reconcile) and writing only the interfaces that changed  *)
(* (writeEffectivePolicies) lose nothing, in any order of mutations,       *)
(* disconnects and network changes, and a failed listing or attachment is  *)
(* made good by the next reconcile that works.                             *)
ReconciledInForce == Calm /\ errs = {} /\ ~WriteFailed => InForce

(* Until a map write fails, m.current, the daemon's memory of what it has  *)
(* written, agrees with the maps; reconcile relies on it to skip writes.   *)
MapsMatchMemory == ~WriteFailed => kernel = [i \in DOMAIN current |-> current[i].rules]

(* Whatever failed before, writing included: when the daemon is calm and   *)
(* the last attempt of each step succeeded, its attachments and its memory *)
(* of the policies are those its state asks for.                           *)
MemoryIsWanted ==
    Calm /\ errs = {} =>
        /\ attached = selectInterfaces(net, opts)
        /\ [i \in DOMAIN current |-> current[i].rules] = [i \in attached |-> wanted(i)]

(* A policy does not outlive the attachment it was written for, so that an *)
(* interface attached later starts without one and drops.                  *)
DetachedHaveNoPolicy ==
    mu = "free" /\ "policy" \notin errs /\ ~WriteFailed => DOMAIN kernel \subseteq attached

(* A connection that is gone owns nothing any more: cleanup removed its    *)
(* forced and its temporary rulesets and nothing can add one afterwards    *)
(* (admin.go, handleConnection).                                           *)
GoneOwnersHoldNothing ==
    \A o \in Owners :
        /\ conn[o] \in {"none", "drop_tmp"} => ~holdsForce(o)
        /\ conn[o] = "none" => o \notin DOMAIN tmpRulesets

(* Only existing rulesets are forced, so a ruleset that is removed and     *)
(* defined anew under the same name is not forced by an old activation     *)
(* (policy_manager.go, pruneForceRulesetsLocked).                          *)
ForcedRulesetsExist ==
    \A n \in RulesetNames, o \in Owners, f \in IfNames :
        forceRulesets[n][o][f] > 0 => n \in DOMAIN opts.rulesets

(* A step of client o: one of its requests, or the cleanup after it. *)
ActsFor(o) == Client(o) \/ Cleanup(o)

(* Client p keeps its temporary ruleset and its activations, but for those *)
(* of rulesets that no longer exist.                                       *)
KeepsHoldings(p) ==
    /\ p \in DOMAIN tmpRulesets' <=> p \in DOMAIN tmpRulesets
    /\ p \in DOMAIN tmpRulesets => tmpRulesets'[p] = tmpRulesets[p]
    /\ \A n \in RulesetNames :
          forceRulesets'[n][p] =
              IF n \in DOMAIN opts'.rulesets THEN forceRulesets[n][p] ELSE NoForce[n][p]

(* What a client holds is touched by no step of another client, neither a  *)
(* request nor the cleanup of a connection that forced the same ruleset,   *)
(* and by no step of the watcher, the proxy, the network or a reconcile:   *)
(* only the removal of a ruleset takes its activations away from everybody *)
(* (policy_manager.go: forceActivateRuleset, releaseForceRulesetLocked,    *)
(* releaseAllForceRulesetLocked, pruneForceRulesetsLocked).                *)
OwnersAreIndependent ==
    [][\A p \in Owners :
          KeepsHoldings(p) \/ (ActsFor(p) /\ \A o \in Owners \ {p} : ~ActsFor(o))]_vars

(* README.md:361-362: "Temporary and forced rulesets are connection-       *)
(* scoped. They are removed automatically when the owning client           *)
(* disconnects."  With no connection left and the last reconcile a         *)
(* success, no interface lets through what only a client had asked for.    *)
NothingSurvivesDisconnect ==
    Calm /\ errs = {} /\ (\A o \in Owners : conn[o] = "none") =>
        \A i \in attached \cap DOMAIN kernel :
            kernel[i].keys \subseteq
                interfaceRules(net[i], opts, [o \in {} |-> {}], NoForce, socksProxy.running).keys
=============================================================================
