----------------------- MODULE InterfaceWatcherProofs -----------------------
(***************************************************************************)
(* The interface watcher, for any number of interfaces, network changes    *)
(* and failures of subscriptions: nothing is lost between netlink and the  *)
(* reconcile, so that all that is proved of PolicyManager with its one     *)
(* flag holds of the daemon with channels, timer and generations.          *)
(***************************************************************************)
EXTENDS InterfaceWatcher, PolicyManagerProofs, FiniteSetTheorems

(* The interfaces are records, by index, and an index is used once. *)
NetShape == PartialFunction(net, Indexes, Infos) /\ DOMAIN net \subseteq born

(* How the watcher's steps and the daemon's turns go together:             *)
(*  - until the watcher has subscribed the daemon is starting, and only    *)
(*    the watcher makes the startup's turn;                                *)
(*  - a daemon that has exited is in no turn;                              *)
(*  - an error of the current generation is about a subscription of the    *)
(*    current generation, and so is the renewal that answers it.           *)
Together ==
    /\ pending \in BOOLEAN
    /\ watch = "subscribe" => life = "starting"
    /\ mu \in {"start_attach", "start_policy"} => watch = "turn"
    /\ life = "exited" => mu = "free"
    /\ subscribeErrs = "current" \/ watch = "resubscribe" => ended # {}

(* A change that was not announced will be: it waits in a channel, it was  *)
(* lost with a subscription whose failure is seen, or an event is due.     *)
WillBeTold ==
    /\ notifyInterfaces => pending
    /\ untold =>
          \/ watch \in {"subscribe", "startup", "returned"}
          \/ notifyInterfaces
          \/ updates \cap {"link", "addr"} # {}
          \/ ended # {}
          \/ event /\ watch \in {"lock", "turn", "notify"}

-----------------------------------------------------------------------------
(* Steps that the watcher shares with the policy manager. *)

(* A step of a turn ends the daemon, or leaves its life to go on. *)
LEMMA TurnStepShape ==
    ASSUME Together, Turn
    PROVE  /\ Alive
           /\ life' = "exited" => Exit
           /\ life' # "exited" => UNCHANGED pending
           /\ UNCHANGED <<net, born>>
           /\ mu' # "start_attach"
           /\ mu' = "start_policy" => mu = "start_attach"
           /\ life' \notin {life, "exited"} => mu = "start_policy" /\ mu' = "free"
  BY DEF Together, Alive, Turn, EgressReconcile, EgressListFails, AfterAttach, PolicyReconcile,
         PolicyListFails, PolicyWriteFails, PolicyFailed, StartupDone, Exit, netVars

(* Clients, cleanups and the proxy's callback do not touch the watcher. *)
LEMMA OthersShape ==
    ASSUME Others
    PROVE  /\ UNCHANGED <<life, pending, net, born, watcherVars>>
           /\ mu' # mu => mu' \in {"policy", "admin_attach", "free"} /\ Alive
           /\ mu' # mu => mu = "free"
  BY DEF Others, Client, Cleanup, AdminMutation, SetTemporaryRuleset, RemoveTemporaryRuleset,
         ForceRuleset, ReleaseRuleset, Connect, Disconnect, removeForceRulesets,
         removeTemporaryRuleset, setSocksProxyState, TakeTurn, Alive, managerVars, policyVars, netVars

(* An update of an interface reaches a subscription. *)
LEMMA UpdateReaches ==
    ASSUME NetShape, NEW i \in Indexes, LinkEvent(i)
    PROVE  /\ UpdateKinds(i) # {}
           /\ UpdateKinds(i) \subseteq Kinds
           /\ Shown(net') # Shown(net) => UpdateKinds(i) \cap {"link", "addr"} # {}
  <1>1. UpdateKinds(i) \subseteq Kinds
    BY DEF UpdateKinds
  <1>2. "link" \in Kinds
    BY CoverageAssumption
  <1>3. CASE i \notin DOMAIN net \/ i \notin DOMAIN net'
    <2>1. "link" \in UpdateKinds(i)
      BY <1>2, <1>3 DEF UpdateKinds
    <2> QED BY <1>1, <2>1
  <1>4. CASE i \in DOMAIN net /\ i \in DOMAIN net'
    <2>1. PICK info \in Infos : LinkChanged(i, info)
      BY <1>4 DEF LinkEvent, LinkAdded, LinkRemoved, NetShape, PartialFunction
    <2>2. /\ info # net[i] /\ net[i] \in Infos
          /\ net' = [net EXCEPT ![i] = info] /\ net'[i] = info
          /\ \A k \in DOMAIN net : k # i => net'[k] = net[k]
          /\ DOMAIN net' = DOMAIN net
      BY <1>4, <2>1 DEF LinkChanged, NetShape, PartialFunction
    <2>3. PICK old \in Infos : old = net[i]
      BY <2>2
    <2> DEFINE rest(r) == [r EXCEPT !.addrs = {}, !.gatewayMACs = {}]
    <2>4. info.addrs # old.addrs => "addr" \in UpdateKinds(i)
      BY <1>4, <2>2, <2>3, CoverageAssumption DEF UpdateKinds
    <2>5. info.gatewayMACs # old.gatewayMACs => UpdateKinds(i) # {}
      BY <1>4, <2>2, <2>3, CoverageAssumption DEF UpdateKinds
    <2>6. rest(info) # rest(old) => "link" \in UpdateKinds(i)
      BY <1>2, <1>4, <2>2, <2>3 DEF UpdateKinds
    <2>7. info.addrs = old.addrs /\ rest(info) = rest(old) =>
            [info EXCEPT !.gatewayMACs = {}] = [old EXCEPT !.gatewayMACs = {}]
      BY InfosAssumption
    <2>8. info.addrs = old.addrs /\ rest(info) = rest(old) /\ info.gatewayMACs = old.gatewayMACs =>
            info = old
      BY InfosAssumption
    <2>9. [info EXCEPT !.gatewayMACs = {}] = [old EXCEPT !.gatewayMACs = {}] => Shown(net') = Shown(net)
      BY <2>2, <2>3 DEF Shown
    <2> HIDE DEF rest
    <2> QED BY <1>1, <2>2, <2>3, <2>4, <2>5, <2>6, <2>7, <2>8, <2>9
  <1> QED BY <1>3, <1>4

-----------------------------------------------------------------------------
(* The invariant. *)

WInv == NetShape /\ Together /\ WillBeTold

LEMMA InitWInv == WInit => WInv
  BY DEF WInit, Init, WInv, NetShape, PartialFunction, Together, WillBeTold

(* What the steps of the watcher itself and of netlink leave alone. *)
LEMMA WatcherKeeps ==
    ASSUME WInv, Watcher, ~WatcherGivesUp
    PROVE  WInv'
  <1> USE DEF policyManagerVars, channelVars, noticeVars, netVars
  <1>1. NetShape'
    <2>1. UNCHANGED <<net, born>>
      BY DEF Watcher, Subscribe, StartupReconcile, Startup, ReceiveUpdate, TimerFires,
             ReceiveOldError, ReceiveError, Resubscribe, LockTurn, NotifyEvents
    <2> QED BY <2>1 DEF WInv, NetShape, PartialFunction
  <1>2. Together'
    BY DEF WInv, Together, Watcher, Subscribe, StartupReconcile, Startup, TakeTurn, ReceiveUpdate,
           scheduleReconcile, TimerFires, ReceiveOldError, ReceiveError, Resubscribe, reconcileNow,
           LockTurn, NotifyEvents, Alive, Selecting
  <1>3. WillBeTold'
    <2> USE DEF WInv, Together, WillBeTold, Selecting
    <2>1. CASE Subscribe \/ StartupReconcile \/ LockTurn
      BY <2>1 DEF Subscribe, StartupReconcile, Startup, LockTurn
    <2>2. ASSUME NEW k \in Kinds, ReceiveUpdate(k) PROVE WillBeTold'
      BY <2>2 DEF ReceiveUpdate, scheduleReconcile
    <2>3. CASE TimerFires
      BY <2>3 DEF TimerFires
    <2>4. CASE ReceiveOldError \/ ReceiveError
      BY <2>4 DEF ReceiveOldError, ReceiveError
    <2>5. CASE Resubscribe
      BY <2>5 DEF Resubscribe, reconcileNow
    <2>6. CASE NotifyEvents
      BY <2>6 DEF NotifyEvents
    <2> QED BY <2>1, <2>2, <2>3, <2>4, <2>5, <2>6 DEF Watcher
  <1> QED BY <1>1, <1>2, <1>3 DEF WInv

LEMMA NetlinkKeeps == WInv /\ Netlink => WInv'
  <1> SUFFICES ASSUME WInv, Netlink PROVE WInv'
    OBVIOUS
  <1> USE DEF policyManagerVars, channelVars, noticeVars, netVars
  <1>1. CASE NeighbourUpdate \/ (\E k \in Kinds : SubscriptionFails(k)) \/ OldSubscriptionEnds
    <2>1. NetShape'
      BY <1>1 DEF WInv, NetShape, PartialFunction, NeighbourUpdate, SubscriptionFails,
                  OldSubscriptionEnds
    <2>2. Together'
      BY <1>1 DEF WInv, Together, NeighbourUpdate, SubscriptionFails, OldSubscriptionEnds, errCallback
    <2>3. WillBeTold'
      BY <1>1 DEF WInv, WillBeTold, NeighbourUpdate, SubscriptionFails, OldSubscriptionEnds
    <2> QED BY <2>1, <2>2, <2>3 DEF WInv
  <1>2. ASSUME NEW i \in Indexes, LinkUpdate(i) PROVE WInv'
    <2>1. LinkEvent(i) /\ NetChange
      BY <1>2 DEF LinkUpdate, LinkEvent, LinkAdded, LinkRemoved, LinkChanged
    <2>2. NetShape'
      <3>1. ASSUME NEW info \in Infos, LinkAdded(i, info) \/ LinkChanged(i, info) PROVE NetShape'
        BY <3>1 DEF WInv, NetShape, PartialFunction, LinkAdded, LinkChanged
      <3>2. CASE LinkRemoved(i)
        BY <3>2 DEF WInv, NetShape, PartialFunction, LinkRemoved
      <3> QED BY <2>1, <3>1, <3>2 DEF LinkEvent
    <2>3. Together'
      BY <1>2, <2>1 DEF WInv, Together, LinkUpdate, NetChange
    <2>4. WillBeTold'
      <3>1. Shown(net') # Shown(net) => UpdateKinds(i) \cap {"link", "addr"} # {}
        BY <2>1, UpdateReaches DEF WInv
      <3> QED BY <1>2, <3>1 DEF WInv, WillBeTold, LinkUpdate, Subscribed
    <2> QED BY <2>2, <2>3, <2>4 DEF WInv
  <1> QED BY <1>1, <1>2 DEF Netlink

LEMMA TurnKeeps == WInv /\ TurnStep => WInv'
  <1> SUFFICES ASSUME WInv, TurnStep PROVE WInv'
    OBVIOUS
  <1> USE DEF channelVars
  <1>1. Turn
    BY DEF TurnStep
  <1>2. NetShape'
    BY <1>1, TurnStepShape DEF WInv, NetShape, PartialFunction
  <1>3. CASE life' = "exited"
    <2>1. Exit /\ WatcherGone
      BY <1>1, <1>3, TurnStepShape DEF WInv, TurnStep, Alive
    <2>2. Together' /\ WillBeTold'
      BY <2>1 DEF Together, WillBeTold, Exit, WatcherGone
    <2> QED BY <1>2, <2>2 DEF WInv
  <1>4. CASE life' # "exited"
    <2>1. /\ watch' = IF watch = "turn" /\ mu' = "free" THEN "notify" ELSE watch
          /\ event => event'
          /\ UNCHANGED <<channelVars, notifyInterfaces, untold, pending>>
      BY <1>1, <1>4, TurnStepShape DEF WInv, TurnStep, Alive
    <2>2. Together'
      BY <1>1, <1>4, <2>1, TurnStepShape DEF WInv, Together
    <2>3. WillBeTold'
      BY <2>1 DEF WInv, WillBeTold
    <2> QED BY <1>2, <2>2, <2>3 DEF WInv
  <1> QED BY <1>3, <1>4

LEMMA WNextInv == WInv /\ [WNext]_wvars => WInv'
  <1> SUFFICES ASSUME WInv, [WNext]_wvars PROVE WInv'
    OBVIOUS
  <1>1. CASE WatcherGivesUp \/ SignalArrives
    <2>1. Exit /\ WatcherGone /\ UNCHANGED <<net, born>>
      BY <1>1 DEF WatcherGivesUp, SignalArrives, Shutdown, netVars
    <2>2. NetShape' /\ Together' /\ WillBeTold'
      BY <2>1 DEF WInv, NetShape, PartialFunction, Together, WillBeTold, Exit, WatcherGone
    <2> QED BY <2>2 DEF WInv
  <1>2. CASE Others
    <2>1. NetShape' /\ Together' /\ WillBeTold'
      BY <1>2, OthersShape DEF WInv, NetShape, PartialFunction, Together, WillBeTold, watcherVars,
                               channelVars, noticeVars, Alive
    <2> QED BY <2>1 DEF WInv
  <1>3. CASE UNCHANGED wvars
    BY <1>3 DEF wvars, vars, netVars, watcherVars, channelVars, noticeVars, WInv, NetShape,
                PartialFunction, Together, WillBeTold
  <1> QED BY <1>1, <1>2, <1>3, WatcherKeeps, NetlinkKeeps, TurnKeeps DEF WNext

LEMMA WInvAlways == WSpec => []WInv
  BY InitWInv, WNextInv, PTL DEF WSpec

(* When the watcher has nothing left to do, the last interfaces event      *)
(* lists the interfaces as they are: however many updates one reconcile    *)
(* answers, whichever subscription failed (egress.go, notifyInterfaces).   *)
THEOREM ClientsAreTold == WSpec => []InterfacesAreTold
  <1>1. WInv => InterfacesAreTold
    BY DEF WInv, WillBeTold, InterfacesAreTold, Owed
  <1> QED BY <1>1, WInvAlways, PTL

-----------------------------------------------------------------------------
(* Types.  The bound on the old subscriptions that are still to end counts *)
(* the renewals: each answers at least one failure and ends the others of  *)
(* its generation.                                                         *)

WatcherTypes ==
    /\ watch \in {"subscribe", "startup", "select", "resubscribe", "lock", "turn", "notify",
                  "returned"}
    /\ updates \in SUBSET Kinds
    /\ ended \in SUBSET Kinds
    /\ subscribeErrs \in {"empty", "old", "current"}
    /\ notifyInterfaces \in BOOLEAN
    /\ event \in BOOLEAN
    /\ untold \in BOOLEAN
    /\ subErrors \in 0..MaxSubErrors

(* The other subscriptions of a generation. *)
Companions == Cardinality(Kinds) - 1

Renewals == subErrors - (IF ended = {} THEN 0 ELSE 1)

ClosingBound ==
    /\ closing \in Nat
    /\ Renewals \in Nat
    /\ closing <= Renewals * Companions

LEMMA KindsCount ==
    /\ Companions \in Nat
    /\ \A S \in SUBSET Kinds : S # {} => Cardinality(Kinds \ S) \in Nat /\ Cardinality(Kinds \ S) <= Companions
  <1>1. IsFiniteSet(Kinds)
    <2>1. IsFiniteSet({}) /\ AllKinds = ((({} \cup {"link"}) \cup {"addr"}) \cup {"route"}) \cup {"neigh"}
      BY FS_EmptySet DEF AllKinds
    <2>2. IsFiniteSet({} \cup {"link"})
      BY <2>1, FS_AddElement
    <2>3. IsFiniteSet(({} \cup {"link"}) \cup {"addr"})
      BY <2>2, FS_AddElement
    <2>4. IsFiniteSet((({} \cup {"link"}) \cup {"addr"}) \cup {"route"})
      BY <2>3, FS_AddElement
    <2>5. IsFiniteSet(AllKinds)
      BY <2>1, <2>4, FS_AddElement
    <2> QED BY <2>5, KindsAssumption, FS_Subset
  <1>2. ASSUME NEW S \in SUBSET Kinds, NEW x \in S
        PROVE  Cardinality(Kinds \ S) \in Nat /\ Cardinality(Kinds \ S) <= Companions
    <2>1. IsFiniteSet(Kinds \ {x}) /\ Cardinality(Kinds \ {x}) = Companions
      BY <1>1, FS_RemoveElement DEF Companions
    <2>2. Kinds \ S \in SUBSET (Kinds \ {x})
      OBVIOUS
    <2> QED BY <2>1, <2>2, FS_Subset, FS_CardinalityType
  <1>3. Companions \in Nat
    <2>1. PICK x : x \in Kinds
      BY CoverageAssumption
    <2>2. IsFiniteSet(Kinds \ {x}) /\ Cardinality(Kinds \ {x}) = Companions
      BY <1>1, <2>1, FS_RemoveElement DEF Companions
    <2> QED BY <2>2, FS_CardinalityType
  <1> QED BY <1>2, <1>3

LEMMA Times ==
    ASSUME NEW n \in Nat, NEW m \in Nat, NEW w \in Nat, n <= m
    PROVE  /\ n * w <= m * w
           /\ (n + 1) * w = n * w + w
           /\ n * w \in Nat /\ m * w \in Nat
  OBVIOUS

(* No step but these two raises the number of old subscriptions or takes   *)
(* from the failures that bound it.                                        *)
LEMMA ClosingStep ==
    ASSUME WInv, WatcherTypes, ClosingBound, [WNext]_wvars
    PROVE  ClosingBound'
  <1> USE DEF WatcherTypes
  <1>1. CASE Resubscribe
    <2>1. ended # {} /\ ended' = {} /\ UNCHANGED subErrors /\ closing' = closing + Cardinality(Kinds \ ended)
      BY <1>1 DEF Resubscribe, closeDone, WInv, Together
    <2>2. PICK n \in Nat : n = Renewals /\ subErrors = n + 1 /\ Renewals' = n + 1
      BY <2>1, SubErrorsAssumption DEF Renewals, ClosingBound
    <2>3. closing <= n * Companions /\ closing \in Nat
      BY <2>2 DEF ClosingBound
    <2>4. Cardinality(Kinds \ ended) \in Nat /\ Cardinality(Kinds \ ended) <= Companions /\ Companions \in Nat
      BY <2>1, KindsCount
    <2>5. (n + 1) * Companions = n * Companions + Companions /\ n * Companions \in Nat
      BY <2>4, Times
    <2>6. closing' \in Nat /\ closing' <= (n + 1) * Companions
      BY <2>1, <2>3, <2>4, <2>5
    <2> QED BY <2>2, <2>6 DEF ClosingBound, Companions
  <1>2. ASSUME NEW k \in Kinds, SubscriptionFails(k) PROVE ClosingBound'
    <2>1. ended' # {} /\ subErrors' = subErrors + 1 /\ UNCHANGED closing
      BY <1>2 DEF SubscriptionFails
    <2>2. PICK n \in Nat : n = Renewals
      BY DEF ClosingBound
    <2>3. PICK m \in Nat : m = Renewals' /\ n <= m
      BY <2>1, <2>2, SubErrorsAssumption DEF Renewals
    <2>4. n * Companions <= m * Companions /\ n * Companions \in Nat /\ m * Companions \in Nat
      BY KindsCount, Times, <2>3
    <2>5. closing \in Nat /\ closing <= n * Companions
      BY <2>2 DEF ClosingBound
    <2>6. closing' \in Nat /\ closing' <= m * Companions
      BY <2>1, <2>4, <2>5
    <2> QED BY <2>3, <2>6 DEF ClosingBound, Companions
  <1>3. CASE OldSubscriptionEnds
    <2>1. closing' = closing - 1 /\ closing > 0 /\ UNCHANGED <<ended, subErrors>>
      BY <1>3 DEF OldSubscriptionEnds
    <2>2. PICK b \in Nat : b = Renewals * Companions
      BY KindsCount, Times DEF ClosingBound
    <2>3. closing' \in Nat /\ closing' <= b
      BY <2>1, <2>2 DEF ClosingBound
    <2>4. Renewals' = Renewals
      BY <2>1 DEF Renewals
    <2> QED BY <2>2, <2>3, <2>4 DEF ClosingBound, Companions
  <1>4. ASSUME WatcherGone PROVE ClosingBound'
    <2>1. Renewals' = subErrors /\ subErrors \in Nat /\ closing' = 0
      BY <1>4, SubErrorsAssumption DEF Renewals, WatcherGone
    <2>2. subErrors * Companions \in Nat
      BY <2>1, KindsCount, Times
    <2>3. closing' <= subErrors * Companions
      BY <2>1, <2>2
    <2> QED BY <2>1, <2>3 DEF ClosingBound, Companions
  <1>5. ASSUME UNCHANGED <<ended, subErrors, closing>> PROVE ClosingBound'
    <2>1. Renewals' = Renewals
      BY <1>5 DEF Renewals
    <2> QED BY <1>5, <2>1 DEF ClosingBound, Companions
  <1>6. CASE Watcher
    BY <1>1, <1>4, <1>5, <1>6
       DEF Watcher, Subscribe, WatcherGivesUp, StartupReconcile, ReceiveUpdate, TimerFires,
           ReceiveOldError, ReceiveError, LockTurn, NotifyEvents, channelVars
  <1>7. CASE TurnStep
    BY <1>4, <1>5, <1>7 DEF TurnStep, channelVars
  <1>8. CASE Netlink
    BY <1>2, <1>3, <1>5, <1>8 DEF Netlink, NeighbourUpdate, LinkUpdate
  <1>9. CASE SignalArrives
    BY <1>4, <1>9 DEF SignalArrives
  <1>10. CASE Others \/ UNCHANGED wvars
    BY <1>5, <1>10 DEF Others, wvars, watcherVars, channelVars
  <1> QED BY <1>6, <1>7, <1>8, <1>9, <1>10 DEF WNext

LEMMA WatcherTypesStep ==
    ASSUME WInv, WatcherTypes, [WNext]_wvars
    PROVE  WatcherTypes'
  <1> USE DEF WatcherTypes, channelVars, noticeVars
  <1>1. ASSUME WatcherGone PROVE WatcherTypes'
    BY <1>1 DEF WatcherGone
  <1>2. CASE Watcher
    BY <1>1, <1>2
       DEF Watcher, Subscribe, WatcherGivesUp, StartupReconcile, ReceiveUpdate, scheduleReconcile,
           TimerFires, ReceiveOldError, ReceiveError, Resubscribe, reconcileNow, LockTurn, NotifyEvents
  <1>3. CASE TurnStep
    BY <1>1, <1>3 DEF TurnStep
  <1>4. CASE NeighbourUpdate \/ OldSubscriptionEnds
    BY <1>4 DEF NeighbourUpdate, OldSubscriptionEnds, errCallback
  <1>5. ASSUME NEW k \in Kinds, SubscriptionFails(k) PROVE WatcherTypes'
    BY <1>5, SubErrorsAssumption DEF SubscriptionFails, errCallback
  <1>6. ASSUME NEW i \in Indexes, LinkUpdate(i) PROVE WatcherTypes'
    BY <1>6 DEF LinkUpdate, UpdateKinds
  <1>7. CASE SignalArrives
    BY <1>1, <1>7 DEF SignalArrives
  <1>8. CASE Others \/ UNCHANGED wvars
    BY <1>8 DEF Others, wvars, watcherVars
  <1> QED BY <1>2, <1>3, <1>4, <1>5, <1>6, <1>7, <1>8 DEF WNext, Netlink

(* The watcher's variables keep their types, and the subscriptions of old  *)
(* generations that are still to end are at most those that the failures   *)
(* so far account for: renewals do not feed on the errors that they cause  *)
(* themselves (egress.go, errCallback and subscriptionGeneration).         *)
THEOREM WatcherTypeCorrect == WSpec => []WTypeOK
  <1>1. WInit => WatcherTypes /\ ClosingBound
    <2> SUFFICES ASSUME WInit PROVE WatcherTypes /\ ClosingBound
      OBVIOUS
    <2>1. WatcherTypes
      <3>1. subErrors \in 0..MaxSubErrors
        BY SubErrorsAssumption DEF WInit
      <3> QED BY <3>1 DEF WInit, WatcherTypes
    <2>2. Renewals = 0 /\ closing = 0
      BY DEF WInit, Renewals
    <2>3. 0 * Companions = 0
      BY KindsCount
    <2> QED BY <2>1, <2>2, <2>3 DEF ClosingBound
  <1>2. WInv /\ WatcherTypes /\ ClosingBound /\ [WNext]_wvars => (WatcherTypes /\ ClosingBound)'
    BY ClosingStep, WatcherTypesStep
  <1>3. WInv /\ WatcherTypes /\ ClosingBound => WTypeOK
    <2> SUFFICES ASSUME WInv, WatcherTypes, ClosingBound PROVE WTypeOK
      OBVIOUS
    <2>1. PICK n \in Nat : n = Renewals /\ n <= MaxSubErrors
      BY SubErrorsAssumption DEF ClosingBound, Renewals, WatcherTypes
    <2>2. n * Companions <= MaxSubErrors * Companions /\ n * Companions \in Nat /\ MaxSubErrors * Companions \in Nat
      BY <2>1, KindsCount, Times, SubErrorsAssumption
    <2>3. closing \in 0..(MaxSubErrors * Companions)
      BY <2>1, <2>2 DEF ClosingBound
    <2>4. pending \in BOOLEAN
      BY DEF WInv, Together
    <2> QED BY <2>3, <2>4 DEF WTypeOK, WatcherTypes, Companions
  <1> QED BY <1>1, <1>2, <1>3, WInvAlways, PTL DEF WSpec

-----------------------------------------------------------------------------
(* The refinement.  Only what mentions the flag differs between the policy *)
(* manager that the watcher is composed with and the one it implements.    *)

LEMMA SameSelection ==
    ASSUME NEW n, NEW o
    PROVE  PM!selectInterfaces(n, o) = selectInterfaces(n, o)
  BY DEF PM!selectInterfaces, selectInterfaces, PM!interfaceMatchesSelectors,
         interfaceMatchesSelectors, PM!interfaceMatchesIgnoreSelectors,
         interfaceMatchesIgnoreSelectors, PM!PredicateMatches, PredicateMatches

LEMMA SameRules ==
    ASSUME NEW info, NEW o, NEW tmp, NEW force, NEW running
    PROVE  PM!interfaceRules(info, o, tmp, force, running) = interfaceRules(info, o, tmp, force, running)
  BY DEF PM!interfaceRules, interfaceRules, PM!effectiveAllowRules, effectiveAllowRules,
         PM!MergeAll, MergeAll, PM!ProxyRules, ProxyRules,
         PM!activeRulesetsForInterface, activeRulesetsForInterface,
         PM!rulesetTriggerMatchesInterface, rulesetTriggerMatchesInterface,
         PM!PredicateMatches, PredicateMatches,
         PM!forcedRulesetsForInterface, forcedRulesetsForInterface,
         PM!temporaryRulesetsForInterface, temporaryRulesetsForInterface

LEMMA SameMutations ==
    ASSUME NEW o, NEW req
    PROVE  PM!mutateOptions(o, req) = mutateOptions(o, req)
  BY DEF PM!mutateOptions, mutateOptions, PM!mutatePredicates, mutatePredicates,
         PM!mutateStringList, mutateStringList, PM!mutateAllowRulesField, mutateAllowRulesField,
         PM!mutateWholeRuleset, mutateWholeRuleset, PM!mutateRulesetField, mutateRulesetField,
         PM!Flags, Flags

LEMMA SamePolicies == PM!nextPolicies = nextPolicies
  BY SameSelection, SameRules DEF PM!nextPolicies, nextPolicies, PM!listAttached, listAttached,
     PM!effectivePoliciesForInterfaces, effectivePoliciesForInterfaces

LEMMA SameWrites ==
    ASSUME NEW next
    PROVE  /\ PM!skipWrite(next) <=> skipWrite(next)
           /\ PM!toClear(next) = toClear(next)
           /\ PM!toWrite(next) = toWrite(next)
           /\ \A gone, fresh : PM!Written(next, gone, fresh) = Written(next, gone, fresh)
  BY DEF PM!skipWrite, skipWrite, PM!interfacePolicyRulesEqual, interfacePolicyRulesEqual,
         PM!SamePolicy, SamePolicy, PM!toClear, toClear, PM!toWrite, toWrite, PM!Written, Written

LEMMA SameInit == WInit => PM!Init
  <1> SUFFICES ASSUME WInit PROVE PM!Init
    OBVIOUS
  <1>1. Owed = FALSE
    BY DEF WInit, Init, Owed
  <1>2. Init
    BY DEF WInit
  <1> HIDE DEF Owed
  <1> QED BY <1>1, <1>2 DEF Init, PM!Init, NoForce, PM!NoForce, uniqueNames, PM!uniqueNames,
                            Failures, PM!Failures

(* A step that changes nothing of the policy manager and owes the same. *)
LEMMA SameVars ==
    ASSUME UNCHANGED <<policyManagerVars, mu, Owed>> PROVE UNCHANGED PM!vars
  <1> HIDE DEF Owed
  <1> QED BY DEF policyManagerVars, managerVars, policyVars, netVars,
                 PM!vars, PM!managerVars, PM!policyVars, PM!netVars

LEMMA SameTurn ==
    ASSUME Together, Turn, life' # "exited" => UNCHANGED Owed, life' = "exited" => Owed' = FALSE
    PROVE  PM!Turn
  <1> USE SameSelection, SamePolicies, SameWrites
      DEF managerVars, PM!managerVars, policyVars, PM!policyVars, netVars, PM!netVars,
          Fault, PM!Fault, AfterAttach, PM!AfterAttach, StartupDone, PM!StartupDone
  <1> HIDE DEF Owed
  <1>1. CASE EgressReconcile
    <2>1. UNCHANGED Owed
      BY <1>1 DEF EgressReconcile, Together
    <2>2. PM!EgressReconcile
      BY <1>1, <2>1 DEF EgressReconcile, PM!EgressReconcile
    <2> QED BY <2>2 DEF PM!Turn
  <1>2. CASE EgressListFails
    <2>1. UNCHANGED Owed
      BY <1>2 DEF EgressListFails, Together
    <2>2. PM!EgressListFails
      BY <1>2, <2>1 DEF EgressListFails, PM!EgressListFails
    <2> QED BY <2>2 DEF PM!Turn
  <1>3. CASE PolicyReconcile
    <2>1. StartupDone /\ "attach" \in errs => Owed' = FALSE
      BY <1>3 DEF PolicyReconcile, Exit
    <2>2. ~(StartupDone /\ "attach" \in errs) => UNCHANGED Owed
      BY <1>3 DEF PolicyReconcile, Together
    <2>3. PM!PolicyReconcile
      BY <1>3, <2>1, <2>2 DEF PolicyReconcile, PM!PolicyReconcile, Exit, PM!Exit
    <2> QED BY <2>3 DEF PM!Turn
  <1>4. ASSUME PolicyFailed, mu \in {"policy", "start_policy"} PROVE PM!PolicyFailed
    BY <1>4 DEF PolicyFailed, PM!PolicyFailed, Exit, PM!Exit, Together
  <1>5. CASE PolicyListFails
    <2>1. PM!PolicyListFails
      BY <1>4, <1>5 DEF PolicyListFails, PM!PolicyListFails
    <2> QED BY <2>1 DEF PM!Turn
  <1>6. CASE PolicyWriteFails
    <2>1. /\ mu \in {"policy", "start_policy"}
          /\ ~skipWrite(nextPolicies)
          /\ Fault("write")
          /\ PolicyFailed
      BY <1>6 DEF PolicyWriteFails
    <2> DEFINE clear == toClear(nextPolicies)
               write == toWrite(nextPolicies)
    <2>2. PM!toClear(PM!nextPolicies) = clear /\ PM!toWrite(PM!nextPolicies) = write
      OBVIOUS
    <2>3. \A gone, fresh :
            PM!Written(PM!nextPolicies, gone, fresh) = Written(nextPolicies, gone, fresh)
      OBVIOUS
    <2>4. ~PM!skipWrite(PM!nextPolicies)
      BY <2>1
    <2>5. PM!PolicyFailed /\ PM!Fault("write")
      BY <1>4, <2>1
    <2>6. PICK done \in SUBSET (clear \cup write) :
            \E i \in (clear \cup write) \ done : \E lost \in SUBSET {i} :
              /\ (done \cup {i}) \cap write # {} => clear \subseteq done
              /\ ~StartupDone =>
                    kernel' = Written(nextPolicies, (done \cap clear) \cup lost, done \cap write)
      BY <1>6 DEF PolicyWriteFails
    <2> HIDE DEF clear, write
    <2>7. \E i \in (clear \cup write) \ done : \E lost \in SUBSET {i} :
              /\ (done \cup {i}) \cap write # {} => clear \subseteq done
              /\ ~PM!StartupDone =>
                    kernel' = PM!Written(PM!nextPolicies, (done \cap clear) \cup lost, done \cap write)
      BY <2>3, <2>6
    <2> DEFINE c == PM!toClear(PM!nextPolicies)
               w == PM!toWrite(PM!nextPolicies)
    <2>8. \E d \in SUBSET (c \cup w) :
            \E i \in (c \cup w) \ d : \E lost \in SUBSET {i} :
              /\ (d \cup {i}) \cap w # {} => c \subseteq d
              /\ ~PM!StartupDone =>
                    kernel' = PM!Written(PM!nextPolicies, (d \cap c) \cup lost, d \cap w)
      BY ONLY <2>2, <2>6, <2>7
    <2>9. PM!PolicyWriteFails
      BY ONLY <2>1, <2>4, <2>5, <2>8 DEF PM!PolicyWriteFails
    <2> QED BY <2>9 DEF PM!Turn
  <1> QED BY <1>1, <1>2, <1>3, <1>5, <1>6 DEF Turn

LEMMA SameClient ==
    ASSUME NEW o \in Owners, Client(o) \/ Cleanup(o), UNCHANGED Owed
    PROVE  PM!Client(o) \/ PM!Cleanup(o)
  <1> USE DEF managerVars, PM!managerVars, policyVars, PM!policyVars, netVars, PM!netVars,
              TakeTurn, PM!TakeTurn, Alive, PM!Alive, NoForce, PM!NoForce
  <1> HIDE DEF Owed
  <1>1. ASSUME NEW req \in Requests, AdminMutation(o, req) PROVE PM!AdminMutation(o, req)
    BY <1>1, SameMutations DEF AdminMutation, PM!AdminMutation, pruneForceRulesets, PM!pruneForceRulesets
  <1>2. ASSUME NEW t \in TmpChoices, SetTemporaryRuleset(o, t) PROVE PM!SetTemporaryRuleset(o, t)
    BY <1>2 DEF SetTemporaryRuleset, PM!SetTemporaryRuleset
  <1>3. RemoveTemporaryRuleset(o) => PM!RemoveTemporaryRuleset(o)
    BY DEF RemoveTemporaryRuleset, PM!RemoveTemporaryRuleset, dropTmp, PM!dropTmp
  <1>4. ASSUME NEW n \in RulesetNames, NEW ifaces \in ForceChoices, NEW replace \in BOOLEAN,
               ForceRuleset(o, n, ifaces, replace)
        PROVE  PM!ForceRuleset(o, n, ifaces, replace)
    BY <1>4 DEF ForceRuleset, PM!ForceRuleset, forceActivateRuleset, PM!forceActivateRuleset
  <1>5. ASSUME NEW n \in RulesetNames, NEW ifaces \in ForceChoices, ReleaseRuleset(o, n, ifaces)
        PROVE  PM!ReleaseRuleset(o, n, ifaces)
    BY <1>5 DEF ReleaseRuleset, PM!ReleaseRuleset, releaseForceRuleset, PM!releaseForceRuleset
  <1>6. /\ Connect(o) => PM!Connect(o)
        /\ Disconnect(o) => PM!Disconnect(o)
    BY DEF Connect, PM!Connect, Disconnect, PM!Disconnect
  <1>7. removeForceRulesets(o) => PM!removeForceRulesets(o)
    BY DEF removeForceRulesets, PM!removeForceRulesets, holdsForce, PM!holdsForce
  <1>8. removeTemporaryRuleset(o) => PM!removeTemporaryRuleset(o)
    BY DEF removeTemporaryRuleset, PM!removeTemporaryRuleset, dropTmp, PM!dropTmp
  <1>9. Client(o) => PM!Client(o)
    BY <1>1, <1>2, <1>3, <1>4, <1>5, <1>6 DEF Client, PM!Client
  <1> QED BY <1>7, <1>8, <1>9 DEF Cleanup, PM!Cleanup

LEMMA SameNetwork ==
    ASSUME WInv, NEW i \in Indexes, LinkUpdate(i)
    PROVE  PM!Network
  <1>1. LinkEvent(i) /\ NetChange
    BY DEF LinkUpdate, LinkEvent, LinkAdded, LinkRemoved, LinkChanged
  <1>2. PM!LinkEvent(i)
    BY <1>1 DEF LinkEvent, PM!LinkEvent, LinkAdded, PM!LinkAdded, LinkRemoved, PM!LinkRemoved,
                LinkChanged, PM!LinkChanged, NetChange, PM!NetChange, Alive, PM!Alive, managerVars,
                PM!managerVars, policyVars, PM!policyVars, uniqueNames, PM!uniqueNames
  <1>3. CASE Subscribed
    <2>1. UpdateKinds(i) # {}
      BY <1>1, UpdateReaches DEF WInv
    <2>2. updates' # {} \/ ended' # {}
      BY <1>3, <2>1 DEF LinkUpdate
    <2>3. Owed' = TRUE
      BY <2>2 DEF Owed
    <2> QED BY ONLY <1>2, <2>3 DEF PM!Network
  <1>4. CASE ~Subscribed
    <2>1. life = "starting" /\ mu \notin {"start_attach", "start_policy"}
      BY <1>4 DEF WInv, Together, Subscribed
    <2>2. UNCHANGED Owed
      BY <1>4 DEF LinkUpdate, Owed
    <2> QED BY ONLY <1>2, <2>1, <2>2 DEF PM!Network
  <1> QED BY <1>3, <1>4

(* A step of the watcher or of netlink that leaves the policy manager      *)
(* alone owes at least what was owed before.                               *)
LEMMA SameDebt ==
    ASSUME Together, Owed => Owed', Alive, UNCHANGED <<policyManagerVars, mu>>
    PROVE  PM!SpuriousUpdate \/ UNCHANGED PM!vars
  <1>1. CASE Owed
    <2>1. UNCHANGED Owed
      BY <1>1 DEF Owed, Together
    <2> QED BY <2>1, SameVars
  <1>2. CASE ~Owed
    <2>1. CASE Owed'
      <3>1. Owed' = TRUE /\ ~Owed
        BY <1>2, <2>1 DEF Owed
      <3> HIDE DEF Owed
      <3> QED BY <3>1 DEF PM!SpuriousUpdate, policyManagerVars, managerVars, policyVars, netVars,
                          PM!managerVars, PM!policyVars, PM!netVars, Alive, PM!Alive
    <2>2. CASE ~Owed'
      <3>1. UNCHANGED Owed
        BY <1>2, <2>2 DEF Owed
      <3> QED BY <3>1, SameVars
    <2> QED BY <2>1, <2>2
  <1> QED BY <1>1, <1>2

LEMMA SameStep == WInv /\ WInv' /\ [WNext]_wvars => [PM!Next]_PM!vars
  <1> SUFFICES ASSUME WInv, WInv', [WNext]_wvars PROVE PM!Next \/ UNCHANGED PM!vars
    OBVIOUS
  <1>0. Together /\ Together'
    BY DEF WInv
  <1>1. ASSUME PM!SpuriousUpdate \/ UNCHANGED PM!vars PROVE PM!Next \/ UNCHANGED PM!vars
    BY <1>1 DEF PM!Next
  <1>2. ASSUME Shutdown, WatcherGone PROVE PM!Shutdown
    <2>1. Owed' = FALSE
      BY <1>2 DEF Shutdown, Exit, WatcherGone, Owed
    <2> HIDE DEF Owed
    <2> QED BY <1>2, <2>1 DEF Shutdown, PM!Shutdown, Exit, PM!Exit, Alive, PM!Alive, managerVars,
                              PM!managerVars, netVars, PM!netVars
  <1>3. CASE Subscribe \/ NotifyEvents \/ TimerFires \/ ReceiveOldError \/ ReceiveError \/ Resubscribe
    <2>1. (Owed => Owed') /\ Alive /\ UNCHANGED <<policyManagerVars, mu>>
      BY <1>0, <1>3 DEF Together, Owed, Subscribe, NotifyEvents, TimerFires, ReceiveOldError,
                        ReceiveError, Resubscribe, reconcileNow, Selecting, channelVars, noticeVars
    <2> QED BY <1>0, <1>1, <2>1, SameDebt
  <1>4. ASSUME NEW k \in Kinds, ReceiveUpdate(k) PROVE PM!Next \/ UNCHANGED PM!vars
    <2>1. (Owed => Owed') /\ Alive /\ UNCHANGED <<policyManagerVars, mu>>
      BY <1>4 DEF Owed, ReceiveUpdate, scheduleReconcile, Selecting
    <2> QED BY <1>0, <1>1, <2>1, SameDebt
  <1>5. CASE NeighbourUpdate \/ (\E k \in Kinds : SubscriptionFails(k)) \/ OldSubscriptionEnds
    <2>1. (Owed => Owed') /\ Alive /\ UNCHANGED <<policyManagerVars, mu>>
      BY <1>5 DEF Owed, NeighbourUpdate, SubscriptionFails, OldSubscriptionEnds, noticeVars
    <2> QED BY <1>0, <1>1, <2>1, SameDebt
  <1>6. CASE WatcherGivesUp \/ SignalArrives
    BY <1>2, <1>6 DEF WatcherGivesUp, SignalArrives, PM!Next
  <1>7. CASE StartupReconcile
    <2>1. UNCHANGED Owed
      BY <1>7 DEF StartupReconcile, Startup, channelVars, Owed
    <2> HIDE DEF Owed
    <2>2. PM!Startup
      BY <1>7, <2>1 DEF StartupReconcile, Startup, PM!Startup, TakeTurn, PM!TakeTurn, Alive, PM!Alive,
                        managerVars, PM!managerVars, policyVars, PM!policyVars, netVars, PM!netVars
    <2> QED BY <2>2 DEF PM!Next
  <1>8. CASE LockTurn
    <2>1. Owed /\ Owed' \in BOOLEAN
      BY <1>0, <1>8 DEF LockTurn, Owed
    <2> HIDE DEF Owed
    <2>2. PM!WatcherReconcile
      BY <1>8, <2>1 DEF LockTurn, PM!WatcherReconcile, TakeTurn, PM!TakeTurn, Alive, PM!Alive,
                        policyManagerVars, managerVars, PM!managerVars, policyVars, PM!policyVars,
                        netVars, PM!netVars
    <2> QED BY <2>2 DEF PM!Next
  <1>9. CASE TurnStep
    <2>1. life' = "exited" => Owed' = FALSE
      BY <1>0, <1>9, TurnStepShape DEF TurnStep, Alive, Exit, WatcherGone, Owed
    <2>2. life' # "exited" => UNCHANGED Owed
      BY <1>0, <1>9, TurnStepShape DEF TurnStep, Alive, channelVars, Owed
    <2>3. PM!Turn
      BY <1>0, <1>9, <2>1, <2>2, SameTurn DEF TurnStep
    <2> QED BY <2>3 DEF PM!Next
  <1>10. ASSUME NEW i \in Indexes, LinkUpdate(i) PROVE PM!Next
    BY <1>10, SameNetwork DEF PM!Next
  <1>11. CASE Others
    <2>1. UNCHANGED Owed
      BY <1>11, OthersShape DEF Owed, watcherVars, channelVars
    <2>2. ASSUME NEW o \in Owners, Client(o) \/ Cleanup(o) PROVE PM!Next
      BY <2>1, <2>2, SameClient DEF PM!Next
    <2>3. ASSUME NEW state \in ProxyStates, setSocksProxyState(state) PROVE PM!Next
      <3> HIDE DEF Owed
      <3>1. PM!setSocksProxyState(state)
        BY <2>1, <2>3 DEF setSocksProxyState, PM!setSocksProxyState, TakeTurn, PM!TakeTurn, Alive,
                          PM!Alive, policyVars, PM!policyVars, netVars, PM!netVars
      <3> QED BY <3>1 DEF PM!Next
    <2> QED BY <1>11, <2>2, <2>3 DEF Others
  <1>12. CASE UNCHANGED wvars
    <2>1. UNCHANGED <<policyManagerVars, mu, Owed>>
      BY <1>12 DEF wvars, vars, watcherVars, channelVars, policyManagerVars, Owed
    <2> QED BY <2>1, SameVars
  <1> QED BY <1>3, <1>4, <1>5, <1>6, <1>7, <1>8, <1>9, <1>10, <1>11, <1>12
          DEF WNext, Watcher, Netlink

(* Channels, debounce timer and generations implement the policy manager's *)
(* flag, for any interfaces and any failures of subscriptions: no change   *)
(* of the network goes unnoticed, and nothing but the watcher's turn       *)
(* settles it (egress.go, watchInterfaces).                                *)
THEOREM WatcherImplementsFlag == WSpec => ImplementsPolicyManager
  BY SameInit, SameStep, WInvAlways, PTL DEF WSpec, ImplementsPolicyManager, PM!Spec
=============================================================================
