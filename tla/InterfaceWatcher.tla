-------------------------- MODULE InterfaceWatcher --------------------------
(***************************************************************************)
(* watchInterfaces of egress.go in full: the netlink subscriptions and     *)
(* their renewal, the channel on which they report errors, the debounced   *)
(* reconcile and the events it sends, composed with PolicyManager, where   *)
(* all of this is one flag: the watcher owes a reconcile.                  *)
(*                                                                         *)
(* A subscription is one of a generation of several (links, addresses,     *)
(* routes, neighbours).  It ends with an error, which its callback puts    *)
(* into a channel with room for one, or drops.  The watcher ignores errors *)
(* of an old generation; for one of the current generation it ends the     *)
(* other subscriptions, which report errors of their own, subscribes anew  *)
(* and reconciles.                                                         *)
(***************************************************************************)
EXTENDS PolicyManager, FiniteSets

CONSTANTS
    Kinds,       \* what a generation subscribes to
    MaxSubErrors \* bound on the errors of subscriptions that were not ended

AllKinds == {"link", "addr", "route", "neigh"}
ASSUME KindsAssumption == Kinds \subseteq AllKinds

(* The code subscribes to all four.  An instance may leave out what no     *)
(* change of its interfaces is an update of.                               *)
ASSUME CoverageAssumption ==
    /\ "link" \in Kinds
    /\ \A a, b \in Infos :
          /\ a.addrs # b.addrs => "addr" \in Kinds
          /\ a.gatewayMACs # b.gatewayMACs => {"route", "neigh"} \cap Kinds # {}
ASSUME SubErrorsAssumption == MaxSubErrors \in Nat

(* PolicyManager's pending is the watcher's reconcilePending here. *)
VARIABLES
    watch,            \* what the watcher does
    updates,          \* linkUpdates etc.: the channels that hold an update
    ended,            \* the subscriptions of this generation that failed
    closing,          \* the subscriptions of old generations that are to end
    subscribeErrs,    \* the channel: "empty", or an error's generation
    notifyInterfaces, \* the next reconcile sends an interfaces event
    event,            \* this reconcile sends an event
    untold,           \* the interfaces changed after the last event
    subErrors         \* the number of errors so far

channelVars == <<updates, ended, closing, subscribeErrs, subErrors>>
noticeVars == <<notifyInterfaces, event, untold>>
watcherVars == <<watch, channelVars, noticeVars>>
wvars == <<vars, watcherVars>>

WInit ==
    /\ Init
    /\ watch = "subscribe"
    /\ updates = {}
    /\ ended = {}
    /\ closing = 0
    /\ subscribeErrs = "empty"
    /\ notifyInterfaces = FALSE
    /\ event = FALSE
    /\ untold = TRUE
    /\ subErrors = 0

(* What PolicyManager's turns have in common with the watcher's own. *)
policyManagerVars == <<managerVars, policyVars, netVars, attached, life, conn, errs, faults>>

Subscribed == watch # "subscribe"

-----------------------------------------------------------------------------
(* Netlink. *)

(* The subscriptions that a change of interface i is an update of. *)
UpdateKinds(i) ==
    Kinds \cap
        IF i \notin DOMAIN net \/ i \notin DOMAIN net' THEN {"link"}
        ELSE (IF net'[i].addrs # net[i].addrs THEN {"addr"} ELSE {})
             \cup (IF net'[i].gatewayMACs # net[i].gatewayMACs THEN {"route", "neigh"} ELSE {})
             \cup (IF [net'[i] EXCEPT !.addrs = {}, !.gatewayMACs = {}]
                      # [net[i] EXCEPT !.addrs = {}, !.gatewayMACs = {}]
                   THEN {"link"} ELSE {})

(* What the watcher announces of the interfaces: a change of the gateways  *)
(* alone sends no event.                                                   *)
Shown(n) == [i \in DOMAIN n |-> [n[i] EXCEPT !.gatewayMACs = {}]]

(* An interface changes.  A subscription that has failed delivers nothing. *)
LinkUpdate(i) ==
    /\ LinkEvent(i)
    /\ updates' = IF Subscribed THEN updates \cup (UpdateKinds(i) \ ended) ELSE updates
    /\ untold' = (untold \/ Shown(net') # Shown(net))
    /\ UNCHANGED <<pending, watch, ended, closing, subscribeErrs, subErrors, notifyInterfaces,
                   event>>

(* errCallback does not wait: an error that finds the channel full is only *)
(* logged.                                                                 *)
errCallback(generation) ==
    subscribeErrs' = IF subscribeErrs = "empty" THEN generation ELSE subscribeErrs

(* A subscription fails, for example because its socket's buffer ran over. *)
(* The updates it has not delivered may be lost.                           *)
SubscriptionFails(k) ==
    /\ Alive
    /\ Subscribed
    /\ k \notin ended
    /\ subErrors < MaxSubErrors
    /\ subErrors' = subErrors + 1
    /\ ended' = ended \cup {k}
    /\ updates' \in {updates, updates \ {k}}
    /\ errCallback("current")
    /\ UNCHANGED <<policyManagerVars, mu, pending, watch, closing, noticeVars>>

(* A subscription of an old generation notices that its done channel was   *)
(* closed.                                                                 *)
OldSubscriptionEnds ==
    /\ Alive
    /\ closing > 0
    /\ closing' = closing - 1
    /\ errCallback("old")
    /\ UNCHANGED <<policyManagerVars, mu, pending, watch, updates, ended, subErrors, noticeVars>>

-----------------------------------------------------------------------------
(* The watcher's loop. *)

(* The process ends. *)
WatcherGone ==
    /\ watch' = "returned"
    /\ updates' = {}
    /\ ended' = {}
    /\ closing' = 0
    /\ subscribeErrs' = "empty"
    /\ notifyInterfaces' = FALSE
    /\ event' = FALSE
    /\ untold' = TRUE
    /\ UNCHANGED subErrors

Selecting == Alive /\ watch = "select"

Subscribe ==
    /\ Alive
    /\ watch = "subscribe"
    /\ watch' = "startup"
    /\ UNCHANGED <<policyManagerVars, mu, pending, channelVars, noticeVars>>

(* watchInterfaces returns an error and run ends the daemon. *)
WatcherGivesUp ==
    /\ watch \in {"subscribe", "resubscribe"}
    /\ Shutdown
    /\ WatcherGone

(* The strict reconcile, which sends an interfaces event. *)
StartupReconcile ==
    /\ watch = "startup"
    /\ Startup
    /\ watch' = "turn"
    /\ event' = TRUE
    /\ UNCHANGED <<channelVars, notifyInterfaces, untold>>

(* Faulty: the last update decides whether the interfaces changed. (Faulty *)
(* variants are slips that a property must catch; no action uses them.)    *)
scheduleReconcileLast(interfaces) ==
    /\ pending' = TRUE
    /\ notifyInterfaces' = interfaces

scheduleReconcile(interfaces) ==
    /\ pending' = TRUE
    /\ notifyInterfaces' = (notifyInterfaces \/ interfaces)

(* An update arrives and starts the debounce timer anew.  The channel of a *)
(* failed subscription is closed and may be read any number of times.      *)
ReceiveUpdate(k) ==
    /\ Selecting
    /\ k \in updates \cup ended
    /\ updates' = updates \ {k}
    /\ scheduleReconcile(k \in {"link", "addr"})
    /\ UNCHANGED <<policyManagerVars, mu, watch, ended, closing, subscribeErrs, subErrors,
                   event, untold>>

(* Faulty: the timer only clears the flags. *)
TimerForgets ==
    /\ Selecting
    /\ pending
    /\ pending' = FALSE
    /\ notifyInterfaces' = FALSE
    /\ UNCHANGED <<policyManagerVars, mu, watch, channelVars, event, untold>>

(* 100 ms have passed since the last update. *)
TimerFires ==
    /\ Selecting
    /\ pending
    /\ pending' = FALSE
    /\ event' = notifyInterfaces
    /\ notifyInterfaces' = FALSE
    /\ watch' = "lock"
    /\ UNCHANGED <<policyManagerVars, mu, channelVars, untold>>

ReceiveOldError ==
    /\ Selecting
    /\ subscribeErrs = "old"
    /\ subscribeErrs' = "empty"
    /\ UNCHANGED <<policyManagerVars, mu, pending, watch, updates, ended, closing, subErrors,
                   noticeVars>>

ReceiveError ==
    /\ Selecting
    /\ subscribeErrs = "current"
    /\ subscribeErrs' = "empty"
    /\ watch' = "resubscribe"
    /\ UNCHANGED <<policyManagerVars, mu, pending, updates, ended, closing, subErrors, noticeVars>>

(* Faulty: the new generation starts without a reconcile. *)
reconcileLater == watch' = "select"

(* reconcile("netlink resubscribe", ...), at once. *)
reconcileNow == watch' = "lock"

(* Faulty: the subscription that has failed is ended once more. *)
closeAll == closing' = closing + Cardinality(Kinds)

(* close(subscriptionDone) *)
closeDone == closing' = closing + Cardinality(Kinds \ ended)

(* New channels and a new generation.  What the old channels held is       *)
(* forgotten, but a reconcile follows at once.                             *)
Resubscribe ==
    /\ Alive
    /\ watch = "resubscribe"
    /\ closeDone
    /\ reconcileNow
    /\ updates' = {}
    /\ ended' = {}
    /\ subscribeErrs' = IF subscribeErrs = "current" THEN "old" ELSE subscribeErrs
    /\ event' = TRUE
    /\ UNCHANGED <<policyManagerVars, mu, pending, subErrors, notifyInterfaces, untold>>

(* reconcile takes reconcileMu. *)
LockTurn ==
    /\ watch = "lock"
    /\ life = "running"
    /\ TakeTurn("watch_attach")
    /\ watch' = "turn"
    /\ UNCHANGED <<policyManagerVars, pending, channelVars, noticeVars>>

policyChanged ==
    /\ mu \in {"policy", "start_policy"}
    /\ "policy" \notin errs'
    /\ ~skipWrite(nextPolicies)

(* A step of whoever holds reconcileMu.  In the watcher's turn, changed    *)
(* attachments and changed policies call for an event; errors of the       *)
(* startup reconcile end the daemon.                                       *)
TurnStep ==
    /\ Turn
    /\ IF Alive'
       THEN /\ watch' = IF watch = "turn" /\ mu' = "free" THEN "notify" ELSE watch
            /\ event' = (event \/ (watch = "turn" /\ (attached' # attached \/ policyChanged)))
            /\ UNCHANGED <<channelVars, notifyInterfaces, untold>>
       ELSE WatcherGone

(* The events carry a listing of the interfaces that is made for them. *)
NotifyEvents ==
    /\ Alive
    /\ watch = "notify"
    /\ watch' = "select"
    /\ untold' = (untold /\ ~event)
    /\ event' = FALSE
    /\ UNCHANGED <<policyManagerVars, mu, pending, channelVars, notifyInterfaces>>

(* A signal: run returns, and the watcher with it. *)
SignalArrives ==
    /\ Shutdown
    /\ WatcherGone

-----------------------------------------------------------------------------
Watcher ==
    \/ Subscribe
    \/ WatcherGivesUp
    \/ StartupReconcile
    \/ \E k \in Kinds : ReceiveUpdate(k)
    \/ TimerFires
    \/ ReceiveOldError
    \/ ReceiveError
    \/ Resubscribe
    \/ LockTurn
    \/ NotifyEvents

(* Neighbours come and go on networks that stay the same. *)
NeighbourUpdate ==
    /\ Alive
    /\ Subscribed
    /\ "neigh" \in Kinds \ (ended \cup updates)
    /\ updates' = updates \cup {"neigh"}
    /\ UNCHANGED <<policyManagerVars, mu, pending, watch, ended, closing, subscribeErrs,
                   subErrors, noticeVars>>

Netlink ==
    \/ NeighbourUpdate
    \/ \E i \in Indexes : LinkUpdate(i)
    \/ \E k \in Kinds : SubscriptionFails(k)
    \/ OldSubscriptionEnds

Others ==
    /\ \/ \E o \in Owners : Client(o) \/ Cleanup(o)
       \/ \E state \in ProxyStates : setSocksProxyState(state)
    /\ UNCHANGED watcherVars

WNext == Watcher \/ TurnStep \/ Netlink \/ Others \/ SignalArrives

WSpec == WInit /\ [][WNext]_wvars

(* The watcher goes on, and Go's select and mutexes are fair: a case that  *)
(* stays ready is chosen, and so is one that is ready again and again.     *)
(* Every update starts the timer anew, so it is sure to fire only if no    *)
(* update arrives any more; the closed channel of a failed subscription is *)
(* an update without end.                                                  *)
WFairness ==
    /\ WF_wvars(TurnStep)
    /\ WF_wvars(Subscribe \/ NotifyEvents \/ Resubscribe)
    /\ SF_wvars(StartupReconcile \/ LockTurn)
    /\ SF_wvars(ReceiveOldError \/ ReceiveError)
    /\ \A k \in Kinds : SF_wvars(k \in updates /\ ReceiveUpdate(k))
    /\ WF_wvars(updates \cup ended = {} /\ TimerFires)
    /\ \A o \in Owners : SF_wvars(Cleanup(o) /\ UNCHANGED watcherVars)

WFairSpec == WSpec /\ WFairness

-----------------------------------------------------------------------------
(* Properties. *)

(* The variables keep their types. *)
WTypeOK ==
    /\ pending \in BOOLEAN
    /\ watch \in {"subscribe", "startup", "select", "resubscribe", "lock", "turn", "notify",
                  "returned"}
    /\ updates \in SUBSET Kinds
    /\ ended \in SUBSET Kinds
    /\ closing \in 0..(MaxSubErrors * (Cardinality(Kinds) - 1))
    /\ subscribeErrs \in {"empty", "old", "current"}
    /\ notifyInterfaces \in BOOLEAN
    /\ event \in BOOLEAN
    /\ untold \in BOOLEAN
    /\ subErrors \in 0..MaxSubErrors

(* The watcher owes a reconcile: an update waits for it, or was lost with  *)
(* the subscription that should have delivered it.                         *)
Owed ==
    \/ pending
    \/ updates # {}
    \/ ended # {}
    \/ watch \in {"resubscribe", "lock"}

PM == INSTANCE PolicyManager WITH pending <- Owed

(* Channels, timer and generations implement PolicyManager's flag: no      *)
(* change of the network goes unnoticed between a subscription, its        *)
(* failure and its renewal, and nothing but the watcher's turn settles it  *)
(* (egress.go, watchInterfaces).                                           *)
ImplementsPolicyManager == PM!Spec

(* A subscription of the current generation has failed and its error was   *)
(* dropped, because the error of another one was waiting in the channel.   *)
Deaf == ended # {} /\ subscribeErrs # "current" /\ watch # "resubscribe"

(* Neighbours' updates, which any host on the network may cause, come to   *)
(* an end.  (A pause of 100 ms would do, but would be a matter of time.)   *)
UpdatesPause == <>[][~NeighbourUpdate]_wvars

(* Once the network stops changing and updates pause, the kernel enforces  *)
(* what is asked for, however busy the clients are and whatever            *)
(* subscriptions fail, unless the error of a subscription was dropped,     *)
(* which is never made up for (egress.go: errCallback, the timer's Reset,  *)
(* resubscription).                                                        *)
EventuallyInForce == UpdatesPause => []<>(InForce \/ life = "exited" \/ Deaf)

(* README.md:2-3: the daemon "attaches an egress program to selected       *)
(* interfaces, keeps per-interface policy".  Without the exception of a    *)
(* dropped error.                                                          *)
SelectedAreFiltered == UpdatesPause => []<>(InForce \/ life = "exited")

(* When the watcher has nothing left to do, the last event it sent lists   *)
(* the interfaces as they are, although several updates share one event    *)
(* and those of routes and neighbours send none (egress.go,                *)
(* notifyInterfaces).                                                      *)
InterfacesAreTold ==
    watch = "select" /\ ~Owed => ~untold

Holds(o) == holdsForce(o) \/ o \in DOMAIN tmpRulesets

(* No interface lets through what only client o has asked for. *)
Withdrawn(o) ==
    \A i \in DOMAIN kernel \cap DOMAIN net :
        LET others == interfaceRules(net[i], opts, dropTmp(o),
                          [n \in RulesetNames |-> [forceRulesets[n] EXCEPT ![o] = NoForce[n][o]]],
                          socksProxy.running)
        IN  kernel[i].keys \subseteq others.keys /\ kernel[i].flags \subseteq others.flags

(* What a client that is gone held is taken from it and then from the      *)
(* kernel, through the two turns of its cleanup, however often the watcher *)
(* and other clients take reconcileMu between them (admin.go:283-306,      *)
(* policy_manager.go).                                                     *)
DisconnectCompletes ==
    \A o \in Owners :
        conn[o] \in {"drop_force", "drop_tmp"} /\ Holds(o)
            ~> (~Holds(o) /\ Withdrawn(o)) \/ life = "exited"
=============================================================================
