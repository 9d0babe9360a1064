----------------------------- MODULE UserSession -----------------------------
(***************************************************************************)
(* killswitch-user: its sessions with the daemon, one after the other, the *)
(* goroutines of a session (the reader of the connection, the network      *)
(* check runner and the main loop's select) and the notices it leaves on   *)
(* the desktop, which outlive a session.                                   *)
(*                                                                         *)
(* The daemon is reduced to one that announces its changes in their order  *)
(* (AdminServer models how it really does).  Its configuration is          *)
(* base_policy.allow_all, the set of attached interfaces, and those on     *)
(* which this client forces a certain ruleset, which allows more than the  *)
(* base policy, but not all.  Other rulesets apply nowhere.  The daemon's  *)
(* own failures are left to PolicyManager.                                 *)
(*                                                                         *)
(* A session is a number.                                                  *)
(***************************************************************************)
EXTENDS SystemTray

CONSTANTS
    QueueSize,      \* networkCheckQueueSize
    MaxSessions,    \* bound on sessions; the last one does not end
    MaxChanges,     \* bound on others' changes and the daemon's notifications
    MaxClicks,      \* bound on what the user clicks
    MaxWorld        \* bound on changes of connectivity

ASSUME UserBoundsAssumption ==
    /\ QueueSize \in Nat \ {0}
    /\ MaxSessions \in Nat \ {0} /\ MaxChanges \in Nat
    /\ MaxClicks \in Nat /\ MaxWorld \in Nat

VARIABLES
    cfg,            \* the daemon's configuration
    leftover,       \* interfaces on which an ended connection still forces the ruleset
    buffered,       \* notifications that the daemon keeps for a subscriber
    subscribed,     \* the connection is in the daemon's list of subscribers
    up,             \* the connection is open
    asked,          \* this session has sent a mutation (for the properties)
    toServer,       \* requests on their way to the daemon
    toClient,       \* messages on their way from the daemon
    world,          \* what a network check would find
    phase,          \* of run: dialling, in WaitForConfig or in the main loop
    session,        \* the number of runConnectedClient calls so far
    events,         \* the channels between the reader and the main loop
    results,
    disable,        \* the channel disableAllowAll holds a click
    watcher,        \* configNotificationWatcher, for the session
    network,        \* networkCheckWatcher and its runner, for the session
    allowNotice,    \* desktopNotifier.allowAllID, its callback and the notice
    portalNotice,   \* desktopNotifier.captivePortalID, its callback and the notice
    used            \* how much of each bound is used up

daemonVars == <<cfg, leftover, buffered, subscribed>>
wireVars == <<up, asked, toServer, toClient>>
sessionVars == <<phase, session>>
channelVars == <<events, results>>
desktopVars == <<allowNotice, portalNotice>>
vars == <<daemonVars, wireVars, world, sessionVars, channelVars, disable,
          trayVars, watcher, network, desktopVars, used>>

-----------------------------------------------------------------------------
(* Messages.  A mutation's result has no list of interfaces (it is the     *)
(* policy manager's snapshot), so its interfacesSnapshot is another one.   *)
(* The result of a mutation that failed is only logged.                    *)

(* What clients are told: the attached interfaces on which the ruleset is  *)
(* forced, whoever does it.                                                *)
Shown(c, l) == [c EXCEPT !.forced = (@ \cup l) \cap c.ifs]

(* The rules in force on the attached interfaces.                          *)
InForce(c) == [i \in c.ifs |-> <<c.allow, i \in c.forced>>]

Msg(type, shown) == [type |-> type, cfg |-> shown]
NoteMsg == [type |-> "notification"]
FailedMsg == [type |-> "failed"]
MessageTypes == {"clients", "config", "interfaces", "configuration", "result"}
Message == [type : MessageTypes, cfg : Config] \cup {NoteMsg, FailedMsg}
IsResult(m) == m.type \in {"result", "failed"}

interfacesSnapshot(m) == <<m.type # "result", InForce(m.cfg)>>

Mutations == {cmd \in Commands : cmd[1] # "open"}
Requests == {<<"subscribe">>, <<"config">>} \cup Mutations

(* A notice: whether the desktop has been given it (its ID is known), the  *)
(* session whose callback its button calls (0: none), and whether the      *)
(* desktop still shows one that it failed to close, whose ID is forgotten. *)
(* refused says, for the properties, that it could not be shown.           *)
Notices(max) == [shown : BOOLEAN, calls : 0..max, stray : BOOLEAN, refused : BOOLEAN]
NoNotice == [shown |-> FALSE, calls |-> 0, stray |-> FALSE, refused |-> FALSE]

NewWatcher == [shown |-> FALSE, last |-> {}]
NewNetwork == [queue |-> 0, runner |-> "idle", result |-> "none",
               status |-> "none", snap |-> <<TRUE, <<>> >>]

Init ==
    /\ cfg \in [allow : BOOLEAN, ifs : SUBSET Ifaces, forced : {{}}]
    /\ leftover = {}
    /\ buffered = 0
    /\ subscribed = FALSE
    /\ up = FALSE
    /\ asked = FALSE
    /\ toServer = <<>>
    /\ toClient = <<>>
    /\ world \in Statuses
    /\ phase = "dial"
    /\ session = 0
    /\ events = <<>>
    /\ results = <<>>
    /\ disable = FALSE
    /\ TrayInit
    /\ watcher = NewWatcher
    /\ network = NewNetwork
    /\ allowNotice = NoNotice
    /\ portalNotice = NoNotice
    /\ used = [changes |-> 0, clicks |-> 0, world |-> 0]

Use(what, max) == used[what] < max /\ used' = [used EXCEPT ![what] = @ + 1]

-----------------------------------------------------------------------------
(* The daemon and its surroundings. *)

Announce(types) ==
    LET m(type) == Msg(type, Shown(cfg', leftover')) IN
    toClient' = IF subscribed THEN toClient \o [i \in DOMAIN types |-> m(types[i])]
                ELSE toClient

(* A mutation is announced if the rules in force on an attached interface  *)
(* have changed: allow_all is changed without notice while there is none.  *)
AnnounceMutation ==
    Announce(IF InForce(Shown(cfg', leftover')) # InForce(Shown(cfg, leftover))
             THEN <<"config">> ELSE <<>>)

(* Another client changes allow_all, an interface is attached or detached, *)
(* or another client comes or goes.                                        *)
DaemonChanges ==
    /\ Use("changes", MaxChanges)
    /\ UNCHANGED leftover
    /\ \/ /\ cfg' = [cfg EXCEPT !.allow = ~@]
          /\ AnnounceMutation
       \/ /\ \E I \in (SUBSET Ifaces) \ {cfg.ifs} : cfg' = [cfg EXCEPT !.ifs = I]
          /\ Announce(<<"interfaces", "config">>)
       \/ /\ UNCHANGED cfg
          /\ Announce(<<"clients">>)
    /\ UNCHANGED <<buffered, subscribed, up, asked, toServer, world, sessionVars, channelVars,
                   disable, trayVars, watcher, network, desktopVars>>

(* The daemon's cleanup of the ended connection, maybe after the client    *)
(* has connected again: one client less, and then what it forced is gone.  *)
DaemonReleases ==
    /\ leftover # {}
    /\ leftover' = {}
    /\ LET old == Shown(cfg, leftover)
           new == Shown(cfg, {})
           config == IF InForce(new) # InForce(old) THEN <<Msg("config", new)>> ELSE <<>>
       IN  toClient' = IF subscribed THEN Append(toClient, Msg("clients", old)) \o config
                       ELSE toClient
    /\ UNCHANGED cfg
    /\ UNCHANGED <<buffered, subscribed, up, asked, toServer, world, sessionVars, channelVars,
                   disable, trayVars, watcher, network, desktopVars, used>>

DaemonNotifies ==
    /\ Use("changes", MaxChanges)
    /\ IF subscribed
       THEN toClient' = Append(toClient, NoteMsg) /\ UNCHANGED buffered
       ELSE buffered' = buffered + 1 /\ UNCHANGED toClient
    /\ UNCHANGED <<cfg, leftover, subscribed, up, asked, toServer, world, sessionVars, channelVars,
                   disable, trayVars, watcher, network, desktopVars>>

(* A subscriber hears of itself as a client and gets what was buffered.    *)
SubscribeRequest ==
    /\ subscribed' = TRUE
    /\ buffered' = 0
    /\ toClient' = Append(toClient, Msg("clients", Shown(cfg, leftover)))
                       \o [i \in 1..buffered |-> NoteMsg]
    /\ UNCHANGED <<cfg, leftover>>

ConfigRequest ==
    /\ toClient' = Append(toClient, Msg("configuration", Shown(cfg, leftover)))
    /\ UNCHANGED daemonVars

(* The configuration after a mutation.  force_ruleset is sent as a set,    *)
(* which replaces the interfaces that this client forces it on.            *)
Mutated(c, req) ==
    CASE req[1] = "allow"    -> [c EXCEPT !.allow = TRUE]
      [] req[1] = "disallow" -> [c EXCEPT !.allow = FALSE]
      [] req[1] = "force"    -> [c EXCEPT !.forced = {req[2]}]
      [] req[1] = "unforce"  -> [c EXCEPT !.forced = @ \ {req[2]}]

(* The result, and the event if the rules in force have changed.  A force  *)
(* is rejected if it names a ruleset that has been removed.                *)
MutationRequest(req) ==
    /\ \/ /\ cfg' = Mutated(cfg, req)
          /\ LET old == Shown(cfg, leftover)
                 new == Shown(cfg', leftover)
                 config == IF InForce(new) # InForce(old) THEN <<Msg("config", new)>> ELSE <<>>
             IN  toClient' = Append(toClient, Msg("result", new)) \o config
       \/ /\ req[1] = "force"
          /\ toClient' = Append(toClient, FailedMsg)
          /\ UNCHANGED cfg
    /\ UNCHANGED <<leftover, buffered, subscribed>>

DaemonAnswers ==
    /\ up /\ toServer # <<>>
    /\ toServer' = Tail(toServer)
    /\ CASE Head(toServer) = <<"subscribe">> -> SubscribeRequest
         [] Head(toServer) = <<"config">>    -> ConfigRequest
         [] OTHER                            -> MutationRequest(Head(toServer))
    /\ UNCHANGED <<up, asked, world, sessionVars, channelVars, disable, trayVars,
                   watcher, network, desktopVars, used>>

(* The connection is lost; what has arrived can still be read. *)
ConnectionLost ==
    /\ up /\ up' = FALSE
    /\ session < MaxSessions
    /\ toServer' = <<>>
    /\ subscribed' = FALSE
    /\ cfg' = [cfg EXCEPT !.forced = {}]
    /\ leftover' = leftover \cup cfg.forced
    /\ UNCHANGED <<buffered, asked, toClient, world, sessionVars, channelVars, disable,
                   trayVars, watcher, network, desktopVars, used>>

WorldChanges ==
    /\ Use("world", MaxWorld)
    /\ world' \in Statuses \ {world}
    /\ UNCHANGED <<daemonVars, wireVars, sessionVars, channelVars, disable, trayVars,
                   watcher, network, desktopVars>>

-----------------------------------------------------------------------------
(* What the parts of a session do with a configuration. *)

(* Faulty: no limit.  (Faulty variants are slips that a property must      *)
(* catch; no action uses them.)                                            *)
checkUnbounded(n) == [n EXCEPT !.queue = @ + 1]

(* networkCheckWatcher.check: a full queue drops the request.              *)
check(n) == [n EXCEPT !.queue = IF ChecksEnabled /\ @ < QueueSize THEN @ + 1 ELSE @]

checkIfInterfacesChanged(n, m) ==
    IF interfacesSnapshot(m) = n.snap THEN n
    ELSE check([n EXCEPT !.snap = interfacesSnapshot(m)])

checkInterfacesEvent(n, m) == check([n EXCEPT !.snap = interfacesSnapshot(m)])

(* The outcomes of giving the desktop a notice for session s, and of       *)
(* closing one: the call fails or does not.  The callback is set before    *)
(* it, and the ID forgotten after it.  (If the user closes a notice, the   *)
(* program is not told.)                                                   *)
Given(notice, s) ==
    {[notice EXCEPT !.calls = s, !.shown = TRUE, !.refused = FALSE],
     [notice EXCEPT !.calls = s, !.refused = TRUE]}

Closed(notice) ==
    {[notice EXCEPT !.shown = FALSE, !.refused = FALSE],
     [notice EXCEPT !.shown = FALSE, !.refused = FALSE, !.stray = @ \/ notice.shown]}

(* Faulty: a notice that is shown already keeps its callback. *)
noticeKept(c, w, s) ==
    CASE c.allow /\ ~w.shown /\ ~allowNotice.shown -> Given(allowNotice, s)
      [] ~c.allow /\ w.shown -> Closed(allowNotice)
      [] OTHER -> {allowNotice}

(* updateGlobalAllowAll, in session s: what may become of the notice.  The *)
(* session takes it for shown or closed even if the desktop's call failed. *)
updateGlobalAllowAll(c, w, s) ==
    CASE c.allow /\ ~w.shown -> Given(allowNotice, s)
      [] ~c.allow /\ w.shown -> Closed(allowNotice)
      [] OTHER -> {allowNotice}

(* configNotificationWatcher.update *)
update(c) ==
    /\ watcher' = [shown |-> c.allow, last |-> c.ifs]
    /\ allowNotice' \in updateGlobalAllowAll(c, watcher, session)

-----------------------------------------------------------------------------
(* Sessions (run and the beginning and the end of runConnectedClient). *)

Dial ==
    /\ phase = "dial"
    /\ phase' = "wait"
    /\ session' = session + 1
    /\ up' = TRUE
    /\ asked' = FALSE
    /\ toServer' = << <<"subscribe">>, <<"config">> >>
    /\ toClient' = <<>>
    /\ UNCHANGED <<daemonVars, world, channelVars, disable, trayVars, watcher,
                   network, desktopVars, used>>

(* Whatever arrives before the configuration is dropped. *)
WaitForConfig ==
    /\ phase = "wait" /\ toClient # <<>>
    /\ Head(toClient).type # "configuration"
    /\ toClient' = Tail(toClient)
    /\ UNCHANGED <<daemonVars, up, asked, toServer, world, sessionVars, channelVars, disable,
                   trayVars, watcher, network, desktopVars, used>>

StartSession ==
    /\ phase = "wait" /\ toClient # <<>>
    /\ Head(toClient).type = "configuration"
    /\ toClient' = Tail(toClient)
    /\ phase' = "run"
    /\ LET m == Head(toClient) IN
          /\ watcher' = [shown |-> m.cfg.allow, last |-> m.cfg.ifs]
          /\ allowNotice' \in updateGlobalAllowAll(m.cfg, NewWatcher, session)
          /\ Update(FirstUpdate(m.cfg))
          /\ network' = check([NewNetwork EXCEPT !.snap = interfacesSnapshot(m)])
    /\ UNCHANGED <<daemonVars, up, asked, toServer, world, session, channelVars, disable,
                   commands, portalNotice, used>>

(* The reader has met the end of the stream.  The session's channels and   *)
(* goroutines are gone; the tray, its queue and the notices stay.          *)
SessionEnds ==
    /\ phase \in {"wait", "run"} /\ ~up /\ toClient = <<>>
    /\ phase' = "dial"
    /\ events' = <<>> /\ results' = <<>>
    /\ disable' = FALSE
    /\ watcher' = NewWatcher
    /\ network' = NewNetwork
    /\ UNCHANGED <<daemonVars, wireVars, world, session, trayVars, desktopVars, used>>

(* The reader goroutine: a full channel makes it wait. *)
Reader ==
    /\ phase = "run" /\ toClient # <<>>
    /\ toClient' = Tail(toClient)
    /\ IF IsResult(Head(toClient))
       THEN results = <<>> /\ results' = <<Head(toClient)>> /\ UNCHANGED events
       ELSE events = <<>> /\ events' = <<Head(toClient)>> /\ UNCHANGED results
    /\ UNCHANGED <<daemonVars, up, asked, toServer, world, sessionVars, disable, trayVars,
                   watcher, network, desktopVars, used>>

-----------------------------------------------------------------------------
(* The cases of the main loop's select. *)

(* A request on a connection that is lost is only logged. *)
SendMutation(req) ==
    /\ toServer' = IF up THEN Append(toServer, req) ELSE toServer
    /\ asked' = TRUE

(* Faulty: the click is taken and forgotten. *)
ForgetClick ==
    /\ phase = "run" /\ disable
    /\ disable' = FALSE
    /\ UNCHANGED <<daemonVars, wireVars, world, sessionVars, channelVars,
                   trayVars, watcher, network, desktopVars, used>>

DisableGlobalAllowAll ==
    /\ phase = "run" /\ disable
    /\ disable' = FALSE
    /\ SendMutation(<<"disallow", "all">>)
    /\ UNCHANGED <<daemonVars, up, toClient, world, sessionVars, channelVars,
                   trayVars, watcher, network, desktopVars, used>>

(* "open" starts the captive portal command if the last check asked for a  *)
(* login (openLastCaptivePortal); the command changes nothing here.        *)
ApplyTrayCommand ==
    /\ phase = "run" /\ commands # <<>>
    /\ commands' = Tail(commands)
    /\ IF Head(commands)[1] = "open" THEN UNCHANGED <<toServer, asked>>
       ELSE SendMutation(Head(commands))
    /\ UNCHANGED <<daemonVars, up, toClient, world, sessionVars, channelVars,
                   disable, tray, menu, watcher, network, desktopVars, used>>

TakeFailure ==
    /\ phase = "run" /\ results # <<>> /\ Head(results) = FailedMsg
    /\ results' = <<>>
    /\ UNCHANGED <<daemonVars, wireVars, world, sessionVars, events, disable, trayVars,
                   watcher, network, desktopVars, used>>

TakeResult ==
    /\ phase = "run" /\ results # <<>> /\ Head(results).type = "result"
    /\ results' = <<>>
    /\ LET m == Head(results) IN
          /\ update(m.cfg)
          /\ Update(WithConfig(m.cfg))
          /\ network' = checkIfInterfacesChanged(network, m)
    /\ UNCHANGED <<daemonVars, wireVars, world, sessionVars, events, disable, commands,
                   portalNotice, used>>

TakeNotification ==
    /\ phase = "run" /\ events # <<>> /\ Head(events) = NoteMsg
    /\ events' = <<>>
    /\ UNCHANGED <<daemonVars, wireVars, world, sessionVars, results, disable, trayVars,
                   watcher, network, desktopVars, used>>

(* Faulty: only the tray follows. *)
TakeConfigForTray ==
    /\ phase = "run" /\ events # <<>> /\ Head(events).type = "config"
    /\ events' = <<>>
    /\ Update(WithConfig(Head(events).cfg))
    /\ network' = checkIfInterfacesChanged(network, Head(events))
    /\ UNCHANGED <<daemonVars, wireVars, world, sessionVars, results, disable, commands,
                   watcher, allowNotice, portalNotice, used>>

TakeConfig ==
    /\ phase = "run" /\ events # <<>> /\ Head(events).type = "config"
    /\ events' = <<>>
    /\ LET m == Head(events) IN
          /\ update(m.cfg)
          /\ Update(WithConfig(m.cfg))
          /\ network' = checkIfInterfacesChanged(network, m)
    /\ UNCHANGED <<daemonVars, wireVars, world, sessionVars, results, disable, commands,
                   portalNotice, used>>

(* Only the tray and the network checks follow these. *)
TakeInterfacesOrClients ==
    /\ phase = "run" /\ events # <<>> /\ Head(events).type \in {"interfaces", "clients"}
    /\ events' = <<>>
    /\ LET m == Head(events) IN
          /\ Update(WithConfig(m.cfg))
          /\ network' = IF m.type = "interfaces" THEN checkInterfacesEvent(network, m)
                        ELSE network
    /\ UNCHANGED <<daemonVars, wireVars, world, sessionVars, results, disable, commands,
                   watcher, desktopVars, used>>

Tick ==
    /\ phase = "run" /\ ChecksEnabled
    /\ network' = check(network)
    /\ UNCHANGED <<daemonVars, wireVars, world, sessionVars, channelVars, disable,
                   trayVars, watcher, desktopVars, used>>

(* Faulty: a session closes the notice only after a login of its own. *)
portalClosedByOwner(n) ==
    CASE n.result # "login" /\ n.status = "login" -> {NoNotice}
      [] n.result = "login" /\ n.status # "login" -> Given(portalNotice, session)
      [] OTHER -> {portalNotice}

(* finish: what may become of the captive portal's notice.  The status is  *)
(* set even if the desktop's call failed, so that it is not made again.    *)
(* The callback is taken back before a notice is closed, so that nothing   *)
(* comes of one that could not be closed.                                  *)
finish(n) ==
    CASE n.result # "login" -> {NoNotice}
      [] n.result = "login" /\ n.status # "login" -> Given(portalNotice, session)
      [] OTHER -> {portalNotice}

TakeCheckResult ==
    /\ phase = "run" /\ network.result # "none"
    /\ portalNotice' \in finish(network)
    /\ network' = [network EXCEPT !.status = network.result, !.result = "none"]
    /\ Update(WithNetwork(network.result))
    /\ UNCHANGED <<daemonVars, wireVars, world, sessionVars, channelVars, disable,
                   commands, watcher, allowNotice, used>>

-----------------------------------------------------------------------------
(* The network check runner: one check at a time. *)

(* Faulty: the runner returns after its first check. *)
RunnerStartsOnce ==
    /\ network.runner = "idle" /\ network.queue > 0 /\ network.status = "none"
    /\ network' = [network EXCEPT !.queue = @ - 1, !.runner = "busy"]
    /\ UNCHANGED <<daemonVars, wireVars, world, sessionVars, channelVars, disable,
                   trayVars, watcher, desktopVars, used>>

RunnerStarts ==
    /\ network.runner = "idle" /\ network.queue > 0
    /\ network' = [network EXCEPT !.queue = @ - 1, !.runner = "busy"]
    /\ UNCHANGED <<daemonVars, wireVars, world, sessionVars, channelVars, disable,
                   trayVars, watcher, desktopVars, used>>

runNetworkCheck ==
    /\ network.runner = "busy"
    /\ network' = [network EXCEPT !.runner = world]
    /\ UNCHANGED <<daemonVars, wireVars, world, sessionVars, channelVars, disable,
                   trayVars, watcher, desktopVars, used>>

RunnerDelivers ==
    /\ network.runner \in Statuses /\ network.result = "none"
    /\ network' = [network EXCEPT !.result = network.runner, !.runner = "idle"]
    /\ UNCHANGED <<daemonVars, wireVars, world, sessionVars, channelVars, disable,
                   trayVars, watcher, desktopVars, used>>

-----------------------------------------------------------------------------
(* The user. *)

(* The notice's button, or that of one that the desktop failed to close    *)
(* (which is ignored while there is another).  The callback of an earlier  *)
(* session puts the click into a channel that nobody reads.                *)
ClickDisable ==
    /\ allowNotice.shown \/ allowNotice.stray
    /\ Use("clicks", MaxClicks)
    /\ disable' = (disable \/ (phase = "run" /\ allowNotice.calls = session))
    /\ UNCHANGED <<daemonVars, wireVars, world, sessionVars, channelVars, trayVars,
                   watcher, network, desktopVars>>

(* The desktop is ready, and onReady's two steps. *)
TrayAppears ==
    /\ onReady \/ onReadyApplies
    /\ UNCHANGED <<daemonVars, wireVars, world, sessionVars, channelVars, disable,
                   watcher, network, desktopVars, used>>

ClickTray ==
    /\ Use("clicks", MaxClicks)
    /\ Click
    /\ UNCHANGED <<daemonVars, wireVars, world, sessionVars, channelVars, disable,
                   watcher, network, desktopVars>>

Loop ==
    \/ DisableGlobalAllowAll
    \/ ApplyTrayCommand
    \/ TakeFailure
    \/ TakeResult
    \/ TakeNotification
    \/ TakeConfig
    \/ TakeInterfacesOrClients
    \/ TakeCheckResult
    \/ Tick
    \/ SessionEnds

Runner == RunnerStarts \/ runNetworkCheck \/ RunnerDelivers

Next ==
    \/ DaemonChanges \/ DaemonReleases \/ DaemonNotifies \/ DaemonAnswers
    \/ ConnectionLost \/ WorldChanges
    \/ Dial \/ WaitForConfig \/ StartSession
    \/ Reader \/ Loop \/ Runner
    \/ TrayAppears
    \/ ClickDisable \/ ClickTray

Spec == Init /\ [][Next]_vars

(* The daemon answers and the client's goroutines go on; select chooses    *)
(* at random among the cases that are ready, so none is passed over for    *)
(* ever.  The user need not click, nothing need change.                    *)
Fairness ==
    /\ WF_vars(DaemonAnswers) /\ WF_vars(DaemonReleases) /\ WF_vars(Dial)
    /\ WF_vars(WaitForConfig) /\ WF_vars(StartSession)
    /\ WF_vars(Reader) /\ WF_vars(Runner)
    /\ SF_vars(DisableGlobalAllowAll) /\ SF_vars(ApplyTrayCommand)
    /\ SF_vars(TakeFailure \/ TakeResult)
    /\ SF_vars(TakeNotification) /\ SF_vars(TakeConfig)
    /\ SF_vars(TakeInterfacesOrClients) /\ SF_vars(TakeCheckResult)
    /\ SF_vars(Tick) /\ SF_vars(SessionEnds)

FairSpec == Spec /\ Fairness

-----------------------------------------------------------------------------
(* Properties. *)

(* The variables keep their types; the channels keep within their          *)
(* capacities and the network check queue within networkCheckQueueSize.    *)
TypeOK ==
    /\ cfg \in Config /\ TrayTypeOK
    /\ leftover \in SUBSET Ifaces
    /\ buffered \in 0..MaxChanges
    /\ subscribed \in BOOLEAN /\ up \in BOOLEAN /\ asked \in BOOLEAN /\ disable \in BOOLEAN
    /\ \A i \in DOMAIN toServer : toServer[i] \in Requests
    /\ \A i \in DOMAIN toClient : toClient[i] \in Message
    /\ world \in Statuses
    /\ phase \in {"dial", "wait", "run"}
    /\ session \in 0..MaxSessions
    /\ Len(events) <= 1 /\ \A i \in DOMAIN events : events[i] \in Message
    /\ Len(results) <= 1 /\ \A i \in DOMAIN results : results[i] \in Message
    /\ watcher \in [shown : BOOLEAN, last : SUBSET Ifaces]
    /\ network \in [queue : 0..QueueSize, runner : {"idle", "busy"} \cup Statuses,
                     result : Statuses \cup {"none"}, status : Statuses \cup {"none"},
                     snap : BOOLEAN \X UNION {[I -> BOOLEAN \X BOOLEAN] : I \in SUBSET Ifaces}]
    /\ allowNotice \in Notices(MaxSessions) /\ portalNotice \in Notices(MaxSessions)

(* The session runs and nothing is on its way. *)
Settled ==
    /\ phase = "run" /\ up
    /\ toServer = <<>> /\ toClient = <<>> /\ events = <<>> /\ results = <<>>

(* The notice is on the desktop unless that refused it, and its button     *)
(* reaches this session and not one that has ended.                        *)
Offered(notice) == notice.calls = session /\ (notice.shown \/ notice.refused)

(* Once nothing is on its way, what the user is shown is what is in force, *)
(* whatever happened while there was no connection or while the session    *)
(* was waiting for its first configuration: the tray shows the rules that  *)
(* are in force on the attached interfaces, also when the rulesets that an *)
(* earlier session forced have gone with it; so does the list of           *)
(* interfaces that notices are based on; and while an interface is         *)
(* attached, this session offers its notice about allow_all exactly if     *)
(* allow_all is on (runtime.go's main loop, notifications.go's             *)
(* configNotificationWatcher).  While none is attached a change of         *)
(* allow_all is not announced (admin.go:340, policy_manager.go:205), and   *)
(* what is shown of it is made up for when one is.  It takes that the      *)
(* session has not sent a mutation: the result of one's own has a channel  *)
(* of its own, and select may take it after a newer event.                 *)
SettledShowsCurrent ==
    Settled /\ ~asked =>
        /\ TrayEnabled => InForce(tray.cfg) = InForce(Shown(cfg, leftover))
        /\ watcher.last = cfg.ifs
        /\ cfg.ifs # {} => (cfg.allow <=> Offered(allowNotice))

(* While a session takes the notice about allow_all for shown it has given *)
(* it to the desktop, unless that refused it, and the button reaches this  *)
(* session and not one that has ended, also if the notice on the desktop   *)
(* is still an earlier session's because the new one was refused           *)
(* (notifications.go: updateGlobalAllowAll, NotifyGlobalAllowAll).         *)
NoticeIsUsable == watcher.shown => Offered(allowNotice)

(* Once a session has checked the network, the login notice is known to    *)
(* the desktop if and only if the last check asked for a login, unless     *)
(* showing it was refused, and its button belongs to this session, even if *)
(* an earlier session left one behind; otherwise the button of one that    *)
(* could not be closed does nothing (network_check.go: finish,             *)
(* notifications.go: CloseCaptivePortal).                                  *)
PortalNoticeIsCurrent ==
    network.status # "none" =>
        IF network.status = "login" THEN Offered(portalNotice)
        ELSE ~portalNotice.shown /\ portalNotice.calls = 0

(* While a session runs, the tray offers the login page only if this       *)
(* session's last check asked for a login, so that the click opens it: an  *)
(* earlier session's offer is withdrawn (runtime.go:                       *)
(* runConnectedClient, network_check.go: finish, openLastCaptivePortal).   *)
LoginEntryWorks ==
    phase = "run" /\ tray.net = "login" => network.status = "login"

(* If a session lasts, the network status that it shows becomes what a     *)
(* check finds and stays so, although checks are dropped when their queue  *)
(* is full (network_check.go: check; the period's ticker makes up for it). *)
StatusSettles ==
    <>[](phase = "run") => <>[](network.status = world)

(* A click on the notice's button turns allow_all off unless the session   *)
(* or its connection ends (runtime.go: disableAllowAll).                   *)
ClickIsCarriedOut ==
    disable ~> (~cfg.allow \/ ~up \/ phase # "run")
=============================================================================
