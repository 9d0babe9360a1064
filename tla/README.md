# Verification of killswitch

TLA+ models of the `killswitch` daemon, its eBPF program, the desktop client
`killswitch-user` and the command line client `killswitch-cli`, the TLC runs
that check them on small instances, and TLAPS proofs of the most important
results for every instance. Paths are relative to the repository; file names
without a directory are under `cmd/killswitch`.

## The system

| part | state | operations | talks to |
|---|---|---|---|
| packet filter (`killswitch.c`) | none of its own; reads `runtime_config` and six allowlists | one run per packet | the maps |
| policy maps (`bpf_maps.go`) | the maps, keyed by interface index | clear and rewrite one interface, syscall by syscall | packet filter, policy manager |
| policy computation (`effective_policy.go`, `interfaces.go`) | none | merge rules, match triggers, select interfaces | policy manager |
| policy manager and reconcile (`policy_manager.go`, `egress.go`) | options, temporary and forced rulesets, proxy state, attachments, the policies last written | startup, watcher's turn, reconcile | everybody, under `reconcileMu` |
| interface watcher (`watchInterfaces` in `egress.go`) | netlink subscriptions and their generation, error channel, debounce timer | subscribe, resubscribe, debounced reconcile, events | netlink, policy manager, admin API server |
| admin mutations (`admin_mutation.go`) | none | change options, temporary or forced rulesets, then reconcile | policy manager |
| admin API server (`admin.go`) | clients, subscriptions, notification buffer | requests, events, notifications, cleanup | clients by sockets; called by watcher, proxy and handlers |
| SOCKS proxy manager (`socks_proxy.go`) | listener, state | start, stop, accept error, report | policy manager by a callback |
| desktop client (`cmd/killswitch-user`) | session, notices, tray, network status | events, results, checks, clicks | admin API |
| command line client (`cmd/killswitch-cli`, `internal/adminapi/client.go`) | the connection of one command | ask, wait for the answer, print events, hold a ruleset | admin API |
| configuration parsing, bootstrap log | | sequential | not modelled |

What is hard: every packet runs concurrently with the rewriting of the maps; the
watcher, the connections' handlers and the proxy's callback reconcile in any
order from state the others change; a listing, an attachment or a map write may
fail in the middle; a client may disappear at any moment while it holds
rulesets; netlink subscriptions fail and are renewed while interfaces change;
events are sent by several goroutines over sockets that may be full; the desktop
client loses and regains its connection while its notices stay on the screen, and
its tray appears whenever the desktop is ready. `hazards` in `PROJECT.json` lists
these at their lines.

## Modules

| module | models | extends |
|---|---|---|
| `AllowRules` | `allowRules`, its merge, and the keys it becomes in the maps | |
| `PolicyStore` | what the maps promise: one policy per interface, withdrawn and installed as a whole (abstract) | |
| `BpfMaps` | the writer, one syscall per step | `AllowRules`, instance of `PolicyStore` |
| `PacketFilter` | `killswitch_egress`, one map access per step, beside the writer | `BpfMaps` |
| `EffectivePolicy` | triggers, selection, forced and temporary rulesets, `mutateOptions` | `AllowRules` |
| `PolicyManager` | the daemon's state, one action per half of a turn under `reconcileMu` | `EffectivePolicy` |
| `InterfaceWatcher` | `watchInterfaces`: subscriptions, errors, timer, events, composed with the policy manager | `PolicyManager`, and an instance of it |
| `SocksProxy` | `socksProxyManager` and its goroutines | |
| `AdminServer` | connections, subscriptions, events, notifications | |
| `CommandLine` | `killswitch-cli`'s commands, composed with the server | `AdminServer` |
| `SystemTray` | the tray: last state, menu, `onReady`, queue of commands | |
| `UserSession` | `killswitch-user` against an orderly daemon | `SystemTray` |
| `BpfMapsProofs`, `PacketFilterProofs`, `PolicyManagerProofs`, `InterfaceWatcherProofs`, `SocksProxyProofs`, `AdminServerProofs`, `CommandLineProofs`, `UserSessionProofs` | theorems about the module each is named after | that module |
| `MC...` | instances for TLC | |

`PolicyManager` takes a rewrite of several interfaces as one step
(`Written`); that this is sound per interface is what `BpfMaps` shows by
implementing `PolicyStore`, and what packets see in between is `PacketFilter`'s
subject.

### Correspondence

`map` in `PROJECT.json` names the lines for each definition. In outline:

- **AllowRules.** A policy is a set of flags (`allow_all`, `enable_v4`,
  `enable_v6`) and a set of typed keys. Addresses, ports and marks are members of
  small sets; byte order and encoding play no role in what is compared.
- **BpfMaps.** `job` is one call of `writeEffectivePolicyForInterface` or
  `clearPolicyForInterface`, `pc` and `pos` say how far it has got. Each step is
  one syscall: delete the config, delete or put one allowlist entry, put the
  config. Any syscall may fail, and a put fails when the map has `MaxEntries`
  entries, which all interfaces share.
- **PacketFilter.** A CPU reads the config (`ReadAllowAll`), the protocol flags
  (`ReadGate`) and then one allowlist after the other (`Lookup`). The pointer to
  the config stays usable after a delete and may be reused for another
  interface's entry, as the kernel's array of preallocated elements allows:
  `FreeConfig`, `ReuseConfig`.
- **PolicyManager.** `mu` is `reconcileMu`; a turn is `EgressReconcile` (attach,
  detach) followed by `PolicyReconcile` (write). `current` is
  `policyManager.current`, `kernel` the maps. `pending` says that the watcher owes
  a reconcile; a turn may leave it set, and updates that change nothing may set
  it. `FaultKinds` says which of listing, attaching and writing
  may fail. When startup fails the daemon exits, and the kernel's state with it.
  An owner's number is used again once its connection is gone, which can only
  make more trouble than the code's fresh numbers.
- **InterfaceWatcher.** `watch` is where `watchInterfaces` is; `updates` are the
  channels that hold an update, `ended` the subscriptions of the current
  generation whose channel is closed, `closing` those of old generations that
  will still report an error, `subscribeErrs` the channel with room for one.
  `pending` is `reconcilePending` here, and PolicyManager's flag is the
  definition `Owed`: a pending reconcile, an update on its way, a failed
  subscription or a renewal not yet followed by its reconcile. `untold` is for
  the properties only.
- **SocksProxy.** A process per client, per listener's serve goroutine and for
  startup. The steps are those between lock, listen, unlock and report. If
  protecting an open listener fails, `start` overwrites it with the failed call's
  result before it closes that (`socks_proxy.go:210-216`): `ProtectFails` closes
  the port or leaks it, whichever the library's result allows, and
  `ProtectPanics` is `Close` on a nil listener, after which the service manager
  starts the daemon anew (`flake.nix:97`). `leaked` is for the properties only.
- **AdminServer.** What a goroutine still has to do is a sequence of
  operations, so that every send may block and every failure drops what the code
  drops. The configuration is a version number that counts the changes of the
  interfaces' rules. `view` and `dropped` exist for the properties only.
- **CommandLine.** A command is what it asks and what it does once it is answered
  (`runGetConfig` and the others); requests wait in `cli[c].requests` until the
  connection's handler reads them. `offer` and `seen` are for the properties.
- **UserSession.** The cases of the main loop's `select` are actions, as are the
  reader and the network check runner. A notice is whether its ID is known, the
  session whose callback its button calls, and whether the desktop still shows
  one that it failed to close. Every D-Bus call may fail (`Given`, `Closed`); the
  session's own state has been set by then (`notifications.go:113`,
  `network_check.go:133`) and nothing is tried again. The daemon is reduced to
  one that announces its changes in their order and cleans up after an old
  connection at any time (`leftover`). As in `admin.go:340`, a mutation is
  announced only if it changes the rules in force on an attached interface
  (`InForce`, `AnnounceMutation`), and one that is rejected is answered with a
  result that the session only logs (`FailedMsg`, `TakeFailure`). The daemon's
  own failures to reconcile are left to `PolicyManager`. Notices are switched on;
  the tray and the network checks are constants.
- **SystemTray.** `onReady` takes the tray's last state and applies it in two
  steps; the main loop's update and its apply are one, for nothing but `onReady`
  can come between them. A click reads the last state, as the menu's callbacks do.

## Runs

Passing runs:

| run | instance | shows |
|---|---|---|
| `filter_race` | 3 interfaces, capacity 2, so that maps fill up, 1 CPU, any number of rewrites and failures, packets for the parser's branches | the writer implements the abstract store; a packet whose interface is left alone gets its policy's verdict, a disturbed one never more than a mixture of what was written to its interface |
| `policy_net` | 2 interfaces, 1 client, 2 network changes, 1 failure of each kind | the kernel enforces what is asked for and memory matches the maps until a map write fails; no policy without attachment; memory recovers from all failures |
| `policy_clients` | 2 clients, forced up to twice, 1 ruleset removed and restored | no step of one client touches what another holds; cleanup is complete; counts do not survive the ruleset |
| `watcher_live` | fair, 1 interface, 1 client that sets and removes a temporary ruleset and disconnects, 2 kinds of subscription, 1 network change, 1 subscription error | the watcher implements `PolicyManager`'s; clients are told of changed interfaces; the policy comes into force once updates pause; what a client that is gone held is taken from it and from the kernel |
| `socks` | 2 clients, 3 listeners | no orphaned listener but one whose protection failed; no dead proxy reported; a live one reported, with the two exceptions below |
| `admin_server` | 2 clients, 1 change, 1 notification, clients that hang up at any time | a notification arrives at most once and is not forgotten in the buffer; every change reaches every subscriber, unless the client that made it hangs up first |
| `cli_live` | fair, 2 connections: one runs `get-cfg`, with and without `--watch`, and `notifications`, the other `debug-notify` and `tmp-ruleset`, each again and again | every wait is answered; `--watch` misses no change; watcher and cleanup come to their ends |
| `user_session` | up to 2 sessions, 1 change or notification, 1 click, 1 change of connectivity, sessions and the rest at most 3 in all; 1 interface, network checks, the menu built at any time, notices that may be refused | what is shown is what is in force; the `allow_all` notice belongs to the running session; the login notice and the tray's entry follow its last check |
| `user_live` | fair, no tray, 1 session, 1 change of connectivity, 2 clicks, the second of which may find the first waiting | the status settles; a click is carried out |

Runs that refute what a document says (see `findings`):

| run | what happens |
|---|---|
| `filter_torn` | a packet passes with the flags of one policy and a key of the next |
| `watcher_deaf` | a new subscription fails while the error of an old one, which is ending, waits in the channel: its error is dropped, nothing subscribes again, and the interface that appears is not attached |
| `policy_write` | one interface's write fails after another's succeeded; the client leaves, the old policies are computed again, equal the remembered ones, and nothing is written: the temporary rule stays |

Some properties hold only under a condition that the code does not establish;
each condition is part of the property and marks a place where code and
documents part:

- `ReconciledInForce`, `MapsMatchMemory` and `DetachedHaveNoPolicy`: no map write
  has failed (`policy_write` shows what may follow).
- `EventuallyInForce`: no subscription error is dropped (`Deaf`; `watcher_deaf`
  shows what follows). It also takes that neighbours' updates come to an end
  (`UpdatesPause`, its premise): every update resets the timer of 100 ms
  (`egress.go:222`), and updates that recur faster put the reconcile off for
  ever.
- `ServingIsReported`: neither a start has failed beside the one that succeeded
  (`StartFailed`) nor an earlier listener's accept error been reported last
  (`LateAcceptError`). Two enable requests can both pass `start`'s check
  (`socks_proxy.go:205`); the loser's listen error sets the running state to
  false while the winner serves. And `stopWithError` reports after it has
  released the lock (`socks_proxy.go:298-316`), maybe after a new start has made
  both of its reports. README.md:215-216 says that
  the mark is "automatically merged into `allowed_marks` while the proxy is
  running"; in these two cases it is not.
- `NoOrphanListener`: the listener was not leaked by a start whose protection
  failed (`leaked`, `socks_proxy.go:210-216`). Such a port stays taken, and later
  starts fail.
- `EveryChangeIsSent`: the client that made the change waited for its answer
  (`admin.go:336`). It is also about changes of the rules in force only:
  `admin.go:340` does not announce others. And it says that the newest rules are
  sent, not that they are sent last: `notify` takes its snapshot before it waits
  for `writeMu` (`admin.go:431`), so an older one may follow. `WatchMissesNothing`
  inherits both: `get-cfg --watch` has been given the newest rules, but may print
  older ones after them.
- `WatcherReturns` and `CleanupEnds`: clients read, as `CommandLine`'s fairness
  has them do. `notify` writes without a
  deadline (`admin.go:433`), so a subscriber that stops reading stops the
  interface watcher, and new interfaces are not attached any more.
- `SettledShowsCurrent`: the session has sent no mutation. Results and events
  travel through two channels (`cmd/killswitch-user/runtime.go:192`), and a
  result may be taken after a newer event. And `allow_all` is shown as it is only
  while an interface is attached: otherwise a change of it is not announced
  (`admin.go:340`), although README.md:291-292 says "show notifications when the
  global `allow_all` state changes".
- `SettledShowsCurrent`, `NoticeIsUsable` and `PortalNoticeIsCurrent` say that a
  notice is offered (`Offered`): its callback is this session's, and it is on the
  desktop *or was refused*. A refused notice is logged and not tried again
  (`notifications.go:120`, `network_check.go:149`), so the user may see none, or
  for `allow_all` an earlier session's, whose button then calls this session. One
  that could not be closed stays on the desktop; a click on it is harmless.
- `MenuIsCurrent`: no update overtook `onReady` between its taking the last state
  and applying it (`cmd/killswitch-user/tray.go:252`). If one did, the menu shows
  the older state until the next change.

Not covered by a property:

- With `match: "and"`, `rulesetTriggerMatchesInterface`
  (`effective_policy.go:424`) wants every value of a trigger to match, so a
  trigger with two interface names never does. README.md:189-190: it "requires
  every configured trigger group to match". `EffectivePolicy` follows the code.
- `WaitForConfig` (`internal/adminapi/client.go:69`) drops what comes before the
  configuration, so notifications that the daemon buffered for a subscriber
  (`admin_test.go:227`) are drained into that wait and never shown.
- The tray forces a ruleset with a `set` (`cmd/killswitch-user/tray.go:52`), which
  replaces the interfaces that the client forces it on (`policy_manager.go:96`):
  forcing it on a second interface releases it on the first. `Mutated` follows
  the code.
- `defer close(subscriptionDone)` (`egress.go:203`) closes the first
  subscription's channel, also when a resubscription has closed it before; the
  watcher then panics as it returns.
- A daemon that ends removes the socket file by its name (`admin.go:157`), also if
  another daemon has made it in the meantime.
- `interfacePolicyRulesEqual` (`bpf_maps.go:282`) tells an interface's empty list
  of addresses from its clone, which is nil: while an interface without an
  address is attached, every reconcile reports a change, although it writes
  nothing. `SamePolicy` does not, so the models announce less than the code.
- A new session does not know of an earlier one's notice
  (`cmd/killswitch-user/runtime.go:135`): if `allow_all` was switched off between
  the two, the notice that it is on stays.

Bounds are constants named `Max...`, `Cap` or `QueueSize`, each in the guard of
the action it limits. Two interfaces or clients are what the interference
properties speak of; a change can then be overtaken by another actor's; capacity
1 makes every channel and socket block. Subscription errors are one in
`watcher_live`, which causes a renewal, and two in `watcher_deaf`, where the
error of an old generation meets one of the renewed. With one error none is ever
dropped, so `watcher_live` uses the exception of `EventuallyInForce` for a deaf
watcher in no behaviour. Symmetry is used only
in runs without liveness properties. Deadlock is checked except in `PolicyManager`'s and `InterfaceWatcher`'s
runs, where the daemon may exit. In `UserSession` the last session's connection
is not lost. `user_session` explores what two events do to one session, and one
event to two; that it is enough for any number is proved. Two clicks in
`user_live` are one on the notice and a second that finds it waiting; with no
change of the daemon there, checks are started by the session's start and by the
ticker, which is what fills their queue.

Fairness: `InterfaceWatcher` gives every goroutine that waits for `reconcileMu`
its turn (a Go mutex starves nobody), lets started turns go on, and gives each
case of the watcher's `select` that is ready again and again its turn, since Go
chooses at random among those that are ready. The timer must fire only if, from
some time on, no update waits and no channel is closed, for either may reset it
for ever. `CommandLine` gives
each of the server's goroutines strong fairness, for it may wait for a socket
that is full again and again, lets commands read what they are sent, as their
loops do, and return when they are done. `UserSession` gives each case of the
`select` strong fairness. Nothing obliges clients, users or the network to act.

Each property has a mutant in `PROJECT.json`: a slip in the code that makes the
property fail. The operators that such mutants use are marked `Faulty` and no
action uses them.

## Proofs

`BpfMapsProofs`, for any interfaces, policies and capacity:

- `MapsTypeOK`: the type invariant.
- `MapsImplementStore`: the writer implements `PolicyStore`. The inductive
  invariant `IInv` says what the writer has established at each step: no config
  while the allowlists change, the maps before `pos` cleared, later only keys of
  the new policy and all those of the maps before `pos`. Without it the
  allowlists could hold anything when the config makes them count. Deleting the
  config then maps to `Withdraw`, putting it to `Install`, the end of a removal
  and every failure to `Stop`; all other steps stutter.

`PacketFilterProofs`, for any packets' interfaces, policies and number of CPUs,
beside the same writer:

- `FilteredMapsImplementStore`: the maps still implement `PolicyStore`.
- `UndisturbedVerdictIsExact` and `TornReadsAreBounded`. The invariant `PFInv`
  adds to `IInv`, for every CPU: all keys that are in the maps for its interface
  belong to policies it has met; while nobody writes to its interface, the policy
  in force is the one it started with, its pointer shows that policy's flags, and
  the lookups already made have found nothing.

`PolicyManagerProofs`, for any interfaces, clients, rulesets and mutations:

- `DaemonTypeCorrect`: the type invariant.
- `MemoryAlwaysWanted`: a calm daemon whose last attempts succeeded remembers
  the attachments and the policies its state asks for, whatever failed before.
  The invariant follows a turn: between its two halves the attachments are those
  selected, unless an error is recorded or another update is pending.
- `MemoryMatchesMaps` and `KernelEnforcesState`: until a map write fails, memory
  equals the maps, and a calm daemon whose last attempts succeeded has the kernel
  enforce what its state asks for, whatever else failed before. The argument is
  that writing the difference between memory and the new policies leaves exactly
  the new policies (`WriteIsComplete`), skipped or not, and that no step takes a
  failed write back (`FaultsGrow`).
- `NoPolicyWithoutAttachment`: no policy outlives its attachment.
- `CleanupIsComplete`: a connection that is gone holds nothing.
- `ClientsAreIndependent`: the action property `OwnersAreIndependent`; a step
  that changes what a client holds is that client's request or cleanup and nobody
  else's, or removes the ruleset.
- `NoForceWithoutRuleset`: only rulesets that exist are forced.

`InterfaceWatcherProofs`, for any interfaces and subscription failures:

- `WatcherImplementsFlag`: every step of the watcher is a step of `PolicyManager`
  under the mapping of its flag to `Owed`, or changes nothing there. What is
  proved of `PolicyManager` therefore holds of the daemon with channels, timer
  and generations. It rests on `CoverageAssumption`: the watcher
  subscribes to every kind of update that announces a change of its interfaces.
  The code subscribes to all four kinds; an instance may leave out what its
  interfaces never need. `InfosAssumption` says that interfaces are records of
  the six fields that `interfaces.go` fills in.
- `ClientsAreTold`, `WatcherTypeCorrect`. The invariant `WInv` says how the
  watcher's steps and the daemon's turns go together, and where a change that was
  not announced waits: in a channel, in a failed subscription, or in an event
  that is due.

`SocksProxyProofs`, for any clients and listeners: `NoListenerIsOrphaned`,
`ReportedProxyServes`, `ServingProxyIsReported`, `ProxyTypeCorrect`. `ProxyInv`
says in whose hands each listener is between the manager's locks, that its accept
loop waits for the report of the start, and that a report that is out of date is
followed by another, or is one of the two exceptions of `ServingIsReported`. A
listener that was leaked is in nobody's hands and never served.

`AdminServerProofs`, for any connections, subscriptions, socket size and number
of changes and notifications:

- `ServerTypeCorrect`: the type invariant, with the socket's capacity.
- `SubscribersAreSentChanges`: the invariant is that a subscriber who has not
  been sent the newest version will be: somebody is about to announce it, to take
  a snapshot for it, or to send it (`ChangesAreBrought`).
- `BufferWaitsForSubscribers`: while anybody subscribes to notifications, a
  buffer that is not empty is about to be drained (`BufferIsDrained`).
- `NoNoteTwice`: a notification is in one place only, in one operation or in the
  buffer, and one that a client has received is carried only by a send that is
  not going to it any more (`NotesApart`, `NotesNotYet`).

All of it needs the order of operations in a handler (`Ordered`): answers come
last and go to the handler's own client, nothing is drained after a reply, and
only clients that are gone are removed. `ConnsAssumption` says that connections
are finitely many and no other goroutine is one of their handlers.

`CommandLineProofs`, for any commands on any connections:

- `CommandsUseTheServer`: `CLSpec => Spec`, so that `AdminServerProofs` holds for
  the server that `killswitch-cli` talks to. `EventsAssumption`: what the commands
  subscribe to is among the subscriptions that `AdminServer` allows.
- `WatchersMissNothing`: the invariant `Watches` says that there is no answer
  before `get-cfg --watch` has asked, and that from then on the newest version it
  was sent is seen, waits in its socket, or is covered by the answer that is
  still to be made or on its way. With `ChangesAreBrought` it follows that the
  newest version is the one in force.

`UserSessionProofs`, for any interfaces, queue sizes, sessions, changes and
clicks: `SettledIsCurrent`, `ShownNoticeIsUsable`, `PortalNoticeFollows`,
`LoginEntryFollows`, `SessionTypeCorrect`, and `MenuFollowsTray` for the tray.
The central part of `SessionInv` is that the last message of each kind on its way
to the main loop, in the socket or in the channel, tells the rules that are in
force now, or what is shown already does, if none is on its way. It does not need
the daemon to announce what changes no rule: from the rules in force follow the
attached interfaces and, if there is one, `allow_all` (`InForceTells`). That a
notice is offered follows the callback, which is set before the call that may
fail (`GivenIsOffered`).

Assumptions are the named `ASSUME`s of the modules, which TLC evaluates in every
run. Every safety property of a passing run is proved. Only model-checked are the
liveness properties (`EventuallyInForce`, `DisconnectCompletes`,
`CommandsAreAnswered`, `WatcherReturns`, `CleanupEnds`, `StatusSettles`,
`ClickIsCarriedOut`), which depend on fairness and `ENABLED`, and what recursive
definitions compute for every input.

## Not modelled

- Reading and validating configuration files and requests; a request that is
  refused changes nothing.
- How peers are authorised (a connection may be refused), the socket file and its
  directory, shutdown of the admin server and of the proxy.
- The proxy's traffic, HTTP details of a network check, the captive portal
  command itself, the tray's entry for the SOCKS proxy, which is handled as
  "Allow all" is.
- The commands' arguments, input and output, and the error with which they end
  when the server has gone.
- The length of the debounce interval: an update leaves a reconcile pending, and
  more updates leave it pending.
- An interface index that is used again within one debounce interval, and a link
  whose `Close` fails: the code keeps nothing that could tell, and what the
  kernel does is outside it.
- A cyclic wait in which the desktop client's request and the daemon's event
  wait for each other's full sockets: it takes a full socket of requests, which
  are sent at the pace of clicks.
- The bootstrap event log, generated code.

## Plan

1. Done: all modules above, their runs, and theorems for the safety properties
   of all of them.
2. Models that remain: shutdown of the daemon and of its sockets; composition of
   `AdminServer` with `UserSession`, so that the desktop client meets events in
   the order in which the server really sends them.
