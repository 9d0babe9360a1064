----------------------------- MODULE SystemTray -----------------------------
(***************************************************************************)
(* The tray of killswitch-user: the state it was last given, its menu, and *)
(* the commands that clicks put into a queue.  The sessions of UserSession *)
(* give it states and take its commands; it outlives them.                 *)
(*                                                                         *)
(* The desktop calls onReady once, whenever it is ready, in a goroutine of *)
(* its own; from then on updates go to the menu.  Both apply a state after *)
(* they have given the tray's lock back.  An update and its apply are one  *)
(* step: the main loop makes one after the other, and onReady's apply      *)
(* before or after both is all that can come of an interleaving.           *)
(***************************************************************************)
EXTENDS Naturals, Sequences

CONSTANTS
    Ifaces,         \* interfaces that may be attached
    Statuses,       \* outcomes of a network check that the world may cause
    TrayEnabled,    \* the option; without it there is a noopTray
    ChecksEnabled,  \* the option network_check.enabled
    TrayQueue       \* capacity of trayCommands

ASSUME StatusesAssumption == Statuses \subseteq {"internet", "nointernet", "login"}
ASSUME TrayAssumption ==
    TrayEnabled \in BOOLEAN /\ ChecksEnabled \in BOOLEAN /\ TrayQueue \in Nat \ {0}

VARIABLES
    tray,           \* systemTray.last
    menu,           \* the menu and the progress of onReady
    commands        \* the channel trayCommands

trayVars == <<tray, menu, commands>>

(* The daemon's configuration: base_policy.allow_all, the attached         *)
(* interfaces, and those on which the one ruleset that there is is forced. *)
Config == [allow : BOOLEAN, ifs : SUBSET Ifaces, forced : SUBSET Ifaces]

(* What the tray shows: the configuration and the network status, of which *)
(* "login" also shows the entry "Open login page".                         *)
TrayState == [cfg : Config, net : {"none", "checking"} \cup Statuses]

(* The state before the first update, for a missing last state, too. *)
NoTray == [cfg |-> [allow |-> FALSE, ifs |-> {}, forced |-> {}], net |-> "none"]

Commands == ({"allow", "disallow", "open"} \X {"all"}) \cup ({"force", "unforce"} \X Ifaces)

(* onReady is to be called, has taken the last state or has applied it;    *)
(* shown is empty until the menu is built; late says, for the properties,  *)
(* that onReady's apply came after that of a newer state.                  *)
NoMenu == [onReady |-> "todo", took |-> NoTray, shown |-> <<>>, late |-> FALSE]

TrayInit ==
    /\ tray = NoTray
    /\ menu = NoMenu
    /\ commands = <<>>

-----------------------------------------------------------------------------
(* What the main loop does with the tray. *)

(* The states that Update and UpdateNetwork make: each keeps the other's   *)
(* part.                                                                   *)
WithConfig(c) == [tray EXCEPT !.cfg = c]
WithNetwork(status) == [tray EXCEPT !.net = status]

(* Faulty: a session leaves the network status as it is.  (Faulty variants *)
(* are slips that a property must catch; no action uses them.)             *)
FirstUpdateOfConfig(c) == [cfg |-> c, net |-> tray.net]

(* Both, at the beginning of a session. *)
FirstUpdate(c) == [cfg |-> c, net |-> IF ChecksEnabled THEN "checking" ELSE tray.net]

(* apply: there is nothing to do before onReady has run or if the state is *)
(* not new.                                                                *)
apply(state) ==
    menu' = IF menu.onReady = "todo" \/ state = tray THEN menu
            ELSE [menu EXCEPT !.shown = <<state>>, !.late = FALSE]

Update(state) ==
    IF TrayEnabled THEN tray' = state /\ apply(state) ELSE UNCHANGED <<tray, menu>>

-----------------------------------------------------------------------------
(* What the desktop and the user do. *)

(* Faulty: onReady does not look for a state. *)
onReadyEmpty ==
    /\ TrayEnabled
    /\ menu.onReady = "todo"
    /\ menu' = [menu EXCEPT !.onReady = "taken"]
    /\ UNCHANGED <<tray, commands>>

(* The state that onReady takes is the last one, or the empty one. *)
onReady ==
    /\ TrayEnabled
    /\ menu.onReady = "todo"
    /\ menu' = [menu EXCEPT !.onReady = "taken", !.took = tray]
    /\ UNCHANGED <<tray, commands>>

onReadyApplies ==
    /\ menu.onReady = "taken"
    /\ menu' = [onReady |-> "done", took |-> NoTray, shown |-> <<menu.took>>,
                late |-> menu.shown # <<>> /\ menu.took # tray]
    /\ UNCHANGED <<tray, commands>>

(* The commands of a menu that shows the given state: "Allow all" and each *)
(* interface's ruleset toggle what the tray's last state says, "Open login *)
(* page" does nothing if there is none any more.  (The SOCKS proxy's entry *)
(* is handled as "Allow all" is, and left out.)                            *)
Entries(shown) ==
    {<<IF tray.cfg.allow THEN "disallow" ELSE "allow", "all">>}
    \cup {<<IF i \in tray.cfg.forced THEN "unforce" ELSE "force", i>> : i \in shown.cfg.ifs}
    \cup (IF shown.net = "login" /\ tray.net = "login" THEN {<<"open", "all">>} ELSE {})

(* A click in the menu, once it is built.  A full queue drops the command. *)
Click ==
    /\ menu.shown # <<>>
    /\ \E cmd \in Entries(menu.shown[1]) :
          commands' = IF Len(commands) < TrayQueue THEN Append(commands, cmd) ELSE commands
    /\ UNCHANGED <<tray, menu>>

-----------------------------------------------------------------------------
(* The variables keep their types, the queue its capacity. *)
TrayTypeOK ==
    /\ tray \in TrayState
    /\ menu.onReady \in {"todo", "taken", "done"}
    /\ menu.took \in TrayState
    /\ Len(menu.shown) <= 1 /\ \A i \in DOMAIN menu.shown : menu.shown[i] \in TrayState
    /\ menu.late \in BOOLEAN
    /\ Len(commands) <= TrayQueue /\ \A i \in DOMAIN commands : commands[i] \in Commands

(* The menu shows the tray's state, whenever onReady builds it, unless an  *)
(* update overtook onReady between its taking the last state and applying  *)
(* it; the next change of the state makes up for that (tray.go: onReady,   *)
(* Update, UpdateNetwork, apply).                                          *)
MenuIsCurrent ==
    menu.onReady = "done" /\ ~menu.late => menu.shown = <<tray>>
=============================================================================
