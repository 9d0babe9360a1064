----------------------------- MODULE SocksProxy -----------------------------
(***************************************************************************)
(* The life of the local SOCKS proxy: socks_proxy.go, its callback in      *)
(* main.go and applySocksProxyMutation.                                    *)
(*                                                                         *)
(* Goroutines start and stop the proxy concurrently: main at startup, one  *)
(* per admin connection, and the accept loop of each listener, which stops *)
(* the proxy when Accept fails.  The manager's mutex is held for single    *)
(* steps only; listening, closing and reporting happen outside it, with a  *)
(* state that was copied inside.                                           *)
(*                                                                         *)
(* A report sets policyManager.socksProxy, which decides whether the       *)
(* proxy's mark is allowed (PolicyManager!setSocksProxyState).             *)
(***************************************************************************)
EXTENDS Naturals

CONSTANTS
    Clients,    \* admin connections
    Listeners,  \* identities of listeners, reused once nothing refers to them
    Enabled,    \* socks_proxy.enabled in the configuration
    Protected   \* socks_proxy.protected names users or groups

ASSUME EnabledAssumption == Enabled \in BOOLEAN /\ Protected \in BOOLEAN
ASSUME GoroutinesAssumption == "main" \notin Clients \cup Listeners /\ Clients \cap Listeners = {}

VARIABLES
    state,      \* socksProxyManager.state
    listener,   \* socksProxyManager.listener, a set of at most one
    bound,      \* the listeners that are open
    leaked,     \* the listeners that a failed start left open (for the properties only)
    reported,   \* policyManager.socksProxy
    proc        \* the goroutines

vars == <<state, listener, bound, leaked, reported, proc>>

(* The accept loop of a listener goes by the listener's name. *)
Procs == {"main"} \cup Clients \cup Listeners

(* LastError is empty, or says which step has failed: "listen socks        *)
(* proxy" and "protect socks proxy listener", or "socks proxy accept".     *)
Errors == {"none", "start", "accept"}

State == [enabled : BOOLEAN, running : BOOLEAN, error : Errors]

Steps == {"idle", "start", "listen", "install", "startError", "stop", "accept",
          "stopWithError", "close", "emit", "report"}

(* pc, the copied state, and the listeners the goroutine has in hand. *)
Proc == [pc : Steps, saved : State, held : SUBSET Listeners]

Off == [enabled |-> FALSE, running |-> FALSE, error |-> "none"]

At(p, step) == proc[p].pc = step

(* Goroutine p goes on; what it will report is the state of this moment. *)
Go(p, step, held) ==
    proc' = [proc EXCEPT ![p] = [pc |-> step, held |-> held,
                                 saved |-> IF step \in {"close", "emit"} THEN state' ELSE Off]]

(* newSocksProxyManager, and main about to start the proxy if configured.  *)
FirstState == [Off EXCEPT !.enabled = Enabled]
FirstProcs ==
    [p \in Procs |-> [pc |-> IF p = "main" /\ Enabled THEN "start" ELSE "idle",
                      saved |-> Off, held |-> {}]]

Init ==
    /\ state = FirstState
    /\ reported = FirstState
    /\ listener = {}
    /\ bound = {}
    /\ leaked = {}
    /\ proc = FirstProcs

(* A client's mutation.  The admin socket opens after main is done. *)
Call(p, op) ==
    /\ At("main", "idle")
    /\ At(p, "idle")
    /\ UNCHANGED <<state, listener, bound, leaked, reported>>
    /\ Go(p, op, {})

-----------------------------------------------------------------------------
(* start. *)

startLock(p) ==
    /\ At(p, "start")
    /\ \/ /\ state.running
          /\ state' = [state EXCEPT !.enabled = TRUE]
          /\ Go(p, "emit", {})
       \/ /\ ~state.running
          /\ state' = [state EXCEPT !.enabled = TRUE, !.error = "none"]
          /\ Go(p, "listen", {})
    /\ UNCHANGED <<listener, bound, leaked, reported>>

(* The port belongs to one listener at a time. *)
Fresh(l) == l \notin bound \cup listener /\ At(l, "idle") /\ \A p \in Procs : l \notin proc[p].held

(* Faulty: the port is shared.  (Faulty variants are slips that a property *)
(* must catch; no action uses them.)                                       *)
ListenShared(p) ==
    /\ At(p, "listen")
    /\ UNCHANGED <<state, listener, leaked, reported>>
    /\ \E l \in Listeners :
          /\ Fresh(l)
          /\ bound' = bound \cup {l}
          /\ Go(p, "install", {l})

Listen(p) ==
    /\ At(p, "listen")
    /\ bound = {}
    /\ UNCHANGED <<state, listener, leaked, reported>>
    /\ \E l \in Listeners :
          /\ Fresh(l)
          /\ bound' = {l}
          /\ Go(p, "install", {l})

(* The port is taken, by us or by another program. *)
ListenFails(p) ==
    /\ At(p, "listen")
    /\ UNCHANGED <<state, listener, bound, leaked, reported>>
    /\ Go(p, "startError", {})

(* The port is open, but protectedSocksProxyListener fails.  Its result    *)
(* replaces the open listener before Close is called; what the library     *)
(* returns beside an error may close the open one, or leave it to nobody.  *)
ProtectFails(p) ==
    /\ At(p, "listen")
    /\ Protected
    /\ bound = {}
    /\ \/ UNCHANGED <<bound, leaked>>
       \/ \E l \in Listeners :
             /\ Fresh(l)
             /\ bound' = {l}
             /\ leaked' = {l}
    /\ UNCHANGED <<state, listener, reported>>
    /\ Go(p, "startError", {})

(* It may also be nil: Close panics, the process ends with everything it   *)
(* has open, and is started anew (flake.nix:97).                           *)
ProtectPanics(p) ==
    /\ At(p, "listen")
    /\ Protected
    /\ bound = {}
    /\ state' = FirstState
    /\ reported' = FirstState
    /\ listener' = {}
    /\ bound' = {}
    /\ leaked' = {}
    /\ proc' = FirstProcs

install(p) ==
    /\ At(p, "install")
    /\ listener' = proc[p].held
    /\ state' = [state EXCEPT !.running = TRUE, !.error = "none"]
    /\ Go(p, "emit", proc[p].held)
    /\ UNCHANGED <<bound, leaked, reported>>

setStartError(p) ==
    /\ At(p, "startError")
    /\ state' = [state EXCEPT !.running = FALSE, !.error = "start"]
    /\ Go(p, "emit", {})
    /\ UNCHANGED <<listener, bound, leaked, reported>>

-----------------------------------------------------------------------------
(* stop and stopWithError take the manager's listener, whoever installed   *)
(* it, and close it after unlocking.                                       *)

Take(p, next) ==
    /\ state' = next
    /\ listener' = {}
    /\ Go(p, "close", listener)
    /\ UNCHANGED <<bound, leaked, reported>>

stop(p) == At(p, "stop") /\ Take(p, Off)

stopWithError(p) ==
    At(p, "stopWithError") /\ Take(p, [state EXCEPT !.running = FALSE, !.error = "accept"])

(* Faulty: the listener is forgotten but stays open. *)
closeNothing(p) ==
    /\ At(p, "close")
    /\ proc' = [proc EXCEPT ![p].pc = "emit", ![p].held = {}]
    /\ UNCHANGED <<state, listener, bound, leaked, reported>>

close(p) ==
    /\ At(p, "close")
    /\ bound' = bound \ proc[p].held
    /\ proc' = [proc EXCEPT ![p].pc = "emit", ![p].held = {}]
    /\ UNCHANGED <<state, listener, leaked, reported>>

-----------------------------------------------------------------------------
(* Reporting.  The callback takes reconcileMu and sets the copied state,   *)
(* however old it is.  A start then runs the accept loop of its listener;  *)
(* a mutation then reports the state of that moment once more.             *)

emit(p) ==
    /\ At(p, "emit")
    /\ reported' = proc[p].saved
    /\ proc' = [q \in Procs |->
          IF q = p THEN [proc[p] EXCEPT !.pc = IF p \in Clients THEN "report" ELSE "idle",
                                        !.saved = Off, !.held = {}]
          ELSE IF q \in proc[p].held THEN [proc[q] EXCEPT !.pc = "accept"]
          ELSE proc[q]]
    /\ UNCHANGED <<state, listener, bound, leaked>>

(* Faulty: the mutation relies on the callback alone. *)
noSecondReport(p) ==
    /\ At(p, "report")
    /\ UNCHANGED <<state, listener, bound, leaked, reported>>
    /\ Go(p, "idle", {})

applySocksProxyMutation(p) ==
    /\ At(p, "report")
    /\ reported' = state
    /\ UNCHANGED <<state, listener, bound, leaked>>
    /\ Go(p, "idle", {})

-----------------------------------------------------------------------------
(* serve. *)

AcceptFails(l) ==
    /\ At(l, "accept")
    /\ l \in bound
    /\ UNCHANGED <<state, listener, bound, leaked, reported>>
    /\ Go(l, "stopWithError", {})

(* The listener was closed. *)
ServeReturns(l) ==
    /\ At(l, "accept")
    /\ l \notin bound
    /\ UNCHANGED <<state, listener, bound, leaked, reported>>
    /\ Go(l, "idle", {})

Step(p) ==
    \/ startLock(p)
    \/ Listen(p)
    \/ ListenFails(p)
    \/ ProtectFails(p)
    \/ ProtectPanics(p)
    \/ install(p)
    \/ setStartError(p)
    \/ stop(p)
    \/ stopWithError(p)
    \/ close(p)
    \/ emit(p)
    \/ applySocksProxyMutation(p)

Next ==
    \/ \E p \in Clients, op \in {"start", "stop"} : Call(p, op)
    \/ \E p \in Procs : Step(p)
    \/ \E l \in Listeners : AcceptFails(l) \/ ServeReturns(l)

Spec == Init /\ [][Next]_vars

-----------------------------------------------------------------------------
(* Properties. *)

(* The variables keep their types, and the port has one listener. *)
TypeOK ==
    /\ state \in State
    /\ listener \in SUBSET Listeners
    /\ bound \in SUBSET Listeners
    /\ leaked \in SUBSET Listeners
    /\ \A l, k \in bound : l = k
    /\ reported \in State
    /\ proc \in [Procs -> Proc]

(* Nobody is starting, stopping or reporting. *)
Quiet == \A p \in Procs : proc[p].pc \in {"idle", "accept"}

Serving(l) == l \in bound /\ At(l, "accept")

(* An open listener is always in somebody's hands: the manager's, where a  *)
(* stop finds it, or those of a goroutine that will install or close it.   *)
(* However starts, stops and accept errors interleave, no stop leaves a    *)
(* port open that no later stop can close.  One start may: the one whose   *)
(* protection failed (socks_proxy.go:210-216).                             *)
NoOrphanListener ==
    \A l \in bound \ leaked : l \in listener \/ \E p \in Procs : l \in proc[p].held

(* Once all calls are over, the policies believe in a running proxy only   *)
(* if there is one that accepts connections: its mark is not allowed       *)
(* without need, although reports may arrive in any order and a failed     *)
(* start may leave its port open.                                          *)
ReportedIsServing ==
    Quiet /\ reported.running => \E l \in listener : Serving(l)

(* The manager believes that nothing runs, for a start has failed: while   *)
(* another one succeeded, setStartError cleared Running without a look at  *)
(* the listener.                                                           *)
StartFailed == ~state.running /\ state.error = "start"

(* The accept error of an earlier listener was reported last, after the    *)
(* reports of the start that followed it (stopWithError closes and reports *)
(* after it has released the lock, and nothing reports after it).          *)
LateAcceptError == state.running /\ reported.error = "accept"

(* The mark of a proxy that accepts connections is allowed (README.md:     *)
(* "automatically merged into `allowed_marks` while the proxy is           *)
(* running") once all calls are over, with these two exceptions.           *)
ServingIsReported ==
    Quiet /\ (\E l \in Listeners : Serving(l)) =>
        reported.running \/ StartFailed \/ LateAcceptError
=============================================================================
