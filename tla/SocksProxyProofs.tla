-------------------------- MODULE SocksProxyProofs --------------------------
(***************************************************************************)
(* The SOCKS proxy manager's goroutines, for any number of clients and     *)
(* listeners and any interleaving of starts, stops and accept errors.      *)
(***************************************************************************)
EXTENDS SocksProxy, TLAPS

Callers == Clients \cup {"main"}

(* Where a goroutine has a listener in hand. *)
HoldSteps == {"install", "emit", "close"}

(* A caller on its way to a report of what it did. *)
CallSteps == {"listen", "startError", "install", "close", "emit", "report"}

(* Where the goroutines may be, and with what:                             *)
(*  - a goroutine holds a listener from Listen to its report, or from a    *)
(*    stop to its close;                                                   *)
(*  - an accept loop only ever stops the proxy, with an error;             *)
(*  - while main starts the proxy nobody else does anything, so that what  *)
(*    it reports is the manager's state.                                   *)
Phases ==
    /\ \A p \in Procs : proc[p].held # {} => proc[p].pc \in HoldSteps
    /\ \A p \in Procs : At(p, "install") => proc[p].held # {}
    /\ \A l \in Listeners :
          /\ proc[l].pc \in {"idle", "accept", "stopWithError", "close", "emit"}
          /\ At(l, "emit") => proc[l].held = {}
          /\ proc[l].pc \in {"close", "emit"} =>
                proc[l].saved.error = "accept" /\ ~proc[l].saved.running
    /\ At("main", "idle") \/ \A p \in Procs \ {"main"} : At(p, "idle")
    /\ proc["main"].pc \in {"idle", "start", "listen", "install", "startError", "emit"}
    /\ At("main", "emit") => proc["main"].saved = state

(* The manager's listener is open. *)
ManagersIsOpen == listener \subseteq bound

(* One that is to be installed is open, and not the manager's yet. *)
ToInstall == \A p \in Procs : At(p, "install") => proc[p].held \subseteq bound \ listener

(* One that is to be closed is not the manager's any more. *)
ToClose == \A p \in Procs : At(p, "close") => proc[p].held \cap listener = {}

(* The accept loop waits for the report of the start. *)
LoopWaits ==
    \A p \in Procs : proc[p].pc \in {"install", "emit"} => \A l \in proc[p].held : At(l, "idle")

(* What one goroutine is to install, no other has in hand; what one is to  *)
(* report the start of, no other is.                                       *)
OneStarter ==
    \A p, q \in Procs :
        /\ p # q
        /\ proc[p].pc \in {"install", "emit"}
        /\ proc[q].pc \in {"install", "emit"} \/ At(p, "install")
        => proc[p].held \cap proc[q].held = {}

(* An open listener is the manager's, to be installed or to be closed, or  *)
(* was left open by a failed start.                                        *)
Owned ==
    \A l \in bound \ leaked :
        l \in listener \/ \E p \in Procs : proc[p].pc \in {"install", "close"} /\ l \in proc[p].held

(* One that was left open is nobody's, and nobody will serve it. *)
LeakedIsLost ==
    \A l \in leaked :
        /\ l \in bound \ listener
        /\ At(l, "idle")
        /\ \A p \in Procs : l \notin proc[p].held

Hands == ManagersIsOpen /\ ToInstall /\ ToClose /\ LoopWaits /\ OneStarter /\ Owned /\ LeakedIsLost

(* The manager's listener is served, or will be after a report. *)
Served ==
    \A l \in listener :
        \/ proc[l].pc \in {"accept", "stopWithError"}
        \/ \E p \in Procs : At(p, "emit") /\ l \in proc[p].held

(* A start that failed has set the error, or is about to. *)
StateOfListener ==
    /\ state.running => listener # {}
    /\ listener # {} =>
          state.running \/ state.error = "start" \/ \E p \in Procs : proc[p].pc \in {"listen", "startError"}

(* A report that is out of date is not the last one. *)
ReportsToCome ==
    /\ reported.running =>
          \/ state.running
          \/ \E p \in Clients : proc[p].pc \in {"close", "emit", "report"}
          \/ \E p \in Procs : proc[p].pc \in {"close", "emit"} /\ ~proc[p].saved.running
    /\ listener # {} =>
          \/ reported.running
          \/ ~state.running /\ state.error = "start"
          \/ state.running /\ reported.error = "accept"
          \/ \E p \in Callers : proc[p].pc \in CallSteps

ProxyInv == TypeOK /\ Phases /\ Hands /\ Served /\ StateOfListener /\ ReportsToCome

-----------------------------------------------------------------------------
(* What a step does to the goroutines. *)

(* Only goroutine p moves, to a step with listeners in hand. *)
Moved(p, step, held) ==
    /\ proc' \in [Procs -> Proc]
    /\ proc'[p].pc = step
    /\ proc'[p].held = held
    /\ \A q \in Procs \ {p} : proc'[q] = proc[q]

(* Go moves one goroutine, which keeps the state of this moment if it is   *)
(* going to report it.                                                     *)
LEMMA GoMoves ==
    ASSUME TypeOK, state' \in State, NEW p \in Procs, NEW step \in Steps,
           NEW held \in SUBSET Listeners, Go(p, step, held)
    PROVE  /\ Moved(p, step, held)
           /\ step \in {"close", "emit"} => proc'[p].saved = state'
<1>1. Off \in State
  BY DEF Off, State, Errors
<1>2. [pc |-> step, held |-> held,
       saved |-> IF step \in {"close", "emit"} THEN state' ELSE Off] \in Proc
  BY <1>1 DEF Proc
<1>. QED
  BY <1>2 DEF Go, TypeOK, Moved

(* The names of goroutines. *)
LEMMA Names ==
    /\ "main" \in Procs
    /\ Clients \subseteq Procs
    /\ Listeners \subseteq Procs
    /\ Callers \subseteq Procs
    /\ \A p \in Procs : p \in Callers \/ p \in Listeners
    /\ \A p \in Listeners : p \notin Callers /\ p # "main" /\ p \notin Clients
    /\ "main" \notin Clients
    /\ \A p \in Callers : p \in Clients \/ p = "main"
  BY GoroutinesAssumption DEF Procs, Callers

(* A goroutine that goes on with nothing in hand disturbs nobody. *)
LEMMA EmptyHands ==
    ASSUME ProxyInv, NEW p \in Procs, NEW step \in Steps \ {"install"}, Moved(p, step, {}),
           proc[p].held = {}, ~At(p, "install"), p \in Listeners => ~At(p, "idle"),
           UNCHANGED <<listener, bound, leaked>>
    PROVE  Hands'
<1>1. ManagersIsOpen' /\ ToInstall' /\ ToClose'
  BY DEF ProxyInv, Hands, ManagersIsOpen, ToInstall, ToClose, Moved, At
<1>2. LoopWaits'
  BY Names DEF ProxyInv, TypeOK, Proc, Hands, LoopWaits, Moved, At
<1>3. OneStarter'
  BY DEF ProxyInv, Hands, OneStarter, Moved, At
<1>4. Owned'
  BY DEF ProxyInv, Hands, Owned, Moved, At
<1>5. LeakedIsLost'
  BY Names DEF ProxyInv, TypeOK, Hands, LeakedIsLost, Moved, At
<1>. QED
  BY <1>1, <1>2, <1>3, <1>4, <1>5 DEF Hands

-----------------------------------------------------------------------------
(* The invariant holds at first and through each action. *)

LEMMA InitInv == Init => ProxyInv
<1>. SUFFICES ASSUME Init PROVE ProxyInv
  OBVIOUS
<1>1. Off \in State /\ state \in State /\ ~state.running
  BY EnabledAssumption DEF Init, FirstState, Off, State, Errors
<1>2. \A p \in Procs : /\ proc[p].held = {}
                       /\ p # "main" => At(p, "idle")
                       /\ proc[p].pc \in {"start", "idle"}
  BY EnabledAssumption DEF Init, FirstProcs, At
<1>3. TypeOK
  BY <1>1 DEF Init, FirstState, FirstProcs, TypeOK, Proc, Steps
<1>4. Phases
  BY <1>2, Names DEF Phases, At
<1>5. Hands /\ Served /\ StateOfListener /\ ReportsToCome
  BY <1>1, <1>2 DEF Init, FirstState, Hands, ManagersIsOpen, ToInstall, ToClose, LoopWaits,
        OneStarter, Owned, LeakedIsLost, Served, StateOfListener, ReportsToCome, At
<1>. QED
  BY <1>3, <1>4, <1>5 DEF ProxyInv

LEMMA CallKeeps ==
    ASSUME ProxyInv, NEW p \in Clients, NEW op \in {"start", "stop"}, Call(p, op)
    PROVE  ProxyInv'
<1>1. Moved(p, op, {}) /\ p \in Procs /\ p \notin Listeners /\ p # "main"
  BY GoMoves, Names DEF ProxyInv, TypeOK, Call, Steps
<1>2. At(p, "idle") /\ proc[p].held = {}
  BY <1>1 DEF Call, ProxyInv, Phases, At, HoldSteps
<1>3. TypeOK'
  BY <1>1 DEF ProxyInv, TypeOK, Call, Moved
<1>4. Phases'
  BY <1>1, Names DEF ProxyInv, Phases, Call, Moved, At
<1>5. Hands'
  BY <1>1, <1>2, EmptyHands DEF Call, Steps, At
<1>6. Served'
  BY <1>1, Names DEF ProxyInv, TypeOK, Phases, Served, Call, Moved, At
<1>7. StateOfListener' /\ ReportsToCome'
  BY <1>1, Names DEF ProxyInv, StateOfListener, ReportsToCome, Call, Moved, At, CallSteps
<1>. QED
  BY <1>3, <1>4, <1>5, <1>6, <1>7 DEF ProxyInv

LEMMA StartLockKeeps ==
    ASSUME ProxyInv, NEW p \in Procs, startLock(p)
    PROVE  ProxyInv'
<1>1. PICK step \in {"emit", "listen"} :
        /\ Go(p, step, {})
        /\ step = "emit" => state.running /\ state' = [state EXCEPT !.enabled = TRUE]
        /\ step = "listen" => ~state.running /\ state' = [state EXCEPT !.enabled = TRUE, !.error = "none"]
  BY DEF startLock
<1>2. /\ state' \in State
      /\ state'.running <=> state.running
      /\ state.running => state'.error = state.error
      /\ ~state.running => step = "listen"
  BY <1>1 DEF ProxyInv, TypeOK, State, Errors
<1>3. /\ Moved(p, step, {})
      /\ step = "emit" => proc'[p].saved = state'
  BY <1>1, <1>2, GoMoves DEF ProxyInv, Steps
<1>4. p \in Callers /\ p \notin Listeners /\ (p # "main" => At("main", "idle"))
  BY Names DEF startLock, ProxyInv, Phases, At
<1>5. UNCHANGED <<listener, bound, leaked, reported>> /\ At(p, "start") /\ proc[p].held = {}
  BY DEF startLock, ProxyInv, Phases, HoldSteps, At
<1>6. TypeOK'
  BY <1>2, <1>3, <1>5 DEF ProxyInv, TypeOK, Moved
<1>7. Phases'
  BY <1>2, <1>3, <1>4, <1>5, Names DEF ProxyInv, Phases, Moved, At, HoldSteps
<1>8. Hands'
  BY <1>3, <1>4, <1>5, EmptyHands DEF Steps, At
<1>9. Served'
  BY <1>3, <1>4, <1>5, Names DEF ProxyInv, TypeOK, Phases, Served, Moved, At
<1>10. StateOfListener'
  BY <1>2, <1>3, <1>5 DEF ProxyInv, StateOfListener, Moved, At
<1>11. ReportsToCome'
  BY <1>2, <1>3, <1>4, <1>5, Names DEF ProxyInv, ReportsToCome, Moved, At, CallSteps
<1>. QED
  BY <1>6, <1>7, <1>8, <1>9, <1>10, <1>11 DEF ProxyInv

LEMMA ListenKeeps ==
    ASSUME ProxyInv, NEW p \in Procs, Listen(p)
    PROVE  ProxyInv'
<1>1. PICK l \in Listeners : Fresh(l) /\ bound' = {l} /\ Go(p, "install", {l})
  BY DEF Listen
<1>2. Moved(p, "install", {l})
  BY <1>1, GoMoves DEF ProxyInv, TypeOK, Steps, Listen
<1>3. p \in Callers /\ p \notin Listeners /\ (p # "main" => At("main", "idle"))
  BY Names DEF Listen, ProxyInv, Phases, At
<1>4. /\ UNCHANGED <<state, listener, leaked, reported>>
      /\ At(p, "listen")
      /\ bound = {} /\ listener = {}
      /\ \A q \in Procs : ~At(q, "install")
  BY DEF Listen, ProxyInv, Phases, Hands, ManagersIsOpen, ToInstall, At
<1>5. TypeOK'
  BY <1>1, <1>2, <1>4 DEF ProxyInv, TypeOK, Moved
<1>6. Phases'
  BY <1>2, <1>3, <1>4, Names DEF ProxyInv, Phases, Moved, At, HoldSteps
<1>7. Hands'
  <2>1. ManagersIsOpen' /\ ToInstall' /\ ToClose'
    BY <1>1, <1>2, <1>4 DEF ManagersIsOpen, ToInstall, ToClose, Moved, At
  <2>2. LoopWaits'
    BY <1>1, <1>2, <1>3, <1>4, Names DEF ProxyInv, TypeOK, Proc, Hands, LoopWaits, Fresh, Moved, At
  <2>3. OneStarter'
    BY <1>1, <1>2, <1>4 DEF ProxyInv, Hands, OneStarter, Fresh, Moved, At
  <2>4. Owned'
    BY <1>1, <1>2 DEF Owned, Moved
  <2>5. LeakedIsLost'
    BY <1>4 DEF ProxyInv, Hands, LeakedIsLost
  <2>. QED
    BY <2>1, <2>2, <2>3, <2>4, <2>5 DEF Hands
<1>8. Served' /\ StateOfListener'
  BY <1>4 DEF ProxyInv, StateOfListener, Served
<1>9. ReportsToCome'
  BY <1>2, <1>4, Names DEF ProxyInv, ReportsToCome, Moved, At
<1>. QED
  BY <1>5, <1>6, <1>7, <1>8, <1>9 DEF ProxyInv

LEMMA ListenFailsKeeps ==
    ASSUME ProxyInv, NEW p \in Procs, ListenFails(p)
    PROVE  ProxyInv'
<1>1. Moved(p, "startError", {})
  BY GoMoves DEF ProxyInv, TypeOK, Steps, ListenFails
<1>2. p \in Callers /\ p \notin Listeners /\ (p # "main" => At("main", "idle"))
  BY Names DEF ListenFails, ProxyInv, Phases, At
<1>3. UNCHANGED <<state, listener, bound, leaked, reported>> /\ At(p, "listen") /\ proc[p].held = {}
  BY DEF ListenFails, ProxyInv, Phases, HoldSteps, At
<1>4. TypeOK'
  BY <1>1, <1>3 DEF ProxyInv, TypeOK, Moved
<1>5. Phases'
  BY <1>1, <1>2, <1>3, Names DEF ProxyInv, Phases, Moved, At, HoldSteps
<1>6. Hands'
  BY <1>1, <1>2, <1>3, EmptyHands DEF Steps, At
<1>7. Served'
  BY <1>1, <1>2, <1>3, Names DEF ProxyInv, TypeOK, Phases, Served, Moved, At
<1>8. StateOfListener' /\ ReportsToCome'
  BY <1>1, <1>2, <1>3, Names DEF ProxyInv, StateOfListener, ReportsToCome, Moved, At, CallSteps
<1>. QED
  BY <1>4, <1>5, <1>6, <1>7, <1>8 DEF ProxyInv

(* A start whose protection fails leaves its listener to nobody. *)
LEMMA ProtectFailsKeeps ==
    ASSUME ProxyInv, NEW p \in Procs, ProtectFails(p)
    PROVE  ProxyInv'
<1>1. Moved(p, "startError", {})
  BY GoMoves DEF ProxyInv, TypeOK, Steps, ProtectFails
<1>2. p \in Callers /\ p \notin Listeners /\ (p # "main" => At("main", "idle"))
  BY Names DEF ProtectFails, ProxyInv, Phases, At
<1>3. /\ UNCHANGED <<state, listener, reported>>
      /\ At(p, "listen") /\ proc[p].held = {}
      /\ bound = {} /\ listener = {}
      /\ \A q \in Procs : ~At(q, "install")
  BY DEF ProtectFails, ProxyInv, Phases, HoldSteps, Hands, ManagersIsOpen, ToInstall, At
<1>4. \/ UNCHANGED <<bound, leaked>>
      \/ \E l \in Listeners : Fresh(l) /\ bound' = {l} /\ leaked' = {l}
  BY DEF ProtectFails
<1>5. TypeOK'
  BY <1>1, <1>3, <1>4 DEF ProxyInv, TypeOK, Moved
<1>6. Phases'
  BY <1>1, <1>2, <1>3, Names DEF ProxyInv, Phases, Moved, At, HoldSteps
<1>7. Hands'
  <2>1. ManagersIsOpen' /\ ToInstall' /\ ToClose'
    BY <1>1, <1>3 DEF ManagersIsOpen, ToInstall, ToClose, Moved, At
  <2>2. LoopWaits'
    <3>1. SUFFICES ASSUME NEW q \in Procs, proc'[q].pc \in {"install", "emit"},
                          NEW l \in proc'[q].held
                   PROVE  At(l, "idle")'
      BY DEF LoopWaits
    <3>2. q # p /\ proc'[q] = proc[q]
      BY <1>1, <3>1 DEF Moved
    <3>3. l \in Procs /\ At(l, "idle")
      BY <3>1, <3>2, Names DEF ProxyInv, TypeOK, Proc, Hands, LoopWaits
    <3>4. l # p
      BY <1>3, <3>3 DEF At
    <3>. QED
      BY <1>1, <3>3, <3>4 DEF Moved, At
  <2>3. OneStarter'
    BY <1>1, <1>2, <1>3 DEF ProxyInv, Hands, OneStarter, Moved, At
  <2>4. Owned'
    BY <1>3, <1>4 DEF Owned
  <2>5. LeakedIsLost'
    BY <1>1, <1>2, <1>3, <1>4, Names DEF ProxyInv, TypeOK, Hands, LeakedIsLost, Fresh, Moved, At
  <2>. QED
    BY <2>1, <2>2, <2>3, <2>4, <2>5 DEF Hands
<1>8. Served' /\ StateOfListener'
  BY <1>3 DEF ProxyInv, StateOfListener, Served
<1>9. ReportsToCome'
  BY <1>1, <1>3, Names DEF ProxyInv, ReportsToCome, Moved, At
<1>. QED
  BY <1>5, <1>6, <1>7, <1>8, <1>9 DEF ProxyInv

(* A process that was started anew is as at first. *)
LEMMA ProtectPanicsKeeps ==
    ASSUME NEW p \in Procs, ProtectPanics(p)
    PROVE  ProxyInv'
<1>1. Init'
  BY DEF ProtectPanics, Init
<1>2. Init' => ProxyInv'
  BY InitInv, PTL
<1>. QED
  BY <1>1, <1>2

LEMMA InstallKeeps ==
    ASSUME ProxyInv, NEW p \in Procs, install(p)
    PROVE  ProxyInv'
<1>1. /\ state' \in State /\ state'.running
      /\ proc[p].held \in SUBSET Listeners
  BY DEF install, ProxyInv, TypeOK, State, Errors, Proc
<1>2. Moved(p, "emit", proc[p].held) /\ proc'[p].saved = state'
  BY <1>1, GoMoves DEF ProxyInv, Steps, install
<1>3. p \in Callers /\ p \notin Listeners /\ (p # "main" => At("main", "idle"))
  BY Names DEF install, ProxyInv, Phases, At
<1>4. /\ UNCHANGED <<bound, leaked, reported>>
      /\ At(p, "install")
      /\ listener' = proc[p].held
  BY DEF install
<1>5. proc[p].held # {} /\ proc[p].held = bound
  BY <1>4 DEF ProxyInv, TypeOK, Phases, Hands, ToInstall
<1>6. TypeOK'
  BY <1>1, <1>2, <1>4 DEF ProxyInv, TypeOK, Moved
<1>7. Phases'
  BY <1>2, <1>3, <1>4, Names DEF ProxyInv, Phases, Moved, At, HoldSteps
<1>8. Hands'
  <2>1. ManagersIsOpen' /\ Owned'
    BY <1>4, <1>5 DEF ManagersIsOpen, Owned
  <2>2. ToInstall' /\ ToClose'
    BY <1>2, <1>4 DEF ProxyInv, Hands, OneStarter, ToInstall, ToClose, Moved, At
  <2>3. LoopWaits'
    BY <1>2, <1>3, <1>4, Names DEF ProxyInv, TypeOK, Proc, Hands, LoopWaits, Moved, At
  <2>4. OneStarter'
    BY <1>2, <1>4 DEF ProxyInv, Hands, OneStarter, Moved, At
  <2>5. LeakedIsLost'
    BY <1>2, <1>3, <1>4, Names DEF ProxyInv, TypeOK, Hands, LeakedIsLost, Moved, At
  <2>. QED
    BY <2>1, <2>2, <2>3, <2>4, <2>5 DEF Hands
<1>9. Served' /\ StateOfListener'
  BY <1>1, <1>2, <1>4, <1>5 DEF Served, StateOfListener, Moved, At
<1>10. ReportsToCome'
  BY <1>1, <1>2, <1>3 DEF ReportsToCome, CallSteps, Moved
<1>. QED
  BY <1>6, <1>7, <1>8, <1>9, <1>10 DEF ProxyInv

LEMMA SetStartErrorKeeps ==
    ASSUME ProxyInv, NEW p \in Procs, setStartError(p)
    PROVE  ProxyInv'
<1>1. state' \in State /\ ~state'.running /\ state'.error = "start"
  BY DEF setStartError, ProxyInv, TypeOK, State, Errors
<1>2. Moved(p, "emit", {}) /\ proc'[p].saved = state'
  BY <1>1, GoMoves DEF ProxyInv, Steps, setStartError
<1>3. p \in Callers /\ p \notin Listeners /\ (p # "main" => At("main", "idle"))
  BY Names DEF setStartError, ProxyInv, Phases, At
<1>4. UNCHANGED <<listener, bound, leaked, reported>> /\ At(p, "startError") /\ proc[p].held = {}
  BY DEF setStartError, ProxyInv, Phases, HoldSteps, At
<1>5. TypeOK'
  BY <1>1, <1>2, <1>4 DEF ProxyInv, TypeOK, Moved
<1>6. Phases'
  BY <1>2, <1>3, <1>4, Names DEF ProxyInv, Phases, Moved, At, HoldSteps
<1>7. Hands'
  BY <1>2, <1>3, <1>4, EmptyHands DEF Steps, At
<1>8. Served'
  BY <1>2, <1>3, <1>4, Names DEF ProxyInv, TypeOK, Phases, Served, Moved, At
<1>9. StateOfListener'
  BY <1>1 DEF StateOfListener
<1>10. ReportsToCome'
  BY <1>1, <1>2, <1>3 DEF ReportsToCome, CallSteps, Moved
<1>. QED
  BY <1>5, <1>6, <1>7, <1>8, <1>9, <1>10 DEF ProxyInv

(* stop and stopWithError. *)
LEMMA TakeKeeps ==
    ASSUME ProxyInv, NEW p \in Procs, NEW next \in State, ~next.running, Take(p, next),
           At(p, "stop") \/ At(p, "stopWithError"),
           p \in Clients \/ (p \in Listeners /\ next.error = "accept")
    PROVE  ProxyInv'
<1>1. /\ state' = next
      /\ listener' = {}
      /\ UNCHANGED <<bound, leaked, reported>>
  BY DEF Take
<1>2. Moved(p, "close", listener) /\ proc'[p].saved = next
  BY <1>1, GoMoves DEF ProxyInv, TypeOK, Steps, Take
<1>3. At("main", "idle") /\ p # "main"
  BY Names DEF ProxyInv, Phases, At
<1>4. TypeOK'
  BY <1>1, <1>2 DEF ProxyInv, TypeOK, Moved
<1>5. Phases'
  BY <1>1, <1>2, <1>3, Names DEF ProxyInv, Phases, Moved, At, HoldSteps
<1>6. Hands'
  <2>1. ManagersIsOpen' /\ ToInstall' /\ ToClose'
    BY <1>1, <1>2 DEF ProxyInv, Hands, ManagersIsOpen, ToInstall, ToClose, Moved, At
  <2>2. LoopWaits'
    BY <1>2, Names DEF ProxyInv, TypeOK, Proc, Hands, LoopWaits, Moved, At
  <2>3. OneStarter'
    BY <1>1, <1>2 DEF ProxyInv, Hands, OneStarter, ToInstall, Moved, At
  <2>4. Owned'
    BY <1>1, <1>2 DEF ProxyInv, Hands, Owned, Moved, At
  <2>5. LeakedIsLost'
    BY <1>1, <1>2, Names DEF ProxyInv, TypeOK, Hands, LeakedIsLost, Moved, At
  <2>. QED
    BY <2>1, <2>2, <2>3, <2>4, <2>5 DEF Hands
<1>7. Served' /\ StateOfListener'
  BY <1>1 DEF Served, StateOfListener
<1>8. ReportsToCome'
  BY <1>1, <1>2 DEF ReportsToCome, Moved
<1>. QED
  BY <1>4, <1>5, <1>6, <1>7, <1>8 DEF ProxyInv

LEMMA StopKeeps ==
    ASSUME ProxyInv, NEW p \in Procs, stop(p) \/ stopWithError(p)
    PROVE  ProxyInv'
<1>1. CASE stop(p)
  <2>1. Off \in State /\ ~Off.running
    BY DEF Off, State, Errors
  <2>2. At(p, "stop") /\ Take(p, Off)
    BY <1>1 DEF stop
  <2>3. p \in Clients
    BY <2>2, Names DEF ProxyInv, Phases, At
  <2>. QED
    BY <2>1, <2>2, <2>3, TakeKeeps DEF At
<1>2. CASE stopWithError(p)
  <2>. DEFINE failed == [state EXCEPT !.running = FALSE, !.error = "accept"]
  <2>0. failed \in State /\ ~failed.running /\ failed.error = "accept"
    BY DEF ProxyInv, TypeOK, State, Errors
  <2>1. PICK next \in State : next = failed /\ ~next.running /\ next.error = "accept"
    BY <2>0
  <2>2. At(p, "stopWithError") /\ Take(p, next)
    BY <1>2, <2>1 DEF stopWithError
  <2>3. p \in Clients \/ p \in Listeners
    BY <2>2, Names DEF ProxyInv, Phases, At
  <2>. QED
    BY <2>1, <2>2, <2>3, TakeKeeps DEF At
<1>. QED
  BY <1>1, <1>2

LEMMA CloseKeeps ==
    ASSUME ProxyInv, NEW p \in Procs, close(p)
    PROVE  ProxyInv'
<1>1. /\ Moved(p, "emit", {})
      /\ proc'[p].saved = proc[p].saved
  BY DEF close, ProxyInv, TypeOK, Moved, Proc, Steps
<1>2. /\ UNCHANGED <<state, listener, leaked, reported>>
      /\ bound' = bound \ proc[p].held
      /\ At(p, "close")
  BY DEF close
<1>3. At("main", "idle") /\ p # "main"
  BY <1>2, Names DEF ProxyInv, Phases, At
<1>4. TypeOK'
  BY <1>1, <1>2 DEF ProxyInv, TypeOK, Moved
<1>5. Phases'
  BY <1>1, <1>2, <1>3, Names DEF ProxyInv, Phases, Moved, At, HoldSteps
<1>6. Hands'
  <2>1. ManagersIsOpen' /\ ToClose'
    BY <1>1, <1>2 DEF ProxyInv, Hands, ManagersIsOpen, ToClose, Moved, At
  <2>2. ToInstall'
    BY <1>1, <1>2 DEF ProxyInv, Hands, OneStarter, ToInstall, Moved, At
  <2>3. LoopWaits'
    BY <1>1, <1>2, Names DEF ProxyInv, TypeOK, Proc, Hands, LoopWaits, Moved, At
  <2>4. OneStarter'
    BY <1>1, <1>2 DEF ProxyInv, Hands, OneStarter, Moved, At
  <2>5. Owned'
    BY <1>1, <1>2 DEF ProxyInv, Hands, Owned, Moved, At
  <2>6. LeakedIsLost'
    BY <1>1, <1>2, Names DEF ProxyInv, TypeOK, Hands, LeakedIsLost, Moved, At
  <2>. QED
    BY <2>1, <2>2, <2>3, <2>4, <2>5, <2>6 DEF Hands
<1>7. Served'
  BY <1>1, <1>2, Names DEF ProxyInv, TypeOK, Hands, ToClose, Served, Moved, At
<1>8. StateOfListener' /\ ReportsToCome'
  BY <1>1, <1>2, Names DEF ProxyInv, StateOfListener, ReportsToCome, Moved, At, CallSteps
<1>. QED
  BY <1>4, <1>5, <1>6, <1>7, <1>8 DEF ProxyInv

LEMMA EmitKeeps ==
    ASSUME ProxyInv, NEW p \in Procs, emit(p)
    PROVE  ProxyInv'
<1>1. /\ UNCHANGED <<state, listener, bound, leaked>>
      /\ reported' = proc[p].saved
      /\ At(p, "emit")
  BY DEF emit
<1>2. /\ proc'[p].pc = (IF p \in Clients THEN "report" ELSE "idle")
      /\ proc'[p].held = {}
      /\ p \notin proc[p].held
  BY <1>1 DEF emit, ProxyInv, TypeOK, Proc, Hands, LoopWaits, At
<1>3. \A q \in Procs : q # p =>
        /\ q \notin proc[p].held => proc'[q] = proc[q]
        /\ q \in proc[p].held =>
              /\ proc'[q].pc = "accept" /\ proc'[q].held = proc[q].held
              /\ At(q, "idle") /\ q \in Listeners /\ proc[q].held = {}
  BY <1>1, <1>2 DEF emit, ProxyInv, TypeOK, Proc, Hands, LoopWaits, Phases, HoldSteps, At
<1>4. p # "main" => At("main", "idle") /\ At("main", "idle")'
  BY <1>1, <1>3, Names DEF ProxyInv, Phases, At
<1>5. TypeOK'
  <2>1. proc' = [q \in Procs |-> proc'[q]]
    BY DEF emit
  <2>2. Off \in State
    BY DEF Off, State, Errors
  <2>3. \A q \in Procs : proc'[q] \in Proc
    BY <2>2 DEF emit, ProxyInv, TypeOK, Proc, Steps
  <2>4. reported' \in State
    BY <1>1 DEF ProxyInv, TypeOK, Proc
  <2>. QED
    BY <2>1, <2>3, <2>4, <1>1 DEF ProxyInv, TypeOK
<1>6. Phases'
  BY <1>1, <1>2, <1>3, <1>4, Names DEF ProxyInv, Phases, At, HoldSteps
<1>7. Hands'
  <2>1. ManagersIsOpen' /\ ToInstall' /\ ToClose'
    BY <1>1, <1>2, <1>3 DEF ProxyInv, Hands, ManagersIsOpen, ToInstall, ToClose, At
  <2>2. LoopWaits'
    BY <1>1, <1>2, <1>3, Names DEF ProxyInv, TypeOK, Proc, Hands, LoopWaits, OneStarter, At
  <2>3. OneStarter'
    BY <1>1, <1>2, <1>3 DEF ProxyInv, Hands, OneStarter, At
  <2>4. Owned'
    BY <1>1, <1>2, <1>3 DEF ProxyInv, Hands, Owned, At
  <2>5. LeakedIsLost'
    BY <1>1, <1>2, <1>3, Names DEF ProxyInv, TypeOK, Hands, LeakedIsLost, At
  <2>. QED
    BY <2>1, <2>2, <2>3, <2>4, <2>5 DEF Hands
<1>8. Served'
  BY <1>1, <1>2, <1>3, Names DEF ProxyInv, TypeOK, Served, At
<1>9. StateOfListener'
  BY <1>1, <1>2, <1>3 DEF ProxyInv, StateOfListener, At
<1>10. ReportsToCome'
  BY <1>1, <1>2, <1>3, Names DEF ProxyInv, Phases, StateOfListener, ReportsToCome, At, CallSteps
<1>. QED
  BY <1>5, <1>6, <1>7, <1>8, <1>9, <1>10 DEF ProxyInv

LEMMA MutationKeeps ==
    ASSUME ProxyInv, NEW p \in Procs, applySocksProxyMutation(p)
    PROVE  ProxyInv'
<1>1. Moved(p, "idle", {})
  BY GoMoves DEF ProxyInv, TypeOK, Steps, applySocksProxyMutation
<1>2. /\ UNCHANGED <<state, listener, bound, leaked>>
      /\ reported' = state
      /\ At(p, "report") /\ proc[p].held = {}
  BY DEF applySocksProxyMutation, ProxyInv, Phases, HoldSteps, At
<1>3. At("main", "idle") /\ p # "main" /\ p \notin Listeners
  BY <1>2, Names DEF ProxyInv, Phases, At
<1>4. TypeOK'
  BY <1>1, <1>2 DEF ProxyInv, TypeOK, Moved
<1>5. Phases'
  BY <1>1, <1>2, <1>3, Names DEF ProxyInv, Phases, Moved, At
<1>6. Hands'
  BY <1>1, <1>2, <1>3, EmptyHands DEF Steps, At
<1>7. Served'
  BY <1>1, <1>2, <1>3, Names DEF ProxyInv, TypeOK, Served, Moved, At
<1>8. StateOfListener'
  BY <1>1, <1>2 DEF ProxyInv, StateOfListener, Moved, At
<1>9. ReportsToCome'
  <2>1. \A q \in Procs : proc[q].pc \in {"listen", "startError"} =>
          q \in Callers /\ proc'[q] = proc[q]
    BY <1>1, <1>2, Names DEF ProxyInv, Phases, Moved, At
  <2>. QED
    BY <1>2, <2>1 DEF ProxyInv, StateOfListener, ReportsToCome, CallSteps
<1>. QED
  BY <1>4, <1>5, <1>6, <1>7, <1>8, <1>9 DEF ProxyInv

(* The accept loop of l stops the proxy, or ends once l is closed. *)
LEMMA ServeKeeps ==
    ASSUME ProxyInv, NEW l \in Listeners, AcceptFails(l) \/ ServeReturns(l)
    PROVE  ProxyInv'
<1>1. PICK step \in {"stopWithError", "idle"} :
        Go(l, step, {}) /\ (step = "idle" => l \notin bound)
  BY DEF AcceptFails, ServeReturns
<1>2. /\ UNCHANGED <<state, listener, bound, leaked, reported>>
      /\ At(l, "accept") /\ l \in Procs /\ proc[l].held = {} /\ l \notin Callers
  BY Names DEF AcceptFails, ServeReturns, ProxyInv, Phases, HoldSteps, At
<1>3. Moved(l, step, {})
  BY <1>1, <1>2, GoMoves DEF ProxyInv, TypeOK, Steps
<1>4. At("main", "idle") /\ l # "main"
  BY <1>2, Names DEF ProxyInv, Phases, At
<1>5. TypeOK'
  BY <1>2, <1>3 DEF ProxyInv, TypeOK, Moved
<1>6. Phases'
  BY <1>2, <1>3, <1>4, Names DEF ProxyInv, Phases, Moved, At
<1>7. Hands'
  BY <1>2, <1>3, EmptyHands DEF Steps, At
<1>8. Served'
  BY <1>1, <1>2, <1>3, Names DEF ProxyInv, TypeOK, Hands, ManagersIsOpen, Served, Moved, At
<1>9. StateOfListener'
  BY <1>2, <1>3 DEF ProxyInv, StateOfListener, Moved, At
<1>10. ReportsToCome'
  BY <1>2, <1>3, Names DEF ProxyInv, ReportsToCome, Moved, At
<1>. QED
  BY <1>5, <1>6, <1>7, <1>8, <1>9, <1>10 DEF ProxyInv

LEMMA NextInv == ProxyInv /\ [Next]_vars => ProxyInv'
<1>. SUFFICES ASSUME ProxyInv, [Next]_vars PROVE ProxyInv'
  OBVIOUS
<1>1. ASSUME NEW p \in Clients, NEW op \in {"start", "stop"}, Call(p, op) PROVE ProxyInv'
  BY <1>1, CallKeeps
<1>2. ASSUME NEW p \in Procs, Step(p) PROVE ProxyInv'
  BY <1>2, StartLockKeeps, ListenKeeps, ListenFailsKeeps, ProtectFailsKeeps, ProtectPanicsKeeps, InstallKeeps, SetStartErrorKeeps,
     StopKeeps, CloseKeeps, EmitKeeps, MutationKeeps DEF Step
<1>3. ASSUME NEW l \in Listeners, AcceptFails(l) \/ ServeReturns(l) PROVE ProxyInv'
  BY <1>3, ServeKeeps
<1>4. CASE UNCHANGED vars
  BY <1>4 DEF vars, ProxyInv, TypeOK, Phases, Hands, ManagersIsOpen, ToInstall, ToClose, LoopWaits,
     OneStarter, Owned, LeakedIsLost, Served, StateOfListener, ReportsToCome, At
<1>. QED
  BY <1>1, <1>2, <1>3, <1>4 DEF Next

LEMMA ProxyInvAlways == Spec => []ProxyInv
  BY InitInv, NextInv, PTL DEF Spec

-----------------------------------------------------------------------------
(* The theorems. *)

(* The port has at most one listener, whoever starts the proxy and when,   *)
(* and every goroutine is at one of the steps of socks_proxy.go.           *)
THEOREM ProxyTypeCorrect == Spec => []TypeOK
<1>1. ProxyInv => TypeOK
  BY DEF ProxyInv
<1>. QED
  BY <1>1, ProxyInvAlways, PTL

(* stop and stopWithError find every listener that start installed: none   *)
(* stays open out of reach of a later stop, but for those of starts whose  *)
(* protection failed.                                                      *)
THEOREM NoListenerIsOrphaned == Spec => []NoOrphanListener
<1>1. ProxyInv => NoOrphanListener
  BY DEF ProxyInv, Hands, Owned, NoOrphanListener
<1>. QED
  BY <1>1, ProxyInvAlways, PTL

(* When all calls are over, the policies allow the proxy's mark only if    *)
(* the manager's listener accepts connections, in whatever order the       *)
(* callbacks of concurrent starts and stops arrived.                       *)
THEOREM ReportedProxyServes == Spec => []ReportedIsServing
<1>1. ProxyInv => ReportedIsServing
  <2>. SUFFICES ASSUME ProxyInv, Quiet, reported.running PROVE \E l \in listener : Serving(l)
    BY DEF ReportedIsServing
  <2>1. state.running
    BY Names DEF ProxyInv, ReportsToCome, Quiet
  <2>2. PICK l \in listener : l \in Procs
    BY <2>1, Names DEF ProxyInv, TypeOK, StateOfListener
  <2>3. l \in bound /\ At(l, "accept")
    BY <2>2 DEF ProxyInv, Hands, ManagersIsOpen, Served, Quiet, At
  <2>. QED
    BY <2>3 DEF Serving
<1>. QED
  BY <1>1, ProxyInvAlways, PTL

(* When all calls are over and a listener accepts connections, the proxy   *)
(* was reported to run, unless a failed start has made the manager forget  *)
(* that it runs, or the manager knows but an earlier listener's accept     *)
(* error was reported after that.                                          *)
THEOREM ServingProxyIsReported == Spec => []ServingIsReported
<1>1. ProxyInv => ServingIsReported
  <2>. SUFFICES ASSUME ProxyInv, Quiet, NEW l \in Listeners, Serving(l)
       PROVE  reported.running \/ StartFailed \/ LateAcceptError
    BY DEF ServingIsReported
  <2>1. l \in listener
    BY DEF ProxyInv, Hands, Owned, LeakedIsLost, Quiet, Serving, At
  <2>2. \A p \in Callers : proc[p].pc \notin CallSteps
    BY Names DEF Quiet, CallSteps
  <2>. QED
    BY <2>1, <2>2 DEF ProxyInv, ReportsToCome, StartFailed, LateAcceptError
<1>. QED
  BY <1>1, ProxyInvAlways, PTL
=============================================================================
