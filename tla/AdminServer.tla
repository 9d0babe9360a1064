----------------------------- MODULE AdminServer -----------------------------
(***************************************************************************)
(* The admin API server of admin.go: connections, subscriptions, config    *)
(* events and notifications, with the goroutines that send them: one       *)
(* handler per connection, the interface watcher and the SOCKS proxy's     *)
(* callback.                                                               *)
(*                                                                         *)
(* An event is sent in three steps: pick the subscribers (under s.mu),     *)
(* take a snapshot of the configuration, write to one subscriber after     *)
(* the other.  A write blocks while the subscriber's socket is full.       *)
(*                                                                         *)
(* What a goroutine still has to do is a sequence of operations, the next  *)
(* one first: a call puts the operations of its body in front.             *)
(*                                                                         *)
(* The configuration is a version number, which counts the changes of the  *)
(* interfaces' rules: what changes nothing there (MutationResult.Changed   *)
(* is FALSE) is announced to nobody.  Who holds which rulesets is modelled *)
(* in PolicyManager; here their removal may or may not change the rules.   *)
(***************************************************************************)
EXTENDS Naturals, Sequences, SequencesExt

CONSTANTS
    Conns,          \* connections
    Background,     \* the goroutines that raise events beside the handlers
    SubChoices,     \* the event types clients may subscribe to
    Cap,            \* messages that fit into a socket
    MaxVersion,     \* bound on configuration changes
    MaxNotes        \* bound on notifications

EventTypes == {"config", "interfaces", "clients", "notification"}

ASSUME ConnsAssumption == IsFiniteSet(Conns) /\ Conns \cap Background = {}
ASSUME BackgroundAssumption == Background \subseteq {"watcher", "proxy"}
ASSUME SubsAssumption == SubChoices \subseteq SUBSET EventTypes
ASSUME ServerBoundsAssumption ==
    Cap \in Nat \ {0} /\ MaxVersion \in Nat /\ MaxNotes \in Nat

VARIABLES
    up,             \* the client's end of each connection
    clients,        \* adminAPIServer.clients
    subs,           \* adminAPIClient.eventTypes
    notifications,  \* adminAPIServer.notifications, the buffer
    todo,           \* what each goroutine still has to do
    inbox,          \* what is in the socket towards each client
    version,        \* the rules that the daemon enforces
    notes,          \* the number of notifications raised
    view,           \* what each client has been sent, and
    dropped         \* the version that nobody announced: for the properties only

serverVars == <<clients, subs, notifications>>
dataVars == <<version, notes>>
vars == <<up, serverVars, todo, inbox, dataVars, view, dropped>>

Goroutines == Conns \cup Background

-----------------------------------------------------------------------------
(* Messages and operations. *)

(* An answer's contents do not matter here. *)
Event(ev) == IF ev = "reply" THEN [ev |-> ev] ELSE [ev |-> ev, version |-> version]
NoteMsg(n) == [ev |-> "notification", note |-> n]
Message ==
    [ev : EventTypes, version : 0..MaxVersion]
    \cup [ev : {"reply"}]
    \cup [ev : {"notification"}, note : 1..MaxNotes]

notify(ev) == <<[op |-> "notify", ev |-> ev]>>
snapshot(ev, to) == <<[op |-> "snapshot", ev |-> ev, to |-> to]>>
send(msg, to) == <<[op |-> "send", msg |-> msg, to |-> to]>>
notifyNotification(n) == <<[op |-> "note", note |-> n]>>
drainNotifications == <<[op |-> "drain"]>>
flush(list) == IF list = <<>> THEN <<>> ELSE <<[op |-> "flush", list |-> list]>>
reply == <<[op |-> "reply"]>>

(* handleConnection's deferred function. *)
cleanup == <<[op |-> "removeClient"], [op |-> "notify", ev |-> "clients"],
             [op |-> "removeRulesets"], [op |-> "removeRulesets"], [op |-> "close"]>>

Operation ==
    [op : {"notify"}, ev : EventTypes]
    \cup [op : {"snapshot"}, ev : EventTypes \cup {"reply"}, to : SUBSET Conns]
    \cup [op : {"send"}, msg : Message, to : Seq(Conns)]
    \cup [op : {"note"}, note : 1..MaxNotes]
    \cup [op : {"flush"}, list : Seq(1..MaxNotes)]
    \cup [op : {"drain", "reply", "removeClient", "removeRulesets", "close"}]

(* The newest version, and the notifications. *)
NewView == [newest |-> 0, notes |-> {}]

Init ==
    /\ up = [c \in Conns |-> "none"]
    /\ clients = {}
    /\ subs = [c \in Conns |-> {}]
    /\ notifications = <<>>
    /\ todo = [g \in Goroutines |-> <<>>]
    /\ inbox = [c \in Conns |-> <<>>]
    /\ version = 0
    /\ notes = 0
    /\ view = [c \in Conns |-> NewView]
    /\ dropped = 0

Next1(g, op) == todo[g] # <<>> /\ Head(todo[g]).op = op

(* Goroutine g replaces its next operation by others. *)
Do(g, ops) == todo' = [todo EXCEPT ![g] = ops \o Tail(@)]

Idle(g) == todo[g] = <<>>
Begin(g, ops) == Idle(g) /\ todo' = [todo EXCEPT ![g] = ops]

Subscribers(ev) == {c \in clients : ev \in subs[c]}

Change == version < MaxVersion /\ version' = version + 1

-----------------------------------------------------------------------------
(* Writing to a client (adminAPIClient.send): blocks while the socket is   *)
(* full, fails if the client has hung up.                                  *)

(* Faulty: an unbounded queue.  (Faulty variants are slips that a property *)
(* must catch; no action uses them.)                                       *)
WriteUnbounded(c, msg) ==
    /\ up[c] = "open"
    /\ inbox' = [inbox EXCEPT ![c] = Append(@, msg)]
    /\ UNCHANGED view

Write(c, msg) ==
    /\ up[c] = "open"
    /\ Len(inbox[c]) < Cap
    /\ inbox' = [inbox EXCEPT ![c] = Append(@, msg)]
    /\ view' = [view EXCEPT ![c].newest =
          IF msg.ev \notin {"notification", "reply"} /\ msg.version > @ THEN msg.version ELSE @]

(* Faulty: a write to a client that is gone never returns. *)
WriteHangs(c) == up[c] # "open" /\ FALSE /\ UNCHANGED <<inbox, view>>

WriteFails(c) == up[c] # "open" /\ UNCHANGED <<inbox, view>>

(* notify: pick the subscribers, ... *)
Notify(g) ==
    /\ Next1(g, "notify")
    /\ LET ev == Head(todo[g]).ev IN
          Do(g, IF Subscribers(ev) = {} THEN <<>> ELSE snapshot(ev, Subscribers(ev)))
    /\ UNCHANGED <<up, serverVars, inbox, dataVars, view, dropped>>

(* ... take a snapshot, ... *)
ConfigSnapshot(g) ==
    /\ Next1(g, "snapshot")
    /\ LET h == Head(todo[g]) IN
          \E order \in SetToSeqs(h.to) : Do(g, send(Event(h.ev), order))
    /\ UNCHANGED <<up, serverVars, inbox, dataVars, view, dropped>>

(* (currentConfigSnapshot reports it if it cannot list the interfaces) *)
ConfigSnapshotFails(g) ==
    /\ Next1(g, "snapshot")
    /\ notes < MaxNotes
    /\ notes' = notes + 1
    /\ LET h == Head(todo[g]) IN
          \E order \in SetToSeqs(h.to) :
              Do(g, notifyNotification(notes') \o send(Event(h.ev), order))
    /\ UNCHANGED <<up, serverVars, inbox, version, view, dropped>>

(* ... and write to one after the other.  An error is only logged, unless  *)
(* it is the answer to a request that fails.                               *)
Send(g) ==
    /\ Next1(g, "send")
    /\ LET h == Head(todo[g])
           rest == IF Len(h.to) = 1 THEN <<>> ELSE send(h.msg, Tail(h.to))
       IN  \/ Write(Head(h.to), h.msg) /\ Do(g, rest)
           \/ /\ WriteFails(Head(h.to))
              /\ IF h.msg.ev = "reply"
                 THEN todo' = [todo EXCEPT ![g] = cleanup]
                 ELSE Do(g, rest)
    /\ UNCHANGED <<up, serverVars, dataVars, dropped>>

(* The answer to a mutation or a debug request.  If it cannot be written   *)
(* the handler returns: what it would have done next is not done.          *)
Reply(c) ==
    /\ Next1(c, "reply")
    /\ \/ Write(c, [ev |-> "reply"]) /\ Do(c, <<>>)
       \/ WriteFails(c) /\ todo' = [todo EXCEPT ![c] = cleanup]
    /\ dropped' = IF up[c] # "open" /\ Tail(todo[c]) # <<>> THEN version ELSE dropped
    /\ UNCHANGED <<up, serverVars, dataVars>>

(* notifyNotification buffers what nobody has subscribed to. *)
NotifyNotification(g) ==
    /\ Next1(g, "note")
    /\ LET n == Head(todo[g]).note IN
          \/ /\ Subscribers("notification") = {}
             /\ notifications' = Append(notifications, n)
             /\ Do(g, <<>>)
          \/ /\ Subscribers("notification") # {}
             /\ \E order \in SetToSeqs(Subscribers("notification")) :
                   Do(g, send(NoteMsg(n), order))
             /\ UNCHANGED notifications
    /\ UNCHANGED <<up, clients, subs, inbox, dataVars, view, dropped>>

(* Faulty: the buffer is not emptied. *)
DrainKeepsBuffer(c) ==
    /\ Next1(c, "drain")
    /\ Do(c, flush(notifications))
    /\ UNCHANGED <<up, serverVars, inbox, dataVars, view, dropped>>

(* drainNotifications takes the whole buffer and gives up at the first     *)
(* error.                                                                  *)
Drain(c) ==
    /\ Next1(c, "drain")
    /\ notifications' = <<>>
    /\ Do(c, flush(notifications))
    /\ UNCHANGED <<up, clients, subs, inbox, dataVars, view, dropped>>

Flush(c) ==
    /\ Next1(c, "flush")
    /\ LET list == Head(todo[c]).list IN
          \/ Write(c, NoteMsg(Head(list))) /\ Do(c, flush(Tail(list)))
          \/ WriteFails(c) /\ Do(c, <<>>)
    /\ UNCHANGED <<up, serverVars, dataVars, dropped>>

-----------------------------------------------------------------------------
(* Connections. *)

Mentioned(c) ==
    \E g \in Goroutines : \E k \in DOMAIN todo[g] :
        LET o == todo[g][k] IN
            \/ o.op = "snapshot" /\ c \in o.to
            \/ o.op = "send" /\ \E i \in DOMAIN o.to : o.to[i] = c

(* A connection is authorized and registered.  Connection numbers are      *)
(* never used again: here, not while anything refers to the old one.       *)
Accept(c) ==
    /\ up[c] = "none"
    /\ ~Mentioned(c)
    /\ Begin(c, notify("clients"))
    /\ up' = [up EXCEPT ![c] = "open"]
    /\ clients' = clients \cup {c}
    /\ subs' = [subs EXCEPT ![c] = {}]
    /\ UNCHANGED <<notifications, inbox, dataVars, view, dropped>>

(* A client may hang up at any time, before it is answered too. *)
HangUp(c) ==
    /\ up[c] = "open"
    /\ up' = [up EXCEPT ![c] = "hungup"]
    /\ inbox' = [inbox EXCEPT ![c] = <<>>]
    /\ view' = [view EXCEPT ![c] = NewView]
    /\ UNCHANGED <<serverVars, todo, dataVars, dropped>>

ReadEOF(c) ==
    /\ up[c] = "hungup"
    /\ Begin(c, cleanup)
    /\ UNCHANGED <<up, serverVars, inbox, dataVars, view, dropped>>

RemoveClient(c) ==
    /\ Next1(c, "removeClient")
    /\ clients' = clients \ {c}
    /\ Do(c, <<>>)
    /\ UNCHANGED <<up, subs, notifications, inbox, dataVars, view, dropped>>

(* Faulty: the other clients are not told. *)
RemoveRulesetsUnannounced(c) ==
    /\ Next1(c, "removeRulesets")
    /\ Change \/ UNCHANGED version
    /\ Do(c, <<>>)
    /\ UNCHANGED <<up, serverVars, inbox, notes, view, dropped>>

(* removeForceRulesets or removeTmpRuleset. *)
RemoveRulesets(c) ==
    /\ Next1(c, "removeRulesets")
    /\ \/ Do(c, <<>>) /\ UNCHANGED version
       \/ Change /\ Do(c, notify("config"))
    /\ UNCHANGED <<up, serverVars, inbox, notes, view, dropped>>

Close(c) ==
    /\ Next1(c, "close")
    /\ up' = [up EXCEPT ![c] = "none"]
    /\ Do(c, <<>>)
    /\ UNCHANGED <<serverVars, inbox, dataVars, view, dropped>>

-----------------------------------------------------------------------------
(* Requests, read one at a time by the connection's handler. *)

ConfigRequest(c) ==
    /\ up[c] = "open"
    /\ Begin(c, snapshot("reply", {c}))
    /\ UNCHANGED <<up, serverVars, inbox, dataVars, view, dropped>>

(* Faulty: the buffer is not drained. *)
SubscribeOnly(c, S) ==
    /\ up[c] = "open"
    /\ Begin(c, notify("clients"))
    /\ subs' = [subs EXCEPT ![c] = S]
    /\ view' = [view EXCEPT ![c].newest = version]
    /\ UNCHANGED <<up, clients, notifications, inbox, dataVars, dropped>>

SubscribeRequest(c, S) ==
    /\ up[c] = "open"
    /\ Begin(c, notify("clients") \o
                (IF "notification" \in S THEN drainNotifications ELSE <<>>))
    /\ subs' = [subs EXCEPT ![c] = S]
    /\ view' = [view EXCEPT ![c].newest = version]
    /\ UNCHANGED <<up, clients, notifications, inbox, dataVars, dropped>>

(* A mutation is refused, changes nothing, or changes the configuration.   *)
MutationRequest(c) ==
    /\ up[c] = "open"
    /\ \/ Begin(c, reply) /\ UNCHANGED version
       \/ Change /\ Begin(c, reply \o notify("config"))
    /\ UNCHANGED <<up, serverVars, inbox, notes, view, dropped>>

(* A debug request is refused or raises a notification. *)
DebugNotifyRequest(c) ==
    /\ up[c] = "open"
    /\ \/ Begin(c, reply) /\ UNCHANGED notes
       \/ /\ notes < MaxNotes
          /\ notes' = notes + 1
          /\ Begin(c, notifyNotification(notes') \o reply)
    /\ UNCHANGED <<up, serverVars, inbox, version, view, dropped>>

(* The client reads a message. *)
ClientReads(c) ==
    /\ up[c] = "open"
    /\ inbox[c] # <<>>
    /\ inbox' = [inbox EXCEPT ![c] = Tail(@)]
    /\ view' = [view EXCEPT ![c].notes =
          @ \cup (IF "note" \in DOMAIN Head(inbox[c]) THEN {Head(inbox[c]).note} ELSE {})]
    /\ UNCHANGED <<up, serverVars, todo, dataVars, dropped>>

-----------------------------------------------------------------------------
(* The other goroutines. *)

(* watchInterfaces reconciles and tells the clients before it looks at the *)
(* next netlink update.                                                    *)
WatcherReconcile ==
    /\ "watcher" \in Background
    /\ \E interfaces \in {notify("interfaces"), <<>>} :
          \/ Begin("watcher", interfaces) /\ UNCHANGED version
          \/ Change /\ Begin("watcher", interfaces \o notify("config"))
    /\ UNCHANGED <<up, serverVars, inbox, notes, view, dropped>>

(* The proxy's state changes, perhaps because of an error. *)
ProxyCallback ==
    /\ "proxy" \in Background
    /\ Change \/ UNCHANGED version
    /\ \/ Begin("proxy", notify("config")) /\ UNCHANGED notes
       \/ /\ notes < MaxNotes
          /\ notes' = notes + 1
          /\ Begin("proxy", notifyNotification(notes') \o notify("config"))
    /\ UNCHANGED <<up, serverVars, inbox, view, dropped>>

Work(g) ==
    \/ Notify(g)
    \/ ConfigSnapshot(g)
    \/ ConfigSnapshotFails(g)
    \/ Send(g)
    \/ NotifyNotification(g)

Handler(c) ==
    \/ Reply(c)
    \/ Drain(c)
    \/ Flush(c)
    \/ ReadEOF(c)
    \/ RemoveClient(c)
    \/ RemoveRulesets(c)
    \/ Close(c)

Client(c) ==
    \/ Accept(c)
    \/ HangUp(c)
    \/ ConfigRequest(c)
    \/ \E S \in SubChoices : SubscribeRequest(c, S)
    \/ MutationRequest(c)
    \/ DebugNotifyRequest(c)

Next ==
    \/ \E g \in Goroutines : Work(g)
    \/ \E c \in Conns : Handler(c) \/ Client(c) \/ ClientReads(c)
    \/ WatcherReconcile
    \/ ProxyCallback

Spec == Init /\ [][Next]_vars

-----------------------------------------------------------------------------
(* Properties. *)

(* The variables keep their types. *)
TypeOK ==
    /\ up \in [Conns -> {"none", "open", "hungup"}]
    /\ clients \in SUBSET Conns
    /\ subs \in [Conns -> SUBSET EventTypes]
    /\ notifications \in Seq(1..MaxNotes)
    /\ todo \in [Goroutines -> Seq(Operation)]
    /\ inbox \in [Conns -> Seq(Message)]
    /\ \A c \in Conns : Len(inbox[c]) <= Cap
    /\ version \in 0..MaxVersion
    /\ notes \in 0..MaxNotes
    /\ view \in [Conns -> [newest : 0..MaxVersion, notes : SUBSET (1..MaxNotes)]]
    /\ dropped \in 0..MaxVersion

Quiet == \A g \in Goroutines : Idle(g)

IsNote(msg) == "note" \in DOMAIN msg

(* No client gets a notification twice, although it may be raised, sent    *)
(* and drained from the buffer by different goroutines while the client    *)
(* subscribes (notifyNotification, drainNotifications).                    *)
NotesArriveOnce ==
    \A c \in Conns : \A i \in DOMAIN inbox[c] :
        IsNote(inbox[c][i]) =>
            /\ inbox[c][i].note \notin view[c].notes
            /\ \A k \in DOMAIN inbox[c] :
                  IsNote(inbox[c][k]) /\ inbox[c][k].note = inbox[c][i].note => k = i

(* A notification waits in the buffer only while there is nobody to send   *)
(* it to: subscribing and draining are separate steps, but a notification  *)
(* raised in between is sent and not forgotten in the buffer.              *)
BufferedForLackOfSubscribers ==
    Quiet /\ notifications # <<>> => Subscribers("notification") = {}

Subscribed(c) == up[c] = "open" /\ "config" \in subs[c]

(* Once nobody is busy, a subscribed client has been sent the rules that   *)
(* are in force, or they were when it subscribed, in whatever order the    *)
(* snapshots of several goroutines were taken and sent (admin.go: notify   *)
(* after a mutation, a cleanup or a watcher's turn).  There is one way to  *)
(* lose a change, and no other: the client that asked for it hangs up      *)
(* before it is answered, and its handler returns before notify (admin.go, *)
(* handleConnection).                                                      *)
EveryChangeIsSent ==
    Quiet => \A c \in Conns :
        Subscribed(c) => view[c].newest = version \/ version = dropped

(* The watcher comes back from its notifications to the next netlink       *)
(* update if the clients read (egress.go: the calls of notify in           *)
(* watchInterfaces).  CommandLine states the fairness that this takes.     *)
WatcherReturns == []<>Idle("watcher")

(* Whoever else is slow or gone, the cleanup of a connection that hung up  *)
(* comes to its end, again if the clients read: its events are sent to     *)
(* them without a deadline (admin.go: handleConnection's deferred          *)
(* function, send).                                                        *)
CleanupEnds == \A c \in Conns : []<>(up[c] # "hungup")
=============================================================================
