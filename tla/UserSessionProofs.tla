-------------------------- MODULE UserSessionProofs --------------------------
(***************************************************************************)
(* Proofs about the sessions of killswitch-user and its tray, for every    *)
(* set of interfaces, every capacity and any number of sessions, changes   *)
(* and clicks.                                                             *)
(***************************************************************************)
EXTENDS UserSession, TLAPS

(* The results of the client's own mutations, which have their own channel. *)
Results == [type : {"result"}, cfg : Config] \cup {FailedMsg}
Networks == [queue : 0..QueueSize, runner : {"idle", "busy"} \cup Statuses,
             result : Statuses \cup {"none"}, status : Statuses \cup {"none"},
             snap : BOOLEAN \X UNION {[I -> BOOLEAN \X BOOLEAN] : I \in SUBSET Ifaces}]

TrayTypes ==
    /\ tray \in TrayState
    /\ menu \in [onReady : {"todo", "taken", "done"}, took : TrayState,
                 shown : Seq(TrayState), late : BOOLEAN]
    /\ Len(menu.shown) <= 1
    /\ commands \in Seq(Commands) /\ Len(commands) <= TrayQueue

DaemonTypes ==
    /\ cfg \in Config
    /\ leftover \in SUBSET Ifaces
    /\ subscribed \in BOOLEAN /\ up \in BOOLEAN /\ asked \in BOOLEAN /\ disable \in BOOLEAN
    /\ toServer \in Seq(Requests)
    /\ toClient \in Seq(Message)
    /\ world \in Statuses
    /\ used \in [changes : 0..MaxChanges, clicks : 0..MaxClicks, world : 0..MaxWorld]
    /\ buffered \in Nat /\ buffered <= used.changes

ClientTypes ==
    /\ phase \in {"dial", "wait", "run"}
    /\ session \in 0..MaxSessions
    /\ events \in Seq(Message) /\ Len(events) <= 1
    /\ results \in Seq(Results) /\ Len(results) <= 1
    /\ watcher \in [shown : BOOLEAN, last : SUBSET Ifaces]
    /\ network \in Networks
    /\ allowNotice \in Notices(session) /\ portalNotice \in Notices(session)

Types == TrayTypes /\ DaemonTypes /\ ClientTypes

(* What holds between two sessions. *)
Between ==
    /\ ~up => session < MaxSessions /\ ~subscribed
    /\ phase = "dial" => ~up /\ toClient = <<>>
    /\ phase # "dial" => session # 0
    /\ phase # "run" => /\ watcher = NewWatcher /\ network = NewNetwork
                        /\ events = <<>> /\ results = <<>>
    /\ ~TrayEnabled => tray = NoTray
    /\ ~ChecksEnabled => /\ tray.net = "none"
                         /\ network.queue = 0 /\ network.runner = "idle" /\ network.result = "none"

(* The menu on its way. *)
MenuFollows ==
    /\ menu.onReady = "todo" => menu.shown = <<>>
    /\ menu.onReady = "taken" => IF menu.shown = <<>> THEN menu.took = tray
                                 ELSE menu.shown = <<tray>>
    /\ MenuIsCurrent

(* A session's notices. *)
NoticesFollow ==
    /\ watcher.shown => Offered(allowNotice)
    /\ ~watcher.shown /\ phase = "run" => ~Offered(allowNotice)
    /\ phase = "wait" => ~Offered(allowNotice)
    /\ PortalNoticeIsCurrent
    /\ LoginEntryWorks

-----------------------------------------------------------------------------
(* What is on its way to the main loop, in the order in which it arrives.  *)
(* A session that has sent no mutation gets no result, so that all of it   *)
(* comes through the channel of events.                                    *)
Coming == events \o toClient

(* The types that the daemon sends unasked, the ones that carry a          *)
(* configuration, and the ones that configNotificationWatcher follows.     *)
Announced == {"clients", "config", "interfaces", "notification"}
ForTray == MessageTypes
ForNotice == {"config", "configuration"}

OnlyOf(p, T) == \A i \in 1..Len(p) : p[i].type \in T
NoneOf(p, T) == \A i \in 1..Len(p) : p[i].type \notin T

(* The last message of the types T in p, if there is one, says that the    *)
(* rules c are in force.                                                   *)
LastHas(p, T, c) ==
    \A i \in 1..Len(p) : p[i].type \in T =>
        InForce(p[i].cfg) = c \/ \E j \in 1..Len(p) : j > i /\ p[j].type \in T

Told == Shown(cfg, leftover)
RulesNow == InForce(Told)

(* The last of what is coming is what is in force now. *)
Current == LastHas(Coming, ForTray, RulesNow) /\ LastHas(Coming, ForNotice, RulesNow)

(* The watcher knows what is in force. *)
Noticed == watcher.last = cfg.ifs /\ (cfg.ifs # {} => (watcher.shown <=> cfg.allow))

(* A session that waits has its requests on their way, or one answer       *)
(* with the configuration.                                                 *)
OneConfiguration(p) ==
    \E k \in 1..Len(p) :
        p[k].type = "configuration" /\ \A i \in 1..Len(p) : i # k => p[i].type \in Announced

Waiting ==
    \/ toServer = << <<"subscribe">>, <<"config">> >> /\ ~subscribed /\ toClient = <<>>
    \/ toServer = << <<"config">> >> /\ subscribed /\ OnlyOf(Coming, Announced)
    \/ toServer = <<>> /\ subscribed /\ OneConfiguration(Coming) /\ Current

Running ==
    /\ toServer = <<>> /\ subscribed /\ results = <<>>
    /\ OnlyOf(Coming, Announced) /\ Current
    /\ NoneOf(Coming, ForTray) /\ TrayEnabled => InForce(tray.cfg) = RulesNow
    /\ NoneOf(Coming, ForNotice) => Noticed

Follows ==
    /\ phase = "wait" => ~asked
    /\ phase = "wait" /\ up => Waiting
    /\ phase = "run" /\ up /\ ~asked => Running

SessionInv == Types /\ Between /\ MenuFollows /\ NoticesFollow /\ Follows
-----------------------------------------------------------------------------
(* Facts about sequences. *)

(* The first element and the rest of a queue. *)
LEMMA Rest ==
    ASSUME NEW S, NEW s \in Seq(S), s # <<>>
    PROVE  /\ Head(s) \in S /\ Head(s) = s[1] /\ Len(s) >= 1
           /\ Tail(s) \in Seq(S) /\ Len(Tail(s)) = Len(s) - 1
           /\ \A i \in 1..Len(s) - 1 : Tail(s)[i] = s[i + 1]
  OBVIOUS

(* A queue with one more element. *)
LEMMA More ==
    ASSUME NEW S, NEW s \in Seq(S), NEW x \in S
    PROVE  /\ Append(s, x) \in Seq(S) /\ Len(Append(s, x)) = Len(s) + 1
           /\ Append(s, x)[Len(s) + 1] = x
           /\ \A i \in 1..Len(s) : Append(s, x)[i] = s[i]
  OBVIOUS

(* Two queues, one after the other. *)
LEMMA Joined ==
    ASSUME NEW S, NEW s \in Seq(S), NEW t \in Seq(S)
    PROVE  /\ s \o t \in Seq(S) /\ Len(s \o t) = Len(s) + Len(t)
           /\ \A i \in 1..Len(s) + Len(t) :
                 (s \o t)[i] = IF i <= Len(s) THEN s[i] ELSE t[i - Len(s)]
  OBVIOUS

(* Queues of the same length with the same elements are the same. *)
LEMMA SameQueue ==
    ASSUME NEW S, NEW s \in Seq(S), NEW t \in Seq(S), Len(s) = Len(t),
           \A i \in 1..Len(s) : s[i] = t[i]
    PROVE  s = t
  OBVIOUS

LEMMA JoinedOne ==
    ASSUME NEW S, NEW s \in Seq(S), NEW x \in S
    PROVE  s \o <<x>> = Append(s, x)
  OBVIOUS

LEMMA JoinedNone ==
    ASSUME NEW S, NEW s \in Seq(S)
    PROVE  s \o <<>> = s /\ <<>> \o s = s
  OBVIOUS

LEMMA JoinedMore ==
    ASSUME NEW S, NEW s \in Seq(S), NEW t \in Seq(S), NEW x \in S
    PROVE  s \o Append(t, x) = Append(s \o t, x)
  OBVIOUS

LEMMA JoinedTwo ==
    ASSUME NEW S, NEW s \in Seq(S), NEW x \in S, NEW y \in S
    PROVE  s \o <<x, y>> = Append(Append(s, x), y)
  OBVIOUS

LEMMA JoinedRest ==
    ASSUME NEW S, NEW s \in Seq(S), s # <<>>
    PROVE  <<Head(s)>> \o Tail(s) = s
  OBVIOUS

(* A queue of one, before another. *)
LEMMA Single ==
    ASSUME NEW S, NEW s \in Seq(S), s # <<>>, Len(s) <= 1, NEW t \in Seq(S)
    PROVE  /\ Head(s) \in S
           /\ s \o t # <<>> /\ Head(s \o t) = Head(s) /\ Tail(s \o t) = t
  <1>1. Len(s) = 1 /\ Head(s) = s[1] /\ Head(s) \in S /\ Len(t) \in Nat
    <2>1. Len(s) \in Nat /\ Len(t) \in Nat
      OBVIOUS
    <2>2. Len(s) >= 1 /\ Head(s) = s[1] /\ Head(s) \in S
      BY Rest
    <2>3. \A n \in Nat : n >= 1 /\ n <= 1 => n = 1
      OBVIOUS
    <2> QED BY <2>1, <2>2, <2>3, Zenon
  <1>2. s \o t \in Seq(S) /\ Len(s \o t) = 1 + Len(t) /\ s \o t # <<>>
    BY <1>1, Joined
  <1>3. (s \o t)[1] = s[1]
    BY <1>1, Joined
  <1>4. ASSUME NEW i \in 1..Len(t) PROVE (s \o t)[i + 1] = t[i]
    <2>1. i + 1 \in 1..Len(s) + Len(t) /\ ~(i + 1 <= Len(s)) /\ i + 1 - Len(s) = i
      BY <1>1
    <2> QED BY <2>1, Joined
  <1>5. Tail(s \o t) \in Seq(S) /\ Len(Tail(s \o t)) = Len(t) /\ Head(s \o t) = s[1]
    BY <1>2, <1>3, Rest
  <1>6. \A i \in 1..Len(t) : Tail(s \o t)[i] = t[i]
    BY <1>2, <1>4, Rest
  <1>7. Tail(s \o t) = t
    BY <1>5, <1>6, SameQueue
  <1> QED BY <1>1, <1>2, <1>5, <1>7

-----------------------------------------------------------------------------
(* Facts about what is coming. *)

(* One message more, of the types T, with c: it is the last one. *)
LEMMA LastIsNew ==
    ASSUME NEW p \in Seq(Message), NEW m \in Message, NEW T, NEW c, InForce(m.cfg) = c
    PROVE  m.type \in T => LastHas(Append(p, m), T, c)
  <1> SUFFICES ASSUME m.type \in T PROVE LastHas(Append(p, m), T, c)
    OBVIOUS
  <1> DEFINE q == Append(p, m)
  <1>1. q \in Seq(Message) /\ Len(q) = Len(p) + 1 /\ q[Len(q)] = m /\ Len(q) \in 1..Len(q)
    BY More
  <1> HIDE DEF q
  <1>2. \A i \in 1..Len(q) : i = Len(q) \/ Len(q) > i
    BY <1>1
  <1>3. LastHas(q, T, c)
    BY <1>1, <1>2 DEF LastHas
  <1> QED BY <1>3 DEF q

(* One message more of another type, or one that has what the last has. *)
LEMMA LastStays ==
    ASSUME NEW p \in Seq(Message), NEW m \in Message, NEW T, NEW c,
           LastHas(p, T, c), m.type \in T => InForce(m.cfg) = c
    PROVE  LastHas(Append(p, m), T, c)
  <1> DEFINE q == Append(p, m)
  <1>1. CASE m.type \in T
    BY <1>1, LastIsNew
  <1>2. CASE m.type \notin T
    <2>1. /\ Len(q) = Len(p) + 1 /\ q[Len(p) + 1] = m /\ Len(p) \in Nat
          /\ \A i \in 1..Len(p) : q[i] = p[i]
      BY More
    <2> HIDE DEF q
    <2>2. LastHas(q, T, c)
      BY <1>2, <2>1 DEF LastHas
    <2> QED BY <2>2 DEF q
  <1> QED BY <1>1, <1>2

(* The first message goes: what it had was the last if no other is left. *)
LEMMA LastAfterFirst ==
    ASSUME NEW p \in Seq(Message), p # <<>>, NEW T, NEW c, LastHas(p, T, c)
    PROVE  /\ LastHas(Tail(p), T, c)
           /\ NoneOf(Tail(p), T) /\ Head(p).type \in T => InForce(Head(p).cfg) = c
           /\ NoneOf(Tail(p), T) /\ Head(p).type \notin T => NoneOf(p, T)
  <1> DEFINE q == Tail(p)
  <1>1. /\ Len(p) >= 1 /\ Len(q) = Len(p) - 1 /\ Head(p) = p[1] /\ Len(p) \in Nat
        /\ \A i \in 1..Len(p) - 1 : q[i] = p[i + 1]
    BY Rest
  <1> HIDE DEF q
  <1>2. \A i \in 1..Len(p) : i = 1 \/ (i - 1 \in 1..Len(q) /\ q[i - 1] = p[i])
    BY <1>1
  <1>3. LastHas(q, T, c)
    <2> SUFFICES ASSUME NEW i \in 1..Len(q), q[i].type \in T
                 PROVE  InForce(q[i].cfg) = c \/ \E j \in 1..Len(q) : j > i /\ q[j].type \in T
      BY DEF LastHas
    <2>1. i + 1 \in 1..Len(p) /\ p[i + 1] = q[i]
      BY <1>1
    <2>2. CASE InForce(p[i + 1].cfg) = c
      BY <2>1, <2>2
    <2>3. CASE \E j \in 1..Len(p) : j > i + 1 /\ p[j].type \in T
      <3>1. PICK j \in 1..Len(p) : j > i + 1 /\ p[j].type \in T
        BY <2>3
      <3>2. j - 1 \in 1..Len(q) /\ q[j - 1] = p[j] /\ j - 1 > i
        BY <1>1, <3>1
      <3> QED BY <3>1, <3>2
    <2> QED BY <2>1, <2>2, <2>3 DEF LastHas
  <1>4. ASSUME NoneOf(q, T) PROVE \A i \in 1..Len(p) : i # 1 => p[i].type \notin T
    BY <1>2, <1>4 DEF NoneOf
  <1>5. ASSUME NoneOf(q, T), p[1].type \in T PROVE InForce(p[1].cfg) = c
    BY <1>1, <1>4, <1>5 DEF LastHas
  <1>6. ASSUME NoneOf(q, T), p[1].type \notin T PROVE NoneOf(p, T)
    BY <1>4, <1>6 DEF NoneOf
  <1> QED BY <1>1, <1>3, <1>5, <1>6 DEF q

(* Messages of the types T only. *)
LEMMA OnlyMore ==
    ASSUME NEW p \in Seq(Message), NEW m \in Message, NEW T, m.type \in T
    PROVE  /\ OnlyOf(p, T) => OnlyOf(Append(p, m), T)
           /\ ~NoneOf(Append(p, m), T)
  BY More DEF OnlyOf, NoneOf

LEMMA NoneMore ==
    ASSUME NEW p \in Seq(Message), NEW m \in Message, NEW T, NoneOf(Append(p, m), T)
    PROVE  NoneOf(p, T)
  BY More DEF NoneOf

LEMMA OnlyRest ==
    ASSUME NEW p \in Seq(Message), p # <<>>, NEW T, OnlyOf(p, T)
    PROVE  OnlyOf(Tail(p), T) /\ Head(p).type \in T
  BY Rest DEF OnlyOf

LEMMA OnlyJoined ==
    ASSUME NEW p \in Seq(Message), NEW q \in Seq(Message), NEW T, OnlyOf(p, T), OnlyOf(q, T)
    PROVE  OnlyOf(p \o q, T)
  BY Joined DEF OnlyOf

(* The one configuration stays when another message comes or goes; when it *)
(* comes or goes itself there was or is none.                              *)
LEMMA ConfigurationStays ==
    ASSUME NEW p \in Seq(Message), OneConfiguration(p)
    PROVE  /\ \A m \in Message : m.type \in Announced => OneConfiguration(Append(p, m))
           /\ p # <<>> /\ Head(p).type # "configuration" => OneConfiguration(Tail(p))
           /\ p # <<>> /\ Head(p).type = "configuration" => OnlyOf(Tail(p), Announced)
  <1>1. PICK k \in 1..Len(p) : /\ p[k].type = "configuration"
                               /\ \A i \in 1..Len(p) : i # k => p[i].type \in Announced
    BY DEF OneConfiguration
  <1>2. ASSUME NEW m \in Message, m.type \in Announced PROVE OneConfiguration(Append(p, m))
    <2> DEFINE q == Append(p, m)
    <2>1. /\ Len(q) = Len(p) + 1 /\ q[Len(p) + 1] = m /\ Len(p) \in Nat
          /\ \A i \in 1..Len(p) : q[i] = p[i]
      BY More
    <2> HIDE DEF q
    <2>2. k \in 1..Len(q) /\ q[k].type = "configuration"
      BY <1>1, <2>1
    <2>3. \A i \in 1..Len(q) : i # k => q[i].type \in Announced
      BY <1>1, <1>2, <2>1
    <2>4. OneConfiguration(q)
      BY <2>2, <2>3 DEF OneConfiguration
    <2> QED BY <2>4 DEF q
  <1>3. ASSUME p # <<>>, Head(p).type # "configuration" PROVE OneConfiguration(Tail(p))
    <2>1. k # 1 /\ k - 1 \in 1..Len(Tail(p)) /\ Tail(p)[k - 1] = p[k]
      BY <1>1, <1>3, Rest
    <2>2. \A i \in 1..Len(Tail(p)) : i # k - 1 => Tail(p)[i].type \in Announced
      BY <1>1, <1>3, Rest
    <2> QED BY <1>1, <2>1, <2>2 DEF OneConfiguration
  <1>4. ASSUME p # <<>>, Head(p).type = "configuration" PROVE OnlyOf(Tail(p), Announced)
    <2>1. k = 1
      BY <1>1, <1>4, Rest DEF Announced
    <2> QED BY <1>1, <1>4, <2>1, Rest DEF OnlyOf
  <1> QED BY <1>2, <1>3, <1>4

LEMMA ConfigurationComes ==
    ASSUME NEW p \in Seq(Message), OnlyOf(p, Announced), NEW m \in Message, m.type = "configuration"
    PROVE  OneConfiguration(Append(p, m))
  <1> DEFINE q == Append(p, m)
  <1>1. /\ Len(q) = Len(p) + 1 /\ q[Len(p) + 1] = m /\ Len(p) \in Nat
        /\ \A i \in 1..Len(p) : q[i] = p[i]
    BY More
  <1> HIDE DEF q
  <1>2. OneConfiguration(q)
    <2>1. Len(q) \in 1..Len(q) /\ q[Len(q)].type = "configuration"
      BY <1>1
    <2>2. \A i \in 1..Len(q) : i # Len(q) => q[i].type \in Announced
      BY <1>1 DEF OnlyOf
    <2> QED BY <2>1, <2>2 DEF OneConfiguration
  <1> QED BY <1>2 DEF q

-----------------------------------------------------------------------------
(* What the operators return. *)

LEMMA ShownType ==
    ASSUME NEW c \in Config, NEW l \in SUBSET Ifaces
    PROVE  Shown(c, l) \in Config /\ Shown(c, l).allow = c.allow /\ Shown(c, l).ifs = c.ifs
  BY DEF Shown, Config

LEMMA MsgType ==
    ASSUME NEW type \in MessageTypes, NEW c \in Config
    PROVE  Msg(type, c) \in Message /\ Msg(type, c).type = type /\ Msg(type, c).cfg = c
  BY DEF Msg, Message

LEMMA NoteType ==
    /\ NoteMsg \in Message /\ NoteMsg.type = "notification"
    /\ FailedMsg \in Message /\ FailedMsg.type = "failed"
  BY DEF NoteMsg, FailedMsg, Message

LEMMA ResultType ==
    ASSUME NEW m \in Results
    PROVE  m \in Message /\ (m.type = "result" => m.cfg \in Config)
  BY DEF Results, FailedMsg, Message, MessageTypes

(* What is in force says which interfaces are attached, and on them        *)
(* whether allow_all is on.                                                *)
LEMMA InForceTells ==
    ASSUME NEW c \in Config, NEW d \in Config, InForce(c) = InForce(d)
    PROVE  c.ifs = d.ifs /\ (d.ifs # {} => c.allow = d.allow)
  <1>1. c.ifs = d.ifs
    BY DEF InForce
  <1>2. ASSUME NEW i \in d.ifs PROVE c.allow = d.allow
    BY <1>1, <1>2 DEF InForce
  <1> QED BY <1>1, <1>2

LEMMA NoticesGrow ==
    ASSUME NEW m \in Nat, NEW n \in Nat, m <= n
    PROVE  Notices(m) \subseteq Notices(n)
  BY DEF Notices

LEMMA MessageType ==
    ASSUME NEW m \in Message
    PROVE  /\ m.type \in MessageTypes \cup {"notification", "failed"}
           /\ m.type \in MessageTypes => m.cfg \in Config
           /\ m.type = "notification" => m = NoteMsg
           /\ IsResult(m) => m \in Results
  BY DEF NoteMsg, FailedMsg, Message, MessageTypes, IsResult, Results

LEMMA SnapshotType ==
    ASSUME NEW m, m.cfg \in Config
    PROVE  interfacesSnapshot(m) \in
               BOOLEAN \X UNION {[I -> BOOLEAN \X BOOLEAN] : I \in SUBSET Ifaces}
  <1>1. InForce(m.cfg) \in [m.cfg.ifs -> BOOLEAN \X BOOLEAN]
    <2>1. m.cfg.allow \in BOOLEAN
      BY DEF Config
    <2>2. \A i : (i \in m.cfg.forced) \in BOOLEAN
      OBVIOUS
    <2>3. \A i : <<m.cfg.allow, i \in m.cfg.forced>> \in BOOLEAN \X BOOLEAN
      BY <2>1, <2>2, Zenon
    <2> QED BY <2>3, Zenon DEF InForce
  <1>2. m.cfg.ifs \in SUBSET Ifaces
    BY DEF Config
  <1> QED BY <1>1, <1>2 DEF interfacesSnapshot

(* A check goes into the queue; the outcomes are left alone. *)
LEMMA CheckType ==
    ASSUME NEW n \in Networks
    PROVE  check(n) \in Networks /\ check(n).status = n.status
  BY UserBoundsAssumption DEF check, Networks

LEMMA CheckTypes ==
    ASSUME NEW n \in Networks, NEW m, m.cfg \in Config
    PROVE  /\ checkInterfacesEvent(n, m) \in Networks
           /\ checkInterfacesEvent(n, m).status = n.status
           /\ checkIfInterfacesChanged(n, m) \in Networks
           /\ checkIfInterfacesChanged(n, m).status = n.status
  <1> DEFINE k == [n EXCEPT !.snap = interfacesSnapshot(m)]
  <1>1. k \in Networks /\ k.status = n.status
    BY SnapshotType DEF Networks
  <1>2. check(k) \in Networks /\ check(k).status = n.status
    BY <1>1, CheckType
  <1> QED BY <1>2 DEF checkInterfacesEvent, checkIfInterfacesChanged

LEMMA NewNetworkType == NewNetwork \in Networks /\ NewNetwork.status = "none"
  <1>1. {} \in SUBSET Ifaces /\ <<>> \in [{} -> BOOLEAN \X BOOLEAN]
    OBVIOUS
  <1>2. <<>> \in UNION {[I -> BOOLEAN \X BOOLEAN] : I \in SUBSET Ifaces}
    BY <1>1
  <1>3. 0 \in 0..QueueSize
    BY UserBoundsAssumption
  <1> QED BY <1>2, <1>3 DEF NewNetwork, Networks

LEMMA MutatedType ==
    ASSUME NEW c \in Config, NEW req \in Requests,
           req # <<"subscribe">>, req # <<"config">>
    PROVE  Mutated(c, req) \in Config
  <1>1. req \in Mutations
    BY DEF Requests
  <1>2. \/ req[1] \in {"allow", "disallow"}
        \/ req[1] \in {"force", "unforce"} /\ req[2] \in Ifaces
    BY <1>1 DEF Mutations, Commands
  <1> QED BY <1>2 DEF Mutated, Config

(* The states that the tray is given. *)
LEMMA TrayStates ==
    ASSUME TrayTypes
    PROVE  /\ \A c \in Config : WithConfig(c) \in TrayState /\ WithConfig(c).net = tray.net
           /\ \A c \in Config : WithConfig(c).cfg = c
           /\ \A x \in Statuses : WithNetwork(x) \in TrayState /\ WithNetwork(x).net = x
           /\ \A x \in Statuses : WithNetwork(x).cfg = tray.cfg
           /\ \A c \in Config : FirstUpdate(c) \in TrayState /\ FirstUpdate(c).cfg = c
           /\ \A c \in Config :
                 FirstUpdate(c).net = IF ChecksEnabled THEN "checking" ELSE tray.net
  BY DEF TrayTypes, TrayState, WithConfig, WithNetwork, FirstUpdate

LEMMA NoTrayType == NoTray \in TrayState
  BY DEF NoTray, TrayState, Config

(* No announcement, one, or two. *)
LEMMA AnnounceNone ==
    ASSUME toClient \in Seq(Message), Announce(<<>>)
    PROVE  toClient' = toClient
  <1>1. [i \in DOMAIN <<>> |-> Msg(<<>>[i], Told')] = <<>>
    OBVIOUS
  <1>2. toClient' = IF subscribed THEN toClient \o [i \in DOMAIN <<>> |-> Msg(<<>>[i], Told')]
                    ELSE toClient
    BY DEF Announce, Told
  <1> QED BY <1>1, <1>2, JoinedNone

LEMMA AnnounceOne ==
    ASSUME NEW type \in MessageTypes, toClient \in Seq(Message), Told' \in Config,
           Announce(<<type>>)
    PROVE  toClient' = IF subscribed THEN Append(toClient, Msg(type, Told')) ELSE toClient
  <1>1. Msg(type, Told') \in Message
    BY MsgType
  <1>2. [i \in DOMAIN <<type>> |-> Msg(<<type>>[i], Told')] = <<Msg(type, Told')>>
    OBVIOUS
  <1>3. toClient' = IF subscribed THEN toClient \o [i \in DOMAIN <<type>> |-> Msg(<<type>>[i], Told')]
                    ELSE toClient
    BY DEF Announce, Told
  <1> QED BY <1>1, <1>2, <1>3, JoinedOne

LEMMA AnnounceTwo ==
    ASSUME NEW a \in MessageTypes, NEW b \in MessageTypes, toClient \in Seq(Message),
           Told' \in Config, Announce(<<a, b>>)
    PROVE  toClient' = IF subscribed
                       THEN Append(Append(toClient, Msg(a, Told')), Msg(b, Told')) ELSE toClient
  <1>1. Msg(a, Told') \in Message /\ Msg(b, Told') \in Message
    BY MsgType
  <1>2. [i \in DOMAIN <<a, b>> |-> Msg(<<a, b>>[i], Told')] = <<Msg(a, Told'), Msg(b, Told')>>
    OBVIOUS
  <1>3. toClient' = IF subscribed THEN toClient \o [i \in DOMAIN <<a, b>> |-> Msg(<<a, b>>[i], Told')]
                    ELSE toClient
    BY DEF Announce, Told
  <1>4. toClient \o <<Msg(a, Told'), Msg(b, Told')>>
            = Append(Append(toClient, Msg(a, Told')), Msg(b, Told'))
    BY <1>1, JoinedTwo
  <1> QED BY <1>2, <1>3, <1>4, Zenon

-----------------------------------------------------------------------------
(* Types. *)

LEMMA ToldType == ASSUME DaemonTypes PROVE Told \in Config
  BY ShownType DEF DaemonTypes, Told

LEMMA UseType ==
    ASSUME DaemonTypes,
           \/ Use("changes", MaxChanges) \/ Use("clicks", MaxClicks) \/ Use("world", MaxWorld)
    PROVE  /\ used' \in [changes : 0..MaxChanges, clicks : 0..MaxClicks, world : 0..MaxWorld]
           /\ used'.changes >= used.changes
           /\ Use("changes", MaxChanges) => used'.changes = used.changes + 1
  BY UserBoundsAssumption DEF DaemonTypes, Use

LEMMA UpdateTypes ==
    ASSUME TrayTypes, NEW state \in TrayState, Update(state), UNCHANGED commands
    PROVE  TrayTypes'
  <1>1. CASE ~TrayEnabled
    BY <1>1 DEF TrayTypes, Update
  <1>2. CASE TrayEnabled
    <2>1. <<state>> \in Seq(TrayState) /\ Len(<<state>>) = 1
      OBVIOUS
    <2>2. tray' = state /\ apply(state)
      BY <1>2 DEF Update
    <2>3. CASE menu' = menu
      BY <2>2, <2>3 DEF TrayTypes
    <2>4. CASE menu' = [menu EXCEPT !.shown = <<state>>, !.late = FALSE]
      <3>1. menu' \in [onReady : {"todo", "taken", "done"}, took : TrayState,
                       shown : Seq(TrayState), late : BOOLEAN] /\ menu'.shown = <<state>>
        BY <2>1, <2>4 DEF TrayTypes
      <3> QED BY <2>1, <2>2, <3>1 DEF TrayTypes
    <2> QED BY <2>2, <2>3, <2>4 DEF apply
  <1> QED BY <1>1, <1>2

LEMMA OnReadyTypes == ASSUME TrayTypes, onReady \/ onReadyApplies PROVE TrayTypes'
  <1>1. CASE onReady
    BY <1>1 DEF TrayTypes, onReady
  <1>2. CASE onReadyApplies
    <2>1. <<menu.took>> \in Seq(TrayState) /\ Len(<<menu.took>>) = 1
      BY DEF TrayTypes
    <2>2. (menu.shown # <<>> /\ menu.took # tray) \in BOOLEAN
      OBVIOUS
    <2>3. menu' \in [onReady : {"todo", "taken", "done"}, took : TrayState,
                     shown : Seq(TrayState), late : BOOLEAN]
      BY <1>2, <2>1, <2>2, NoTrayType, Zenon DEF onReadyApplies
    <2>4. menu'.shown = <<menu.took>>
      BY <1>2 DEF onReadyApplies
    <2> QED BY <1>2, <2>1, <2>3, <2>4 DEF TrayTypes, onReadyApplies
  <1> QED BY <1>1, <1>2

LEMMA EntriesType ==
    ASSUME TrayTypes, NEW shown \in TrayState, NEW cmd \in Entries(shown)
    PROVE  cmd \in Commands
  BY DEF TrayTypes, TrayState, Config, Entries, Commands

LEMMA ClickTypes == ASSUME TrayTypes, Click PROVE TrayTypes'
  <1>1. menu.shown[1] \in TrayState
    BY Rest DEF TrayTypes, Click
  <1>2. PICK cmd \in Entries(menu.shown[1]) :
            commands' = IF Len(commands) < TrayQueue THEN Append(commands, cmd) ELSE commands
    BY DEF Click
  <1>3. cmd \in Commands
    BY <1>1, EntriesType
  <1>4. commands' \in Seq(Commands) /\ Len(commands') <= TrayQueue
    <2>1. Len(commands) \in Nat /\ TrayQueue \in Nat
      BY TrayAssumption DEF TrayTypes
    <2> QED BY <1>2, <1>3, <2>1, More DEF TrayTypes
  <1> QED BY <1>4 DEF TrayTypes, Click

LEMMA TrayTypesKept == ASSUME Types, [Next]_vars PROVE TrayTypes'
  <1>0. TrayTypes
    BY DEF Types
  <1>1. CASE StartSession
    <2>1. Head(toClient).cfg \in Config
      BY <1>1, Rest, MessageType DEF StartSession, Types, DaemonTypes
    <2>2. FirstUpdate(Head(toClient).cfg) \in TrayState
      BY <1>0, <2>1, TrayStates
    <2> QED BY <1>0, <1>1, <2>2, UpdateTypes DEF StartSession
  <1>2. CASE ApplyTrayCommand
    BY <1>0, <1>2, Rest, TrayAssumption DEF ApplyTrayCommand, TrayTypes
  <1>3. CASE TakeResult
    <2>1. Head(results).cfg \in Config
      <3>1. Head(results) \in Results
        BY <1>3, Rest DEF TakeResult, Types, ClientTypes
      <3> QED BY <1>3, <3>1, ResultType DEF TakeResult
    <2>2. WithConfig(Head(results).cfg) \in TrayState
      BY <1>0, <2>1, TrayStates
    <2> QED BY <1>0, <1>3, <2>2, UpdateTypes DEF TakeResult
  <1>4. CASE TakeConfig \/ TakeInterfacesOrClients
    <2>1. events # <<>> /\ Head(events).type \in MessageTypes
      BY <1>4 DEF TakeConfig, TakeInterfacesOrClients, MessageTypes
    <2>2. Head(events).cfg \in Config
      BY <2>1, Rest, MessageType DEF Types, ClientTypes
    <2>3. WithConfig(Head(events).cfg) \in TrayState
      BY <1>0, <2>2, TrayStates
    <2> QED BY <1>0, <1>4, <2>3, UpdateTypes DEF TakeConfig, TakeInterfacesOrClients
  <1>5. CASE TakeCheckResult
    <2>1. network.result \in Statuses
      BY <1>5 DEF TakeCheckResult, Types, ClientTypes, Networks
    <2>2. WithNetwork(network.result) \in TrayState
      BY <1>0, <2>1, TrayStates
    <2> QED BY <1>0, <1>5, <2>2, UpdateTypes DEF TakeCheckResult
  <1>6. CASE TrayAppears
    BY <1>0, <1>6, OnReadyTypes DEF TrayAppears
  <1>7. CASE ClickTray
    BY <1>0, <1>7, ClickTypes DEF ClickTray
  <1>8. ASSUME UNCHANGED trayVars PROVE TrayTypes'
    BY <1>0, <1>8 DEF TrayTypes, trayVars
  <1> QED
    BY <1>1, <1>2, <1>3, <1>4, <1>5, <1>6, <1>7, <1>8
    DEF Next, Loop, Runner, vars, DaemonChanges, DaemonReleases, DaemonNotifies, DaemonAnswers,
        ConnectionLost, WorldChanges, Dial, WaitForConfig, Reader, DisableGlobalAllowAll,
        TakeFailure, TakeNotification, Tick, SessionEnds, RunnerStarts, runNetworkCheck, RunnerDelivers,
        ClickDisable

(* What the daemon announces of a change ends with a config message,       *)
(* unless there is nothing new to tell.                                    *)
ChangeTold ==
    \/ ~subscribed /\ toClient' = toClient
    \/ subscribed /\ RulesNow' = RulesNow /\ toClient' = toClient
    \/ /\ subscribed /\ RulesNow' = RulesNow
       /\ \E m \in Message : /\ m.type = "clients" /\ InForce(m.cfg) = RulesNow'
                             /\ toClient' = Append(toClient, m)
    \/ subscribed /\ toClient' = Append(toClient, Msg("config", Told'))
    \/ /\ subscribed
       /\ \E m \in Message :
             /\ m.type \in {"interfaces", "clients"}
             /\ toClient' = Append(Append(toClient, m), Msg("config", Told'))

LEMMA ChangesAreTold ==
    ASSUME DaemonTypes, DaemonChanges
    PROVE  cfg' \in Config /\ leftover' \in SUBSET Ifaces /\ Told' \in Config /\ ChangeTold
  <1>1. leftover' = leftover /\ leftover \in SUBSET Ifaces /\ cfg \in Config /\ toClient \in Seq(Message)
    BY DEF DaemonTypes, DaemonChanges
  <1>2. CASE cfg' = [cfg EXCEPT !.allow = ~@] /\ AnnounceMutation
    <2>1. cfg' \in Config
      BY <1>1, <1>2 DEF Config
    <2>2. Told' \in Config
      BY <1>1, <2>1, ShownType DEF Told
    <2>3. CASE RulesNow' = RulesNow
      <3>1. Announce(<<>>)
        BY <1>2, <2>3 DEF AnnounceMutation, RulesNow, Told
      <3>2. toClient' = toClient
        BY <1>1, <3>1, AnnounceNone
      <3> QED BY <1>1, <2>1, <2>2, <2>3, <3>2 DEF ChangeTold
    <2>4. CASE RulesNow' # RulesNow
      <3>1. Announce(<<"config">>)
        BY <1>2, <2>4 DEF AnnounceMutation, RulesNow, Told
      <3> QED BY <1>1, <2>1, <2>2, <3>1, AnnounceOne DEF ChangeTold, MessageTypes
    <2> QED BY <2>3, <2>4
  <1>3. CASE /\ \E I \in (SUBSET Ifaces) \ {cfg.ifs} : cfg' = [cfg EXCEPT !.ifs = I]
             /\ Announce(<<"interfaces", "config">>)
    <2>1. cfg' \in Config
      BY <1>1, <1>3 DEF Config
    <2>2. Told' \in Config
      BY <1>1, <2>1, ShownType DEF Told
    <2>3. /\ Msg("interfaces", Told') \in Message
          /\ Msg("interfaces", Told').type = "interfaces"
      BY <2>2, MsgType DEF MessageTypes
    <2>4. toClient' = IF subscribed
                      THEN Append(Append(toClient, Msg("interfaces", Told')), Msg("config", Told'))
                      ELSE toClient
      BY <1>1, <1>3, <2>2, AnnounceTwo DEF MessageTypes
    <2> QED BY <1>1, <2>1, <2>2, <2>3, <2>4 DEF ChangeTold
  <1>4. CASE cfg' = cfg /\ Announce(<<"clients">>)
    <2>1. Told' = Told /\ Told' \in Config /\ RulesNow' = RulesNow
      BY <1>1, <1>4, ShownType DEF Told, RulesNow
    <2>2. /\ Msg("clients", Told') \in Message /\ Msg("clients", Told').type = "clients"
          /\ InForce(Msg("clients", Told').cfg) = RulesNow'
      BY <2>1, MsgType DEF MessageTypes, RulesNow
    <2>3. toClient' = IF subscribed THEN Append(toClient, Msg("clients", Told')) ELSE toClient
      BY <1>1, <1>4, <2>1, AnnounceOne DEF MessageTypes
    <2> QED BY <1>1, <1>4, <2>1, <2>2, <2>3 DEF ChangeTold
  <1> QED BY <1>2, <1>3, <1>4 DEF DaemonChanges

LEMMA ReleasesAreTold ==
    ASSUME DaemonTypes, DaemonReleases
    PROVE  cfg' \in Config /\ leftover' \in SUBSET Ifaces /\ Told' \in Config /\ ChangeTold
  <1>1. leftover' = {} /\ leftover \in SUBSET Ifaces /\ cfg' = cfg /\ cfg \in Config
    BY DEF DaemonTypes, DaemonReleases
  <1>2. Told \in Config /\ Told' \in Config /\ Told' = Shown(cfg, {})
    BY <1>1, ShownType DEF Told
  <1>3. /\ Msg("clients", Told) \in Message /\ Msg("clients", Told).type = "clients"
        /\ Msg("clients", Told).cfg = Told
    BY <1>2, MsgType DEF MessageTypes
  <1>4. Msg("config", Told') \in Message
    BY <1>2, MsgType DEF MessageTypes
  <1>5. Append(toClient, Msg("clients", Told)) \in Seq(Message)
    BY <1>3, More DEF DaemonTypes
  <1>6. toClient' = IF subscribed
                    THEN Append(toClient, Msg("clients", Told))
                             \o (IF RulesNow' # RulesNow THEN <<Msg("config", Told')>> ELSE <<>>)
                    ELSE toClient
    BY <1>2 DEF DaemonReleases, Told, RulesNow
  <1>7. CASE ~subscribed
    BY <1>1, <1>2, <1>6, <1>7 DEF ChangeTold
  <1>8. CASE subscribed /\ RulesNow' = RulesNow
    <2>1. toClient' = Append(toClient, Msg("clients", Told))
      BY <1>5, <1>6, <1>8, JoinedNone
    <2>2. InForce(Msg("clients", Told).cfg) = RulesNow'
      BY <1>3, <1>8 DEF RulesNow
    <2> QED BY <1>1, <1>2, <1>3, <1>8, <2>1, <2>2 DEF ChangeTold
  <1>9. CASE subscribed /\ RulesNow' # RulesNow
    <2>1. toClient' = Append(Append(toClient, Msg("clients", Told)), Msg("config", Told'))
      BY <1>4, <1>5, <1>6, <1>9, JoinedOne
    <2> QED BY <1>1, <1>2, <1>3, <1>9, <2>1 DEF ChangeTold
  <1> QED BY <1>7, <1>8, <1>9 DEF DaemonTypes

LEMMA ToldArrives ==
    ASSUME DaemonTypes, Told' \in Config, ChangeTold
    PROVE  toClient' \in Seq(Message)
  <1>1. Msg("config", Told') \in Message
    BY MsgType DEF MessageTypes
  <1>2. ASSUME NEW m \in Message, toClient' = Append(Append(toClient, m), Msg("config", Told'))
        PROVE  toClient' \in Seq(Message)
    <2>1. Append(toClient, m) \in Seq(Message)
      BY More DEF DaemonTypes
    <2> QED BY <1>1, <1>2, <2>1, More
  <1>3. /\ \A m \in Message : Append(toClient, m) \in Seq(Message)
        /\ Append(toClient, Msg("config", Told')) \in Seq(Message)
    BY <1>1, More DEF DaemonTypes
  <1> QED BY <1>2, <1>3 DEF ChangeTold, DaemonTypes

(* The daemon's answers. *)
LEMMA AnswersTypes ==
    ASSUME DaemonTypes, DaemonAnswers
    PROVE  DaemonTypes'
  <1>1. toServer \in Seq(Requests) /\ toClient \in Seq(Message) /\ Told \in Config
    BY ToldType DEF DaemonTypes
  <1>2. Head(toServer) \in Requests /\ toServer' \in Seq(Requests)
    BY <1>1, Rest DEF DaemonAnswers
  <1>3. CASE SubscribeRequest
    <2>1. Append(toClient, Msg("clients", Told)) \in Seq(Message)
      BY <1>1, MsgType, More DEF MessageTypes
    <2>2. [i \in 1..buffered |-> NoteMsg] \in Seq(Message)
      BY NoteType DEF DaemonTypes
    <2>3. toClient' \in Seq(Message)
      BY <1>3, <2>1, <2>2, Joined DEF SubscribeRequest, Told
    <2> QED BY <1>2, <1>3, <2>3 DEF DaemonAnswers, SubscribeRequest, DaemonTypes
  <1>4. CASE ConfigRequest
    <2>1. toClient' \in Seq(Message)
      BY <1>1, <1>4, MsgType, More DEF ConfigRequest, Told, MessageTypes
    <2> QED BY <1>2, <1>4, <2>1 DEF DaemonAnswers, ConfigRequest, DaemonTypes, daemonVars
  <1>5. CASE /\ Head(toServer) # <<"subscribe">> /\ Head(toServer) # <<"config">>
             /\ MutationRequest(Head(toServer))
    <2>0. leftover' = leftover
      BY <1>5 DEF MutationRequest
    <2>1. CASE /\ cfg' = Mutated(cfg, Head(toServer))
               /\ \E x \in {<<>>, <<Msg("config", Told')>>} :
                      toClient' = Append(toClient, Msg("result", Told')) \o x
      <3>1. cfg' \in Config /\ leftover' = leftover
        BY <1>2, <1>5, <2>1, MutatedType DEF MutationRequest, DaemonTypes
      <3>2. Told' \in Config
        BY <3>1, ShownType DEF Told, DaemonTypes
      <3>3. Msg("result", Told') \in Message /\ Msg("config", Told') \in Message
        BY <3>2, MsgType DEF MessageTypes
      <3>4. Append(toClient, Msg("result", Told')) \in Seq(Message)
        BY <1>1, <3>3, More
      <3>5. toClient' \in Seq(Message)
        <4>1. <<>> \in Seq(Message) /\ <<Msg("config", Told')>> \in Seq(Message)
          BY <3>3
        <4> QED BY <2>1, <3>4, <4>1, Joined
      <3> QED BY <1>2, <1>5, <3>1, <3>5 DEF DaemonAnswers, MutationRequest, DaemonTypes
    <2>2. CASE UNCHANGED cfg /\ toClient' = Append(toClient, FailedMsg)
      <3>1. toClient' \in Seq(Message)
        BY <1>1, <2>2, NoteType, More
      <3> QED BY <1>2, <1>5, <2>2, <3>1 DEF DaemonAnswers, MutationRequest, DaemonTypes
    <2> QED BY <1>5, <2>0, <2>1, <2>2 DEF MutationRequest, Told
  <1> QED BY <1>3, <1>4, <1>5 DEF DaemonAnswers

LEMMA SendTypes ==
    ASSUME DaemonTypes, NEW req \in Requests, SendMutation(req)
    PROVE  toServer' \in Seq(Requests) /\ asked' \in BOOLEAN
  <1>1. Append(toServer, req) \in Seq(Requests)
    BY More DEF DaemonTypes
  <1> QED BY <1>1 DEF SendMutation, DaemonTypes

LEMMA DaemonTypesKept == ASSUME Types, Between, [Next]_vars PROVE DaemonTypes'
  <1>0. DaemonTypes
    BY DEF Types
  <1>1. CASE DaemonChanges
    <2>1. cfg' \in Config /\ leftover' \in SUBSET Ifaces /\ toClient' \in Seq(Message)
      BY <1>0, <1>1, ChangesAreTold, ToldArrives
    <2>2. /\ used' \in [changes : 0..MaxChanges, clicks : 0..MaxClicks, world : 0..MaxWorld]
          /\ used'.changes >= used.changes
      BY <1>0, <1>1, UseType DEF DaemonChanges
    <2>3. used.changes \in Nat /\ used'.changes \in Nat
      BY <1>0, <2>2, UserBoundsAssumption DEF DaemonTypes
    <2> QED BY <1>0, <1>1, <2>1, <2>2, <2>3 DEF DaemonChanges, DaemonTypes
  <1>2. CASE DaemonReleases
    BY <1>0, <1>2, ReleasesAreTold, ToldArrives DEF DaemonReleases, DaemonTypes
  <1>3. CASE DaemonNotifies
    <2>1. toClient' \in Seq(Message)
      <3>1. Append(toClient, NoteMsg) \in Seq(Message)
        BY <1>0, NoteType, More DEF DaemonTypes
      <3> QED BY <1>0, <1>3, <3>1 DEF DaemonNotifies, DaemonTypes
    <2>2. /\ used' \in [changes : 0..MaxChanges, clicks : 0..MaxClicks, world : 0..MaxWorld]
          /\ used'.changes = used.changes + 1
      BY <1>0, <1>3, UseType DEF DaemonNotifies
    <2>3. used.changes \in Nat
      BY <1>0, UserBoundsAssumption DEF DaemonTypes
    <2>4. buffered' \in Nat /\ buffered' <= used'.changes
      BY <1>0, <1>3, <2>2, <2>3 DEF DaemonNotifies, DaemonTypes
    <2> QED BY <1>0, <1>3, <2>1, <2>2, <2>4 DEF DaemonNotifies, DaemonTypes
  <1>4. CASE DaemonAnswers
    BY <1>0, <1>4, AnswersTypes
  <1>5. CASE ConnectionLost
    <2>1. cfg' \in Config /\ leftover' \in SUBSET Ifaces
      BY <1>0, <1>5 DEF ConnectionLost, DaemonTypes, Config
    <2>2. toServer' \in Seq(Requests)
      BY <1>5 DEF ConnectionLost
    <2> QED BY <1>0, <1>5, <2>1, <2>2 DEF ConnectionLost, DaemonTypes
  <1>6. CASE WorldChanges
    <2>1. /\ used' \in [changes : 0..MaxChanges, clicks : 0..MaxClicks, world : 0..MaxWorld]
          /\ used'.changes >= used.changes
      BY <1>0, <1>6, UseType DEF WorldChanges
    <2>2. used.changes \in Nat /\ used'.changes \in Nat
      BY <1>0, <2>1, UserBoundsAssumption DEF DaemonTypes
    <2> QED BY <1>0, <1>6, <2>1, <2>2 DEF WorldChanges, DaemonTypes, daemonVars, wireVars
  <1>7. CASE ClickDisable \/ ClickTray
    <2>1. /\ used' \in [changes : 0..MaxChanges, clicks : 0..MaxClicks, world : 0..MaxWorld]
          /\ used'.changes >= used.changes
      BY <1>0, <1>7, UseType DEF ClickDisable, ClickTray
    <2>2. used.changes \in Nat /\ used'.changes \in Nat
      BY <1>0, <2>1, UserBoundsAssumption DEF DaemonTypes
    <2>3. disable' \in BOOLEAN
      BY <1>0, <1>7, Zenon DEF ClickDisable, ClickTray, DaemonTypes
    <2> QED BY <1>0, <1>7, <2>1, <2>2, <2>3 DEF ClickDisable, ClickTray, DaemonTypes, daemonVars, wireVars
  <1>8. CASE Dial
    <2>1. toServer' \in Seq(Requests) /\ toClient' \in Seq(Message)
      BY <1>8 DEF Dial, Requests
    <2> QED BY <1>0, <1>8, <2>1 DEF Dial, DaemonTypes, daemonVars
  <1>9. CASE WaitForConfig \/ StartSession \/ Reader
    <2>1. toClient' \in Seq(Message)
      BY <1>0, <1>9, Rest DEF WaitForConfig, StartSession, Reader, DaemonTypes
    <2> QED BY <1>0, <1>9, <2>1 DEF WaitForConfig, StartSession, Reader, DaemonTypes, daemonVars
  <1>10. CASE DisableGlobalAllowAll
    <2>1. <<"disallow", "all">> \in Requests
      BY DEF Requests, Mutations, Commands
    <2> QED BY <1>0, <1>10, <2>1, SendTypes DEF DisableGlobalAllowAll, DaemonTypes, daemonVars
  <1>11. CASE ApplyTrayCommand
    <2>1. Head(commands) \in Commands
      BY <1>11, Rest DEF ApplyTrayCommand, Types, TrayTypes
    <2>2. toServer' \in Seq(Requests) /\ asked' \in BOOLEAN
      <3>1. CASE Head(commands)[1] = "open"
        BY <1>0, <1>11, <3>1 DEF ApplyTrayCommand, DaemonTypes
      <3>2. CASE Head(commands)[1] # "open"
        BY <1>0, <1>11, <2>1, <3>2, SendTypes DEF ApplyTrayCommand, Requests, Mutations
      <3> QED BY <3>1, <3>2
    <2> QED BY <1>0, <1>11, <2>2 DEF ApplyTrayCommand, DaemonTypes, daemonVars
  <1>12. ASSUME UNCHANGED <<daemonVars, wireVars, world, used>>, disable' \in {disable, FALSE}
         PROVE  DaemonTypes'
    BY <1>0, <1>12 DEF DaemonTypes, daemonVars, wireVars
  <1> QED
    BY <1>1, <1>2, <1>3, <1>4, <1>5, <1>6, <1>7, <1>8, <1>9, <1>10, <1>11, <1>12
    DEF Next, Loop, Runner, vars, TakeFailure, TakeResult, TakeNotification, TakeConfig,
        TakeInterfacesOrClients, TakeCheckResult, Tick, SessionEnds, RunnerStarts,
        runNetworkCheck, RunnerDelivers, TrayAppears

LEMMA NoticeType ==
    ASSUME ClientTypes, NEW c, NEW w
    PROVE  /\ updateGlobalAllowAll(c, w, session) \subseteq Notices(session)
           /\ finish(network) \subseteq Notices(session)
  <1>1. session \in 0..session /\ 0 \in 0..session
    BY UserBoundsAssumption DEF ClientTypes
  <1>2. \A notice \in Notices(session) :
            Given(notice, session) \subseteq Notices(session) /\ Closed(notice) \subseteq Notices(session)
    BY <1>1 DEF Notices, Given, Closed
  <1>3. NoNotice \in Notices(session)
    BY <1>1 DEF Notices, NoNotice
  <1> QED BY <1>2, <1>3, Zenon DEF ClientTypes, updateGlobalAllowAll, finish

LEMMA WatcherType ==
    ASSUME NEW c \in Config
    PROVE  [shown |-> c.allow, last |-> c.ifs] \in [shown : BOOLEAN, last : SUBSET Ifaces]
  BY DEF Config

LEMMA NewWatcherType == NewWatcher \in [shown : BOOLEAN, last : SUBSET Ifaces]
  BY DEF NewWatcher

LEMMA ClientTypesKept == ASSUME Types, Between, [Next]_vars PROVE ClientTypes'
  <1>0. ClientTypes
    BY DEF Types
  <1>1. CASE Dial
    <2>1. session' = session + 1 /\ session < MaxSessions
      BY <1>1 DEF Dial, Between
    <2>2. session \in Nat /\ MaxSessions \in Nat
      BY <1>0, UserBoundsAssumption DEF ClientTypes
    <2>3. session' \in 0..MaxSessions /\ Notices(session) \subseteq Notices(session')
      BY <2>1, <2>2, NoticesGrow
    <2> QED BY <1>0, <1>1, <2>3 DEF Dial, ClientTypes, channelVars, desktopVars
  <1>2. CASE StartSession
    <2>1. Head(toClient).cfg \in Config
      BY <1>2, Rest, MessageType DEF StartSession, Types, DaemonTypes
    <2>2. network' \in Networks
      <3> DEFINE n == [NewNetwork EXCEPT !.snap = interfacesSnapshot(Head(toClient))]
      <3>1. n \in Networks
        BY <2>1, NewNetworkType, SnapshotType DEF Networks
      <3>2. network' = check(n)
        BY <1>2 DEF StartSession
      <3> QED BY <3>1, <3>2, CheckType
    <2>3. watcher' \in [shown : BOOLEAN, last : SUBSET Ifaces]
      BY <1>2, <2>1, WatcherType DEF StartSession
    <2>4. allowNotice' \in Notices(session)
      BY <1>0, <1>2, NoticeType DEF StartSession
    <2> QED BY <1>0, <1>2, <2>2, <2>3, <2>4 DEF StartSession, ClientTypes, channelVars
  <1>3. CASE SessionEnds
    <2>1. events' \in Seq(Message) /\ Len(events') <= 1 /\ results' \in Seq(Results) /\ Len(results') <= 1
      BY <1>3 DEF SessionEnds
    <2> QED BY <1>0, <1>3, <2>1, NewNetworkType, NewWatcherType DEF SessionEnds, ClientTypes, desktopVars
  <1>4. CASE Reader
    <2>1. Head(toClient) \in Message
      BY <1>4, Rest DEF Reader, Types, DaemonTypes
    <2>2. IsResult(Head(toClient)) => Head(toClient) \in Results
      BY <2>1, MessageType
    <2>3. events' \in Seq(Message) /\ Len(events') <= 1
      <3>1. <<Head(toClient)>> \in Seq(Message) /\ Len(<<Head(toClient)>>) <= 1
        BY <2>1
      <3>2. events' = <<Head(toClient)>> \/ events' = events
        BY <1>4 DEF Reader
      <3> QED BY <1>0, <3>1, <3>2, Zenon DEF ClientTypes
    <2>4. results' \in Seq(Results) /\ Len(results') <= 1
      <3>1. CASE IsResult(Head(toClient))
        <4>1. <<Head(toClient)>> \in Seq(Results) /\ Len(<<Head(toClient)>>) <= 1
          BY <2>2, <3>1
        <4>2. results' = <<Head(toClient)>>
          BY <1>4, <3>1 DEF Reader
        <4> QED BY <4>1, <4>2, Zenon
      <3>2. CASE ~IsResult(Head(toClient))
        BY <1>0, <1>4, <3>2 DEF Reader, ClientTypes
      <3> QED BY <3>1, <3>2
    <2> QED BY <1>0, <1>4, <2>3, <2>4 DEF Reader, ClientTypes, sessionVars, desktopVars
  <1>5. CASE TakeResult
    <2>1. Head(results).cfg \in Config
      <3>1. Head(results) \in Results
        BY <1>0, <1>5, Rest DEF TakeResult, ClientTypes
      <3> QED BY <1>5, <3>1, ResultType DEF TakeResult
    <2>2. network' \in Networks
      BY <1>0, <1>5, <2>1, CheckTypes DEF TakeResult, ClientTypes
    <2>3. watcher' \in [shown : BOOLEAN, last : SUBSET Ifaces] /\ allowNotice' \in Notices(session)
      BY <1>0, <1>5, <2>1, WatcherType, NoticeType DEF TakeResult, update
    <2>4. results' \in Seq(Results) /\ Len(results') <= 1
      BY <1>5 DEF TakeResult
    <2> QED BY <1>0, <1>5, <2>2, <2>3, <2>4 DEF TakeResult, ClientTypes, sessionVars
  <1>6. CASE TakeConfig \/ TakeInterfacesOrClients \/ TakeNotification
    <2>1. events' \in Seq(Message) /\ Len(events') <= 1
      <3>1. events' = <<>>
        BY <1>6 DEF TakeConfig, TakeInterfacesOrClients, TakeNotification
      <3> QED BY <3>1
    <2>2. CASE TakeNotification
      BY <1>0, <2>1, <2>2 DEF TakeNotification, ClientTypes, sessionVars, desktopVars
    <2>3. CASE TakeConfig
      <3>1. Head(events).cfg \in Config
        BY <1>0, <2>3, Rest, MessageType DEF TakeConfig, ClientTypes
      <3>2. network' \in Networks
        BY <1>0, <2>3, <3>1, CheckTypes DEF TakeConfig, ClientTypes
      <3>3. watcher' \in [shown : BOOLEAN, last : SUBSET Ifaces] /\ allowNotice' \in Notices(session)
        BY <1>0, <2>3, <3>1, WatcherType, NoticeType DEF TakeConfig, update
      <3> QED BY <1>0, <2>1, <2>3, <3>2, <3>3 DEF TakeConfig, ClientTypes, sessionVars
    <2>4. CASE TakeInterfacesOrClients
      <3>1. Head(events).cfg \in Config
        BY <1>0, <2>4, Rest, MessageType DEF TakeInterfacesOrClients, ClientTypes
      <3>2. network' \in Networks
        BY <1>0, <2>4, <3>1, CheckTypes DEF TakeInterfacesOrClients, ClientTypes
      <3> QED
        BY <1>0, <2>1, <2>4, <3>2
        DEF TakeInterfacesOrClients, ClientTypes, sessionVars, desktopVars
    <2> QED BY <1>6, <2>2, <2>3, <2>4
  <1>7. CASE TakeCheckResult
    <2>1. network' \in Networks
      BY <1>0, <1>7 DEF TakeCheckResult, ClientTypes, Networks
    <2>2. portalNotice' \in Notices(session)
      BY <1>0, <1>7, NoticeType DEF TakeCheckResult
    <2> QED BY <1>0, <1>7, <2>1, <2>2 DEF TakeCheckResult, ClientTypes, sessionVars, channelVars
  <1>8. CASE Tick \/ Runner
    <2>1. CASE Tick
      BY <1>0, <2>1, CheckType DEF Tick, ClientTypes, sessionVars, channelVars, desktopVars
    <2>2. CASE Runner
      <3>1. network' \in Networks
        <4>1. CASE RunnerStarts
          <5>1. network.queue \in 0..QueueSize /\ network.queue > 0 /\ QueueSize \in Nat
            BY <1>0, <4>1, UserBoundsAssumption DEF RunnerStarts, ClientTypes, Networks
          <5>2. network.queue - 1 \in 0..QueueSize
            BY <5>1
          <5> QED BY <1>0, <4>1, <5>2 DEF RunnerStarts, ClientTypes, Networks
        <4>2. CASE runNetworkCheck
          BY <1>0, <4>2 DEF runNetworkCheck, Types, DaemonTypes, ClientTypes, Networks
        <4>3. CASE RunnerDelivers
          BY <1>0, <4>3 DEF RunnerDelivers, ClientTypes, Networks
        <4> QED BY <2>2, <4>1, <4>2, <4>3 DEF Runner
      <3> QED
        BY <1>0, <2>2, <3>1
        DEF Runner, RunnerStarts, runNetworkCheck, RunnerDelivers, ClientTypes,
            sessionVars, channelVars, desktopVars
    <2> QED BY <1>8, <2>1, <2>2
  <1>9. ASSUME UNCHANGED <<sessionVars, channelVars, watcher, network, desktopVars>>
        PROVE  ClientTypes'
    BY <1>0, <1>9 DEF ClientTypes, sessionVars, channelVars, desktopVars
  <1>10. CASE TakeFailure
    <2>1. results' \in Seq(Results) /\ Len(results') <= 1
      BY <1>10 DEF TakeFailure
    <2> QED BY <1>0, <1>10, <2>1 DEF TakeFailure, ClientTypes, sessionVars, desktopVars
  <1> QED
    BY <1>1, <1>2, <1>3, <1>4, <1>5, <1>6, <1>7, <1>8, <1>9, <1>10
    DEF Next, Loop, vars, DaemonChanges, DaemonReleases, DaemonNotifies, DaemonAnswers,
        ConnectionLost, WorldChanges, WaitForConfig, DisableGlobalAllowAll, ApplyTrayCommand,
        TrayAppears, ClickDisable, ClickTray

-----------------------------------------------------------------------------
(* Between sessions, the menu and the notices. *)

LEMMA NoneSubscribed ==
    ASSUME DaemonTypes, ~subscribed, DaemonChanges \/ DaemonReleases
    PROVE  toClient' = toClient
  BY ChangesAreTold, ReleasesAreTold DEF ChangeTold

LEMMA BetweenKept == ASSUME Types, Between, [Next]_vars PROVE Between'
  <1> DEFINE Open == (~up)' => session' < MaxSessions /\ ~subscribed'
             Dialling == phase' = "dial" => ~up' /\ toClient' = <<>>
             Counted == phase' # "dial" => session' # 0
             Fresh == phase' # "run" => /\ watcher' = NewWatcher /\ network' = NewNetwork
                                        /\ events' = <<>> /\ results' = <<>>
             Plain == ~TrayEnabled => tray' = NoTray
             Unchecked == ~ChecksEnabled =>
                 /\ tray'.net = "none"
                 /\ network'.queue = 0 /\ network'.runner = "idle" /\ network'.result = "none"
  <1>1. Open
    BY DEF Next, Loop, Runner, vars, daemonVars, wireVars, sessionVars, Between, Types,
           DaemonTypes, DaemonChanges, DaemonReleases, DaemonNotifies, DaemonAnswers,
           SubscribeRequest, ConfigRequest, MutationRequest, ConnectionLost, WorldChanges,
           Dial, WaitForConfig, StartSession, Reader, DisableGlobalAllowAll, ApplyTrayCommand,
           TakeFailure, TakeResult, TakeNotification, TakeConfig, TakeInterfacesOrClients, TakeCheckResult,
           Tick, SessionEnds, RunnerStarts, runNetworkCheck, RunnerDelivers, ClickDisable,
           TrayAppears, ClickTray
  <1>2. Dialling
    <2>1. CASE DaemonChanges \/ DaemonReleases
      BY <2>1, NoneSubscribed DEF Between, Types, DaemonChanges, DaemonReleases, sessionVars
    <2>2. CASE SessionEnds
      BY <2>2 DEF SessionEnds, wireVars
    <2>3. CASE DaemonNotifies \/ DaemonAnswers \/ ConnectionLost
      BY <2>3 DEF Between, DaemonNotifies, DaemonAnswers, ConnectionLost, sessionVars
    <2>4. ASSUME UNCHANGED <<phase, up, toClient>> PROVE Dialling
      BY <2>4 DEF Between
    <2>5. ASSUME phase' # "dial" PROVE Dialling
      BY <2>5
    <2> QED
      BY <2>1, <2>2, <2>3, <2>4, <2>5
      DEF Next, Loop, Runner, vars, wireVars, sessionVars, WorldChanges, Dial, WaitForConfig,
          StartSession, Reader, DisableGlobalAllowAll, ApplyTrayCommand, TakeFailure, TakeResult,
          TakeNotification, TakeConfig, TakeInterfacesOrClients, TakeCheckResult, Tick,
          RunnerStarts, runNetworkCheck, RunnerDelivers, ClickDisable, TrayAppears, ClickTray
  <1>3. Fresh
    <2>1. CASE SessionEnds
      BY <2>1 DEF SessionEnds
    <2>2. CASE Runner
      <3>1. CASE phase = "run"
        BY <2>2, <3>1 DEF Runner, RunnerStarts, runNetworkCheck, RunnerDelivers, sessionVars
      <3>2. CASE phase # "run"
        <4>1. /\ network.queue = 0 /\ network.runner = "idle"
              /\ network.runner \notin Statuses
          BY <3>2, StatusesAssumption DEF Between, NewNetwork
        <4> QED BY <2>2, <4>1 DEF Runner, RunnerStarts, runNetworkCheck, RunnerDelivers
      <3> QED BY <3>1, <3>2
    <2>3. ASSUME UNCHANGED <<phase, watcher, network, events, results>> PROVE Fresh
      BY <2>3 DEF Between
    <2>4. ASSUME phase' = "run" PROVE Fresh
      BY <2>4
    <2>5. CASE Dial
      BY <2>5 DEF Dial, Between, channelVars
    <2> QED
      BY <2>1, <2>2, <2>3, <2>4, <2>5
      DEF Next, Loop, vars, wireVars, sessionVars, channelVars, DaemonChanges, DaemonReleases,
          DaemonNotifies, DaemonAnswers, ConnectionLost, WorldChanges, WaitForConfig,
          StartSession, Reader, DisableGlobalAllowAll, ApplyTrayCommand, TakeFailure, TakeResult,
          TakeNotification, TakeConfig, TakeInterfacesOrClients, TakeCheckResult, Tick,
          ClickDisable, TrayAppears, ClickTray
  <1>4. Plain
    BY DEF Next, Loop, Runner, vars, trayVars, Between, Update, Click, onReady, onReadyApplies,
           DaemonChanges, DaemonReleases, DaemonNotifies, DaemonAnswers, ConnectionLost,
           WorldChanges, Dial, WaitForConfig, StartSession, Reader, DisableGlobalAllowAll,
           ApplyTrayCommand, TakeFailure, TakeResult, TakeNotification, TakeConfig, TakeInterfacesOrClients,
           TakeCheckResult, Tick, SessionEnds, RunnerStarts, runNetworkCheck, RunnerDelivers,
           ClickDisable, TrayAppears, ClickTray
  <1>5. Counted
    <2>1. CASE Dial
      BY <2>1 DEF Dial, Types, ClientTypes
    <2>2. ASSUME session' = session, phase' # "dial" => phase # "dial" PROVE Counted
      BY <2>2 DEF Between
    <2> QED
      BY <2>1, <2>2
      DEF Next, Loop, Runner, vars, sessionVars, DaemonChanges, DaemonReleases, DaemonNotifies,
          DaemonAnswers, ConnectionLost, WorldChanges, WaitForConfig, StartSession, Reader,
          DisableGlobalAllowAll, ApplyTrayCommand, TakeFailure, TakeResult, TakeNotification, TakeConfig,
          TakeInterfacesOrClients, TakeCheckResult, Tick, SessionEnds, RunnerStarts,
          runNetworkCheck, RunnerDelivers, ClickDisable, TrayAppears, ClickTray
  <1>6. Unchecked
    <2> SUFFICES ASSUME ~ChecksEnabled PROVE Unchecked
      OBVIOUS
    <2>1. /\ tray.net = "none" /\ network.queue = 0 /\ network.runner = "idle"
          /\ network.result = "none" /\ "idle" \notin Statuses
      BY StatusesAssumption DEF Between
    <2>2. ASSUME NEW n \in Networks, NEW m
          PROVE  /\ check(n).queue = n.queue /\ check(n).runner = n.runner /\ check(n).result = n.result
                 /\ checkInterfacesEvent(n, m).queue = n.queue
                 /\ checkInterfacesEvent(n, m).runner = n.runner
                 /\ checkInterfacesEvent(n, m).result = n.result
                 /\ checkIfInterfacesChanged(n, m).queue = n.queue
                 /\ checkIfInterfacesChanged(n, m).runner = n.runner
                 /\ checkIfInterfacesChanged(n, m).result = n.result
      BY <2>2 DEF check, checkInterfacesEvent, checkIfInterfacesChanged, Networks
    <2>3. network \in Networks /\ TrayTypes
      BY DEF Types, ClientTypes
    <2>4. CASE StartSession
      <3>1. Head(toClient).cfg \in Config
        BY <2>4, Rest, MessageType DEF StartSession, MessageTypes, Types, DaemonTypes
      <3>2. tray'.net = "none"
        BY <2>1, <2>3, <2>4, <3>1, TrayStates DEF StartSession, Update
      <3>3. network' = [NewNetwork EXCEPT !.snap = interfacesSnapshot(Head(toClient))]
        BY <2>4 DEF StartSession, check, NewNetwork
      <3> QED BY <3>2, <3>3 DEF NewNetwork
    <2>5. CASE SessionEnds
      BY <2>1, <2>5 DEF SessionEnds, NewNetwork, trayVars
    <2>6. CASE TakeResult \/ TakeConfig \/ TakeInterfacesOrClients
      <3>1. PICK m : /\ m.cfg \in Config /\ Update(WithConfig(m.cfg))
                     /\ network' \in {network, checkIfInterfacesChanged(network, m),
                                     checkInterfacesEvent(network, m)}
        <4>1. CASE TakeResult
          <5>1. Head(results) \in Results
            BY <4>1, Rest DEF TakeResult, Types, ClientTypes
          <5> QED BY <4>1, <5>1, ResultType DEF TakeResult
        <4>2. CASE TakeConfig
          <5>1. Head(events).cfg \in Config
            BY <4>2, Rest, MessageType DEF TakeConfig, MessageTypes, Types, ClientTypes
          <5> QED BY <4>2, <5>1 DEF TakeConfig
        <4>3. CASE TakeInterfacesOrClients
          <5>1. Head(events).cfg \in Config
            BY <4>3, Rest, MessageType DEF TakeInterfacesOrClients, MessageTypes, Types, ClientTypes
          <5> QED BY <4>3, <5>1 DEF TakeInterfacesOrClients
        <4> QED BY <2>6, <4>1, <4>2, <4>3
      <3>2. tray'.net = "none"
        BY <2>1, <2>3, <3>1, TrayStates DEF Update
      <3> QED BY <2>1, <2>2, <2>3, <3>1, <3>2
    <2>7. CASE TakeCheckResult \/ Tick \/ Runner
      BY <2>1, <2>7 DEF TakeCheckResult, Tick, Runner, RunnerStarts, runNetworkCheck, RunnerDelivers
    <2>8. ASSUME UNCHANGED <<tray, network>> PROVE Unchecked
      BY <2>1, <2>8
    <2> QED
      BY <2>4, <2>5, <2>6, <2>7, <2>8
      DEF Next, Loop, vars, trayVars, Click, onReady, onReadyApplies, DaemonChanges,
          DaemonReleases, DaemonNotifies, DaemonAnswers, ConnectionLost, WorldChanges, Dial,
          WaitForConfig, Reader, DisableGlobalAllowAll, ApplyTrayCommand, TakeFailure,
          TakeNotification, ClickDisable, TrayAppears, ClickTray
  <1> QED BY <1>1, <1>2, <1>3, <1>4, <1>5, <1>6 DEF Between

(* An update before, during or after onReady. *)
LEMMA UpdateFollows ==
    ASSUME TrayTypes, MenuFollows, NEW state \in TrayState, Update(state)
    PROVE  MenuFollows'
  <1>1. CASE UNCHANGED <<tray, menu>>
    BY <1>1 DEF MenuFollows, MenuIsCurrent
  <1>2. CASE TrayEnabled /\ tray' = state /\ apply(state)
    <2>1. CASE menu.onReady = "todo"
      BY <1>2, <2>1 DEF apply, MenuFollows, MenuIsCurrent
    <2>2. CASE state = tray
      BY <1>1, <1>2, <2>2 DEF apply
    <2>3. CASE menu.onReady # "todo" /\ state # tray
      <3>1. menu' = [menu EXCEPT !.shown = <<state>>, !.late = FALSE]
        BY <1>2, <2>3 DEF apply
      <3>2. /\ menu'.shown = <<tray'>> /\ menu'.onReady = menu.onReady
            /\ <<tray'>> # <<>>
        BY <1>2, <3>1 DEF TrayTypes
      <3> QED BY <2>3, <3>2 DEF MenuFollows, MenuIsCurrent
    <2> QED BY <2>1, <2>2, <2>3
  <1> QED BY <1>1, <1>2 DEF Update

LEMMA MenuKept == ASSUME Types, MenuFollows, [Next]_vars PROVE MenuFollows'
  <1>0. TrayTypes
    BY DEF Types
  <1>1. ASSUME UNCHANGED <<tray, menu>> PROVE MenuFollows'
    BY <1>1 DEF MenuFollows, MenuIsCurrent
  <1>2. CASE StartSession
    <2>1. Head(toClient).cfg \in Config
      BY <1>2, Rest, MessageType DEF StartSession, MessageTypes, Types, DaemonTypes
    <2>2. FirstUpdate(Head(toClient).cfg) \in TrayState
      BY <1>0, <2>1, TrayStates
    <2> QED BY <1>0, <1>2, <2>2, UpdateFollows DEF StartSession
  <1>3. CASE TakeResult
    <2>1. Head(results) \in Results
      BY <1>3, Rest DEF TakeResult, Types, ClientTypes
    <2>2. WithConfig(Head(results).cfg) \in TrayState
      BY <1>0, <1>3, <2>1, ResultType, TrayStates DEF TakeResult
    <2> QED BY <1>0, <1>3, <2>2, UpdateFollows DEF TakeResult
  <1>4. CASE TakeConfig \/ TakeInterfacesOrClients
    <2>1. events # <<>> /\ Head(events).type \in MessageTypes
      BY <1>4 DEF TakeConfig, TakeInterfacesOrClients, MessageTypes
    <2>2. Head(events).cfg \in Config
      BY <2>1, Rest, MessageType DEF Types, ClientTypes
    <2>3. WithConfig(Head(events).cfg) \in TrayState
      BY <1>0, <2>2, TrayStates
    <2> QED BY <1>0, <1>4, <2>3, UpdateFollows DEF TakeConfig, TakeInterfacesOrClients
  <1>5. CASE TakeCheckResult
    <2>1. network.result \in Statuses
      BY <1>5 DEF TakeCheckResult, Types, ClientTypes, Networks
    <2>2. WithNetwork(network.result) \in TrayState
      BY <1>0, <2>1, TrayStates
    <2> QED BY <1>0, <1>5, <2>2, UpdateFollows DEF TakeCheckResult
  <1>6. CASE TrayAppears
    <2>1. CASE onReady
      BY <1>0, <2>1 DEF onReady, TrayTypes, MenuFollows, MenuIsCurrent
    <2>2. CASE onReadyApplies
      <3>1. /\ menu'.onReady = "done" /\ menu'.shown = <<menu.took>> /\ tray' = tray
            /\ menu'.late <=> menu.shown # <<>> /\ menu.took # tray
        BY <2>2 DEF onReadyApplies
      <3>2. menu.shown = <<>> => menu.took = tray
        BY <2>2 DEF onReadyApplies, MenuFollows
      <3> QED BY <3>1, <3>2 DEF MenuFollows, MenuIsCurrent
    <2> QED BY <1>6, <2>1, <2>2 DEF TrayAppears
  <1> QED
    BY <1>1, <1>2, <1>3, <1>4, <1>5, <1>6
    DEF Next, Loop, Runner, vars, trayVars, Click, DaemonChanges, DaemonReleases, DaemonNotifies,
        DaemonAnswers, ConnectionLost, WorldChanges, Dial, WaitForConfig, Reader,
        DisableGlobalAllowAll, ApplyTrayCommand, TakeFailure, TakeNotification, Tick, SessionEnds,
        RunnerStarts, runNetworkCheck, RunnerDelivers, ClickDisable, ClickTray

(* A notice that has been given to the desktop, or closed, whether or not  *)
(* the desktop's call failed.                                              *)
LEMMA GivenIsOffered ==
    ASSUME NEW n \in Notices(session), NEW k \in Given(n, session)
    PROVE  k.calls = session /\ (k.shown \/ k.refused)
  BY DEF Notices, Given

LEMMA ClosedIsNotOffered ==
    ASSUME NEW n \in Notices(session), NEW k \in Closed(n)
    PROVE  ~k.shown /\ ~k.refused
  BY DEF Notices, Closed

(* A configuration that the watcher is given while a session runs. *)
LEMMA UpdateNotices ==
    ASSUME ClientTypes, NoticesFollow, phase = "run", NEW c \in Config, update(c), UNCHANGED session
    PROVE  /\ watcher'.shown <=> c.allow
           /\ watcher'.last = c.ifs
           /\ watcher'.shown => Offered(allowNotice)'
           /\ ~watcher'.shown => ~Offered(allowNotice)'
  <1>1. watcher' = [shown |-> c.allow, last |-> c.ifs] /\ c.allow \in BOOLEAN
    BY DEF update, Config
  <1>2. watcher'.shown = c.allow /\ watcher'.last = c.ifs
    BY <1>1
  <1>3. CASE c.allow /\ ~watcher.shown
    <2>1. allowNotice' \in Given(allowNotice, session)
      BY <1>3 DEF update, updateGlobalAllowAll
    <2> QED BY <1>2, <1>3, <2>1, GivenIsOffered DEF ClientTypes, Offered
  <1>4. CASE ~c.allow /\ watcher.shown
    <2>1. allowNotice' \in Closed(allowNotice)
      BY <1>4 DEF update, updateGlobalAllowAll
    <2> QED BY <1>2, <1>4, <2>1, ClosedIsNotOffered DEF ClientTypes, Offered
  <1>5. CASE (c.allow /\ watcher.shown) \/ (~c.allow /\ ~watcher.shown)
    <2>1. allowNotice' = allowNotice
      BY <1>5 DEF update, updateGlobalAllowAll
    <2> QED BY <1>2, <1>5, <2>1 DEF NoticesFollow, Offered
  <1> QED BY <1>3, <1>4, <1>5, Zenon

LEMMA NoticesKept == ASSUME Types, Between, NoticesFollow, [Next]_vars PROVE NoticesFollow'
  <1>1. ASSUME UNCHANGED <<phase, session, watcher, desktopVars>>, network'.status = network.status,
               phase = "run" => tray'.net = tray.net
        PROVE  NoticesFollow'
    BY <1>1 DEF NoticesFollow, Offered, PortalNoticeIsCurrent, LoginEntryWorks, desktopVars
  <1>2. CASE Dial
    <2>1. ~watcher.shown /\ network.status = "none"
      BY <1>2 DEF Dial, Between, NewWatcher, NewNetwork
    <2>2. ~Offered(allowNotice)'
      <3>1. /\ allowNotice' = allowNotice /\ session' = session + 1
            /\ allowNotice.calls \in 0..session /\ session \in Nat
        BY <1>2, UserBoundsAssumption DEF Dial, desktopVars, Types, ClientTypes, Notices
      <3> QED BY <3>1 DEF Offered
    <2> QED
      BY <1>2, <2>1, <2>2
      DEF Dial, NoticesFollow, PortalNoticeIsCurrent, LoginEntryWorks, desktopVars
  <1>3. CASE StartSession
    <2> DEFINE c == Head(toClient).cfg
    <2>1. c \in Config
      BY <1>3, Rest, MessageType DEF StartSession, MessageTypes, Types, DaemonTypes
    <2>2. watcher'.shown <=> c.allow
      BY <1>3, <2>1 DEF StartSession, Config
    <2>3. (c.allow => Offered(allowNotice)') /\ (~c.allow => ~Offered(allowNotice)')
      <3>1. session' = session
        BY <1>3 DEF StartSession
      <3>2. CASE c.allow
        <4>1. allowNotice' \in Given(allowNotice, session)
          BY <1>3, <3>2 DEF StartSession, updateGlobalAllowAll, NewWatcher
        <4> QED BY <3>1, <3>2, <4>1, GivenIsOffered DEF Types, ClientTypes, Offered
      <3>3. CASE ~c.allow
        <4>1. allowNotice' = allowNotice
          BY <1>3, <3>3 DEF StartSession, updateGlobalAllowAll, NewWatcher
        <4> QED BY <1>3, <3>1, <3>3, <4>1 DEF StartSession, NoticesFollow, Offered
      <3> QED BY <3>2, <3>3
    <2>4. network'.status = "none"
      <3> DEFINE n == [NewNetwork EXCEPT !.snap = interfacesSnapshot(Head(toClient))]
      <3>1. n \in Networks /\ n.status = "none"
        BY <2>1, NewNetworkType, SnapshotType DEF Networks
      <3> QED BY <1>3, <3>1, CheckType DEF StartSession
    <2>5. tray'.net # "login"
      <3>1. FirstUpdate(c).net # "login"
        BY <2>1, TrayStates DEF Types, Between
      <3> QED BY <1>3, <3>1 DEF StartSession, Update, Between, NoTray
    <2> QED
      BY <1>3, <2>2, <2>3, <2>4, <2>5
      DEF StartSession, NoticesFollow, PortalNoticeIsCurrent, LoginEntryWorks
  <1>4. CASE SessionEnds
    BY <1>4
    DEF SessionEnds, NoticesFollow, PortalNoticeIsCurrent, LoginEntryWorks, NewWatcher, NewNetwork
  <1>5. CASE TakeResult \/ TakeConfig
    <2>1. PICK m : /\ m.cfg \in Config /\ update(m.cfg) /\ Update(WithConfig(m.cfg))
                   /\ network' = checkIfInterfacesChanged(network, m)
      <3>1. CASE TakeResult
        <4>1. Head(results) \in Results
          BY <3>1, Rest DEF TakeResult, Types, ClientTypes
        <4> QED BY <3>1, <4>1, ResultType DEF TakeResult
      <3>2. CASE TakeConfig
        <4>1. Head(events).cfg \in Config
          BY <3>2, Rest, MessageType DEF TakeConfig, MessageTypes, Types, ClientTypes
        <4> QED BY <3>2, <4>1 DEF TakeConfig
      <3> QED BY <1>5, <3>1, <3>2
    <2>2. /\ phase = "run" /\ phase' = "run" /\ session' = session /\ portalNotice' = portalNotice
      BY <1>5 DEF TakeResult, TakeConfig, sessionVars
    <2>3. network'.status = network.status
      BY <2>1, CheckTypes DEF Types, ClientTypes
    <2>4. tray'.net = tray.net
      BY <2>1, TrayStates DEF Update, Types
    <2>5. (watcher'.shown => Offered(allowNotice)') /\ (~watcher'.shown => ~Offered(allowNotice)')
      BY <2>1, <2>2, UpdateNotices DEF Types
    <2>6. Offered(portalNotice)' <=> Offered(portalNotice)
      BY <2>2 DEF Offered
    <2> QED
      BY <2>2, <2>3, <2>4, <2>5, <2>6 DEF NoticesFollow, PortalNoticeIsCurrent, LoginEntryWorks
  <1>6. CASE TakeInterfacesOrClients
    <2>1. Head(events).cfg \in Config
      BY <1>6, Rest, MessageType DEF TakeInterfacesOrClients, MessageTypes, Types, ClientTypes
    <2>2. network'.status = network.status
      BY <1>6, <2>1, CheckTypes DEF TakeInterfacesOrClients, Types, ClientTypes
    <2>3. tray'.net = tray.net
      BY <1>6, <2>1, TrayStates DEF TakeInterfacesOrClients, Update, Types
    <2> QED BY <1>1, <1>6, <2>2, <2>3 DEF TakeInterfacesOrClients, sessionVars
  <1>7. CASE TakeCheckResult
    <2>1. /\ network.result \in Statuses /\ network'.status = network.result
          /\ network.result # "none"
      BY <1>7 DEF TakeCheckResult, Types, ClientTypes, Networks
    <2>2. PortalNoticeIsCurrent'
      <3>1. session' = session /\ portalNotice' \in finish(network)
        BY <1>7 DEF TakeCheckResult, sessionVars
      <3>2. CASE network.result # "login"
        BY <2>1, <3>1, <3>2 DEF finish, NoNotice, PortalNoticeIsCurrent
      <3>3. CASE network.result = "login" /\ network.status # "login"
        <4>1. portalNotice' \in Given(portalNotice, session)
          BY <3>1, <3>3 DEF finish
        <4>2. Offered(portalNotice)'
          BY <3>1, <4>1, GivenIsOffered DEF Types, ClientTypes, Offered
        <4> QED BY <2>1, <3>3, <4>2 DEF PortalNoticeIsCurrent
      <3>4. CASE network.result = "login" /\ network.status = "login"
        <4>1. portalNotice' = portalNotice
          BY <3>1, <3>4 DEF finish
        <4>2. Offered(portalNotice)
          BY <3>4 DEF NoticesFollow, PortalNoticeIsCurrent
        <4>3. Offered(portalNotice)'
          BY <3>1, <4>1, <4>2 DEF Offered
        <4> QED BY <2>1, <3>4, <4>3 DEF PortalNoticeIsCurrent
      <3> QED BY <3>2, <3>3, <3>4
    <2>3. tray'.net = "login" => network'.status = "login"
      <3>1. CASE TrayEnabled
        BY <1>7, <2>1, <3>1, TrayStates DEF TakeCheckResult, Update, Types
      <3>2. CASE ~TrayEnabled
        BY <1>7, <3>2 DEF TakeCheckResult, Update, Between, NoTray
      <3> QED BY <3>1, <3>2
    <2>4. /\ phase' = phase /\ watcher' = watcher
          /\ Offered(allowNotice)' <=> Offered(allowNotice)
      BY <1>7 DEF TakeCheckResult, sessionVars, Offered
    <2> QED BY <2>2, <2>3, <2>4 DEF NoticesFollow, LoginEntryWorks
  <1>8. CASE Tick
    BY <1>1, <1>8, CheckType DEF Tick, Types, ClientTypes, sessionVars, trayVars
  <1>9. CASE Runner
    <2>1. network'.status = network.status
      BY <1>9
      DEF Runner, RunnerStarts, runNetworkCheck, RunnerDelivers, Types, ClientTypes, Networks
    <2> QED
      BY <1>1, <1>9, <2>1
      DEF Runner, RunnerStarts, runNetworkCheck, RunnerDelivers, sessionVars, trayVars
  <1> QED
    BY <1>1, <1>2, <1>3, <1>4, <1>5, <1>6, <1>7, <1>8, <1>9
    DEF Next, Loop, vars, sessionVars, trayVars, Click, onReady, onReadyApplies, DaemonChanges,
        DaemonReleases, DaemonNotifies, DaemonAnswers, ConnectionLost, WorldChanges,
        WaitForConfig, Reader, DisableGlobalAllowAll, ApplyTrayCommand, TakeFailure,
        TakeNotification, ClickDisable, TrayAppears, ClickTray

-----------------------------------------------------------------------------
(* What the daemon tells and what the user is shown. *)

(* What is coming becomes q when the rules in force, c before, are d.      *)
Grown(p, q, c, d) ==
    \/ c = d /\ q = p
    \/ /\ c = d
       /\ \E m \in Message : /\ q = Append(p, m)
                             /\ m = NoteMsg \/ (m.type = "clients" /\ InForce(m.cfg) = d)
    \/ \E m \in Message : q = Append(p, m) /\ m.type = "config" /\ InForce(m.cfg) = d
    \/ \E k, m \in Message : /\ k.type \in {"interfaces", "clients"}
                             /\ m.type = "config" /\ InForce(m.cfg) = d
                             /\ q = Append(Append(p, k), m)

LEMMA GrownKeeps ==
    ASSUME NEW p \in Seq(Message), NEW q, NEW c, NEW d, Grown(p, q, c, d)
    PROVE  /\ OnlyOf(p, Announced) => OnlyOf(q, Announced)
           /\ OneConfiguration(p) => OneConfiguration(q)
           /\ LastHas(p, ForTray, c) => LastHas(q, ForTray, d)
           /\ LastHas(p, ForNotice, c) => LastHas(q, ForNotice, d)
           /\ NoneOf(q, ForTray) => NoneOf(p, ForTray) /\ c = d
           /\ NoneOf(q, ForNotice) => NoneOf(p, ForNotice) /\ c = d
  <1>0. CASE c = d /\ q = p
    BY <1>0
  <1>1. CASE /\ c = d
             /\ \E m \in Message : /\ q = Append(p, m)
                                   /\ m = NoteMsg \/ (m.type = "clients" /\ InForce(m.cfg) = d)
    <2>1. PICK m \in Message : /\ q = Append(p, m)
                               /\ m = NoteMsg \/ (m.type = "clients" /\ InForce(m.cfg) = d)
      BY <1>1
    <2>2. /\ m.type \in Announced /\ m.type \notin ForNotice
          /\ m.type \in ForTray => InForce(m.cfg) = c
      BY <1>1, <2>1, NoteType DEF Announced, ForNotice, ForTray, MessageTypes
    <2>3. OnlyOf(p, Announced) => OnlyOf(q, Announced)
      BY <2>1, <2>2, OnlyMore
    <2>4. OneConfiguration(p) => OneConfiguration(q)
      BY <2>1, <2>2, ConfigurationStays
    <2>5. /\ LastHas(p, ForTray, c) => LastHas(q, ForTray, d)
          /\ LastHas(p, ForNotice, c) => LastHas(q, ForNotice, d)
      BY <1>1, <2>1, <2>2, LastStays
    <2>6. /\ NoneOf(q, ForTray) => NoneOf(p, ForTray)
          /\ NoneOf(q, ForNotice) => NoneOf(p, ForNotice)
      BY <2>1, NoneMore
    <2> QED BY <1>1, <2>3, <2>4, <2>5, <2>6
  <1>2. ASSUME NEW r \in Seq(Message), NEW m \in Message, m.type = "config", InForce(m.cfg) = d,
               q = Append(r, m),
               OnlyOf(p, Announced) => OnlyOf(r, Announced),
               OneConfiguration(p) => OneConfiguration(r)
        PROVE  /\ OnlyOf(p, Announced) => OnlyOf(q, Announced)
               /\ OneConfiguration(p) => OneConfiguration(q)
               /\ LastHas(q, ForTray, d) /\ LastHas(q, ForNotice, d)
               /\ ~NoneOf(q, ForTray) /\ ~NoneOf(q, ForNotice)
    <2>1. m.type \in Announced /\ m.type \in ForNotice /\ m.type \in ForTray
      BY <1>2 DEF Announced, ForNotice, ForTray, MessageTypes
    <2>2. OnlyOf(p, Announced) => OnlyOf(q, Announced)
      BY <1>2, <2>1, OnlyMore
    <2>3. OneConfiguration(p) => OneConfiguration(q)
      BY <1>2, <2>1, ConfigurationStays
    <2>4. LastHas(q, ForTray, d) /\ LastHas(q, ForNotice, d)
      BY <1>2, <2>1, LastIsNew
    <2>5. ~NoneOf(q, ForTray) /\ ~NoneOf(q, ForNotice)
      BY <1>2, <2>1, OnlyMore
    <2> QED BY <2>2, <2>3, <2>4, <2>5
  <1>3. CASE \E m \in Message : q = Append(p, m) /\ m.type = "config" /\ InForce(m.cfg) = d
    BY <1>2, <1>3
  <1>4. CASE \E k, m \in Message : /\ k.type \in {"interfaces", "clients"}
                                   /\ m.type = "config" /\ InForce(m.cfg) = d
                                   /\ q = Append(Append(p, k), m)
    <2>1. PICK k \in Message, m \in Message : /\ k.type \in {"interfaces", "clients"}
                                              /\ m.type = "config" /\ InForce(m.cfg) = d
                                              /\ q = Append(Append(p, k), m)
      BY <1>4
    <2>2. PICK r : r = Append(p, k)
      OBVIOUS
    <2>3. r \in Seq(Message) /\ q = Append(r, m) /\ k.type \in Announced
      BY <2>1, <2>2, More DEF Announced
    <2>4. OnlyOf(p, Announced) => OnlyOf(r, Announced)
      BY <2>2, <2>3, OnlyMore
    <2>5. OneConfiguration(p) => OneConfiguration(r)
      BY <2>2, <2>3, ConfigurationStays
    <2> QED BY <1>2, <2>1, <2>3, <2>4, <2>5
  <1> QED BY <1>0, <1>1, <1>3, <1>4 DEF Grown

LEMMA ComingType == ASSUME Types PROVE Coming \in Seq(Message)
  BY Joined DEF Coming, Types, DaemonTypes, ClientTypes

(* One message more on its way. *)
LEMMA ComingMore ==
    ASSUME Types, NEW m \in Message, toClient' = Append(toClient, m), UNCHANGED events
    PROVE  Coming' = Append(Coming, m)
  <1>1. events \in Seq(Message) /\ toClient \in Seq(Message)
    BY DEF Types, DaemonTypes, ClientTypes
  <1>2. events \o Append(toClient, m) = Append(events \o toClient, m)
    BY <1>1, JoinedMore
  <1> QED BY <1>2 DEF Coming

LEMMA ComingGrows ==
    ASSUME Types, subscribed, DaemonChanges \/ DaemonReleases \/ DaemonNotifies
    PROVE  Grown(Coming, Coming', RulesNow, RulesNow')
  <1>0. UNCHANGED events
    BY DEF DaemonChanges, DaemonReleases, DaemonNotifies, channelVars
  <1>1. CASE DaemonNotifies
    <2>1. RulesNow' = RulesNow /\ toClient' = Append(toClient, NoteMsg)
      BY <1>1 DEF DaemonNotifies, RulesNow, Told
    <2>2. Coming' = Append(Coming, NoteMsg)
      BY <1>0, <2>1, NoteType, ComingMore
    <2> QED BY <2>1, <2>2, NoteType DEF Grown
  <1>2. CASE DaemonChanges \/ DaemonReleases
    <2>1. Told' \in Config /\ ChangeTold
      BY <1>2, ChangesAreTold, ReleasesAreTold DEF Types
    <2>2. /\ Msg("config", Told') \in Message
          /\ Msg("config", Told').type = "config" /\ InForce(Msg("config", Told').cfg) = RulesNow'
      BY <2>1, MsgType DEF MessageTypes, RulesNow
    <2>3. CASE /\ RulesNow' = RulesNow
               /\ \E m \in Message : /\ m.type = "clients" /\ InForce(m.cfg) = RulesNow'
                                     /\ toClient' = Append(toClient, m)
      <3>1. PICK m \in Message : /\ m.type = "clients" /\ InForce(m.cfg) = RulesNow'
                                 /\ toClient' = Append(toClient, m)
        BY <2>3
      <3>2. Coming' = Append(Coming, m)
        BY <1>0, <3>1, ComingMore
      <3> QED BY <2>3, <3>1, <3>2 DEF Grown
    <2>6. CASE RulesNow' = RulesNow /\ toClient' = toClient
      <3>1. Coming' = Coming
        BY <1>0, <2>6 DEF Coming
      <3> QED BY <2>6, <3>1 DEF Grown
    <2>4. CASE toClient' = Append(toClient, Msg("config", Told'))
      <3>1. Coming' = Append(Coming, Msg("config", Told'))
        BY <1>0, <2>2, <2>4, ComingMore
      <3> QED BY <2>2, <3>1 DEF Grown
    <2>5. CASE \E m \in Message :
                   /\ m.type \in {"interfaces", "clients"}
                   /\ toClient' = Append(Append(toClient, m), Msg("config", Told'))
      <3>1. PICK m \in Message : /\ m.type \in {"interfaces", "clients"}
                                 /\ toClient' = Append(Append(toClient, m), Msg("config", Told'))
        BY <2>5
      <3>2. events \in Seq(Message) /\ toClient \in Seq(Message)
        BY DEF Types, DaemonTypes, ClientTypes
      <3>3. Append(toClient, m) \in Seq(Message)
        BY <3>2, More
      <3>4. Coming' = Append(events \o Append(toClient, m), Msg("config", Told'))
        BY <1>0, <2>2, <3>1, <3>2, <3>3, JoinedMore DEF Coming
      <3>5. Coming' = Append(Append(Coming, m), Msg("config", Told'))
        BY <3>2, <3>4, JoinedMore DEF Coming
      <3> QED BY <2>2, <3>1, <3>5 DEF Grown
    <2> QED BY <2>1, <2>3, <2>4, <2>5, <2>6 DEF ChangeTold
  <1> QED BY <1>1, <1>2

(* The daemon tells something while a session waits or runs. *)
LEMMA FollowsDaemon ==
    ASSUME Types, Follows, DaemonChanges \/ DaemonReleases \/ DaemonNotifies
    PROVE  Follows'
  <1>1. UNCHANGED <<phase, up, asked, toServer, subscribed, events, results, tray, watcher>>
    BY DEF DaemonChanges, DaemonReleases, DaemonNotifies, sessionVars, channelVars, trayVars
  <1>2. PICK p : p = Coming
    OBVIOUS
  <1>3. PICK q : q = Coming'
    OBVIOUS
  <1>4. PICK c : c = RulesNow
    OBVIOUS
  <1>5. PICK d : d = RulesNow'
    OBVIOUS
  <1>6. p \in Seq(Message)
    BY <1>2, ComingType
  <1>7. subscribed => Grown(p, q, c, d)
    BY <1>2, <1>3, <1>4, <1>5, ComingGrows
  <1>8. subscribed =>
           /\ OnlyOf(p, Announced) => OnlyOf(q, Announced)
           /\ OneConfiguration(p) => OneConfiguration(q)
           /\ LastHas(p, ForTray, c) => LastHas(q, ForTray, d)
           /\ LastHas(p, ForNotice, c) => LastHas(q, ForNotice, d)
           /\ NoneOf(q, ForTray) => NoneOf(p, ForTray) /\ c = d
           /\ NoneOf(q, ForNotice) => NoneOf(p, ForNotice) /\ c = d
    BY <1>6, <1>7, GrownKeeps
  <1>9. ASSUME phase = "wait", up PROVE Waiting'
    <2>1. Waiting
      BY <1>9 DEF Follows
    <2>2. CASE toServer = << <<"subscribe">>, <<"config">> >> /\ ~subscribed /\ toClient = <<>>
      <3>1. toClient' = toClient
        BY <2>2, NoneSubscribed DEF DaemonNotifies, Types
      <3> QED BY <1>1, <2>2, <3>1 DEF Waiting
    <2>3. CASE toServer = << <<"config">> >> /\ subscribed /\ OnlyOf(Coming, Announced)
      BY <1>1, <1>2, <1>3, <1>8, <2>3 DEF Waiting
    <2>4. CASE toServer = <<>> /\ subscribed /\ OneConfiguration(Coming) /\ Current
      BY <1>1, <1>2, <1>3, <1>4, <1>5, <1>8, <2>4 DEF Waiting, Current
    <2> QED BY <2>1, <2>2, <2>3, <2>4 DEF Waiting
  <1>10. ASSUME phase = "run", up, ~asked PROVE Running'
    <2>1. Running
      BY <1>10 DEF Follows
    <2>2. toServer' = <<>> /\ subscribed' /\ results' = <<>> /\ subscribed
      BY <1>1, <2>1 DEF Running
    <2>3. OnlyOf(q, Announced) /\ LastHas(q, ForTray, d) /\ LastHas(q, ForNotice, d)
      BY <1>2, <1>4, <1>8, <2>1, <2>2 DEF Running, Current
    <2>4. NoneOf(q, ForTray) /\ TrayEnabled => InForce(tray'.cfg) = d
      BY <1>1, <1>2, <1>4, <1>8, <2>1, <2>2 DEF Running
    <2>5. NoneOf(q, ForNotice) => Noticed'
      <3>1. Told.ifs = cfg.ifs /\ Told.allow = cfg.allow /\ Told \in Config
        BY ShownType DEF Told, Types, DaemonTypes
      <3>2. cfg' \in Config /\ leftover' \in SUBSET Ifaces
        BY ChangesAreTold, ReleasesAreTold DEF DaemonNotifies, Types, DaemonTypes
      <3>3. Told'.ifs = cfg'.ifs /\ Told'.allow = cfg'.allow /\ Told' \in Config
        BY <3>2, ShownType DEF Told
      <3>4. ASSUME c = d PROVE cfg'.ifs = cfg.ifs /\ (cfg.ifs # {} => cfg'.allow = cfg.allow)
        <4>1. InForce(Told') = InForce(Told)
          BY <1>4, <1>5, <3>4 DEF RulesNow
        <4> QED BY <3>1, <3>3, <4>1, InForceTells
      <3> QED BY <1>1, <1>2, <1>8, <2>1, <2>2, <3>4 DEF Running, Noticed
    <2> QED BY <1>3, <1>5, <2>2, <2>3, <2>4, <2>5 DEF Running, Current
  <1> QED BY <1>1, <1>9, <1>10 DEF Follows

(* The daemon's answers to the two requests of a session that waits. *)
LEMMA FollowsAnswers ==
    ASSUME Types, Between, Follows, DaemonAnswers
    PROVE  Follows'
  <1>1. UNCHANGED <<phase, up, asked, events, results, tray, watcher>>
    BY DEF DaemonAnswers, sessionVars, channelVars, trayVars
  <1>2. toServer # <<>>
    BY DEF DaemonAnswers
  <1>3. ASSUME phase = "wait", up PROVE Waiting'
    <2>1. Waiting /\ events = <<>> /\ toClient \in Seq(Message) /\ Told \in Config
      BY <1>3, ToldType DEF Follows, Between, Types, DaemonTypes
    <2>2. CASE toServer = << <<"subscribe">>, <<"config">> >> /\ ~subscribed /\ toClient = <<>>
      <3>1. Head(toServer) = <<"subscribe">> /\ Tail(toServer) = << <<"config">> >>
        BY <2>2
      <3>2. SubscribeRequest /\ toServer' = << <<"config">> >>
        BY <3>1 DEF DaemonAnswers
      <3>3. PICK a : a = Append(toClient, Msg("clients", Told))
        OBVIOUS
      <3>4. PICK b : b = [i \in 1..buffered |-> NoteMsg]
        OBVIOUS
      <3>5. toClient' = a \o b
        BY <3>2, <3>3, <3>4 DEF SubscribeRequest, Told
      <3>6. a \in Seq(Message) /\ OnlyOf(a, Announced)
        <4>1. Msg("clients", Told) \in Message /\ Msg("clients", Told).type \in Announced
          BY <2>1, MsgType DEF MessageTypes, Announced
        <4>2. OnlyOf(toClient, Announced)
          BY <2>2 DEF OnlyOf
        <4> QED BY <2>1, <3>3, <4>1, <4>2, More, OnlyMore
      <3>7. b \in Seq(Message) /\ OnlyOf(b, Announced)
        BY <3>4, NoteType DEF OnlyOf, Announced, Types, DaemonTypes
      <3>8. OnlyOf(a \o b, Announced) /\ a \o b \in Seq(Message)
        BY <3>6, <3>7, OnlyJoined, Joined
      <3>9. Coming' = a \o b
        BY <1>1, <2>1, <3>5, <3>8, JoinedNone DEF Coming
      <3> QED BY <3>2, <3>8, <3>9 DEF Waiting, SubscribeRequest
    <2>3. CASE toServer = << <<"config">> >> /\ subscribed /\ OnlyOf(Coming, Announced)
      <3>1. Head(toServer) = <<"config">> /\ Tail(toServer) = <<>> /\ <<"config">> # <<"subscribe">>
        BY <2>3
      <3>2. ConfigRequest /\ toServer' = <<>>
        BY <3>1 DEF DaemonAnswers
      <3>3. Told' = Told /\ subscribed' = subscribed
        BY <3>2 DEF ConfigRequest, Told, daemonVars
      <3>4. PICK m : m = Msg("configuration", Told)
        OBVIOUS
      <3>5. m \in Message /\ m.type = "configuration" /\ m.cfg = Told
        BY <2>1, <3>4, MsgType DEF MessageTypes
      <3>6. toClient' = Append(toClient, m)
        BY <3>2, <3>4 DEF ConfigRequest, Told
      <3>7. PICK p : p = Coming
        OBVIOUS
      <3>8. Coming' = Append(p, m) /\ p \in Seq(Message)
        BY <1>1, <3>5, <3>6, <3>7, ComingMore, ComingType
      <3>9. OneConfiguration(Append(p, m))
        BY <2>3, <3>5, <3>7, <3>8, ConfigurationComes
      <3>10. PICK c : c = RulesNow
        OBVIOUS
      <3>11. LastHas(Append(p, m), ForTray, c) /\ LastHas(Append(p, m), ForNotice, c)
        BY <3>5, <3>8, <3>10, LastIsNew DEF ForTray, ForNotice, MessageTypes, RulesNow
      <3> QED BY <2>3, <3>2, <3>3, <3>8, <3>9, <3>10, <3>11 DEF Waiting, Current, RulesNow
    <2> QED BY <1>2, <2>1, <2>2, <2>3 DEF Waiting
  <1>4. ~(phase = "run" /\ up /\ ~asked)
    BY <1>2 DEF Follows, Running
  <1> QED BY <1>1, <1>3, <1>4 DEF Follows

LEMMA FollowsFirst ==
    ASSUME Types, Between, Follows, WaitForConfig \/ StartSession
    PROVE  Follows'
  <1>1. PICK p : p = Coming
    OBVIOUS
  <1>2. PICK c : c = RulesNow
    OBVIOUS
  <1>3. /\ phase = "wait" /\ toClient # <<>> /\ toClient' = Tail(toClient) /\ ~asked
        /\ UNCHANGED <<up, asked, toServer, subscribed, events, results, cfg, leftover>>
    BY DEF WaitForConfig, StartSession, daemonVars, channelVars, Follows
  <1>4. p = toClient /\ p \in Seq(Message) /\ Coming' = Tail(p) /\ RulesNow' = c
    <2>1. events = <<>> /\ toClient \in Seq(Message)
      BY <1>3 DEF Between, Types, DaemonTypes
    <2>2. Tail(toClient) \in Seq(Message)
      BY <1>3, <2>1, Rest
    <2> QED BY <1>1, <1>2, <1>3, <2>1, <2>2, JoinedNone DEF Coming, Told, RulesNow
  <1>5. CASE ~up
    BY <1>3, <1>5 DEF Follows, WaitForConfig, StartSession
  <1>6. CASE up /\ WaitForConfig
    <2>1. Waiting /\ phase' = "wait" /\ Head(p).type # "configuration"
      BY <1>3, <1>4, <1>6 DEF Follows, WaitForConfig, sessionVars
    <2>2. CASE toServer = << <<"config">> >> /\ subscribed /\ OnlyOf(Coming, Announced)
      <3>1. OnlyOf(Tail(p), Announced)
        BY <1>1, <1>3, <1>4, <2>2, OnlyRest
      <3> QED BY <1>3, <1>4, <2>1, <2>2, <3>1 DEF Follows, Waiting
    <2>3. CASE toServer = <<>> /\ subscribed /\ OneConfiguration(Coming) /\ Current
      <3>1. OneConfiguration(Tail(p))
        BY <1>1, <1>3, <1>4, <2>1, <2>3, ConfigurationStays
      <3>2. LastHas(Tail(p), ForTray, c) /\ LastHas(Tail(p), ForNotice, c)
        BY <1>1, <1>2, <1>3, <1>4, <2>3, LastAfterFirst DEF Current
      <3> QED BY <1>3, <1>4, <2>1, <2>3, <3>1, <3>2 DEF Follows, Waiting, Current
    <2> QED BY <1>3, <2>1, <2>2, <2>3 DEF Waiting
  <1>7. CASE up /\ StartSession
    <2>1. Waiting /\ phase' = "run" /\ Head(p).type = "configuration"
      BY <1>3, <1>4, <1>7 DEF Follows, StartSession
    <2>2. ~OnlyOf(p, Announced)
      BY <1>3, <1>4, <2>1, OnlyRest DEF Announced
    <2>3. toServer = <<>> /\ subscribed /\ OneConfiguration(p) /\ Current
      BY <1>1, <1>3, <2>1, <2>2 DEF Waiting
    <2>4. OnlyOf(Tail(p), Announced)
      BY <1>3, <1>4, <2>1, <2>3, ConfigurationStays
    <2>5. Head(p).type \in ForTray /\ Head(p).type \in ForNotice
      BY <2>1 DEF ForTray, ForNotice, MessageTypes
    <2>6. /\ LastHas(Tail(p), ForTray, c) /\ LastHas(Tail(p), ForNotice, c)
          /\ NoneOf(Tail(p), ForTray) => InForce(Head(p).cfg) = c
          /\ NoneOf(Tail(p), ForNotice) => InForce(Head(p).cfg) = c
      BY <1>1, <1>2, <1>3, <1>4, <2>3, <2>5, LastAfterFirst DEF Current
    <2>7. Head(p).cfg \in Config
      BY <1>3, <1>4, <2>1, Rest, MessageType DEF MessageTypes
    <2>8. TrayEnabled => tray'.cfg = Head(p).cfg
      BY <1>4, <1>7, <2>7, TrayStates DEF StartSession, Update, Types
    <2>9. watcher'.last = Head(p).cfg.ifs /\ (watcher'.shown <=> Head(p).cfg.allow)
      BY <1>4, <1>7, <2>7 DEF StartSession, Config
    <2>10. results = <<>>
      BY <1>3 DEF Between
    <2>11. Told.ifs = cfg.ifs /\ Told.allow = cfg.allow /\ Told \in Config
      BY ShownType DEF Told, Types, DaemonTypes
    <2>12. NoneOf(Tail(p), ForNotice) => Noticed'
      <3>1. ASSUME NoneOf(Tail(p), ForNotice) PROVE InForce(Head(p).cfg) = InForce(Told)
        BY <1>2, <2>6, <3>1 DEF RulesNow
      <3> QED BY <1>3, <2>7, <2>9, <2>11, <3>1, InForceTells DEF Noticed
    <2>13. Running'
      BY <1>3, <1>4, <2>3, <2>4, <2>6, <2>8, <2>10, <2>12 DEF Running, Current
    <2> QED BY <2>1, <2>13 DEF Follows
  <1> QED BY <1>5, <1>6, <1>7 DEF Types, DaemonTypes

LEMMA FollowsReader ==
    ASSUME Types, Follows, Reader
    PROVE  Follows'
  <1>1. /\ phase = "run" /\ toClient # <<>> /\ toClient' = Tail(toClient)
        /\ UNCHANGED <<phase, up, asked, toServer, subscribed, cfg, leftover, tray, watcher>>
    BY DEF Reader, daemonVars, sessionVars, trayVars
  <1>2. ASSUME up, ~asked PROVE Running'
    <2>1. Running /\ toClient \in Seq(Message) /\ events \in Seq(Message)
      BY <1>1, <1>2 DEF Follows, Types, DaemonTypes, ClientTypes
    <2>2. Head(toClient).type \in Announced
      <3>1. Coming[Len(events) + 1] = Head(toClient) /\ Len(events) + 1 \in 1..Len(Coming)
        <4>1. /\ Len(events) \in Nat /\ Len(toClient) \in Nat /\ Len(toClient) >= 1
              /\ Head(toClient) = toClient[1]
          BY <1>1, <2>1, Rest
        <4>2. Len(Coming) = Len(events) + Len(toClient)
          BY <2>1, Joined DEF Coming
        <4>3. Len(events) + 1 \in 1..Len(events) + Len(toClient)
          BY <4>1
        <4>4. Coming[Len(events) + 1] = toClient[Len(events) + 1 - Len(events)]
          BY <2>1, <4>1, <4>3, Joined DEF Coming
        <4>5. Len(events) + 1 - Len(events) = 1
          BY <4>1
        <4> QED BY <4>1, <4>2, <4>3, <4>4, <4>5
      <3> QED BY <2>1, <3>1 DEF Running, OnlyOf
    <2>3. events = <<>> /\ events' = <<Head(toClient)>> /\ results' = results
      BY <2>2 DEF Reader, Announced, IsResult
    <2>4. Coming' = Coming
      <3>1. Coming = toClient
        BY <2>1, <2>3, JoinedNone DEF Coming
      <3>2. Coming' = toClient
        BY <1>1, <2>1, <2>3, JoinedRest DEF Coming
      <3> QED BY <3>1, <3>2
    <2>5. RulesNow' = RulesNow
      BY <1>1 DEF Told, RulesNow
    <2> QED BY <1>1, <2>1, <2>3, <2>4, <2>5 DEF Running, Current, Noticed
  <1> QED BY <1>1, <1>2 DEF Follows

(* The main loop takes an event. *)
LEMMA FollowsEvents ==
    ASSUME Types, Between, NoticesFollow, Follows,
           TakeNotification \/ TakeConfig \/ TakeInterfacesOrClients
    PROVE  Follows'
  <1>1. /\ phase = "run" /\ events # <<>> /\ events' = <<>>
        /\ UNCHANGED <<phase, session, up, asked, toServer, toClient, subscribed, results, cfg, leftover>>
    BY DEF TakeNotification, TakeConfig, TakeInterfacesOrClients, daemonVars, wireVars, sessionVars
  <1>2. PICK p : p = Coming
    OBVIOUS
  <1>3. PICK c : c = RulesNow
    OBVIOUS
  <1>4. /\ p \in Seq(Message) /\ p # <<>> /\ Head(p) = Head(events) /\ Coming' = Tail(p)
        /\ RulesNow' = c
    <2>1. toClient \in Seq(Message) /\ events \in Seq(Message) /\ Len(events) <= 1
      BY DEF Types, DaemonTypes, ClientTypes
    <2>2. Coming' = toClient
      BY <1>1, <2>1, JoinedNone DEF Coming
    <2>3. p # <<>> /\ Head(p) = Head(events) /\ Tail(p) = toClient
      BY <1>1, <1>2, <2>1, Single DEF Coming
    <2> QED BY <1>1, <1>2, <1>3, <2>2, <2>3, ComingType DEF Told, RulesNow
  <1>5. ASSUME up, ~asked PROVE Running'
    <2>1. Running
      BY <1>1, <1>5 DEF Follows
    <2>2. OnlyOf(Tail(p), Announced)
      BY <1>2, <1>4, <2>1, OnlyRest DEF Running
    <2>3. LastHas(p, ForTray, c) /\ LastHas(p, ForNotice, c)
      BY <1>2, <1>3, <2>1 DEF Running, Current
    <2>4. /\ LastHas(Tail(p), ForTray, c) /\ LastHas(Tail(p), ForNotice, c)
          /\ NoneOf(Tail(p), ForTray) /\ Head(p).type \in ForTray => InForce(Head(p).cfg) = c
          /\ NoneOf(Tail(p), ForTray) /\ Head(p).type \notin ForTray => NoneOf(p, ForTray)
          /\ NoneOf(Tail(p), ForNotice) /\ Head(p).type \in ForNotice => InForce(Head(p).cfg) = c
          /\ NoneOf(Tail(p), ForNotice) /\ Head(p).type \notin ForNotice => NoneOf(p, ForNotice)
      BY <1>4, <2>3, LastAfterFirst
    <2>5. Told.ifs = cfg.ifs /\ Told.allow = cfg.allow /\ Told \in Config
      BY ShownType DEF Told, Types, DaemonTypes
    <2>6. NoneOf(Tail(p), ForTray) /\ TrayEnabled => InForce(tray'.cfg) = c
      <3>1. CASE TakeNotification
        <4>1. Head(p).type \notin ForTray /\ tray' = tray
          BY <1>4, <3>1, NoteType DEF TakeNotification, ForTray, MessageTypes, trayVars
        <4> QED BY <1>2, <1>3, <2>1, <2>4, <4>1 DEF Running
      <3>2. CASE TakeConfig \/ TakeInterfacesOrClients
        <4>1. Head(p).type \in ForTray /\ Head(p).type \in MessageTypes
          BY <1>4, <3>2 DEF TakeConfig, TakeInterfacesOrClients, ForTray, MessageTypes
        <4>2. Head(p).cfg \in Config
          BY <1>4, <4>1, Rest, MessageType
        <4>3. Update(WithConfig(Head(p).cfg))
          BY <1>4, <3>2 DEF TakeConfig, TakeInterfacesOrClients
        <4>4. TrayEnabled => tray'.cfg = Head(p).cfg
          BY <4>2, <4>3, TrayStates DEF Update, Types
        <4> QED BY <2>4, <4>1, <4>4
      <3> QED BY <3>1, <3>2
    <2>7. NoneOf(Tail(p), ForNotice) => Noticed'
      <3>1. CASE TakeNotification \/ TakeInterfacesOrClients
        <4>1. Head(p).type \notin ForNotice /\ watcher' = watcher
          BY <1>4, <3>1, NoteType DEF TakeNotification, TakeInterfacesOrClients, ForNotice
        <4> QED BY <1>1, <1>2, <2>1, <2>4, <4>1 DEF Running, Noticed
      <3>2. CASE TakeConfig
        <4>1. Head(p).type \in ForNotice /\ Head(p).type \in MessageTypes
          BY <1>4, <3>2 DEF TakeConfig, ForNotice, MessageTypes
        <4>2. Head(p).cfg \in Config
          BY <1>4, <4>1, Rest, MessageType
        <4>3. update(Head(p).cfg)
          BY <1>4, <3>2 DEF TakeConfig
        <4>4. watcher'.last = Head(p).cfg.ifs /\ (watcher'.shown <=> Head(p).cfg.allow)
          BY <1>1, <4>2, <4>3, UpdateNotices DEF Types
        <4>5. ASSUME NoneOf(Tail(p), ForNotice) PROVE InForce(Head(p).cfg) = InForce(Told)
          BY <1>3, <2>4, <4>1, <4>5 DEF RulesNow
        <4> QED BY <1>1, <2>5, <4>2, <4>4, <4>5, InForceTells DEF Noticed
      <3> QED BY <3>1, <3>2
    <2> QED BY <1>1, <1>4, <2>1, <2>2, <2>4, <2>6, <2>7 DEF Running, Current
  <1> QED BY <1>1, <1>5 DEF Follows

LEMMA FollowsKept ==
    ASSUME Types, Between, NoticesFollow, Follows, [Next]_vars
    PROVE  Follows'
  <1>1. ASSUME UNCHANGED <<phase, up, asked, toServer, toClient, subscribed, events, results,
                           cfg, leftover, watcher>>,
               tray'.cfg = tray.cfg
        PROVE  Follows'
    <2>1. Coming' = Coming /\ RulesNow' = RulesNow
      BY <1>1 DEF Coming, Told, RulesNow
    <2> QED BY <1>1, <2>1 DEF Follows, Waiting, Running, Current, Noticed
  <1>2. CASE DaemonChanges \/ DaemonReleases \/ DaemonNotifies
    BY <1>2, FollowsDaemon
  <1>3. CASE DaemonAnswers
    BY <1>3, FollowsAnswers
  <1>4. CASE ConnectionLost
    BY <1>4 DEF ConnectionLost, Follows, sessionVars
  <1>5. CASE Dial
    <2>1. ~subscribed' /\ phase' = "wait" /\ ~asked'
      BY <1>5 DEF Dial, Between, daemonVars
    <2>2. Waiting'
      BY <1>5, <2>1 DEF Dial, Waiting
    <2> QED BY <2>1, <2>2 DEF Follows
  <1>6. CASE WaitForConfig \/ StartSession
    BY <1>6, FollowsFirst
  <1>7. CASE Reader
    BY <1>7, FollowsReader
  <1>8. CASE TakeNotification \/ TakeConfig \/ TakeInterfacesOrClients
    BY <1>8, FollowsEvents
  <1>9. CASE TakeResult \/ TakeFailure
    BY <1>9 DEF TakeResult, TakeFailure, Follows, Running, wireVars, sessionVars
  <1>10. CASE DisableGlobalAllowAll
    BY <1>10 DEF DisableGlobalAllowAll, SendMutation, Follows, sessionVars
  <1>11. CASE ApplyTrayCommand
    <2>1. CASE Head(commands)[1] = "open"
      BY <1>1, <1>11, <2>1 DEF ApplyTrayCommand, daemonVars, sessionVars, channelVars
    <2>2. CASE Head(commands)[1] # "open"
      BY <1>11, <2>2 DEF ApplyTrayCommand, SendMutation, Follows, sessionVars
    <2> QED BY <2>1, <2>2
  <1>12. CASE SessionEnds
    BY <1>12 DEF SessionEnds, Follows
  <1>13. CASE TakeCheckResult
    <2>1. network.result \in Statuses
      BY <1>13 DEF TakeCheckResult, Types, ClientTypes, Networks
    <2>2. tray'.cfg = tray.cfg
      BY <1>13, <2>1, TrayStates DEF TakeCheckResult, Update, Types
    <2> QED
      BY <1>1, <1>13, <2>2
      DEF TakeCheckResult, daemonVars, wireVars, sessionVars, channelVars
  <1> QED
    BY <1>1, <1>2, <1>3, <1>4, <1>5, <1>6, <1>7, <1>8, <1>9, <1>10, <1>11, <1>12, <1>13
    DEF Next, Loop, Runner, vars, daemonVars, wireVars, sessionVars, channelVars, trayVars,
        WorldChanges, Tick, RunnerStarts, runNetworkCheck, RunnerDelivers, ClickDisable,
        TrayAppears, onReady, onReadyApplies, ClickTray, Click

-----------------------------------------------------------------------------
(* The theorems. *)

LEMMA InitInv == Init => SessionInv
  <1> SUFFICES ASSUME Init PROVE SessionInv
    OBVIOUS
  <1>1. /\ 0 \in 0..MaxChanges /\ 0 \in 0..MaxClicks /\ 0 \in 0..MaxWorld /\ 0 \in 0..MaxSessions
        /\ 0 < MaxSessions /\ 0 <= TrayQueue /\ 0 \in 0..0
    BY UserBoundsAssumption, TrayAssumption
  <1>2. TrayTypes
    BY <1>1, NoTrayType DEF Init, TrayInit, NoMenu, TrayTypes
  <1>3. DaemonTypes
    <2>1. cfg \in Config
      BY DEF Init, Config
    <2>2. used \in [changes : 0..MaxChanges, clicks : 0..MaxClicks, world : 0..MaxWorld]
      BY <1>1 DEF Init
    <2>3. buffered \in Nat /\ buffered <= used.changes
      BY DEF Init
    <2>4. toServer \in Seq(Requests) /\ toClient \in Seq(Message)
      BY DEF Init
    <2> QED BY <2>1, <2>2, <2>3, <2>4 DEF Init, DaemonTypes
  <1>4. ClientTypes
    BY <1>1, NewNetworkType, NewWatcherType DEF Init, ClientTypes, Notices, NoNotice
  <1>5. Between
    BY <1>1 DEF Init, TrayInit, Between, NewNetwork, NoTray
  <1>6. MenuFollows
    BY DEF Init, TrayInit, NoMenu, MenuFollows, MenuIsCurrent
  <1>7. NoticesFollow
    BY DEF Init, NewWatcher, NewNetwork, NoNotice, Offered, NoticesFollow, PortalNoticeIsCurrent, LoginEntryWorks
  <1>8. Follows
    BY DEF Init, Follows
  <1> QED BY <1>2, <1>3, <1>4, <1>5, <1>6, <1>7, <1>8 DEF SessionInv, Types

LEMMA InvKept == SessionInv /\ [Next]_vars => SessionInv'
  BY TrayTypesKept, DaemonTypesKept, ClientTypesKept, BetweenKept, MenuKept, NoticesKept, FollowsKept
  DEF SessionInv, Types

(* The conjunction of all the above holds of every behaviour. *)
THEOREM SessionInvariant == Spec => []SessionInv
  BY InitInv, InvKept, PTL DEF Spec

(* The variables keep their types, the channels their capacities, the      *)
(* network check queue networkCheckQueueSize and the tray's queue its own  *)
(* (runtime.go, network_check.go, tray.go).                                *)
THEOREM SessionTypeCorrect == Spec => []TypeOK
  <1>1. SessionInv => TypeOK
    <2> SUFFICES ASSUME SessionInv PROVE TypeOK
      OBVIOUS
    <2>1. TrayTypes /\ DaemonTypes /\ ClientTypes
      BY DEF SessionInv, Types
    <2>2. TrayTypeOK
      BY <2>1 DEF TrayTypes, TrayTypeOK
    <2>3. buffered \in 0..MaxChanges
      BY <2>1, UserBoundsAssumption DEF DaemonTypes
    <2>4. allowNotice \in Notices(MaxSessions) /\ portalNotice \in Notices(MaxSessions)
      BY <2>1, NoticesGrow, UserBoundsAssumption DEF ClientTypes
    <2>5. \A i \in DOMAIN results : results[i] \in Message
      <3>1. \A i \in DOMAIN results : results[i] \in Results
        BY <2>1 DEF ClientTypes
      <3>2. Results \subseteq Message
        BY DEF Results, Message, MessageTypes
      <3> QED BY <3>1, <3>2
    <2>6. \A i \in DOMAIN events : events[i] \in Message
      BY <2>1 DEF ClientTypes
    <2>7. /\ \A i \in DOMAIN toServer : toServer[i] \in Requests
          /\ \A i \in DOMAIN toClient : toClient[i] \in Message
      BY <2>1 DEF DaemonTypes
    <2> QED
      BY <2>1, <2>2, <2>3, <2>4, <2>5, <2>6, <2>7 DEF TypeOK, DaemonTypes, ClientTypes, Networks
  <1> QED BY <1>1, SessionInvariant, PTL

(* Once nothing is on its way, a session that has sent no mutation shows   *)
(* the rules in force: in the tray, in the interfaces that notices are     *)
(* based on, and, while there is an interface, by offering its notice      *)
(* exactly if allow_all is on; whatever happened while there was no        *)
(* connection or before the first configuration.  It does not need the     *)
(* daemon to announce a change of allow_all that changes no rule, nor the  *)
(* desktop to accept the notice (runtime.go's main loop, notifications.go: *)
(* update, admin.go:340).                                                  *)
THEOREM SettledIsCurrent == Spec => []SettledShowsCurrent
  <1>1. SessionInv => SettledShowsCurrent
    <2> SUFFICES ASSUME SessionInv, Settled, ~asked
                 PROVE  /\ TrayEnabled => InForce(tray.cfg) = InForce(Shown(cfg, leftover))
                        /\ watcher.last = cfg.ifs
                        /\ cfg.ifs # {} => (cfg.allow <=> Offered(allowNotice))
      BY DEF SettledShowsCurrent
    <2>1. Running /\ phase = "run"
      BY DEF SessionInv, Follows, Settled
    <2>2. Coming = <<>>
      BY DEF Coming, Settled
    <2>3. NoneOf(Coming, ForTray) /\ NoneOf(Coming, ForNotice)
      BY <2>2 DEF NoneOf
    <2>4. watcher.shown <=> Offered(allowNotice)
      BY <2>1 DEF SessionInv, NoticesFollow, Types, ClientTypes
    <2>5. TrayEnabled => InForce(tray.cfg) = InForce(Shown(cfg, leftover))
      BY <2>1, <2>3 DEF Running, Told, RulesNow
    <2>6. Noticed
      BY <2>1, <2>3 DEF Running
    <2> QED BY <2>4, <2>5, <2>6 DEF Noticed
  <1> QED BY <1>1, SessionInvariant, PTL

(* While a session thinks that the notice about allow_all is shown, it has *)
(* given it to the desktop unless that refused it, and the button of what  *)
(* is on the desktop reaches this session, also if an earlier session left *)
(* its own there (notifications.go: updateGlobalAllowAll).                 *)
THEOREM ShownNoticeIsUsable == Spec => []NoticeIsUsable
  <1>1. SessionInv => NoticeIsUsable
    BY DEF SessionInv, NoticesFollow, NoticeIsUsable
  <1> QED BY <1>1, SessionInvariant, PTL

(* Once a session has checked the network and the last check asked for a   *)
(* login, it has given its login notice to the desktop unless that refused *)
(* it; if it did not ask for one, no session's notice is taken for shown   *)
(* and no button does anything (network_check.go: finish).                 *)
THEOREM PortalNoticeFollows == Spec => []PortalNoticeIsCurrent
  <1>1. SessionInv => PortalNoticeIsCurrent
    BY DEF SessionInv, NoticesFollow
  <1> QED BY <1>1, SessionInvariant, PTL

(* The tray offers the login page only if this session's last check asked  *)
(* for a login (network_check.go: openLastCaptivePortal).                  *)
THEOREM LoginEntryFollows == Spec => []LoginEntryWorks
  <1>1. SessionInv => LoginEntryWorks
    BY DEF SessionInv, NoticesFollow
  <1> QED BY <1>1, SessionInvariant, PTL

(* Whenever the desktop calls onReady, the menu shows the tray's state     *)
(* unless an update overtook onReady (tray.go: onReady, apply).            *)
THEOREM MenuFollowsTray == Spec => []MenuIsCurrent
  <1>1. SessionInv => MenuIsCurrent
    BY DEF SessionInv, MenuFollows
  <1> QED BY <1>1, SessionInvariant, PTL
=============================================================================
