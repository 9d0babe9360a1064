-------------------------- MODULE CommandLineProofs --------------------------
(***************************************************************************)
(* killswitch-cli's commands against the admin API server, for any number  *)
(* of connections and any commands on them: the commands make the server   *)
(* take no step that it cannot take anyway, so that all that is proved of  *)
(* it holds here too, and get-cfg --watch misses no change.                *)
(***************************************************************************)
EXTENDS CommandLine, AdminServerProofs

Watch == "get-cfg --watch"
Asked == {"config", "subscribe", "debug", "mutation"}
Places == {"none", "wait", "done", "loop", "hold"}

CmdRecord == [cmd : AllCommands \cup {"none"}, at : Places, requests : Seq(Asked),
              offer : Nat, seen : Nat]

CliType ==
    /\ cli \in [Conns -> CmdRecord]
    /\ \A c \in Conns : cli[c].at # "none" => cli[c].cmd \in AllCommands

(* A connection that is not open holds no messages, one that is closed has *)
(* no handler any more, and a handler closes only what is not open, last.  *)
Closed ==
    \A c \in Conns :
        /\ up[c] # "open" => inbox[c] = <<>>
        /\ up[c] = "none" => todo[c] = <<>>
        /\ \A k \in 1..Len(todo[c]) : todo[c][k].op = "close" => k = Len(todo[c]) /\ up[c] # "open"

(* No message is newer than the configuration. *)
InboxUpTo ==
    \A c \in Conns : \A i \in 1..Len(inbox[c]) :
        inbox[c][i].ev \in Events => inbox[c][i].version <= version

Sockets == Closed /\ InboxUpTo

(* An answer is on its way to c: it is to be made, it is to be sent, or it *)
(* is in the socket.                                                       *)
Replying(o) == o.op = "reply" \/ Answers(o)
Unmade(c) == \E k \in 1..Len(todo[c]) : todo[c][k].op = "snapshot" /\ todo[c][k].ev = "reply"
Unsent(c) == \E k \in 1..Len(todo[c]) : todo[c][k].op = "send" /\ todo[c][k].msg.ev = "reply"
Unread(c) == \E i \in 1..Len(inbox[c]) : inbox[c][i].ev = "reply"
NoAnswer(c) == ~Unread(c) /\ \A k \in 1..Len(todo[c]) : ~Replying(todo[c][k])

(* The newest version that c was sent, c has seen, is offered by the       *)
(* answer that is on its way, or waits in c's socket.                      *)
Reaches(c) ==
    \/ view[c].newest <= cli[c].seen
    \/ view[c].newest <= cli[c].offer /\ (Unsent(c) \/ Unread(c))
    \/ \E i \in 1..Len(inbox[c]) :
          inbox[c][i].ev \in Events /\ view[c].newest <= inbox[c][i].version

(* get-cfg --watch subscribes, asks for the configuration, waits for it    *)
(* and then prints events.                                                 *)
Watches(c) ==
    /\ cli[c].at \in {"wait", "loop"}
    /\ cli[c].requests \in {<<"subscribe", "config">>, <<"config">>, <<>>}
    /\ cli[c].requests # <<>> => cli[c].at = "wait" /\ NoAnswer(c)
    /\ cli[c].requests # <<"subscribe", "config">> => Subscribed(c)
    /\ cli[c].requests = <<>> => Unmade(c) \/ Reaches(c)

Watching ==
    \A c \in Conns :
        /\ cli[c].offer <= version /\ cli[c].seen <= version
        /\ cli[c].cmd = Watch => Watches(c)

-----------------------------------------------------------------------------
(* The commands. *)

(* What a command asks for, and where it goes then. *)
LEMMA CommandShape ==
    ASSUME NEW cmd \in AllCommands
    PROVE  runCLI(cmd).asks \in Seq(Asked) /\ runCLI(cmd).then \subseteq Places
  <1>1. /\ <<"config">> \in Seq(Asked) /\ <<"subscribe">> \in Seq(Asked)
        /\ <<"debug">> \in Seq(Asked) /\ <<"mutation">> \in Seq(Asked)
        /\ <<"subscribe", "config">> \in Seq(Asked)
    BY DEF Asked
  <1>2. \E asks, then : runCLI(cmd) = [asks |-> asks, then |-> then]
                         /\ asks \in Seq(Asked) /\ then \subseteq Places
    <2> USE DEF runCLI, runGetConfig, runNotifications, runDebugNotify, runMutation, runSocksProxy,
                runTemporaryRuleset, runForceRuleset, Places
    <2>1. CASE cmd \in {"get-cfg", "get-cfg --watch"}
      BY <1>1, <2>1
    <2>2. CASE cmd \in {"notifications", "debug-notify"}
      BY <1>1, <2>2
    <2>3. CASE cmd \in {"mutation", "socks-proxy"}
      BY <1>1, <2>3
    <2>4. CASE cmd \in {"tmp-ruleset", "force-ruleset"}
      BY <1>1, <2>4
    <2> QED BY <2>1, <2>2, <2>3, <2>4 DEF AllCommands
  <1> QED BY <1>2

LEMMA WatchShape == runCLI(Watch).asks = <<"subscribe", "config">> /\ runCLI(Watch).then = {"loop"}
  BY DEF runCLI, runGetConfig, Watch

(* One command changes, the others do not. *)
LEMMA OneCommand ==
    ASSUME CliType, NEW c \in Conns, NEW r, cli' = [cli EXCEPT ![c] = r]
    PROVE  cli'[c] = r /\ \A d \in Conns : d # c => cli'[d] = cli[d]
  BY DEF CliType, CmdRecord

(* The version that a message brings. *)
LEMMA SeenVersion ==
    ASSUME CliType, Types, NEW c \in Conns, NEW m \in Msgs
    PROVE  /\ Seen(c, m) \in Nat /\ Seen(c, m) >= cli[c].seen
           /\ cli[c].cmd # Watch => Seen(c, m) = cli[c].seen
           /\ cli[c].cmd = Watch =>
                 /\ m.ev \in Events => Seen(c, m) >= m.version
                 /\ m.ev = "reply" => Seen(c, m) >= cli[c].offer
                 /\ Seen(c, m) = cli[c].seen \/ (m.ev = "reply" /\ Seen(c, m) = cli[c].offer)
                        \/ (m.ev \in Events /\ Seen(c, m) = m.version)
  <1>1. cli[c].seen \in Nat /\ cli[c].offer \in Nat
    BY DEF CliType, CmdRecord
  <1>2. /\ m.ev \in Events \cup {"reply", "notification"}
        /\ m.ev \in Events => m.version \in Nat
        /\ IsNote(m) <=> m.ev = "notification"
    BY MsgKinds, ServerBoundsAssumption
  <1>3. PICK v : v = IF m.ev = "reply" THEN cli[c].offer ELSE IF IsNote(m) THEN 0 ELSE m.version
    OBVIOUS
  <1>4. Seen(c, m) = IF cli[c].cmd = Watch /\ v > cli[c].seen THEN v ELSE cli[c].seen
    BY <1>3 DEF Seen, Watch
  <1>5. /\ m.ev = "reply" => v = cli[c].offer
        /\ m.ev = "notification" => v = 0
        /\ m.ev \in Events => v = m.version
    BY <1>2, <1>3 DEF Events
  <1>6. v \in Nat
    BY <1>1, <1>2, <1>5
  <1>7. \A n \in Nat : n >= 0
    OBVIOUS
  <1> QED BY <1>1, <1>2, <1>4, <1>5, <1>6, <1>7 DEF Events

(* What a client finds first in its socket. *)
LEMMA FirstMessage ==
    ASSUME Types, NEW c \in Conns, ClientReads(c)
    PROVE  /\ inbox[c] \in Seq(Msgs) /\ inbox[c] # <<>> /\ Head(inbox[c]) \in Msgs
           /\ inbox'[c] = Tail(inbox[c]) /\ \A d \in Conns : d # c => inbox'[d] = inbox[d]
           /\ view'[c].newest = view[c].newest /\ \A d \in Conns : d # c => view'[d] = view[d]
  BY Rest DEF Types, ClientReads

(* A request is one of the server's. *)
LEMMA ServeShape ==
    ASSUME CliType, NEW c \in Conns, Serve(c)
    PROVE  /\ cli[c].requests # <<>>
           /\ cli' = [cli EXCEPT ![c].requests = Tail(@)]
           /\ \/ Head(cli[c].requests) = "config" /\ ConfigRequest(c)
              \/ Head(cli[c].requests) = "subscribe" /\ SubscribeRequest(c, EventsOf(cli[c].cmd))
              \/ Head(cli[c].requests) = "debug" /\ DebugNotifyRequest(c)
              \/ Head(cli[c].requests) = "mutation" /\ MutationRequest(c)
           /\ EventsOf(cli[c].cmd) \in SubChoices
  <1>1. cli[c].requests \in Seq(Asked) /\ cli[c].requests # <<>>
    BY DEF CliType, CmdRecord, Serve
  <1>2. Head(cli[c].requests) \in Asked
    BY <1>1
  <1>3. EventsOf(cli[c].cmd) \in SubChoices
    BY EventsAssumption DEF EventsOf, AllCommands
  <1> QED BY <1>1, <1>2, <1>3 DEF Serve, Asked

(* Every step with commands is a step of the server, or none. *)
LEMMA ServerSteps ==
    ASSUME CliType, [CLNext]_clVars
    PROVE  [Next]_vars
  <1>1. CASE UNCHANGED clVars
    BY <1>1 DEF clVars
  <1>2. ASSUME NEW c \in Conns, NEW cmd, Run(c, cmd)
        PROVE  [Next]_vars
    BY <1>2 DEF Run
  <1>3. ASSUME NEW c \in Conns, Accepted(c) \/ Refused(c)
        PROVE  [Next]_vars
    BY <1>3 DEF Accepted, Refused, Next, Client
  <1>4. ASSUME NEW c \in Conns, Serve(c)
        PROVE  [Next]_vars
    <2>1. Client(c)
      BY <1>4, ServeShape DEF Client
    <2> QED BY <2>1 DEF Next
  <1>5. ASSUME NEW c \in Conns, Reads(c) \/ End(c)
        PROVE  [Next]_vars
    <2>1. ClientReads(c) \/ Client(c)
      BY <1>5 DEF Reads, Wait, watchConfig, watchNotifications, End, Client
    <2> QED BY <2>1 DEF Next
  <1>6. ASSUME NEW c \in Conns, ServerStep(c)
        PROVE  [Next]_vars
    BY <1>6, ConnsRun DEF ServerStep, Next
  <1>7. CASE OtherStep
    BY <1>7 DEF OtherStep, Next, Goroutines
  <1> QED BY <1>1, <1>2, <1>3, <1>4, <1>5, <1>6, <1>7 DEF CLNext

(* The commands keep their types. *)
LEMMA CliTypeKept ==
    ASSUME CliType, Types, [CLNext]_clVars
    PROVE  CliType'
  <1>1. /\ cli \in [Conns -> CmdRecord]
        /\ \A c \in Conns : cli[c].at # "none" => cli[c].cmd \in AllCommands
    BY DEF CliType
  <1>2. NoCommand \in CmdRecord /\ NoCommand.at = "none"
    BY DEF NoCommand, Places, CmdRecord
  <1>3. ASSUME NEW c \in Conns, NEW r \in CmdRecord, r.at # "none" => r.cmd \in AllCommands,
               cli' = [cli EXCEPT ![c] = r]
        PROVE  CliType'
    <2>1. cli' \in [Conns -> CmdRecord] /\ cli'[c] = r /\ \A d \in Conns : d # c => cli'[d] = cli[d]
      BY <1>1, <1>3
    <2> QED BY <1>1, <1>3, <2>1 DEF CliType
  <1>5. CASE UNCHANGED cli
    BY <1>1, <1>5 DEF CliType
  <1>6. ASSUME NEW c \in Conns, NEW cmd \in Commands[c], Run(c, cmd)
        PROVE  CliType'
    <2>1. cmd \in AllCommands
      BY CommandsAssumption
    <2>2. runCLI(cmd).asks \in Seq(Asked)
      BY <2>1, CommandShape
    <2>3. PICK r : r = [NoCommand EXCEPT !.cmd = cmd, !.requests = runCLI(cmd).asks,
                                         !.at = IF cmd = "notifications" THEN "loop" ELSE "wait"]
      OBVIOUS
    <2>4. r \in CmdRecord /\ r.cmd = cmd
      BY <2>1, <2>2, <2>3 DEF NoCommand, Places, CmdRecord
    <2> QED BY <1>3, <1>6, <2>1, <2>3, <2>4 DEF Run
  <1>7. ASSUME NEW c \in Conns, Refused(c) \/ End(c)
        PROVE  CliType'
    BY <1>2, <1>3, <1>7 DEF Refused, End
  <1>8. ASSUME NEW c \in Conns, Serve(c)
        PROVE  CliType'
    <2>1. cli[c].requests # <<>> /\ cli' = [cli EXCEPT ![c].requests = Tail(@)]
      BY <1>8, ServeShape
    <2>2. Tail(cli[c].requests) \in Seq(Asked)
      BY <1>1, <2>1 DEF CmdRecord
    <2> QED BY <1>1, <2>1, <2>2 DEF CliType, CmdRecord
  <1>9. ASSUME NEW c \in Conns, Reads(c)
        PROVE  CliType'
    <2>1. ClientReads(c)
      BY <1>9 DEF Reads, Wait, watchConfig, watchNotifications
    <2>2. Head(inbox[c]) \in Msgs
      BY <2>1, FirstMessage
    <2>3. Seen(c, Head(inbox[c])) \in Nat
      BY <2>2, SeenVersion
    <2>4. CASE Wait(c)
      <3>1. cli[c].cmd \in AllCommands
        BY <1>1, <2>4 DEF Wait
      <3>2. runCLI(cli[c].cmd).then \subseteq Places
        BY <3>1, CommandShape
      <3>3. PICK next \in Places : cli' = [cli EXCEPT ![c].at = next, ![c].seen = Seen(c, Head(inbox[c]))]
        BY <2>4, <3>2 DEF Wait, Places
      <3> QED BY <1>1, <2>3, <3>1, <3>3 DEF CliType, CmdRecord
    <2>5. CASE watchConfig(c)
      BY <1>1, <2>3, <2>5 DEF watchConfig, CliType, CmdRecord
    <2>6. CASE watchNotifications(c)
      BY <1>5, <2>6 DEF watchNotifications
    <2> QED BY <1>9, <2>4, <2>5, <2>6 DEF Reads
  <1>10. ASSUME NEW c \in Conns, ServerStep(c)
         PROVE  CliType'
    <2>1. version \in Nat
      BY ServerBoundsAssumption DEF Types
    <2> QED BY <1>1, <1>10, <2>1 DEF ServerStep, CliType, CmdRecord
  <1> QED BY <1>5, <1>6, <1>7, <1>8, <1>9, <1>10 DEF CLNext, clVars, Accepted, OtherStep

-----------------------------------------------------------------------------
(* What a step of a goroutine does to the sockets. *)

(* Nothing reaches c, or a message of a version that is not newer than the *)
(* configuration; only c's own handler sends it an answer.                 *)
Delivers(g, c) ==
    \/ inbox'[c] = inbox[c] /\ view'[c].newest = view[c].newest
    \/ \E m \in Msgs :
          /\ up[c] = "open"
          /\ inbox'[c] = Append(inbox[c], m)
          /\ view'[c].newest = IF m.ev \in Events /\ m.version > view[c].newest
                               THEN m.version ELSE view[c].newest
          /\ m.ev \in Events => m.version <= version
          /\ m.ev = "reply" => g = c /\ Replying(Head(todo[g]))

LEMMA WriteDelivers ==
    ASSUME Types, NEW g, NEW d \in Conns, NEW m \in Msgs, Write(d, m),
           m.ev \in Events => m.version <= version,
           m.ev = "reply" => g = d /\ Replying(Head(todo[g])),
           NEW c \in Conns
    PROVE  Delivers(g, c)
  <1>1. CASE c # d
    BY <1>1, WriteEffect DEF Delivers
  <1>2. CASE c = d
    <2>1. inbox'[c] = Append(inbox[c], m) /\ up[c] = "open"
      BY <1>2, WriteEffect
    <2>2. view'[c].newest = IF m.ev \in Events /\ m.version > view[c].newest
                            THEN m.version ELSE view[c].newest
      BY <1>2, WriteEffect
    <2> QED BY <1>2, <2>1, <2>2 DEF Delivers
  <1> QED BY <1>1, <1>2

LEMMA Delivered ==
    ASSUME Types, Ordered, ChangesAreBrought, NEW g \in Goroutines,
           Work(g) \/ (g \in Conns /\ Handler(g)), NEW c \in Conns
    PROVE  Delivers(g, c)
  <1>1. CASE UNCHANGED <<inbox, view>>
    BY <1>1 DEF Delivers
  <1>2. CASE Send(g)
    <2>1. PICK h : h = Head(todo[g])
      OBVIOUS
    <2>2. /\ h \in Ops /\ h.op = "send" /\ h = todo[g][1] /\ 1 \in 1..Len(todo[g])
      BY <1>2, <2>1, HeadOp DEF Send
    <2>3. h.msg \in Msgs /\ h.to \in Seq(Conns) /\ h.to # <<>> /\ Head(h.to) \in Conns
      BY <1>2, <2>1, SendEffect
    <2>4. AnswersOwn(g, h) /\ UpTo(version, h)
      BY <2>2 DEF Ordered, ChangesAreBrought
    <2>5. h.msg.ev \in Events => h.msg.version <= version
      BY <2>2, <2>4 DEF UpTo
    <2>6. h.msg.ev = "reply" => g = Head(h.to) /\ Replying(Head(todo[g]))
      BY <2>1, <2>2, <2>4 DEF AnswersOwn, Replying, Answers
    <2>7. Write(Head(h.to), h.msg) \/ WriteFails(Head(h.to))
      BY <1>2, <2>1, SendEffect
    <2>8. CASE Write(Head(h.to), h.msg)
      BY <2>3, <2>5, <2>6, <2>8, WriteDelivers
    <2>9. CASE WriteFails(Head(h.to))
      BY <1>1, <2>9 DEF WriteFails
    <2> QED BY <2>7, <2>8, <2>9
  <1>3. CASE g \in Conns /\ Flush(g)
    <2>1. PICK m : m = NoteMsg(Head(Head(todo[g]).list))
      OBVIOUS
    <2>2. m \in Msgs /\ (Write(g, m) \/ WriteFails(g))
      BY <1>3, <2>1, FlushEffect
    <2>3. m.ev = "notification"
      BY <2>1 DEF NoteMsg
    <2>4. CASE Write(g, m)
      BY <1>3, <2>2, <2>3, <2>4, WriteDelivers DEF Events
    <2>5. CASE WriteFails(g)
      BY <1>1, <2>5 DEF WriteFails
    <2> QED BY <2>2, <2>4, <2>5
  <1>4. CASE g \in Conns /\ Reply(g)
    <2>1. PICK m : m = [ev |-> "reply"]
      OBVIOUS
    <2>2. m \in Msgs /\ m.ev = "reply"
      BY <2>1 DEF Msgs, Replies
    <2>3. Write(g, m) \/ WriteFails(g)
      BY <1>4, <2>1, ReplyEffect
    <2>4. Replying(Head(todo[g]))
      BY <1>4 DEF Reply, Next1, Replying
    <2>5. CASE Write(g, m)
      BY <1>4, <2>2, <2>4, <2>5, WriteDelivers DEF Events
    <2>6. CASE WriteFails(g)
      BY <1>1, <2>6 DEF WriteFails
    <2> QED BY <2>3, <2>5, <2>6
  <1> QED BY <1>1, <1>2, <1>3, <1>4 DEF Work, Handler, Notify, ConfigSnapshot, ConfigSnapshotFails,
             NotifyNotification, Drain, ReadEOF, RemoveClient, RemoveRulesets, Close

-----------------------------------------------------------------------------
(* What a step of its handler does to a connection's operations: it puts   *)
(* others before the rest.  An answer comes only from an answer, one that  *)
(* is made is to be sent, and one that is sent is in the socket.           *)
Handles(c, a) ==
    /\ a \in Seq(Ops) /\ todo[c] # <<>> /\ Do(c, a)
    /\ \A i \in 1..Len(a) : a[i].op # "close" /\ (Replying(a[i]) => Replying(Head(todo[c])))
    /\ Head(todo[c]).op = "snapshot" /\ Head(todo[c]).ev = "reply" =>
          \E i \in 1..Len(a) : a[i].op = "send" /\ a[i].msg.ev = "reply"
    /\ Head(todo[c]).op = "send" /\ Head(todo[c]).msg.ev = "reply" => Unread(c)'

LEMMA HandlesNone ==
    ASSUME NEW c, todo[c] # <<>>, Do(c, <<>>), ~(Answers(Head(todo[c])) /\ ~Unread(c)'),
           Head(todo[c]).op # "snapshot"
    PROVE  \E a : Handles(c, a)
  <1>1. PICK a : a = <<>>
    OBVIOUS
  <1>2. a \in Seq(Ops) /\ \A i \in 1..Len(a) : FALSE
    BY <1>1
  <1>3. Handles(c, a)
    BY <1>1, <1>2 DEF Handles, Answers
  <1> QED BY <1>3

LEMMA HandlesOne ==
    ASSUME NEW c, todo[c] # <<>>, NEW o \in Ops, Do(c, <<o>>), o.op # "close",
           Replying(o) => Replying(Head(todo[c])),
           Answers(Head(todo[c])) =>
               Head(todo[c]).op = "snapshot" /\ o.op = "send" /\ o.msg.ev = "reply"
    PROVE  \E a : Handles(c, a)
  <1>1. PICK a : a = <<o>>
    OBVIOUS
  <1>2. a \in Seq(Ops) /\ Len(a) = 1 /\ a[1] = o
    BY <1>1, Few
  <1>3. \A i \in 1..Len(a) : i = 1
    BY <1>2
  <1>4. 1 \in 1..Len(a)
    BY <1>2
  <1>5. Head(todo[c]).op = "send" /\ Head(todo[c]).msg.ev = "reply" => FALSE
    BY DEF Answers
  <1>6. Head(todo[c]).op = "snapshot" /\ Head(todo[c]).ev = "reply" => o.op = "send" /\ o.msg.ev = "reply"
    BY DEF Answers
  <1>7. Handles(c, a)
    BY <1>1, <1>2, <1>3, <1>4, <1>5, <1>6 DEF Handles
  <1> QED BY <1>7

LEMMA HandlesTwo ==
    ASSUME NEW c, todo[c] # <<>>, NEW n \in Ops, NEW o \in Ops, Do(c, <<n, o>>), n.op = "note",
           o.op = "send", Head(todo[c]).op = "snapshot",
           o.msg.ev = "reply" <=> Head(todo[c]).ev = "reply"
    PROVE  \E a : Handles(c, a)
  <1>1. PICK a : a = <<n, o>>
    OBVIOUS
  <1>2. a \in Seq(Ops) /\ Len(a) = 2 /\ a[1] = n /\ a[2] = o
    BY <1>1, Few
  <1>3. \A i \in 1..Len(a) : i = 1 \/ i = 2
    BY <1>2
  <1>4. 2 \in 1..Len(a)
    BY <1>2
  <1>5. Handles(c, a)
    BY <1>1, <1>2, <1>3, <1>4 DEF Handles, Replying, Answers
  <1> QED BY <1>5

(* An answer that was written is there to be read. *)
LEMMA WrittenIsUnread ==
    ASSUME Types, NEW c \in Conns, NEW m \in Msgs, Write(c, m), m.ev = "reply"
    PROVE  Unread(c)'
  <1>1. inbox'[c] = Append(inbox[c], m) /\ inbox[c] \in Seq(Msgs)
    BY WriteEffect DEF Types
  <1>2. PICK s, n, t : s = inbox[c] /\ n = Len(s) + 1 /\ t = Append(s, m)
    OBVIOUS
  <1>3. Len(t) = n /\ n \in Nat /\ t[n] = m /\ n >= 1
    BY <1>1, <1>2, More
  <1>4. n \in 1..Len(t)
    BY <1>3
  <1> QED BY <1>1, <1>2, <1>3, <1>4 DEF Unread

(* A client whose answer cannot be written is gone, and its handler cleans *)
(* up; otherwise the handler goes on with what it has to do.               *)
LEMMA HandlerStep ==
    ASSUME Types, Ordered, NEW c \in Conns, Work(c) \/ Handler(c)
    PROVE  \/ up[c] # "open" /\ todo' = [todo EXCEPT ![c] = cleanup]
           \/ \E a : Handles(c, a)
  <1> c \in Goroutines
    BY ConnsRun
  <1>1. PICK h : h = Head(todo[c])
    OBVIOUS
  <1>2. CASE Notify(c)
    <2>1. h.op = "notify" /\ todo[c] # <<>> /\ ~Answers(h)
      BY <1>1, <1>2 DEF Notify, Next1, Answers
    <2>2. CASE Do(c, <<>>)
      BY <1>1, <2>1, <2>2, HandlesNone
    <2>3. CASE \E o \in Ops : Do(c, <<o>>) /\ o.op = "snapshot" /\ o.ev = h.ev
      <3>1. h.ev \in Events
        BY <1>1, <1>2, NotifyEffect
      <3>2. PICK o \in Ops : Do(c, <<o>>) /\ o.op = "snapshot" /\ o.ev = h.ev
        BY <2>3
      <3>3. ~Replying(o)
        BY <3>1, <3>2 DEF Replying, Answers, Events
      <3> QED BY <1>1, <2>1, <3>2, <3>3, HandlesOne
    <2> QED BY <1>1, <1>2, <2>2, <2>3, NotifyEffect
  <1>3. CASE ConfigSnapshot(c)
    <2>1. h.op = "snapshot" /\ todo[c] # <<>>
      BY <1>1, <1>3 DEF ConfigSnapshot, Next1
    <2>2. h.ev \in Events \cup {"reply"}
      BY <1>1, <1>3, SnapshotEffect
    <2>3. PICK o \in Ops : Do(c, <<o>>) /\ o.op = "send" /\ o.msg = Event(h.ev)
      BY <1>1, <1>3, SnapshotEffect
    <2>4. o.msg.ev = h.ev
      BY <2>2, <2>3 DEF Event
    <2>5. Replying(o) => Replying(h)
      BY <2>1, <2>3, <2>4 DEF Replying, Answers
    <2>6. Answers(h) => o.msg.ev = "reply"
      BY <2>1, <2>4 DEF Answers
    <2> QED BY <1>1, <2>1, <2>3, <2>5, <2>6, HandlesOne
  <1>4. CASE ConfigSnapshotFails(c)
    <2>1. h.op = "snapshot" /\ todo[c] # <<>>
      BY <1>1, <1>4 DEF ConfigSnapshotFails, Next1
    <2>2. h.ev \in Events \cup {"reply"}
      BY <1>1, <1>4, SnapshotFailsEffect
    <2>3. PICK n, o \in Ops : Do(c, <<n, o>>) /\ n.op = "note" /\ o.op = "send" /\ o.msg = Event(h.ev)
      BY <1>1, <1>4, SnapshotFailsEffect
    <2>4. o.msg.ev = h.ev
      BY <2>2, <2>3 DEF Event
    <2> QED BY <1>1, <2>1, <2>3, <2>4, HandlesTwo
  <1>5. CASE Send(c)
    <2>1. /\ h \in Ops /\ h.op = "send" /\ h = todo[c][1] /\ 1 \in 1..Len(todo[c]) /\ todo[c] # <<>>
      BY <1>1, <1>5, HeadOp DEF Send
    <2>2. h.msg \in Msgs /\ h.to \in Seq(Conns) /\ h.to # <<>>
      BY <1>1, <1>5, SendEffect
    <2>3. h.msg.ev = "reply" => h.to = <<c>>
      BY <2>1 DEF Ordered, AnswersOwn
    <2>4. Answers(h) <=> h.msg.ev = "reply"
      BY <2>1 DEF Answers
    <2>5. h.msg.ev = "reply" => Head(h.to) = c /\ Len(h.to) = 1
      BY <2>3
    <2>6. CASE h.msg.ev = "reply" /\ Write(Head(h.to), h.msg)
      <3>1. Unread(c)'
        BY <2>2, <2>5, <2>6, WrittenIsUnread
      <3>2. up[c] = "open"
        BY <2>5, <2>6 DEF Write
      <3>3. Do(c, <<>>)
        BY <1>1, <1>5, <2>5, <2>6, <3>2, SendEffect DEF WriteFails
      <3> QED BY <1>1, <2>1, <3>1, <3>3, HandlesNone
    <2>7. CASE h.msg.ev = "reply" /\ ~Write(Head(h.to), h.msg)
      BY <1>1, <1>5, <2>5, <2>7, SendEffect DEF WriteFails
    <2>8. CASE h.msg.ev # "reply"
      <3>1. CASE Do(c, <<>>)
        BY <1>1, <2>1, <2>4, <2>8, <3>1, HandlesNone
      <3>2. CASE \E o \in Ops : Do(c, <<o>>) /\ o.op = "send" /\ o.msg = h.msg
        <4>1. PICK o \in Ops : Do(c, <<o>>) /\ o.op = "send" /\ o.msg = h.msg
          BY <3>2
        <4>2. ~Replying(o)
          BY <2>8, <4>1 DEF Replying, Answers
        <4> QED BY <1>1, <2>1, <2>4, <2>8, <4>1, <4>2, HandlesOne
      <3> QED BY <1>1, <1>5, <2>8, <3>1, <3>2, SendEffect
    <2> QED BY <2>6, <2>7, <2>8
  <1>6. CASE NotifyNotification(c)
    <2>1. h.op = "note" /\ todo[c] # <<>> /\ ~Answers(h)
      BY <1>1, <1>6 DEF NotifyNotification, Next1, Answers
    <2>2. CASE Do(c, <<>>)
      BY <1>1, <2>1, <2>2, HandlesNone
    <2>3. CASE \E o \in Ops : Do(c, <<o>>) /\ o.op = "send" /\ o.msg = NoteMsg(h.note)
      <3>1. PICK o \in Ops : Do(c, <<o>>) /\ o.op = "send" /\ o.msg = NoteMsg(h.note)
        BY <2>3
      <3>2. ~Replying(o)
        BY <3>1 DEF Replying, Answers, NoteMsg
      <3> QED BY <1>1, <2>1, <3>1, <3>2, HandlesOne
    <2> QED BY <1>1, <1>6, <2>2, <2>3, NoteEffect
  <1>7. CASE Reply(c)
    <2>1. h.op = "reply" /\ todo[c] # <<>> /\ ~Answers(h)
      BY <1>1, <1>7 DEF Reply, Next1, Answers
    <2>2. CASE Do(c, <<>>)
      BY <1>1, <2>1, <2>2, HandlesNone
    <2> QED BY <1>7, <2>2, ReplyEffect DEF WriteFails
  <1>8. CASE Drain(c) \/ Flush(c)
    <2>1. h.op \in {"drain", "flush"} /\ todo[c] # <<>> /\ ~Answers(h)
      BY <1>1, <1>8 DEF Drain, Flush, Next1, Answers
    <2>2. CASE Do(c, <<>>)
      BY <1>1, <2>1, <2>2, HandlesNone
    <2>3. CASE \E o \in Ops : Do(c, <<o>>) /\ o.op = "flush"
      <3>1. PICK o \in Ops : Do(c, <<o>>) /\ o.op = "flush"
        BY <2>3
      <3>2. ~Replying(o)
        BY <3>1 DEF Replying, Answers
      <3> QED BY <1>1, <2>1, <3>1, <3>2, HandlesOne
    <2> QED BY <1>8, <2>2, <2>3, DrainEffect, FlushEffect
  <1>9. CASE RemoveClient(c) \/ Close(c)
    <2>1. h.op \in {"removeClient", "close"} /\ todo[c] # <<>> /\ ~Answers(h) /\ Do(c, <<>>)
      BY <1>1, <1>9 DEF RemoveClient, Close, Next1, Answers
    <2> QED BY <1>1, <2>1, HandlesNone
  <1>10. CASE RemoveRulesets(c)
    <2>1. h.op = "removeRulesets" /\ todo[c] # <<>> /\ ~Answers(h)
      BY <1>1, <1>10 DEF RemoveRulesets, Next1, Answers
    <2>2. CASE Do(c, <<>>)
      BY <1>1, <2>1, <2>2, HandlesNone
    <2>3. CASE \E o \in Ops : Do(c, <<o>>) /\ o.op = "notify"
      <3>1. PICK o \in Ops : Do(c, <<o>>) /\ o.op = "notify"
        BY <2>3
      <3>2. ~Replying(o)
        BY <3>1 DEF Replying, Answers
      <3> QED BY <1>1, <2>1, <3>1, <3>2, HandlesOne
    <2> QED BY <1>10, <2>2, <2>3, RemoveRulesetsEffect
  <1>11. CASE ReadEOF(c)
    BY <1>11 DEF ReadEOF, Begin
  <1> QED BY <1>2, <1>3, <1>4, <1>5, <1>6, <1>7, <1>8, <1>9, <1>10, <1>11 DEF Work, Handler

-----------------------------------------------------------------------------
(* The sockets. *)

(* Rules change, and never back. *)
LEMMA VersionGrows ==
    ASSUME Types, [Next]_vars
    PROVE  version \in Nat /\ version' \in Nat /\ version <= version'
  <1>1. version \in Nat
    BY ServerBoundsAssumption DEF Types
  <1>2. version' = version \/ version' = version + 1
    <2>1. ASSUME NEW g \in Goroutines, Work(g)
          PROVE  version' = version
      BY <2>1 DEF Work, Notify, ConfigSnapshot, ConfigSnapshotFails, Send, NotifyNotification, dataVars
    <2>2. ASSUME NEW c \in Conns, Handler(c)
          PROVE  version' = version \/ version' = version + 1
      BY <2>2 DEF Handler, Reply, Drain, Flush, ReadEOF, RemoveClient, RemoveRulesets, Close, Change, dataVars
    <2>3. ASSUME NEW c \in Conns, Client(c) \/ ClientReads(c)
          PROVE  version' = version \/ version' = version + 1
      BY <2>3 DEF Client, ClientReads, Accept, HangUp, ConfigRequest, SubscribeRequest,
                  MutationRequest, DebugNotifyRequest, Change, dataVars
    <2>4. CASE WatcherReconcile \/ ProxyCallback
      BY <2>4 DEF WatcherReconcile, ProxyCallback, Change
    <2>5. CASE UNCHANGED vars
      BY <2>5 DEF vars, dataVars
    <2> QED BY <2>1, <2>2, <2>3, <2>4, <2>5 DEF Next
  <1> QED BY <1>1, <1>2

(* A goroutine's step leaves the others' operations alone. *)
LEMMA OwnStep ==
    ASSUME Types, NEW g \in Goroutines, Work(g) \/ (g \in Conns /\ Handler(g)),
           NEW c \in Conns, c # g
    PROVE  todo'[c] = todo[c] /\ up'[c] = up[c] /\ subs'[c] = subs[c]
  <1>1. \E a : Puts(g, a)
    BY WorkPuts, HandlerPuts
  <1>2. todo'[c] = todo[c]
    BY <1>1, PutsType, ConnsRun
  <1>3. up'[c] = up[c] /\ subs' = subs
    BY DEF Work, Handler, Notify, ConfigSnapshot, ConfigSnapshotFails, Send, NotifyNotification,
           Reply, Drain, Flush, ReadEOF, RemoveClient, RemoveRulesets, Close, serverVars, Types
  <1> QED BY <1>2, <1>3

(* The goroutines beside the handlers have operations of their own. *)
LEMMA BackgroundStep ==
    ASSUME Types, WatcherReconcile \/ ProxyCallback, NEW c \in Conns
    PROVE  todo'[c] = todo[c] /\ UNCHANGED <<up, subs, inbox, view>>
  <1>1. PICK g \in Background : \E a : Opens(g, a)
    BY WatcherEffect, ProxyEffect DEF WatcherReconcile, ProxyCallback
  <1>2. g \in Goroutines /\ c \in Goroutines /\ c # g
    BY <1>1, ConnsAssumption DEF Goroutines
  <1>3. PICK a : Puts(g, a)
    BY <1>1, OpensPuts
  <1>4. todo'[c] = todo[c]
    BY <1>2, <1>3, PutsType
  <1> QED BY <1>4 DEF WatcherReconcile, ProxyCallback, serverVars

(* A request or a new connection leaves the other connections alone, and   *)
(* gives its own handler only operations of Fresh.                         *)
Requests(c) ==
    Accept(c) \/ ConfigRequest(c) \/ (\E S \in SubChoices : SubscribeRequest(c, S))
        \/ MutationRequest(c) \/ DebugNotifyRequest(c)

LEMMA RequestStep ==
    ASSUME Types, NEW c \in Conns, Requests(c)
    PROVE  /\ \E a : Opens(c, a) /\ todo'[c] = a
           /\ \A d \in Conns : d # c => /\ todo'[d] = todo[d] /\ up'[d] = up[d]
                                        /\ subs'[d] = subs[d] /\ view'[d] = view[d]
           /\ inbox' = inbox /\ up'[c] = "open"
  <1>1. PICK a : Opens(c, a)
    BY AcceptEffect, ConfigRequestEffect, SubscribeEffect, MutationEffect, DebugEffect DEF Requests
  <1>2. a \in Seq(Ops) /\ todo' = [todo EXCEPT ![c] = a] /\ inbox' = inbox
    BY <1>1 DEF Opens, Fresh
  <1>3. todo'[c] = a /\ \A d \in Conns : d # c => todo'[d] = todo[d]
    BY <1>2, BeginResult, ConnsRun
  <1>4. /\ \A d \in Conns : d # c => up'[d] = up[d] /\ subs'[d] = subs[d] /\ view'[d] = view[d]
        /\ up'[c] = "open"
    BY DEF Requests, Accept, ConfigRequest, SubscribeRequest, MutationRequest, DebugNotifyRequest,
           serverVars, Types
  <1> QED BY <1>1, <1>2, <1>3, <1>4

LEMMA InboxKept ==
    ASSUME Types, Ordered, ChangesAreBrought, InboxUpTo, [Next]_vars
    PROVE  InboxUpTo'
  <1>1. version \in Nat /\ version' \in Nat /\ version <= version'
    BY VersionGrows
  <1>2. SUFFICES ASSUME NEW c \in Conns, NEW i \in 1..Len(inbox'[c]), inbox'[c][i].ev \in Events
                 PROVE  inbox'[c][i].version <= version'
    BY DEF InboxUpTo
  <1>3. inbox[c] \in Seq(Msgs) /\ Len(inbox[c]) \in Nat
    BY DEF Types
  <1>4. \A k \in 1..Len(inbox[c]) : inbox[c][k].ev \in Events => inbox[c][k].version \in Nat
    BY <1>3, MsgKinds, ServerBoundsAssumption
  <1>5. ASSUME NEW k \in 1..Len(inbox[c]), inbox'[c][i] = inbox[c][k]
        PROVE  inbox'[c][i].version <= version'
    BY <1>1, <1>2, <1>4, <1>5 DEF InboxUpTo
  <1>6. CASE inbox'[c] = inbox[c]
    BY <1>5, <1>6
  <1>7. ASSUME NEW g \in Goroutines, Work(g) \/ (g \in Conns /\ Handler(g))
        PROVE  inbox'[c][i].version <= version'
    <2>1. Delivers(g, c)
      BY <1>7, Delivered
    <2>2. ASSUME NEW m \in Msgs, inbox'[c] = Append(inbox[c], m),
                 m.ev \in Events => m.version <= version
          PROVE  inbox'[c][i].version <= version'
      <3>1. PICK s, n, t : s = inbox[c] /\ n = Len(s) /\ t = Append(s, m)
        OBVIOUS
      <3>2. Len(t) = n + 1 /\ n \in Nat /\ t[n + 1] = m /\ \A k \in 1..n : t[k] = s[k]
        BY <1>3, <3>1, More
      <3>3. i \in 1..Len(t) /\ inbox'[c][i] = t[i]
        BY <2>2, <3>1
      <3>4. i \in 1..n \/ i = n + 1
        BY <3>2, <3>3
      <3>5. CASE i \in 1..n
        BY <1>5, <3>1, <3>2, <3>3, <3>5
      <3>6. CASE i = n + 1
        <4>1. inbox'[c][i] = m
          BY <3>2, <3>3, <3>6
        <4>2. m.version \in Nat
          BY <1>2, <4>1, MsgKinds, ServerBoundsAssumption
        <4> QED BY <1>1, <1>2, <2>2, <4>1, <4>2
      <3> QED BY <3>4, <3>5, <3>6
    <2> QED BY <1>6, <2>1, <2>2 DEF Delivers
  <1>8. ASSUME NEW d \in Conns, ClientReads(d)
        PROVE  inbox'[c][i].version <= version'
    <2>1. CASE c # d
      BY <1>6, <1>8, <2>1, FirstMessage
    <2>2. CASE c = d
      <3>1. inbox'[c] = Tail(inbox[c]) /\ inbox[c] # <<>>
        BY <1>8, <2>2, FirstMessage
      <3>2. PICK s, n, t : s = inbox[c] /\ n = Len(s) /\ t = Tail(s)
        OBVIOUS
      <3>3. n \in Nat /\ n >= 1 /\ Len(t) = n - 1 /\ \A k \in 1..n - 1 : t[k] = s[k + 1]
        BY <1>3, <3>1, <3>2, Rest
      <3>4. i \in 1..Len(t) /\ inbox'[c][i] = t[i]
        BY <3>1, <3>2
      <3>5. i \in 1..n - 1 /\ i + 1 \in 1..n
        BY <3>3, <3>4
      <3> QED BY <1>5, <3>2, <3>3, <3>4, <3>5
    <2> QED BY <2>1, <2>2
  <1>9. ASSUME NEW d \in Conns, HangUp(d)
        PROVE  inbox'[c][i].version <= version'
    <2>1. inbox'[c] = inbox[c] \/ inbox'[c] = <<>>
      BY <1>9 DEF HangUp, Types
    <2>2. inbox'[c] # <<>>
      BY <1>2
    <2> QED BY <1>6, <2>1, <2>2
  <1>10. ASSUME NEW d \in Conns, Requests(d)
         PROVE  inbox'[c][i].version <= version'
    BY <1>6, <1>10, RequestStep
  <1>11. CASE WatcherReconcile \/ ProxyCallback
    BY <1>6, <1>11, BackgroundStep
  <1>12. CASE UNCHANGED vars
    BY <1>6, <1>12 DEF vars
  <1> QED BY <1>7, <1>8, <1>9, <1>10, <1>11, <1>12, ConnsRun DEF Next, Client, Requests

(* A handler that has operations left has not closed its connection. *)
ClosedAt(c) ==
    /\ up[c] # "open" => inbox[c] = <<>>
    /\ up[c] = "none" => todo[c] = <<>>
    /\ \A k \in 1..Len(todo[c]) : todo[c][k].op = "close" => k = Len(todo[c]) /\ up[c] # "open"

LEMMA CleanupCloses == \A k \in 1..Len(cleanup) : cleanup[k].op = "close" => k = Len(cleanup)
  <1>1. /\ Len(cleanup) = 5
        /\ cleanup[1].op # "close" /\ cleanup[2].op # "close"
        /\ cleanup[3].op # "close" /\ cleanup[4].op # "close"
    BY DEF cleanup
  <1>2. \A k \in 1..5 : k = 1 \/ k = 2 \/ k = 3 \/ k = 4 \/ k = 5
    OBVIOUS
  <1> QED BY <1>1, <1>2

LEMMA HandlerKeepsClosed ==
    ASSUME Types, Ordered, ChangesAreBrought, NEW c \in Conns, ClosedAt(c), Work(c) \/ Handler(c)
    PROVE  ClosedAt(c)'
  <1> c \in Goroutines
    BY ConnsRun
  <1>1. todo[c] \in Seq(Ops) /\ Len(todo[c]) \in Nat
    BY DEF Types
  <1>2. up[c] # "none"
    BY DEF ClosedAt, Work, Handler, Notify, ConfigSnapshot, ConfigSnapshotFails, Send,
           NotifyNotification, Reply, Drain, Flush, ReadEOF, RemoveClient, RemoveRulesets, Close, Next1
  <1>3. CASE Close(c)
    <2>1. todo[c] # <<>> /\ todo[c][1].op = "close" /\ 1 \in 1..Len(todo[c]) /\ Do(c, <<>>)
      BY <1>3, HeadOp DEF Close
    <2>2. Len(todo[c]) = 1 /\ up[c] # "open"
      BY <2>1 DEF ClosedAt
    <2>3. todo'[c] = <<>> \o Tail(todo[c])
      BY <2>1, DoResult, NothingOp
    <2>4. todo'[c] = <<>>
      <3>1. PICK s, a, t : s = todo[c] /\ a = <<>> /\ t = a \o Tail(s) /\ t = todo'[c]
        BY <2>3
      <3>2. a \in Seq(Ops) /\ Len(a) = 0
        BY <3>1, NothingOp
      <3>3. t \in Seq(Ops) /\ Len(t) = Len(a) + Len(s) - 1
        BY <1>1, <2>1, <3>1, <3>2, Replaced
      <3>4. Len(t) = 0
        BY <2>2, <3>1, <3>2, <3>3
      <3> QED BY <3>1, <3>3, <3>4
    <2>5. inbox'[c] = <<>>
      BY <1>3, <2>2 DEF Close, ClosedAt
    <2> QED BY <2>4, <2>5 DEF ClosedAt
  <1>4. CASE ~Close(c)
    <2>1. up' = up
      BY <1>4 DEF Work, Handler, Notify, ConfigSnapshot, ConfigSnapshotFails, Send,
           NotifyNotification, Reply, Drain, Flush, ReadEOF, RemoveClient, RemoveRulesets
    <2>2. up[c] # "open" => inbox'[c] = <<>>
      BY Delivered DEF Delivers, ClosedAt
    <2>3. CASE up[c] # "open" /\ todo' = [todo EXCEPT ![c] = cleanup]
      <3>1. todo'[c] = cleanup
        BY <2>3, BeginResult, CleanupOps
      <3> QED BY <1>2, <2>1, <2>2, <2>3, <3>1, CleanupCloses DEF ClosedAt
    <2>4. ASSUME NEW a, Handles(c, a)
          PROVE  ClosedAt(c)'
      <3>1. /\ a \in Seq(Ops) /\ todo[c] # <<>> /\ Do(c, a)
            /\ \A i \in 1..Len(a) : a[i].op # "close"
        BY <2>4 DEF Handles
      <3>2. todo'[c] = a \o Tail(todo[c])
        BY <3>1, DoResult
      <3>3. PICK s, t : s = todo[c] /\ t = a \o Tail(s) /\ t = todo'[c]
        BY <3>2
      <3>4. /\ Len(t) = Len(a) + Len(s) - 1 /\ Len(a) \in Nat /\ Len(s) \in Nat
            /\ \A i \in 1..Len(a) : t[i] = a[i]
            /\ \A i \in 1..Len(t) : i > Len(a) => /\ i - Len(a) + 1 \in 2..Len(s)
                                                  /\ t[i] = s[i - Len(a) + 1]
        BY <1>1, <3>1, <3>3, Replaced
      <3>5. ASSUME NEW k \in 1..Len(t), t[k].op = "close"
            PROVE  k = Len(t) /\ up[c] # "open"
        <4>1. k > Len(a)
          BY <3>1, <3>4, <3>5
        <4>2. PICK j : j = k - Len(a) + 1
          OBVIOUS
        <4>3. j \in 1..Len(s) /\ s[j].op = "close"
          BY <3>4, <3>5, <4>1, <4>2
        <4>4. j = Len(s) /\ up[c] # "open"
          BY <3>3, <4>3 DEF ClosedAt
        <4> QED BY <3>4, <3>5, <4>2, <4>4
      <3> QED BY <1>2, <2>1, <2>2, <3>3, <3>5 DEF ClosedAt
    <2> QED BY <2>3, <2>4, HandlerStep
  <1> QED BY <1>3, <1>4

LEMMA ClosedKept ==
    ASSUME Types, Ordered, ChangesAreBrought, Closed, [Next]_vars
    PROVE  Closed'
  <1>1. SUFFICES ASSUME NEW c \in Conns
                 PROVE  ClosedAt(c)'
    BY DEF Closed, ClosedAt
  <1>2. ClosedAt(c)
    BY DEF Closed, ClosedAt
  <1>3. CASE UNCHANGED <<up[c], inbox[c], todo[c]>>
    BY <1>2, <1>3 DEF ClosedAt
  <1>4. ASSUME NEW g \in Goroutines, Work(g) \/ (g \in Conns /\ Handler(g))
        PROVE  ClosedAt(c)'
    <2>1. CASE g = c
      BY <1>2, <1>4, <2>1, HandlerKeepsClosed
    <2>2. CASE g # c
      <3>1. todo'[c] = todo[c] /\ up'[c] = up[c]
        BY <1>4, <2>2, OwnStep
      <3>2. up[c] # "open" => inbox'[c] = inbox[c]
        BY <1>4, Delivered DEF Delivers
      <3> QED BY <1>2, <3>1, <3>2 DEF ClosedAt
    <2> QED BY <2>1, <2>2
  <1>5. ASSUME NEW d \in Conns, ClientReads(d)
        PROVE  ClosedAt(c)'
    <2>1. CASE c # d
      BY <1>3, <1>5, <2>1, FirstMessage DEF ClientReads
    <2>2. CASE c = d
      BY <1>2, <1>5, <2>2 DEF ClientReads, ClosedAt
    <2> QED BY <2>1, <2>2
  <1>6. ASSUME NEW d \in Conns, HangUp(d)
        PROVE  ClosedAt(c)'
    <2>1. CASE c # d
      BY <1>3, <1>6, <2>1 DEF HangUp, Types
    <2>2. CASE c = d
      <3>1. up'[c] = "hungup" /\ inbox'[c] = <<>> /\ todo'[c] = todo[c]
        BY <1>6, <2>2 DEF HangUp, Types
      <3> QED BY <1>2, <3>1 DEF ClosedAt
    <2> QED BY <2>1, <2>2
  <1>7. ASSUME NEW d \in Conns, Requests(d)
        PROVE  ClosedAt(c)'
    <2>1. CASE c # d
      BY <1>3, <1>7, <2>1, RequestStep
    <2>2. CASE c = d
      <3>1. PICK a : Opens(c, a) /\ todo'[c] = a
        BY <1>7, <2>2, RequestStep
      <3>2. \A k \in 1..Len(a) : a[k].op # "close"
        BY <3>1 DEF Opens, Fresh, Start
      <3>3. up'[c] = "open"
        BY <1>7, <2>2, RequestStep
      <3> QED BY <3>1, <3>2, <3>3 DEF ClosedAt
    <2> QED BY <2>1, <2>2
  <1>8. CASE WatcherReconcile \/ ProxyCallback
    BY <1>3, <1>8, BackgroundStep
  <1>9. CASE UNCHANGED vars
    BY <1>3, <1>9 DEF vars
  <1> QED BY <1>4, <1>5, <1>6, <1>7, <1>8, <1>9, ConnsRun DEF Next, Client, Requests

-----------------------------------------------------------------------------
(* get-cfg --watch. *)

(* Nothing of what concerns c changes. *)
LEMMA Unmoved ==
    ASSUME NEW c, Watches(c), cli'[c] = cli[c], todo'[c] = todo[c], inbox'[c] = inbox[c],
           view'[c].newest = view[c].newest, up'[c] = up[c], subs'[c] = subs[c]
    PROVE  Watches(c)'
  <1>1. /\ Unmade(c)' <=> Unmade(c)
        /\ Unsent(c)' <=> Unsent(c)
        /\ Unread(c)' <=> Unread(c)
        /\ NoAnswer(c)' <=> NoAnswer(c)
        /\ Subscribed(c)' <=> Subscribed(c)
    BY DEF Unmade, Unsent, Unread, NoAnswer, Subscribed
  <1>2. Reaches(c)' <=> Reaches(c)
    BY <1>1 DEF Reaches
  <1> QED BY <1>1, <1>2 DEF Watches

(* What is delivered adds to what is in the socket. *)
LEMMA DeliveryAdds ==
    ASSUME Types, NEW g, NEW c \in Conns, Delivers(g, c)
    PROVE  /\ Unread(c) => Unread(c)'
           /\ Unread(c)' => Unread(c) \/ (up[c] = "open" /\ g = c /\ Replying(Head(todo[g])))
           /\ \/ view'[c].newest = view[c].newest
              \/ \E i \in 1..Len(inbox'[c]) :
                    inbox'[c][i].ev \in Events /\ view'[c].newest = inbox'[c][i].version
           /\ \A i \in 1..Len(inbox[c]) : i \in 1..Len(inbox'[c]) /\ inbox'[c][i] = inbox[c][i]
  <1>1. inbox[c] \in Seq(Msgs) /\ Len(inbox[c]) \in Nat
    BY DEF Types
  <1>2. CASE inbox'[c] = inbox[c] /\ view'[c].newest = view[c].newest
    BY <1>2 DEF Unread
  <1>3. ASSUME NEW m \in Msgs, up[c] = "open", inbox'[c] = Append(inbox[c], m),
               view'[c].newest = IF m.ev \in Events /\ m.version > view[c].newest
                                 THEN m.version ELSE view[c].newest,
               m.ev = "reply" => g = c /\ Replying(Head(todo[g]))
        PROVE  /\ Unread(c) => Unread(c)'
               /\ Unread(c)' => Unread(c) \/ (up[c] = "open" /\ g = c /\ Replying(Head(todo[g])))
               /\ \/ view'[c].newest = view[c].newest
                  \/ \E i \in 1..Len(inbox'[c]) :
                        inbox'[c][i].ev \in Events /\ view'[c].newest = inbox'[c][i].version
               /\ \A i \in 1..Len(inbox[c]) : i \in 1..Len(inbox'[c]) /\ inbox'[c][i] = inbox[c][i]
    <2>1. PICK s, n, t : s = inbox[c] /\ n = Len(s) /\ t = Append(s, m)
      OBVIOUS
    <2>2. Len(t) = n + 1 /\ n \in Nat /\ t[n + 1] = m /\ \A k \in 1..n : t[k] = s[k]
      BY <1>1, <2>1, More
    <2>3. t = inbox'[c]
      BY <1>3, <2>1
    <2>4. \A k \in 1..n : k \in 1..Len(t)
      BY <2>2
    <2>5. \A k \in 1..Len(t) : k \in 1..n \/ k = n + 1
      BY <2>2
    <2>6. n + 1 \in 1..Len(t)
      BY <2>2
    <2>7. view'[c].newest = view[c].newest \/ (m.ev \in Events /\ view'[c].newest = m.version)
      BY <1>3
    <2>8. Unread(c) <=> \E k \in 1..n : s[k].ev = "reply"
      BY <2>1 DEF Unread
    <2>9. Unread(c)' <=> \E k \in 1..Len(t) : t[k].ev = "reply"
      BY <2>3 DEF Unread
    <2>10. Unread(c) => Unread(c)'
      BY <2>2, <2>4, <2>8, <2>9
    <2>11. Unread(c)' => Unread(c) \/ (up[c] = "open" /\ g = c /\ Replying(Head(todo[g])))
      BY <1>3, <2>2, <2>5, <2>8, <2>9, Zenon
    <2>12. m.ev \in Events /\ view'[c].newest = m.version =>
              \E i \in 1..Len(t) : t[i].ev \in Events /\ view'[c].newest = t[i].version
      BY <2>2, <2>6, Zenon
    <2>13. \A i \in 1..Len(inbox[c]) : i \in 1..Len(t) /\ t[i] = inbox[c][i]
      BY <2>1, <2>2, <2>4, Zenon
    <2> QED BY <2>3, <2>7, <2>10, <2>11, <2>12, <2>13, Zenon
  <1> QED BY <1>2, <1>3 DEF Delivers

LEMMA DeliveryReaches ==
    ASSUME Types, NEW g, NEW c \in Conns, Delivers(g, c), Reaches(c),
           cli'[c].seen = cli[c].seen, cli'[c].offer = cli[c].offer,
           Unsent(c) => Unsent(c)' \/ Unread(c)'
    PROVE  Reaches(c)'
  <1>1. view'[c].newest \in Nat => view'[c].newest <= view'[c].newest
    OBVIOUS
  <1>2. CASE view'[c].newest = view[c].newest
    <2>1. Unread(c) => Unread(c)'
      BY DeliveryAdds
    <2>2. \A i \in 1..Len(inbox[c]) : i \in 1..Len(inbox'[c]) /\ inbox'[c][i] = inbox[c][i]
      BY DeliveryAdds
    <2> QED BY <1>2, <2>1, <2>2 DEF Reaches
  <1>3. ASSUME NEW i \in 1..Len(inbox'[c]),
               inbox'[c][i].ev \in Events, view'[c].newest = inbox'[c][i].version
        PROVE  Reaches(c)'
    <2>1. Delivers(g, c) => view'[c].newest \in Nat
      <3>1. view[c].newest \in Nat
        BY ServerBoundsAssumption DEF Types
      <3>2. \A m \in Msgs : m.ev \in Events => m.version \in Nat
        BY MsgKinds, ServerBoundsAssumption
      <3> QED BY <3>1, <3>2 DEF Delivers
    <2> QED BY <1>1, <1>3, <2>1 DEF Reaches
  <1> QED BY <1>2, <1>3, DeliveryAdds

(* Another goroutine's step. *)
LEMMA OthersWatch ==
    ASSUME Types, Ordered, ChangesAreBrought, NEW g \in Goroutines,
           Work(g) \/ (g \in Conns /\ Handler(g)), NEW c \in Conns, c # g, Watches(c),
           cli'[c] = cli[c]
    PROVE  Watches(c)'
  <1>1. Delivers(g, c)
    BY Delivered
  <1>2. todo'[c] = todo[c] /\ up'[c] = up[c] /\ subs'[c] = subs[c]
    BY OwnStep
  <1>3. /\ Unmade(c)' <=> Unmade(c)
        /\ Unsent(c)' <=> Unsent(c)
        /\ Subscribed(c)' <=> Subscribed(c)
    BY <1>2 DEF Unmade, Unsent, Subscribed
  <1>4. Unread(c)' <=> Unread(c)
    BY <1>1, DeliveryAdds
  <1>5. NoAnswer(c)' <=> NoAnswer(c)
    BY <1>2, <1>4 DEF NoAnswer
  <1>6. Reaches(c) => Reaches(c)'
    BY <1>1, <1>3, DeliveryReaches
  <1> QED BY <1>3, <1>5, <1>6 DEF Watches

(* What comes after the first operation stays. *)
LEMMA LaterStays ==
    ASSUME Types, NEW c \in Conns, NEW a, Handles(c, a), NEW k \in 1..Len(todo[c]), k # 1
    PROVE  \E j \in 1..Len(todo'[c]) : todo'[c][j] = todo[c][k]
  BY Kept, ConnsRun DEF Handles

(* What is new comes first. *)
LEMMA NewIsFirst ==
    ASSUME Types, NEW c \in Conns, NEW a, Handles(c, a), NEW i \in 1..Len(a)
    PROVE  i \in 1..Len(todo'[c]) /\ todo'[c][i] = a[i]
  <1>1. /\ a \in Seq(Ops) /\ todo[c] # <<>> /\ todo[c] \in Seq(Ops)
        /\ todo'[c] = a \o Tail(todo[c])
    BY DoResult, ConnsRun DEF Handles, Types
  <1>2. PICK s, t : s = todo[c] /\ t = a \o Tail(s) /\ t = todo'[c]
    BY <1>1
  <1>3. i \in 1..Len(t) /\ t[i] = a[i]
    BY <1>1, <1>2, Replaced
  <1> QED BY <1>2, <1>3

(* An operation comes from the first or was there.  *)
LEMMA HandledOrigin ==
    ASSUME Types, NEW c \in Conns, NEW a, Handles(c, a), NEW j \in 1..Len(todo'[c])
    PROVE  \/ \E i \in 1..Len(a) : todo'[c][j] = a[i]
           \/ \E k \in 1..Len(todo[c]) : todo'[c][j] = todo[c][k]
  <1>1. a \in Seq(Ops) /\ todo[c] # <<>> /\ Do(c, a) /\ c \in Goroutines
    BY ConnsRun DEF Handles
  <1> QED BY <1>1, Origin

LEMMA NobodyAnswered ==
    ASSUME Types, Ordered, ChangesAreBrought, NEW c \in Conns, Work(c) \/ Handler(c), NoAnswer(c)
    PROVE  NoAnswer(c)'
  <1>1. CASE up[c] # "open" /\ todo' = [todo EXCEPT ![c] = cleanup]
    <2>1. todo'[c] = cleanup
      BY <1>1, BeginResult, CleanupOps, ConnsRun
    <2>2. \A k \in 1..Len(cleanup) : ~Replying(cleanup[k])
      BY CleanupOps DEF Replying, Answers
    <2>3. ~Unread(c)'
      BY <1>1, Delivered, DeliveryAdds, ConnsRun DEF NoAnswer
    <2> QED BY <2>1, <2>2, <2>3 DEF NoAnswer
  <1>2. ASSUME NEW a, Handles(c, a)
        PROVE  NoAnswer(c)'
    <2>1. /\ todo[c] # <<>> /\ todo[c] \in Seq(Ops)
          /\ \A i \in 1..Len(a) : Replying(a[i]) => Replying(Head(todo[c]))
      BY <1>2, ConnsRun DEF Handles, Types
    <2>2. Head(todo[c]) = todo[c][1] /\ 1 \in 1..Len(todo[c])
      BY <2>1
    <2>3. ~Replying(Head(todo[c]))
      BY <2>2 DEF NoAnswer
    <2>4. ~Unread(c)'
      BY <2>3, Delivered, DeliveryAdds, ConnsRun DEF NoAnswer
    <2>5. ASSUME NEW j \in 1..Len(todo'[c])
          PROVE  ~Replying(todo'[c][j])
      BY <1>2, <2>1, <2>3, HandledOrigin DEF NoAnswer
    <2> QED BY <2>4, <2>5 DEF NoAnswer
  <1> QED BY <1>1, <1>2, HandlerStep

(* An answer that is to be made is to be sent. *)
LEMMA AnswerIsMade ==
    ASSUME Types, Ordered, CliType, ChangesAreBrought, NEW c \in Conns, Work(c) \/ Handler(c),
           up[c] = "open", Next1(c, "snapshot"), Head(todo[c]).ev = "reply",
           cli'[c].offer = version
    PROVE  Reaches(c)'
  <1>1. PICK a : Handles(c, a)
    BY HandlerStep
  <1>2. PICK i \in 1..Len(a) : a[i].op = "send" /\ a[i].msg.ev = "reply"
    BY <1>1 DEF Handles, Next1
  <1>3. Unsent(c)'
    BY <1>1, <1>2, NewIsFirst DEF Unsent
  <1>4. view' = view
    BY DEF Next1, Work, Handler, Notify, ConfigSnapshot, ConfigSnapshotFails, Send,
           NotifyNotification, Reply, Drain, Flush, ReadEOF, RemoveClient, RemoveRulesets, Close,
           Begin, Idle
  <1>5. view'[c].newest <= cli'[c].offer
    BY <1>4 DEF ChangesAreBrought
  <1> QED BY <1>3, <1>5 DEF Reaches

(* The handler's own step. *)
LEMMA HandlerWatches ==
    ASSUME Types, Ordered, CliType, ChangesAreBrought, NEW c \in Conns, ServerStep(c),
           cli[c].cmd = Watch, Watches(c), Closed
    PROVE  Watches(c)'
  <1>1. Work(c) \/ Handler(c)
    BY DEF ServerStep
  <1>2. /\ cli'[c].at = cli[c].at /\ cli'[c].requests = cli[c].requests /\ cli'[c].seen = cli[c].seen
        /\ cli'[c].offer = IF TakesSnapshotForWatch(c) THEN version ELSE cli[c].offer
    BY DEF ServerStep, CliType, CmdRecord
  <1>3. cli[c].requests # <<>> => NoAnswer(c)'
    BY <1>1, NobodyAnswered DEF Watches
  <1>4. Subscribed(c) => Subscribed(c)'
    <2>1. subs' = subs
      BY <1>1 DEF Work, Handler, Notify, ConfigSnapshot, ConfigSnapshotFails, Send, NotifyNotification,
             Reply, Drain, Flush, ReadEOF, RemoveClient, RemoveRulesets, Close, serverVars
    <2>2. CASE Close(c)
      <3>1. todo[c][1].op = "close" /\ 1 \in 1..Len(todo[c])
        BY <2>2, HeadOp, ConnsRun DEF Close
      <3> QED BY <3>1 DEF Closed, Subscribed
    <2>3. CASE ~Close(c)
      <3>1. up' = up
        BY <1>1, <2>3 DEF Work, Handler, Notify, ConfigSnapshot, ConfigSnapshotFails, Send,
               NotifyNotification, Reply, Drain, Flush, ReadEOF, RemoveClient, RemoveRulesets
      <3> QED BY <2>1, <3>1 DEF Subscribed
    <2> QED BY <2>2, <2>3
  <1>5. ASSUME cli[c].requests = <<>>
        PROVE  Unmade(c)' \/ Reaches(c)'
    <2>1. up[c] = "open" /\ (Unmade(c) \/ Reaches(c))
      BY <1>5 DEF Watches, Subscribed
    <2>2. CASE Next1(c, "snapshot") /\ Head(todo[c]).ev = "reply"
      <3>1. TakesSnapshotForWatch(c)
        BY <2>2 DEF TakesSnapshotForWatch, Watch
      <3> QED BY <1>1, <1>2, <2>1, <2>2, <3>1, AnswerIsMade
    <2>3. CASE ~(Next1(c, "snapshot") /\ Head(todo[c]).ev = "reply")
      <3>1. PICK a : Handles(c, a)
        BY <1>1, <2>1, HandlerStep
      <3>2. /\ todo[c] # <<>> /\ Head(todo[c]) = todo[c][1]
        BY <3>1, ConnsRun DEF Handles, Types
      <3>3. Unmade(c) => Unmade(c)'
        <4>1. SUFFICES ASSUME NEW k \in 1..Len(todo[c]), todo[c][k].op = "snapshot",
                              todo[c][k].ev = "reply"
                       PROVE  Unmade(c)'
          BY DEF Unmade
        <4>2. k # 1
          BY <2>3, <3>2, <4>1 DEF Next1
        <4> QED BY <3>1, <4>1, <4>2, LaterStays DEF Unmade
      <3>4. Unsent(c) => Unsent(c)' \/ Unread(c)'
        <4>1. SUFFICES ASSUME NEW k \in 1..Len(todo[c]), todo[c][k].op = "send",
                              todo[c][k].msg.ev = "reply"
                       PROVE  Unsent(c)' \/ Unread(c)'
          BY DEF Unsent
        <4>2. CASE k = 1
          BY <3>1, <3>2, <4>1, <4>2 DEF Handles
        <4>3. CASE k # 1
          BY <3>1, <4>1, <4>3, LaterStays DEF Unsent
        <4> QED BY <4>2, <4>3
      <3>5. cli'[c].offer = cli[c].offer
        <4>1. ~TakesSnapshotForWatch(c)
          <5>1. TakesSnapshotForWatch(c) => Next1(c, "snapshot") /\ Head(todo[c]).ev = "reply"
            BY DEF TakesSnapshotForWatch
          <5> QED BY <2>3, <5>1
        <4> QED BY <1>2, <4>1
      <3>6. Delivers(c, c)
        BY <1>1, Delivered, ConnsRun
      <3> QED BY <1>2, <2>1, <3>3, <3>4, <3>5, <3>6, DeliveryReaches
    <2> QED BY <2>2, <2>3
  <1> QED BY <1>2, <1>3, <1>4, <1>5 DEF Watches

(* The connection is accepted: nothing has been asked yet. *)
LEMMA AcceptedWatches ==
    ASSUME Types, NEW c \in Conns, Accepted(c), Watches(c)
    PROVE  Watches(c)'
  <1>1. cli' = cli /\ up[c] = "none" /\ todo' = [todo EXCEPT ![c] = notify("clients")] /\ inbox' = inbox
    BY DEF Accepted, Accept, Begin
  <1>2. cli[c].requests = <<"subscribe", "config">>
    BY <1>1 DEF Watches, Subscribed
  <1>3. PICK o \in Ops : notify("clients") = <<o>> /\ o.op = "notify"
    BY NotifyOp DEF Events
  <1>4. PICK a : a = <<o>> /\ a \in Seq(Ops) /\ Len(a) = 1 /\ a[1] = o
    BY Few
  <1>5. todo'[c] = a
    BY <1>1, <1>3, <1>4, BeginResult, ConnsRun
  <1>6. \A k \in 1..Len(a) : ~Replying(a[k])
    BY <1>3, <1>4 DEF Replying, Answers
  <1>7. NoAnswer(c)'
    BY <1>1, <1>2, <1>5, <1>6 DEF NoAnswer, Unread, Watches
  <1> QED BY <1>1, <1>2, <1>7 DEF Watches

(* A request is read: first to subscribe, then for the configuration. *)
LEMMA ServeWatches ==
    ASSUME Types, CliType, NEW c \in Conns, Serve(c), cli[c].cmd = Watch, Watches(c)
    PROVE  Watches(c)'
  <1>1. /\ cli[c].requests # <<>> /\ cli[c] \in CmdRecord
        /\ cli' = [cli EXCEPT ![c].requests = Tail(@)]
    BY ServeShape DEF CliType
  <1>2. cli'[c].at = cli[c].at /\ cli'[c].requests = Tail(cli[c].requests)
    BY <1>1 DEF CliType, CmdRecord
  <1>3. cli[c].at = "wait" /\ NoAnswer(c)
    BY <1>1 DEF Watches
  <1>4. CASE cli[c].requests = <<"subscribe", "config">>
    <2>1. Head(cli[c].requests) = "subscribe" /\ cli'[c].requests = <<"config">>
      BY <1>2, <1>4
    <2>2. PICK S : S = EventsOf(Watch)
      OBVIOUS
    <2>3. "notification" \notin S /\ "config" \in S
      BY <2>2 DEF EventsOf, Watch
    <2>4. SubscribeRequest(c, S)
      BY <2>1, <2>2, ServeShape
    <2>5. /\ up[c] = "open" /\ up' = up /\ inbox' = inbox /\ subs' = [subs EXCEPT ![c] = S]
          /\ todo' = [todo EXCEPT ![c] = notify("clients") \o <<>>]
      BY <2>3, <2>4 DEF SubscribeRequest, Begin
    <2>6. Subscribed(c)'
      BY <2>3, <2>5 DEF Subscribed, Types
    <2>7. PICK o \in Ops : notify("clients") = <<o>> /\ o.op = "notify"
      BY NotifyOp DEF Events
    <2>8. PICK a : a = <<o>> /\ a \in Seq(Ops) /\ Len(a) = 1 /\ a[1] = o /\ <<o>> \o <<>> = a
      BY Few
    <2>9. todo'[c] = a
      BY <2>5, <2>7, <2>8, BeginResult, ConnsRun
    <2>10. \A k \in 1..Len(a) : ~Replying(a[k])
      BY <2>7, <2>8 DEF Replying, Answers
    <2>11. NoAnswer(c)'
      BY <1>3, <2>5, <2>9, <2>10 DEF NoAnswer, Unread
    <2>12. cli'[c].requests # <<>>
      BY <2>1
    <2> QED BY <1>2, <1>3, <2>1, <2>6, <2>11, <2>12 DEF Watches
  <1>5. CASE cli[c].requests = <<"config">>
    <2>1. Head(cli[c].requests) = "config" /\ cli'[c].requests = <<>>
      BY <1>2, <1>5
    <2>2. ConfigRequest(c)
      BY <2>1, ServeShape
    <2>3. /\ up' = up /\ subs' = subs
          /\ todo' = [todo EXCEPT ![c] = snapshot("reply", {c})]
      BY <2>2 DEF ConfigRequest, Begin, serverVars
    <2>4. Subscribed(c)'
      <3>1. cli[c].requests # <<"subscribe", "config">>
        BY <1>5
      <3> QED BY <2>3, <3>1 DEF Watches, Subscribed
    <2>5. PICK o \in Ops : snapshot("reply", {c}) = <<o>> /\ o.op = "snapshot" /\ o.ev = "reply"
      BY SnapshotOp
    <2>6. PICK a : a = <<o>> /\ a \in Seq(Ops) /\ Len(a) = 1 /\ a[1] = o
      BY Few
    <2>7. todo'[c] = a
      BY <2>3, <2>5, <2>6, BeginResult, ConnsRun
    <2>8. Unmade(c)'
      <3>1. 1 \in 1..Len(a)
        BY <2>6
      <3> QED BY <2>5, <2>6, <2>7, <3>1 DEF Unmade
    <2> QED BY <1>2, <1>3, <2>1, <2>4, <2>8 DEF Watches
  <1> QED BY <1>1, <1>4, <1>5 DEF Watches

(* What the command reads, it has seen. *)
LEMMA ReadsWatch ==
    ASSUME Types, CliType, NEW c \in Conns, Wait(c) \/ watchConfig(c), cli[c].cmd = Watch, Watches(c)
    PROVE  Watches(c)'
  <1>1. ClientReads(c)
    BY DEF Wait, watchConfig
  <1>2. PICK m : m = Head(inbox[c])
    OBVIOUS
  <1>3. /\ inbox[c] \in Seq(Msgs) /\ inbox[c] # <<>> /\ m \in Msgs /\ inbox'[c] = Tail(inbox[c])
        /\ view'[c].newest = view[c].newest
    BY <1>1, <1>2, FirstMessage
  <1>4. PICK s, n, t : s = inbox[c] /\ n = Len(s) /\ t = Tail(s) /\ t = inbox'[c]
    BY <1>3
  <1>5. /\ m = s[1] /\ n \in Nat /\ n >= 1 /\ Len(t) = n - 1
        /\ \A i \in 1..n - 1 : t[i] = s[i + 1]
    BY <1>2, <1>3, <1>4, Rest
  <1>6. \A k \in 1..n : k = 1 \/ (k - 1 \in 1..Len(t) /\ t[k - 1] = s[k])
    BY <1>5
  <1>7. \A i \in 1..Len(t) : i + 1 \in 1..n /\ t[i] = s[i + 1]
    BY <1>5
  <1>8. /\ todo' = todo /\ up' = up /\ subs' = subs
    BY <1>1 DEF ClientReads, serverVars
  <1>9. \E next \in IF m.ev = "reply" \/ cli[c].at = "loop" THEN {"loop"} ELSE {"wait"} :
            cli' = [cli EXCEPT ![c].at = next, ![c].seen = Seen(c, m)]
    <2>1. CASE Wait(c)
      BY <1>2, <2>1, WatchShape DEF Wait
    <2>2. CASE watchConfig(c)
      <3>1. cli[c].at = "loop" /\ cli' = [cli EXCEPT ![c].seen = Seen(c, m)]
        BY <1>2, <2>2 DEF watchConfig
      <3>2. cli' = [cli EXCEPT ![c].at = "loop", ![c].seen = Seen(c, m)]
        BY <3>1 DEF CliType, CmdRecord
      <3> QED BY <3>1, <3>2
    <2> QED BY <2>1, <2>2
  <1>10. PICK next \in IF m.ev = "reply" \/ cli[c].at = "loop" THEN {"loop"} ELSE {"wait"} :
             cli' = [cli EXCEPT ![c].at = next, ![c].seen = Seen(c, m)]
    BY <1>9
  <1>11. /\ cli'[c].at = next /\ cli'[c].seen = Seen(c, m)
         /\ cli'[c].requests = cli[c].requests /\ cli'[c].offer = cli[c].offer
    BY <1>10 DEF CliType, CmdRecord
  <1>12. Subscribed(c)' <=> Subscribed(c)
    BY <1>8 DEF Subscribed
  <1>13. Unmade(c)' <=> Unmade(c)
    BY <1>8 DEF Unmade
  <1>14. ASSUME cli[c].requests # <<>>
         PROVE  next = "wait" /\ NoAnswer(c)'
    <2>1. NoAnswer(c) /\ cli[c].at = "wait"
      BY <1>14 DEF Watches
    <2>2. m.ev # "reply"
      BY <1>4, <1>5, <2>1 DEF NoAnswer, Unread
    <2>3. ~Unread(c)'
      BY <1>4, <1>7, <2>1 DEF NoAnswer, Unread
    <2> QED BY <1>8, <1>10, <2>1, <2>2, <2>3 DEF NoAnswer
  <1>15. ASSUME Reaches(c)
         PROVE  Reaches(c)'
    <2>1. /\ Seen(c, m) \in Nat /\ Seen(c, m) >= cli[c].seen /\ cli[c].seen \in Nat
          /\ m.ev \in Events => Seen(c, m) >= m.version /\ m.version \in Nat
          /\ m.ev = "reply" => Seen(c, m) >= cli[c].offer
          /\ cli[c].offer \in Nat /\ view[c].newest \in Nat
      BY <1>3, SeenVersion, MsgKinds, ServerBoundsAssumption DEF CliType, CmdRecord, Types
    <2>2. CASE view[c].newest <= cli[c].seen
      BY <1>3, <1>11, <2>1, <2>2 DEF Reaches
    <2>3. CASE view[c].newest <= cli[c].offer /\ Unsent(c)
      <3>1. Unsent(c)'
        BY <1>8, <2>3 DEF Unsent
      <3> QED BY <1>3, <1>11, <2>3, <3>1 DEF Reaches
    <2>4. CASE view[c].newest <= cli[c].offer /\ Unread(c)
      <3>1. PICK k \in 1..n : s[k].ev = "reply"
        BY <1>4, <2>4 DEF Unread
      <3>2. CASE k = 1
        BY <1>3, <1>5, <1>11, <2>1, <2>4, <3>1, <3>2 DEF Reaches
      <3>3. CASE k # 1
        <4>1. Unread(c)'
          BY <1>4, <1>6, <3>1, <3>3 DEF Unread
        <4> QED BY <1>3, <1>11, <2>4, <4>1 DEF Reaches
      <3> QED BY <3>2, <3>3
    <2>5. ASSUME NEW k \in 1..n, s[k].ev \in Events, view[c].newest <= s[k].version
          PROVE  Reaches(c)'
      <3>1. CASE k = 1
        BY <1>3, <1>5, <1>11, <2>1, <2>5, <3>1 DEF Reaches
      <3>2. CASE k # 1
        BY <1>3, <1>4, <1>6, <2>5, <3>2 DEF Reaches
      <3> QED BY <3>1, <3>2
    <2> QED BY <1>4, <1>15, <2>2, <2>3, <2>4, <2>5 DEF Reaches
  <1> QED BY <1>10, <1>11, <1>12, <1>13, <1>14, <1>15 DEF Watches

(* Versions seen are versions there were. *)
LEMMA BoundsKept ==
    ASSUME CliType, Types, InboxUpTo, [CLNext]_clVars, [Next]_vars, NEW c \in Conns,
           cli[c].offer <= version, cli[c].seen <= version
    PROVE  cli'[c].offer <= version' /\ cli'[c].seen <= version'
  <1>1. version \in Nat /\ version' \in Nat /\ version <= version'
    BY VersionGrows
  <1>2. cli[c] \in CmdRecord /\ cli[c].offer \in Nat /\ cli[c].seen \in Nat
    BY DEF CliType, CmdRecord
  <1>3. CASE cli'[c].offer = cli[c].offer /\ cli'[c].seen = cli[c].seen
    BY <1>1, <1>2, <1>3
  <1>4. ASSUME NEW d \in Conns, NEW cmd, Run(d, cmd) \/ Refused(d) \/ End(d)
        PROVE  cli'[c].offer <= version' /\ cli'[c].seen <= version'
    <2>1. CASE d # c
      BY <1>3, <1>4, <2>1 DEF Run, Refused, End, CliType
    <2>2. CASE d = c
      <3>1. cli'[c].offer = 0 /\ cli'[c].seen = 0
        <4>1. CASE Run(d, cmd)
          <5>1. PICK r : /\ r = [NoCommand EXCEPT !.cmd = cmd, !.requests = runCLI(cmd).asks,
                                   !.at = IF cmd = "notifications" THEN "loop" ELSE "wait"]
                         /\ cli' = [cli EXCEPT ![c] = r]
            BY <2>2, <4>1 DEF Run
          <5>2. cli'[c] = r
            BY <5>1 DEF CliType
          <5>3. r.offer = 0 /\ r.seen = 0
            BY <5>1 DEF NoCommand
          <5> QED BY <5>2, <5>3
        <4>2. CASE Refused(d) \/ End(d)
          BY <2>2, <4>2 DEF Refused, End, CliType, NoCommand
        <4> QED BY <1>4, <4>1, <4>2
      <3> QED BY <1>1, <3>1
    <2> QED BY <2>1, <2>2
  <1>5. ASSUME NEW d \in Conns, Serve(d)
        PROVE  cli'[c].offer <= version' /\ cli'[c].seen <= version'
    <2>1. cli' = [cli EXCEPT ![d].requests = Tail(@)]
      BY <1>5, ServeShape
    <2>2. cli'[c].offer = cli[c].offer /\ cli'[c].seen = cli[c].seen
      BY <2>1 DEF CliType, CmdRecord
    <2> QED BY <1>3, <2>2
  <1>6. ASSUME NEW d \in Conns, Reads(d)
        PROVE  cli'[c].offer <= version' /\ cli'[c].seen <= version'
    <2>1. CASE d # c \/ watchNotifications(d)
      BY <1>3, <1>6, <2>1 DEF Reads, Wait, watchConfig, watchNotifications, CliType
    <2>2. CASE d = c /\ ~watchNotifications(d)
      <3>1. PICK m : m = Head(inbox[c])
        OBVIOUS
      <3>2. ClientReads(c)
        BY <1>6, <2>2 DEF Reads, Wait, watchConfig
      <3>3. m \in Msgs /\ m = inbox[c][1] /\ 1 \in 1..Len(inbox[c])
        BY <3>1, <3>2, FirstMessage, Rest
      <3>4. m.ev \in Events => m.version <= version
        BY <3>3 DEF InboxUpTo
      <3>5. cli'[c].offer = cli[c].offer /\ cli'[c].seen = Seen(c, m)
        <4>1. \/ \E next : cli' = [cli EXCEPT ![c].at = next, ![c].seen = Seen(c, m)]
              \/ cli' = [cli EXCEPT ![c].seen = Seen(c, m)]
          BY <1>6, <2>2, <3>1 DEF Reads, Wait, watchConfig
        <4>2. PICK v : v = Seen(c, m)
          OBVIOUS
        <4>3. CASE \E next : cli' = [cli EXCEPT ![c].at = next, ![c].seen = v]
          BY <4>2, <4>3 DEF CliType, CmdRecord
        <4>4. CASE cli' = [cli EXCEPT ![c].seen = v]
          BY <4>2, <4>4 DEF CliType, CmdRecord
        <4> QED BY <4>1, <4>2, <4>3, <4>4
      <3>6. /\ Seen(c, m) \in Nat
            /\ \/ Seen(c, m) = cli[c].seen
               \/ Seen(c, m) = cli[c].offer
               \/ m.ev \in Events /\ Seen(c, m) = m.version
        BY <3>3, SeenVersion
      <3> QED BY <1>1, <1>2, <3>4, <3>5, <3>6
    <2> QED BY <2>1, <2>2
  <1>7. ASSUME NEW d \in Conns, ServerStep(d)
        PROVE  cli'[c].offer <= version' /\ cli'[c].seen <= version'
    <2>1. cli'[c].offer \in {cli[c].offer, version} /\ cli'[c].seen = cli[c].seen
      BY <1>7 DEF ServerStep, CliType, CmdRecord
    <2> QED BY <1>1, <1>2, <2>1
  <1> QED BY <1>3, <1>4, <1>5, <1>6, <1>7 DEF CLNext, clVars, Accepted, OtherStep

LEMMA WatchingKept ==
    ASSUME CliType, Types, Ordered, ChangesAreBrought, Sockets, Watching, [CLNext]_clVars
    PROVE  Watching'
  <1>1. [Next]_vars
    BY ServerSteps
  <1>2. SUFFICES ASSUME NEW c \in Conns, cli'[c].cmd = Watch
                 PROVE  Watches(c)'
    BY <1>1, BoundsKept DEF Watching, Sockets
  <1>3. cli[c].cmd = Watch => Watches(c)
    BY DEF Watching
  <1>4. CASE UNCHANGED clVars
    BY <1>2, <1>3, <1>4, Unmoved DEF clVars, vars, serverVars
  <1>5. ASSUME NEW d \in Conns, NEW cmd \in Commands[d], Run(d, cmd)
        PROVE  Watches(c)'
    <2>1. CASE d # c
      <3>1. cli'[c] = cli[c]
        BY <1>5, <2>1 DEF Run, CliType
      <3> QED BY <1>2, <1>3, <1>5, <3>1, Unmoved DEF Run, vars, serverVars
    <2>2. CASE d = c
      <3>1. cli'[c] = [NoCommand EXCEPT !.cmd = cmd, !.requests = runCLI(cmd).asks,
                                        !.at = IF cmd = "notifications" THEN "loop" ELSE "wait"]
        BY <1>5, <2>2 DEF Run, CliType
      <3>2. cmd = Watch
        BY <1>2, <3>1 DEF NoCommand
      <3>3. cli'[c].at = "wait" /\ cli'[c].requests = <<"subscribe", "config">>
        BY <3>1, <3>2, WatchShape DEF NoCommand, Watch
      <3>4. todo'[c] = <<>> /\ inbox'[c] = <<>>
        BY <1>5, <2>2 DEF Run, Sockets, Closed, vars, serverVars
      <3>5. NoAnswer(c)'
        BY <3>4 DEF NoAnswer, Unread
      <3>6. cli'[c].requests # <<>>
        BY <3>3
      <3> QED BY <3>3, <3>5, <3>6 DEF Watches
    <2> QED BY <2>1, <2>2
  <1>6. ASSUME NEW d \in Conns, Accepted(d)
        PROVE  Watches(c)'
    <2>1. cli' = cli /\ Requests(d)
      BY <1>6 DEF Accepted, Requests
    <2>2. CASE d # c
      <3>1. /\ todo'[c] = todo[c] /\ inbox'[c] = inbox[c] /\ view'[c] = view[c]
            /\ up'[c] = up[c] /\ subs'[c] = subs[c]
        BY <2>1, <2>2, RequestStep
      <3> QED BY <1>2, <1>3, <2>1, <3>1, Unmoved
    <2>3. CASE d = c
      BY <1>2, <1>3, <1>6, <2>1, <2>3, AcceptedWatches
    <2> QED BY <2>2, <2>3
  <1>7. ASSUME NEW d \in Conns, Refused(d)
        PROVE  Watches(c)'
    <2>1. cli'[d].cmd # Watch
      BY <1>7 DEF Refused, CliType, NoCommand, Watch
    <2>2. cli'[c] = cli[c]
      BY <1>2, <1>7, <2>1 DEF Refused, CliType
    <2> QED BY <1>2, <1>3, <1>7, <2>2, Unmoved DEF Refused, vars, serverVars
  <1>8. ASSUME NEW d \in Conns, Serve(d)
        PROVE  Watches(c)'
    <2>1. Requests(d)
      BY <1>8, ServeShape DEF Requests
    <2>2. cli'[c].cmd = cli[c].cmd
      BY <1>8, ServeShape DEF CliType, CmdRecord
    <2>3. CASE d # c
      <3>1. /\ todo'[c] = todo[c] /\ inbox'[c] = inbox[c] /\ view'[c] = view[c]
            /\ up'[c] = up[c] /\ subs'[c] = subs[c]
        BY <2>1, <2>3, RequestStep
      <3>2. cli'[c] = cli[c]
        BY <1>8, <2>3, ServeShape DEF CliType
      <3> QED BY <1>2, <1>3, <3>1, <3>2, Unmoved
    <2>4. CASE d = c
      BY <1>2, <1>3, <1>8, <2>2, <2>4, ServeWatches
    <2> QED BY <2>3, <2>4
  <1>9. ASSUME NEW d \in Conns, Reads(d)
        PROVE  Watches(c)'
    <2>1. ClientReads(d)
      BY <1>9 DEF Reads, Wait, watchConfig, watchNotifications
    <2>2. cli'[c].cmd = cli[c].cmd
      <3>1. \/ \E next, v : cli' = [cli EXCEPT ![d].at = next, ![d].seen = v]
            \/ \E v : cli' = [cli EXCEPT ![d].seen = v]
            \/ cli' = cli
        BY <1>9 DEF Reads, Wait, watchConfig, watchNotifications
      <3>2. CASE \E next, v : cli' = [cli EXCEPT ![d].at = next, ![d].seen = v]
        BY <3>2 DEF CliType, CmdRecord
      <3>3. CASE \E v : cli' = [cli EXCEPT ![d].seen = v]
        BY <3>3 DEF CliType, CmdRecord
      <3> QED BY <3>1, <3>2, <3>3
    <2>3. CASE d # c
      <3>1. cli'[c] = cli[c]
        BY <1>9, <2>3 DEF Reads, Wait, watchConfig, watchNotifications, CliType
      <3>2. inbox'[c] = inbox[c] /\ view'[c] = view[c] /\ UNCHANGED <<todo, up, subs>>
        BY <2>1, <2>3, FirstMessage DEF ClientReads, serverVars
      <3> QED BY <1>2, <1>3, <3>1, <3>2, Unmoved
    <2>4. CASE d = c
      <3>1. Wait(c) \/ watchConfig(c)
        BY <1>2, <1>9, <2>2, <2>4 DEF Reads, watchNotifications, Watch
      <3> QED BY <1>2, <1>3, <2>2, <3>1, ReadsWatch
    <2> QED BY <2>3, <2>4
  <1>10. ASSUME NEW d \in Conns, End(d)
         PROVE  Watches(c)'
    <2>1. cli'[d].cmd # Watch
      BY <1>10 DEF End, CliType, NoCommand, Watch
    <2>2. cli'[c] = cli[c] /\ c # d
      BY <1>2, <1>10, <2>1 DEF End, CliType
    <2>3. /\ todo'[c] = todo[c] /\ inbox'[c] = inbox[c] /\ view'[c] = view[c]
          /\ up'[c] = up[c] /\ subs'[c] = subs[c]
      BY <1>10, <2>2 DEF End, HangUp, serverVars, Types
    <2> QED BY <1>2, <1>3, <2>2, <2>3, Unmoved
  <1>11. ASSUME NEW d \in Conns, ServerStep(d)
         PROVE  Watches(c)'
    <2>1. cli'[c].cmd = cli[c].cmd
      BY <1>11 DEF ServerStep, CliType, CmdRecord
    <2>2. CASE d # c
      <3>1. cli'[c] = cli[c]
        BY <1>11, <2>2 DEF ServerStep, CliType
      <3>2. Work(d) \/ (d \in Conns /\ Handler(d))
        BY <1>11 DEF ServerStep
      <3> QED BY <1>2, <1>3, <2>2, <3>1, <3>2, OthersWatch, ConnsRun
    <2>3. CASE d = c
      BY <1>2, <1>3, <1>11, <2>1, <2>3, HandlerWatches DEF Sockets
    <2> QED BY <2>2, <2>3
  <1>12. ASSUME NEW g \in Background, Work(g), cli' = cli
         PROVE  Watches(c)'
    <2>1. g \in Goroutines /\ c # g
      BY ConnsAssumption DEF Goroutines
    <2> QED BY <1>2, <1>3, <1>12, <2>1, OthersWatch
  <1>13. ASSUME WatcherReconcile \/ ProxyCallback, cli' = cli
         PROVE  Watches(c)'
    BY <1>2, <1>3, <1>13, BackgroundStep, Unmoved
  <1> QED BY <1>4, <1>5, <1>6, <1>7, <1>8, <1>9, <1>10, <1>11, <1>12, <1>13 DEF CLNext, OtherStep

-----------------------------------------------------------------------------
(* The theorems. *)

(* A command makes the server do nothing that it could not do without it:  *)
(* the admin API client only sends requests, reads answers and hangs up    *)
(* (internal/adminapi/client.go).  All that is proved of AdminServer holds *)
(* of the server that killswitch-cli talks to.                             *)
THEOREM CommandsUseTheServer == CLSpec => Spec /\ []CliType
  <1>1. CLInit => Init /\ Types /\ CliType
    <2>1. ASSUME CLInit PROVE CliType
      <3>1. NoCommand \in CmdRecord /\ NoCommand.at = "none"
        BY DEF NoCommand, CmdRecord, Places
      <3> QED BY <2>1, <3>1 DEF CLInit, CliType
    <2> QED BY <2>1, InitHolds DEF CLInit, ServerInv
  <1>2. Types /\ CliType /\ [CLNext]_clVars => [Next]_vars /\ (Types /\ CliType)'
    BY ServerSteps, TypesKept, CliTypeKept
  <1> QED BY <1>1, <1>2, PTL DEF CLSpec, Spec

(* get-cfg --watch has been given the rules in force once the server is    *)
(* quiet and the socket empty, whatever happened between its subscription, *)
(* its request and the answer, unless the change was announced to nobody   *)
(* (main.go: runGetConfig).                                                *)
THEOREM WatchersMissNothing == CLSpec => []WatchMissesNothing
  <1>1. CLInit => Sockets /\ Watching
    <2> SUFFICES ASSUME CLInit PROVE Sockets /\ Watching
      OBVIOUS
    <2>1. version = 0 /\ \A c \in Conns : todo[c] = <<>> /\ inbox[c] = <<>> /\ cli[c] = NoCommand
      BY ConnsRun DEF CLInit, Init
    <2>2. \A i \in 1..Len(<<>>) : FALSE
      OBVIOUS
    <2>3. Sockets
      BY <2>1, <2>2 DEF Sockets, Closed, InboxUpTo
    <2>4. NoCommand.offer = 0 /\ NoCommand.seen = 0 /\ NoCommand.cmd # Watch
      BY DEF NoCommand, Watch
    <2>5. Watching
      BY <2>1, <2>4 DEF Watching
    <2> QED BY <2>3, <2>5
  <1>2. CliType /\ ServerInv /\ Sockets /\ Watching /\ [CLNext]_clVars => (Sockets /\ Watching)'
    <2> SUFFICES ASSUME CliType, ServerInv, Sockets, Watching, [CLNext]_clVars
                 PROVE  (Sockets /\ Watching)'
      OBVIOUS
    <2>1. Types /\ Ordered /\ ChangesAreBrought /\ [Next]_vars
      BY ServerSteps DEF ServerInv
    <2>2. Sockets'
      BY <2>1, InboxKept, ClosedKept DEF Sockets
    <2>3. Watching'
      BY <2>1, WatchingKept
    <2> QED BY <2>2, <2>3
  <1>3. CliType /\ ServerInv /\ Sockets /\ Watching => WatchMissesNothing
    <2> SUFFICES ASSUME CliType, ServerInv, Sockets, Watching, Quiet,
                        NEW c \in Conns, cli[c].cmd = Watch, cli[c].at = "loop", inbox[c] = <<>>,
                        version # dropped
                 PROVE  cli[c].seen = version
      BY DEF WatchMissesNothing, Watch
    <2>1. Watches(c) /\ cli[c].seen <= version
      BY DEF Watching
    <2>2. cli[c].requests = <<>>
      BY <2>1 DEF Watches
    <2>3. Subscribed(c)
      <3>1. <<>> # <<"subscribe", "config">>
        OBVIOUS
      <3> QED BY <2>1, <2>2, <3>1 DEF Watches
    <2>4. todo[c] = <<>>
      BY ConnsRun DEF Quiet, Idle
    <2>5. ~Unmade(c) /\ ~Unsent(c) /\ ~Unread(c)
      BY <2>4 DEF Unmade, Unsent, Unread
    <2>6. \A i \in 1..Len(inbox[c]) : FALSE
      OBVIOUS
    <2>7. view[c].newest <= cli[c].seen
      BY <2>1, <2>2, <2>5, <2>6 DEF Watches, Reaches
    <2>8. ~OnItsWay(c)
      BY DEF Quiet, Idle, OnItsWay
    <2>9. view[c].newest = version
      BY <2>3, <2>8 DEF ServerInv, ChangesAreBrought
    <2>10. version \in Nat /\ cli[c].seen \in Nat
      BY ServerBoundsAssumption DEF ServerInv, Types, CliType, CmdRecord
    <2> QED BY <2>1, <2>7, <2>9, <2>10
  <1> QED BY <1>1, <1>2, <1>3, CommandsUseTheServer, ServerInvariant, PTL DEF CLSpec
=============================================================================
