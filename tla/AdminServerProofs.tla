-------------------------- MODULE AdminServerProofs --------------------------
(***************************************************************************)
(* Proofs about the admin API server, for any number of connections, any   *)
(* choice of subscriptions, any socket size and any number of changes and  *)
(* notifications.                                                          *)
(***************************************************************************)
EXTENDS AdminServer, FiniteSetTheorems, TLAPS

(* The messages and operations that really occur: an event has one of      *)
(* three types, a write has somebody to write to, a flush something to     *)
(* write.                                                                  *)
Events == {"config", "interfaces", "clients"}
EventMsgs == [ev : Events, version : 0..MaxVersion]
Replies == [ev : {"reply"}]
NoteMsgs == [ev : {"notification"}, note : 1..MaxNotes]
Msgs == EventMsgs \cup Replies \cup NoteMsgs

Notifies == [op : {"notify"}, ev : Events]
Snapshots == [op : {"snapshot"}, ev : Events \cup {"reply"}, to : (SUBSET Conns) \ {{}}]
Sends == [op : {"send"}, msg : Msgs, to : Seq(Conns) \ {<<>>}]
Raises == [op : {"note"}, note : 1..MaxNotes]
Flushes == [op : {"flush"}, list : Seq(1..MaxNotes) \ {<<>>}]
Others == [op : {"drain", "reply", "removeClient", "removeRulesets", "close"}]
Ops == Notifies \cup Snapshots \cup Sends \cup Raises \cup Flushes \cup Others

Types ==
    /\ up \in [Conns -> {"none", "open", "hungup"}]
    /\ clients \in SUBSET Conns
    /\ subs \in [Conns -> SUBSET EventTypes]
    /\ notifications \in Seq(1..MaxNotes)
    /\ todo \in [Goroutines -> Seq(Ops)]
    /\ inbox \in [Conns -> Seq(Msgs)]
    /\ \A c \in Conns : Len(inbox[c]) <= Cap
    /\ version \in 0..MaxVersion
    /\ notes \in 0..MaxNotes
    /\ view \in [Conns -> [newest : 0..MaxVersion, notes : SUBSET (1..MaxNotes)]]
    /\ dropped \in 0..MaxVersion

(* A goroutine that answers a configuration request does so last, and to   *)
(* its own client; nothing is drained after any other answer; and only the *)
(* handler of a client that is gone removes it.                            *)
Answers(o) == (o.op = "snapshot" /\ o.ev = "reply") \/ (o.op = "send" /\ o.msg.ev = "reply")

InOrder(s) ==
    \A k \in 1..Len(s) :
        /\ Answers(s[k]) => k = Len(s)
        /\ s[k].op = "reply" => \A j \in 1..Len(s) : j > k => s[j].op # "drain"

AnswersOwn(g, o) ==
    /\ o.op = "snapshot" /\ o.ev = "reply" => o.to = {g}
    /\ o.op = "send" /\ o.msg.ev = "reply" => o.to = <<g>>

Ordered ==
    /\ \A g \in Goroutines :
          /\ InOrder(todo[g])
          /\ \A k \in 1..Len(todo[g]) : AnswersOwn(g, todo[g][k])
    /\ \A c \in Conns :
          /\ up[c] = "open" => c \in clients
          /\ \A k \in 1..Len(todo[c]) : todo[c][k].op = "removeClient" => up[c] # "open"

(* Somebody is about to drain the buffer. *)
Draining == \E c \in Conns : \E k \in 1..Len(todo[c]) : todo[c][k].op = "drain"

BufferIsDrained ==
    notifications # <<>> => Draining \/ Subscribers("notification") = {}

(* Version v is on its way to c: somebody is about to announce it, or to   *)
(* take a snapshot for c, or has taken one.                                *)
Brings(v, o, c) ==
    \/ o.op = "notify" /\ o.ev = "config"
    \/ o.op = "snapshot" /\ o.ev = "config" /\ c \in o.to
    \/ o.op = "send" /\ o.msg.ev = "config" /\ o.msg.version = v /\ c \in Range(o.to)

OnItsWay(c) == \E g \in Goroutines : \E k \in 1..Len(todo[g]) : Brings(version, todo[g][k], c)

UpTo(v, o) == o.op = "send" /\ o.msg.ev \in Events => o.msg.version <= v

ChangesAreBrought ==
    /\ \A c \in Conns : view[c].newest <= version
    /\ \A g \in Goroutines : \A k \in 1..Len(todo[g]) : UpTo(version, todo[g][k])
    /\ \A c \in Conns :
          Subscribed(c) => view[c].newest = version \/ version = dropped \/ OnItsWay(c)

(* The notifications that an operation carries, and those that a client    *)
(* has or will find in its socket.                                         *)
Carried(o) ==
    IF o.op = "note" THEN {o.note}
    ELSE IF o.op = "send" /\ o.msg.ev = "notification" THEN {o.msg.note}
    ELSE IF o.op = "flush" THEN Range(o.list)
    ELSE {}

Waiting(c) == {inbox[c][i].note : i \in {i \in 1..Len(inbox[c]) : inbox[c][i].ev = "notification"}}
Received(c) == view[c].notes \cup Waiting(c)

NotesApart ==
    /\ \A g, h \in Goroutines : \A i \in 1..Len(todo[g]), j \in 1..Len(todo[h]) :
          (g # h \/ i # j) => Carried(todo[g][i]) \cap Carried(todo[h][j]) = {}
    /\ \A g \in Goroutines : \A i \in 1..Len(todo[g]) :
          /\ Carried(todo[g][i]) \cap Range(notifications) = {}
          /\ Carried(todo[g][i]) \subseteq 1..notes
          /\ todo[g][i].op = "flush" => IsInjective(todo[g][i].list)
          /\ todo[g][i].op = "send" => IsInjective(todo[g][i].to)
    /\ IsInjective(notifications)
    /\ Range(notifications) \subseteq 1..notes

NotesNotYet ==
    \A c \in Conns :
        /\ Received(c) \subseteq 1..notes
        /\ Received(c) \cap Range(notifications) = {}
        /\ \A g \in Goroutines : \A i \in 1..Len(todo[g]) :
              Received(c) \cap Carried(todo[g][i]) # {} =>
                  todo[g][i].op = "send" /\ c \notin Range(todo[g][i].to)

ServerInv ==
    /\ Types /\ Ordered /\ BufferIsDrained /\ ChangesAreBrought
    /\ NotesApart /\ NotesNotYet /\ NotesArriveOnce

-----------------------------------------------------------------------------
(* Facts about sequences. *)

(* The first element and the rest of a queue. *)
LEMMA Rest ==
    ASSUME NEW S, NEW s \in Seq(S), s # <<>>
    PROVE  /\ Head(s) \in S /\ Head(s) = s[1] /\ Len(s) \in Nat /\ Len(s) >= 1
           /\ Tail(s) \in Seq(S) /\ Len(Tail(s)) = Len(s) - 1
           /\ \A i \in 1..Len(s) - 1 : Tail(s)[i] = s[i + 1]
  OBVIOUS

(* A queue with one more element. *)
LEMMA More ==
    ASSUME NEW S, NEW s \in Seq(S), NEW x \in S
    PROVE  /\ Append(s, x) \in Seq(S) /\ Len(Append(s, x)) = Len(s) + 1 /\ Len(s) \in Nat
           /\ Append(s, x)[Len(s) + 1] = x
           /\ \A i \in 1..Len(s) : Append(s, x)[i] = s[i]
  OBVIOUS

(* The first element is replaced by others. *)
LEMMA Replaced ==
    ASSUME NEW S, NEW s \in Seq(S), s # <<>>, NEW a \in Seq(S), NEW t, t = a \o Tail(s)
    PROVE  /\ t \in Seq(S) /\ Len(t) = Len(a) + Len(s) - 1
           /\ Len(a) \in Nat /\ Len(s) \in Nat /\ Len(s) >= 1
           /\ \A i \in 1..Len(a) : i \in 1..Len(t) /\ t[i] = a[i]
           /\ \A i \in 2..Len(s) : Len(a) + i - 1 \in 1..Len(t) /\ t[Len(a) + i - 1] = s[i]
           /\ \A i \in 1..Len(t) : i > Len(a) => /\ i - Len(a) + 1 \in 2..Len(s)
                                                 /\ t[i] = s[i - Len(a) + 1]
  <1>1. /\ Tail(s) \in Seq(S) /\ Len(Tail(s)) = Len(s) - 1 /\ Len(s) \in Nat /\ Len(s) >= 1
        /\ \A i \in 1..Len(s) - 1 : Tail(s)[i] = s[i + 1]
    BY Rest
  <1>2. /\ t \in Seq(S) /\ Len(t) = Len(a) + Len(Tail(s)) /\ Len(a) \in Nat
        /\ \A i \in 1..Len(a) : t[i] = a[i]
        /\ \A i \in 1..Len(t) : i > Len(a) => t[i] = Tail(s)[i - Len(a)]
    BY <1>1
  <1>3. ASSUME NEW i \in 1..Len(t), i > Len(a)
        PROVE  i - Len(a) + 1 \in 2..Len(s) /\ t[i] = s[i - Len(a) + 1]
    <2>1. i - Len(a) \in 1..Len(s) - 1
      BY <1>1, <1>2, <1>3
    <2> QED BY <1>1, <1>2, <1>3, <2>1
  <1>4. ASSUME NEW i \in 2..Len(s)
        PROVE  Len(a) + i - 1 \in 1..Len(t) /\ t[Len(a) + i - 1] = s[i]
    <2>1. Len(a) + i - 1 \in 1..Len(t) /\ Len(a) + i - 1 > Len(a) /\ Len(a) + i - 1 - Len(a) + 1 = i
      BY <1>1, <1>2
    <2> QED BY <1>3, <2>1
  <1>5. Len(t) = Len(a) + Len(s) - 1 /\ \A i \in 1..Len(a) : i \in 1..Len(t)
    BY <1>1, <1>2
  <1>6. \A i \in 1..Len(a) : i \in 1..Len(t) /\ t[i] = a[i]
    BY <1>2, <1>5
  <1>7. \A i \in 2..Len(s) : Len(a) + i - 1 \in 1..Len(t) /\ t[Len(a) + i - 1] = s[i]
    BY <1>4
  <1>8. \A i \in 1..Len(t) : i > Len(a) => /\ i - Len(a) + 1 \in 2..Len(s)
                                            /\ t[i] = s[i - Len(a) + 1]
    BY <1>3
  <1> QED BY <1>1, <1>2, <1>5, <1>6, <1>7, <1>8

(* Queues of one, and of two. *)
LEMMA Few ==
    ASSUME NEW S, NEW x \in S, NEW y \in S
    PROVE  /\ <<>> \in Seq(S) /\ <<x>> \in Seq(S) /\ <<x, y>> \in Seq(S)
           /\ Len(<<>>) = 0 /\ Len(<<x>>) = 1 /\ Len(<<x, y>>) = 2
           /\ <<x>> \o <<y>> = <<x, y>> /\ <<x>> \o <<>> = <<x>> /\ <<>> \o <<x>> = <<x>>
           /\ <<x>>[1] = x /\ <<x, y>>[1] = x /\ <<x, y>>[2] = y
           /\ <<x>> # <<>> /\ <<x, y>> # <<>>
  <1>1. <<>> \in Seq(S) /\ <<x>> \in Seq(S) /\ <<x, y>> \in Seq(S)
    OBVIOUS
  <1>2. Len(<<>>) = 0 /\ Len(<<x>>) = 1 /\ Len(<<x, y>>) = 2
    OBVIOUS
  <1>3. <<x>> \o <<y>> = <<x, y>>
    <2>1. \A s, t \in Seq(S) : Len(s) = Len(t) /\ (\A i \in 1..Len(s) : s[i] = t[i]) => s = t
      OBVIOUS
    <2> DEFINE p == <<x>> \o <<y>>
               q == <<x, y>>
    <2>2. p \in Seq(S) /\ Len(p) = 2 /\ p[1] = x /\ p[2] = y
      OBVIOUS
    <2>3. q \in Seq(S) /\ Len(q) = 2 /\ q[1] = x /\ q[2] = y
      OBVIOUS
    <2> HIDE DEF p, q
    <2>4. \A i \in 1..2 : p[i] = q[i]
      BY <2>2, <2>3
    <2>5. p = q
      BY <2>1, <2>2, <2>3, <2>4
    <2> QED BY <2>5 DEF p, q
  <1>4. <<x>> \o <<>> = <<x>> /\ <<>> \o <<x>> = <<x>>
    OBVIOUS
  <1>5. <<x>>[1] = x /\ <<x, y>>[1] = x /\ <<x, y>>[2] = y
    OBVIOUS
  <1>6. <<x>> # <<>> /\ <<x, y>> # <<>>
    OBVIOUS
  <1> QED BY <1>1, <1>2, <1>3, <1>4, <1>5, <1>6, Zenon

(* The elements of a queue without repetitions. *)
LEMMA RestApart ==
    ASSUME NEW S, NEW s \in Seq(S), s # <<>>
    PROVE  /\ Head(s) \in Range(s) /\ Range(Tail(s)) \subseteq Range(s)
           /\ \A x \in Range(s) : x = Head(s) \/ x \in Range(Tail(s))
           /\ IsInjective(s) => IsInjective(Tail(s)) /\ Head(s) \notin Range(Tail(s))
  <1>1. /\ Head(s) = s[1] /\ Len(s) \in Nat /\ Len(s) >= 1 /\ DOMAIN s = 1..Len(s)
        /\ Tail(s) \in Seq(S) /\ Len(Tail(s)) = Len(s) - 1
        /\ \A i \in 1..Len(s) - 1 : Tail(s)[i] = s[i + 1]
    BY Rest
  <1>2. DOMAIN Tail(s) = 1..Len(s) - 1
    BY <1>1
  <1>3. Head(s) \in Range(s) /\ Range(Tail(s)) \subseteq Range(s)
    BY <1>1, <1>2 DEF Range
  <1>4. ASSUME NEW x \in Range(s) PROVE x = Head(s) \/ x \in Range(Tail(s))
    <2>1. PICK i \in 1..Len(s) : x = s[i]
      BY <1>1 DEF Range
    <2>2. CASE i = 1
      BY <1>1, <2>1, <2>2
    <2>3. CASE i # 1
      <3>1. i - 1 \in 1..Len(s) - 1 /\ Tail(s)[i - 1] = s[i]
        BY <1>1, <2>3
      <3> QED BY <1>2, <2>1, <3>1 DEF Range
    <2> QED BY <2>2, <2>3
  <1>5. ASSUME IsInjective(s) PROVE IsInjective(Tail(s)) /\ Head(s) \notin Range(Tail(s))
    <2>1. \A i, j \in 1..Len(s) : s[i] = s[j] => i = j
      BY <1>1, <1>5 DEF IsInjective
    <2>2. \A i, j \in 1..Len(s) - 1 : Tail(s)[i] = Tail(s)[j] => i = j
      BY <1>1, <2>1
    <2>3. \A i \in 1..Len(s) - 1 : Tail(s)[i] # s[1]
      BY <1>1, <2>1
    <2> QED BY <1>1, <1>2, <2>2, <2>3 DEF IsInjective, Range
  <1> QED BY <1>3, <1>4, <1>5

LEMMA MoreApart ==
    ASSUME NEW S, NEW s \in Seq(S), NEW x \in S
    PROVE  /\ \A y : y \in Range(Append(s, x)) <=> y \in Range(s) \/ y = x
           /\ IsInjective(s) /\ x \notin Range(s) => IsInjective(Append(s, x))
  <1> DEFINE t == Append(s, x)
  <1>1. /\ t \in Seq(S) /\ Len(t) = Len(s) + 1 /\ t[Len(s) + 1] = x /\ Len(s) \in Nat
        /\ \A i \in 1..Len(s) : t[i] = s[i]
    BY More
  <1> HIDE DEF t
  <1>2. DOMAIN s = 1..Len(s) /\ DOMAIN t = 1..Len(s) + 1
    BY <1>1
  <1>3. \A i \in 1..Len(s) + 1 : i \in 1..Len(s) \/ i = Len(s) + 1
    BY <1>1
  <1>4. \A i \in 1..Len(s) : i \in 1..Len(s) + 1
    BY <1>1
  <1>5. \A y : y \in Range(t) <=> y \in Range(s) \/ y = x
    BY <1>1, <1>2, <1>3, <1>4 DEF Range
  <1>6. IsInjective(s) /\ x \notin Range(s) => IsInjective(t)
    BY <1>1, <1>2, <1>3 DEF Range, IsInjective
  <1> QED BY <1>5, <1>6 DEF t

LEMMA EmptyApart == Range(<<>>) = {} /\ IsInjective(<<>>)
  BY DEF Range, IsInjective

(* The receivers in some order. *)
LEMMA InSomeOrder ==
    ASSUME NEW S \in SUBSET Conns, S # {}, NEW order \in SetToSeqs(S)
    PROVE  /\ order \in Seq(Conns) \ {<<>>} /\ Range(order) = S /\ IsInjective(order)
           /\ \A c : S = {c} => order = <<c>>
  <1>1. IsFiniteSet(S) /\ Cardinality(S) \in Nat /\ Cardinality(S) # 0
    BY ConnsAssumption, FS_Subset, FS_CardinalityType, FS_EmptySet
  <1> DEFINE D == 1..Cardinality(S)
  <1>2. order \in [D -> S] /\ \A i, j \in D : i # j => order[i] # order[j]
    BY DEF SetToSeqs
  <1>3. order \in Injection(D, S) /\ IsInjective(order)
    BY <1>2 DEF Injection, IsInjective
  <1>4. Cardinality(D) = Cardinality(S) /\ IsFiniteSet(D)
    BY <1>1, FS_Interval
  <1>5. order \in Surjection(D, S)
    BY <1>1, <1>3, <1>4, FS_Injection
  <1>6. Range(order) = S
    BY <1>2, <1>5 DEF Surjection, Range
  <1>7. order \in Seq(Conns) /\ Len(order) = Cardinality(S) /\ order # <<>>
    BY <1>1, <1>2
  <1>8. ASSUME NEW c, S = {c} PROVE order = <<c>>
    <2>1. Cardinality(S) = 1
      BY <1>8, FS_Singleton
    <2> QED BY <1>2, <1>8, <2>1
  <1> QED BY <1>3, <1>6, <1>7, <1>8

-----------------------------------------------------------------------------
(* Types. *)

LEMMA OpKinds ==
    ASSUME NEW o \in Ops
    PROVE  /\ o.op = "notify" => o.ev \in Events
           /\ o.op = "snapshot" => /\ o.ev \in Events \cup {"reply"}
                                   /\ o.to \in SUBSET Conns /\ o.to # {}
           /\ o.op = "send" => o.msg \in Msgs /\ o.to \in Seq(Conns) /\ o.to # <<>>
           /\ o.op = "note" => o.note \in 1..MaxNotes
           /\ o.op = "flush" => o.list \in Seq(1..MaxNotes) /\ o.list # <<>>
  BY DEF Ops, Notifies, Snapshots, Sends, Raises, Flushes, Others

LEMMA MsgKinds ==
    ASSUME NEW m \in Msgs
    PROVE  /\ m.ev \in Events \cup {"reply", "notification"}
           /\ m.ev \in Events => m.version \in 0..MaxVersion
           /\ m.ev = "notification" => m.note \in 1..MaxNotes
           /\ IsNote(m) <=> m.ev = "notification"
  BY DEF Msgs, EventMsgs, Replies, NoteMsgs, Events, IsNote

LEMMA EventMsg ==
    ASSUME version \in 0..MaxVersion, NEW ev \in Events \cup {"reply"}
    PROVE  /\ Event(ev) \in Msgs /\ Event(ev).ev = ev
           /\ ev \in Events => Event(ev).version = version
  BY DEF Event, Msgs, EventMsgs, Replies, Events

LEMMA NoteMsgType ==
    ASSUME NEW n \in 1..MaxNotes
    PROVE  NoteMsg(n) \in Msgs /\ NoteMsg(n).ev = "notification" /\ NoteMsg(n).note = n
  BY DEF NoteMsg, Msgs, NoteMsgs

(* The operations, one by one. *)
LEMMA NotifyOp ==
    ASSUME NEW ev \in Events
    PROVE  \E o \in Ops : notify(ev) = <<o>> /\ o.op = "notify" /\ o.ev = ev
  <1> DEFINE x == [op |-> "notify", ev |-> ev]
  <1>1. x \in Ops /\ x.op = "notify" /\ x.ev = ev
    BY DEF Ops, Notifies
  <1> QED BY <1>1 DEF notify

LEMMA SnapshotOp ==
    ASSUME NEW ev \in Events \cup {"reply"}, NEW S \in SUBSET Conns, S # {}
    PROVE  \E o \in Ops : snapshot(ev, S) = <<o>> /\ o.op = "snapshot" /\ o.ev = ev /\ o.to = S
  <1> DEFINE x == [op |-> "snapshot", ev |-> ev, to |-> S]
  <1>1. x \in Ops /\ x.op = "snapshot" /\ x.ev = ev /\ x.to = S
    BY DEF Ops, Snapshots
  <1> QED BY <1>1 DEF snapshot

LEMMA SendOp ==
    ASSUME NEW m \in Msgs, NEW q \in Seq(Conns), q # <<>>
    PROVE  \E o \in Ops : send(m, q) = <<o>> /\ o.op = "send" /\ o.msg = m /\ o.to = q
  <1> DEFINE x == [op |-> "send", msg |-> m, to |-> q]
  <1>1. x \in Ops /\ x.op = "send" /\ x.msg = m /\ x.to = q
    BY DEF Ops, Sends
  <1> QED BY <1>1 DEF send

LEMMA NoteOp ==
    ASSUME NEW n \in 1..MaxNotes
    PROVE  \E o \in Ops : notifyNotification(n) = <<o>> /\ o.op = "note" /\ o.note = n
  <1> DEFINE x == [op |-> "note", note |-> n]
  <1>1. x \in Ops /\ x.op = "note" /\ x.note = n
    BY DEF Ops, Raises
  <1> QED BY <1>1 DEF notifyNotification

LEMMA FlushOp ==
    ASSUME NEW q \in Seq(1..MaxNotes), q # <<>>
    PROVE  \E o \in Ops : flush(q) = <<o>> /\ o.op = "flush" /\ o.list = q
  <1> DEFINE x == [op |-> "flush", list |-> q]
  <1>1. x \in Ops /\ x.op = "flush" /\ x.list = q
    BY DEF Ops, Flushes
  <1>2. flush(q) = <<x>>
    BY DEF flush
  <1> HIDE DEF x
  <1> QED BY <1>1, <1>2

LEMMA OtherOps ==
    /\ \E o \in Ops : drainNotifications = <<o>> /\ o.op = "drain"
    /\ \E o \in Ops : reply = <<o>> /\ o.op = "reply"
  <1> DEFINE x == [op |-> "drain"]
             y == [op |-> "reply"]
  <1>1. x \in Ops /\ x.op = "drain" /\ y \in Ops /\ y.op = "reply"
    BY DEF Ops, Others
  <1>2. drainNotifications = <<x>> /\ reply = <<y>>
    BY DEF drainNotifications, reply
  <1> HIDE DEF x, y
  <1> QED BY <1>1, <1>2

LEMMA CleanupOps ==
    /\ cleanup \in Seq(Ops) /\ Len(cleanup) = 5
    /\ \A k \in 1..5 : cleanup[k].op \in {"removeClient", "notify", "removeRulesets", "close"}
    /\ \A k \in 1..5 : cleanup[k].op = "notify" => cleanup[k].ev = "clients"
  <1>1. /\ [op |-> "removeClient"] \in Ops /\ [op |-> "notify", ev |-> "clients"] \in Ops
        /\ [op |-> "removeRulesets"] \in Ops /\ [op |-> "close"] \in Ops
    BY DEF Ops, Notifies, Others, Events
  <1>2. cleanup \in Seq(Ops) /\ Len(cleanup) = 5
    BY <1>1 DEF cleanup
  <1>3. /\ cleanup[1] = [op |-> "removeClient"] /\ cleanup[2] = [op |-> "notify", ev |-> "clients"]
        /\ cleanup[3] = [op |-> "removeRulesets"] /\ cleanup[4] = [op |-> "removeRulesets"]
        /\ cleanup[5] = [op |-> "close"]
    BY DEF cleanup
  <1>4. \A k \in 1..5 : k = 1 \/ k = 2 \/ k = 3 \/ k = 4 \/ k = 5
    OBVIOUS
  <1> QED BY <1>2, <1>3, <1>4

(* A goroutine's next operation, and what it is replaced by. *)
LEMMA HeadOp ==
    ASSUME Types, NEW g \in Goroutines, NEW op, Next1(g, op)
    PROVE  /\ todo[g] \in Seq(Ops) /\ todo[g] # <<>> /\ Head(todo[g]) \in Ops
           /\ Head(todo[g]) = todo[g][1] /\ Head(todo[g]).op = op
           /\ Len(todo[g]) \in Nat /\ Len(todo[g]) >= 1 /\ 1 \in 1..Len(todo[g])
  BY Rest DEF Types, Next1

LEMMA DoResult ==
    ASSUME Types, NEW g \in Goroutines, todo[g] # <<>>, NEW a \in Seq(Ops), Do(g, a)
    PROVE  /\ todo' \in [Goroutines -> Seq(Ops)]
           /\ todo'[g] = a \o Tail(todo[g])
           /\ \A h \in Goroutines : h # g => todo'[h] = todo[h]
  <1>1. todo[g] \in Seq(Ops)
    BY DEF Types
  <1>2. a \o Tail(todo[g]) \in Seq(Ops)
    BY <1>1, Replaced
  <1> QED BY <1>2 DEF Types, Do

LEMMA BeginResult ==
    ASSUME Types, NEW g \in Goroutines, NEW a \in Seq(Ops), todo' = [todo EXCEPT ![g] = a]
    PROVE  /\ todo' \in [Goroutines -> Seq(Ops)] /\ todo'[g] = a
           /\ \A h \in Goroutines : h # g => todo'[h] = todo[h]
  BY DEF Types

-----------------------------------------------------------------------------
(* What each action puts in the place of a goroutine's next operation. *)

LEMMA ConnsRun == \A c \in Conns : c \in Goroutines
  BY DEF Goroutines

(* Nothing takes its place. *)
LEMMA NothingOp == <<>> \in Seq(Ops) /\ Len(<<>>) = 0
  OBVIOUS

LEMMA NotifyEffect ==
    ASSUME Types, NEW g \in Goroutines, Notify(g)
    PROVE  LET ev == Head(todo[g]).ev IN
           /\ ev \in Events
           /\ \/ Subscribers(ev) = {} /\ Do(g, <<>>)
              \/ \E o \in Ops : /\ Do(g, <<o>>) /\ o.op = "snapshot" /\ o.ev = ev
                                /\ o.to = Subscribers(ev)
  <1> DEFINE ev == Head(todo[g]).ev
  <1>1. ev \in Events
    BY HeadOp, OpKinds DEF Notify
  <1>2. Subscribers(ev) \in SUBSET Conns
    BY DEF Subscribers, Types
  <1>3. Do(g, IF Subscribers(ev) = {} THEN <<>> ELSE snapshot(ev, Subscribers(ev)))
    BY DEF Notify
  <1>4. CASE Subscribers(ev) = {}
    BY <1>1, <1>3, <1>4
  <1>5. CASE Subscribers(ev) # {}
    <2>1. PICK e : e = ev
      OBVIOUS
    <2>2. PICK S : S = Subscribers(ev)
      OBVIOUS
    <2>3. PICK o \in Ops : snapshot(e, S) = <<o>> /\ o.op = "snapshot" /\ o.ev = e /\ o.to = S
      BY <1>1, <1>2, <1>5, <2>1, <2>2, SnapshotOp
    <2>4. Do(g, <<o>>)
      BY <1>3, <1>5, <2>1, <2>2, <2>3
    <2> QED BY <1>1, <2>1, <2>2, <2>3, <2>4
  <1> QED BY <1>4, <1>5

(* The write of a snapshot that has been taken. *)
LEMMA SnapshotTaken ==
    ASSUME Types, NEW g \in Goroutines, Next1(g, "snapshot"),
           NEW order \in SetToSeqs(Head(todo[g]).to)
    PROVE  /\ Head(todo[g]).ev \in Events \cup {"reply"}
           /\ order \in Seq(Conns) /\ order # <<>> /\ IsInjective(order)
           /\ Range(order) = Head(todo[g]).to
           /\ \A c : Head(todo[g]).to = {c} => order = <<c>>
           /\ \E o \in Ops : /\ send(Event(Head(todo[g]).ev), order) = <<o>> /\ o.op = "send"
                             /\ o.msg = Event(Head(todo[g]).ev) /\ o.to = order
  <1>1. PICK S : S = Head(todo[g]).to
    OBVIOUS
  <1>2. PICK ev : ev = Head(todo[g]).ev
    OBVIOUS
  <1>3. S \in SUBSET Conns /\ S # {} /\ ev \in Events \cup {"reply"}
    BY <1>1, <1>2, HeadOp, OpKinds
  <1>4. /\ order \in Seq(Conns) /\ order # <<>> /\ Range(order) = S /\ IsInjective(order)
        /\ \A c : S = {c} => order = <<c>>
    BY <1>1, <1>3, InSomeOrder
  <1>5. Event(ev) \in Msgs
    BY <1>3, EventMsg DEF Types
  <1>6. PICK m : m = Event(ev)
    OBVIOUS
  <1>7. PICK o \in Ops : send(m, order) = <<o>> /\ o.op = "send" /\ o.msg = m /\ o.to = order
    BY <1>4, <1>5, <1>6, SendOp
  <1> QED BY <1>1, <1>2, <1>3, <1>4, <1>6, <1>7

LEMMA SnapshotEffect ==
    ASSUME Types, NEW g \in Goroutines, ConfigSnapshot(g)
    PROVE  LET h == Head(todo[g]) IN
           /\ h.ev \in Events \cup {"reply"}
           /\ \E o \in Ops : /\ Do(g, <<o>>) /\ o.op = "send" /\ o.msg = Event(h.ev)
                             /\ o.to \in Seq(Conns) /\ Range(o.to) = h.to /\ IsInjective(o.to)
                             /\ \A c : h.to = {c} => o.to = <<c>>
  <1>1. PICK order \in SetToSeqs(Head(todo[g]).to) : Do(g, send(Event(Head(todo[g]).ev), order))
    BY DEF ConfigSnapshot
  <1>2. PICK o \in Ops : /\ send(Event(Head(todo[g]).ev), order) = <<o>> /\ o.op = "send"
                         /\ o.msg = Event(Head(todo[g]).ev) /\ o.to = order
    BY SnapshotTaken DEF ConfigSnapshot
  <1>3. /\ Head(todo[g]).ev \in Events \cup {"reply"}
        /\ order \in Seq(Conns) /\ Range(order) = Head(todo[g]).to /\ IsInjective(order)
        /\ \A c : Head(todo[g]).to = {c} => order = <<c>>
    BY SnapshotTaken DEF ConfigSnapshot
  <1>4. Do(g, <<o>>)
    BY <1>1, <1>2
  <1> QED BY <1>2, <1>3, <1>4

LEMMA SnapshotFailsEffect ==
    ASSUME Types, NEW g \in Goroutines, ConfigSnapshotFails(g)
    PROVE  LET h == Head(todo[g]) IN
           /\ notes' = notes + 1 /\ notes' \in 1..MaxNotes
           /\ h.ev \in Events \cup {"reply"}
           /\ \E n, o \in Ops : /\ Do(g, <<n, o>>) /\ n.op = "note" /\ n.note = notes'
                                /\ o.op = "send" /\ o.msg = Event(h.ev)
                                /\ o.to \in Seq(Conns) /\ Range(o.to) = h.to /\ IsInjective(o.to)
                                /\ \A c : h.to = {c} => o.to = <<c>>
  <1>1. PICK order \in SetToSeqs(Head(todo[g]).to) :
            Do(g, notifyNotification(notes') \o send(Event(Head(todo[g]).ev), order))
    BY DEF ConfigSnapshotFails
  <1>2. PICK o \in Ops : /\ send(Event(Head(todo[g]).ev), order) = <<o>> /\ o.op = "send"
                         /\ o.msg = Event(Head(todo[g]).ev) /\ o.to = order
    BY SnapshotTaken DEF ConfigSnapshotFails
  <1>3. /\ Head(todo[g]).ev \in Events \cup {"reply"}
        /\ order \in Seq(Conns) /\ Range(order) = Head(todo[g]).to /\ IsInjective(order)
        /\ \A c : Head(todo[g]).to = {c} => order = <<c>>
    BY SnapshotTaken DEF ConfigSnapshotFails
  <1>4. notes' = notes + 1 /\ notes' \in 1..MaxNotes
    BY ServerBoundsAssumption DEF ConfigSnapshotFails, Types
  <1>5. PICK k : k = notes'
    OBVIOUS
  <1>6. PICK n \in Ops : notifyNotification(k) = <<n>> /\ n.op = "note" /\ n.note = k
    BY <1>4, <1>5, NoteOp
  <1>7. <<n>> \o <<o>> = <<n, o>>
    BY Few
  <1>8. Do(g, <<n, o>>)
    BY <1>1, <1>2, <1>5, <1>6, <1>7
  <1> QED BY <1>2, <1>3, <1>4, <1>5, <1>6, <1>8

(* What is left of a write after the first receiver. *)
LEMMA SendEffect ==
    ASSUME Types, NEW g \in Goroutines, Send(g)
    PROVE  LET h == Head(todo[g]) IN
           /\ h.msg \in Msgs /\ h.to \in Seq(Conns) /\ h.to # <<>> /\ Head(h.to) \in Conns
           /\ \/ /\ Write(Head(h.to), h.msg) \/ (WriteFails(Head(h.to)) /\ h.msg.ev # "reply")
                 /\ \/ Len(h.to) = 1 /\ Do(g, <<>>)
                    \/ /\ Len(h.to) # 1 /\ Tail(h.to) # <<>>
                       /\ \E o \in Ops : /\ Do(g, <<o>>) /\ o.op = "send" /\ o.msg = h.msg
                                         /\ o.to = Tail(h.to)
              \/ /\ WriteFails(Head(h.to)) /\ h.msg.ev = "reply"
                 /\ todo' = [todo EXCEPT ![g] = cleanup]
  <1> DEFINE h == Head(todo[g])
             rest == IF Len(h.to) = 1 THEN <<>> ELSE send(h.msg, Tail(h.to))
  <1>1. h.msg \in Msgs /\ h.to \in Seq(Conns) /\ h.to # <<>>
    BY HeadOp, OpKinds DEF Send
  <1>2. Head(h.to) \in Conns /\ Tail(h.to) \in Seq(Conns) /\ (Len(h.to) # 1 => Tail(h.to) # <<>>)
    <2>1. PICK q : q = h.to
      OBVIOUS
    <2>2. Head(q) \in Conns /\ Tail(q) \in Seq(Conns) /\ Len(Tail(q)) = Len(q) - 1 /\ Len(q) \in Nat
      BY <1>1, <2>1, Rest
    <2>3. PICK w, n, l : w = Tail(q) /\ n = Len(q) /\ l = Len(w)
      OBVIOUS
    <2>4. l = n - 1 /\ n \in Nat
      BY <2>2, <2>3, Zenon
    <2>5. w = <<>> => l = 0
      BY <2>3, NothingOp
    <2>6. l = 0 => n = 1
      BY <2>4
    <2> QED BY <2>1, <2>2, <2>3, <2>5, <2>6, Zenon
  <1>3. ASSUME Do(g, rest)
        PROVE  \/ Len(h.to) = 1 /\ Do(g, <<>>)
               \/ /\ Len(h.to) # 1 /\ Tail(h.to) # <<>>
                  /\ \E o \in Ops : Do(g, <<o>>) /\ o.op = "send" /\ o.msg = h.msg /\ o.to = Tail(h.to)
    <2>1. CASE Len(h.to) = 1
      BY <1>3, <2>1
    <2>2. CASE Len(h.to) # 1
      <3>1. PICK m : m = h.msg
        OBVIOUS
      <3>2. PICK q : q = Tail(h.to)
        OBVIOUS
      <3>3. PICK o \in Ops : send(m, q) = <<o>> /\ o.op = "send" /\ o.msg = m /\ o.to = q
        BY <1>1, <1>2, <2>2, <3>1, <3>2, SendOp
      <3>4. Do(g, <<o>>)
        BY <1>3, <2>2, <3>1, <3>2, <3>3
      <3> QED BY <1>2, <2>2, <3>1, <3>2, <3>3, <3>4
    <2> QED BY <2>1, <2>2
  <1>4. \/ Write(Head(h.to), h.msg) /\ Do(g, rest)
        \/ WriteFails(Head(h.to)) /\ h.msg.ev # "reply" /\ Do(g, rest)
        \/ WriteFails(Head(h.to)) /\ h.msg.ev = "reply" /\ todo' = [todo EXCEPT ![g] = cleanup]
    BY DEF Send
  <1> HIDE DEF rest, h
  <1>5. /\ h.msg \in Msgs /\ h.to \in Seq(Conns) /\ h.to # <<>> /\ Head(h.to) \in Conns
        /\ \/ /\ Write(Head(h.to), h.msg) \/ (WriteFails(Head(h.to)) /\ h.msg.ev # "reply")
              /\ \/ Len(h.to) = 1 /\ Do(g, <<>>)
                 \/ /\ Len(h.to) # 1 /\ Tail(h.to) # <<>>
                    /\ \E o \in Ops : Do(g, <<o>>) /\ o.op = "send" /\ o.msg = h.msg /\ o.to = Tail(h.to)
           \/ /\ WriteFails(Head(h.to)) /\ h.msg.ev = "reply"
              /\ todo' = [todo EXCEPT ![g] = cleanup]
    BY <1>1, <1>2, <1>3, <1>4
  <1> QED BY <1>5 DEF h

LEMMA NoteEffect ==
    ASSUME Types, NEW g \in Goroutines, NotifyNotification(g)
    PROVE  LET n == Head(todo[g]).note IN
           /\ n \in 1..MaxNotes
           /\ \/ /\ Subscribers("notification") = {}
                 /\ notifications' = Append(notifications, n) /\ Do(g, <<>>)
              \/ /\ Subscribers("notification") # {} /\ notifications' = notifications
                 /\ \E o \in Ops : /\ Do(g, <<o>>) /\ o.op = "send" /\ o.msg = NoteMsg(n)
                                   /\ o.to \in Seq(Conns) /\ IsInjective(o.to)
                                   /\ Range(o.to) = Subscribers("notification")
  <1>1. PICK n : n = Head(todo[g]).note
    OBVIOUS
  <1>2. n \in 1..MaxNotes
    BY <1>1, HeadOp, OpKinds DEF NotifyNotification
  <1>3. CASE Subscribers("notification") = {}
    BY <1>1, <1>2, <1>3 DEF NotifyNotification
  <1>4. CASE Subscribers("notification") # {}
    <2>1. PICK S : S = Subscribers("notification")
      OBVIOUS
    <2>2. PICK order \in SetToSeqs(S) : Do(g, send(NoteMsg(n), order)) /\ notifications' = notifications
      BY <1>1, <1>4, <2>1 DEF NotifyNotification
    <2>3. S \in SUBSET Conns /\ S # {}
      BY <1>4, <2>1 DEF Subscribers, Types
    <2>4. order \in Seq(Conns) /\ order # <<>> /\ Range(order) = S /\ IsInjective(order)
      BY <2>3, InSomeOrder
    <2>5. NoteMsg(n) \in Msgs
      BY <1>2, NoteMsgType
    <2>6. PICK o \in Ops : send(NoteMsg(n), order) = <<o>> /\ o.op = "send" /\ o.msg = NoteMsg(n) /\ o.to = order
      BY <2>4, <2>5, SendOp
    <2>7. Do(g, <<o>>)
      BY <2>2, <2>6
    <2> QED BY <1>1, <1>2, <1>4, <2>1, <2>2, <2>4, <2>6, <2>7
  <1> QED BY <1>3, <1>4

(* A flush of a list that may be empty. *)
LEMMA FlushRest ==
    ASSUME NEW g, NEW q \in Seq(1..MaxNotes), Do(g, flush(q))
    PROVE  \/ q = <<>> /\ Do(g, <<>>)
           \/ q # <<>> /\ \E o \in Ops : Do(g, <<o>>) /\ o.op = "flush" /\ o.list = q
  <1>1. CASE q = <<>>
    BY <1>1 DEF flush
  <1>2. CASE q # <<>>
    <2>1. PICK o \in Ops : flush(q) = <<o>> /\ o.op = "flush" /\ o.list = q
      BY <1>2, FlushOp
    <2> QED BY <1>2, <2>1
  <1> QED BY <1>1, <1>2

(* The requests and the events of the other goroutines: what an idle       *)
(* goroutine begins with.                                                  *)
Start(g, o) ==
    /\ o \in Ops
    /\ o.op \in {"notify", "reply", "snapshot", "note", "drain"}
    /\ o.op = "snapshot" => o.ev = "reply" /\ o.to = {g}
    /\ o.op = "note" => o.note = notes + 1 /\ notes' = notes + 1

Fresh(g, a) ==
    /\ a \in Seq(Ops) /\ InOrder(a)
    /\ \A i \in 1..Len(a) : Start(g, a[i]) /\ AnswersOwn(g, a[i]) /\ (a[i].op = "note" => i = 1)

LEMMA FreshNone == ASSUME NEW g PROVE Fresh(g, <<>>)
  <1>1. <<>> \in Seq(Ops) /\ \A k \in 1..Len(<<>>) : FALSE
    OBVIOUS
  <1> QED BY <1>1 DEF Fresh, InOrder

LEMMA FreshOne ==
    ASSUME NEW g, NEW o, Start(g, o)
    PROVE  Fresh(g, <<o>>) /\ Len(<<o>>) = 1 /\ <<o>>[1] = o
  <1>1. PICK a : a = <<o>>
    OBVIOUS
  <1>2. a \in Seq(Ops) /\ Len(a) = 1 /\ a[1] = o
    BY <1>1, Few DEF Start
  <1>3. \A k \in 1..Len(a) : k = 1
    BY <1>2
  <1>4. InOrder(a)
    <2>1. \A k, j \in 1..Len(a) : k = Len(a) /\ ~(j > k)
      BY <1>2, <1>3
    <2> QED BY <2>1 DEF InOrder
  <1>5. AnswersOwn(g, o)
    BY DEF Start, AnswersOwn
  <1> QED BY <1>1, <1>2, <1>3, <1>4, <1>5 DEF Fresh

LEMMA FreshTwo ==
    ASSUME NEW g, NEW o, NEW r, Start(g, o), Start(g, r), o.op # "snapshot", r.op # "note",
           o.op = "reply" => r.op # "drain"
    PROVE  Fresh(g, <<o, r>>) /\ Len(<<o, r>>) = 2 /\ <<o, r>>[1] = o /\ <<o, r>>[2] = r
  <1>1. PICK a : a = <<o, r>>
    OBVIOUS
  <1>2. a \in Seq(Ops) /\ Len(a) = 2 /\ a[1] = o /\ a[2] = r
    BY <1>1, Few DEF Start
  <1>3. \A k \in 1..Len(a) : k = 1 \/ k = 2
    BY <1>2
  <1>4. InOrder(a)
    <2>1. ~Answers(o)
      BY DEF Answers, Start
    <2>2. \A k \in 1..Len(a) : Answers(a[k]) => k = Len(a)
      BY <1>2, <1>3, <2>1
    <2>3. ASSUME NEW k \in 1..Len(a), NEW j \in 1..Len(a), a[k].op = "reply", j > k
          PROVE  a[j].op # "drain"
      <3>1. k = 1 /\ j = 2
        BY <1>2, <2>3
      <3> QED BY <1>2, <2>3, <3>1
    <2> QED BY <2>2, <2>3 DEF InOrder
  <1>5. AnswersOwn(g, o) /\ AnswersOwn(g, r)
    BY DEF Start, AnswersOwn
  <1> QED BY <1>1, <1>2, <1>3, <1>4, <1>5 DEF Fresh

Announces(a) == \E i \in 1..Len(a) : a[i].op = "notify" /\ a[i].ev = "config"

Opens(g, a) ==
    /\ todo[g] = <<>> /\ todo' = [todo EXCEPT ![g] = a]
    /\ Fresh(g, a)
    /\ UNCHANGED <<inbox, notifications, dropped>>
    /\ notes' \in {notes, notes + 1} /\ notes' \in 0..MaxNotes
    /\ version' = version \/ (version' = version + 1 /\ version' \in 0..MaxVersion /\ Announces(a))

LEMMA AcceptEffect ==
    ASSUME Types, NEW c \in Conns, Accept(c)
    PROVE  \E a : Opens(c, a)
  <1>1. PICK o \in Ops : notify("clients") = <<o>> /\ o.op = "notify" /\ o.ev = "clients"
    BY NotifyOp DEF Events
  <1>2. Start(c, o)
    BY <1>1 DEF Start
  <1>3. Fresh(c, <<o>>)
    BY <1>2, FreshOne
  <1>4. Opens(c, <<o>>)
    BY <1>1, <1>3 DEF Opens, Accept, Begin, Idle, Types, dataVars
  <1> QED BY <1>4

LEMMA ConfigRequestEffect ==
    ASSUME Types, NEW c \in Conns, ConfigRequest(c)
    PROVE  \E a : Opens(c, a)
  <1>1. PICK o \in Ops : snapshot("reply", {c}) = <<o>> /\ o.op = "snapshot" /\ o.ev = "reply" /\ o.to = {c}
    BY SnapshotOp
  <1>2. Start(c, o)
    BY <1>1 DEF Start
  <1>3. Fresh(c, <<o>>)
    BY <1>2, FreshOne
  <1>4. Opens(c, <<o>>)
    BY <1>1, <1>3 DEF Opens, ConfigRequest, Begin, Idle, Types, serverVars, dataVars
  <1> QED BY <1>4

LEMMA SubscribeEffect ==
    ASSUME Types, NEW c \in Conns, NEW S \in SubChoices, SubscribeRequest(c, S)
    PROVE  \E a : /\ Opens(c, a)
                  /\ "notification" \in S => \E i \in 1..Len(a) : a[i].op = "drain"
  <1>1. PICK o \in Ops : notify("clients") = <<o>> /\ o.op = "notify" /\ o.ev = "clients"
    BY NotifyOp DEF Events
  <1>2. PICK r \in Ops : drainNotifications = <<r>> /\ r.op = "drain"
    BY OtherOps
  <1>3. Start(c, o) /\ Start(c, r)
    BY <1>1, <1>2 DEF Start
  <1>4. <<o>> \o <<r>> = <<o, r>> /\ <<o>> \o <<>> = <<o>>
    BY Few
  <1>5. CASE "notification" \in S
    <2>1. Fresh(c, <<o, r>>) /\ Len(<<o, r>>) = 2 /\ <<o, r>>[2] = r
      BY <1>1, <1>2, <1>3, FreshTwo
    <2>2. Begin(c, <<o, r>>)
      BY <1>1, <1>2, <1>4, <1>5 DEF SubscribeRequest
    <2>3. Opens(c, <<o, r>>)
      BY <2>1, <2>2 DEF Opens, SubscribeRequest, Begin, Idle, Types, dataVars
    <2>4. 2 \in 1..2
      OBVIOUS
    <2> QED BY <1>2, <2>1, <2>3, <2>4
  <1>6. CASE "notification" \notin S
    <2>1. Fresh(c, <<o>>)
      BY <1>3, FreshOne
    <2>2. Begin(c, <<o>>)
      BY <1>1, <1>4, <1>6 DEF SubscribeRequest
    <2>3. Opens(c, <<o>>)
      BY <2>1, <2>2 DEF Opens, SubscribeRequest, Begin, Idle, Types, dataVars
    <2> QED BY <1>6, <2>3
  <1> QED BY <1>5, <1>6

LEMMA MutationEffect ==
    ASSUME Types, NEW c \in Conns, MutationRequest(c)
    PROVE  \E a : Opens(c, a)
  <1>1. PICK o \in Ops : reply = <<o>> /\ o.op = "reply"
    BY OtherOps
  <1>2. PICK r \in Ops : notify("config") = <<r>> /\ r.op = "notify" /\ r.ev = "config"
    BY NotifyOp DEF Events
  <1>3. Start(c, o) /\ Start(c, r)
    BY <1>1, <1>2 DEF Start
  <1>4. CASE Begin(c, reply) /\ UNCHANGED version
    <2>1. Fresh(c, <<o>>)
      BY <1>3, FreshOne
    <2>2. Opens(c, <<o>>)
      BY <1>1, <1>4, <2>1 DEF Opens, MutationRequest, Begin, Idle, Types, serverVars
    <2> QED BY <2>2
  <1>5. CASE Change /\ Begin(c, reply \o notify("config"))
    <2>1. Fresh(c, <<o, r>>) /\ Len(<<o, r>>) = 2 /\ <<o, r>>[2] = r
      BY <1>1, <1>2, <1>3, FreshTwo
    <2>2. 2 \in 1..2
      OBVIOUS
    <2>3. Announces(<<o, r>>)
      BY <1>2, <2>1, <2>2 DEF Announces
    <2>4. <<o>> \o <<r>> = <<o, r>>
      BY Few
    <2>5. Begin(c, <<o, r>>)
      BY <1>1, <1>2, <1>5, <2>4
    <2>6. version' = version + 1 /\ version' \in 0..MaxVersion
      BY <1>5, ServerBoundsAssumption DEF Change, Types
    <2>7. Opens(c, <<o, r>>)
      BY <2>1, <2>3, <2>5, <2>6 DEF Opens, MutationRequest, Begin, Idle, Types, serverVars
    <2> QED BY <2>7
  <1> QED BY <1>4, <1>5 DEF MutationRequest

LEMMA DebugEffect ==
    ASSUME Types, NEW c \in Conns, DebugNotifyRequest(c)
    PROVE  \E a : Opens(c, a)
  <1>1. PICK o \in Ops : reply = <<o>> /\ o.op = "reply"
    BY OtherOps
  <1>2. Start(c, o)
    BY <1>1 DEF Start
  <1>3. CASE Begin(c, reply) /\ UNCHANGED notes
    <2>1. Fresh(c, <<o>>)
      BY <1>2, FreshOne
    <2>2. Opens(c, <<o>>)
      BY <1>1, <1>3, <2>1 DEF Opens, DebugNotifyRequest, Begin, Idle, Types, serverVars
    <2> QED BY <2>2
  <1>4. CASE notes < MaxNotes /\ notes' = notes + 1 /\ Begin(c, notifyNotification(notes') \o reply)
    <2>1. notes' = notes + 1 /\ notes' \in 1..MaxNotes /\ notes' \in 0..MaxNotes
      BY <1>4, ServerBoundsAssumption DEF Types
    <2>2. PICK n : n = notes'
      OBVIOUS
    <2>3. PICK k \in Ops : notifyNotification(n) = <<k>> /\ k.op = "note" /\ k.note = n
      BY <2>1, <2>2, NoteOp
    <2>4. Start(c, k)
      BY <2>1, <2>2, <2>3 DEF Start
    <2>5. Fresh(c, <<k, o>>)
      BY <1>1, <1>2, <2>3, <2>4, FreshTwo
    <2>6. <<k>> \o <<o>> = <<k, o>>
      BY Few
    <2>7. Begin(c, <<k, o>>)
      BY <1>1, <1>4, <2>2, <2>3, <2>6
    <2>8. Opens(c, <<k, o>>)
      BY <2>1, <2>5, <2>7 DEF Opens, DebugNotifyRequest, Begin, Idle, Types, serverVars
    <2> QED BY <2>8
  <1> QED BY <1>3, <1>4 DEF DebugNotifyRequest

LEMMA WatcherEffect ==
    ASSUME Types, WatcherReconcile
    PROVE  "watcher" \in Goroutines /\ \E a : Opens("watcher", a)
  <1>1. "watcher" \in Goroutines
    BY DEF WatcherReconcile, Goroutines
  <1>2. PICK o \in Ops : notify("interfaces") = <<o>> /\ o.op = "notify" /\ o.ev = "interfaces"
    BY NotifyOp DEF Events
  <1>3. PICK r \in Ops : notify("config") = <<r>> /\ r.op = "notify" /\ r.ev = "config"
    BY NotifyOp DEF Events
  <1>4. Start("watcher", o) /\ Start("watcher", r)
    BY <1>2, <1>3 DEF Start
  <1>5. <<o>> \o <<r>> = <<o, r>> /\ <<>> \o <<r>> = <<r>>
    BY Few
  <1>6. /\ Fresh("watcher", <<o, r>>) /\ Fresh("watcher", <<r>>) /\ Fresh("watcher", <<o>>)
        /\ Fresh("watcher", <<>>)
    BY <1>2, <1>3, <1>4, FreshNone, FreshOne, FreshTwo
  <1>7. Announces(<<o, r>>) /\ Announces(<<r>>)
    <2>1. 1 \in 1..1 /\ 2 \in 1..2
      OBVIOUS
    <2>2. Len(<<o, r>>) = 2 /\ Len(<<r>>) = 1 /\ <<o, r>>[2] = r /\ <<r>>[1] = r
      BY Few
    <2> QED BY <1>3, <2>1, <2>2, Zenon DEF Announces
  <1>8. \/ \E a \in {<<o>>, <<>>} : Begin("watcher", a) /\ UNCHANGED version
        \/ \E a \in {<<o, r>>, <<r>>} : Begin("watcher", a) /\ Change
    BY <1>2, <1>3, <1>5 DEF WatcherReconcile
  <1>9. CASE \E a \in {<<o>>, <<>>} : Begin("watcher", a) /\ UNCHANGED version
    <2>1. PICK a \in {<<o>>, <<>>} : Begin("watcher", a) /\ UNCHANGED version
      BY <1>9
    <2>2. Fresh("watcher", a)
      BY <1>6, <2>1, Zenon
    <2>3. Opens("watcher", a)
      BY <2>1, <2>2 DEF Opens, WatcherReconcile, Begin, Idle, Types, serverVars
    <2> QED BY <1>1, <2>3
  <1>10. CASE \E a \in {<<o, r>>, <<r>>} : Begin("watcher", a) /\ Change
    <2>1. PICK a \in {<<o, r>>, <<r>>} : Begin("watcher", a) /\ Change
      BY <1>10
    <2>2. Fresh("watcher", a) /\ Announces(a)
      BY <1>6, <1>7, <2>1, Zenon
    <2>3. version' = version + 1 /\ version' \in 0..MaxVersion
      BY <2>1, ServerBoundsAssumption DEF Change, Types
    <2>4. Opens("watcher", a)
      BY <2>1, <2>2, <2>3 DEF Opens, WatcherReconcile, Begin, Idle, Types, serverVars
    <2> QED BY <1>1, <2>4
  <1> QED BY <1>8, <1>9, <1>10

LEMMA ProxyEffect ==
    ASSUME Types, ProxyCallback
    PROVE  "proxy" \in Goroutines /\ \E a : Opens("proxy", a)
  <1>1. "proxy" \in Goroutines
    BY DEF ProxyCallback, Goroutines
  <1>2. PICK r \in Ops : notify("config") = <<r>> /\ r.op = "notify" /\ r.ev = "config"
    BY NotifyOp DEF Events
  <1>3. Start("proxy", r)
    BY <1>2 DEF Start
  <1>4. version' = version \/ (version' = version + 1 /\ version' \in 0..MaxVersion)
    BY ServerBoundsAssumption DEF ProxyCallback, Change, Types
  <1>5. CASE Begin("proxy", notify("config")) /\ UNCHANGED notes
    <2>1. Fresh("proxy", <<r>>) /\ Len(<<r>>) = 1 /\ <<r>>[1] = r
      BY <1>3, FreshOne
    <2>2. 1 \in 1..1
      OBVIOUS
    <2>3. Announces(<<r>>)
      BY <1>2, <2>1, <2>2 DEF Announces
    <2>4. Opens("proxy", <<r>>)
      BY <1>2, <1>4, <1>5, <2>1, <2>3 DEF Opens, ProxyCallback, Begin, Idle, Types, serverVars
    <2> QED BY <1>1, <2>4
  <1>6. CASE /\ notes < MaxNotes /\ notes' = notes + 1
             /\ Begin("proxy", notifyNotification(notes') \o notify("config"))
    <2>1. notes' = notes + 1 /\ notes' \in 1..MaxNotes /\ notes' \in 0..MaxNotes
      BY <1>6, ServerBoundsAssumption DEF Types
    <2>2. PICK n : n = notes'
      OBVIOUS
    <2>3. PICK k \in Ops : notifyNotification(n) = <<k>> /\ k.op = "note" /\ k.note = n
      BY <2>1, <2>2, NoteOp
    <2>4. Start("proxy", k)
      BY <2>1, <2>2, <2>3 DEF Start
    <2>5. Fresh("proxy", <<k, r>>) /\ Len(<<k, r>>) = 2 /\ <<k, r>>[2] = r
      BY <1>2, <1>3, <2>3, <2>4, FreshTwo
    <2>6. <<k>> \o <<r>> = <<k, r>>
      BY Few
    <2>7. Begin("proxy", <<k, r>>)
      BY <1>2, <1>6, <2>2, <2>3, <2>6
    <2>8. 2 \in 1..2
      OBVIOUS
    <2>9. Announces(<<k, r>>)
      BY <1>2, <2>5, <2>8 DEF Announces
    <2>10. Opens("proxy", <<k, r>>)
      BY <1>4, <2>1, <2>5, <2>7, <2>9 DEF Opens, ProxyCallback, Begin, Idle, Types, serverVars
    <2> QED BY <1>1, <2>10
  <1> QED BY <1>5, <1>6 DEF ProxyCallback

-----------------------------------------------------------------------------
(* Where the operations of todo' come from, and what becomes of those of   *)
(* todo.                                                                   *)

LEMMA Kept ==
    ASSUME Types, NEW g \in Goroutines, todo[g] # <<>>, NEW a \in Seq(Ops), Do(g, a),
           NEW h \in Goroutines, NEW k \in 1..Len(todo[h]), h # g \/ k # 1
    PROVE  \E j \in 1..Len(todo'[h]) : todo'[h][j] = todo[h][k]
  <1>1. CASE h # g
    BY <1>1, DoResult
  <1>2. CASE h = g
    <2>1. todo[g] \in Seq(Ops) /\ todo'[g] = a \o Tail(todo[g])
      BY DoResult DEF Types
    <2>2. PICK s : s = todo[g]
      OBVIOUS
    <2>3. PICK t : t = todo'[g]
      OBVIOUS
    <2>4. \A i \in 2..Len(s) : Len(a) + i - 1 \in 1..Len(t) /\ t[Len(a) + i - 1] = s[i]
      BY <2>1, <2>2, <2>3, Replaced
    <2>5. k \in 2..Len(s)
      BY <1>2, <2>1, <2>2
    <2> QED BY <1>2, <2>2, <2>3, <2>4, <2>5
  <1> QED BY <1>1, <1>2

LEMMA Origin ==
    ASSUME Types, NEW g \in Goroutines, todo[g] # <<>>, NEW a \in Seq(Ops), Do(g, a),
           NEW h \in Goroutines, NEW j \in 1..Len(todo'[h])
    PROVE  \/ h = g /\ j \in 1..Len(a) /\ todo'[h][j] = a[j]
           \/ h # g /\ j \in 1..Len(todo[h]) /\ todo'[h][j] = todo[h][j]
           \/ /\ h = g /\ j - Len(a) + 1 \in 2..Len(todo[h]) /\ j - Len(a) + 1 \in 1..Len(todo[h])
              /\ todo'[h][j] = todo[h][j - Len(a) + 1]
  <1>1. CASE h # g
    BY <1>1, DoResult
  <1>2. CASE h = g
    <2>1. todo[g] \in Seq(Ops) /\ todo'[g] = a \o Tail(todo[g])
      BY DoResult DEF Types
    <2>2. PICK s : s = todo[g]
      OBVIOUS
    <2>3. PICK t : t = todo'[g]
      OBVIOUS
    <2>4. /\ Len(a) \in Nat /\ Len(t) \in Nat /\ Len(s) \in Nat
          /\ \A i \in 1..Len(a) : t[i] = a[i]
          /\ \A i \in 1..Len(t) : i > Len(a) => /\ i - Len(a) + 1 \in 2..Len(s)
                                                /\ t[i] = s[i - Len(a) + 1]
      BY <2>1, <2>2, <2>3, Replaced
    <2>5. CASE j > Len(a)
      <3>1. j - Len(a) + 1 \in 2..Len(s) /\ t[j] = s[j - Len(a) + 1]
        BY <1>2, <2>3, <2>4, <2>5
      <3>2. j - Len(a) + 1 \in 1..Len(s)
        BY <2>4, <3>1
      <3> QED BY <1>2, <2>2, <2>3, <3>1, <3>2
    <2>6. CASE ~(j > Len(a))
      <3>1. j \in 1..Len(a)
        BY <2>4, <2>6
      <3> QED BY <1>2, <2>3, <2>4, <3>1
    <2> QED BY <2>5, <2>6
  <1> QED BY <1>1, <1>2

(* The operations of one goroutine are replaced, all or the first. *)
Puts(g, a) ==
    /\ a \in Seq(Ops)
    /\ \/ todo[g] # <<>> /\ Do(g, a)
       \/ todo' = [todo EXCEPT ![g] = a]

LEMMA PutsType ==
    ASSUME Types, NEW g \in Goroutines, NEW a, Puts(g, a)
    PROVE  /\ todo' \in [Goroutines -> Seq(Ops)] /\ a \in Seq(Ops)
           /\ \A h \in Goroutines : h # g => todo'[h] = todo[h]
  BY DoResult, BeginResult DEF Puts

LEMMA Origins ==
    ASSUME Types, NEW g \in Goroutines, NEW a, Puts(g, a),
           NEW h \in Goroutines, NEW j \in 1..Len(todo'[h])
    PROVE  \/ h = g /\ j \in 1..Len(a) /\ todo'[h][j] = a[j]
           \/ h # g /\ j \in 1..Len(todo[h]) /\ todo'[h][j] = todo[h][j]
           \/ /\ h = g /\ j - Len(a) + 1 \in 2..Len(todo[h]) /\ j - Len(a) + 1 \in 1..Len(todo[h])
              /\ todo'[h][j] = todo[h][j - Len(a) + 1]
  <1>1. CASE todo[g] # <<>> /\ Do(g, a)
    BY <1>1, Origin DEF Puts
  <1>2. CASE todo' = [todo EXCEPT ![g] = a]
    BY <1>2, BeginResult DEF Puts
  <1> QED BY <1>1, <1>2 DEF Puts

(* A write that succeeds. *)
LEMMA WriteEffect ==
    ASSUME Types, NEW c \in Conns, NEW m \in Msgs, Write(c, m)
    PROVE  /\ inbox' \in [Conns -> Seq(Msgs)] /\ \A d \in Conns : Len(inbox'[d]) <= Cap
           /\ view' \in [Conns -> [newest : 0..MaxVersion, notes : SUBSET (1..MaxNotes)]]
           /\ inbox'[c] = Append(inbox[c], m) /\ up[c] = "open"
           /\ \A d \in Conns : d # c => inbox'[d] = inbox[d] /\ view'[d] = view[d]
           /\ view'[c].notes = view[c].notes
           /\ m.ev \notin Events => view'[c] = view[c]
           /\ m.ev \in Events =>
                 view'[c].newest = IF m.version > view[c].newest THEN m.version ELSE view[c].newest
  <1>1. inbox[c] \in Seq(Msgs) /\ Len(inbox[c]) \in Nat /\ Len(inbox[c]) < Cap /\ Cap \in Nat
    BY ServerBoundsAssumption DEF Types, Write
  <1>2. Append(inbox[c], m) \in Seq(Msgs) /\ Len(Append(inbox[c], m)) <= Cap
    <2>1. PICK s : s = inbox[c]
      OBVIOUS
    <2>2. Append(s, m) \in Seq(Msgs) /\ Len(Append(s, m)) = Len(s) + 1
      BY <1>1, <2>1, More
    <2>3. PICK n, l : n = Len(s) /\ l = Len(Append(s, m))
      OBVIOUS
    <2>4. l <= Cap
      BY <1>1, <2>1, <2>2, <2>3
    <2> QED BY <2>1, <2>2, <2>3, <2>4
  <1>3. /\ inbox' \in [Conns -> Seq(Msgs)] /\ inbox'[c] = Append(inbox[c], m)
        /\ \A d \in Conns : d # c => inbox'[d] = inbox[d]
    BY <1>2 DEF Types, Write
  <1>4. \A d \in Conns : Len(inbox'[d]) <= Cap
    BY <1>2, <1>3 DEF Types
  <1>5. /\ m.ev \in Events \cup {"reply", "notification"}
        /\ m.ev \in Events => m.version \in 0..MaxVersion
    BY MsgKinds
  <1>6. \A d \in Conns : view[d] \in [newest : 0..MaxVersion, notes : SUBSET (1..MaxNotes)]
    BY DEF Types
  <1> DEFINE n == IF m.version > view[c].newest THEN m.version ELSE view[c].newest
             v == [view[c] EXCEPT !.newest = n]
  <1>7. CASE m.ev \in Events
    <2>1. m.ev \notin {"notification", "reply"}
      BY <1>7 DEF Events
    <2>2. view' = [view EXCEPT ![c] = v]
      BY <2>1 DEF Write
    <2>3. v \in [newest : 0..MaxVersion, notes : SUBSET (1..MaxNotes)] /\ v.newest = n /\ v.notes = view[c].notes
      BY <1>5, <1>6, <1>7
    <2> HIDE DEF v, n
    <2>4. /\ view' \in [Conns -> [newest : 0..MaxVersion, notes : SUBSET (1..MaxNotes)]]
          /\ view'[c] = v /\ \A d \in Conns : d # c => view'[d] = view[d]
      BY <2>2, <2>3 DEF Types
    <2> QED BY <1>3, <1>4, <1>7, <2>3, <2>4 DEF n, Write
  <1>8. CASE m.ev \notin Events
    <2>1. m.ev \in {"notification", "reply"}
      BY <1>5, <1>8
    <2>2. view' = [view EXCEPT ![c] = [view[c] EXCEPT !.newest = view[c].newest]]
      BY <2>1 DEF Write
    <2>3. [view[c] EXCEPT !.newest = view[c].newest] = view[c]
      BY <1>6
    <2>4. view' \in [Conns -> [newest : 0..MaxVersion, notes : SUBSET (1..MaxNotes)]]
          /\ \A d \in Conns : view'[d] = view[d]
      BY <2>2, <2>3 DEF Types
    <2> QED BY <1>3, <1>4, <1>8, <2>4 DEF Write
  <1> QED BY <1>7, <1>8

LEMMA FlushEffect ==
    ASSUME Types, NEW c \in Conns, Flush(c)
    PROVE  LET list == Head(todo[c]).list IN
           /\ list \in Seq(1..MaxNotes) /\ list # <<>> /\ Head(list) \in 1..MaxNotes
           /\ NoteMsg(Head(list)) \in Msgs
           /\ \/ /\ Write(c, NoteMsg(Head(list)))
                 /\ \/ Tail(list) = <<>> /\ Do(c, <<>>)
                    \/ \E o \in Ops : Do(c, <<o>>) /\ o.op = "flush" /\ o.list = Tail(list)
              \/ WriteFails(c) /\ Do(c, <<>>)
  <1>1. PICK list : list = Head(todo[c]).list
    OBVIOUS
  <1>2. list \in Seq(1..MaxNotes) /\ list # <<>>
    BY <1>1, ConnsRun, HeadOp, OpKinds DEF Flush
  <1>3. Head(list) \in 1..MaxNotes /\ Tail(list) \in Seq(1..MaxNotes)
    BY <1>2, Rest
  <1>4. NoteMsg(Head(list)) \in Msgs
    BY <1>3, NoteMsgType
  <1>5. \/ Write(c, NoteMsg(Head(list))) /\ Do(c, flush(Tail(list)))
        \/ WriteFails(c) /\ Do(c, <<>>)
    BY <1>1 DEF Flush
  <1>6. PICK q : q = Tail(list)
    OBVIOUS
  <1>7. ASSUME Do(c, flush(q))
        PROVE  \/ q = <<>> /\ Do(c, <<>>)
               \/ q # <<>> /\ \E o \in Ops : Do(c, <<o>>) /\ o.op = "flush" /\ o.list = q
    BY <1>3, <1>6, <1>7, FlushRest
  <1> QED BY <1>1, <1>2, <1>3, <1>4, <1>5, <1>6, <1>7

LEMMA DrainEffect ==
    ASSUME Types, NEW c \in Conns, Drain(c)
    PROVE  \/ notifications = <<>> /\ Do(c, <<>>)
           \/ \E o \in Ops : Do(c, <<o>>) /\ o.op = "flush" /\ o.list = notifications
  <1>1. PICK q : q = notifications
    OBVIOUS
  <1> QED BY <1>1, FlushRest DEF Drain, Types

LEMMA RemoveRulesetsEffect ==
    ASSUME Types, NEW c \in Conns, RemoveRulesets(c)
    PROVE  \/ Do(c, <<>>) /\ version' = version
           \/ /\ version' = version + 1 /\ version' \in 0..MaxVersion
              /\ \E o \in Ops : Do(c, <<o>>) /\ o.op = "notify" /\ o.ev = "config"
  <1>1. PICK o \in Ops : notify("config") = <<o>> /\ o.op = "notify" /\ o.ev = "config"
    BY NotifyOp DEF Events
  <1>2. Change => version' = version + 1 /\ version' \in 0..MaxVersion
    BY ServerBoundsAssumption DEF Change, Types
  <1> QED BY <1>1, <1>2 DEF RemoveRulesets

LEMMA ReplyEffect ==
    ASSUME Types, NEW c \in Conns, Reply(c)
    PROVE  /\ \/ /\ [ev |-> "reply"] \in Msgs /\ [ev |-> "reply"].ev = "reply"
                 /\ Write(c, [ev |-> "reply"]) /\ Do(c, <<>>) /\ dropped' = dropped
              \/ WriteFails(c) /\ todo' = [todo EXCEPT ![c] = cleanup]
           /\ dropped' \in {dropped, version}
  <1>1. [ev |-> "reply"] \in Msgs /\ [ev |-> "reply"].ev = "reply"
    BY DEF Msgs, Replies
  <1>2. dropped' = IF up[c] # "open" /\ Tail(todo[c]) # <<>> THEN version ELSE dropped
    BY DEF Reply
  <1>3. PICK m : m = [ev |-> "reply"]
    OBVIOUS
  <1>4. \/ Write(c, m) /\ Do(c, <<>>)
        \/ WriteFails(c) /\ todo' = [todo EXCEPT ![c] = cleanup]
    BY <1>3 DEF Reply
  <1>5. Write(c, m) => up[c] = "open"
    BY DEF Write
  <1> QED BY <1>1, <1>2, <1>3, <1>4, <1>5

(* What is done instead of the next operation, in one statement. *)
LEMMA DoPuts ==
    ASSUME NEW g, todo[g] # <<>>
    PROVE  /\ Do(g, <<>>) => Puts(g, <<>>)
           /\ \A o \in Ops : Do(g, <<o>>) => Puts(g, <<o>>)
           /\ \A o, r \in Ops : Do(g, <<o, r>>) => Puts(g, <<o, r>>)
           /\ todo' = [todo EXCEPT ![g] = cleanup] => Puts(g, cleanup)
  <1>1. /\ <<>> \in Seq(Ops) /\ cleanup \in Seq(Ops)
        /\ \A o \in Ops : <<o>> \in Seq(Ops)
        /\ \A o, r \in Ops : <<o, r>> \in Seq(Ops)
    BY NothingOp, CleanupOps, Few
  <1> QED BY <1>1, Zenon DEF Puts

LEMMA OpensPuts == ASSUME NEW g, NEW a, Opens(g, a) PROVE Puts(g, a)
  BY DEF Opens, Puts, Fresh

(* Every step replaces the operations of at most one goroutine. *)
LEMMA WorkPuts ==
    ASSUME Types, NEW g \in Goroutines, Work(g)
    PROVE  \E a : Puts(g, a)
  <1>1. todo[g] # <<>>
    BY DEF Work, Notify, ConfigSnapshot, ConfigSnapshotFails, Send, NotifyNotification, Next1
  <1>2. CASE Notify(g)
    BY <1>1, <1>2, NotifyEffect, DoPuts
  <1>3. CASE ConfigSnapshot(g)
    BY <1>1, <1>3, SnapshotEffect, DoPuts
  <1>4. CASE ConfigSnapshotFails(g)
    BY <1>1, <1>4, SnapshotFailsEffect, DoPuts
  <1>5. CASE Send(g)
    BY <1>1, <1>5, SendEffect, DoPuts
  <1>6. CASE NotifyNotification(g)
    BY <1>1, <1>6, NoteEffect, DoPuts
  <1> QED BY <1>2, <1>3, <1>4, <1>5, <1>6 DEF Work

LEMMA HandlerPuts ==
    ASSUME Types, NEW c \in Conns, Handler(c)
    PROVE  \E a : Puts(c, a)
  <1>1. CASE ReadEOF(c)
    BY <1>1, CleanupOps DEF ReadEOF, Begin, Puts
  <1>2. CASE todo[c] # <<>>
    <2>1. CASE Reply(c)
      BY <1>2, <2>1, ReplyEffect, DoPuts
    <2>2. CASE Drain(c)
      BY <1>2, <2>2, DrainEffect, DoPuts
    <2>3. CASE Flush(c)
      BY <1>2, <2>3, FlushEffect, DoPuts
    <2>4. CASE RemoveClient(c)
      BY <1>2, <2>4, DoPuts DEF RemoveClient
    <2>5. CASE RemoveRulesets(c)
      BY <1>2, <2>5, RemoveRulesetsEffect, DoPuts
    <2>6. CASE Close(c)
      BY <1>2, <2>6, DoPuts DEF Close
    <2> QED BY <1>1, <2>1, <2>2, <2>3, <2>4, <2>5, <2>6 DEF Handler
  <1> QED BY <1>1, <1>2 DEF Handler, Reply, Drain, Flush, RemoveClient, RemoveRulesets, Close, Next1

-----------------------------------------------------------------------------
(* Every step keeps the types. *)

LEMMA OpensTypes ==
    ASSUME Types, NEW g \in Goroutines, NEW a, Opens(g, a)
    PROVE  /\ todo' \in [Goroutines -> Seq(Ops)]
           /\ notifications' \in Seq(1..MaxNotes) /\ inbox' \in [Conns -> Seq(Msgs)]
           /\ \A d \in Conns : Len(inbox'[d]) <= Cap
           /\ version' \in 0..MaxVersion /\ notes' \in 0..MaxNotes /\ dropped' \in 0..MaxVersion
  <1>1. todo' \in [Goroutines -> Seq(Ops)]
    BY OpensPuts, PutsType
  <1> QED BY <1>1 DEF Opens, Types

LEMMA WorkTypes ==
    ASSUME Types, NEW g \in Goroutines, Work(g)
    PROVE  Types'
  <1>1. todo' \in [Goroutines -> Seq(Ops)]
    BY WorkPuts, PutsType
  <1>2. CASE Notify(g) \/ ConfigSnapshot(g)
    BY <1>1, <1>2 DEF Notify, ConfigSnapshot, Types, serverVars, dataVars
  <1>3. CASE ConfigSnapshotFails(g)
    <2>1. notes' \in 0..MaxNotes
      BY <1>3, ServerBoundsAssumption DEF ConfigSnapshotFails, Types
    <2> QED BY <1>1, <1>3, <2>1 DEF ConfigSnapshotFails, Types, serverVars
  <1>4. CASE Send(g)
    <2>1. PICK m, c : m = Head(todo[g]).msg /\ c = Head(Head(todo[g]).to)
      OBVIOUS
    <2>2. m \in Msgs /\ c \in Conns /\ (Write(c, m) \/ WriteFails(c))
      BY <1>4, <2>1, SendEffect
    <2>3. /\ inbox' \in [Conns -> Seq(Msgs)] /\ \A d \in Conns : Len(inbox'[d]) <= Cap
          /\ view' \in [Conns -> [newest : 0..MaxVersion, notes : SUBSET (1..MaxNotes)]]
      BY <2>2, WriteEffect DEF WriteFails, Types
    <2> QED BY <1>1, <1>4, <2>3 DEF Send, Types, serverVars, dataVars
  <1>5. CASE NotifyNotification(g)
    <2>1. PICK n : n = Head(todo[g]).note
      OBVIOUS
    <2>2. n \in 1..MaxNotes /\ (notifications' = Append(notifications, n) \/ notifications' = notifications)
      BY <1>5, <2>1, NoteEffect
    <2>3. Append(notifications, n) \in Seq(1..MaxNotes)
      BY <2>2 DEF Types
    <2>4. notifications' \in Seq(1..MaxNotes)
      BY <2>2, <2>3 DEF Types
    <2> QED BY <1>1, <1>5, <2>4 DEF NotifyNotification, Types, dataVars
  <1> QED BY <1>2, <1>3, <1>4, <1>5 DEF Work

LEMMA HandlerTypes ==
    ASSUME Types, NEW c \in Conns, Handler(c)
    PROVE  Types'
  <1>1. todo' \in [Goroutines -> Seq(Ops)]
    BY ConnsRun, HandlerPuts, PutsType
  <1>2. CASE Reply(c)
    <2>1. PICK m : m = [ev |-> "reply"]
      OBVIOUS
    <2>2. m \in Msgs /\ (Write(c, m) \/ WriteFails(c)) /\ dropped' \in {dropped, version}
      <3>1. m \in Msgs
        BY <2>1 DEF Msgs, Replies
      <3> QED BY <1>2, <2>1, <3>1, ReplyEffect
    <2>3. /\ inbox' \in [Conns -> Seq(Msgs)] /\ \A d \in Conns : Len(inbox'[d]) <= Cap
          /\ view' \in [Conns -> [newest : 0..MaxVersion, notes : SUBSET (1..MaxNotes)]]
      BY <2>2, WriteEffect DEF WriteFails, Types
    <2> QED BY <1>1, <1>2, <2>2, <2>3 DEF Reply, Types, serverVars, dataVars
  <1>3. CASE Drain(c)
    BY <1>1, <1>3 DEF Drain, Types, dataVars
  <1>4. CASE Flush(c)
    <2>1. PICK m : m = NoteMsg(Head(Head(todo[c]).list))
      OBVIOUS
    <2>2. m \in Msgs /\ (Write(c, m) \/ WriteFails(c))
      BY <1>4, <2>1, FlushEffect
    <2>3. /\ inbox' \in [Conns -> Seq(Msgs)] /\ \A d \in Conns : Len(inbox'[d]) <= Cap
          /\ view' \in [Conns -> [newest : 0..MaxVersion, notes : SUBSET (1..MaxNotes)]]
      BY <2>2, WriteEffect DEF WriteFails, Types
    <2> QED BY <1>1, <1>4, <2>3 DEF Flush, Types, serverVars, dataVars
  <1>5. CASE ReadEOF(c)
    BY <1>1, <1>5 DEF ReadEOF, Types, serverVars, dataVars
  <1>6. CASE RemoveClient(c)
    BY <1>1, <1>6 DEF RemoveClient, Types, dataVars
  <1>7. CASE RemoveRulesets(c)
    <2>1. version' \in 0..MaxVersion
      BY <1>7, RemoveRulesetsEffect DEF Types
    <2> QED BY <1>1, <1>7, <2>1 DEF RemoveRulesets, Types, serverVars
  <1>8. CASE Close(c)
    BY <1>1, <1>8 DEF Close, Types, serverVars, dataVars
  <1> QED BY <1>2, <1>3, <1>4, <1>5, <1>6, <1>7, <1>8 DEF Handler

LEMMA ClientTypes ==
    ASSUME Types, NEW c \in Conns, Client(c) \/ ClientReads(c)
    PROVE  Types'
  <1>1. c \in Goroutines
    BY ConnsRun
  <1>2. CASE Accept(c)
    BY <1>1, <1>2, AcceptEffect, OpensTypes DEF Accept, Types
  <1>3. CASE HangUp(c)
    <2>1. inbox' \in [Conns -> Seq(Msgs)] /\ \A d \in Conns : Len(inbox'[d]) <= Cap
      <3>1. <<>> \in Seq(Msgs) /\ Len(<<>>) <= Cap
        BY ServerBoundsAssumption
      <3>2. /\ inbox' \in [Conns -> Seq(Msgs)]
            /\ \A d \in Conns : inbox'[d] = <<>> \/ inbox'[d] = inbox[d]
        BY <1>3, <3>1 DEF HangUp, Types
      <3> QED BY <3>1, <3>2, Zenon DEF Types
    <2>2. view' \in [Conns -> [newest : 0..MaxVersion, notes : SUBSET (1..MaxNotes)]]
      <3>1. NewView \in [newest : 0..MaxVersion, notes : SUBSET (1..MaxNotes)]
        BY ServerBoundsAssumption DEF NewView
      <3> QED BY <1>3, <3>1 DEF HangUp, Types
    <2> QED BY <1>3, <2>1, <2>2 DEF HangUp, Types, serverVars, dataVars
  <1>4. CASE ConfigRequest(c)
    BY <1>1, <1>4, ConfigRequestEffect, OpensTypes DEF ConfigRequest, Types, serverVars, dataVars
  <1>5. ASSUME NEW S \in SubChoices, SubscribeRequest(c, S) PROVE Types'
    <2>1. subs' \in [Conns -> SUBSET EventTypes]
      BY <1>5, SubsAssumption DEF SubscribeRequest, Types
    <2>2. view' \in [Conns -> [newest : 0..MaxVersion, notes : SUBSET (1..MaxNotes)]]
      BY <1>5 DEF SubscribeRequest, Types
    <2>3. \E a : Opens(c, a)
      BY <1>5, SubscribeEffect
    <2> QED BY <1>1, <1>5, <2>1, <2>2, <2>3, OpensTypes DEF SubscribeRequest, Types
  <1>6. CASE MutationRequest(c)
    BY <1>1, <1>6, MutationEffect, OpensTypes DEF MutationRequest, Types, serverVars
  <1>7. CASE DebugNotifyRequest(c)
    BY <1>1, <1>7, DebugEffect, OpensTypes DEF DebugNotifyRequest, Types, serverVars
  <1>8. CASE ClientReads(c)
    <2>1. inbox[c] \in Seq(Msgs) /\ inbox[c] # <<>>
      BY <1>8 DEF ClientReads, Types
    <2>2. PICK s, m : s = inbox[c] /\ m = Head(inbox[c])
      OBVIOUS
    <2>3. /\ m \in Msgs /\ Tail(s) \in Seq(Msgs) /\ Len(Tail(s)) = Len(s) - 1 /\ Len(s) \in Nat
      BY <2>1, <2>2, Rest
    <2>4. Len(s) <= Cap
      BY <2>2 DEF Types
    <2>5. Len(Tail(s)) <= Cap
      <3>1. PICK n, l : n = Len(s) /\ l = Len(Tail(s))
        OBVIOUS
      <3>2. n <= Cap /\ n \in Nat /\ l = n - 1
        BY <2>3, <2>4, <3>1, Zenon
      <3>3. l <= Cap
        BY <3>2, ServerBoundsAssumption
      <3> QED BY <3>1, <3>3
    <2>6. /\ inbox' \in [Conns -> Seq(Msgs)]
          /\ \A d \in Conns : inbox'[d] = Tail(s) \/ inbox'[d] = inbox[d]
      BY <1>8, <2>2, <2>3 DEF ClientReads, Types
    <2>7. \A d \in Conns : Len(inbox'[d]) <= Cap
      BY <2>5, <2>6, Zenon DEF Types
    <2>8. (IF "note" \in DOMAIN m THEN {m.note} ELSE {}) \in SUBSET (1..MaxNotes)
      BY <2>3, MsgKinds DEF IsNote
    <2>9. view' \in [Conns -> [newest : 0..MaxVersion, notes : SUBSET (1..MaxNotes)]]
      <3>1. PICK N : N = IF "note" \in DOMAIN m THEN {m.note} ELSE {}
        OBVIOUS
      <3>2. view' = [view EXCEPT ![c].notes = view[c].notes \cup N]
        BY <1>8, <2>2, <3>1 DEF ClientReads
      <3>3. N \in SUBSET (1..MaxNotes)
        BY <2>8, <3>1
      <3> QED BY <3>2, <3>3 DEF Types
    <2> QED BY <1>8, <2>6, <2>7, <2>9 DEF ClientReads, Types, serverVars, dataVars
  <1> QED BY <1>2, <1>3, <1>4, <1>5, <1>6, <1>7, <1>8 DEF Client

LEMMA TypesKept == ASSUME Types, [Next]_vars PROVE Types'
  <1>1. CASE WatcherReconcile
    BY <1>1, WatcherEffect, OpensTypes DEF WatcherReconcile, Types, serverVars
  <1>2. CASE ProxyCallback
    BY <1>2, ProxyEffect, OpensTypes DEF ProxyCallback, Types, serverVars
  <1>3. CASE UNCHANGED vars
    BY <1>3 DEF vars, serverVars, dataVars, Types
  <1> QED BY <1>1, <1>2, <1>3, WorkTypes, HandlerTypes, ClientTypes DEF Next

-----------------------------------------------------------------------------
(* Every step keeps the operations in order. *)

QueuesInOrder ==
    \A g \in Goroutines :
        InOrder(todo[g]) /\ \A k \in 1..Len(todo[g]) : AnswersOwn(g, todo[g][k])

Leaving(c) == \E k \in 1..Len(todo[c]) : todo[c][k].op = "removeClient"

LEMMA OrderedParts ==
    Ordered <=> /\ QueuesInOrder
                /\ \A c \in Conns : /\ up[c] = "open" => c \in clients
                                    /\ Leaving(c) => up[c] # "open"
  BY DEF Ordered, QueuesInOrder, Leaving

(* What may come before the rest of a goroutine's operations. *)
Suits(g, a) ==
    \A i \in 1..Len(a) :
        /\ a[i].op \notin {"drain", "reply", "removeClient"}
        /\ AnswersOwn(g, a[i])
        /\ Answers(a[i]) => Answers(Head(todo[g])) /\ i = Len(a)

LEMMA SuitsNone == ASSUME NEW g PROVE Suits(g, <<>>)
  <1>1. \A k \in 1..Len(<<>>) : FALSE
    OBVIOUS
  <1> QED BY <1>1 DEF Suits

LEMMA SuitsOne ==
    ASSUME NEW g, NEW o \in Ops, o.op \notin {"drain", "reply", "removeClient"}, AnswersOwn(g, o),
           Answers(o) => Answers(Head(todo[g]))
    PROVE  Suits(g, <<o>>)
  <1>1. PICK a : a = <<o>>
    OBVIOUS
  <1>2. Len(a) = 1 /\ a[1] = o
    BY <1>1, Few
  <1>3. \A k \in 1..Len(a) : k = 1
    BY <1>2
  <1> QED BY <1>1, <1>2, <1>3 DEF Suits

LEMMA SuitsTwo ==
    ASSUME NEW g, NEW n \in Ops, n.op = "note", NEW o \in Ops, o.op = "send", AnswersOwn(g, o),
           Answers(o) => Answers(Head(todo[g]))
    PROVE  Suits(g, <<n, o>>)
  <1>1. PICK a : a = <<n, o>>
    OBVIOUS
  <1>2. Len(a) = 2 /\ a[1] = n /\ a[2] = o
    BY <1>1, Few
  <1>3. \A k \in 1..Len(a) : k = 1 \/ k = 2
    BY <1>2
  <1>4. ~Answers(n) /\ AnswersOwn(g, n)
    BY DEF Answers, AnswersOwn
  <1> QED BY <1>1, <1>2, <1>3, <1>4 DEF Suits

LEMMA DoQueues ==
    ASSUME Types, QueuesInOrder, NEW g \in Goroutines, todo[g] # <<>>, NEW a \in Seq(Ops), Do(g, a),
           Suits(g, a)
    PROVE  QueuesInOrder' /\ \A c \in Conns : Leaving(c)' => Leaving(c)
  <1>1. PICK s : s = todo[g]
    OBVIOUS
  <1>2. PICK t : t = todo'[g]
    OBVIOUS
  <1>3. s \in Seq(Ops) /\ t = a \o Tail(s) /\ s # <<>> /\ Head(s) = s[1]
    BY <1>1, <1>2, DoResult, Rest DEF Types
  <1>4. /\ Len(t) = Len(a) + Len(s) - 1
        /\ Len(a) \in Nat /\ Len(s) \in Nat /\ Len(s) >= 1 /\ Len(t) \in Nat
        /\ \A i \in 1..Len(a) : i \in 1..Len(t) /\ t[i] = a[i]
        /\ \A i \in 1..Len(t) : i > Len(a) => /\ i - Len(a) + 1 \in 2..Len(s)
                                              /\ t[i] = s[i - Len(a) + 1]
    BY <1>3, Replaced
  <1>5. PICK l, m, n : l = Len(a) /\ m = Len(s) /\ n = Len(t)
    OBVIOUS
  <1>6. /\ n = l + m - 1 /\ l \in Nat /\ m \in Nat /\ m >= 1 /\ n \in Nat
        /\ \A i \in 1..l : t[i] = a[i]
        /\ \A i \in 1..n : i > l => i - l + 1 \in 2..m /\ t[i] = s[i - l + 1]
    BY <1>4, <1>5, Zenon
  <1>7. InOrder(s) /\ \A k \in 1..m : AnswersOwn(g, s[k])
    BY <1>1, <1>5 DEF QueuesInOrder
  <1>8. /\ \A k \in 1..m : Answers(s[k]) => k = m
        /\ \A k, j \in 1..m : s[k].op = "reply" /\ j > k => s[j].op # "drain"
    BY <1>5, <1>7 DEF InOrder
  <1>9. \A i \in 1..l : /\ a[i].op \notin {"drain", "reply", "removeClient"}
                        /\ AnswersOwn(g, a[i])
                        /\ Answers(a[i]) => Answers(s[1]) /\ i = l
    BY <1>1, <1>3, <1>5 DEF Suits
  <1>10. ASSUME NEW k \in 1..n, Answers(t[k]) PROVE k = n
    <2>1. CASE k > l
      <3>1. k - l + 1 \in 1..m /\ t[k] = s[k - l + 1]
        BY <1>6, <2>1
      <3>2. k - l + 1 = m
        BY <1>8, <1>10, <3>1
      <3> QED BY <1>6, <3>2
    <2>2. CASE ~(k > l)
      <3>1. k \in 1..l /\ t[k] = a[k]
        BY <1>6, <2>2
      <3>2. Answers(s[1]) /\ k = l
        BY <1>9, <1>10, <3>1
      <3>3. 1 \in 1..m
        BY <1>6
      <3>4. m = 1
        BY <1>8, <3>2, <3>3
      <3> QED BY <1>6, <3>2, <3>4
    <2> QED BY <2>1, <2>2
  <1>11. ASSUME NEW k \in 1..n, NEW j \in 1..n, t[k].op = "reply", j > k PROVE t[j].op # "drain"
    <2>1. k > l
      <3>1. SUFFICES ASSUME ~(k > l) PROVE FALSE
        OBVIOUS
      <3>2. k \in 1..l /\ t[k] = a[k]
        BY <1>6, <3>1
      <3> QED BY <1>9, <1>11, <3>2
    <2>2. k - l + 1 \in 1..m /\ t[k] = s[k - l + 1]
      BY <1>6, <2>1
    <2>3. j - l + 1 \in 1..m /\ t[j] = s[j - l + 1] /\ j - l + 1 > k - l + 1
      BY <1>6, <1>11, <2>1
    <2> QED BY <1>8, <1>11, <2>2, <2>3
  <1>12. InOrder(t)
    BY <1>5, <1>10, <1>11 DEF InOrder
  <1>13. ASSUME NEW k \in 1..n
         PROVE  \/ k \in 1..l /\ t[k] = a[k]
                \/ k - l + 1 \in 1..m /\ t[k] = s[k - l + 1]
    BY <1>6
  <1>14. ASSUME NEW k \in 1..n
         PROVE  AnswersOwn(g, t[k]) /\ (t[k].op = "removeClient" => Leaving(g))
    <2>1. CASE k \in 1..l /\ t[k] = a[k]
      BY <1>9, <2>1
    <2>2. CASE k - l + 1 \in 1..m /\ t[k] = s[k - l + 1]
      BY <1>1, <1>5, <1>7, <2>2 DEF Leaving
    <2> QED BY <1>13, <2>1, <2>2
  <1>15. \A h \in Goroutines : h # g => todo'[h] = todo[h]
    BY DoResult
  <1>16. ASSUME NEW h \in Goroutines
         PROVE  InOrder(todo'[h]) /\ \A k \in 1..Len(todo'[h]) : AnswersOwn(h, todo'[h][k])
    <2>1. CASE h = g
      BY <1>2, <1>5, <1>12, <1>14, <2>1
    <2>2. CASE h # g
      BY <1>15, <2>2 DEF QueuesInOrder
    <2> QED BY <2>1, <2>2
  <1>17. ASSUME NEW c \in Conns, Leaving(c)' PROVE Leaving(c)
    <2>1. PICK k \in 1..Len(todo'[c]) : todo'[c][k].op = "removeClient"
      BY <1>17 DEF Leaving
    <2>2. CASE c = g
      BY <1>2, <1>5, <1>14, <2>1, <2>2
    <2>3. CASE c # g
      BY <1>15, <2>1, <2>3, ConnsRun DEF Leaving
    <2> QED BY <2>2, <2>3
  <1> QED BY <1>16, <1>17 DEF QueuesInOrder

LEMMA PutQueues ==
    ASSUME Types, QueuesInOrder, NEW g \in Goroutines, NEW a \in Seq(Ops), todo' = [todo EXCEPT ![g] = a],
           InOrder(a), \A k \in 1..Len(a) : AnswersOwn(g, a[k])
    PROVE  /\ QueuesInOrder'
           /\ \A c \in Conns :
                 Leaving(c)' => Leaving(c) \/ (c = g /\ \E k \in 1..Len(a) : a[k].op = "removeClient")
  BY BeginResult, ConnsRun DEF QueuesInOrder, Leaving

LEMMA OpensQueues ==
    ASSUME Types, QueuesInOrder, NEW g \in Goroutines, NEW a, Opens(g, a)
    PROVE  QueuesInOrder' /\ \A c \in Conns : Leaving(c)' => Leaving(c) /\ c # g
  <1>1. /\ QueuesInOrder'
        /\ \A c \in Conns :
              Leaving(c)' => Leaving(c) \/ (c = g /\ \E k \in 1..Len(a) : a[k].op = "removeClient")
    BY PutQueues DEF Opens, Fresh
  <1>2. \A k \in 1..Len(a) : a[k].op # "removeClient"
    BY DEF Opens, Fresh, Start
  <1>3. ~Leaving(g)
    BY DEF Opens, Leaving
  <1> QED BY <1>1, <1>2, <1>3, Zenon

LEMMA CleanupQueues ==
    ASSUME Types, QueuesInOrder, NEW c \in Conns, todo' = [todo EXCEPT ![c] = cleanup]
    PROVE  QueuesInOrder' /\ \A d \in Conns : Leaving(d)' => Leaving(d) \/ d = c
  <1>1. /\ cleanup \in Seq(Ops) /\ Len(cleanup) = 5
        /\ \A k \in 1..5 : cleanup[k].op \in {"removeClient", "notify", "removeRulesets", "close"}
    BY CleanupOps
  <1>2. PICK a : a = cleanup
    OBVIOUS
  <1>3. \A k \in 1..Len(a) : a[k].op \in {"removeClient", "notify", "removeRulesets", "close"}
    BY <1>1, <1>2
  <1>4. InOrder(a) /\ \A k \in 1..Len(a) : AnswersOwn(c, a[k])
    BY <1>3 DEF InOrder, AnswersOwn, Answers
  <1> QED BY <1>1, <1>2, <1>4, ConnsRun, PutQueues

(* The next operation answers as it should. *)
LEMMA HeadOwn ==
    ASSUME Types, QueuesInOrder, NEW g \in Goroutines, todo[g] # <<>>
    PROVE  AnswersOwn(g, Head(todo[g])) /\ (Answers(Head(todo[g])) => Len(todo[g]) = 1)
  <1>1. PICK s : s = todo[g]
    OBVIOUS
  <1>2. s \in Seq(Ops) /\ s # <<>> /\ Head(s) = s[1] /\ 1 \in 1..Len(s)
    BY <1>1, Rest DEF Types
  <1> QED BY <1>1, <1>2 DEF QueuesInOrder, InOrder

LEMMA WorkQueues ==
    ASSUME Types, QueuesInOrder, NEW g \in Goroutines, Work(g),
           ~(Send(g) /\ Head(todo[g]).msg.ev = "reply" /\ todo' = [todo EXCEPT ![g] = cleanup])
    PROVE  \E a \in Seq(Ops) : todo[g] # <<>> /\ Do(g, a) /\ Suits(g, a)
  <1>1. todo[g] # <<>>
    BY DEF Work, Notify, ConfigSnapshot, ConfigSnapshotFails, Send, NotifyNotification, Next1
  <1>2. PICK h : h = Head(todo[g])
    OBVIOUS
  <1>3. AnswersOwn(g, h) /\ <<>> \in Seq(Ops) /\ Suits(g, <<>>)
    BY <1>1, <1>2, HeadOwn, NothingOp, SuitsNone
  <1>4. \A o \in Ops : <<o>> \in Seq(Ops)
    BY Few
  <1>5. CASE Notify(g)
    <2>1. h.ev \in Events /\ h.ev # "reply"
      BY <1>2, <1>5, NotifyEffect DEF Events
    <2>2. \/ Do(g, <<>>)
          \/ \E o \in Ops : Do(g, <<o>>) /\ o.op = "snapshot" /\ o.ev = h.ev
      BY <1>2, <1>5, NotifyEffect
    <2>3. ASSUME NEW o \in Ops, o.op = "snapshot", o.ev = h.ev PROVE Suits(g, <<o>>)
      <3>1. ~Answers(o) /\ AnswersOwn(g, o)
        BY <2>1, <2>3 DEF Answers, AnswersOwn
      <3> QED BY <2>3, <3>1, SuitsOne
    <2> QED BY <1>1, <1>3, <1>4, <2>2, <2>3
  <1>6. ASSUME NEW o \in Ops, Next1(g, "snapshot"), o.op = "send", o.msg = Event(h.ev), h.ev \in Events \cup {"reply"},
               \A c : h.to = {c} => o.to = <<c>>
        PROVE  AnswersOwn(g, o) /\ (Answers(o) => Answers(h))
    <2>1. o.msg.ev = h.ev
      BY <1>6, EventMsg DEF Types
    <2>2. h.op = "snapshot"
      BY <1>2, <1>6 DEF Next1
    <2> QED BY <1>3, <1>6, <2>1, <2>2 DEF AnswersOwn, Answers
  <1>7. CASE ConfigSnapshot(g)
    <2>1. PICK o \in Ops : /\ Do(g, <<o>>) /\ o.op = "send" /\ o.msg = Event(h.ev)
                           /\ \A c : h.to = {c} => o.to = <<c>>
      BY <1>2, <1>7, SnapshotEffect
    <2>2. h.ev \in Events \cup {"reply"} /\ Next1(g, "snapshot")
      BY <1>2, <1>7, SnapshotEffect DEF ConfigSnapshot
    <2>3. Suits(g, <<o>>)
      BY <1>2, <1>6, <2>1, <2>2, SuitsOne
    <2> QED BY <1>1, <1>4, <2>1, <2>3
  <1>8. CASE ConfigSnapshotFails(g)
    <2>1. PICK n \in Ops, o \in Ops :
              /\ Do(g, <<n, o>>) /\ n.op = "note" /\ o.op = "send" /\ o.msg = Event(h.ev)
              /\ \A c : h.to = {c} => o.to = <<c>>
      BY <1>2, <1>8, SnapshotFailsEffect
    <2>2. h.ev \in Events \cup {"reply"} /\ Next1(g, "snapshot")
      BY <1>2, <1>8, SnapshotFailsEffect DEF ConfigSnapshotFails
    <2>3. Suits(g, <<n, o>>)
      BY <1>2, <1>6, <2>1, <2>2, SuitsTwo
    <2>4. <<n, o>> \in Seq(Ops)
      BY Few
    <2> QED BY <1>1, <2>1, <2>3, <2>4
  <1>9. CASE Send(g)
    <2>1. h.op = "send" /\ h.to \in Seq(Conns)
      BY <1>2, <1>9, SendEffect DEF Send, Next1
    <2>2. \/ Do(g, <<>>)
          \/ Len(h.to) # 1 /\ \E o \in Ops : Do(g, <<o>>) /\ o.op = "send" /\ o.msg = h.msg
      BY <1>2, <1>9, SendEffect
    <2>3. ASSUME Len(h.to) # 1, NEW o \in Ops, o.op = "send", o.msg = h.msg PROVE Suits(g, <<o>>)
      <3>1. h.msg.ev # "reply"
        <4>1. Len(<<g>>) = 1
          OBVIOUS
        <4> QED BY <1>3, <2>1, <2>3, <4>1 DEF AnswersOwn
      <3>2. ~Answers(o) /\ AnswersOwn(g, o)
        BY <2>3, <3>1 DEF Answers, AnswersOwn
      <3> QED BY <2>3, <3>2, SuitsOne
    <2> QED BY <1>1, <1>3, <1>4, <2>2, <2>3
  <1>10. CASE NotifyNotification(g)
    <2>1. PICK n : n = h.note
      OBVIOUS
    <2>2. n \in 1..MaxNotes
      BY <1>2, <1>10, <2>1, NoteEffect
    <2>3. \/ Do(g, <<>>)
          \/ \E o \in Ops : Do(g, <<o>>) /\ o.op = "send" /\ o.msg = NoteMsg(n)
      BY <1>2, <1>10, <2>1, NoteEffect
    <2>4. ASSUME NEW o \in Ops, o.op = "send", o.msg = NoteMsg(n) PROVE Suits(g, <<o>>)
      <3>1. o.msg.ev = "notification"
        BY <2>2, <2>4, NoteMsgType
      <3>2. ~Answers(o) /\ AnswersOwn(g, o)
        BY <2>4, <3>1 DEF Answers, AnswersOwn
      <3> QED BY <2>4, <3>2, SuitsOne
    <2> QED BY <1>1, <1>3, <1>4, <2>3, <2>4
  <1> QED BY <1>5, <1>7, <1>8, <1>9, <1>10 DEF Work

LEMMA HandlerQueues ==
    ASSUME Types, NEW c \in Conns,
           (Reply(c) /\ Do(c, <<>>)) \/ Drain(c) \/ Flush(c) \/ RemoveClient(c) \/ RemoveRulesets(c) \/ Close(c)
    PROVE  \E a \in Seq(Ops) : todo[c] # <<>> /\ Do(c, a) /\ Suits(c, a)
  <1>1. todo[c] # <<>>
    BY DEF Reply, Drain, Flush, RemoveClient, RemoveRulesets, Close, Next1
  <1>2. <<>> \in Seq(Ops) /\ Suits(c, <<>>)
    BY NothingOp, SuitsNone
  <1>3. ASSUME NEW o \in Ops, o.op \in {"flush", "notify"} PROVE <<o>> \in Seq(Ops) /\ Suits(c, <<o>>)
    <2>1. ~Answers(o) /\ AnswersOwn(c, o)
      BY <1>3 DEF Answers, AnswersOwn
    <2> QED BY <1>3, <2>1, SuitsOne, Few
  <1>4. CASE Drain(c)
    BY <1>1, <1>2, <1>3, <1>4, DrainEffect
  <1>5. CASE Flush(c)
    BY <1>1, <1>2, <1>3, <1>5, FlushEffect
  <1>6. CASE RemoveRulesets(c)
    BY <1>1, <1>2, <1>3, <1>6, RemoveRulesetsEffect
  <1> QED BY <1>1, <1>2, <1>4, <1>5, <1>6 DEF RemoveClient, Close

LEMMA OrderedKept == ASSUME Types, Ordered, [Next]_vars PROVE Ordered'
  <1>1. /\ QueuesInOrder
        /\ \A c \in Conns : (up[c] = "open" => c \in clients) /\ (Leaving(c) => up[c] # "open")
    BY OrderedParts
  <1> DEFINE Goal == QueuesInOrder' /\ \A c \in Conns : /\ up'[c] = "open" => c \in clients'
                                                        /\ Leaving(c)' => up'[c] # "open"
  <1>2. Goal => Ordered'
    BY DEF Ordered, QueuesInOrder, Leaving
  <1>3. ASSUME NEW g \in Goroutines, Work(g) PROVE Goal
    <2>1. up' = up /\ clients' = clients
      BY <1>3 DEF Work, Notify, ConfigSnapshot, ConfigSnapshotFails, Send, NotifyNotification, serverVars
    <2>2. CASE Send(g) /\ Head(todo[g]).msg.ev = "reply" /\ todo' = [todo EXCEPT ![g] = cleanup]
      <3>1. PICK h : h = Head(todo[g])
        OBVIOUS
      <3>2. todo[g] # <<>> /\ h.op = "send"
        BY <2>2, <3>1 DEF Send, Next1
      <3>3. h.to = <<g>>
        BY <1>1, <2>2, <3>1, <3>2, HeadOwn DEF AnswersOwn
      <3>4. Head(h.to) = g
        BY <3>3
      <3>5. g \in Conns
        BY <2>2, <3>1, <3>4, SendEffect
      <3>6. up[g] # "open"
        <4>1. \/ WriteFails(Head(h.to))
              \/ Write(Head(h.to), h.msg) /\ (Do(g, <<>>) \/ \E o \in Ops : Do(g, <<o>>))
          BY <2>2, <3>1, SendEffect
        <4>2. CASE WriteFails(Head(h.to))
          BY <3>4, <4>2 DEF WriteFails
        <4>3. CASE Do(g, <<>>) \/ \E o \in Ops : Do(g, <<o>>)
          <5>1. Len(todo'[g]) = 5
            BY <2>2, BeginResult, CleanupOps
          <5>2. Len(todo[g]) = 1
            BY <1>1, <2>2, <3>1, <3>2, HeadOwn DEF Answers
          <5>3. PICK a \in Seq(Ops) : Do(g, a) /\ Len(a) <= 1
            <6>1. <<>> \in Seq(Ops) /\ Len(<<>>) <= 1
              BY NothingOp
            <6>2. \A o \in Ops : <<o>> \in Seq(Ops) /\ Len(<<o>>) <= 1
              BY Few
            <6> QED BY <4>3, <6>1, <6>2, Zenon
          <5>4. PICK t, s : t = todo'[g] /\ s = todo[g]
            OBVIOUS
          <5>5. t = a \o Tail(s) /\ s \in Seq(Ops) /\ s # <<>>
            BY <3>2, <5>3, <5>4, DoResult DEF Types
          <5>6. Len(t) = Len(a) + Len(s) - 1 /\ Len(a) \in Nat
            BY <5>5, Replaced
          <5>7. PICK x, y, z : x = Len(t) /\ y = Len(a) /\ z = Len(s)
            OBVIOUS
          <5>8. x = y + z - 1 /\ y \in Nat /\ y <= 1 /\ z = 1 /\ x = 5
            BY <5>1, <5>2, <5>3, <5>4, <5>6, <5>7, Zenon
          <5> QED BY <5>8
        <4> QED BY <4>1, <4>2, <4>3
      <3>7. QueuesInOrder' /\ \A d \in Conns : Leaving(d)' => Leaving(d) \/ d = g
        BY <1>1, <2>2, <3>5, CleanupQueues
      <3> QED BY <1>1, <2>1, <3>6, <3>7
    <2>3. CASE ~(Send(g) /\ Head(todo[g]).msg.ev = "reply" /\ todo' = [todo EXCEPT ![g] = cleanup])
      <3>1. PICK a \in Seq(Ops) : todo[g] # <<>> /\ Do(g, a) /\ Suits(g, a)
        BY <1>1, <1>3, <2>3, WorkQueues
      <3>2. QueuesInOrder' /\ \A c \in Conns : Leaving(c)' => Leaving(c)
        BY <1>1, <3>1, DoQueues
      <3> QED BY <1>1, <2>1, <3>2
    <2> QED BY <2>2, <2>3
  <1>4. ASSUME NEW c \in Conns, Handler(c) PROVE Goal
    <2>1. ASSUME WriteFails(c) \/ up[c] = "hungup", todo' = [todo EXCEPT ![c] = cleanup],
                 up' = up, clients' = clients
          PROVE  Goal
      <3>1. up[c] # "open"
        BY <2>1 DEF WriteFails
      <3>2. QueuesInOrder' /\ \A d \in Conns : Leaving(d)' => Leaving(d) \/ d = c
        BY <1>1, <2>1, CleanupQueues
      <3> QED BY <1>1, <2>1, <3>1, <3>2
    <2>2. CASE ReadEOF(c)
      BY <2>1, <2>2 DEF ReadEOF, Begin, serverVars
    <2>3. CASE Reply(c) /\ ~Do(c, <<>>)
      BY <2>1, <2>3, ReplyEffect DEF Reply, serverVars
    <2>4. CASE (Reply(c) /\ Do(c, <<>>)) \/ Drain(c) \/ Flush(c) \/ RemoveClient(c) \/ RemoveRulesets(c) \/ Close(c)
      <3>1. PICK a \in Seq(Ops) : todo[c] # <<>> /\ Do(c, a) /\ Suits(c, a)
        BY <2>4, HandlerQueues
      <3>2. QueuesInOrder' /\ \A d \in Conns : Leaving(d)' => Leaving(d)
        BY <1>1, <3>1, ConnsRun, DoQueues
      <3>3. CASE RemoveClient(c)
        <4>1. PICK s : s = todo[c]
          OBVIOUS
        <4>2. s[1].op = "removeClient" /\ 1 \in 1..Len(s)
          BY <3>3, <4>1, ConnsRun, HeadOp DEF RemoveClient
        <4>3. up[c] # "open"
          BY <1>1, <4>1, <4>2 DEF Leaving
        <4> QED BY <1>1, <3>2, <3>3, <4>3 DEF RemoveClient
      <3>4. CASE Close(c)
        BY <1>1, <3>2, <3>4 DEF Close, serverVars, Types
      <3>5. CASE Reply(c) \/ Drain(c) \/ Flush(c) \/ RemoveRulesets(c)
        BY <1>1, <3>2, <3>5 DEF Reply, Drain, Flush, RemoveRulesets, serverVars
      <3> QED BY <2>4, <3>3, <3>4, <3>5
    <2> QED BY <1>4, <2>2, <2>3, <2>4 DEF Handler
  <1>5. ASSUME NEW g \in Goroutines, NEW a, Opens(g, a), UNCHANGED <<up, clients>> PROVE Goal
    BY <1>1, <1>5, OpensQueues
  <1>6. ASSUME NEW c \in Conns, Client(c) \/ ClientReads(c) PROVE Goal
    <2>1. c \in Goroutines
      BY ConnsRun
    <2>2. CASE Accept(c)
      <3>1. PICK a : Opens(c, a)
        BY <2>2, AcceptEffect
      <3>2. QueuesInOrder' /\ \A d \in Conns : Leaving(d)' => Leaving(d) /\ d # c
        BY <1>1, <2>1, <3>1, OpensQueues
      <3> QED BY <1>1, <2>2, <3>2 DEF Accept, Types
    <2>3. CASE HangUp(c)
      BY <1>1, <2>3 DEF HangUp, serverVars, Types, QueuesInOrder, Leaving
    <2>4. CASE ConfigRequest(c)
      BY <1>5, <2>1, <2>4, ConfigRequestEffect DEF ConfigRequest, serverVars
    <2>5. CASE \E S \in SubChoices : SubscribeRequest(c, S)
      BY <1>5, <2>1, <2>5, SubscribeEffect DEF SubscribeRequest
    <2>6. CASE MutationRequest(c)
      BY <1>5, <2>1, <2>6, MutationEffect DEF MutationRequest, serverVars
    <2>7. CASE DebugNotifyRequest(c)
      BY <1>5, <2>1, <2>7, DebugEffect DEF DebugNotifyRequest, serverVars
    <2>8. CASE ClientReads(c)
      BY <1>1, <2>8 DEF ClientReads, serverVars, QueuesInOrder, Leaving
    <2> QED BY <1>6, <2>2, <2>3, <2>4, <2>5, <2>6, <2>7, <2>8 DEF Client
  <1>7. CASE WatcherReconcile
    BY <1>2, <1>5, <1>7, WatcherEffect DEF WatcherReconcile, serverVars
  <1>8. CASE ProxyCallback
    BY <1>2, <1>5, <1>8, ProxyEffect DEF ProxyCallback, serverVars
  <1>9. CASE UNCHANGED vars
    BY <1>9 DEF vars, serverVars, Ordered
  <1> HIDE DEF Goal
  <1> QED BY <1>2, <1>3, <1>4, <1>6, <1>7, <1>8, <1>9 DEF Next

-----------------------------------------------------------------------------
(* Every step keeps it that the buffer is drained once there is a          *)
(* subscriber.                                                             *)

LEMMA DoKeepsDraining ==
    ASSUME Types, NEW g \in Goroutines, todo[g] # <<>>, NEW a \in Seq(Ops), Do(g, a),
           Head(todo[g]).op # "drain", Draining
    PROVE  Draining'
  <1>0. PICK c \in Conns : \E k \in 1..Len(todo[c]) : todo[c][k].op = "drain"
    BY DEF Draining
  <1>1. PICK k \in 1..Len(todo[c]) : todo[c][k].op = "drain"
    BY <1>0
  <1>2. Head(todo[g]) = todo[g][1]
    BY Rest DEF Types
  <1>3. c # g \/ k # 1
    BY <1>1, <1>2
  <1>4. c \in Goroutines
    BY ConnsRun
  <1>5. \E j \in 1..Len(todo'[c]) : todo'[c][j] = todo[c][k]
    BY <1>3, <1>4, Kept
  <1> QED BY <1>1, <1>5 DEF Draining

LEMMA PutKeepsDraining ==
    ASSUME Types, NEW g \in Goroutines, NEW a \in Seq(Ops), todo' = [todo EXCEPT ![g] = a],
           \A k \in 1..Len(todo[g]) : todo[g][k].op # "drain", Draining
    PROVE  Draining'
  <1>0. PICK c \in Conns : \E k \in 1..Len(todo[c]) : todo[c][k].op = "drain"
    BY DEF Draining
  <1>1. PICK k \in 1..Len(todo[c]) : todo[c][k].op = "drain"
    BY <1>0
  <1>2. c # g /\ c \in Goroutines
    BY <1>1, ConnsRun
  <1>3. todo'[c] = todo[c]
    BY <1>2, BeginResult
  <1> QED BY <1>1, <1>3 DEF Draining

LEMMA BufferKept ==
    ASSUME Types, Ordered, BufferIsDrained, [Next]_vars
    PROVE  BufferIsDrained'
  <1>1. QueuesInOrder
    BY OrderedParts
  <1>2. ASSUME Draining => Draining', notifications' = notifications,
               Subscribers("notification")' \subseteq Subscribers("notification")
        PROVE  BufferIsDrained'
    BY <1>2 DEF BufferIsDrained
  <1>3. ASSUME UNCHANGED <<clients, subs>>
        PROVE  Subscribers("notification")' = Subscribers("notification")
    BY <1>3 DEF Subscribers
  <1>4. ASSUME NEW g \in Goroutines, NEW a, Opens(g, a)
        PROVE  (Draining => Draining') /\ notifications' = notifications
    <2>1. \A k \in 1..Len(todo[g]) : todo[g][k].op # "drain"
      BY <1>4 DEF Opens
    <2> QED BY <1>4, <2>1, PutKeepsDraining DEF Opens, Fresh
  <1>5. ASSUME NEW g \in Goroutines, Work(g) PROVE BufferIsDrained'
    <2>1. clients' = clients /\ subs' = subs
      BY <1>5 DEF Work, Notify, ConfigSnapshot, ConfigSnapshotFails, Send, NotifyNotification, serverVars
    <2>2. todo[g] # <<>> /\ Head(todo[g]).op # "drain"
      BY <1>5 DEF Work, Notify, ConfigSnapshot, ConfigSnapshotFails, Send, NotifyNotification, Next1
    <2>3. Draining => Draining'
      <3>1. CASE Send(g) /\ Head(todo[g]).msg.ev = "reply" /\ todo' = [todo EXCEPT ![g] = cleanup]
        <4>1. Head(todo[g]).op = "send"
          BY <3>1 DEF Send, Next1
        <4>2. Len(todo[g]) = 1
          BY <1>1, <2>2, <3>1, <4>1, HeadOwn DEF Answers
        <4>3. Head(todo[g]) = todo[g][1]
          BY <2>2, Rest DEF Types
        <4>4. \A k \in 1..Len(todo[g]) : k = 1
          BY <4>2
        <4>5. \A k \in 1..Len(todo[g]) : todo[g][k].op # "drain"
          BY <2>2, <4>3, <4>4
        <4> QED BY <3>1, <4>5, CleanupOps, PutKeepsDraining
      <3>2. CASE ~(Send(g) /\ Head(todo[g]).msg.ev = "reply" /\ todo' = [todo EXCEPT ![g] = cleanup])
        BY <1>1, <1>5, <2>2, <3>2, WorkQueues, DoKeepsDraining
      <3> QED BY <3>1, <3>2
    <2>4. CASE NotifyNotification(g) /\ Subscribers("notification") = {}
      BY <1>3, <2>1, <2>4 DEF BufferIsDrained
    <2>5. CASE ~(NotifyNotification(g) /\ Subscribers("notification") = {})
      <3>1. notifications' = notifications
        BY <1>5, <2>5, NoteEffect DEF Work, Notify, ConfigSnapshot, ConfigSnapshotFails, Send, serverVars
      <3> QED BY <1>2, <1>3, <2>1, <2>3, <3>1
    <2> QED BY <2>4, <2>5
  <1>6. ASSUME NEW c \in Conns, Handler(c) PROVE BufferIsDrained'
    <2>1. Subscribers("notification")' \subseteq Subscribers("notification")
      BY <1>6 DEF Handler, Reply, Drain, Flush, ReadEOF, RemoveClient, RemoveRulesets, Close, serverVars, Subscribers
    <2>2. CASE Drain(c)
      BY <2>2 DEF Drain, BufferIsDrained
    <2>3. CASE ~Drain(c)
      <3>1. notifications' = notifications
        BY <1>6, <2>3 DEF Handler, Reply, Flush, ReadEOF, RemoveClient, RemoveRulesets, Close, serverVars
      <3>2. CASE ReadEOF(c)
        <4>1. \A k \in 1..Len(todo[c]) : todo[c][k].op # "drain"
          BY <3>2 DEF ReadEOF, Begin, Idle
        <4>2. Draining => Draining'
          BY <3>2, <4>1, ConnsRun, CleanupOps, PutKeepsDraining DEF ReadEOF, Begin
        <4> QED BY <1>2, <2>1, <3>1, <4>2
      <3>3. CASE Reply(c) /\ ~Do(c, <<>>)
        <4>1. PICK s : s = todo[c]
          OBVIOUS
        <4>2. s \in Seq(Ops) /\ s[1].op = "reply" /\ 1 \in 1..Len(s) /\ InOrder(s)
          BY <1>1, <3>3, <4>1, ConnsRun, HeadOp DEF Reply, QueuesInOrder
        <4>3. \A k \in 1..Len(s) : k = 1 \/ k > 1
          OBVIOUS
        <4>4. \A k \in 1..Len(s) : s[k].op # "drain"
          BY <4>2, <4>3 DEF InOrder
        <4>5. Draining => Draining'
          BY <3>3, <4>1, <4>4, ConnsRun, CleanupOps, ReplyEffect, PutKeepsDraining
        <4> QED BY <1>2, <2>1, <3>1, <4>5
      <3>4. CASE (Reply(c) /\ Do(c, <<>>)) \/ Flush(c) \/ RemoveClient(c) \/ RemoveRulesets(c) \/ Close(c)
        <4>1. Head(todo[c]).op # "drain"
          BY <3>4 DEF Reply, Flush, RemoveClient, RemoveRulesets, Close, Next1
        <4>2. Draining => Draining'
          BY <3>4, <4>1, ConnsRun, HandlerQueues, DoKeepsDraining
        <4> QED BY <1>2, <2>1, <3>1, <4>2
      <3> QED BY <1>6, <2>3, <3>2, <3>3, <3>4 DEF Handler
    <2> QED BY <2>2, <2>3
  <1>7. ASSUME NEW c \in Conns, Client(c) \/ ClientReads(c) PROVE BufferIsDrained'
    <2>1. c \in Goroutines
      BY ConnsRun
    <2>2. CASE Accept(c)
      <3>1. Subscribers("notification")' \subseteq Subscribers("notification")
        BY <2>2 DEF Accept, Subscribers, Types
      <3> QED BY <1>2, <1>4, <2>1, <2>2, <3>1, AcceptEffect
    <2>3. CASE HangUp(c) \/ ClientReads(c)
      BY <1>2, <1>3, <2>3 DEF HangUp, ClientReads, serverVars, Draining
    <2>4. CASE ConfigRequest(c)
      BY <1>2, <1>3, <1>4, <2>1, <2>4, ConfigRequestEffect DEF ConfigRequest, serverVars
    <2>5. ASSUME NEW S \in SubChoices, SubscribeRequest(c, S) PROVE BufferIsDrained'
      <3>1. PICK a : /\ Opens(c, a)
                     /\ "notification" \in S => \E i \in 1..Len(a) : a[i].op = "drain"
        BY <2>5, SubscribeEffect
      <3>2. CASE "notification" \in S
        <4>1. todo'[c] = a
          BY <2>1, <3>1, BeginResult DEF Opens, Fresh
        <4> QED BY <3>1, <3>2, <4>1 DEF BufferIsDrained, Draining
      <3>3. CASE "notification" \notin S
        <4>1. Subscribers("notification")' \subseteq Subscribers("notification")
          BY <2>5, <3>3 DEF SubscribeRequest, Subscribers, Types
        <4> QED BY <1>2, <1>4, <2>1, <3>1, <4>1
      <3> QED BY <3>2, <3>3
    <2>6. CASE MutationRequest(c)
      BY <1>2, <1>3, <1>4, <2>1, <2>6, MutationEffect DEF MutationRequest, serverVars
    <2>7. CASE DebugNotifyRequest(c)
      BY <1>2, <1>3, <1>4, <2>1, <2>7, DebugEffect DEF DebugNotifyRequest, serverVars
    <2> QED BY <1>7, <2>2, <2>3, <2>4, <2>5, <2>6, <2>7 DEF Client
  <1>8. CASE WatcherReconcile
    BY <1>2, <1>3, <1>4, <1>8, WatcherEffect DEF WatcherReconcile, serverVars
  <1>9. CASE ProxyCallback
    BY <1>2, <1>3, <1>4, <1>9, ProxyEffect DEF ProxyCallback, serverVars
  <1>10. CASE UNCHANGED vars
    BY <1>10 DEF vars, serverVars, BufferIsDrained, Draining, Subscribers
  <1> QED BY <1>5, <1>6, <1>7, <1>8, <1>9, <1>10 DEF Next

-----------------------------------------------------------------------------
(* Every step keeps it that a change is on its way to the subscribers. *)

(* Nothing newer than the version is sent. *)
LEMMA NotSending ==
    ASSUME NEW v, NEW o, o.op # "send" \/ o.msg.ev \notin Events
    PROVE  UpTo(v, o)
  BY DEF UpTo

LEMMA UpToLater ==
    ASSUME NEW o \in Ops, NEW v \in Nat, NEW w \in Nat, v <= w, UpTo(v, o)
    PROVE  UpTo(w, o)
  <1>1. SUFFICES ASSUME o.op = "send", o.msg.ev \in Events PROVE o.msg.version <= w
    BY DEF UpTo
  <1>2. o.msg \in Msgs
    BY <1>1, OpKinds
  <1>3. PICK m : m = o.msg
    OBVIOUS
  <1>4. m.version \in 0..MaxVersion /\ m.version <= v
    BY <1>1, <1>2, <1>3, MsgKinds DEF UpTo
  <1> QED BY <1>3, <1>4, ServerBoundsAssumption

AllUpTo(v, a) == \A i \in 1..Len(a) : UpTo(v, a[i])

LEMMA PutsUpTo ==
    ASSUME Types, NEW g \in Goroutines, NEW a, Puts(g, a), version' \in Nat, version <= version',
           AllUpTo(version', a),
           \A h \in Goroutines : \A k \in 1..Len(todo[h]) : UpTo(version, todo[h][k])
    PROVE  \A h \in Goroutines : \A k \in 1..Len(todo'[h]) : UpTo(version', todo'[h][k])
  <1>1. PICK v, w : v = version /\ w = version'
    OBVIOUS
  <1>2. v \in Nat /\ w \in Nat /\ v <= w
    BY <1>1 DEF Types
  <1>3. SUFFICES ASSUME NEW h \in Goroutines, NEW j \in 1..Len(todo'[h])
                 PROVE  UpTo(w, todo'[h][j])
    BY <1>1
  <1>4. ASSUME NEW k \in 1..Len(todo[h]), todo'[h][j] = todo[h][k] PROVE UpTo(w, todo'[h][j])
    <2>1. todo[h] \in Seq(Ops)
      BY DEF Types
    <2>2. PICK o : o = todo[h][k]
      OBVIOUS
    <2>3. o \in Ops /\ UpTo(v, o)
      BY <1>1, <2>1, <2>2
    <2> QED BY <1>2, <1>4, <2>2, <2>3, UpToLater
  <1>5. \/ j \in 1..Len(a) /\ todo'[h][j] = a[j]
        \/ \E k \in 1..Len(todo[h]) : todo'[h][j] = todo[h][k]
    BY Origins
  <1> QED BY <1>1, <1>4, <1>5 DEF AllUpTo

LEMMA FewUpTo ==
    ASSUME NEW v
    PROVE  /\ AllUpTo(v, <<>>) /\ AllUpTo(v, cleanup)
           /\ \A o \in Ops : UpTo(v, o) => AllUpTo(v, <<o>>)
           /\ \A o, r \in Ops : UpTo(v, o) /\ UpTo(v, r) => AllUpTo(v, <<o, r>>)
  <1>1. AllUpTo(v, <<>>)
    <2>1. \A k \in 1..Len(<<>>) : FALSE
      OBVIOUS
    <2> QED BY <2>1 DEF AllUpTo
  <1>2. AllUpTo(v, cleanup)
    BY CleanupOps, NotSending DEF AllUpTo
  <1>3. ASSUME NEW o \in Ops, UpTo(v, o) PROVE AllUpTo(v, <<o>>)
    <2>1. PICK a : a = <<o>>
      OBVIOUS
    <2>2. Len(a) = 1 /\ a[1] = o
      BY <2>1, Few
    <2>3. \A k \in 1..Len(a) : k = 1
      BY <2>2
    <2> QED BY <1>3, <2>1, <2>2, <2>3 DEF AllUpTo
  <1>4. ASSUME NEW o \in Ops, NEW r \in Ops, UpTo(v, o), UpTo(v, r) PROVE AllUpTo(v, <<o, r>>)
    <2>1. PICK a : a = <<o, r>>
      OBVIOUS
    <2>2. Len(a) = 2 /\ a[1] = o /\ a[2] = r
      BY <2>1, Few
    <2>3. \A k \in 1..Len(a) : k = 1 \/ k = 2
      BY <2>2
    <2> QED BY <1>4, <2>1, <2>2, <2>3 DEF AllUpTo
  <1> QED BY <1>1, <1>2, <1>3, <1>4

LEMMA OpensUpTo == ASSUME NEW g, NEW a, Opens(g, a), NEW v PROVE AllUpTo(v, a)
  BY NotSending DEF Opens, Fresh, Start, AllUpTo

LEMMA WorkUpTo ==
    ASSUME Types, NEW g \in Goroutines, Work(g),
           \A h \in Goroutines : \A k \in 1..Len(todo[h]) : UpTo(version, todo[h][k])
    PROVE  \E a : Puts(g, a) /\ AllUpTo(version, a)
  <1>1. todo[g] # <<>>
    BY DEF Work, Notify, ConfigSnapshot, ConfigSnapshotFails, Send, NotifyNotification, Next1
  <1>2. PICK h, v : h = Head(todo[g]) /\ v = version
    OBVIOUS
  <1>3. h = todo[g][1] /\ 1 \in 1..Len(todo[g]) /\ h \in Ops
    BY <1>1, <1>2, Rest DEF Types
  <1>4. UpTo(v, h)
    BY <1>2, <1>3
  <1>5. ASSUME NEW o, o.msg = Event(h.ev), h.ev \in Events \cup {"reply"} PROVE UpTo(v, o)
    <2>1. /\ Event(h.ev).ev = h.ev
          /\ h.ev \in Events => Event(h.ev).version = v
      BY <1>2, <1>5, EventMsg DEF Types
    <2>2. v \in Nat
      BY <1>2 DEF Types
    <2> QED BY <1>5, <2>1, <2>2 DEF UpTo
  <1>6. /\ AllUpTo(v, <<>>) /\ AllUpTo(v, cleanup)
        /\ \A o \in Ops : UpTo(v, o) => AllUpTo(v, <<o>>)
        /\ \A o, r \in Ops : UpTo(v, o) /\ UpTo(v, r) => AllUpTo(v, <<o, r>>)
    BY FewUpTo
  <1>7. CASE Notify(g)
    <2>1. Do(g, <<>>) \/ \E o \in Ops : Do(g, <<o>>) /\ o.op = "snapshot"
      BY <1>7, NotifyEffect
    <2> QED BY <1>1, <1>2, <1>6, <2>1, DoPuts, NotSending
  <1>8. CASE ConfigSnapshot(g)
    <2>1. \E o \in Ops : Do(g, <<o>>) /\ o.msg = Event(h.ev) /\ h.ev \in Events \cup {"reply"}
      BY <1>2, <1>8, SnapshotEffect
    <2> QED BY <1>1, <1>2, <1>5, <1>6, <2>1, DoPuts
  <1>9. CASE ConfigSnapshotFails(g)
    <2>1. \E n, o \in Ops : Do(g, <<n, o>>) /\ n.op = "note" /\ o.msg = Event(h.ev) /\ h.ev \in Events \cup {"reply"}
      BY <1>2, <1>9, SnapshotFailsEffect
    <2> QED BY <1>1, <1>2, <1>5, <1>6, <2>1, DoPuts, NotSending
  <1>10. CASE Send(g)
    <2>1. h.op = "send"
      BY <1>2, <1>10 DEF Send, Next1
    <2>2. \/ Do(g, <<>>) \/ todo' = [todo EXCEPT ![g] = cleanup]
          \/ \E o \in Ops : Do(g, <<o>>) /\ o.op = "send" /\ o.msg = h.msg
      BY <1>2, <1>10, SendEffect
    <2>3. \A o \in Ops : o.op = "send" /\ o.msg = h.msg => UpTo(v, o)
      BY <1>4, <2>1 DEF UpTo
    <2> QED BY <1>1, <1>2, <1>6, <2>2, <2>3, DoPuts
  <1>11. CASE NotifyNotification(g)
    <2>1. PICK n : n = h.note
      OBVIOUS
    <2>2. /\ n \in 1..MaxNotes
          /\ Do(g, <<>>) \/ \E o \in Ops : Do(g, <<o>>) /\ o.msg = NoteMsg(n)
      BY <1>2, <1>11, <2>1, NoteEffect
    <2>3. NoteMsg(n).ev \notin Events
      BY <2>2, NoteMsgType DEF Events
    <2> QED BY <1>1, <1>2, <1>6, <2>2, <2>3, DoPuts, NotSending
  <1> QED BY <1>7, <1>8, <1>9, <1>10, <1>11 DEF Work

LEMMA HandlerUpTo ==
    ASSUME Types, NEW c \in Conns, Handler(c), NEW v
    PROVE  \E a : Puts(c, a) /\ AllUpTo(v, a)
  <1>1. /\ AllUpTo(v, <<>>) /\ AllUpTo(v, cleanup)
        /\ \A o \in Ops : o.op # "send" => AllUpTo(v, <<o>>)
    BY FewUpTo, NotSending
  <1>2. CASE ReadEOF(c)
    BY <1>1, <1>2, CleanupOps DEF ReadEOF, Begin, Puts
  <1>3. CASE todo[c] # <<>>
    <2>1. CASE Reply(c)
      BY <1>1, <1>3, <2>1, ReplyEffect, DoPuts
    <2>2. CASE Drain(c)
      BY <1>1, <1>3, <2>2, DrainEffect, DoPuts
    <2>3. CASE Flush(c)
      BY <1>1, <1>3, <2>3, FlushEffect, DoPuts
    <2>4. CASE RemoveClient(c)
      BY <1>1, <1>3, <2>4, DoPuts DEF RemoveClient
    <2>5. CASE RemoveRulesets(c)
      BY <1>1, <1>3, <2>5, RemoveRulesetsEffect, DoPuts
    <2>6. CASE Close(c)
      BY <1>1, <1>3, <2>6, DoPuts DEF Close
    <2> QED BY <1>2, <2>1, <2>2, <2>3, <2>4, <2>5, <2>6 DEF Handler
  <1> QED BY <1>2, <1>3 DEF Handler, Reply, Drain, Flush, RemoveClient, RemoveRulesets, Close, Next1

(* What brings the version is new, or is kept. *)
LEMMA NewBrings ==
    ASSUME Types, NEW g \in Goroutines, NEW a, Puts(g, a), NEW c, NEW i \in 1..Len(a),
           Brings(version', a[i], c)
    PROVE  OnItsWay(c)'
  <1>1. i \in 1..Len(todo'[g]) /\ todo'[g][i] = a[i]
    <2>1. CASE todo[g] # <<>> /\ Do(g, a)
      <3>1. PICK s, t : s = todo[g] /\ t = todo'[g]
        OBVIOUS
      <3>2. s \in Seq(Ops) /\ s # <<>> /\ a \in Seq(Ops) /\ t = a \o Tail(s)
        BY <2>1, <3>1, DoResult DEF Types, Puts
      <3>3. \A k \in 1..Len(a) : k \in 1..Len(t) /\ t[k] = a[k]
        BY <3>2, Replaced
      <3> QED BY <3>1, <3>3
    <2>2. CASE todo' = [todo EXCEPT ![g] = a]
      BY <2>2, BeginResult DEF Puts
    <2> QED BY <2>1, <2>2 DEF Puts
  <1> QED BY <1>1 DEF OnItsWay

LEMMA DoBrings ==
    ASSUME Types, NEW g \in Goroutines, todo[g] # <<>>, NEW a \in Seq(Ops), Do(g, a),
           version' = version, NEW c, OnItsWay(c),
           Brings(version, Head(todo[g]), c) => \E i \in 1..Len(a) : Brings(version, a[i], c)
    PROVE  OnItsWay(c)'
  <1>1. PICK v : v = version
    OBVIOUS
  <1>2. PICK h \in Goroutines : \E k \in 1..Len(todo[h]) : Brings(v, todo[h][k], c)
    BY <1>1 DEF OnItsWay
  <1>3. PICK k \in 1..Len(todo[h]) : Brings(v, todo[h][k], c)
    BY <1>2
  <1>4. Head(todo[g]) = todo[g][1]
    BY Rest DEF Types
  <1>5. CASE h = g /\ k = 1
    <2>1. PICK i \in 1..Len(a) : Brings(v, a[i], c)
      BY <1>1, <1>3, <1>4, <1>5
    <2>2. Puts(g, a)
      BY DEF Puts
    <2> QED BY <1>1, <2>1, <2>2, NewBrings
  <1>6. CASE h # g \/ k # 1
    <2>1. PICK j \in 1..Len(todo'[h]) : todo'[h][j] = todo[h][k]
      BY <1>6, Kept
    <2> QED BY <1>1, <1>3, <2>1 DEF OnItsWay
  <1> QED BY <1>5, <1>6

LEMMA PutBrings ==
    ASSUME Types, NEW g \in Goroutines, NEW a \in Seq(Ops), todo' = [todo EXCEPT ![g] = a],
           version' = version, NEW c, OnItsWay(c),
           \A k \in 1..Len(todo[g]) : ~Brings(version, todo[g][k], c)
    PROVE  OnItsWay(c)'
  <1>1. PICK v : v = version
    OBVIOUS
  <1>2. PICK h \in Goroutines : \E k \in 1..Len(todo[h]) : Brings(v, todo[h][k], c)
    BY <1>1 DEF OnItsWay
  <1>3. PICK k \in 1..Len(todo[h]) : Brings(v, todo[h][k], c)
    BY <1>2
  <1>4. h # g
    BY <1>1, <1>3
  <1>5. todo'[h] = todo[h]
    BY <1>4, BeginResult
  <1> QED BY <1>1, <1>3, <1>5 DEF OnItsWay

(* A goroutine's next operation brings the version, and so does what       *)
(* takes its place.                                                        *)
LEMMA WorkBrings ==
    ASSUME Types, Ordered, ChangesAreBrought, NEW g \in Goroutines, Work(g), NEW c \in Conns,
           Subscribed(c), OnItsWay(c), version' = version
    PROVE  OnItsWay(c)' \/ view'[c].newest = version
  <1>1. todo[g] # <<>>
    BY DEF Work, Notify, ConfigSnapshot, ConfigSnapshotFails, Send, NotifyNotification, Next1
  <1>2. PICK h, v : h = Head(todo[g]) /\ v = version
    OBVIOUS
  <1>3. h = todo[g][1] /\ 1 \in 1..Len(todo[g]) /\ h \in Ops /\ v \in Nat
    BY <1>1, <1>2, Rest DEF Types
  <1>4. ASSUME NEW o \in Ops, Do(g, <<o>>), Brings(v, h, c) => Brings(v, o, c) PROVE OnItsWay(c)'
    <2>1. PICK a : a = <<o>>
      OBVIOUS
    <2>2. a \in Seq(Ops) /\ Len(a) = 1 /\ a[1] = o
      BY <2>1, Few
    <2>3. 1 \in 1..Len(a)
      BY <2>2
    <2>4. Brings(v, h, c) => \E i \in 1..Len(a) : Brings(v, a[i], c)
      BY <1>4, <2>2, <2>3
    <2> QED BY <1>1, <1>2, <1>4, <2>1, <2>2, <2>4, DoBrings
  <1>5. ASSUME Do(g, <<>>), ~Brings(v, h, c) PROVE OnItsWay(c)'
    BY <1>1, <1>2, <1>5, NothingOp, DoBrings
  <1>6. CASE Notify(g)
    <2>1. h.op = "notify"
      BY <1>2, <1>6 DEF Notify, Next1
    <2>2. \/ Subscribers(h.ev) = {} /\ Do(g, <<>>)
          \/ \E o \in Ops : /\ Do(g, <<o>>) /\ o.op = "snapshot" /\ o.ev = h.ev
                            /\ o.to = Subscribers(h.ev)
      BY <1>2, <1>6, NotifyEffect
    <2>3. c \in Subscribers("config")
      BY DEF Subscribers, Subscribed, Ordered
    <2>4. Brings(v, h, c) => h.ev = "config"
      BY <2>1 DEF Brings
    <2>5. CASE Subscribers(h.ev) = {} /\ Do(g, <<>>)
      BY <1>5, <2>3, <2>4, <2>5
    <2>6. CASE \E o \in Ops : /\ Do(g, <<o>>) /\ o.op = "snapshot" /\ o.ev = h.ev
                              /\ o.to = Subscribers(h.ev)
      <3>1. PICK o \in Ops : /\ Do(g, <<o>>) /\ o.op = "snapshot" /\ o.ev = h.ev
                             /\ o.to = Subscribers(h.ev)
        BY <2>6
      <3>2. Brings(v, h, c) => Brings(v, o, c)
        BY <2>3, <2>4, <3>1 DEF Brings
      <3> QED BY <1>4, <3>1, <3>2
    <2> QED BY <2>2, <2>5, <2>6
  <1>7. ASSUME NEW o, Next1(g, "snapshot"), o.op = "send", o.msg = Event(h.ev), h.ev \in Events \cup {"reply"},
               Range(o.to) = h.to
        PROVE  Brings(v, h, c) => Brings(v, o, c)
    <2>1. h.op = "snapshot"
      BY <1>2, <1>7 DEF Next1
    <2>2. Event(h.ev).ev = h.ev /\ (h.ev \in Events => Event(h.ev).version = v)
      BY <1>2, <1>7, EventMsg DEF Types
    <2>3. "config" \in Events
      BY DEF Events
    <2> QED BY <1>7, <2>1, <2>2, <2>3 DEF Brings
  <1>8. CASE ConfigSnapshot(g)
    <2>1. PICK o \in Ops : /\ Do(g, <<o>>) /\ o.op = "send" /\ o.msg = Event(h.ev)
                           /\ h.ev \in Events \cup {"reply"} /\ Range(o.to) = h.to
      BY <1>2, <1>8, SnapshotEffect
    <2> QED BY <1>4, <1>7, <1>8, <2>1 DEF ConfigSnapshot
  <1>9. CASE ConfigSnapshotFails(g)
    <2>1. PICK n \in Ops, o \in Ops :
              /\ Do(g, <<n, o>>) /\ o.op = "send" /\ o.msg = Event(h.ev)
              /\ h.ev \in Events \cup {"reply"} /\ Range(o.to) = h.to
      BY <1>2, <1>9, SnapshotFailsEffect
    <2>2. Brings(v, h, c) => Brings(v, o, c)
      BY <1>7, <1>9, <2>1 DEF ConfigSnapshotFails
    <2>3. PICK a : a = <<n, o>>
      OBVIOUS
    <2>4. a \in Seq(Ops) /\ Len(a) = 2 /\ a[2] = o
      BY <2>3, Few
    <2>5. 2 \in 1..Len(a)
      BY <2>4
    <2>6. Brings(v, h, c) => \E i \in 1..Len(a) : Brings(v, a[i], c)
      BY <2>2, <2>4, <2>5
    <2> QED BY <1>1, <1>2, <2>1, <2>3, <2>4, <2>6, DoBrings
  <1>10. CASE Send(g)
    <2>1. h.op = "send"
      BY <1>2, <1>10 DEF Send, Next1
    <2>2. PICK m, to : m = h.msg /\ to = h.to
      OBVIOUS
    <2>3. /\ m \in Msgs /\ to \in Seq(Conns) /\ to # <<>> /\ Head(to) \in Conns
          /\ \/ /\ Write(Head(to), m) \/ (WriteFails(Head(to)) /\ m.ev # "reply")
                /\ \/ Len(to) = 1 /\ Do(g, <<>>)
                   \/ \E o \in Ops : Do(g, <<o>>) /\ o.op = "send" /\ o.msg = m /\ o.to = Tail(to)
             \/ m.ev = "reply" /\ todo' = [todo EXCEPT ![g] = cleanup]
      BY <1>2, <1>10, <2>2, SendEffect
    <2>4. CASE m.ev = "reply" /\ todo' = [todo EXCEPT ![g] = cleanup]
      <3>1. QueuesInOrder
        BY OrderedParts
      <3>2. Len(todo[g]) = 1
        BY <1>1, <1>2, <2>1, <2>2, <2>4, <3>1, HeadOwn DEF Answers
      <3>3. \A k \in 1..Len(todo[g]) : k = 1
        BY <3>2
      <3>4. ~Brings(v, h, c)
        BY <2>1, <2>2, <2>4 DEF Brings
      <3>5. \A k \in 1..Len(todo[g]) : ~Brings(v, todo[g][k], c)
        BY <1>3, <3>3, <3>4
      <3> QED BY <1>2, <2>4, <3>5, CleanupOps, PutBrings
    <2>5. CASE Brings(v, h, c) /\ c = Head(to) /\ ~(m.ev = "reply" /\ todo' = [todo EXCEPT ![g] = cleanup])
      <3>1. m.ev = "config" /\ m.version = v /\ m.ev \in Events
        BY <2>1, <2>2, <2>5 DEF Brings, Events
      <3>2. Write(c, m)
        BY <2>3, <2>5 DEF WriteFails, Subscribed
      <3>3. view'[c].newest = IF m.version > view[c].newest THEN m.version ELSE view[c].newest
        BY <2>3, <3>1, <3>2, WriteEffect
      <3>4. view[c].newest <= v /\ view[c].newest \in Nat
        BY <1>2 DEF ChangesAreBrought, Types
      <3>5. view'[c].newest = v
        BY <1>3, <3>1, <3>3, <3>4
      <3> QED BY <1>2, <3>5
    <2>6. CASE ~(Brings(v, h, c) /\ c = Head(to)) /\ ~(m.ev = "reply" /\ todo' = [todo EXCEPT ![g] = cleanup])
      <3>1. Brings(v, h, c) => c \in Range(Tail(to))
        BY <2>1, <2>2, <2>3, <2>6, RestApart DEF Brings
      <3>2. ASSUME Len(to) = 1 PROVE Range(Tail(to)) = {}
        <4>1. PICK w, n, l : w = Tail(to) /\ n = Len(to) /\ l = Len(w)
          OBVIOUS
        <4>2. w \in Seq(Conns) /\ Len(w) = Len(to) - 1
          BY <2>3, <4>1, Rest
        <4>3. l = n - 1 /\ n = 1
          BY <3>2, <4>1, <4>2, Zenon
        <4>4. l = 0
          BY <4>3
        <4>5. w = <<>>
          BY <4>1, <4>2, <4>4
        <4> QED BY <4>1, <4>5, EmptyApart
      <3>3. CASE Len(to) = 1 /\ Do(g, <<>>)
        BY <1>5, <3>1, <3>2, <3>3
      <3>4. CASE \E o \in Ops : Do(g, <<o>>) /\ o.op = "send" /\ o.msg = m /\ o.to = Tail(to)
        <4>1. PICK o \in Ops : Do(g, <<o>>) /\ o.op = "send" /\ o.msg = m /\ o.to = Tail(to)
          BY <3>4
        <4>2. Brings(v, h, c) => Brings(v, o, c)
          BY <2>1, <2>2, <3>1, <4>1 DEF Brings
        <4> QED BY <1>4, <4>1, <4>2
      <3> QED BY <2>3, <2>6, <3>3, <3>4
    <2> QED BY <2>4, <2>5, <2>6
  <1>11. CASE NotifyNotification(g)
    <2>1. h.op = "note"
      BY <1>2, <1>11 DEF NotifyNotification, Next1
    <2>2. ~Brings(v, h, c)
      BY <2>1 DEF Brings
    <2>3. Do(g, <<>>) \/ \E o \in Ops : Do(g, <<o>>)
      BY <1>11, NoteEffect
    <2> QED BY <1>4, <1>5, <2>2, <2>3
  <1> QED BY <1>6, <1>8, <1>9, <1>10, <1>11 DEF Work

LEMMA HandlerBrings ==
    ASSUME Types, NEW c \in Conns, Handler(c), NEW d \in Conns, OnItsWay(d), version' = version
    PROVE  OnItsWay(d)' \/ dropped' = version
  <1>1. c \in Goroutines
    BY ConnsRun
  <1>2. CASE ReadEOF(c)
    <2>1. todo[c] = <<>> /\ todo' = [todo EXCEPT ![c] = cleanup]
      BY <1>2 DEF ReadEOF, Begin, Idle
    <2>2. \A k \in 1..Len(todo[c]) : FALSE
      BY <2>1
    <2> QED BY <1>1, <2>1, <2>2, CleanupOps, PutBrings
  <1>3. CASE Reply(c) /\ ~Do(c, <<>>)
    <2>1. PICK s, v : s = todo[c] /\ v = version
      OBVIOUS
    <2>2. s \in Seq(Ops) /\ s # <<>> /\ s[1].op = "reply" /\ Len(s) \in Nat /\ Len(s) >= 1
      BY <1>1, <1>3, <2>1, HeadOp DEF Reply
    <2>3. up[c] # "open" /\ todo' = [todo EXCEPT ![c] = cleanup]
      BY <1>3, ReplyEffect DEF WriteFails
    <2>4. CASE Tail(s) # <<>>
      BY <1>3, <2>1, <2>3, <2>4 DEF Reply
    <2>5. CASE Tail(s) = <<>>
      <3>1. Len(s) = 1
        <4>1. PICK w, n, l : w = Tail(s) /\ n = Len(s) /\ l = Len(w)
          OBVIOUS
        <4>2. Len(Tail(s)) = Len(s) - 1
          BY <2>2, Rest
        <4>3. l = n - 1 /\ n \in Nat
          BY <2>2, <4>1, <4>2, Zenon
        <4>4. l = 0
          BY <2>5, <4>1, NothingOp
        <4>5. n = 1
          BY <4>3, <4>4
        <4> QED BY <4>1, <4>5
      <3>2. \A k \in 1..Len(s) : k = 1
        BY <3>1
      <3>3. \A k \in 1..Len(s) : ~Brings(v, s[k], d)
        BY <2>2, <3>2 DEF Brings
      <3> QED BY <1>1, <2>1, <2>3, <3>3, CleanupOps, PutBrings
    <2> QED BY <2>4, <2>5
  <1>4. CASE (Reply(c) /\ Do(c, <<>>)) \/ Drain(c) \/ Flush(c) \/ RemoveClient(c) \/ RemoveRulesets(c) \/ Close(c)
    <2>1. PICK a \in Seq(Ops) : todo[c] # <<>> /\ Do(c, a)
      BY <1>4, HandlerQueues
    <2>2. Head(todo[c]).op \in {"reply", "drain", "flush", "removeClient", "removeRulesets", "close"}
      BY <1>4 DEF Reply, Drain, Flush, RemoveClient, RemoveRulesets, Close, Next1
    <2>3. ~Brings(version, Head(todo[c]), d)
      BY <2>2 DEF Brings
    <2> QED BY <1>1, <2>1, <2>3, DoBrings
  <1> QED BY <1>2, <1>3, <1>4 DEF Handler

LEMMA Announced ==
    ASSUME Types, NEW g \in Goroutines, NEW a, Puts(g, a), Announces(a), NEW c
    PROVE  OnItsWay(c)'
  <1>1. PICK i \in 1..Len(a) : a[i].op = "notify" /\ a[i].ev = "config"
    BY DEF Announces
  <1>2. Brings(version', a[i], c)
    BY <1>1 DEF Brings
  <1> QED BY <1>2, NewBrings

LEMMA OpensChanges ==
    ASSUME Types, ChangesAreBrought, NEW g \in Goroutines, NEW a, Opens(g, a),
           \A c \in Conns : view'[c].newest \in {view[c].newest, version},
           \A c \in Conns :
               Subscribed(c)' => Subscribed(c) \/ (version' = version /\ view'[c].newest = version)
    PROVE  ChangesAreBrought'
  <1>1. /\ version \in Nat /\ version' \in Nat /\ version <= version'
        /\ \A c \in Conns : view[c].newest \in Nat /\ view[c].newest <= version
    BY DEF Opens, Types, ChangesAreBrought
  <1>2. \A c \in Conns : view'[c].newest <= version'
    BY <1>1
  <1>3. Puts(g, a) /\ AllUpTo(version', a)
    BY OpensPuts, OpensUpTo
  <1>4. \A h \in Goroutines : \A k \in 1..Len(todo'[h]) : UpTo(version', todo'[h][k])
    BY <1>1, <1>3, PutsUpTo DEF ChangesAreBrought
  <1>5. ASSUME NEW c \in Conns, Subscribed(c)'
        PROVE  view'[c].newest = version' \/ version' = dropped' \/ OnItsWay(c)'
    <2>1. CASE version' = version + 1
      <3>1. Announces(a)
        BY <1>1, <2>1 DEF Opens
      <3> QED BY <1>3, <3>1, Announced
    <2>2. CASE version' = version /\ Subscribed(c)
      <3>1. CASE OnItsWay(c)
        <4>1. \A k \in 1..Len(todo[g]) : FALSE
          BY DEF Opens
        <4>2. OnItsWay(c)'
          BY <2>2, <3>1, <4>1, PutBrings DEF Opens, Fresh
        <4> QED BY <4>2
      <3>2. CASE view[c].newest = version \/ version = dropped
        BY <2>2, <3>2 DEF Opens
      <3> QED BY <2>2, <3>1, <3>2 DEF ChangesAreBrought
    <2>3. version' = version \/ version' = version + 1
      BY DEF Opens
    <2> QED BY <1>5, <2>1, <2>2, <2>3
  <1> QED BY <1>2, <1>4, <1>5 DEF ChangesAreBrought

LEMMA ChangesKept ==
    ASSUME Types, Ordered, ChangesAreBrought, [Next]_vars
    PROVE  ChangesAreBrought'
  <1>1. /\ version \in Nat
        /\ \A c \in Conns : view[c].newest \in Nat /\ view[c].newest <= version
        /\ \A g \in Goroutines : \A k \in 1..Len(todo[g]) : UpTo(version, todo[g][k])
    BY DEF Types, ChangesAreBrought
  <1>2. ASSUME version' = version,
               \A c \in Conns : view'[c].newest \in Nat /\ view[c].newest <= view'[c].newest /\ view'[c].newest <= version,
               \A g \in Goroutines : \A k \in 1..Len(todo'[g]) : UpTo(version', todo'[g][k]),
               dropped' \in {dropped, version},
               \A c \in Conns : Subscribed(c)' => Subscribed(c),
               \A c \in Conns : Subscribed(c) /\ OnItsWay(c) =>
                   OnItsWay(c)' \/ view'[c].newest = version \/ dropped' = version
        PROVE  ChangesAreBrought'
    <2>1. ASSUME NEW c \in Conns, Subscribed(c)'
          PROVE  view'[c].newest = version' \/ version' = dropped' \/ OnItsWay(c)'
      <3>1. Subscribed(c)
        BY <1>2, <2>1
      <3>2. CASE OnItsWay(c)
        BY <1>2, <3>1, <3>2
      <3>3. CASE view[c].newest = version
        BY <1>1, <1>2, <3>3
      <3>4. CASE version = dropped
        BY <1>2, <3>4
      <3> QED BY <3>1, <3>2, <3>3, <3>4 DEF ChangesAreBrought
    <2>2. \A c \in Conns : view'[c].newest <= version'
      BY <1>2
    <2> QED BY <1>2, <2>1, <2>2 DEF ChangesAreBrought
  <1>3. ASSUME UNCHANGED <<up, subs>> PROVE \A c \in Conns : Subscribed(c)' => Subscribed(c)
    BY <1>3 DEF Subscribed
  <1>4. ASSUME UNCHANGED view
        PROVE  \A c \in Conns : view'[c].newest \in Nat /\ view[c].newest <= view'[c].newest /\ view'[c].newest <= version
    BY <1>1, <1>4
  <1>5. ASSUME NEW c \in Conns, NEW m \in Msgs, Write(c, m) \/ WriteFails(c), m.ev \in Events => m.version <= version
        PROVE  \A d \in Conns : view'[d].newest \in Nat /\ view[d].newest <= view'[d].newest /\ view'[d].newest <= version
    <2>1. CASE WriteFails(c)
      BY <1>4, <2>1 DEF WriteFails
    <2>2. CASE Write(c, m)
      <3>1. /\ \A d \in Conns : d # c => view'[d] = view[d]
            /\ m.ev \notin Events => view'[c] = view[c]
            /\ m.ev \in Events =>
                  view'[c].newest = IF m.version > view[c].newest THEN m.version ELSE view[c].newest
        BY <2>2, WriteEffect
      <3>2. CASE m.ev \in Events
        <4>1. m.version \in Nat
          BY <3>2, MsgKinds
        <4>2. PICK x, y, z : x = m.version /\ y = view[c].newest /\ z = view'[c].newest
          OBVIOUS
        <4>3. x \in Nat /\ y \in Nat /\ x <= version /\ y <= version /\ z = IF x > y THEN x ELSE y
          BY <1>1, <1>5, <3>1, <3>2, <4>1, <4>2
        <4>4. z \in Nat /\ y <= z /\ z <= version
          BY <1>1, <4>3
        <4> QED BY <1>1, <3>1, <4>2, <4>4
      <3>3. CASE m.ev \notin Events
        BY <1>1, <3>1, <3>3
      <3> QED BY <3>2, <3>3
    <2> QED BY <1>5, <2>1, <2>2
  <1>6. ASSUME NEW g \in Goroutines, Work(g) PROVE ChangesAreBrought'
    <2>1. UNCHANGED <<up, subs, version, dropped>>
      BY <1>6 DEF Work, Notify, ConfigSnapshot, ConfigSnapshotFails, Send, NotifyNotification, serverVars, dataVars
    <2>2. \A h \in Goroutines : \A k \in 1..Len(todo'[h]) : UpTo(version', todo'[h][k])
      <3>1. PICK v : v = version
        OBVIOUS
      <3>2. PICK a : Puts(g, a) /\ AllUpTo(v, a)
        BY <1>1, <1>6, <3>1, WorkUpTo
      <3>3. version' = v /\ version' \in Nat /\ version <= version'
        BY <1>1, <2>1, <3>1
      <3> QED BY <1>1, <3>2, <3>3, PutsUpTo
    <2>3. \A c \in Conns : view'[c].newest \in Nat /\ view[c].newest <= view'[c].newest /\ view'[c].newest <= version
      <3>1. CASE Send(g)
        <4>1. PICK m, c : m = Head(todo[g]).msg /\ c = Head(Head(todo[g]).to)
          OBVIOUS
        <4>2. m \in Msgs /\ c \in Conns /\ (Write(c, m) \/ WriteFails(c))
          BY <3>1, <4>1, SendEffect
        <4>3. Head(todo[g]) = todo[g][1] /\ 1 \in 1..Len(todo[g]) /\ Head(todo[g]).op = "send"
          BY <3>1, HeadOp DEF Send
        <4>4. m.ev \in Events => m.version <= version
          BY <1>1, <4>1, <4>3 DEF UpTo
        <4> QED BY <1>5, <4>2, <4>4
      <3>2. CASE ~Send(g)
        BY <1>4, <1>6, <3>2 DEF Work, Notify, ConfigSnapshot, ConfigSnapshotFails, NotifyNotification
      <3> QED BY <3>1, <3>2
    <2>4. \A c \in Conns : Subscribed(c) /\ OnItsWay(c) => OnItsWay(c)' \/ view'[c].newest = version
      BY <1>6, <2>1, WorkBrings
    <2> QED BY <1>2, <1>3, <2>1, <2>2, <2>3, <2>4
  <1>7. ASSUME NEW c \in Conns, Handler(c) PROVE ChangesAreBrought'
    <2>1. c \in Goroutines
      BY ConnsRun
    <2>2. \A d \in Conns : Subscribed(d)' => Subscribed(d)
      <3>1. CASE Close(c)
        BY <3>1 DEF Close, serverVars, Subscribed, Types
      <3>2. CASE ~Close(c)
        BY <1>3, <1>7, <3>2 DEF Handler, Reply, Drain, Flush, ReadEOF, RemoveClient, RemoveRulesets, serverVars
      <3> QED BY <3>1, <3>2
    <2>3. \A d \in Conns : view'[d].newest \in Nat /\ view[d].newest <= view'[d].newest /\ view'[d].newest <= version
      <3>1. CASE Reply(c)
        <4>1. PICK m : m = [ev |-> "reply"]
          OBVIOUS
        <4>2. m \in Msgs /\ m.ev \notin Events
          BY <4>1 DEF Msgs, Replies, Events
        <4>3. Write(c, m) \/ WriteFails(c)
          BY <3>1, <4>1 DEF Reply
        <4> QED BY <1>5, <4>2, <4>3
      <3>2. CASE Flush(c)
        <4>1. PICK n : n = Head(Head(todo[c]).list)
          OBVIOUS
        <4>2. n \in 1..MaxNotes /\ NoteMsg(n) \in Msgs /\ (Write(c, NoteMsg(n)) \/ WriteFails(c))
          BY <3>2, <4>1, FlushEffect
        <4>3. NoteMsg(n).ev \notin Events
          BY <4>2, NoteMsgType DEF Events
        <4> QED BY <1>5, <4>2, <4>3
      <3>3. CASE ~Reply(c) /\ ~Flush(c)
        BY <1>4, <1>7, <3>3 DEF Handler, Drain, ReadEOF, RemoveClient, RemoveRulesets, Close
      <3> QED BY <3>1, <3>2, <3>3
    <2>4. dropped' \in {dropped, version}
      BY <1>7, ReplyEffect DEF Handler, Drain, Flush, ReadEOF, RemoveClient, RemoveRulesets, Close
    <2>5. version' \in Nat /\ version <= version'
      BY <1>1, <1>7, RemoveRulesetsEffect DEF Handler, Reply, Drain, Flush, ReadEOF, RemoveClient, Close, dataVars
    <2>6. \A h \in Goroutines : \A k \in 1..Len(todo'[h]) : UpTo(version', todo'[h][k])
      <3>1. PICK w : w = version'
        OBVIOUS
      <3>2. PICK a : Puts(c, a) /\ AllUpTo(w, a)
        BY <1>7, HandlerUpTo
      <3> QED BY <1>1, <2>1, <2>5, <3>1, <3>2, PutsUpTo
    <2>7. CASE version' = version
      <3>1. \A d \in Conns : OnItsWay(d) => OnItsWay(d)' \/ dropped' = version
        BY <1>7, <2>7, HandlerBrings
      <3> QED BY <1>2, <2>2, <2>3, <2>4, <2>6, <2>7, <3>1
    <2>8. CASE version' # version
      <3>1. RemoveRulesets(c)
        BY <1>7, <2>8 DEF Handler, Reply, Drain, Flush, ReadEOF, RemoveClient, Close, dataVars
      <3>2. PICK o \in Ops : Do(c, <<o>>) /\ o.op = "notify" /\ o.ev = "config"
        BY <2>8, <3>1, RemoveRulesetsEffect
      <3>3. PICK a : a = <<o>>
        OBVIOUS
      <3>4. Len(a) = 1 /\ a[1] = o
        BY <3>3, Few
      <3>5. 1 \in 1..Len(a)
        BY <3>4
      <3>6. Announces(a)
        BY <3>2, <3>4, <3>5 DEF Announces
      <3>7. todo[c] # <<>>
        BY <3>1 DEF RemoveRulesets, Next1
      <3>8. Puts(c, a)
        BY <3>2, <3>3, <3>7, DoPuts
      <3>9. \A d \in Conns : OnItsWay(d)'
        BY <2>1, <3>6, <3>8, Announced
      <3>10. \A d \in Conns : view'[d].newest <= version'
        BY <1>1, <2>3, <2>5
      <3> QED BY <2>6, <3>9, <3>10 DEF ChangesAreBrought
    <2> QED BY <2>7, <2>8
  <1>8. ASSUME NEW g \in Goroutines, NEW a, Opens(g, a), UNCHANGED <<up, subs, view>>
        PROVE  ChangesAreBrought'
    <2>1. \A c \in Conns : view'[c].newest \in {view[c].newest, version}
      BY <1>8
    <2> QED BY <1>3, <1>8, <2>1, OpensChanges
  <1>9. ASSUME NEW c \in Conns, Client(c) \/ ClientReads(c) PROVE ChangesAreBrought'
    <2>1. c \in Goroutines
      BY ConnsRun
    <2>2. CASE Accept(c)
      <3>1. \A d \in Conns : Subscribed(d)' => Subscribed(d)
        BY <2>2 DEF Accept, Subscribed, Types
      <3>2. \A d \in Conns : view'[d].newest \in {view[d].newest, version}
        BY <2>2 DEF Accept
      <3> QED BY <2>1, <2>2, <3>1, <3>2, AcceptEffect, OpensChanges
    <2>3. CASE HangUp(c)
      <3>1. UNCHANGED <<todo, version, dropped, subs>>
        BY <2>3 DEF HangUp, serverVars, dataVars
      <3>2. \A d \in Conns : d # c => view'[d] = view[d]
        BY <2>3 DEF HangUp, Types
      <3>3. view'[c].newest = 0 /\ ~Subscribed(c)'
        BY <2>3 DEF HangUp, Types, NewView, Subscribed
      <3>4. \A d \in Conns : d # c => (Subscribed(d)' <=> Subscribed(d))
        BY <2>3, <3>1 DEF HangUp, Types, Subscribed
      <3>5. \A d \in Conns : view'[d].newest <= version'
        BY <1>1, <3>1, <3>2, <3>3
      <3>6. \A d \in Conns : OnItsWay(d)' <=> OnItsWay(d)
        BY <3>1 DEF OnItsWay
      <3>7. \A d \in Conns : Subscribed(d)' => view'[d].newest = version' \/ version' = dropped' \/ OnItsWay(d)'
        BY <3>1, <3>2, <3>3, <3>4, <3>6 DEF ChangesAreBrought
      <3> QED BY <1>1, <3>1, <3>5, <3>7 DEF ChangesAreBrought
    <2>4. CASE ConfigRequest(c)
      BY <1>8, <2>1, <2>4, ConfigRequestEffect DEF ConfigRequest, serverVars
    <2>5. ASSUME NEW S \in SubChoices, SubscribeRequest(c, S) PROVE ChangesAreBrought'
      <3>1. /\ view'[c].newest = version /\ version' = version
            /\ \A d \in Conns : d # c => view'[d] = view[d]
        BY <2>5 DEF SubscribeRequest, Types, dataVars
      <3>2. \A d \in Conns : d # c => (Subscribed(d)' <=> Subscribed(d))
        BY <2>5 DEF SubscribeRequest, Types, Subscribed
      <3>3. \A d \in Conns : view'[d].newest \in {view[d].newest, version}
        BY <3>1
      <3>4. \A d \in Conns : Subscribed(d)' => Subscribed(d) \/ (version' = version /\ view'[d].newest = version)
        BY <3>1, <3>2
      <3> QED BY <2>1, <2>5, <3>3, <3>4, SubscribeEffect, OpensChanges
    <2>6. CASE MutationRequest(c)
      BY <1>8, <2>1, <2>6, MutationEffect DEF MutationRequest, serverVars
    <2>7. CASE DebugNotifyRequest(c)
      BY <1>8, <2>1, <2>7, DebugEffect DEF DebugNotifyRequest, serverVars
    <2>8. CASE ClientReads(c)
      <3>1. UNCHANGED <<up, subs, todo, version, dropped>>
        BY <2>8 DEF ClientReads, serverVars, dataVars
      <3>2. \A d \in Conns : view'[d].newest = view[d].newest
        <4>1. PICK N : view' = [view EXCEPT ![c].notes = N]
          BY <2>8 DEF ClientReads
        <4> QED BY <4>1 DEF Types
      <3>3. \A d \in Conns : (OnItsWay(d)' <=> OnItsWay(d)) /\ (Subscribed(d)' <=> Subscribed(d))
        BY <3>1 DEF OnItsWay, Subscribed
      <3> QED BY <3>1, <3>2, <3>3 DEF ChangesAreBrought
    <2> QED BY <1>9, <2>2, <2>3, <2>4, <2>5, <2>6, <2>7, <2>8 DEF Client
  <1>10. CASE WatcherReconcile
    BY <1>8, <1>10, WatcherEffect DEF WatcherReconcile, serverVars
  <1>11. CASE ProxyCallback
    BY <1>8, <1>11, ProxyEffect DEF ProxyCallback, serverVars
  <1>12. CASE UNCHANGED vars
    BY <1>12 DEF vars, serverVars, dataVars, ChangesAreBrought, OnItsWay, Subscribed
  <1> QED BY <1>6, <1>7, <1>9, <1>10, <1>11, <1>12 DEF Next

-----------------------------------------------------------------------------
(* Every step keeps the notifications apart. *)

LEMMA CarriedBy ==
    ASSUME NEW o
    PROVE  /\ o.op = "note" => Carried(o) = {o.note}
           /\ o.op = "send" /\ o.msg.ev = "notification" => Carried(o) = {o.msg.note}
           /\ o.op = "send" /\ o.msg.ev # "notification" => Carried(o) = {}
           /\ o.op = "flush" => Carried(o) = Range(o.list)
           /\ o.op \notin {"note", "send", "flush"} => Carried(o) = {}
  BY DEF Carried

(* The operations a carry only what is in N, each at most its part. *)
Carrying(a, N) ==
    \A i \in 1..Len(a) :
        /\ Carried(a[i]) \subseteq N
        /\ a[i].op = "flush" => IsInjective(a[i].list)
        /\ a[i].op = "send" => IsInjective(a[i].to)
        /\ \A j \in 1..Len(a) : i # j => Carried(a[i]) \cap Carried(a[j]) = {}

LEMMA CarryingFew ==
    ASSUME NEW N
    PROVE  /\ Carrying(<<>>, N) /\ Carrying(cleanup, N)
           /\ \A o \in Ops :
                 /\ Carried(o) \subseteq N
                 /\ o.op = "flush" => IsInjective(o.list)
                 /\ o.op = "send" => IsInjective(o.to)
                 => Carrying(<<o>>, N)
  <1>1. Carrying(<<>>, N)
    <2>1. \A k \in 1..Len(<<>>) : FALSE
      OBVIOUS
    <2> QED BY <2>1 DEF Carrying
  <1>2. Carrying(cleanup, N)
    <2>1. PICK a : a = cleanup
      OBVIOUS
    <2>2. \A k \in 1..Len(a) : a[k].op \in {"removeClient", "notify", "removeRulesets", "close"}
      BY <2>1, CleanupOps
    <2>3. \A k \in 1..Len(a) : a[k].op \notin {"note", "send", "flush"}
      BY <2>2
    <2>4. \A k \in 1..Len(a) : Carried(a[k]) = {}
      BY <2>3, CarriedBy
    <2>5. Carrying(a, N)
      BY <2>3, <2>4 DEF Carrying
    <2> QED BY <2>1, <2>5
  <1>3. ASSUME NEW o \in Ops, Carried(o) \subseteq N,
               o.op = "flush" => IsInjective(o.list), o.op = "send" => IsInjective(o.to)
        PROVE  Carrying(<<o>>, N)
    <2>1. PICK a : a = <<o>>
      OBVIOUS
    <2>2. Len(a) = 1 /\ a[1] = o
      BY <2>1, Few
    <2>3. \A k \in 1..Len(a) : k = 1
      BY <2>2
    <2>4. Carrying(a, N)
      BY <1>3, <2>2, <2>3 DEF Carrying
    <2> QED BY <2>1, <2>4
  <1> QED BY <1>1, <1>2, <1>3

(* All other operations than the next one of g keep clear of N. *)
OthersClear(g, N) ==
    \A h \in Goroutines : \A k \in 1..Len(todo[h]) :
        (h # g \/ k # 1) => Carried(todo[h][k]) \cap N = {}

LEMMA HeadClear ==
    ASSUME Types, NotesApart, NEW g \in Goroutines, todo[g] # <<>>
    PROVE  /\ OthersClear(g, Carried(Head(todo[g])))
           /\ Carried(Head(todo[g])) \cap Range(notifications) = {}
           /\ Carried(Head(todo[g])) \subseteq 1..notes
           /\ Head(todo[g]).op = "flush" => IsInjective(Head(todo[g]).list)
           /\ Head(todo[g]).op = "send" => IsInjective(Head(todo[g]).to)
  <1>1. Head(todo[g]) = todo[g][1] /\ 1 \in 1..Len(todo[g])
    BY Rest DEF Types
  <1> QED BY <1>1 DEF NotesApart, OthersClear

LEMMA BufferClear ==
    ASSUME NotesApart, NEW g
    PROVE  OthersClear(g, Range(notifications)) /\ OthersClear(g, {})
  BY DEF NotesApart, OthersClear

(* A notification that has just been raised is nowhere else. *)
LEMMA NewClear ==
    ASSUME Types, NotesApart, NEW g
    PROVE  OthersClear(g, {notes + 1}) /\ {notes + 1} \cap Range(notifications) = {}
  <1>1. notes + 1 \notin 1..notes
    BY DEF Types
  <1> QED BY <1>1 DEF NotesApart, OthersClear

LEMMA ApartKept ==
    ASSUME Types, NotesApart, NEW g \in Goroutines, NEW a, Puts(g, a), NEW N, Carrying(a, N),
           OthersClear(g, N), OthersClear(g, Range(notifications')),
           N \cap Range(notifications') = {}, N \subseteq 1..notes',
           IsInjective(notifications'), Range(notifications') \subseteq 1..notes',
           notes' \in Nat, notes <= notes'
    PROVE  NotesApart'
  <1>1. PICK B : B = Range(notifications')
    OBVIOUS
  <1>2. 1..notes \subseteq 1..notes'
    BY DEF Types
  <1> DEFINE Old(h, j) == IF h = g THEN j - Len(a) + 1 ELSE j
             IsNew(h, j) == h = g /\ j \in 1..Len(a) /\ todo'[h][j] = a[j]
             IsOld(h, j) == /\ Old(h, j) \in 1..Len(todo[h]) /\ (h # g \/ Old(h, j) # 1)
                            /\ todo'[h][j] = todo[h][Old(h, j)]
  <1>3. ASSUME NEW h \in Goroutines, NEW j \in 1..Len(todo'[h]) PROVE IsNew(h, j) \/ IsOld(h, j)
    <2>1. a \in Seq(Ops) /\ todo[h] \in Seq(Ops)
      BY DEF Puts, Types
    <2>2. \A k \in 2..Len(todo[h]) : k # 1
      OBVIOUS
    <2>3. \/ h = g /\ j \in 1..Len(a) /\ todo'[h][j] = a[j]
          \/ h # g /\ j \in 1..Len(todo[h]) /\ todo'[h][j] = todo[h][j]
          \/ /\ h = g /\ j - Len(a) + 1 \in 2..Len(todo[h]) /\ j - Len(a) + 1 \in 1..Len(todo[h])
             /\ todo'[h][j] = todo[h][j - Len(a) + 1]
      BY Origins
    <2> QED BY <2>2, <2>3
  <1>4. ASSUME NEW h \in Goroutines, NEW i \in 1..Len(todo'[h]), NEW j \in 1..Len(todo'[h]),
               Old(h, i) = Old(h, j)
        PROVE  i = j
    <2>1. Len(a) \in Nat
      BY DEF Puts
    <2>2. todo'[h] \in Seq(Ops)
      BY PutsType
    <2>3. i \in Nat /\ j \in Nat
      BY <2>2
    <2> QED BY <1>4, <2>1, <2>3
  <1> HIDE DEF Old
  <1>5. ASSUME NEW h \in Goroutines, NEW k \in Goroutines,
               NEW i \in 1..Len(todo'[h]), NEW j \in 1..Len(todo'[k]), h # k \/ i # j
        PROVE  Carried(todo'[h][i]) \cap Carried(todo'[k][j]) = {}
    <2>1. CASE IsNew(h, i) /\ IsNew(k, j)
      BY <1>5, <2>1 DEF Carrying
    <2>2. CASE IsNew(h, i) /\ IsOld(k, j)
      <3>1. Carried(todo'[h][i]) \subseteq N
        BY <2>2 DEF Carrying
      <3>2. Carried(todo'[k][j]) \cap N = {}
        BY <2>2 DEF OthersClear
      <3> QED BY <3>1, <3>2
    <2>3. CASE IsOld(h, i) /\ IsNew(k, j)
      <3>1. Carried(todo'[k][j]) \subseteq N
        BY <2>3 DEF Carrying
      <3>2. Carried(todo'[h][i]) \cap N = {}
        BY <2>3 DEF OthersClear
      <3> QED BY <3>1, <3>2
    <2>4. CASE IsOld(h, i) /\ IsOld(k, j)
      <3>1. h # k \/ Old(h, i) # Old(k, j)
        BY <1>4, <1>5
      <3> QED BY <2>4, <3>1 DEF NotesApart
    <2> QED BY <1>3, <2>1, <2>2, <2>3, <2>4
  <1>6. ASSUME NEW h \in Goroutines, NEW i \in 1..Len(todo'[h])
        PROVE  /\ Carried(todo'[h][i]) \cap B = {}
               /\ Carried(todo'[h][i]) \subseteq 1..notes'
               /\ todo'[h][i].op = "flush" => IsInjective(todo'[h][i].list)
               /\ todo'[h][i].op = "send" => IsInjective(todo'[h][i].to)
    <2>1. CASE IsNew(h, i)
      <3>1. /\ Carried(a[i]) \subseteq N
            /\ a[i].op = "flush" => IsInjective(a[i].list)
            /\ a[i].op = "send" => IsInjective(a[i].to)
        BY <2>1 DEF Carrying
      <3> QED BY <1>1, <2>1, <3>1
    <2>2. CASE IsOld(h, i)
      <3>1. PICK k \in 1..Len(todo[h]) : todo'[h][i] = todo[h][k] /\ (h # g \/ k # 1)
        BY <2>2
      <3>2. /\ Carried(todo[h][k]) \subseteq 1..notes
            /\ todo[h][k].op = "flush" => IsInjective(todo[h][k].list)
            /\ todo[h][k].op = "send" => IsInjective(todo[h][k].to)
        BY DEF NotesApart
      <3>3. Carried(todo[h][k]) \cap B = {}
        BY <1>1, <3>1 DEF OthersClear
      <3> QED BY <1>2, <3>1, <3>2, <3>3
    <2> QED BY <1>3, <2>1, <2>2
  <1> QED BY <1>1, <1>5, <1>6 DEF NotesApart

(* What the clients have received is on its way to others at most. *)
LEMMA NotYetKept ==
    ASSUME Types, NotesApart, NotesNotYet, NEW g \in Goroutines, NEW a, Puts(g, a), NEW X,
           OthersClear(g, X),
           \A c \in Conns :
               /\ Received(c)' \subseteq Received(c) \cup X
               /\ Received(c)' \subseteq 1..notes'
               /\ Received(c)' \cap Range(notifications') = {}
               /\ \A i \in 1..Len(a) :
                     Received(c)' \cap Carried(a[i]) # {} => a[i].op = "send" /\ c \notin Range(a[i].to)
    PROVE  NotesNotYet'
  <1>1. ASSUME NEW c \in Conns, NEW h \in Goroutines, NEW j \in 1..Len(todo'[h]),
               Received(c)' \cap Carried(todo'[h][j]) # {}
        PROVE  todo'[h][j].op = "send" /\ c \notin Range(todo'[h][j].to)
    <2>1. CASE h = g /\ j \in 1..Len(a) /\ todo'[h][j] = a[j]
      BY <1>1, <2>1
    <2>2. ASSUME NEW k \in 1..Len(todo[h]), h # g \/ k # 1, todo'[h][j] = todo[h][k]
          PROVE  todo'[h][j].op = "send" /\ c \notin Range(todo'[h][j].to)
      <3>1. Carried(todo[h][k]) \cap X = {}
        BY <2>2 DEF OthersClear
      <3>2. Received(c) \cap Carried(todo[h][k]) # {}
        BY <1>1, <2>2, <3>1
      <3> QED BY <2>2, <3>2 DEF NotesNotYet
    <2>3. \A k \in 2..Len(todo[h]) : k # 1
      OBVIOUS
    <2>4. \/ h = g /\ j \in 1..Len(a) /\ todo'[h][j] = a[j]
          \/ \E k \in 1..Len(todo[h]) : (h # g \/ k # 1) /\ todo'[h][j] = todo[h][k]
      BY <2>3, Origins
    <2> QED BY <2>1, <2>2, <2>4
  <1> QED BY <1>1 DEF NotesNotYet

LEMMA ReceivedSame ==
    ASSUME inbox' = inbox, \A c \in Conns : view'[c].notes = view[c].notes
    PROVE  /\ \A c \in Conns : Received(c)' = Received(c)
           /\ NotesArriveOnce => NotesArriveOnce'
  <1>1. \A c \in Conns : Received(c)' = Received(c)
    BY DEF Received, Waiting
  <1>2. NotesArriveOnce => NotesArriveOnce'
    BY DEF NotesArriveOnce
  <1> QED BY <1>1, <1>2

LEMMA WriteReceived ==
    ASSUME Types, NEW c \in Conns, NEW m \in Msgs, Write(c, m)
    PROVE  /\ \A d \in Conns : d # c => Received(d)' = Received(d)
           /\ m.ev # "notification" => Received(c)' = Received(c)
           /\ m.ev = "notification" => Received(c)' = Received(c) \cup {m.note}
           /\ NotesArriveOnce /\ (m.ev = "notification" => m.note \notin Received(c)) => NotesArriveOnce'
  <1>1. /\ inbox' \in [Conns -> Seq(Msgs)] /\ inbox'[c] = Append(inbox[c], m)
        /\ \A d \in Conns : d # c => inbox'[d] = inbox[d] /\ view'[d] = view[d]
        /\ view'[c].notes = view[c].notes
    BY WriteEffect
  <1>0. \A d \in Conns : d # c => inbox'[d] = inbox[d] /\ view'[d] = view[d]
    BY <1>1
  <1>2. PICK s, t, n : s = inbox[c] /\ t = inbox'[c] /\ n = Len(s)
    OBVIOUS
  <1>3. s \in Seq(Msgs) /\ t = Append(s, m)
    BY <1>1, <1>2 DEF Types
  <1>4. /\ t \in Seq(Msgs) /\ Len(t) = Len(s) + 1 /\ t[Len(s) + 1] = m /\ Len(s) \in Nat
        /\ \A i \in 1..Len(s) : t[i] = s[i]
    BY <1>3, More
  <1>5. /\ n \in Nat /\ Len(t) = n + 1 /\ Len(s) = n /\ t[n + 1] = m
        /\ \A i \in 1..n : t[i] = s[i]
    BY <1>2, <1>4, Zenon
  <1>6. DOMAIN s = 1..n /\ DOMAIN t = 1..n + 1
    BY <1>3, <1>4, <1>5
  <1>7. \A i : i \in 1..n + 1 <=> i \in 1..n \/ i = n + 1
    BY <1>5
  <1>8. n + 1 \notin 1..n
    BY <1>5
  <1>9. \A d \in Conns : d # c => Received(d)' = Received(d)
    BY <1>1 DEF Received, Waiting
  <1>10. \A x : x \in Waiting(c) <=> \E i \in 1..n : s[i].ev = "notification" /\ s[i].note = x
    BY <1>2 DEF Waiting
  <1>11. \A x : x \in Waiting(c)' <=> \E i \in 1..n + 1 : t[i].ev = "notification" /\ t[i].note = x
    BY <1>2, <1>5 DEF Waiting
  <1>12. \A x : x \in Waiting(c)' <=> x \in Waiting(c) \/ (m.ev = "notification" /\ x = m.note)
    BY <1>5, <1>7, <1>10, <1>11
  <1>13. CASE m.ev # "notification"
    <2>1. Waiting(c)' = Waiting(c)
      BY <1>12, <1>13
    <2>2. Received(c)' = Received(c)
      BY <1>1, <2>1 DEF Received
    <2>3. ASSUME NotesArriveOnce PROVE NotesArriveOnce'
      <3>1. ~IsNote(m)
        BY <1>13, MsgKinds
      <3>2. ASSUME NEW i \in 1..n + 1, IsNote(t[i])
            PROVE  /\ t[i].note \notin view[c].notes
                   /\ \A k \in 1..n + 1 : IsNote(t[k]) /\ t[k].note = t[i].note => k = i
        <4>1. i \in 1..n /\ t[i] = s[i]
          BY <1>5, <1>7, <3>1, <3>2
        <4>2. \A k \in 1..n + 1 : IsNote(t[k]) => k \in 1..n /\ t[k] = s[k]
          BY <1>5, <1>7, <3>1
        <4> QED BY <1>2, <1>6, <2>3, <3>2, <4>1, <4>2 DEF NotesArriveOnce
      <3>3. \A i \in DOMAIN t : IsNote(t[i]) =>
                /\ t[i].note \notin view'[c].notes
                /\ \A k \in DOMAIN t : IsNote(t[k]) /\ t[k].note = t[i].note => k = i
        BY <1>1, <1>6, <3>2
      <3> QED BY <1>0, <1>2, <2>3, <3>3 DEF NotesArriveOnce
    <2> QED BY <1>9, <1>13, <2>2, <2>3
  <1>14. CASE m.ev = "notification"
    <2>1. \A x : x \in Received(c)' <=> x \in Received(c) \/ x = m.note
      BY <1>1, <1>12, <1>14 DEF Received
    <2>2. Received(c)' = Received(c) \cup {m.note}
      BY <2>1
    <2>3. ASSUME NotesArriveOnce, m.note \notin Received(c) PROVE NotesArriveOnce'
      <3>1. m.note \notin view[c].notes /\ \A i \in 1..n : s[i].ev = "notification" => s[i].note # m.note
        BY <1>10, <2>3 DEF Received
      <3>2. \A i \in 1..n : s[i] \in Msgs
        BY <1>2, <1>3
      <3>3. \A i \in 1..n : IsNote(s[i]) => s[i].note # m.note
        BY <3>1, <3>2, MsgKinds
      <3>4. ASSUME NEW i \in 1..n + 1, IsNote(t[i])
            PROVE  /\ t[i].note \notin view[c].notes
                   /\ \A k \in 1..n + 1 : IsNote(t[k]) /\ t[k].note = t[i].note => k = i
        <4>1. CASE i = n + 1
          BY <1>5, <1>7, <3>1, <3>3, <4>1
        <4>2. CASE i \in 1..n
          <5>1. /\ s[i].note \notin view[c].notes
                /\ \A k \in 1..n : IsNote(s[k]) /\ s[k].note = s[i].note => k = i
            BY <1>2, <1>5, <1>6, <2>3, <3>4, <4>2 DEF NotesArriveOnce
          <5> QED BY <1>5, <1>7, <3>3, <3>4, <4>2, <5>1
        <4> QED BY <1>7, <4>1, <4>2
      <3>5. \A i \in DOMAIN t : IsNote(t[i]) =>
                /\ t[i].note \notin view'[c].notes
                /\ \A k \in DOMAIN t : IsNote(t[k]) /\ t[k].note = t[i].note => k = i
        BY <1>1, <1>6, <3>4
      <3> QED BY <1>0, <1>2, <2>3, <3>5 DEF NotesArriveOnce
    <2> QED BY <1>9, <1>14, <2>2, <2>3
  <1> QED BY <1>13, <1>14

(* The client reads: what was in its socket it has. *)
LEMMA ReadReceived ==
    ASSUME Types, NotesArriveOnce, NEW c \in Conns, ClientReads(c)
    PROVE  (\A d \in Conns : Received(d)' = Received(d)) /\ NotesArriveOnce'
  <1>1. PICK s, t, m : s = inbox[c] /\ t = inbox'[c] /\ m = Head(inbox[c])
    OBVIOUS
  <1>2. s \in Seq(Msgs) /\ s # <<>> /\ t = Tail(s) /\ m = Head(s)
    BY <1>1 DEF ClientReads, Types
  <1>3. \A d \in Conns : d # c => inbox'[d] = inbox[d] /\ view'[d] = view[d]
    BY DEF ClientReads, Types
  <1>4. /\ m \in Msgs /\ m = s[1] /\ Len(s) \in Nat /\ Len(s) >= 1 /\ t \in Seq(Msgs)
        /\ Len(t) = Len(s) - 1 /\ \A i \in 1..Len(s) - 1 : t[i] = s[i + 1]
    BY <1>2, Rest
  <1>5. PICK n : n = Len(s)
    OBVIOUS
  <1>6. /\ n \in Nat /\ n >= 1 /\ Len(t) = n - 1 /\ \A i \in 1..n - 1 : t[i] = s[i + 1]
    BY <1>4, <1>5, Zenon
  <1>7. DOMAIN s = 1..n /\ DOMAIN t = 1..n - 1
    BY <1>2, <1>4, <1>5, <1>6
  <1>8. view'[c].notes = view[c].notes \cup (IF IsNote(m) THEN {m.note} ELSE {})
    <2>1. PICK N : N = IF "note" \in DOMAIN m THEN {m.note} ELSE {}
      OBVIOUS
    <2>2. view' = [view EXCEPT ![c].notes = view[c].notes \cup N]
      BY <1>1, <2>1 DEF ClientReads
    <2>3. view'[c].notes = view[c].notes \cup N
      BY <2>2 DEF Types
    <2> QED BY <2>1, <2>3 DEF IsNote
  <1>9. IsNote(m) <=> m.ev = "notification"
    BY <1>4, MsgKinds
  <1>10. \A x : x \in Waiting(c) <=> \E i \in 1..n : s[i].ev = "notification" /\ s[i].note = x
    BY <1>1, <1>5 DEF Waiting
  <1>11. \A x : x \in Waiting(c)' <=> \E i \in 1..n - 1 : t[i].ev = "notification" /\ t[i].note = x
    BY <1>1, <1>6 DEF Waiting
  <1>12. \A x : x \in Waiting(c) <=> x \in Waiting(c)' \/ (IsNote(m) /\ x = m.note)
    <2>1. \A i \in 1..n : i = 1 \/ (i - 1 \in 1..n - 1 /\ t[i - 1] = s[i])
      BY <1>6
    <2>2. \A i \in 1..n - 1 : i + 1 \in 1..n /\ t[i] = s[i + 1]
      BY <1>6
    <2>3. 1 \in 1..n
      BY <1>6
    <2>4. ASSUME NEW x \in Waiting(c) PROVE x \in Waiting(c)' \/ (IsNote(m) /\ x = m.note)
      <3>1. PICK i \in 1..n : s[i].ev = "notification" /\ s[i].note = x
        BY <1>10
      <3> QED BY <1>4, <1>9, <1>11, <2>1, <3>1
    <2>5. ASSUME NEW x \in Waiting(c)' PROVE x \in Waiting(c)
      <3>1. PICK i \in 1..n - 1 : t[i].ev = "notification" /\ t[i].note = x
        BY <1>11, <2>5
      <3> QED BY <1>10, <2>2, <3>1
    <2>6. IsNote(m) => m.note \in Waiting(c)
      BY <1>4, <1>9, <1>10, <2>3
    <2> QED BY <2>4, <2>5, <2>6
  <1>13. Received(c)' = Received(c)
    <2>1. \A x : x \in Received(c)' <=> x \in Received(c)
      BY <1>8, <1>12 DEF Received
    <2> QED BY <2>1
  <1>14. \A d \in Conns : Received(d)' = Received(d)
    <2>1. \A d \in Conns : d # c => Received(d)' = Received(d)
      BY <1>3 DEF Received, Waiting
    <2> QED BY <1>13, <2>1
  <1>15. ASSUME NEW i \in 1..n - 1, IsNote(t[i])
         PROVE  /\ t[i].note \notin view'[c].notes
                /\ \A k \in 1..n - 1 : IsNote(t[k]) /\ t[k].note = t[i].note => k = i
    <2>1. i + 1 \in 1..n /\ t[i] = s[i + 1] /\ i + 1 # 1 /\ 1 \in 1..n
      BY <1>6
    <2>2. /\ s[i + 1].note \notin view[c].notes
          /\ \A k \in 1..n : IsNote(s[k]) /\ s[k].note = s[i + 1].note => k = i + 1
      BY <1>1, <1>7, <1>15, <2>1 DEF NotesArriveOnce
    <2>3. IsNote(m) => m.note # t[i].note
      BY <1>4, <2>1, <2>2
    <2>4. ASSUME NEW k \in 1..n - 1, IsNote(t[k]), t[k].note = t[i].note PROVE k = i
      <3>1. k + 1 \in 1..n /\ t[k] = s[k + 1]
        BY <1>6
      <3>2. k + 1 = i + 1
        BY <2>1, <2>2, <2>4, <3>1
      <3> QED BY <3>2
    <2> QED BY <1>8, <2>1, <2>2, <2>3, <2>4
  <1>16. \A i \in DOMAIN t : IsNote(t[i]) =>
             /\ t[i].note \notin view'[c].notes
             /\ \A k \in DOMAIN t : IsNote(t[k]) /\ t[k].note = t[i].note => k = i
    BY <1>7, <1>15
  <1>17. NotesArriveOnce'
    BY <1>1, <1>3, <1>16 DEF NotesArriveOnce
  <1> QED BY <1>14, <1>17

NotesInv == NotesApart /\ NotesNotYet /\ NotesArriveOnce

(* A step that writes nothing and leaves the buffer alone. *)
LEMMA PlainNotes ==
    ASSUME Types, NotesInv, NEW g \in Goroutines, NEW a, Puts(g, a), inbox' = inbox,
           notifications' = notifications, \A c \in Conns : view'[c].notes = view[c].notes,
           notes' \in {notes, notes + 1},
           \A i \in 1..Len(a) :
               /\ a[i].op # "flush" /\ (a[i].op = "send" => IsInjective(a[i].to))
               /\ Carried(a[i]) = {} \/ (i = 1 /\ Carried(a[i]) = {notes + 1} /\ notes' = notes + 1)
    PROVE  NotesInv'
  <1>1. NotesApart /\ NotesNotYet /\ NotesArriveOnce
    BY DEF NotesInv
  <1>2. notes \in Nat /\ notes' \in Nat /\ notes <= notes' /\ 1..notes \subseteq 1..notes'
    BY DEF Types
  <1>3. PICK N : N = IF notes' = notes + 1 THEN {notes + 1} ELSE {}
    OBVIOUS
  <1>4. N \subseteq 1..notes' /\ notes + 1 \notin 1..notes
    BY <1>2, <1>3
  <1>5. Carrying(a, N)
    BY <1>3 DEF Carrying
  <1>6. OthersClear(g, N) /\ OthersClear(g, {}) /\ N \cap Range(notifications) = {}
    BY <1>1, <1>3, NewClear, BufferClear
  <1>7. PICK B : B = Range(notifications)
    OBVIOUS
  <1>8. OthersClear(g, B) /\ IsInjective(notifications) /\ B \subseteq 1..notes
    BY <1>1, <1>7, BufferClear DEF NotesApart
  <1>9. NotesApart'
    <2>1. IsInjective(notifications') /\ Range(notifications') = B /\ B \subseteq 1..notes'
      BY <1>2, <1>7, <1>8
    <2> QED BY <1>1, <1>2, <1>4, <1>5, <1>6, <1>7, <1>8, <2>1, ApartKept
  <1>10. (\A c \in Conns : Received(c)' = Received(c)) /\ NotesArriveOnce'
    BY <1>1, ReceivedSame
  <1>11. NotesNotYet'
    <2>1. \A c \in Conns : Received(c) \subseteq 1..notes /\ Received(c) \cap B = {}
      BY <1>1, <1>7 DEF NotesNotYet
    <2>2. \A c \in Conns : \A i \in 1..Len(a) : Received(c) \cap Carried(a[i]) = {}
      BY <1>4, <2>1
    <2>3. \A c \in Conns :
               /\ Received(c)' \subseteq Received(c) \cup {}
               /\ Received(c)' \subseteq 1..notes'
               /\ Received(c)' \cap Range(notifications') = {}
               /\ \A i \in 1..Len(a) :
                     Received(c)' \cap Carried(a[i]) # {} => a[i].op = "send" /\ c \notin Range(a[i].to)
      BY <1>2, <1>7, <1>10, <2>1, <2>2
    <2> QED BY <1>1, <1>6, <2>3, NotYetKept
  <1> QED BY <1>9, <1>10, <1>11 DEF NotesInv

(* A step that passes on what the next operation carries, or nothing.      *)
LEMMA PassedNotes ==
    ASSUME Types, NotesInv, NEW g \in Goroutines, todo[g] # <<>>, NEW a, Puts(g, a),
           notifications' = notifications, notes' = notes, NotesArriveOnce',
           Carrying(a, Carried(Head(todo[g]))),
           \A c \in Conns :
               /\ Received(c)' \subseteq Received(c) \cup Carried(Head(todo[g]))
               /\ \A i \in 1..Len(a) :
                     Received(c)' \cap Carried(a[i]) # {} => a[i].op = "send" /\ c \notin Range(a[i].to)
    PROVE  NotesInv'
  <1>1. NotesApart /\ NotesNotYet /\ NotesArriveOnce
    BY DEF NotesInv
  <1>2. PICK N, B : N = Carried(Head(todo[g])) /\ B = Range(notifications)
    OBVIOUS
  <1>3. OthersClear(g, N) /\ N \cap B = {} /\ N \subseteq 1..notes
    BY <1>1, <1>2, HeadClear
  <1>4. OthersClear(g, B) /\ IsInjective(notifications) /\ B \subseteq 1..notes
    BY <1>1, <1>2, BufferClear DEF NotesApart
  <1>5. notes \in Nat /\ notes <= notes
    BY DEF Types
  <1>6. NotesApart'
    BY <1>1, <1>2, <1>3, <1>4, <1>5, ApartKept
  <1>7. \A c \in Conns : Received(c) \subseteq 1..notes /\ Received(c) \cap B = {}
    BY <1>1, <1>2 DEF NotesNotYet
  <1>8. \A c \in Conns : Received(c)' \subseteq 1..notes' /\ Received(c)' \cap Range(notifications') = {}
    BY <1>2, <1>3, <1>7
  <1>9. NotesNotYet'
    BY <1>1, <1>2, <1>3, <1>8, NotYetKept
  <1> QED BY <1>6, <1>9 DEF NotesInv

(* A step that carries nothing on and writes no notification. *)
LEMMA DroppedNotes ==
    ASSUME Types, NotesInv, NEW g \in Goroutines, todo[g] # <<>>, Puts(g, <<>>) \/ Puts(g, cleanup),
           notifications' = notifications, notes' = notes, NotesArriveOnce',
           \A c \in Conns : Received(c)' = Received(c)
    PROVE  NotesInv'
  <1>1. PICK a \in {<<>>, cleanup} : Puts(g, a)
    OBVIOUS
  <1>2. PICK N : N = Carried(Head(todo[g]))
    OBVIOUS
  <1>3. Carrying(a, N) /\ Carrying(a, {})
    BY <1>1, CarryingFew, Zenon
  <1>4. \A i \in 1..Len(a) : Carried(a[i]) = {}
    BY <1>3 DEF Carrying
  <1>5. \A c \in Conns :
               /\ Received(c)' \subseteq Received(c) \cup Carried(Head(todo[g]))
               /\ \A i \in 1..Len(a) :
                     Received(c)' \cap Carried(a[i]) # {} => a[i].op = "send" /\ c \notin Range(a[i].to)
    BY <1>4
  <1> QED BY <1>1, <1>2, <1>3, <1>5, PassedNotes

LEMMA OpensNotes ==
    ASSUME Types, NotesInv, NEW g \in Goroutines, NEW a, Opens(g, a),
           \A c \in Conns : view'[c].notes = view[c].notes
    PROVE  NotesInv'
  <1>1. Puts(g, a) /\ inbox' = inbox /\ notifications' = notifications /\ notes' \in {notes, notes + 1}
    BY OpensPuts DEF Opens
  <1>2. ASSUME NEW i \in 1..Len(a)
        PROVE  /\ a[i].op # "flush" /\ (a[i].op = "send" => IsInjective(a[i].to))
               /\ Carried(a[i]) = {} \/ (i = 1 /\ Carried(a[i]) = {notes + 1} /\ notes' = notes + 1)
    <2>1. Start(g, a[i]) /\ (a[i].op = "note" => i = 1)
      BY DEF Opens, Fresh
    <2>2. CASE a[i].op = "note"
      <3>1. Carried(a[i]) = {a[i].note}
        BY <2>2, CarriedBy
      <3> QED BY <2>1, <2>2, <3>1 DEF Start
    <2>3. CASE a[i].op # "note"
      <3>1. a[i].op \notin {"note", "send", "flush"}
        BY <2>1, <2>3 DEF Start
      <3> QED BY <3>1, CarriedBy
    <2> QED BY <2>2, <2>3
  <1> QED BY <1>1, <1>2, PlainNotes

(* A step that only replaces the next operation by one that carries        *)
(* nothing.                                                                *)
LEMMA ReplacedNotes ==
    ASSUME Types, NotesInv, NEW g \in Goroutines, todo[g] # <<>>,
           \/ Do(g, <<>>)
           \/ todo' = [todo EXCEPT ![g] = cleanup]
           \/ \E o \in Ops : /\ Do(g, <<o>>) /\ o.op # "flush" /\ Carried(o) = {}
                             /\ o.op = "send" => IsInjective(o.to),
           UNCHANGED <<inbox, notifications, notes, view>>
    PROVE  NotesInv'
  <1>1. (\A c \in Conns : Received(c)' = Received(c)) /\ NotesArriveOnce'
    BY ReceivedSame DEF NotesInv
  <1>2. CASE Do(g, <<>>) \/ todo' = [todo EXCEPT ![g] = cleanup]
    BY <1>1, <1>2, DoPuts, DroppedNotes
  <1>3. CASE \E o \in Ops : /\ Do(g, <<o>>) /\ o.op # "flush" /\ Carried(o) = {}
                            /\ o.op = "send" => IsInjective(o.to)
    <2>1. PICK o \in Ops : /\ Do(g, <<o>>) /\ o.op # "flush" /\ Carried(o) = {}
                           /\ o.op = "send" => IsInjective(o.to)
      BY <1>3
    <2>2. PICK a : a = <<o>>
      OBVIOUS
    <2>3. Puts(g, a) /\ Len(a) = 1 /\ a[1] = o
      BY <2>1, <2>2, DoPuts, Few
    <2>4. \A k \in 1..Len(a) : k = 1
      BY <2>3
    <2>5. \A i \in 1..Len(a) :
               /\ a[i].op # "flush" /\ (a[i].op = "send" => IsInjective(a[i].to))
               /\ Carried(a[i]) = {} \/ (i = 1 /\ Carried(a[i]) = {notes + 1} /\ notes' = notes + 1)
      BY <2>1, <2>3, <2>4
    <2> QED BY <2>3, <2>5, PlainNotes
  <1> QED BY <1>2, <1>3

(* A write of one notification to several clients. *)
LEMMA SendNotes ==
    ASSUME Types, NotesInv, NEW g \in Goroutines, Send(g)
    PROVE  NotesInv'
  <1>1. NotesApart /\ NotesNotYet /\ NotesArriveOnce
    BY DEF NotesInv
  <1>2. PICK h, m, to : h = Head(todo[g]) /\ m = h.msg /\ to = h.to
    OBVIOUS
  <1>3. todo[g] # <<>> /\ h.op = "send" /\ h = todo[g][1] /\ 1 \in 1..Len(todo[g])
    BY <1>2, HeadOp DEF Send
  <1>4. /\ m \in Msgs /\ to \in Seq(Conns) /\ to # <<>> /\ Head(to) \in Conns
        /\ \/ /\ Write(Head(to), m) \/ WriteFails(Head(to))
              /\ \/ Do(g, <<>>)
                 \/ \E o \in Ops : Do(g, <<o>>) /\ o.op = "send" /\ o.msg = m /\ o.to = Tail(to)
           \/ /\ WriteFails(Head(to)) /\ todo' = [todo EXCEPT ![g] = cleanup]
    BY <1>2, SendEffect
  <1>5. UNCHANGED <<notifications, notes>>
    BY DEF Send, serverVars, dataVars
  <1>6. PICK c : c = Head(to)
    OBVIOUS
  <1>7. /\ c \in Range(to) /\ Range(Tail(to)) \subseteq Range(to) /\ IsInjective(Tail(to)) /\ c \notin Range(Tail(to))
    BY <1>1, <1>2, <1>3, <1>4, <1>6, HeadClear, RestApart
  <1>8. IF m.ev = "notification" THEN Carried(h) = {m.note} ELSE Carried(h) = {}
    BY <1>2, <1>3, CarriedBy
  <1>9. \A d \in Conns : Received(d) \cap Carried(h) # {} => d \notin Range(to)
    BY <1>1, <1>2, <1>3 DEF NotesNotYet
  <1>10. /\ \A d \in Conns : d # c => Received(d)' = Received(d)
         /\ Received(c)' \subseteq Received(c) \cup Carried(h)
         /\ NotesArriveOnce'
    <2>1. CASE WriteFails(c)
      BY <1>1, <1>4, <1>6, <2>1, ReceivedSame DEF WriteFails
    <2>2. CASE Write(c, m)
      <3>1. m.ev = "notification" => m.note \notin Received(c)
        BY <1>4, <1>6, <1>7, <1>8, <1>9
      <3> QED BY <1>1, <1>4, <1>6, <1>8, <2>2, <3>1, WriteReceived
    <2> QED BY <1>4, <1>6, <2>1, <2>2
  <1>11. PICK a : /\ Puts(g, a) /\ Carrying(a, Carried(h))
                  /\ \A i \in 1..Len(a) : Carried(a[i]) # {} => a[i].op = "send" /\ a[i].to = Tail(to)
    <2>1. CASE Do(g, <<>>) \/ todo' = [todo EXCEPT ![g] = cleanup]
      <3>1. PICK a \in {<<>>, cleanup} : Puts(g, a)
        BY <1>3, <2>1, DoPuts
      <3>2. Carrying(a, Carried(h)) /\ Carrying(a, {})
        BY <3>1, CarryingFew, Zenon
      <3>3. \A i \in 1..Len(a) : Carried(a[i]) = {}
        BY <3>2 DEF Carrying
      <3> QED BY <3>1, <3>2, <3>3
    <2>2. CASE \E o \in Ops : Do(g, <<o>>) /\ o.op = "send" /\ o.msg = m /\ o.to = Tail(to)
      <3>1. PICK o \in Ops : Do(g, <<o>>) /\ o.op = "send" /\ o.msg = m /\ o.to = Tail(to)
        BY <2>2
      <3>2. Carried(o) = Carried(h)
        BY <1>8, <3>1, CarriedBy
      <3>3. Puts(g, <<o>>) /\ Carrying(<<o>>, Carried(h))
        BY <1>3, <1>7, <3>1, <3>2, DoPuts, CarryingFew
      <3>4. PICK a : a = <<o>>
        OBVIOUS
      <3>5. Len(a) = 1 /\ a[1] = o
        BY <3>4, Few
      <3>6. \A i \in 1..Len(a) : a[i] = o
        BY <3>5
      <3> QED BY <3>1, <3>3, <3>4, <3>6
    <2> QED BY <1>4, <2>1, <2>2
  <1>12. ASSUME NEW d \in Conns, NEW i \in 1..Len(a), Received(d)' \cap Carried(a[i]) # {}
         PROVE  a[i].op = "send" /\ d \notin Range(a[i].to)
    <2>1. a[i].op = "send" /\ a[i].to = Tail(to)
      BY <1>11, <1>12
    <2>2. CASE d = c
      BY <1>7, <2>1, <2>2
    <2>3. CASE d # c
      <3>1. Received(d) \cap Carried(h) # {}
        BY <1>10, <1>11, <1>12, <2>3 DEF Carrying
      <3> QED BY <1>7, <1>9, <2>1, <3>1
    <2> QED BY <2>2, <2>3
  <1>13. \A d \in Conns :
               /\ Received(d)' \subseteq Received(d) \cup Carried(Head(todo[g]))
               /\ \A i \in 1..Len(a) :
                     Received(d)' \cap Carried(a[i]) # {} => a[i].op = "send" /\ d \notin Range(a[i].to)
    BY <1>2, <1>10, <1>12
  <1> QED BY <1>2, <1>3, <1>5, <1>10, <1>11, <1>13, PassedNotes

(* A notification is buffered or sent. *)
LEMMA RaisedNotes ==
    ASSUME Types, NotesInv, NEW g \in Goroutines, NotifyNotification(g)
    PROVE  NotesInv'
  <1>1. NotesApart /\ NotesNotYet /\ NotesArriveOnce
    BY DEF NotesInv
  <1>2. PICK h, n : h = Head(todo[g]) /\ n = h.note
    OBVIOUS
  <1>3. todo[g] # <<>> /\ h.op = "note" /\ h = todo[g][1] /\ 1 \in 1..Len(todo[g])
    BY <1>2, HeadOp DEF NotifyNotification
  <1>4. Carried(h) = {n}
    BY <1>2, <1>3, CarriedBy
  <1>5. UNCHANGED <<inbox, view, notes>>
    BY DEF NotifyNotification, dataVars
  <1>6. (\A c \in Conns : Received(c)' = Received(c)) /\ NotesArriveOnce'
    BY <1>1, <1>5, ReceivedSame
  <1>7. \A c \in Conns : Received(c) \cap {n} = {}
    BY <1>1, <1>2, <1>3, <1>4 DEF NotesNotYet
  <1>8. OthersClear(g, {n}) /\ {n} \cap Range(notifications) = {} /\ {n} \subseteq 1..notes
    BY <1>1, <1>2, <1>3, <1>4, HeadClear
  <1>9. /\ n \in 1..MaxNotes
        /\ \/ notifications' = Append(notifications, n) /\ Do(g, <<>>)
           \/ /\ notifications' = notifications
              /\ \E o \in Ops : Do(g, <<o>>) /\ o.op = "send" /\ o.msg = NoteMsg(n) /\ IsInjective(o.to)
    BY <1>2, NoteEffect
  <1>10. CASE notifications' = Append(notifications, n) /\ Do(g, <<>>)
    <2>1. PICK b, B, C : b = notifications /\ B = Range(notifications) /\ C = Range(notifications')
      OBVIOUS
    <2>2. b \in Seq(1..MaxNotes) /\ IsInjective(b) /\ B = Range(b) /\ B \subseteq 1..notes
      BY <1>1, <2>1 DEF Types, NotesApart
    <2>3. (\A y : y \in Range(Append(b, n)) <=> y \in Range(b) \/ y = n) /\ IsInjective(Append(b, n))
      <3>1. n \notin Range(b)
        BY <1>8, <2>1
      <3>2. /\ \A y : y \in Range(Append(b, n)) <=> y \in Range(b) \/ y = n
            /\ IsInjective(b) /\ n \notin Range(b) => IsInjective(Append(b, n))
        BY <1>9, <2>2, MoreApart
      <3> QED BY <2>2, <3>1, <3>2, Zenon
    <2>4. (\A y : y \in C <=> y \in B \/ y = n) /\ IsInjective(notifications')
      BY <1>10, <2>1, <2>2, <2>3
    <2>5. C \subseteq 1..notes
      BY <1>8, <2>2, <2>4
    <2>6. OthersClear(g, B) /\ OthersClear(g, {})
      BY <1>1, <2>1, BufferClear
    <2>7. OthersClear(g, C)
      BY <1>8, <2>4, <2>6 DEF OthersClear
    <2>8. Puts(g, <<>>) /\ Carrying(<<>>, {}) /\ notes \in Nat /\ notes <= notes
      BY <1>3, <1>10, DoPuts, CarryingFew DEF Types
    <2>9. NotesApart'
      <3>1. {} \cap Range(notifications') = {} /\ {} \subseteq 1..notes' /\ Range(notifications') \subseteq 1..notes'
        BY <1>5, <2>1, <2>5
      <3> QED BY <1>1, <1>5, <2>1, <2>4, <2>6, <2>7, <2>8, <3>1, ApartKept
    <2>10. \A c \in Conns :
               /\ Received(c)' \subseteq Received(c) \cup {}
               /\ Received(c)' \subseteq 1..notes'
               /\ Received(c)' \cap Range(notifications') = {}
      <3>1. \A c \in Conns : Received(c) \subseteq 1..notes /\ Received(c) \cap B = {}
        BY <1>1, <2>1 DEF NotesNotYet
      <3> QED BY <1>5, <1>6, <1>7, <2>1, <2>4, <3>1
    <2>11. \A i \in 1..Len(<<>>) : FALSE
      OBVIOUS
    <2>12. NotesNotYet'
      BY <1>1, <2>6, <2>8, <2>10, <2>11, NotYetKept
    <2> QED BY <1>6, <2>9, <2>12 DEF NotesInv
  <1>11. CASE /\ notifications' = notifications
              /\ \E o \in Ops : Do(g, <<o>>) /\ o.op = "send" /\ o.msg = NoteMsg(n) /\ IsInjective(o.to)
    <2>1. PICK o \in Ops : Do(g, <<o>>) /\ o.op = "send" /\ o.msg = NoteMsg(n) /\ IsInjective(o.to)
      BY <1>11
    <2>2. o.msg.ev = "notification" /\ o.msg.note = n
      BY <1>9, <2>1, NoteMsgType
    <2>3. Carried(o) = {n}
      BY <2>1, <2>2, CarriedBy
    <2>4. Puts(g, <<o>>) /\ Carrying(<<o>>, Carried(h))
      BY <1>3, <1>4, <2>1, <2>3, DoPuts, CarryingFew
    <2>5. PICK a : a = <<o>>
      OBVIOUS
    <2>6. Len(a) = 1 /\ a[1] = o
      BY <2>5, Few
    <2>7. \A i \in 1..Len(a) : a[i] = o
      BY <2>6
    <2>8. \A c \in Conns :
               /\ Received(c)' \subseteq Received(c) \cup Carried(Head(todo[g]))
               /\ \A i \in 1..Len(a) :
                     Received(c)' \cap Carried(a[i]) # {} => a[i].op = "send" /\ c \notin Range(a[i].to)
      BY <1>6, <1>7, <2>3, <2>7
    <2> QED BY <1>2, <1>3, <1>5, <1>6, <1>11, <2>4, <2>5, <2>8, PassedNotes
  <1> QED BY <1>9, <1>10, <1>11

LEMMA WorkNotes ==
    ASSUME Types, NotesInv, NEW g \in Goroutines, Work(g)
    PROVE  NotesInv'
  <1>1. todo[g] # <<>>
    BY DEF Work, Notify, ConfigSnapshot, ConfigSnapshotFails, Send, NotifyNotification, Next1
  <1>2. PICK h : h = Head(todo[g])
    OBVIOUS
  <1>3. ASSUME NEW o, o.op = "send", o.msg = Event(h.ev), h.ev \in Events \cup {"reply"}
        PROVE  Carried(o) = {}
    <2>1. Event(h.ev).ev = h.ev /\ h.ev # "notification"
      BY <1>3, EventMsg DEF Types, Events
    <2> QED BY <1>3, <2>1, CarriedBy
  <1>4. CASE Notify(g)
    <2>1. Do(g, <<>>) \/ \E o \in Ops : Do(g, <<o>>) /\ o.op = "snapshot"
      BY <1>4, NotifyEffect
    <2>2. \A o \in Ops : o.op = "snapshot" => Carried(o) = {}
      BY CarriedBy
    <2>3. UNCHANGED <<inbox, notifications, notes, view>>
      BY <1>4 DEF Notify, serverVars, dataVars
    <2> QED BY <1>1, <2>1, <2>2, <2>3, ReplacedNotes
  <1>5. CASE ConfigSnapshot(g)
    <2>1. PICK o \in Ops : /\ Do(g, <<o>>) /\ o.op = "send" /\ o.msg = Event(h.ev)
                           /\ h.ev \in Events \cup {"reply"} /\ IsInjective(o.to)
      BY <1>2, <1>5, SnapshotEffect
    <2>2. Carried(o) = {}
      BY <1>3, <2>1
    <2>3. UNCHANGED <<inbox, notifications, notes, view>>
      BY <1>5 DEF ConfigSnapshot, serverVars, dataVars
    <2> QED BY <1>1, <2>1, <2>2, <2>3, ReplacedNotes
  <1>6. CASE ConfigSnapshotFails(g)
    <2>1. /\ notes' = notes + 1 /\ h.ev \in Events \cup {"reply"}
          /\ \E n, o \in Ops : /\ Do(g, <<n, o>>) /\ n.op = "note" /\ n.note = notes'
                               /\ o.op = "send" /\ o.msg = Event(h.ev) /\ IsInjective(o.to)
      BY <1>2, <1>6, SnapshotFailsEffect
    <2>2. PICK n \in Ops, o \in Ops : /\ Do(g, <<n, o>>) /\ n.op = "note" /\ n.note = notes + 1
                                      /\ o.op = "send" /\ o.msg = Event(h.ev) /\ IsInjective(o.to)
      BY <2>1
    <2>3. Carried(o) = {} /\ Carried(n) = {notes + 1}
      BY <1>3, <2>1, <2>2, CarriedBy
    <2>4. PICK a : a = <<n, o>>
      OBVIOUS
    <2>5. Puts(g, a) /\ Len(a) = 2 /\ a[1] = n /\ a[2] = o
      BY <1>1, <2>2, <2>4, DoPuts, Few
    <2>6. \A i \in 1..Len(a) : i = 1 \/ i = 2
      BY <2>5
    <2>7. \A i \in 1..Len(a) :
               /\ a[i].op # "flush" /\ (a[i].op = "send" => IsInjective(a[i].to))
               /\ Carried(a[i]) = {} \/ (i = 1 /\ Carried(a[i]) = {notes + 1} /\ notes' = notes + 1)
      BY <2>1, <2>2, <2>3, <2>5, <2>6
    <2>8. UNCHANGED <<inbox, notifications, view>>
      BY <1>6 DEF ConfigSnapshotFails, serverVars
    <2> QED BY <2>1, <2>5, <2>7, <2>8, PlainNotes
  <1> QED BY <1>4, <1>5, <1>6, SendNotes, RaisedNotes DEF Work

(* The buffer is taken. *)
LEMMA DrainNotes ==
    ASSUME Types, NotesInv, NEW c \in Conns, Drain(c)
    PROVE  NotesInv'
  <1>1. NotesApart /\ NotesNotYet /\ NotesArriveOnce
    BY DEF NotesInv
  <1>2. c \in Goroutines /\ todo[c] # <<>>
    BY ConnsRun DEF Drain, Next1
  <1>3. PICK b, B : b = notifications /\ B = Range(b)
    OBVIOUS
  <1>4. UNCHANGED <<inbox, view, notes>> /\ notifications' = <<>>
    BY DEF Drain, dataVars
  <1>5. (\A d \in Conns : Received(d)' = Received(d)) /\ NotesArriveOnce'
    BY <1>1, <1>4, ReceivedSame
  <1>6. /\ IsInjective(b) /\ B \subseteq 1..notes /\ OthersClear(c, B) /\ OthersClear(c, {})
        /\ \A d \in Conns : Received(d) \subseteq 1..notes /\ Received(d) \cap B = {}
    BY <1>1, <1>3, BufferClear DEF NotesApart, NotesNotYet
  <1>7. PICK a : Puts(c, a) /\ Carrying(a, B)
    <2>1. \/ Do(c, <<>>)
          \/ \E o \in Ops : Do(c, <<o>>) /\ o.op = "flush" /\ o.list = b
      BY <1>3, DrainEffect
    <2>2. CASE Do(c, <<>>)
      BY <1>2, <2>2, DoPuts, CarryingFew
    <2>3. CASE \E o \in Ops : Do(c, <<o>>) /\ o.op = "flush" /\ o.list = b
      <3>1. PICK o \in Ops : Do(c, <<o>>) /\ o.op = "flush" /\ o.list = b
        BY <2>3
      <3>2. Carried(o) = B
        BY <1>3, <3>1, CarriedBy
      <3>3. Puts(c, <<o>>) /\ Carrying(<<o>>, B)
        BY <1>2, <1>6, <3>1, <3>2, DoPuts, CarryingFew
      <3> QED BY <3>3
    <2> QED BY <2>1, <2>2, <2>3
  <1>8. Range(notifications') = {} /\ IsInjective(notifications')
    BY <1>4, EmptyApart
  <1>9. NotesApart'
    <2>1. /\ OthersClear(c, Range(notifications')) /\ B \cap Range(notifications') = {}
          /\ B \subseteq 1..notes' /\ Range(notifications') \subseteq 1..notes'
          /\ notes' \in Nat /\ notes <= notes'
      <3>1. PICK R : R = Range(notifications')
        OBVIOUS
      <3>2. R = {}
        BY <1>8, <3>1
      <3>3. OthersClear(c, R)
        BY <1>6, <3>2
      <3>4. B \cap R = {} /\ B \subseteq 1..notes' /\ R \subseteq 1..notes' /\ notes' \in Nat /\ notes <= notes'
        BY <1>4, <1>6, <3>2 DEF Types
      <3> QED BY <3>1, <3>3, <3>4
    <2> QED BY <1>1, <1>2, <1>6, <1>7, <1>8, <2>1, ApartKept
  <1>10. NotesNotYet'
    <2>1. \A d \in Conns : \A i \in 1..Len(a) : Received(d)' \cap Carried(a[i]) = {}
      BY <1>5, <1>6, <1>7 DEF Carrying
    <2>2. \A d \in Conns :
               /\ Received(d)' \subseteq Received(d) \cup {}
               /\ Received(d)' \subseteq 1..notes'
               /\ Received(d)' \cap Range(notifications') = {}
               /\ \A i \in 1..Len(a) :
                     Received(d)' \cap Carried(a[i]) # {} => a[i].op = "send" /\ d \notin Range(a[i].to)
      BY <1>4, <1>5, <1>6, <1>8, <2>1
    <2> QED BY <1>1, <1>2, <1>6, <1>7, <2>2, NotYetKept
  <1> QED BY <1>5, <1>9, <1>10 DEF NotesInv

LEMMA FlushNotes ==
    ASSUME Types, NotesInv, NEW c \in Conns, Flush(c)
    PROVE  NotesInv'
  <1>1. NotesApart /\ NotesNotYet /\ NotesArriveOnce
    BY DEF NotesInv
  <1>2. PICK h, list, n : h = Head(todo[c]) /\ list = h.list /\ n = Head(list)
    OBVIOUS
  <1>3. /\ c \in Goroutines /\ todo[c] # <<>> /\ h.op = "flush" /\ h = todo[c][1] /\ 1 \in 1..Len(todo[c])
    BY <1>2, ConnsRun, HeadOp DEF Flush
  <1>4. /\ list \in Seq(1..MaxNotes) /\ list # <<>> /\ n \in 1..MaxNotes /\ NoteMsg(n) \in Msgs
        /\ \/ /\ Write(c, NoteMsg(n))
              /\ \/ Do(c, <<>>)
                 \/ \E o \in Ops : Do(c, <<o>>) /\ o.op = "flush" /\ o.list = Tail(list)
           \/ WriteFails(c) /\ Do(c, <<>>)
    BY <1>2, FlushEffect
  <1>5. UNCHANGED <<notifications, notes>>
    BY DEF Flush, serverVars, dataVars
  <1>6. Carried(h) = Range(list) /\ IsInjective(list)
    BY <1>1, <1>2, <1>3, CarriedBy, HeadClear
  <1>7. n \in Range(list) /\ Range(Tail(list)) \subseteq Range(list) /\ IsInjective(Tail(list)) /\ n \notin Range(Tail(list))
    BY <1>2, <1>4, <1>6, RestApart
  <1>8. \A d \in Conns : Received(d) \cap Range(list) = {}
    BY <1>1, <1>2, <1>3, <1>6 DEF NotesNotYet
  <1>9. CASE WriteFails(c) /\ Do(c, <<>>)
    <2>1. (\A d \in Conns : Received(d)' = Received(d)) /\ NotesArriveOnce'
      BY <1>1, <1>9, ReceivedSame DEF WriteFails
    <2> QED BY <1>3, <1>5, <1>9, <2>1, DoPuts, DroppedNotes
  <1>10. CASE /\ Write(c, NoteMsg(n))
              /\ \/ Do(c, <<>>)
                 \/ \E o \in Ops : Do(c, <<o>>) /\ o.op = "flush" /\ o.list = Tail(list)
    <2>1. PICK m : m = NoteMsg(n)
      OBVIOUS
    <2>2. m \in Msgs /\ m.ev = "notification" /\ m.note = n /\ Write(c, m)
      BY <1>4, <1>10, <2>1, NoteMsgType
    <2>3. n \notin Received(c)
      BY <1>7, <1>8
    <2>4. /\ \A d \in Conns : d # c => Received(d)' = Received(d)
          /\ Received(c)' = Received(c) \cup {n} /\ NotesArriveOnce'
      BY <1>1, <2>2, <2>3, WriteReceived
    <2>5. PICK a : Puts(c, a) /\ Carrying(a, Range(Tail(list)))
      <3>1. CASE Do(c, <<>>)
        BY <1>3, <3>1, DoPuts, CarryingFew
      <3>2. CASE \E o \in Ops : Do(c, <<o>>) /\ o.op = "flush" /\ o.list = Tail(list)
        <4>1. PICK o \in Ops : Do(c, <<o>>) /\ o.op = "flush" /\ o.list = Tail(list)
          BY <3>2
        <4>2. Carried(o) = Range(Tail(list))
          BY <4>1, CarriedBy
        <4>3. Puts(c, <<o>>) /\ Carrying(<<o>>, Range(Tail(list)))
          BY <1>3, <1>7, <4>1, <4>2, DoPuts, CarryingFew
        <4> QED BY <4>3
      <3> QED BY <1>10, <3>1, <3>2
    <2>6. Carrying(a, Carried(h))
      BY <1>6, <1>7, <2>5 DEF Carrying
    <2>7. \A d \in Conns : Received(d)' \cap Range(Tail(list)) = {}
      BY <1>7, <1>8, <2>4
    <2>8. \A d \in Conns : \A i \in 1..Len(a) : Received(d)' \cap Carried(a[i]) = {}
      BY <2>5, <2>7 DEF Carrying
    <2>9. \A d \in Conns :
               /\ Received(d)' \subseteq Received(d) \cup Carried(Head(todo[c]))
               /\ \A i \in 1..Len(a) :
                     Received(d)' \cap Carried(a[i]) # {} => a[i].op = "send" /\ d \notin Range(a[i].to)
      BY <1>2, <1>6, <1>7, <2>4, <2>8
    <2> QED BY <1>2, <1>3, <1>5, <2>4, <2>5, <2>6, <2>9, PassedNotes
  <1> QED BY <1>4, <1>9, <1>10

LEMMA ReplyNotes ==
    ASSUME Types, NotesInv, NEW c \in Conns, Reply(c)
    PROVE  NotesInv'
  <1>1. c \in Goroutines /\ todo[c] # <<>> /\ UNCHANGED <<notifications, notes>>
    BY ConnsRun DEF Reply, Next1, serverVars, dataVars
  <1>2. PICK m : m = [ev |-> "reply"]
    OBVIOUS
  <1>3. m \in Msgs /\ m.ev # "notification"
    BY <1>2 DEF Msgs, Replies
  <1>4. \/ Write(c, m) /\ Do(c, <<>>)
        \/ WriteFails(c) /\ todo' = [todo EXCEPT ![c] = cleanup]
    BY <1>2 DEF Reply
  <1>5. (\A d \in Conns : Received(d)' = Received(d)) /\ NotesArriveOnce'
    <2>1. CASE WriteFails(c)
      BY <2>1, ReceivedSame DEF WriteFails, NotesInv
    <2>2. CASE Write(c, m)
      BY <1>3, <2>2, WriteReceived DEF NotesInv
    <2> QED BY <1>4, <2>1, <2>2
  <1> QED BY <1>1, <1>4, <1>5, DoPuts, DroppedNotes

LEMMA HandlerNotes ==
    ASSUME Types, NotesInv, NEW c \in Conns, Handler(c)
    PROVE  NotesInv'
  <1>1. c \in Goroutines
    BY ConnsRun
  <1>2. CASE ReadEOF(c)
    <2>1. PICK a : a = cleanup
      OBVIOUS
    <2>2. Puts(c, a) /\ Carrying(a, {})
      BY <1>2, <2>1, CleanupOps, CarryingFew DEF ReadEOF, Begin, Puts
    <2>3. \A i \in 1..Len(a) : a[i].op \in {"removeClient", "notify", "removeRulesets", "close"}
      BY <2>1, CleanupOps
    <2>4. \A i \in 1..Len(a) :
               /\ a[i].op # "flush" /\ (a[i].op = "send" => IsInjective(a[i].to))
               /\ Carried(a[i]) = {} \/ (i = 1 /\ Carried(a[i]) = {notes + 1} /\ notes' = notes + 1)
      BY <2>2, <2>3 DEF Carrying
    <2>5. UNCHANGED <<inbox, notifications, notes, view>>
      BY <1>2 DEF ReadEOF, serverVars, dataVars
    <2> QED BY <1>1, <2>2, <2>4, <2>5, PlainNotes
  <1>3. CASE RemoveClient(c) \/ Close(c)
    BY <1>1, <1>3, ReplacedNotes DEF RemoveClient, Close, Next1, serverVars, dataVars
  <1>4. CASE RemoveRulesets(c)
    <2>1. Do(c, <<>>) \/ \E o \in Ops : Do(c, <<o>>) /\ o.op = "notify"
      BY <1>4, RemoveRulesetsEffect
    <2>2. \A o \in Ops : o.op = "notify" => Carried(o) = {}
      BY CarriedBy
    <2>3. todo[c] # <<>> /\ UNCHANGED <<inbox, notifications, notes, view>>
      BY <1>4 DEF RemoveRulesets, Next1, serverVars
    <2> QED BY <1>1, <2>1, <2>2, <2>3, ReplacedNotes
  <1> QED BY <1>2, <1>3, <1>4, DrainNotes, FlushNotes, ReplyNotes DEF Handler

LEMMA ClientNotes ==
    ASSUME Types, NotesInv, NEW c \in Conns, Client(c) \/ ClientReads(c)
    PROVE  NotesInv'
  <1>1. c \in Goroutines
    BY ConnsRun
  <1>2. ASSUME UNCHANGED <<todo, notifications, notes>>, \A d \in Conns : Received(d)' \subseteq Received(d),
               NotesArriveOnce'
        PROVE  NotesInv'
    <2>1. NotesApart'
      BY <1>2 DEF NotesInv, NotesApart
    <2>2. \A d \in Conns :
        /\ Received(d)' \subseteq 1..notes
        /\ Received(d)' \cap Range(notifications) = {}
        /\ \A g \in Goroutines : \A i \in 1..Len(todo[g]) :
              Received(d)' \cap Carried(todo[g][i]) # {} =>
                  todo[g][i].op = "send" /\ d \notin Range(todo[g][i].to)
      <3>1. SUFFICES ASSUME NEW d \in Conns
                     PROVE  /\ Received(d)' \subseteq 1..notes
                            /\ Received(d)' \cap Range(notifications) = {}
                            /\ \A g \in Goroutines : \A i \in 1..Len(todo[g]) :
                                  Received(d)' \cap Carried(todo[g][i]) # {} =>
                                      todo[g][i].op = "send" /\ d \notin Range(todo[g][i].to)
        OBVIOUS
      <3>2. Received(d)' \subseteq Received(d)
        BY <1>2
      <3>3. Received(d) \subseteq 1..notes /\ Received(d) \cap Range(notifications) = {}
        BY DEF NotesInv, NotesNotYet
      <3>4. ASSUME NEW g \in Goroutines, NEW i \in 1..Len(todo[g]), Received(d)' \cap Carried(todo[g][i]) # {}
            PROVE  todo[g][i].op = "send" /\ d \notin Range(todo[g][i].to)
        <4>1. Received(d) \cap Carried(todo[g][i]) # {}
          BY <3>2, <3>4
        <4> QED BY <4>1 DEF NotesInv, NotesNotYet
      <3> QED BY <3>2, <3>3, <3>4
    <2>3. NotesNotYet'
      BY <1>2, <2>2 DEF NotesNotYet
    <2> QED BY <1>2, <2>1, <2>3 DEF NotesInv
  <1>3. CASE Accept(c)
    BY <1>1, <1>3, AcceptEffect, OpensNotes DEF Accept
  <1>4. CASE HangUp(c)
    <2>1. /\ inbox'[c] = <<>> /\ view'[c].notes = {}
          /\ \A d \in Conns : d # c => inbox'[d] = inbox[d] /\ view'[d] = view[d]
      BY <1>4 DEF HangUp, NewView, Types
    <2>2. \A i \in 1..Len(<<>>) : FALSE
      OBVIOUS
    <2>3. \A i \in DOMAIN <<>> : FALSE
      OBVIOUS
    <2>4. Received(c)' = {}
      BY <2>1, <2>2 DEF Received, Waiting
    <2>5. \A d \in Conns : d # c => Received(d)' = Received(d)
      BY <2>1 DEF Received, Waiting
    <2>6. \A d \in Conns : Received(d)' \subseteq Received(d)
      BY <2>4, <2>5
    <2>7. NotesArriveOnce'
      BY <2>1, <2>3 DEF NotesInv, NotesArriveOnce
    <2> QED BY <1>2, <1>4, <2>6, <2>7 DEF HangUp, serverVars, dataVars
  <1>5. CASE ConfigRequest(c)
    BY <1>1, <1>5, ConfigRequestEffect, OpensNotes DEF ConfigRequest
  <1>6. ASSUME NEW S \in SubChoices, SubscribeRequest(c, S) PROVE NotesInv'
    <2>1. \A d \in Conns : view'[d].notes = view[d].notes
      <3>1. view' = [view EXCEPT ![c].newest = version]
        BY <1>6 DEF SubscribeRequest
      <3> QED BY <3>1 DEF Types
    <2> QED BY <1>1, <1>6, <2>1, SubscribeEffect, OpensNotes
  <1>7. CASE MutationRequest(c)
    BY <1>1, <1>7, MutationEffect, OpensNotes DEF MutationRequest
  <1>8. CASE DebugNotifyRequest(c)
    BY <1>1, <1>8, DebugEffect, OpensNotes DEF DebugNotifyRequest
  <1>9. CASE ClientReads(c)
    <2>1. (\A d \in Conns : Received(d)' = Received(d)) /\ NotesArriveOnce'
      BY <1>9, ReadReceived DEF NotesInv
    <2> QED BY <1>2, <1>9, <2>1 DEF ClientReads, serverVars, dataVars
  <1> QED BY <1>3, <1>4, <1>5, <1>6, <1>7, <1>8, <1>9 DEF Client

LEMMA NotesKept == ASSUME Types, NotesInv, [Next]_vars PROVE NotesInv'
  <1>1. CASE WatcherReconcile
    BY <1>1, WatcherEffect, OpensNotes DEF WatcherReconcile
  <1>2. CASE ProxyCallback
    BY <1>2, ProxyEffect, OpensNotes DEF ProxyCallback
  <1>3. CASE UNCHANGED vars
    <2>1. UNCHANGED <<todo, inbox, view, notifications, notes>>
      BY <1>3 DEF vars, serverVars, dataVars
    <2>2. (\A c \in Conns : Received(c)' = Received(c)) /\ NotesArriveOnce'
      BY <2>1, ReceivedSame DEF NotesInv
    <2>3. NotesApart'
      BY <2>1 DEF NotesInv, NotesApart
    <2>4. NotesNotYet'
      BY <2>1, <2>2 DEF NotesInv, NotesNotYet
    <2> QED BY <2>2, <2>3, <2>4 DEF NotesInv
  <1> QED BY <1>1, <1>2, <1>3, WorkNotes, HandlerNotes, ClientNotes DEF Next

-----------------------------------------------------------------------------
(* The theorems. *)

LEMMA InitHolds == ASSUME Init PROVE ServerInv
  <1>1. \A i \in 1..Len(<<>>) : FALSE
    OBVIOUS
  <1>2. \A g \in Goroutines : todo[g] = <<>>
    BY DEF Init
  <1>3. \A c \in Conns : c \in Goroutines /\ inbox[c] = <<>> /\ view[c] = NewView /\ subs[c] = {} /\ up[c] = "none"
    BY ConnsRun DEF Init
  <1>4. Types
    <2>1. <<>> \in Seq(Ops) /\ <<>> \in Seq(Msgs) /\ <<>> \in Seq(1..MaxNotes) /\ Len(<<>>) <= Cap
      BY ServerBoundsAssumption
    <2>2. NewView \in [newest : 0..MaxVersion, notes : SUBSET (1..MaxNotes)]
      BY ServerBoundsAssumption DEF NewView
    <2> QED BY <1>3, <2>1, <2>2, ServerBoundsAssumption DEF Init, Types
  <1>5. Ordered
    BY <1>1, <1>2, <1>3 DEF Ordered, InOrder
  <1>6. BufferIsDrained
    BY DEF Init, BufferIsDrained
  <1>7. ChangesAreBrought
    <2>1. version = 0 /\ dropped = 0 /\ \A c \in Conns : view[c].newest = 0
      BY <1>3 DEF Init, NewView
    <2> QED BY <1>1, <1>2, <2>1 DEF ChangesAreBrought
  <1>8. NotesApart
    <2>1. Range(notifications) = {} /\ IsInjective(notifications)
      BY EmptyApart DEF Init
    <2> QED BY <1>1, <1>2, <2>1 DEF NotesApart
  <1>9. NotesNotYet
    <2>1. \A c \in Conns : Received(c) = {}
      BY <1>1, <1>3 DEF Received, Waiting, NewView
    <2> QED BY <1>1, <1>2, <2>1 DEF NotesNotYet
  <1>10. NotesArriveOnce
    <2>1. \A i \in DOMAIN <<>> : FALSE
      OBVIOUS
    <2> QED BY <1>3, <2>1 DEF NotesArriveOnce
  <1> QED BY <1>4, <1>5, <1>6, <1>7, <1>8, <1>9, <1>10 DEF ServerInv

LEMMA ServerInvKept == ASSUME ServerInv, [Next]_vars PROVE ServerInv'
  <1>1. Types' /\ Ordered' /\ BufferIsDrained' /\ ChangesAreBrought'
    BY TypesKept, OrderedKept, BufferKept, ChangesKept DEF ServerInv
  <1>2. NotesInv'
    BY NotesKept DEF ServerInv, NotesInv
  <1> QED BY <1>1, <1>2 DEF ServerInv, NotesInv

(* The inductive invariant of the server holds always: the operations that *)
(* the goroutines of admin.go still have to do are in an order in which    *)
(* nothing is lost, and every notification is in one place only.           *)
THEOREM ServerInvariant == Spec => []ServerInv
  <1>1. Init => ServerInv
    BY InitHolds
  <1>2. ServerInv /\ [Next]_vars => ServerInv'
    BY ServerInvKept
  <1> QED BY <1>1, <1>2, PTL DEF Spec

(* The variables of the server keep their types, and no socket holds more  *)
(* than fits into it (adminAPIClient.send blocks).                         *)
THEOREM ServerTypeCorrect == Spec => []TypeOK
  <1>1. Ops \subseteq Operation
    BY DEF Ops, Notifies, Snapshots, Sends, Raises, Flushes, Others, Operation, Msgs, EventMsgs,
           Replies, NoteMsgs, Message, Events, EventTypes
  <1>2. Msgs \subseteq Message
    BY DEF Msgs, EventMsgs, Replies, NoteMsgs, Message, Events, EventTypes
  <1>3. Seq(Ops) \subseteq Seq(Operation) /\ Seq(Msgs) \subseteq Seq(Message)
    BY <1>1, <1>2
  <1>4. ServerInv => TypeOK
    BY <1>3 DEF ServerInv, Types, TypeOK
  <1> QED BY <1>4, ServerInvariant, PTL

(* A notification waits in the buffer only while there is nobody to send   *)
(* it to, once all goroutines are idle: subscribing and draining are       *)
(* separate steps of admin.go.                                             *)
THEOREM BufferWaitsForSubscribers == Spec => []BufferedForLackOfSubscribers
  <1>1. ASSUME ServerInv PROVE BufferedForLackOfSubscribers
    <2>1. SUFFICES ASSUME Quiet, notifications # <<>> PROVE Subscribers("notification") = {}
      BY DEF BufferedForLackOfSubscribers
    <2>2. \A c \in Conns : todo[c] = <<>>
      BY <2>1, ConnsRun DEF Quiet, Idle
    <2>3. ~Draining
      BY <2>2 DEF Draining
    <2> QED BY <1>1, <2>1, <2>3 DEF ServerInv, BufferIsDrained
  <1>2. ServerInv => BufferedForLackOfSubscribers
    BY <1>1
  <1> QED BY <1>2, ServerInvariant, PTL

(* Once nobody is busy, every subscriber has been sent the rules that are  *)
(* in force, unless the handler of the client that changed them returned   *)
(* before notify (admin.go, handleConnection).                             *)
THEOREM SubscribersAreSentChanges == Spec => []EveryChangeIsSent
  <1>1. ASSUME ServerInv PROVE EveryChangeIsSent
    <2>1. SUFFICES ASSUME Quiet, NEW c \in Conns, Subscribed(c)
                   PROVE  view[c].newest = version \/ version = dropped
      BY DEF EveryChangeIsSent
    <2>2. \A g \in Goroutines : todo[g] = <<>>
      BY <2>1 DEF Quiet, Idle
    <2>3. ~OnItsWay(c)
      BY <2>2 DEF OnItsWay
    <2> QED BY <1>1, <2>1, <2>3 DEF ServerInv, ChangesAreBrought
  <1>2. ServerInv => EveryChangeIsSent
    BY <1>1
  <1> QED BY <1>2, ServerInvariant, PTL

(* No client gets a notification twice, whoever raises, sends, buffers and *)
(* drains it (notifyNotification and drainNotifications of admin.go).      *)
THEOREM NoNoteTwice == Spec => []NotesArriveOnce
  <1>1. ServerInv => NotesArriveOnce
    BY DEF ServerInv
  <1> QED BY <1>1, ServerInvariant, PTL
=============================================================================
