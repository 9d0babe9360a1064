------------------------- MODULE PacketFilterProofs -------------------------
(***************************************************************************)
(* What the egress program decides while the maps are rewritten under it,  *)
(* for any interfaces, policies, map size, processors and packets.         *)
(***************************************************************************)
EXTENDS PacketFilter, BpfMapsProofs

(* A packet in flight. *)
Flight ==
    [st : {"allowAll", "gate", "lookup", "done"}, n : Nat, iface : Ifaces, pkt : Packets,
     found : BOOLEAN, flags : SUBSET SUBSET Flags, freed : BOOLEAN,
     verdict : {"none", "ok", "shot"}, start : SUBSET AllowRules, seen : SUBSET AllowRules,
     calm : BOOLEAN]

CpuType == cpu \in [Cpus -> {Idle} \cup Flight]

KeysSeen(c) == UNION {r.keys : r \in cpu[c].seen}

Gates == {"enable_v4", "enable_v6"}

(* What a packet has met so far, whatever was written in the meantime:     *)
(*  - flags can only be read through a pointer that the lookup returned;   *)
(*  - what is written to its interface counts as seen;                     *)
(*  - the keys of its interface come from what it has seen;                *)
(*  - it passes the parser and its gate on its way to the allowlists.      *)
MetInv(c) ==
    /\ cpu[c].flags # {} => cpu[c].found
    /\ cpu[c].freed => cpu[c].found
    /\ \A j \in JobsOn(cpu[c].iface) : j.op = "write" => j.rules \in cpu[c].seen
    /\ cpu[c].found => KeysOf(cpu[c].iface) \subseteq KeysSeen(c)
    /\ cpu[c].st # "lookup" => cpu[c].n = 1
    /\ cpu[c].st \in {"gate", "lookup"} => parse(cpu[c].pkt) \in Gates
    /\ cpu[c].st = "lookup" =>
          /\ \E f \in cpu[c].flags : parse(cpu[c].pkt) \in f
          /\ cpu[c].n \in DOMAIN lookups(cpu[c].pkt)

(* While nobody writes to its interface:                                   *)
(*  - the policy in force is the one it started with, and the pointer      *)
(*    shows that policy's flags;                                           *)
(*  - behind the first read, that policy does not allow everything;        *)
(*  - the keys it has looked up are not in that policy.                    *)
CalmInv(c) ==
    LET i == cpu[c].iface IN
    /\ JobsOn(i) = {}
    /\ ~cpu[c].freed
    /\ cpu[c].found <=> i \in DOMAIN runtimeConfig
    /\ cpu[c].start = IF cpu[c].found THEN {PolicyOf(i)} ELSE {}
    /\ cpu[c].flags = IF cpu[c].found THEN {runtimeConfig[i]} ELSE {}
    /\ cpu[c].st # "allowAll" => \A f \in cpu[c].flags : "allow_all" \notin f
    /\ cpu[c].st = "lookup" =>
          \A m \in DOMAIN lookups(cpu[c].pkt) :
              m < cpu[c].n => lookups(cpu[c].pkt)[m] \notin KeysOf(i)

(* The two properties, for one processor. *)
ExactVerdict(c) ==
    cpu[c].st = "done" /\ cpu[c].calm =>
        (cpu[c].verdict = "ok") =
            (Bootstrap(cpu[c].pkt) \/ \E r \in cpu[c].start : Allows(r, cpu[c].pkt))

BoundedVerdict(c) ==
    Passed(c) /\ ~Bootstrap(cpu[c].pkt) =>
        \E f \in cpu[c].flags : Allows([flags |-> f, keys |-> KeysSeen(c)], cpu[c].pkt)

CpuInv(c) ==
    /\ Active(c) => MetInv(c)
    /\ Active(c) /\ cpu[c].calm => CalmInv(c)
    /\ ExactVerdict(c)
    /\ BoundedVerdict(c)

PFInv == IInv /\ CpuType /\ \A c \in Cpus : CpuInv(c)

-----------------------------------------------------------------------------
(* The parser and its lookups. *)

(* A packet is let through, dropped, or goes to one of the two gates. *)
LEMMA ParseRange == \A p : parse(p) \in {"ok", "shot"} \cup Gates
  BY DEF parse, Gates

(* There is at least one lookup. *)
LEMMA LookupsShape ==
    ASSUME NEW p
    PROVE  /\ Len(lookups(p)) \in Nat
           /\ Len(lookups(p)) >= 1
           /\ DOMAIN lookups(p) = 1..Len(lookups(p))
  <1>1. CASE HasPorts(p)
    BY <1>1 DEF lookups
  <1>2. CASE ~HasPorts(p)
    BY <1>2 DEF lookups
  <1> QED BY <1>1, <1>2

-----------------------------------------------------------------------------
(* What a step of the writer may do to an interface. *)

(* What is in the maps under an ifindex are keys. *)
LEMMA EntryIsKey ==
    ASSUME TypeOK, NEW i, NEW key
    PROVE  <<i, key>> \in entries <=> key \in KeysOf(i)
  BY DEF TypeOK, KeysOf

(* A policy in force is a set of rules. *)
LEMMA PolicyOfType ==
    ASSUME TypeOK, NEW i \in DOMAIN runtimeConfig
    PROVE  PolicyOf(i) \in AllowRules /\ runtimeConfig[i] \in SUBSET Flags
  BY DEF TypeOK, PolicyOf, AllowRules, KeysOf

(* An interface that the writer's call is not about keeps its policy. *)
LEMMA WriterIsLocal ==
    ASSUME IInv, WriterStep, NEW i, JobsOn(i) = {}
    PROVE  /\ JobsOn(i)' = {}
           /\ KeysOf(i)' = KeysOf(i)
           /\ (i \in DOMAIN runtimeConfig)' = (i \in DOMAIN runtimeConfig)
           /\ i \in DOMAIN runtimeConfig => runtimeConfig'[i] = runtimeConfig[i]
  <1> USE DEF IInv, TypeOK, JobsOn
  <1>1. CASE DelConfig
    BY <1>1 DEF DelConfig, KeysOf
  <1>2. CASE ClearEntry
    BY <1>2 DEF ClearEntry, KeysOf, writerVars
  <1>3. CASE ClearNext
    BY <1>3 DEF ClearNext, KeysOf, mapVars, Return
  <1>4. CASE PutEntry
    BY <1>4 DEF PutEntry, KeysOf, writerVars
  <1>5. CASE PutNext
    BY <1>5 DEF PutNext, KeysOf, mapVars
  <1>6. CASE PutConfig
    BY <1>6 DEF PutConfig, KeysOf, Return
  <1>7. CASE MapFull
    BY <1>7 DEF MapFull, KeysOf, mapVars, Return
  <1>8. CASE SyscallFails
    BY <1>8 DEF SyscallFails, KeysOf, mapVars, Return
  <1> QED BY <1>1, <1>2, <1>3, <1>4, <1>5, <1>6, <1>7, <1>8 DEF WriterStep

(* A key that a step adds belongs to the policy that is being written, and *)
(* the call stays what it is until it returns.                             *)
LEMMA WriterAddsItsKeys ==
    ASSUME IInv, WriterStep, NEW i
    PROVE  /\ job' \subseteq job
           /\ \A key \in KeysOf(i)' :
                 \/ key \in KeysOf(i)
                 \/ \E j \in JobsOn(i) : j.op = "write" /\ key \in j.rules.keys
  <1> USE DEF IInv, TypeOK, JobsOn
  <1>1. CASE DelConfig
    BY <1>1 DEF DelConfig, KeysOf
  <1>2. CASE ClearEntry
    BY <1>2 DEF ClearEntry, KeysOf, writerVars
  <1>3. CASE ClearNext
    BY <1>3 DEF ClearNext, KeysOf, mapVars, Return
  <1>4. CASE PutEntry
    BY <1>4 DEF PutEntry, KeysOf, writerVars, WriterInv
  <1>5. CASE PutNext
    BY <1>5 DEF PutNext, KeysOf, mapVars
  <1>6. CASE PutConfig
    BY <1>6 DEF PutConfig, KeysOf, Return
  <1>7. CASE MapFull
    BY <1>7 DEF MapFull, KeysOf, mapVars, Return
  <1>8. CASE SyscallFails
    BY <1>8 DEF SyscallFails, KeysOf, mapVars, Return
  <1> QED BY <1>1, <1>2, <1>3, <1>4, <1>5, <1>6, <1>7, <1>8 DEF WriterStep

(* Filtering packets changes no map, and what is done to packets in flight *)
(* changes nothing of the writer's steps.                                  *)
LEMMA FilterKeepsWriter == [PFNext]_allVars => [Next]_vars
  <1> SUFFICES ASSUME [PFNext]_allVars PROVE [Next]_vars
    OBVIOUS
  <1>1. ASSUME NEW j \in Jobs, BeginWrite(j) PROVE Next
    BY <1>1 DEF BeginWrite, Next
  <1>2. CASE FreeConfig \/ ReuseConfig \/ OtherWriterStep
    BY <1>2 DEF FreeConfig, ReuseConfig, OtherWriterStep, Next, WriterStep
  <1>3. ASSUME NEW c \in Cpus,
               \/ \E i \in Ifaces, p \in Packets : Send(c, i, p)
               \/ ReadAllowAll(c) \/ ReadGate(c) \/ Lookup(c) \/ Retire(c)
        PROVE  UNCHANGED vars
    BY <1>3 DEF Send, ReadAllowAll, ReadGate, Lookup, Retire
  <1>4. CASE UNCHANGED allVars
    BY <1>4 DEF allVars
  <1> QED BY <1>1, <1>2, <1>3, <1>4 DEF PFNext

-----------------------------------------------------------------------------
(* A step of the program on one processor. *)

(* Such a step changes no map and no other processor. *)
LEMMA OthersKept ==
    ASSUME NEW c \in Cpus, CpuInv(c), UNCHANGED vars, cpu'[c] = cpu[c]
    PROVE  CpuInv(c)'
  BY DEF CpuInv, Active, MetInv, CalmInv, ExactVerdict, BoundedVerdict, Passed, KeysSeen, JobsOn,
         KeysOf, PolicyOf, vars

(* The verdict ends a packet's flight. *)
LEMMA VerdictStep ==
    ASSUME NEW c \in Cpus, CpuType, cpu[c] \in Flight, NEW v \in {"ok", "shot"},
           Verdict(c, v), UNCHANGED vars,
           cpu[c].calm =>
               (v = "ok") = (Bootstrap(cpu[c].pkt) \/ \E r \in cpu[c].start : Allows(r, cpu[c].pkt)),
           v = "ok" /\ ~Bootstrap(cpu[c].pkt) =>
               \E f \in cpu[c].flags : Allows([flags |-> f, keys |-> KeysSeen(c)], cpu[c].pkt)
    PROVE  CpuInv(c)'
  <1>1. cpu'[c] = [cpu[c] EXCEPT !.st = "done", !.verdict = v]
    BY DEF Verdict, CpuType
  <1>2. /\ cpu'[c].st = "done" /\ cpu'[c].verdict = v
        /\ cpu'[c].calm = cpu[c].calm /\ cpu'[c].pkt = cpu[c].pkt
        /\ cpu'[c].start = cpu[c].start /\ cpu'[c].seen = cpu[c].seen
        /\ cpu'[c].flags = cpu[c].flags
    BY <1>1 DEF Flight
  <1>3. ~Active(c)'
    BY <1>2 DEF Active
  <1>4. ExactVerdict(c)'
    BY <1>2 DEF ExactVerdict
  <1>5. KeysSeen(c)' = KeysSeen(c)
    BY <1>2 DEF KeysSeen
  <1>6. BoundedVerdict(c)'
    BY <1>2, <1>5 DEF BoundedVerdict, Passed
  <1> QED BY <1>3, <1>4, <1>6 DEF CpuInv

(* A packet begins its flight with the policy in force, if there is one. *)
LEMMA SendStep ==
    ASSUME PFInv, NEW c \in Cpus, NEW i \in Ifaces, NEW p \in Packets, Send(c, i, p)
    PROVE  CpuInv(c)' /\ cpu'[c] \in Flight
  <1> DEFINE found == i \in DOMAIN runtimeConfig
             start == IF found THEN {PolicyOf(i)} ELSE {}
             writes == {j.rules : j \in {k \in JobsOn(i) : k.op = "write"}}
  <1>1. cpu'[c] = [st |-> "allowAll", n |-> 1, iface |-> i, pkt |-> p,
                   found |-> found, flags |-> {r.flags : r \in start}, freed |-> FALSE,
                   verdict |-> "none", start |-> start, seen |-> start \cup writes,
                   calm |-> JobsOn(i) = {}]
    BY DEF Send, PFInv, CpuType
  <1>2. start \in SUBSET AllowRules
    BY PolicyOfType DEF PFInv, IInv
  <1>3. writes \in SUBSET AllowRules
    BY PolicyKeys DEF PFInv, IInv, TypeOK, JobsOn
  <1>4. {r.flags : r \in start} = IF found THEN {runtimeConfig[i]} ELSE {}
    <2>1. PolicyOf(i).flags = runtimeConfig[i]
      BY DEF PolicyOf
    <2> QED BY <2>1
  <1>5. {r.flags : r \in start} \in SUBSET SUBSET Flags
    BY <1>2 DEF AllowRules
  <1>6. cpu'[c] \in Flight
    BY <1>1, <1>2, <1>3, <1>5 DEF Flight
  <1>7. UNCHANGED vars
    BY DEF Send
  <1>8. /\ cpu'[c].st = "allowAll" /\ cpu'[c].n = 1
        /\ cpu'[c].iface = i /\ cpu'[c].found = found
        /\ cpu'[c].flags = {r.flags : r \in start} /\ cpu'[c].freed = FALSE
        /\ cpu'[c].start = start /\ cpu'[c].seen = start \cup writes
        /\ cpu'[c].calm = (JobsOn(i) = {})
    BY <1>1
  <1>9. (JobsOn(i) = JobsOn(i)') /\ (KeysOf(i) = KeysOf(i)') /\ (PolicyOf(i) = PolicyOf(i)')
    BY <1>7 DEF JobsOn, KeysOf, PolicyOf, vars
  <1>10. MetInv(c)'
    <2>1. ASSUME found PROVE KeysOf(i) \subseteq KeysSeen(c)'
      <3>1. PolicyOf(i) \in cpu'[c].seen /\ PolicyOf(i).keys = KeysOf(i)
        BY <1>8, <2>1 DEF PolicyOf
      <3> QED BY <3>1 DEF KeysSeen
    <2>2. \A j \in JobsOn(i) : j.op = "write" => j.rules \in writes
      OBVIOUS
    <2> HIDE DEF writes
    <2> QED BY <1>4, <1>8, <1>9, <2>1, <2>2 DEF MetInv
  <1>11. cpu'[c].calm => CalmInv(c)'
    BY <1>4, <1>7, <1>8, <1>9 DEF CalmInv, vars
  <1>12. ExactVerdict(c)' /\ BoundedVerdict(c)'
    BY <1>1 DEF ExactVerdict, BoundedVerdict, Passed
  <1> QED BY <1>6, <1>10, <1>11, <1>12 DEF CpuInv

(* allow_all is read and the packet parsed. *)
LEMMA ReadAllowAllStep ==
    ASSUME PFInv, NEW c \in Cpus, cpu[c] \in Flight, ReadAllowAll(c) PROVE CpuInv(c)'
  <1> DEFINE p == cpu[c].pkt
  <1>1. cpu[c].st = "allowAll" /\ MetInv(c) /\ (cpu[c].calm => CalmInv(c)) /\ UNCHANGED vars
    BY DEF PFInv, CpuInv, Active, ReadAllowAll
  <1>2. cpu[c].calm => \A r \in cpu[c].start, f \in cpu[c].flags : r.flags = f
    BY <1>1 DEF CalmInv, PolicyOf
  <1>3. cpu[c].calm => (cpu[c].start # {} <=> cpu[c].found) /\ (cpu[c].flags # {} <=> cpu[c].found)
    BY <1>1 DEF CalmInv
  <1>4. ASSUME \E f \in cpu[c].flags : "allow_all" \in f, Verdict(c, "ok") PROVE CpuInv(c)'
    BY <1>1, <1>2, <1>3, <1>4, VerdictStep DEF PFInv, Allows
  <1>5. ASSUME ~cpu[c].found \/ \E f \in cpu[c].flags : "allow_all" \notin f,
               parse(p) \in {"ok", "shot"}, Verdict(c, parse(p))
        PROVE  CpuInv(c)'
    <2>1. cpu[c].calm => \A r \in cpu[c].start : "allow_all" \notin r.flags
      BY <1>1, <1>2, <1>3, <1>5 DEF CalmInv
    <2>2. \A r \in cpu[c].start : parse(p) \notin r.flags
      BY <1>5 DEF PFInv, CpuType, Flight, AllowRules, Flags
    <2> QED BY <1>1, <1>5, <2>1, <2>2, VerdictStep DEF PFInv, Allows, Bootstrap
  <1>6. ASSUME ~cpu[c].found \/ \E f \in cpu[c].flags : "allow_all" \notin f,
               parse(p) \notin {"ok", "shot"}, cpu' = [cpu EXCEPT ![c].st = "gate"]
        PROVE  CpuInv(c)'
    <2>1. cpu'[c] = [cpu[c] EXCEPT !.st = "gate"]
      BY <1>6 DEF PFInv, CpuType
    <2>2. /\ cpu'[c].st = "gate" /\ cpu'[c].iface = cpu[c].iface /\ cpu'[c].pkt = cpu[c].pkt
          /\ cpu'[c].found = cpu[c].found /\ cpu'[c].flags = cpu[c].flags
          /\ cpu'[c].freed = cpu[c].freed /\ cpu'[c].start = cpu[c].start
          /\ cpu'[c].seen = cpu[c].seen /\ cpu'[c].calm = cpu[c].calm /\ cpu'[c].n = cpu[c].n
      BY <2>1 DEF Flight
    <2>3. parse(p) \in Gates
      BY <1>6, ParseRange
    <2>4. cpu[c].calm => \A f \in cpu[c].flags : "allow_all" \notin f
      BY <1>1, <1>6 DEF CalmInv
    <2>5. MetInv(c)'
      BY <1>1, <2>2, <2>3 DEF MetInv, JobsOn, KeysOf, KeysSeen, vars
    <2>6. cpu'[c].calm => CalmInv(c)'
      BY <1>1, <2>2, <2>4 DEF CalmInv, JobsOn, KeysOf, PolicyOf, vars
    <2> QED BY <2>2, <2>5, <2>6 DEF CpuInv, Active, ExactVerdict, BoundedVerdict, Passed
  <1> QED BY <1>4, <1>5, <1>6 DEF ReadAllowAll

(* The gate is read through the same pointer. *)
LEMMA ReadGateStep ==
    ASSUME PFInv, NEW c \in Cpus, cpu[c] \in Flight, ReadGate(c) PROVE CpuInv(c)'
  <1> DEFINE p == cpu[c].pkt
  <1>1. cpu[c].st = "gate" /\ MetInv(c) /\ (cpu[c].calm => CalmInv(c)) /\ UNCHANGED vars
    BY DEF PFInv, CpuInv, Active, ReadGate
  <1>2. parse(p) \in Gates
    BY <1>1 DEF MetInv
  <1>3. cpu[c].calm => \A r \in cpu[c].start, f \in cpu[c].flags : r.flags = f
    BY <1>1 DEF CalmInv, PolicyOf
  <1>4. cpu[c].calm => (cpu[c].start # {} <=> cpu[c].found) /\ (cpu[c].flags # {} <=> cpu[c].found)
    BY <1>1 DEF CalmInv
  <1>5. ASSUME \E f \in cpu[c].flags : parse(p) \in f, cpu' = [cpu EXCEPT ![c].st = "lookup"]
        PROVE  CpuInv(c)'
    <2>1. cpu'[c] = [cpu[c] EXCEPT !.st = "lookup"]
      BY <1>5 DEF PFInv, CpuType
    <2>2. /\ cpu'[c].st = "lookup" /\ cpu'[c].iface = cpu[c].iface /\ cpu'[c].pkt = cpu[c].pkt
          /\ cpu'[c].found = cpu[c].found /\ cpu'[c].flags = cpu[c].flags
          /\ cpu'[c].freed = cpu[c].freed /\ cpu'[c].start = cpu[c].start
          /\ cpu'[c].seen = cpu[c].seen /\ cpu'[c].calm = cpu[c].calm /\ cpu'[c].n = cpu[c].n
      BY <2>1 DEF Flight
    <2>3. cpu[c].n = 1 /\ cpu[c].n \in DOMAIN lookups(p)
      BY <1>1, LookupsShape DEF MetInv
    <2>4. MetInv(c)'
      BY <1>1, <1>2, <1>5, <2>2, <2>3 DEF MetInv, JobsOn, KeysOf, KeysSeen, vars
    <2>5. \A m \in DOMAIN lookups(p) : ~(m < cpu[c].n)
      BY <2>3, LookupsShape
    <2>6. cpu'[c].calm => CalmInv(c)'
      BY <1>1, <2>2, <2>5 DEF CalmInv, JobsOn, KeysOf, PolicyOf, vars
    <2> QED BY <2>2, <2>4, <2>6 DEF CpuInv, Active, ExactVerdict, BoundedVerdict, Passed
  <1>6. ASSUME ~cpu[c].found \/ \E f \in cpu[c].flags : parse(p) \notin f, Verdict(c, "shot")
        PROVE  CpuInv(c)'
    <2>1. ~Bootstrap(p)
      BY <1>2 DEF Bootstrap, Gates
    <2>2. cpu[c].calm => \A r \in cpu[c].start : "allow_all" \notin r.flags /\ parse(p) \notin r.flags
      BY <1>1, <1>3, <1>4, <1>6 DEF CalmInv
    <2> QED BY <1>1, <1>6, <2>1, <2>2, VerdictStep DEF PFInv, Allows
  <1> QED BY <1>5, <1>6 DEF ReadGate

(* One lookup: a hit is a key of what was seen; the last miss leaves no    *)
(* key that the policy could have allowed the packet by.                   *)
LEMMA LookupStep ==
    ASSUME PFInv, NEW c \in Cpus, cpu[c] \in Flight, Lookup(c) PROVE CpuInv(c)'
  <1> DEFINE p == cpu[c].pkt
             i == cpu[c].iface
             key == lookups(p)[cpu[c].n]
  <1>1. cpu[c].st = "lookup" /\ MetInv(c) /\ (cpu[c].calm => CalmInv(c)) /\ UNCHANGED vars
    BY DEF PFInv, CpuInv, Active, Lookup
  <1>2. parse(p) \in Gates /\ cpu[c].n \in DOMAIN lookups(p)
    BY <1>1 DEF MetInv
  <1>3. PICK f \in cpu[c].flags : parse(p) \in f
    BY <1>1 DEF MetInv
  <1>4. ~Bootstrap(p)
    BY <1>2 DEF Bootstrap, Gates
  <1>5. cpu[c].calm =>
           /\ cpu[c].start = {PolicyOf(i)} /\ PolicyOf(i).flags = f /\ "allow_all" \notin f
           /\ PolicyOf(i).keys = KeysOf(i)
    BY <1>1, <1>3 DEF CalmInv, PolicyOf
  <1>6. <<i, key>> \in entries <=> key \in KeysOf(i)
    BY EntryIsKey DEF PFInv, IInv
  <1>7. CASE key \in KeysOf(i)
    <2>1. Verdict(c, "ok")
      BY <1>6, <1>7 DEF Lookup
    <2>2. key \in KeysSeen(c)
      BY <1>1, <1>3, <1>7 DEF MetInv
    <2>3. Allows([flags |-> f, keys |-> KeysSeen(c)], p)
      BY <1>2, <1>3, <2>2 DEF Allows
    <2>4. cpu[c].calm => Allows(PolicyOf(i), p)
      BY <1>2, <1>3, <1>5, <1>7 DEF Allows
    <2> QED BY <1>1, <1>4, <1>5, <2>1, <2>3, <2>4, VerdictStep DEF PFInv
  <1>8. CASE key \notin KeysOf(i) /\ cpu[c].n = Len(lookups(p))
    <2>1. Verdict(c, "shot")
      BY <1>6, <1>8 DEF Lookup
    <2>2. \A m \in DOMAIN lookups(p) : m < cpu[c].n \/ m = cpu[c].n
      BY <1>8, LookupsShape
    <2>3. cpu[c].calm => ~Allows(PolicyOf(i), p)
      BY <1>1, <1>5, <1>8, <2>2 DEF Allows, CalmInv
    <2> QED BY <1>1, <1>4, <1>5, <2>1, <2>3, VerdictStep DEF PFInv
  <1>9. CASE key \notin KeysOf(i) /\ cpu[c].n # Len(lookups(p))
    <2>1. cpu'[c] = [cpu[c] EXCEPT !.n = cpu[c].n + 1]
      BY <1>6, <1>9 DEF Lookup, PFInv, CpuType
    <2>2. /\ cpu'[c].st = "lookup" /\ cpu'[c].iface = i /\ cpu'[c].pkt = p
          /\ cpu'[c].found = cpu[c].found /\ cpu'[c].flags = cpu[c].flags
          /\ cpu'[c].freed = cpu[c].freed /\ cpu'[c].start = cpu[c].start
          /\ cpu'[c].seen = cpu[c].seen /\ cpu'[c].calm = cpu[c].calm
          /\ cpu'[c].n = cpu[c].n + 1
      BY <1>1, <2>1 DEF Flight
    <2>3. cpu[c].n + 1 \in DOMAIN lookups(p)
      BY <1>2, <1>9, LookupsShape
    <2>4. \A m \in DOMAIN lookups(p) : m < cpu[c].n + 1 => m < cpu[c].n \/ m = cpu[c].n
      BY <1>2, LookupsShape
    <2>5. MetInv(c)'
      BY <1>1, <2>2, <2>3 DEF MetInv, JobsOn, KeysOf, KeysSeen, vars
    <2>6. cpu'[c].calm => CalmInv(c)'
      BY <1>1, <1>9, <2>2, <2>4 DEF CalmInv, JobsOn, KeysOf, PolicyOf, vars
    <2> QED BY <2>2, <2>5, <2>6 DEF CpuInv, Active, ExactVerdict, BoundedVerdict, Passed
  <1> QED BY <1>7, <1>8, <1>9

-----------------------------------------------------------------------------
(* A step of the writer, seen from a packet in flight. *)

(* The verdict stands. *)
LEMMA DoneKept ==
    ASSUME NEW c \in Cpus, CpuInv(c), ~Active(c), cpu'[c] = cpu[c]
    PROVE  CpuInv(c)'
  BY DEF CpuInv, Active, ExactVerdict, BoundedVerdict, Passed, KeysSeen

(* Whatever the writer does, a packet in flight that keeps its record, but *)
(* for what was freed and what it may read through the pointer, keeps its  *)
(* invariants.                                                             *)
LEMMA WriterStepSeen ==
    ASSUME PFInv, WriterStep, NEW c \in Cpus, Active(c), cpu[c] \in Flight,
           NEW freed, NEW flags,
           cpu'[c] = [cpu[c] EXCEPT !.freed = freed, !.flags = flags],
           cpu[c].flags \subseteq flags,
           flags # cpu[c].flags \/ freed => cpu[c].found,
           cpu[c].calm => flags = cpu[c].flags /\ ~freed
    PROVE  CpuInv(c)'
  <1>1. MetInv(c) /\ (cpu[c].calm => CalmInv(c))
    BY DEF PFInv, CpuInv
  <1>2. /\ cpu'[c].st = cpu[c].st /\ cpu'[c].iface = cpu[c].iface /\ cpu'[c].pkt = cpu[c].pkt
        /\ cpu'[c].found = cpu[c].found /\ cpu'[c].flags = flags
        /\ cpu'[c].freed = freed /\ cpu'[c].start = cpu[c].start
        /\ cpu'[c].seen = cpu[c].seen /\ cpu'[c].calm = cpu[c].calm /\ cpu'[c].n = cpu[c].n
    BY DEF Flight
  <1>3. PICK i : i = cpu[c].iface
    OBVIOUS
  <1>4. MetInv(c)'
    <2>1. JobsOn(i)' \subseteq JobsOn(i)
      BY WriterAddsItsKeys DEF JobsOn, PFInv
    <2>2. ASSUME cpu[c].found PROVE KeysOf(i)' \subseteq KeysSeen(c)'
      <3>1. KeysSeen(c)' = KeysSeen(c)
        BY <1>2 DEF KeysSeen
      <3>2. \A j \in JobsOn(i) : j.op = "write" => j.rules.keys \subseteq KeysSeen(c)
        BY <1>1, <1>3 DEF MetInv, KeysSeen
      <3>3. \A key \in KeysOf(i)' :
               \/ key \in KeysOf(i)
               \/ \E j \in JobsOn(i) : j.op = "write" /\ key \in j.rules.keys
        BY WriterAddsItsKeys DEF PFInv
      <3> QED BY <1>1, <1>3, <2>2, <3>1, <3>2, <3>3 DEF MetInv
    <2> QED BY <1>1, <1>2, <1>3, <2>1, <2>2 DEF MetInv
  <1>5. ASSUME cpu'[c].calm PROVE CalmInv(c)'
    <2>1. CalmInv(c) /\ JobsOn(i) = {}
      BY <1>1, <1>2, <1>3, <1>5 DEF CalmInv
    <2>2. /\ JobsOn(i)' = {} /\ KeysOf(i)' = KeysOf(i)
          /\ (i \in DOMAIN runtimeConfig)' = (i \in DOMAIN runtimeConfig)
          /\ i \in DOMAIN runtimeConfig => runtimeConfig'[i] = runtimeConfig[i]
      BY <2>1, WriterIsLocal DEF PFInv
    <2> QED BY <1>2, <1>3, <1>5, <2>1, <2>2 DEF CalmInv, PolicyOf
  <1> QED BY <1>2, <1>4, <1>5 DEF CpuInv, Active, ExactVerdict, BoundedVerdict, Passed

(* A call for its interface ends a packet's calm, and what is to be        *)
(* written counts as seen.                                                 *)
LEMMA BeginWriteStep ==
    ASSUME PFInv, NEW j \in Jobs, BeginWrite(j), NEW c \in Cpus
    PROVE  CpuInv(c)' /\ cpu'[c] \in {Idle} \cup Flight
  <1>1. /\ UNCHANGED <<runtimeConfig, entries>> /\ job = {} /\ job' = {j}
        /\ \A i : KeysOf(i)' = KeysOf(i) /\ PolicyOf(i)' = PolicyOf(i)
    BY DEF BeginWrite, Begin, mapVars, PFInv, IInv, TypeOK, KeysOf, PolicyOf
  <1>2. CASE ~Active(c)
    <2>1. cpu'[c] = cpu[c]
      BY <1>2 DEF BeginWrite
    <2> QED BY <1>2, <2>1, DoneKept DEF PFInv, CpuType
  <1>3. CASE Active(c) /\ cpu[c].iface # j.iface
    <2>1. cpu'[c] = cpu[c]
      BY <1>3 DEF BeginWrite
    <2>2. JobsOn(cpu[c].iface)' = {}
      BY <1>1, <1>3, <2>1 DEF JobsOn
    <2>3. MetInv(c)' /\ (cpu[c].calm => CalmInv(c)')
      BY <1>1, <1>3, <2>1, <2>2 DEF PFInv, CpuInv, MetInv, CalmInv, KeysSeen
    <2> QED BY <1>3, <2>1, <2>3 DEF PFInv, CpuInv, CpuType, Active, ExactVerdict, BoundedVerdict,
                                    Passed
  <1>4. CASE Active(c) /\ cpu[c].iface = j.iface
    <2> DEFINE seen == cpu[c].seen \cup (IF j.op = "write" THEN {j.rules} ELSE {})
    <2>1. cpu[c] \in Flight
      BY <1>4 DEF PFInv, CpuType, Active, Idle
    <2>2. cpu'[c] = [cpu[c] EXCEPT !.calm = FALSE, !.seen = seen]
      BY <1>4 DEF BeginWrite
    <2>3. seen \in SUBSET AllowRules
      BY <2>1, PolicyKeys DEF Flight
    <2> HIDE DEF seen
    <2>4. /\ cpu'[c].st = cpu[c].st /\ cpu'[c].iface = cpu[c].iface /\ cpu'[c].pkt = cpu[c].pkt
          /\ cpu'[c].found = cpu[c].found /\ cpu'[c].flags = cpu[c].flags
          /\ cpu'[c].freed = cpu[c].freed /\ cpu'[c].start = cpu[c].start
          /\ cpu'[c].seen = seen /\ ~cpu'[c].calm /\ cpu'[c].n = cpu[c].n
      BY <2>1, <2>2 DEF Flight
    <2>5. cpu'[c] \in Flight
      BY <2>1, <2>2, <2>3 DEF Flight
    <2>6. KeysSeen(c) \subseteq KeysSeen(c)'
      BY <2>4 DEF KeysSeen, seen
    <2>7. \A k \in JobsOn(cpu[c].iface)' : k.op = "write" => k.rules \in seen
      BY <1>1 DEF JobsOn, seen
    <2>8. MetInv(c)'
      BY <1>1, <1>4, <2>4, <2>6, <2>7 DEF PFInv, CpuInv, MetInv
    <2> QED BY <1>4, <2>4, <2>5, <2>8 DEF CpuInv, Active, ExactVerdict, BoundedVerdict, Passed
  <1> QED BY <1>2, <1>3, <1>4

(* The entry behind the pointer is deleted. *)
LEMMA FreeConfigStep ==
    ASSUME PFInv, FreeConfig, NEW c \in Cpus
    PROVE  CpuInv(c)' /\ cpu'[c] \in {Idle} \cup Flight
  <1>1. WriterStep
    BY DEF FreeConfig, WriterStep
  <1>2. CASE ~Active(c)
    BY <1>2, DoneKept DEF FreeConfig, PFInv, CpuType
  <1>3. CASE Active(c)
    <2> DEFINE hit == cpu[c].found /\ JobsOn(cpu[c].iface) # {}
               freed == IF hit THEN TRUE ELSE cpu[c].freed
    <2>1. cpu[c] \in Flight
      BY <1>3 DEF PFInv, CpuType, Active, Idle
    <2>2. cpu'[c] = [cpu[c] EXCEPT !.freed = freed, !.flags = cpu[c].flags]
      BY <1>3, <2>1 DEF FreeConfig, Flight
    <2>3. cpu'[c] \in Flight
      BY <2>1, <2>2 DEF Flight
    <2>4. /\ freed => cpu[c].found
          /\ cpu[c].calm => ~freed
      BY <1>3 DEF PFInv, CpuInv, MetInv, CalmInv
    <2> HIDE DEF freed
    <2> QED BY <1>1, <1>3, <2>1, <2>2, <2>3, <2>4, WriterStepSeen
  <1> QED BY <1>2, <1>3

(* Its memory is given to the entry that is inserted. *)
LEMMA ReuseConfigStep ==
    ASSUME PFInv, ReuseConfig, NEW c \in Cpus
    PROVE  CpuInv(c)' /\ cpu'[c] \in {Idle} \cup Flight
  <1>1. WriterStep
    BY DEF ReuseConfig, WriterStep
  <1>2. CASE ~Active(c)
    BY <1>2, DoneKept DEF ReuseConfig, PFInv, CpuType
  <1>3. CASE Active(c)
    <2> DEFINE flags == IF cpu[c].freed THEN cpu[c].flags \cup {j.rules.flags : j \in job}
                        ELSE cpu[c].flags
    <2>1. cpu[c] \in Flight
      BY <1>3 DEF PFInv, CpuType, Active, Idle
    <2>2. cpu'[c] = [cpu[c] EXCEPT !.freed = cpu[c].freed, !.flags = flags]
      BY <1>3, <2>1 DEF ReuseConfig, Flight
    <2>3. \A j \in job : j.rules.flags \in SUBSET Flags
      BY PolicyKeys DEF ReuseConfig, PutConfig, PFInv, IInv, TypeOK, WriterInv
    <2>4. flags \in SUBSET SUBSET Flags
      BY <2>1, <2>3 DEF Flight
    <2>5. cpu'[c] \in Flight
      BY <2>1, <2>2, <2>4 DEF Flight
    <2>6. /\ cpu[c].flags \subseteq flags
          /\ flags # cpu[c].flags \/ cpu[c].freed => cpu[c].found
          /\ cpu[c].calm => flags = cpu[c].flags /\ ~cpu[c].freed
      BY <1>3 DEF PFInv, CpuInv, MetInv, CalmInv
    <2> HIDE DEF flags
    <2> QED BY <1>1, <1>3, <2>1, <2>2, <2>5, <2>6, WriterStepSeen
  <1> QED BY <1>2, <1>3

(* The other steps of the writer leave the packets alone. *)
LEMMA OtherWriterStepSeen ==
    ASSUME PFInv, OtherWriterStep, NEW c \in Cpus
    PROVE  CpuInv(c)'
  <1>1. WriterStep /\ cpu'[c] = cpu[c]
    BY DEF OtherWriterStep, WriterStep
  <1>2. CASE ~Active(c)
    BY <1>1, <1>2, DoneKept DEF PFInv
  <1>3. CASE Active(c)
    <2>1. cpu[c] \in Flight
      BY <1>3 DEF PFInv, CpuType, Active, Idle
    <2>2. cpu'[c] = [cpu[c] EXCEPT !.freed = cpu[c].freed, !.flags = cpu[c].flags]
      BY <1>1, <2>1 DEF Flight
    <2>3. /\ cpu[c].freed => cpu[c].found
          /\ cpu[c].calm => ~cpu[c].freed
      BY <1>3 DEF PFInv, CpuInv, MetInv, CalmInv
    <2> QED BY <1>1, <1>3, <2>1, <2>2, <2>3, WriterStepSeen
  <1> QED BY <1>2, <1>3

-----------------------------------------------------------------------------
(* The theorems. *)

(* Every step keeps the invariant. *)
LEMMA PFInvStep == PFInv /\ [PFNext]_allVars => PFInv'
  <1> SUFFICES ASSUME PFInv, [PFNext]_allVars PROVE PFInv'
    OBVIOUS
  <1>1. IInv'
    BY FilterKeepsWriter, TypeStep, WriterStepInv DEF PFInv, IInv
  <1> DEFINE Goal == CpuType' /\ \A c \in Cpus : CpuInv(c)'
  <1>2. ASSUME NEW j \in Jobs, BeginWrite(j) PROVE Goal
    BY <1>2, BeginWriteStep DEF BeginWrite, CpuType
  <1>3. ASSUME FreeConfig PROVE Goal
    <2>1. cpu' = [c \in Cpus |-> cpu'[c]]
      BY <1>3 DEF FreeConfig
    <2>2. \A c \in Cpus : CpuInv(c)' /\ cpu'[c] \in {Idle} \cup Flight
      BY <1>3, FreeConfigStep
    <2> QED BY <2>1, <2>2 DEF CpuType
  <1>4. ASSUME ReuseConfig PROVE Goal
    <2>1. cpu' = [c \in Cpus |-> cpu'[c]]
      BY <1>4 DEF ReuseConfig
    <2>2. \A c \in Cpus : CpuInv(c)' /\ cpu'[c] \in {Idle} \cup Flight
      BY <1>4, ReuseConfigStep
    <2> QED BY <2>1, <2>2 DEF CpuType
  <1>5. ASSUME OtherWriterStep PROVE Goal
    <2>1. CpuType'
      BY <1>5 DEF OtherWriterStep, CpuType, PFInv
    <2> QED BY <1>5, <2>1, OtherWriterStepSeen
  <1>6. ASSUME NEW c \in Cpus,
               \/ \E i \in Ifaces, p \in Packets : Send(c, i, p)
               \/ ReadAllowAll(c) \/ ReadGate(c) \/ Lookup(c) \/ Retire(c)
        PROVE  Goal
    <2>1. UNCHANGED vars /\ \E r : cpu' = [cpu EXCEPT ![c] = r]
      BY <1>6 DEF Send, ReadAllowAll, ReadGate, Lookup, Retire, Verdict
    <2>2. \A d \in Cpus \ {c} : cpu'[d] = cpu[d] /\ CpuInv(d)'
      BY <2>1, OthersKept DEF PFInv, CpuType
    <2>3. cpu'[c] \in {Idle} \cup Flight /\ CpuInv(c)'
      <3>1. ASSUME NEW i \in Ifaces, NEW p \in Packets, Send(c, i, p)
            PROVE  cpu'[c] \in {Idle} \cup Flight /\ CpuInv(c)'
        BY <3>1, SendStep
      <3>2. CASE ReadAllowAll(c)
        <4>1. cpu[c] \in Flight
          BY <3>2 DEF PFInv, CpuType, ReadAllowAll, Idle
        <4>2. cpu'[c] \in Flight
          BY <3>2, <4>1 DEF PFInv, CpuType, ReadAllowAll, Verdict, Flight
        <4> QED BY <3>2, <4>1, <4>2, ReadAllowAllStep
      <3>3. CASE ReadGate(c)
        <4>1. cpu[c] \in Flight
          BY <3>3 DEF PFInv, CpuType, ReadGate, Idle
        <4>2. cpu'[c] \in Flight
          BY <3>3, <4>1 DEF PFInv, CpuType, ReadGate, Verdict, Flight
        <4> QED BY <3>3, <4>1, <4>2, ReadGateStep
      <3>4. CASE Lookup(c)
        <4>1. cpu[c] \in Flight
          BY <3>4 DEF PFInv, CpuType, Lookup, Idle
        <4>2. cpu'[c] \in Flight
          BY <3>4, <4>1 DEF PFInv, CpuType, Lookup, Verdict, Flight
        <4> QED BY <3>4, <4>1, <4>2, LookupStep
      <3>5. CASE Retire(c)
        <4>1. cpu'[c] = Idle
          BY <3>5 DEF Retire, PFInv, CpuType
        <4> QED BY <4>1 DEF Idle, CpuInv, Active, ExactVerdict, BoundedVerdict, Passed
      <3> QED BY <1>6, <3>1, <3>2, <3>3, <3>4, <3>5
    <2>4. CpuType'
      BY <2>1, <2>2, <2>3 DEF PFInv, CpuType
    <2> QED BY <2>2, <2>3, <2>4
  <1>7. ASSUME UNCHANGED allVars PROVE Goal
    <2>1. CpuType' /\ UNCHANGED vars /\ \A c \in Cpus : cpu'[c] = cpu[c]
      BY <1>7 DEF allVars, PFInv, CpuType
    <2> QED BY <2>1, OthersKept DEF PFInv
  <1> QED BY <1>1, <1>2, <1>3, <1>4, <1>5, <1>6, <1>7 DEF PFNext, PFInv

(* So it holds in every state. *)
LEMMA FilterInvariant == PFSpec => []PFInv
  <1>1. PFInit => PFInv
    BY InitIInv DEF PFInit, PFInv, CpuType, Idle, CpuInv, Active, ExactVerdict, BoundedVerdict,
                    Passed
  <1> QED BY <1>1, PFInvStep, PTL DEF PFSpec

(* Beside the filter on any number of processors, the writer still         *)
(* implements the store of whole policies (killswitch.c only reads the     *)
(* maps that bpf_maps.go writes).                                          *)
THEOREM FilteredMapsImplementStore == PFSpec => ImplementsPolicyStore
  <1>1. PFInit => Init
    BY DEF PFInit
  <1>2. PFSpec => Spec
    BY <1>1, FilterKeepsWriter, PTL DEF PFSpec, Spec
  <1> QED BY <1>2, MapsImplementStore, PTL

(* A packet whose interface nobody writes to while it is filtered gets     *)
(* exactly the verdict of the policy in force, and without one only        *)
(* bootstrap traffic passes (killswitch.c: "Missing entries fail closed    *)
(* for routable traffic").                                                 *)
THEOREM UndisturbedVerdictIsExact == PFSpec => []UndisturbedIsExact
  <1>1. PFInv => UndisturbedIsExact
    BY DEF PFInv, CpuInv, ExactVerdict, UndisturbedIsExact
  <1> QED BY <1>1, FilterInvariant, PTL

(* A packet filtered while its interface is rewritten passes only by flags *)
(* that were in runtime_config in the meantime and a key of a policy that  *)
(* was written to this very interface (killswitch.c, bpf_maps.go).         *)
THEOREM TornReadsAreBounded == PFSpec => []TornReadIsBounded
  <1>1. PFInv => TornReadIsBounded
    BY DEF PFInv, CpuInv, BoundedVerdict, KeysSeen, TornReadIsBounded
  <1> QED BY <1>1, FilterInvariant, PTL
=============================================================================
