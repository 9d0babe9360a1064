---------------------------- MODULE PacketFilter ----------------------------
(***************************************************************************)
(* The tc egress program of killswitch.c, running on several CPUs while    *)
(* the daemon rewrites the maps it reads (module BpfMaps).  Each map       *)
(* lookup of the program is a step of its own; parsing the packet reads    *)
(* nothing shared and happens inside the step that needs its result.       *)
(*                                                                         *)
(* The program looks runtime_config up once and keeps the pointer.  It     *)
(* reads allow_all through it at once and enable_v4 or enable_v6 after     *)
(* parsing.  Once the daemon has deleted the entry, its memory may be      *)
(* given to the next runtime_config entry that is inserted, for any        *)
(* interface, so a later read through the pointer may return the flags of  *)
(* that entry instead.                                                     *)
(***************************************************************************)
EXTENDS BpfMaps, Sequences

CONSTANTS
    Cpus,       \* processors that run the program
    Packets     \* the packets that may be sent

VARIABLES
    cpu         \* the packet each processor is filtering

allVars == <<vars, cpu>>

-----------------------------------------------------------------------------
(* Parsing.  A packet is described by what the parser finds in it:         *)
(*   eth       protocol behind at most one VLAN tag, or "short"            *)
(*   header    FALSE if the IP header is truncated or malformed            *)
(*   fragment  an IPv4 fragment                                            *)
(*   proto     transport protocol                                          *)
(*   payload   FALSE if the transport header is truncated                  *)
(*   service   "dhcp" or "nd" for bootstrap traffic, else "none"           *)
(*   mark, daddr, dport                                                    *)

HasPorts(p) == p.proto \in {"udp", "tcp"}

(* "shot", "ok", or the address family whose policy decides. *)
parse(p) ==
    CASE p.eth = "arp" -> "ok"
      [] p.eth \notin {"arp", "ipv4", "ipv6"} -> "shot"
      [] p.eth = "ipv4" ->
            IF ~p.header \/ p.fragment \/ (HasPorts(p) /\ ~p.payload) THEN "shot"
            ELSE IF p.proto = "udp" /\ p.service = "dhcp" THEN "ok" ELSE "enable_v4"
      [] p.eth = "ipv6" ->
            IF ~p.header \/ p.proto \notin {"udp", "tcp", "icmpv6"} \/ ~p.payload THEN "shot"
            ELSE IF \/ p.proto = "udp" /\ p.service = "dhcp"
                    \/ p.proto = "icmpv6" /\ p.service = "nd"
                 THEN "ok" ELSE "enable_v6"

(* The keys the program looks up, in order. *)
lookups(p) ==
    LET mark == <<"allowed_marks", p.mark>>
        port == <<"allowed_ports", <<p.proto, p.dport>>>>
        host == <<IF p.eth = "ipv4" THEN "allowed_v4_hosts" ELSE "allowed_v6_hosts", p.daddr>>
        pair == <<IF p.eth = "ipv4" THEN "allowed_v4_hostports" ELSE "allowed_v6_hostports",
                  <<p.daddr, <<p.proto, p.dport>>>>>>
    IN  IF HasPorts(p) THEN <<mark, port, host, pair>> ELSE <<mark, host>>

-----------------------------------------------------------------------------
(* The program.  A busy processor's record holds                           *)
(*   st, n     where it is, and the next lookup                            *)
(*   found     the runtime_config lookup succeeded                         *)
(*   flags     every flag value the config pointer may yield               *)
(*   freed     the entry behind the pointer was deleted                    *)
(*   verdict   once st = "done"                                            *)
(* and, for the properties only,                                           *)
(*   start     the policy in force when it began (a set of at most one)    *)
(*   seen      the policies in force or being written since it began       *)
(*   calm      no write touched its interface in the meantime              *)

Idle == [st |-> "idle"]

Active(c) == cpu[c].st \in {"allowAll", "gate", "lookup"}

Verdict(c, v) == cpu' = [cpu EXCEPT ![c].st = "done", ![c].verdict = v]

JobsOn(i) == {j \in job : j.iface = i}

(* A packet leaves through interface i: look runtime_config up. *)
Send(c, i, p) ==
    /\ cpu[c] = Idle
    /\ LET found == i \in DOMAIN runtimeConfig
           start == IF found THEN {PolicyOf(i)} ELSE {}
       IN  cpu' = [cpu EXCEPT ![c] =
              [st |-> "allowAll", n |-> 1, iface |-> i, pkt |-> p,
               found |-> found,
               flags |-> {r.flags : r \in start},
               freed |-> FALSE,
               verdict |-> "none",
               start |-> start,
               seen  |-> start \cup {j.rules : j \in {k \in JobsOn(i) : k.op = "write"}},
               calm  |-> JobsOn(i) = {}]]
    /\ UNCHANGED vars

(* Read allow_all through the pointer, then parse. *)
ReadAllowAll(c) ==
    /\ cpu[c].st = "allowAll"
    /\ \/ /\ \E f \in cpu[c].flags : "allow_all" \in f
          /\ Verdict(c, "ok")
       \/ /\ ~cpu[c].found \/ \E f \in cpu[c].flags : "allow_all" \notin f
          /\ IF parse(cpu[c].pkt) \in {"ok", "shot"}
             THEN Verdict(c, parse(cpu[c].pkt))
             ELSE cpu' = [cpu EXCEPT ![c].st = "gate"]
    /\ UNCHANGED vars

(* Faulty (a slip that a property must catch; no action uses it): a        *)
(* missing runtime_config entry does not close the gate.                   *)
ReadGateFailsOpen(c) ==
    /\ cpu[c].st = "gate"
    /\ \/ /\ ~cpu[c].found \/ \E f \in cpu[c].flags : parse(cpu[c].pkt) \in f
          /\ cpu' = [cpu EXCEPT ![c].st = "lookup"]
       \/ /\ \E f \in cpu[c].flags : parse(cpu[c].pkt) \notin f
          /\ Verdict(c, "shot")
    /\ UNCHANGED vars

(* The enable_v4 or enable_v6 gate, read through the same pointer. *)
ReadGate(c) ==
    /\ cpu[c].st = "gate"
    /\ \/ /\ \E f \in cpu[c].flags : parse(cpu[c].pkt) \in f
          /\ cpu' = [cpu EXCEPT ![c].st = "lookup"]
       \/ /\ ~cpu[c].found \/ \E f \in cpu[c].flags : parse(cpu[c].pkt) \notin f
          /\ Verdict(c, "shot")
    /\ UNCHANGED vars

(* One allowlist lookup. *)
Lookup(c) ==
    /\ cpu[c].st = "lookup"
    /\ LET keys == lookups(cpu[c].pkt)
       IN  IF <<cpu[c].iface, keys[cpu[c].n]>> \in entries
           THEN Verdict(c, "ok")
           ELSE IF cpu[c].n = Len(keys)
                THEN Verdict(c, "shot")
                ELSE cpu' = [cpu EXCEPT ![c].n = @ + 1]
    /\ UNCHANGED vars

(* The verdict is acted upon and the processor is free again. *)
Retire(c) ==
    /\ cpu[c].st = "done"
    /\ cpu' = [cpu EXCEPT ![c] = Idle]
    /\ UNCHANGED vars

-----------------------------------------------------------------------------
(* The writer's steps, and what they mean for the packets in flight.       *)

BeginWrite(j) ==
    /\ Begin(j)
    /\ cpu' = [c \in Cpus |->
          IF Active(c) /\ cpu[c].iface = j.iface
          THEN [cpu[c] EXCEPT !.calm = FALSE,
                              !.seen = @ \cup (IF j.op = "write" THEN {j.rules} ELSE {})]
          ELSE cpu[c]]

FreeConfig ==
    /\ DelConfig
    /\ cpu' = [c \in Cpus |->
          IF Active(c) /\ cpu[c].found /\ JobsOn(cpu[c].iface) # {}
          THEN [cpu[c] EXCEPT !.freed = TRUE]
          ELSE cpu[c]]

ReuseConfig ==
    /\ PutConfig
    /\ cpu' = [c \in Cpus |->
          IF Active(c) /\ cpu[c].freed
          THEN [cpu[c] EXCEPT !.flags = @ \cup {j.rules.flags : j \in job}]
          ELSE cpu[c]]

OtherWriterStep ==
    /\ ClearEntry \/ ClearNext \/ PutEntry \/ PutNext \/ MapFull \/ SyscallFails
    /\ UNCHANGED cpu

PFInit ==
    /\ Init
    /\ cpu = [c \in Cpus |-> Idle]

PFNext ==
    \/ \E j \in Jobs : BeginWrite(j)
    \/ FreeConfig
    \/ ReuseConfig
    \/ OtherWriterStep
    \/ \E c \in Cpus :
          \/ \E i \in Ifaces, p \in Packets : Send(c, i, p)
          \/ ReadAllowAll(c)
          \/ ReadGate(c)
          \/ Lookup(c)
          \/ Retire(c)

PFSpec == PFInit /\ [][PFNext]_allVars

-----------------------------------------------------------------------------
(* Properties. *)

Bootstrap(p) == parse(p) = "ok"

(* README.md, "Global Policy": whether one whole policy allows a packet. *)
Allows(r, p) ==
    \/ "allow_all" \in r.flags
    \/ /\ parse(p) \in r.flags
       /\ \E n \in DOMAIN lookups(p) : lookups(p)[n] \in r.keys

Passed(c) == cpu[c].st = "done" /\ cpu[c].verdict = "ok"

(* A packet whose interface nobody wrote to while it was filtered gets     *)
(* exactly the verdict of the policy in force, and none but bootstrap      *)
(* traffic passes when no policy is in force, which is how every failed or *)
(* half-done write leaves the interface (killswitch.c: "Missing entries    *)
(* fail closed for routable traffic").                                     *)
UndisturbedIsExact ==
    \A c \in Cpus :
        cpu[c].st = "done" /\ cpu[c].calm =>
            (cpu[c].verdict = "ok") =
                (Bootstrap(cpu[c].pkt) \/ \E r \in cpu[c].start : Allows(r, cpu[c].pkt))

(* A packet filtered while its interface was being rewritten can mix the   *)
(* policies it met, but never more: the flags come from an entry that was  *)
(* in runtime_config in the meantime, and the key from a policy written to *)
(* this very interface.  Nothing that an earlier policy left behind lets a *)
(* packet through (bpf_maps.go clears before it writes).                   *)
TornReadIsBounded ==
    \A c \in Cpus :
        Passed(c) /\ ~Bootstrap(cpu[c].pkt) =>
            \E f \in cpu[c].flags :
                Allows([flags |-> f, keys |-> UNION {r.keys : r \in cpu[c].seen}], cpu[c].pkt)

(* README.md:2-5: traffic is dropped "unless the current policy explicitly *)
(* allows it": a packet that passes is allowed by one of the policies that *)
(* were in force or being installed while it was filtered.                 *)
PassedByOnePolicy ==
    \A c \in Cpus :
        Passed(c) /\ ~Bootstrap(cpu[c].pkt) =>
            \E r \in cpu[c].seen : Allows(r, cpu[c].pkt)
=============================================================================
