----------------------------- MODULE AllowRules -----------------------------
(***************************************************************************)
(* The allow rules of cmd/killswitch: the value that a policy, a ruleset,  *)
(* a temporary ruleset and the running SOCKS proxy all contribute, and     *)
(* the way they are merged (types.go, bpf_maps.go, effective_policy.go).   *)
(*                                                                         *)
(* A Go allowRules has three Booleans and six slices.  Here the Booleans   *)
(* are the set of flags that are true and the slices are one set of keys,  *)
(* each key tagged with the eBPF map that holds it.  Every slice is kept   *)
(* sorted and without duplicates by canonicalAllowRules before it is       *)
(* compared or written, which is exactly set equality.                     *)
(***************************************************************************)
EXTENDS Naturals

CONSTANTS
    Marks,      \* fwmarks
    Ports,      \* <<protocol, destination port>> pairs
    V4Hosts,    \* IPv4 destinations
    V6Hosts,    \* IPv6 destinations
    FWMark      \* the mark of the SOCKS proxy's outbound sockets

ASSUME FWMarkAssumption == FWMark \in Marks

Flags == {"allow_all", "enable_v4", "enable_v6"}

(* The keys of the six allowlist maps, without their ifindex part. *)
Keys ==
    ({"allowed_marks"} \X Marks)
    \cup ({"allowed_ports"} \X Ports)
    \cup ({"allowed_v4_hosts"} \X V4Hosts)
    \cup ({"allowed_v6_hosts"} \X V6Hosts)
    \cup ({"allowed_v4_hostports"} \X (V4Hosts \X Ports))
    \cup ({"allowed_v6_hostports"} \X (V6Hosts \X Ports))

(* The position of a key's map in the order in which the maps are cleared  *)
(* and filled.                                                             *)
MapCount == 6
MapOf(key) ==
    CASE key[1] = "allowed_marks"        -> 1
      [] key[1] = "allowed_ports"        -> 2
      [] key[1] = "allowed_v4_hosts"     -> 3
      [] key[1] = "allowed_v6_hosts"     -> 4
      [] key[1] = "allowed_v4_hostports" -> 5
      [] OTHER                           -> 6

AllowRules == [flags : SUBSET Flags, keys : SUBSET Keys]

mergeAllowRules(base, overlay) ==
    [flags |-> base.flags \cup overlay.flags,
     keys  |-> base.keys  \cup overlay.keys]

(* mergeAllowRules iterated over a collection of rules.  The order of the  *)
(* loops in effectiveAllowRules does not matter.                           *)
MergeAll(S) ==
    [flags |-> UNION {r.flags : r \in S},
     keys  |-> UNION {r.keys  : r \in S}]

(* What the running proxy adds: its mark, and no flag. *)
ProxyRules == [flags |-> {}, keys |-> {<<"allowed_marks", FWMark>>}]

(* The base policy, the rules of the active and of the forced rulesets and *)
(* of the temporary rulesets, and the proxy's mark while it runs.          *)
effectiveAllowRules(base, active, forced, tmp, running) ==
    MergeAll({base} \cup active \cup forced \cup tmp
             \cup (IF running THEN {ProxyRules} ELSE {}))
=============================================================================
