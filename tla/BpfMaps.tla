------------------------------- MODULE BpfMaps -------------------------------
(***************************************************************************)
(* The seven eBPF hash maps of killswitch.c and the code of bpf_maps.go    *)
(* that writes one interface's policy into them, one map operation (one    *)
(* system call) per step.  Packets are filtered between any two of these   *)
(* steps: module PacketFilter adds them.                                   *)
(*                                                                         *)
(* All interfaces share the allowlist maps, so one interface's keys can    *)
(* use up the capacity another one needs.                                  *)
(***************************************************************************)
EXTENDS AllowRules, FiniteSets

CONSTANTS
    Ifaces,     \* interface indexes
    Policies,   \* the policies the daemon may write
    MaxEntries  \* max_entries of the maps in killswitch.c

ASSUME PoliciesAssumption == Policies \subseteq AllowRules
ASSUME MaxEntriesAssumption == MaxEntries \in Nat

VARIABLES
    runtimeConfig,  \* map runtime_config: partial function, ifindex to flags
    entries,        \* the six allowlist maps: a set of <<ifindex, key>>
    pc,             \* what the writer does next
    job,            \* the call it executes: a set of at most one record
    pos             \* the map it has reached, 1..MapCount

mapVars == <<runtimeConfig, entries>>
writerVars == <<pc, job, pos>>
vars == <<runtimeConfig, entries, pc, job, pos>>

(* A call of writeEffectivePolicyForInterface or clearPolicyForInterface.  *)
Jobs ==
    [iface : Ifaces, op : {"write"}, rules : Policies]
    \cup [iface : Ifaces, op : {"clear"}]
Steps == {"idle", "delConfig", "clear", "put", "putConfig"}

(* The keys that are in the maps under an ifindex. *)
KeysOf(i) == {key \in Keys : <<i, key>> \in entries}

(* The entries that occupy one of the six maps. *)
InMap(n) == {e \in entries : MapOf(e[2]) = n}

Init ==
    /\ runtimeConfig = [i \in {} |-> {}]
    /\ entries = {}
    /\ pc = "idle"
    /\ job = {}
    /\ pos = 1

-----------------------------------------------------------------------------
(* The writer.  writeEffectivePolicyForInterface clears the interface,     *)
(* fills the allowlists and writes runtime_config last;                    *)
(* clearPolicyForInterface deletes runtime_config first.                   *)

(* Faulty variants, here and below, are slips that a property must catch;  *)
(* no action uses them.                                                    *)
ReturnKeepsJob ==
    /\ pc' = "idle"
    /\ pos' = 1
    /\ UNCHANGED job

Return ==
    /\ pc' = "idle"
    /\ job' = {}
    /\ pos' = 1

Begin(j) ==
    /\ pc = "idle"
    /\ pc' = "delConfig"
    /\ job' = {j}
    /\ UNCHANGED <<mapVars, pos>>

(* Faulty: the old runtime_config stays while the allowlists change. *)
DelConfigSkipped ==
    /\ pc = "delConfig"
    /\ pc' = "clear"
    /\ UNCHANGED <<mapVars, job, pos>>

(* clearRuntimeConfig: a missing entry is not an error. *)
DelConfig ==
    /\ pc = "delConfig"
    /\ \E j \in job :
          runtimeConfig' = [i \in DOMAIN runtimeConfig \ {j.iface} |-> runtimeConfig[i]]
    /\ pc' = "clear"
    /\ UNCHANGED <<entries, job, pos>>

(* clearAllowedMapForInterface: delete the interface's keys from the map   *)
(* at pos, in the order of the map's iterator, which is not determined.    *)
ClearEntry ==
    /\ pc = "clear"
    /\ \E j \in job : \E key \in KeysOf(j.iface) :
          /\ MapOf(key) = pos
          /\ entries' = entries \ {<<j.iface, key>>}
    /\ UNCHANGED <<runtimeConfig, writerVars>>

(* The iterator found no more keys of the interface in this map. *)
ClearNext ==
    /\ pc = "clear"
    /\ \E j \in job :
          /\ \A key \in KeysOf(j.iface) : MapOf(key) # pos
          /\ \/ /\ pos < MapCount
                /\ pos' = pos + 1
                /\ UNCHANGED <<pc, job>>
             \/ /\ pos = MapCount
                /\ j.op = "write"
                /\ pc' = "put"
                /\ pos' = 1
                /\ UNCHANGED job
             \/ /\ pos = MapCount
                /\ j.op = "clear"
                /\ Return
    /\ UNCHANGED mapVars

(* Faulty: the key is not scoped to its interface. *)
PutEntryUnscoped ==
    /\ pc = "put"
    /\ Cardinality(InMap(pos)) < MaxEntries
    /\ \E j \in job : \E key \in j.rules.keys \ KeysOf(j.iface) :
          /\ MapOf(key) = pos
          /\ entries' = entries \cup (Ifaces \X {key})
    /\ UNCHANGED <<runtimeConfig, writerVars>>

(* writeAllowedMap: one Update of a new key.  A full map refuses it. *)
PutEntry ==
    /\ pc = "put"
    /\ Cardinality(InMap(pos)) < MaxEntries
    /\ \E j \in job : \E key \in j.rules.keys \ KeysOf(j.iface) :
          /\ MapOf(key) = pos
          /\ entries' = entries \cup {<<j.iface, key>>}
    /\ UNCHANGED <<runtimeConfig, writerVars>>

PutNext ==
    /\ pc = "put"
    /\ \E j \in job : \A key \in j.rules.keys \ KeysOf(j.iface) : MapOf(key) # pos
    /\ IF pos < MapCount
       THEN pos' = pos + 1 /\ UNCHANGED pc
       ELSE pos' = 1 /\ pc' = "putConfig"
    /\ UNCHANGED <<mapVars, job>>

(* writeRuntimeConfig: only now is the new policy visible as a whole. *)
PutConfig ==
    /\ pc = "putConfig"
    /\ Cardinality(DOMAIN runtimeConfig) < MaxEntries
    /\ \E j \in job :
          runtimeConfig' = [i \in DOMAIN runtimeConfig \cup {j.iface} |->
                               IF i = j.iface THEN j.rules.flags ELSE runtimeConfig[i]]
    /\ Return
    /\ UNCHANGED entries

(* An Update finds the map full. *)
MapFull ==
    /\ \/ /\ pc = "put"
          /\ Cardinality(InMap(pos)) >= MaxEntries
          /\ \E j \in job : \E key \in j.rules.keys \ KeysOf(j.iface) : MapOf(key) = pos
       \/ /\ pc = "putConfig"
          /\ Cardinality(DOMAIN runtimeConfig) >= MaxEntries
    /\ Return
    /\ UNCHANGED mapVars

(* Any other error of a map operation, the iterator's included (it gives   *)
(* up when keys deleted under it make it start over too often).  The       *)
(* function returns at once and undoes nothing.                            *)
SyscallFails ==
    /\ pc # "idle"
    /\ Return
    /\ UNCHANGED mapVars

WriterStep ==
    \/ DelConfig
    \/ ClearEntry
    \/ ClearNext
    \/ PutEntry
    \/ PutNext
    \/ PutConfig
    \/ MapFull
    \/ SyscallFails

Next == WriterStep \/ \E j \in Jobs : Begin(j)

Spec == Init /\ [][Next]_vars

-----------------------------------------------------------------------------
(* Properties. *)

(* The variables keep their types and the writer's registers agree. *)
TypeOK ==
    /\ DOMAIN runtimeConfig \subseteq Ifaces
    /\ runtimeConfig \in [DOMAIN runtimeConfig -> SUBSET Flags]
    /\ entries \subseteq Ifaces \X Keys
    /\ pc \in Steps
    /\ job \in SUBSET Jobs
    /\ \A j1, j2 \in job : j1 = j2
    /\ (pc = "idle") <=> (job = {})
    /\ pos \in 1..MapCount

(* What the filter would read for an interface that has a runtime_config.  *)
PolicyOf(i) == [flags |-> runtimeConfig[i], keys |-> KeysOf(i)]

(* The maps as a store of whole policies. *)
inForce == [i \in DOMAIN runtimeConfig |-> PolicyOf(i)]

(* The maps implement the store of module PolicyStore: an interface with a *)
(* runtime_config always has the complete allowlists of the policy that    *)
(* was requested for it, no key more and no key less, whatever failed or   *)
(* was left behind by earlier calls (bpf_maps.go, writeEffectivePolicyFor- *)
(* Interface and clearPolicyForInterface).                                 *)
Store == INSTANCE PolicyStore WITH inForce <- inForce, request <- job
ImplementsPolicyStore == Store!Spec
=============================================================================
