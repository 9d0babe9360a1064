---------------------------- MODULE BpfMapsProofs ----------------------------
(***************************************************************************)
(* The eBPF maps implement the store of whole policies, for any number of  *)
(* interfaces, keys and policies and any map size.                         *)
(***************************************************************************)
EXTENDS BpfMaps, TLAPS

(* The key never leaves the six maps. *)
LEMMA MapOfRange == \A key : MapOf(key) \in 1..MapCount
  BY DEF MapOf, MapCount

(* What the writer has established when it reaches each step of            *)
(* writeEffectivePolicyForInterface.  Without it the allowlists could hold *)
(* anything at the moment runtime_config makes them count:                 *)
(*  - it starts at the first map;                                          *)
(*  - while the allowlists change, runtime_config has no entry;            *)
(*  - the maps before pos are cleared;                                     *)
(*  - then only keys of the new policy are there, and all those of the     *)
(*    maps before pos;                                                     *)
(*  - at the end, exactly those of the new policy.                         *)
WriterInv ==
    /\ pc \notin {"clear", "put"} => pos = 1
    /\ pc \in {"clear", "put", "putConfig"} =>
          \A j \in job : j.iface \notin DOMAIN runtimeConfig
    /\ pc = "clear" =>
          \A j \in job : \A key \in KeysOf(j.iface) : MapOf(key) >= pos
    /\ pc \in {"put", "putConfig"} =>
          \A j \in job : j.op = "write" /\ KeysOf(j.iface) \subseteq j.rules.keys
    /\ pc = "put" =>
          \A j \in job : \A key \in j.rules.keys : MapOf(key) < pos => key \in KeysOf(j.iface)
    /\ pc = "putConfig" =>
          \A j \in job : KeysOf(j.iface) = j.rules.keys

IInv == TypeOK /\ WriterInv

(* A policy's keys are keys. *)
LEMMA PolicyKeys ==
    ASSUME NEW j \in Jobs, j.op = "write"
    PROVE  /\ j.iface \in Ifaces
           /\ j.rules \in AllowRules
           /\ j.rules.keys \subseteq Keys
           /\ j.rules.flags \subseteq Flags
           /\ j.rules = [flags |-> j.rules.flags, keys |-> j.rules.keys]
  BY PoliciesAssumption DEF Jobs, AllowRules

(* A call is about one of the interfaces. *)
LEMMA JobIface == \A j \in Jobs : j.iface \in Ifaces
  BY DEF Jobs

(* Empty maps and an idle writer satisfy it. *)
LEMMA InitIInv == Init => IInv
  BY DEF Init, IInv, TypeOK, WriterInv, Steps, MapCount, KeysOf

(* Every step of the writer, and every call, keeps the types. *)
LEMMA TypeStep == IInv /\ [Next]_vars => TypeOK'
  <1> SUFFICES ASSUME IInv, [Next]_vars PROVE TypeOK'
    OBVIOUS
  <1> USE DEF IInv, TypeOK, Steps, MapCount
  <1>1. ASSUME NEW j \in Jobs, Begin(j) PROVE TypeOK'
    BY <1>1 DEF Begin, mapVars
  <1>2. CASE DelConfig
    BY <1>2 DEF DelConfig
  <1>3. CASE ClearEntry
    BY <1>3 DEF ClearEntry, writerVars
  <1>4. CASE ClearNext
    BY <1>4 DEF ClearNext, Return, mapVars
  <1>5. CASE PutEntry
    <2>1. PICK j \in job : \E key \in j.rules.keys : entries' = entries \cup {<<j.iface, key>>}
      BY <1>5 DEF PutEntry
    <2>2. j.iface \in Ifaces /\ j.rules.keys \subseteq Keys
      BY <1>5, PolicyKeys DEF PutEntry, WriterInv
    <2> QED BY <1>5, <2>1, <2>2 DEF PutEntry, writerVars
  <1>6. CASE PutNext
    BY <1>6 DEF PutNext, mapVars
  <1>7. CASE PutConfig
    <2>1. PICK j \in job :
             runtimeConfig' = [i \in DOMAIN runtimeConfig \cup {j.iface} |->
                                  IF i = j.iface THEN j.rules.flags ELSE runtimeConfig[i]]
      BY <1>7 DEF PutConfig
    <2>2. j.iface \in Ifaces /\ j.rules.flags \subseteq Flags
      BY <1>7, PolicyKeys DEF PutConfig, WriterInv
    <2> QED BY <1>7, <2>1, <2>2 DEF PutConfig, Return
  <1>8. CASE MapFull
    BY <1>8 DEF MapFull, Return, mapVars
  <1>9. CASE SyscallFails
    BY <1>9 DEF SyscallFails, Return, mapVars
  <1>10. CASE UNCHANGED vars
    BY <1>10 DEF vars
  <1> QED BY <1>1, <1>2, <1>3, <1>4, <1>5, <1>6, <1>7, <1>8, <1>9, <1>10 DEF Next, WriterStep

(* Every step keeps what the writer has established. *)
LEMMA WriterStepInv == IInv /\ [Next]_vars => WriterInv'
  <1> SUFFICES ASSUME IInv, [Next]_vars PROVE WriterInv'
    OBVIOUS
  <1> USE DEF IInv, TypeOK
  <1>1. ASSUME NEW j \in Jobs, Begin(j) PROVE WriterInv'
    BY <1>1 DEF Begin, WriterInv
  <1>2. CASE DelConfig
    BY <1>2, MapOfRange DEF DelConfig, WriterInv, KeysOf, MapCount
  <1>3. CASE ClearEntry
    BY <1>3 DEF ClearEntry, writerVars, WriterInv, KeysOf
  <1>4. CASE ClearNext
    <2>1. PICK j \in job : \A key \in KeysOf(j.iface) : MapOf(key) # pos
      BY <1>4 DEF ClearNext
    <2>2. \A key : MapOf(key) \in Nat
      BY MapOfRange DEF MapCount
    <2>3. \A key \in KeysOf(j.iface) : MapOf(key) >= pos + 1
      BY <1>4, <2>1, <2>2 DEF ClearNext, WriterInv, MapCount
    <2>4. pos = MapCount => KeysOf(j.iface) = {}
      BY <2>3, MapOfRange DEF MapCount
    <2>5. UNCHANGED mapVars /\ job' \in {job, {}}
      BY <1>4 DEF ClearNext, Return
    <2> QED BY <1>4, <2>2, <2>3, <2>4, <2>5, MapOfRange
            DEF ClearNext, Return, WriterInv, KeysOf, MapCount, mapVars
  <1>5. CASE PutEntry
    BY <1>5 DEF PutEntry, writerVars, WriterInv, KeysOf
  <1>6. CASE PutNext
    <2>1. PICK j \in job : \A key \in j.rules.keys \ KeysOf(j.iface) : MapOf(key) # pos
      BY <1>6 DEF PutNext
    <2>2. \A key : MapOf(key) \in 1..6
      BY MapOfRange DEF MapCount
    <2>3. j.rules.keys \subseteq Keys
      BY <1>6, PolicyKeys DEF PutNext, WriterInv
    <2>4. \A key \in j.rules.keys : MapOf(key) < pos + 1 => key \in KeysOf(j.iface)
      BY <1>6, <2>1, <2>2 DEF PutNext, WriterInv, MapCount
    <2>5. CASE pos < MapCount
      BY <1>6, <2>4, <2>5 DEF PutNext, WriterInv, KeysOf, mapVars, MapCount
    <2>6. CASE ~(pos < MapCount)
      <3>1. \A key \in j.rules.keys : key \in KeysOf(j.iface)
        BY <2>2, <2>4, <2>6 DEF MapCount
      <3>2. KeysOf(j.iface) \subseteq j.rules.keys
        BY <1>6 DEF PutNext, WriterInv
      <3>3. KeysOf(j.iface) = j.rules.keys
        BY <3>1, <3>2
      <3> QED BY <1>6, <2>6, <3>3 DEF PutNext, WriterInv, KeysOf, mapVars, MapCount
    <2> QED BY <2>5, <2>6
  <1>7. CASE PutConfig
    BY <1>7 DEF PutConfig, Return, WriterInv
  <1>8. CASE MapFull
    BY <1>8 DEF MapFull, Return, WriterInv
  <1>9. CASE SyscallFails
    BY <1>9 DEF SyscallFails, Return, WriterInv
  <1>10. CASE UNCHANGED vars
    BY <1>10 DEF vars, WriterInv, KeysOf
  <1> QED BY <1>1, <1>2, <1>3, <1>4, <1>5, <1>6, <1>7, <1>8, <1>9, <1>10 DEF Next, WriterStep

(* The writer's invariant and the types hold in every reachable state of   *)
(* the maps (bpf_maps.go).                                                 *)
THEOREM MapsInvariant == Spec => []IInv
  <1>1. Init => IInv
    BY InitIInv
  <1>2. IInv /\ [Next]_vars => IInv'
    BY TypeStep, WriterStepInv DEF IInv
  <1> QED BY <1>1, <1>2, PTL DEF Spec

(* The types of the maps and of the writer's registers hold in every       *)
(* reachable state of bpf_maps.go's writer.                                *)
THEOREM MapsTypeOK == Spec => []TypeOK
  BY MapsInvariant, PTL DEF IInv

-----------------------------------------------------------------------------
(* The refinement. *)

(* What is in force depends on the interfaces that have a runtime_config   *)
(* only: the keys of another interface do not count.                       *)
LEMMA InForceKept ==
    ASSUME UNCHANGED runtimeConfig,
           \A i \in DOMAIN runtimeConfig : KeysOf(i)' = KeysOf(i)
    PROVE  UNCHANGED inForce
  BY DEF inForce, PolicyOf

(* Every step of the writer is a step of the store or changes nothing      *)
(* the store shows.                                                        *)
LEMMA StoreStep == IInv /\ [Next]_vars => [Store!Next]_Store!vars
  <1> SUFFICES ASSUME IInv, [Next]_vars PROVE [Store!Next]_Store!vars
    OBVIOUS
  <1> USE DEF IInv, TypeOK
  <1>1. ASSUME NEW j \in Jobs, Begin(j) PROVE Store!Next
    <2>1. UNCHANGED inForce
      BY <1>1, InForceKept DEF Begin, mapVars, KeysOf
    <2>2. Store!Ask(j)
      BY <1>1, <2>1 DEF Begin, Store!Ask
    <2>3. j \in Store!Requests
      BY <1>1 DEF Jobs, Store!Requests
    <2> QED BY <2>2, <2>3 DEF Store!Next
  <1>2. CASE DelConfig
    <2>1. PICK j \in job :
             runtimeConfig' = [i \in DOMAIN runtimeConfig \ {j.iface} |-> runtimeConfig[i]]
      BY <1>2 DEF DelConfig
    <2>2. \A i : KeysOf(i)' = KeysOf(i)
      BY <1>2 DEF DelConfig, KeysOf
    <2>3. inForce' = [i \in DOMAIN inForce \ {j.iface} |-> inForce[i]]
      BY <2>1, <2>2 DEF inForce, PolicyOf
    <2>4. Store!Withdraw
      BY <1>2, <2>3 DEF DelConfig, Store!Withdraw
    <2> QED BY <2>4 DEF Store!Next
  <1>3. CASE ClearEntry
    <2>1. PICK j \in job : \E key \in KeysOf(j.iface) : entries' = entries \ {<<j.iface, key>>}
      BY <1>3 DEF ClearEntry
    <2>2. j.iface \notin DOMAIN runtimeConfig
      BY <1>3 DEF ClearEntry, WriterInv
    <2>3. \A i \in DOMAIN runtimeConfig : KeysOf(i)' = KeysOf(i)
      BY <2>1, <2>2 DEF KeysOf
    <2>4. UNCHANGED <<inForce, job>>
      BY <1>3, <2>3, InForceKept DEF ClearEntry, writerVars
    <2> QED BY <2>4 DEF Store!vars
  <1>4. CASE ClearNext
    <2>1. UNCHANGED inForce
      BY <1>4, InForceKept DEF ClearNext, mapVars, KeysOf
    <2>2. CASE UNCHANGED job
      BY <2>1, <2>2 DEF Store!vars
    <2>3. CASE job' = {}
      BY <1>4, <2>1, <2>3 DEF ClearNext, Store!Stop, Store!Next
    <2> QED BY <1>4, <2>2, <2>3 DEF ClearNext, Return
  <1>5. CASE PutEntry
    <2>1. PICK j \in job : \E key \in j.rules.keys : entries' = entries \cup {<<j.iface, key>>}
      BY <1>5 DEF PutEntry
    <2>2. j.iface \notin DOMAIN runtimeConfig
      BY <1>5 DEF PutEntry, WriterInv
    <2>3. \A i \in DOMAIN runtimeConfig : KeysOf(i)' = KeysOf(i)
      BY <2>1, <2>2 DEF KeysOf
    <2>4. UNCHANGED <<inForce, job>>
      BY <1>5, <2>3, InForceKept DEF PutEntry, writerVars
    <2> QED BY <2>4 DEF Store!vars
  <1>6. CASE PutNext
    BY <1>6, InForceKept DEF PutNext, mapVars, KeysOf, Store!vars
  <1>7. CASE PutConfig
    <2>1. PICK j \in job :
             runtimeConfig' = [i \in DOMAIN runtimeConfig \cup {j.iface} |->
                                  IF i = j.iface THEN j.rules.flags ELSE runtimeConfig[i]]
      BY <1>7 DEF PutConfig
    <2>2. j.op = "write" /\ KeysOf(j.iface) = j.rules.keys /\ j.iface \notin DOMAIN runtimeConfig
      BY <1>7 DEF PutConfig, WriterInv
    <2>3. j.rules = [flags |-> j.rules.flags, keys |-> j.rules.keys]
      BY <2>2, PolicyKeys
    <2>4. \A i : KeysOf(i)' = KeysOf(i)
      BY <1>7 DEF PutConfig, KeysOf
    <2>5. inForce' = [i \in DOMAIN inForce \cup {j.iface} |->
                        IF i = j.iface THEN j.rules ELSE inForce[i]]
      BY <2>1, <2>2, <2>3, <2>4 DEF inForce, PolicyOf
    <2>6. DOMAIN inForce = DOMAIN runtimeConfig
      BY DEF inForce
    <2>7. Store!Install
      BY <1>7, <2>2, <2>5, <2>6 DEF PutConfig, Return, Store!Install
    <2> QED BY <2>7 DEF Store!Next
  <1>8. CASE MapFull
    <2>1. UNCHANGED inForce
      BY <1>8, InForceKept DEF MapFull, mapVars, KeysOf
    <2> QED BY <1>8, <2>1 DEF MapFull, Return, Store!Stop, Store!Next
  <1>9. CASE SyscallFails
    <2>1. UNCHANGED inForce
      BY <1>9, InForceKept DEF SyscallFails, mapVars, KeysOf
    <2> QED BY <1>9, <2>1 DEF SyscallFails, Return, Store!Stop, Store!Next
  <1>10. CASE UNCHANGED vars
    BY <1>10, InForceKept DEF vars, KeysOf, Store!vars
  <1> QED BY <1>1, <1>2, <1>3, <1>4, <1>5, <1>6, <1>7, <1>8, <1>9, <1>10 DEF Next, WriterStep

(* For any interfaces, keys, policies and map size: whatever fails half    *)
(* way and whatever earlier calls left behind, an interface that has a     *)
(* runtime_config has the complete allowlists of the policy last requested *)
(* for it and nothing else (bpf_maps.go).                                  *)
THEOREM MapsImplementStore == Spec => ImplementsPolicyStore
  <1>1. Init => Store!Init
    BY DEF Init, Store!Init, inForce
  <1>2. IInv /\ [Next]_vars => [Store!Next]_Store!vars
    BY StoreStep
  <1> QED BY <1>1, <1>2, MapsInvariant, PTL DEF Spec, ImplementsPolicyStore, Store!Spec
=============================================================================
