----------------------------- MODULE PolicyStore -----------------------------
(***************************************************************************)
(* What the eBPF maps promise to the rest of the daemon: a store that      *)
(* holds at most one whole policy per interface.  A request to replace or  *)
(* remove a policy first takes the old one out of force and then, if all   *)
(* goes well, puts the new one in force in a single step.  A request that  *)
(* fails leaves the interface either as it was or with no policy, and no   *)
(* policy is what the filter treats as "drop".                             *)
(*                                                                         *)
(* BpfMaps is shown to implement this specification.                       *)
(***************************************************************************)
CONSTANTS
    Ifaces,     \* interface indexes
    Policies    \* the policies that may be requested

VARIABLES
    inForce,    \* partial function from interface to the policy in force
    request     \* the request being served, a set of at most one record

vars == <<inForce, request>>

Requests ==
    [iface : Ifaces, op : {"write"}, rules : Policies]
    \cup [iface : Ifaces, op : {"clear"}]

Init ==
    /\ inForce = [i \in {} |-> {}]
    /\ request = {}

(* The daemon asks for a policy to be written or cleared. *)
Ask(r) ==
    /\ request = {}
    /\ request' = {r}
    /\ UNCHANGED inForce

(* The old policy stops being in force. *)
Withdraw ==
    \E r \in request :
        /\ inForce' = [i \in DOMAIN inForce \ {r.iface} |-> inForce[i]]
        /\ UNCHANGED request

(* The new policy is in force, complete, in one step. *)
Install ==
    \E r \in request :
        /\ r.op = "write"
        /\ r.iface \notin DOMAIN inForce
        /\ inForce' = [i \in DOMAIN inForce \cup {r.iface} |->
                          IF i = r.iface THEN r.rules ELSE inForce[i]]
        /\ request' = {}

(* A removal is complete, or a request is given up after an error: nothing *)
(* is installed.                                                           *)
Stop ==
    /\ request # {}
    /\ request' = {}
    /\ UNCHANGED inForce

Next ==
    \/ \E r \in Requests : Ask(r)
    \/ Withdraw
    \/ Install
    \/ Stop

Spec == Init /\ [][Next]_vars
=============================================================================
