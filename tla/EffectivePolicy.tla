--------------------------- MODULE EffectivePolicy ---------------------------
(***************************************************************************)
(* Which interfaces the daemon manages and which rules apply on each of    *)
(* them: the pure part of interfaces.go, effective_policy.go and the       *)
(* option mutations of admin_mutation.go.                                  *)
(***************************************************************************)
EXTENDS AllowRules

CONSTANTS
    RulesetNames,   \* names a ruleset may have
    Owners,         \* admin API connections
    IfNames,        \* names an interface may have
    Infos,          \* what listInterfaces may report about an interface
    Predicates      \* selector and trigger entries

(* An entry of interface_types, interface_names, ... is a record of the    *)
(* list it stands in and its value; a regular expression is the set of     *)
(* names it matches.  An unset SSID or BSSID is the empty string.          *)
Groups == {"interface_types", "interface_names", "interface_regexps",
           "ip_addrs", "ssids", "bssids", "gateway_macs"}
SelectorGroups == {"interface_types", "interface_names", "interface_regexps"}

ASSUME InfosAssumption ==
    \A info \in Infos :
        /\ info = [name |-> info.name, type |-> info.type, addrs |-> info.addrs, ssid |-> info.ssid,
                   bssid |-> info.bssid, gatewayMACs |-> info.gatewayMACs]
        /\ info.name \in IfNames

Trigger == (SUBSET Predicates) \ {{}}
Ruleset == [rules : AllowRules, disabled : BOOLEAN, matchAll : BOOLEAN, trigger : Trigger]

(* A Go map with keys in S and values in T. *)
PartialFunction(f, S, T) ==
    /\ DOMAIN f \subseteq S
    /\ f \in [DOMAIN f -> T]

(* The part of the Go options that can change after startup.  Both         *)
(* interface selectors are one set of predicates each.                     *)
IsOptions(o) ==
    /\ o = [include |-> o.include, ignore |-> o.ignore, base |-> o.base, rulesets |-> o.rulesets]
    /\ o.include \in (SUBSET Predicates) \ {{}}
    /\ o.ignore \in SUBSET Predicates
    /\ o.base \in AllowRules
    /\ PartialFunction(o.rulesets, RulesetNames, Ruleset)

(* The temporary rulesets by owner, and the number of times an owner has   *)
(* forced a ruleset on an interface name.  A count of zero is the absence  *)
(* of the Go map entry.                                                    *)
TmpRuleset == [interfaces : SUBSET IfNames, rules : AllowRules]
ForceRulesets == [RulesetNames -> [Owners -> [IfNames -> Nat]]]

-----------------------------------------------------------------------------
(* Selection and activation. *)

PredicateMatches(info, p) ==
    \/ p.group = "interface_types"   /\ info.type = p.value
    \/ p.group = "interface_names"   /\ info.name = p.value
    \/ p.group = "interface_regexps" /\ info.name \in p.value
    \/ p.group = "ip_addrs"          /\ p.value \in info.addrs
    \/ p.group = "ssids"             /\ info.ssid = p.value
    \/ p.group = "bssids"            /\ info.bssid = p.value
    \/ p.group = "gateway_macs"      /\ p.value \in info.gatewayMACs

interfaceMatchesIgnoreSelectors(info, opts) ==
    \/ info.name = "lo"
    \/ \E p \in opts.ignore : PredicateMatches(info, p)

interfaceMatchesSelectors(info, opts) ==
    /\ ~interfaceMatchesIgnoreSelectors(info, opts)
    /\ \E p \in opts.include : PredicateMatches(info, p)

(* The indexes among the listed interfaces that the selectors pick. *)
selectInterfaces(listed, opts) ==
    {i \in DOMAIN listed : interfaceMatchesSelectors(listed[i], opts)}

(* The Go code counts the predicates that match; matchAll compares the     *)
(* count with the number of predicates.                                    *)
rulesetTriggerMatchesInterface(info, trigger, matchAll) ==
    /\ trigger # {}
    /\ IF matchAll
       THEN \A p \in trigger : PredicateMatches(info, p)
       ELSE \E p \in trigger : PredicateMatches(info, p)

activeRulesetsForInterface(info, rulesets) ==
    {n \in DOMAIN rulesets :
        /\ ~rulesets[n].disabled
        /\ rulesetTriggerMatchesInterface(info, rulesets[n].trigger, rulesets[n].matchAll)}

(* Forcing ignores both the trigger and the disabled flag. *)
forcedRulesetsForInterface(info, rulesets, force) ==
    {n \in DOMAIN rulesets : \E o \in Owners : force[n][o][info.name] > 0}

temporaryRulesetsForInterface(info, tmp) ==
    {o \in DOMAIN tmp : info.name \in tmp[o].interfaces}

interfaceRules(info, opts, tmp, force, running) ==
    effectiveAllowRules(
        opts.base,
        {opts.rulesets[n].rules : n \in activeRulesetsForInterface(info, opts.rulesets)},
        {opts.rulesets[n].rules : n \in forcedRulesetsForInterface(info, opts.rulesets, force)},
        {tmp[o].rules : o \in temporaryRulesetsForInterface(info, tmp)},
        running)

(* The policy of every listed interface that the selectors pick. *)
effectivePoliciesForInterfaces(listed, opts, tmp, force, running) ==
    [i \in selectInterfaces(listed, opts) |->
        [info  |-> listed[i],
         rules |-> interfaceRules(listed[i], opts, tmp, force, running)]]

-----------------------------------------------------------------------------
(* Option mutations.  Each yields the set of options that result: none if  *)
(* the request is rejected.                                                *)

(* mutateStringList on the list at hand, a part of a set that holds all    *)
(* the lists: "set" replaces that list and leaves the others alone.        *)
mutateStringList(S, list, req) ==
    CASE req.op = "add"    -> S \cup req.values
      [] req.op = "remove" -> S \ req.values
      [] req.op = "set"    -> (S \ list) \cup req.values

mutatePredicates(S, req) == mutateStringList(S, {p \in S : p.group = req.list}, req)

(* A flag only supports "set"; the allowlists support all three. *)
mutateAllowRulesField(rules, req) ==
    IF req.list \in Flags
    THEN IF req.op # "set" THEN {}
         ELSE {[rules EXCEPT !.flags = IF req.on THEN @ \cup {req.list} ELSE @ \ {req.list}]}
    ELSE {[rules EXCEPT !.keys = mutateStringList(@, {key \in @ : key[1] = req.list}, req)]}

(* "add" refuses to overwrite; removing an unknown ruleset is no error. *)
mutateWholeRuleset(rulesets, req) ==
    CASE req.op = "remove" -> {[n \in DOMAIN rulesets \ {req.ruleset} |-> rulesets[n]]}
      [] req.op = "add" /\ req.ruleset \in DOMAIN rulesets -> {}
      [] OTHER -> {[n \in DOMAIN rulesets \cup {req.ruleset} |->
                       IF n = req.ruleset THEN req.def ELSE rulesets[n]]}

(* The Booleans only support "set", and a ruleset must keep at least one  *)
(* trigger predicate.                                                      *)
mutateRulesetField(rulesets, req) ==
    IF req.ruleset \notin DOMAIN rulesets THEN {}
    ELSE LET rs == rulesets[req.ruleset]
             changed ==
               CASE req.field = "disabled" ->
                       IF req.op = "set" THEN {[rs EXCEPT !.disabled = req.on]} ELSE {}
                 [] req.field = "match_all" ->
                       IF req.op = "set" THEN {[rs EXCEPT !.matchAll = req.on]} ELSE {}
                 [] req.field = "trigger" ->
                       {[rs EXCEPT !.trigger = mutatePredicates(@, req)]}
                 [] req.field = "policy" ->
                       {[rs EXCEPT !.rules = r] : r \in mutateAllowRulesField(rs.rules, req)}
         IN  {[rulesets EXCEPT ![req.ruleset] = c] : c \in {d \in changed : d.trigger # {}}}

(* The last check of mutateOptions keeps an include selector. *)
mutateOptions(opts, req) ==
    LET next ==
          CASE req.target = "interfaces" ->
                  {[opts EXCEPT !.include = mutatePredicates(@, req)]}
            [] req.target = "ignored_interfaces" ->
                  {[opts EXCEPT !.ignore = mutatePredicates(@, req)]}
            [] req.target = "base_policy" ->
                  IF req.op = "set" THEN {[opts EXCEPT !.base = req.rules]} ELSE {}
            [] req.target = "base_policy.field" ->
                  {[opts EXCEPT !.base = r] : r \in mutateAllowRulesField(opts.base, req)}
            [] req.target = "ruleset" ->
                  {[opts EXCEPT !.rulesets = r] : r \in mutateWholeRuleset(opts.rulesets, req)}
            [] req.target = "ruleset.field" ->
                  {[opts EXCEPT !.rulesets = r] : r \in mutateRulesetField(opts.rulesets, req)}
    IN  {o \in next : o.include # {}}

(* The requests that parse, by target.  The seven lists of a trigger and   *)
(* the six allowlists are told apart by the list a request names.          *)
Ops == {"add", "remove", "set"}
MapNames == {key[1] : key \in Keys}

MutationRequest ==
    [target : {"interfaces", "ignored_interfaces"}, op : Ops,
     list : SelectorGroups, values : SUBSET Predicates]
    \cup [target : {"base_policy"}, op : Ops, rules : AllowRules]
    \cup [target : {"base_policy.field"}, op : Ops, list : Flags, on : BOOLEAN]
    \cup [target : {"base_policy.field"}, op : Ops, list : MapNames, values : SUBSET Keys]
    \cup [target : {"ruleset"}, op : Ops, ruleset : RulesetNames, def : Ruleset]
    \cup [target : {"ruleset.field"}, field : {"disabled", "match_all"}, op : Ops,
          ruleset : RulesetNames, on : BOOLEAN]
    \cup [target : {"ruleset.field"}, field : {"trigger"}, op : Ops,
          ruleset : RulesetNames, list : Groups, values : SUBSET Predicates]
    \cup [target : {"ruleset.field"}, field : {"policy"}, op : Ops,
          ruleset : RulesetNames, list : Flags, on : BOOLEAN]
    \cup [target : {"ruleset.field"}, field : {"policy"}, op : Ops,
          ruleset : RulesetNames, list : MapNames, values : SUBSET Keys]
=============================================================================
