--------------------------- MODULE MCPolicyManager ---------------------------
(* Small instances of PolicyManager.  Interface indexes are                *)
(* interchangeable, and so are clients.                                    *)
EXTENDS PolicyManager, TLC

Symmetry == Permutations(Indexes) \cup Permutations(Owners)

NoKeys == {}
Mark(m) == <<"allowed_marks", m>>

Info(name, type, addrs, ssid) ==
    [name |-> name, type |-> type, addrs |-> addrs, ssid |-> ssid, bssid |-> "",
     gatewayMACs |-> {}]

ByName(n) == [group |-> "interface_names", value |-> n]
ByType(t) == [group |-> "interface_types", value |-> t]
BySSID(s) == [group |-> "ssids", value |-> s]
ByRegexp(N) == [group |-> "interface_regexps", value |-> N]

Rules(flags, keys) == [flags |-> flags, keys |-> keys]

OfficeRuleset ==
    [rules |-> Rules({"enable_v6"}, {Mark("m2")}), disabled |-> FALSE, matchAll |-> FALSE,
     trigger |-> {BySSID("office")}]
OfficeByName ==
    [OfficeRuleset EXCEPT !.trigger = {ByName("wlan0")}, !.disabled = TRUE]

Config(include, rulesets) ==
    [include |-> include, ignore |-> {}, base |-> Rules({"enable_v4"}, {Mark("m1")}),
     rulesets |-> rulesets]

MCPredicates == {ByName("wlan0"), ByType("device"), BySSID("office"), ByRegexp({"eth0"})}

-----------------------------------------------------------------------------
(* Changing networks: one client, two interfaces that come, go, change     *)
(* their name or join another Wi-Fi network.                               *)

NetInfos ==
    {Info("wlan0", "device", {}, ""), Info("wlan0", "device", {}, "office"),
     Info("eth0", "device", {"10.0.0.1"}, "")}
NetOptions == {Config({ByType("device")}, [n \in {"office"} |-> OfficeRuleset])}
NetRequests ==
    {[target |-> "ignored_interfaces", op |-> op, list |-> "interface_regexps",
      values |-> {ByRegexp({"eth0"})}] : op \in {"add", "remove"}}
NetTmp == {[interfaces |-> {"wlan0"}, rules |-> Rules({}, {Mark("m3")})]}

-----------------------------------------------------------------------------
(* Busy clients: two clients force, release and redefine a ruleset for an  *)
(* interface that stays and for a name that no interface has.              *)

ClientInfos == {Info("wlan0", "device", {}, "office"), Info("eth0", "device", {}, "")}
ClientOptions == {Config({ByType("device")}, [n \in {"office"} |-> OfficeRuleset])}
ClientRequests ==
    {[target |-> "ruleset", op |-> op, ruleset |-> "office", def |-> OfficeByName] :
        op \in {"add", "remove", "set"}}
    \cup {[target |-> "ruleset.field", field |-> "disabled", op |-> "set",
           ruleset |-> "office", on |-> on] : on \in BOOLEAN}
ClientProxy == {[enabled |-> b, running |-> b] : b \in BOOLEAN}
ClientTmp == {[interfaces |-> {"wlan0"}, rules |-> Rules({}, {Mark("m3")})]}

-----------------------------------------------------------------------------
(* One client asks for a temporary ruleset on both interfaces at once. *)

WriteTmp == {[interfaces |-> {"wlan0", "eth0"}, rules |-> Rules({}, {Mark("m3")})]}
=============================================================================
