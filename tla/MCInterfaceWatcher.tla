------------------------- MODULE MCInterfaceWatcher -------------------------
(* Small instances of InterfaceWatcher: a Wi-Fi interface that comes, goes, *)
(* joins a network and learns its gateway, which a ruleset is for, and      *)
(* a client.                                                                *)
EXTENDS InterfaceWatcher

Wifi(ssid, gateways) ==
    [name |-> "wlan0", type |-> "device", addrs |-> {}, ssid |-> ssid, bssid |-> "",
     gatewayMACs |-> gateways]

WatcherInfos == {Wifi("", {}), Wifi("office", {"gw"})}

Rules(flags, marks) == [flags |-> flags, keys |-> {<<"allowed_marks", m>> : m \in marks}]

ByGateway == [group |-> "gateway_macs", value |-> "gw"]
ByType == [group |-> "interface_types", value |-> "device"]
WatcherPredicates == {ByGateway, ByType}

Office ==
    [rules |-> Rules({"enable_v6"}, {"m2"}), disabled |-> FALSE, matchAll |-> FALSE,
     trigger |-> {ByGateway}]
WatcherOptions ==
    {[include |-> {ByType}, ignore |-> {}, base |-> Rules({"enable_v4"}, {"m1"}),
      rulesets |-> [n \in {"office"} |-> Office]]}

(* What a client may ask for. *)
WatcherTmp == {[interfaces |-> {"wlan0"}, rules |-> Rules({}, {"m3"})]}
=============================================================================
