--------------------------- MODULE MCPacketFilter ---------------------------
(* Small instances of PacketFilter.  Interfaces are interchangeable. *)
EXTENDS PacketFilter, TLC

Symmetry == Permutations(Ifaces)

MCPorts == {<<"udp", 53>>, <<"tcp", 53>>}

Mark(m) == <<"allowed_marks", m>>

Packet(eth, proto, service) ==
    [eth |-> eth, header |-> TRUE, fragment |-> FALSE, proto |-> proto,
     payload |-> TRUE, service |-> service, mark |-> "m1", daddr |-> "a", dport |-> 53]

(* Policies that allow different packets, one all of them; they span       *)
(* several maps and share a mark: three interfaces need more marks, and    *)
(* more configs, than a capacity of two allows.                            *)
RacePolicies ==
    {[flags |-> {"enable_v4"}, keys |-> {Mark("m2"), <<"allowed_ports", <<"udp", 53>>>>}],
     [flags |-> {"allow_all"}, keys |-> {Mark("m2"), <<"allowed_v4_hosts", "a">>}]}

(* Packets for the branches of the parser: routed, bootstrap and malformed. *)
RacePackets ==
    {Packet("ipv4", "udp", "none"), Packet("ipv4", "tcp", "none"), Packet("ipv6", "tcp", "none"),
     Packet("ipv4", "udp", "dhcp"), Packet("ipv6", "icmpv6", "nd"),
     [Packet("ipv4", "udp", "none") EXCEPT !.fragment = TRUE],
     [Packet("ipv6", "tcp", "none") EXCEPT !.payload = FALSE]}

(* A mark list is emptied and then IPv4 is enabled for one host. *)
TornPolicies ==
    {[flags |-> {"enable_v4"}, keys |-> {<<"allowed_v4_hosts", "b">>}],
     [flags |-> {}, keys |-> {Mark("m1")}]}

TornPackets == {Packet("ipv4", "udp", "none")}
=============================================================================
