----------------------------- MODULE MCGeoLookup -----------------------------
(* Values for TLC: reports that move a node between IPv4 and IPv6, to an    *)
(* address that may not be looked up, or that leave the addresses out; and  *)
(* edits that set, clear or leave out the overrides.                        *)
EXTENDS GeoLookup, TLC

CONSTANTS IPv4, IPv6, Private

AllAddresses == {IPv4, IPv6, Private}
Routable     == {IPv4, IPv6}
Ips(v4, v6)  == [v4 |-> v4, v6 |-> v6]
MovingNode   == {Omitted, Ips(IPv4, IPv6), Ips(NoIP, IPv6), Ips(Private, NoIP)}
Edit(ip, country) == [ip |-> ip, country |-> country]
SomePatches  == {Edit(IPv4, Omitted), Edit(NoIP, Omitted), Edit(Omitted, FALSE), NoPatch}
==============================================================================
