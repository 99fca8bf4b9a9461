----------------------- MODULE MCLoadBalancerManager -----------------------
(***************************************************************************)
(* Small instances of LoadBalancerManager.                                 *)
(***************************************************************************)
EXTENDS LoadBalancerManagerInv, TLC

PortSet(S) == {[name |-> x[1], num |-> x[2]] : x \in S}
Wish(fams, host, ports) == [families |-> fams, hostname |-> host, ports |-> PortSet(ports)]

Plain == Wish({"IPv4"}, FALSE, {<<"http", 80>>})
Dual == Wish({"IPv4", "IPv6"}, FALSE, {<<"http", 80>>})
Hostname == Wish({"IPv4"}, TRUE, {<<"web", 80>>})
BadFamily == Wish({"IPv4", None}, FALSE, {<<"http", 80>>})

Family == [a \in {"v4vip", "v4calc", "v6vip"} |-> IF a = "v6vip" THEN "IPv6" ELSE "IPv4"]

Prefix(f, vip, calculated) == [family |-> f, vip |-> vip, calculated |-> calculated]

\* An IPv4 prefix with and without a tagged VIP, and an IPv6 prefix.
Tagged == <<Prefix("IPv4", "v4vip", "v4calc"), Prefix("IPv6", "v6vip", "v6vip")>>
Untagged == <<Prefix("IPv4", None, "v4calc"), Prefix("IPv6", None, "v6vip")>>

WishesManager == {Plain, Dual, Hostname, BadFamily}
MayAskManager == [s \in Services |-> IF s = "s1" THEN {Dual, Hostname, BadFamily} ELSE {Plain}]
WishesHostname == {Plain, Hostname}
MayAskHostname == [s \in Services |-> WishesHostname]
PrefixesChanging == {Tagged, Untagged}
PrefixesFixed == {Tagged}

\* The theorems of LoadBalancerManagerProofs apply to these instances.
ASSUME SomeLBs /\ NumbersDiffer /\ SomePorts
=============================================================================
