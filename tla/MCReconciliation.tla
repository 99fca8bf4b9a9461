-------------------------- MODULE MCReconciliation --------------------------
(***************************************************************************)
(* Small instances of Reconciliation: the Services TLC lets the controller *)
(* see, and what other users of the Engine own.                            *)
(***************************************************************************)
EXTENDS ReconciliationChanges, TLC

Port(e, n) == [External |-> e, Internal |-> n]
Service(ports, addrs, nodes) ==
    [ports |-> ports, externalAddresses |-> addrs, targetServers |-> nodes]

\* Two addresses of one family, which a Service has one after the other.
Family == [a \in Addrs |-> IF a = "v6" THEN "IPv6" ELSE "IPv4"]

\* A deleted Service asks for nothing.
Deleted == Service([p \in {} |-> Port(80, 80)], {}, {})

OnePort == Service("http" :> Port(80, 30080), {"v4"}, {"n1"})
MovedPort == Service("web" :> Port(80, 30080), {"v4"}, {"n1"})
Renumbered == Service("http" :> Port(443, 30443), {"v4b", "v6"}, {"n2"})
OtherNode == Service("http" :> Port(80, 30080), {"v4"}, {"n2"})
DualStack == Service("http" :> Port(80, 30080), {"v4", "v6"}, {"n1"})
TwoPorts ==
    Service("http" :> Port(80, 30080) @@ "web" :> Port(443, 30443), {"v4"}, {"n1"})

\* Two ports that swap their external port numbers, before any node is ready.
Plain == Service("http" :> Port(80, 30080) @@ "web" :> Port(443, 30443), {"v4"}, {})
Swapped == Service("http" :> Port(443, 30443) @@ "web" :> Port(80, 30080), {"v4"}, {})

\* No node is ready and no address allocated yet: a backend and a frontend.
Bare == Service("http" :> Port(80, 30080), {}, {})

\* Nothing but what the reconciliation creates.
NoForeignKey == [i \in Ids |-> NoKey]
NoForeignTag == [i \in Ids |-> "none"]

\* A backend of another Service on one of our LoadBalancers, and a frontend
\* that carries our tag on a LoadBalancer that is not ours.
ForeignKey ==
    [i \in Ids |-> CASE i = 1 -> Backend("lb1", "http")
                     [] i = 2 -> Frontend(None, "http", None)
                     [] OTHER -> NoKey]
ForeignTag ==
    [i \in Ids |-> CASE i = 1 -> "other" [] i = 2 -> "svc" [] OTHER -> "none"]

\* Moves of a Service between these never take a port away beside one that stays.
SpecsChanges == {Deleted, OnePort, MovedPort, OtherNode, DualStack}
SpecsPorts == {OnePort, TwoPorts}
SpecsSwapped == {Plain, Swapped}
SpecsOnePort == {Deleted, OnePort}
SpecsFaults == {Deleted, OnePort, Renumbered}
SpecsBare == {Deleted, Bare}
SpecsOne == {OnePort}

\* The theorems of ReconciliationRefinesProofs apply to these instances, where
\* the Engine refuses to destroy what others refer to.
ASSUME PortsDiffer
=============================================================================
