----------------------------- MODULE StartupInv -----------------------------
(***************************************************************************)
(* The inductive invariant behind the safety theorems about the start: the *)
(* discovery works with the configuration of this start and loses nothing  *)
(* unless a request fails, and a new process offers nothing.               *)
(***************************************************************************)
EXTENDS Startup

\* What discovery looks for, and the LoadBalancers among it.
Listed == {r \in Resources : <<r, tag>> \in Tagged}
Mine == Listed \cap LBs

Configured == config = NewProviderConfig(start)

\* Whoever has found or offered something was configured.
ConfigInv ==
    /\ start \in Starts
    /\ pc \in {"client", "list", "retrieve", "prefixes", "running", "panicked"} => Configured
    /\ loadBalancers # {} \/ service \/ manager => Configured

\* Nothing is found before the List, and nothing is offered before the end of
\* Initialize.
FreshInv ==
    /\ pc \in {"start", "client", "list"} => loadBalancers = {} /\ found = {}
    /\ pc \in {"start", "client", "list", "retrieve", "prefixes"} => ~service /\ ~node /\ ~manager

\* What discovery has found is tagged for this cluster; without a failure all
\* of it is found, or still to be retrieved.
DiscoveryInv ==
    /\ Configured /\ config.auto => found \subseteq Listed /\ loadBalancers \subseteq Mine
    /\ pc = "retrieve" => config.auto
    /\ pc = "retrieve" /\ faults = 0 => loadBalancers \cup (found \cap LBs) = Mine
    /\ pc = "prefixes" /\ faults = 0 =>
         IF config.auto THEN loadBalancers = Mine /\ Mine # {} ELSE loadBalancers = {config.lb}
    /\ pc = "running" /\ faults = 0 =>
         IF config.auto THEN (IF Mine = {} THEN ~manager ELSE manager /\ loadBalancers = Mine)
                        ELSE manager /\ loadBalancers = {config.lb}

\* Discovery and what comes of it.
ManagerInv == TypeOK /\ ConfigInv /\ FreshInv /\ DiscoveryInv /\ FeaturesAreOffered

\* The VIPs are those of the configured prefixes, one for each.
AddressInv ==
    /\ pc \in {"start", "client", "list", "retrieve", "prefixes"} => addressManager = None
    /\ addressManager # None =>
         \A i \in DOMAIN addressManager.vips :
             /\ config.prefixes[i] \in Network
             /\ addressManager.vips[i] = calculateVIP(config.prefixes[i])

(***************************************************************************)
(* All of it: whatever was found or offered comes from the configuration   *)
(* of this start, a start without failures loses no LoadBalancer between   *)
(* the List and the manager (configureLoadBalancers,                       *)
(* DiscoverLoadBalancers, Initialize), and the address manager holds the   *)
(* VIPs of the prefixes of this start (configurePrefixes).                 *)
(***************************************************************************)
StartInv == ManagerInv /\ AddressInv
=============================================================================
