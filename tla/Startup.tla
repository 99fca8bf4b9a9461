------------------------------ MODULE Startup ------------------------------
(***************************************************************************)
(* The start of the cloud controller manager: the configuration            *)
(* (anx/provider/configuration), the provider (anx/provider/provider.go),  *)
(* the discovery of the LoadBalancers (loadbalancer/discovery), the fixed  *)
(* prefixes and their VIPs (loadbalancer/address) and the feature metric.  *)
(*                                                                         *)
(* Discovery runs once in the life of the process: what fails in it stays  *)
(* missing until the process is restarted.                                 *)
(*                                                                         *)
(* pc: "start"; "client", "list", "retrieve", "prefixes", the parts of     *)
(* Initialize; "running"; "down", the process ended and is started again;  *)
(* "panicked".                                                             *)
(***************************************************************************)
EXTENDS Integers, Sequences, FiniteSets

CONSTANTS
    Clusters, TagPrefixes, Resources, LBs,
    Starts,            \* what the process may be started with
    Tagged,            \* the tags of the resources in the Engine
    DefaultTagPrefix,  \* the default of AutoDiscoveryTagPrefix
    DefaultName,       \* the default of --cluster-name, "kubernetes"
    None,
    FaultKinds, MaxFaults

VARIABLES
    start,                      \* file, environment and flag of the process
    pc, config,
    k8s, loadBalancers, found,  \* the load balancer manager being made;
                                \* found: the resources not retrieved yet
    addressManager,
    manager, instances,         \* the managers the provider holds
    service, node,              \* does the controller have its manager?
    feature,                    \* features the metric shows as enabled
    faults

vars == <<start, pc, config, k8s, loadBalancers, found, addressManager, manager,
          instances, service, node, feature, faults>>

initVars == <<k8s, loadBalancers, found, addressManager>>
offered == <<service, node, feature>>

\* The feature metric; setupProviderMetrics marks both features disabled.
MarkFeatureEnabled(f) == feature' = feature \cup {f}
MarkFeaturesDisabled == feature' = {}

\* A prefix is the network it names: its bytes and the length of its mask.
Network == [ip : Seq(0..255), len : Nat]

\* The options of ProviderConfig that decide something here; None is unset.
Options ==
    [cluster : Clusters \cup {None}, tagPrefix : TagPrefixes \cup {None},
     auto : BOOLEAN \cup {None}, lb : Resources \cup {None},
     prefixes : Seq(Network) \cup {None}]

ASSUME StartupConstants ==
    /\ LBs \subseteq Resources
    /\ \A s \in Starts : s.file \in Options /\ s.env \in Options
                           /\ s.flag \in Clusters \cup {DefaultName}
    /\ Tagged \subseteq Resources \X (TagPrefixes \X (Clusters \cup {DefaultName}))
    /\ DefaultTagPrefix \in TagPrefixes
    /\ FaultKinds \subseteq {"start", "client", "list", "retrieve", "get", "prefix", "crash"}
    /\ MaxFaults \in Nat

TypeOK ==
    /\ pc \in {"start", "client", "list", "retrieve", "prefixes", "running", "down", "panicked"}
    /\ pc \in {"list", "retrieve", "prefixes", "running"} =>
         config.tagPrefix \in TagPrefixes /\ config.auto \in BOOLEAN
    /\ k8s \in BOOLEAN
    /\ loadBalancers \subseteq Resources \cup {None}
    /\ found \subseteq Resources
    /\ addressManager # None => addressManager.auto \in BOOLEAN
    /\ manager \in BOOLEAN /\ instances \in BOOLEAN
    /\ service \in BOOLEAN /\ node \in BOOLEAN
    /\ feature \subseteq {"load_balancer_provisioning", "instances_v2"}
    /\ faults \in 0..MaxFaults

Fault(k) ==
    /\ k \in FaultKinds
    /\ faults < MaxFaults
    /\ faults' = faults + 1

------------------------------------------------------------------------------
(***************************************************************************)
(* NewProviderConfig: the file, then the environment, then the flag.       *)
(***************************************************************************)
Override(new, old) == IF new # None THEN new ELSE old

\* envconfig.Process: a variable that is not set leaves the option alone, but
\* if the option has a default, it gets that.
envconfig_NoDefault(file, env) ==
    [cluster |-> Override(env.cluster, file.cluster),
     tagPrefix |-> Override(env.tagPrefix, file.tagPrefix),
     auto |-> Override(env.auto, Override(file.auto, FALSE)),
     lb |-> Override(env.lb, file.lb),
     prefixes |-> Override(env.prefixes, Override(file.prefixes, <<>>))]

envconfig(file, env) ==
    [cluster |-> Override(env.cluster, file.cluster),
     tagPrefix |-> Override(env.tagPrefix, DefaultTagPrefix),
     auto |-> Override(env.auto, Override(file.auto, FALSE)),
     lb |-> Override(env.lb, file.lb),
     prefixes |-> Override(env.prefixes, Override(file.prefixes, <<>>))]

applyCliFlagsToProviderConfig_Always(c, flag) == [c EXCEPT !.cluster = flag]

applyCliFlagsToProviderConfig(c, flag) ==
    IF flag # DefaultName THEN [c EXCEPT !.cluster = flag] ELSE c

NewProviderConfig(s) == applyCliFlagsToProviderConfig(envconfig(s.file, s.env), s.flag)

\* The tag discovery looks for.
tag == <<config.tagPrefix, config.cluster>>

------------------------------------------------------------------------------
(***************************************************************************)
(* calculateVIP: all host bits to one, then the last byte less one.        *)
(***************************************************************************)
\* The loop of bitMaskForN: its bits differ, so + is |.
firstBits[n \in 0..7] == IF n = 0 THEN 0 ELSE firstBits[n - 1] + 2^(8 - n)

bitMaskForN(n) ==
    CASE n >= 8 -> 255
      [] n \in 0..7 -> firstBits[n]
      [] OTHER -> 0

\* byte | ^mask: the complement of a mask is a power of two less one.
orNot(byte, mask) == byte - (byte % (256 - mask)) + (255 - mask)

calculateVIP_WholeMask(net) ==
    LET ret == [i \in DOMAIN net.ip |-> orNot(net.ip[i], bitMaskForN(net.len))]
    IN  [ret EXCEPT ![Len(ret)] = (@ - 1) % 256]

calculateVIP(net) ==
    LET ret == [i \in DOMAIN net.ip |-> orNot(net.ip[i], bitMaskForN(net.len - (i - 1) * 8))]
    IN  [ret EXCEPT ![Len(ret)] = (@ - 1) % 256]

------------------------------------------------------------------------------
(***************************************************************************)
(* newAnxProvider and Initialize.                                          *)
(***************************************************************************)
NewAnxProvider ==
    /\ pc = "start"
    /\ pc' = "client"
    /\ config' = NewProviderConfig(start)
    /\ MarkFeaturesDisabled
    /\ UNCHANGED <<start, initVars, manager, instances, service, node, faults>>

\* An error on the way is fatal.
StartFailed ==
    /\ pc = "start"
    /\ Fault("start")
    /\ pc' = "down"
    /\ UNCHANGED <<start, config, initVars, manager, instances, offered>>

\* builder.Client; without it New goes on, and collisions are not looked for.
Client ==
    /\ pc = "client"
    /\ pc' = "list"
    /\ \/ k8s' = TRUE /\ UNCHANGED faults
       \/ k8s' = FALSE /\ Fault("client")
    /\ UNCHANGED <<start, config, loadBalancers, found, addressManager, manager,
                   instances, offered>>

\* The end of Initialize: what loadbalancer.New returned, and the instances.
Initialized_OnlyIfNew(ok) ==
    /\ pc' = "running"
    /\ manager' = ok
    /\ instances' = ok

Initialized(ok) ==
    /\ pc' = "running"
    /\ manager' = ok
    /\ instances' = TRUE

\* configureLoadBalancers: the one of the configuration, or a List.
List ==
    /\ pc = "list"
    /\ IF config.auto
         THEN /\ pc' = "retrieve"
              /\ found' = {r \in Resources : <<r, tag>> \in Tagged}
              /\ UNCHANGED loadBalancers
         ELSE /\ pc' = "prefixes"
              /\ loadBalancers' = {config.lb}
              /\ UNCHANGED found
    /\ UNCHANGED <<start, config, k8s, addressManager, manager, instances, offered, faults>>

ListFailed ==
    /\ pc = "list"
    /\ config.auto
    /\ Fault("list")
    /\ Initialized(FALSE)
    /\ UNCHANGED <<start, config, initVars, offered>>

\* DiscoverLoadBalancers: a resource that is no LoadBalancer, or can not be
\* retrieved as one, is left out.
Retrieve_Strict(r) ==
    /\ pc = "retrieve"
    /\ r \in found
    /\ found' = found \ {r}
    /\ IF r \in LBs
         THEN /\ loadBalancers' = loadBalancers \cup {r}
              /\ UNCHANGED <<pc, manager, instances>>
         ELSE /\ Initialized(FALSE)
              /\ UNCHANGED loadBalancers
    /\ UNCHANGED <<start, config, k8s, addressManager, offered, faults>>

Retrieve(r) ==
    /\ pc = "retrieve"
    /\ r \in found
    /\ found' = found \ {r}
    /\ loadBalancers' = IF r \in LBs THEN loadBalancers \cup {r} ELSE loadBalancers
    /\ UNCHANGED <<start, pc, config, k8s, addressManager, manager, instances, offered, faults>>

GetFailed(r) ==
    /\ pc = "retrieve"
    /\ r \in found
    /\ Fault("get")
    /\ found' = found \ {r}
    /\ UNCHANGED <<start, pc, config, k8s, loadBalancers, addressManager, manager,
                   instances, offered>>

\* The retriever fails: the whole discovery does.
RetrieveFailed ==
    /\ pc = "retrieve"
    /\ found # {}
    /\ Fault("retrieve")
    /\ Initialized(FALSE)
    /\ UNCHANGED <<start, config, initVars, offered>>

\* ErrNoLoadBalancers.
Discovered ==
    /\ pc = "retrieve"
    /\ found = {}
    /\ IF loadBalancers = {}
         THEN Initialized(FALSE)
         ELSE /\ pc' = "prefixes"
              /\ UNCHANGED <<manager, instances>>
    /\ UNCHANGED <<start, config, initVars, offered, faults>>

\* configurePrefixes: NewWithPrefixes, or NewWithAutoDiscovery, or neither.
ConfigurePrefixes ==
    /\ pc = "prefixes"
    /\ addressManager' =
         CASE config.prefixes # <<>> ->
                [auto |-> FALSE,
                 vips |-> [i \in DOMAIN config.prefixes |-> calculateVIP(config.prefixes[i])]]
           [] config.prefixes = <<>> /\ config.auto -> [auto |-> TRUE, vips |-> <<>>]
           [] OTHER -> None
    /\ Initialized(TRUE)
    /\ UNCHANGED <<start, config, k8s, loadBalancers, found, offered, faults>>

\* newPrefix fails for one of them.
PrefixFailed ==
    /\ pc = "prefixes"
    /\ config.prefixes # <<>>
    /\ Fault("prefix")
    /\ Initialized(FALSE)
    /\ UNCHANGED <<start, config, initVars, offered>>

------------------------------------------------------------------------------
(***************************************************************************)
(* The controllers ask for their manager once; the service controller does *)
(* not run without one.                                                    *)
(***************************************************************************)
LoadBalancer_MarkedFirst ==
    /\ pc = "running"
    /\ ~service
    /\ service' = manager
    /\ MarkFeatureEnabled("load_balancer_provisioning")
    /\ UNCHANGED <<start, pc, config, initVars, manager, instances, node, faults>>

LoadBalancer ==
    /\ pc = "running"
    /\ ~service
    /\ manager
    /\ service' = TRUE
    /\ MarkFeatureEnabled("load_balancer_provisioning")
    /\ UNCHANGED <<start, pc, config, initVars, manager, instances, node, faults>>

InstancesV2 ==
    /\ pc = "running"
    /\ ~node
    /\ instances
    /\ node' = TRUE
    /\ MarkFeatureEnabled("instances_v2")
    /\ UNCHANGED <<start, pc, config, initVars, manager, instances, service, faults>>

\* The first Service that needs an address: AllocateAddresses of a nil address
\* manager is a panic.
AllocateAddresses ==
    /\ pc = "running"
    /\ service
    /\ addressManager = None
    /\ pc' = "panicked"
    /\ UNCHANGED <<start, config, initVars, manager, instances, offered, faults>>

Crash ==
    /\ pc # "down"
    /\ Fault("crash")
    /\ pc' = "down"
    /\ UNCHANGED <<start, config, initVars, manager, instances, offered>>

\* The process is started again, with all it knew forgotten.
Restart ==
    /\ pc \in {"down", "panicked"}
    /\ pc' = "start"
    /\ config' = None
    /\ k8s' = FALSE
    /\ loadBalancers' = {} /\ found' = {}
    /\ addressManager' = None
    /\ manager' = FALSE /\ instances' = FALSE
    /\ service' = FALSE /\ node' = FALSE
    /\ feature' = {}
    /\ UNCHANGED <<start, faults>>

------------------------------------------------------------------------------
Init ==
    /\ start \in Starts
    /\ pc = "start"
    /\ config = None
    /\ k8s = FALSE
    /\ loadBalancers = {} /\ found = {}
    /\ addressManager = None
    /\ manager = FALSE /\ instances = FALSE
    /\ service = FALSE /\ node = FALSE
    /\ feature = {}
    /\ faults = 0

Work ==
    \/ NewAnxProvider \/ Client \/ List \/ Discovered \/ ConfigurePrefixes
    \/ \E r \in Resources : Retrieve(r)

Next ==
    \/ Work \/ LoadBalancer \/ InstancesV2 \/ AllocateAddresses \/ Restart
    \/ StartFailed \/ ListFailed \/ RetrieveFailed \/ PrefixFailed \/ Crash
    \/ \E r \in Resources : GetFailed(r)

Spec == Init /\ [][Next]_vars

(***************************************************************************)
(* The process goes on, asks what it has to ask, and is started again when *)
(* it ended (the Deployment it runs in).                                   *)
(***************************************************************************)
FairSpec ==
    Spec /\ WF_vars(Work) /\ WF_vars(LoadBalancer) /\ WF_vars(InstancesV2) /\ WF_vars(Restart)

------------------------------------------------------------------------------
\* The name the user gave the cluster, the strongest source first.
NameGiven ==
    IF start.flag # DefaultName THEN start.flag
    ELSE IF start.env.cluster # None THEN start.env.cluster
    ELSE start.file.cluster

\* LoadBalancers tagged for a cluster of that name, with the prefix or any.
TaggedFor(name, prefixes) == {r \in LBs : \E p \in prefixes : <<r, <<p, name>>>> \in Tagged}

(***************************************************************************)
(* With autodiscovery the manager only ever works on LoadBalancers, and on *)
(* none that is tagged for another cluster of the same customer, whichever *)
(* of the three sources the name comes from (NewProviderConfig,            *)
(* DiscoverLoadBalancers).                                                 *)
(***************************************************************************)
OnlyOwnLoadBalancers ==
    service /\ config.auto => loadBalancers \subseteq TaggedFor(NameGiven, TagPrefixes)

(***************************************************************************)
(* A start in which no request fails ends with a load balancer manager     *)
(* that has every LoadBalancer tagged for it, whatever else carries that   *)
(* tag; without autodiscovery, with the configured one.                    *)
(***************************************************************************)
CleanStartIsComplete ==
    pc = "running" /\ faults = 0 =>
        IF config.auto
          THEN LET mine == TaggedFor(NameGiven, {config.tagPrefix})
               IN  IF mine = {} THEN ~manager ELSE manager /\ loadBalancers = mine
          ELSE manager /\ loadBalancers = {config.lb}

(***************************************************************************)
(* The feature metric tells which managers the controllers have, also      *)
(* after a start that failed in part and after a restart (LoadBalancer,    *)
(* InstancesV2, setupProviderMetrics).                                     *)
(***************************************************************************)
FeaturesAreOffered ==
    /\ "load_balancer_provisioning" \in feature <=> service
    /\ "instances_v2" \in feature <=> node

\* Bit k of an address, the most significant one first.
Bit(ip, k) == (ip[(k - 1) \div 8 + 1] \div 2^(7 - ((k - 1) % 8))) % 2

(***************************************************************************)
(* The VIP of a fixed prefix is "the IP address before the broadcast       *)
(* address": the bits of the network, then ones, then a zero.  The prefix  *)
(* has to have two addresses; of a /32 or a /128 calculateVIP returns an   *)
(* address outside.                                                        *)
(***************************************************************************)
VIPIsBeforeBroadcast ==
    addressManager # None =>
        \A i \in DOMAIN addressManager.vips :
            LET net == config.prefixes[i]
                width == 8 * Len(net.ip)
            IN  net.len < width =>
                  \A k \in 1..width :
                      Bit(addressManager.vips[i], k) =
                          IF k <= net.len THEN Bit(net.ip, k)
                          ELSE IF k < width THEN 1 ELSE 0

(***************************************************************************)
(* Nodes are managed in the end, whatever goes wrong with LoadBalancers    *)
(* and prefixes, because Initialize logs the error of loadbalancer.New and *)
(* goes on; only Services that make the process panic again and again can  *)
(* prevent it.                                                             *)
(***************************************************************************)
NodesAreManaged == <>[]node \/ []<>(pc = "panicked")

(***************************************************************************)
(* "In order to tell the cloud contrroller manager which LoadBalancer      *)
(* Object is to be configured you have the following options": setting     *)
(* loadBalancerIdentifier is enough, and Services can be served.           *)
(***************************************************************************)
IdentifierSuffices == pc # "panicked"
=============================================================================
