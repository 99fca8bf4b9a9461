---------------------------- MODULE StartupProofs ---------------------------
(***************************************************************************)
(* Proofs about Startup for every set of clusters, tags, resources and     *)
(* starts, and any number of failures: type correctness, the invariant of  *)
(* StartupInv, and what follows from it.                                   *)
(***************************************************************************)
EXTENDS StartupInv, TLAPS

\* What file, environment and flag come to.
LEMMA ConfigType ==
    ASSUME NEW s \in Starts
    PROVE  LET c == NewProviderConfig(s)
           IN  /\ c.tagPrefix \in TagPrefixes
               /\ c.auto \in BOOLEAN
               /\ c.lb \in Resources \cup {None}
               /\ c.cluster = IF s.flag # DefaultName THEN s.flag
                              ELSE IF s.env.cluster # None THEN s.env.cluster ELSE s.file.cluster
<1> DEFINE c == NewProviderConfig(s)
           e == envconfig(s.file, s.env)
<1>1. s.file \in Options /\ s.env \in Options /\ DefaultTagPrefix \in TagPrefixes
    BY StartupConstants
<1>2. /\ s.env.tagPrefix \in TagPrefixes \cup {None}
      /\ s.env.auto \in BOOLEAN \cup {None} /\ s.file.auto \in BOOLEAN \cup {None}
      /\ s.env.lb \in Resources \cup {None} /\ s.file.lb \in Resources \cup {None}
    BY <1>1 DEF Options
<1>3. /\ c.tagPrefix = e.tagPrefix /\ c.auto = e.auto /\ c.lb = e.lb
      /\ c.cluster = IF s.flag # DefaultName THEN s.flag ELSE e.cluster
    BY DEF NewProviderConfig, applyCliFlagsToProviderConfig, envconfig
<1>4. e.tagPrefix \in TagPrefixes
    BY <1>1, <1>2 DEF envconfig, Override
<1>5. e.auto \in BOOLEAN
  <2>1. e.auto = Override(s.env.auto, Override(s.file.auto, FALSE))
      BY DEF envconfig
  <2>2. Override(s.file.auto, FALSE) \in BOOLEAN
    <3>1. CASE s.file.auto = None
        BY <3>1 DEF Override
    <3>2. CASE s.file.auto # None
        BY <1>2, <3>2 DEF Override
    <3> QED
        BY <3>1, <3>2
  <2>3. CASE s.env.auto = None
      BY <2>1, <2>2, <2>3 DEF Override
  <2>4. CASE s.env.auto # None
      BY <1>2, <2>1, <2>4 DEF Override
  <2> QED
      BY <2>3, <2>4
<1>6. e.lb \in Resources \cup {None}
    BY <1>2 DEF envconfig, Override
<1>7. e.cluster = IF s.env.cluster # None THEN s.env.cluster ELSE s.file.cluster
    BY DEF envconfig, Override
<1> HIDE DEF e
<1> QED
    BY <1>3, <1>4, <1>5, <1>6, <1>7

LEMMA FaultType ==
    ASSUME faults \in 0..MaxFaults, NEW k, Fault(k)
    PROVE  faults' \in 0..MaxFaults /\ faults' # 0
BY StartupConstants DEF Fault

\* The configuration the parts of Initialize work with.
LEMMA ConfigKnown ==
    ASSUME ManagerInv, pc \in {"client", "list", "retrieve", "prefixes", "running", "panicked"}
    PROVE  /\ Configured /\ config.tagPrefix \in TagPrefixes /\ config.auto \in BOOLEAN
           /\ config.lb \in Resources \cup {None}
BY ConfigType DEF ManagerInv, ConfigInv, Configured

LEMMA ManagerInit == Init => ManagerInv
<1> SUFFICES ASSUME Init PROVE ManagerInv
    OBVIOUS
<1>1. k8s \in BOOLEAN /\ manager \in BOOLEAN /\ instances \in BOOLEAN /\ service \in BOOLEAN /\ node \in BOOLEAN
    BY DEF Init
<1>2. TypeOK
    BY <1>1, StartupConstants DEF Init, TypeOK
<1>3. ConfigInv /\ FreshInv
    BY DEF Init, ConfigInv, FreshInv
<1>4. DiscoveryInv
    BY DEF Init, DiscoveryInv
<1>5. FeaturesAreOffered
    BY DEF Init, FeaturesAreOffered
<1> QED
    BY <1>2, <1>3, <1>4, <1>5 DEF ManagerInv

------------------------------------------------------------------------------
\* The steps of a start.
LEMMA NewAnxProviderInv ==
    ASSUME ManagerInv, NewAnxProvider
    PROVE  ManagerInv'
<1>1. TypeOK /\ ConfigInv /\ FreshInv /\ DiscoveryInv /\ FeaturesAreOffered
    BY DEF ManagerInv
<1>2. /\ pc = "start" /\ pc' = "client" /\ config' = NewProviderConfig(start) /\ feature' = {}
      /\ UNCHANGED <<start, k8s, loadBalancers, found, addressManager, manager, instances, service, node, faults>>
    BY DEF NewAnxProvider, MarkFeaturesDisabled, initVars
<1>3. TypeOK'
    BY <1>1, <1>2 DEF TypeOK
<1>4. ConfigInv'
    BY <1>1, <1>2 DEF ConfigInv, Configured
<1>5. FreshInv'
    BY <1>1, <1>2 DEF FreshInv
<1>6. DiscoveryInv'
    BY <1>1, <1>2 DEF DiscoveryInv, FreshInv
<1>7. FeaturesAreOffered'
    BY <1>1, <1>2 DEF FeaturesAreOffered, FreshInv
<1> QED
    BY <1>3, <1>4, <1>5, <1>6, <1>7 DEF ManagerInv

LEMMA ClientInv ==
    ASSUME ManagerInv, Client
    PROVE  ManagerInv'
<1>1. TypeOK /\ ConfigInv /\ FreshInv /\ DiscoveryInv /\ FeaturesAreOffered
    BY DEF ManagerInv
<1>2. /\ pc = "client" /\ pc' = "list"
      /\ UNCHANGED <<start, config, loadBalancers, found, addressManager, manager, instances,
                     service, node, feature>>
    BY DEF Client, offered
<1>3. k8s' \in BOOLEAN
    BY DEF Client
<1>4. faults' \in 0..MaxFaults
    BY <1>1, FaultType DEF Client, TypeOK
<1>5. TypeOK'
    BY <1>1, <1>2, <1>3, <1>4, ConfigKnown DEF TypeOK
<1>6. ConfigInv' /\ FreshInv'
    BY <1>1, <1>2 DEF ConfigInv, Configured, FreshInv
<1>7. DiscoveryInv'
    BY <1>1, <1>2 DEF DiscoveryInv, FreshInv
<1>8. FeaturesAreOffered'
    BY <1>1, <1>2 DEF FeaturesAreOffered
<1> QED
    BY <1>5, <1>6, <1>7, <1>8 DEF ManagerInv

\* A step of Initialize within New: whatever it does to the LoadBalancers.
LEMMA DiscoveryStep ==
    ASSUME ManagerInv, pc \in {"list", "retrieve"}, pc' \in {"retrieve", "prefixes"},
           UNCHANGED <<start, config, k8s, addressManager, manager, instances, service, node, feature>>,
           faults' \in 0..MaxFaults, found' \subseteq Resources,
           loadBalancers' \subseteq Resources \cup {None}, DiscoveryInv'
    PROVE  ManagerInv'
<1>1. TypeOK /\ ConfigInv /\ FreshInv /\ FeaturesAreOffered
    BY DEF ManagerInv
<1>2. TypeOK'
    BY <1>1 DEF TypeOK
<1>3. ConfigInv' /\ FreshInv'
    BY <1>1 DEF ConfigInv, Configured, FreshInv
<1>4. FeaturesAreOffered'
    BY <1>1 DEF FeaturesAreOffered
<1> QED
    BY <1>2, <1>3, <1>4 DEF ManagerInv

LEMMA ListInv ==
    ASSUME ManagerInv, List
    PROVE  ManagerInv'
<1>1. TypeOK /\ ConfigInv /\ FreshInv /\ DiscoveryInv
    BY DEF ManagerInv
<1>2. /\ pc = "list" /\ UNCHANGED <<start, config, k8s, addressManager, manager, instances,
                                     service, node, feature, faults>>
      /\ loadBalancers = {} /\ found = {}
    BY <1>1 DEF List, offered, FreshInv
<1>3. Configured /\ config.auto \in BOOLEAN /\ config.lb \in Resources \cup {None}
    BY <1>2, ConfigKnown
<1>4. Listed' = Listed /\ Mine' = Mine /\ (Configured' <=> Configured)
    BY <1>2 DEF Listed, Mine, tag, Configured
<1>5. CASE config.auto
  <2>1. pc' = "retrieve" /\ found' = Listed /\ loadBalancers' = {}
      BY <1>2, <1>5 DEF List, Listed
  <2>2. DiscoveryInv'
      BY <1>2, <1>4, <1>5, <2>1 DEF DiscoveryInv, Mine
  <2>3. found' \subseteq Resources
      BY <2>1 DEF Listed
  <2> QED
      BY <1>1, <1>2, <2>1, <2>2, <2>3, DiscoveryStep DEF TypeOK
<1>6. CASE ~config.auto
  <2>1. pc' = "prefixes" /\ loadBalancers' = {config.lb} /\ found' = {}
      BY <1>2, <1>6 DEF List
  <2>2. DiscoveryInv'
      BY <1>2, <1>6, <2>1 DEF DiscoveryInv
  <2> QED
      BY <1>1, <1>2, <1>3, <2>1, <2>2, DiscoveryStep DEF TypeOK
<1> QED
    BY <1>5, <1>6

\* One of the listed resources is a LoadBalancer, or is left out.
LEMMA RetrieveInv ==
    ASSUME ManagerInv, NEW r \in Resources, Retrieve(r) \/ GetFailed(r)
    PROVE  ManagerInv'
<1>1. TypeOK /\ ConfigInv /\ FreshInv /\ DiscoveryInv
    BY DEF ManagerInv
<1>2. /\ pc = "retrieve" /\ pc' = "retrieve" /\ r \in found /\ found' = found \ {r}
      /\ UNCHANGED <<start, config, k8s, addressManager, manager, instances, service, node, feature>>
    BY DEF Retrieve, GetFailed, offered
<1>3. Configured /\ config.auto /\ found \subseteq Listed /\ loadBalancers \subseteq Mine
    BY <1>1, <1>2, ConfigKnown DEF DiscoveryInv
<1>4. Listed' = Listed /\ Mine' = Mine
    BY <1>2 DEF Listed, Mine, tag
<1>5. faults' \in 0..MaxFaults
    BY <1>1, FaultType DEF Retrieve, GetFailed, TypeOK
<1>6. loadBalancers' \subseteq Mine
    BY <1>2, <1>3 DEF Retrieve, GetFailed, Mine
<1>7. faults' = 0 => loadBalancers' \cup (found' \cap LBs) = Mine
  <2>1. CASE Retrieve(r)
      BY <1>1, <1>2, <2>1 DEF Retrieve, DiscoveryInv
  <2>2. CASE GetFailed(r)
      BY <1>1, <2>2, FaultType DEF GetFailed, TypeOK
  <2> QED
      BY <2>1, <2>2
<1>8. DiscoveryInv'
    BY <1>2, <1>3, <1>4, <1>6, <1>7 DEF DiscoveryInv
<1>9. Mine \subseteq Resources /\ found' \subseteq Resources
    BY <1>1, <1>2 DEF Mine, Listed, TypeOK
<1> QED
    BY <1>2, <1>5, <1>6, <1>8, <1>9, DiscoveryStep

\* The end of Initialize: what New returned fits what was discovered.
LEMMA InitializedInv ==
    ASSUME ManagerInv, pc \in {"list", "retrieve", "prefixes"}, NEW ok \in BOOLEAN, Initialized(ok),
           UNCHANGED <<start, config, k8s, loadBalancers, found, service, node, feature>>,
           faults' \in 0..MaxFaults,
           addressManager' # None => addressManager'.auto \in BOOLEAN,
           faults' = 0 => IF config.auto THEN (IF Mine = {} THEN ~ok ELSE ok /\ loadBalancers = Mine)
                                         ELSE ok /\ loadBalancers = {config.lb}
    PROVE  ManagerInv'
<1>1. TypeOK /\ ConfigInv /\ FreshInv /\ DiscoveryInv /\ FeaturesAreOffered
    BY DEF ManagerInv
<1>2. pc' = "running" /\ manager' = ok /\ instances' \in BOOLEAN
    BY DEF Initialized
<1>3. Configured /\ config.auto \in BOOLEAN
    BY ConfigKnown
<1>4. Listed' = Listed /\ Mine' = Mine /\ (Configured' <=> Configured)
    BY DEF Listed, Mine, tag, Configured
<1>5. TypeOK'
    BY <1>1, <1>2, ConfigKnown DEF TypeOK
<1>6. ConfigInv'
    BY <1>1, <1>3, <1>4 DEF ConfigInv
<1>7. FreshInv'
    BY <1>2 DEF FreshInv
<1>8. DiscoveryInv'
    BY <1>1, <1>2, <1>4 DEF DiscoveryInv
<1>9. FeaturesAreOffered'
    BY <1>1 DEF FeaturesAreOffered
<1> QED
    BY <1>5, <1>6, <1>7, <1>8, <1>9 DEF ManagerInv

LEMMA InitializeFailedInv ==
    ASSUME ManagerInv, ListFailed \/ RetrieveFailed \/ PrefixFailed
    PROVE  ManagerInv'
<1>1. TypeOK
    BY DEF ManagerInv
<1>2. /\ pc \in {"list", "retrieve", "prefixes"} /\ Initialized(FALSE)
      /\ UNCHANGED <<start, config, k8s, loadBalancers, found, addressManager, service, node, feature>>
    BY DEF ListFailed, RetrieveFailed, PrefixFailed, initVars, offered
<1>3. faults' \in 0..MaxFaults /\ faults' # 0
    BY <1>1, FaultType DEF ListFailed, RetrieveFailed, PrefixFailed, TypeOK
<1> QED
    BY <1>1, <1>2, <1>3, InitializedInv DEF TypeOK

LEMMA DiscoveredInv ==
    ASSUME ManagerInv, Discovered
    PROVE  ManagerInv'
<1>1. TypeOK /\ DiscoveryInv
    BY DEF ManagerInv
<1>2. /\ pc = "retrieve" /\ found = {} /\ config.auto
      /\ UNCHANGED <<start, config, k8s, loadBalancers, found, addressManager, service, node, feature, faults>>
    BY <1>1 DEF Discovered, initVars, offered, DiscoveryInv
<1>3. faults = 0 => loadBalancers = Mine
    BY <1>1, <1>2 DEF DiscoveryInv
<1>4. CASE loadBalancers = {}
  <2>1. Initialized(FALSE)
      BY <1>4 DEF Discovered
  <2> QED
      BY <1>1, <1>2, <1>3, <1>4, <2>1, InitializedInv DEF TypeOK
<1>5. CASE loadBalancers # {}
  <2>1. pc' = "prefixes" /\ UNCHANGED <<manager, instances>>
      BY <1>5 DEF Discovered
  <2>2. Listed' = Listed /\ Mine' = Mine /\ (Configured' <=> Configured)
      BY <1>2 DEF Listed, Mine, tag, Configured
  <2>3. DiscoveryInv'
      BY <1>1, <1>2, <1>3, <1>5, <2>1, <2>2 DEF DiscoveryInv
  <2> QED
      BY <1>1, <1>2, <2>1, <2>3, DiscoveryStep DEF TypeOK
<1> QED
    BY <1>4, <1>5

LEMMA ConfigurePrefixesInv ==
    ASSUME ManagerInv, ConfigurePrefixes
    PROVE  ManagerInv'
<1>1. TypeOK /\ DiscoveryInv
    BY DEF ManagerInv
<1>2. /\ pc = "prefixes" /\ Initialized(TRUE)
      /\ UNCHANGED <<start, config, k8s, loadBalancers, found, service, node, feature, faults>>
    BY DEF ConfigurePrefixes, offered
<1> DEFINE fixed == [auto |-> FALSE,
                     vips |-> [i \in DOMAIN config.prefixes |-> calculateVIP(config.prefixes[i])]]
           discovered == [auto |-> TRUE, vips |-> <<>>]
<1>3. addressManager' \in {fixed, discovered, None}
    BY DEF ConfigurePrefixes
<1>4. fixed.auto \in BOOLEAN /\ discovered.auto \in BOOLEAN
    OBVIOUS
<1> HIDE DEF fixed, discovered
<1>5. addressManager' # None => addressManager'.auto \in BOOLEAN
    BY <1>3, <1>4
<1>6. faults = 0 => IF config.auto THEN loadBalancers = Mine /\ Mine # {} ELSE loadBalancers = {config.lb}
    BY <1>1, <1>2 DEF DiscoveryInv
<1> QED
    BY <1>1, <1>2, <1>5, <1>6, InitializedInv DEF TypeOK

\* The controllers get their managers.
LEMMA OfferedInv ==
    ASSUME ManagerInv, LoadBalancer \/ InstancesV2
    PROVE  ManagerInv'
<1>1. TypeOK /\ ConfigInv /\ FreshInv /\ DiscoveryInv /\ FeaturesAreOffered
    BY DEF ManagerInv
<1>2. /\ pc = "running" /\ pc' = "running"
      /\ UNCHANGED <<start, config, k8s, loadBalancers, found, addressManager, manager, instances, faults>>
    BY DEF LoadBalancer, InstancesV2, initVars
<1>3. service' \in BOOLEAN /\ node' \in BOOLEAN
  <2>1. CASE LoadBalancer
      BY <1>1, <2>1 DEF LoadBalancer, TypeOK
  <2>2. CASE InstancesV2
      BY <1>1, <2>2 DEF InstancesV2, TypeOK
  <2> QED
      BY <2>1, <2>2
<1>4. feature' \subseteq {"load_balancer_provisioning", "instances_v2"}
    BY <1>1 DEF LoadBalancer, InstancesV2, MarkFeatureEnabled, TypeOK
<1>5. TypeOK'
    BY <1>1, <1>2, <1>3, <1>4 DEF TypeOK
<1>6. Listed' = Listed /\ Mine' = Mine /\ (Configured' <=> Configured)
    BY <1>2 DEF Listed, Mine, tag, Configured
<1>7. ConfigInv' /\ FreshInv'
    BY <1>1, <1>2, <1>6, ConfigKnown DEF ConfigInv, FreshInv
<1>8. DiscoveryInv'
    BY <1>1, <1>2, <1>6 DEF DiscoveryInv
<1>9. FeaturesAreOffered'
    BY <1>1 DEF FeaturesAreOffered, LoadBalancer, InstancesV2, MarkFeatureEnabled
<1> QED
    BY <1>5, <1>7, <1>8, <1>9 DEF ManagerInv

\* The process ends: the managers of the controllers end with it.
LEMMA EndInv ==
    ASSUME ManagerInv, StartFailed \/ Crash \/ AllocateAddresses
    PROVE  ManagerInv'
<1>1. TypeOK /\ ConfigInv /\ FreshInv /\ DiscoveryInv /\ FeaturesAreOffered
    BY DEF ManagerInv
<1>2. /\ pc' = "down" \/ (pc = "running" /\ pc' = "panicked")
      /\ UNCHANGED <<start, config, k8s, loadBalancers, found, addressManager, manager, instances,
                     service, node, feature>>
    BY DEF StartFailed, Crash, AllocateAddresses, initVars, offered
<1>3. faults' \in 0..MaxFaults
    BY <1>1, FaultType DEF StartFailed, Crash, AllocateAddresses, TypeOK
<1>4. TypeOK'
    BY <1>1, <1>2, <1>3 DEF TypeOK
<1>5. Listed' = Listed /\ Mine' = Mine /\ (Configured' <=> Configured)
    BY <1>2 DEF Listed, Mine, tag, Configured
<1>6. ConfigInv' /\ FreshInv'
    BY <1>1, <1>2, <1>5 DEF ConfigInv, FreshInv
<1>7. DiscoveryInv'
    BY <1>1, <1>2, <1>5 DEF DiscoveryInv
<1>8. FeaturesAreOffered'
    BY <1>1, <1>2 DEF FeaturesAreOffered
<1> QED
    BY <1>4, <1>6, <1>7, <1>8 DEF ManagerInv

LEMMA RestartInv ==
    ASSUME ManagerInv, Restart
    PROVE  ManagerInv'
<1>1. TypeOK /\ ConfigInv /\ FreshInv
    BY DEF ManagerInv
<1>2. /\ k8s' \in BOOLEAN /\ manager' \in BOOLEAN /\ instances' \in BOOLEAN
      /\ service' \in BOOLEAN /\ node' \in BOOLEAN
    BY DEF Restart
<1>3. TypeOK'
    BY <1>1, <1>2 DEF Restart, TypeOK
<1>4. ConfigInv' /\ FreshInv'
    BY <1>1 DEF Restart, ConfigInv, FreshInv
<1>5. DiscoveryInv' /\ FeaturesAreOffered'
    BY DEF Restart, DiscoveryInv, FeaturesAreOffered
<1> QED
    BY <1>3, <1>4, <1>5 DEF ManagerInv

LEMMA ManagerNext == ManagerInv /\ [Next]_vars => ManagerInv'
<1> SUFFICES ASSUME ManagerInv, [Next]_vars PROVE ManagerInv'
    OBVIOUS
<1>1. CASE Work
    BY <1>1, NewAnxProviderInv, ClientInv, ListInv, DiscoveredInv, ConfigurePrefixesInv, RetrieveInv DEF Work
<1>2. CASE LoadBalancer \/ InstancesV2
    BY <1>2, OfferedInv
<1>3. CASE StartFailed \/ Crash \/ AllocateAddresses
    BY <1>3, EndInv
<1>4. CASE Restart
    BY <1>4, RestartInv
<1>5. CASE ListFailed \/ RetrieveFailed \/ PrefixFailed
    BY <1>5, InitializeFailedInv
<1>6. ASSUME NEW r \in Resources, GetFailed(r) PROVE ManagerInv'
    BY <1>6, RetrieveInv
<1>7. CASE UNCHANGED vars
    BY <1>7 DEF vars, ManagerInv, TypeOK, ConfigInv, FreshInv, DiscoveryInv, FeaturesAreOffered,
                Configured, Mine, Listed, tag
<1> QED
    BY <1>1, <1>2, <1>3, <1>4, <1>5, <1>6, <1>7 DEF Next

------------------------------------------------------------------------------
(***************************************************************************)
(* The address manager: it holds the VIPs of the prefixes of this start.   *)
(***************************************************************************)
LEMMA PrefixesType ==
    ASSUME NEW s \in Starts
    PROVE  NewProviderConfig(s).prefixes \in Seq(Network)
<1> DEFINE c == NewProviderConfig(s)
           e == envconfig(s.file, s.env)
<1>1. s.file \in Options /\ s.env \in Options
    BY StartupConstants
<1>2. s.file.prefixes \in Seq(Network) \cup {None} /\ s.env.prefixes \in Seq(Network) \cup {None}
    BY <1>1 DEF Options
<1>3. c.prefixes = e.prefixes
    BY DEF NewProviderConfig, applyCliFlagsToProviderConfig, envconfig
<1>4. e.prefixes = Override(s.env.prefixes, Override(s.file.prefixes, <<>>))
    BY DEF envconfig
<1>5. <<>> \in Seq(Network)
    OBVIOUS
<1> HIDE DEF e
<1> QED
    BY <1>2, <1>3, <1>4, <1>5 DEF Override

LEMMA AddressStep ==
    ASSUME ManagerInv, AddressInv, ConfigurePrefixes
    PROVE  AddressInv'
<1>1. pc = "prefixes" /\ pc' = "running" /\ config' = config
    BY DEF ConfigurePrefixes, Initialized
<1>2. config.prefixes \in Seq(Network)
    BY <1>1, PrefixesType DEF ManagerInv, ConfigInv, Configured
<1> DEFINE vips == [i \in DOMAIN config.prefixes |-> calculateVIP(config.prefixes[i])]
           fixed == [auto |-> FALSE, vips |-> vips]
           discovered == [auto |-> TRUE, vips |-> <<>>]
<1>3. addressManager' \in {fixed, discovered, None}
    BY DEF ConfigurePrefixes
<1>4. \A i \in DOMAIN fixed.vips :
          config.prefixes[i] \in Network /\ fixed.vips[i] = calculateVIP(config.prefixes[i])
    BY <1>2
<1>5. DOMAIN discovered.vips = {}
    OBVIOUS
<1> HIDE DEF fixed, discovered
<1> QED
    BY <1>1, <1>3, <1>4, <1>5 DEF AddressInv

LEMMA AddressNext == ManagerInv /\ AddressInv /\ [Next]_vars => AddressInv'
<1> SUFFICES ASSUME ManagerInv, AddressInv, [Next]_vars PROVE AddressInv'
    OBVIOUS
<1>1. CASE ConfigurePrefixes
    BY <1>1, AddressStep
<1>2. CASE Restart
    BY <1>2 DEF Restart, AddressInv
<1>3. CASE NewAnxProvider
    BY <1>3 DEF NewAnxProvider, initVars, AddressInv
<1> DEFINE Early == {"start", "client", "list", "retrieve", "prefixes"}
<1>4. CASE UNCHANGED <<config, addressManager>> /\ (pc' \in Early => pc \in Early)
    BY <1>4 DEF AddressInv
<1>5. CASE Client \/ List \/ Discovered \/ \E r \in Resources : Retrieve(r) \/ GetFailed(r)
  <2>1. UNCHANGED <<config, addressManager>> /\ pc \in Early
      BY <1>5 DEF Client, List, Discovered, Retrieve, GetFailed, initVars
  <2> QED
      BY <1>4, <2>1
<1>6. CASE StartFailed \/ ListFailed \/ RetrieveFailed \/ PrefixFailed \/ Crash
  <2>1. UNCHANGED <<config, addressManager>> /\ pc' \in {"down", "running"}
      BY <1>6 DEF StartFailed, ListFailed, RetrieveFailed, PrefixFailed, Crash, Initialized, initVars
  <2> QED
      BY <1>4, <2>1
<1>7. CASE LoadBalancer \/ InstancesV2 \/ AllocateAddresses
  <2>1. UNCHANGED <<config, addressManager>> /\ pc' \in {"running", "panicked"}
      BY <1>7 DEF LoadBalancer, InstancesV2, AllocateAddresses, initVars
  <2> QED
      BY <1>4, <2>1
<1>8. CASE UNCHANGED vars
    BY <1>4, <1>8 DEF vars
<1> QED
    BY <1>1, <1>2, <1>3, <1>5, <1>6, <1>7, <1>8 DEF Next, Work

------------------------------------------------------------------------------
(***************************************************************************)
(* The invariant: discovery works with the configuration of this start and *)
(* loses nothing unless a request fails, a new process offers nothing, and *)
(* the VIPs are those of the configured prefixes.                          *)
(***************************************************************************)
THEOREM StartInvHolds == Spec => []StartInv
<1>1. Init => StartInv
    BY ManagerInit DEF Init, StartInv, AddressInv
<1>2. StartInv /\ [Next]_vars => StartInv'
    BY ManagerNext, AddressNext DEF StartInv
<1> QED
    BY <1>1, <1>2, PTL DEF Spec

(***************************************************************************)
(* Startup is type correct; in particular the tag prefix and the switch of *)
(* the autodiscovery have a value wherever they are used.                  *)
(***************************************************************************)
THEOREM StartupTypes == Spec => []TypeOK
<1>1. StartInv => TypeOK
    BY DEF StartInv, ManagerInv
<1> QED
    BY <1>1, StartInvHolds, PTL

(***************************************************************************)
(* The cluster's name in the configuration is the one the user gave, and   *)
(* the prefix is one of the prefixes.                                      *)
(***************************************************************************)
LEMMA MineIsTagged ==
    ASSUME ManagerInv, Configured
    PROVE  /\ Mine = TaggedFor(NameGiven, {config.tagPrefix})
           /\ Mine \subseteq TaggedFor(NameGiven, TagPrefixes)
<1>1. config.cluster = NameGiven /\ config.tagPrefix \in TagPrefixes
    BY ConfigType DEF ManagerInv, ConfigInv, Configured, NameGiven
<1>2. LBs \subseteq Resources
    BY StartupConstants
<1> QED
    BY <1>1, <1>2 DEF Mine, Listed, tag, TaggedFor

(***************************************************************************)
(* With autodiscovery the manager that is offered works on LoadBalancers   *)
(* that are tagged for the cluster the user named, whatever failed before  *)
(* (NewProviderConfig, DiscoverLoadBalancers).                             *)
(***************************************************************************)
THEOREM OnlyOwnLoadBalancersHolds == Spec => []OnlyOwnLoadBalancers
<1>1. StartInv => OnlyOwnLoadBalancers
  <2> SUFFICES ASSUME ManagerInv, service, config.auto
               PROVE  loadBalancers \subseteq TaggedFor(NameGiven, TagPrefixes)
      BY DEF StartInv, OnlyOwnLoadBalancers
  <2>1. Configured
      BY DEF ManagerInv, ConfigInv
  <2>2. loadBalancers \subseteq Mine
      BY <2>1 DEF ManagerInv, DiscoveryInv
  <2> QED
      BY <2>1, <2>2, MineIsTagged
<1> QED
    BY <1>1, StartInvHolds, PTL

(***************************************************************************)
(* A start in which no request fails ends with a manager that has every    *)
(* LoadBalancer tagged for the cluster, or with the configured one.        *)
(***************************************************************************)
THEOREM CleanStartIsCompleteHolds == Spec => []CleanStartIsComplete
<1>1. StartInv => CleanStartIsComplete
  <2> SUFFICES ASSUME ManagerInv, pc = "running", faults = 0 PROVE CleanStartIsComplete
      BY DEF StartInv, CleanStartIsComplete
  <2>1. Mine = TaggedFor(NameGiven, {config.tagPrefix})
      BY ConfigKnown, MineIsTagged
  <2> QED
      BY <2>1 DEF CleanStartIsComplete, ManagerInv, DiscoveryInv
<1> QED
    BY <1>1, StartInvHolds, PTL

(***************************************************************************)
(* The feature metric tells which managers the controllers have, after     *)
(* failures, crashes and restarts too.                                     *)
(***************************************************************************)
THEOREM FeaturesAreOfferedHolds == Spec => []FeaturesAreOffered
<1>1. StartInv => FeaturesAreOffered
    BY DEF StartInv, ManagerInv
<1> QED
    BY <1>1, StartInvHolds, PTL

------------------------------------------------------------------------------
(***************************************************************************)
(* calculateVIP, bit by bit.                                               *)
(***************************************************************************)
\* What the loop of bitMaskForN returns for each number of bits.
LEMMA FirstBits ==
    /\ firstBits[0] = 0 /\ firstBits[1] = 128 /\ firstBits[2] = 192 /\ firstBits[3] = 224
    /\ firstBits[4] = 240 /\ firstBits[5] = 248 /\ firstBits[6] = 252 /\ firstBits[7] = 254
<1> DEFINE Loop(f) == [n \in 0..7 |-> IF n = 0 THEN 0 ELSE f[n - 1] + 2^(8 - n)]
           g == [n \in 0..7 |-> CASE n = 0 -> 0 [] n = 1 -> 128 [] n = 2 -> 192 [] n = 3 -> 224
                                  [] n = 4 -> 240 [] n = 5 -> 248 [] n = 6 -> 252 [] n = 7 -> 254]
<1>1. 2^7 = 128 /\ 2^6 = 64 /\ 2^5 = 32 /\ 2^4 = 16 /\ 2^3 = 8 /\ 2^2 = 4 /\ 2^1 = 2
    OBVIOUS
<1>2. \A n \in 0..7 : g[n] = IF n = 0 THEN 0 ELSE g[n - 1] + 2^(8 - n)
  <2>1. /\ g[0] = 0 /\ g[1] = 128 /\ g[2] = 192 /\ g[3] = 224
        /\ g[4] = 240 /\ g[5] = 248 /\ g[6] = 252 /\ g[7] = 254
      OBVIOUS
  <2> HIDE DEF g
  <2> TAKE n \in 0..7
  <2>2. n = 0 \/ n = 1 \/ n = 2 \/ n = 3 \/ n = 4 \/ n = 5 \/ n = 6 \/ n = 7
      OBVIOUS
  <2>3. /\ g[1] = g[1 - 1] + 2^(8 - 1) /\ g[2] = g[2 - 1] + 2^(8 - 2) /\ g[3] = g[3 - 1] + 2^(8 - 3)
        /\ g[4] = g[4 - 1] + 2^(8 - 4) /\ g[5] = g[5 - 1] + 2^(8 - 5) /\ g[6] = g[6 - 1] + 2^(8 - 6)
        /\ g[7] = g[7 - 1] + 2^(8 - 7)
      BY <1>1, <2>1
  <2> QED
      BY <2>1, <2>2, <2>3, ZenonT(30)
<1>3. g = Loop(g)
    BY <1>2
<1>4. firstBits = CHOOSE f : f = Loop(f)
    BY DEF firstBits
<1> HIDE DEF g
<1>5. firstBits = Loop(firstBits)
  <2> HIDE DEF Loop
  <2>1. \E f : f = Loop(f)
      BY <1>3
  <2> QED
      BY <1>4, <2>1
<1>6. \A n \in 0..7 : firstBits[n] = IF n = 0 THEN 0 ELSE firstBits[n - 1] + 2^(8 - n)
    BY <1>5
<1>7. firstBits[0] = 0 /\ \A n \in 1..7 : firstBits[n] = firstBits[n - 1] + 2^(8 - n)
    BY <1>6
<1> QED
    BY <1>1, <1>7
LEMMA MaskOf ==
    ASSUME NEW n \in Int
    PROVE  /\ n >= 8 => bitMaskForN(n) = 255
           /\ n \in 0..7 => bitMaskForN(n) = firstBits[n]
           /\ n < 0 => bitMaskForN(n) = 0
BY DEF bitMaskForN

\* The value of each bit of a byte.
LEMMA BitValue ==
    ASSUME NEW r \in 0..7
    PROVE  <<r, 2^(7 - r)>> \in {<<0, 128>>, <<1, 64>>, <<2, 32>>, <<3, 16>>,
                                 <<4, 8>>, <<5, 4>>, <<6, 2>>, <<7, 1>>}
<1> DEFINE e == 2^(7 - r)
<1>1. /\ 2^(7 - 0) = 128 /\ 2^(7 - 1) = 64 /\ 2^(7 - 2) = 32 /\ 2^(7 - 3) = 16
      /\ 2^(7 - 4) = 8 /\ 2^(7 - 5) = 4 /\ 2^(7 - 6) = 2 /\ 2^(7 - 7) = 1
    OBVIOUS
<1>2. r = 0 \/ r = 1 \/ r = 2 \/ r = 3 \/ r = 4 \/ r = 5 \/ r = 6 \/ r = 7
    OBVIOUS
<1>3. r = 0 => e = 128
    BY <1>1, Zenon
<1>4. r = 1 => e = 64
    BY <1>1, Zenon
<1>5. r = 2 => e = 32
    BY <1>1, Zenon
<1>6. r = 3 => e = 16
    BY <1>1, Zenon
<1>7. r = 4 => e = 8
    BY <1>1, Zenon
<1>8. r = 5 => e = 4
    BY <1>1, Zenon
<1>9. r = 6 => e = 2
    BY <1>1, Zenon
<1>10. r = 7 => e = 1
    BY <1>1, Zenon
<1> HIDE DEF e
<1>11. <<r, e>> \in {<<0, 128>>, <<1, 64>>, <<2, 32>>, <<3, 16>>,
                   <<4, 8>>, <<5, 4>>, <<6, 2>>, <<7, 1>>}
    BY <1>2, <1>3, <1>4, <1>5, <1>6, <1>7, <1>8, <1>9, <1>10
<1> QED
    BY <1>11 DEF e

\* What orNot does to each bit of a byte: it keeps those of the mask.
LEMMA BitOfOrNot ==
    ASSUME NEW byte \in 0..255, NEW n \in Int, NEW r \in 0..7
    PROVE  /\ orNot(byte, bitMaskForN(n)) \in 0..255
           /\ (orNot(byte, bitMaskForN(n)) \div 2^(7 - r)) % 2 =
                 IF r < n THEN (byte \div 2^(7 - r)) % 2 ELSE 1
<1> DEFINE Kept(m, e) == (orNot(byte, m) \div e) % 2 = (byte \div e) % 2
           One(m, e) == (orNot(byte, m) \div e) % 2 = 1
<1>2. n >= 8 => bitMaskForN(n) = 255
    BY MaskOf
<1>3. orNot(byte, 255) = byte
    BY DEF orNot
<1>4. orNot(byte, 0) = 255
    BY DEF orNot
<1>5. /\ One(0, 128) /\ One(0, 64) /\ One(0, 32) /\ One(0, 16)
      /\ One(0, 8) /\ One(0, 4) /\ One(0, 2) /\ One(0, 1)
    BY <1>4
<1>6. /\ orNot(byte, 128) \in 0..255
      /\ Kept(128, 128) /\ One(128, 64) /\ One(128, 32) /\ One(128, 16)
      /\ One(128, 8) /\ One(128, 4) /\ One(128, 2) /\ One(128, 1)
    BY DEF orNot
<1>7. /\ orNot(byte, 192) \in 0..255
      /\ Kept(192, 128) /\ Kept(192, 64) /\ One(192, 32) /\ One(192, 16)
      /\ One(192, 8) /\ One(192, 4) /\ One(192, 2) /\ One(192, 1)
    BY DEF orNot
<1>8. /\ orNot(byte, 224) \in 0..255
      /\ Kept(224, 128) /\ Kept(224, 64) /\ Kept(224, 32) /\ One(224, 16)
      /\ One(224, 8) /\ One(224, 4) /\ One(224, 2) /\ One(224, 1)
    BY DEF orNot
<1>9. /\ orNot(byte, 240) \in 0..255
      /\ Kept(240, 128) /\ Kept(240, 64) /\ Kept(240, 32) /\ Kept(240, 16)
      /\ One(240, 8) /\ One(240, 4) /\ One(240, 2) /\ One(240, 1)
    BY DEF orNot
<1>10. /\ orNot(byte, 248) \in 0..255
      /\ Kept(248, 128) /\ Kept(248, 64) /\ Kept(248, 32) /\ Kept(248, 16)
      /\ Kept(248, 8) /\ One(248, 4) /\ One(248, 2) /\ One(248, 1)
    BY DEF orNot
<1>11. /\ orNot(byte, 252) \in 0..255
      /\ Kept(252, 128) /\ Kept(252, 64) /\ Kept(252, 32) /\ Kept(252, 16)
      /\ Kept(252, 8) /\ Kept(252, 4) /\ One(252, 2) /\ One(252, 1)
  <2>1. orNot(byte, 252) \in 0..255
      BY DEF orNot
  <2>2. Kept(252, 128)
      BY SMTT(30) DEF orNot
  <2>3. Kept(252, 64)
      BY SMTT(30) DEF orNot
  <2>4. Kept(252, 32)
      BY SMTT(30) DEF orNot
  <2>5. Kept(252, 16)
      BY SMTT(30) DEF orNot
  <2>6. Kept(252, 8)
      BY SMTT(30) DEF orNot
  <2>7. Kept(252, 4)
      BY SMTT(30) DEF orNot
  <2>8. One(252, 2)
      BY SMTT(30) DEF orNot
  <2>9. One(252, 1)
      BY SMTT(30) DEF orNot
  <2> QED
      BY <2>1, <2>2, <2>3, <2>4, <2>5, <2>6, <2>7, <2>8, <2>9
<1>12. /\ orNot(byte, 254) \in 0..255
      /\ Kept(254, 128) /\ Kept(254, 64) /\ Kept(254, 32) /\ Kept(254, 16)
      /\ Kept(254, 8) /\ Kept(254, 4) /\ Kept(254, 2) /\ One(254, 1)
  <2>1. orNot(byte, 254) \in 0..255
      BY DEF orNot
  <2>2. Kept(254, 128)
      BY SMTT(30) DEF orNot
  <2>3. Kept(254, 64)
      BY SMTT(30) DEF orNot
  <2>4. Kept(254, 32)
      BY SMTT(30) DEF orNot
  <2>5. Kept(254, 16)
      BY SMTT(30) DEF orNot
  <2>6. Kept(254, 8)
      BY SMTT(30) DEF orNot
  <2>7. Kept(254, 4)
      BY SMTT(30) DEF orNot
  <2>8. Kept(254, 2)
      BY SMTT(30) DEF orNot
  <2>9. One(254, 1)
      BY SMTT(30) DEF orNot
  <2> QED
      BY <2>1, <2>2, <2>3, <2>4, <2>5, <2>6, <2>7, <2>8, <2>9
<1> HIDE DEF Kept, One
<1> DEFINE e == 2^(7 - r)
           x == orNot(byte, bitMaskForN(n))
           Right == x \in 0..255 /\ (x \div e) % 2 = IF r < n THEN (byte \div e) % 2 ELSE 1
<1>13. <<r, e>> \in {<<0, 128>>, <<1, 64>>, <<2, 32>>, <<3, 16>>,
                   <<4, 8>>, <<5, 4>>, <<6, 2>>, <<7, 1>>}
    BY BitValue
<1>14. CASE n >= 8
  <2>1. x = byte /\ r < n
      BY <1>2, <1>3, <1>14
  <2> QED
      BY <2>1
<1>15. CASE n <= 0
  <2>1. bitMaskForN(n) = 0 /\ ~(r < n)
      BY <1>15, MaskOf, FirstBits
  <2>2. One(0, e)
      BY <1>5, <1>13
  <2> QED
      BY <1>4, <2>1, <2>2 DEF One
<1>16. CASE n = 1
  <2>1. bitMaskForN(n) = 128
      BY <1>16, MaskOf, FirstBits
  <2>2. r < n => Kept(128, e)
      BY <1>6, <1>13, <1>16
  <2>3. ~(r < n) => One(128, e)
      BY <1>6, <1>13, <1>16
  <2> QED
      BY <1>6, <2>1, <2>2, <2>3 DEF Kept, One
<1>17. CASE n = 2
  <2>1. bitMaskForN(n) = 192
      BY <1>17, MaskOf, FirstBits
  <2>2. r < n => Kept(192, e)
      BY <1>7, <1>13, <1>17
  <2>3. ~(r < n) => One(192, e)
      BY <1>7, <1>13, <1>17
  <2> QED
      BY <1>7, <2>1, <2>2, <2>3 DEF Kept, One
<1>18. CASE n = 3
  <2>1. bitMaskForN(n) = 224
      BY <1>18, MaskOf, FirstBits
  <2>2. r < n => Kept(224, e)
      BY <1>8, <1>13, <1>18
  <2>3. ~(r < n) => One(224, e)
      BY <1>8, <1>13, <1>18
  <2> QED
      BY <1>8, <2>1, <2>2, <2>3 DEF Kept, One
<1>19. CASE n = 4
  <2>1. bitMaskForN(n) = 240
      BY <1>19, MaskOf, FirstBits
  <2>2. r < n => Kept(240, e)
      BY <1>9, <1>13, <1>19
  <2>3. ~(r < n) => One(240, e)
      BY <1>9, <1>13, <1>19
  <2> QED
      BY <1>9, <2>1, <2>2, <2>3 DEF Kept, One
<1>20. CASE n = 5
  <2>1. bitMaskForN(n) = 248
      BY <1>20, MaskOf, FirstBits
  <2>2. r < n => Kept(248, e)
      BY <1>10, <1>13, <1>20
  <2>3. ~(r < n) => One(248, e)
      BY <1>10, <1>13, <1>20
  <2> QED
      BY <1>10, <2>1, <2>2, <2>3 DEF Kept, One
<1>21. CASE n = 6
  <2>1. bitMaskForN(n) = 252
      BY <1>21, MaskOf, FirstBits
  <2>2. r < n => Kept(252, e)
      BY <1>11, <1>13, <1>21
  <2>3. ~(r < n) => One(252, e)
      BY <1>11, <1>13, <1>21
  <2> QED
      BY <1>11, <2>1, <2>2, <2>3 DEF Kept, One
<1>22. CASE n = 7
  <2>1. bitMaskForN(n) = 254
      BY <1>22, MaskOf, FirstBits
  <2>2. r < n => Kept(254, e)
      BY <1>12, <1>13, <1>22
  <2>3. ~(r < n) => One(254, e)
      BY <1>12, <1>13, <1>22
  <2> QED
      BY <1>12, <2>1, <2>2, <2>3 DEF Kept, One
<1> QED
    BY <1>14, <1>15, <1>16, <1>17, <1>18, <1>19, <1>20, <1>21, <1>22

\* The last byte less one: it is odd, so only its last bit changes.
LEMMA BitOfLess ==
    ASSUME NEW x \in 0..255, x % 2 = 1, NEW r \in 0..7
    PROVE  ((((x - 1) % 256) \div 2^(7 - r)) % 2) = IF r = 7 THEN 0 ELSE (x \div 2^(7 - r)) % 2
<1> DEFINE e == 2^(7 - r)
           Same(d) == (((x - 1) % 256) \div d) % 2 = (x \div d) % 2
<1>1. (x - 1) % 256 = x - 1
    OBVIOUS
<1>2. Same(128) /\ Same(64) /\ Same(32) /\ Same(16)
    BY <1>1
<1>3. Same(8) /\ Same(4) /\ Same(2)
    BY <1>1
<1>4. (((x - 1) % 256) \div 1) % 2 = 0
    BY <1>1
<1>5. <<r, e>> \in {<<0, 128>>, <<1, 64>>, <<2, 32>>, <<3, 16>>,
                    <<4, 8>>, <<5, 4>>, <<6, 2>>, <<7, 1>>}
    BY BitValue
<1> HIDE DEF e, Same
<1>6. r # 7 => Same(e)
    BY <1>2, <1>3, <1>5
<1>7. r = 7 => e = 1
    BY <1>5
<1>8. (((x - 1) % 256) \div e) % 2 = IF r = 7 THEN 0 ELSE (x \div e) % 2
    BY <1>4, <1>6, <1>7 DEF Same
<1> QED
    BY <1>8 DEF e

\* Where bit k of an address is.
LEMMA BitPlace ==
    ASSUME NEW L \in Nat, NEW k \in 1..8 * L
    PROVE  LET i == (k - 1) \div 8 + 1
               r == (k - 1) % 8
           IN  i \in 1..L /\ r \in 0..7 /\ k = 8 * (i - 1) + r + 1
OBVIOUS

(***************************************************************************)
(* The address calculateVIP returns, bit by bit.                           *)
(***************************************************************************)
LEMMA VIPBits ==
    ASSUME NEW net \in Network, net.len < 8 * Len(net.ip), NEW k \in 1..8 * Len(net.ip)
    PROVE  Bit(calculateVIP(net), k) = IF k <= net.len THEN Bit(net.ip, k)
                                       ELSE IF k < 8 * Len(net.ip) THEN 1 ELSE 0
<1> DEFINE L == Len(net.ip)
           i == (k - 1) \div 8 + 1
           r == (k - 1) % 8
           e == 2^(7 - r)
           n == net.len - (i - 1) * 8
           ret == [j \in DOMAIN net.ip |-> orNot(net.ip[j], bitMaskForN(net.len - (j - 1) * 8))]
           vip == [ret EXCEPT ![Len(ret)] = (@ - 1) % 256]
<1>1. net.ip \in Seq(0..255) /\ net.len \in Nat /\ L \in Nat
    BY DEF Network
<1>2. i \in 1..L /\ r \in 0..7 /\ k = 8 * (i - 1) + r + 1
    BY <1>1, BitPlace
<1>3. n \in Int /\ (r < n <=> k <= net.len)
    BY <1>1, <1>2
<1>4. i = L => ~(7 < n)
    BY <1>1, <1>2
<1>5. Bit(vip, k) = (vip[i] \div e) % 2 /\ Bit(net.ip, k) = (net.ip[i] \div e) % 2
    BY DEF Bit
<1>6. ret[i] = orNot(net.ip[i], bitMaskForN(n))
  <2> HIDE DEF i
  <2> QED
      BY <1>1, <1>2
<1>7. DOMAIN ret = 1..L /\ Len(ret) = L
    BY <1>1
<1>8. calculateVIP(net) = vip
    BY DEF calculateVIP
<1> HIDE DEF i, r, n, ret
<1>9. net.ip[i] \in 0..255
  <2>1. \A S : \A s \in Seq(S) : \A j \in 1..Len(s) : s[j] \in S
      OBVIOUS
  <2> QED
      BY <1>1, <1>2, <2>1
<1>10. /\ ret[i] \in 0..255
       /\ (ret[i] \div e) % 2 = IF r < n THEN (net.ip[i] \div e) % 2 ELSE 1
  <2>1. /\ orNot(net.ip[i], bitMaskForN(n)) \in 0..255
        /\ (orNot(net.ip[i], bitMaskForN(n)) \div 2^(7 - r)) % 2 =
              IF r < n THEN (net.ip[i] \div 2^(7 - r)) % 2 ELSE 1
      BY <1>2, <1>3, <1>9, BitOfOrNot
  <2> QED
      BY <1>6, <2>1, Zenon
<1>11. vip[i] = IF i = L THEN (ret[i] - 1) % 256 ELSE ret[i]
    BY <1>2, <1>7
<1>12. i = L => ret[i] % 2 = 1
  <2>1. 7 \in 0..7 /\ 2^(7 - 7) = 1
      OBVIOUS
  <2>2. (orNot(net.ip[i], bitMaskForN(n)) \div 2^(7 - 7)) % 2 =
           IF 7 < n THEN (net.ip[i] \div 2^(7 - 7)) % 2 ELSE 1
      BY <1>3, <1>9, <2>1, BitOfOrNot
  <2>3. ~(7 < n) => (ret[i] \div 1) % 2 = 1
      BY <1>6, <2>1, <2>2
  <2>4. \A x \in 0..255 : x \div 1 = x
      OBVIOUS
  <2> QED
      BY <1>4, <1>10, <2>3, <2>4
<1>13. i = L => (vip[i] \div e) % 2 = IF r = 7 THEN 0 ELSE (ret[i] \div e) % 2
  <2>1. i = L => (((ret[i] - 1) % 256) \div 2^(7 - r)) % 2 =
                    IF r = 7 THEN 0 ELSE (ret[i] \div 2^(7 - r)) % 2
      BY <1>2, <1>10, <1>12, BitOfLess, ZenonT(60)
  <2> HIDE DEF vip
  <2>2. i = L => vip[i] = (ret[i] - 1) % 256
      BY <1>11
  <2> QED
      BY <2>1, <2>2, Zenon
<1> HIDE DEF vip, e
<1>14. CASE i # L
  <2>1. k < 8 * L
      BY <1>1, <1>2, <1>14
  <2> QED
      BY <1>3, <1>5, <1>8, <1>10, <1>11, <1>14, <2>1
<1>15. CASE i = L
  <2>1. r = 7 <=> k = 8 * L
      BY <1>1, <1>2, <1>15
  <2>2. k <= 8 * L /\ k \in Int /\ net.len < 8 * L
      BY <1>1
  <2> QED
      BY <1>1, <1>3, <1>5, <1>8, <1>10, <1>13, <1>15, <2>1, <2>2, SMTT(30)
<1> QED
    BY <1>14, <1>15

(***************************************************************************)
(* The VIP of every fixed prefix with more than one address is the address *)
(* before its broadcast address, for networks of every length and every    *)
(* number of bytes (calculateVIP, bitMaskForN, configurePrefixes).         *)
(***************************************************************************)
THEOREM VIPIsBeforeBroadcastHolds == Spec => []VIPIsBeforeBroadcast
<1>1. StartInv => VIPIsBeforeBroadcast
  <2> SUFFICES ASSUME AddressInv PROVE VIPIsBeforeBroadcast
      BY DEF StartInv
  <2> SUFFICES ASSUME addressManager # None,
                      NEW i \in DOMAIN addressManager.vips,
                      config.prefixes[i].len < 8 * Len(config.prefixes[i].ip),
                      NEW k \in 1..8 * Len(config.prefixes[i].ip)
               PROVE  Bit(addressManager.vips[i], k) =
                        IF k <= config.prefixes[i].len THEN Bit(config.prefixes[i].ip, k)
                        ELSE IF k < 8 * Len(config.prefixes[i].ip) THEN 1 ELSE 0
      BY DEF VIPIsBeforeBroadcast
  <2>1. /\ config.prefixes[i] \in Network
        /\ addressManager.vips[i] = calculateVIP(config.prefixes[i])
      BY DEF AddressInv
  <2> QED
      BY <2>1, VIPBits
<1> QED
    BY <1>1, StartInvHolds, PTL
=============================================================================
