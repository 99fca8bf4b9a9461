--------------------------- MODULE InstancesProofs --------------------------
(***************************************************************************)
(* Proofs about Instances for every set of machines and Nodes, all names,  *)
(* addresses and failures: type correctness, the invariant of              *)
(* InstancesInv, and what follows from it.                                 *)
(***************************************************************************)
EXTENDS InstancesInv, FiniteSetTheorems, SequenceTheorems, WellFoundedInduction, TLAPS

\* Types in parts: the cloud and its failures, the Nodes, the calls.
CloudTypes ==
    /\ customerID \in CustomerIDs
    /\ vms \subseteq VMs
    /\ power \in [VMs -> {"on", "off", "other"}]
    /\ paused \in BOOLEAN
    /\ faults \in 0..MaxFaults
    /\ events \in 0..MaxEvents

CallTypes ==
    /\ pc \in [Controllers -> {"idle", "search", "plain", "filter", "use", "metadata", "returned"}]
    /\ call \in [Controllers -> CallType]
    /\ found \in [Controllers -> SUBSET VMs]
    /\ filtered \in [Controllers -> Seq(VMs)]
    /\ result \in [Controllers -> {"yes", "no", None} \cup Errors]

CallTypeAt(c) ==
    /\ pc[c] # "idle" => call[c].node \in Nodes /\ call[c].op \in Ops
    /\ pc[c] \in {"use", "metadata"} => call[c].id \in VMs
    /\ pc[c] = "metadata" => call[c].op = "InstanceMetadata"
    /\ pc[c] = "returned" /\ result[c] \in {"yes", "no"} => call[c].id \in VMs

NodeTypes == node \in [Nodes -> NodeType]

LEMMA TypesParts ==
    /\ Types => CloudTypes /\ CallTypes /\ NodeTypes /\ \A c \in Controllers : CallTypeAt(c)
    /\ CloudTypes /\ CallTypes /\ NodeTypes /\ (\A c \in Controllers : CallTypeAt(c)) => Types
BY DEF Types, TypeOK, CloudTypes, CallTypes, NodeTypes, CallTypeAt, NodeType

LEMMA TypesPrimed ==
    ASSUME CloudTypes', CallTypes', NodeTypes', \A c \in Controllers : CallTypeAt(c)'
    PROVE  Types'
BY DEF Types, TypeOK, CloudTypes, CallTypes, NodeTypes, CallTypeAt, NodeType

LEMMA FaultType ==
    ASSUME faults \in 0..MaxFaults, NEW k, Fault(k)
    PROVE  faults' \in 0..MaxFaults
BY InstancesConstants DEF Fault

LEMMA EventType ==
    ASSUME events \in 0..MaxEvents, Event
    PROVE  events' \in 0..MaxEvents
BY InstancesConstants DEF Event

\* A machine's addresses are addresses.
LEMMA NetworkType ==
    ASSUME NEW v \in VMs
    PROVE  addresses(v) \subseteq Addrs /\ nodeAddresses(v) \subseteq Addrs
<1> DEFINE Net == [IPv4 : SUBSET Addrs, IPv6 : SUBSET Addrs]
<1>1. Networks[v] \in Seq(Net)
    BY InstancesConstants
<1>2. Len(Networks[v]) \in Nat /\ DOMAIN Networks[v] = 1..Len(Networks[v])
    BY <1>1, LenProperties
<1>3. Networks[v] # <<>> => 1 \in DOMAIN Networks[v]
  <2>1. Networks[v] # <<>> => Len(Networks[v]) \in Nat \ {0}
      BY <1>1, EmptySeq
  <2> QED
      BY <1>2, <2>1
<1>4. \A i \in DOMAIN Networks[v] : Networks[v][i] \in Net
    BY <1>1, <1>2, ElementOfSeq
<1>5. \A i \in DOMAIN Networks[v] :
          Networks[v][i].IPv4 \subseteq Addrs /\ Networks[v][i].IPv6 \subseteq Addrs
    BY <1>4
<1> QED
    BY <1>3, <1>5 DEF addresses, nodeAddresses

\* The matches of a machine are as many copies of it.
LEMMA MatchesType ==
    ASSUME NEW c \in Controllers, NEW v \in VMs
    PROVE  /\ Matches(c, v) \in Seq(VMs)
           /\ \A i \in DOMAIN Matches(c, v) : Matches(c, v)[i] = v
           /\ addresses(v) \cap call[c].ips = {} => Matches(c, v) = <<>>
<1> DEFINE S == addresses(v) \cap call[c].ips
           k == Cardinality(S)
<1>1. IsFiniteSet(S)
    BY InstancesConstants, NetworkType, FS_Subset
<1>2. k \in Nat /\ (S = {} => k = 0)
    BY <1>1, FS_CardinalityType, FS_EmptySet
<1> HIDE DEF k
<1>3. Matches(c, v) = [j \in 1..k |-> v]
    BY DEF Matches, k
<1>4. Matches(c, v) \in [1..k -> VMs]
    BY <1>3
<1>5. Matches(c, v) \in Seq(VMs)
    BY <1>2, <1>4, SeqDef
<1>6. ASSUME k = 0 PROVE Matches(c, v) = <<>>
  <2>1. Len(Matches(c, v)) = 0
      BY <1>2, <1>4, <1>5, <1>6, LenProperties
  <2> QED
      BY <1>5, <2>1, EmptySeq
<1> QED
    BY <1>2, <1>3, <1>5, <1>6

LEMMA TypesInit == Init => Types
<1> SUFFICES ASSUME Init PROVE Types
    OBVIOUS
<1>1. MaxFaults \in Nat /\ MaxEvents \in Nat
    BY InstancesConstants
<1>2. paused \in BOOLEAN
    BY DEF Init
<1>3. CloudTypes
    BY <1>1, <1>2 DEF Init, CloudTypes
<1>4. <<>> \in Seq(VMs) /\ NoCall \in CallType
    BY EmptySeq DEF NoCall, CallType
<1>5. CallTypes
    BY <1>4 DEF Init, CallTypes
<1>6. NodeTypes
    BY DEF Init, NodeTypes, NodeType, ProviderIDs
<1>7. \A c \in Controllers : CallTypeAt(c)
    BY DEF Init, CallTypeAt
<1> QED
    BY <1>3, <1>5, <1>6, <1>7, TypesParts

------------------------------------------------------------------------------
\* The ends of a step of a call.
LEMMA ReturnTypes ==
    ASSUME Types, NEW c \in Controllers, pc[c] # "idle", NEW r \in {"yes", "no"} \cup Errors,
           r \in {"yes", "no"} => call[c].id \in VMs,
           Return(c, r), call' = call
    PROVE  CallTypes' /\ \A d \in Controllers : CallTypeAt(d)'
<1>0. CallTypes /\ \A d \in Controllers : CallTypeAt(d)
    BY TypesParts
<1>1. CallTypes'
    BY <1>0, EmptySeq DEF CallTypes, Return
<1>2. ASSUME NEW d \in Controllers PROVE CallTypeAt(d)'
    BY <1>0 DEF CallTypes, CallTypeAt, Return
<1> QED
    BY <1>1, <1>2

LEMMA UseTypes ==
    ASSUME Types, NEW c \in Controllers, pc[c] # "idle", NEW v \in VMs, Use(c, v)
    PROVE  CallTypes' /\ \A d \in Controllers : CallTypeAt(d)'
<1>0. CallTypes /\ \A d \in Controllers : CallTypeAt(d)
    BY TypesParts
<1>1. call' = [call EXCEPT ![c] = [call[c] EXCEPT !.id = v]]
    BY DEF Use
<1>2. [call[c] EXCEPT !.id = v] \in CallType
    BY <1>0 DEF CallTypes, CallType
<1>3. call' \in [Controllers -> CallType]
    BY <1>0, <1>1, <1>2 DEF CallTypes
<1>4. CallTypes'
    BY <1>0, <1>3, EmptySeq DEF CallTypes, Use
<1>5. /\ pc'[c] = "use" /\ call'[c].id = v
      /\ call'[c].node = call[c].node /\ call'[c].op = call[c].op
      /\ \A d \in Controllers : d # c => call'[d] = call[d] /\ pc'[d] = pc[d]
      /\ result' = result
    BY <1>0, <1>1 DEF CallTypes, CallType, Use
<1>6. ASSUME NEW d \in Controllers PROVE CallTypeAt(d)'
    BY <1>0, <1>5 DEF CallTypeAt
<1> QED
    BY <1>4, <1>6

LEMMA IdleTypes ==
    ASSUME Types, NEW c \in Controllers, Idle(c), result' = [result EXCEPT ![c] = None]
    PROVE  CallTypes' /\ \A d \in Controllers : CallTypeAt(d)'
<1>0. CallTypes /\ \A d \in Controllers : CallTypeAt(d)
    BY TypesParts
<1>1. NoCall \in CallType
    BY DEF NoCall, CallType
<1>2. CallTypes'
    BY <1>0, <1>1 DEF CallTypes, Idle, loopVars
<1>3. ASSUME NEW d \in Controllers PROVE CallTypeAt(d)'
    BY <1>0 DEF CallTypes, CallTypeAt, Idle
<1> QED
    BY <1>2, <1>3

LEMMA InstanceIDTypes ==
    ASSUME Types, NEW c \in Controllers, NEW op \in Ops, NEW n \in Nodes,
           InstanceIDByNode(c, op, n),
           result' = result \/ result' = [result EXCEPT ![c] = None]
    PROVE  CallTypes' /\ \A d \in Controllers : CallTypeAt(d)'
<1>0. CallTypes /\ NodeTypes /\ \A d \in Controllers : CallTypeAt(d)
    BY TypesParts
<1> DEFINE p == node[n].providerID
<1>1. p \in ProviderIDs /\ node[n].ips \subseteq Addrs
    BY <1>0 DEF NodeTypes, NodeType
<1>2. p # None => TrimPrefix(p) \in VMs
    BY <1>1 DEF ProviderIDs, TrimPrefix
<1> DEFINE new == [op |-> op, node |-> n, id |-> IF p = None THEN None ELSE TrimPrefix(p),
                   ips |-> node[n].ips, addrs |-> {}]
<1>3. new \in CallType
    BY <1>1, <1>2 DEF CallType
<1>4. CallTypes'
    BY <1>0, <1>3 DEF CallTypes, InstanceIDByNode, loopVars
<1>5. /\ call'[c].node = n /\ call'[c].op = op
      /\ pc'[c] \in {"search", "use"} /\ (pc'[c] = "use" => call'[c].id \in VMs)
      /\ \A d \in Controllers : d # c => call'[d] = call[d] /\ pc'[d] = pc[d] /\ result'[d] = result[d]
    BY <1>0, <1>2 DEF CallTypes, InstanceIDByNode
<1>6. ASSUME NEW d \in Controllers PROVE CallTypeAt(d)'
    BY <1>0, <1>5 DEF CallTypeAt
<1> QED
    BY <1>4, <1>6

LEMMA FoundTypes ==
    ASSUME Types, NEW c \in Controllers, pc[c] # "idle", NEW S \in SUBSET VMs, Found(c, S)
    PROVE  CallTypes' /\ \A d \in Controllers : CallTypeAt(d)'
<1>0. CallTypes /\ \A d \in Controllers : CallTypeAt(d)
    BY TypesParts
<1>1. CASE Return(c, "not found") /\ UNCHANGED call
    BY <1>1, ReturnTypes DEF Errors
<1>2. ASSUME NEW v \in S, Use(c, v) PROVE CallTypes' /\ \A d \in Controllers : CallTypeAt(d)'
    BY <1>2, UseTypes
<1>3. CASE /\ pc' = [pc EXCEPT ![c] = "filter"]
           /\ found' = [found EXCEPT ![c] = S]
           /\ UNCHANGED <<call, filtered, result>>
    BY <1>0, <1>3 DEF CallTypes, CallTypeAt
<1> QED
    BY <1>1, <1>2, <1>3 DEF Found

\* Steps that leave a part alone.
LEMMA Frame ==
    ASSUME Types
    PROVE  /\ UNCHANGED <<cloudVars, paused, faults>> => CloudTypes'
           /\ node' = node => NodeTypes'
           /\ UNCHANGED callVars => CallTypes' /\ \A d \in Controllers : CallTypeAt(d)'
<1>0. CloudTypes /\ CallTypes /\ NodeTypes /\ \A c \in Controllers : CallTypeAt(c)
    BY TypesParts
<1>1. ASSUME UNCHANGED <<cloudVars, paused, faults>> PROVE CloudTypes'
    BY <1>0, <1>1 DEF CloudTypes, cloudVars
<1>2. ASSUME node' = node PROVE NodeTypes'
    BY <1>0, <1>2 DEF NodeTypes
<1>3. ASSUME UNCHANGED callVars PROVE CallTypes' /\ \A d \in Controllers : CallTypeAt(d)'
    BY <1>0, <1>3 DEF CallTypes, CallTypeAt, callVars
<1> QED
    BY <1>1, <1>2, <1>3

\* What the Engine answers a call.
LEMMA RequestTypes ==
    ASSUME Types, NEW c \in Controllers, Request(c)
    PROVE  Types'
<1>0. CloudTypes /\ CallTypes /\ NodeTypes /\ \A d \in Controllers : CallTypeAt(d)
    BY TypesParts
<1> DEFINE Goal == CallTypes' /\ \A d \in Controllers : CallTypeAt(d)'
<1>1. ASSUME instancesByName(c) PROVE Goal
  <2>1. SearchPrefixed(call[c].node) \subseteq VMs
      BY <1>0 DEF SearchPrefixed, CloudTypes
  <2>2. CASE SearchPrefixed(call[c].node) = {}
      BY <1>0, <1>1, <2>2 DEF instancesByName, CallTypes, CallTypeAt, loopVars
  <2>3. CASE SearchPrefixed(call[c].node) # {}
      BY <1>1, <2>1, <2>3, FoundTypes DEF instancesByName
  <2> QED
      BY <2>2, <2>3
<1>2. ASSUME WithoutPrefix(c) PROVE Goal
  <2>1. SearchPlain(call[c].node) \subseteq VMs
      BY <1>0 DEF SearchPlain, CloudTypes
  <2> QED
      BY <1>2, <2>1, FoundTypes DEF WithoutPrefix
<1>3. ASSUME NEW v \in VMs, filterInstances(c, v) PROVE Goal
  <2>1. filtered[c] \o Matches(c, v) \in Seq(VMs)
      BY <1>0, MatchesType, ConcatProperties DEF CallTypes
  <2>2. CallTypes'
      BY <1>0, <1>3, <2>1 DEF filterInstances, CallTypes
  <2> QED
      BY <1>0, <1>3, <2>2 DEF filterInstances, CallTypeAt
<1>4. ASSUME Filtered(c) PROVE Goal
  <2>1. ASSUME NEW r \in Errors, Return(c, r), call' = call PROVE Goal
      BY <1>4, <2>1, ReturnTypes DEF Filtered, Errors
  <2>2. ASSUME Len(filtered[c]) = 1, Use(c, filtered[c][1]) PROVE Goal
    <3>1. filtered[c][1] \in VMs
      <4>1. filtered[c] \in Seq(VMs)
          BY <1>0 DEF CallTypes
      <4> QED
          BY <2>2, <4>1, ElementOfSeq
    <3> QED
        BY <1>4, <2>2, <3>1, UseTypes DEF Filtered
  <2> QED
      BY <1>4, <2>1, <2>2 DEF Filtered, Errors
<1>5. ASSUME InstanceExists(c) PROVE Goal
    BY <1>0, <1>5, ReturnTypes DEF InstanceExists, CallTypeAt
<1>6. ASSUME InstanceShutdown(c) PROVE Goal
    BY <1>0, <1>6, ReturnTypes DEF InstanceShutdown, CallTypeAt, Errors
<1>7. ASSUME NodeAddressesByProviderID(c) PROVE Goal
  <2>1. CASE call[c].id \in vms
    <3>1. call' = [call EXCEPT ![c] = [call[c] EXCEPT !.addrs = nodeAddresses(call[c].id)]]
        BY <1>7, <2>1 DEF NodeAddressesByProviderID
    <3>2. [call[c] EXCEPT !.addrs = nodeAddresses(call[c].id)] \in CallType
        BY <1>0, <2>1, NetworkType DEF CallTypes, CallType, CloudTypes
    <3>3. CallTypes'
        BY <1>0, <1>7, <2>1, <3>1, <3>2 DEF NodeAddressesByProviderID, CallTypes, loopVars
    <3>4. /\ pc'[c] = "metadata" /\ pc[c] = "use" /\ call[c].op = "InstanceMetadata"
          /\ call'[c].id = call[c].id /\ call'[c].node = call[c].node /\ call'[c].op = call[c].op
          /\ \A d \in Controllers : d # c => call'[d] = call[d] /\ pc'[d] = pc[d]
          /\ result' = result
        BY <1>0, <1>7, <2>1, <3>1 DEF NodeAddressesByProviderID, CallTypes, CallType
    <3> QED
        BY <1>0, <3>3, <3>4 DEF CallTypeAt
  <2>2. CASE call[c].id \notin vms
      BY <1>7, <2>2, ReturnTypes DEF NodeAddressesByProviderID, Errors
  <2> QED
      BY <2>1, <2>2
<1>8. ASSUME InstanceMetadata(c) PROVE Goal
    BY <1>0, <1>8, ReturnTypes DEF InstanceMetadata, CallTypeAt, Errors
<1>9. UNCHANGED <<cloudVars, node, paused, faults>>
    BY DEF Request, instancesByName, WithoutPrefix, filterInstances, Filtered, InstanceExists,
           InstanceShutdown, NodeAddressesByProviderID, InstanceMetadata
<1>10. Goal
    BY <1>1, <1>2, <1>3, <1>4, <1>5, <1>6, <1>7, <1>8 DEF Request
<1> QED
    BY <1>9, <1>10, Frame, TypesPrimed

\* How the controllers change a Node.
LEMMA NodeChange ==
    ASSUME Types, NEW n \in Nodes, NEW r \in NodeType, node' = [node EXCEPT ![n] = r]
    PROVE  NodeTypes'
BY TypesParts DEF NodeTypes

Initialised(c) ==
    LET n == call[c].node
    IN  [node[n] EXCEPT !.phase = "initialised", !.ips = call[c].addrs,
                        !.type = instanceType(call[c].id),
                        !.providerID = IF @ = None THEN [scheme |-> FALSE, id |-> call[c].id] ELSE @]

LEMMA ActTypes ==
    ASSUME Types, NEW c \in Controllers, Act(c)
    PROVE  Types'
<1>0. CloudTypes /\ CallTypes /\ NodeTypes /\ \A d \in Controllers : CallTypeAt(d)
    BY TypesParts
<1>1. PICK n \in Nodes : n = call[c].node
    BY <1>0 DEF Act, CallTypeAt
<1>2. CloudTypes'
    BY Frame DEF Act
<1>3. node[n] \in NodeType
    BY <1>0 DEF NodeTypes
<1>4. CASE /\ call[c].op = "InstanceMetadata" /\ result[c] = "yes"
           /\ node' = [node EXCEPT ![n] = Initialised(c)]
           /\ Idle(c)
  <2>1. call[c].id \in VMs /\ call[c].addrs \subseteq Addrs
      BY <1>0, <1>4 DEF Act, CallTypes, CallType, CallTypeAt
  <2>2. Initialised(c) \in NodeType
      BY <1>1, <1>3, <2>1 DEF Initialised, NodeType, ProviderIDs
  <2> QED
      BY <1>2, <1>4, <2>2, NodeChange, IdleTypes, TypesPrimed DEF Act
<1>5. CASE node' = [node EXCEPT ![n].phase = "deleted"] /\ Idle(c)
  <2>1. [node[n] EXCEPT !.phase = "deleted"] \in NodeType
      BY <1>3 DEF NodeType
  <2> QED
      BY <1>2, <1>5, <2>1, NodeChange, IdleTypes, TypesPrimed DEF Act
<1>6. CASE InstanceIDByNode(c, "InstanceShutdown", n) /\ UNCHANGED node
    BY <1>2, <1>6, Frame, InstanceIDTypes, TypesPrimed DEF Act, Ops
<1>7. CASE node' = [node EXCEPT ![n].shutdown = TRUE] /\ Idle(c)
  <2>1. [node[n] EXCEPT !.shutdown = TRUE] \in NodeType
      BY <1>3 DEF NodeType
  <2> QED
      BY <1>2, <1>7, <2>1, NodeChange, IdleTypes, TypesPrimed DEF Act
<1>8. CASE Idle(c) /\ UNCHANGED node
    BY <1>2, <1>8, Frame, IdleTypes, TypesPrimed DEF Act
<1> QED
    BY <1>1, <1>4, <1>5, <1>6, <1>7, <1>8 DEF Act, Initialised

LEMMA TypesNext == Types /\ [Next]_vars => Types'
<1> SUFFICES ASSUME Types, [Next]_vars PROVE Types'
    OBVIOUS
<1>0. CloudTypes /\ CallTypes /\ NodeTypes /\ \A d \in Controllers : CallTypeAt(d)
    BY TypesParts
<1>1. ASSUME NEW n \in Nodes, SyncNode(n) PROVE Types'
    BY <1>1, Frame, InstanceIDTypes, TypesPrimed DEF SyncNode, Call, Controllers, Ops
<1>2. ASSUME NEW n \in Nodes, MonitorNode(n) PROVE Types'
    BY <1>2, Frame, InstanceIDTypes, TypesPrimed DEF MonitorNode, Call, Controllers, Ops
<1>3. ASSUME NEW c \in Controllers, Request(c) PROVE Types'
    BY <1>3, RequestTypes
<1>4. ASSUME NEW c \in Controllers, Act(c) PROVE Types'
    BY <1>4, ActTypes
<1>5. ASSUME NEW c \in Controllers, NEW k \in FaultKinds, RequestFailed(c, k) PROVE Types'
  <2>1. paused' \in BOOLEAN
      BY <1>5 DEF RequestFailed
  <2>2. CloudTypes'
      BY <1>0, <1>5, <2>1, FaultType DEF RequestFailed, CloudTypes, cloudVars
  <2>3. CallTypes' /\ \A d \in Controllers : CallTypeAt(d)'
      BY <1>5, ReturnTypes DEF RequestFailed, Errors
  <2> QED
      BY <1>5, <2>2, <2>3, Frame, TypesPrimed DEF RequestFailed
<1>6. ASSUME NEW c \in Controllers, NEW v \in VMs, FilterFailed(c, v) PROVE Types'
  <2>1. CloudTypes'
      BY <1>0, <1>6, FaultType DEF FilterFailed, CloudTypes, cloudVars
  <2>2. CallTypes' /\ \A d \in Controllers : CallTypeAt(d)'
      BY <1>0, <1>6 DEF FilterFailed, CallTypes, CallTypeAt
  <2> QED
      BY <1>6, <2>1, <2>2, Frame, TypesPrimed DEF FilterFailed
<1>7. ASSUME NEW n \in Nodes, Register(n) PROVE Types'
  <2>1. PICK p \in PresetIDs[n] :
            node' = [node EXCEPT ![n] = [node[n] EXCEPT !.phase = "new", !.ready = TRUE,
                                                        !.ips = NodeIPs[n], !.providerID = p]]
      BY <1>0, <1>7, ZenonT(60) DEF Register, NodeTypes, NodeType
  <2>2. p \in ProviderIDs /\ NodeIPs[n] \subseteq Addrs
      BY InstancesConstants
  <2>3. [node[n] EXCEPT !.phase = "new", !.ready = TRUE, !.ips = NodeIPs[n], !.providerID = p]
            \in NodeType
      BY <1>0, <2>2 DEF NodeTypes, NodeType
  <2> QED
      BY <1>7, <2>1, <2>3, NodeChange, Frame, TypesPrimed DEF Register
<1>8. ASSUME NEW n \in Nodes, NotReady(n) \/ CutOff(n) PROVE Types'
  <2>1. node' = [node EXCEPT ![n] = [node[n] EXCEPT !.ready = FALSE]]
      BY <1>8 DEF NotReady, CutOff
  <2>2. [node[n] EXCEPT !.ready = FALSE] \in NodeType
      BY <1>0 DEF NodeTypes, NodeType
  <2>3. CloudTypes'
      BY <1>0, <1>8, EventType DEF NotReady, CutOff, CloudTypes, cloudVars
  <2> QED
      BY <1>8, <2>1, <2>2, <2>3, NodeChange, Frame, TypesPrimed DEF NotReady, CutOff
<1>9. ASSUME NEW v \in VMs, DeleteVM(v) \/ Shutdown(v) \/ SwitchedOff(v) PROVE Types'
  <2>1. events' \in 0..MaxEvents
      BY <1>0, <1>9, EventType DEF DeleteVM, Shutdown, SwitchedOff, CloudTypes
  <2>2. CloudTypes'
      BY <1>0, <1>9, <2>1 DEF DeleteVM, Shutdown, SwitchedOff, CloudTypes
  <2> QED
      BY <1>9, <2>2, Frame, TypesPrimed DEF DeleteVM, Shutdown, SwitchedOff
<1>10. ASSUME PauseOver PROVE Types'
  <2>1. paused' \in BOOLEAN
      BY <1>10 DEF PauseOver
  <2>2. CloudTypes'
      BY <1>0, <1>10, <2>1 DEF PauseOver, CloudTypes, cloudVars
  <2> QED
      BY <1>10, <2>2, Frame, TypesPrimed DEF PauseOver
<1>11. ASSUME UNCHANGED vars PROVE Types'
    BY <1>11, Frame, TypesPrimed DEF vars, cloudVars, callVars
<1> QED
    BY <1>1, <1>2, <1>3, <1>4, <1>5, <1>6, <1>7, <1>8, <1>9, <1>10, <1>11 DEF Next

(***************************************************************************)
(* Instances is type correct.                                              *)
(***************************************************************************)
THEOREM InstancesTypes == Spec => []TypeOK
<1>1. Types => TypeOK
    BY DEF Types
<1> QED
    BY <1>1, TypesInit, TypesNext, PTL DEF Spec

------------------------------------------------------------------------------
\* What NodesInv says of one Node.
NodeSafe(n) ==
    LET m == Machine[n]
    IN  /\ NodeInv(n)
        /\ node[n].phase = "deleted" => m \notin vms
        /\ node[n].phase = "initialised" /\ m \in vms =>
             /\ node[n].providerID.id = m
             /\ node[n].ips = nodeAddresses(m)
             /\ node[n].type = instanceType(m)
        /\ node[n].shutdown => m \notin vms \/ power[m] = "off"

LEMMA InvParts ==
    ASSUME NodesInv
    PROVE  Types /\ (\A c \in Controllers : CallInv(c)) /\ \A n \in Nodes : NodeSafe(n)
BY DEF NodesInv, NodeSafe, OnlyLostNodesDeleted, OwnMachine, ShutdownIsOff

LEMMA InvPrimed ==
    ASSUME Types', \A c \in Controllers : CallInv(c)', \A n \in Nodes : NodeSafe(n)'
    PROVE  NodesInv'
BY DEF NodesInv, NodeSafe, OnlyLostNodesDeleted, OwnMachine, ShutdownIsOff

\* Machines are only lost, and the ones that are off stay off.
Decline == vms' \subseteq vms /\ \A v \in VMs : power[v] = "off" => power'[v] = "off"

LEMMA CallStays ==
    ASSUME NodesInv, Decline, NEW d \in Controllers,
           pc'[d] = pc[d], call'[d] = call[d], filtered'[d] = filtered[d], result'[d] = result[d]
    PROVE  CallInv(d)'
<1>1. CallInv(d) /\ (pc[d] # "idle" => Machine[call[d].node] \in VMs)
    BY InvParts, InstancesConstants DEF Types
<1>2. Identified(d) => Identified(d)'
    BY DEF Identified, Decline
<1>3. pc[d] \in {"idle", "search", "plain", "filter", "use", "metadata", "returned"}
    BY InvParts DEF Types, TypeOK
<1>4. CASE pc[d] = "returned"
    BY <1>1, <1>2, <1>4 DEF CallInv, Decline
<1>5. CASE pc[d] # "returned"
    BY <1>1, <1>2, <1>5 DEF CallInv, Decline
<1> QED
    BY <1>4, <1>5

LEMMA NodeStays ==
    ASSUME NodesInv, Decline, NEW n \in Nodes, node'[n] = node[n]
    PROVE  NodeSafe(n)'
<1>1. NodeSafe(n) /\ Machine[n] \in VMs
    BY InvParts, InstancesConstants
<1> QED
    BY <1>1 DEF NodeSafe, NodeInv, Decline

\* A step of one call that changes nothing else.
LEMMA CallStep ==
    ASSUME NodesInv, Types', UNCHANGED <<vms, power, node>>,
           NEW c \in Controllers, CallInv(c)',
           \A d \in Controllers \ {c} :
               /\ pc'[d] = pc[d] /\ call'[d] = call[d]
               /\ filtered'[d] = filtered[d] /\ result'[d] = result[d]
    PROVE  NodesInv'
<1>1. Decline
    BY DEF Decline
<1>2. \A d \in Controllers : CallInv(d)'
    BY <1>1, CallStays
<1>3. \A n \in Nodes : NodeSafe(n)'
    BY <1>1, NodeStays
<1> QED
    BY <1>2, <1>3, InvPrimed

LEMMA InvInit == Init => NodesInv
<1> SUFFICES ASSUME Init PROVE NodesInv
    OBVIOUS
<1>1. Types
    BY TypesInit
<1>2. \A c \in Controllers : CallInv(c)
    BY DEF Init, CallInv
<1>3. \A n \in Nodes : NodeInv(n)
    BY DEF Init, NodeInv
<1>4. OnlyLostNodesDeleted /\ OwnMachine /\ ShutdownIsOff
    BY DEF Init, OnlyLostNodesDeleted, OwnMachine, ShutdownIsOff
<1> QED
    BY <1>1, <1>2, <1>3, <1>4 DEF NodesInv

\* A call that returns an error promises nothing.
LEMMA ErrorInv ==
    ASSUME NodesInv, Types', UNCHANGED <<vms, power, node, call>>,
           NEW c \in Controllers, NEW r \in Errors, Return(c, r)
    PROVE  NodesInv'
<1>1. /\ pc'[c] = "returned" /\ result'[c] = r /\ filtered'[c] = <<>>
      /\ \A d \in Controllers \ {c} :
           pc'[d] = pc[d] /\ call'[d] = call[d] /\ filtered'[d] = filtered[d] /\ result'[d] = result[d]
    BY InvParts, TypesParts DEF Return, CallTypes
<1>2. CallInv(c)'
    BY <1>1 DEF CallInv, Errors
<1> QED
    BY <1>1, <1>2, CallStep

\* A call goes on with the identifier of the Node's machine.
LEMMA UseInv ==
    ASSUME NodesInv, Types', UNCHANGED <<vms, power, node>>,
           NEW c \in Controllers, NEW v \in VMs, Use(c, v),
           Machine[call[c].node] \in vms => v = Machine[call[c].node]
    PROVE  NodesInv'
<1>0. CallTypes
    BY InvParts, TypesParts
<1>1. call' = [call EXCEPT ![c] = [call[c] EXCEPT !.id = v]]
    BY DEF Use
<1>2. /\ pc'[c] = "use" /\ call'[c].node = call[c].node /\ call'[c].id = v /\ filtered'[c] = <<>>
      /\ \A d \in Controllers \ {c} :
           pc'[d] = pc[d] /\ call'[d] = call[d] /\ filtered'[d] = filtered[d] /\ result'[d] = result[d]
    BY <1>0, <1>1 DEF Use, CallTypes, CallType
<1>3. CallInv(c)'
    BY <1>2 DEF CallInv, Identified
<1> QED
    BY <1>2, <1>3, CallStep

LEMMA InstanceIDInv ==
    ASSUME NodesInv, Types', UNCHANGED <<vms, power, node>>,
           NEW c \in Controllers, pc[c] # "filter", NEW op \in Ops, NEW n \in Nodes,
           InstanceIDByNode(c, op, n),
           result' = result \/ result' = [result EXCEPT ![c] = None]
    PROVE  NodesInv'
<1>0. CallTypes /\ NodeTypes /\ CallInv(c) /\ NodeSafe(n)
    BY InvParts, TypesParts
<1> DEFINE p == node[n].providerID
<1>1. /\ call'[c].node = n /\ call'[c].ips = node[n].ips
      /\ call'[c].id = (IF p = None THEN None ELSE p.id)
      /\ pc'[c] = (IF p = None THEN "search" ELSE "use")
      /\ filtered'[c] = filtered[c] /\ filtered[c] = <<>>
      /\ \A d \in Controllers \ {c} :
           pc'[d] = pc[d] /\ call'[d] = call[d] /\ filtered'[d] = filtered[d] /\ result'[d] = result[d]
    BY <1>0 DEF InstanceIDByNode, TrimPrefix, CallTypes, loopVars, CallInv
<1>2. CallInv(c)'
  <2>1. CASE p = None
      BY <1>0, <1>1, <2>1 DEF CallInv, NodeSafe, NodeInv
  <2>2. CASE p # None
      BY <1>0, <1>1, <2>2 DEF CallInv, Identified, NodeSafe, NodeInv
  <2> QED
      BY <2>1, <2>2
<1> QED
    BY <1>1, <1>2, CallStep

\* The answer of a search that has the Node's machine in it, if it exists.
LEMMA FoundInv ==
    ASSUME NodesInv, Types', UNCHANGED <<vms, power, node>>,
           NEW c \in Controllers, pc[c] \in {"search", "plain"}, NEW S \in SUBSET VMs, Found(c, S),
           Machine[call[c].node] \in vms => Machine[call[c].node] \in S
    PROVE  NodesInv'
<1>0. CallTypes /\ CallInv(c)
    BY InvParts, TypesParts
<1>1. CASE Return(c, "not found") /\ UNCHANGED call
    BY <1>1, ErrorInv DEF Errors
<1>2. ASSUME NEW v \in S, S = {v}, Use(c, v) PROVE NodesInv'
    BY <1>2, UseInv
<1>3. CASE /\ pc' = [pc EXCEPT ![c] = "filter"]
           /\ UNCHANGED <<call, filtered, result>>
  <2>1. pc'[c] = "filter" /\ \A d \in Controllers \ {c} : pc'[d] = pc[d]
      BY <1>0, <1>3 DEF CallTypes
  <2>2. filtered[c] = <<>> /\ DOMAIN filtered[c] = {}
      BY <1>0 DEF CallInv
  <2>3. CallInv(c)'
      BY <1>0, <1>3, <2>1, <2>2 DEF CallInv
  <2> QED
      BY <1>3, <2>1, <2>3, CallStep
<1> QED
    BY <1>1, <1>2, <1>3 DEF Found

LEMMA SearchInv ==
    ASSUME FoundByName, NodesInv, Types', NEW c \in Controllers,
           instancesByName(c) \/ WithoutPrefix(c)
    PROVE  NodesInv'
<1>0. /\ CloudTypes /\ CallTypes /\ CallInv(c)
      /\ CallTypeAt(c)
    BY InvParts, TypesParts
<1>1. PICK n \in Nodes : n = call[c].node
    BY <1>0 DEF CallTypeAt, instancesByName, WithoutPrefix
<1>2. Machine[n] \in VMs /\ customerID \in CustomerIDs /\ vms \subseteq VMs
    BY <1>0, InstancesConstants DEF CloudTypes
<1>3. \/ Prefixed(customerID, n, Machine[n])
      \/ VMName[Machine[n]] = NodeName[n] /\ \A v \in VMs : ~Prefixed(customerID, n, v)
    BY <1>2 DEF FoundByName
<1>4. UNCHANGED <<vms, power, node>>
    BY DEF instancesByName, WithoutPrefix, cloudVars
<1>5. ASSUME instancesByName(c), SearchPrefixed(n) = {} PROVE NodesInv'
  <2>1. /\ pc[c] = "search" /\ pc'[c] = "plain" /\ UNCHANGED <<call, filtered, result>>
        /\ \A d \in Controllers \ {c} : pc'[d] = pc[d]
      BY <1>0, <1>1, <1>5 DEF instancesByName, CallTypes, loopVars
  <2>2. Machine[n] \in vms => VMName[Machine[n]] = NodeName[n]
      BY <1>3, <1>5 DEF SearchPrefixed
  <2>3. CallInv(c)'
      BY <1>0, <1>1, <1>4, <2>1, <2>2 DEF CallInv
  <2> QED
      BY <1>4, <2>1, <2>3, CallStep
<1>6. ASSUME instancesByName(c), SearchPrefixed(n) # {} PROVE NodesInv'
  <2>1. SearchPrefixed(n) \in SUBSET VMs
      BY <1>2 DEF SearchPrefixed
  <2>2. Machine[n] \in vms => Machine[n] \in SearchPrefixed(n)
      BY <1>2, <1>3, <1>6 DEF SearchPrefixed
  <2> QED
      BY <1>1, <1>4, <1>6, <2>1, <2>2, FoundInv DEF instancesByName
<1>7. ASSUME WithoutPrefix(c) PROVE NodesInv'
  <2>1. SearchPlain(n) \in SUBSET VMs
      BY <1>2 DEF SearchPlain
  <2>2. Machine[n] \in vms => Machine[n] \in SearchPlain(n)
      BY <1>0, <1>1, <1>7 DEF SearchPlain, CallInv, WithoutPrefix
  <2> QED
      BY <1>1, <1>4, <1>7, <2>1, <2>2, FoundInv DEF WithoutPrefix
<1> QED
    BY <1>5, <1>6, <1>7

LEMMA FilterInv ==
    ASSUME OwnAddresses, NodesInv, Types', NEW c \in Controllers, NEW v \in VMs,
           filterInstances(c, v) \/ FilterFailed(c, v)
    PROVE  NodesInv'
<1>0. CallTypes /\ CallInv(c) /\ CallTypeAt(c)
    BY InvParts, TypesParts
<1>1. PICK n \in Nodes : n = call[c].node
    BY <1>0 DEF CallTypeAt, filterInstances, FilterFailed
<1>2. /\ pc[c] = "filter" /\ UNCHANGED <<vms, power, node, pc, call, result>>
      /\ \A d \in Controllers \ {c} : filtered'[d] = filtered[d]
    BY <1>0 DEF filterInstances, FilterFailed, cloudVars, CallTypes
<1>3. call[c].ips \subseteq NodeIPs[n] /\ \A i \in DOMAIN filtered[c] : filtered[c][i] = Machine[n]
    BY <1>0, <1>1, <1>2 DEF CallInv
<1>4. \A i \in DOMAIN Matches(c, v) : Matches(c, v)[i] = Machine[n]
  <2>1. CASE v = Machine[n]
      BY <2>1, MatchesType
  <2>2. CASE v # Machine[n]
    <3>1. addresses(v) \cap call[c].ips = {}
        BY <1>3, <2>2 DEF OwnAddresses
    <3>2. Matches(c, v) = <<>>
        BY <3>1, MatchesType
    <3> QED
        BY <3>2
  <2> QED
      BY <2>1, <2>2
<1>5. \A i \in DOMAIN filtered'[c] : filtered'[c][i] = Machine[n]
  <2>1. CASE filtered'[c] = filtered[c]
      BY <1>3, <2>1
  <2>2. CASE filtered'[c] = filtered[c] \o Matches(c, v)
    <3> DEFINE f == filtered[c]
               g == Matches(c, v)
    <3>1. f \in Seq(VMs) /\ g \in Seq(VMs)
        BY <1>0, MatchesType DEF CallTypes
    <3> HIDE DEF f, g
    <3>2. /\ Len(f) \in Nat /\ DOMAIN f = 1..Len(f)
          /\ Len(g) \in Nat /\ DOMAIN g = 1..Len(g)
          /\ DOMAIN (f \o g) = 1..(Len(f) + Len(g))
          /\ \A i \in 1..(Len(f) + Len(g)) :
               (f \o g)[i] = IF i <= Len(f) THEN f[i] ELSE g[i - Len(f)]
        BY <3>1, LenProperties, ConcatProperties
    <3>3. ASSUME NEW i \in DOMAIN (f \o g) PROVE (f \o g)[i] = Machine[n]
      <4>1. CASE i <= Len(f)
        <5>1. i \in DOMAIN f
            BY <3>2, <4>1
        <5> QED
            BY <1>3, <3>2, <4>1, <5>1 DEF f
      <4>2. CASE ~(i <= Len(f))
        <5>1. i - Len(f) \in DOMAIN g
            BY <3>2, <4>2
        <5> QED
            BY <1>4, <3>2, <4>2, <5>1 DEF g
      <4> QED
          BY <4>1, <4>2
    <3> QED
        BY <2>2, <3>3 DEF f, g
  <2> QED
      BY <1>0, <2>1, <2>2 DEF filterInstances, FilterFailed, CallTypes
<1>6. CallInv(c)'
    BY <1>1, <1>2, <1>3, <1>5 DEF CallInv
<1> QED
    BY <1>2, <1>6, CallStep

LEMMA FilteredInv ==
    ASSUME NodesInv, Types', NEW c \in Controllers, Filtered(c)
    PROVE  NodesInv'
<1>0. CallTypes /\ CallInv(c)
    BY InvParts, TypesParts
<1>1. UNCHANGED <<vms, power, node>>
    BY DEF Filtered, cloudVars
<1>2. ASSUME NEW r \in Errors, Return(c, r), call' = call PROVE NodesInv'
    BY <1>1, <1>2, ErrorInv
<1>3. ASSUME Len(filtered[c]) = 1, Use(c, filtered[c][1]) PROVE NodesInv'
  <2>1. filtered[c] \in Seq(VMs)
      BY <1>0 DEF CallTypes
  <2>2. 1 \in DOMAIN filtered[c] /\ filtered[c][1] \in VMs
      BY <1>3, <2>1, ElementOfSeq, LenProperties
  <2>3. filtered[c][1] = Machine[call[c].node]
      BY <1>0, <2>2 DEF CallInv, Filtered
  <2> QED
      BY <1>1, <1>3, <2>2, <2>3, UseInv
<1> QED
    BY <1>2, <1>3 DEF Filtered, Errors

\* What the requests with an identifier answer.
LEMMA AnswerInv ==
    ASSUME NodesInv, Types', NEW c \in Controllers,
           \/ InstanceExists(c) \/ InstanceShutdown(c)
           \/ NodeAddressesByProviderID(c) \/ InstanceMetadata(c)
    PROVE  NodesInv'
<1>0. CloudTypes /\ CallTypes /\ CallInv(c) /\ CallTypeAt(c)
    BY InvParts, TypesParts
<1>1. PICK n \in Nodes : n = call[c].node
    BY <1>0 DEF CallTypeAt, InstanceExists, InstanceShutdown, NodeAddressesByProviderID, InstanceMetadata
<1>2. UNCHANGED <<vms, power, node>>
    BY DEF InstanceExists, InstanceShutdown, NodeAddressesByProviderID, InstanceMetadata, cloudVars
<1>3. pc[c] \in {"use", "metadata"} /\ call[c].id \in VMs /\ (Machine[n] \in vms => call[c].id = Machine[n])
    BY <1>0, <1>1 DEF CallInv, CallTypeAt, Identified, InstanceExists, InstanceShutdown,
           NodeAddressesByProviderID, InstanceMetadata
\* A call that returns.
<1>4. ASSUME NEW r \in {"yes", "no"} \cup Errors, Return(c, r), call' = call,
             call[c].op = "InstanceMetadata" /\ r = "yes" => call[c].addrs = nodeAddresses(call[c].id),
             call[c].op = "InstanceExists" /\ r = "no" => Machine[n] \notin vms,
             call[c].op = "InstanceShutdown" /\ r = "yes" => Machine[n] \notin vms \/ power[Machine[n]] = "off"
      PROVE  NodesInv'
  <2>1. /\ pc'[c] = "returned" /\ result'[c] = r /\ filtered'[c] = <<>>
        /\ \A d \in Controllers \ {c} :
             pc'[d] = pc[d] /\ call'[d] = call[d] /\ filtered'[d] = filtered[d] /\ result'[d] = result[d]
      BY <1>0, <1>4 DEF Return, CallTypes
  <2>2. CallInv(c)'
      BY <1>1, <1>2, <1>3, <1>4, <2>1 DEF CallInv, Identified
  <2> QED
      BY <1>2, <2>1, <2>2, CallStep
<1>5. ASSUME InstanceExists(c) PROVE NodesInv'
  <2>1. CASE call[c].id \in vms
      BY <1>4, <1>5, <2>1 DEF InstanceExists
  <2>2. CASE call[c].id \notin vms
      BY <1>3, <1>4, <1>5, <2>2 DEF InstanceExists
  <2> QED
      BY <2>1, <2>2
<1>6. ASSUME InstanceShutdown(c) PROVE NodesInv'
  <2>1. call[c].op = "InstanceShutdown" /\ call' = call
      BY <1>6 DEF InstanceShutdown
  <2>2. CASE call[c].id \notin vms
    <3>1. Return(c, "failed")
        BY <1>6, <2>2 DEF InstanceShutdown
    <3> QED
        BY <1>2, <2>1, <3>1, ErrorInv DEF Errors
  <2>3. CASE call[c].id \in vms /\ power[call[c].id] = "on"
    <3>1. Return(c, "no")
        BY <1>6, <2>3 DEF InstanceShutdown
    <3> QED
        BY <1>4, <2>1, <3>1
  <2>4. CASE call[c].id \in vms /\ power[call[c].id] = "off"
    <3>1. Return(c, "yes")
        BY <1>6, <2>4 DEF InstanceShutdown
    <3>2. Machine[n] \notin vms \/ power[Machine[n]] = "off"
        BY <1>3, <2>4
    <3> QED
        BY <1>4, <2>1, <3>1, <3>2
  <2>5. CASE call[c].id \in vms /\ power[call[c].id] \notin {"on", "off"}
    <3>1. Return(c, "failed")
        BY <1>6, <2>5 DEF InstanceShutdown
    <3> QED
        BY <1>2, <2>1, <3>1, ErrorInv DEF Errors
  <2> QED
      BY <2>2, <2>3, <2>4, <2>5
<1>7. ASSUME NodeAddressesByProviderID(c) PROVE NodesInv'
  <2>1. CASE call[c].id \in vms
    <3>1. call' = [call EXCEPT ![c] = [call[c] EXCEPT !.addrs = nodeAddresses(call[c].id)]]
        BY <1>7, <2>1 DEF NodeAddressesByProviderID
    <3>2. /\ pc[c] = "use" /\ pc'[c] = "metadata" /\ filtered' = filtered /\ result' = result
          /\ call'[c].id = call[c].id /\ call'[c].node = n
          /\ call'[c].addrs = nodeAddresses(call[c].id)
          /\ \A d \in Controllers \ {c} : pc'[d] = pc[d] /\ call'[d] = call[d]
        BY <1>0, <1>1, <1>7, <2>1, <3>1 DEF NodeAddressesByProviderID, CallTypes, CallType, loopVars
    <3>3. CallInv(c)'
        BY <1>0, <1>1, <1>2, <1>3, <3>2 DEF CallInv, Identified
    <3> QED
        BY <1>2, <3>2, <3>3, CallStep
  <2>2. CASE call[c].id \notin vms
      BY <1>2, <1>7, <2>2, ErrorInv DEF NodeAddressesByProviderID, Errors
  <2> QED
      BY <2>1, <2>2
<1>8. ASSUME InstanceMetadata(c) PROVE NodesInv'
  <2>1. call[c].op = "InstanceMetadata" /\ call[c].addrs = nodeAddresses(call[c].id) /\ call' = call
      BY <1>0, <1>8 DEF InstanceMetadata, CallInv, CallTypeAt
  <2>2. CASE call[c].id \in vms
      BY <1>4, <1>8, <2>1, <2>2 DEF InstanceMetadata
  <2>3. CASE call[c].id \notin vms
      BY <1>2, <1>8, <2>1, <2>3, ErrorInv DEF InstanceMetadata, Errors
  <2> QED
      BY <2>2, <2>3
<1> QED
    BY <1>5, <1>6, <1>7, <1>8

\* A Node changes and the calls but c stay.
LEMMA NodeStep ==
    ASSUME NodesInv, Types', Decline, NEW n \in Nodes, NodeSafe(n)',
           NEW r, node' = [node EXCEPT ![n] = r],
           \A c \in Controllers : CallInv(c)'
    PROVE  NodesInv'
<1>1. \A k \in Nodes : k # n => node'[k] = node[k]
    BY InvParts, TypesParts DEF NodeTypes
<1>2. \A k \in Nodes : NodeSafe(k)'
    BY <1>1, NodeStays
<1> QED
    BY <1>2, InvPrimed

LEMMA IdleInv ==
    ASSUME NodesInv, UNCHANGED <<vms, power>>, NEW c \in Controllers, pc[c] # "filter",
           Idle(c), result' = [result EXCEPT ![c] = None]
    PROVE  /\ \A d \in Controllers : CallInv(d)'
           /\ \A d \in Controllers \ {c} :
                pc'[d] = pc[d] /\ call'[d] = call[d] /\ filtered'[d] = filtered[d] /\ result'[d] = result[d]
<1>0. CallTypes /\ CallInv(c)
    BY InvParts, TypesParts
<1>1. /\ pc'[c] = "idle" /\ filtered'[c] = <<>>
      /\ \A d \in Controllers \ {c} :
           pc'[d] = pc[d] /\ call'[d] = call[d] /\ filtered'[d] = filtered[d] /\ result'[d] = result[d]
    BY <1>0 DEF Idle, CallTypes, CallInv, loopVars
<1>2. CallInv(c)'
    BY <1>1 DEF CallInv
<1>3. Decline
    BY DEF Decline
<1> QED
    BY <1>1, <1>2, <1>3, CallStays

\* What the controllers do with the answers.
LEMMA ActInv ==
    ASSUME NodesInv, Types', NEW c \in Controllers, Act(c)
    PROVE  NodesInv'
<1>0. CallTypes /\ NodeTypes /\ CallInv(c) /\ CallTypeAt(c)
    BY InvParts, TypesParts
<1>1. PICK n \in Nodes : n = call[c].node
    BY <1>0 DEF Act, CallTypeAt
<1>2. /\ UNCHANGED <<vms, power>> /\ pc[c] = "returned"
      /\ result' = [result EXCEPT ![c] = None] /\ Decline
    BY DEF Act, cloudVars, Decline
<1>3. NodeSafe(n) /\ node[n] \in NodeType
    BY <1>0, InvParts DEF NodeTypes
<1>4. ASSUME call[c].op = "InstanceMetadata", result[c] = "yes",
             node' = [node EXCEPT ![n] = Initialised(c)], Idle(c)
      PROVE  NodesInv'
  <2>1. call[c].id \in VMs /\ Identified(c) /\ call[c].addrs = nodeAddresses(call[c].id)
      BY <1>0, <1>2, <1>4 DEF CallInv, CallTypeAt
  <2>2. /\ node'[n].phase = "initialised" /\ node'[n].ips = call[c].addrs
        /\ node'[n].type = instanceType(call[c].id) /\ node'[n].shutdown = node[n].shutdown
        /\ node'[n].providerID = IF node[n].providerID = None
                                   THEN [scheme |-> FALSE, id |-> call[c].id] ELSE node[n].providerID
      BY <1>0, <1>1, <1>3, <1>4 DEF Initialised, NodeTypes, NodeType
  <2>3. node'[n].providerID # None
    <3> DEFINE r == [scheme |-> FALSE, id |-> call[c].id]
    <3>1. r \in [scheme : BOOLEAN, id : VMs]
        BY <2>1
    <3>2. None \notin [scheme : BOOLEAN, id : VMs]
        BY InstancesConstants
    <3>3. r # None
        BY <3>1, <3>2
    <3> HIDE DEF r
    <3>4. node'[n].providerID = IF node[n].providerID = None THEN r ELSE node[n].providerID
        BY <2>2 DEF r
    <3> QED
        BY <3>3, <3>4
  <2>4. NodeSafe(n)'
      BY <1>1, <1>2, <1>3, <2>1, <2>2, <2>3 DEF NodeSafe, NodeInv, Identified
  <2> QED
      BY <1>2, <1>4, <2>4, IdleInv, NodeStep
<1>5. ASSUME call[c].op = "InstanceExists", result[c] = "no",
             node' = [node EXCEPT ![n] = [node[n] EXCEPT !.phase = "deleted"]], Idle(c)
      PROVE  NodesInv'
  <2>1. Machine[n] \notin vms
      BY <1>0, <1>1, <1>2, <1>5 DEF CallInv
  <2>2. /\ node'[n].phase = "deleted" /\ node'[n].shutdown = node[n].shutdown
        /\ node'[n].providerID = node[n].providerID /\ node'[n].ips = node[n].ips
      BY <1>0, <1>3, <1>5 DEF NodeTypes, NodeType
  <2>3. NodeSafe(n)'
      BY <1>2, <1>3, <2>1, <2>2 DEF NodeSafe, NodeInv
  <2> QED
      BY <1>2, <1>5, <2>3, IdleInv, NodeStep
<1>6. ASSUME InstanceIDByNode(c, "InstanceShutdown", n), UNCHANGED node PROVE NodesInv'
    BY <1>2, <1>6, InstanceIDInv DEF Ops
<1>7. ASSUME call[c].op = "InstanceShutdown", result[c] = "yes",
             node' = [node EXCEPT ![n] = [node[n] EXCEPT !.shutdown = TRUE]], Idle(c)
      PROVE  NodesInv'
  <2>1. Machine[n] \notin vms \/ power[Machine[n]] = "off"
      BY <1>0, <1>1, <1>2, <1>7 DEF CallInv
  <2>2. /\ node'[n].phase = node[n].phase /\ node'[n].type = node[n].type
        /\ node'[n].providerID = node[n].providerID /\ node'[n].ips = node[n].ips
      BY <1>0, <1>3, <1>7 DEF NodeTypes, NodeType
  <2>3. NodeSafe(n)'
      BY <1>2, <1>3, <2>1, <2>2 DEF NodeSafe, NodeInv
  <2> QED
      BY <1>2, <1>7, <2>3, IdleInv, NodeStep
<1>8. ASSUME Idle(c), UNCHANGED node PROVE NodesInv'
    BY <1>2, <1>8, IdleInv, CallStep
<1> QED
    BY <1>1, <1>4, <1>5, <1>6, <1>7, <1>8 DEF Act, Initialised

\* The kubelets.
LEMMA KubeletInv ==
    ASSUME NodesInv, Types', NEW n \in Nodes, Register(n) \/ NotReady(n) \/ CutOff(n)
    PROVE  NodesInv'
<1>1. UNCHANGED <<vms, power, callVars>> /\ Decline
    BY DEF Register, NotReady, CutOff, cloudVars, Decline
<1>2. \A c \in Controllers : CallInv(c)'
    BY <1>1, CallStays DEF callVars
<1>3. NodeSafe(n) /\ NodeTypes /\ node[n] \in NodeType
    BY InvParts, TypesParts DEF NodeTypes
<1>4. ASSUME Register(n) PROVE NodesInv'
  <2> DEFINE new(p) == [node[n] EXCEPT !.phase = "new", !.ready = TRUE,
                                       !.ips = NodeIPs[n], !.providerID = p]
  <2>1. PICK p \in PresetIDs[n] : node' = [node EXCEPT ![n] = new(p)]
      BY <1>3, <1>4, ZenonT(60) DEF Register, NodeTypes, NodeType
  <2>2. p # None => p.id = Machine[n]
      BY InstancesConstants
  <2>3. /\ node'[n].phase = "new" /\ node'[n].ips = NodeIPs[n]
        /\ node'[n].providerID = p /\ node'[n].shutdown = node[n].shutdown
      BY <1>3, <2>1 DEF NodeTypes, NodeType
  <2>4. NodeSafe(n)'
      BY <1>1, <1>3, <2>2, <2>3 DEF NodeSafe, NodeInv
  <2> QED
      BY <1>1, <1>2, <2>1, <2>4, NodeStep
<1>5. ASSUME NotReady(n) \/ CutOff(n) PROVE NodesInv'
  <2>1. node' = [node EXCEPT ![n] = [node[n] EXCEPT !.ready = FALSE]]
      BY <1>5 DEF NotReady, CutOff
  <2>2. /\ node'[n].phase = node[n].phase /\ node'[n].type = node[n].type
        /\ node'[n].providerID = node[n].providerID /\ node'[n].ips = node[n].ips
        /\ node'[n].shutdown = node[n].shutdown
      BY <1>3, <2>1 DEF NodeTypes, NodeType
  <2>3. NodeSafe(n)'
      BY <1>1, <1>3, <2>2 DEF NodeSafe, NodeInv
  <2> QED
      BY <1>1, <1>2, <2>1, <2>3, NodeStep
<1> QED
    BY <1>4, <1>5

\* Steps that leave Nodes and calls alone.
LEMMA CloudInv ==
    ASSUME NodesInv, Types', Decline, UNCHANGED <<node, callVars>>
    PROVE  NodesInv'
<1>1. \A c \in Controllers : CallInv(c)'
    BY CallStays DEF callVars
<1>2. \A n \in Nodes : NodeSafe(n)'
    BY NodeStays
<1> QED
    BY <1>1, <1>2, InvPrimed

LEMMA InvNext ==
    ASSUME FoundByName, OwnAddresses, NodesInv, [Next]_vars
    PROVE  NodesInv'
<1>0. Types' /\ CloudTypes
    BY TypesNext, TypesParts, InvParts
<1>1. ASSUME NEW n \in Nodes, SyncNode(n) \/ MonitorNode(n) PROVE NodesInv'
    BY <1>0, <1>1, InstanceIDInv DEF SyncNode, MonitorNode, Call, Controllers, Ops, cloudVars
<1>2. ASSUME NEW c \in Controllers, Request(c) PROVE NodesInv'
    BY <1>0, <1>2, SearchInv, FilterInv, FilteredInv, AnswerInv DEF Request
<1>3. ASSUME NEW c \in Controllers, Act(c) PROVE NodesInv'
    BY <1>0, <1>3, ActInv
<1>4. ASSUME NEW c \in Controllers, NEW k \in FaultKinds, RequestFailed(c, k) PROVE NodesInv'
    BY <1>0, <1>4, ErrorInv DEF RequestFailed, Errors, cloudVars
<1>5. ASSUME NEW c \in Controllers, NEW v \in VMs, FilterFailed(c, v) PROVE NodesInv'
    BY <1>0, <1>5, FilterInv
<1>6. ASSUME NEW n \in Nodes, Register(n) \/ NotReady(n) \/ CutOff(n) PROVE NodesInv'
    BY <1>0, <1>6, KubeletInv
<1>7. ASSUME NEW v \in VMs, DeleteVM(v) \/ Shutdown(v) \/ SwitchedOff(v) PROVE NodesInv'
  <2>1. Decline
      BY <1>0, <1>7 DEF DeleteVM, Shutdown, SwitchedOff, Decline, CloudTypes
  <2> QED
      BY <1>0, <1>7, <2>1, CloudInv DEF DeleteVM, Shutdown, SwitchedOff
<1>8. ASSUME PauseOver \/ UNCHANGED vars PROVE NodesInv'
    BY <1>0, <1>8, CloudInv DEF PauseOver, vars, cloudVars, callVars, Decline
<1> QED
    BY <1>1, <1>2, <1>3, <1>4, <1>5, <1>6, <1>7, <1>8 DEF Next

(***************************************************************************)
(* Every call in flight and every Node refer to the Node's own machine, or *)
(* that machine is gone; if machines are found by their names and no other *)
(* machine has an address of the Node.                                     *)
(***************************************************************************)
THEOREM NodesInvHolds ==
    ASSUME FoundByName, OwnAddresses
    PROVE  Spec => []NodesInv
<1>1. NodesInv /\ [Next]_vars => NodesInv'
    BY InvNext
<1> QED
    BY <1>1, InvInit, PTL DEF Spec

(***************************************************************************)
(* No Node is deleted whose machine exists: neither a failed nor a refused *)
(* request, nor a namesake, nor an answer that has become old is taken for *)
(* a machine that is gone (InstanceExists).                                *)
(***************************************************************************)
THEOREM OnlyLostNodesDeletedHolds ==
    ASSUME FoundByName, OwnAddresses
    PROVE  Spec => []OnlyLostNodesDeleted
<1>1. NodesInv => OnlyLostNodesDeleted
    BY DEF NodesInv
<1> QED
    BY <1>1, NodesInvHolds, PTL

(***************************************************************************)
(* A Node is initialised with identifier, addresses and type of its own    *)
(* machine (InstanceMetadata), however many have its name.                 *)
(***************************************************************************)
THEOREM OwnMachineHolds ==
    ASSUME FoundByName, OwnAddresses
    PROVE  Spec => []OwnMachine
<1>1. NodesInv => OwnMachine
    BY DEF NodesInv
<1> QED
    BY <1>1, NodesInvHolds, PTL

(***************************************************************************)
(* A Node is marked as shut down only when its machine is off or gone      *)
(* (InstanceShutdown).                                                     *)
(***************************************************************************)
THEOREM ShutdownIsOffHolds ==
    ASSUME FoundByName, OwnAddresses
    PROVE  Spec => []ShutdownIsOff
<1>1. NodesInv => ShutdownIsOff
    BY DEF NodesInv
<1> QED
    BY <1>1, NodesInvHolds, PTL

------------------------------------------------------------------------------
(***************************************************************************)
(* instanceType, for any number of disks.                                  *)
(***************************************************************************)
\* Induction on the natural numbers, for a set instead of a predicate.
LEMMA InductionTo ==
    ASSUME NEW N \in Nat, NEW S, 0 \in S, \A n \in 0..(N - 1) : n \in S => n + 1 \in S
    PROVE  0..N \subseteq S
<1> DEFINE T == (0..N) \ S
           R == OpToRel(<, Nat)
<1> SUFFICES ASSUME T # {} PROVE FALSE
    OBVIOUS
<1>1. IsWellFoundedOn(R, Nat)
    BY NatLessThanWellFounded, Zenon
<1>2. \A y, x \in Nat : y < x => <<y, x>> \in R
    BY DEF OpToRel
<1> HIDE DEF R
<1>3. PICK x \in T : \A y \in T : ~(<<y, x>> \in R)
  <2>1. T \subseteq Nat
      OBVIOUS
  <2> QED
      BY <1>1, <2>1, WFMin
<1>4. x # 0 /\ x \in 1..N
    OBVIOUS
<1>5. x - 1 \in 0..(N - 1) /\ <<x - 1, x>> \in R
    BY <1>2, <1>4
<1>6. x - 1 \notin T
    BY <1>3, <1>5
<1> QED
    BY <1>4, <1>5, <1>6

\* The loop of instanceType has looked at one disk after the other.
LEMMA DisksLooked ==
    ASSUME NEW disks, Len(disks) \in Nat
    PROVE  LET Loop(f) == [i \in 0..Len(disks) |-> IF i = 0 THEN None ELSE largerDisk(f[i - 1], disks[i])]
           IN  \E f : f = Loop(f) /\ largestDisk(disks) = f[Len(disks)]
<1> DEFINE N == Len(disks)
           Loop(f) == [i \in 0..N |-> IF i = 0 THEN None ELSE largerDisk(f[i - 1], disks[i])]
           Upto(n, f) == f[0] = None /\ \A i \in 1..n : f[i] = largerDisk(f[i - 1], disks[i])
           S == {n \in 0..N : \E f : Upto(n, f)}
<1>1. 0 \in S
  <2> DEFINE f == [i \in {0} |-> None]
  <2>1. Upto(0, f)
      OBVIOUS
  <2> HIDE DEF f
  <2> QED
      BY <2>1
<1>2. ASSUME NEW n \in 0..(N - 1), n \in S PROVE n + 1 \in S
  <2>1. PICK f : Upto(n, f)
      BY <1>2
  <2> DEFINE g == [i \in 0..n + 1 |-> IF i = n + 1 THEN largerDisk(f[n], disks[n + 1]) ELSE f[i]]
  <2>2. g[0] = None /\ g[n + 1] = largerDisk(g[n], disks[n + 1])
      BY <2>1
  <2>3. ASSUME NEW i \in 1..n PROVE g[i] = largerDisk(g[i - 1], disks[i])
      BY <2>1
  <2> HIDE DEF g
  <2>4. \A i \in 1..n + 1 : i \in 1..n \/ i = n + 1
      OBVIOUS
  <2>5. Upto(n + 1, g)
      BY <2>2, <2>3, <2>4
  <2> QED
      BY <2>5
<1>3. N \in S
  <2> HIDE DEF S
  <2>1. 0..N \subseteq S
      BY <1>1, <1>2, InductionTo
  <2> QED
      BY <2>1
<1>4. PICK f : Upto(N, f)
    BY <1>3
<1> DEFINE g == [i \in 0..N |-> f[i]]
<1>5. g = Loop(g)
  <2>1. \A i \in 0..N : g[i] = IF i = 0 THEN None ELSE largerDisk(g[i - 1], disks[i])
      BY <1>4
  <2> QED
      BY <2>1
<1>6. largestDisk(disks) = (CHOOSE h : h = Loop(h))[N]
    BY DEF largestDisk
<1> HIDE DEF g, Loop
<1>7. (CHOOSE h : h = Loop(h)) = Loop(CHOOSE h : h = Loop(h))
    BY <1>5
<1> QED
    BY <1>6, <1>7 DEF Loop

\* What it finds: a largest of the disks whose kind is known.
LEMMA LargestFound ==
    ASSUME NEW disks, Len(disks) \in Nat, DOMAIN disks = 1..Len(disks),
           \A i \in DOMAIN disks : disks[i] # None /\ disks[i].gb \in Nat
    PROVE  LET d == largestDisk(disks)
           IN  LargestDisk(IF d = None THEN None ELSE d.type, disks)
<1> DEFINE N == Len(disks)
           Loop(f) == [i \in 0..N |-> IF i = 0 THEN None ELSE largerDisk(f[i - 1], disks[i])]
           Typed(n) == {i \in 1..n : disks[i].type # None}
<1>1. PICK f : f = Loop(f) /\ largestDisk(disks) = f[N]
    BY DisksLooked
<1> DEFINE Best(n, i) == f[n] = disks[i] /\ \A j \in Typed(n) : disks[j].gb <= disks[i].gb
           Seen(n) == \/ Typed(n) = {} /\ f[n] = None
                      \/ \E i \in Typed(n) : Best(n, i)
           S == {n \in 0..N : Seen(n)}
<1>2. f[0] = None /\ \A n \in 0..(N - 1) : f[n + 1] = largerDisk(f[n], disks[n + 1])
  <2>1. \A i \in 0..N : f[i] = IF i = 0 THEN None ELSE largerDisk(f[i - 1], disks[i])
      BY <1>1
  <2>2. \A n \in 0..(N - 1) : n + 1 \in 0..N /\ n + 1 # 0 /\ (n + 1) - 1 = n
      OBVIOUS
  <2> HIDE DEF Loop
  <2> QED
      BY <2>1, <2>2
<1>3. 0 \in S
    BY <1>2
<1>4. ASSUME NEW n \in 0..(N - 1), n \in S PROVE n + 1 \in S
  <2> DEFINE d == disks[n + 1]
  <2>1. n + 1 \in 1..N /\ n + 1 \in 0..N /\ d # None /\ d.gb \in Nat
      OBVIOUS
  <2>2. \A i \in Typed(n) : i \in Typed(n + 1) /\ disks[i] # None /\ disks[i].gb \in Nat
      OBVIOUS
  <2>3. \A i \in Typed(n + 1) : i \in Typed(n) \/ i = n + 1
      OBVIOUS
  <2>4. n + 1 \in Typed(n + 1) <=> d.type # None
      BY <2>1
  <2>5. f[n + 1] = largerDisk(f[n], d)
      BY <1>2
  <2>6. Seen(n)
      BY <1>4
  <2> HIDE DEF Typed, d
  <2>7. CASE d.type = None
    <3>1. f[n + 1] = f[n]
        BY <2>5, <2>7 DEF largerDisk
    <3>2. Typed(n + 1) = Typed(n)
        BY <2>2, <2>3, <2>4, <2>7
    <3> QED
        BY <2>1, <2>6, <3>1, <3>2
  <2>8. CASE d.type # None /\ Typed(n) = {}
    <3>1. f[n] = None
        BY <2>6, <2>8
    <3>2. f[n + 1] = d
        BY <2>5, <2>8, <3>1 DEF largerDisk
    <3>3. Best(n + 1, n + 1)
        BY <2>1, <2>3, <2>8, <3>2 DEF d
    <3> QED
        BY <2>1, <2>4, <2>8, <3>3
  <2>9. CASE d.type # None /\ Typed(n) # {}
    <3>1. PICK i \in Typed(n) : Best(n, i)
        BY <2>6, <2>9
    <3>2. disks[i] # None /\ disks[i].gb \in Nat /\ i \in Typed(n + 1)
        BY <2>2
    <3>3. CASE disks[i].gb < d.gb
      <4>1. f[n + 1] = d
          BY <2>5, <2>9, <3>1, <3>3 DEF largerDisk
      <4>2. \A j \in Typed(n) : disks[j].gb <= d.gb
          BY <2>1, <2>2, <3>1, <3>2, <3>3
      <4>3. Best(n + 1, n + 1)
          BY <2>1, <2>3, <4>1, <4>2 DEF d
      <4> QED
          BY <2>1, <2>4, <2>9, <4>3
    <3>4. CASE ~(disks[i].gb < d.gb)
      <4>1. f[n + 1] = disks[i]
          BY <2>5, <3>1, <3>2, <3>4 DEF largerDisk
      <4>2. d.gb <= disks[i].gb
          BY <2>1, <3>2, <3>4
      <4>3. Best(n + 1, i)
          BY <2>3, <3>1, <4>1, <4>2 DEF d
      <4> QED
          BY <2>1, <3>2, <4>3
    <3> QED
        BY <3>3, <3>4
  <2> QED
      BY <2>7, <2>8, <2>9
<1>5. Seen(N)
  <2>1. 0..N \subseteq S
    <3> HIDE DEF S
    <3> QED
        BY <1>3, <1>4, InductionTo
  <2> QED
      BY <2>1
<1>6. {i \in DOMAIN disks : disks[i].type # None} = Typed(N)
    OBVIOUS
<1>7. \A i \in Typed(N) : disks[i] # None
    OBVIOUS
<1> HIDE DEF Typed
<1>8. CASE Typed(N) = {} /\ f[N] = None
    BY <1>1, <1>6, <1>8 DEF LargestDisk
<1>9. CASE \E i \in Typed(N) : Best(N, i)
    BY <1>1, <1>6, <1>7, <1>9 DEF LargestDisk
<1> QED
    BY <1>5, <1>8, <1>9

(***************************************************************************)
(* The type a Node is labelled with names the kind of a largest disk of    *)
(* its machine, of those whose kind is known, however many it has and in   *)
(* which order (instanceType, under the conditions of OwnMachineHolds).    *)
(***************************************************************************)
THEOREM LargestDiskNamedHolds ==
    ASSUME FoundByName, OwnAddresses
    PROVE  Spec => []LargestDiskNamed
<1>1. NodesInv => LargestDiskNamed
  <2> SUFFICES ASSUME OwnMachine,
                      NEW n \in Nodes, node[n].phase = "initialised", Machine[n] \in vms
               PROVE  LargestDisk(node[n].type.disk, Hardware[Machine[n]].disks)
      BY DEF NodesInv, LargestDiskNamed
  <2> DEFINE m == Machine[n]
             disks == Hardware[m].disks
             largest == largestDisk(disks)
  <2>1. m \in VMs
      BY InstancesConstants
  <2>2. node[n].type = instanceType(m)
      BY DEF OwnMachine
  <2>3. instanceType(m).disk = IF largest = None THEN None ELSE largest.type
      BY DEF instanceType
  <2>4. /\ Len(disks) \in Nat /\ DOMAIN disks = 1..Len(disks)
        /\ \A i \in DOMAIN disks : disks[i] # None /\ disks[i].gb \in Nat
      BY <2>1, InstancesConstants
  <2>5. LargestDisk(IF largest = None THEN None ELSE largest.type, disks)
      BY <2>4, LargestFound
  <2> QED
      BY <2>2, <2>3, <2>5
<1> QED
    BY <1>1, NodesInvHolds, PTL
=============================================================================
