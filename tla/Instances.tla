------------------------------ MODULE Instances -----------------------------
(***************************************************************************)
(* Nodes and their virtual machines: the instance manager                  *)
(* (anx/provider/instances.go) and the two controllers of Kubernetes that  *)
(* call it concurrently.  The node controller ("node") initialises a new   *)
(* Node with what InstanceMetadata returns; the lifecycle controller       *)
(* ("life") asks for every Node that is not ready InstanceExists, deletes  *)
(* the Node if the answer is no, and else asks InstanceShutdown.           *)
(*                                                                         *)
(* One step is one request to the Engine and what the code does with the   *)
(* answer.  pc[c] is the request the controller c waits for:               *)
(*                                                                         *)
(*   "search", "plain"  the two searches of instancesByName                *)
(*   "filter"           the loop of filterInstances                        *)
(*   "use"              the first request with the identifier that was     *)
(*                      found: Info, or PowerControl for InstanceShutdown  *)
(*   "metadata"         the second Info of InstanceMetadata                *)
(*   "returned"         the call returned result[c]                        *)
(*                                                                         *)
(* A virtual machine's identifier is never given to another one, and its   *)
(* name, addresses and disks do not change.  A definition whose name ends  *)
(* in _<Word> is a wrong version of the one after it, kept to see that the *)
(* properties notice it.                                                   *)
(***************************************************************************)
EXTENDS Integers, SequencesExt

CONSTANTS
    VMs, Nodes, Addrs,
    VMName, NodeName,  \* names, as sequences of the parts between the dashes
    Machine,           \* the virtual machine a Node runs on
    NodeIPs,           \* the internal addresses its kubelet announces
    PresetIDs,         \* the ProviderIDs its kubelet may announce; None: none
    Networks,          \* of a machine: a sequence of its IPv4 and IPv6 addresses
    Hardware,          \* of a machine: CPU, RAM and a sequence of disks
    CustomerIDs,       \* the prefixes that may be configured; None: not at all
    None,
    FaultKinds, MaxFaults,
    MaxEvents          \* bound on what happens to machines and kubelets

VARIABLES
    customerID,
    vms, power,        \* the Engine: the machines that exist and their state
    node,              \* the Nodes, as the API server has them
    pc, call,          \* the calls of the controllers
    found, filtered,   \* what is left to look at in "filter", and what passed
    result,
    paused,            \* less than a minute since InstanceExists was refused
    faults, events

cloudVars == <<customerID, vms, power, events>>
loopVars == <<found, filtered>>
callVars == <<pc, call, found, filtered, result>>
vars == <<customerID, vms, power, node, pc, call, found, filtered, result,
          paused, faults, events>>

Controllers == {"node", "life"}
Ops == {"InstanceMetadata", "InstanceExists", "InstanceShutdown"}
Errors == {"not found", "not unique", "failed"}

\* A ProviderID may start with the scheme anexia://.
ProviderIDs == [scheme : BOOLEAN, id : VMs] \cup {None}

ASSUME InstancesConstants ==
    /\ Machine \in [Nodes -> VMs]
    /\ NodeIPs \in [Nodes -> SUBSET Addrs]
    /\ PresetIDs \in [Nodes -> SUBSET ProviderIDs]
    /\ \A n \in Nodes : \A p \in PresetIDs[n] \ {None} : p.id = Machine[n]
    /\ Networks \in [VMs -> Seq([IPv4 : SUBSET Addrs, IPv6 : SUBSET Addrs])]
    /\ \A v \in VMs :
         LET disks == Hardware[v].disks
         IN  /\ Len(disks) \in Nat /\ DOMAIN disks = 1..Len(disks)
             /\ \A i \in DOMAIN disks : disks[i] # None /\ disks[i].gb \in Nat
    /\ None \notin VMs \cup Nodes \cup [scheme : BOOLEAN, id : VMs]
    /\ IsFiniteSet(Addrs)
    /\ FaultKinds \subseteq {"failed", "unauthorized"}
    /\ MaxFaults \in Nat
    /\ MaxEvents \in Nat

Fault(k) ==
    /\ k \in FaultKinds
    /\ faults < MaxFaults
    /\ faults' = faults + 1

------------------------------------------------------------------------------
\* What the Engine knows about a machine, and what the code makes of it.

addresses(v) == UNION {Networks[v][i].IPv4 \cup Networks[v][i].IPv6 : i \in DOMAIN Networks[v]}

\* NodeAddressesByProviderID: the IPv4 addresses of the first network only.
nodeAddresses(v) == IF Networks[v] = <<>> THEN {} ELSE Networks[v][1].IPv4

\* The largest disk with a performance type, the first of equal ones.
largerDisk_Untyped(largest, d) ==
    IF largest = None \/ largest.gb < d.gb THEN d ELSE largest

largerDisk(largest, d) ==
    IF d.type # None /\ (largest = None \/ largest.gb < d.gb) THEN d ELSE largest

largestDisk(disks) ==
    LET largest[i \in 0..Len(disks)] ==
            IF i = 0 THEN None ELSE largerDisk(largest[i - 1], disks[i])
    IN  largest[Len(disks)]

instanceType(v) ==
    LET h == Hardware[v]
        largest == largestDisk(h.disks)
    IN  [cores |-> h.cpu, ram |-> h.ram \div 1024,
         disk |-> IF largest = None THEN None ELSE largest.type]

\* The searches by name; without a configured prefix a wildcard stands for it.
Prefixed(prefix, n, v) ==
    IF prefix = None THEN VMName[v] # NodeName[n] /\ IsSuffix(NodeName[n], VMName[v])
                     ELSE VMName[v] = <<prefix>> \o NodeName[n]

SearchPrefixed(n) == {v \in vms : Prefixed(customerID, n, v)}

SearchPlain(n) == {v \in vms : VMName[v] = NodeName[n]}

------------------------------------------------------------------------------
\* Calls.

TypeOK ==
    /\ customerID \in CustomerIDs
    /\ vms \subseteq VMs
    /\ power \in [VMs -> {"on", "off", "other"}]
    /\ \A n \in Nodes :
         /\ node[n].phase \in {"absent", "new", "initialised", "deleted"}
         /\ node[n].ready \in BOOLEAN /\ node[n].shutdown \in BOOLEAN
         /\ node[n].providerID \in ProviderIDs
         /\ node[n].ips \subseteq Addrs
    /\ pc \in [Controllers -> {"idle", "search", "plain", "filter", "use", "metadata", "returned"}]
    /\ \A c \in Controllers : pc[c] \in {"use", "metadata"} => call[c].id \in VMs
    /\ found \in [Controllers -> SUBSET VMs]
    /\ filtered \in [Controllers -> Seq(VMs)]
    /\ paused \in BOOLEAN
    /\ faults \in 0..MaxFaults
    /\ events \in 0..MaxEvents

NoCall == [op |-> None, node |-> None, id |-> None, ips |-> {}, addrs |-> {}]

Idle(c) ==
    /\ pc' = [pc EXCEPT ![c] = "idle"]
    /\ call' = [call EXCEPT ![c] = NoCall]
    /\ UNCHANGED loopVars

Return(c, r) ==
    /\ pc' = [pc EXCEPT ![c] = "returned"]
    /\ result' = [result EXCEPT ![c] = r]
    /\ found' = [found EXCEPT ![c] = {}]
    /\ filtered' = [filtered EXCEPT ![c] = <<>>]

Use(c, v) ==
    /\ pc' = [pc EXCEPT ![c] = "use"]
    /\ call' = [call EXCEPT ![c].id = v]
    /\ found' = [found EXCEPT ![c] = {}]
    /\ filtered' = [filtered EXCEPT ![c] = <<>>]
    /\ UNCHANGED result

\* The identifier in a ProviderID, without the scheme.
TrimPrefix_NoScheme(p) == IF p.scheme THEN None ELSE p.id

TrimPrefix(p) == p.id

\* InstanceIDByNode without a request.
InstanceIDByNode(c, op, n) ==
    LET p == node[n].providerID
    IN  /\ pc' = [pc EXCEPT ![c] = IF p = None THEN "search" ELSE "use"]
        /\ call' = [call EXCEPT ![c] =
             [op |-> op, node |-> n, id |-> IF p = None THEN None ELSE TrimPrefix(p),
              ips |-> node[n].ips, addrs |-> {}]]
        /\ UNCHANGED loopVars

Call(c, op, n) ==
    /\ pc[c] = "idle"
    /\ InstanceIDByNode(c, op, n)
    /\ UNCHANGED <<cloudVars, node, result, paused, faults>>

\* instancesByName has an answer: several are filtered by address.
Found_First(c, S) ==
    \/ S = {} /\ Return(c, "not found") /\ UNCHANGED call
    \/ \E v \in S : Use(c, v)

Found(c, S) ==
    \/ S = {} /\ Return(c, "not found") /\ UNCHANGED call
    \/ \E v \in S : S = {v} /\ Use(c, v)
    \/ /\ \E v, w \in S : v # w
       /\ pc' = [pc EXCEPT ![c] = "filter"]
       /\ found' = [found EXCEPT ![c] = S]
       /\ UNCHANGED <<call, filtered, result>>

instancesByName_Once(c) ==
    /\ pc[c] = "search"
    /\ Found(c, SearchPrefixed(call[c].node))
    /\ UNCHANGED <<cloudVars, node, paused, faults>>

instancesByName(c) ==
    /\ pc[c] = "search"
    /\ LET S == SearchPrefixed(call[c].node)
       IN  IF S = {} THEN /\ pc' = [pc EXCEPT ![c] = "plain"]
                          /\ UNCHANGED <<call, loopVars, result>>
                     ELSE Found(c, S)
    /\ UNCHANGED <<cloudVars, node, paused, faults>>

WithoutPrefix(c) ==
    /\ pc[c] = "plain"
    /\ Found(c, SearchPlain(call[c].node))
    /\ UNCHANGED <<cloudVars, node, paused, faults>>

\* filterInstances: once for every address of the machine that the Node has too.
Matches(c, v) == [j \in 1..Cardinality(addresses(v) \cap call[c].ips) |-> v]

filterInstances(c, v) ==
    /\ pc[c] = "filter"
    /\ v \in found[c]
    /\ found' = [found EXCEPT ![c] = @ \ {v}]
    /\ filtered' = [filtered EXCEPT ![c] = IF v \in vms THEN @ \o Matches(c, v) ELSE @]
    /\ UNCHANGED <<cloudVars, node, pc, call, result, paused, faults>>

\* A machine that can not be retrieved is left out, whatever the error.
FilterFailed(c, v) ==
    /\ pc[c] = "filter"
    /\ v \in found[c]
    /\ \E k \in FaultKinds : Fault(k)
    /\ found' = [found EXCEPT ![c] = @ \ {v}]
    /\ UNCHANGED <<cloudVars, node, pc, call, filtered, result, paused>>

Filtered(c) ==
    /\ pc[c] = "filter"
    /\ found[c] = {}
    /\ \/ filtered[c] = <<>> /\ Return(c, "not found") /\ UNCHANGED call
       \/ Len(filtered[c]) = 1 /\ Use(c, filtered[c][1])
       \/ Len(filtered[c]) > 1 /\ Return(c, "not unique") /\ UNCHANGED call
    /\ UNCHANGED <<cloudVars, node, paused, faults>>

\* The rest of InstanceExists: only a machine that is not found is gone.
InstanceExists_Fails(c) ==
    /\ pc[c] = "use" /\ call[c].op = "InstanceExists"
    /\ Return(c, IF call[c].id \in vms THEN "yes" ELSE "failed")
    /\ UNCHANGED <<cloudVars, node, call, paused, faults>>

InstanceExists(c) ==
    /\ pc[c] = "use" /\ call[c].op = "InstanceExists"
    /\ Return(c, IF call[c].id \in vms THEN "yes" ELSE "no")
    /\ UNCHANGED <<cloudVars, node, call, paused, faults>>

InstanceShutdown_NotOn(c) ==
    /\ pc[c] = "use" /\ call[c].op = "InstanceShutdown"
    /\ Return(c, IF call[c].id \notin vms THEN "failed"
                 ELSE IF power[call[c].id] = "on" THEN "no" ELSE "yes")
    /\ UNCHANGED <<cloudVars, node, call, paused, faults>>

InstanceShutdown(c) ==
    /\ pc[c] = "use" /\ call[c].op = "InstanceShutdown"
    /\ Return(c, IF call[c].id \notin vms THEN "failed"
                 ELSE CASE power[call[c].id] = "on" -> "no"
                        [] power[call[c].id] = "off" -> "yes"
                        [] OTHER -> "failed")
    /\ UNCHANGED <<cloudVars, node, call, paused, faults>>

NodeAddressesByProviderID(c) ==
    /\ pc[c] = "use" /\ call[c].op = "InstanceMetadata"
    /\ IF call[c].id \in vms
         THEN /\ pc' = [pc EXCEPT ![c] = "metadata"]
              /\ call' = [call EXCEPT ![c].addrs = nodeAddresses(call[c].id)]
              /\ UNCHANGED <<loopVars, result>>
         ELSE Return(c, "failed") /\ UNCHANGED call
    /\ UNCHANGED <<cloudVars, node, paused, faults>>

InstanceMetadata(c) ==
    /\ pc[c] = "metadata"
    /\ Return(c, IF call[c].id \in vms THEN "yes" ELSE "failed")
    /\ UNCHANGED <<cloudVars, node, call, paused, faults>>

\* Any other error of a request ends the call; handleUnauthorizedForbidden
\* remembers when InstanceExists was refused.
IsUnauthorizedOrForbiddenError(k) == k = "unauthorized"

RequestFailed_Gone(c, k) ==
    /\ pc[c] \in {"search", "plain", "use", "metadata"}
    /\ Fault(k)
    /\ Return(c, IF call[c].op = "InstanceExists" THEN "no" ELSE "failed")
    /\ paused' = (paused \/ (IsUnauthorizedOrForbiddenError(k) /\ call[c].op = "InstanceExists"))
    /\ UNCHANGED <<cloudVars, node, call>>

RequestFailed(c, k) ==
    /\ pc[c] \in {"search", "plain", "use", "metadata"}
    /\ Fault(k)
    /\ Return(c, "failed")
    /\ paused' = (paused \/ (IsUnauthorizedOrForbiddenError(k) /\ call[c].op = "InstanceExists"))
    /\ UNCHANGED <<cloudVars, node, call>>

PauseOver ==
    /\ paused
    /\ paused' = FALSE
    /\ UNCHANGED <<cloudVars, node, callVars, faults>>

------------------------------------------------------------------------------
(***************************************************************************)
(* The controllers of Kubernetes.  While InstanceExists is paused it       *)
(* returns an error at once, and the lifecycle controller does nothing.    *)
(***************************************************************************)
InCluster(n) == node[n].phase \in {"new", "initialised"}

SyncNode(n) == node[n].phase = "new" /\ Call("node", "InstanceMetadata", n)

MonitorNode(n) ==
    /\ InCluster(n) /\ ~node[n].ready
    /\ ~paused
    /\ Call("life", "InstanceExists", n)

\* What a controller does with an answer.
Act(c) ==
    LET n == call[c].node
    IN  /\ pc[c] = "returned"
        /\ result' = [result EXCEPT ![c] = None]
        /\ \/ /\ call[c].op = "InstanceMetadata" /\ result[c] = "yes" /\ InCluster(n)
              /\ node' = [node EXCEPT
                   ![n].phase = "initialised", ![n].ips = call[c].addrs,
                   ![n].type = instanceType(call[c].id),
                   ![n].providerID = IF @ = None THEN [scheme |-> FALSE, id |-> call[c].id] ELSE @]
              /\ Idle(c)
           \/ /\ call[c].op = "InstanceExists" /\ result[c] = "no"
              /\ node' = [node EXCEPT ![n].phase = "deleted"]
              /\ Idle(c)
           \/ /\ call[c].op = "InstanceExists" /\ result[c] = "yes"
              /\ InstanceIDByNode(c, "InstanceShutdown", n) /\ UNCHANGED node
           \/ /\ call[c].op = "InstanceShutdown" /\ result[c] = "yes"
              /\ node' = [node EXCEPT ![n].shutdown = TRUE]
              /\ Idle(c)
           \/ /\ \/ result[c] \in Errors
                 \/ call[c].op = "InstanceShutdown" /\ result[c] = "no"
                 \/ call[c].op = "InstanceMetadata" /\ ~InCluster(n)
              /\ Idle(c) /\ UNCHANGED node
        /\ UNCHANGED <<cloudVars, paused, faults>>

\* Machines, kubelets and their users.

Event == events < MaxEvents /\ events' = events + 1

Register(n) ==
    /\ node[n].phase = "absent"
    /\ Machine[n] \in vms /\ power[Machine[n]] = "on"
    /\ \E p \in PresetIDs[n] :
         node' = [node EXCEPT ![n].phase = "new", ![n].ready = TRUE,
                              ![n].ips = NodeIPs[n], ![n].providerID = p]
    /\ UNCHANGED <<cloudVars, callVars, paused, faults>>

\* A kubelet that runs on no machine, or on one that does not run, is silent;
\* it may also be cut off from the API server while its machine runs.
NotReady(n) ==
    /\ InCluster(n) /\ node[n].ready
    /\ Machine[n] \notin vms \/ power[Machine[n]] # "on"
    /\ node' = [node EXCEPT ![n].ready = FALSE]
    /\ UNCHANGED <<cloudVars, callVars, paused, faults>>

CutOff(n) ==
    /\ InCluster(n) /\ node[n].ready
    /\ Event
    /\ node' = [node EXCEPT ![n].ready = FALSE]
    /\ UNCHANGED <<customerID, vms, power, callVars, paused, faults>>

DeleteVM(v) ==
    /\ v \in vms
    /\ Event
    /\ vms' = vms \ {v}
    /\ UNCHANGED <<customerID, power, node, callVars, paused, faults>>

\* Switching off takes a while.
Shutdown(v) ==
    /\ v \in vms /\ power[v] = "on"
    /\ Event
    /\ power' = [power EXCEPT ![v] = "other"]
    /\ UNCHANGED <<customerID, vms, node, callVars, paused, faults>>

SwitchedOff(v) ==
    /\ v \in vms /\ power[v] = "other"
    /\ power' = [power EXCEPT ![v] = "off"]
    /\ UNCHANGED <<customerID, vms, events, node, callVars, paused, faults>>

------------------------------------------------------------------------------
Init ==
    /\ customerID \in CustomerIDs
    /\ vms = VMs
    /\ power = [v \in VMs |-> "on"]
    /\ node = [n \in Nodes |-> [phase |-> "absent", ready |-> FALSE, providerID |-> None,
                                ips |-> {}, type |-> None, shutdown |-> FALSE]]
    /\ pc = [c \in Controllers |-> "idle"]
    /\ call = [c \in Controllers |-> NoCall]
    /\ found = [c \in Controllers |-> {}]
    /\ filtered = [c \in Controllers |-> <<>>]
    /\ result = [c \in Controllers |-> None]
    /\ paused = FALSE
    /\ faults = 0
    /\ events = 0

Request(c) ==
    \/ instancesByName(c) \/ WithoutPrefix(c)
    \/ \E v \in VMs : filterInstances(c, v)
    \/ Filtered(c)
    \/ InstanceExists(c) \/ InstanceShutdown(c)
    \/ NodeAddressesByProviderID(c) \/ InstanceMetadata(c)

Next ==
    \/ \E n \in Nodes : SyncNode(n) \/ MonitorNode(n)
    \/ \E c \in Controllers : Request(c) \/ Act(c)
    \/ \E c \in Controllers, k \in FaultKinds : RequestFailed(c, k)
    \/ \E c \in Controllers, v \in VMs : FilterFailed(c, v)
    \/ \E n \in Nodes : Register(n) \/ NotReady(n) \/ CutOff(n)
    \/ \E v \in VMs : DeleteVM(v) \/ Shutdown(v) \/ SwitchedOff(v)
    \/ PauseOver

Spec == Init /\ [][Next]_vars

(***************************************************************************)
(* The controllers visit every Node again and again, a request is answered *)
(* and a kubelet without machine falls silent.                             *)
(***************************************************************************)
Fairness ==
    /\ \A n \in Nodes : SF_vars(SyncNode(n)) /\ SF_vars(MonitorNode(n)) /\ WF_vars(NotReady(n))
    /\ \A c \in Controllers : WF_vars(Request(c)) /\ WF_vars(Act(c))
    /\ WF_vars(PauseOver)

FairSpec == Spec /\ Fairness

------------------------------------------------------------------------------
(***************************************************************************)
(* A Node is deleted only when the machine it runs on is gone: no error of *)
(* the Engine, no missing permission and no other machine of that name is  *)
(* taken for a missing machine (InstanceExists).                           *)
(***************************************************************************)
OnlyLostNodesDeleted ==
    \A n \in Nodes : node[n].phase = "deleted" => Machine[n] \notin vms

(***************************************************************************)
(* A Node is initialised with identifier, addresses and type of the        *)
(* machine it runs on, although it was found by a name that other machines *)
(* have as well, with requests that fail and while machines disappear; as  *)
(* long as its machine exists.                                             *)
(***************************************************************************)
OwnMachine ==
    \A n \in Nodes :
        LET m == Machine[n]
        IN  node[n].phase = "initialised" /\ m \in vms =>
              /\ node[n].providerID.id = m
              /\ node[n].ips = nodeAddresses(m)
              /\ node[n].type = instanceType(m)

\* The type of a largest among the disks that have one.
LargestDisk(t, disks) ==
    LET typed == {i \in DOMAIN disks : disks[i].type # None}
    IN  IF typed = {} THEN t = None
        ELSE \E i \in typed : t = disks[i].type /\ \A j \in typed : disks[j].gb <= disks[i].gb

(***************************************************************************)
(* The type a Node is labelled with names the kind of the largest disk of  *)
(* its machine, of those whose kind is known (instanceType).               *)
(***************************************************************************)
LargestDiskNamed ==
    \A n \in Nodes :
        LET m == Machine[n]
        IN  node[n].phase = "initialised" /\ m \in vms =>
              LargestDisk(node[n].type.disk, Hardware[m].disks)

(***************************************************************************)
(* A Node is marked as shut down only when its machine is switched off or  *)
(* gone, not while it is being switched off, nor for an error              *)
(* (InstanceShutdown).                                                     *)
(***************************************************************************)
ShutdownIsOff ==
    \A n \in Nodes :
        node[n].shutdown => Machine[n] \notin vms \/ power[Machine[n]] = "off"

\* The machines a Node may be taken for by its name.
Namesakes(n) == IF SearchPrefixed(n) = {} THEN SearchPlain(n) ELSE SearchPrefixed(n)

Having(n, S) == {v \in S : addresses(v) \cap node[n].ips # {}}

\* Its ProviderID, its name, or one address of it tells which machine it is.
Recognisable(n) ==
    \/ node[n].providerID # None
    \/ Namesakes(n) = {Machine[n]}
    \/ /\ Having(n, Namesakes(n)) = {Machine[n]}
       /\ Cardinality(node[n].ips) = 1

\* A Node that can be recognised does not stay uninitialised beside its machine.
EventuallyInitialised ==
    \A n \in Nodes :
        []<>~(node[n].phase = "new" /\ Machine[n] \in vms /\ Recognisable(n))

(***************************************************************************)
(* "If the node has been deleted from the cloud, the controller deletes    *)
(* the Node object": a Node with a ProviderID whose machine is gone is     *)
(* deleted, refused requests and the pause after them included.            *)
(***************************************************************************)
EventuallyDeleted ==
    \A n \in Nodes :
        []<>~(/\ InCluster(n)
              /\ node[n].providerID # None /\ node[n].providerID.id \notin vms
              /\ Machine[n] \notin vms)

(***************************************************************************)
(* "Found multiple VMs matching node.Name and having the expected IP       *)
(* address - giving up": the call ends with errVirtualMachineNameNotUnique *)
(* only if two machines have an address of the Node.                       *)
(***************************************************************************)
NotUniqueMeansSeveral ==
    \A c \in Controllers :
        pc[c] = "returned" /\ result[c] = "not unique" =>
            \E v, w \in VMs :
                /\ v # w
                /\ addresses(v) \cap call[c].ips # {}
                /\ addresses(w) \cap call[c].ips # {}
=============================================================================
