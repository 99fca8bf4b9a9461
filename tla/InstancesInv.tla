---------------------------- MODULE InstancesInv ----------------------------
(***************************************************************************)
(* The inductive invariant behind the safety theorems about Nodes.  What   *)
(* happens to a Node is decided by an answer about an identifier that was  *)
(* looked up several requests ago: it is the identifier of its machine, or *)
(* that machine was gone already when it was looked up.                    *)
(***************************************************************************)
EXTENDS Instances

NodeType ==
    [phase : {"absent", "new", "initialised", "deleted"}, ready : BOOLEAN,
     providerID : ProviderIDs, ips : SUBSET Addrs,
     type : {instanceType(v) : v \in VMs} \cup {None}, shutdown : BOOLEAN]

CallType ==
    [op : Ops \cup {None}, node : Nodes \cup {None}, id : VMs \cup {None},
     ips : SUBSET Addrs, addrs : SUBSET Addrs]

\* TypeOK with what it depends on: whoever uses an identifier has one.
Types ==
    /\ TypeOK
    /\ node \in [Nodes -> NodeType]
    /\ call \in [Controllers -> CallType]
    /\ result \in [Controllers -> {"yes", "no", None} \cup Errors]
    /\ \A c \in Controllers :
         /\ pc[c] # "idle" => call[c].node \in Nodes /\ call[c].op \in Ops
         /\ pc[c] = "metadata" => call[c].op = "InstanceMetadata"
         /\ pc[c] = "returned" /\ result[c] \in {"yes", "no"} => call[c].id \in VMs

\* A Node's machine is found by its name while it exists: either its name has
\* the prefix, or it is the name of the Node and no name has the prefix.
FoundByName ==
    \A prefix \in CustomerIDs, n \in Nodes :
        \/ Prefixed(prefix, n, Machine[n])
        \/ VMName[Machine[n]] = NodeName[n] /\ \A v \in VMs : ~Prefixed(prefix, n, v)

\* No other machine has an address that the kubelet of a Node announces.
OwnAddresses ==
    \A n \in Nodes : \A v \in VMs \ {Machine[n]} : addresses(v) \cap NodeIPs[n] = {}

\* The identifier of a call is the one of the Node's machine, if that exists.
Identified(c) == LET m == Machine[call[c].node] IN m \in vms => call[c].id = m

CallInv(c) ==
    LET n == call[c].node
        m == Machine[n]
    IN  /\ pc[c] \in {"search", "plain", "filter"} => call[c].ips \subseteq NodeIPs[n]
        /\ pc[c] = "plain" /\ m \in vms => VMName[m] = NodeName[n]
        /\ pc[c] = "filter" => \A i \in DOMAIN filtered[c] : filtered[c][i] = m
        /\ pc[c] # "filter" => filtered[c] = <<>>
        /\ pc[c] \in {"use", "metadata"} => Identified(c)
        /\ pc[c] = "metadata" => call[c].addrs = nodeAddresses(call[c].id)
        /\ pc[c] = "returned" =>
             /\ call[c].op = "InstanceMetadata" /\ result[c] = "yes" =>
                  Identified(c) /\ call[c].addrs = nodeAddresses(call[c].id)
             /\ call[c].op = "InstanceExists" /\ result[c] = "no" => m \notin vms
             /\ call[c].op = "InstanceShutdown" /\ result[c] = "yes" =>
                  m \notin vms \/ power[m] = "off"

NodeInv(n) ==
    /\ node[n].providerID = None => node[n].ips \subseteq NodeIPs[n]
    /\ node[n].providerID # None /\ Machine[n] \in vms => node[n].providerID.id = Machine[n]
    /\ node[n].phase = "initialised" => node[n].providerID # None

(***************************************************************************)
(* All of it: every call in flight and every Node refer to the machine the *)
(* Node runs on, or that one is gone (InstanceIDByNode, instancesByName,   *)
(* filterInstances and the answers of the requests that follow).           *)
(***************************************************************************)
NodesInv ==
    /\ Types
    /\ \A c \in Controllers : CallInv(c)
    /\ \A n \in Nodes : NodeInv(n)
    /\ OnlyLostNodesDeleted /\ OwnMachine /\ ShutdownIsOff
=============================================================================
