----------------------------- MODULE LBaaSEngine -----------------------------
(***************************************************************************)
(* The Anexia Engine as the load balancer reconciliation of the cloud      *)
(* controller manager uses it: a store of LBaaS resources (backends,       *)
(* frontends, binds, servers), each with an identifier, attributes, a      *)
(* deployment state and tags.  The Engine is not part of the repository;   *)
(* what is modelled is what anx/provider/loadbalancer/reconciliation       *)
(* relies on when it calls List, Get, Create, Update and Destroy.          *)
(*                                                                         *)
(* - Attributes never change once a resource exists: the code compares     *)
(*   them, and an Update only re-applies what was read.  A resource's      *)
(*   attributes are its key.  Identifiers are never handed out twice, so   *)
(*   key[i] stays readable after the resource i is gone.                   *)
(* - Create answers before the resource is deployed (state "pending"),     *)
(*   Update resets it to "updating", and the Engine later settles both to  *)
(*   "ok" or "error".                                                      *)
(* - Destroy only marks a resource; it stays visible until removed.        *)
(* - A tag is a resource of its own, attached by a second request.         *)
(***************************************************************************)
EXTENDS FiniteSets

CONSTANTS
    Ids,               \* resource identifiers; their number bounds the creations
    LBs,               \* the LBaaS LoadBalancers this installation manages
    PortNames, PortNums, Addrs, Nodes,
    None,              \* an attribute that a kind of resource does not have
    NoKey,             \* the attributes of an identifier not yet handed out
    InitialKey,        \* what exists before the controller starts: resources of
    InitialTag,        \*   other services and of other load balancers
    RefusesReferenced  \* does the Engine refuse to destroy what others refer to?

VARIABLES
    key,       \* attributes by identifier
    alive,     \* the resources that exist
    deleting,  \* those among them that are marked for removal
    state,     \* deployment state by identifier
    tag        \* "svc": tagged anxccm-svc-uid=<our service>; "other"; "none"

engineVars == <<key, alive, deleting, state, tag>>

Kinds == {"backend", "frontend", "bind", "server"}
States == {"pending", "updating", "ok", "error"}
Tags == {"svc", "other", "none"}

(***************************************************************************)
(* The attributes compare.Reconcile looks at.  A resource's name follows   *)
(* from its port and at: for a bind, from the family of the address.  For  *)
(* binds and servers lb is the LoadBalancer of the frontend or backend     *)
(* that ref names: the Engine stores no such attribute, and the            *)
(* reconciliation never reads it.  lb = None stands for a LoadBalancer     *)
(* that is not ours.                                                       *)
(***************************************************************************)
Keys == [kind : Kinds, lb : LBs \cup {None}, port : PortNames,
         at : Addrs \cup Nodes \cup {None}, num : PortNums \cup {None},
         ref : Ids \cup {None}]

Backend(lb, p) ==
    [kind |-> "backend", lb |-> lb, port |-> p,
     at |-> None, num |-> None, ref |-> None]
Frontend(lb, p, backend) ==
    [kind |-> "frontend", lb |-> lb, port |-> p,
     at |-> None, num |-> None, ref |-> backend]
Bind(lb, p, a, n, frontend) ==
    [kind |-> "bind", lb |-> lb, port |-> p,
     at |-> a, num |-> n, ref |-> frontend]
Server(lb, p, node, n, backend) ==
    [kind |-> "server", lb |-> lb, port |-> p,
     at |-> node, num |-> n, ref |-> backend]

\* Resources with our tag on one of our load balancers.
Own(lb) == {i \in alive : tag[i] = "svc" /\ key[i].lb = lb}

(***************************************************************************)
(* Constants describe a possible installation: identifiers and sentinels   *)
(* differ, initial resources refer to resources of the same LoadBalancer,  *)
(* and none of them is already tagged as ours on one of our LoadBalancers. *)
(***************************************************************************)
ASSUME EngineConstants ==
    /\ None \notin Ids /\ None \notin LBs
    /\ NoKey \notin Keys
    /\ RefusesReferenced \in BOOLEAN
    /\ InitialKey \in [Ids -> Keys \cup {NoKey}]
    /\ InitialTag \in [Ids -> Tags]

ASSUME InitialIsForeign ==
    \A i \in Ids :
        /\ InitialKey[i] = NoKey => InitialTag[i] = "none"
        /\ InitialKey[i] # NoKey =>
            /\ InitialTag[i] = "svc" => InitialKey[i].lb = None
            /\ InitialKey[i].ref # None =>
                /\ InitialKey[InitialKey[i].ref] # NoKey
                /\ InitialKey[InitialKey[i].ref].lb = InitialKey[i].lb

EngineTypeOK ==
    /\ key \in [Ids -> Keys \cup {NoKey}]
    /\ alive \subseteq {i \in Ids : key[i] # NoKey}
    /\ deleting \subseteq alive
    /\ state \in [Ids -> States]
    /\ tag \in [Ids -> Tags]

EngineInit ==
    /\ key = InitialKey
    /\ alive = {i \in Ids : InitialKey[i] # NoKey}
    /\ deleting = {}
    /\ state = [i \in Ids |-> "ok"]
    /\ tag = InitialTag

------------------------------------------------------------------------------
\* The requests, as the steps of the Engine they cause.

Tagged == {i \in alive : tag[i] = "svc"}

Unused == {i \in Ids : key[i] = NoKey}
NewId == CHOOSE i \in Unused : TRUE

Referenced(i) == \E j \in alive : key[j].ref = i

\* Create: what k refers to has to exist and to stay.
Creatable(k) ==
    ~RefusesReferenced \/ k.ref = None \/ k.ref \in alive \ deleting

EngineCreate(k) ==
    /\ Unused # {}
    /\ key' = [key EXCEPT ![NewId] = k]
    /\ alive' = alive \cup {NewId}
    /\ state' = [state EXCEPT ![NewId] = "pending"]
    /\ UNCHANGED <<deleting, tag>>

EngineTag(i) ==
    /\ tag' = [tag EXCEPT ![i] = "svc"]
    /\ UNCHANGED <<key, alive, deleting, state>>

EngineUpdate(i) ==
    /\ state' = [state EXCEPT ![i] = "updating"]
    /\ UNCHANGED <<key, alive, deleting, tag>>

Destroyable(i) == RefusesReferenced => ~Referenced(i)

EngineDestroy(i) ==
    /\ deleting' = deleting \cup {i}
    /\ UNCHANGED <<key, alive, state, tag>>

\* The Engine's own steps.

Settle(i, s) ==
    /\ i \in alive
    /\ state[i] \in {"pending", "updating"}
    /\ state' = [state EXCEPT ![i] = s]
    /\ UNCHANGED <<key, alive, deleting, tag>>

Remove(i) ==
    /\ i \in deleting
    /\ alive' = alive \ {i}
    /\ deleting' = deleting \ {i}
    /\ state' = [state EXCEPT ![i] = "ok"]
    /\ tag' = [tag EXCEPT ![i] = "none"]
    /\ UNCHANGED key
=============================================================================
