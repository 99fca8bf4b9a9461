----------------------- MODULE ReconciliationRefines ------------------------
(***************************************************************************)
(* Reconciliation implements DesiredState: the goal is what the running    *)
(* reconciliations were created for, a part of the Service is a resource   *)
(* with its tag, and a part is given up when the Engine marked it.         *)
(***************************************************************************)
EXTENDS ReconciliationInv

NameOf(k) == [kind |-> k.kind, port |-> k.port, at |-> k.at, num |-> k.num]

\* The names of everything a Service asks for.
Goal == [s \in Specs |->
    {NameOf(Backend(None, p)) : p \in DOMAIN s.ports}
    \cup {NameOf(Frontend(None, p, None)) : p \in DOMAIN s.ports}
    \cup {NameOf(Bind(None, p, a, s.ports[p].External, None)) :
            p \in DOMAIN s.ports, a \in s.externalAddresses}
    \cup {NameOf(Server(None, p, n, s.ports[p].Internal, None)) :
            p \in DOMAIN s.ports, n \in s.targetServers}]

NamesOf(S) == {NameOf(key[i]) : i \in S}

------------------------------------------------------------------------------
(***************************************************************************)
(* The invariant behind the refinement, for an Engine that destroys        *)
(* nothing others refer to.  UniqueNames alone is not inductive: it holds  *)
(* because a plan to create is made only when everything that is there is  *)
(* wanted, and because nothing is created upon a resource on its way out.  *)
(***************************************************************************)
RefsStay == \A i \in alive : key[i].ref # None => key[i].ref \in alive \ deleting

RefKind == [frontend |-> "backend", bind |-> "frontend", server |-> "backend"]

\* A resource of the Service refers to one of the Service, for the same port.
WellBuilt(k) ==
    /\ k.kind \in {"backend", "frontend"} => k.at = None /\ k.num = None
    /\ k.kind = "backend" => k.ref = None
    /\ k.kind # "backend" =>
         /\ k.ref \in Ids
         /\ key[k.ref] # NoKey
         /\ key[k.ref].kind = RefKind[k.kind]
         /\ key[k.ref].port = k.port
         /\ key[k.ref].lb = k.lb
         /\ k.ref \in alive => tag[k.ref] = "svc"

UniqueNames == \A lb \in LBs : \A i, j \in Own(lb) : SameName(key[i], key[j]) => i = j

\* What is there and what is still to come while a plan is carried out.
InPlan(lb) ==
    toCreate[lb] \cup {key[i] : i \in Own(lb)}
    \cup (IF pc[lb] = "tag" THEN {key[cur[lb]]} ELSE {})

PlanInv(lb) ==
    /\ pc[lb] \in {"create", "tag"} =>
         /\ \A k \in InPlan(lb) : WellBuilt(k) /\ NameOf(k) \in Goal[want]
         /\ \A k, m \in InPlan(lb) : SameName(k, m) => k = m
    /\ pc[lb] = "tag" => cur[lb] \notin deleting

\* A Service does not ask for the same external port twice.
PortsDiffer ==
    \A s \in Specs : \A p, q \in DOMAIN s.ports :
        s.ports[p].External = s.ports[q].External => p = q

(***************************************************************************)
(* While resources are created, everything of the Service on this          *)
(* LoadBalancer is wanted, what is there and what is to come have          *)
(* different names, and all of it builds on resources of the Service that  *)
(* stay, although the plan was made from a snapshot that may be old.       *)
(***************************************************************************)
PlansFit ==
    /\ RefsStay
    /\ \A lb \in LBs : \A i \in Own(lb) : WellBuilt(key[i])
    /\ UniqueNames
    /\ PortsDiffer => NoClash
    /\ \A lb \in LBs : PlanInv(lb)

------------------------------------------------------------------------------
Desired == INSTANCE DesiredState WITH
    Places <- Addrs \cup Nodes,
    goal <- Goal[want],
    have <- [lb \in LBs |-> NamesOf(Own(lb))],
    doomed <- [lb \in LBs |-> NamesOf(Own(lb) \cap deleting)]

(***************************************************************************)
(* Every step of the reconciliations, of the Engine and of a failure is a  *)
(* step of DesiredState or leaves what it shows unchanged: resources are   *)
(* created only once everything surplus is gone ("hence only creating      *)
(* after there is nothing left to destroy"), in the order in which they    *)
(* refer to each other, and removed in the opposite order.                 *)
(***************************************************************************)
Promise == Desired!DesiredSpec
=============================================================================
