----------------------- MODULE ReconciliationChanges ------------------------
(***************************************************************************)
(* What changing a Service leaves alone, and what a Reconcile that returns *)
(* nil has achieved.  ReconcileCheck plans binds and servers only when all *)
(* frontends and backends match, and then takes every bind and server for  *)
(* surplus: whether it destroys what the Service uses depends on which     *)
(* resources of other ports are there, in the snapshot and in the Engine.  *)
(***************************************************************************)
EXTENDS ReconciliationRefines

\* A change of a Service keeps its ports (numbers, addresses and nodes may
\* differ), or no Service has more than one.
SamePorts == \A s, t \in Specs : DOMAIN s.ports = DOMAIN t.ports
SinglePorts == \A s \in Specs : \A p, q \in DOMAIN s.ports : p = q
PortsTogether == SamePorts \/ SinglePorts

\* There is a resource of this kind for every port.
Covered(K, kind, D) ==
    \A p \in D : \E i \in K : key[i].kind = kind /\ key[i].port = p

\* The resources K were created port by port for one Service: nothing builds on
\* the backends, and no bind on the frontends, before all of them are there.
Whole(K) ==
    \E s \in Specs : \A i \in K :
        /\ key[i].port \in DOMAIN s.ports
        /\ key[i].kind # "backend" => Covered(K, "backend", DOMAIN s.ports)
        /\ key[i].kind = "bind" => Covered(K, "frontend", DOMAIN s.ports)

\* What retrieveResources was told about this LoadBalancer.
Listed(lb) ==
    {i \in Ids : /\ key[i] # NoKey /\ key[i].lb = lb
                 /\ i \in todo[lb] \/ seenAs[lb][i] # "absent"}

\* A snapshot is of one moment, although it is read one resource at a time.
SnapshotFits(lb) ==
    pc[lb] = "get" =>
        /\ Whole(Listed(lb))
        /\ \A i \in Listed(lb) :
             WellBuilt(key[i]) /\ (key[i].kind # "backend" => key[i].ref \in Listed(lb))
        /\ \A i, j \in Listed(lb) : SameName(key[i], key[j]) => i = j
        /\ SamePorts => \A i \in Listed(lb) \ alive : key[i].kind \in {"bind", "server"}

\* What a plan builds on is there for all ports.
PlanCovered(lb) ==
    pc[lb] \in {"create", "tag"} =>
        \A k \in toCreate[lb] \cup (IF pc[lb] = "tag" THEN {key[cur[lb]]} ELSE {}) :
            /\ k.kind # "backend" => Covered(Own(lb), "backend", Ports)
            /\ k.kind = "bind" => Covered(Own(lb), "frontend", Ports)

(***************************************************************************)
(* While ports are kept, all that is there was built up in the order of    *)
(* the four steps of ReconcileCheck and only what nothing builds on is     *)
(* given up, so the destroy loop never holds a resource that the Service   *)
(* being reconciled uses.                                                  *)
(***************************************************************************)
ChangesFit ==
    \A lb \in LBs :
        /\ Whole(Own(lb))
        /\ SnapshotFits(lb)
        /\ SamePorts => PlanCovered(lb)
        /\ SamePorts =>
             \A i \in Own(lb) \cap deleting : key[i].kind \in {"bind", "server"}
        /\ pc[lb] = "destroy" =>
             \A i \in todo[lb] \cup newToDestroy[lb] : ~Uses(want, key[i])

------------------------------------------------------------------------------
\* What a Service asks for is finite.
FiniteNames == IsFiniteSet(PortNames) /\ IsFiniteSet(Addrs) /\ IsFiniteSet(Nodes)

(***************************************************************************)
(* ReconcileCheck finds nothing to do only when everything is there: if    *)
(* the resources it retrieved, one after the other, exist and none of them *)
(* is on its way out, then the Engine holds exactly what the Service asked *)
(* for, all deployed, whatever failed before and whatever other            *)
(* reconciliations did while it read.                                      *)
(***************************************************************************)
CheckedIsComplete ==
    [][\A lb \in LBs :
         /\ pc[lb] = "get" /\ pc'[lb] = "returned" /\ ret'[lb] = "nil"
         /\ Existing(lb) \subseteq alive \ deleting
         => Provisioned(lb, want)]_vars

------------------------------------------------------------------------------
(***************************************************************************)
(* Without failures and with at most one change of the Service.            *)
(***************************************************************************)
NoFailures == FaultKinds = {} /\ MaxEdits <= 1

\* The change has not reached the running reconciliations.
Unchanged == edits = 0 \/ want # svc

\* Until then everything that is there is wanted and nothing is given up.
CalmAt(lb) ==
    Unchanged =>
        /\ pc[lb] # "destroy"
        /\ \A i \in Own(lb) : i \notin deleting /\ Uses(want, key[i])
        /\ pc[lb] = "get" => Listed(lb) \subseteq alive

\* Only what is not wanted is gone or on its way out, and only what was just
\* created is not deployed.
OrderlyAt(lb) ==
    /\ pc[lb] \notin {"update", "waitExisting"}
    /\ \A i \in Own(lb) :
         /\ i \in deleting => ~Uses(want, key[i])
         /\ state[i] # "ok" => pc[lb] \in {"create", "tag", "waitCreated"} /\ i \in todo[lb]
    /\ pc[lb] = "get" =>
         \A i \in Listed(lb) : /\ i \notin alive => ~Uses(want, key[i])
                               /\ seenAs[lb][i] \in {"absent", "ok"}
    /\ pc[lb] \in {"create", "tag", "waitCreated"} => todo[lb] \subseteq Own(lb) \ deleting
    /\ pc[lb] \in {"create", "tag"} => \A k \in toCreate[lb] : Creatable(k)
    /\ pc[lb] = "tag" => cur[lb] \in alive

(***************************************************************************)
(* Without failures no resource is found failed or in deployment, no       *)
(* Create is refused, and nothing is missing or on its way out but what    *)
(* the Service does not use.                                               *)
(***************************************************************************)
Orderly ==
    /\ edits = 0 => want = svc
    /\ \A i \in Ids : state[i] \in {"pending", "ok"}
    /\ \A lb \in LBs : CalmAt(lb) /\ OrderlyAt(lb)
=============================================================================
