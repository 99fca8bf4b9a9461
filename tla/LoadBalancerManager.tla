------------------------ MODULE LoadBalancerManager ------------------------
(***************************************************************************)
(* Services against each other: the load balancer manager                  *)
(* (anx/provider/loadbalancer/loadbalancer.go), the address manager it     *)
(* asks for external addresses (loadbalancer/address), and the service     *)
(* controller of Kubernetes that calls it and writes the status it returns *)
(* into the Service, after the manager's mutex is released.                *)
(*                                                                         *)
(* All Services share the external addresses: an address manager hands out *)
(* the one VIP of the first prefix of a family, and what keeps a second    *)
(* Service from using it is checkIPCollision, which looks at the statuses. *)
(*                                                                         *)
(* A reconciliation is one step per LoadBalancer here; Reconciliation.tla  *)
(* has the details.  It provides what it was created for; or fails half    *)
(* way; or finds parts of an earlier attempt in deployment, waits for them *)
(* and returns nil with nothing else done; or never returns, because the   *)
(* Engine refuses to destroy what an untagged resource refers to.  A part  *)
(* is a port (its backend, with frontend and servers) or one of its binds. *)
(*                                                                         *)
(* pc[s]: "idle"; "called", EnsureLoadBalancer waits for the mutex;        *)
(* "allocate", "check", reconciliationForService; "reconcile"; "status",   *)
(* the rest of GetLoadBalancer; "returned".  holds[s] tells the calls of   *)
(* EnsureLoadBalancer, under the mutex, from those of GetLoadBalancer,     *)
(* which takes no lock and is called before a Service is cleaned up.       *)
(*                                                                         *)
(* A definition whose name ends in _<Word> is a wrong version of the one   *)
(* after it, kept to see that the properties notice it.                    *)
(***************************************************************************)
EXTENDS Integers, Sequences, FiniteSets

CONSTANTS
    Services, LBs, Addrs, Families, PortNames, PortNums,
    FamilyOf,     \* the family of an address
    Wishes,       \* what Services may ask for
    MayAsk,       \* by Service what this one may
    PrefixLists,  \* the lists of prefixes the Engine may hold
    Workers,      \* number of workers of the service controller
    None,
    FaultKinds, MaxFaults, MaxEdits

VARIABLES
    phase, wish, status,       \* Services, as the API server has them
    synced, pc, arg, result,   \* the workers of the service controller
    lock, holds, addresses, unchecked, recon,  \* the manager's calls
    prefixCache, cacheFresh,   \* the address manager
    prefixList, store,         \* the Engine: prefixes, parts by Service
    edits, faults,
    early                      \* history: what the status was written upon

kubeVars == <<phase, wish, status, early>>
callVars == <<synced, arg>>
ensureVars == <<lock, holds, addresses, unchecked, recon>>
cacheVars == <<prefixCache, cacheFresh>>
engineVars == <<prefixList, store>>
vars == <<phase, wish, status, synced, pc, arg, result, lock, holds, addresses,
          unchecked, recon, prefixCache, cacheFresh, prefixList, store,
          edits, faults, early>>

AllFaultKinds == {"list", "prefix", "services", "node", "new", "reconcile", "poll",
                  "tag", "status", "crash"}

\* A Service: the families asked for by its annotation or its IPFamilies (None: a
\* word that is no family), is the host name annotation set, and its ports.
WishType ==
    [families : SUBSET (Families \cup {None}), hostname : BOOLEAN,
     ports : SUBSET [name : PortNames, num : PortNums]]

\* A prefix: its family, its tagged VIP if any, and the calculated one.
PrefixType == [family : Families, vip : Addrs \cup {None}, calculated : Addrs]

Ingress == [ip : Addrs \cup {None}, ports : SUBSET PortNums]
Allocatable == Seq([family : Families \cup {None}, address : Addrs])

\* A port, or with an address and a number one of its binds.
Parts == [name : PortNames, at : Addrs \cup {None}, num : PortNums \cup {None}]

\* What the Engine has for a Service on a LoadBalancer: the parts, those among
\* them that are on their way out, are some still being deployed, and the ports
\* some untagged resource refers to.
Content == [held : SUBSET Parts, leaving : SUBSET Parts, deploying : BOOLEAN,
            blocked : SUBSET PortNames]

Nothing == [held |-> {}, leaving |-> {}, deploying |-> FALSE, blocked |-> {}]

\* The content c with other parts.
With(c, held, leaving) ==
    [held |-> held, leaving |-> leaving, deploying |-> c.deploying, blocked |-> c.blocked]

\* Reconcile of one LoadBalancer: "early" is a nil that does not mean complete.
Outcomes == {"todo", "nil", "early", "err"}

ASSUME ManagerConstants ==
    /\ FamilyOf \in [Addrs -> Families]
    /\ Wishes \subseteq WishType
    /\ MayAsk \in [Services -> SUBSET Wishes]
    /\ PrefixLists \subseteq Seq(PrefixType)
    /\ PrefixLists # {}
    /\ Workers \in Nat \ {0}
    /\ None \notin Services \cup Addrs \cup Families
    /\ FaultKinds \subseteq AllFaultKinds
    /\ MaxFaults \in Nat
    /\ MaxEdits \in Nat

TypeOK ==
    /\ phase \in [Services -> {"new", "live", "deleting", "gone", "retiring", "retired"}]
    /\ wish \in [Services -> Wishes]
    /\ status \in [Services -> SUBSET Ingress]
    /\ synced \in [Services -> BOOLEAN]
    /\ pc \in [Services -> {"idle", "called", "allocate", "check", "reconcile", "status", "returned"}]
    /\ arg \in [Services -> [wish : Wishes, deleted : BOOLEAN, wanted : BOOLEAN,
                             status : SUBSET Ingress]]
    /\ result \in [Services -> (SUBSET Ingress) \cup {None}]
    /\ lock \in Services \cup {None}
    /\ holds \in [Services -> BOOLEAN]
    /\ addresses \in [Services -> SUBSET Addrs]
    /\ unchecked \in [Services -> SUBSET Addrs]
    /\ recon \in [Services -> [LBs -> Outcomes]]
    /\ prefixCache \in Allocatable \cup {None}
    /\ cacheFresh \in BOOLEAN
    /\ prefixList \in PrefixLists
    /\ store \in [Services -> [LBs -> Content]]
    /\ early \in [Services -> SUBSET LBs]
    /\ edits \in 0..MaxEdits
    /\ faults \in 0..MaxFaults
    /\ \A s \in Services : holds[s] <=> lock = s
    /\ \A s \in Services : pc[s] = "reconcile" => holds[s]
    /\ \A s \in Services : holds[s] => pc[s] \in {"allocate", "check", "reconcile"}

Fault(k) ==
    /\ k \in FaultKinds
    /\ faults < MaxFaults
    /\ faults' = faults + 1

------------------------------------------------------------------------------
(***************************************************************************)
(* The address manager.                                                    *)
(***************************************************************************)
IPs(ingresses) == {i.ip : i \in ingresses} \ {None}

\* serviceAddresses by family: what the Service already has it keeps.
currentAddresses_Forgotten(s, f) == {}

currentAddresses(s, f) == {a \in IPs(arg[s].status) : FamilyOf[a] = f}

Lacking(s) == {f \in arg[s].wish.families : currentAddresses(s, f) = {}}

\* newPrefix and discoverVIP: the tagged VIP, else the calculated one.  Each
\* retrieval fails on its own: a prefix that can not be retrieved is left out
\* (an entry of no family), an Address that can not be is ignored.
newPrefix(p, hidden) ==
    [family |-> p.family, address |-> IF p.vip # None /\ ~hidden THEN p.vip ELSE p.calculated]

Discovered(lost, hidden) ==
    [i \in DOMAIN prefixList |->
        IF i \in lost THEN [newPrefix(prefixList[i], TRUE) EXCEPT !.family = None]
                      ELSE newPrefix(prefixList[i], i \in hidden)]

\* prefixes(): the cache while it is fresh, else discovery, which fills it.
prefixes(list) ==
    \/ /\ prefixCache # None /\ cacheFresh
       /\ list = prefixCache
       /\ UNCHANGED <<cacheVars, faults>>
    \/ /\ prefixCache = None \/ ~cacheFresh
       /\ \/ list = Discovered({}, {}) /\ UNCHANGED faults
          \/ /\ Fault("prefix")
             /\ \E lost, hidden \in SUBSET DOMAIN prefixList : list = Discovered(lost, hidden)
       /\ prefixCache' = list /\ cacheFresh' = TRUE

Lists ==
    {Discovered(lost, hidden) : lost, hidden \in SUBSET DOMAIN prefixList}
    \cup ({prefixCache} \ {None})

Indices(list, f) == {i \in DOMAIN list : list[i].family = f}

\* allocateAddress: the address of the first prefix of the family.
allocateAddress(list, f) ==
    list[CHOOSE i \in Indices(list, f) : \A j \in Indices(list, f) : i <= j].address

\* What AllocateAddresses returns for the Service, given the prefixes.
Allocated(s, list) ==
    UNION {IF f \in Lacking(s) THEN {allocateAddress(list, f)} ELSE currentAddresses(s, f) :
             f \in arg[s].wish.families}

------------------------------------------------------------------------------
(***************************************************************************)
(* The status: mergeReconStatus counts how often the reconciliations name  *)
(* an address and port; lbStatusFromReconcileStatus gives every address    *)
(* all the ports, or names the host only.                                  *)
(***************************************************************************)
NamedCount(s, a, n) ==
    Cardinality({x \in LBs \X PortNames :
                   [at |-> a, name |-> x[2], num |-> n] \in store[s][x[1]].held})

mergeReconStatus_Once(s) ==
    {x \in Addrs \X PortNums : NamedCount(s, x[1], x[2]) = 1}

mergeReconStatus(s) ==
    {x \in Addrs \X PortNums :
        /\ NamedCount(s, x[1], x[2]) = Cardinality(LBs)
        /\ \A n \in PortNums : NamedCount(s, x[1], n) <= Cardinality(LBs)}

lbStatusFromReconcileStatus(s) ==
    LET merged == mergeReconStatus(s)
        ports == {x[2] : x \in merged}
    IN  IF arg[s].wish.hostname
          THEN {[ip |-> None, ports |-> ports]}
          ELSE {[ip |-> x[1], ports |-> ports] : x \in merged}

------------------------------------------------------------------------------
(***************************************************************************)
(* EnsureLoadBalancer; UpdateLoadBalancer and EnsureLoadBalancerDeleted    *)
(* only call it.                                                           *)
(***************************************************************************)
ClearEnsure(s) ==
    /\ addresses' = [addresses EXCEPT ![s] = {}]
    /\ unchecked' = [unchecked EXCEPT ![s] = {}]

\* m.sync.Unlock() (defer), if this call locked it.
Unlock(s) ==
    /\ lock' = IF holds[s] THEN None ELSE lock
    /\ holds' = [holds EXCEPT ![s] = FALSE]

Return(s, r) ==
    /\ Unlock(s)
    /\ pc' = [pc EXCEPT ![s] = "returned"]
    /\ result' = [result EXCEPT ![s] = r]
    /\ ClearEnsure(s)
    /\ UNCHANGED recon

ReturnError_KeepsLock(s) ==
    /\ pc' = [pc EXCEPT ![s] = "returned"]
    /\ result' = [result EXCEPT ![s] = None]
    /\ ClearEnsure(s)
    /\ UNCHANGED <<lock, holds, recon>>

ReturnError(s) == Return(s, None)

\* m.sync.Lock(), and what reconciliationForService does without a request:
\* a Service that is being deleted needs no addresses.
Lock(s) ==
    /\ pc[s] = "called"
    /\ lock = None
    /\ lock' = s
    /\ holds' = [holds EXCEPT ![s] = TRUE]
    /\ pc' = [pc EXCEPT ![s] = IF arg[s].deleted THEN "reconcile" ELSE "allocate"]
    /\ UNCHANGED <<kubeVars, callVars, result, addresses, unchecked, recon,
                   cacheVars, engineVars, edits, faults>>

\* ErrPortNameNotUnique, and serviceAddressFamilies.
Acceptable(w) ==
    /\ \A p, q \in w.ports : p.name = q.name => p = q
    /\ w.families \subseteq Families

Rejected(s) ==
    /\ pc[s] = "allocate"
    /\ ~Acceptable(arg[s].wish)
    /\ ReturnError(s)
    /\ UNCHANGED <<kubeVars, callVars, cacheVars, engineVars, edits, faults>>

\* getNodeEndpointAddress found no usable address for one of the nodes; a
\* clean-up comes without nodes.
NodeUnusable(s) ==
    /\ pc[s] = "allocate"
    /\ arg[s].wanted
    /\ Acceptable(arg[s].wish)
    /\ Fault("node")
    /\ ReturnError(s)
    /\ UNCHANGED <<kubeVars, callVars, cacheVars, engineVars, edits>>

Allocate(s) ==
    /\ pc[s] = "allocate"
    /\ Acceptable(arg[s].wish)
    /\ \E list \in Lists \cup {<<>>} :
         /\ IF Lacking(s) = {} THEN list = <<>> /\ UNCHANGED <<cacheVars, faults>>
                               ELSE prefixes(list)
         /\ IF \A f \in Lacking(s) : Indices(list, f) # {}
              THEN /\ pc' = [pc EXCEPT ![s] = "check"]
                   /\ addresses' = [addresses EXCEPT ![s] = Allocated(s, list)]
                   /\ unchecked' = [unchecked EXCEPT ![s] = Allocated(s, list)]
                   /\ UNCHANGED <<lock, holds, result, recon>>
              ELSE ReturnError(s)
    /\ UNCHANGED <<kubeVars, callVars, engineVars, edits>>

AllocateFailed(s) ==
    /\ pc[s] = "allocate"
    /\ Acceptable(arg[s].wish)
    /\ Lacking(s) # {}
    /\ prefixCache = None \/ ~cacheFresh
    /\ Fault("list")
    /\ ReturnError(s)
    /\ UNCHANGED <<kubeVars, callVars, cacheVars, engineVars, edits>>

\* Does the status of another Service of type LoadBalancer name the address?
UsedByOther_NotDeleting(s, a) ==
    \E t \in Services \ {s} : phase[t] = "live" /\ a \in IPs(status[t])

UsedByOther(s, a) ==
    \E t \in Services \ {s} : phase[t] \in {"live", "deleting"} /\ a \in IPs(status[t])

\* checkIPCollision, a List of all Services for each address.
CheckCollision(s, a) ==
    /\ pc[s] = "check"
    /\ a \in unchecked[s]
    /\ IF UsedByOther(s, a)
         THEN ReturnError(s)
         ELSE /\ unchecked' = [unchecked EXCEPT ![s] = @ \ {a}]
              /\ UNCHANGED <<pc, result, lock, holds, addresses, recon>>
    /\ UNCHANGED <<kubeVars, callVars, cacheVars, engineVars, edits, faults>>

CheckFailed(s) ==
    /\ pc[s] = "check"
    /\ unchecked[s] # {}
    /\ Fault("services")
    /\ ReturnError(s)
    /\ UNCHANGED <<kubeVars, callVars, cacheVars, engineVars, edits>>

NoCollision(s) ==
    /\ pc[s] = "check"
    /\ unchecked[s] = {}
    /\ pc' = [pc EXCEPT ![s] = IF holds[s] THEN "reconcile" ELSE "status"]
    /\ UNCHANGED <<kubeVars, callVars, result, ensureVars, cacheVars, engineVars,
                   edits, faults>>

\* reconciliation.New can not retrieve one of the LoadBalancers.
NewFailed(s) ==
    /\ \/ pc[s] = "status"
       \/ pc[s] = "reconcile" /\ \A lb \in LBs : recon[s][lb] = "todo"
    /\ Fault("new")
    /\ ReturnError(s)
    /\ UNCHANGED <<kubeVars, callVars, cacheVars, engineVars, edits>>

(***************************************************************************)
(* Reconcile of one LoadBalancer, run for all of them concurrently.        *)
(***************************************************************************)
Todo(s, lb) == pc[s] = "reconcile" /\ recon[s][lb] = "todo"

\* The reconciliation leaves the content c in the Engine and returns r.
Outcome(s, lb, c, r) ==
    /\ store' = [store EXCEPT ![s][lb] = c]
    /\ recon' = [recon EXCEPT ![s][lb] = r]
    /\ UNCHANGED <<kubeVars, callVars, pc, result, lock, holds, addresses, unchecked,
                   cacheVars, prefixList, edits>>

\* The parts a reconciliation is created for.
Targets(s) ==
    IF arg[s].deleted THEN {}
    ELSE {[name |-> p.name, at |-> None, num |-> None] : p \in arg[s].wish.ports}
         \cup {[name |-> p.name, at |-> a, num |-> p.num] :
                  a \in addresses[s], p \in arg[s].wish.ports}

PortsOf(parts) == {r \in parts : r.at = None}
BindsOf(parts) == {r \in parts : r.at # None}

\* What has to be destroyed: without all the ports as they should be no bind
\* has a target (portBackends, portFrontends).
Surplus(s, lb) ==
    LET held == store[s][lb].held
    IN  IF PortsOf(held) = PortsOf(Targets(s)) THEN held \ Targets(s)
        ELSE (held \ Targets(s)) \cup BindsOf(held)

Staying(s, lb) == store[s][lb].held \ Surplus(s, lb)

\* Surplus ports the Engine will not destroy.
Stuck(s, lb) == {r \in PortsOf(Surplus(s, lb)) : r.name \in store[s][lb].blocked}

\* Nothing is in deployment; and it gets past the destroy loop.  (The Engine
\* creates nothing on a port on its way out; the retries until the port is gone
\* are left out.)
Settled(s, lb) == Todo(s, lb) /\ ~store[s][lb].deploying
Passes(s, lb) ==
    /\ Settled(s, lb)
    /\ Stuck(s, lb) = {}
    /\ \/ Targets(s) \subseteq Staying(s, lb)
       \/ PortsOf(store[s][lb].leaving \cap Staying(s, lb)) = {}

\* Contents in the middle of the destroy loop: parts that are gone, others that
\* are marked; a port only once its binds are gone.
Torn(s, lb) ==
    LET c == store[s][lb]
        Free(gone) == {r \in Surplus(s, lb) \ Stuck(s, lb) :
                          r.at = None => \A b \in BindsOf(c.held \ gone) : b.name # r.name}
    IN  UNION {{With(c, c.held \ gone, (c.leaving \cup marked) \ gone) :
                   marked \in SUBSET Free(gone)} :
                 gone \in {g \in SUBSET Surplus(s, lb) : g \subseteq Free(g)}}

\* Contents in the middle of creating, ports before binds.
Built(s, lb) ==
    LET c == store[s][lb]
    IN  {[held |-> Staying(s, lb) \cup new, leaving |-> c.leaving \cap Staying(s, lb),
          deploying |-> d, blocked |-> c.blocked] :
            new \in {n \in SUBSET (Targets(s) \ Staying(s, lb)) :
                        BindsOf(n) # {} => PortsOf(Targets(s)) \subseteq Staying(s, lb) \cup n},
            d \in BOOLEAN}

\* Complete.  A part on its way out that is a target counts as one that is there.
ReconcileLB(s, lb) ==
    /\ Passes(s, lb)
    /\ LET doomed == store[s][lb].leaving \cap Staying(s, lb)
       IN  Outcome(s, lb,
                   With(store[s][lb], Targets(s), doomed),
                   IF doomed = {} THEN "nil" ELSE "early")
    /\ UNCHANGED faults

\* Parts of an earlier attempt are in deployment: toCreate and toDestroy are nil.
ReconcileWaits(s, lb) ==
    /\ Todo(s, lb)
    /\ store[s][lb].deploying
    /\ Outcome(s, lb, [store[s][lb] EXCEPT !.deploying = FALSE], "early")
    /\ UNCHANGED faults

\* The Get of a created resource failed; the next check finds it in deployment.
PollFailed(s, lb) ==
    /\ Passes(s, lb)
    /\ Fault("poll")
    /\ \E c \in Built(s, lb) :
         /\ c.deploying
         /\ Outcome(s, lb, [c EXCEPT !.deploying = FALSE], "early")

\* The destroy loop destroys what it can and repeats the rest for ever.
ReconcileRefused(s, lb) ==
    /\ Settled(s, lb)
    /\ Stuck(s, lb) # {} /\ Surplus(s, lb) # Stuck(s, lb)
    /\ LET kept == Staying(s, lb) \cup Stuck(s, lb)
       IN  Outcome(s, lb, With(store[s][lb], kept, store[s][lb].leaving \cap kept), "todo")
    /\ UNCHANGED faults

\* Any failure that ends it, a timeout of a wait among them.
ReconcileFailed(s, lb) ==
    /\ Todo(s, lb)
    /\ Fault("reconcile")
    /\ \E c \in IF store[s][lb].deploying THEN {store[s][lb]}
                ELSE Torn(s, lb) \cup IF Passes(s, lb) THEN Built(s, lb) ELSE {} :
         Outcome(s, lb, c, "err")

\* Something that refers to a port was created but not tagged.
TagFailed(s, lb) ==
    /\ Passes(s, lb)
    /\ Fault("tag")
    /\ \E c \in Built(s, lb) : \E r \in PortsOf(c.held) :
         Outcome(s, lb, [c EXCEPT !.blocked = @ \cup {r.name}], "err")

\* All of them have returned: multirecon.Reconcile.
Joined(s) == pc[s] = "reconcile" /\ \A lb \in LBs : recon[s][lb] # "todo"
AllNil(s) == \A lb \in LBs : recon[s][lb] # "err"

ReconcileError(s) ==
    /\ Joined(s) /\ ~AllNil(s)
    /\ ReturnError(s)
    /\ UNCHANGED <<kubeVars, callVars, cacheVars, engineVars, edits, faults>>

\* reconciliationStatus after a successful Reconcile.
Status_IgnoresFailure(s) ==
    /\ Joined(s)
    /\ Return(s, lbStatusFromReconcileStatus(s))
    /\ UNCHANGED <<kubeVars, callVars, cacheVars, engineVars, edits, faults>>

Status(s) ==
    /\ Joined(s) /\ AllNil(s)
    /\ Return(s, lbStatusFromReconcileStatus(s))
    /\ UNCHANGED <<kubeVars, callVars, cacheVars, engineVars, edits, faults>>

StatusFailed(s) ==
    /\ \/ pc[s] = "status"
       \/ Joined(s) /\ AllNil(s)
    /\ Fault("status")
    /\ ReturnError(s)
    /\ UNCHANGED <<kubeVars, callVars, cacheVars, engineVars, edits>>

\* GetLoadBalancer: does every address serve every port?  (Always, without
\* addresses.)  Then the controller calls EnsureLoadBalancerDeleted, else there
\* is nothing to clean up.
Created(s) ==
    \A a \in addresses[s] :
        /\ \E n \in PortNums : <<a, n>> \in mergeReconStatus(s)
        /\ \A p \in arg[s].wish.ports : <<a, p.num>> \in mergeReconStatus(s)

GetLoadBalancer(s) ==
    /\ pc[s] = "status"
    /\ IF Created(s)
         THEN /\ pc' = [pc EXCEPT ![s] = "called"]
              /\ ClearEnsure(s)
              /\ UNCHANGED <<lock, holds, result, recon>>
         ELSE Return(s, {})
    /\ UNCHANGED <<kubeVars, callVars, cacheVars, engineVars, edits, faults>>

------------------------------------------------------------------------------
(***************************************************************************)
(* The service controller: at most Workers calls at a time, one per        *)
(* Service, with a copy of the Service as it was.  It writes the status    *)
(* when the call has returned, and calls again after an error.  A Service  *)
(* that is deleted, or no longer of type LoadBalancer, is cleaned up:      *)
(* GetLoadBalancer, EnsureLoadBalancerDeleted if there is something, then  *)
(* the finalizer is removed.                                               *)
(***************************************************************************)
Busy == {s \in Services : pc[s] # "idle"}

Sync(s) ==
    /\ pc[s] = "idle"
    /\ phase[s] \in {"live", "deleting", "retiring"}
    /\ ~synced[s]
    /\ Cardinality(Busy) < Workers
    /\ pc' = [pc EXCEPT ![s] = CASE phase[s] = "live" -> "called"
                                 [] phase[s] = "deleting" -> "status"
                                 [] phase[s] = "retiring" -> "allocate"]
    /\ arg' = [arg EXCEPT ![s] = [wish |-> wish[s], deleted |-> phase[s] = "deleting",
                                  wanted |-> phase[s] = "live", status |-> status[s]]]
    /\ synced' = [synced EXCEPT ![s] = TRUE]
    /\ UNCHANGED <<kubeVars, result, ensureVars, cacheVars, engineVars, edits, faults>>

WriteStatus(s) ==
    /\ pc[s] = "returned"
    /\ pc' = [pc EXCEPT ![s] = "idle"]
    /\ result' = [result EXCEPT ![s] = None]
    /\ recon' = [recon EXCEPT ![s] = [lb \in LBs |-> "todo"]]
    /\ early' = IF result[s] = None THEN early
                ELSE [early EXCEPT ![s] = {lb \in LBs : recon[s][lb] = "early"}]
    /\ \/ /\ result[s] = None
          /\ synced' = [synced EXCEPT ![s] = FALSE]
          /\ UNCHANGED <<phase, status>>
       \/ /\ result[s] # None /\ arg[s].wanted
          /\ status' = [status EXCEPT ![s] = result[s]]
          /\ UNCHANGED <<phase, synced>>
       \/ /\ result[s] # None /\ ~arg[s].wanted
          /\ phase' = [phase EXCEPT ![s] = IF arg[s].deleted THEN "gone" ELSE "retired"]
          /\ status' = [status EXCEPT ![s] = {}]
          /\ UNCHANGED synced
    /\ UNCHANGED <<wish, arg, lock, holds, addresses, unchecked, cacheVars, engineVars,
                   edits, faults>>

\* The users of the cluster, the Engine and time.

CreateService(s) ==
    /\ phase[s] = "new"
    /\ phase' = [phase EXCEPT ![s] = "live"]
    /\ UNCHANGED <<wish, status, early, callVars, pc, result, ensureVars, cacheVars,
                   engineVars, edits, faults>>

Edit == edits < MaxEdits /\ edits' = edits + 1

ChangeService(s) ==
    /\ phase[s] = "live"
    /\ Edit
    /\ \E w \in MayAsk[s] \ {wish[s]} : wish' = [wish EXCEPT ![s] = w]
    /\ synced' = [synced EXCEPT ![s] = FALSE]
    /\ UNCHANGED <<phase, status, early, arg, pc, result, ensureVars, cacheVars,
                   engineVars, faults>>

DeleteService(s) ==
    /\ phase[s] = "live"
    /\ Edit
    /\ phase' = [phase EXCEPT ![s] = "deleting"]
    /\ synced' = [synced EXCEPT ![s] = FALSE]
    /\ UNCHANGED <<wish, status, early, arg, pc, result, ensureVars, cacheVars,
                   engineVars, faults>>

\* The Service becomes one of another type; its finalizer and status stay.
ChangeType(s) ==
    /\ phase[s] = "live"
    /\ Edit
    /\ phase' = [phase EXCEPT ![s] = "retiring"]
    /\ synced' = [synced EXCEPT ![s] = FALSE]
    /\ UNCHANGED <<wish, status, early, arg, pc, result, ensureVars, cacheVars,
                   engineVars, faults>>

\* The Engine finishes deployments, and removes what is on its way out.
Deployed(s, lb) ==
    /\ store[s][lb].deploying
    /\ store' = [store EXCEPT ![s][lb] = [@ EXCEPT !.deploying = FALSE]]
    /\ UNCHANGED <<kubeVars, callVars, pc, result, ensureVars, cacheVars, prefixList,
                   edits, faults>>

Vanish(s, lb) ==
    /\ \E r \in store[s][lb].leaving :
         store' = [store EXCEPT ![s][lb] = With(@, @.held \ {r}, @.leaving \ {r})]
    /\ UNCHANGED <<kubeVars, callVars, pc, result, ensureVars, cacheVars, prefixList,
                   edits, faults>>

ChangePrefixes ==
    /\ Edit
    /\ prefixList' \in PrefixLists \ {prefixList}
    /\ UNCHANGED <<kubeVars, callVars, pc, result, ensureVars, cacheVars, store, faults>>

\* prefixCacheTimeout has passed.
ExpireCache ==
    /\ cacheFresh
    /\ cacheFresh' = FALSE
    /\ UNCHANGED <<kubeVars, callVars, pc, result, ensureVars, prefixCache,
                   engineVars, edits, faults>>

\* What is left of a reconciliation it ends is what ReconcileFailed leaves.
Crash ==
    /\ Fault("crash")
    /\ synced' = [s \in Services |-> FALSE]
    /\ pc' = [s \in Services |-> "idle"]
    /\ result' = [s \in Services |-> None]
    /\ lock' = None
    /\ holds' = [s \in Services |-> FALSE]
    /\ addresses' = [s \in Services |-> {}]
    /\ unchecked' = [s \in Services |-> {}]
    /\ recon' = [s \in Services |-> [lb \in LBs |-> "todo"]]
    /\ prefixCache' = None /\ cacheFresh' = FALSE
    /\ UNCHANGED <<kubeVars, arg, engineVars, edits>>

------------------------------------------------------------------------------
Init ==
    /\ phase = [s \in Services |-> "new"]
    /\ wish \in [Services -> Wishes] /\ \A s \in Services : wish[s] \in MayAsk[s]
    /\ status = [s \in Services |-> {}]
    /\ synced = [s \in Services |-> FALSE]
    /\ pc = [s \in Services |-> "idle"]
    /\ arg = [s \in Services |-> [wish |-> wish[s], deleted |-> FALSE, wanted |-> TRUE,
                                status |-> {}]]
    /\ result = [s \in Services |-> None]
    /\ lock = None
    /\ holds = [s \in Services |-> FALSE]
    /\ addresses = [s \in Services |-> {}]
    /\ unchecked = [s \in Services |-> {}]
    /\ recon = [s \in Services |-> [lb \in LBs |-> "todo"]]
    /\ prefixCache = None /\ cacheFresh = FALSE
    /\ prefixList \in PrefixLists
    /\ store = [s \in Services |-> [lb \in LBs |-> Nothing]]
    /\ edits = 0
    /\ faults = 0
    /\ early = [s \in Services |-> {}]

Ensure(s) ==
    \/ Rejected(s) \/ Allocate(s)
    \/ \E a \in Addrs : CheckCollision(s, a)
    \/ NoCollision(s)
    \/ \E lb \in LBs :
          ReconcileLB(s, lb) \/ ReconcileWaits(s, lb) \/ ReconcileRefused(s, lb)
    \/ ReconcileError(s) \/ Status(s) \/ GetLoadBalancer(s)

FaultyEnsure(s) ==
    \/ NodeUnusable(s) \/ AllocateFailed(s) \/ CheckFailed(s) \/ NewFailed(s)
    \/ StatusFailed(s)
    \/ \E lb \in LBs :
          ReconcileFailed(s, lb) \/ PollFailed(s, lb) \/ TagFailed(s, lb)

Engine == \E s \in Services, lb \in LBs : Deployed(s, lb) \/ Vanish(s, lb)

Next ==
    \/ \E s \in Services : Sync(s) \/ Lock(s) \/ Ensure(s) \/ FaultyEnsure(s) \/ WriteStatus(s)
    \/ \E s \in Services : CreateService(s) \/ ChangeService(s)
                             \/ DeleteService(s) \/ ChangeType(s)
    \/ Engine \/ ChangePrefixes \/ ExpireCache \/ Crash

Spec == Init /\ [][Next]_vars

(***************************************************************************)
(* The work queue of the controller and Go's mutex serve everyone who      *)
(* waits, a call that runs goes on, the Engine deploys and removes what it *)
(* was asked to, and time passes.  Nothing is assumed about failures and   *)
(* about users.                                                            *)
(***************************************************************************)
Fairness ==
    /\ \A s \in Services : SF_vars(Sync(s) \/ Lock(s)) /\ WF_vars(Ensure(s) \/ WriteStatus(s))
    /\ WF_vars(Engine) /\ WF_vars(ExpireCache)

FairSpec == Spec /\ Fairness

------------------------------------------------------------------------------
\* The addresses a Service has binds on.
Serves(s, lb) == {r.at : r \in BindsOf(store[s][lb].held)}
InUse(s) == UNION {Serves(s, lb) : lb \in LBs}

(***************************************************************************)
(* No two Services of type LoadBalancer show the same external address in  *)
(* their status, so nobody is told to send the traffic of two Services to  *)
(* one address (checkIPCollision, with the one worker the controller has   *)
(* by default).  The exception is a status written after Reconcile came    *)
(* back early on all LoadBalancers: it shows what an earlier attempt left  *)
(* there, which this call has not compared with the other Services.        *)
(***************************************************************************)
StatusExclusive ==
    \A s, t \in {u \in Services : phase[u] \in {"live", "deleting"} /\ early[u] # LBs} :
        s # t => IPs(status[s]) \cap IPs(status[t]) = {}

(***************************************************************************)
(* A Service keeps the address its status shows as long as it asks for     *)
(* that family and is not switched to a host name, also when prefixes and  *)
(* VIPs change or can not be retrieved (AllocateAddresses).  Only a        *)
(* Reconcile that came back early on some LoadBalancer loses it.           *)
(***************************************************************************)
AddressesStay ==
    [][\A s \in Services :
         \A a \in IPs(status[s]) :
            /\ pc[s] = "returned" /\ status'[s] # status[s] /\ arg[s].wanted
            /\ FamilyOf[a] \in arg[s].wish.families /\ ~arg[s].wish.hostname
            /\ early'[s] = {}
            => a \in IPs(status'[s])]_vars

(***************************************************************************)
(* A Service that is gone has left no backend, frontend, bind or server on *)
(* any LoadBalancer on which its clean-up did not come back early: the     *)
(* finalizer is only removed after EnsureLoadBalancerDeleted succeeded on  *)
(* all of them.  Where it only waited for what was still in deployment,    *)
(* everything stays (nil_after_wait).                                      *)
(***************************************************************************)
GoneLeavesNothing ==
    \A s \in Services : phase[s] = "gone" =>
        \A lb \in LBs \ early[s] : store[s][lb].held = {}

(***************************************************************************)
(* Whatever other LoadBalancers came back with, the status written for a   *)
(* Service without a host name shows only addresses and ports that every   *)
(* LoadBalancer which is complete serves ("those only on some              *)
(* reconciliations are removed"), and when all are complete, all of them.  *)
(***************************************************************************)
StatusIsServed ==
    \A s \in Services :
        /\ pc[s] = "returned" /\ result[s] # None
        /\ arg[s].wanted /\ ~arg[s].wish.hostname
        =>  /\ \A lb \in LBs : recon[s][lb] = "nil" =>
                 \A i \in result[s] :
                    /\ i.ip \in Serves(s, lb)
                    /\ \A n \in i.ports : \E b \in store[s][lb].held : b.at = i.ip /\ b.num = n
            /\ (\A lb \in LBs : recon[s][lb] = "nil") =>
                 \A lb \in LBs : IPs(result[s]) = Serves(s, lb)

\* A Service has what it asked for on a LoadBalancer.
Served(s, lb) ==
    LET held == store[s][lb].held
    IN  /\ {FamilyOf[a] : a \in Serves(s, lb)} = wish[s].families
        /\ PortsOf(held) = {[name |-> p.name, at |-> None, num |-> None] : p \in wish[s].ports}
        /\ BindsOf(held) = {[name |-> p.name, at |-> a, num |-> p.num] :
                              a \in Serves(s, lb), p \in wish[s].ports}

\* A destroy loop the Engine will never let finish holds the mutex.
Looping(s) == \E lb \in LBs : Settled(s, lb) /\ Stuck(s, lb) # {}

(***************************************************************************)
(* Whatever fails on the way, in the end every Service is served, is gone  *)
(* or cleaned up, is rejected for what it asks, or has to wait for another *)
(* one that shows an address of a family it asks for: an error never       *)
(* leaves the mutex locked, and a Service that gave up its address makes   *)
(* room for the next one.  A Service that is no longer of type             *)
(* LoadBalancer may be rejected or wait too, because GetLoadBalancer does  *)
(* all the checks of EnsureLoadBalancer.  What may keep a Service from     *)
(* that is a Reconcile that came back early, on the LoadBalancers where it *)
(* did, and one that loops for ever under the mutex (destroy_refused).     *)
(***************************************************************************)
EveryServiceSettles ==
    \A s \in Services :
        <>[](\/ phase[s] \in {"new", "gone", "retired"}
             \/ phase[s] = "live" /\ \A lb \in LBs \ early[s] : Served(s, lb)
             \/ /\ phase[s] \in {"live", "retiring"}
                /\ \/ ~Acceptable(wish[s])
                   \/ \E t \in Services \ {s} :
                        \E a \in IPs(status[t]) : FamilyOf[a] \in wish[s].families
             \/ \E t \in Services : Looping(t))

(***************************************************************************)
(* "ErrSingleVIPConflict is returned when asked to provision a             *)
(* LoadBalancer service while another already uses the single load         *)
(* balancer IP": no two Services have binds on one address.                *)
(***************************************************************************)
VIPExclusive ==
    \A s, t \in Services : s # t => InUse(s) \cap InUse(t) = {}
=============================================================================
