--------------------------- MODULE Reconciliation ---------------------------
(***************************************************************************)
(* The reconciliation of one LoadBalancer Service with the Engine:         *)
(* anx/provider/loadbalancer/reconciliation, run for every configured      *)
(* LoadBalancer concurrently (multirecon.go) by EnsureLoadBalancer, which  *)
(* the Kubernetes service controller calls again after an error.           *)
(*                                                                         *)
(* One step of a reconciliation is one request to the Engine and what the  *)
(* code does with the answer; between two requests everything may happen.  *)
(* Reading the requests and loops of the code, pc[lb] says where it is:    *)
(*                                                                         *)
(*   "list"          retrieveResources is about to List by tag             *)
(*   "get"           the loop over what was listed; once it is empty,      *)
(*                   ReconcileCheck decides                                *)
(*   "update"        the loop of updateFailedResources                     *)
(*   "destroy"       one pass of the destroy loop                          *)
(*   "create","tag"  the create loop                                       *)
(*   "waitExisting"  waitForResources(existingProgressing)                 *)
(*   "waitCreated"   waitForResources(toCreate)                            *)
(*   "returned"      Reconcile returned ret[lb]                            *)
(*                                                                         *)
(* Failures are injected by actions of their own, at most MaxFaults of     *)
(* them and only of the kinds in FaultKinds.                               *)
(*                                                                         *)
(* A definition whose name ends in _<Word> is a wrong version of the one   *)
(* after it, kept to see that the properties notice it.                    *)
(***************************************************************************)
EXTENDS LBaaSEngine, Integers

CONSTANTS
    FamilyOf,    \* the family of an address
    Specs,       \* what the Service may ask for; a deleted one asks for nothing
    FaultKinds,  \* which failures may happen
    MaxFaults,   \* bound on their number
    MaxEdits     \* bound on the number of changes to the Service

VARIABLES
    svc,           \* what the Service asks for now
    synced,        \* what it asked for when EnsureLoadBalancer last succeeded
    want,          \* what the running reconciliations were created with
    pc, ret,
    todo,          \* identifiers the loop at pc[lb] has yet to visit, and in
                   \*   "create" and "tag" those already created
    seenAs,        \* the state in which a resource was retrieved, or "absent"
    newToDestroy,  \* resources whose Destroy failed in this pass
    allowRetry,
    toCreate,      \* attributes of the resources still to be created
    cur,           \* the resource created but not yet tagged
    edits, faults  \* number of changes and of failures so far

serviceVars == <<svc, synced, edits>>
loopVars == <<todo, seenAs, newToDestroy, allowRetry, toCreate, cur>>
reconVars == <<want, pc, ret, todo, seenAs, newToDestroy, allowRetry, toCreate, cur>>
vars == <<key, alive, deleting, state, tag, svc, synced, want, pc, ret, todo,
          seenAs, newToDestroy, allowRetry, toCreate, cur, edits, faults>>

AllFaultKinds == {"list", "get", "update", "destroy", "destroylost", "ratelimit",
                  "create", "createlost", "tag", "taglost", "timeout", "deploy",
                  "crash"}

\* A Service: by port name its external port and NodePort, the addresses
\* allocated for it and the nodes that serve it.
SpecType == [ports : UNION {[D -> [External : PortNums, Internal : PortNums]] :
                              D \in SUBSET PortNames},
             externalAddresses : SUBSET Addrs,
             targetServers : SUBSET Nodes]

\* Of each family the address manager allocates one address.
OnePerFamily ==
    \A s \in Specs : \A a, b \in s.externalAddresses : FamilyOf[a] = FamilyOf[b] => a = b

ASSUME ReconciliationConstants ==
    /\ Specs \subseteq SpecType
    /\ OnePerFamily
    /\ None \notin Specs
    /\ FaultKinds \subseteq AllFaultKinds
    /\ MaxFaults \in Nat
    /\ MaxEdits \in Nat

Locations == {"idle", "list", "get", "update", "destroy", "create", "tag",
              "waitExisting", "waitCreated", "returned"}

\* The order of the steps of ReconcileCheck, and the order in which failed
\* resources are collected: frontends and backends as they come.
Rank == [backend |-> 1, frontend |-> 2, bind |-> 3, server |-> 4]
FailedRank == [backend |-> 1, frontend |-> 1, bind |-> 2, server |-> 3]

ServiceTypeOK ==
    /\ svc \in Specs
    /\ synced \in Specs \cup {None}
    /\ edits \in 0..MaxEdits
    /\ faults \in 0..MaxFaults

LoopsTypeOK ==
    /\ want \in Specs
    /\ pc \in [LBs -> Locations]
    /\ ret \in [LBs -> {"nil", "err"}]
    /\ todo \in [LBs -> SUBSET Ids]
    /\ seenAs \in [LBs -> [Ids -> States \cup {"absent"}]]
    /\ newToDestroy \in [LBs -> SUBSET Ids]
    /\ allowRetry \in [LBs -> BOOLEAN]
    /\ toCreate \in [LBs -> SUBSET Keys]
    /\ cur \in [LBs -> Ids \cup {None}]
    /\ \A lb \in LBs : pc[lb] = "tag" => cur[lb] \in Ids

TypeOK == EngineTypeOK /\ ServiceTypeOK /\ LoopsTypeOK

------------------------------------------------------------------------------
(***************************************************************************)
(* What was retrieved: existing resources, sorted by type.  Binds and      *)
(* servers belong to this LoadBalancer when their frontend or backend was  *)
(* retrieved and does.                                                     *)
(***************************************************************************)
Retrieved(lb, kind) == {i \in Ids : seenAs[lb][i] # "absent" /\ key[i].kind = kind}

backends(lb) == {i \in Retrieved(lb, "backend") : key[i].lb = lb}
frontends_AnyLB(lb) == Retrieved(lb, "frontend")

frontends(lb) == {i \in Retrieved(lb, "frontend") : key[i].lb = lb}
filterBinds(lb) == {i \in Retrieved(lb, "bind") : key[i].ref \in frontends(lb)}
filterServers(lb) == {i \in Retrieved(lb, "server") : key[i].ref \in backends(lb)}

Existing(lb) ==
    backends(lb) \cup frontends(lb) \cup filterBinds(lb) \cup filterServers(lb)

SeenAs(lb, s) == {i \in Existing(lb) : seenAs[lb][i] = s}

\* compare.Reconcile: what targets lack in existing, what existing has too much.
Missing(targets, existing) == {k \in targets : \A i \in existing : key[i] # k}
Surplus(targets, existing) == {i \in existing : key[i] \notin targets}
Matched(targets, existing) ==
    Missing(targets, existing) = {} /\ Surplus(targets, existing) = {}

(***************************************************************************)
(* The four steps of ReconcileCheck.  portBackends and portFrontends are   *)
(* filled only when their step has nothing to create and to destroy; the   *)
(* later steps see no targets for the ports that are missing in them.      *)
(***************************************************************************)
Ports == DOMAIN want.ports

targetBackends(lb) == {Backend(lb, p) : p \in Ports}

portBackends(lb) ==
    [p \in {q \in Ports : Matched(targetBackends(lb), backends(lb))} |->
        CHOOSE i \in backends(lb) : key[i] = Backend(lb, p)]

targetFrontends(lb) ==
    {Frontend(lb, p, portBackends(lb)[p]) : p \in DOMAIN portBackends(lb)}

portFrontends(lb) ==
    [p \in {q \in DOMAIN portBackends(lb) :
                Matched(targetFrontends(lb), frontends(lb))} |->
        CHOOSE i \in frontends(lb) : key[i] = Frontend(lb, p, portBackends(lb)[p])]

targetBinds_NewAddresses(lb) ==
    {Bind(lb, p, a, want.ports[p].External, portFrontends(lb)[p]) :
        a \in {b \in want.externalAddresses : \A i \in filterBinds(lb) : key[i].at # b},
        p \in DOMAIN portFrontends(lb)}

targetBinds(lb) ==
    {Bind(lb, p, a, want.ports[p].External, portFrontends(lb)[p]) :
        a \in want.externalAddresses, p \in DOMAIN portFrontends(lb)}

targetServers(lb) ==
    {Server(lb, p, n, want.ports[p].Internal, portBackends(lb)[p]) :
        n \in want.targetServers, p \in DOMAIN portBackends(lb)}

PlannedCreate_NoServers(lb) ==
    Missing(targetBackends(lb), backends(lb)) \cup
    Missing(targetFrontends(lb), frontends(lb)) \cup
    Missing(targetBinds(lb), filterBinds(lb))

PlannedCreate(lb) ==
    Missing(targetBackends(lb), backends(lb)) \cup
    Missing(targetFrontends(lb), frontends(lb)) \cup
    Missing(targetBinds(lb), filterBinds(lb)) \cup
    Missing(targetServers(lb), filterServers(lb))

PlannedDestroy_NoBinds(lb) ==
    Surplus(targetBackends(lb), backends(lb)) \cup
    Surplus(targetFrontends(lb), frontends(lb)) \cup
    Surplus(targetServers(lb), filterServers(lb))

PlannedDestroy(lb) ==
    Surplus(targetBackends(lb), backends(lb)) \cup
    Surplus(targetFrontends(lb), frontends(lb)) \cup
    Surplus(targetBinds(lb), filterBinds(lb)) \cup
    Surplus(targetServers(lb), filterServers(lb))

------------------------------------------------------------------------------
\* Control flow.

ClearLoops(lb) ==
    /\ todo' = [todo EXCEPT ![lb] = {}]
    /\ seenAs' = [seenAs EXCEPT ![lb] = [i \in Ids |-> "absent"]]
    /\ newToDestroy' = [newToDestroy EXCEPT ![lb] = {}]
    /\ allowRetry' = [allowRetry EXCEPT ![lb] = TRUE]
    /\ toCreate' = [toCreate EXCEPT ![lb] = {}]
    /\ cur' = [cur EXCEPT ![lb] = None]

\* The next iteration of Reconcile's loop: retrieveState starts from nothing.
Again(lb) ==
    /\ pc' = [pc EXCEPT ![lb] = "list"]
    /\ ClearLoops(lb)
    /\ UNCHANGED <<want, ret>>

Return(lb, r) ==
    /\ pc' = [pc EXCEPT ![lb] = "returned"]
    /\ ret' = [ret EXCEPT ![lb] = r]
    /\ ClearLoops(lb)
    /\ UNCHANGED want

\* A loop of another kind over the resources S.
Loop(lb, l, S) ==
    /\ pc' = [pc EXCEPT ![lb] = l]
    /\ todo' = [todo EXCEPT ![lb] = S]
    /\ seenAs' = [seenAs EXCEPT ![lb] = [i \in Ids |-> "absent"]]
    /\ UNCHANGED <<want, ret, newToDestroy, toCreate, cur>>

Visited(lb, i) == todo' = [todo EXCEPT ![lb] = @ \ {i}]

Fault(k) ==
    /\ k \in FaultKinds
    /\ faults < MaxFaults
    /\ faults' = faults + 1

\* What a loop over the resources S visits next: the types in their order,
\* those of one type in any (the maps and the list they come from have none).
FirstOf(S, rank) ==
    {i \in S : \A j \in S : rank[key[i].kind] <= rank[key[j].kind]}
FirstKeys(S) == {k \in S : \A m \in S : Rank[k.kind] <= Rank[m.kind]}

------------------------------------------------------------------------------
(***************************************************************************)
(* retrieveResources.  A List that finds nothing (status 422) and an empty *)
(* list are the same.  A resource that is gone when it is its turn to be   *)
(* retrieved makes the whole reconciliation fail.                          *)
(***************************************************************************)
List(lb) ==
    /\ pc[lb] = "list"
    /\ Loop(lb, "get", Tagged)
    /\ UNCHANGED <<engineVars, serviceVars, allowRetry, faults>>

ListFailed(lb) ==
    /\ pc[lb] = "list"
    /\ Fault("list")
    /\ Return(lb, "err")
    /\ UNCHANGED <<engineVars, serviceVars>>

Get(lb, i) ==
    /\ pc[lb] = "get"
    /\ i \in todo[lb] \cap alive
    /\ seenAs' = [seenAs EXCEPT ![lb][i] = state[i]]
    /\ Visited(lb, i)
    /\ UNCHANGED <<engineVars, serviceVars, want, pc, ret, newToDestroy,
                   allowRetry, toCreate, cur, faults>>

GetGone(lb, i) ==
    /\ pc[lb] = "get"
    /\ i \in todo[lb] \ alive
    /\ Return(lb, "err")
    /\ UNCHANGED <<engineVars, serviceVars, faults>>

GetFailed_Skips(lb, i) ==
    /\ pc[lb] = "get"
    /\ i \in todo[lb]
    /\ Fault("get")
    /\ Visited(lb, i)
    /\ UNCHANGED <<engineVars, serviceVars, want, pc, ret, seenAs, newToDestroy,
                   allowRetry, toCreate, cur>>

GetFailed(lb, i) ==
    /\ pc[lb] = "get"
    /\ i \in todo[lb]
    /\ Fault("get")
    /\ Return(lb, "err")
    /\ UNCHANGED <<engineVars, serviceVars>>

(***************************************************************************)
(* ReconcileCheck once everything is retrieved: failed resources first,    *)
(* then those being updated, then those in progress, then the four steps;  *)
(* and what Reconcile does with the result.                                *)
(***************************************************************************)
AllRetrieved(lb) == pc[lb] = "get" /\ todo[lb] = {}

CheckFailed_Accepts(lb) ==
    /\ AllRetrieved(lb)
    /\ SeenAs(lb, "error") # {}
    /\ Return(lb, "nil")
    /\ UNCHANGED <<engineVars, serviceVars, faults>>

CheckFailed(lb) ==
    /\ AllRetrieved(lb)
    /\ SeenAs(lb, "error") # {}
    /\ Loop(lb, "update", SeenAs(lb, "error"))
    /\ UNCHANGED <<engineVars, serviceVars, allowRetry, faults>>

CheckUpdating(lb) ==
    /\ AllRetrieved(lb)
    /\ SeenAs(lb, "error") = {}
    /\ SeenAs(lb, "updating") # {}
    /\ Return(lb, "err")
    /\ UNCHANGED <<engineVars, serviceVars, faults>>

CheckProgressing(lb) ==
    /\ AllRetrieved(lb)
    /\ SeenAs(lb, "error") \cup SeenAs(lb, "updating") = {}
    /\ SeenAs(lb, "pending") # {}
    /\ Loop(lb, "waitExisting", SeenAs(lb, "pending"))
    /\ UNCHANGED <<engineVars, serviceVars, allowRetry, faults>>

Settled_AnyState(lb) == AllRetrieved(lb)

Settled(lb) == AllRetrieved(lb) /\ \A i \in Existing(lb) : seenAs[lb][i] = "ok"

CheckDestroy(lb) ==
    /\ Settled(lb)
    /\ PlannedDestroy(lb) # {}
    /\ Loop(lb, "destroy", PlannedDestroy(lb))
    /\ allowRetry' = [allowRetry EXCEPT ![lb] = FALSE]
    /\ UNCHANGED <<engineVars, serviceVars, faults>>

CheckCreate_BeforeDestroy(lb) ==
    /\ Settled(lb)
    /\ PlannedCreate(lb) # {}
    /\ pc' = [pc EXCEPT ![lb] = "create"]
    /\ toCreate' = [toCreate EXCEPT ![lb] = PlannedCreate(lb)]
    /\ seenAs' = [seenAs EXCEPT ![lb] = [i \in Ids |-> "absent"]]
    /\ UNCHANGED <<engineVars, serviceVars, want, ret, todo, newToDestroy,
                   allowRetry, cur, faults>>

CheckCreate(lb) ==
    /\ Settled(lb)
    /\ PlannedDestroy(lb) = {}
    /\ PlannedCreate(lb) # {}
    /\ pc' = [pc EXCEPT ![lb] = "create"]
    /\ toCreate' = [toCreate EXCEPT ![lb] = PlannedCreate(lb)]
    /\ seenAs' = [seenAs EXCEPT ![lb] = [i \in Ids |-> "absent"]]
    /\ UNCHANGED <<engineVars, serviceVars, want, ret, todo, newToDestroy,
                   allowRetry, cur, faults>>

CheckComplete(lb) ==
    /\ Settled(lb)
    /\ PlannedDestroy(lb) = {} /\ PlannedCreate(lb) = {}
    /\ Return(lb, "nil")
    /\ UNCHANGED <<engineVars, serviceVars, faults>>

\* updateFailedResources, followed by ErrLBaaSResourceRecoveryPending.  A failed
\* resource is never on its way out, so it is still there.
Update(lb, i) ==
    /\ pc[lb] = "update"
    /\ i \in FirstOf(todo[lb], FailedRank) \cap alive
    /\ EngineUpdate(i)
    /\ IF todo[lb] = {i}
         THEN Return(lb, "err")
         ELSE /\ Visited(lb, i)
              /\ UNCHANGED <<want, pc, ret, seenAs, newToDestroy, allowRetry,
                             toCreate, cur>>
    /\ UNCHANGED <<serviceVars, faults>>

UpdateFailed(lb, i) ==
    /\ pc[lb] = "update"
    /\ i \in FirstOf(todo[lb], FailedRank)
    /\ Fault("update")
    /\ Return(lb, "err")
    /\ UNCHANGED <<engineVars, serviceVars>>

------------------------------------------------------------------------------
(***************************************************************************)
(* The destroy loop.  A resource that is not found counts as destroyed.    *)
(* After every answer but a rate limit the code sets allowRetry, after a   *)
(* failed Destroy too.                                                     *)
(***************************************************************************)
DestroyNext(lb, i) == pc[lb] = "destroy" /\ i \in FirstOf(todo[lb], Rank)

DestroyDone(lb, i) ==
    /\ Visited(lb, i)
    /\ allowRetry' = [allowRetry EXCEPT ![lb] = TRUE]
    /\ UNCHANGED <<serviceVars, want, pc, ret, seenAs, newToDestroy, toCreate, cur>>

DestroyRetry(lb, i) ==
    /\ Visited(lb, i)
    /\ newToDestroy' = [newToDestroy EXCEPT ![lb] = @ \cup {i}]
    /\ allowRetry' = [allowRetry EXCEPT ![lb] = TRUE]
    /\ UNCHANGED <<serviceVars, want, pc, ret, seenAs, toCreate, cur>>

Destroy(lb, i) ==
    /\ DestroyNext(lb, i)
    /\ i \in alive /\ Destroyable(i)
    /\ EngineDestroy(i)
    /\ DestroyDone(lb, i)
    /\ UNCHANGED faults

DestroyNotFound(lb, i) ==
    /\ DestroyNext(lb, i)
    /\ i \notin alive
    /\ DestroyDone(lb, i)
    /\ UNCHANGED <<engineVars, faults>>

DestroyRefused(lb, i) ==
    /\ DestroyNext(lb, i)
    /\ i \in alive /\ ~Destroyable(i)
    /\ DestroyRetry(lb, i)
    /\ UNCHANGED <<engineVars, faults>>

DestroyFailed(lb, i) ==
    /\ DestroyNext(lb, i)
    /\ Fault("destroy")
    /\ DestroyRetry(lb, i)
    /\ UNCHANGED engineVars

DestroyLost(lb, i) ==
    /\ DestroyNext(lb, i)
    /\ i \in alive /\ Destroyable(i)
    /\ Fault("destroylost")
    /\ EngineDestroy(i)
    /\ DestroyRetry(lb, i)

\* handleDestroyError asks to abort: break outer, toDestroy as it was.
DestroyRateLimited(lb, i) ==
    /\ DestroyNext(lb, i)
    /\ Fault("ratelimit")
    /\ IF allowRetry[lb] THEN Again(lb) ELSE Return(lb, "err")
    /\ UNCHANGED <<engineVars, serviceVars>>

DestroyPassEnd_KeepsAll(lb) ==
    /\ pc[lb] = "destroy" /\ todo[lb] = {}
    /\ IF newToDestroy[lb] = {} THEN Again(lb)
       ELSE /\ todo' = [todo EXCEPT ![lb] = newToDestroy[lb]]
            /\ allowRetry' = [allowRetry EXCEPT ![lb] = FALSE]
            /\ UNCHANGED <<want, pc, ret, seenAs, newToDestroy, toCreate, cur>>
    /\ UNCHANGED <<engineVars, serviceVars, faults>>

DestroyPassEnd(lb) ==
    /\ pc[lb] = "destroy" /\ todo[lb] = {}
    /\ IF newToDestroy[lb] = {} THEN Again(lb)
       ELSE IF ~allowRetry[lb] THEN Return(lb, "err")
       ELSE /\ todo' = [todo EXCEPT ![lb] = newToDestroy[lb]]
            /\ newToDestroy' = [newToDestroy EXCEPT ![lb] = {}]
            /\ allowRetry' = [allowRetry EXCEPT ![lb] = FALSE]
            /\ UNCHANGED <<want, pc, ret, seenAs, toCreate, cur>>
    /\ UNCHANGED <<engineVars, serviceVars, faults>>

------------------------------------------------------------------------------
(***************************************************************************)
(* The create loop: Create, then tagResource, for one object after the     *)
(* other.  Both errors end the reconciliation.  The mutex in tagResource   *)
(* makes tagging one step of the process.                                  *)
(***************************************************************************)
CreateNext(lb, k) == pc[lb] = "create" /\ k \in FirstKeys(toCreate[lb])

\* Create fills in the identifier of a copy of the object.
Create_OfCopy(lb, k) ==
    /\ CreateNext(lb, k)
    /\ Creatable(k)
    /\ EngineCreate(k)
    /\ pc' = [pc EXCEPT ![lb] = "tag"]
    /\ toCreate' = [toCreate EXCEPT ![lb] = @ \ {k}]
    /\ UNCHANGED <<serviceVars, want, ret, todo, seenAs, newToDestroy,
                   allowRetry, cur, faults>>

Create(lb, k) ==
    /\ CreateNext(lb, k)
    /\ Creatable(k)
    /\ EngineCreate(k)
    /\ pc' = [pc EXCEPT ![lb] = "tag"]
    /\ toCreate' = [toCreate EXCEPT ![lb] = @ \ {k}]
    /\ cur' = [cur EXCEPT ![lb] = NewId]
    /\ UNCHANGED <<serviceVars, want, ret, todo, seenAs, newToDestroy,
                   allowRetry, faults>>

CreateRefused(lb, k) ==
    /\ CreateNext(lb, k)
    /\ ~Creatable(k)
    /\ Return(lb, "err")
    /\ UNCHANGED <<engineVars, serviceVars, faults>>

CreateFailed(lb, k) ==
    /\ CreateNext(lb, k)
    /\ Fault("create")
    /\ Return(lb, "err")
    /\ UNCHANGED <<engineVars, serviceVars>>

CreateLost(lb, k) ==
    /\ CreateNext(lb, k)
    /\ Creatable(k)
    /\ Fault("createlost")
    /\ EngineCreate(k)
    /\ Return(lb, "err")
    /\ UNCHANGED serviceVars

Tag(lb) ==
    /\ pc[lb] = "tag"
    /\ EngineTag(cur[lb])
    /\ todo' = [todo EXCEPT ![lb] = @ \cup {cur[lb]}]
    /\ cur' = [cur EXCEPT ![lb] = None]
    /\ pc' = [pc EXCEPT ![lb] = IF toCreate[lb] = {} THEN "waitCreated" ELSE "create"]
    /\ UNCHANGED <<serviceVars, want, ret, seenAs, newToDestroy, allowRetry,
                   toCreate, faults>>

TagFailed(lb) ==
    /\ pc[lb] = "tag"
    /\ Fault("tag")
    /\ Return(lb, "err")
    /\ UNCHANGED <<engineVars, serviceVars>>

TagLost(lb) ==
    /\ pc[lb] = "tag"
    /\ Fault("taglost")
    /\ EngineTag(cur[lb])
    /\ Return(lb, "err")
    /\ UNCHANGED serviceVars

------------------------------------------------------------------------------
(***************************************************************************)
(* waitForResources: polls every object until all are ready.  An object    *)
(* that was ready once is not looked at again; one that failed, or that    *)
(* cannot be retrieved, ends the wait.  After the wait for created objects *)
(* the loop of Reconcile goes on, also when one failed.  After the wait    *)
(* for existing ones toCreate and toDestroy are nil: completed.            *)
(***************************************************************************)
Waiting(lb) == pc[lb] \in {"waitExisting", "waitCreated"}

AfterFailedWait(lb) ==
    IF pc[lb] = "waitCreated" THEN Again(lb) ELSE Return(lb, "err")

AfterWait(lb) ==
    IF pc[lb] = "waitCreated" THEN Again(lb) ELSE Return(lb, "nil")

PollReady(lb, i) ==
    /\ Waiting(lb)
    /\ i \in todo[lb] \cap alive
    /\ state[i] = "ok"
    /\ Visited(lb, i)
    /\ UNCHANGED <<engineVars, serviceVars, want, pc, ret, seenAs, newToDestroy,
                   allowRetry, toCreate, cur, faults>>

PollBroken(lb, i) ==
    /\ Waiting(lb)
    /\ i \in todo[lb]
    /\ i \notin alive \/ state[i] = "error"
    /\ AfterFailedWait(lb)
    /\ UNCHANGED <<engineVars, serviceVars, faults>>

PollFailed(lb, i) ==
    /\ Waiting(lb)
    /\ i \in todo[lb]
    /\ Fault("get")
    /\ AfterFailedWait(lb)
    /\ UNCHANGED <<engineVars, serviceVars>>

WaitDone(lb) ==
    /\ Waiting(lb)
    /\ todo[lb] = {}
    /\ AfterWait(lb)
    /\ UNCHANGED <<engineVars, serviceVars, faults>>

\* All steps of the backoff used up while some object is not ready.
Timeout(lb) ==
    /\ Waiting(lb)
    /\ \E i \in todo[lb] : state[i] \in {"pending", "updating"}
    /\ Fault("timeout")
    /\ Return(lb, "err")
    /\ UNCHANGED <<engineVars, serviceVars>>

------------------------------------------------------------------------------
(***************************************************************************)
(* EnsureLoadBalancer, under the manager's mutex: one reconciliation per   *)
(* LoadBalancer started together (Multi), the result is an error when one  *)
(* of them failed.  The service controller calls it when the Service       *)
(* changed and again after an error.                                       *)
(***************************************************************************)
Start ==
    /\ \A lb \in LBs : pc[lb] = "idle"
    /\ synced # svc
    /\ want' = svc
    /\ pc' = [lb \in LBs |-> "list"]
    /\ UNCHANGED <<engineVars, serviceVars, ret, loopVars, faults>>

Join_AnyNil ==
    /\ \A lb \in LBs : pc[lb] = "returned"
    /\ synced' = IF \E lb \in LBs : ret[lb] = "nil" THEN want ELSE None
    /\ pc' = [lb \in LBs |-> "idle"]
    /\ ret' = [lb \in LBs |-> "err"]
    /\ UNCHANGED <<engineVars, svc, edits, want, loopVars, faults>>

Join ==
    /\ \A lb \in LBs : pc[lb] = "returned"
    /\ synced' = IF \A lb \in LBs : ret[lb] = "nil" THEN want ELSE None
    /\ pc' = [lb \in LBs |-> "idle"]
    /\ ret' = [lb \in LBs |-> "err"]
    /\ UNCHANGED <<engineVars, svc, edits, want, loopVars, faults>>

ChangeService ==
    /\ edits < MaxEdits
    /\ edits' = edits + 1
    /\ svc' \in Specs \ {svc}
    /\ UNCHANGED <<engineVars, synced, reconVars, faults>>

\* The controller dies and is started again; it keeps nothing but the Engine.
Crash ==
    /\ Fault("crash")
    /\ pc' = [lb \in LBs |-> "idle"]
    /\ ret' = [lb \in LBs |-> "err"]
    /\ todo' = [lb \in LBs |-> {}]
    /\ seenAs' = [lb \in LBs |-> [i \in Ids |-> "absent"]]
    /\ newToDestroy' = [lb \in LBs |-> {}]
    /\ allowRetry' = [lb \in LBs |-> TRUE]
    /\ toCreate' = [lb \in LBs |-> {}]
    /\ cur' = [lb \in LBs |-> None]
    /\ synced' = None
    /\ UNCHANGED <<engineVars, svc, edits, want>>

\* Nothing to do: the Service was reconciled and does not change any more.
Rest ==
    /\ \A lb \in LBs : pc[lb] = "idle"
    /\ synced = svc
    /\ UNCHANGED vars

SettleOk(i) == Settle(i, "ok") /\ UNCHANGED <<serviceVars, reconVars, faults>>

SettleError(i) ==
    Settle(i, "error") /\ Fault("deploy") /\ UNCHANGED <<serviceVars, reconVars>>

Removed(i) == Remove(i) /\ UNCHANGED <<serviceVars, reconVars, faults>>

------------------------------------------------------------------------------
Init ==
    /\ EngineInit
    /\ svc \in Specs
    /\ synced = None
    /\ want = svc
    /\ pc = [lb \in LBs |-> "idle"]
    /\ ret = [lb \in LBs |-> "err"]
    /\ todo = [lb \in LBs |-> {}]
    /\ seenAs = [lb \in LBs |-> [i \in Ids |-> "absent"]]
    /\ newToDestroy = [lb \in LBs |-> {}]
    /\ allowRetry = [lb \in LBs |-> TRUE]
    /\ toCreate = [lb \in LBs |-> {}]
    /\ cur = [lb \in LBs |-> None]
    /\ edits = 0
    /\ faults = 0

\* The steps of a reconciliation without an injected failure.
Step(lb) ==
    \/ List(lb)
    \/ \E i \in Ids : Get(lb, i) \/ GetGone(lb, i)
    \/ CheckFailed(lb) \/ CheckUpdating(lb) \/ CheckProgressing(lb)
    \/ CheckDestroy(lb) \/ CheckCreate(lb) \/ CheckComplete(lb)
    \/ \E i \in Ids : Update(lb, i)
    \/ \E i \in Ids : Destroy(lb, i) \/ DestroyNotFound(lb, i) \/ DestroyRefused(lb, i)
    \/ DestroyPassEnd(lb)
    \/ \E k \in toCreate[lb] : Create(lb, k) \/ CreateRefused(lb, k)
    \/ Tag(lb)
    \/ \E i \in Ids : PollReady(lb, i) \/ PollBroken(lb, i)
    \/ WaitDone(lb)

FaultyStep(lb) ==
    \/ ListFailed(lb)
    \/ \E i \in Ids : GetFailed(lb, i) \/ UpdateFailed(lb, i) \/ PollFailed(lb, i)
    \/ \E i \in Ids : DestroyFailed(lb, i) \/ DestroyLost(lb, i) \/ DestroyRateLimited(lb, i)
    \/ \E k \in toCreate[lb] : CreateFailed(lb, k) \/ CreateLost(lb, k)
    \/ TagFailed(lb) \/ TagLost(lb)
    \/ Timeout(lb)

Next ==
    \/ Start \/ Join \/ ChangeService \/ Crash \/ Rest
    \/ \E lb \in LBs : Step(lb) \/ FaultyStep(lb)
    \/ \E i \in Ids : SettleOk(i) \/ SettleError(i) \/ Removed(i)

Spec == Init /\ [][Next]_vars

(***************************************************************************)
(* The goroutines of a process keep running, the service controller calls  *)
(* again after an error and after a change, and the Engine deploys and     *)
(* removes what it was asked to.  Nothing is assumed about failures.       *)
(***************************************************************************)
Fairness ==
    /\ WF_vars(Start) /\ WF_vars(Join)
    /\ \A lb \in LBs : WF_vars(Step(lb))
    /\ \A i \in Ids : WF_vars(SettleOk(i)) /\ WF_vars(Removed(i))

FairSpec == Spec /\ Fairness

------------------------------------------------------------------------------
(***************************************************************************)
(* What the Engine should hold for the Service s on lb, said without       *)
(* reference to how the reconciliation computes it: per port a backend and *)
(* a frontend using it, a bind per address on that frontend, a server per  *)
(* node in that backend, nothing else; all deployed and none on its way    *)
(* out.                                                                    *)
(***************************************************************************)
PortProvisioned(lb, s, p) ==
    \E b, f \in Own(lb) :
        /\ key[b] = Backend(lb, p)
        /\ key[f] = Frontend(lb, p, b)
        /\ \A a \in s.externalAddresses : \E i \in Own(lb) :
               key[i] = Bind(lb, p, a, s.ports[p].External, f)
        /\ \A n \in s.targetServers : \E i \in Own(lb) :
               key[i] = Server(lb, p, n, s.ports[p].Internal, b)

Provisioned(lb, s) ==
    /\ \A p \in DOMAIN s.ports : PortProvisioned(lb, s, p)
    /\ Cardinality(Own(lb)) =
           Cardinality(DOMAIN s.ports) *
             (2 + Cardinality(s.externalAddresses) + Cardinality(s.targetServers))
    /\ \A i \in Own(lb) : state[i] = "ok" /\ i \notin deleting

\* Would a Service s use a resource with attributes k, whoever created it?
Uses(s, k) ==
    /\ k.port \in DOMAIN s.ports
    /\ k.kind = "bind" => k.at \in s.externalAddresses /\ k.num = s.ports[k.port].External
    /\ k.kind = "server" => k.at \in s.targetServers /\ k.num = s.ports[k.port].Internal

(***************************************************************************)
(* Reconcile without error means reconciliation is complete: when it       *)
(* returned nil for a LoadBalancer, the Engine holds exactly what the      *)
(* Service asked for there (doc of Reconciliation.Reconcile).              *)
(***************************************************************************)
NilMeansComplete ==
    \A lb \in LBs :
        pc[lb] = "returned" /\ ret[lb] = "nil" => Provisioned(lb, want)

(***************************************************************************)
(* No two resources tagged for the Service on one LoadBalancer have the    *)
(* same attributes.  compare.Reconcile takes any number of equal existing  *)
(* resources as a match, so a duplicate, once created by a reconciliation  *)
(* working on a stale or partial snapshot, would stay for good.            *)
(***************************************************************************)
NoDuplicates ==
    \A lb \in LBs : \A i, j \in Own(lb) : key[i] = key[j] => i = j

(***************************************************************************)
(* No two resources of the Service on one LoadBalancer have the same name, *)
(* and no two binds claim the same address and port, whatever the Service  *)
(* asked for before: "We might create resources clashing with others that  *)
(* are to be destroyed, hence only creating after there is nothing left to *)
(* destroy" (comment in Reconcile).                                        *)
(***************************************************************************)
\* The name of a bind has the family of its address, that of a server its node.
NamedAt(k) == IF k.kind = "bind" THEN FamilyOf[k.at] ELSE k.at

SameName(k, m) == k.kind = m.kind /\ k.port = m.port /\ NamedAt(k) = NamedAt(m)

SameSocket(k, m) ==
    k.kind = "bind" /\ m.kind = "bind" /\ k.at = m.at /\ k.num = m.num

NoClash ==
    \A lb \in LBs : \A i, j \in Own(lb) :
        SameName(key[i], key[j]) \/ SameSocket(key[i], key[j]) => i = j

(***************************************************************************)
(* A resource is destroyed, updated or tagged only by the reconciliation   *)
(* of its own LoadBalancer, and destroyed or updated only when tagged for  *)
(* this Service: what was listed for another LoadBalancer (Multi runs all  *)
(* with the same tag), and what other services own, is left alone.         *)
(***************************************************************************)
TouchesOnlyOwn ==
    \A i \in Ids :
        LET lb == key[i].lb
            destroyed == i \in deleting' /\ i \notin deleting
            updated == state'[i] = "updating" /\ state[i] # "updating"
            nowTagged == tag'[i] = "svc" /\ tag[i] # "svc"
        IN  /\ destroyed => lb \in LBs /\ tag[i] = "svc" /\ pc[lb] = "destroy"
            /\ updated => lb \in LBs /\ tag[i] = "svc" /\ pc[lb] = "update"
            /\ nowTagged => lb \in LBs /\ pc[lb] = "tag" /\ cur[lb] = i

OnlyOwnTouched == [][TouchesOnlyOwn]_vars

(***************************************************************************)
(* A resource whose deployment failed or is not finished is not destroyed: *)
(* it is reset to Updating instead, "without deleting their Engine object  *)
(* while leaving the corresponding HAProxy configuration behind" (comment  *)
(* of updateFailedResources).                                              *)
(***************************************************************************)
DestroyedWasDeployed ==
    \A i \in Ids : i \in deleting' /\ i \notin deleting => state[i] = "ok"

DestroysOnlyDeployed == [][DestroyedWasDeployed]_vars

(***************************************************************************)
(* Changing addresses and nodes of a Service does not interrupt what       *)
(* stays: no resource is destroyed that the Service being reconciled uses. *)
(***************************************************************************)
DestroysOnlyUnused ==
    [][\A i \in Ids : i \in deleting' /\ i \notin deleting => ~Uses(want, key[i])]_vars

\* Every call of Reconcile returns, so the manager's mutex is released.
Terminates == \A lb \in LBs : pc[lb] = "list" ~> pc[lb] = "returned"

\* In the end the Engine holds what the Service asks for, and keeps it.
Converges == <>[](\A lb \in LBs : Provisioned(lb, svc))

(***************************************************************************)
(* A resource of the Service whose deployment failed does not stay failed: *)
(* it is reset and deployed again, or destroyed.                           *)
(***************************************************************************)
FailedRecover ==
    \A i \in Ids : (state[i] = "error" /\ tag[i] = "svc") ~> (state[i] # "error")

(***************************************************************************)
(* "ErrResourcesNotDestroyable is returned when Reconcile tried to Destroy *)
(* a resource but Engine returned an error": a Reconcile that met such an  *)
(* error returns.                                                          *)
(***************************************************************************)
DestroyErrorsReturn ==
    \A lb \in LBs : newToDestroy[lb] # {} ~> pc[lb] = "returned"
=============================================================================
