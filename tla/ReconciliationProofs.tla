------------------------ MODULE ReconciliationProofs ------------------------
(***************************************************************************)
(* Proofs about Reconciliation for every value of its constants: type      *)
(* correctness, the inductive invariant of ReconciliationInv, and what     *)
(* follows from it.  The argument: a step of one reconciliation is one     *)
(* request, quiet for all the others (Quiet, Bystander); for the one that  *)
(* takes it, the invariant says what its snapshot is still good for.       *)
(***************************************************************************)
EXTENDS ReconciliationInv, TLAPS

\* What the parts of a Service are.
LEMMA SpecPorts ==
    ASSUME NEW s \in Specs
    PROVE  /\ DOMAIN s.ports \subseteq PortNames
           /\ \A p \in DOMAIN s.ports :
                 s.ports[p].External \in PortNums /\ s.ports[p].Internal \in PortNums
           /\ s.externalAddresses \subseteq Addrs
           /\ s.targetServers \subseteq Nodes
<1>1. s \in SpecType
    BY ReconciliationConstants
<1>2. PICK D \in SUBSET PortNames :
          s.ports \in [D -> [External : PortNums, Internal : PortNums]]
    BY <1>1 DEF SpecType
<1> QED
    BY <1>1, <1>2 DEF SpecType

\* The attributes the four steps build are attributes of resources.
LEMMA KeyOK ==
    ASSUME NEW lb \in LBs, NEW p \in PortNames
    PROVE  /\ Backend(lb, p) \in Keys
           /\ \A i \in Ids : Frontend(lb, p, i) \in Keys
           /\ \A i \in Ids, a \in Addrs, n \in PortNums : Bind(lb, p, a, n, i) \in Keys
           /\ \A i \in Ids, a \in Nodes, n \in PortNums : Server(lb, p, a, n, i) \in Keys
BY DEF Backend, Frontend, Bind, Server, Keys, Kinds

\* A backend in portBackends was retrieved: compare.Reconcile found it.
LEMMA PortBackends ==
    ASSUME NEW lb \in LBs, NEW p \in DOMAIN portBackends(lb)
    PROVE  /\ p \in Ports
           /\ portBackends(lb)[p] \in backends(lb)
           /\ portBackends(lb)[p] \in Ids
<1>1. /\ p \in Ports
      /\ Matched(targetBackends(lb), backends(lb))
      /\ portBackends(lb)[p] = CHOOSE i \in backends(lb) : key[i] = Backend(lb, p)
    BY DEF portBackends
<1>2. Backend(lb, p) \in targetBackends(lb)
    BY <1>1 DEF targetBackends
<1>3. \E i \in backends(lb) : key[i] = Backend(lb, p)
    BY <1>1, <1>2 DEF Matched, Missing
<1>4. portBackends(lb)[p] \in backends(lb)
    BY <1>1, <1>3
<1> QED
    BY <1>1, <1>4 DEF backends, Retrieved

\* The same for portFrontends.
LEMMA PortFrontends ==
    ASSUME NEW lb \in LBs, NEW p \in DOMAIN portFrontends(lb)
    PROVE  /\ p \in Ports
           /\ portFrontends(lb)[p] \in frontends(lb)
           /\ portFrontends(lb)[p] \in Ids
<1>1. /\ p \in DOMAIN portBackends(lb)
      /\ Matched(targetFrontends(lb), frontends(lb))
      /\ portFrontends(lb)[p] =
           CHOOSE i \in frontends(lb) : key[i] = Frontend(lb, p, portBackends(lb)[p])
    BY DEF portFrontends
<1>2. Frontend(lb, p, portBackends(lb)[p]) \in targetFrontends(lb)
    BY <1>1 DEF targetFrontends
<1>3. \E i \in frontends(lb) : key[i] = Frontend(lb, p, portBackends(lb)[p])
    BY <1>1, <1>2 DEF Matched, Missing
<1>4. portFrontends(lb)[p] \in frontends(lb)
    BY <1>1, <1>3
<1>5. p \in Ports
    BY <1>1, PortBackends
<1> QED
    BY <1>4, <1>5 DEF frontends, Retrieved

\* ReconcileCheck only plans resources of its own LoadBalancer.
LEMMA PlannedCreateOK ==
    ASSUME NEW lb \in LBs, want \in Specs, NEW k \in PlannedCreate(lb)
    PROVE  k \in Keys /\ k.lb = lb
<1> USE SpecPorts DEF Ports
<1>1. CASE k \in targetBackends(lb)
    BY <1>1, KeyOK DEF targetBackends, Backend
<1>2. CASE k \in targetFrontends(lb)
  <2>1. PICK p \in DOMAIN portBackends(lb) : k = Frontend(lb, p, portBackends(lb)[p])
    BY <1>2 DEF targetFrontends
  <2> QED
    BY <2>1, PortBackends, KeyOK DEF Frontend
<1>3. CASE k \in targetBinds(lb)
  <2>1. PICK a \in want.externalAddresses, p \in DOMAIN portFrontends(lb) :
            k = Bind(lb, p, a, want.ports[p].External, portFrontends(lb)[p])
    BY <1>3 DEF targetBinds
  <2> QED
    BY <2>1, PortFrontends, KeyOK DEF Bind
<1>4. CASE k \in targetServers(lb)
  <2>1. PICK n \in want.targetServers, p \in DOMAIN portBackends(lb) :
            k = Server(lb, p, n, want.ports[p].Internal, portBackends(lb)[p])
    BY <1>4 DEF targetServers
  <2> QED
    BY <2>1, PortBackends, KeyOK DEF Server
<1> QED
    BY <1>1, <1>2, <1>3, <1>4 DEF PlannedCreate, Missing

\* A new identifier is one not handed out before.
LEMMA NewIdOK ==
    ASSUME Unused # {}
    PROVE  NewId \in Ids /\ key[NewId] = NoKey
BY DEF Unused, NewId

\* Returning, going on and starting a loop keep the types of the loops.
LEMMA ReturnType ==
    ASSUME LoopsTypeOK, NEW lb \in LBs, NEW r \in {"nil", "err"}, Return(lb, r)
    PROVE  LoopsTypeOK'
BY DEF LoopsTypeOK, Return, ClearLoops, Locations

\* Going on with the loop of Reconcile.
LEMMA AgainType ==
    ASSUME LoopsTypeOK, NEW lb \in LBs, Again(lb)
    PROVE  LoopsTypeOK'
BY DEF LoopsTypeOK, Again, ClearLoops, Locations

\* Starting a loop over some resources.
LEMMA LoopType ==
    ASSUME LoopsTypeOK, NEW lb \in LBs, NEW l \in Locations \ {"tag"},
           NEW S \in SUBSET Ids, Loop(lb, l, S),
           allowRetry' \in [LBs -> BOOLEAN]
    PROVE  LoopsTypeOK'
BY DEF LoopsTypeOK, Loop, Locations

\* What ReconcileCheck picks was retrieved.
LEMMA PlanType ==
    ASSUME NEW lb \in LBs
    PROVE  /\ \A s : SeenAs(lb, s) \subseteq Existing(lb)
           /\ PlannedDestroy(lb) \subseteq Existing(lb)
           /\ Existing(lb) \subseteq Ids
BY DEF SeenAs, Existing, PlannedDestroy, Surplus, backends, frontends, filterBinds,
       filterServers, Retrieved

\* The controller's variables, in a step with and without a failure.
LEMMA FaultType ==
    ASSUME ServiceTypeOK, NEW k, Fault(k), UNCHANGED serviceVars
    PROVE  ServiceTypeOK'
BY ReconciliationConstants DEF ServiceTypeOK, Fault, serviceVars

\* Without a failure.
LEMMA NoFaultType ==
    ASSUME ServiceTypeOK, UNCHANGED <<serviceVars, faults>>
    PROVE  ServiceTypeOK'
BY DEF ServiceTypeOK, serviceVars

\* The Engine's variables, request by request.
LEMMA EngineUnchanged ==
    ASSUME EngineTypeOK, UNCHANGED engineVars
    PROVE  EngineTypeOK'
BY DEF EngineTypeOK, engineVars

\* A Create.
LEMMA EngineCreateType ==
    ASSUME EngineTypeOK, NEW k \in Keys, EngineCreate(k)
    PROVE  EngineTypeOK'
<1>1. NewId \in Ids
    BY NewIdOK DEF EngineCreate
<1> QED
    BY <1>1, EngineConstants DEF EngineTypeOK, EngineCreate, States

\* A tag.
LEMMA EngineTagType ==
    ASSUME EngineTypeOK, NEW i \in Ids, EngineTag(i)
    PROVE  EngineTypeOK'
BY DEF EngineTypeOK, EngineTag, Tags

\* An Update.
LEMMA EngineUpdateType ==
    ASSUME EngineTypeOK, NEW i \in Ids, EngineUpdate(i)
    PROVE  EngineTypeOK'
BY DEF EngineTypeOK, EngineUpdate, States

\* A Destroy.
LEMMA EngineDestroyType ==
    ASSUME EngineTypeOK, NEW i \in alive, EngineDestroy(i)
    PROVE  EngineTypeOK'
BY DEF EngineTypeOK, EngineDestroy

\* The Engine's own steps.
LEMMA EngineOwnStepsType ==
    ASSUME EngineTypeOK, NEW i \in Ids,
           Settle(i, "ok") \/ Settle(i, "error") \/ Remove(i)
    PROVE  EngineTypeOK'
BY DEF EngineTypeOK, Settle, Remove, States, Tags

\* Type correctness at the start.
LEMMA TypeInit == Init => TypeOK
BY EngineConstants, ReconciliationConstants, InitialIsForeign
   DEF Init, EngineInit, TypeOK, EngineTypeOK, ServiceTypeOK, LoopsTypeOK, States, Tags, Locations

\* Type correctness is kept by every step.
LEMMA TypeNext == TypeOK /\ [Next]_vars => TypeOK'
<1> SUFFICES ASSUME EngineTypeOK, ServiceTypeOK, LoopsTypeOK, [Next]_vars
             PROVE  EngineTypeOK' /\ ServiceTypeOK' /\ LoopsTypeOK'
    BY DEF TypeOK
<1> DEFINE Goal == EngineTypeOK' /\ ServiceTypeOK' /\ LoopsTypeOK'
<1> HIDE DEF Goal
<1>1. CASE Start
    BY <1>1, EngineUnchanged, NoFaultType
       DEF Goal, Start, loopVars, LoopsTypeOK, ServiceTypeOK, Locations
<1>2. CASE Join
    BY <1>2, EngineUnchanged DEF Goal, Join, loopVars, LoopsTypeOK, ServiceTypeOK, Locations
<1>3. CASE ChangeService
    BY <1>3, EngineUnchanged, ReconciliationConstants
       DEF Goal, ChangeService, reconVars, LoopsTypeOK, ServiceTypeOK
<1>4. CASE Crash
    BY <1>4, EngineUnchanged, ReconciliationConstants
       DEF Goal, Crash, Fault, LoopsTypeOK, ServiceTypeOK, Locations
<1>5. CASE Rest \/ UNCHANGED vars
    BY <1>5 DEF Goal, Rest, vars, EngineTypeOK, LoopsTypeOK, ServiceTypeOK
<1>6. ASSUME NEW lb \in LBs, Step(lb) PROVE Goal
  <2>1. CASE List(lb)
    <3>1. Tagged \in SUBSET Ids
      BY DEF Tagged, EngineTypeOK
    <3>2. allowRetry' \in [LBs -> BOOLEAN]
      BY <2>1 DEF List, LoopsTypeOK
    <3> QED
      BY <2>1, <3>1, <3>2, LoopType, EngineUnchanged, NoFaultType DEF Goal, List, Locations
  <2>2. ASSUME NEW i \in Ids, Get(lb, i) PROVE Goal
    BY <2>2, EngineUnchanged, NoFaultType DEF Goal, Get, Visited, LoopsTypeOK, EngineTypeOK
  <2>3. ASSUME NEW i \in Ids, GetGone(lb, i) PROVE Goal
    BY <2>3, EngineUnchanged, NoFaultType, ReturnType DEF Goal, GetGone
  <2>4. CASE CheckFailed(lb) \/ CheckProgressing(lb)
    <3>1. allowRetry' \in [LBs -> BOOLEAN]
      BY <2>4 DEF CheckFailed, CheckProgressing, LoopsTypeOK
    <3>2. SeenAs(lb, "error") \in SUBSET Ids /\ SeenAs(lb, "pending") \in SUBSET Ids
      BY PlanType
    <3>3. EngineTypeOK' /\ ServiceTypeOK'
      BY <2>4, EngineUnchanged, NoFaultType DEF CheckFailed, CheckProgressing
    <3>4. LoopsTypeOK'
      BY <2>4, <3>1, <3>2, LoopType DEF CheckFailed, CheckProgressing, Locations
    <3> QED
      BY <3>3, <3>4 DEF Goal
  <2>5. CASE CheckUpdating(lb) \/ CheckComplete(lb)
    BY <2>5, ReturnType, EngineUnchanged, NoFaultType DEF Goal, CheckUpdating, CheckComplete
  <2>6. CASE CheckDestroy(lb)
    <3>1. allowRetry' \in [LBs -> BOOLEAN]
      BY <2>6 DEF CheckDestroy, LoopsTypeOK
    <3> QED
      BY <2>6, <3>1, PlanType, LoopType, EngineUnchanged, NoFaultType
         DEF Goal, CheckDestroy, Locations
  <2>7. CASE CheckCreate(lb)
    <3>1. PlannedCreate(lb) \in SUBSET Keys
      BY PlannedCreateOK DEF LoopsTypeOK
    <3> QED
      BY <2>7, <3>1, EngineUnchanged, NoFaultType DEF Goal, CheckCreate, LoopsTypeOK, Locations
  <2>8. ASSUME NEW i \in Ids, Update(lb, i) PROVE Goal
    <3>1. EngineTypeOK' /\ ServiceTypeOK'
      BY <2>8, EngineUpdateType, NoFaultType DEF Update
    <3>2. LoopsTypeOK'
      BY <2>8, ReturnType DEF Update, Visited, LoopsTypeOK
    <3> QED
      BY <3>1, <3>2 DEF Goal
  <2>9. ASSUME NEW i \in Ids, Destroy(lb, i) PROVE Goal
    BY <2>9, EngineDestroyType, NoFaultType
       DEF Goal, Destroy, DestroyDone, Visited, LoopsTypeOK
  <2>10. ASSUME NEW i \in Ids, DestroyNotFound(lb, i) PROVE Goal
    BY <2>10, EngineUnchanged, NoFaultType
       DEF Goal, DestroyNotFound, DestroyDone, Visited, LoopsTypeOK
  <2>11. ASSUME NEW i \in Ids, DestroyRefused(lb, i) PROVE Goal
    BY <2>11, EngineUnchanged, NoFaultType
       DEF Goal, DestroyRefused, DestroyRetry, Visited, LoopsTypeOK
  <2>12. CASE DestroyPassEnd(lb)
    <3>1. EngineTypeOK' /\ ServiceTypeOK'
      BY <2>12, EngineUnchanged, NoFaultType DEF DestroyPassEnd
    <3>2. LoopsTypeOK'
      <4>1. CASE newToDestroy[lb] = {}
        BY <2>12, <4>1, AgainType DEF DestroyPassEnd
      <4>2. CASE newToDestroy[lb] # {} /\ ~allowRetry[lb]
        BY <2>12, <4>2, ReturnType DEF DestroyPassEnd
      <4>3. CASE newToDestroy[lb] # {} /\ allowRetry[lb]
        <5>1. /\ todo' = [todo EXCEPT ![lb] = newToDestroy[lb]]
              /\ newToDestroy' = [newToDestroy EXCEPT ![lb] = {}]
              /\ allowRetry' = [allowRetry EXCEPT ![lb] = FALSE]
              /\ UNCHANGED <<want, pc, ret, seenAs, toCreate, cur>>
          BY <2>12, <4>3, Zenon DEF DestroyPassEnd
        <5> QED
          BY <5>1 DEF LoopsTypeOK
      <4> QED
        BY <4>1, <4>2, <4>3
    <3> QED
      BY <3>1, <3>2 DEF Goal
  <2>13. ASSUME NEW k \in toCreate[lb], Create(lb, k) PROVE Goal
    <3>1. k \in Keys
      BY DEF LoopsTypeOK
    <3>2. NewId \in Ids
      BY <2>13, NewIdOK DEF Create, EngineCreate
    <3>3. EngineTypeOK' /\ ServiceTypeOK'
      BY <2>13, <3>1, EngineCreateType, NoFaultType DEF Create
    <3>4. LoopsTypeOK'
      BY <2>13, <3>2 DEF Create, LoopsTypeOK, Locations
    <3> QED
      BY <3>3, <3>4 DEF Goal
  <2>14. ASSUME NEW k \in toCreate[lb], CreateRefused(lb, k) PROVE Goal
    BY <2>14, EngineUnchanged, NoFaultType, ReturnType DEF Goal, CreateRefused
  <2>15. CASE Tag(lb)
    <3>1. cur[lb] \in Ids
      BY <2>15 DEF Tag, LoopsTypeOK
    <3>2. EngineTypeOK' /\ ServiceTypeOK'
      BY <2>15, <3>1, EngineTagType, NoFaultType DEF Tag
    <3>3. LoopsTypeOK'
      BY <2>15, <3>1 DEF Tag, LoopsTypeOK, Locations
    <3> QED
      BY <3>2, <3>3 DEF Goal
  <2>16. ASSUME NEW i \in Ids, PollReady(lb, i) PROVE Goal
    BY <2>16, EngineUnchanged, NoFaultType DEF Goal, PollReady, Visited, LoopsTypeOK
  <2>17. ASSUME NEW i \in Ids, PollBroken(lb, i) PROVE Goal
    BY <2>17, EngineUnchanged, NoFaultType, ReturnType, AgainType
       DEF Goal, PollBroken, AfterFailedWait
  <2>18. CASE WaitDone(lb)
    BY <2>18, EngineUnchanged, NoFaultType, ReturnType, AgainType DEF Goal, WaitDone, AfterWait
  <2> QED
    BY <1>6, <2>1, <2>2, <2>3, <2>4, <2>5, <2>6, <2>7, <2>8, <2>9, <2>10, <2>11, <2>12,
       <2>13, <2>14, <2>15, <2>16, <2>17, <2>18 DEF Step
<1>7. ASSUME NEW lb \in LBs, FaultyStep(lb) PROVE Goal
  <2>1. CASE ListFailed(lb) \/ TagFailed(lb) \/ Timeout(lb)
    BY <2>1, EngineUnchanged, FaultType, ReturnType DEF Goal, ListFailed, TagFailed, Timeout
  <2>2. ASSUME NEW i \in Ids, GetFailed(lb, i) \/ UpdateFailed(lb, i) PROVE Goal
    BY <2>2, EngineUnchanged, FaultType, ReturnType DEF Goal, GetFailed, UpdateFailed
  <2>3. ASSUME NEW i \in Ids, PollFailed(lb, i) PROVE Goal
    BY <2>3, EngineUnchanged, FaultType, ReturnType, AgainType
       DEF Goal, PollFailed, AfterFailedWait
  <2>4. ASSUME NEW i \in Ids, DestroyFailed(lb, i) PROVE Goal
    <3>1. EngineTypeOK' /\ ServiceTypeOK'
      BY <2>4, EngineUnchanged, FaultType DEF DestroyFailed, DestroyRetry
    <3> QED
      BY <2>4, <3>1 DEF Goal, DestroyFailed, DestroyRetry, Visited, LoopsTypeOK
  <2>5. ASSUME NEW i \in Ids, DestroyLost(lb, i) PROVE Goal
    <3>1. EngineTypeOK' /\ ServiceTypeOK'
      BY <2>5, EngineDestroyType, FaultType DEF DestroyLost, DestroyRetry
    <3> QED
      BY <2>5, <3>1 DEF Goal, DestroyLost, DestroyRetry, Visited, LoopsTypeOK
  <2>6. ASSUME NEW i \in Ids, DestroyRateLimited(lb, i) PROVE Goal
    BY <2>6, EngineUnchanged, FaultType, ReturnType, AgainType DEF Goal, DestroyRateLimited
  <2>7. ASSUME NEW k \in toCreate[lb], CreateFailed(lb, k) PROVE Goal
    BY <2>7, EngineUnchanged, FaultType, ReturnType DEF Goal, CreateFailed
  <2>8. ASSUME NEW k \in toCreate[lb], CreateLost(lb, k) PROVE Goal
    <3>1. k \in Keys
      BY DEF LoopsTypeOK
    <3> QED
      BY <2>8, <3>1, EngineCreateType, FaultType, ReturnType DEF Goal, CreateLost
  <2>9. CASE TagLost(lb)
    <3>1. cur[lb] \in Ids
      BY <2>9 DEF TagLost, LoopsTypeOK
    <3> QED
      BY <2>9, <3>1, EngineTagType, FaultType, ReturnType DEF Goal, TagLost
  <2> QED
    BY <1>7, <2>1, <2>2, <2>3, <2>4, <2>5, <2>6, <2>7, <2>8, <2>9 DEF FaultyStep
<1>8. ASSUME NEW i \in Ids, SettleOk(i) \/ SettleError(i) \/ Removed(i) PROVE Goal
  <2>1. EngineTypeOK'
    BY <1>8, EngineOwnStepsType DEF SettleOk, SettleError, Removed
  <2>2. ServiceTypeOK'
    BY <1>8, FaultType, NoFaultType DEF SettleOk, SettleError, Removed
  <2>3. LoopsTypeOK'
    BY <1>8 DEF SettleOk, SettleError, Removed, reconVars, LoopsTypeOK
  <2> QED
    BY <2>1, <2>2, <2>3 DEF Goal
<1> QED
  BY <1>1, <1>2, <1>3, <1>4, <1>5, <1>6, <1>7, <1>8 DEF Next, Goal

(***************************************************************************)
(* Type correctness, for every set of load balancers, Services and         *)
(* failures: in particular the create loop of Reconcile only asks for well *)
(* formed resources, those of the four steps of ReconcileCheck, and        *)
(* tagResource always has an identifier to tag.                            *)
(***************************************************************************)
THEOREM TypeCorrect == Spec => []TypeOK
BY TypeInit, TypeNext, PTL DEF Spec

------------------------------------------------------------------------------
\* What a step of the Engine means for a reconciliation that does not take part
\* in it: it finds what it knew, possibly less, and nothing new of its own.
Quiet(lb) ==
    /\ \A i \in Ids : key[i] # NoKey => key'[i] = key[i]
    /\ \A i \in Ids : key[i] # NoKey /\ i \in alive' =>
         i \in alive /\ (tag[i] = "svc" => tag'[i] = "svc")
    /\ Own(lb)' \subseteq Own(lb)
    /\ \A i \in alive' : key[i] # NoKey /\ key[i].lb = lb /\ state[i] = "ok" =>
         state'[i] = "ok"
    /\ \A i \in alive' : key[i] = NoKey => key'[i] # NoKey

\* Its own variables keep their values.
Apart(lb) ==
    /\ pc'[lb] = pc[lb]
    /\ todo'[lb] = todo[lb]
    /\ seenAs'[lb] = seenAs[lb]
    /\ newToDestroy'[lb] = newToDestroy[lb]
    /\ toCreate'[lb] = toCreate[lb]
    /\ cur'[lb] = cur[lb]

\* A reconciliation that takes no part in a step keeps its invariant.
LEMMA Bystander ==
    ASSUME TypeOK, TypeOK', NEW lb \in LBs, LoopInv(lb), Quiet(lb), Apart(lb)
    PROVE  LoopInv(lb)'
<1> USE DEF TypeOK, LoopsTypeOK, EngineTypeOK
<1>0. \A i \in Own(lb)' : i \in Own(lb) /\ i \in Ids /\ key'[i] = key[i]
    BY DEF Quiet, Own
<1>k. \A k \in Keys : RefOK(k, lb) => RefOK(k, lb)'
    BY DEF RefOK, Quiet, Keys
<1>1. SnapshotInv(lb)'
  <2> SUFFICES ASSUME pc[lb] = "get" PROVE SnapshotInv(lb)'
    BY DEF SnapshotInv, Apart
  <2>1. \A i \in Ids : i \in todo[lb] \/ seenAs[lb][i] # "absent" =>
             key[i] # NoKey /\ (i \in alive => tag[i] = "svc")
    BY DEF LoopInv, SnapshotInv
  <2>2. \A i \in Own(lb) : i \in todo[lb] \/ seenAs[lb][i] # "absent"
    BY DEF LoopInv, SnapshotInv
  <2>3. \A i \in alive : seenAs[lb][i] = "ok" /\ key[i].lb = lb => state[i] = "ok"
    BY DEF LoopInv, SnapshotInv
  <2>4. (\A i \in Ids : i \in todo[lb] \/ seenAs[lb][i] # "absent" =>
             key[i] # NoKey /\ (i \in alive => tag[i] = "svc"))'
    BY <2>1, EngineConstants DEF Quiet, Apart
  <2>5. (\A i \in Own(lb) : i \in todo[lb] \/ seenAs[lb][i] # "absent")'
    BY <2>2, <1>0 DEF Apart
  <2>6. (\A i \in alive : seenAs[lb][i] = "ok" /\ key[i].lb = lb => state[i] = "ok")'
    BY <2>1, <2>3 DEF Quiet, Apart
  <2> QED
    BY <2>4, <2>5, <2>6 DEF SnapshotInv
<1>2. WorkInv(lb)'
    BY DEF LoopInv, WorkInv, Quiet, Apart
<1>3. CreateInv(lb)'
  <2> SUFFICES ASSUME pc[lb] \in {"create", "tag"}, NEW k \in toCreate[lb]
               PROVE  k.lb = lb /\ RefOK(k, lb)' /\ \A i \in Own(lb)' : key'[i] # k
    BY DEF CreateInv, Apart
  <2> QED
    BY <1>0, <1>k DEF LoopInv, CreateInv
<1>4. CurInv(lb)'
    BY <1>0 DEF LoopInv, CurInv, Quiet, Apart
<1> QED
    BY <1>1, <1>2, <1>3, <1>4 DEF LoopInv

\* Which steps of the Engine are quiet: no step.
LEMMA QuietUnchanged ==
    ASSUME TypeOK, UNCHANGED engineVars, NEW lb \in LBs
    PROVE  Quiet(lb)
BY DEF Quiet, engineVars, Own, TypeOK, EngineTypeOK

\* A Create: the new resource has no tag yet.
LEMMA QuietCreate ==
    ASSUME TypeOK, UnusedUntagged, NEW k \in Keys, EngineCreate(k), NEW lb \in LBs
    PROVE  Quiet(lb) /\ key'[NewId] = k
<1>1. NewId \in Ids /\ key[NewId] = NoKey /\ tag[NewId] = "none"
    BY NewIdOK DEF EngineCreate, UnusedUntagged
<1> QED
    BY <1>1, EngineConstants DEF Quiet, EngineCreate, Own, TypeOK, EngineTypeOK

\* A tag on a resource of another LoadBalancer.
LEMMA QuietTag ==
    ASSUME TypeOK, NEW i \in Ids, EngineTag(i), NEW lb \in LBs,
           key[i] # NoKey, key[i].lb # lb
    PROVE  Quiet(lb)
BY DEF Quiet, EngineTag, Own, TypeOK, EngineTypeOK

\* An Update of a resource of another LoadBalancer.
LEMMA QuietUpdate ==
    ASSUME TypeOK, NEW i \in Ids, EngineUpdate(i), NEW lb \in LBs,
           key[i] # NoKey, key[i].lb # lb
    PROVE  Quiet(lb)
BY DEF Quiet, EngineUpdate, Own, TypeOK, EngineTypeOK

\* A Destroy: the resource stays visible.
LEMMA QuietDestroy ==
    ASSUME TypeOK, NEW i \in Ids, EngineDestroy(i), NEW lb \in LBs
    PROVE  Quiet(lb)
BY DEF Quiet, EngineDestroy, Own, TypeOK, EngineTypeOK

\* Deploying and removing.
LEMMA QuietOwnSteps ==
    ASSUME TypeOK, NEW i \in Ids, NEW s \in States, Settle(i, s) \/ Remove(i), NEW lb \in LBs
    PROVE  Quiet(lb)
BY DEF Quiet, Settle, Remove, Own, TypeOK, EngineTypeOK

\* The store: only Create and Tag can disturb it.
LEMMA StoreKept ==
    ASSUME TypeOK, StoreInv, UNCHANGED key,
           \A lb \in LBs : Own(lb)' \subseteq Own(lb),
           \A i \in Ids : key[i] = NoKey => tag'[i] = tag[i]
    PROVE  StoreInv'
<1>1. UnusedUntagged'
    BY DEF StoreInv, UnusedUntagged
<1>2. RefsStayOnLB'
    BY DEF StoreInv, RefsStayOnLB, RefOK
<1>3. NoDuplicates'
    BY DEF StoreInv, NoDuplicates
<1> QED
    BY <1>1, <1>2, <1>3 DEF StoreInv

\* A Create of what the create loop has planned.
LEMMA StoreCreate ==
    ASSUME TypeOK, StoreInv, NEW lb \in LBs, NEW k \in Keys, EngineCreate(k),
           k.lb = lb, RefOK(k, lb)
    PROVE  StoreInv'
<1> USE DEF TypeOK, EngineTypeOK
<1>1. NewId \in Ids /\ key[NewId] = NoKey /\ tag[NewId] = "none"
    BY NewIdOK DEF EngineCreate, StoreInv, UnusedUntagged
<1>2. key' = [key EXCEPT ![NewId] = k] /\ tag' = tag
    BY DEF EngineCreate
<1>3. UnusedUntagged'
    BY <1>1, <1>2, EngineConstants DEF StoreInv, UnusedUntagged
<1>4. RefsStayOnLB'
  <2> SUFFICES ASSUME NEW i \in Ids, key'[i] # NoKey, key'[i].ref # None
               PROVE  /\ key'[key'[i].ref] # NoKey
                      /\ key'[key'[i].ref].lb = key'[i].lb
    BY DEF RefsStayOnLB, RefOK
  <2>1. CASE i = NewId
    BY <1>1, <1>2, <2>1 DEF RefOK, Keys
  <2>2. CASE i # NewId
    <3>1. key'[i] = key[i] /\ key[i] \in Keys
      BY <1>1, <1>2, <2>2
    <3>2. key[key[i].ref] # NoKey /\ key[key[i].ref].lb = key[i].lb /\ key[i].ref \in Ids
      BY <3>1 DEF StoreInv, RefsStayOnLB, RefOK, Keys
    <3> QED
      BY <1>1, <1>2, <3>1, <3>2
  <2> QED
    BY <2>1, <2>2
<1>5. NoDuplicates'
  <2> SUFFICES ASSUME NEW l \in LBs, NEW i \in Own(l)', NEW j \in Own(l)', key'[i] = key'[j]
               PROVE  i = j
    BY DEF NoDuplicates
  <2>1. Quiet(l)
    BY QuietCreate DEF StoreInv
  <2>2. i \in Own(l) /\ j \in Own(l) /\ key'[i] = key[i] /\ key'[j] = key[j]
    BY <2>1 DEF Quiet, Own
  <2> QED
    BY <2>2 DEF StoreInv, NoDuplicates
<1> QED
    BY <1>3, <1>4, <1>5 DEF StoreInv

\* Tagging the resource just created.
LEMMA StoreTag ==
    ASSUME TypeOK, StoreInv, NEW lb \in LBs, pc[lb] = "tag", CurInv(lb), EngineTag(cur[lb])
    PROVE  StoreInv'
<1> DEFINE c == cur[lb]
<1> USE DEF TypeOK, EngineTypeOK, LoopsTypeOK
<1>1. c \in Ids /\ key[c] # NoKey /\ key[c].lb = lb
    BY DEF CurInv
<1>2. UnusedUntagged'
    BY <1>1 DEF StoreInv, UnusedUntagged, EngineTag
<1>3. RefsStayOnLB'
    BY DEF StoreInv, RefsStayOnLB, RefOK, EngineTag
<1>4. NoDuplicates'
  <2> SUFFICES ASSUME NEW l \in LBs, NEW i \in Own(l)', NEW j \in Own(l)', key'[i] = key'[j]
               PROVE  i = j
    BY DEF NoDuplicates
  <2>1. \A x \in Own(l)' : x \in Own(l) \/ (x = c /\ l = lb)
    BY <1>1 DEF Own, EngineTag
  <2>2. key' = key
    BY DEF EngineTag
  <2> QED
    BY <2>1, <2>2, <1>1 DEF StoreInv, NoDuplicates, CurInv
<1> QED
    BY <1>2, <1>3, <1>4 DEF StoreInv

------------------------------------------------------------------------------
\* How a step of one reconciliation is put together with the others.

\* A step of lb that is quiet for the others.
LEMMA Combine ==
    ASSUME Inv, TypeOK', StoreInv', NEW lb \in LBs, LoopInv(lb)',
           \A l \in LBs \ {lb} : Quiet(l) /\ Apart(l)
    PROVE  Inv'
<1>1. ASSUME NEW l \in LBs \ {lb} PROVE LoopInv(l)'
    BY Bystander DEF Inv
<1> QED
    BY <1>1 DEF Inv

\* A step of lb without an effect on the Engine.
LEMMA CombineLocal ==
    ASSUME Inv, TypeOK', UNCHANGED engineVars, NEW lb \in LBs, LoopInv(lb)',
           \A l \in LBs \ {lb} : Apart(l)
    PROVE  Inv'
<1>1. \A l \in LBs : Quiet(l)
    BY QuietUnchanged DEF Inv
<1>2. StoreInv'
    BY <1>1, StoreKept DEF Inv, Quiet, engineVars
<1> QED
    BY <1>1, <1>2, Combine

\* Returning and going on reset the loops.
LEMMA LeaveInv ==
    ASSUME TypeOK, NEW lb \in LBs, NEW r \in {"nil", "err"}, Return(lb, r) \/ Again(lb)
    PROVE  LoopInv(lb)' /\ \A l \in LBs \ {lb} : Apart(l)
<1> USE DEF TypeOK, LoopsTypeOK
<1>1. /\ pc'[lb] \in {"list", "returned"}
      /\ newToDestroy'[lb] = {}
    BY DEF Return, Again, ClearLoops
<1>2. LoopInv(lb)'
    BY <1>1 DEF LoopInv, SnapshotInv, WorkInv, CreateInv, CurInv
<1>3. \A l \in LBs \ {lb} : Apart(l)
    BY DEF Return, Again, ClearLoops, Apart
<1> QED
    BY <1>2, <1>3

\* Returning or going on without an effect on the Engine.
LEMMA CombineLeave ==
    ASSUME Inv, TypeOK', UNCHANGED engineVars, NEW lb \in LBs, NEW r \in {"nil", "err"},
           Return(lb, r) \/ Again(lb)
    PROVE  Inv'
BY LeaveInv, CombineLocal DEF Inv

\* What was retrieved for this LoadBalancer is on it and has our tag.
LEMMA ExistingOwn ==
    ASSUME TypeOK, StoreInv, NEW lb \in LBs, SnapshotInv(lb), pc[lb] = "get",
           NEW i \in Existing(lb)
    PROVE  /\ i \in Ids
           /\ seenAs[lb][i] # "absent"
           /\ key[i] # NoKey
           /\ key[i].lb = lb
           /\ i \in alive => tag[i] = "svc"
<1> USE DEF TypeOK, EngineTypeOK, LoopsTypeOK
<1>1. i \in Ids /\ seenAs[lb][i] # "absent"
    BY DEF Existing, backends, frontends, filterBinds, filterServers, Retrieved
<1>2. key[i] # NoKey /\ (i \in alive => tag[i] = "svc")
    BY <1>1 DEF SnapshotInv
<1>3. CASE i \in backends(lb) \cup frontends(lb)
    BY <1>1, <1>2, <1>3 DEF backends, frontends
<1>4. CASE i \in filterBinds(lb) \cup filterServers(lb)
  <2>1. key[i].ref \in Ids /\ key[key[i].ref].lb = lb
    BY <1>4 DEF filterBinds, filterServers, frontends, backends, Retrieved
  <2>2. key[i].ref # None
    BY <2>1, EngineConstants
  <2>3. key[key[i].ref].lb = key[i].lb
    BY <1>1, <1>2, <2>2 DEF StoreInv, RefsStayOnLB, RefOK
  <2> QED
    BY <1>1, <1>2, <2>1, <2>3
<1> QED
    BY <1>3, <1>4 DEF Existing

\* What a plan wants to create is not there, and refers to what is.
LEMMA PlannedCreateNew ==
    ASSUME TypeOK, StoreInv, NEW lb \in LBs, SnapshotInv(lb), AllRetrieved(lb),
           NEW k \in PlannedCreate(lb)
    PROVE  RefOK(k, lb) /\ \A i \in Own(lb) : key[i] # k
<1> USE DEF TypeOK, EngineTypeOK, LoopsTypeOK
<1>1. \A i \in Own(lb) : i \in Ids /\ seenAs[lb][i] # "absent" /\ key[i].lb = lb
    BY DEF AllRetrieved, SnapshotInv, Own
<1>2. \A b \in backends(lb) \cup frontends(lb) :
          b \in Ids /\ key[b] # NoKey /\ key[b].lb = lb
    BY ExistingOwn DEF AllRetrieved, Existing
<1>3. CASE k \in targetBackends(lb) /\ k \in Missing(targetBackends(lb), backends(lb))
  <2>1. k.kind = "backend" /\ k.ref = None
    BY <1>3 DEF targetBackends, Backend
  <2>2. ASSUME NEW i \in Own(lb), key[i] = k PROVE FALSE
    BY <1>1, <1>3, <2>1, <2>2 DEF Missing, backends, Retrieved
  <2> QED
    BY <2>1, <2>2 DEF RefOK
<1>4. CASE k \in targetFrontends(lb) /\ k \in Missing(targetFrontends(lb), frontends(lb))
  <2>1. PICK p \in DOMAIN portBackends(lb) : k = Frontend(lb, p, portBackends(lb)[p])
    BY <1>4 DEF targetFrontends
  <2>2. k.kind = "frontend" /\ k.ref \in backends(lb)
    BY <2>1, PortBackends DEF Frontend
  <2>3. ASSUME NEW i \in Own(lb), key[i] = k PROVE FALSE
    BY <1>1, <1>4, <2>2, <2>3 DEF Missing, frontends, Retrieved
  <2> QED
    BY <1>2, <2>2, <2>3 DEF RefOK
<1>5. CASE k \in targetBinds(lb) /\ k \in Missing(targetBinds(lb), filterBinds(lb))
  <2>1. PICK a \in want.externalAddresses, p \in DOMAIN portFrontends(lb) :
            k = Bind(lb, p, a, want.ports[p].External, portFrontends(lb)[p])
    BY <1>5 DEF targetBinds
  <2>2. k.kind = "bind" /\ k.ref \in frontends(lb)
    BY <2>1, PortFrontends DEF Bind
  <2>3. ASSUME NEW i \in Own(lb), key[i] = k PROVE FALSE
    BY <1>1, <1>5, <2>2, <2>3 DEF Missing, filterBinds, Retrieved
  <2> QED
    BY <1>2, <2>2, <2>3 DEF RefOK
<1>6. CASE k \in targetServers(lb) /\ k \in Missing(targetServers(lb), filterServers(lb))
  <2>1. PICK n \in want.targetServers, p \in DOMAIN portBackends(lb) :
            k = Server(lb, p, n, want.ports[p].Internal, portBackends(lb)[p])
    BY <1>6 DEF targetServers
  <2>2. k.kind = "server" /\ k.ref \in backends(lb)
    BY <2>1, PortBackends DEF Server
  <2>3. ASSUME NEW i \in Own(lb), key[i] = k PROVE FALSE
    BY <1>1, <1>6, <2>2, <2>3 DEF Missing, filterServers, Retrieved
  <2> QED
    BY <1>2, <2>2, <2>3 DEF RefOK
<1> QED
    BY <1>3, <1>4, <1>5, <1>6 DEF PlannedCreate, Missing

------------------------------------------------------------------------------
\* The invariant at the start: nothing is ours yet.
LEMMA InvInit == Init => Inv
<1> SUFFICES ASSUME Init PROVE Inv
    OBVIOUS
<1>1. TypeOK
    BY TypeInit
<1>2. \A lb \in LBs : Own(lb) = {}
    BY EngineConstants, InitialIsForeign DEF Init, EngineInit, Own
<1>3. StoreInv
    BY <1>2, InitialIsForeign
       DEF Init, EngineInit, StoreInv, UnusedUntagged, RefsStayOnLB, RefOK, NoDuplicates
<1>4. \A lb \in LBs : LoopInv(lb)
    BY DEF Init, LoopInv, SnapshotInv, WorkInv, CreateInv, CurInv
<1> QED
    BY <1>1, <1>3, <1>4 DEF Inv

\* One step of a reconciliation keeps the invariant.
LEMMA InvStep ==
    ASSUME Inv, TypeOK', NEW lb \in LBs, Step(lb)
    PROVE  Inv'
<1> USE DEF TypeOK, LoopsTypeOK, EngineTypeOK
<1>0. TypeOK /\ StoreInv /\ LoopInv(lb) /\ SnapshotInv(lb) /\ WorkInv(lb) /\ CreateInv(lb) /\ CurInv(lb)
    BY DEF Inv, LoopInv
<1>1. CASE List(lb)
  <2>1. \A l \in LBs \ {lb} : Apart(l)
    BY <1>1 DEF List, Loop, Apart
  <2>2. /\ pc'[lb] = "get" /\ todo'[lb] = Tagged /\ newToDestroy'[lb] = newToDestroy[lb]
        /\ \A i \in Ids : seenAs'[lb][i] = "absent"
        /\ pc[lb] = "list"
    BY <1>1 DEF List, Loop
  <2>3. SnapshotInv(lb)'
    BY <1>1, <2>2 DEF SnapshotInv, Tagged, Own, List, engineVars
  <2>4. LoopInv(lb)'
    BY <1>0, <2>2, <2>3 DEF LoopInv, WorkInv, CreateInv, CurInv
  <2> QED
    BY <1>1, <2>1, <2>4, CombineLocal DEF List
<1>2. ASSUME NEW i \in Ids, Get(lb, i) PROVE Inv'
  <2>1. \A l \in LBs \ {lb} : Apart(l)
    BY <1>2 DEF Get, Visited, Apart
  <2>2. /\ pc[lb] = "get" /\ pc'[lb] = "get" /\ todo'[lb] = todo[lb] \ {i}
        /\ newToDestroy'[lb] = newToDestroy[lb]
        /\ seenAs'[lb] = [seenAs[lb] EXCEPT ![i] = state[i]]
        /\ state[i] # "absent" /\ i \in todo[lb] /\ i \in alive
        /\ UNCHANGED <<key, alive, state, tag>>
    BY <1>2 DEF Get, Visited, States, engineVars
  <2>3. SnapshotInv(lb)'
    <3>1. (\A j \in Ids : j \in todo[lb] \/ seenAs[lb][j] # "absent" =>
               key[j] # NoKey /\ (j \in alive => tag[j] = "svc"))'
      BY <1>0, <2>2 DEF SnapshotInv
    <3>2. (\A j \in Own(lb) : j \in todo[lb] \/ seenAs[lb][j] # "absent")'
      BY <1>0, <2>2 DEF SnapshotInv, Own
    <3>3. (\A j \in alive : seenAs[lb][j] = "ok" /\ key[j].lb = lb => state[j] = "ok")'
      BY <1>0, <2>2 DEF SnapshotInv
    <3> QED
      BY <3>1, <3>2, <3>3 DEF SnapshotInv
  <2>4. LoopInv(lb)'
    BY <1>0, <2>2, <2>3 DEF LoopInv, WorkInv, CreateInv, CurInv
  <2> QED
    BY <1>2, <2>1, <2>4, CombineLocal DEF Get
<1>3. ASSUME NEW i \in Ids, GetGone(lb, i) PROVE Inv'
    BY <1>3, CombineLeave DEF GetGone
<1>4. CASE CheckFailed(lb) \/ CheckProgressing(lb)
  <2>1. \A l \in LBs \ {lb} : Apart(l)
    BY <1>4 DEF CheckFailed, CheckProgressing, Loop, Apart
  <2>2. /\ pc[lb] = "get" /\ pc'[lb] \in {"update", "waitExisting"}
        /\ todo'[lb] \subseteq Existing(lb)
        /\ newToDestroy'[lb] = newToDestroy[lb]
        /\ UNCHANGED <<key, alive, state, tag>>
    BY <1>4 DEF CheckFailed, CheckProgressing, Loop, AllRetrieved, SeenAs, engineVars
  <2>3. \A i \in todo'[lb] : key[i] # NoKey /\ key[i].lb = lb /\ (i \in alive => tag[i] = "svc")
    BY <1>0, <2>2, ExistingOwn
  <2>4. LoopInv(lb)'
    BY <1>0, <2>2, <2>3 DEF LoopInv, SnapshotInv, WorkInv, CreateInv, CurInv
  <2> QED
    BY <1>4, <2>1, <2>4, CombineLocal DEF CheckFailed, CheckProgressing
<1>5. CASE CheckUpdating(lb) \/ CheckComplete(lb)
    BY <1>5, CombineLeave DEF CheckUpdating, CheckComplete
<1>6. CASE CheckDestroy(lb)
  <2>1. \A l \in LBs \ {lb} : Apart(l)
    BY <1>6 DEF CheckDestroy, Loop, Apart
  <2>2. /\ pc[lb] = "get" /\ pc'[lb] = "destroy"
        /\ todo'[lb] = PlannedDestroy(lb)
        /\ newToDestroy'[lb] = newToDestroy[lb]
        /\ \A i \in Existing(lb) : seenAs[lb][i] = "ok"
        /\ UNCHANGED <<key, alive, state, tag>>
    BY <1>6 DEF CheckDestroy, Loop, Settled, AllRetrieved, engineVars
  <2>3. \A i \in PlannedDestroy(lb) :
            /\ key[i] # NoKey /\ key[i].lb = lb
            /\ i \in alive => tag[i] = "svc" /\ state[i] = "ok"
    <3> SUFFICES ASSUME NEW i \in PlannedDestroy(lb)
                 PROVE  /\ key[i] # NoKey /\ key[i].lb = lb
                        /\ i \in alive => tag[i] = "svc" /\ state[i] = "ok"
      OBVIOUS
    <3>1. i \in Existing(lb)
      BY PlanType
    <3>2. key[i] # NoKey /\ key[i].lb = lb /\ (i \in alive => tag[i] = "svc")
      BY <1>0, <2>2, <3>1, ExistingOwn
    <3> QED
      BY <1>0, <2>2, <3>1, <3>2 DEF SnapshotInv
  <2>4. LoopInv(lb)'
    BY <1>0, <2>2, <2>3 DEF LoopInv, SnapshotInv, WorkInv, CreateInv, CurInv
  <2> QED
    BY <1>6, <2>1, <2>4, CombineLocal DEF CheckDestroy
<1>7. CASE CheckCreate(lb)
  <2>1. \A l \in LBs \ {lb} : Apart(l)
    BY <1>7 DEF CheckCreate, Apart
  <2>2. /\ AllRetrieved(lb) /\ pc[lb] = "get" /\ pc'[lb] = "create"
        /\ toCreate'[lb] = PlannedCreate(lb)
        /\ newToDestroy'[lb] = newToDestroy[lb]
        /\ UNCHANGED <<key, alive, state, tag>>
    BY <1>7 DEF CheckCreate, Settled, AllRetrieved, engineVars
  <2>3. CreateInv(lb)'
    <3> SUFFICES ASSUME NEW k \in PlannedCreate(lb)
                 PROVE  k.lb = lb /\ RefOK(k, lb)' /\ \A i \in Own(lb)' : key'[i] # k
      BY <2>2 DEF CreateInv
    <3>1. Own(lb)' = Own(lb)
      BY <2>2 DEF Own
    <3>2. RefOK(k, lb) /\ \A i \in Own(lb) : key[i] # k
      BY <1>0, <2>2, PlannedCreateNew
    <3>3. k.lb = lb
      BY <1>0, PlannedCreateOK
    <3> QED
      BY <2>2, <3>1, <3>2, <3>3 DEF RefOK
  <2>4. LoopInv(lb)'
    BY <1>0, <2>2, <2>3 DEF LoopInv, SnapshotInv, WorkInv, CurInv
  <2> QED
    BY <1>7, <2>1, <2>4, CombineLocal DEF CheckCreate
<1>8. ASSUME NEW i \in Ids, Update(lb, i) PROVE Inv'
  <2>1. i \in todo[lb] /\ pc[lb] = "update" /\ EngineUpdate(i)
    BY <1>8 DEF Update, FirstOf
  <2>2. key[i] # NoKey /\ key[i].lb = lb
    BY <1>0, <2>1 DEF WorkInv
  <2>3. \A l \in LBs \ {lb} : Quiet(l)
    BY <1>0, <2>1, <2>2, QuietUpdate
  <2>4. StoreInv'
    <3>1. \A l \in LBs : Own(l)' = Own(l)
      BY <2>1 DEF EngineUpdate, Own
    <3> QED
      BY <1>0, <2>1, <3>1, StoreKept DEF EngineUpdate
  <2>5. CASE todo[lb] = {i}
    <3>1. Return(lb, "err")
      BY <1>8, <2>5 DEF Update
    <3> QED
      BY <1>0, <2>3, <2>4, <3>1, LeaveInv, Combine
  <2>6. CASE todo[lb] # {i}
    <3>1. \A l \in LBs \ {lb} : Apart(l)
      BY <1>8, <2>6 DEF Update, Visited, Apart
    <3>2. /\ pc'[lb] = "update" /\ todo'[lb] \subseteq todo[lb]
          /\ newToDestroy'[lb] = newToDestroy[lb]
          /\ UNCHANGED <<key, alive, tag>>
      BY <1>8, <2>6 DEF Update, Visited, EngineUpdate
    <3>3. LoopInv(lb)'
      BY <1>0, <2>1, <3>2 DEF LoopInv, SnapshotInv, WorkInv, CreateInv, CurInv
    <3> QED
      BY <2>3, <2>4, <3>1, <3>3, Combine
  <2> QED
    BY <2>5, <2>6
<1>9. ASSUME NEW i \in Ids, Destroy(lb, i) PROVE Inv'
  <2>1. EngineDestroy(i) /\ pc[lb] = "destroy"
    BY <1>9 DEF Destroy, DestroyNext
  <2>2. \A l \in LBs \ {lb} : Quiet(l) /\ Apart(l)
    BY <1>0, <1>9, <2>1, QuietDestroy DEF Destroy, DestroyDone, Visited, Apart
  <2>3. StoreInv'
    <3>1. \A l \in LBs : Own(l)' = Own(l)
      BY <2>1 DEF EngineDestroy, Own
    <3> QED
      BY <1>0, <2>1, <3>1, StoreKept DEF EngineDestroy
  <2>4. /\ pc'[lb] = "destroy" /\ todo'[lb] \subseteq todo[lb]
        /\ newToDestroy'[lb] = newToDestroy[lb]
        /\ UNCHANGED <<key, alive, tag, state>>
    BY <1>9, <2>1 DEF Destroy, DestroyDone, Visited, EngineDestroy
  <2>5. LoopInv(lb)'
    BY <1>0, <2>1, <2>4 DEF LoopInv, SnapshotInv, WorkInv, CreateInv, CurInv
  <2> QED
    BY <2>2, <2>3, <2>5, Combine
<1>10. ASSUME NEW i \in Ids, DestroyNotFound(lb, i) \/ DestroyRefused(lb, i) PROVE Inv'
  <2>1. i \in todo[lb] /\ pc[lb] = "destroy" /\ UNCHANGED engineVars
    BY <1>10 DEF DestroyNotFound, DestroyRefused, DestroyNext, FirstOf
  <2>2. \A l \in LBs \ {lb} : Apart(l)
    BY <1>10 DEF DestroyNotFound, DestroyRefused, DestroyDone, DestroyRetry, Visited, Apart
  <2>3. /\ pc'[lb] = "destroy"
        /\ todo'[lb] \cup newToDestroy'[lb] \subseteq todo[lb] \cup newToDestroy[lb]
    BY <1>10, <2>1 DEF DestroyNotFound, DestroyRefused, DestroyDone, DestroyRetry, Visited
  <2>4. LoopInv(lb)'
    BY <1>0, <2>1, <2>3 DEF LoopInv, SnapshotInv, WorkInv, CreateInv, CurInv, engineVars
  <2> QED
    BY <2>1, <2>2, <2>4, CombineLocal
<1>11. CASE DestroyPassEnd(lb)
  <2>1. UNCHANGED engineVars /\ pc[lb] = "destroy"
    BY <1>11 DEF DestroyPassEnd
  <2>2. CASE newToDestroy[lb] = {}
    BY <1>11, <2>1, <2>2, CombineLeave DEF DestroyPassEnd
  <2>3. CASE newToDestroy[lb] # {} /\ ~allowRetry[lb]
    BY <1>11, <2>1, <2>3, CombineLeave DEF DestroyPassEnd
  <2>4. CASE newToDestroy[lb] # {} /\ allowRetry[lb]
    <3>1. /\ todo' = [todo EXCEPT ![lb] = newToDestroy[lb]]
          /\ newToDestroy' = [newToDestroy EXCEPT ![lb] = {}]
          /\ UNCHANGED <<want, pc, ret, seenAs, toCreate, cur>>
      BY <1>11, <2>4, Zenon DEF DestroyPassEnd
    <3>2. \A l \in LBs \ {lb} : Apart(l)
      BY <3>1 DEF Apart
    <3>3. LoopInv(lb)'
      BY <1>0, <2>1, <3>1 DEF LoopInv, SnapshotInv, WorkInv, CreateInv, CurInv, engineVars
    <3> QED
      BY <2>1, <3>2, <3>3, CombineLocal
  <2> QED
    BY <2>2, <2>3, <2>4
<1>12. ASSUME NEW k \in toCreate[lb], Create(lb, k) PROVE Inv'
  <2>1. k \in Keys /\ k.lb = lb /\ RefOK(k, lb) /\ EngineCreate(k) /\ pc[lb] = "create"
    BY <1>0, <1>12 DEF Create, CreateNext, CreateInv
  <2>2. NewId \in Ids /\ key'[NewId] = k
    BY <1>0, <2>1, NewIdOK DEF EngineCreate
  <2>3. \A l \in LBs : Quiet(l)
    BY <1>0, <2>1, QuietCreate DEF StoreInv
  <2>4. \A l \in LBs \ {lb} : Apart(l)
    BY <1>12 DEF Create, Apart
  <2>5. StoreInv'
    BY <1>0, <2>1, StoreCreate
  <2>6. /\ pc'[lb] = "tag" /\ toCreate'[lb] = toCreate[lb] \ {k}
        /\ cur'[lb] = NewId /\ newToDestroy'[lb] = newToDestroy[lb]
    BY <1>12 DEF Create
  <2>7. \A i \in Own(lb)' : i \in Own(lb) /\ key'[i] = key[i]
    BY <1>0, <2>3 DEF Quiet, Own
  <2>8. CreateInv(lb)'
    <3> SUFFICES ASSUME NEW m \in toCreate[lb] \ {k}
                 PROVE  m.lb = lb /\ RefOK(m, lb)' /\ \A i \in Own(lb)' : key'[i] # m
      BY <2>6 DEF CreateInv
    <3>1. m \in Keys /\ m.lb = lb /\ RefOK(m, lb) /\ \A i \in Own(lb) : key[i] # m
      BY <1>0, <2>1 DEF CreateInv
    <3>2. RefOK(m, lb)'
      BY <2>3, <3>1 DEF RefOK, Quiet, Keys
    <3> QED
      BY <2>7, <3>1, <3>2
  <2>9. CurInv(lb)'
    <3>1. \A i \in Own(lb)' : key'[i] # k
      BY <1>0, <2>1, <2>7 DEF CreateInv
    <3> QED
      BY <2>1, <2>2, <2>6, <3>1, EngineConstants DEF CurInv
  <2>10. SnapshotInv(lb)' /\ WorkInv(lb)'
    BY <1>0, <2>1, <2>6 DEF SnapshotInv, WorkInv
  <2>11. LoopInv(lb)'
    BY <2>8, <2>9, <2>10 DEF LoopInv
  <2> QED
    BY <2>3, <2>4, <2>5, <2>11, Combine
<1>13. ASSUME NEW k \in toCreate[lb], CreateRefused(lb, k) PROVE Inv'
    BY <1>13, CombineLeave DEF CreateRefused
<1>14. CASE Tag(lb)
  <2>1. /\ pc[lb] = "tag" /\ cur[lb] \in Ids /\ EngineTag(cur[lb])
        /\ key[cur[lb]] # NoKey /\ key[cur[lb]].lb = lb
    BY <1>0, <1>14 DEF Tag, CurInv
  <2>2. \A l \in LBs \ {lb} : Quiet(l) /\ Apart(l)
    BY <1>0, <1>14, <2>1, QuietTag DEF Tag, Apart
  <2>3. StoreInv'
    BY <1>0, <2>1, StoreTag
  <2>4. /\ pc'[lb] \in {"waitCreated", "create"}
        /\ toCreate'[lb] = toCreate[lb] /\ newToDestroy'[lb] = newToDestroy[lb]
        /\ key' = key
    BY <1>14 DEF Tag, EngineTag
  <2>5. \A i \in Own(lb)' : i \in Own(lb) \/ i = cur[lb]
    BY <2>1 DEF Own, EngineTag
  <2>6. CreateInv(lb)'
    BY <1>0, <2>1, <2>4, <2>5 DEF CreateInv, CurInv, RefOK
  <2>7. LoopInv(lb)'
    BY <1>0, <2>1, <2>4, <2>6 DEF LoopInv, SnapshotInv, WorkInv, CurInv
  <2> QED
    BY <2>2, <2>3, <2>7, Combine
<1>15. ASSUME NEW i \in Ids, PollReady(lb, i) PROVE Inv'
  <2>1. \A l \in LBs \ {lb} : Apart(l)
    BY <1>15 DEF PollReady, Visited, Apart
  <2>2. pc'[lb] = pc[lb] /\ pc[lb] \in {"waitExisting", "waitCreated"}
        /\ newToDestroy' = newToDestroy
    BY <1>15 DEF PollReady, Waiting
  <2>3. LoopInv(lb)'
    BY <1>0, <2>2 DEF LoopInv, SnapshotInv, WorkInv, CreateInv, CurInv
  <2> QED
    BY <1>15, <2>1, <2>3, CombineLocal DEF PollReady
<1>16. ASSUME NEW i \in Ids, PollBroken(lb, i) PROVE Inv'
    BY <1>16, CombineLeave DEF PollBroken, AfterFailedWait
<1>17. CASE WaitDone(lb)
    BY <1>17, CombineLeave DEF WaitDone, AfterWait
<1> QED
    BY <1>1, <1>2, <1>3, <1>4, <1>5, <1>6, <1>7, <1>8, <1>9, <1>10, <1>11, <1>12, <1>13,
       <1>14, <1>15, <1>16, <1>17 DEF Step

\* So does a step with an injected failure.
LEMMA InvFaultyStep ==
    ASSUME Inv, TypeOK', NEW lb \in LBs, FaultyStep(lb)
    PROVE  Inv'
<1> USE DEF TypeOK, LoopsTypeOK, EngineTypeOK
<1>0. TypeOK /\ StoreInv /\ LoopInv(lb) /\ WorkInv(lb) /\ CreateInv(lb) /\ CurInv(lb)
    BY DEF Inv, LoopInv
<1>1. CASE ListFailed(lb) \/ TagFailed(lb) \/ Timeout(lb)
    BY <1>1, CombineLeave DEF ListFailed, TagFailed, Timeout
<1>2. ASSUME NEW i \in Ids, GetFailed(lb, i) \/ UpdateFailed(lb, i) \/ PollFailed(lb, i)
      PROVE  Inv'
    BY <1>2, CombineLeave DEF GetFailed, UpdateFailed, PollFailed, AfterFailedWait
<1>3. ASSUME NEW i \in Ids, DestroyFailed(lb, i) \/ DestroyLost(lb, i) PROVE Inv'
  <2>1. /\ i \in todo[lb] /\ pc[lb] = "destroy" /\ DestroyRetry(lb, i)
        /\ UNCHANGED engineVars \/ EngineDestroy(i)
    BY <1>3 DEF DestroyFailed, DestroyLost, DestroyNext, FirstOf
  <2>2. UNCHANGED <<key, alive, state, tag>>
    BY <2>1 DEF engineVars, EngineDestroy
  <2>3. \A l \in LBs \ {lb} : Quiet(l) /\ Apart(l)
    <3>1. \A l \in LBs : Quiet(l)
      BY <1>0, <2>1, QuietDestroy, QuietUnchanged
    <3> QED
      BY <2>1, <3>1 DEF DestroyRetry, Visited, Apart
  <2>4. StoreInv'
    <3>1. \A l \in LBs : Own(l)' = Own(l)
      BY <2>2 DEF Own
    <3> QED
      BY <1>0, <2>2, <3>1, StoreKept
  <2>5. /\ pc'[lb] = "destroy"
        /\ todo'[lb] \cup newToDestroy'[lb] \subseteq todo[lb] \cup newToDestroy[lb]
    BY <1>0, <2>1 DEF DestroyRetry, Visited
  <2>6. LoopInv(lb)'
    BY <1>0, <2>1, <2>2, <2>5 DEF LoopInv, SnapshotInv, WorkInv, CreateInv, CurInv
  <2> QED
    BY <2>3, <2>4, <2>6, Combine
<1>4. ASSUME NEW i \in Ids, DestroyRateLimited(lb, i) PROVE Inv'
    BY <1>4, CombineLeave DEF DestroyRateLimited
<1>5. ASSUME NEW k \in toCreate[lb], CreateFailed(lb, k) PROVE Inv'
    BY <1>5, CombineLeave DEF CreateFailed
<1>6. ASSUME NEW k \in toCreate[lb], CreateLost(lb, k) PROVE Inv'
  <2>1. k \in Keys /\ k.lb = lb /\ RefOK(k, lb) /\ EngineCreate(k) /\ Return(lb, "err")
    BY <1>0, <1>6 DEF CreateLost, CreateNext, CreateInv
  <2>2. StoreInv'
    BY <1>0, <2>1, StoreCreate
  <2>3. \A l \in LBs : Quiet(l)
    BY <1>0, <2>1, QuietCreate DEF StoreInv
  <2> QED
    BY <1>0, <2>1, <2>2, <2>3, LeaveInv, Combine
<1>7. CASE TagLost(lb)
  <2>1. /\ pc[lb] = "tag" /\ cur[lb] \in Ids /\ EngineTag(cur[lb])
        /\ key[cur[lb]] # NoKey /\ key[cur[lb]].lb = lb /\ Return(lb, "err")
    BY <1>0, <1>7 DEF TagLost, CurInv
  <2>2. \A l \in LBs \ {lb} : Quiet(l)
    BY <1>0, <2>1, QuietTag
  <2>3. StoreInv'
    BY <1>0, <2>1, StoreTag
  <2> QED
    BY <1>0, <2>1, <2>2, <2>3, LeaveInv, Combine
<1> QED
    BY <1>1, <1>2, <1>3, <1>4, <1>5, <1>6, <1>7 DEF FaultyStep

\* Steps of the controller and of the Engine: every loop is apart, or reset.
LEMMA InvNext == Inv /\ [Next]_vars => Inv'
<1> SUFFICES ASSUME Inv, [Next]_vars PROVE Inv'
    OBVIOUS
<1> USE DEF TypeOK, LoopsTypeOK, EngineTypeOK
<1>0. TypeOK /\ StoreInv /\ \A lb \in LBs : LoopInv(lb) /\ WorkInv(lb)
    BY DEF Inv, LoopInv
<1>1. TypeOK'
    BY <1>0, TypeNext
<1>2. ASSUME UNCHANGED engineVars,
             \A lb \in LBs : pc'[lb] \in {"idle", "list"} /\ newToDestroy'[lb] = {}
      PROVE  Inv'
  <2>1. StoreInv'
    BY <1>0, <1>2, StoreKept DEF engineVars, Own
  <2>2. \A lb \in LBs : LoopInv(lb)'
    BY <1>2 DEF LoopInv, SnapshotInv, WorkInv, CreateInv, CurInv
  <2> QED
    BY <1>1, <2>1, <2>2 DEF Inv
<1>3. ASSUME StoreInv', \A lb \in LBs : Quiet(lb) /\ Apart(lb) PROVE Inv'
    BY <1>0, <1>1, <1>3, Bystander DEF Inv
<1>4. CASE Start
    BY <1>0, <1>2, <1>4 DEF Start, loopVars, WorkInv
<1>5. CASE Join
    BY <1>0, <1>2, <1>5 DEF Join, loopVars, WorkInv
<1>6. CASE Crash
    BY <1>0, <1>2, <1>6 DEF Crash
<1>7. CASE ChangeService \/ Rest \/ UNCHANGED vars
  <2>1. UNCHANGED engineVars /\ \A lb \in LBs : Apart(lb)
    BY <1>7 DEF ChangeService, Rest, vars, engineVars, reconVars, Apart
  <2>2. StoreInv'
    BY <1>0, <2>1, StoreKept DEF engineVars, Own
  <2> QED
    BY <1>0, <1>3, <2>1, <2>2, QuietUnchanged
<1>8. ASSUME NEW i \in Ids, SettleOk(i) \/ SettleError(i) \/ Removed(i) PROVE Inv'
  <2>1. \A lb \in LBs : Apart(lb)
    BY <1>8 DEF SettleOk, SettleError, Removed, reconVars, Apart
  <2>2. \A lb \in LBs : Quiet(lb)
    BY <1>0, <1>8, QuietOwnSteps DEF SettleOk, SettleError, Removed, States
  <2>3. key' = key /\ \A j \in Ids : key[j] = NoKey => tag'[j] = tag[j]
    BY <1>0, <1>8 DEF SettleOk, SettleError, Removed, Settle, Remove
  <2>4. StoreInv'
    BY <1>0, <2>2, <2>3, StoreKept DEF Quiet
  <2> QED
    BY <1>3, <2>1, <2>2, <2>4
<1>9. ASSUME NEW lb \in LBs, Step(lb) \/ FaultyStep(lb) PROVE Inv'
    BY <1>1, <1>9, InvStep, InvFaultyStep
<1> QED
    BY <1>4, <1>5, <1>6, <1>7, <1>8, <1>9 DEF Next

(***************************************************************************)
(* The inductive invariant holds of every behaviour, whatever fails.       *)
(***************************************************************************)
THEOREM InvHolds == Spec => []Inv
BY InvInit, InvNext, PTL DEF Spec

(***************************************************************************)
(* No reconciliation ever makes a second resource with the attributes of   *)
(* one the Service already has on that LoadBalancer, for any number of     *)
(* load balancers, ports, addresses, nodes and failures: crashes, lost     *)
(* answers to Create and tagging, time-outs and retries included.          *)
(***************************************************************************)
THEOREM NoDuplicatesHolds == Spec => []NoDuplicates
<1>1. Inv => NoDuplicates
    BY DEF Inv, StoreInv
<1> QED
    BY <1>1, InvHolds, PTL

------------------------------------------------------------------------------
\* Who may send which request: the reconciliation that has the resource in the
\* loop it is running.
Touched(lb, i) ==
    /\ i \in deleting' /\ i \notin deleting =>
         pc[lb] = "destroy" /\ i \in todo[lb] /\ i \in alive
    /\ state'[i] = "updating" /\ state[i] # "updating" =>
         pc[lb] = "update" /\ i \in todo[lb] /\ i \in alive
    /\ tag'[i] = "svc" /\ tag[i] # "svc" =>
         pc[lb] = "tag" /\ cur[lb] = i

\* A step without an effect on the Engine touches nothing.
LEMMA TouchedUnchanged ==
    ASSUME UNCHANGED engineVars, NEW lb, NEW i
    PROVE  Touched(lb, i)
BY DEF Touched, engineVars

\* A step of lb touches what its loop is about, nothing else.
LEMMA StepTouches ==
    ASSUME TypeOK, NEW lb \in LBs, Step(lb) \/ FaultyStep(lb), NEW i \in Ids
    PROVE  Touched(lb, i)
<1> USE DEF TypeOK, EngineTypeOK, LoopsTypeOK
<1>1. CASE UNCHANGED engineVars
    BY <1>1, TouchedUnchanged
<1>2. ASSUME NEW j \in Ids, Update(lb, j) PROVE Touched(lb, i)
    BY <1>2 DEF Update, EngineUpdate, FirstOf, Touched
<1>3. ASSUME NEW j \in Ids, Destroy(lb, j) \/ DestroyLost(lb, j) PROVE Touched(lb, i)
    BY <1>3 DEF Destroy, DestroyLost, DestroyNext, EngineDestroy, FirstOf, Touched
<1>4. ASSUME NEW k \in toCreate[lb], Create(lb, k) \/ CreateLost(lb, k)
      PROVE  Touched(lb, i)
  <2>1. EngineCreate(k)
    BY <1>4 DEF Create, CreateLost
  <2>2. NewId \in Ids
    BY <2>1, NewIdOK DEF EngineCreate
  <2> QED
    BY <2>1, <2>2 DEF EngineCreate, Touched
<1>5. CASE Tag(lb) \/ TagLost(lb)
    BY <1>5 DEF Tag, TagLost, EngineTag, Touched
<1>6. CASE Step(lb)
    BY <1>1, <1>2, <1>3, <1>4, <1>5, <1>6
       DEF Step, List, Get, GetGone, CheckFailed, CheckUpdating, CheckProgressing,
           CheckDestroy, CheckCreate, CheckComplete, DestroyNotFound,
           DestroyRefused, DestroyPassEnd, CreateRefused, PollReady, PollBroken, WaitDone
<1>7. CASE FaultyStep(lb)
    BY <1>1, <1>2, <1>3, <1>4, <1>5, <1>7
       DEF FaultyStep, ListFailed, GetFailed, UpdateFailed, PollFailed, DestroyFailed,
           DestroyRateLimited, CreateFailed, TagFailed, Timeout
<1> QED
    BY <1>6, <1>7

\* Hence every step stays within what the invariant says of the loops.
LEMMA NextTouches ==
    ASSUME Inv, [Next]_vars
    PROVE  TouchesOnlyOwn /\ DestroyedWasDeployed
<1> USE DEF TypeOK, EngineTypeOK, LoopsTypeOK
<1>1. ASSUME NEW lb \in LBs, \A i \in Ids : Touched(lb, i)
      PROVE  TouchesOnlyOwn /\ DestroyedWasDeployed
  <2>1. WorkInv(lb) /\ CurInv(lb)
    BY DEF Inv, LoopInv
  <2> QED
    BY <1>1, <2>1 DEF Touched, WorkInv, CurInv, TouchesOnlyOwn, DestroyedWasDeployed
<1>2. ASSUME NEW lb \in LBs, Step(lb) \/ FaultyStep(lb)
      PROVE  TouchesOnlyOwn /\ DestroyedWasDeployed
    BY <1>1, <1>2, StepTouches DEF Inv
<1>3. ASSUME NEW i \in Ids, SettleOk(i) \/ SettleError(i) \/ Removed(i)
      PROVE  TouchesOnlyOwn /\ DestroyedWasDeployed
    BY <1>3 DEF Inv, SettleOk, SettleError, Removed, Settle, Remove, TouchesOnlyOwn,
                DestroyedWasDeployed
<1>4. ASSUME UNCHANGED engineVars PROVE TouchesOnlyOwn /\ DestroyedWasDeployed
    BY <1>4 DEF engineVars, TouchesOnlyOwn, DestroyedWasDeployed
<1>5. CASE Start \/ Join \/ ChangeService \/ Crash \/ Rest \/ UNCHANGED vars
    BY <1>4, <1>5 DEF Start, Join, ChangeService, Crash, Rest, vars, engineVars
<1> QED
    BY <1>2, <1>3, <1>5 DEF Next

(***************************************************************************)
(* A resource is destroyed and updated only by the reconciliation of its   *)
(* own LoadBalancer and only with the tag of this Service, tagged only by  *)
(* the reconciliation that created it: for any number of reconciliations   *)
(* running at once under the same tag, with other services' resources in   *)
(* the same Engine.                                                        *)
(***************************************************************************)
THEOREM OnlyOwnTouchedHolds == Spec => OnlyOwnTouched
<1>1. Inv /\ [Next]_vars => [TouchesOnlyOwn]_vars
    BY NextTouches
<1> QED
    BY <1>1, InvHolds, PTL DEF Spec, OnlyOwnTouched

(***************************************************************************)
(* No resource is destroyed whose deployment failed or is under way when   *)
(* the request is sent, however old the snapshot is it was planned from.   *)
(***************************************************************************)
THEOREM DestroysOnlyDeployedHolds == Spec => DestroysOnlyDeployed
<1>1. Inv /\ [Next]_vars => [DestroyedWasDeployed]_vars
    BY NextTouches
<1> QED
    BY <1>1, InvHolds, PTL DEF Spec, DestroysOnlyDeployed
=============================================================================
