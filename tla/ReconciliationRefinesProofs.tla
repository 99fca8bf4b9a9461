-------------------- MODULE ReconciliationRefinesProofs ---------------------
(***************************************************************************)
(* Proofs that the reconciliation keeps names and sockets apart and        *)
(* implements DesiredState, for every value of the constants and an Engine *)
(* that destroys nothing others refer to.  The argument: whatever the      *)
(* loops do, a step has one of few effects on the Engine (EngineEffect)    *)
(* and on the plan of a reconciliation (PlanEffect); only tagging adds a   *)
(* resource to those of the Service, and it was in the plan before.        *)
(***************************************************************************)
EXTENDS ReconciliationProofs, ReconciliationRefines

\* What a step may do to the Engine, and in which loop.
LEMMA EngineEffect ==
    ASSUME Inv, [Next]_vars
    PROVE  \/ UNCHANGED engineVars
           \/ \E lb \in LBs : \E k \in toCreate[lb] :
                 pc[lb] = "create" /\ Creatable(k) /\ EngineCreate(k)
           \/ \E lb \in LBs : pc[lb] = "tag" /\ pc'[lb] # "tag" /\ EngineTag(cur[lb])
           \/ \E i \in Ids : EngineUpdate(i)
           \/ \E lb \in LBs : \E i \in todo[lb] :
                 pc[lb] = "destroy" /\ i \in alive /\ Destroyable(i) /\ EngineDestroy(i)
           \/ \E i \in Ids : Settle(i, "ok") \/ Settle(i, "error") \/ Remove(i)
<1> DEFINE Effect ==
           \/ UNCHANGED engineVars
           \/ \E lb \in LBs : \E k \in toCreate[lb] :
                 pc[lb] = "create" /\ Creatable(k) /\ EngineCreate(k)
           \/ \E lb \in LBs : pc[lb] = "tag" /\ pc'[lb] # "tag" /\ EngineTag(cur[lb])
           \/ \E i \in Ids : EngineUpdate(i)
           \/ \E lb \in LBs : \E i \in todo[lb] :
                 pc[lb] = "destroy" /\ i \in alive /\ Destroyable(i) /\ EngineDestroy(i)
           \/ \E i \in Ids : Settle(i, "ok") \/ Settle(i, "error") \/ Remove(i)
<1>1. ASSUME NEW lb \in LBs, NEW k \in toCreate[lb], Create(lb, k) \/ CreateLost(lb, k)
      PROVE  Effect
    BY <1>1 DEF Create, CreateLost, CreateNext
<1>2. ASSUME NEW lb \in LBs, Tag(lb) \/ TagLost(lb) PROVE Effect
  <2>1. pc \in [LBs -> Locations]
    BY DEF Inv, TypeOK, LoopsTypeOK
  <2>2. pc[lb] = "tag" /\ pc'[lb] # "tag" /\ EngineTag(cur[lb])
    BY <1>2, <2>1 DEF Tag, TagLost, Return
  <2> QED
    BY <2>2
<1>3. ASSUME NEW lb \in LBs, NEW i \in Ids, Destroy(lb, i) \/ DestroyLost(lb, i)
      PROVE  Effect
  <2>1. i \in todo[lb] /\ pc[lb] = "destroy" /\ i \in alive /\ Destroyable(i) /\ EngineDestroy(i)
    BY <1>3 DEF Destroy, DestroyLost, DestroyNext, FirstOf
  <2> QED
    BY <2>1
<1>4. ASSUME NEW lb \in LBs, NEW i \in Ids, Update(lb, i) PROVE Effect
    BY <1>4 DEF Update
<1>5. ASSUME NEW lb \in LBs, Step(lb) PROVE Effect
    BY <1>1, <1>2, <1>3, <1>4, <1>5
       DEF Step, List, Get, GetGone, CheckFailed, CheckUpdating, CheckProgressing,
           CheckDestroy, CheckCreate, CheckComplete, DestroyNotFound,
           DestroyRefused, DestroyPassEnd, CreateRefused, PollReady, PollBroken, WaitDone
<1>6. ASSUME NEW lb \in LBs, FaultyStep(lb) PROVE Effect
    BY <1>1, <1>2, <1>3, <1>6
       DEF FaultyStep, ListFailed, GetFailed, UpdateFailed, PollFailed, DestroyFailed,
           DestroyRateLimited, CreateFailed, TagFailed, Timeout
<1>7. ASSUME NEW i \in Ids, SettleOk(i) \/ SettleError(i) \/ Removed(i) PROVE Effect
    BY <1>7 DEF SettleOk, SettleError, Removed
<1>8. CASE Start \/ Join \/ ChangeService \/ Crash \/ Rest \/ UNCHANGED vars
    BY <1>8 DEF Start, Join, ChangeService, Crash, Rest, vars, engineVars
<1> QED
    BY <1>5, <1>6, <1>7, <1>8 DEF Next

\* What a step may do to the plan of a reconciliation.
LEMMA PlanEffect ==
    ASSUME TypeOK, [Next]_vars, NEW lb \in LBs
    PROVE  /\ \/ pc'[lb] \notin {"create", "tag"}
              \/ pc'[lb] = pc[lb] /\ toCreate'[lb] = toCreate[lb] /\ cur'[lb] = cur[lb]
              \/ CheckCreate(lb)
              \/ \E k \in toCreate[lb] : Create(lb, k)
              \/ Tag(lb)
           /\ want' = want \/ Start
<1> USE DEF TypeOK, LoopsTypeOK
<1>1. CASE Start \/ Join \/ ChangeService \/ Crash \/ Rest \/ UNCHANGED vars
    BY <1>1 DEF Start, Join, ChangeService, Crash, Rest, vars, reconVars
<1>2. ASSUME NEW i \in Ids, SettleOk(i) \/ SettleError(i) \/ Removed(i)
      PROVE  UNCHANGED reconVars
    BY <1>2 DEF SettleOk, SettleError, Removed
<1>3. ASSUME NEW l \in LBs, Step(l) \/ FaultyStep(l)
      PROVE  want' = want /\ (l # lb => pc'[lb] = pc[lb] /\ toCreate'[lb] = toCreate[lb] /\ cur'[lb] = cur[lb])
  <2>1. CASE Step(l)
    BY <1>3, <2>1, SMTT(30)
       DEF Step, List, Get, GetGone, CheckFailed, CheckUpdating, CheckProgressing,
           CheckDestroy, CheckCreate, CheckComplete, Update, Destroy, DestroyNotFound,
           DestroyRefused, DestroyPassEnd, Create, CreateRefused, Tag, PollReady, PollBroken,
           WaitDone, AfterWait, AfterFailedWait, DestroyDone, DestroyRetry, Return, Again,
           ClearLoops, Loop, Visited
  <2>2. CASE FaultyStep(l)
    BY <1>3, <2>2
       DEF FaultyStep, ListFailed, GetFailed, UpdateFailed, PollFailed, DestroyFailed,
           DestroyLost, DestroyRateLimited, CreateFailed, CreateLost, TagFailed, TagLost,
           Timeout, AfterFailedWait, DestroyRetry, Return, Again, ClearLoops, Visited
  <2> QED
    BY <1>3, <2>1, <2>2
<1>4. CASE Step(lb)
  <2>1. CASE \E i \in Ids : Update(lb, i)
    BY <2>1 DEF Update, Return, ClearLoops
  <2>2. CASE \E i \in Ids : Destroy(lb, i) \/ DestroyNotFound(lb, i) \/ DestroyRefused(lb, i)
    BY <2>2 DEF Destroy, DestroyNotFound, DestroyRefused, DestroyDone, DestroyRetry
  <2>3. CASE DestroyPassEnd(lb)
    BY <2>3 DEF DestroyPassEnd, Return, Again, ClearLoops
  <2> QED
    BY <1>3, <1>4, <2>1, <2>2, <2>3
       DEF Step, List, Get, GetGone, CheckFailed, CheckUpdating, CheckProgressing,
           CheckDestroy, CheckComplete, CreateRefused, PollReady, PollBroken,
           WaitDone, AfterWait, AfterFailedWait, Return, Again, Loop
<1>5. CASE FaultyStep(lb)
    BY <1>3, <1>5
       DEF FaultyStep, ListFailed, GetFailed, UpdateFailed, PollFailed, DestroyFailed,
           DestroyLost, DestroyRateLimited, CreateFailed, CreateLost, TagFailed, TagLost,
           Timeout, AfterFailedWait, DestroyRetry, Return, Again
<1> QED
    BY <1>1, <1>2, <1>3, <1>4, <1>5 DEF Next, reconVars

------------------------------------------------------------------------------
\* The resource the plan takes for the backend or the frontend of a port is one.
LEMMA PortKeys ==
    ASSUME NEW lb \in LBs
    PROVE  /\ \A p \in DOMAIN portBackends(lb) :
                 key[portBackends(lb)[p]] = Backend(lb, p)
           /\ \A p \in DOMAIN portFrontends(lb) :
                 /\ p \in DOMAIN portBackends(lb)
                 /\ key[portFrontends(lb)[p]] = Frontend(lb, p, portBackends(lb)[p])
<1>1. ASSUME NEW p \in DOMAIN portBackends(lb)
      PROVE  key[portBackends(lb)[p]] = Backend(lb, p)
  <2>1. /\ Backend(lb, p) \in targetBackends(lb)
        /\ Matched(targetBackends(lb), backends(lb))
        /\ portBackends(lb)[p] = CHOOSE i \in backends(lb) : key[i] = Backend(lb, p)
    BY DEF portBackends, targetBackends
  <2>2. \E i \in backends(lb) : key[i] = Backend(lb, p)
    BY <2>1 DEF Matched, Missing
  <2> QED
    BY <2>1, <2>2
<1>2. ASSUME NEW p \in DOMAIN portFrontends(lb)
      PROVE  /\ p \in DOMAIN portBackends(lb)
             /\ key[portFrontends(lb)[p]] = Frontend(lb, p, portBackends(lb)[p])
  <2>1. /\ p \in DOMAIN portBackends(lb)
        /\ Matched(targetFrontends(lb), frontends(lb))
        /\ portFrontends(lb)[p] =
             CHOOSE i \in frontends(lb) : key[i] = Frontend(lb, p, portBackends(lb)[p])
    BY DEF portFrontends
  <2>2. Frontend(lb, p, portBackends(lb)[p]) \in targetFrontends(lb)
    BY <2>1 DEF targetFrontends
  <2>3. \E i \in frontends(lb) : key[i] = Frontend(lb, p, portBackends(lb)[p])
    BY <2>1, <2>2 DEF Matched, Missing
  <2> QED
    BY <2>1, <2>3
<1> QED
    BY <1>1, <1>2

\* All that the four steps of ReconcileCheck ask for.
Targets(lb) ==
    targetBackends(lb) \cup targetFrontends(lb) \cup targetBinds(lb) \cup targetServers(lb)

\* The names the Service asks for, kind by kind.
LEMMA GoalNames ==
    ASSUME NEW s \in Specs, NEW p \in DOMAIN s.ports
    PROVE  /\ \A lb : NameOf(Backend(lb, p)) \in Goal[s]
           /\ \A lb, i : NameOf(Frontend(lb, p, i)) \in Goal[s]
           /\ \A lb, i : \A a \in s.externalAddresses :
                 NameOf(Bind(lb, p, a, s.ports[p].External, i)) \in Goal[s]
           /\ \A lb, i : \A n \in s.targetServers :
                 NameOf(Server(lb, p, n, s.ports[p].Internal, i)) \in Goal[s]
<1>1. \A lb : NameOf(Backend(lb, p)) = NameOf(Backend(None, p))
    BY DEF NameOf, Backend
<1>2. \A lb, i : NameOf(Frontend(lb, p, i)) = NameOf(Frontend(None, p, None))
    BY DEF NameOf, Frontend
<1>3. \A lb, i, a, n : NameOf(Bind(lb, p, a, n, i)) = NameOf(Bind(None, p, a, n, None))
    BY DEF NameOf, Bind
<1>4. \A lb, i, a, n : NameOf(Server(lb, p, a, n, i)) = NameOf(Server(None, p, a, n, None))
    BY DEF NameOf, Server
<1>5. /\ NameOf(Backend(None, p)) \in Goal[s]
      /\ NameOf(Frontend(None, p, None)) \in Goal[s]
      /\ \A a \in s.externalAddresses :
            NameOf(Bind(None, p, a, s.ports[p].External, None)) \in Goal[s]
      /\ \A n \in s.targetServers :
            NameOf(Server(None, p, n, s.ports[p].Internal, None)) \in Goal[s]
    BY DEF Goal
<1> QED
    BY <1>1, <1>2, <1>3, <1>4, <1>5

\* A target is well built, and asked for by name.
LEMMA TargetFits ==
    ASSUME Inv, NEW lb \in LBs, pc[lb] = "get", NEW k \in Targets(lb)
    PROVE  WellBuilt(k) /\ NameOf(k) \in Goal[want]
<1> USE DEF Ports
<1>1. TypeOK /\ StoreInv /\ SnapshotInv(lb) /\ want \in Specs
    BY DEF Inv, LoopInv, TypeOK, LoopsTypeOK
<1>2. \A b \in backends(lb) \cup frontends(lb) :
          b \in Ids /\ key[b] # NoKey /\ key[b].lb = lb /\ (b \in alive => tag[b] = "svc")
    BY <1>1, ExistingOwn DEF Existing
<1>3. CASE k \in targetBackends(lb)
  <2>1. PICK p \in DOMAIN want.ports : k = Backend(lb, p)
    BY <1>3 DEF targetBackends
  <2> QED
    BY <1>1, <2>1, GoalNames DEF WellBuilt, Backend
<1>4. CASE k \in targetFrontends(lb)
  <2>1. PICK p \in DOMAIN portBackends(lb) : k = Frontend(lb, p, portBackends(lb)[p])
    BY <1>4 DEF targetFrontends
  <2>2. /\ p \in DOMAIN want.ports /\ portBackends(lb)[p] \in backends(lb)
        /\ key[portBackends(lb)[p]] = Backend(lb, p)
    BY PortBackends, PortKeys
  <2>3. WellBuilt(k)
    BY <1>2, <2>1, <2>2 DEF WellBuilt, Backend, Frontend, RefKind
  <2> QED
    BY <1>1, <2>1, <2>2, <2>3, GoalNames
<1>5. CASE k \in targetBinds(lb)
  <2>1. PICK a \in want.externalAddresses, p \in DOMAIN portFrontends(lb) :
            k = Bind(lb, p, a, want.ports[p].External, portFrontends(lb)[p])
    BY <1>5 DEF targetBinds
  <2>2. /\ p \in DOMAIN want.ports /\ portFrontends(lb)[p] \in frontends(lb)
        /\ key[portFrontends(lb)[p]] = Frontend(lb, p, portBackends(lb)[p])
    BY PortFrontends, PortKeys
  <2>3. WellBuilt(k)
    BY <1>2, <2>1, <2>2 DEF WellBuilt, Bind, Frontend, RefKind
  <2> QED
    BY <1>1, <2>1, <2>2, <2>3, GoalNames
<1>6. CASE k \in targetServers(lb)
  <2>1. PICK n \in want.targetServers, p \in DOMAIN portBackends(lb) :
            k = Server(lb, p, n, want.ports[p].Internal, portBackends(lb)[p])
    BY <1>6 DEF targetServers
  <2>2. /\ p \in DOMAIN want.ports /\ portBackends(lb)[p] \in backends(lb)
        /\ key[portBackends(lb)[p]] = Backend(lb, p)
    BY PortBackends, PortKeys
  <2>3. WellBuilt(k)
    BY <1>2, <2>1, <2>2 DEF WellBuilt, Server, Backend, RefKind
  <2> QED
    BY <1>1, <2>1, <2>2, <2>3, GoalNames
<1> QED
    BY <1>3, <1>4, <1>5, <1>6 DEF Targets

\* No two targets have the same name, as there is one address of a family.
LEMMA TargetsDiffer ==
    ASSUME want \in Specs,
           NEW lb \in LBs, NEW k \in Targets(lb), NEW m \in Targets(lb), SameName(k, m)
    PROVE  k = m
<1>1. k.kind = m.kind /\ k.port = m.port /\ NamedAt(k) = NamedAt(m)
    BY DEF SameName
<1>2. \A x \in targetBackends(lb) : x.kind = "backend" /\ x = Backend(lb, x.port)
    BY DEF targetBackends, Backend
<1>3. \A x \in targetFrontends(lb) :
          x.kind = "frontend" /\ x = Frontend(lb, x.port, portBackends(lb)[x.port])
    BY DEF targetFrontends, Frontend
<1>4. \A x \in targetBinds(lb) :
          /\ x.kind = "bind" /\ x.at \in want.externalAddresses
          /\ x = Bind(lb, x.port, x.at, want.ports[x.port].External, portFrontends(lb)[x.port])
    BY DEF targetBinds, Bind
<1>5. \A x \in targetServers(lb) :
          /\ x.kind = "server"
          /\ x = Server(lb, x.port, x.at, want.ports[x.port].Internal, portBackends(lb)[x.port])
    BY DEF targetServers, Server
<1>6. k.kind = m.kind /\ k.port = m.port /\ (k.kind \in {"bind", "server"} => k.at = m.at)
  <2>1. CASE k.kind = "bind"
    <3>1. FamilyOf[k.at] = FamilyOf[m.at]
      BY <1>1, <2>1 DEF NamedAt
    <3>2. k.at \in want.externalAddresses /\ m.at \in want.externalAddresses
      BY <1>1, <1>2, <1>3, <1>4, <1>5, <2>1 DEF Targets
    <3> QED
      BY <1>1, <3>1, <3>2, ReconciliationConstants DEF OnePerFamily
  <2>2. CASE k.kind # "bind"
    BY <1>1, <2>2 DEF NamedAt
  <2> QED
    BY <2>1, <2>2
<1> QED
    BY <1>2, <1>3, <1>4, <1>5, <1>6 DEF Targets

\* Everything of the Service is a target when there is nothing to destroy:
\* all of it was retrieved, what binds and servers refer to as well.
LEMMA NothingSurplus ==
    ASSUME Inv, RefsStay, NEW lb \in LBs, \A i \in Own(lb) : WellBuilt(key[i]),
           AllRetrieved(lb), PlannedDestroy(lb) = {}, NEW i \in Own(lb)
    PROVE  key[i] \in Targets(lb)
<1> USE DEF Inv, TypeOK, EngineTypeOK, LoopsTypeOK
<1>1. SnapshotInv(lb) /\ pc[lb] = "get" /\ todo[lb] = {}
    BY DEF LoopInv, AllRetrieved
<1>2. \A j \in Own(lb) : /\ j \in Ids /\ seenAs[lb][j] # "absent" /\ key[j].lb = lb
                         /\ key[j] \in Keys
    BY <1>1 DEF SnapshotInv, Own
<1>3. CASE key[i].kind = "backend"
    BY <1>2, <1>3 DEF backends, Retrieved, PlannedDestroy, Surplus, Targets
<1>4. CASE key[i].kind = "frontend"
    BY <1>2, <1>4 DEF frontends, Retrieved, PlannedDestroy, Surplus, Targets
<1>5. ASSUME key[i].kind # "backend"
      PROVE  key[i].ref \in Own(lb) /\ key[key[i].ref].kind = RefKind[key[i].kind]
  <2>1. /\ key[i].ref \in Ids
        /\ key[key[i].ref].kind = RefKind[key[i].kind]
        /\ key[key[i].ref].lb = lb
        /\ key[i].ref \in alive => tag[key[i].ref] = "svc"
    BY <1>2, <1>5 DEF WellBuilt
  <2>2. key[i].ref \in alive
    BY <2>1, EngineConstants DEF RefsStay, Own
  <2> QED
    BY <2>1, <2>2 DEF Own
<1>6. CASE key[i].kind = "bind"
  <2>1. key[i].ref \in frontends(lb)
    BY <1>2, <1>5, <1>6 DEF frontends, Retrieved, RefKind
  <2>2. i \in filterBinds(lb)
    BY <1>2, <1>6, <2>1 DEF filterBinds, Retrieved
  <2> QED
    BY <2>2 DEF PlannedDestroy, Surplus, Targets
<1>7. CASE key[i].kind = "server"
  <2>1. key[i].ref \in backends(lb)
    BY <1>2, <1>5, <1>7 DEF backends, Retrieved, RefKind
  <2>2. i \in filterServers(lb)
    BY <1>2, <1>7, <2>1 DEF filterServers, Retrieved
  <2> QED
    BY <2>2 DEF PlannedDestroy, Surplus, Targets
<1> QED
    BY <1>2, <1>3, <1>4, <1>6, <1>7 DEF Keys, Kinds

------------------------------------------------------------------------------
\* A step that keeps resources as they are, or removes some, and adds nothing to
\* those of lb.
Keeps(lb) ==
    /\ \A i \in Ids : key[i] # NoKey => key'[i] = key[i]
    /\ \A i \in Ids : key[i] # NoKey /\ i \in alive' =>
         i \in alive /\ (tag[i] = "svc" => tag'[i] = "svc")
    /\ Own(lb)' \subseteq Own(lb)

\* The resource being tagged is the only one a step adds.
LEMMA StoreEffect ==
    ASSUME Inv, [Next]_vars, NEW lb \in LBs
    PROVE  \/ Keeps(lb)
           \/ /\ pc[lb] = "tag" /\ pc'[lb] # "tag" /\ EngineTag(cur[lb])
              /\ Own(lb)' \subseteq Own(lb) \cup {cur[lb]}
<1> USE DEF TypeOK, EngineTypeOK, LoopsTypeOK
<1>0. TypeOK /\ StoreInv /\ UnusedUntagged /\ \A l \in LBs : CurInv(l) /\ CreateInv(l)
    BY DEF Inv, StoreInv, LoopInv
<1>1. Quiet(lb) => Keeps(lb)
    BY DEF Quiet, Keeps
<1>2. CASE UNCHANGED engineVars
    BY <1>0, <1>1, <1>2, QuietUnchanged
<1>3. ASSUME NEW l \in LBs, NEW k \in toCreate[l], EngineCreate(k) PROVE Keeps(lb)
    BY <1>0, <1>1, <1>3, QuietCreate
<1>4. ASSUME NEW l \in LBs, pc[l] = "tag", pc'[l] # "tag", EngineTag(cur[l])
      PROVE  \/ Keeps(lb)
             \/ /\ pc[lb] = "tag" /\ pc'[lb] # "tag" /\ EngineTag(cur[lb])
                /\ Own(lb)' \subseteq Own(lb) \cup {cur[lb]}
  <2>1. CASE l = lb
    BY <1>0, <1>4, <2>1 DEF EngineTag, Own
  <2>2. CASE l # lb
    BY <1>0, <1>1, <1>4, <2>2, QuietTag DEF CurInv
  <2> QED
    BY <2>1, <2>2
<1>5. ASSUME NEW i \in Ids, EngineUpdate(i) PROVE Keeps(lb)
    BY <1>5 DEF EngineUpdate, Keeps, Own
<1>6. ASSUME NEW i \in Ids, EngineDestroy(i) PROVE Keeps(lb)
    BY <1>0, <1>1, <1>6, QuietDestroy
<1>7. ASSUME NEW i \in Ids, Settle(i, "ok") \/ Settle(i, "error") \/ Remove(i)
      PROVE  Keeps(lb)
    BY <1>0, <1>1, <1>7, QuietOwnSteps DEF States
<1>8. \A l \in LBs : todo[l] \subseteq Ids
    BY <1>0
<1> QED
    BY <1>2, <1>3, <1>4, <1>5, <1>6, <1>7, <1>8, EngineEffect

\* What is well built stays so.
LEMMA WellBuiltKept ==
    ASSUME Inv, [Next]_vars, NEW k, WellBuilt(k)
    PROVE  WellBuilt(k)'
<1> USE DEF Inv, TypeOK, EngineTypeOK, LoopsTypeOK
<1>1. ASSUME NEW lb \in LBs, Keeps(lb) PROVE WellBuilt(k)'
    BY <1>1, EngineConstants DEF WellBuilt, Keeps
<1>2. ASSUME NEW i \in Ids, EngineTag(i) PROVE WellBuilt(k)'
    BY <1>2 DEF WellBuilt, EngineTag
<1>3. ASSUME UNCHANGED <<key, alive, tag>> PROVE WellBuilt(k)'
    BY <1>3 DEF WellBuilt
<1>4. ASSUME NEW i \in Ids, Remove(i) PROVE WellBuilt(k)'
    BY <1>4 DEF WellBuilt, Remove
<1>5. CASE \E lb \in LBs : TRUE
    BY <1>1, <1>2, <1>5, StoreEffect
<1>6. CASE ~ \E lb \in LBs : TRUE
  <2>1. \/ UNCHANGED engineVars
        \/ \E i \in Ids : EngineUpdate(i) \/ Settle(i, "ok") \/ Settle(i, "error") \/ Remove(i)
    BY <1>6, EngineEffect
  <2> QED
    BY <1>3, <1>4, <2>1 DEF engineVars, EngineUpdate, Settle
<1> QED
    BY <1>5, <1>6

\* What is referred to is not destroyed, and nothing new refers to what is.
LEMMA RefsStayKept ==
    ASSUME RefusesReferenced, Inv, RefsStay, [Next]_vars
    PROVE  RefsStay'
<1> USE DEF Inv, TypeOK, EngineTypeOK, LoopsTypeOK
<1>1. ASSUME UNCHANGED <<key, alive, deleting>> PROVE RefsStay'
    BY <1>1 DEF RefsStay
<1>2. ASSUME NEW lb \in LBs, NEW k \in toCreate[lb], Creatable(k), EngineCreate(k)
      PROVE  RefsStay'
  <2>1. NewId \in Ids /\ key[NewId] = NoKey /\ NewId \notin alive
    BY <1>2, NewIdOK DEF EngineCreate
  <2>2. k \in Keys /\ (k.ref # None => k.ref \in alive \ deleting)
    BY <1>2 DEF Creatable
  <2> QED
    BY <1>2, <2>1, <2>2 DEF EngineCreate, RefsStay
<1>3. ASSUME NEW i \in alive, Destroyable(i), EngineDestroy(i) PROVE RefsStay'
    BY <1>3 DEF Destroyable, Referenced, EngineDestroy, RefsStay
<1>4. ASSUME NEW i \in Ids, Remove(i) PROVE RefsStay'
    BY <1>4 DEF Remove, RefsStay
<1> QED
    BY <1>1, <1>2, <1>3, <1>4, EngineEffect
       DEF engineVars, EngineTag, EngineUpdate, Settle

\* A plan is carried out as it was made.
LEMMA PlanKept ==
    ASSUME Inv, Inv', [Next]_vars, PlansFit, NEW lb \in LBs
    PROVE  PlanInv(lb)'
<1> USE DEF TypeOK, EngineTypeOK, LoopsTypeOK
<1>0. TypeOK /\ WorkInv(lb) /\ CreateInv(lb) /\ CurInv(lb) /\ PlanInv(lb)
    BY DEF Inv, LoopInv, PlansFit
<1>1. ASSUME pc'[lb] \in {"create", "tag"} PROVE want' = want
    BY <1>0, <1>1, PlanEffect DEF Start
<1>2. ASSUME pc'[lb] \in {"create", "tag"}, pc[lb] \in {"create", "tag"},
             InPlan(lb)' \subseteq InPlan(lb)
      PROVE  /\ \A k \in InPlan(lb)' : WellBuilt(k)' /\ NameOf(k) \in Goal[want']
             /\ \A k, m \in InPlan(lb)' : SameName(k, m) => k = m
    BY <1>0, <1>1, <1>2, WellBuiltKept DEF PlanInv
<1>3. \A i \in Own(lb) : i \in Ids /\ key[i] # NoKey
    BY <1>0 DEF Own
<1>4. ASSUME pc[lb] \in {"create", "tag"}, pc'[lb] = pc[lb],
             toCreate'[lb] = toCreate[lb], cur'[lb] = cur[lb]
      PROVE  InPlan(lb)' \subseteq InPlan(lb)
  <2>1. Keeps(lb)
    BY <1>4, StoreEffect
  <2>2. pc[lb] = "tag" => key'[cur[lb]] = key[cur[lb]]
    BY <1>0, <2>1 DEF CurInv, Keeps
  <2>3. \A i \in Own(lb)' : key'[i] \in {key[j] : j \in Own(lb)}
    BY <1>3, <2>1 DEF Keeps
  <2> QED
    BY <1>4, <2>2, <2>3 DEF InPlan
<1>5. ASSUME CheckCreate(lb)
      PROVE  /\ \A k \in InPlan(lb)' : WellBuilt(k)' /\ NameOf(k) \in Goal[want']
             /\ \A k, m \in InPlan(lb)' : SameName(k, m) => k = m
  <2>1. /\ pc'[lb] = "create" /\ UNCHANGED engineVars /\ want' = want
        /\ toCreate'[lb] = PlannedCreate(lb)
        /\ PlannedDestroy(lb) = {} /\ AllRetrieved(lb) /\ pc[lb] = "get"
    BY <1>0, <1>5 DEF CheckCreate, Settled, AllRetrieved
  <2>2. InPlan(lb)' = PlannedCreate(lb) \cup {key[i] : i \in Own(lb)}
    BY <2>1 DEF InPlan, engineVars, Own
  <2>3. PlannedCreate(lb) \subseteq Targets(lb)
    BY DEF PlannedCreate, Missing, Targets
  <2>4. \A i \in Own(lb) : key[i] \in Targets(lb)
    BY <2>1, NothingSurplus DEF PlansFit
  <2>5. InPlan(lb)' \subseteq Targets(lb)
    BY <2>2, <2>3, <2>4
  <2> QED
    BY <1>0, <2>1, <2>5, TargetFits, TargetsDiffer, WellBuiltKept
<1>6. ASSUME NEW k \in toCreate[lb], Create(lb, k)
      PROVE  InPlan(lb)' \subseteq InPlan(lb) /\ cur'[lb] \notin deleting'
  <2>1. /\ pc[lb] = "create" /\ EngineCreate(k)
        /\ toCreate'[lb] = toCreate[lb] \ {k} /\ cur'[lb] = NewId
    BY <1>0, <1>6 DEF Create, CreateNext
  <2>2. NewId \in Ids /\ key[NewId] = NoKey /\ tag[NewId] = "none" /\ key'[NewId] = k
    BY <1>0, <2>1, NewIdOK DEF EngineCreate, Inv, StoreInv, UnusedUntagged
  <2>3. Keeps(lb)
    BY <2>1, StoreEffect
  <2>4. \A i \in Own(lb)' : key'[i] \in {key[j] : j \in Own(lb)}
    BY <1>3, <2>3 DEF Keeps
  <2> QED
    BY <1>0, <2>1, <2>2, <2>4 DEF InPlan, EngineCreate
<1>7. ASSUME Tag(lb) PROVE pc'[lb] # "tag" /\ InPlan(lb)' \subseteq InPlan(lb)
  <2>1. /\ pc[lb] = "tag" /\ EngineTag(cur[lb]) /\ toCreate'[lb] = toCreate[lb]
        /\ pc'[lb] # "tag"
    BY <1>0, <1>7 DEF Tag
  <2>2. key' = key /\ Own(lb)' \subseteq Own(lb) \cup {cur[lb]}
    BY <1>0, <2>1 DEF EngineTag, Own
  <2> QED
    BY <2>1, <2>2 DEF InPlan
<1>8. ASSUME pc[lb] = "tag", pc'[lb] = "tag", cur'[lb] = cur[lb]
      PROVE  cur'[lb] \notin deleting'
  <2>1. cur[lb] \notin deleting /\ key[cur[lb]].lb = lb
    BY <1>0, <1>8 DEF PlanInv, CurInv
  <2>2. ASSUME NEW l \in LBs, NEW i \in todo[l], pc[l] = "destroy", EngineDestroy(i)
        PROVE  i # cur[lb]
    BY <1>8, <2>1, <2>2 DEF Inv, LoopInv, WorkInv
  <2> QED
    BY <1>8, <2>1, <2>2, EngineEffect
       DEF engineVars, EngineCreate, EngineTag, EngineUpdate, EngineDestroy, Settle, Remove
<1>9. ASSUME pc'[lb] = "tag" PROVE cur'[lb] \notin deleting'
    BY <1>0, <1>6, <1>7, <1>8, <1>9, PlanEffect DEF CheckCreate
<1>10. ASSUME pc'[lb] \in {"create", "tag"}
       PROVE  /\ \A k \in InPlan(lb)' : WellBuilt(k)' /\ NameOf(k) \in Goal[want']
              /\ \A k, m \in InPlan(lb)' : SameName(k, m) => k = m
  <2>1. CASE CheckCreate(lb)
    BY <1>5, <2>1
  <2>2. CASE ~CheckCreate(lb)
    <3>1. pc[lb] \in {"create", "tag"} /\ InPlan(lb)' \subseteq InPlan(lb)
      BY <1>0, <1>4, <1>6, <1>7, <1>10, <2>2, PlanEffect DEF Create, CreateNext, Tag
    <3> QED
      BY <1>2, <1>10, <3>1
  <2> QED
    BY <2>1, <2>2
<1> QED
    BY <1>9, <1>10 DEF PlanInv

\* What the Service asks for, by name: a bind is asked for on its external port.
LEMMA GoalBinds ==
    ASSUME NEW s \in Specs, NEW k \in Keys, NameOf(k) \in Goal[s], k.kind = "bind"
    PROVE  k.port \in DOMAIN s.ports /\ k.num = s.ports[k.port].External
<1>1. NameOf(k).kind = "bind" /\ NameOf(k).port = k.port /\ NameOf(k).num = k.num
    BY DEF NameOf
<1>2. \A p, a, n, i : /\ NameOf(Backend(None, p)).kind = "backend"
                      /\ NameOf(Frontend(None, p, i)).kind = "frontend"
                      /\ NameOf(Server(None, p, a, n, i)).kind = "server"
    BY DEF NameOf, Backend, Frontend, Server
<1>3. \A p, a, n, i : NameOf(Bind(None, p, a, n, i)).port = p
                      /\ NameOf(Bind(None, p, a, n, i)).num = n
    BY DEF NameOf, Bind
<1>4. PICK p \in DOMAIN s.ports, a \in s.externalAddresses :
          NameOf(k) = NameOf(Bind(None, p, a, s.ports[p].External, None))
    BY <1>1, <1>2 DEF Goal
<1> QED
    BY <1>1, <1>3, <1>4

\* Only tagging can make two resources of the Service clash, and what is tagged
\* was in the plan.
LEMMA ClashKept ==
    ASSUME Inv, Inv', [Next]_vars, PlansFit
    PROVE  /\ (\A lb \in LBs : \A i \in Own(lb) : WellBuilt(key[i]))'
           /\ UniqueNames'
           /\ PortsDiffer => NoClash'
<1> USE DEF TypeOK, EngineTypeOK, LoopsTypeOK
<1>0. TypeOK /\ TypeOK' /\ NoDuplicates'
    BY DEF Inv, StoreInv
<1>1. ASSUME NEW lb \in LBs, Keeps(lb), NEW i \in Own(lb)'
      PROVE  i \in Own(lb) /\ key'[i] = key[i]
    BY <1>0, <1>1 DEF Keeps, Own
<1>2. ASSUME NEW lb \in LBs, pc[lb] = "tag", EngineTag(cur[lb]),
             Own(lb)' \subseteq Own(lb) \cup {cur[lb]}, NEW i \in Own(lb)'
      PROVE  key'[i] \in InPlan(lb) /\ key'[i] \in Keys
    BY <1>0, <1>2 DEF EngineTag, InPlan, Own
<1>3. ASSUME NEW lb \in LBs, NEW i \in Own(lb)' PROVE WellBuilt(key[i])'
  <2>1. PICK k : k = key'[i]
    OBVIOUS
  <2>2. WellBuilt(k)
    BY <1>1, <1>2, <2>1, StoreEffect DEF PlansFit, PlanInv
  <2>3. WellBuilt(k)'
    BY <2>2, WellBuiltKept
  <2> QED
    BY <2>1, <2>3 DEF WellBuilt
<1>4. UniqueNames'
  <2> SUFFICES ASSUME NEW lb \in LBs, NEW i \in Own(lb)', NEW j \in Own(lb)',
                      SameName(key'[i], key'[j])
               PROVE  i = j
    BY DEF UniqueNames, SameName, NamedAt
  <2>1. CASE Keeps(lb)
    BY <1>1, <2>1 DEF PlansFit, UniqueNames
  <2>2. CASE ~Keeps(lb)
    <3>1. key'[i] = key'[j]
      BY <1>2, <2>2, StoreEffect DEF PlansFit, PlanInv
    <3> QED
      BY <1>0, <3>1 DEF NoDuplicates
  <2> QED
    BY <2>1, <2>2
<1>5. ASSUME PortsDiffer, NEW lb \in LBs, NEW i \in Own(lb)', NEW j \in Own(lb)',
             SameSocket(key'[i], key'[j])
      PROVE  i = j
  <2>1. CASE Keeps(lb)
    BY <1>1, <1>5, <2>1 DEF PlansFit, NoClash
  <2>2. CASE /\ pc[lb] = "tag" /\ EngineTag(cur[lb])
             /\ Own(lb)' \subseteq Own(lb) \cup {cur[lb]}
    <3>1. /\ key'[i] \in InPlan(lb) /\ key'[i] \in Keys
          /\ key'[j] \in InPlan(lb) /\ key'[j] \in Keys
      BY <1>2, <2>2
    <3>2. NameOf(key'[i]) \in Goal[want] /\ NameOf(key'[j]) \in Goal[want] /\ want \in Specs
      BY <1>0, <2>2, <3>1 DEF PlansFit, PlanInv
    <3>3. /\ key'[i].port \in DOMAIN want.ports /\ key'[j].port \in DOMAIN want.ports
          /\ key'[i].num = want.ports[key'[i].port].External
          /\ key'[j].num = want.ports[key'[j].port].External
      BY <1>5, <3>1, <3>2, GoalBinds DEF SameSocket
    <3>4. SameName(key'[i], key'[j])
      BY <1>5, <3>2, <3>3 DEF PortsDiffer, SameSocket, SameName, NamedAt
    <3> QED
      BY <1>4, <3>4 DEF UniqueNames
  <2> QED
    BY <2>1, <2>2, StoreEffect
<1> QED
    BY <1>3, <1>4, <1>5 DEF NoClash, UniqueNames

\* At the start there is nothing of the Service.
LEMMA PlansFitInit == Init => PlansFit
<1> SUFFICES ASSUME Init PROVE PlansFit
    OBVIOUS
<1>1. \A lb \in LBs : Own(lb) = {}
    BY EngineConstants, InitialIsForeign DEF Init, EngineInit, Own
<1>2. RefsStay
    BY EngineConstants, InitialIsForeign DEF Init, EngineInit, RefsStay, Keys
<1> QED
    BY <1>1, <1>2 DEF Init, PlansFit, UniqueNames, NoClash, PlanInv

(***************************************************************************)
(* Plans fit what is there until they are carried out, whatever fails and  *)
(* whoever else works on the Engine meanwhile, if the Engine refuses to    *)
(* destroy what others refer to.                                           *)
(***************************************************************************)
THEOREM PlansFitHolds == RefusesReferenced => (Spec => []PlansFit)
<1> SUFFICES ASSUME RefusesReferenced PROVE Spec => []PlansFit
    OBVIOUS
<1>1. Inv /\ Inv' /\ PlansFit /\ [Next]_vars => PlansFit'
  <2> SUFFICES ASSUME Inv, Inv', PlansFit, [Next]_vars PROVE PlansFit'
    OBVIOUS
  <2>1. RefsStay'
    BY RefsStayKept DEF PlansFit
  <2>2. \A lb \in LBs : PlanInv(lb)'
    BY PlanKept
  <2> QED
    BY <2>1, <2>2, ClashKept DEF PlansFit
<1> QED
    BY <1>1, PlansFitInit, InvHolds, PTL DEF Spec

(***************************************************************************)
(* No two resources of a Service on one LoadBalancer have the same name,   *)
(* and no two of its binds the same address and port: if the Engine        *)
(* refuses to destroy what others refer to and the Service does not ask    *)
(* for a port twice.                                                       *)
(***************************************************************************)
THEOREM NoClashHolds == RefusesReferenced /\ PortsDiffer => (Spec => []NoClash)
<1> SUFFICES ASSUME RefusesReferenced, PortsDiffer PROVE Spec => []NoClash
    OBVIOUS
<1>1. PlansFit => NoClash
    BY DEF PlansFit
<1> QED
    BY <1>1, PlansFitHolds, PTL

------------------------------------------------------------------------------
\* What a Service asks for are names.
LEMMA GoalType ==
    ASSUME NEW s \in Specs
    PROVE  Goal[s] \in SUBSET Desired!Names
<1> SUFFICES ASSUME NEW n \in Goal[s] PROVE n \in Desired!Names
    OBVIOUS
<1>1. /\ DOMAIN s.ports \subseteq PortNames
      /\ \A p \in DOMAIN s.ports :
            s.ports[p].External \in PortNums /\ s.ports[p].Internal \in PortNums
      /\ s.externalAddresses \subseteq Addrs
      /\ s.targetServers \subseteq Nodes
    BY SpecPorts
<1>2. CASE \E p \in DOMAIN s.ports : n = NameOf(Backend(None, p))
    BY <1>1, <1>2 DEF NameOf, Backend, Desired!Names
<1>3. CASE \E p \in DOMAIN s.ports : n = NameOf(Frontend(None, p, None))
    BY <1>1, <1>3 DEF NameOf, Frontend, Desired!Names
<1>4. CASE \E p \in DOMAIN s.ports, a \in s.externalAddresses :
              n = NameOf(Bind(None, p, a, s.ports[p].External, None))
    BY <1>1, <1>4 DEF NameOf, Bind, Desired!Names
<1>5. CASE \E p \in DOMAIN s.ports, a \in s.targetServers :
              n = NameOf(Server(None, p, a, s.ports[p].Internal, None))
    BY <1>1, <1>5 DEF NameOf, Server, Desired!Names
<1> QED
    BY <1>2, <1>3, <1>4, <1>5 DEF Goal

\* Equal names are the same name, and what a name builds on is the name of what
\* the resource refers to.
LEMMA NameFacts ==
    ASSUME TypeOK, NEW i \in Ids, key[i] # NoKey, WellBuilt(key[i])
    PROVE  /\ \A j \in Ids : key[j] # NoKey /\ NameOf(key[j]) = NameOf(key[i])
                => SameName(key[j], key[i])
           /\ key[i].kind = "backend" => Desired!BuildsOn(NameOf(key[i])) = {}
           /\ key[i].kind # "backend" /\ WellBuilt(key[key[i].ref]) =>
                Desired!BuildsOn(NameOf(key[i])) = {NameOf(key[key[i].ref])}
<1> USE DEF TypeOK, EngineTypeOK
<1>1. key[i] \in Keys /\ key[i].kind \in Kinds
    BY DEF Keys
<1>2. \A j \in Ids : NameOf(key[j]) = NameOf(key[i]) => SameName(key[j], key[i])
  <2>1. \A k : /\ NameOf(k).kind = k.kind /\ NameOf(k).port = k.port
               /\ NameOf(k).at = k.at
    BY DEF NameOf
  <2> QED
    BY <2>1 DEF SameName, NamedAt
<1>3. ASSUME key[i].kind = "backend" PROVE Desired!BuildsOn(NameOf(key[i])) = {}
    BY <1>3 DEF Desired!BuildsOn, NameOf
<1>4. ASSUME key[i].kind # "backend", WellBuilt(key[key[i].ref])
      PROVE  Desired!BuildsOn(NameOf(key[i])) = {NameOf(key[key[i].ref])}
  <2>1. /\ key[i].kind \in {"frontend", "bind", "server"}
        /\ key[key[i].ref].kind = RefKind[key[i].kind]
        /\ key[key[i].ref].port = key[i].port
    BY <1>1, <1>4 DEF WellBuilt, Kinds
  <2>2. key[key[i].ref].at = None /\ key[key[i].ref].num = None
    BY <1>4, <2>1 DEF WellBuilt, RefKind
  <2>3. NameOf(key[key[i].ref]) = Desired!Part(RefKind[key[i].kind], key[i].port, None, None)
    BY <2>1, <2>2 DEF NameOf, Desired!Part
  <2> QED
    BY <2>1, <2>3 DEF Desired!BuildsOn, NameOf, RefKind
<1> QED
    BY <1>2, <1>3, <1>4

\* What a resource of the Service refers to is one of the Service, and stays.
LEMMA OwnRef ==
    ASSUME Inv, PlansFit, NEW lb \in LBs, NEW i \in Own(lb)
    PROVE  /\ i \in Ids /\ key[i] # NoKey /\ key[i].lb = lb /\ WellBuilt(key[i])
           /\ key[i].kind # "backend" =>
                /\ key[i].ref \in Own(lb) \ deleting
                /\ Desired!BuildsOn(NameOf(key[i])) = {NameOf(key[key[i].ref])}
           /\ key[i].kind = "backend" => Desired!BuildsOn(NameOf(key[i])) = {}
<1> USE DEF Inv, TypeOK, EngineTypeOK
<1>1. i \in alive /\ i \in Ids /\ key[i] # NoKey /\ key[i].lb = lb /\ WellBuilt(key[i])
    BY DEF Own, PlansFit
<1>2. ASSUME key[i].kind # "backend" PROVE key[i].ref \in Own(lb) \ deleting
  <2>1. key[i].ref \in Ids /\ key[key[i].ref].lb = lb
    BY <1>1, <1>2 DEF WellBuilt
  <2>2. key[i].ref \in alive \ deleting
    BY <1>1, <2>1, EngineConstants DEF PlansFit, RefsStay
  <2> QED
    BY <1>1, <1>2, <2>1, <2>2 DEF WellBuilt, Own
<1>3. ASSUME key[i].kind # "backend"
      PROVE  Desired!BuildsOn(NameOf(key[i])) = {NameOf(key[key[i].ref])}
    BY <1>1, <1>2, <1>3, NameFacts DEF PlansFit
<1> QED
    BY <1>1, <1>2, <1>3, NameFacts

\* Names are the names of one resource each.
LEMMA NameOnce ==
    ASSUME Inv, PlansFit, NEW lb \in LBs, NEW i \in Own(lb), NEW j \in Own(lb),
           NameOf(key[i]) = NameOf(key[j])
    PROVE  i = j
<1>1. SameName(key[i], key[j])
    BY OwnRef, NameFacts DEF Inv
<1> QED
    BY <1>1 DEF PlansFit, UniqueNames

\* A step that changes neither goal nor resources of the Service shows nothing.
LEMMA ShowsNothing ==
    ASSUME want' = want,
           \A lb \in LBs : /\ Own(lb)' = Own(lb)
                           /\ (Own(lb) \cap deleting)' = Own(lb) \cap deleting
                           /\ \A i \in Own(lb) : key'[i] = key[i]
    PROVE  UNCHANGED Desired!desiredVars
<1>1. ASSUME NEW lb \in LBs
      PROVE  /\ NamesOf(Own(lb))' = NamesOf(Own(lb))
             /\ NamesOf(Own(lb) \cap deleting)' = NamesOf(Own(lb) \cap deleting)
    BY DEF NamesOf
<1> QED
    BY <1>1 DEF Desired!desiredVars

\* Tagging a resource is what makes it a part of the Service.
LEMMA TagGains ==
    ASSUME Inv, PlansFit, want' = want, NEW lb \in LBs, pc[lb] = "tag", EngineTag(cur[lb])
    PROVE  [Desired!DesiredNext]_Desired!desiredVars
<1> USE DEF TypeOK, EngineTypeOK, LoopsTypeOK
<1> DEFINE c == cur[lb]
           n == NameOf(key[c])
<1>0. /\ TypeOK /\ c \in Ids /\ key[c] # NoKey /\ key[c].lb = lb
      /\ \A i \in Own(lb) : key[i] = key[c] => i = c
    BY DEF Inv, LoopInv, CurInv
<1>1. /\ c \notin deleting
      /\ key[c] \in InPlan(lb) /\ \A i \in Own(lb) : key[i] \in InPlan(lb)
    BY DEF PlansFit, PlanInv, InPlan
<1>2. /\ WellBuilt(key[c]) /\ n \in Goal[want]
      /\ \A i \in Own(lb) : NameOf(key[i]) \in Goal[want]
      /\ \A i \in Own(lb) : SameName(key[i], key[c]) => i = c
    BY <1>0, <1>1 DEF PlansFit, PlanInv
<1>3. \A l \in LBs \ {lb} : Own(l)' = Own(l)
    BY <1>0 DEF EngineTag, Own
<1>4. key' = key /\ deleting' = deleting /\ alive' = alive
    BY DEF EngineTag
<1>5. CASE c \in Own(lb) \/ c \notin alive
  <2>1. Own(lb)' = Own(lb)
    BY <1>0, <1>5 DEF EngineTag, Own
  <2> QED
    BY <1>3, <1>4, <2>1, ShowsNothing
<1>6. CASE c \notin Own(lb) /\ c \in alive
  <2>1. Own(lb)' = Own(lb) \cup {c}
    BY <1>0, <1>6 DEF EngineTag, Own
  <2>2. /\ NamesOf(Own(lb))' = NamesOf(Own(lb)) \cup {n}
        /\ NamesOf(Own(lb) \cap deleting)' = NamesOf(Own(lb) \cap deleting)
        /\ \A l \in LBs \ {lb} : /\ NamesOf(Own(l))' = NamesOf(Own(l))
                                 /\ NamesOf(Own(l) \cap deleting)' = NamesOf(Own(l) \cap deleting)
    BY <1>1, <1>3, <1>4, <2>1 DEF NamesOf
  <2>3. n \notin NamesOf(Own(lb))
    <3> SUFFICES ASSUME NEW i \in Own(lb), NameOf(key[i]) = n PROVE FALSE
      BY DEF NamesOf
    <3> QED
      BY <1>0, <1>2, <1>6, NameFacts, OwnRef
  <2>4. NamesOf(Own(lb)) \subseteq Goal[want]
    BY <1>2 DEF NamesOf
  <2>5. Desired!BuildsOn(n) \subseteq NamesOf(Own(lb)) \ NamesOf(Own(lb) \cap deleting)
    <3>1. CASE key[c].kind = "backend"
      BY <1>0, <1>2, <3>1, NameFacts
    <3>2. CASE key[c].kind # "backend"
      <4>1. key[c].ref \in Ids /\ key[key[c].ref].lb = lb
        BY <1>0, <1>2, <3>2 DEF WellBuilt
      <4>2. key[c].ref \in alive \ deleting
        BY <1>6, <4>1, EngineConstants DEF PlansFit, RefsStay
      <4>3. key[c].ref \in Own(lb) \ deleting
        BY <1>2, <3>2, <4>1, <4>2 DEF WellBuilt, Own
      <4>4. Desired!BuildsOn(n) = {NameOf(key[key[c].ref])}
        BY <1>0, <1>2, <3>2, <4>3, NameFacts, OwnRef
      <4>5. \A i \in Own(lb) \cap deleting : NameOf(key[i]) # NameOf(key[key[c].ref])
        BY <4>3, NameOnce
      <4> QED
        BY <4>3, <4>4, <4>5 DEF NamesOf
    <3> QED
      BY <3>1, <3>2
  <2>6. Desired!Gain(lb, n)
    BY <1>2, <2>2, <2>3, <2>4, <2>5 DEF Desired!Gain
  <2> QED
    BY <1>2, <2>6 DEF Desired!DesiredNext
<1> QED
    BY <1>5, <1>6

\* A Destroy gives up what nothing builds on.
LEMMA DestroyGivesUp ==
    ASSUME Inv, PlansFit, RefusesReferenced, want' = want, NEW lb \in LBs, NEW i \in todo[lb],
           pc[lb] = "destroy", i \in alive, Destroyable(i), EngineDestroy(i)
    PROVE  [Desired!DesiredNext]_Desired!desiredVars
<1> USE DEF TypeOK, EngineTypeOK, LoopsTypeOK
<1> DEFINE n == NameOf(key[i])
<1>0. TypeOK /\ i \in Own(lb) /\ key[i].lb = lb
    BY DEF Inv, LoopInv, WorkInv, Own
<1>1. key' = key /\ alive' = alive /\ tag' = tag /\ deleting' = deleting \cup {i}
    BY DEF EngineDestroy
<1>2. \A l \in LBs : Own(l)' = Own(l)
    BY <1>1 DEF Own
<1>3. \A l \in LBs \ {lb} : i \notin Own(l)
    BY <1>0 DEF Own
<1>4. CASE i \in deleting
    BY <1>1, <1>2, <1>4, ShowsNothing
<1>5. CASE i \notin deleting
  <2>1. /\ NamesOf(Own(lb))' = NamesOf(Own(lb))
        /\ NamesOf(Own(lb) \cap deleting)' = NamesOf(Own(lb) \cap deleting) \cup {n}
        /\ \A l \in LBs \ {lb} : /\ NamesOf(Own(l))' = NamesOf(Own(l))
                                 /\ NamesOf(Own(l) \cap deleting)' = NamesOf(Own(l) \cap deleting)
    BY <1>0, <1>1, <1>2, <1>3 DEF NamesOf
  <2>2. n \in NamesOf(Own(lb)) \ NamesOf(Own(lb) \cap deleting)
    BY <1>0, <1>5, NameOnce DEF NamesOf
  <2>3. ASSUME NEW j \in Own(lb), n \in Desired!BuildsOn(NameOf(key[j])) PROVE FALSE
    <3>1. key[j].ref \in Own(lb) /\ n = NameOf(key[key[j].ref])
      BY <2>3, OwnRef
    <3>2. i = key[j].ref
      BY <1>0, <3>1, NameOnce
    <3> QED
      BY <3>2 DEF Destroyable, Referenced, Own
  <2>4. Desired!GiveUp(lb, n)
    BY <2>1, <2>2, <2>3 DEF Desired!GiveUp, NamesOf
  <2> QED
    BY <2>2, <2>4 DEF Desired!DesiredNext
<1> QED
    BY <1>4, <1>5

\* What the Engine removes was given up.
LEMMA RemoveVanishes ==
    ASSUME Inv, PlansFit, want' = want, NEW i \in Ids, Remove(i)
    PROVE  [Desired!DesiredNext]_Desired!desiredVars
<1> USE DEF TypeOK, EngineTypeOK, LoopsTypeOK
<1> DEFINE n == NameOf(key[i])
<1>0. TypeOK /\ i \in deleting
    BY DEF Inv, Remove
<1>1. key' = key /\ deleting' = deleting \ {i} /\ \A l \in LBs : Own(l)' = Own(l) \ {i}
    BY <1>0 DEF Remove, Own
<1>2. CASE \A l \in LBs : i \notin Own(l)
    BY <1>1, <1>2, ShowsNothing
<1>3. ASSUME NEW lb \in LBs, i \in Own(lb) PROVE Desired!DesiredNext
  <2>1. \A l \in LBs \ {lb} : i \notin Own(l)
    BY <1>3 DEF Own
  <2>2. \A j \in Own(lb) : NameOf(key[j]) = n => j = i
    BY <1>3, NameOnce
  <2>3. /\ NamesOf(Own(lb))' = NamesOf(Own(lb)) \ {n}
        /\ NamesOf(Own(lb) \cap deleting)' = NamesOf(Own(lb) \cap deleting) \ {n}
        /\ \A l \in LBs \ {lb} : /\ NamesOf(Own(l))' = NamesOf(Own(l))
                                 /\ NamesOf(Own(l) \cap deleting)' = NamesOf(Own(l) \cap deleting)
    BY <1>1, <2>1, <2>2 DEF NamesOf
  <2>4. n \in NamesOf(Own(lb)) /\ n \in NamesOf(Own(lb) \cap deleting)
    BY <1>0, <1>3 DEF NamesOf
  <2>5. Desired!Vanish(lb, n)
    BY <2>3, <2>4 DEF Desired!Vanish
  <2> QED
    BY <2>4, <2>5 DEF Desired!DesiredNext
<1> QED
    BY <1>2, <1>3

\* A step of the detailed specification is one of the abstract one, or none.
LEMMA StepRefines ==
    ASSUME RefusesReferenced, Inv, PlansFit, [Next]_vars
    PROVE  [Desired!DesiredNext]_Desired!desiredVars
<1> USE DEF TypeOK, EngineTypeOK, LoopsTypeOK
<1>0. TypeOK /\ UnusedUntagged /\ want \in Specs
    BY DEF Inv, StoreInv
<1>1. CASE Start
  <2>1. want' \in Specs /\ UNCHANGED engineVars
    BY <1>0, <1>1 DEF Start, ServiceTypeOK
  <2>2. \A lb \in LBs : /\ NamesOf(Own(lb))' = NamesOf(Own(lb))
                        /\ NamesOf(Own(lb) \cap deleting)' = NamesOf(Own(lb) \cap deleting)
    BY <2>1 DEF engineVars, Own, NamesOf
  <2>3. Goal[want'] \in SUBSET Desired!Names
    BY <2>1, GoalType
  <2>4. Desired!Adopt
    BY <2>2, <2>3 DEF Desired!Adopt
  <2> QED
    BY <2>4 DEF Desired!DesiredNext
<1>2. CASE ~Start
  <2>1. CASE LBs = {}
    <3>1. [lb \in LBs |-> NamesOf(Own(lb))]' = [lb \in LBs |-> NamesOf(Own(lb))]
      BY <2>1
    <3>2. [lb \in LBs |-> NamesOf(Own(lb) \cap deleting)]'
            = [lb \in LBs |-> NamesOf(Own(lb) \cap deleting)]
      BY <2>1
    <3>3. want' = want
      BY <1>2, <2>1 DEF Next, Join, ChangeService, Crash, Rest, SettleOk, SettleError, Removed,
                        reconVars, vars
    <3> QED
      BY <3>1, <3>2, <3>3 DEF Desired!desiredVars
  <2>2. CASE LBs # {}
    <3>1. want' = want
      BY <1>0, <1>2, <2>2, PlanEffect
    <3>2. ASSUME UNCHANGED <<key, alive, deleting, tag>>
          PROVE  UNCHANGED Desired!desiredVars
      BY <3>1, <3>2, ShowsNothing DEF Own
    <3>3. ASSUME NEW lb \in LBs, NEW k \in toCreate[lb], EngineCreate(k)
          PROVE  UNCHANGED Desired!desiredVars
      <4>1. NewId \in Ids /\ key[NewId] = NoKey /\ tag[NewId] = "none" /\ NewId \notin alive
        BY <1>0, <3>3, NewIdOK DEF EngineCreate, UnusedUntagged
      <4>2. \A l \in LBs : Own(l)' = Own(l) /\ \A i \in Own(l) : key'[i] = key[i]
        BY <1>0, <3>3, <4>1 DEF EngineCreate, Own
      <4>3. deleting' = deleting
        BY <3>3 DEF EngineCreate
      <4> QED
        BY <3>1, <4>2, <4>3, ShowsNothing
    <3> QED
      BY <3>1, <3>2, <3>3, TagGains, DestroyGivesUp, RemoveVanishes, EngineEffect
         DEF engineVars, EngineUpdate, Settle
  <2> QED
    BY <2>1, <2>2
<1> QED
    BY <1>1, <1>2

\* The start of the detailed specification is one of the abstract one.
LEMMA InitRefines == Init => Desired!DesiredInit
<1> SUFFICES ASSUME Init PROVE Desired!DesiredInit
    OBVIOUS
<1>1. \A lb \in LBs : Own(lb) = {}
    BY EngineConstants, InitialIsForeign DEF Init, EngineInit, Own
<1>2. want \in Specs
    BY DEF Init
<1>3. \A lb \in LBs : NamesOf(Own(lb)) = {} /\ NamesOf(Own(lb) \cap deleting) = {}
    BY <1>1 DEF NamesOf
<1> QED
    BY <1>2, <1>3, GoalType DEF Desired!DesiredInit

(***************************************************************************)
(* The reconciliation implements DesiredState, for any number of           *)
(* LoadBalancers, ports, addresses, nodes, changes and failures, if the    *)
(* Engine refuses to destroy what others refer to: seen from outside, a    *)
(* part appears only when it is asked for, everything not asked for is     *)
(* gone and what it builds on is there to stay; and it is given up only    *)
(* when nothing builds on it.                                              *)
(***************************************************************************)
THEOREM PromiseHolds == RefusesReferenced => (Spec => Promise)
<1> SUFFICES ASSUME RefusesReferenced PROVE Spec => Promise
    OBVIOUS
<1>1. Inv /\ PlansFit /\ [Next]_vars => [Desired!DesiredNext]_Desired!desiredVars
    BY StepRefines
<1> QED
    BY <1>1, InitRefines, InvHolds, PlansFitHolds, PTL
       DEF Spec, Promise, Desired!DesiredSpec
=============================================================================
