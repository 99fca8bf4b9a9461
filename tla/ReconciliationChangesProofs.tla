-------------------- MODULE ReconciliationChangesProofs ---------------------
(***************************************************************************)
(* Proofs about ReconciliationChanges, for every value of the constants    *)
(* and an Engine that destroys nothing others refer to: that a change of a *)
(* Service destroys nothing it still uses, and what nil means.  Both rest  *)
(* on what ReconcileCheck computes from a snapshot (SnapshotTargets): a    *)
(* resource the Service uses is a target, because everything it builds on  *)
(* was retrieved as well and all ports are covered.                        *)
(***************************************************************************)
EXTENDS ReconciliationRefinesProofs, ReconciliationChanges, FiniteSetTheorems,
        FunctionTheorems

\* Two Services with a port in common have the same ports.
LEMMA CommonPort ==
    ASSUME PortsTogether, NEW s \in Specs, NEW t \in Specs,
           NEW p \in DOMAIN s.ports, p \in DOMAIN t.ports
    PROVE  DOMAIN s.ports = DOMAIN t.ports
<1>1. CASE SamePorts
    BY <1>1 DEF SamePorts
<1>2. CASE SinglePorts
  <2>1. DOMAIN s.ports = {p} /\ DOMAIN t.ports = {p}
    BY <1>2 DEF SinglePorts
  <2> QED
    BY <2>1
<1> QED
    BY <1>1, <1>2 DEF PortsTogether

\* What was retrieved for this LoadBalancer is what was listed of it.
LEMMA ListedExisting ==
    ASSUME Inv, NEW lb \in LBs, SnapshotFits(lb), AllRetrieved(lb)
    PROVE  /\ backends(lb) = {i \in Listed(lb) : key[i].kind = "backend"}
           /\ frontends(lb) = {i \in Listed(lb) : key[i].kind = "frontend"}
           /\ filterBinds(lb) = {i \in Listed(lb) : key[i].kind = "bind"}
           /\ filterServers(lb) = {i \in Listed(lb) : key[i].kind = "server"}
           /\ Existing(lb) = Listed(lb)
<1> USE DEF TypeOK, EngineTypeOK, LoopsTypeOK
<1>1. TypeOK /\ StoreInv /\ SnapshotInv(lb) /\ pc[lb] = "get" /\ todo[lb] = {}
    BY DEF Inv, LoopInv, AllRetrieved
<1>2. Listed(lb) = {i \in Ids : seenAs[lb][i] # "absent" /\ key[i].lb = lb}
    BY <1>1 DEF Listed, SnapshotInv
<1>3. /\ backends(lb) = {i \in Listed(lb) : key[i].kind = "backend"}
      /\ frontends(lb) = {i \in Listed(lb) : key[i].kind = "frontend"}
    BY <1>2 DEF backends, frontends, Retrieved
<1>4. ASSUME NEW i \in Existing(lb) PROVE i \in Listed(lb)
    BY <1>1, <1>2, ExistingOwn
<1>5. ASSUME NEW i \in Listed(lb), key[i].kind # "backend"
      PROVE  key[i].ref \in Listed(lb) /\ key[key[i].ref].kind = RefKind[key[i].kind]
    BY <1>1, <1>5 DEF SnapshotFits, WellBuilt
<1>6. ASSUME NEW i \in Listed(lb), key[i].kind = "bind" PROVE i \in filterBinds(lb)
    BY <1>2, <1>3, <1>5, <1>6 DEF filterBinds, Retrieved, RefKind
<1>7. ASSUME NEW i \in Listed(lb), key[i].kind = "server" PROVE i \in filterServers(lb)
    BY <1>2, <1>3, <1>5, <1>7 DEF filterServers, Retrieved, RefKind
<1>8. filterBinds(lb) = {i \in Listed(lb) : key[i].kind = "bind"}
  <2>1. \A i \in filterBinds(lb) : key[i].kind = "bind" /\ i \in Listed(lb)
    BY <1>4 DEF Existing, filterBinds, Retrieved
  <2> QED
    BY <1>6, <2>1
<1>9. filterServers(lb) = {i \in Listed(lb) : key[i].kind = "server"}
  <2>1. \A i \in filterServers(lb) : key[i].kind = "server" /\ i \in Listed(lb)
    BY <1>4 DEF Existing, filterServers, Retrieved
  <2> QED
    BY <1>7, <2>1
<1>10. \A i \in Listed(lb) : key[i].kind \in Kinds
    BY <1>1 DEF Listed, Keys
<1> QED
    BY <1>3, <1>4, <1>8, <1>9, <1>10 DEF Existing, Kinds

\* A listed backend, frontend, bind or server that a Service uses, as attributes.
LEMMA ListedKeys ==
    ASSUME Inv, NEW lb \in LBs, SnapshotFits(lb), pc[lb] = "get", NEW i \in Listed(lb)
    PROVE  /\ i \in Ids /\ key[i] \in Keys /\ key[i].lb = lb
           /\ key[i].kind = "backend" => key[i] = Backend(lb, key[i].port)
           /\ key[i].kind = "frontend" => key[i] = Frontend(lb, key[i].port, key[i].ref)
           /\ key[i].kind = "bind" =>
                key[i] = Bind(lb, key[i].port, key[i].at, key[i].num, key[i].ref)
           /\ key[i].kind = "server" =>
                key[i] = Server(lb, key[i].port, key[i].at, key[i].num, key[i].ref)
           /\ key[i].kind # "backend" =>
                /\ key[i].ref \in Listed(lb)
                /\ key[key[i].ref].kind = RefKind[key[i].kind]
                /\ key[key[i].ref].port = key[i].port
<1>1. i \in Ids /\ key[i] \in Keys /\ key[i].lb = lb
    BY DEF Inv, TypeOK, EngineTypeOK, Listed
<1>2. WellBuilt(key[i]) /\ (key[i].kind # "backend" => key[i].ref \in Listed(lb))
    BY DEF SnapshotFits
<1>3. key[i] = [kind |-> key[i].kind, lb |-> key[i].lb, port |-> key[i].port,
                at |-> key[i].at, num |-> key[i].num, ref |-> key[i].ref]
    BY <1>1 DEF Keys
<1> QED
    BY <1>1, <1>2, <1>3 DEF WellBuilt, Backend, Frontend, Bind, Server

(***************************************************************************)
(* A listed resource that the Service uses is a target of its step: all    *)
(* backends, and for a bind all frontends, of the ports were listed too.   *)
(***************************************************************************)
LEMMA SnapshotTargets ==
    ASSUME Inv, PortsTogether, NEW lb \in LBs, SnapshotFits(lb), AllRetrieved(lb),
           NEW i \in Listed(lb), Uses(want, key[i])
    PROVE  /\ key[i].kind = "backend" => key[i] \in targetBackends(lb)
           /\ key[i].kind = "frontend" => key[i] \in targetFrontends(lb)
           /\ key[i].kind = "bind" => key[i] \in targetBinds(lb)
           /\ key[i].kind = "server" => key[i] \in targetServers(lb)
<1>0. pc[lb] = "get" /\ want \in Specs
    BY DEF AllRetrieved, Inv, TypeOK, LoopsTypeOK
<1>1. key[i].port \in Ports
    BY DEF Uses, Ports
<1>2. PICK s \in Specs : \A j \in Listed(lb) :
          /\ key[j].port \in DOMAIN s.ports
          /\ key[j].kind # "backend" => Covered(Listed(lb), "backend", DOMAIN s.ports)
          /\ key[j].kind = "bind" => Covered(Listed(lb), "frontend", DOMAIN s.ports)
    BY <1>0 DEF SnapshotFits, Whole
<1>3. DOMAIN s.ports = Ports
    BY <1>0, <1>1, <1>2, CommonPort DEF Ports
<1>4. \A j, l \in Listed(lb) : SameName(key[j], key[l]) => j = l
    BY <1>0 DEF SnapshotFits
<1>5. CASE key[i].kind = "backend"
    BY <1>0, <1>1, <1>5, ListedKeys DEF targetBackends
<1>6. ASSUME key[i].kind # "backend"
      PROVE  /\ DOMAIN portBackends(lb) = Ports
             /\ \A j \in Listed(lb) : key[j].kind = "backend" => portBackends(lb)[key[j].port] = j
  <2>1. Matched(targetBackends(lb), backends(lb))
    <3>1. Missing(targetBackends(lb), backends(lb)) = {}
      <4> SUFFICES ASSUME NEW p \in Ports
                   PROVE  \E j \in backends(lb) : key[j] = Backend(lb, p)
          BY DEF Missing, targetBackends
      <4>1. PICK j \in Listed(lb) : key[j].kind = "backend" /\ key[j].port = p
          BY <1>2, <1>3, <1>6 DEF Covered
      <4> QED
          BY <1>0, <4>1, ListedExisting, ListedKeys
    <3>2. ASSUME NEW j \in backends(lb) PROVE key[j] \in targetBackends(lb)
      <4>1. j \in Listed(lb) /\ key[j].kind = "backend"
          BY ListedExisting
      <4> QED
          BY <1>0, <1>2, <1>3, <4>1, ListedKeys DEF targetBackends
    <3> QED
        BY <3>1, <3>2 DEF Matched, Surplus
  <2>2. DOMAIN portBackends(lb) = Ports
      BY <2>1 DEF portBackends
  <2>3. ASSUME NEW j \in Listed(lb), key[j].kind = "backend"
        PROVE  portBackends(lb)[key[j].port] = j
    <3>1. key[j].port \in DOMAIN portBackends(lb)
        BY <1>2, <1>3, <2>2
    <3>2. /\ portBackends(lb)[key[j].port] \in Listed(lb)
          /\ key[portBackends(lb)[key[j].port]] = Backend(lb, key[j].port)
        BY <3>1, PortBackends, PortKeys, ListedExisting
    <3>3. key[j] = Backend(lb, key[j].port)
        BY <1>0, <2>3, ListedKeys
    <3> QED
        BY <1>4, <3>2, <3>3 DEF SameName, NamedAt
  <2> QED
      BY <2>2, <2>3
<1>7. ASSUME NEW j \in Listed(lb), key[j].kind = "frontend", key[i].kind # "backend"
      PROVE  /\ key[j].port \in Ports
             /\ key[j] = Frontend(lb, key[j].port, portBackends(lb)[key[j].port])
             /\ key[j] \in targetFrontends(lb)
  <2>1. /\ key[j].ref \in Listed(lb) /\ key[key[j].ref].kind = "backend"
        /\ key[key[j].ref].port = key[j].port
        /\ key[j] = Frontend(lb, key[j].port, key[j].ref)
      BY <1>0, <1>7, ListedKeys DEF RefKind
  <2>2. portBackends(lb)[key[j].port] = key[j].ref /\ key[j].port \in Ports
      BY <1>2, <1>3, <1>6, <1>7, <2>1
  <2> QED
      BY <1>6, <1>7, <2>1, <2>2 DEF targetFrontends
<1>8. CASE key[i].kind = "frontend"
    BY <1>7, <1>8
<1>9. CASE key[i].kind = "server"
  <2>1. /\ key[i].ref \in Listed(lb) /\ key[key[i].ref].kind = "backend"
        /\ key[key[i].ref].port = key[i].port
        /\ key[i] = Server(lb, key[i].port, key[i].at, key[i].num, key[i].ref)
      BY <1>0, <1>9, ListedKeys DEF RefKind
  <2>2. portBackends(lb)[key[i].port] = key[i].ref
      BY <1>6, <1>9, <2>1
  <2>3. key[i].at \in want.targetServers /\ key[i].num = want.ports[key[i].port].Internal
      BY <1>9 DEF Uses
  <2> QED
      BY <1>1, <1>6, <1>9, <2>1, <2>2, <2>3 DEF targetServers
<1>10. CASE key[i].kind = "bind"
  <2>1. Matched(targetFrontends(lb), frontends(lb))
    <3>1. Missing(targetFrontends(lb), frontends(lb)) = {}
      <4> SUFFICES ASSUME NEW p \in Ports
                   PROVE  \E j \in frontends(lb) : key[j] = Frontend(lb, p, portBackends(lb)[p])
          BY <1>6, <1>10 DEF Missing, targetFrontends
      <4>1. PICK j \in Listed(lb) : key[j].kind = "frontend" /\ key[j].port = p
          BY <1>2, <1>3, <1>10 DEF Covered
      <4> QED
          BY <1>7, <1>10, <4>1, ListedExisting
    <3>2. ASSUME NEW j \in frontends(lb) PROVE key[j] \in targetFrontends(lb)
        BY <1>7, <1>10, ListedExisting
    <3> QED
        BY <3>1, <3>2 DEF Matched, Surplus
  <2>2. DOMAIN portFrontends(lb) = Ports
      BY <1>6, <1>10, <2>1 DEF portFrontends
  <2>3. /\ key[i].ref \in Listed(lb) /\ key[key[i].ref].kind = "frontend"
        /\ key[key[i].ref].port = key[i].port
        /\ key[i] = Bind(lb, key[i].port, key[i].at, key[i].num, key[i].ref)
      BY <1>0, <1>10, ListedKeys DEF RefKind
  <2>4. portFrontends(lb)[key[i].port] = key[i].ref
    <3>1. /\ portFrontends(lb)[key[i].port] \in Listed(lb)
          /\ key[portFrontends(lb)[key[i].port]] =
                Frontend(lb, key[i].port, portBackends(lb)[key[i].port])
        BY <1>1, <2>2, PortFrontends, PortKeys, ListedExisting
    <3>2. key[key[i].ref] = Frontend(lb, key[i].port, portBackends(lb)[key[i].port])
        BY <1>7, <1>10, <2>3
    <3> QED
        BY <1>4, <2>3, <3>1, <3>2 DEF SameName, NamedAt
  <2>5. key[i].at \in want.externalAddresses /\ key[i].num = want.ports[key[i].port].External
      BY <1>10 DEF Uses
  <2> QED
      BY <1>1, <1>10, <2>2, <2>3, <2>4, <2>5 DEF targetBinds
<1> QED
    BY <1>5, <1>8, <1>9, <1>10

\* So what ReconcileCheck plans to destroy is not used.
LEMMA PlannedUnused ==
    ASSUME Inv, PortsTogether, NEW lb \in LBs, SnapshotFits(lb), AllRetrieved(lb),
           NEW i \in PlannedDestroy(lb)
    PROVE  i \in Listed(lb) /\ ~Uses(want, key[i])
<1>1. \/ i \in backends(lb) /\ key[i] \notin targetBackends(lb)
      \/ i \in frontends(lb) /\ key[i] \notin targetFrontends(lb)
      \/ i \in filterBinds(lb) /\ key[i] \notin targetBinds(lb)
      \/ i \in filterServers(lb) /\ key[i] \notin targetServers(lb)
    BY DEF PlannedDestroy, Surplus
<1> QED
    BY <1>1, ListedExisting, SnapshotTargets

------------------------------------------------------------------------------
\* Attributes never change, and a resource of the Service disappears only after
\* it was marked.
LEMMA OwnEffect ==
    ASSUME Inv, [Next]_vars, NEW lb \in LBs
    PROVE  /\ \A i \in Ids : key[i] # NoKey => key'[i] = key[i]
           /\ \A i \in alive \ alive' : i \in deleting
           /\ \A i \in Own(lb) : i \in alive' => i \in Own(lb)'
           /\ deleting' # deleting =>
                \/ \E i \in Ids : deleting' = deleting \ {i}
                \/ \E l \in LBs : \E i \in todo[l] :
                     pc[l] = "destroy" /\ EngineDestroy(i)
<1> USE DEF TypeOK, EngineTypeOK, LoopsTypeOK
<1>0. TypeOK /\ UnusedUntagged
    BY DEF Inv, StoreInv
<1>1. ASSUME UNCHANGED engineVars PROVE Own(lb)' = Own(lb)
    BY <1>1 DEF engineVars, Own
<1>2. CASE UNCHANGED engineVars
    BY <1>0, <1>1, <1>2 DEF engineVars
<1>3. ASSUME NEW l \in LBs, NEW k \in toCreate[l], EngineCreate(k)
      PROVE  /\ \A i \in Ids : key[i] # NoKey => key'[i] = key[i]
             /\ \A i \in alive : i \in alive'
             /\ \A i \in Own(lb) : i \in Own(lb)'
             /\ deleting' = deleting
  <2>1. NewId \in Ids /\ key[NewId] = NoKey
    BY <1>3, NewIdOK DEF EngineCreate
  <2> QED
    BY <1>0, <1>3, <2>1 DEF EngineCreate, Own
<1>4. ASSUME NEW l \in LBs, EngineTag(cur[l])
      PROVE  /\ UNCHANGED <<key, alive, deleting>>
             /\ \A i \in Own(lb) : i \in Own(lb)'
    BY <1>0, <1>4 DEF EngineTag, Own
<1>5. ASSUME NEW i \in Ids, EngineUpdate(i) \/ Settle(i, "ok") \/ Settle(i, "error")
      PROVE  UNCHANGED <<key, alive, deleting, tag>> /\ Own(lb)' = Own(lb)
    BY <1>5 DEF EngineUpdate, Settle, Own
<1>6. ASSUME NEW i \in Ids, EngineDestroy(i)
      PROVE  UNCHANGED <<key, alive, tag>> /\ Own(lb)' = Own(lb)
    BY <1>6 DEF EngineDestroy, Own
<1>7. ASSUME NEW i \in Ids, Remove(i)
      PROVE  /\ UNCHANGED key /\ i \in deleting /\ alive \ alive' \subseteq {i}
             /\ deleting' = deleting \ {i}
             /\ \A j \in Own(lb) : j \in alive' => j \in Own(lb)'
    BY <1>0, <1>7 DEF Remove, Own
<1>8. \A l \in LBs : todo[l] \subseteq Ids
    BY <1>0
<1> QED
    BY <1>2, <1>3, <1>4, <1>5, <1>6, <1>7, <1>8, EngineEffect

\* A step of one reconciliation leaves those of the other LoadBalancers alone.
LEMMA StepApart ==
    ASSUME TypeOK, NEW lb \in LBs, NEW l \in LBs, l # lb, Step(l) \/ FaultyStep(l)
    PROVE  Apart(lb) /\ ret'[lb] = ret[lb]
<1> USE DEF TypeOK, LoopsTypeOK
<1>1. CASE Step(l)
    BY <1>1, SMTT(30)
       DEF Step, List, Get, GetGone, CheckFailed, CheckUpdating, CheckProgressing,
           CheckDestroy, CheckCreate, CheckComplete, Update, Destroy, DestroyNotFound,
           DestroyRefused, DestroyPassEnd, Create, CreateRefused, Tag, PollReady, PollBroken,
           WaitDone, AfterWait, AfterFailedWait, DestroyDone, DestroyRetry, Return, Again,
           ClearLoops, Loop, Visited, Apart
<1>2. CASE FaultyStep(l)
    BY <1>2
       DEF FaultyStep, ListFailed, GetFailed, UpdateFailed, PollFailed, DestroyFailed,
           DestroyLost, DestroyRateLimited, CreateFailed, CreateLost, TagFailed, TagLost,
           Timeout, AfterFailedWait, DestroyRetry, Return, Again, ClearLoops, Visited, Apart
<1> QED
    BY <1>1, <1>2

\* What a step may do to a snapshot, and to what is still to be destroyed.
LEMMA LoopEffect ==
    ASSUME TypeOK, [Next]_vars, NEW lb \in LBs
    PROVE  /\ pc'[lb] = "get" =>
                \/ List(lb)
                \/ pc[lb] = "get" /\ \E i \in Ids : Get(lb, i)
                \/ pc[lb] = "get" /\ todo'[lb] = todo[lb] /\ seenAs'[lb] = seenAs[lb]
           /\ pc'[lb] = "destroy" =>
                \/ CheckDestroy(lb)
                \/ /\ pc[lb] = "destroy"
                   /\ todo'[lb] \cup newToDestroy'[lb] \subseteq todo[lb] \cup newToDestroy[lb]
<1> USE DEF TypeOK, LoopsTypeOK
<1> DEFINE Goal1 == pc'[lb] = "get" =>
                \/ List(lb)
                \/ pc[lb] = "get" /\ \E i \in Ids : Get(lb, i)
                \/ pc[lb] = "get" /\ todo'[lb] = todo[lb] /\ seenAs'[lb] = seenAs[lb]
           Goal2 == pc'[lb] = "destroy" =>
                \/ CheckDestroy(lb)
                \/ /\ pc[lb] = "destroy"
                   /\ todo'[lb] \cup newToDestroy'[lb] \subseteq todo[lb] \cup newToDestroy[lb]
<1>0. ASSUME Apart(lb) PROVE Goal1 /\ Goal2
    BY <1>0 DEF Apart
<1>1. CASE Start \/ Join \/ Crash
    BY <1>1 DEF Start, Join, Crash
<1>2. CASE ChangeService \/ Rest \/ UNCHANGED vars
  <2>1. Apart(lb)
    BY <1>2 DEF ChangeService, Rest, vars, reconVars, Apart
  <2> QED
    BY <1>0, <2>1
<1>3. ASSUME NEW i \in Ids, SettleOk(i) \/ SettleError(i) \/ Removed(i)
      PROVE  Goal1 /\ Goal2
  <2>1. Apart(lb)
    BY <1>3 DEF SettleOk, SettleError, Removed, reconVars, Apart
  <2> QED
    BY <1>0, <2>1
<1>4. ASSUME NEW l \in LBs, l # lb, Step(l) \/ FaultyStep(l) PROVE Goal1 /\ Goal2
    BY <1>0, <1>4, StepApart
<1>5. CASE Step(lb)
  <2>1. CASE \E i \in Ids : Get(lb, i)
    BY <2>1 DEF Get
  <2>2. CASE \E i \in Ids : Update(lb, i)
    BY <2>2 DEF Update, Return, ClearLoops
  <2>3. CASE \E i \in Ids : Destroy(lb, i) \/ DestroyNotFound(lb, i) \/ DestroyRefused(lb, i)
    <3>1. PICK i \in Ids : Destroy(lb, i) \/ DestroyNotFound(lb, i) \/ DestroyRefused(lb, i)
      BY <2>3
    <3>2. /\ pc[lb] = "destroy" /\ pc' = pc /\ todo'[lb] = todo[lb] \ {i} /\ i \in todo[lb]
          /\ newToDestroy'[lb] \subseteq newToDestroy[lb] \cup {i}
      BY <3>1 DEF Destroy, DestroyNotFound, DestroyRefused, DestroyDone, DestroyRetry,
                  Visited, DestroyNext, FirstOf
    <3> QED
      BY <3>2
  <2>4. CASE DestroyPassEnd(lb)
    BY <2>4 DEF DestroyPassEnd, Return, Again, ClearLoops
  <2>5. CASE \E k \in toCreate[lb] : Create(lb, k) \/ CreateRefused(lb, k)
    BY <2>5 DEF Create, CreateRefused, Return
  <2>6. CASE List(lb) \/ Tag(lb) \/ CheckDestroy(lb)
    BY <2>6 DEF List, Tag, CheckDestroy, Loop
  <2>7. CASE \E i \in Ids : PollReady(lb, i) \/ PollBroken(lb, i)
    BY <2>7 DEF PollReady, PollBroken, Waiting, AfterFailedWait, Again, Return
  <2>8. CASE WaitDone(lb)
    BY <2>8 DEF WaitDone, AfterWait, Again, Return
  <2>9. CASE \/ \E i \in Ids : GetGone(lb, i)
             \/ CheckFailed(lb) \/ CheckUpdating(lb) \/ CheckProgressing(lb)
             \/ CheckCreate(lb) \/ CheckComplete(lb)
    BY <2>9 DEF GetGone, CheckFailed, CheckUpdating, CheckProgressing, CheckCreate,
                CheckComplete, Return, Loop
  <2> QED
    BY <1>5, <2>1, <2>2, <2>3, <2>4, <2>5, <2>6, <2>7, <2>8, <2>9 DEF Step
<1>6. CASE FaultyStep(lb)
  <2>1. CASE \E i \in Ids : DestroyFailed(lb, i) \/ DestroyLost(lb, i)
    <3>1. PICK i \in Ids : DestroyFailed(lb, i) \/ DestroyLost(lb, i)
      BY <2>1
    <3>2. /\ pc[lb] = "destroy" /\ pc' = pc /\ todo'[lb] = todo[lb] \ {i} /\ i \in todo[lb]
          /\ newToDestroy'[lb] = newToDestroy[lb] \cup {i}
      BY <3>1 DEF DestroyFailed, DestroyLost, DestroyRetry, Visited, DestroyNext, FirstOf
    <3> QED
      BY <3>2
  <2> QED
    BY <1>6, <2>1
       DEF FaultyStep, ListFailed, GetFailed, UpdateFailed, PollFailed,
           DestroyRateLimited, CreateFailed, CreateLost, TagFailed, TagLost,
           Timeout, AfterFailedWait, Return, Again
<1> QED
    BY <1>1, <1>2, <1>3, <1>4, <1>5, <1>6 DEF Next

------------------------------------------------------------------------------
\* What a snapshot contains does not change while it is read.
LEMMA ListedKept ==
    ASSUME Inv, [Next]_vars, NEW lb \in LBs, pc'[lb] = "get"
    PROVE  /\ List(lb) => Listed(lb)' = Own(lb) /\ UNCHANGED engineVars
           /\ ~List(lb) => pc[lb] = "get" /\ Listed(lb)' = Listed(lb)
           /\ \A i \in Listed(lb)' : i \in Ids /\ key[i] # NoKey /\ key'[i] = key[i]
<1> USE DEF TypeOK, EngineTypeOK, LoopsTypeOK
<1>0. TypeOK
    BY DEF Inv
<1>1. ASSUME List(lb)
      PROVE  Listed(lb)' = Own(lb) /\ UNCHANGED engineVars
             /\ \A i \in Own(lb) : i \in Ids /\ key[i] # NoKey /\ key'[i] = key[i]
  <2>1. /\ UNCHANGED engineVars /\ todo'[lb] = Tagged
        /\ seenAs'[lb] = [i \in Ids |-> "absent"]
    BY <1>0, <1>1 DEF List, Loop
  <2>2. Listed(lb)' = {i \in Ids : key[i] # NoKey /\ key[i].lb = lb /\ i \in Tagged}
    BY <2>1 DEF Listed, engineVars
  <2> QED
    BY <1>0, <2>1, <2>2 DEF Tagged, Own, engineVars
<1>2. ASSUME pc[lb] = "get", NEW i \in Ids, Get(lb, i) PROVE Listed(lb)' = Listed(lb)
  <2>1. /\ UNCHANGED engineVars /\ todo'[lb] = todo[lb] \ {i} /\ i \in todo[lb]
        /\ seenAs'[lb] = [seenAs[lb] EXCEPT ![i] = state[i]] /\ state[i] # "absent"
    BY <1>0, <1>2 DEF Get, Visited, States
  <2>2. seenAs[lb] \in [Ids -> States \cup {"absent"}]
    BY <1>0
  <2> QED
    BY <2>1, <2>2 DEF Listed, engineVars
<1>3. ASSUME pc[lb] = "get" PROVE \A i \in Ids :
          i \in todo[lb] \/ seenAs[lb][i] # "absent" => key[i] # NoKey /\ key'[i] = key[i]
    BY <1>3, OwnEffect DEF Inv, LoopInv, SnapshotInv
<1>4. ASSUME pc[lb] = "get", todo'[lb] = todo[lb], seenAs'[lb] = seenAs[lb]
      PROVE  Listed(lb)' = Listed(lb)
    BY <1>3, <1>4 DEF Listed
<1>5. pc[lb] = "get" => ~List(lb)
    BY DEF List
<1> QED
    BY <1>0, <1>1, <1>2, <1>3, <1>4, <1>5, LoopEffect DEF Listed

\* A snapshot stays fitting while it is read.
LEMMA SnapshotFitsKept ==
    ASSUME Inv, PlansFit, ChangesFit, [Next]_vars, NEW lb \in LBs
    PROVE  SnapshotFits(lb)'
<1> SUFFICES ASSUME pc'[lb] = "get" PROVE SnapshotFits(lb)'
    BY DEF SnapshotFits
<1> USE DEF TypeOK, EngineTypeOK
<1>0. TypeOK /\ SnapshotFits(lb) /\ Whole(Own(lb)) /\ SnapshotInv(lb)
    BY DEF Inv, ChangesFit, LoopInv
<1>L. PICK L : L = Listed(lb)'
    OBVIOUS
<1>1. /\ Whole(L)
      /\ \A i \in L : WellBuilt(key[i]) /\ (key[i].kind # "backend" => key[i].ref \in L)
      /\ \A i, j \in L : SameName(key[i], key[j]) => i = j
      /\ SamePorts => \A i \in L \ alive : key[i].kind \in {"bind", "server"}
  <2>1. CASE List(lb)
    <3>1. L = Own(lb)
      BY <1>L, <2>1, ListedKept
    <3>2. Own(lb) \subseteq alive
      BY DEF Own
    <3> QED
      BY <1>0, <3>1, <3>2, OwnRef DEF PlansFit, UniqueNames
  <2>2. CASE ~List(lb)
    <3>1. L = Listed(lb) /\ pc[lb] = "get"
      BY <1>L, <2>2, ListedKept
    <3> QED
      BY <1>0, <3>1 DEF SnapshotFits
  <2> QED
    BY <2>1, <2>2
<1>2. \A i \in L : i \in Ids /\ key[i] # NoKey /\ key'[i] = key[i]
    BY <1>L, ListedKept
<1>3. Whole(L)'
  <2>1. PICK s \in Specs : \A i \in L :
          /\ key[i].port \in DOMAIN s.ports
          /\ key[i].kind # "backend" => Covered(L, "backend", DOMAIN s.ports)
          /\ key[i].kind = "bind" => Covered(L, "frontend", DOMAIN s.ports)
    BY <1>1 DEF Whole
  <2>2. \A i \in L :
          /\ key'[i].port \in DOMAIN s.ports
          /\ key'[i].kind # "backend" =>
               \A p \in DOMAIN s.ports : \E j \in L : key'[j].kind = "backend" /\ key'[j].port = p
          /\ key'[i].kind = "bind" =>
               \A p \in DOMAIN s.ports : \E j \in L : key'[j].kind = "frontend" /\ key'[j].port = p
    BY <1>2, <2>1 DEF Covered
  <2> QED
    BY <2>2 DEF Whole, Covered
<1>4. ASSUME NEW i \in L
      PROVE  WellBuilt(key[i])' /\ (key'[i].kind # "backend" => key'[i].ref \in L)
  <2>1. PICK k : k = key[i] /\ k = key'[i]
    BY <1>2
  <2>2. WellBuilt(k)'
    BY <1>1, <2>1, WellBuiltKept
  <2>3. WellBuilt(key[i])'
    BY <2>1, <2>2 DEF WellBuilt
  <2> QED
    BY <1>1, <2>1, <2>3
<1>5. \A i, j \in L : SameName(key'[i], key'[j]) => i = j
    BY <1>1, <1>2
<1>6. ASSUME SamePorts, NEW i \in L, i \notin alive' PROVE key'[i].kind \in {"bind", "server"}
  <2>1. CASE i \notin alive
    BY <1>1, <1>2, <1>6, <2>1
  <2>2. CASE i \in alive
    <3>1. i \in deleting
      BY <1>6, <2>2, OwnEffect
    <3>2. i \in Own(lb)
      <4>1. CASE List(lb)
        BY <1>L, <4>1, ListedKept
      <4>2. CASE ~List(lb)
        BY <1>0, <1>L, <2>2, <4>2, ListedKept DEF Listed, SnapshotInv, Own
      <4> QED
        BY <4>1, <4>2
    <3> QED
      BY <1>2, <1>6, <3>1, <3>2 DEF ChangesFit
  <2> QED
    BY <2>1, <2>2
<1> QED
    BY <1>L, <1>3, <1>4, <1>5, <1>6 DEF SnapshotFits, Whole, Covered, SameName, NamedAt

\* The names of a Service are of resources it uses.
LEMMA GoalUses ==
    ASSUME NEW s \in Specs, NEW k \in Keys, NameOf(k) \in Goal[s]
    PROVE  Uses(s, k) /\ k.port \in DOMAIN s.ports
<1>1. /\ NameOf(k).kind = k.kind /\ NameOf(k).port = k.port
      /\ NameOf(k).at = k.at /\ NameOf(k).num = k.num
    BY DEF NameOf
<1>2. \A p, a, n, i :
         /\ NameOf(Backend(None, p)).kind = "backend" /\ NameOf(Backend(None, p)).port = p
         /\ NameOf(Frontend(None, p, i)).kind = "frontend"
         /\ NameOf(Frontend(None, p, i)).port = p
    BY DEF NameOf, Backend, Frontend
<1>3. \A p, a, n, i :
         /\ NameOf(Bind(None, p, a, n, i)).kind = "bind" /\ NameOf(Bind(None, p, a, n, i)).port = p
         /\ NameOf(Bind(None, p, a, n, i)).at = a /\ NameOf(Bind(None, p, a, n, i)).num = n
    BY DEF NameOf, Bind
<1>4. \A p, a, n, i :
         /\ NameOf(Server(None, p, a, n, i)).kind = "server"
         /\ NameOf(Server(None, p, a, n, i)).port = p
         /\ NameOf(Server(None, p, a, n, i)).at = a /\ NameOf(Server(None, p, a, n, i)).num = n
    BY DEF NameOf, Server
<1>5. \/ \E p \in DOMAIN s.ports : NameOf(k) = NameOf(Backend(None, p))
      \/ \E p \in DOMAIN s.ports : NameOf(k) = NameOf(Frontend(None, p, None))
      \/ \E p \in DOMAIN s.ports, a \in s.externalAddresses :
            NameOf(k) = NameOf(Bind(None, p, a, s.ports[p].External, None))
      \/ \E p \in DOMAIN s.ports, n \in s.targetServers :
            NameOf(k) = NameOf(Server(None, p, n, s.ports[p].Internal, None))
    BY DEF Goal
<1>6. CASE \/ \E p \in DOMAIN s.ports : NameOf(k) = NameOf(Backend(None, p))
           \/ \E p \in DOMAIN s.ports : NameOf(k) = NameOf(Frontend(None, p, None))
    BY <1>1, <1>2, <1>6 DEF Uses
<1>7. CASE \E p \in DOMAIN s.ports, a \in s.externalAddresses :
              NameOf(k) = NameOf(Bind(None, p, a, s.ports[p].External, None))
    BY <1>1, <1>3, <1>7 DEF Uses
<1>8. CASE \E p \in DOMAIN s.ports, n \in s.targetServers :
              NameOf(k) = NameOf(Server(None, p, n, s.ports[p].Internal, None))
    BY <1>1, <1>4, <1>8 DEF Uses
<1> QED
    BY <1>5, <1>6, <1>7, <1>8

------------------------------------------------------------------------------
\* After a step, too, a resource of the Service builds on another one.
LEMMA NextOwnRef ==
    ASSUME Inv', PlansFit', NEW lb \in LBs, NEW i \in Own(lb)', key'[i].kind # "backend"
    PROVE  /\ key'[i].ref \in Own(lb)'
           /\ key'[key'[i].ref].kind = RefKind[key'[i].kind]
           /\ key'[key'[i].ref].port = key'[i].port
           /\ key'[i].kind \in {"frontend", "bind", "server"}
<1> USE DEF Inv, TypeOK, EngineTypeOK
<1>1. i \in alive' /\ i \in Ids /\ key'[i] # NoKey /\ key'[i] \in Keys /\ key'[i].lb = lb
    BY DEF Own
<1>2. WellBuilt(key[i])'
    BY DEF PlansFit
<1>3. /\ key'[i].ref \in Ids /\ key'[key'[i].ref].lb = lb
      /\ key'[key'[i].ref].kind = RefKind[key'[i].kind]
      /\ key'[key'[i].ref].port = key'[i].port
      /\ key'[i].ref \in alive' => tag'[key'[i].ref] = "svc"
    BY <1>1, <1>2 DEF WellBuilt
<1>4. key'[i].ref \in alive'
    BY <1>1, <1>3, EngineConstants DEF PlansFit, RefsStay
<1> QED
    BY <1>1, <1>3, <1>4 DEF Own, Keys, Kinds

\* With one port, what a resource builds on covers all ports.
LEMMA SingleWhole ==
    ASSUME Inv', PlansFit', SinglePorts, NEW lb \in LBs, NEW s \in Specs,
           \A i \in Own(lb)' : key'[i].port \in DOMAIN s.ports
    PROVE  Whole(Own(lb))'
<1>1. ASSUME NEW i \in Own(lb)', key'[i].kind \in {"frontend", "server"},
             NEW p \in DOMAIN s.ports
      PROVE  \E b \in Own(lb)' : key'[b].kind = "backend" /\ key'[b].port = p
  <2>1. /\ key'[i].ref \in Own(lb)' /\ key'[key'[i].ref].kind = "backend"
        /\ key'[key'[i].ref].port = key'[i].port
    BY <1>1, NextOwnRef DEF RefKind
  <2> QED
    BY <1>1, <2>1 DEF SinglePorts
<1>2. ASSUME NEW i \in Own(lb)', key'[i].kind = "bind", NEW p \in DOMAIN s.ports
      PROVE  \E f \in Own(lb)' : key'[f].kind = "frontend" /\ key'[f].port = p
  <2>1. /\ key'[i].ref \in Own(lb)' /\ key'[key'[i].ref].kind = "frontend"
        /\ key'[key'[i].ref].port = key'[i].port
    BY <1>2, NextOwnRef DEF RefKind
  <2> QED
    BY <1>2, <2>1 DEF SinglePorts
<1>3. ASSUME NEW i \in Own(lb)', key'[i].kind # "backend", NEW p \in DOMAIN s.ports
      PROVE  \E b \in Own(lb)' : key'[b].kind = "backend" /\ key'[b].port = p
    BY <1>1, <1>2, <1>3, NextOwnRef
<1> QED
    BY <1>2, <1>3 DEF Whole, Covered

\* While ports are kept no backend and no frontend disappears.
LEMMA CoveredKept ==
    ASSUME SamePorts, Inv, ChangesFit, [Next]_vars, NEW lb \in LBs,
           NEW kind \in {"backend", "frontend"}, NEW D, Covered(Own(lb), kind, D)
    PROVE  \A p \in D : \E i \in Own(lb)' : key'[i].kind = kind /\ key'[i].port = p
<1>1. \A i \in Own(lb) : i \in Ids /\ key[i] # NoKey /\ key'[i] = key[i]
    BY OwnEffect DEF Own, Inv, TypeOK, EngineTypeOK
<1>2. ASSUME NEW i \in Own(lb), key[i].kind \in {"backend", "frontend"}
      PROVE  i \in Own(lb)'
  <2>1. i \notin deleting
    BY <1>2 DEF ChangesFit
  <2>2. i \in alive'
    BY <2>1, OwnEffect DEF Own
  <2> QED
    BY <2>2, OwnEffect
<1> QED
    BY <1>1, <1>2 DEF Covered

\* What is there of the Service stays whole.
LEMMA WholeKept ==
    ASSUME PortsTogether, Inv, Inv', PlansFit, PlansFit', ChangesFit, [Next]_vars,
           NEW lb \in LBs
    PROVE  Whole(Own(lb))'
<1> USE DEF TypeOK, EngineTypeOK, LoopsTypeOK
<1>0. TypeOK /\ CurInv(lb)
    BY DEF Inv, LoopInv
<1>1. PICK s \in Specs : \A i \in Own(lb) :
          /\ key[i].port \in DOMAIN s.ports
          /\ key[i].kind # "backend" => Covered(Own(lb), "backend", DOMAIN s.ports)
          /\ key[i].kind = "bind" => Covered(Own(lb), "frontend", DOMAIN s.ports)
    BY DEF ChangesFit, Whole
<1>2. \A i \in Own(lb) : i \in Ids /\ key[i] # NoKey /\ key'[i] = key[i]
    BY <1>0, OwnEffect DEF Own
<1>4. ASSUME SamePorts, NEW kind \in {"backend", "frontend"}, NEW D, Covered(Own(lb), kind, D)
      PROVE  \A p \in D : \E i \in Own(lb)' : key'[i].kind = kind /\ key'[i].port = p
    BY <1>4, CoveredKept
<1>5. CASE Keeps(lb)
  <2>1. \A i \in Own(lb)' : i \in Own(lb) /\ key'[i].port \in DOMAIN s.ports
    BY <1>1, <1>2, <1>5 DEF Keeps
  <2>2. CASE SinglePorts
    BY <2>1, <2>2, SingleWhole
  <2>3. CASE SamePorts
    <3>1. ASSUME NEW i \in Own(lb)', key'[i].kind # "backend"
          PROVE  \A p \in DOMAIN s.ports :
                    \E b \in Own(lb)' : key'[b].kind = "backend" /\ key'[b].port = p
      BY <1>1, <1>2, <1>4, <2>1, <2>3, <3>1
    <3>2. ASSUME NEW i \in Own(lb)', key'[i].kind = "bind"
          PROVE  \A p \in DOMAIN s.ports :
                    \E f \in Own(lb)' : key'[f].kind = "frontend" /\ key'[f].port = p
      BY <1>1, <1>2, <1>4, <2>1, <2>3, <3>2
    <3> QED
      BY <2>1, <3>1, <3>2 DEF Whole, Covered
  <2> QED
    BY <2>2, <2>3 DEF PortsTogether
<1>6. CASE /\ pc[lb] = "tag" /\ EngineTag(cur[lb])
           /\ Own(lb)' \subseteq Own(lb) \cup {cur[lb]}
  <2>1. want \in Specs /\ key' = key /\ cur[lb] \in Ids /\ key[cur[lb]] # NoKey
    BY <1>0, <1>6 DEF EngineTag, CurInv
  <2>2. ASSUME NEW i \in Own(lb)' PROVE key'[i].port \in Ports
    <3>1. key[i] \in Keys /\ key[i] \in InPlan(lb)
      BY <1>0, <1>2, <1>6, <2>1 DEF InPlan
    <3>2. NameOf(key[i]) \in Goal[want]
      BY <1>6, <3>1 DEF PlansFit, PlanInv
    <3> QED
      BY <2>1, <3>1, <3>2, GoalUses DEF Ports
  <2>3. CASE SinglePorts
    BY <2>1, <2>2, <2>3, SingleWhole DEF Ports
  <2>4. CASE SamePorts
    <3>1. DOMAIN s.ports = Ports
      BY <2>1, <2>4 DEF SamePorts, Ports
    <3>2. /\ key[cur[lb]].kind # "backend" => Covered(Own(lb), "backend", Ports)
          /\ key[cur[lb]].kind = "bind" => Covered(Own(lb), "frontend", Ports)
      BY <1>6, <2>4 DEF ChangesFit, PlanCovered
    <3>3. ASSUME NEW i \in Own(lb)', key'[i].kind # "backend"
          PROVE  \A p \in Ports :
                    \E b \in Own(lb)' : key'[b].kind = "backend" /\ key'[b].port = p
      <4>1. Covered(Own(lb), "backend", Ports)
        BY <1>1, <1>6, <2>1, <3>1, <3>2, <3>3
      <4> QED
        BY <1>4, <2>4, <4>1
    <3>4. ASSUME NEW i \in Own(lb)', key'[i].kind = "bind"
          PROVE  \A p \in Ports :
                    \E f \in Own(lb)' : key'[f].kind = "frontend" /\ key'[f].port = p
      <4>1. Covered(Own(lb), "frontend", Ports)
        BY <1>1, <1>6, <2>1, <3>1, <3>2, <3>4
      <4> QED
        BY <1>4, <2>4, <4>1
    <3> QED
      BY <2>2, <3>1, <3>3, <3>4 DEF Whole, Covered
  <2> QED
    BY <2>3, <2>4 DEF PortsTogether
<1> QED
    BY <1>5, <1>6, StoreEffect

\* A plan that builds on backends or frontends was made when all were retrieved.
LEMMA PlannedCovered ==
    ASSUME SamePorts, Inv, ChangesFit, NEW lb \in LBs, AllRetrieved(lb),
           NEW k \in PlannedCreate(lb)
    PROVE  /\ k.kind # "backend" => Covered(Own(lb), "backend", Ports)
           /\ k.kind = "bind" => Covered(Own(lb), "frontend", Ports)
<1>0. SnapshotFits(lb) /\ SnapshotInv(lb) /\ pc[lb] = "get"
    BY DEF ChangesFit, Inv, LoopInv, AllRetrieved
<1>1. ASSUME NEW i \in Listed(lb), key[i].kind \in {"backend", "frontend"}
      PROVE  i \in Own(lb)
  <2>1. i \in alive
    BY <1>0, <1>1 DEF SnapshotFits
  <2> QED
    BY <1>0, <2>1 DEF SnapshotInv, Listed, Own
<1>2. ASSUME k.kind # "backend" PROVE \E p : p \in DOMAIN portBackends(lb)
  <2>1. k \notin targetBackends(lb)
    BY <1>2 DEF targetBackends, Backend
  <2>2. k \in targetFrontends(lb) \cup targetBinds(lb) \cup targetServers(lb)
    BY <2>1 DEF PlannedCreate, Missing
  <2> QED
    BY <2>2, PortKeys DEF targetFrontends, targetBinds, targetServers
<1>3. ASSUME k.kind # "backend" PROVE Covered(Own(lb), "backend", Ports)
  <2>1. Matched(targetBackends(lb), backends(lb))
    BY <1>2, <1>3 DEF portBackends
  <2>2. ASSUME NEW p \in Ports
        PROVE  \E b \in Own(lb) : key[b].kind = "backend" /\ key[b].port = p
    <3>1. PICK b \in backends(lb) : key[b] = Backend(lb, p)
      BY <2>1 DEF Matched, Missing, targetBackends
    <3>2. b \in Listed(lb) /\ key[b].kind = "backend" /\ key[b].port = p
      BY <1>0, <3>1, ListedExisting DEF Backend
    <3> QED
      BY <1>1, <3>2
  <2> QED
    BY <2>2 DEF Covered
<1>4. ASSUME k.kind = "bind" PROVE Covered(Own(lb), "frontend", Ports)
  <2>1. k \in targetBinds(lb)
    BY <1>4 DEF PlannedCreate, Missing, targetBackends, targetFrontends, targetServers,
                Backend, Frontend, Server
  <2>2. \E p : p \in DOMAIN portFrontends(lb)
    BY <2>1 DEF targetBinds
  <2>3. Matched(targetFrontends(lb), frontends(lb))
    BY <2>2 DEF portFrontends
  <2>4. DOMAIN portBackends(lb) = Ports
    BY <2>2 DEF portFrontends, portBackends
  <2>5. ASSUME NEW p \in Ports
        PROVE  \E f \in Own(lb) : key[f].kind = "frontend" /\ key[f].port = p
    <3>1. PICK f \in frontends(lb) : key[f] = Frontend(lb, p, portBackends(lb)[p])
      BY <2>3, <2>4 DEF Matched, Missing, targetFrontends
    <3>2. f \in Listed(lb) /\ key[f].kind = "frontend" /\ key[f].port = p
      BY <1>0, <3>1, ListedExisting DEF Frontend
    <3> QED
      BY <1>1, <3>2
  <2> QED
    BY <2>5 DEF Covered
<1> QED
    BY <1>3, <1>4

LEMMA PlanCoveredKept ==
    ASSUME SamePorts, Inv, ChangesFit, [Next]_vars, NEW lb \in LBs
    PROVE  PlanCovered(lb)'
<1> SUFFICES ASSUME pc'[lb] \in {"create", "tag"},
                    NEW k \in toCreate'[lb] \cup (IF pc'[lb] = "tag" THEN {key'[cur'[lb]]} ELSE {})
             PROVE  /\ k.kind # "backend" => Covered(Own(lb), "backend", Ports)'
                    /\ k.kind = "bind" => Covered(Own(lb), "frontend", Ports)'
    BY DEF PlanCovered
<1> USE DEF TypeOK, EngineTypeOK, LoopsTypeOK
<1>0. TypeOK /\ CurInv(lb) /\ CreateInv(lb) /\ PlanCovered(lb)
    BY DEF Inv, LoopInv, ChangesFit
<1>1. want' = want
    BY <1>0, PlanEffect DEF Start
<1>2. /\ k.kind # "backend" => Covered(Own(lb), "backend", Ports)
      /\ k.kind = "bind" => Covered(Own(lb), "frontend", Ports)
  <2>1. CASE CheckCreate(lb)
    <3>1. AllRetrieved(lb) /\ k \in PlannedCreate(lb)
      BY <1>0, <2>1 DEF CheckCreate, Settled
    <3> QED
      BY <3>1, PlannedCovered
  <2>2. CASE /\ pc'[lb] = pc[lb] /\ toCreate'[lb] = toCreate[lb] /\ cur'[lb] = cur[lb]
    <3>1. pc[lb] = "tag" => key'[cur[lb]] = key[cur[lb]]
      BY <1>0, OwnEffect DEF CurInv
    <3> QED
      BY <1>0, <2>2, <3>1 DEF PlanCovered
  <2>3. CASE \E m \in toCreate[lb] : Create(lb, m)
    <3>1. PICK m \in toCreate[lb] : Create(lb, m)
      BY <2>3
    <3>2. /\ pc[lb] = "create" /\ EngineCreate(m)
          /\ toCreate'[lb] = toCreate[lb] \ {m} /\ cur'[lb] = NewId
      BY <1>0, <3>1 DEF Create, CreateNext
    <3>3. key'[NewId] = m
      BY <1>0, <3>2, NewIdOK DEF EngineCreate
    <3> QED
      BY <1>0, <3>2, <3>3 DEF PlanCovered
  <2>4. CASE Tag(lb)
    <3>1. pc[lb] = "tag" /\ pc'[lb] # "tag" /\ toCreate'[lb] = toCreate[lb]
      BY <1>0, <2>4 DEF Tag
    <3> QED
      BY <1>0, <3>1 DEF PlanCovered
  <2> QED
    BY <1>0, <2>1, <2>2, <2>3, <2>4, PlanEffect
<1>3. Ports' = Ports
    BY <1>1 DEF Ports
<1>4. ASSUME NEW kind \in {"backend", "frontend"}, Covered(Own(lb), kind, Ports)
      PROVE  Covered(Own(lb), kind, Ports)'
  <2>1. \A p \in Ports : \E i \in Own(lb)' : key'[i].kind = kind /\ key'[i].port = p
    BY <1>4, CoveredKept
  <2> QED
    BY <1>3, <2>1 DEF Covered
<1> QED
    BY <1>2, <1>4

\* What is still to be destroyed is not used, so what is destroyed is not.
LEMMA WorkUnused ==
    ASSUME PortsTogether, Inv, ChangesFit, [Next]_vars, NEW lb \in LBs, pc'[lb] = "destroy"
    PROVE  \A i \in todo'[lb] \cup newToDestroy'[lb] : ~Uses(want', key'[i])
<1> USE DEF TypeOK, EngineTypeOK, LoopsTypeOK
<1>0. TypeOK /\ SnapshotFits(lb) /\ WorkInv(lb)
    BY DEF Inv, LoopInv, ChangesFit
<1>1. want' = want
    BY <1>0, PlanEffect DEF Start
<1>2. CASE CheckDestroy(lb)
  <2>1. /\ AllRetrieved(lb) /\ todo'[lb] = PlannedDestroy(lb) /\ key' = key
        /\ newToDestroy'[lb] = {}
    BY <1>0, <1>2 DEF CheckDestroy, Settled, AllRetrieved, Loop, engineVars, WorkInv
  <2> QED
    BY <1>0, <1>1, <2>1, PlannedUnused
<1>3. CASE /\ pc[lb] = "destroy"
           /\ todo'[lb] \cup newToDestroy'[lb] \subseteq todo[lb] \cup newToDestroy[lb]
  <2>1. \A i \in todo[lb] \cup newToDestroy[lb] :
            /\ ~Uses(want, key[i]) /\ i \in Ids /\ key[i] # NoKey
    BY <1>0, <1>3 DEF ChangesFit, WorkInv
  <2>2. \A i \in todo[lb] \cup newToDestroy[lb] : key'[i] = key[i]
    BY <2>1, OwnEffect
  <2> QED
    BY <1>1, <1>3, <2>1, <2>2
<1> QED
    BY <1>0, <1>2, <1>3, LoopEffect

\* While ports are kept, only binds and servers are given up.
LEMMA GivenUpKept ==
    ASSUME SamePorts, Inv, PlansFit, ChangesFit, [Next]_vars, NEW lb \in LBs,
           NEW i \in Own(lb)', i \in deleting'
    PROVE  key'[i].kind \in {"bind", "server"}
<1> USE DEF TypeOK, EngineTypeOK, LoopsTypeOK
<1>0. TypeOK /\ \A j \in Own(lb) : j \in Ids /\ key[j] # NoKey /\ key[j] \in Keys
    BY DEF Inv, Own
<1>1. CASE Keeps(lb)
  <2>1. i \in Own(lb) /\ key'[i] = key[i]
    BY <1>0, <1>1 DEF Keeps
  <2>2. CASE i \in deleting
    BY <2>1, <2>2 DEF ChangesFit
  <2>3. CASE i \notin deleting
    <3>1. PICK l \in LBs : i \in todo[l] /\ pc[l] = "destroy"
      BY <2>3, OwnEffect DEF EngineDestroy
    <3>2. ~Uses(want, key[i])
      BY <3>1 DEF ChangesFit
    <3>3. PICK s \in Specs : key[i].port \in DOMAIN s.ports
      BY <2>1 DEF ChangesFit, Whole
    <3>4. key[i].port \in DOMAIN want.ports
      BY <1>0, <3>3 DEF SamePorts
    <3> QED
      BY <1>0, <2>1, <3>2, <3>4 DEF Uses, Keys, Kinds
  <2> QED
    BY <2>2, <2>3
<1>2. CASE /\ pc[lb] = "tag" /\ EngineTag(cur[lb])
           /\ Own(lb)' \subseteq Own(lb) \cup {cur[lb]}
  <2>1. cur[lb] \notin deleting /\ deleting' = deleting /\ key' = key
    BY <1>2 DEF PlansFit, PlanInv, EngineTag
  <2>2. i \in Own(lb) \cap deleting
    BY <1>2, <2>1
  <2> QED
    BY <2>1, <2>2 DEF ChangesFit
<1> QED
    BY <1>1, <1>2, StoreEffect

\* At the start there is nothing of the Service and no reconciliation.
LEMMA ChangesFitInit == Init => ChangesFit
<1> SUFFICES ASSUME Init PROVE ChangesFit
    OBVIOUS
<1>1. \A lb \in LBs : Own(lb) = {} /\ pc[lb] = "idle"
    BY EngineConstants, InitialIsForeign DEF Init, EngineInit, Own
<1>2. \A lb \in LBs : Whole(Own(lb))
    BY <1>1 DEF Whole, Init
<1> QED
    BY <1>1, <1>2 DEF ChangesFit, SnapshotFits, PlanCovered

(***************************************************************************)
(* A Service that keeps its ports, or has only one, is built up in the     *)
(* order of ReconcileCheck and never taken apart where it is used,         *)
(* whatever fails and is retried: if the Engine refuses to destroy what    *)
(* others refer to.                                                        *)
(***************************************************************************)
THEOREM ChangesFitHolds == RefusesReferenced /\ PortsTogether => (Spec => []ChangesFit)
<1> SUFFICES ASSUME RefusesReferenced, PortsTogether PROVE Spec => []ChangesFit
    OBVIOUS
<1>1. Inv /\ Inv' /\ PlansFit /\ PlansFit' /\ ChangesFit /\ [Next]_vars => ChangesFit'
  <2> SUFFICES ASSUME Inv, Inv', PlansFit, PlansFit', ChangesFit, [Next]_vars, NEW lb \in LBs
               PROVE  /\ Whole(Own(lb))'
                      /\ SnapshotFits(lb)'
                      /\ SamePorts => PlanCovered(lb)'
                      /\ SamePorts =>
                           \A i \in Own(lb)' \cap deleting' : key'[i].kind \in {"bind", "server"}
                      /\ pc'[lb] = "destroy" =>
                           \A i \in todo'[lb] \cup newToDestroy'[lb] : ~Uses(want', key'[i])
    BY DEF ChangesFit, Uses
  <2> QED
    BY WholeKept, SnapshotFitsKept, PlanCoveredKept, GivenUpKept, WorkUnused
<1> QED
    BY <1>1, ChangesFitInit, PlansFitHolds, InvHolds, PTL DEF Spec

(***************************************************************************)
(* Changing the numbers, addresses and nodes of a Service, or the only     *)
(* port of one, destroys no resource that the Service being reconciled     *)
(* uses, whatever fails and is retried.                                    *)
(***************************************************************************)
THEOREM DestroysOnlyUnusedHolds ==
    RefusesReferenced /\ PortsTogether => (Spec => DestroysOnlyUnused)
<1> SUFFICES ASSUME RefusesReferenced, PortsTogether PROVE Spec => DestroysOnlyUnused
    OBVIOUS
<1> DEFINE OnlyUnused == \A i \in Ids : i \in deleting' /\ i \notin deleting => ~Uses(want, key[i])
<1>1. Inv /\ ChangesFit /\ [Next]_vars => [OnlyUnused]_vars
  <2> SUFFICES ASSUME Inv, ChangesFit, [Next]_vars, NEW i \in Ids,
                      i \in deleting', i \notin deleting
               PROVE  ~Uses(want, key[i])
    OBVIOUS
  <2>1. CASE \E lb \in LBs : TRUE
    <3>1. PICK l \in LBs : i \in todo[l] /\ pc[l] = "destroy"
      BY <2>1, OwnEffect DEF EngineDestroy
    <3> QED
      BY <3>1 DEF ChangesFit
  <2>2. CASE ~ \E lb \in LBs : TRUE
    BY <2>2, EngineEffect DEF engineVars, EngineUpdate, Settle, Remove
  <2> QED
    BY <2>1, <2>2
<1> QED
    BY <1>1, ChangesFitHolds, InvHolds, PTL DEF Spec, DestroysOnlyUnused

------------------------------------------------------------------------------
\* Counting: a set in one-to-one correspondence with a finite one.
LEMMA SameNumber ==
    ASSUME NEW S, NEW T, IsFiniteSet(S), NEW f \in [S -> T],
           \A x, y \in S : f[x] = f[y] => x = y,
           \A t \in T : \E x \in S : f[x] = t
    PROVE  IsFiniteSet(T) /\ Cardinality(T) = Cardinality(S)
<1>1. f \in Bijection(S, T)
    BY Fun_IsBij
<1>2. ExistsBijection(S, T)
    BY <1>1, Fun_ExistsBij
<1> QED
    BY <1>2, FS_Bijection

LEMMA DisjointNumber ==
    ASSUME NEW S, NEW T, IsFiniteSet(S), IsFiniteSet(T), S \cap T = {}
    PROVE  IsFiniteSet(S \cup T) /\ Cardinality(S \cup T) = Cardinality(S) + Cardinality(T)
<1>1. Cardinality(S) \in Nat /\ Cardinality(T) \in Nat
    BY FS_CardinalityType
<1>2. /\ IsFiniteSet(S \cup T)
      /\ Cardinality(S \cup T) = Cardinality(S) + Cardinality(T) - Cardinality(S \cap T)
    BY FS_Union
<1>3. Cardinality(S \cap T) = 0
    BY FS_EmptySet
<1> QED
    BY <1>1, <1>2, <1>3

\* Pairs with the same components are the same.
LEMMA PairsEqual ==
    ASSUME NEW S, NEW T
    PROVE  \A x, y \in S \X T : x[1] = y[1] /\ x[2] = y[2] => x = y
    OBVIOUS

\* The number of targets when backends and frontends match.
LEMMA TargetsNumber ==
    ASSUME FiniteNames, want \in Specs, NEW lb \in LBs,
           DOMAIN portBackends(lb) = Ports, DOMAIN portFrontends(lb) = Ports
    PROVE  /\ IsFiniteSet(Targets(lb))
           /\ Cardinality(Targets(lb)) =
                Cardinality(Ports) *
                  (2 + Cardinality(want.externalAddresses) + Cardinality(want.targetServers))
<1> DEFINE A == want.externalAddresses
           N == want.targetServers
           B1 == targetBackends(lb)
           B2 == targetFrontends(lb)
           B3 == targetBinds(lb)
           B4 == targetServers(lb)
<1>1. /\ IsFiniteSet(Ports) /\ IsFiniteSet(A) /\ IsFiniteSet(N)
    BY SpecPorts, FS_Subset DEF FiniteNames, Ports
<1>2. /\ Cardinality(Ports) \in Nat /\ Cardinality(A) \in Nat /\ Cardinality(N) \in Nat
    BY <1>1, FS_CardinalityType
<1>3. IsFiniteSet(B1) /\ Cardinality(B1) = Cardinality(Ports)
  <2> DEFINE f == [p \in Ports |-> Backend(lb, p)]
  <2>1. /\ f \in [Ports -> B1]
        /\ \A t \in B1 : \E p \in Ports : f[p] = t
    BY DEF targetBackends
  <2>2. \A p, q \in Ports : f[p] = f[q] => p = q
    BY DEF Backend
  <2> HIDE DEF f
  <2> QED
    BY <1>1, <2>1, <2>2, SameNumber
<1>4. IsFiniteSet(B2) /\ Cardinality(B2) = Cardinality(Ports)
  <2> DEFINE f == [p \in Ports |-> Frontend(lb, p, portBackends(lb)[p])]
  <2>1. /\ f \in [Ports -> B2]
        /\ \A t \in B2 : \E p \in Ports : f[p] = t
    BY DEF targetFrontends
  <2>2. \A p, q \in Ports : f[p] = f[q] => p = q
    BY DEF Frontend
  <2> HIDE DEF f
  <2> QED
    BY <1>1, <2>1, <2>2, SameNumber
<1>5. IsFiniteSet(B3) /\ Cardinality(B3) = Cardinality(A) * Cardinality(Ports)
  <2> DEFINE f == [x \in A \X Ports |->
                     Bind(lb, x[2], x[1], want.ports[x[2]].External, portFrontends(lb)[x[2]])]
  <2>1. f \in [A \X Ports -> B3]
    BY DEF targetBinds
  <2>2. \A t \in B3 : \E x \in A \X Ports : f[x] = t
    <3> SUFFICES ASSUME NEW t \in B3 PROVE \E x \in A \X Ports : f[x] = t
      OBVIOUS
    <3>1. PICK a \in A, p \in Ports :
              t = Bind(lb, p, a, want.ports[p].External, portFrontends(lb)[p])
      BY DEF targetBinds
    <3>2. /\ <<a, p>> \in A \X Ports
          /\ f[<<a, p>>] = Bind(lb, p, a, want.ports[p].External, portFrontends(lb)[p])
      OBVIOUS
    <3> HIDE DEF f
    <3> QED
      BY <3>1, <3>2
  <2>3. \A x, y \in A \X Ports : f[x] = f[y] => x = y
    <3> SUFFICES ASSUME NEW x \in A \X Ports, NEW y \in A \X Ports, f[x] = f[y] PROVE x = y
      OBVIOUS
    <3>1. f[x].port = x[2] /\ f[x].at = x[1] /\ f[y].port = y[2] /\ f[y].at = y[1]
      BY DEF Bind
    <3> HIDE DEF f, A
    <3>2. x[1] = y[1] /\ x[2] = y[2]
      BY <3>1
    <3>3. \A u, v \in A \X Ports : u[1] = v[1] /\ u[2] = v[2] => u = v
      BY PairsEqual
    <3> QED
      BY <3>2, <3>3
  <2>4. IsFiniteSet(A \X Ports) /\ Cardinality(A \X Ports) = Cardinality(A) * Cardinality(Ports)
    BY <1>1, FS_Product
  <2> HIDE DEF f
  <2> QED
    BY <2>1, <2>2, <2>3, <2>4, SameNumber
<1>6. IsFiniteSet(B4) /\ Cardinality(B4) = Cardinality(N) * Cardinality(Ports)
  <2> DEFINE f == [x \in N \X Ports |->
                     Server(lb, x[2], x[1], want.ports[x[2]].Internal, portBackends(lb)[x[2]])]
  <2>1. f \in [N \X Ports -> B4]
    BY DEF targetServers
  <2>2. \A t \in B4 : \E x \in N \X Ports : f[x] = t
    <3> SUFFICES ASSUME NEW t \in B4 PROVE \E x \in N \X Ports : f[x] = t
      OBVIOUS
    <3>1. PICK n \in N, p \in Ports :
              t = Server(lb, p, n, want.ports[p].Internal, portBackends(lb)[p])
      BY DEF targetServers
    <3>2. /\ <<n, p>> \in N \X Ports
          /\ f[<<n, p>>] = Server(lb, p, n, want.ports[p].Internal, portBackends(lb)[p])
      OBVIOUS
    <3> HIDE DEF f
    <3> QED
      BY <3>1, <3>2
  <2>3. \A x, y \in N \X Ports : f[x] = f[y] => x = y
    <3> SUFFICES ASSUME NEW x \in N \X Ports, NEW y \in N \X Ports, f[x] = f[y] PROVE x = y
      OBVIOUS
    <3>1. f[x].port = x[2] /\ f[x].at = x[1] /\ f[y].port = y[2] /\ f[y].at = y[1]
      BY DEF Server
    <3> HIDE DEF f, N
    <3>2. x[1] = y[1] /\ x[2] = y[2]
      BY <3>1
    <3>3. \A u, v \in N \X Ports : u[1] = v[1] /\ u[2] = v[2] => u = v
      BY PairsEqual
    <3> QED
      BY <3>2, <3>3
  <2>4. IsFiniteSet(N \X Ports) /\ Cardinality(N \X Ports) = Cardinality(N) * Cardinality(Ports)
    BY <1>1, FS_Product
  <2> HIDE DEF f
  <2> QED
    BY <2>1, <2>2, <2>3, <2>4, SameNumber
<1>7. /\ \A k \in B1 : k.kind = "backend"
      /\ \A k \in B2 : k.kind = "frontend"
      /\ \A k \in B3 : k.kind = "bind"
      /\ \A k \in B4 : k.kind = "server"
    BY DEF targetBackends, targetFrontends, targetBinds, targetServers,
           Backend, Frontend, Bind, Server
<1>8. Targets(lb) = ((B1 \cup B2) \cup B3) \cup B4
    BY DEF Targets
<1> HIDE DEF A, N, B1, B2, B3, B4
<1>9. B1 \cap B2 = {} /\ (B1 \cup B2) \cap B3 = {} /\ ((B1 \cup B2) \cup B3) \cap B4 = {}
    BY <1>7
<1>10. IsFiniteSet(B1 \cup B2) /\ Cardinality(B1 \cup B2) = Cardinality(B1) + Cardinality(B2)
    BY <1>3, <1>4, <1>9, DisjointNumber
<1>11. /\ IsFiniteSet((B1 \cup B2) \cup B3)
       /\ Cardinality((B1 \cup B2) \cup B3) = Cardinality(B1 \cup B2) + Cardinality(B3)
    BY <1>5, <1>9, <1>10, DisjointNumber
<1>12. /\ IsFiniteSet(((B1 \cup B2) \cup B3) \cup B4)
       /\ Cardinality(((B1 \cup B2) \cup B3) \cup B4) =
            Cardinality((B1 \cup B2) \cup B3) + Cardinality(B4)
    BY <1>6, <1>9, <1>11, DisjointNumber
<1>13. Cardinality(Targets(lb)) =
          Cardinality(Ports) + Cardinality(Ports) + Cardinality(A) * Cardinality(Ports)
            + Cardinality(N) * Cardinality(Ports)
    BY <1>3, <1>4, <1>5, <1>6, <1>8, <1>10, <1>11, <1>12
<1>14. \A p, a, n \in Nat : p + p + a * p + n * p = p * (2 + a + n)
    OBVIOUS
<1>15. Cardinality(Targets(lb)) = Cardinality(Ports) * (2 + Cardinality(A) + Cardinality(N))
    BY <1>2, <1>13, <1>14
<1> QED
    BY <1>8, <1>12, <1>15 DEF A, N

------------------------------------------------------------------------------
\* Where nil comes from: ReconcileCheck, or a wait for existing resources.
LEMMA ReturnEffect ==
    ASSUME TypeOK, [Next]_vars, NEW lb \in LBs, pc'[lb] = "returned", ret'[lb] = "nil"
    PROVE  \/ pc[lb] = "returned" /\ ret[lb] = "nil"
           \/ CheckComplete(lb)
           \/ pc[lb] = "waitExisting"
<1> USE DEF TypeOK, LoopsTypeOK
<1>1. CASE Start \/ Join \/ Crash
    BY <1>1 DEF Start, Join, Crash
<1>2. CASE ChangeService \/ Rest \/ UNCHANGED vars
    BY <1>2 DEF ChangeService, Rest, vars, reconVars
<1>3. CASE \E i \in Ids : SettleOk(i) \/ SettleError(i) \/ Removed(i)
    BY <1>3 DEF SettleOk, SettleError, Removed, reconVars
<1>4. CASE \E l \in LBs : l # lb /\ (Step(l) \/ FaultyStep(l))
    BY <1>4, StepApart DEF Apart
<1>5. CASE Step(lb)
  <2>1. CASE List(lb) \/ Tag(lb) \/ CheckFailed(lb) \/ CheckProgressing(lb)
    BY <2>1 DEF List, Tag, CheckFailed, CheckProgressing, Loop
  <2>2. CASE CheckUpdating(lb) \/ CheckDestroy(lb) \/ CheckCreate(lb) \/ CheckComplete(lb)
    BY <2>2 DEF CheckUpdating, CheckDestroy, CheckCreate, Return, Loop
  <2>3. CASE \E i \in Ids : Get(lb, i) \/ GetGone(lb, i) \/ Update(lb, i)
    BY <2>3 DEF Get, GetGone, Update, Return
  <2>4. CASE \E i \in Ids : Destroy(lb, i) \/ DestroyNotFound(lb, i) \/ DestroyRefused(lb, i)
    BY <2>4 DEF Destroy, DestroyNotFound, DestroyRefused, DestroyDone, DestroyRetry, DestroyNext
  <2>5. CASE DestroyPassEnd(lb)
    BY <2>5 DEF DestroyPassEnd, Return, Again
  <2>6. CASE \E k \in toCreate[lb] : Create(lb, k) \/ CreateRefused(lb, k)
    BY <2>6 DEF Create, CreateRefused, Return
  <2>7. CASE WaitDone(lb) \/ \E i \in Ids : PollReady(lb, i) \/ PollBroken(lb, i)
    BY <2>7 DEF WaitDone, PollReady, PollBroken, Waiting, AfterWait, AfterFailedWait,
                Again, Return
  <2> QED
    BY <1>5, <2>1, <2>2, <2>3, <2>4, <2>5, <2>6, <2>7 DEF Step
<1>6. CASE FaultyStep(lb)
    BY <1>6
       DEF FaultyStep, ListFailed, GetFailed, UpdateFailed, PollFailed, DestroyFailed,
           DestroyLost, DestroyRateLimited, CreateFailed, CreateLost, TagFailed, TagLost,
           Timeout, Waiting, AfterFailedWait, DestroyRetry, DestroyNext, Return, Again
<1> QED
    BY <1>1, <1>2, <1>3, <1>4, <1>5, <1>6 DEF Next

(***************************************************************************)
(* When ReconcileCheck finds nothing to do, attributes are a one-to-one    *)
(* correspondence between the resources of the Service and the targets,    *)
(* so what is there can be counted.                                        *)
(***************************************************************************)
LEMMA NothingToDo ==
    ASSUME Inv, PlansFit, FiniteNames, NEW lb \in LBs, Settled(lb),
           PlannedDestroy(lb) = {}, PlannedCreate(lb) = {},
           Existing(lb) \subseteq alive \ deleting
    PROVE  Provisioned(lb, want)
<1>0. /\ TypeOK /\ StoreInv /\ NoDuplicates /\ RefsStay /\ SnapshotInv(lb)
      /\ AllRetrieved(lb) /\ pc[lb] = "get" /\ want \in Specs
      /\ \A i \in Own(lb) : WellBuilt(key[i])
    BY DEF Inv, LoopInv, StoreInv, PlansFit, Settled, AllRetrieved, TypeOK, LoopsTypeOK
<1>1. /\ Matched(targetBackends(lb), backends(lb))
      /\ Matched(targetFrontends(lb), frontends(lb))
      /\ Matched(targetBinds(lb), filterBinds(lb))
      /\ Matched(targetServers(lb), filterServers(lb))
    BY DEF PlannedDestroy, PlannedCreate, Matched
<1>2. DOMAIN portBackends(lb) = Ports
    BY <1>1 DEF portBackends
<1>3. DOMAIN portFrontends(lb) = Ports
    BY <1>1, <1>2 DEF portFrontends
<1>4. \A i \in Existing(lb) : i \in Own(lb)
    BY <1>0, ExistingOwn DEF Own
<1>5. \A t \in Targets(lb) : \E i \in Existing(lb) : key[i] = t
    BY <1>1 DEF Targets, Matched, Missing, Existing
<1>6. \A i \in Own(lb) : key[i] \in Targets(lb)
    BY <1>0, NothingSurplus
<1>7. \A i, j \in Own(lb) : key[i] = key[j] => i = j
    BY <1>0 DEF NoDuplicates
<1>8. \A i \in Own(lb) : i \in Existing(lb)
    BY <1>4, <1>5, <1>6, <1>7
<1>9. \A p \in Ports : PortProvisioned(lb, want, p)
  <2> SUFFICES ASSUME NEW p \in Ports PROVE PortProvisioned(lb, want, p)
    OBVIOUS
  <2> DEFINE b == portBackends(lb)[p]
             f == portFrontends(lb)[p]
  <2>1. b \in Own(lb) /\ key[b] = Backend(lb, p)
    BY <1>2, <1>4, PortBackends, PortKeys DEF Existing
  <2>2. f \in Own(lb) /\ key[f] = Frontend(lb, p, b)
    BY <1>3, <1>4, PortFrontends, PortKeys DEF Existing
  <2>3. ASSUME NEW a \in want.externalAddresses
        PROVE  \E i \in Own(lb) : key[i] = Bind(lb, p, a, want.ports[p].External, f)
    <3>1. Bind(lb, p, a, want.ports[p].External, f) \in Targets(lb)
      BY <1>3 DEF Targets, targetBinds
    <3> QED
      BY <1>4, <1>5, <3>1
  <2>4. ASSUME NEW n \in want.targetServers
        PROVE  \E i \in Own(lb) : key[i] = Server(lb, p, n, want.ports[p].Internal, b)
    <3>1. Server(lb, p, n, want.ports[p].Internal, b) \in Targets(lb)
      BY <1>2 DEF Targets, targetServers
    <3> QED
      BY <1>4, <1>5, <3>1
  <2> HIDE DEF b, f
  <2> QED
    BY <2>1, <2>2, <2>3, <2>4 DEF PortProvisioned
<1>10. Cardinality(Own(lb)) = Cardinality(Targets(lb))
  <2> DEFINE f == [t \in Targets(lb) |-> CHOOSE i \in Own(lb) : key[i] = t]
  <2>1. \A t \in Targets(lb) : \E i \in Own(lb) : key[i] = t
    BY <1>4, <1>5
  <2>2. \A t \in Targets(lb) : f[t] \in Own(lb) /\ key[f[t]] = t
    BY <2>1
  <2>3. f \in [Targets(lb) -> Own(lb)]
    BY <2>2
  <2> HIDE DEF f
  <2>4. \A t, u \in Targets(lb) : f[t] = f[u] => t = u
    BY <2>2
  <2>5. \A i \in Own(lb) : \E t \in Targets(lb) : f[t] = i
    BY <1>6, <1>7, <2>2
  <2>6. IsFiniteSet(Targets(lb))
    BY <1>0, <1>2, <1>3, TargetsNumber
  <2> QED
    BY <2>3, <2>4, <2>5, <2>6, SameNumber
<1>11. \A i \in Own(lb) : state[i] = "ok" /\ i \notin deleting
    BY <1>0, <1>8 DEF Settled, SnapshotInv, Own
<1>12. Cardinality(Targets(lb)) =
          Cardinality(Ports) *
            (2 + Cardinality(want.externalAddresses) + Cardinality(want.targetServers))
    BY <1>0, <1>2, <1>3, TargetsNumber
<1> QED
    BY <1>9, <1>10, <1>11, <1>12 DEF Provisioned, Ports

(***************************************************************************)
(* A Reconcile whose last check finds nothing to do returns nil only when  *)
(* the Engine holds exactly what the Service asked for, all of it          *)
(* deployed: unless something it retrieved is on its way out.  The check   *)
(* counts no resources and reads them one by one while other               *)
(* reconciliations run and after any failure.                              *)
(***************************************************************************)
THEOREM CheckedIsCompleteHolds ==
    RefusesReferenced /\ FiniteNames => (Spec => CheckedIsComplete)
<1> SUFFICES ASSUME RefusesReferenced, FiniteNames PROVE Spec => CheckedIsComplete
    OBVIOUS
<1> DEFINE Checked ==
        \A lb \in LBs :
            /\ pc[lb] = "get" /\ pc'[lb] = "returned" /\ ret'[lb] = "nil"
            /\ Existing(lb) \subseteq alive \ deleting
            => Provisioned(lb, want)
<1>1. Inv /\ PlansFit /\ [Next]_vars => [Checked]_vars
  <2> SUFFICES ASSUME Inv, PlansFit, [Next]_vars, NEW lb \in LBs,
                      pc[lb] = "get", pc'[lb] = "returned", ret'[lb] = "nil",
                      Existing(lb) \subseteq alive \ deleting
               PROVE  Provisioned(lb, want)
    OBVIOUS
  <2>1. CheckComplete(lb)
    BY ReturnEffect DEF Inv
  <2> QED
    BY <2>1, NothingToDo DEF CheckComplete
<1> QED
    BY <1>1, PlansFitHolds, InvHolds, PTL DEF Spec, CheckedIsComplete

------------------------------------------------------------------------------
(***************************************************************************)
(* The rest is about runs without failures in which the Service changes at *)
(* most once.                                                              *)
(***************************************************************************)

\* The steps that are left.
LEMMA NoFault ==
    ASSUME NoFailures, [Next]_vars
    PROVE  \/ Start \/ Join \/ ChangeService \/ UNCHANGED vars
           \/ \E lb \in LBs : Step(lb)
           \/ \E i \in Ids : SettleOk(i) \/ Removed(i)
<1>1. \A k : ~Fault(k)
    BY DEF NoFailures, Fault
<1>2. ~Crash /\ \A i \in Ids : ~SettleError(i)
    BY <1>1 DEF Crash, SettleError
<1>3. \A lb \in LBs : ~FaultyStep(lb)
    BY <1>1 DEF FaultyStep, ListFailed, GetFailed, UpdateFailed, PollFailed, DestroyFailed,
           DestroyLost, DestroyRateLimited, CreateFailed, CreateLost, TagFailed, TagLost, Timeout
<1> QED
    BY <1>2, <1>3 DEF Next, Rest

\* What a step may do to the Service and to what is being reconciled.
LEMMA ServiceEffect ==
    ASSUME NoFailures, TypeOK, [Next]_vars
    PROVE  /\ ChangeService \/ UNCHANGED <<svc, edits>>
           /\ Start \/ want' = want
<1>1. ASSUME NEW lb \in LBs, Step(lb) PROVE svc' = svc /\ edits' = edits
    BY <1>1
       DEF serviceVars, Step, List, Get, GetGone, CheckFailed, CheckUpdating, CheckProgressing,
           CheckDestroy, CheckCreate, CheckComplete, Update, Destroy, DestroyNotFound,
           DestroyRefused, DestroyPassEnd, Create, CreateRefused, Tag, PollReady, PollBroken,
           WaitDone, DestroyDone, DestroyRetry
<1>2. ASSUME NEW lb \in LBs PROVE Start \/ want' = want
    BY PlanEffect
<1> QED
    BY <1>1, <1>2, NoFault
       DEF Start, Join, ChangeService, vars, SettleOk, Removed, serviceVars, reconVars

\* Everything of this LoadBalancer was retrieved deployed.
LEMMA OrderlySeen ==
    ASSUME Inv, ChangesFit, Orderly, NEW lb \in LBs, AllRetrieved(lb), NEW i \in Existing(lb)
    PROVE  seenAs[lb][i] = "ok"
<1>1. SnapshotFits(lb) /\ pc[lb] = "get" /\ todo[lb] = {} /\ OrderlyAt(lb)
    BY DEF ChangesFit, AllRetrieved, Orderly
<1>2. i \in Listed(lb)
    BY <1>1, ListedExisting
<1> QED
    BY <1>1, <1>2 DEF OrderlyAt, Listed

\* What was retrieved and is wanted stays.
LEMMA WantedStays ==
    ASSUME Inv, ChangesFit, Orderly, NEW lb \in LBs, AllRetrieved(lb),
           PlannedDestroy(lb) = {}, NEW i \in Existing(lb)
    PROVE  i \in alive \ deleting
<1>1. /\ SnapshotFits(lb) /\ pc[lb] = "get" /\ OrderlyAt(lb) /\ TypeOK /\ SnapshotInv(lb)
      /\ want \in Specs
    BY DEF ChangesFit, AllRetrieved, Orderly, Inv, LoopInv, TypeOK, LoopsTypeOK
<1>2. i \in Listed(lb)
    BY <1>1, ListedExisting
<1>3. key[i] \in Targets(lb)
    BY DEF Existing, PlannedDestroy, Surplus, Targets
<1>4. NameOf(key[i]) \in Goal[want] /\ key[i] \in Keys
    BY <1>1, <1>2, <1>3, TargetFits, ListedKeys
<1>5. Uses(want, key[i])
    BY <1>1, <1>4, GoalUses
<1>6. i \in alive
    BY <1>1, <1>2, <1>5 DEF OrderlyAt
<1>7. i \in Own(lb)
    BY <1>1, <1>2, <1>6 DEF Listed, SnapshotInv, Own
<1> QED
    BY <1>1, <1>5, <1>6, <1>7 DEF OrderlyAt

\* Before a change arrives there is nothing to destroy.
LEMMA CalmPlan ==
    ASSUME PortsTogether, Inv, ChangesFit, Orderly, Unchanged, NEW lb \in LBs, AllRetrieved(lb)
    PROVE  PlannedDestroy(lb) = {}
<1>1. SnapshotFits(lb) /\ pc[lb] = "get" /\ CalmAt(lb) /\ SnapshotInv(lb)
    BY DEF ChangesFit, AllRetrieved, Orderly, Inv, LoopInv
<1> SUFFICES ASSUME NEW i \in PlannedDestroy(lb) PROVE FALSE
    OBVIOUS
<1>2. i \in Listed(lb) /\ ~Uses(want, key[i])
    BY <1>1, PlannedUnused
<1>3. i \in alive
    BY <1>1, <1>2 DEF CalmAt
<1>4. i \in Own(lb)
    BY <1>1, <1>2, <1>3 DEF Listed, SnapshotInv, Own
<1> QED
    BY <1>1, <1>2, <1>4 DEF CalmAt

\* Only its own reconciliation gives a resource up, and only in the destroy loop.
LEMMA NotGivenUp ==
    ASSUME Inv, [Next]_vars, NEW lb \in LBs, pc[lb] # "destroy",
           NEW i \in alive \ deleting, key[i].lb = lb
    PROVE  i \in alive' \ deleting'
<1>1. i \in Ids
    BY DEF Inv, TypeOK, EngineTypeOK
<1>2. i \in alive'
    BY OwnEffect
<1>3. ASSUME NEW l \in LBs, NEW j \in todo[l], pc[l] = "destroy" PROVE j # i
    BY <1>3 DEF Inv, LoopInv, WorkInv
<1> QED
    BY <1>2, <1>3, OwnEffect DEF EngineDestroy

\* What a step may do to the loops of a reconciliation.
Building == {"create", "tag", "waitCreated"}

LEMMA OrderlyLoop ==
    ASSUME NoFailures, Inv, ChangesFit, Orderly, [Next]_vars, NEW lb \in LBs
    PROVE  /\ pc'[lb] \notin {"update", "waitExisting"}
           /\ pc'[lb] \in Building =>
                \/ CheckCreate(lb)
                \/ \E k \in toCreate[lb] : Create(lb, k)
                \/ Tag(lb)
                \/ \E i \in Ids : PollReady(lb, i)
                \/ pc'[lb] = pc[lb] /\ todo'[lb] = todo[lb]
           /\ pc[lb] \in Building /\ pc'[lb] \notin Building =>
                pc[lb] = "waitCreated" /\ todo[lb] = {}
<1> DEFINE Good ==
           /\ pc'[lb] \notin {"update", "waitExisting"}
           /\ pc'[lb] \in Building =>
                \/ CheckCreate(lb)
                \/ \E k \in toCreate[lb] : Create(lb, k)
                \/ Tag(lb)
                \/ \E i \in Ids : PollReady(lb, i)
                \/ pc'[lb] = pc[lb] /\ todo'[lb] = todo[lb]
           /\ pc[lb] \in Building /\ pc'[lb] \notin Building =>
                pc[lb] = "waitCreated" /\ todo[lb] = {}
<1> USE DEF Building
<1>0. TypeOK /\ OrderlyAt(lb) /\ pc[lb] \notin {"update", "waitExisting"}
    BY DEF Inv, Orderly, OrderlyAt
<1> USE DEF TypeOK, LoopsTypeOK
<1>1. CASE Start \/ Join
    BY <1>0, <1>1 DEF Start, Join
<1>2. ASSUME pc'[lb] = pc[lb] /\ todo'[lb] = todo[lb] PROVE Good
    BY <1>0, <1>2
<1>3. CASE ChangeService \/ UNCHANGED vars \/ \E i \in Ids : SettleOk(i) \/ Removed(i)
    BY <1>2, <1>3 DEF ChangeService, vars, SettleOk, Removed, reconVars
<1>4. CASE \E l \in LBs : l # lb /\ Step(l)
    BY <1>0, <1>2, <1>4, StepApart DEF Apart
<1>5. CASE Step(lb)
  <2>1. CASE List(lb) \/ \E i \in Ids : Get(lb, i) \/ GetGone(lb, i)
    BY <1>0, <2>1 DEF List, Get, GetGone, Loop, Return
  <2>2. ~CheckFailed(lb) /\ ~CheckUpdating(lb) /\ ~CheckProgressing(lb)
    <3>1. AllRetrieved(lb) => \A s : s # "ok" => SeenAs(lb, s) = {}
      BY OrderlySeen DEF SeenAs
    <3> QED
      BY <3>1 DEF CheckFailed, CheckUpdating, CheckProgressing
  <2>3. CASE CheckDestroy(lb) \/ CheckCreate(lb) \/ CheckComplete(lb)
    BY <1>0, <2>3 DEF CheckDestroy, CheckCreate, CheckComplete, Settled, AllRetrieved,
                      Loop, Return
  <2>4. \A i \in Ids : ~Update(lb, i)
    BY <1>0 DEF Update
  <2>5. CASE \E i \in Ids : Destroy(lb, i) \/ DestroyNotFound(lb, i) \/ DestroyRefused(lb, i)
    BY <1>0, <2>5 DEF Destroy, DestroyNotFound, DestroyRefused, DestroyDone, DestroyRetry,
                      DestroyNext
  <2>6. CASE DestroyPassEnd(lb)
    BY <1>0, <2>6 DEF DestroyPassEnd, Return, Again
  <2>7. CASE Tag(lb) \/ \E k \in toCreate[lb] : Create(lb, k)
    BY <1>0, <2>7 DEF Tag, Create
  <2>8. \A k \in toCreate[lb] : ~CreateRefused(lb, k)
    BY <1>0 DEF CreateRefused, CreateNext, OrderlyAt
  <2>9. CASE \E i \in Ids : PollReady(lb, i)
    BY <1>0, <2>9 DEF PollReady, Waiting
  <2>10. \A i \in Ids : ~PollBroken(lb, i)
    BY <1>0 DEF PollBroken, Waiting, OrderlyAt, Own, Orderly
  <2>11. CASE WaitDone(lb)
    BY <1>0, <2>11 DEF WaitDone, Waiting, AfterWait, Again
  <2> QED
    BY <1>5, <2>1, <2>2, <2>3, <2>4, <2>5, <2>6, <2>7, <2>8, <2>9, <2>10, <2>11 DEF Step
<1> QED
    BY <1>1, <1>3, <1>4, <1>5, NoFault

\* What a step may do to the Engine: nothing is updated and nothing fails.
LEMMA OrderlyEngine ==
    ASSUME NoFailures, Inv, Orderly, [Next]_vars
    PROVE  /\ \A i \in Ids : state'[i] \in {"pending", "ok"}
           /\ \A i \in alive : state[i] = "ok" => state'[i] = "ok"
<1> USE DEF TypeOK, EngineTypeOK, LoopsTypeOK
<1>0. TypeOK /\ \A i \in Ids : state[i] \in {"pending", "ok"}
    BY DEF Inv, Orderly
<1>1. ASSUME NEW lb \in LBs, NEW k \in toCreate[lb], EngineCreate(k)
      PROVE  /\ \A i \in Ids : state'[i] \in {"pending", "ok"}
             /\ \A i \in alive : state[i] = "ok" => state'[i] = "ok"
  <2>1. NewId \in Ids /\ key[NewId] = NoKey
    BY <1>1, NewIdOK DEF EngineCreate
  <2> QED
    BY <1>0, <1>1, <2>1 DEF EngineCreate
<1>2. CASE state' = state
    BY <1>0, <1>2
<1>3. CASE Start \/ Join \/ ChangeService \/ UNCHANGED vars
    BY <1>2, <1>3 DEF Start, Join, ChangeService, vars, engineVars
<1>4. CASE \E i \in Ids : SettleOk(i) \/ Removed(i)
    BY <1>0, <1>4 DEF SettleOk, Removed, Settle, Remove
<1>5. ASSUME NEW lb \in LBs, Step(lb)
      PROVE  state' = state \/ \E k \in toCreate[lb] : EngineCreate(k)
  <2>1. \A i \in Ids : ~Update(lb, i)
    BY DEF Orderly, OrderlyAt, Update
  <2> QED
    BY <1>5, <2>1
       DEF Step, List, Get, GetGone, CheckFailed, CheckUpdating, CheckProgressing,
           CheckDestroy, CheckCreate, CheckComplete, Destroy, DestroyNotFound,
           DestroyRefused, DestroyPassEnd, Create, CreateRefused, Tag, PollReady, PollBroken,
           WaitDone, EngineDestroy, EngineTag, engineVars
<1> QED
    BY <1>1, <1>2, <1>3, <1>4, <1>5, NoFault

\* A step from "tag" is Tag, and what it tags is there.
LEMMA OrderlyTag ==
    ASSUME NoFailures, Inv, PlansFit, ChangesFit, Orderly, [Next]_vars, NEW lb \in LBs,
           pc[lb] = "tag", pc'[lb] # "tag"
    PROVE  /\ Tag(lb) /\ pc'[lb] \in Building /\ todo'[lb] = todo[lb] \cup {cur[lb]}
           /\ cur[lb] \in Own(lb)' \ deleting' /\ UNCHANGED <<key, alive, deleting, state>>
<1> USE DEF TypeOK, EngineTypeOK, LoopsTypeOK, Building
<1>0. TypeOK /\ OrderlyAt(lb) /\ CurInv(lb) /\ PlanInv(lb)
    BY DEF Inv, LoopInv, Orderly, PlansFit
<1>1. Tag(lb)
    BY OrderlyLoop DEF CheckCreate, Settled, AllRetrieved, Create, CreateNext, PollReady, Waiting
<1>2. /\ pc'[lb] \in Building /\ todo'[lb] = todo[lb] \cup {cur[lb]}
      /\ EngineTag(cur[lb])
    BY <1>0, <1>1 DEF Tag
<1>3. cur[lb] \in alive \ deleting /\ key[cur[lb]].lb = lb /\ cur[lb] \in Ids
    BY <1>0 DEF OrderlyAt, CurInv, PlanInv
<1> QED
    BY <1>0, <1>1, <1>2, <1>3 DEF EngineTag, Own

\* Only what is not wanted is on its way out, and what was just created is not
\* deployed yet.
LEMMA OrderlyOwn ==
    ASSUME NoFailures, Inv, PlansFit, ChangesFit, Orderly, [Next]_vars, NEW lb \in LBs,
           NEW i \in Own(lb)'
    PROVE  /\ i \in deleting' => ~Uses(want', key'[i])
           /\ state'[i] # "ok" => pc'[lb] \in Building /\ i \in todo'[lb]
<1> USE DEF TypeOK, EngineTypeOK, LoopsTypeOK
<1>0. TypeOK /\ OrderlyAt(lb) /\ CalmAt(lb)
    BY DEF Inv, Orderly
<1>1. ASSUME i \in Own(lb), state'[i] # "ok" PROVE pc'[lb] \in Building /\ i \in todo'[lb]
  <2>1. state[i] # "ok"
    BY <1>1, OrderlyEngine DEF Own
  <2>2. pc[lb] \in Building /\ i \in todo[lb]
    BY <1>0, <1>1, <2>1 DEF OrderlyAt, Building
  <2>3. pc'[lb] \in Building
    BY <2>2, OrderlyLoop
  <2>4. ASSUME NEW j \in Ids, PollReady(lb, j) PROVE i \in todo'[lb]
    BY <1>0, <2>1, <2>2, <2>4 DEF PollReady, Visited
  <2>5. ASSUME NEW k \in toCreate[lb], Create(lb, k) PROVE i \in todo'[lb]
    BY <2>2, <2>5 DEF Create
  <2>6. ASSUME Tag(lb) PROVE i \in todo'[lb]
    BY <1>0, <2>2, <2>6 DEF Tag
  <2> QED
    BY <2>2, <2>3, <2>4, <2>5, <2>6, OrderlyLoop
       DEF CheckCreate, Settled, AllRetrieved, Building
<1>2. ASSUME i \in Own(lb), i \in deleting', key'[i] = key[i] PROVE ~Uses(want', key'[i])
  <2>1. CASE Start
    <3>1. deleting' = deleting /\ want' = svc
      BY <2>1 DEF Start, engineVars
    <3>2. want = svc
      BY <1>0, <1>2, <3>1 DEF CalmAt, Unchanged
    <3> QED
      BY <1>0, <1>2, <3>1, <3>2 DEF OrderlyAt
  <2>2. CASE ~Start
    <3>1. want' = want
      BY <1>0, <2>2, PlanEffect
    <3>2. CASE i \in deleting
      BY <1>0, <1>2, <3>1, <3>2 DEF OrderlyAt
    <3>3. CASE i \notin deleting
      <4>1. PICK l \in LBs : i \in todo[l] /\ pc[l] = "destroy"
        BY <1>2, <3>3, OwnEffect DEF EngineDestroy
      <4> QED
        BY <1>2, <3>1, <4>1 DEF ChangesFit
    <3> QED
      BY <3>2, <3>3
  <2> QED
    BY <2>1, <2>2
<1>3. CASE Keeps(lb)
  <2>1. i \in Own(lb) /\ key'[i] = key[i]
    BY <1>0, <1>3 DEF Keeps, Own
  <2> QED
    BY <1>1, <1>2, <2>1
<1>4. CASE /\ pc[lb] = "tag" /\ pc'[lb] # "tag"
           /\ Own(lb)' \subseteq Own(lb) \cup {cur[lb]}
  <2>1. CASE i \in Own(lb)
    BY <1>1, <1>2, <1>4, <2>1, OrderlyTag
  <2>2. CASE i = cur[lb]
    BY <1>4, <2>2, OrderlyTag
  <2> QED
    BY <1>4, <2>1, <2>2
<1> QED
    BY <1>3, <1>4, StoreEffect

\* A snapshot shows deployed resources, and misses only what is not wanted.
LEMMA OrderlySnapshot ==
    ASSUME NoFailures, Inv, ChangesFit, Orderly, [Next]_vars, NEW lb \in LBs, pc'[lb] = "get",
           NEW i \in Listed(lb)'
    PROVE  /\ i \notin alive' => ~Uses(want', key'[i])
           /\ seenAs'[lb][i] \in {"absent", "ok"}
<1> USE DEF TypeOK, EngineTypeOK, LoopsTypeOK
<1>0. TypeOK /\ OrderlyAt(lb) /\ SnapshotInv(lb)
    BY DEF Inv, LoopInv, Orderly
<1>1. want' = want
    BY <1>0, PlanEffect DEF Start
<1>2. i \in Ids /\ key[i] # NoKey /\ key'[i] = key[i]
    BY ListedKept
<1>3. CASE List(lb)
  <2>1. seenAs'[lb][i] = "absent"
    BY <1>0, <1>2, <1>3 DEF List, Loop
  <2>2. i \in alive'
    BY <1>3, ListedKept DEF Own, engineVars
  <2> QED
    BY <2>1, <2>2
<1>4. CASE ~List(lb)
  <2>1. pc[lb] = "get" /\ i \in Listed(lb)
    BY <1>4, ListedKept
  <2>2. i \in alive => i \in Own(lb)
    BY <1>0, <2>1 DEF SnapshotInv, Listed, Own
  <2>3. ASSUME i \notin alive' PROVE ~Uses(want', key'[i])
    <3>1. CASE i \notin alive
      BY <1>0, <1>1, <1>2, <2>1, <3>1 DEF OrderlyAt
    <3>2. CASE i \in alive
      <4>1. i \in deleting
        BY <2>3, <3>2, OwnEffect
      <4> QED
        BY <1>0, <1>1, <1>2, <2>2, <3>2, <4>1 DEF OrderlyAt
    <3> QED
      BY <3>1, <3>2
  <2>4. seenAs'[lb][i] \in {"absent", "ok"}
    <3>1. CASE \E j \in Ids : Get(lb, j)
      <4>1. PICK j \in Ids : Get(lb, j)
        BY <3>1
      <4>2. j \in alive /\ seenAs'[lb] = [seenAs[lb] EXCEPT ![j] = state[j]]
        BY <1>0, <4>1 DEF Get
      <4>3. i = j => state[i] = "ok"
        BY <1>0, <2>1, <2>2, <4>2 DEF OrderlyAt
      <4>4. seenAs[lb] \in [Ids -> States \cup {"absent"}]
        BY <1>0
      <4>5. seenAs[lb][i] \in {"absent", "ok"}
        BY <1>0, <2>1 DEF OrderlyAt
      <4> QED
        BY <1>2, <4>2, <4>3, <4>4, <4>5
    <3>2. CASE seenAs'[lb] = seenAs[lb]
      BY <1>0, <2>1, <3>2 DEF OrderlyAt
    <3> QED
      BY <1>0, <1>4, <3>1, <3>2, LoopEffect
  <2> QED
    BY <2>3, <2>4
<1> QED
    BY <1>3, <1>4

\* A plan made when nothing is left to destroy builds on what stays.
LEMMA PlannedCreatable ==
    ASSUME Inv, ChangesFit, Orderly, NEW lb \in LBs, AllRetrieved(lb),
           PlannedDestroy(lb) = {}, NEW k \in PlannedCreate(lb)
    PROVE  k.ref = None \/ k.ref \in alive \ deleting
<1>1. \A i \in backends(lb) \cup frontends(lb) : i \in alive \ deleting
    BY WantedStays DEF Existing
<1>2. CASE k \in targetBackends(lb)
    BY <1>2 DEF targetBackends, Backend
<1>3. CASE k \in targetFrontends(lb) \cup targetServers(lb)
  <2>1. PICK p \in DOMAIN portBackends(lb) : k.ref = portBackends(lb)[p]
    BY <1>3 DEF targetFrontends, targetServers, Frontend, Server
  <2> QED
    BY <1>1, <2>1, PortBackends
<1>4. CASE k \in targetBinds(lb)
  <2>1. PICK p \in DOMAIN portFrontends(lb) : k.ref = portFrontends(lb)[p]
    BY <1>4 DEF targetBinds, Bind
  <2> QED
    BY <1>1, <2>1, PortFrontends
<1> QED
    BY <1>2, <1>3, <1>4 DEF PlannedCreate, Missing

\* What was created stays, and so does what is built upon.
LEMMA OrderlyPlan ==
    ASSUME NoFailures, Inv, PlansFit, ChangesFit, Orderly, [Next]_vars, NEW lb \in LBs,
           pc'[lb] \in Building
    PROVE  /\ todo'[lb] \subseteq Own(lb)' \ deleting'
           /\ pc'[lb] \in {"create", "tag"} => \A k \in toCreate'[lb] : Creatable(k)'
           /\ pc'[lb] = "tag" => cur'[lb] \in alive'
<1> USE DEF TypeOK, EngineTypeOK, LoopsTypeOK, Building
<1>0. /\ TypeOK /\ OrderlyAt(lb) /\ CreateInv(lb) /\ CurInv(lb) /\ PlanInv(lb)
    BY DEF Inv, LoopInv, Orderly, PlansFit
<1>1. ASSUME pc[lb] \in Building PROVE todo[lb] \subseteq Own(lb)' \ deleting'
  <2> SUFFICES ASSUME NEW i \in todo[lb] PROVE i \in Own(lb)' \ deleting'
    OBVIOUS
  <2>1. i \in Own(lb) \ deleting
    BY <1>0, <1>1 DEF OrderlyAt
  <2>2. i \in alive' \ deleting'
    BY <1>1, <2>1, NotGivenUp DEF Own
  <2> QED
    BY <2>1, <2>2, OwnEffect
<1>2. ASSUME pc[lb] \in {"create", "tag"}, NEW k \in toCreate[lb] PROVE Creatable(k)'
  <2>1. Creatable(k) /\ k \in Keys /\ RefOK(k, lb)
    BY <1>0, <1>2 DEF OrderlyAt, CreateInv
  <2>2. CASE k.ref \in alive \ deleting
    <3>1. key[k.ref].lb = lb
      BY <1>0, <2>1, <2>2, EngineConstants DEF RefOK
    <3>2. k.ref \in alive' \ deleting'
      BY <1>2, <2>2, <3>1, NotGivenUp
    <3> QED
      BY <3>2 DEF Creatable
  <2> QED
    BY <2>1, <2>2 DEF Creatable
<1>3. CASE CheckCreate(lb)
  <2>1. /\ AllRetrieved(lb) /\ PlannedDestroy(lb) = {} /\ UNCHANGED engineVars
        /\ pc'[lb] = "create" /\ toCreate'[lb] = PlannedCreate(lb) /\ todo'[lb] = {}
    BY <1>0, <1>3 DEF CheckCreate, Settled, AllRetrieved
  <2>2. \A k \in PlannedCreate(lb) : k.ref = None \/ k.ref \in alive \ deleting
    BY <2>1, PlannedCreatable
  <2> QED
    BY <2>1, <2>2 DEF Creatable, engineVars
<1>4. CASE \E k \in toCreate[lb] : Create(lb, k)
  <2>1. PICK k \in toCreate[lb] : Create(lb, k)
    BY <1>4
  <2>2. /\ pc[lb] = "create" /\ todo'[lb] = todo[lb] /\ toCreate'[lb] = toCreate[lb] \ {k}
        /\ cur'[lb] = NewId /\ NewId \in alive'
    BY <1>0, <2>1 DEF Create, CreateNext, EngineCreate
  <2> QED
    BY <1>1, <1>2, <2>2
<1>5. CASE Tag(lb)
  <2>1. pc[lb] = "tag" /\ pc'[lb] # "tag" /\ toCreate'[lb] = toCreate[lb]
    BY <1>0, <1>5 DEF Tag
  <2>2. todo'[lb] = todo[lb] \cup {cur[lb]} /\ cur[lb] \in Own(lb)' \ deleting'
    BY <2>1, OrderlyTag
  <2> QED
    BY <1>1, <1>2, <2>1, <2>2
<1>6. CASE \E i \in Ids : PollReady(lb, i)
  <2>1. pc[lb] = "waitCreated" /\ pc'[lb] = pc[lb] /\ todo'[lb] \subseteq todo[lb]
    BY <1>0, <1>6 DEF PollReady, Waiting, Visited, OrderlyAt
  <2> QED
    BY <1>1, <2>1
<1>7. CASE pc'[lb] = pc[lb] /\ todo'[lb] = todo[lb] /\ ~CheckCreate(lb) /\ ~Tag(lb)
           /\ ~ \E k \in toCreate[lb] : Create(lb, k)
  <2>1. pc[lb] \in {"create", "tag"} => toCreate'[lb] = toCreate[lb] /\ cur'[lb] = cur[lb]
    BY <1>0, <1>7, PlanEffect
  <2>2. pc[lb] = "tag" => cur[lb] \in alive \ deleting /\ key[cur[lb]].lb = lb
    BY <1>0 DEF OrderlyAt, CurInv, PlanInv
  <2>3. pc[lb] = "tag" => cur[lb] \in alive'
    BY <2>2, NotGivenUp
  <2> QED
    BY <1>1, <1>2, <1>7, <2>1, <2>3
<1> QED
    BY <1>3, <1>4, <1>5, <1>6, <1>7, OrderlyLoop

\* Until the change arrives nothing is given up.
LEMMA CalmKept ==
    ASSUME NoFailures, PortsTogether, Inv, PlansFit, ChangesFit, Orderly, [Next]_vars,
           NEW lb \in LBs, Unchanged'
    PROVE  /\ pc'[lb] # "destroy"
           /\ \A i \in Own(lb)' : i \notin deleting' /\ Uses(want', key'[i])
           /\ pc'[lb] = "get" => Listed(lb)' \subseteq alive'
<1> USE DEF TypeOK, EngineTypeOK, LoopsTypeOK, ServiceTypeOK
<1>0. TypeOK /\ SnapshotInv(lb) /\ PlanInv(lb) /\ (edits = 0 => want = svc)
    BY DEF Inv, LoopInv, PlansFit, Orderly
<1>1. Unchanged /\ want' = want
  <2>1. CASE Start
    <3>1. edits' = edits /\ svc' = svc /\ want' = svc
      BY <2>1 DEF Start, serviceVars
    <3> QED
      BY <1>0, <3>1 DEF Unchanged
  <2>2. CASE ChangeService
    <3>1. edits = 0 /\ want' = want
      BY <1>0, <2>2, ReconciliationConstants DEF ChangeService, reconVars, NoFailures
    <3> QED
      BY <3>1 DEF Unchanged
  <2>3. CASE ~Start /\ ~ChangeService
    BY <1>0, <2>3, ServiceEffect DEF Unchanged
  <2> QED
    BY <2>1, <2>2, <2>3
<1>2. \A l \in LBs : pc[l] # "destroy"
    BY <1>1 DEF Orderly, CalmAt
<1>3. \A i \in Own(lb) : i \notin deleting /\ Uses(want, key[i])
    BY <1>1 DEF Orderly, CalmAt
<1>4. pc'[lb] # "destroy"
  <2>1. ~CheckDestroy(lb)
    BY <1>1, CalmPlan DEF CheckDestroy, Settled
  <2> QED
    BY <1>0, <1>2, <2>1, LoopEffect
<1>5. \A i \in Ids : i \in deleting' => i \in deleting
    BY <1>2, OwnEffect
<1>6. ASSUME NEW i \in Own(lb)' PROVE i \notin deleting' /\ Uses(want', key'[i])
  <2>1. CASE Keeps(lb)
    <3>1. i \in Own(lb) /\ key'[i] = key[i] /\ i \in Ids
      BY <1>0, <1>6, <2>1 DEF Keeps, Own
    <3> QED
      BY <1>1, <1>3, <1>5, <3>1
  <2>2. CASE /\ pc[lb] = "tag" /\ pc'[lb] # "tag"
             /\ Own(lb)' \subseteq Own(lb) \cup {cur[lb]}
    <3>1. key' = key /\ deleting' = deleting /\ cur[lb] \notin deleting'
      BY <2>2, OrderlyTag
    <3>2. key[cur[lb]] \in Keys /\ NameOf(key[cur[lb]]) \in Goal[want] /\ want \in Specs
      BY <1>0, <2>2 DEF PlanInv, InPlan, Inv, LoopInv, CurInv
    <3>3. Uses(want, key[cur[lb]])
      BY <3>2, GoalUses
    <3> QED
      BY <1>1, <1>3, <1>6, <2>2, <3>1, <3>3
  <2> QED
    BY <2>1, <2>2, StoreEffect
<1>7. ASSUME pc'[lb] = "get", NEW i \in Listed(lb)' PROVE i \in alive'
  <2>1. CASE List(lb)
    BY <1>7, <2>1, ListedKept DEF Own, engineVars
  <2>2. CASE ~List(lb)
    <3>1. pc[lb] = "get" /\ i \in Listed(lb)
      BY <1>7, <2>2, ListedKept
    <3>2. i \in alive
      BY <1>1, <3>1 DEF Orderly, CalmAt
    <3>3. i \in Own(lb)
      BY <1>0, <3>1, <3>2 DEF SnapshotInv, Listed, Own
    <3> QED
      BY <1>3, <3>2, <3>3, OwnEffect
  <2> QED
    BY <2>1, <2>2
<1> QED
    BY <1>4, <1>6, <1>7

LEMMA OrderlyInit == Init => Orderly
<1> SUFFICES ASSUME Init PROVE Orderly
    OBVIOUS
<1>1. \A lb \in LBs : Own(lb) = {} /\ pc[lb] = "idle"
    BY EngineConstants, InitialIsForeign DEF Init, EngineInit, Own
<1>2. /\ \A i \in Ids : state[i] = "ok"
      /\ want = svc
    BY DEF Init, EngineInit
<1> QED
    BY <1>1, <1>2 DEF Orderly, CalmAt, OrderlyAt

(***************************************************************************)
(* Without failures, and while the Service changes once and keeps its      *)
(* ports or has only one, no resource is found failed, unfinished or       *)
(* missing, no Create is refused, and only what the Service no longer uses *)
(* is on its way out: for any number of LoadBalancers and resources.       *)
(***************************************************************************)
THEOREM OrderlyHolds ==
    RefusesReferenced /\ PortsTogether /\ NoFailures => (Spec => []Orderly)
<1> SUFFICES ASSUME RefusesReferenced, PortsTogether, NoFailures PROVE Spec => []Orderly
    OBVIOUS
<1>1. Inv /\ PlansFit /\ ChangesFit /\ Orderly /\ [Next]_vars => Orderly'
  <2> SUFFICES ASSUME Inv, PlansFit, ChangesFit, Orderly, [Next]_vars PROVE Orderly'
    OBVIOUS
  <2>0. TypeOK /\ (edits = 0 => want = svc)
    BY DEF Inv, Orderly
  <2>1. edits' = 0 => want' = svc'
    BY <2>0, ServiceEffect DEF Start, serviceVars, ChangeService, TypeOK, ServiceTypeOK
  <2>2. \A i \in Ids : state'[i] \in {"pending", "ok"}
    BY OrderlyEngine
  <2>3. ASSUME NEW lb \in LBs PROVE CalmAt(lb)'
    BY CalmKept DEF CalmAt
  <2>4. ASSUME NEW lb \in LBs PROVE OrderlyAt(lb)'
    <3>1. pc'[lb] \notin {"update", "waitExisting"}
      BY OrderlyLoop
    <3>2. \A i \in Own(lb)' :
            /\ i \in deleting' => ~Uses(want', key'[i])
            /\ state'[i] # "ok" => pc'[lb] \in Building /\ i \in todo'[lb]
      BY OrderlyOwn
    <3>3. pc'[lb] = "get" => \A i \in Listed(lb)' :
            /\ i \notin alive' => ~Uses(want', key'[i])
            /\ seenAs'[lb][i] \in {"absent", "ok"}
      BY OrderlySnapshot
    <3>4. pc'[lb] \in Building =>
            /\ todo'[lb] \subseteq Own(lb)' \ deleting'
            /\ pc'[lb] \in {"create", "tag"} => \A k \in toCreate'[lb] : Creatable(k)'
            /\ pc'[lb] = "tag" => cur'[lb] \in alive'
      BY OrderlyPlan
    <3> QED
      BY <3>1, <3>2, <3>3, <3>4 DEF OrderlyAt, Building
  <2> QED
    BY <2>1, <2>2, <2>3, <2>4 DEF Orderly
<1> QED
    BY <1>1, OrderlyInit, ChangesFitHolds, PlansFitHolds, InvHolds, PTL DEF Spec

\* What was complete when Reconcile returned stays so until the next call.
LEMMA ProvisionedKept ==
    ASSUME Inv, Orderly', [Next]_vars, NEW lb \in LBs, Provisioned(lb, want),
           pc[lb] = "returned", pc'[lb] = "returned"
    PROVE  Provisioned(lb, want)'
<1> USE DEF TypeOK, EngineTypeOK, LoopsTypeOK
<1>0. TypeOK
    BY DEF Inv
<1>1. want' = want
    BY <1>0, PlanEffect DEF Start
<1>2. \A i \in Own(lb) : i \in alive \ deleting /\ key[i].lb = lb /\ i \in Ids /\ key[i] # NoKey
    BY <1>0 DEF Provisioned, Own
<1>3. \A i \in Own(lb) : i \in Own(lb)' /\ i \notin deleting' /\ key'[i] = key[i]
    BY <1>2, NotGivenUp, OwnEffect
<1>4. Own(lb)' \subseteq Own(lb)
    BY StoreEffect DEF Keeps
<1>5. Own(lb)' = Own(lb)
    BY <1>3, <1>4
<1>6. \A i \in Own(lb)' : state'[i] = "ok" /\ i \notin deleting'
    BY <1>3, <1>4 DEF Orderly, OrderlyAt
<1>7. ASSUME NEW p \in DOMAIN want.ports PROVE PortProvisioned(lb, want, p)'
  <2>1. PortProvisioned(lb, want, p)
    BY DEF Provisioned
  <2>2. PICK b \in Own(lb), f \in Own(lb) :
          /\ key[b] = Backend(lb, p)
          /\ key[f] = Frontend(lb, p, b)
          /\ \A a \in want.externalAddresses : \E i \in Own(lb) :
               key[i] = Bind(lb, p, a, want.ports[p].External, f)
          /\ \A n \in want.targetServers : \E i \in Own(lb) :
               key[i] = Server(lb, p, n, want.ports[p].Internal, b)
    BY <2>1 DEF PortProvisioned
  <2>3. /\ b \in Own(lb)' /\ f \in Own(lb)'
        /\ key'[b] = Backend(lb, p) /\ key'[f] = Frontend(lb, p, b)
        /\ \A a \in want'.externalAddresses : \E i \in Own(lb)' :
             key'[i] = Bind(lb, p, a, want'.ports[p].External, f)
        /\ \A n \in want'.targetServers : \E i \in Own(lb)' :
             key'[i] = Server(lb, p, n, want'.ports[p].Internal, b)
    BY <1>1, <1>3, <2>2
  <2> QED
    BY <2>3 DEF PortProvisioned
<1>8. Cardinality(Own(lb)') =
        Cardinality(DOMAIN want'.ports) *
          (2 + Cardinality(want'.externalAddresses) + Cardinality(want'.targetServers))
    BY <1>1, <1>5 DEF Provisioned
<1> QED
    BY <1>1, <1>6, <1>7, <1>8 DEF Provisioned

(***************************************************************************)
(* "Once Reconcile returns without error, reconciliation is complete."     *)
(* Without failures, and while the Service changes once and keeps its      *)
(* ports or has only one, the Engine holds exactly what the Service asked  *)
(* for when Reconcile returned nil, and still does when EnsureLoadBalancer *)
(* collects the results of all LoadBalancers.                              *)
(***************************************************************************)
THEOREM NilMeansCompleteHolds ==
    RefusesReferenced /\ PortsTogether /\ FiniteNames /\ NoFailures =>
        (Spec => []NilMeansComplete)
<1> SUFFICES ASSUME RefusesReferenced, PortsTogether, FiniteNames, NoFailures
             PROVE  Spec => []NilMeansComplete
    OBVIOUS
<1>1. Init => NilMeansComplete
    BY DEF Init, NilMeansComplete
<1>2. /\ Inv /\ PlansFit /\ ChangesFit /\ Orderly /\ Orderly' /\ NilMeansComplete
      /\ [Next]_vars
      => NilMeansComplete'
  <2> SUFFICES ASSUME Inv, PlansFit, ChangesFit, Orderly, Orderly', NilMeansComplete,
                      [Next]_vars, NEW lb \in LBs, pc'[lb] = "returned", ret'[lb] = "nil"
               PROVE  Provisioned(lb, want)'
    BY DEF NilMeansComplete
  <2>1. CASE pc[lb] = "returned" /\ ret[lb] = "nil"
    BY <2>1, ProvisionedKept DEF NilMeansComplete
  <2>2. CASE CheckComplete(lb)
    <3>1. Settled(lb) /\ AllRetrieved(lb) /\ PlannedDestroy(lb) = {} /\ PlannedCreate(lb) = {}
      BY <2>2 DEF CheckComplete, Settled
    <3>2. Provisioned(lb, want)
      BY <3>1, WantedStays, NothingToDo
    <3>3. UNCHANGED <<key, alive, deleting, state, tag, want>>
      BY <2>2 DEF CheckComplete, Return, engineVars
    <3> QED
      BY <3>2, <3>3 DEF Provisioned, PortProvisioned, Own
  <2> QED
    BY <2>1, <2>2, ReturnEffect DEF Inv, Orderly, OrderlyAt
<1> QED
    BY <1>1, <1>2, OrderlyHolds, ChangesFitHolds, PlansFitHolds, InvHolds, PTL DEF Spec
=============================================================================
