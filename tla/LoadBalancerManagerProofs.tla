--------------------- MODULE LoadBalancerManagerProofs ----------------------
(***************************************************************************)
(* Proofs about LoadBalancerManager for every set of Services,             *)
(* LoadBalancers, addresses, prefixes and wishes: type correctness, the    *)
(* invariants of LoadBalancerManagerInv, and what follows from them.       *)
(***************************************************************************)
EXTENDS LoadBalancerManagerInv, FiniteSetTheorems, SequenceTheorems,
        WellFoundedInduction, TLAPS

\* A set of numbers that is not empty has a least element.
LEMMA LeastIndex ==
    ASSUME NEW S \in SUBSET Nat, S # {}
    PROVE  \E i \in S : \A j \in S : i <= j
<1> DEFINE R == {x \in Nat \X Nat : x[1] < x[2]}
<1>1. IsWellFoundedOn(R, Nat)
    BY NatLessThanWellFounded DEF OpToRel
<1> HIDE DEF R
<1>2. PICK i \in S : \A j \in S : <<j, i>> \notin R
    BY <1>1, WFMin
<1>3. \A j \in S : ~(j < i)
  <2> SUFFICES ASSUME NEW j \in S, j < i PROVE <<j, i>> \in R
      BY <1>2
  <2> QED
      BY DEF R
<1> QED
    BY <1>3

\* What prefix discovery makes of the Engine's list can be allocated from.
LEMMA DiscoveredType ==
    ASSUME prefixList \in PrefixLists, NEW lost, NEW hidden
    PROVE  Discovered(lost, hidden) \in Allocatable
<1> DEFINE P == [family : Families \cup {None}, address : Addrs]
<1>1. prefixList \in Seq(PrefixType)
    BY ManagerConstants
<1>2. /\ Len(prefixList) \in Nat
      /\ DOMAIN prefixList = 1..Len(prefixList)
      /\ \A i \in DOMAIN prefixList : prefixList[i] \in PrefixType
    BY <1>1, LenProperties
<1>3. ASSUME NEW i \in 1..Len(prefixList), NEW h
      PROVE  /\ newPrefix(prefixList[i], h) \in P
             /\ [newPrefix(prefixList[i], h) EXCEPT !.family = None] \in P
    BY <1>2 DEF newPrefix, PrefixType
<1>4. Discovered(lost, hidden) \in [1..Len(prefixList) -> P]
    BY <1>2, <1>3 DEF Discovered
<1> QED
    BY <1>2, <1>4, SeqDef, ZenonT(60) DEF Allocatable

LEMMA ListsType ==
    ASSUME prefixList \in PrefixLists, prefixCache \in Allocatable \cup {None},
           NEW list \in Lists
    PROVE  list \in Allocatable
BY DiscoveredType DEF Lists

\* An address comes from a prefix of the family, or is one the Service has.
LEMMA AllocateType ==
    ASSUME NEW list \in Allocatable, NEW f, Indices(list, f) # {}
    PROVE  allocateAddress(list, f) \in Addrs
<1>1. Indices(list, f) \in SUBSET Nat /\ Indices(list, f) \subseteq 1..Len(list)
    BY LenProperties DEF Allocatable, Indices
<1>2. PICK least \in Indices(list, f) : \A j \in Indices(list, f) : least <= j
    BY <1>1, LeastIndex
<1>3. (CHOOSE i \in Indices(list, f) : \A j \in Indices(list, f) : i <= j) \in 1..Len(list)
    BY <1>1, <1>2
<1>4. \A i \in 1..Len(list) : list[i] \in [family : Families \cup {None}, address : Addrs]
    BY ElementOfSeq DEF Allocatable
<1>5. \A i \in 1..Len(list) : list[i].address \in Addrs
    BY <1>4
<1> QED
    BY <1>3, <1>5 DEF allocateAddress

LEMMA AllocatedType ==
    ASSUME TypeOK, NEW s \in Services, NEW list \in Allocatable,
           \A f \in Lacking(s) : Indices(list, f) # {}
    PROVE  Allocated(s, list) \subseteq Addrs
<1>1. IPs(arg[s].status) \subseteq Addrs
    BY DEF TypeOK, IPs, Ingress
<1>2. ASSUME NEW f \in arg[s].wish.families
      PROVE  (IF f \in Lacking(s) THEN {allocateAddress(list, f)} ELSE currentAddresses(s, f))
                 \subseteq Addrs
    BY <1>1, AllocateType DEF currentAddresses
<1> QED
    BY <1>2 DEF Allocated

\* The status is one of Kubernetes.
LEMMA StatusType ==
    ASSUME NEW s \in Services
    PROVE  lbStatusFromReconcileStatus(s) \in SUBSET Ingress
BY DEF lbStatusFromReconcileStatus, mergeReconStatus, Ingress

LEMMA TargetsType ==
    ASSUME TypeOK, NEW s \in Services
    PROVE  Targets(s) \subseteq Parts
<1>1. arg[s].wish \in WishType /\ addresses[s] \subseteq Addrs
    BY ManagerConstants DEF TypeOK
<1>2. \A p \in arg[s].wish.ports : p.name \in PortNames /\ p.num \in PortNums
    BY <1>1 DEF WishType
<1> QED
    BY <1>1, <1>2 DEF Targets, Parts

\* What leaving a call does, whatever it returns.
LEMMA ReturnEffect ==
    ASSUME TypeOK, NEW s \in Services, NEW r \in (SUBSET Ingress) \cup {None}, Return(s, r)
    PROVE  /\ pc' = [pc EXCEPT ![s] = "returned"]
           /\ result' = [result EXCEPT ![s] = r]
           /\ result' \in [Services -> (SUBSET Ingress) \cup {None}]
           /\ lock' = IF lock = s THEN None ELSE lock
           /\ holds' = [holds EXCEPT ![s] = FALSE]
           /\ addresses' = [addresses EXCEPT ![s] = {}]
           /\ unchecked' = [unchecked EXCEPT ![s] = {}]
           /\ recon' = recon
BY DEF Return, Unlock, ClearEnsure, TypeOK

\* TypeOK in parts: Services and the copies of them, calls, the rest, the mutex.
ServiceTypes ==
    /\ phase \in [Services -> {"new", "live", "deleting", "gone", "retiring", "retired"}]
    /\ wish \in [Services -> Wishes]
    /\ status \in [Services -> SUBSET Ingress]
    /\ synced \in [Services -> BOOLEAN]
    /\ arg \in [Services -> [wish : Wishes, deleted : BOOLEAN, wanted : BOOLEAN,
                             status : SUBSET Ingress]]
    /\ early \in [Services -> SUBSET LBs]

CallTypes ==
    /\ pc \in [Services -> {"idle", "called", "allocate", "check", "reconcile", "status", "returned"}]
    /\ result \in [Services -> (SUBSET Ingress) \cup {None}]
    /\ addresses \in [Services -> SUBSET Addrs]
    /\ unchecked \in [Services -> SUBSET Addrs]
    /\ recon \in [Services -> [LBs -> Outcomes]]

EngineTypes ==
    /\ prefixCache \in Allocatable \cup {None}
    /\ cacheFresh \in BOOLEAN
    /\ prefixList \in PrefixLists
    /\ store \in [Services -> [LBs -> Content]]
    /\ edits \in 0..MaxEdits
    /\ faults \in 0..MaxFaults

LockTypes ==
    /\ lock \in Services \cup {None}
    /\ holds \in [Services -> BOOLEAN]
    /\ \A s \in Services : holds[s] <=> lock = s
    /\ \A s \in Services : pc[s] = "reconcile" => holds[s]
    /\ \A s \in Services : holds[s] => pc[s] \in {"allocate", "check", "reconcile"}

LEMMA TypeParts ==
    /\ ServiceTypes /\ CallTypes /\ EngineTypes /\ LockTypes => TypeOK
    /\ (ServiceTypes /\ CallTypes /\ EngineTypes /\ LockTypes)' => TypeOK'
    /\ TypeOK => ServiceTypes /\ CallTypes /\ EngineTypes /\ LockTypes
BY DEF TypeOK, ServiceTypes, CallTypes, EngineTypes, LockTypes

LEMMA FaultType ==
    ASSUME faults \in 0..MaxFaults, NEW k, Fault(k)
    PROVE  faults' \in 0..MaxFaults
BY ManagerConstants DEF Fault

LEMMA EditType ==
    ASSUME edits \in 0..MaxEdits, Edit
    PROVE  edits' \in 0..MaxEdits
BY ManagerConstants DEF Edit

\* A call that returns leaves the types intact.
LEMMA ReturnTypes ==
    ASSUME TypeOK, NEW s \in Services, NEW r \in (SUBSET Ingress) \cup {None}, Return(s, r),
           UNCHANGED <<kubeVars, callVars, engineVars, edits>>,
           prefixCache' \in Allocatable \cup {None}, cacheFresh' \in BOOLEAN,
           faults' \in 0..MaxFaults
    PROVE  TypeOK'
<1>1. None \notin Services
    BY ManagerConstants
<1>2. ServiceTypes'
    BY TypeParts DEF ServiceTypes, kubeVars, callVars
<1>3. CallTypes'
    BY TypeParts DEF CallTypes, Return, ClearEnsure
<1>4. EngineTypes'
    BY TypeParts DEF EngineTypes, engineVars
<1>5. LockTypes'
    BY <1>1, TypeParts DEF LockTypes, CallTypes, Return, Unlock
<1> QED
    BY <1>2, <1>3, <1>4, <1>5, TypeParts

LEMMA TypeInit == Init => TypeOK
<1> SUFFICES ASSUME Init PROVE TypeOK
    OBVIOUS
<1>1. None \notin Services /\ MaxEdits \in Nat /\ MaxFaults \in Nat
    BY ManagerConstants
<1>2. ServiceTypes
    BY DEF Init, ServiceTypes
<1>3. CallTypes
    BY DEF Init, CallTypes, Outcomes
<1>4. store \in [Services -> [LBs -> Content]] /\ cacheFresh \in BOOLEAN
  <2>1. Nothing \in Content
      BY DEF Nothing, Content
  <2> QED
      BY <2>1 DEF Init
<1>5. EngineTypes
    BY <1>1, <1>4 DEF Init, EngineTypes
<1>6. LockTypes
    BY <1>1 DEF Init, LockTypes
<1> QED
    BY <1>2, <1>3, <1>5, <1>6, TypeParts

\* Steps that leave a part alone.
LEMMA Frame ==
    ASSUME TypeOK
    PROVE  /\ UNCHANGED <<kubeVars, callVars>> => ServiceTypes'
           /\ UNCHANGED <<cacheVars, engineVars, edits, faults>> => EngineTypes'
           /\ UNCHANGED <<pc, result, ensureVars>> => CallTypes' /\ LockTypes'
<1>1. ASSUME UNCHANGED <<kubeVars, callVars>> PROVE ServiceTypes'
    BY <1>1, TypeParts DEF ServiceTypes, kubeVars, callVars
<1>2. ASSUME UNCHANGED <<cacheVars, engineVars, edits, faults>> PROVE EngineTypes'
    BY <1>2, TypeParts DEF EngineTypes, cacheVars, engineVars
<1>3. ASSUME UNCHANGED <<pc, result, ensureVars>> PROVE CallTypes' /\ LockTypes'
    BY <1>3, TypeParts DEF CallTypes, LockTypes, ensureVars
<1> QED
    BY <1>1, <1>2, <1>3

\* What a reconciliation leaves on its LoadBalancer: parts of the call or parts
\* that were there, the ones on their way out among them.  When it is complete it
\* leaves exactly the parts of the call, none on its way out.
LEMMA ReconcileContent ==
    ASSUME TypeOK, NEW s \in Services, NEW lb \in LBs,
           \/ ReconcileLB(s, lb) \/ ReconcileWaits(s, lb) \/ ReconcileRefused(s, lb)
           \/ PollFailed(s, lb) \/ ReconcileFailed(s, lb) \/ TagFailed(s, lb)
    PROVE  /\ Todo(s, lb)
           /\ faults' \in 0..MaxFaults
           /\ \E c \in Content, r \in Outcomes :
                 /\ Outcome(s, lb, c, r)
                 /\ c.held \subseteq store[s][lb].held \/ c.held \subseteq Targets(s)
                 /\ store[s][lb].leaving \subseteq store[s][lb].held => c.leaving \subseteq c.held
                 /\ r = "nil" => c.held = Targets(s) /\ c.leaving = {}
<1> DEFINE c0 == store[s][lb]
           Good(c) == /\ c \in Content
                      /\ c.held \subseteq c0.held \/ c.held \subseteq Targets(s)
                      /\ c0.leaving \subseteq c0.held => c.leaving \subseteq c.held
<1>1. c0 \in Content /\ Targets(s) \subseteq Parts /\ faults \in 0..MaxFaults
    BY TargetsType DEF TypeOK
<1>2. /\ Surplus(s, lb) \subseteq c0.held /\ c0.held \ Targets(s) \subseteq Surplus(s, lb)
      /\ Staying(s, lb) \subseteq c0.held /\ Staying(s, lb) \subseteq Targets(s)
      /\ Stuck(s, lb) \subseteq Surplus(s, lb)
    BY DEF Surplus, Staying, Stuck, PortsOf, BindsOf
<1>3. {"todo", "nil", "early", "err"} = Outcomes
    BY DEF Outcomes
<1>4. ASSUME NEW c \in Torn(s, lb) PROVE Good(c)
  <2> DEFINE Free(gone) ==
               {r \in Surplus(s, lb) \ Stuck(s, lb) :
                  r.at = None => \A b \in BindsOf(c0.held \ gone) : b.name # r.name}
  <2>1. PICK gone \in SUBSET Surplus(s, lb) : \E marked \in SUBSET Free(gone) :
            c = With(c0, c0.held \ gone, (c0.leaving \cup marked) \ gone)
      BY <1>4, Zenon DEF Torn
  <2>2. PICK marked \in SUBSET Surplus(s, lb) :
            c = With(c0, c0.held \ gone, (c0.leaving \cup marked) \ gone)
      BY <2>1
  <2>3. /\ c0.held \subseteq Parts /\ c0.leaving \subseteq Parts
        /\ c0.held \ gone \subseteq Parts /\ (c0.leaving \cup marked) \ gone \subseteq Parts
      BY <1>1, <1>2 DEF Content
  <2>4. /\ c \in Content
        /\ c.held = c0.held \ gone /\ c.leaving = (c0.leaving \cup marked) \ gone
      BY <1>1, <2>2, <2>3 DEF Content, With
  <2> QED
      BY <1>2, <2>4
<1>5. ASSUME NEW c \in Built(s, lb) PROVE Good(c)
  <2>1. PICK new \in SUBSET (Targets(s) \ Staying(s, lb)), d \in BOOLEAN :
            c = [held |-> Staying(s, lb) \cup new, leaving |-> c0.leaving \cap Staying(s, lb),
                 deploying |-> d, blocked |-> c0.blocked]
      BY <1>5 DEF Built
  <2> QED
      BY <1>1, <1>2, <2>1 DEF Content
<1>6. CASE ReconcileLB(s, lb)
  <2> DEFINE doomed == c0.leaving \cap Staying(s, lb)
             c == With(c0, Targets(s), doomed)
             r == IF doomed = {} THEN "nil" ELSE "early"
  <2>1. Todo(s, lb) /\ Outcome(s, lb, c, r) /\ faults' = faults
      BY <1>6 DEF ReconcileLB, Passes, Settled
  <2>2. doomed \subseteq Parts
      BY <1>1 DEF Content
  <2>3. c \in Content /\ c.held = Targets(s) /\ c.leaving = doomed
      BY <1>1, <2>2 DEF Content, With
  <2>4. Good(c) /\ r \in Outcomes /\ (r = "nil" => c.held = Targets(s) /\ c.leaving = {})
      BY <1>2, <1>3, <2>3
  <2> HIDE DEF c, r
  <2> QED
      BY <1>1, <2>1, <2>4
<1>7. CASE ReconcileWaits(s, lb)
  <2> DEFINE c == [c0 EXCEPT !.deploying = FALSE]
  <2>1. Todo(s, lb) /\ Outcome(s, lb, c, "early") /\ faults' = faults
      BY <1>7 DEF ReconcileWaits
  <2>2. Good(c)
      BY <1>1 DEF Content
  <2> HIDE DEF c
  <2> QED
      BY <1>1, <1>3, <2>1, <2>2
<1>8. CASE ReconcileRefused(s, lb)
  <2> DEFINE kept == Staying(s, lb) \cup Stuck(s, lb)
             c == With(c0, kept, c0.leaving \cap kept)
  <2>1. Todo(s, lb) /\ Outcome(s, lb, c, "todo") /\ faults' = faults
      BY <1>8 DEF ReconcileRefused, Settled
  <2>2. kept \subseteq c0.held /\ kept \subseteq Parts /\ c0.leaving \cap kept \subseteq Parts
      BY <1>1, <1>2 DEF Content
  <2>3. Good(c)
      BY <1>1, <2>2 DEF Content, With
  <2> HIDE DEF c
  <2> QED
      BY <1>1, <1>3, <2>1, <2>3
<1>9. CASE PollFailed(s, lb)
  <2>1. PICK b \in Built(s, lb) : Outcome(s, lb, [b EXCEPT !.deploying = FALSE], "early")
      BY <1>9 DEF PollFailed
  <2> DEFINE c == [b EXCEPT !.deploying = FALSE]
  <2>2. Todo(s, lb) /\ faults' \in 0..MaxFaults
      BY <1>1, <1>9, FaultType DEF PollFailed, Passes, Settled
  <2>3. Good(c)
      BY <1>5 DEF Content
  <2>4. Outcome(s, lb, c, "early")
      BY <2>1
  <2> HIDE DEF c
  <2> QED
      BY <1>3, <2>2, <2>3, <2>4
<1>10. CASE ReconcileFailed(s, lb)
  <2>1. PICK c \in IF c0.deploying THEN {c0}
                   ELSE Torn(s, lb) \cup IF Passes(s, lb) THEN Built(s, lb) ELSE {} :
            Outcome(s, lb, c, "err")
      BY <1>10 DEF ReconcileFailed
  <2>2. Todo(s, lb) /\ faults' \in 0..MaxFaults
      BY <1>1, <1>10, FaultType DEF ReconcileFailed
  <2>3. Good(c)
      BY <1>1, <1>4, <1>5, <2>1
  <2> QED
      BY <1>3, <2>1, <2>2, <2>3
<1>11. CASE TagFailed(s, lb)
  <2>0. PICK b \in Built(s, lb) : \E q \in PortsOf(b.held) :
            Outcome(s, lb, [b EXCEPT !.blocked = @ \cup {q.name}], "err")
      BY <1>11 DEF TagFailed
  <2>1. PICK q \in PortsOf(b.held) :
            Outcome(s, lb, [b EXCEPT !.blocked = @ \cup {q.name}], "err")
      BY <2>0
  <2> DEFINE c == [b EXCEPT !.blocked = @ \cup {q.name}]
  <2>2. Todo(s, lb) /\ faults' \in 0..MaxFaults
      BY <1>1, <1>11, FaultType DEF TagFailed, Passes, Settled
  <2>3. q.name \in PortNames
      BY <1>5 DEF Content, PortsOf, Parts
  <2>4. Good(c)
      BY <1>5, <2>3 DEF Content
  <2>5. Outcome(s, lb, c, "err")
      BY <2>1
  <2> HIDE DEF c
  <2> QED
      BY <1>3, <2>2, <2>4, <2>5
<1> QED
    BY <1>6, <1>7, <1>8, <1>9, <1>10, <1>11

LEMMA OutcomeTypes ==
    ASSUME TypeOK, NEW s \in Services, NEW lb \in LBs,
           NEW c \in Content, NEW r \in Outcomes, Outcome(s, lb, c, r), faults' \in 0..MaxFaults
    PROVE  TypeOK'
<1>1. ServiceTypes'
    BY Frame DEF Outcome
<1>2. CallTypes'
    BY TypeParts DEF CallTypes, Outcome
<1>3. LockTypes'
    BY TypeParts DEF LockTypes, Outcome
<1>4. EngineTypes'
    BY TypeParts DEF EngineTypes, Outcome, cacheVars
<1> QED
    BY <1>1, <1>2, <1>3, <1>4, TypeParts

\* One step of a call, the failures aside.
LEMMA TypeEnsure ==
    ASSUME TypeOK, NEW s \in Services, Ensure(s)
    PROVE  TypeOK'
<1>0. ServiceTypes /\ CallTypes /\ EngineTypes /\ LockTypes /\ None \notin Services
    BY TypeParts, ManagerConstants
<1>1. CASE Rejected(s)
    BY <1>1, ReturnTypes DEF Rejected, ReturnError, TypeOK, cacheVars
<1>2. CASE Allocate(s)
  <2>1. PICK list \in Lists \cup {<<>>} :
            /\ IF Lacking(s) = {} THEN list = <<>> /\ UNCHANGED <<cacheVars, faults>>
                                  ELSE prefixes(list)
            /\ IF \A f \in Lacking(s) : Indices(list, f) # {}
                 THEN /\ pc' = [pc EXCEPT ![s] = "check"]
                      /\ addresses' = [addresses EXCEPT ![s] = Allocated(s, list)]
                      /\ unchecked' = [unchecked EXCEPT ![s] = Allocated(s, list)]
                      /\ UNCHANGED <<lock, holds, result, recon>>
                 ELSE ReturnError(s)
      BY <1>2 DEF Allocate
  <2>2. list \in Allocatable
      BY ListsType, EmptySeq, ZenonT(60) DEF TypeOK, Allocatable
  <2>3. /\ prefixCache' \in Allocatable \cup {None} /\ cacheFresh' \in BOOLEAN
        /\ faults' \in 0..MaxFaults
    <3>1. CASE UNCHANGED <<cacheVars, faults>>
        BY <3>1 DEF cacheVars, TypeOK
    <3>2. CASE prefixes(list)
        BY <2>2, <3>2, FaultType DEF prefixes, cacheVars, TypeOK
    <3> QED
        BY <2>1, <3>1, <3>2
  <2>4. CASE \A f \in Lacking(s) : Indices(list, f) # {}
    <3>1. Allocated(s, list) \subseteq Addrs
        BY <2>2, <2>4, AllocatedType
    <3>2. CallTypes'
      <4>1. /\ pc' = [pc EXCEPT ![s] = "check"]
            /\ addresses' = [addresses EXCEPT ![s] = Allocated(s, list)]
            /\ unchecked' = [unchecked EXCEPT ![s] = Allocated(s, list)]
            /\ UNCHANGED <<result, recon>>
          BY <2>1, <2>4
      <4> QED
          BY <1>0, <3>1, <4>1 DEF CallTypes
    <3>3. LockTypes'
        BY <1>0, <1>2, <2>1, <2>4 DEF Allocate, CallTypes, LockTypes
    <3>4. EngineTypes'
        BY <1>0, <1>2, <2>3 DEF Allocate, EngineTypes, engineVars
    <3> QED
        BY <1>2, <3>2, <3>3, <3>4, Frame, TypeParts DEF Allocate
  <2>5. CASE ~\A f \in Lacking(s) : Indices(list, f) # {}
      BY <1>2, <2>1, <2>3, <2>5, ReturnTypes DEF Allocate, ReturnError
  <2> QED
      BY <2>4, <2>5
<1>3. ASSUME NEW a \in Addrs, CheckCollision(s, a) PROVE TypeOK'
  <2>1. CASE UsedByOther(s, a)
      BY <1>3, <2>1, ReturnTypes DEF CheckCollision, ReturnError, TypeOK, cacheVars
  <2>2. CASE ~UsedByOther(s, a)
    <3>1. CallTypes'
        BY <1>0, <1>3, <2>2 DEF CheckCollision, CallTypes
    <3>2. LockTypes'
        BY <1>0, <1>3, <2>2 DEF CheckCollision, LockTypes
    <3> QED
        BY <1>3, <3>1, <3>2, Frame, TypeParts DEF CheckCollision
  <2> QED
      BY <2>1, <2>2
<1>4. CASE NoCollision(s)
  <2>1. CallTypes'
      BY <1>0, <1>4 DEF NoCollision, CallTypes, ensureVars
  <2>2. LockTypes'
      BY <1>0, <1>4 DEF NoCollision, CallTypes, LockTypes, ensureVars
  <2> QED
      BY <1>4, <2>1, <2>2, Frame, TypeParts DEF NoCollision
<1>5. ASSUME NEW lb \in LBs,
             ReconcileLB(s, lb) \/ ReconcileWaits(s, lb) \/ ReconcileRefused(s, lb)
      PROVE  TypeOK'
    BY <1>5, ReconcileContent, OutcomeTypes
<1>6. CASE ReconcileError(s)
    BY <1>6, ReturnTypes DEF ReconcileError, ReturnError, TypeOK, cacheVars
<1>7. CASE Status(s)
    BY <1>7, ReturnTypes, StatusType DEF Status, TypeOK, cacheVars
<1>8. CASE GetLoadBalancer(s)
  <2>1. CASE Created(s)
    <3>1. CallTypes'
        BY <1>0, <1>8, <2>1 DEF GetLoadBalancer, ClearEnsure, CallTypes
    <3>2. LockTypes'
        BY <1>0, <1>8, <2>1 DEF GetLoadBalancer, CallTypes, LockTypes
    <3> QED
        BY <1>8, <3>1, <3>2, Frame, TypeParts DEF GetLoadBalancer
  <2>2. CASE ~Created(s)
      BY <1>8, <2>2, ReturnTypes DEF GetLoadBalancer, TypeOK, cacheVars
  <2> QED
      BY <2>1, <2>2
<1> QED
    BY <1>1, <1>2, <1>3, <1>4, <1>5, <1>6, <1>7, <1>8 DEF Ensure

LEMMA TypeFaultyEnsure ==
    ASSUME TypeOK, NEW s \in Services, FaultyEnsure(s)
    PROVE  TypeOK'
<1>0. ServiceTypes /\ CallTypes /\ EngineTypes /\ LockTypes /\ None \notin Services
    BY TypeParts, ManagerConstants
<1>1. CASE NodeUnusable(s)
    BY <1>1, ReturnTypes, FaultType DEF NodeUnusable, ReturnError, TypeOK, cacheVars
<1>2. CASE AllocateFailed(s)
    BY <1>2, ReturnTypes, FaultType DEF AllocateFailed, ReturnError, TypeOK, cacheVars
<1>3. CASE CheckFailed(s)
    BY <1>3, ReturnTypes, FaultType DEF CheckFailed, ReturnError, TypeOK, cacheVars
<1>4. CASE NewFailed(s)
    BY <1>4, ReturnTypes, FaultType DEF NewFailed, ReturnError, TypeOK, cacheVars
<1>5. CASE StatusFailed(s)
    BY <1>5, ReturnTypes, FaultType DEF StatusFailed, ReturnError, TypeOK, cacheVars
<1>6. ASSUME NEW lb \in LBs, PollFailed(s, lb) \/ ReconcileFailed(s, lb) \/ TagFailed(s, lb)
      PROVE  TypeOK'
    BY <1>6, ReconcileContent, OutcomeTypes
<1> QED
    BY <1>1, <1>2, <1>3, <1>4, <1>5, <1>6 DEF FaultyEnsure

LEMMA TypeNext == TypeOK /\ [Next]_vars => TypeOK'
<1> SUFFICES ASSUME TypeOK, [Next]_vars PROVE TypeOK'
    OBVIOUS
<1>0. ServiceTypes /\ CallTypes /\ EngineTypes /\ LockTypes /\ None \notin Services
    BY TypeParts, ManagerConstants
<1>1. ASSUME NEW s \in Services, Sync(s) PROVE TypeOK'
  <2>1. [wish |-> wish[s], deleted |-> phase[s] = "deleting", wanted |-> phase[s] = "live",
         status |-> status[s]] \in
            [wish : Wishes, deleted : BOOLEAN, wanted : BOOLEAN, status : SUBSET Ingress]
      BY <1>0 DEF ServiceTypes
  <2>2. ServiceTypes'
      BY <1>0, <1>1, <2>1 DEF Sync, ServiceTypes, kubeVars
  <2>3. CallTypes'
      BY <1>0, <1>1 DEF Sync, CallTypes, ensureVars
  <2>4. LockTypes'
      BY <1>0, <1>1 DEF Sync, CallTypes, LockTypes, ensureVars
  <2> QED
      BY <1>1, <2>2, <2>3, <2>4, Frame, TypeParts DEF Sync
<1>2. ASSUME NEW s \in Services, Lock(s) PROVE TypeOK'
  <2>1. CallTypes'
      BY <1>0, <1>2 DEF Lock, CallTypes
  <2>2. LockTypes'
      BY <1>0, <1>2 DEF Lock, CallTypes, LockTypes
  <2> QED
      BY <1>2, <2>1, <2>2, Frame, TypeParts DEF Lock
<1>3. ASSUME NEW s \in Services, WriteStatus(s) PROVE TypeOK'
  <2>1. ServiceTypes'
      BY <1>0, <1>3 DEF WriteStatus, ServiceTypes, CallTypes
  <2>2. CallTypes'
      BY <1>0, <1>3 DEF WriteStatus, CallTypes, Outcomes
  <2>3. LockTypes'
      BY <1>0, <1>3 DEF WriteStatus, CallTypes, LockTypes, ensureVars
  <2> QED
      BY <1>3, <2>1, <2>2, <2>3, Frame, TypeParts DEF WriteStatus
<1>4. ASSUME NEW s \in Services,
             CreateService(s) \/ ChangeService(s) \/ DeleteService(s) \/ ChangeType(s)
      PROVE  TypeOK'
  <2>1. ServiceTypes'
    <3>1. CASE CreateService(s)
        BY <1>0, <3>1 DEF CreateService, ServiceTypes, callVars
    <3>2. CASE ChangeService(s)
      <4>1. PICK w \in Wishes : wish' = [wish EXCEPT ![s] = w]
          BY <3>2, ManagerConstants DEF ChangeService
      <4> QED
          BY <1>0, <3>2, <4>1 DEF ChangeService, ServiceTypes
    <3>3. CASE DeleteService(s)
        BY <1>0, <3>3 DEF DeleteService, ServiceTypes
    <3>4. CASE ChangeType(s)
        BY <1>0, <3>4 DEF ChangeType, ServiceTypes
    <3> QED
        BY <1>4, <3>1, <3>2, <3>3, <3>4
  <2>2. CallTypes' /\ LockTypes'
      BY <1>4, Frame DEF CreateService, ChangeService, DeleteService, ChangeType
  <2>3. EngineTypes'
      BY <1>0, <1>4, EditType DEF CreateService, ChangeService, DeleteService, ChangeType,
                                  EngineTypes, cacheVars, engineVars
  <2> QED
      BY <2>1, <2>2, <2>3, TypeParts
<1>5. CASE ChangePrefixes
  <2>1. EngineTypes'
      BY <1>0, <1>5, EditType DEF ChangePrefixes, EngineTypes, cacheVars
  <2> QED
      BY <1>5, <2>1, Frame, TypeParts DEF ChangePrefixes
<1>6. CASE ExpireCache
  <2>1. cacheFresh' \in BOOLEAN
      BY <1>6 DEF ExpireCache
  <2>2. EngineTypes'
      BY <1>0, <1>6, <2>1 DEF ExpireCache, EngineTypes, engineVars
  <2> QED
      BY <1>6, <2>2, Frame, TypeParts DEF ExpireCache
<1>7. CASE Crash
  <2>1. ServiceTypes'
      BY <1>0, <1>7 DEF Crash, ServiceTypes, kubeVars
  <2>2. CallTypes'
      BY <1>7 DEF Crash, CallTypes, Outcomes
  <2>3. LockTypes'
      BY <1>0, <1>7 DEF Crash, LockTypes
  <2>4. cacheFresh' \in BOOLEAN
      BY <1>7 DEF Crash
  <2>5. EngineTypes'
      BY <1>0, <1>7, <2>4, FaultType DEF Crash, EngineTypes, engineVars
  <2> QED
      BY <2>1, <2>2, <2>3, <2>5, TypeParts
<1>8. ASSUME NEW s \in Services, NEW lb \in LBs, Deployed(s, lb) \/ Vanish(s, lb) PROVE TypeOK'
  <2>1. store' \in [Services -> [LBs -> Content]]
    <3>1. store[s][lb] \in Content
        BY <1>0 DEF EngineTypes
    <3>2. CASE Deployed(s, lb)
        BY <1>0, <3>1, <3>2 DEF Deployed, EngineTypes, Content
    <3>3. CASE Vanish(s, lb)
        BY <1>0, <3>1, <3>3 DEF Vanish, EngineTypes, Content, With
    <3> QED
        BY <1>8, <3>2, <3>3
  <2>2. EngineTypes'
      BY <1>0, <1>8, <2>1 DEF Deployed, Vanish, EngineTypes, cacheVars
  <2> QED
      BY <1>8, <2>2, Frame, TypeParts DEF Deployed, Vanish
<1>9. CASE UNCHANGED vars
    BY <1>9 DEF vars, TypeOK
<1> QED
    BY <1>1, <1>2, <1>3, <1>4, <1>5, <1>6, <1>7, <1>8, <1>9, TypeEnsure, TypeFaultyEnsure
       DEF Next, Engine

(***************************************************************************)
(* Type correctness, with the mutex: only its holder reconciles, and an    *)
(* error at any point of a call releases it (EnsureLoadBalancer).          *)
(***************************************************************************)
THEOREM ManagerTypes == Spec => []TypeOK
BY TypeInit, TypeNext, PTL DEF Spec

------------------------------------------------------------------------------
\* Nothing that matters to the calls for t changes.
Same(t) ==
    /\ phase'[t] = phase[t] /\ status'[t] = status[t] /\ early'[t] = early[t]
    /\ pc'[t] = pc[t] /\ arg'[t] = arg[t] /\ result'[t] = result[t]
    /\ holds'[t] = holds[t] /\ addresses'[t] = addresses[t]
    /\ unchecked'[t] = unchecked[t] /\ recon'[t] = recon[t]
    /\ store'[t] = store[t]

LEMMA SameInv ==
    ASSUME NEW t, Same(t), ServiceInv(t)
    PROVE  ServiceInv(t)'
<1>1. Targets(t)' = Targets(t)
    BY DEF Same, Targets
<1>2. CallInv(t)'
    BY DEF Same, ServiceInv, CallInv
<1>3. StoreInv(t)'
    BY <1>1 DEF Same, ServiceInv, StoreInv
<1>4. NumbersDiffer => SocketsDiffer(t)'
    BY DEF Same, ServiceInv, SocketsDiffer, BindsOf
<1> QED
    BY <1>2, <1>3, <1>4 DEF ServiceInv, NumbersDiffer

\* What a step for s changes at all, and that it changes nothing for the others.
ReconcileStep(s, lb) ==
    \/ ReconcileLB(s, lb) \/ ReconcileWaits(s, lb) \/ ReconcileRefused(s, lb)
    \/ PollFailed(s, lb) \/ ReconcileFailed(s, lb) \/ TagFailed(s, lb)

CallStep(s) == Sync(s) \/ Lock(s) \/ Ensure(s) \/ FaultyEnsure(s) \/ WriteStatus(s)

UserStep(s) == CreateService(s) \/ ChangeService(s) \/ DeleteService(s) \/ ChangeType(s)

EngineStep(s) == \E lb \in LBs : Deployed(s, lb) \/ Vanish(s, lb)

LEMMA ReconcileEffect ==
    ASSUME TypeOK, NEW s \in Services, NEW lb \in LBs, ReconcileStep(s, lb)
    PROVE  /\ UNCHANGED <<kubeVars, callVars, pc, result, lock, holds, addresses, unchecked>>
           /\ pc[s] = "reconcile" /\ recon[s][lb] = "todo"
           /\ \E c \in Content, r \in Outcomes :
                 /\ store' = [store EXCEPT ![s][lb] = c]
                 /\ recon' = [recon EXCEPT ![s][lb] = r]
                 /\ c.held \subseteq store[s][lb].held \/ c.held \subseteq Targets(s)
                 /\ store[s][lb].leaving \subseteq store[s][lb].held => c.leaving \subseteq c.held
                 /\ r = "nil" => c.held = Targets(s) /\ c.leaving = {}
BY ReconcileContent DEF ReconcileStep, Todo, Outcome

LEMMA ReturnOthers ==
    ASSUME TypeOK, NEW s \in Services, NEW t \in Services, t # s, NEW r, Return(s, r),
           UNCHANGED <<kubeVars, callVars, engineVars>>
    PROVE  Same(t)
BY DEF Return, Unlock, ClearEnsure, Same, TypeOK, kubeVars, callVars, engineVars

LEMMA Others ==
    ASSUME TypeOK, NEW s \in Services, CallStep(s) \/ UserStep(s) \/ EngineStep(s),
           NEW t \in Services, t # s
    PROVE  Same(t)
<1> USE DEF kubeVars, callVars, ensureVars, engineVars
<1>1. CASE Sync(s)
    BY <1>1 DEF Sync, Same, TypeOK
<1>2. CASE Lock(s)
    BY <1>2 DEF Lock, Same, TypeOK
<1>3. CASE Rejected(s) \/ ReconcileError(s) \/ Status(s)
    BY <1>3, ReturnOthers DEF Rejected, ReconcileError, Status, ReturnError
<1>4. CASE Allocate(s)
  <2>1. CASE ReturnError(s)
      BY <1>4, <2>1, ReturnOthers DEF Allocate, ReturnError
  <2>2. CASE ~ReturnError(s)
      BY <1>4, <2>2 DEF Allocate, Same, TypeOK
  <2> QED
      BY <2>1, <2>2
<1>5. ASSUME NEW a \in Addrs, CheckCollision(s, a) PROVE Same(t)
  <2>1. CASE UsedByOther(s, a)
      BY <1>5, <2>1, ReturnOthers DEF CheckCollision, ReturnError
  <2>2. CASE ~UsedByOther(s, a)
      BY <1>5, <2>2 DEF CheckCollision, Same, TypeOK
  <2> QED
      BY <2>1, <2>2
<1>6. CASE NoCollision(s)
    BY <1>6 DEF NoCollision, Same, TypeOK
<1>7. ASSUME NEW lb \in LBs, ReconcileStep(s, lb) PROVE Same(t)
  <2>1. store'[t] = store[t] /\ recon'[t] = recon[t]
      BY <1>7, ReconcileEffect DEF TypeOK
  <2> QED
      BY <1>7, <2>1, ReconcileEffect DEF Same
<1>8. CASE GetLoadBalancer(s)
  <2>1. CASE Created(s)
      BY <1>8, <2>1 DEF GetLoadBalancer, ClearEnsure, Same, TypeOK
  <2>2. CASE ~Created(s)
      BY <1>8, <2>2, ReturnOthers DEF GetLoadBalancer
  <2> QED
      BY <2>1, <2>2
<1>9. CASE NodeUnusable(s) \/ AllocateFailed(s) \/ CheckFailed(s) \/ NewFailed(s) \/ StatusFailed(s)
    BY <1>9, ReturnOthers
       DEF NodeUnusable, AllocateFailed, CheckFailed, NewFailed, StatusFailed, ReturnError
<1>10. CASE WriteStatus(s)
    BY <1>10 DEF WriteStatus, Same, TypeOK
<1>11. CASE UserStep(s)
    BY <1>11 DEF UserStep, CreateService, ChangeService, DeleteService, ChangeType, Same, TypeOK
<1>12. CASE EngineStep(s)
    BY <1>12 DEF EngineStep, Deployed, Vanish, Same, TypeOK
<1> QED
    BY <1>1, <1>2, <1>3, <1>4, <1>5, <1>6, <1>7, <1>8, <1>9, <1>10, <1>11, <1>12
       DEF CallStep, Ensure, FaultyEnsure, ReconcileStep

LEMMA EngineEffect ==
    ASSUME TypeOK, NEW s \in Services, EngineStep(s)
    PROVE  /\ UNCHANGED <<kubeVars, callVars, pc, result, ensureVars>>
           /\ \A lb \in LBs :
                /\ store'[s][lb].held \subseteq store[s][lb].held
                /\ store[s][lb].leaving \subseteq store[s][lb].held =>
                     store'[s][lb].leaving \subseteq store'[s][lb].held
                /\ store[s][lb].leaving = {} =>
                     store'[s][lb].held = store[s][lb].held /\ store'[s][lb].leaving = {}
<1> DEFINE At(lb) == store[s][lb]
<1>1. PICK lb \in LBs : Deployed(s, lb) \/ Vanish(s, lb)
    BY DEF EngineStep
<1>2. UNCHANGED <<kubeVars, callVars, pc, result, ensureVars>>
    BY <1>1 DEF Deployed, Vanish
<1>3. store \in [Services -> [LBs -> Content]] /\ At(lb) \in Content
    BY DEF TypeOK
<1>4. PICK c \in Content :
         /\ store' = [store EXCEPT ![s][lb] = c]
         /\ \/ c.held = At(lb).held /\ c.leaving = At(lb).leaving
            \/ \E r \in At(lb).leaving :
                  c.held = At(lb).held \ {r} /\ c.leaving = At(lb).leaving \ {r}
  <2>1. CASE Deployed(s, lb)
    <3> DEFINE c == [At(lb) EXCEPT !.deploying = FALSE]
    <3>1. store' = [store EXCEPT ![s][lb] = c]
        BY <2>1 DEF Deployed
    <3>2. c \in Content /\ c.held = At(lb).held /\ c.leaving = At(lb).leaving
        BY <1>3 DEF Content
    <3> QED
        BY <3>1, <3>2
  <2>2. CASE Vanish(s, lb)
    <3>1. PICK r \in At(lb).leaving :
              store' = [store EXCEPT ![s][lb] =
                          With(At(lb), At(lb).held \ {r}, At(lb).leaving \ {r})]
        BY <2>2 DEF Vanish
    <3> DEFINE c == With(At(lb), At(lb).held \ {r}, At(lb).leaving \ {r})
    <3>2. /\ c \in Content
          /\ c.held = At(lb).held \ {r} /\ c.leaving = At(lb).leaving \ {r}
        BY <1>3 DEF Content, With
    <3>3. store' = [store EXCEPT ![s][lb] = c]
        BY <3>1
    <3> HIDE DEF c
    <3> QED
        BY <3>2, <3>3
  <2> QED
      BY <1>1, <2>1, <2>2
<1>5. store'[s][lb] = c /\ \A l \in LBs : l # lb => store'[s][l] = store[s][l]
    BY <1>3, <1>4
<1> QED
    BY <1>2, <1>4, <1>5

------------------------------------------------------------------------------
LEMMA ReturnInv ==
    ASSUME TypeOK, NEW s \in Services, ServiceInv(s),
           pc[s] # "idle", NEW r, Return(s, r), UNCHANGED <<kubeVars, callVars, engineVars>>,
           r # None /\ (arg[s].wanted \/ arg[s].deleted) =>
              \A lb \in LBs : recon[s][lb] \in {"nil", "early"},
           arg[s].deleted => \A lb \in LBs : recon[s][lb] = "nil" => store[s][lb].held = {}
    PROVE  ServiceInv(s)'
<1>1. /\ pc'[s] = "returned" /\ result'[s] = r
      /\ addresses'[s] = {} /\ unchecked'[s] = {}
      /\ recon' = recon /\ arg' = arg /\ store' = store /\ phase' = phase /\ early' = early
    BY DEF Return, ClearEnsure, TypeOK, kubeVars, callVars, engineVars
<1>2. CallInv(s)'
    BY <1>1 DEF ServiceInv, CallInv
<1>3. StoreInv(s)'
    BY <1>1 DEF ServiceInv, StoreInv
<1>4. NumbersDiffer => SocketsDiffer(s)'
    BY <1>1 DEF ServiceInv, SocketsDiffer, BindsOf
<1> QED
    BY <1>2, <1>3, <1>4 DEF ServiceInv, NumbersDiffer

\* A call that gives up before it reconciles, or because a reconciliation failed.
LEMMA ErrorInv ==
    ASSUME TypeOK, NEW s \in Services, ServiceInv(s), pc[s] # "idle", ReturnError(s),
           UNCHANGED <<kubeVars, callVars, engineVars>>,
           pc[s] \in {"allocate", "check", "status", "reconcile"}
    PROVE  ServiceInv(s)'
<1>1. ASSUME arg[s].deleted, NEW lb \in LBs, recon[s][lb] = "nil" PROVE store[s][lb].held = {}
  <2>1. pc[s] = "reconcile"
      BY <1>1 DEF ServiceInv, CallInv
  <2> QED
      BY <1>1, <2>1 DEF ServiceInv, StoreInv, Targets
<1> QED
    BY <1>1, ReturnInv DEF ReturnError

\* Before a call reconciles, only where it is changes.
LEMMA PrepareInv ==
    ASSUME TypeOK, NEW s \in Services, StoreInv(s), NumbersDiffer => SocketsDiffer(s),
           CallInv(s)', UNCHANGED <<phase, store, recon, early>>,
           pc[s] # "idle" \/ phase[s] # "gone",
           pc'[s] = "returned" => pc[s] = "returned" /\ arg' = arg,
           pc'[s] = "reconcile" => \A lb \in LBs : recon[s][lb] = "todo"
    PROVE  ServiceInv(s)'
<1>1. StoreInv(s)'
    BY DEF StoreInv
<1>2. NumbersDiffer => SocketsDiffer(s)'
    BY DEF SocketsDiffer, BindsOf
<1> QED
    BY <1>1, <1>2 DEF ServiceInv, NumbersDiffer

\* Ports that differ in their number have binds that do.
LEMMA TargetSockets ==
    ASSUME TypeOK, NumbersDiffer, NEW s \in Services,
           NEW b \in BindsOf(Targets(s)), NEW c \in BindsOf(Targets(s)),
           b.at = c.at, b.num = c.num
    PROVE  b = c
<1>1. \A p, q \in arg[s].wish.ports : p.num = q.num => p = q
    BY DEF TypeOK, NumbersDiffer
<1>2. ASSUME NEW x \in BindsOf(Targets(s))
      PROVE  \E a \in addresses[s], p \in arg[s].wish.ports :
                x = [name |-> p.name, at |-> a, num |-> p.num]
    BY DEF BindsOf, Targets
<1>3. PICK a \in addresses[s], p \in arg[s].wish.ports :
          b = [name |-> p.name, at |-> a, num |-> p.num]
    BY <1>2
<1>4. PICK d \in addresses[s], q \in arg[s].wish.ports :
          c = [name |-> q.name, at |-> d, num |-> q.num]
    BY <1>2
<1> QED
    BY <1>1, <1>3, <1>4

LEMMA ReconcileInv ==
    ASSUME TypeOK, NEW s \in Services, ServiceInv(s), NEW lb \in LBs, ReconcileStep(s, lb)
    PROVE  ServiceInv(s)'
<1>0. CallInv(s) /\ StoreInv(s) /\ (NumbersDiffer => SocketsDiffer(s))
    BY DEF ServiceInv
<1>1. /\ UNCHANGED <<phase, early, arg, pc, result, holds, addresses, unchecked>>
      /\ pc[s] = "reconcile"
    BY ReconcileEffect DEF kubeVars, callVars
<1>2. PICK c \in Content, r \in Outcomes :
         /\ store' = [store EXCEPT ![s][lb] = c]
         /\ recon' = [recon EXCEPT ![s][lb] = r]
         /\ c.held \subseteq store[s][lb].held \/ c.held \subseteq Targets(s)
         /\ store[s][lb].leaving \subseteq store[s][lb].held => c.leaving \subseteq c.held
         /\ r = "nil" => c.held = Targets(s) /\ c.leaving = {}
    BY ReconcileEffect
<1>3. /\ store'[s][lb] = c /\ recon'[s][lb] = r
      /\ \A l \in LBs : l # lb => store'[s][l] = store[s][l] /\ recon'[s][l] = recon[s][l]
    BY <1>2 DEF TypeOK
<1>4. Targets(s)' = Targets(s)
    BY <1>1 DEF Targets
<1>5. CallInv(s)'
    BY <1>0, <1>1 DEF CallInv
<1>6. StoreInv(s)'
    BY <1>0, <1>1, <1>2, <1>3, <1>4 DEF StoreInv
<1>7. ASSUME NumbersDiffer PROVE SocketsDiffer(s)'
  <2>1. \A b, d \in BindsOf(c.held) : b.at = d.at /\ b.num = d.num => b = d
      BY <1>0, <1>2, <1>7, TargetSockets DEF SocketsDiffer, BindsOf
  <2> QED
      BY <1>0, <1>3, <1>7, <2>1 DEF SocketsDiffer, BindsOf
<1> QED
    BY <1>5, <1>6, <1>7 DEF ServiceInv, NumbersDiffer

\* A step of a call keeps what the call knows.
LEMMA EnsureInv ==
    ASSUME TypeOK, NEW s \in Services, ServiceInv(s), Ensure(s)
    PROVE  ServiceInv(s)'
<1>0. CallInv(s) /\ StoreInv(s) /\ (NumbersDiffer => SocketsDiffer(s))
    BY DEF ServiceInv
<1>1. CASE Rejected(s) \/ ReconcileError(s)
    BY <1>1, ErrorInv DEF Rejected, ReconcileError, Joined, engineVars
<1>2. CASE Allocate(s)
  <2>1. CASE ReturnError(s)
      BY <1>2, <2>1, ErrorInv DEF Allocate, engineVars
  <2>2. CASE ~ReturnError(s)
    <3>1. /\ pc[s] = "allocate" /\ pc'[s] = "check"
          /\ UNCHANGED <<holds, recon, arg, store, phase, early>>
        BY <1>2, <2>2 DEF Allocate, TypeOK, kubeVars, callVars, engineVars
    <3>2. CallInv(s)'
        BY <1>0, <3>1 DEF CallInv
    <3> QED
        BY <1>0, <3>1, <3>2, PrepareInv
  <2> QED
      BY <2>1, <2>2
<1>3. ASSUME NEW a \in Addrs, CheckCollision(s, a) PROVE ServiceInv(s)'
  <2>1. CASE UsedByOther(s, a)
      BY <1>3, <2>1, ErrorInv DEF CheckCollision, engineVars
  <2>2. CASE ~UsedByOther(s, a)
    <3>1. /\ pc[s] = "check"
          /\ UNCHANGED <<pc, holds, addresses, recon, arg, store, phase, early>>
        BY <1>3, <2>2 DEF CheckCollision, kubeVars, callVars, engineVars
    <3>2. CallInv(s)'
        BY <1>0, <3>1 DEF CallInv
    <3> QED
        BY <1>0, <3>1, <3>2, PrepareInv
  <2> QED
      BY <2>1, <2>2
<1>4. CASE NoCollision(s)
  <2>1. /\ pc[s] = "check" /\ unchecked[s] = {}
        /\ (holds[s] /\ pc'[s] = "reconcile") \/ (~holds[s] /\ pc'[s] = "status")
        /\ UNCHANGED <<holds, addresses, unchecked, recon, arg, store, phase, early>>
      BY <1>4 DEF NoCollision, TypeOK, kubeVars, callVars, ensureVars, engineVars
  <2>2. CallInv(s)'
      BY <1>0, <2>1 DEF CallInv
  <2>3. \A lb \in LBs : recon[s][lb] = "todo"
      BY <1>0, <2>1 DEF CallInv
  <2> QED
      BY <1>0, <2>1, <2>2, <2>3, PrepareInv
<1>5. ASSUME NEW lb \in LBs,
             ReconcileLB(s, lb) \/ ReconcileWaits(s, lb) \/ ReconcileRefused(s, lb)
      PROVE  ServiceInv(s)'
    BY <1>5, ReconcileInv DEF ReconcileStep
<1>6. CASE Status(s)
  <2>1. pc[s] = "reconcile" /\ \A lb \in LBs : recon[s][lb] \in {"nil", "early"}
      BY <1>6 DEF Status, Joined, AllNil, TypeOK, Outcomes
  <2>2. arg[s].deleted => \A lb \in LBs : recon[s][lb] = "nil" => store[s][lb].held = {}
      BY <1>0, <2>1 DEF StoreInv, Targets
  <2> QED
      BY <1>6, <2>1, <2>2, ReturnInv DEF Status, engineVars
<1>7. CASE GetLoadBalancer(s)
  <2>0. pc[s] = "status" /\ ~arg[s].wanted /\ \A lb \in LBs : recon[s][lb] = "todo"
      BY <1>0, <1>7 DEF GetLoadBalancer, CallInv
  <2>1. CASE Created(s)
    <3>1. /\ pc'[s] = "called" /\ addresses'[s] = {} /\ unchecked'[s] = {}
          /\ UNCHANGED <<holds, recon, arg, store, phase, early>>
        BY <1>7, <2>1 DEF GetLoadBalancer, ClearEnsure, TypeOK, kubeVars, callVars, engineVars
    <3>2. CallInv(s)'
        BY <1>0, <2>0, <3>1 DEF CallInv
    <3> QED
        BY <1>0, <2>0, <3>1, <3>2, PrepareInv
  <2>2. CASE ~Created(s)
    <3>1. ~arg[s].deleted
        BY <1>0, <2>2 DEF CallInv, Created
    <3> QED
        BY <1>7, <2>0, <2>2, <3>1, ReturnInv DEF GetLoadBalancer, engineVars
  <2> QED
      BY <2>1, <2>2
<1> QED
    BY <1>1, <1>2, <1>3, <1>4, <1>5, <1>6, <1>7 DEF Ensure

LEMMA FaultyEnsureInv ==
    ASSUME TypeOK, NEW s \in Services, ServiceInv(s), FaultyEnsure(s)
    PROVE  ServiceInv(s)'
<1>1. CASE NodeUnusable(s) \/ AllocateFailed(s) \/ CheckFailed(s) \/ NewFailed(s) \/ StatusFailed(s)
    BY <1>1, ErrorInv
       DEF NodeUnusable, AllocateFailed, CheckFailed, NewFailed, StatusFailed, Joined, engineVars
<1>2. ASSUME NEW lb \in LBs, PollFailed(s, lb) \/ ReconcileFailed(s, lb) \/ TagFailed(s, lb)
      PROVE  ServiceInv(s)'
    BY <1>2, ReconcileInv DEF ReconcileStep
<1> QED
    BY <1>1, <1>2 DEF FaultyEnsure

LEMMA OwnInv ==
    ASSUME TypeOK, NEW s \in Services, ServiceInv(s), CallStep(s) \/ UserStep(s) \/ EngineStep(s)
    PROVE  ServiceInv(s)'
<1>0. CallInv(s) /\ StoreInv(s) /\ (NumbersDiffer => SocketsDiffer(s))
    BY DEF ServiceInv
<1>1. CASE Sync(s)
  <2>1. /\ pc[s] = "idle" /\ phase[s] \in {"live", "deleting", "retiring"}
        /\ pc'[s] \in {"called", "status", "allocate"}
        /\ pc'[s] = "status" => phase[s] = "deleting"
        /\ pc'[s] = "allocate" => phase[s] = "retiring"
        /\ arg'[s].deleted = (phase[s] = "deleting") /\ arg'[s].wanted = (phase[s] = "live")
        /\ UNCHANGED <<phase, early, addresses, unchecked, recon, store>>
      BY <1>1 DEF Sync, TypeOK, kubeVars, ensureVars, engineVars
  <2>2. CallInv(s)'
      BY <1>0, <2>1 DEF CallInv
  <2> QED
      BY <1>0, <2>1, <2>2, PrepareInv
<1>2. CASE Lock(s)
  <2>1. /\ pc[s] = "called" /\ holds'[s]
        /\ pc'[s] = IF arg[s].deleted THEN "reconcile" ELSE "allocate"
        /\ UNCHANGED <<phase, early, arg, addresses, unchecked, recon, store>>
      BY <1>2 DEF Lock, TypeOK, kubeVars, callVars, engineVars
  <2>2. CallInv(s)'
      BY <1>0, <2>1 DEF CallInv
  <2>3. \A lb \in LBs : recon[s][lb] = "todo"
      BY <1>0, <2>1 DEF CallInv
  <2> QED
      BY <1>0, <2>1, <2>2, <2>3, PrepareInv
<1>3. CASE WriteStatus(s)
  <2>1. /\ pc[s] = "returned" /\ pc'[s] = "idle"
        /\ \A lb \in LBs : recon'[s][lb] = "todo"
        /\ phase'[s] = "gone" => phase[s] = "gone" \/ (result[s] # None /\ arg[s].deleted)
        /\ result[s] # None => early'[s] = {lb \in LBs : recon[s][lb] = "early"}
        /\ UNCHANGED <<arg, addresses, unchecked, store>>
      BY <1>3 DEF WriteStatus, TypeOK, engineVars
  <2>2. CallInv(s)'
      BY <1>0, <2>1 DEF CallInv
  <2>3. phase[s] # "gone"
      BY <1>0, <2>1 DEF StoreInv
  <2>4. StoreInv(s)'
      BY <1>0, <2>1, <2>3 DEF StoreInv, CallInv
  <2>5. NumbersDiffer => SocketsDiffer(s)'
      BY <1>0, <2>1 DEF SocketsDiffer, BindsOf
  <2> QED
      BY <2>2, <2>4, <2>5 DEF ServiceInv, NumbersDiffer
<1>4. CASE UserStep(s)
  <2>1. /\ phase[s] # "gone" /\ phase'[s] # "gone"
        /\ UNCHANGED <<pc, result, arg, holds, addresses, unchecked, recon, store, early>>
      BY <1>4 DEF UserStep, CreateService, ChangeService, DeleteService, ChangeType, TypeOK,
                  callVars, ensureVars, engineVars
  <2>2. Targets(s)' = Targets(s)
      BY <2>1 DEF Targets
  <2>3. CallInv(s)'
      BY <1>0, <2>1 DEF CallInv
  <2>4. StoreInv(s)'
      BY <1>0, <2>1, <2>2 DEF StoreInv
  <2>5. NumbersDiffer => SocketsDiffer(s)'
      BY <1>0, <2>1 DEF SocketsDiffer, BindsOf
  <2> QED
      BY <2>3, <2>4, <2>5 DEF ServiceInv, NumbersDiffer
<1>5. CASE EngineStep(s)
  <2>1. UNCHANGED <<phase, early, pc, result, arg, holds, addresses, unchecked, recon>>
      BY <1>5, EngineEffect DEF kubeVars, callVars, ensureVars
  <2>2. Targets(s)' = Targets(s)
      BY <2>1 DEF Targets
  <2>3. CallInv(s)'
      BY <1>0, <2>1 DEF CallInv
  <2>4. StoreInv(s)'
      BY <1>0, <1>5, <2>1, <2>2, EngineEffect DEF StoreInv
  <2>5. NumbersDiffer => SocketsDiffer(s)'
      BY <1>0, <1>5, EngineEffect DEF SocketsDiffer, BindsOf
  <2> QED
      BY <2>3, <2>4, <2>5 DEF ServiceInv, NumbersDiffer
<1> QED
    BY <1>1, <1>2, <1>3, <1>4, <1>5, EnsureInv, FaultyEnsureInv DEF CallStep

\* A restart forgets the calls and leaves the Engine as it is.
LEMMA CrashInv ==
    ASSUME TypeOK, NEW s \in Services, ServiceInv(s), Crash
    PROVE  ServiceInv(s)'
<1>1. /\ pc'[s] = "idle" /\ addresses'[s] = {} /\ unchecked'[s] = {}
      /\ \A lb \in LBs : recon'[s][lb] = "todo"
      /\ UNCHANGED <<phase, early, arg, store>>
    BY DEF Crash, kubeVars, engineVars
<1>2. CallInv(s)'
    BY <1>1 DEF ServiceInv, CallInv
<1>3. StoreInv(s)'
    BY <1>1 DEF ServiceInv, StoreInv
<1>4. NumbersDiffer => SocketsDiffer(s)'
    BY <1>1 DEF ServiceInv, SocketsDiffer, BindsOf
<1> QED
    BY <1>2, <1>3, <1>4 DEF ServiceInv, NumbersDiffer

LEMMA Elsewhere ==
    ASSUME ChangePrefixes \/ ExpireCache \/ UNCHANGED vars, NEW s \in Services
    PROVE  Same(s)
BY DEF ChangePrefixes, ExpireCache, vars, Same, kubeVars, callVars, ensureVars, engineVars

LEMMA NextSteps ==
    ASSUME [Next]_vars
    PROVE  \/ \E s \in Services : CallStep(s) \/ UserStep(s) \/ EngineStep(s)
           \/ ChangePrefixes \/ ExpireCache \/ UNCHANGED vars
           \/ Crash
BY DEF Next, Engine, CallStep, UserStep, EngineStep

LEMMA ManagerInvInit == Init => ManagerInv
<1> SUFFICES ASSUME Init PROVE ManagerInv
    OBVIOUS
<1>1. ASSUME NEW s \in Services PROVE ServiceInv(s)
  <2>1. CallInv(s)
      BY DEF Init, CallInv
  <2>2. \A lb \in LBs : store[s][lb].held = {} /\ store[s][lb].leaving = {}
      BY DEF Init, Nothing
  <2>3. StoreInv(s)
      BY <2>2 DEF Init, StoreInv
  <2>4. SocketsDiffer(s)
      BY <2>2 DEF SocketsDiffer, BindsOf
  <2> QED
      BY <2>1, <2>3, <2>4 DEF ServiceInv
<1> QED
    BY <1>1, TypeInit DEF ManagerInv

LEMMA ManagerInvNext == ManagerInv /\ [Next]_vars => ManagerInv'
<1> SUFFICES ASSUME ManagerInv, [Next]_vars PROVE ManagerInv'
    OBVIOUS
<1>1. TypeOK /\ TypeOK' /\ \A s \in Services : ServiceInv(s)
    BY TypeNext DEF ManagerInv
<1>2. ASSUME NEW t \in Services PROVE ServiceInv(t)'
  <2>1. ASSUME NEW s \in Services, CallStep(s) \/ UserStep(s) \/ EngineStep(s)
        PROVE  ServiceInv(t)'
      BY <1>1, <2>1, OwnInv, Others, SameInv
  <2> QED
      BY <1>1, <2>1, NextSteps, CrashInv, Elsewhere, SameInv
<1> QED
    BY <1>1, <1>2 DEF ManagerInv

(***************************************************************************)
(* The invariant behind the next theorems: every LoadBalancer a running    *)
(* call has completed has exactly the parts of this call and none on its   *)
(* way out, however many workers call the manager, and whatever earlier    *)
(* attempts left on it and on the others (EnsureLoadBalancer, Reconcile).  *)
(***************************************************************************)
THEOREM ManagerInvHolds == Spec => []ManagerInv
BY ManagerInvInit, ManagerInvNext, PTL DEF Spec

(***************************************************************************)
(* Nothing of a Service that is gone is left on any LoadBalancer its       *)
(* clean-up completed, for any number of Services, LoadBalancers, workers, *)
(* failures and restarts (EnsureLoadBalancerDeleted).                      *)
(***************************************************************************)
THEOREM GoneLeavesNothingHolds == Spec => []GoneLeavesNothing
<1>1. ManagerInv => GoneLeavesNothing
    BY DEF ManagerInv, ServiceInv, StoreInv, GoneLeavesNothing
<1> QED
    BY <1>1, ManagerInvHolds, PTL

------------------------------------------------------------------------------
\* The counting of mergeReconStatus: as no LoadBalancer has a socket twice, what
\* is counted as often as there are LoadBalancers is on all of them.
LEMMA NamedEverywhere ==
    ASSUME SomeLBs, TypeOK, NEW s \in Services, SocketsDiffer(s),
           NEW a \in Addrs, NEW n \in PortNums
    PROVE  /\ NamedCount(s, a, n) <= Cardinality(LBs)
           /\ NamedCount(s, a, n) = Cardinality(LBs) <=>
                \A lb \in LBs : \E name \in PortNames :
                    [at |-> a, name |-> name, num |-> n] \in store[s][lb].held
<1> DEFINE S == {x \in LBs \X PortNames :
                    [at |-> a, name |-> x[2], num |-> n] \in store[s][x[1]].held}
           f == [x \in S |-> x[1]]
<1>0. a # None /\ IsFiniteSet(LBs)
    BY ManagerConstants DEF SomeLBs
<1>1. NamedCount(s, a, n) = Cardinality(S)
    BY Zenon DEF NamedCount
<1>2. ASSUME NEW x \in S, NEW y \in S, x[1] = y[1] PROVE x = y
  <2>1. /\ [at |-> a, name |-> x[2], num |-> n] \in BindsOf(store[s][x[1]].held)
        /\ [at |-> a, name |-> y[2], num |-> n] \in BindsOf(store[s][x[1]].held)
      BY <1>0, <1>2 DEF BindsOf
  <2>2. [at |-> a, name |-> x[2], num |-> n] = [at |-> a, name |-> y[2], num |-> n]
      BY <2>1 DEF SocketsDiffer
  <2>3. x[2] = y[2]
      BY <2>2
  <2> QED
      BY <1>2, <2>3
<1>3. f \in Injection(S, LBs)
    BY <1>2 DEF Injection, IsInjective
<1>4. f \in Surjection(S, LBs) <=> \A lb \in LBs : \E name \in PortNames : <<lb, name>> \in S
    BY DEF Surjection
<1>5. \A lb \in LBs : \A name \in PortNames :
          <<lb, name>> \in S <=> [at |-> a, name |-> name, num |-> n] \in store[s][lb].held
    OBVIOUS
<1> HIDE DEF S, f
<1>6. /\ Cardinality(S) <= Cardinality(LBs)
      /\ Cardinality(S) = Cardinality(LBs) <=> f \in Surjection(S, LBs)
    BY <1>0, <1>3, FS_Injection
<1>7. f \in Surjection(S, LBs) <=>
          \A lb \in LBs : \E name \in PortNames :
              [at |-> a, name |-> name, num |-> n] \in store[s][lb].held
    BY <1>4, <1>5, Zenon
<1> QED
    BY <1>1, <1>6, <1>7

LEMMA Merged ==
    ASSUME SomeLBs, TypeOK, NEW s \in Services, SocketsDiffer(s)
    PROVE  mergeReconStatus(s) =
             {x \in Addrs \X PortNums :
                \A lb \in LBs : \E name \in PortNames :
                    [at |-> x[1], name |-> name, num |-> x[2]] \in store[s][lb].held}
<1>1. ASSUME NEW a \in Addrs, NEW n \in PortNums
      PROVE  /\ NamedCount(s, a, n) <= Cardinality(LBs)
             /\ NamedCount(s, a, n) = Cardinality(LBs) <=>
                  \A lb \in LBs : \E name \in PortNames :
                      [at |-> a, name |-> name, num |-> n] \in store[s][lb].held
    BY NamedEverywhere
<1> QED
    BY <1>1 DEF mergeReconStatus

\* The binds among the targets.
LEMMA TargetBinds ==
    ASSUME TypeOK, NEW s \in Services
    PROVE  /\ \A b \in BindsOf(Targets(s)) :
                 /\ ~arg[s].deleted
                 /\ \E a \in addresses[s], p \in arg[s].wish.ports :
                       b = [name |-> p.name, at |-> a, num |-> p.num]
           /\ ~arg[s].deleted =>
                 \A a \in addresses[s], p \in arg[s].wish.ports :
                    [name |-> p.name, at |-> a, num |-> p.num] \in BindsOf(Targets(s))
<1>1. \A a \in addresses[s] : a # None
    BY ManagerConstants DEF TypeOK
<1> QED
    BY <1>1 DEF BindsOf, Targets

\* With one LoadBalancer that is complete, what is merged are addresses and ports
\* of the call, whatever is on the others.
LEMMA MergedAllocated ==
    ASSUME SomeLBs, TypeOK, NEW s \in Services, SocketsDiffer(s),
           NEW lb \in LBs, store[s][lb].held = Targets(s), NEW x \in mergeReconStatus(s)
    PROVE  x[1] \in addresses[s] /\ \E p \in arg[s].wish.ports : p.num = x[2]
<1>1. PICK name \in PortNames : [at |-> x[1], name |-> name, num |-> x[2]] \in Targets(s)
    BY Merged
<1>2. x[1] # None
    BY ManagerConstants, Merged
<1>3. [at |-> x[1], name |-> name, num |-> x[2]] \in BindsOf(Targets(s))
    BY <1>1, <1>2 DEF BindsOf
<1>4. PICK a \in addresses[s], p \in arg[s].wish.ports :
          [at |-> x[1], name |-> name, num |-> x[2]] = [name |-> p.name, at |-> a, num |-> p.num]
    BY <1>3, TargetBinds
<1>5. x[1] = a /\ x[2] = p.num
    BY <1>4
<1> QED
    BY <1>5

LEMMA ShownAllocated ==
    ASSUME SomeLBs, TypeOK, NEW s \in Services, SocketsDiffer(s),
           NEW lb \in LBs, store[s][lb].held = Targets(s)
    PROVE  IPs(lbStatusFromReconcileStatus(s)) \subseteq addresses[s]
BY MergedAllocated DEF lbStatusFromReconcileStatus, IPs

\* When all of them are complete, everything the call is for is merged.
LEMMA MergedAll ==
    ASSUME SomeLBs, TypeOK, NEW s \in Services, SocketsDiffer(s), ~arg[s].deleted,
           \A lb \in LBs : store[s][lb].held = Targets(s),
           NEW a \in addresses[s], NEW p \in arg[s].wish.ports
    PROVE  <<a, p.num>> \in mergeReconStatus(s)
<1>1. a \in Addrs /\ p.name \in PortNames /\ p.num \in PortNums
  <2>1. arg[s].wish \in WishType
      BY ManagerConstants DEF TypeOK
  <2> QED
      BY <2>1 DEF TypeOK, WishType
<1>2. [at |-> a, name |-> p.name, num |-> p.num] \in Targets(s)
    BY TargetBinds DEF BindsOf
<1> QED
    BY <1>1, <1>2, Merged

\* A call that is to have a status written can only have got it from Status.
LEMMA OnlyStatus ==
    ASSUME TypeOK, NEW s \in Services, CallInv(s), CallStep(s),
           pc'[s] = "returned", result'[s] # None, arg'[s].wanted
    PROVE  Status(s)
<1>1. ASSUME ReturnError(s) PROVE FALSE
    BY <1>1 DEF ReturnError, Return, TypeOK
<1>2. CASE Sync(s) \/ Lock(s) \/ WriteStatus(s)
    BY <1>2 DEF Sync, Lock, WriteStatus, TypeOK
<1>3. CASE Rejected(s) \/ ReconcileError(s) \/ NodeUnusable(s) \/ AllocateFailed(s)
             \/ CheckFailed(s) \/ NewFailed(s) \/ StatusFailed(s)
    BY <1>1, <1>3 DEF Rejected, ReconcileError, NodeUnusable, AllocateFailed, CheckFailed,
                      NewFailed, StatusFailed
<1>4. CASE Allocate(s)
    BY <1>1, <1>4 DEF Allocate, TypeOK
<1>5. ASSUME NEW a \in Addrs, CheckCollision(s, a) PROVE FALSE
    BY <1>1, <1>5 DEF CheckCollision
<1>6. CASE NoCollision(s)
    BY <1>6 DEF NoCollision, TypeOK
<1>7. ASSUME NEW lb \in LBs, ReconcileStep(s, lb) PROVE FALSE
    BY <1>7, ReconcileEffect
<1>8. CASE GetLoadBalancer(s)
    BY <1>8 DEF GetLoadBalancer, CallInv, callVars
<1> QED
    BY <1>2, <1>3, <1>4, <1>5, <1>6, <1>7, <1>8 DEF CallStep, Ensure, FaultyEnsure, ReconcileStep

\* What Status returns, and what is on the LoadBalancers by then.
LEMMA StatusEffect ==
    ASSUME TypeOK, NEW s \in Services, StoreInv(s), Status(s)
    PROVE  /\ \A lb \in LBs : recon[s][lb] \in {"nil", "early"}
           /\ \A lb \in LBs : recon[s][lb] = "nil" => store[s][lb].held = Targets(s)
           /\ result'[s] = lbStatusFromReconcileStatus(s)
           /\ UNCHANGED <<phase, status, arg, store, recon, early>>
<1>1. pc[s] = "reconcile" /\ \A lb \in LBs : recon[s][lb] \in {"nil", "early"}
    BY DEF Status, Joined, AllNil, TypeOK, Outcomes
<1> QED
    BY <1>1 DEF Status, Return, StoreInv, TypeOK, kubeVars, callVars, engineVars

\* StatusIsServed for one Service.
ServedAt(s) ==
    /\ pc[s] = "returned" /\ result[s] # None
    /\ arg[s].wanted /\ ~arg[s].wish.hostname
    =>  /\ \A lb \in LBs : recon[s][lb] = "nil" =>
             \A i \in result[s] :
                /\ i.ip \in Serves(s, lb)
                /\ \A n \in i.ports : \E b \in store[s][lb].held : b.at = i.ip /\ b.num = n
        /\ (\A lb \in LBs : recon[s][lb] = "nil") =>
             \A lb \in LBs : IPs(result[s]) = Serves(s, lb)

LEMMA StatusServes ==
    ASSUME SomeLBs, NumbersDiffer, TypeOK, NEW s \in Services, ServiceInv(s), Status(s)
    PROVE  ServedAt(s)'
<1>0. CallInv(s) /\ StoreInv(s) /\ SocketsDiffer(s)
    BY DEF ServiceInv
<1> SUFFICES ASSUME arg[s].wanted, ~arg[s].wish.hostname
             PROVE  ServedAt(s)'
    BY <1>0, StatusEffect DEF ServedAt
<1>1. ~arg[s].deleted /\ None \notin Addrs
    BY <1>0, ManagerConstants DEF CallInv
<1> DEFINE M == mergeReconStatus(s)
           N == {x[2] : x \in M}
<1>2. result'[s] = {[ip |-> x[1], ports |-> N] : x \in M}
    BY <1>0, StatusEffect DEF lbStatusFromReconcileStatus
<1>3. \A lb \in LBs : Serves(s, lb)' = Serves(s, lb)
    BY <1>0, StatusEffect DEF Serves, BindsOf
<1>4. \A x \in M : x[1] \in Addrs
    BY DEF mergeReconStatus
<1>5. ASSUME NEW lb \in LBs, recon[s][lb] = "nil", NEW i \in result'[s]
      PROVE  /\ i.ip \in Serves(s, lb)
             /\ \A n \in i.ports : \E b \in store[s][lb].held : b.at = i.ip /\ b.num = n
  <2>1. store[s][lb].held = Targets(s)
      BY <1>0, <1>5, StatusEffect
  <2>2. PICK x \in M : i = [ip |-> x[1], ports |-> N]
      BY <1>2, <1>5
  <2>3. x[1] \in addresses[s] /\ \E p \in arg[s].wish.ports : p.num = x[2]
      BY <1>0, <2>1, MergedAllocated
  <2>4. \A y \in M : \E p \in arg[s].wish.ports : p.num = y[2]
      BY <1>0, <2>1, MergedAllocated
  <2>5. ASSUME NEW p \in arg[s].wish.ports
        PROVE  [name |-> p.name, at |-> x[1], num |-> p.num] \in BindsOf(store[s][lb].held)
      BY <1>1, <2>1, <2>3, TargetBinds
  <2>6. i.ip \in Serves(s, lb)
    <3>1. PICK p \in arg[s].wish.ports : p.num = x[2]
        BY <2>3
    <3> DEFINE b == [name |-> p.name, at |-> x[1], num |-> p.num]
    <3>2. b \in BindsOf(store[s][lb].held) /\ b.at = i.ip
        BY <2>2, <2>5
    <3> HIDE DEF b
    <3> QED
        BY <3>2 DEF Serves
  <2>7. ASSUME NEW n \in i.ports PROVE \E b \in store[s][lb].held : b.at = i.ip /\ b.num = n
    <3>1. PICK p \in arg[s].wish.ports : p.num = n
        BY <2>2, <2>4, <2>7
    <3> QED
        BY <2>2, <2>5, <3>1 DEF BindsOf
  <2> QED
      BY <2>6, <2>7
<1>6. ASSUME \A lb \in LBs : recon[s][lb] = "nil", NEW lb \in LBs
      PROVE  IPs(result'[s]) = Serves(s, lb)
  <2>1. \A l \in LBs : store[s][l].held = Targets(s)
      BY <1>0, <1>6, StatusEffect
  <2>2. IPs(result'[s]) \subseteq Serves(s, lb)
      BY <1>5, <1>6 DEF IPs
  <2>3. ASSUME NEW b \in BindsOf(Targets(s)) PROVE b.at \in IPs(result'[s])
    <3>1. PICK a \in addresses[s], p \in arg[s].wish.ports :
              b = [name |-> p.name, at |-> a, num |-> p.num]
        BY TargetBinds
    <3>2. <<a, p.num>> \in M
        BY <1>0, <1>1, <2>1, MergedAll
    <3> HIDE DEF M, N
    <3>3. [ip |-> <<a, p.num>>[1], ports |-> N] \in result'[s]
        BY <1>2, <3>2, Zenon
    <3>4. [ip |-> a, ports |-> N] \in result'[s] /\ [ip |-> a, ports |-> N].ip = a
        BY <3>3
    <3>5. a # None
        BY <1>1 DEF TypeOK
    <3>6. b.at = a
        BY <3>1
    <3> QED
        BY <3>4, <3>5, <3>6, Zenon DEF IPs
  <2> QED
      BY <2>1, <2>2, <2>3 DEF Serves
<1>7. recon' = recon /\ store' = store
    BY <1>0, StatusEffect
<1> QED
    BY <1>3, <1>5, <1>6, <1>7 DEF ServedAt

(***************************************************************************)
(* What the status that is to be written shows is served by every          *)
(* LoadBalancer that is complete, and is all they serve when all are, for  *)
(* any number of Services, LoadBalancers and workers, whatever is on the   *)
(* LoadBalancers that came back early (mergeReconStatus).                  *)
(***************************************************************************)
THEOREM StatusIsServedHolds ==
    ASSUME SomeLBs, NumbersDiffer
    PROVE  Spec => []StatusIsServed
<1>1. Init => StatusIsServed
    BY DEF Init, StatusIsServed
<1>2. ManagerInv /\ StatusIsServed /\ [Next]_vars => StatusIsServed'
  <2> SUFFICES ASSUME ManagerInv, StatusIsServed, [Next]_vars, NEW t \in Services
               PROVE  ServedAt(t)'
      BY DEF StatusIsServed, ServedAt
  <2>1. TypeOK /\ ServiceInv(t) /\ CallInv(t) /\ StoreInv(t) /\ ServedAt(t)
      BY DEF ManagerInv, ServiceInv, StatusIsServed, ServedAt
  <2>2. ASSUME Same(t) PROVE ServedAt(t)'
      BY <2>1, <2>2 DEF Same, ServedAt, Serves, BindsOf
  <2>3. CASE CallStep(t)
      BY <2>1, <2>3, OnlyStatus, StatusServes DEF ServedAt
  <2>4. CASE UserStep(t)
    <3>1. UNCHANGED <<pc, result, arg, recon, store>>
        BY <2>4 DEF UserStep, CreateService, ChangeService, DeleteService, ChangeType,
                    callVars, ensureVars, engineVars
    <3> QED
        BY <2>1, <3>1 DEF ServedAt, Serves, BindsOf
  <2>5. CASE EngineStep(t)
    <3>1. UNCHANGED <<pc, result, arg, recon>>
        BY <2>1, <2>5, EngineEffect DEF callVars, ensureVars
    <3>2. \A lb \in LBs : recon[t][lb] = "nil" => store'[t][lb].held = store[t][lb].held
        BY <2>1, <2>5, EngineEffect DEF StoreInv
    <3> QED
        BY <2>1, <3>1, <3>2 DEF ServedAt, Serves, BindsOf
  <2>6. CASE Crash
      BY <2>6 DEF Crash, ServedAt
  <2> QED
      BY <2>1, <2>2, <2>3, <2>4, <2>5, <2>6, NextSteps, Others, Elsewhere
<1> QED
    BY <1>1, <1>2, ManagerInvHolds, PTL DEF Spec

------------------------------------------------------------------------------
\* Only WriteStatus changes what the API server has, only Sync starts a call.
LEMMA KubeKept ==
    ASSUME TypeOK, NEW s \in Services, CallStep(s), ~WriteStatus(s)
    PROVE  UNCHANGED kubeVars
<1>1. ASSUME NEW lb \in LBs, ReconcileStep(s, lb) PROVE UNCHANGED kubeVars
    BY <1>1, ReconcileEffect
<1> QED
    BY <1>1
       DEF CallStep, Sync, Lock, Ensure, Rejected, Allocate, CheckCollision, NoCollision,
           ReconcileError, Status, GetLoadBalancer, FaultyEnsure, NodeUnusable, AllocateFailed,
           CheckFailed, NewFailed, StatusFailed, ReconcileStep

LEMMA Started ==
    ASSUME TypeOK, NEW s \in Services, CallStep(s), ~Sync(s)
    PROVE  pc[s] # "idle" /\ arg' = arg
<1>1. ASSUME NEW lb \in LBs, ReconcileStep(s, lb) PROVE pc[s] # "idle" /\ arg' = arg
    BY <1>1, ReconcileEffect DEF callVars
<1> QED
    BY <1>1
       DEF CallStep, Lock, Ensure, Rejected, Allocate, CheckCollision, NoCollision, ReconcileError,
           Status, GetLoadBalancer, FaultyEnsure, NodeUnusable, AllocateFailed, CheckFailed,
           NewFailed, StatusFailed, Joined, WriteStatus, ReconcileStep, callVars

LEMMA UserEffect ==
    ASSUME TypeOK, NEW s \in Services, UserStep(s)
    PROVE  /\ UNCHANGED <<status, early, pc, arg, result, addresses, unchecked, recon, store>>
           /\ phase'[s] # "new" /\ phase[s] \in {"new", "live"}
           /\ \A t \in Services : t # s => phase'[t] = phase[t]
BY DEF UserStep, CreateService, ChangeService, DeleteService, ChangeType, TypeOK, callVars,
       ensureVars, engineVars

\* When a call gets to addresses, where they come from.
LEMMA CheckEffect ==
    ASSUME TypeOK, NEW s \in Services, CallInv(s), CallStep(s), pc'[s] \in {"check", "reconcile"}
    PROVE  /\ arg' = arg /\ UNCHANGED kubeVars
           /\ \/ /\ pc[s] = "allocate" /\ unchecked'[s] = addresses'[s]
                 /\ \E list : addresses'[s] = Allocated(s, list)
              \/ /\ pc[s] = "check" /\ addresses' = addresses
                 /\ \A a \in unchecked[s] \ unchecked'[s] : ~UsedByOther(s, a)
              \/ pc[s] = "reconcile" /\ UNCHANGED <<addresses, unchecked>>
              \/ arg[s].deleted /\ addresses'[s] = {}
<1>1. ASSUME NEW r, Return(s, r) PROVE FALSE
    BY <1>1 DEF Return, TypeOK
<1>2. CASE Sync(s) \/ WriteStatus(s) \/ GetLoadBalancer(s)
    BY <1>1, <1>2 DEF Sync, WriteStatus, GetLoadBalancer, TypeOK
<1>3. CASE Lock(s)
    BY <1>3 DEF Lock, TypeOK, CallInv, callVars
<1>4. CASE Rejected(s) \/ ReconcileError(s) \/ NodeUnusable(s) \/ AllocateFailed(s) \/ Status(s)
             \/ CheckFailed(s) \/ NewFailed(s) \/ StatusFailed(s)
    BY <1>1, <1>4 DEF Rejected, ReconcileError, NodeUnusable, AllocateFailed, CheckFailed, Status,
                      NewFailed, StatusFailed, ReturnError
<1>5. CASE Allocate(s)
  <2>1. PICK list :
            /\ addresses' = [addresses EXCEPT ![s] = Allocated(s, list)]
            /\ unchecked' = [unchecked EXCEPT ![s] = Allocated(s, list)]
      BY <1>1, <1>5 DEF Allocate, ReturnError
  <2> QED
      BY <1>5, <2>1 DEF Allocate, TypeOK, callVars
<1>6. ASSUME NEW a \in Addrs, CheckCollision(s, a)
      PROVE  /\ arg' = arg /\ UNCHANGED kubeVars /\ pc[s] = "check" /\ addresses' = addresses
             /\ \A b \in unchecked[s] \ unchecked'[s] : ~UsedByOther(s, b)
    BY <1>1, <1>6 DEF CheckCollision, ReturnError, TypeOK, callVars
<1>7. CASE NoCollision(s)
    BY <1>7 DEF NoCollision, callVars, ensureVars
<1>8. ASSUME NEW lb \in LBs, ReconcileStep(s, lb)
      PROVE  /\ arg' = arg /\ UNCHANGED kubeVars
             /\ pc[s] = "reconcile" /\ UNCHANGED <<addresses, unchecked>>
    BY <1>8, ReconcileEffect DEF callVars
<1> QED
    BY <1>2, <1>3, <1>4, <1>5, <1>6, <1>7, <1>8
       DEF CallStep, Ensure, FaultyEnsure, ReconcileStep

\* One worker has one call.
LEMMA SoleCallKept ==
    ASSUME Workers = 1, IsFiniteSet(Services), TypeOK, SoleCall, [Next]_vars
    PROVE  SoleCall'
<1>1. ASSUME NEW s \in Services, Sync(s) PROVE SoleCall'
  <2>1. Busy = {}
    <3>1. IsFiniteSet(Busy) /\ Cardinality(Busy) \in Nat /\ Cardinality(Busy) < 1
        BY <1>1, FS_Subset, FS_CardinalityType DEF Sync, Busy
    <3>2. Cardinality(Busy) = 0
        BY <3>1
    <3> QED
        BY <3>1, <3>2, FS_EmptySet
  <2> QED
      BY <1>1, <2>1 DEF Sync, SoleCall, Busy, TypeOK
<1>2. ASSUME NEW s \in Services, CallStep(s), ~Sync(s), NEW t \in Services, pc'[t] # "idle"
      PROVE  pc[t] # "idle"
    BY <1>2, Started, Others DEF Same
<1>3. ASSUME NEW s \in Services, UserStep(s) PROVE SoleCall'
    BY <1>3, UserEffect DEF SoleCall, Busy
<1>4. CASE Crash
    BY <1>4 DEF Crash, SoleCall, Busy
<1>5. CASE ChangePrefixes \/ ExpireCache \/ UNCHANGED vars
    BY <1>5, Elsewhere DEF Same, SoleCall, Busy
<1>6. ASSUME NEW s \in Services, EngineStep(s) PROVE SoleCall'
    BY <1>6, EngineEffect DEF SoleCall, Busy
<1> QED
    BY <1>1, <1>2, <1>3, <1>4, <1>5, <1>6, NextSteps DEF SoleCall, Busy

\* Nobody comes to show an address but the one whose status is written.
LEMMA UsedKept ==
    ASSUME TypeOK, \A u \in Services : FreeInv(u), NEW t \in Services, NEW a,
           \/ UNCHANGED kubeVars
           \/ \E s \in Services : UserStep(s)
           \/ WriteStatus(t),
           UsedByOther(t, a)'
    PROVE  UsedByOther(t, a)
<1>1. PICK u \in Services \ {t} : phase'[u] \in {"live", "deleting"} /\ a \in IPs(status'[u])
    BY DEF UsedByOther
<1>2. CASE UNCHANGED kubeVars
    BY <1>1, <1>2 DEF UsedByOther, kubeVars
<1>3. ASSUME NEW s \in Services, UserStep(s) PROVE UsedByOther(t, a)
  <2>1. status' = status /\ (phase'[u] = phase[u] \/ phase[u] \in {"new", "live"})
      BY <1>3, UserEffect
  <2>2. phase[u] # "new"
      BY <1>1, <2>1 DEF FreeInv, IPs
  <2> QED
      BY <1>1, <2>1, <2>2 DEF UsedByOther
<1>4. CASE WriteStatus(t)
  <2>1. Same(u)
      BY <1>4, Others DEF CallStep
  <2> QED
      BY <1>1, <2>1 DEF Same, UsedByOther
<1> QED
    BY <1>2, <1>3, <1>4

LEMMA FreeKept ==
    ASSUME SomeLBs, NumbersDiffer, ManagerInv, SoleCall, \A u \in Services : FreeInv(u),
           [Next]_vars, NEW t \in Services
    PROVE  FreeInv(t)'
<1>0. TypeOK /\ CallInv(t) /\ StoreInv(t) /\ SocketsDiffer(t) /\ FreeInv(t)
    BY DEF ManagerInv, ServiceInv
<1>1. ASSUME Same(t),
             pc[t] # "idle" => (UNCHANGED kubeVars \/ \E s \in Services : UserStep(s))
      PROVE  FreeInv(t)'
    BY <1>0, <1>1, UsedKept DEF Same, FreeInv
<1>2. ASSUME NEW s \in Services, CallStep(s), s # t PROVE FreeInv(t)'
  <2>1. Same(t)
      BY <1>0, <1>2, Others
  <2>2. pc[t] # "idle" => UNCHANGED kubeVars
    <3>1. pc[t] # "idle" => Sync(s)
        BY <1>0, <1>2, Started DEF SoleCall, Busy
    <3> QED
        BY <3>1 DEF Sync
  <2> QED
      BY <1>1, <2>1, <2>2
<1>3. CASE CallStep(t)
  <2>1. phase'[t] = "new" => status'[t] = {} /\ pc'[t] = "idle"
    <3>1. CASE Sync(t)
        BY <1>0, <1>3, <3>1 DEF Sync, kubeVars
    <3>2. CASE ~Sync(t)
      <4>1. pc[t] # "idle" /\ phase[t] # "new"
          BY <1>0, <1>3, <3>2, Started DEF FreeInv
      <4>2. CASE WriteStatus(t)
          BY <1>0, <4>1, <4>2 DEF WriteStatus, TypeOK
      <4>3. CASE ~WriteStatus(t)
          BY <1>0, <1>3, <4>1, <4>3, KubeKept DEF kubeVars
      <4> QED
          BY <4>2, <4>3
    <3> QED
        BY <3>1, <3>2
  <2>2. ASSUME pc'[t] \in {"check", "reconcile"}, NEW a \in addresses'[t] \ unchecked'[t]
        PROVE  ~UsedByOther(t, a)'
    <3>1. UNCHANGED kubeVars
        BY <1>0, <1>3, <2>2, CheckEffect
    <3>2. ~UsedByOther(t, a)
        BY <1>0, <1>3, <2>2, CheckEffect DEF FreeInv
    <3> QED
        BY <1>0, <3>1, <3>2, UsedKept
  <2>3. ASSUME pc'[t] = "returned", result'[t] # None, arg'[t].wanted,
               NEW lb \in LBs, recon'[t][lb] # "early", NEW a \in IPs(result'[t])
        PROVE  ~UsedByOther(t, a)'
    <3>1. Status(t)
        BY <1>0, <1>3, <2>3, OnlyStatus
    <3>2. a \in addresses[t]
        BY <1>0, <2>3, <3>1, StatusEffect, ShownAllocated
    <3>3. ~UsedByOther(t, a)
        BY <1>0, <3>1, <3>2 DEF Status, Joined, CallInv, FreeInv
    <3> QED
        BY <1>0, <3>1, <3>3, UsedKept DEF Status
  <2> QED
      BY <2>1, <2>2, <2>3 DEF FreeInv
<1>4. ASSUME NEW s \in Services, UserStep(s) PROVE FreeInv(t)'
  <2>1. /\ UNCHANGED <<status, pc, arg, result, addresses, unchecked, recon>>
        /\ phase'[t] = "new" => phase[t] = "new"
      BY <1>0, <1>4, UserEffect
  <2> QED
      BY <1>0, <1>4, <2>1, UsedKept DEF FreeInv
<1>5. CASE Crash
    BY <1>0, <1>5 DEF Crash, FreeInv, kubeVars
<1>6. CASE ChangePrefixes \/ ExpireCache \/ UNCHANGED vars
    BY <1>1, <1>6, Elsewhere DEF ChangePrefixes, ExpireCache, vars, kubeVars
<1>7. ASSUME NEW s \in Services, EngineStep(s) PROVE FreeInv(t)'
  <2>1. UNCHANGED kubeVars /\ UNCHANGED <<pc, arg, result, addresses, unchecked, recon>>
      BY <1>0, <1>7, EngineEffect DEF callVars, ensureVars
  <2> QED
      BY <1>0, <2>1, UsedKept DEF FreeInv, kubeVars
<1> QED
    BY <1>2, <1>3, <1>4, <1>5, <1>6, <1>7, NextSteps

LEMMA ExclusiveKept ==
    ASSUME ManagerInv, \A u \in Services : FreeInv(u), StatusExclusive, [Next]_vars
    PROVE  StatusExclusive'
<1>0. TypeOK
    BY DEF ManagerInv
<1>1. CASE UNCHANGED kubeVars
    BY <1>1 DEF StatusExclusive, kubeVars
<1>2. ASSUME NEW s \in Services, UserStep(s) PROVE StatusExclusive'
  <2>1. /\ status' = status /\ early' = early
        /\ \A t \in Services : phase'[t] = phase[t] \/ phase[t] \in {"new", "live"}
      BY <1>0, <1>2, UserEffect
  <2>2. \A t \in Services : phase[t] = "new" => IPs(status[t]) = {}
      BY DEF FreeInv, IPs
  <2> QED
      BY <2>1, <2>2 DEF StatusExclusive
<1>3. ASSUME NEW s \in Services, WriteStatus(s) PROVE StatusExclusive'
  <2>1. \A t \in Services : t # s =>
            phase'[t] = phase[t] /\ status'[t] = status[t] /\ early'[t] = early[t]
      BY <1>0, <1>3, Others DEF CallStep, Same
  <2>2. ASSUME NEW t \in Services, t # s,
               phase'[s] \in {"live", "deleting"}, early'[s] # LBs,
               phase[t] \in {"live", "deleting"}, early[t] # LBs
        PROVE  IPs(status'[s]) \cap IPs(status[t]) = {}
    <3>1. CASE result[s] = None
        BY <1>0, <1>3, <2>2, <3>1 DEF WriteStatus, StatusExclusive
    <3>2. CASE result[s] # None
      <4>1. arg[s].wanted /\ status'[s] = result[s] /\ pc[s] = "returned"
          BY <1>0, <1>3, <2>2, <3>2 DEF WriteStatus, TypeOK
      <4>2. \E lb \in LBs : recon[s][lb] # "early"
          BY <1>0, <1>3, <2>2, <3>2 DEF WriteStatus, TypeOK
      <4> QED
          BY <2>2, <3>2, <4>1, <4>2 DEF FreeInv, UsedByOther
    <3> QED
        BY <3>1, <3>2
  <2> QED
      BY <2>1, <2>2 DEF StatusExclusive
<1>4. CASE Crash \/ ChangePrefixes \/ ExpireCache \/ UNCHANGED vars
    BY <1>1, <1>4 DEF Crash, ChangePrefixes, ExpireCache, vars, kubeVars
<1>5. ASSUME NEW s \in Services, EngineStep(s) PROVE StatusExclusive'
    BY <1>0, <1>1, <1>5, EngineEffect
<1> QED
    BY <1>0, <1>1, <1>2, <1>3, <1>4, <1>5, NextSteps, KubeKept

(***************************************************************************)
(* With one worker an address that passed checkIPCollision is still free   *)
(* of other Services at every later step of the call, until the status is  *)
(* written; what earlier attempts have bound reaches a status only when    *)
(* Reconcile came back early on all LoadBalancers, since one that is       *)
(* complete has none of it.                                                *)
(***************************************************************************)
THEOREM ExclusiveInvHolds ==
    ASSUME Workers = 1, IsFiniteSet(Services), SomeLBs, NumbersDiffer
    PROVE  Spec => []ExclusiveInv
<1>1. Init => ExclusiveInv
  <2> SUFFICES ASSUME Init PROVE ExclusiveInv
      OBVIOUS
  <2>1. SoleCall
      BY DEF Init, SoleCall, Busy
  <2>2. \A s \in Services : FreeInv(s)
      BY DEF Init, FreeInv
  <2>3. StatusExclusive
      BY DEF Init, StatusExclusive
  <2> QED
      BY <2>1, <2>2, <2>3 DEF ExclusiveInv
<1>2. ManagerInv /\ ExclusiveInv /\ [Next]_vars => ExclusiveInv'
  <2> SUFFICES ASSUME ManagerInv, ExclusiveInv, [Next]_vars PROVE ExclusiveInv'
      OBVIOUS
  <2>1. TypeOK /\ SoleCall /\ (\A s \in Services : FreeInv(s)) /\ StatusExclusive
      BY DEF ManagerInv, ExclusiveInv
  <2>2. SoleCall'
      BY <2>1, SoleCallKept
  <2>3. \A s \in Services : FreeInv(s)'
      BY <2>1, FreeKept
  <2>4. StatusExclusive'
      BY <2>1, ExclusiveKept
  <2> QED
      BY <2>2, <2>3, <2>4 DEF ExclusiveInv
<1> QED
    BY <1>1, <1>2, ManagerInvHolds, PTL DEF Spec

(***************************************************************************)
(* With one worker no two Services of type LoadBalancer show the same      *)
(* external address, but for statuses written after Reconcile came back    *)
(* early on all LoadBalancers: for any number of Services, LoadBalancers,  *)
(* addresses and prefixes, however prefixes and Services change, requests  *)
(* fail and the process is restarted (checkIPCollision).                   *)
(***************************************************************************)
THEOREM StatusExclusiveHolds ==
    ASSUME Workers = 1, IsFiniteSet(Services), SomeLBs, NumbersDiffer
    PROVE  Spec => []StatusExclusive
<1>1. ExclusiveInv => StatusExclusive
    BY DEF ExclusiveInv
<1> QED
    BY <1>1, ExclusiveInvHolds, PTL

------------------------------------------------------------------------------
\* Allocation keeps what the Service has of the families it asks for.
LEMMA AllocatedKeeps ==
    ASSUME NEW s \in Services, NEW list
    PROVE  Kept(s, Allocated(s, list))
<1> SUFFICES ASSUME NEW a \in IPs(arg[s].status), FamilyOf[a] \in arg[s].wish.families
             PROVE  a \in Allocated(s, list)
    BY DEF Kept
<1>1. a \in currentAddresses(s, FamilyOf[a]) /\ FamilyOf[a] \notin Lacking(s)
    BY DEF currentAddresses, Lacking
<1> QED
    BY <1>1 DEF Allocated

LEMMA KeptNext ==
    ASSUME SomeLBs, NumbersDiffer, SomePorts, ManagerInv, KeptInv, [Next]_vars
    PROVE  KeptInv'
<1> SUFFICES ASSUME NEW t \in Services PROVE KeptAt(t)'
    BY DEF KeptInv
<1>0. /\ TypeOK /\ ServiceInv(t) /\ KeptAt(t)
      /\ CallInv(t) /\ StoreInv(t) /\ SocketsDiffer(t)
    BY DEF ManagerInv, ServiceInv, KeptInv
<1>1. ASSUME Same(t) PROVE KeptAt(t)'
    BY <1>0, <1>1 DEF Same, KeptAt, Kept
<1>2. CASE CallStep(t)
  <2>1. pc'[t] # "idle" => arg'[t].status = status'[t]
    <3>1. CASE Sync(t)
        BY <1>0, <3>1 DEF Sync, TypeOK, kubeVars
    <3>2. CASE WriteStatus(t)
        BY <1>0, <3>2 DEF WriteStatus, TypeOK
    <3>3. CASE ~Sync(t) /\ ~WriteStatus(t)
        BY <1>0, <1>2, <3>3, Started, KubeKept DEF KeptAt, kubeVars
    <3> QED
        BY <3>1, <3>2, <3>3
  <2>2. ASSUME pc'[t] \in {"check", "reconcile"}, ~arg'[t].deleted
        PROVE  Kept(t, addresses[t])'
    <3>1. Kept(t, addresses'[t])
        BY <1>0, <1>2, <2>2, CheckEffect, AllocatedKeeps DEF KeptAt
    <3> QED
        BY <1>0, <1>2, <2>2, <3>1, CheckEffect DEF Kept
  <2>3. ASSUME pc'[t] = "returned", result'[t] # None, arg'[t].wanted, ~arg'[t].wish.hostname,
               \A lb \in LBs : recon'[t][lb] # "early"
        PROVE  Kept(t, IPs(result[t]))'
    <3>1. Status(t)
        BY <1>0, <1>2, <2>3, OnlyStatus
    <3>2. ServedAt(t)'
        BY <1>0, <3>1, StatusServes
    <3>3. /\ UNCHANGED <<arg, recon, store>> /\ \A lb \in LBs : recon[t][lb] = "nil"
          /\ \A lb \in LBs : store[t][lb].held = Targets(t)
        BY <1>0, <2>3, <3>1, StatusEffect
    <3>4. ~arg[t].deleted /\ pc[t] = "reconcile"
        BY <1>0, <2>3, <3>1, <3>3 DEF CallInv, Status, Joined
    <3>5. PICK lb \in LBs : TRUE
        BY DEF SomeLBs
    <3>6. IPs(result'[t]) = Serves(t, lb)
      <4>1. Serves(t, lb)' = Serves(t, lb) /\ \A l \in LBs : recon'[t][l] = "nil"
          BY <3>3 DEF Serves, BindsOf
      <4>2. \A l \in LBs : IPs(result'[t]) = Serves(t, l)'
          BY <2>3, <3>2, <3>3, <4>1 DEF ServedAt, IPs
      <4>3. IPs(result'[t]) = Serves(t, lb)'
          BY <4>2, Zenon
      <4> QED
          BY <4>1, <4>3
    <3>7. PICK p \in arg[t].wish.ports : TRUE
      <4>1. arg[t].wish \in Wishes
          BY <1>0 DEF TypeOK
      <4> QED
          BY <4>1 DEF SomePorts
    <3>8. ASSUME NEW a \in addresses[t] PROVE a \in IPs(result'[t])
      <4> DEFINE b == [name |-> p.name, at |-> a, num |-> p.num]
      <4>1. b \in BindsOf(store[t][lb].held) /\ b.at = a
          BY <1>0, <3>3, <3>4, TargetBinds
      <4> HIDE DEF b
      <4> QED
          BY <3>6, <4>1 DEF Serves
    <3>9. Kept(t, addresses[t])
        BY <1>0, <3>4 DEF KeptAt
    <3> QED
        BY <3>3, <3>8, <3>9 DEF Kept
  <2> QED
      BY <2>1, <2>2, <2>3 DEF KeptAt
<1>3. CASE UserStep(t)
    BY <1>0, <1>3, UserEffect DEF KeptAt, Kept
<1>4. CASE EngineStep(t)
  <2>1. UNCHANGED <<status, pc, arg, result, addresses, recon>>
      BY <1>0, <1>4, EngineEffect DEF kubeVars, callVars, ensureVars
  <2> QED
      BY <1>0, <2>1 DEF KeptAt, Kept
<1>5. CASE Crash
    BY <1>5 DEF Crash, KeptAt
<1> QED
    BY <1>0, <1>1, <1>2, <1>3, <1>4, <1>5, NextSteps, Others, Elsewhere

(***************************************************************************)
(* The status a call was given is the status of the Service until the call *)
(* returns, and what the call allocates, and returns when it is complete   *)
(* on every LoadBalancer, contains the addresses in it that are still      *)
(* asked for.                                                              *)
(***************************************************************************)
THEOREM KeptInvHolds ==
    ASSUME SomeLBs, NumbersDiffer, SomePorts
    PROVE  Spec => []KeptInv
<1>1. Init => KeptInv
    BY DEF Init, KeptInv, KeptAt
<1>2. ManagerInv /\ KeptInv /\ [Next]_vars => KeptInv'
    BY KeptNext
<1> QED
    BY <1>1, <1>2, ManagerInvHolds, PTL DEF Spec

(***************************************************************************)
(* A Service keeps the addresses its status shows as long as it asks for   *)
(* the family and no host name, and Reconcile came back early on no        *)
(* LoadBalancer, whatever happens to prefixes and VIPs between the step    *)
(* that read its status and the one that writes it (AllocateAddresses).    *)
(***************************************************************************)
THEOREM AddressesStayHolds ==
    ASSUME SomeLBs, NumbersDiffer, SomePorts
    PROVE  Spec => AddressesStay
<1> DEFINE Stay ==
      \A s \in Services :
         \A a \in IPs(status[s]) :
            /\ pc[s] = "returned" /\ status'[s] # status[s] /\ arg[s].wanted
            /\ FamilyOf[a] \in arg[s].wish.families /\ ~arg[s].wish.hostname
            /\ early'[s] = {}
            => a \in IPs(status'[s])
<1>1. ManagerInv /\ KeptInv /\ [Next]_vars => [Stay]_vars
  <2> SUFFICES ASSUME ManagerInv, KeptInv, [Next]_vars,
                      NEW s \in Services, NEW a \in IPs(status[s]),
                      pc[s] = "returned", status'[s] # status[s], arg[s].wanted,
                      FamilyOf[a] \in arg[s].wish.families, ~arg[s].wish.hostname,
                      early'[s] = {}
               PROVE  a \in IPs(status'[s])
      OBVIOUS
  <2>0. TypeOK /\ KeptAt(s)
      BY DEF ManagerInv, KeptInv
  <2>1. ~Same(s) /\ ~UNCHANGED kubeVars /\ ~UserStep(s) /\ ~EngineStep(s)
      BY <2>0, UserEffect, EngineEffect DEF Same, kubeVars
  <2>2. ~Crash
      BY <2>1 DEF Crash
  <2>3. WriteStatus(s)
      BY <2>0, <2>1, <2>2, NextSteps, Others, Elsewhere, KubeKept
  <2>4. /\ result[s] # None /\ status'[s] = result[s]
        /\ \A lb \in LBs : recon[s][lb] # "early"
      BY <2>0, <2>3 DEF WriteStatus, TypeOK
  <2> QED
      BY <2>0, <2>4 DEF KeptAt, Kept
<1> QED
    BY <1>1, KeptInvHolds, ManagerInvHolds, PTL DEF Spec, AddressesStay
=============================================================================
