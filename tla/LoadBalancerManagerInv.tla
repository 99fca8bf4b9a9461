----------------------- MODULE LoadBalancerManagerInv -----------------------
(***************************************************************************)
(* The inductive invariants behind the safety theorems about the manager.  *)
(* None of its properties is inductive: what a status shows was decided    *)
(* several steps before the service controller writes it, by a call that   *)
(* saw the Service and the other Services as they were, and that may have  *)
(* been for a Service that meanwhile is to be deleted.                     *)
(***************************************************************************)
EXTENDS LoadBalancerManager

\* What a call has collected, and how it got where it is.
CallInv(s) ==
    /\ pc[s] \in {"idle", "called", "allocate", "returned"} =>
         addresses[s] = {} /\ unchecked[s] = {}
    /\ pc[s] \in {"idle", "called", "allocate", "check", "status"} =>
         \A lb \in LBs : recon[s][lb] = "todo"
    /\ pc[s] \in {"allocate", "check"} => ~arg[s].deleted
    /\ pc[s] \in {"allocate", "check"} /\ arg[s].wanted => holds[s]
    /\ pc[s] = "status" => ~arg[s].wanted
    /\ pc[s] = "reconcile" => unchecked[s] = {}
    /\ arg[s].deleted => addresses[s] = {} /\ ~arg[s].wanted
    /\ pc[s] = "returned" /\ result[s] # None /\ (arg[s].wanted \/ arg[s].deleted) =>
         \A lb \in LBs : recon[s][lb] \in {"nil", "early"}

\* The ports of a Service differ in their number.  Kubernetes also accepts the
\* same number for TCP and UDP: mergeReconStatus counts it twice and drops the
\* address.
NumbersDiffer == \A w \in Wishes : \A p, q \in w.ports : p.num = q.num => p = q

\* Then no two binds of a LoadBalancer have the same address and number.
SocketsDiffer(s) ==
    \A lb \in LBs : \A b, c \in BindsOf(store[s][lb].held) :
        b.at = c.at /\ b.num = c.num => b = c

\* Every LoadBalancer that is complete has the parts of this call, and keeps
\* them; a clean-up that succeeded left none there, and nobody works for a
\* Service that is gone.
StoreInv(s) ==
    /\ \A lb \in LBs : store[s][lb].leaving \subseteq store[s][lb].held
    /\ \A lb \in LBs : recon[s][lb] = "nil" => store[s][lb].leaving = {}
    /\ pc[s] = "reconcile" =>
         \A lb \in LBs : recon[s][lb] = "nil" => store[s][lb].held = Targets(s)
    /\ pc[s] = "returned" /\ arg[s].deleted =>
         \A lb \in LBs : recon[s][lb] = "nil" => store[s][lb].held = {}
    /\ phase[s] = "gone" =>
         pc[s] = "idle" /\ \A lb \in LBs \ early[s] : store[s][lb].held = {}

ServiceInv(s) == CallInv(s) /\ StoreInv(s) /\ (NumbersDiffer => SocketsDiffer(s))

(***************************************************************************)
(* For any number of workers: a call only goes on with what it may rely    *)
(* on.  A LoadBalancer that is complete has exactly the parts it is called *)
(* for and none on its way out, a clean-up that was complete left none,    *)
(* and no call is under way for a Service that is gone (reconcile,         *)
(* EnsureLoadBalancerDeleted).  Nothing is said of a LoadBalancer that     *)
(* came back early, but that what any attempt left there has no socket     *)
(* twice, because a reconciliation destroys before it creates.             *)
(***************************************************************************)
ManagerInv == TypeOK /\ \A s \in Services : ServiceInv(s)

\* With one worker there is one call.
SoleCall == \A s, t \in Busy : s = t

FreeInv(s) ==
    /\ phase[s] = "new" => status[s] = {} /\ pc[s] = "idle"
    /\ pc[s] \in {"check", "reconcile"} =>
         \A a \in addresses[s] \ unchecked[s] : ~UsedByOther(s, a)
    /\ /\ pc[s] = "returned" /\ result[s] # None /\ arg[s].wanted
       /\ \E lb \in LBs : recon[s][lb] # "early"
       => \A a \in IPs(result[s]) : ~UsedByOther(s, a)

(***************************************************************************)
(* With one worker: the addresses checkIPCollision has passed are still    *)
(* free of other Services when their status is written, because no other   *)
(* call that would write a status runs meanwhile; and one LoadBalancer     *)
(* that is complete keeps what earlier attempts left out of the status.    *)
(***************************************************************************)
ExclusiveInv == SoleCall /\ (\A s \in Services : FreeInv(s)) /\ StatusExclusive

\* A has the addresses in a call's copy of the status that are still wanted.
Kept(s, A) ==
    {a \in IPs(arg[s].status) : FamilyOf[a] \in arg[s].wish.families} \subseteq A

KeptAt(s) ==
    /\ pc[s] # "idle" => arg[s].status = status[s]
    /\ pc[s] \in {"check", "reconcile"} /\ ~arg[s].deleted => Kept(s, addresses[s])
    /\ /\ pc[s] = "returned" /\ result[s] # None
       /\ arg[s].wanted /\ ~arg[s].wish.hostname
       /\ \A lb \in LBs : recon[s][lb] # "early"
       => Kept(s, IPs(result[s]))

(***************************************************************************)
(* The copy of the status a call works with is still the status when it    *)
(* returns, and the addresses in it are among those that it allocates and, *)
(* when every LoadBalancer is complete, returns (AllocateAddresses prefers *)
(* current addresses).                                                     *)
(***************************************************************************)
KeptInv == \A s \in Services : KeptAt(s)

\* There is a LoadBalancer (ErrNoLoadBalancers), and finitely many.
SomeLBs == IsFiniteSet(LBs) /\ LBs # {}

\* A Service has a port (the validation of Kubernetes).
SomePorts == \A w \in Wishes : w.ports # {}
=============================================================================
