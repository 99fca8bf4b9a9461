------------------------- MODULE ReconciliationInv --------------------------
(***************************************************************************)
(* The inductive invariant behind the safety theorems.  NoDuplicates alone *)
(* is not inductive: it holds because a plan is made from a snapshot that  *)
(* still contains every resource of this LoadBalancer, although it was     *)
(* read one resource at a time while the Engine and the reconciliations of *)
(* the other LoadBalancers went on, and because nobody else adds one       *)
(* before the plan is carried out.                                         *)
(***************************************************************************)
EXTENDS Reconciliation

\* An identifier not handed out has no tag.
UnusedUntagged == \A i \in Ids : key[i] = NoKey => tag[i] = "none"

\* What refers to a resource is on the same LoadBalancer.
RefOK(k, lb) ==
    k.ref # None => key[k.ref] # NoKey /\ key[k.ref].lb = lb
RefsStayOnLB == \A i \in Ids : key[i] # NoKey => RefOK(key[i], key[i].lb)

\* What was listed exists or existed, with our tag; nothing was missed.
SnapshotInv(lb) ==
    pc[lb] = "get" =>
        /\ \A i \in Ids :
             i \in todo[lb] \/ seenAs[lb][i] # "absent" =>
               key[i] # NoKey /\ (i \in alive => tag[i] = "svc")
        /\ \A i \in Own(lb) : i \in todo[lb] \/ seenAs[lb][i] # "absent"
        /\ \A i \in alive :
             seenAs[lb][i] = "ok" /\ key[i].lb = lb => state[i] = "ok"

\* What is destroyed or updated is ours, what is destroyed was deployed.
WorkInv(lb) ==
    /\ pc[lb] # "destroy" => newToDestroy[lb] = {}
    /\ pc[lb] \in {"destroy", "update"} =>
         \A i \in todo[lb] \cup newToDestroy[lb] :
            /\ key[i] # NoKey
            /\ key[i].lb = lb
            /\ i \in alive => tag[i] = "svc"
            /\ i \in alive /\ pc[lb] = "destroy" => state[i] = "ok"

\* What is still to be created is not there yet.
CreateInv(lb) ==
    pc[lb] \in {"create", "tag"} =>
        \A k \in toCreate[lb] :
            /\ k.lb = lb
            /\ RefOK(k, lb)
            /\ \A i \in Own(lb) : key[i] # k

\* The resource about to be tagged is the only one of its kind.
CurInv(lb) ==
    pc[lb] = "tag" =>
        /\ key[cur[lb]] # NoKey
        /\ key[cur[lb]].lb = lb
        /\ key[cur[lb]] \notin toCreate[lb]
        /\ \A i \in Own(lb) : key[i] = key[cur[lb]] => i = cur[lb]

StoreInv == UnusedUntagged /\ RefsStayOnLB /\ NoDuplicates
LoopInv(lb) == SnapshotInv(lb) /\ WorkInv(lb) /\ CreateInv(lb) /\ CurInv(lb)

(***************************************************************************)
(* All of it: the snapshot of every running reconciliation is a safe basis *)
(* for the requests it sends, whatever happened since it was read.         *)
(***************************************************************************)
Inv == TypeOK /\ StoreInv /\ \A lb \in LBs : LoopInv(lb)
=============================================================================
