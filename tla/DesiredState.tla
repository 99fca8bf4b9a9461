---------------------------- MODULE DesiredState ----------------------------
(***************************************************************************)
(* What the reconciliation of a Service promises to whoever looks at the   *)
(* LoadBalancers from outside, without snapshots, plans, identifiers and   *)
(* failures.  A LoadBalancer has named parts of a Service; the names it    *)
(* should have, the goal, may change at any time.                          *)
(*                                                                         *)
(* - A part appears only when it is asked for, everything that is not      *)
(*   asked for is gone, and the part it builds on is there to stay.        *)
(* - A part is given up only when nothing builds on it any more, and       *)
(*   disappears only after it was given up.                                *)
(*                                                                         *)
(* Reconciliation.tla is shown to implement this in ReconciliationRefines. *)
(***************************************************************************)
EXTENDS FiniteSets

CONSTANTS LBs, PortNames, Places, PortNums, None

VARIABLES
    goal,    \* the names the Service asks for
    have,    \* by LoadBalancer the names that are there
    doomed   \* by LoadBalancer those among them that were given up

desiredVars == <<goal, have, doomed>>

Part(kind, p, at, n) == [kind |-> kind, port |-> p, at |-> at, num |-> n]

Names == [kind : {"backend", "frontend", "bind", "server"}, port : PortNames,
          at : Places \cup {None}, num : PortNums \cup {None}]

\* What a part builds on: a bind on the frontend, a frontend and a server on
\* the backend of the same port.
BuildsOn(n) ==
    CASE n.kind = "bind" -> {Part("frontend", n.port, None, None)}
      [] n.kind \in {"frontend", "server"} -> {Part("backend", n.port, None, None)}
      [] OTHER -> {}

DesiredInit ==
    /\ goal \in SUBSET Names
    /\ have = [lb \in LBs |-> {}]
    /\ doomed = [lb \in LBs |-> {}]

Adopt ==
    /\ goal' \in SUBSET Names
    /\ UNCHANGED <<have, doomed>>

Gain(lb, n) ==
    /\ have[lb] \subseteq goal
    /\ n \in goal \ have[lb]
    /\ BuildsOn(n) \subseteq have[lb] \ doomed[lb]
    /\ have' = [have EXCEPT ![lb] = @ \cup {n}]
    /\ UNCHANGED <<goal, doomed>>

GiveUp(lb, n) ==
    /\ n \in have[lb] \ doomed[lb]
    /\ \A m \in have[lb] : n \notin BuildsOn(m)
    /\ doomed' = [doomed EXCEPT ![lb] = @ \cup {n}]
    /\ UNCHANGED <<goal, have>>

Vanish(lb, n) ==
    /\ n \in doomed[lb]
    /\ have' = [have EXCEPT ![lb] = @ \ {n}]
    /\ doomed' = [doomed EXCEPT ![lb] = @ \ {n}]
    /\ UNCHANGED goal

DesiredNext ==
    \/ Adopt
    \/ \E lb \in LBs : \E n \in goal : Gain(lb, n)
    \/ \E lb \in LBs : \E n \in have[lb] : GiveUp(lb, n) \/ Vanish(lb, n)

DesiredSpec == DesiredInit /\ [][DesiredNext]_desiredVars
=============================================================================
