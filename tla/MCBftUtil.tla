----------------------------- MODULE MCBftUtil -----------------------------
(***************************************************************************)
(* Checks the arithmetic of BftUtil for every cluster size up to MaxN and  *)
(* every view up to MaxView.  The state is just the configuration (n,      *)
(* view) under examination; every pair is an initial and a next state.    *)
(***************************************************************************)
EXTENDS BftUtil, FiniteSetsExt

CONSTANTS MaxN, MaxView

VARIABLES n, view

vars == <<n, view>>

Init == n \in 1..MaxN /\ view \in 0..MaxView

Next == n' \in 1..MaxN /\ view' \in 0..MaxView

Spec == Init /\ [][Next]_vars

(* Node identifiers as the tests number them: newNode(1..4) in TestBasic. *)
NodeIDs == 1..n

(* Reference: the smallest q for which any two q-member subsets of an     *)
(* n-member cluster share at least F + 1 members.                         *)
RefQuorum(m) ==
    Min({q \in 0..m : \A a, b \in kSubset(q, 1..m) :
                          Cardinality(a \cap b) >= ComputeF(m) + 1})

(* computeQuorum returns exactly the smallest intersecting quorum, and a   *)
(* quorum of correct members exists (Q <= N - F): the comment of           *)
(* computeQuorum in util.go and controller.go.                             *)
QuorumMatchesReference ==
    /\ ComputeQuorum(n) = RefQuorum(n)
    /\ ComputeQuorum(n) <= n - ComputeF(n)

(* The intersection property itself, over all subsets of the cluster.    *)
QuorumIntersection == QuorumsIntersect(1..n)

(* Spec section 3: the leader of view v is sort(nodes)[v mod N].  The     *)
(* Controller picks view mod N as an identifier; with the identifiers the *)
(* tests use this names no member at all.                                 *)
ControllerLeaderIsSpecLeader ==
    ControllerLeaderID(view, n) = GetLeaderID(view, n, NodeIDs)
=============================================================================
