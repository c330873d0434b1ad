------------------------------ MODULE BftUtil ------------------------------
(***************************************************************************)
(* The arithmetic of internal/bft/util.go and internal/bft/controller.go:  *)
(* the quorum size Q and fault bound F computed from the cluster size N,   *)
(* and the two leader-selection rules of the code, getLeaderID (sorted     *)
(* membership) and Controller.leaderID (view mod N on raw identifiers).    *)
(* Pure operators: no state.  No RECURSIVE definition, so that theorems    *)
(* can be proved about them.                                               *)
(***************************************************************************)
EXTENDS Integers, FiniteSets

(* Go's integer division truncates toward zero, unlike \div, which floors. *)
GoQuo(a, b) == IF a >= 0 THEN a \div b ELSE -((-a) \div b)

(* Mutant: f taken as N / 3 instead of (N - 1) / 3.                       *)
ComputeFOfN(n) == GoQuo(n, 3)

(* Fault bound of computeQuorum: F = int((int(N) - 1) / 3).               *)
ComputeF(n) == GoQuo(n - 1, 3)

(* Quorum of computeQuorum: Q = ceil((N + F + 1) / 2).  The float64        *)
(* ceiling of a half of a non-negative integer x is (x + 1) \div 2, exact  *)
(* for every x below 2^53.                                                 *)
CeilHalf(x) == (x + 1) \div 2

(* Mutant: the integer division truncates instead of math.Ceil.           *)
ComputeQuorumTruncated(n) == (n + ComputeF(n) + 1) \div 2

ComputeQuorum(n) == CeilHalf(n + ComputeF(n) + 1)

(* The k-th smallest element (k counted from 0) of a finite set of         *)
(* integers: the element of index k of the slice sorted by sort.Slice.     *)
KthSmallest(S, k) == CHOOSE x \in S : Cardinality({y \in S : y < x}) = k

(* getLeaderID: sorts the node identifiers and indexes them by view % N.  *)
GetLeaderID(view, n, nodes) == KthSmallest(nodes, view % n)

(* Controller.leaderID: the view number modulo N, taken as the identifier *)
(* itself, without looking at the membership ("TODO use ids order").      *)
ControllerLeaderID(view, n) == view % n

-----------------------------------------------------------------------------
(* The property the comment of computeQuorum promises: any two sets of at  *)
(* least Q members of an N-member cluster share at least F + 1 members, so *)
(* two quorums always share a correct member.                              *)
QuorumsIntersect(S) ==
    LET n == Cardinality(S)
    IN  \A a, b \in SUBSET S :
           (Cardinality(a) >= ComputeQuorum(n) /\ Cardinality(b) >= ComputeQuorum(n))
              => Cardinality(a \cap b) >= ComputeF(n) + 1

=============================================================================
