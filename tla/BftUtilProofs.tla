---------------------------- MODULE BftUtilProofs ----------------------------
(***************************************************************************)
(* Proofs about the quorum arithmetic of util.go / controller.go:          *)
(* computeQuorum gives, for every cluster size, a Q such that two sets of  *)
(* Q members share F + 1 members, and Q members can always be correct.     *)
(***************************************************************************)
EXTENDS BftUtil, FiniteSetTheorems, TLAPS

(* For a positive cluster size, the Go truncating division coincides with *)
(* \div, and Q, F satisfy 2Q - N >= F + 1 and Q <= N - F.                  *)
LEMMA QuorumArithmetic ==
    ASSUME NEW n \in Nat \ {0}
    PROVE  /\ ComputeF(n) = (n - 1) \div 3
           /\ ComputeF(n) \in Nat
           /\ ComputeQuorum(n) \in Nat
           /\ 2 * ComputeQuorum(n) - n >= ComputeF(n) + 1
           /\ ComputeQuorum(n) <= n - ComputeF(n)
<1>1. ComputeF(n) = (n - 1) \div 3
  BY DEF ComputeF, GoQuo
<1>2. ComputeQuorum(n) = (n + ((n - 1) \div 3) + 2) \div 2
  BY <1>1 DEF ComputeQuorum, CeilHalf
<1>3. QED
  BY <1>1, <1>2

(* Any two sets of at least Q members of a finite cluster S share at      *)
(* least F + 1 members: the comment on computeQuorum, for every N.        *)
THEOREM QuorumIntersectionHolds ==
    ASSUME NEW S, IsFiniteSet(S)
    PROVE  QuorumsIntersect(S)
<1> DEFINE n == Cardinality(S)
<1>1. n \in Nat
  BY FS_CardinalityType
<1> SUFFICES ASSUME NEW a \in SUBSET S, NEW b \in SUBSET S,
                    Cardinality(a) >= ComputeQuorum(n),
                    Cardinality(b) >= ComputeQuorum(n)
             PROVE  Cardinality(a \cap b) >= ComputeF(n) + 1
  BY DEF QuorumsIntersect
<1>2. /\ IsFiniteSet(a) /\ Cardinality(a) <= n
      /\ IsFiniteSet(b) /\ Cardinality(b) <= n
      /\ IsFiniteSet(a \cup b) /\ Cardinality(a \cup b) <= n
  BY FS_Subset
<1>3. Cardinality(a \cup b) = Cardinality(a) + Cardinality(b) - Cardinality(a \cap b)
  BY <1>2, FS_Union
<1>4. /\ Cardinality(a) \in Nat /\ Cardinality(b) \in Nat
      /\ Cardinality(a \cup b) \in Nat /\ Cardinality(a \cap b) \in Nat
  BY <1>2, FS_Intersection, FS_CardinalityType
<1>5. CASE n = 0
  <2>1. ComputeQuorum(n) = 1
    BY <1>5 DEF ComputeQuorum, ComputeF, GoQuo, CeilHalf
  <2>. QED
    BY <1>2, <1>4, <1>5, <2>1
<1>6. CASE n # 0
  <2>1. /\ ComputeQuorum(n) \in Nat /\ ComputeF(n) \in Nat
        /\ 2 * ComputeQuorum(n) - n >= ComputeF(n) + 1
    BY <1>1, <1>6, QuorumArithmetic
  <2>2. Cardinality(a \cap b) >= 2 * ComputeQuorum(n) - n
    BY <1>1, <1>2, <1>3, <1>4, <2>1
  <2>. QED
    BY <1>1, <1>4, <2>1, <2>2
<1>7. QED
  BY <1>5, <1>6
=============================================================================
