--------------------------- MODULE MCBftUtilProofs ---------------------------
(***************************************************************************)
(* The two invariants the bftutil_quorum run checks for N up to MaxN,      *)
(* proved for every cluster size: computeQuorum's Q makes quorums          *)
(* intersect in F + 1 members, and no smaller size does.                   *)
(***************************************************************************)
EXTENDS MCBftUtil, BftUtilProofs

(* The sizes q for which any two q-member subsets of 1..m share F + 1     *)
(* members: the set whose least element RefQuorum(m) is.                  *)
Intersecting(m) ==
    {q \in 0..m : \A a, b \in kSubset(q, 1..m) :
                      Cardinality(a \cap b) >= ComputeF(m) + 1}

(* Q intersects: two subsets of exactly Q members are quorums.            *)
LEMMA QuorumIsIntersecting ==
    ASSUME NEW m \in Nat \ {0}
    PROVE  ComputeQuorum(m) \in Intersecting(m)
<1>1. IsFiniteSet(1..m) /\ Cardinality(1..m) = m
  BY FS_Interval
<1>2. ComputeQuorum(m) \in 0..m
  BY QuorumArithmetic
<1>3. QuorumsIntersect(1..m)
  BY <1>1, QuorumIntersectionHolds
<1>4. ASSUME NEW x \in kSubset(ComputeQuorum(m), 1..m),
             NEW y \in kSubset(ComputeQuorum(m), 1..m)
      PROVE  Cardinality(x \cap y) >= ComputeF(m) + 1
  <2>1. x \in SUBSET (1..m) /\ y \in SUBSET (1..m)
        /\ Cardinality(x) = ComputeQuorum(m) /\ Cardinality(y) = ComputeQuorum(m)
    BY DEF kSubset
  <2>2. \A u, v \in SUBSET (1..m) :
           (Cardinality(u) >= ComputeQuorum(m) /\ Cardinality(v) >= ComputeQuorum(m))
              => Cardinality(u \cap v) >= ComputeF(m) + 1
    BY <1>1, <1>3 DEF QuorumsIntersect
  <2>3. ComputeQuorum(m) \in Nat
    BY QuorumArithmetic
  <2>. QED
    BY <2>1, <2>2, <2>3
<1>. QED
  BY <1>2, <1>4 DEF Intersecting

(* Below Q two subsets can overlap too little: the first q and the last q  *)
(* members of 1..m share max(0, 2q - m) <= F of them.                      *)
LEMMA BelowQuorumNotIntersecting ==
    ASSUME NEW m \in Nat \ {0}, NEW q \in 0..m, q < ComputeQuorum(m)
    PROVE  q \notin Intersecting(m)
<1> DEFINE low == 1..q
           high == (m - q + 1)..m
<1> USE DEF low, high
<1>1. low \in kSubset(q, 1..m) /\ high \in kSubset(q, 1..m)
  <2>1. Cardinality(low) = q
    BY FS_Interval
  <2>2. Cardinality(high) = q
    BY FS_Interval
  <2>. QED
    BY <2>1, <2>2 DEF kSubset
<1>2. low \cap high = (m - q + 1)..q
  OBVIOUS
<1>3. Cardinality(low \cap high) = IF m - q + 1 > q THEN 0 ELSE 2 * q - m
  <2>1. Cardinality((m - q + 1)..q) = IF m - q + 1 > q THEN 0 ELSE q - (m - q + 1) + 1
    BY FS_Interval
  <2>2. Cardinality(low \cap high) = Cardinality((m - q + 1)..q)
    BY <1>2, Zenon
  <2>. QED
    BY <2>1, <2>2
<1>4. /\ ComputeF(m) \in Nat
      /\ ComputeQuorum(m) = (m + ComputeF(m) + 2) \div 2
  BY QuorumArithmetic DEF ComputeQuorum, CeilHalf
<1>5. Cardinality(low \cap high) < ComputeF(m) + 1
  BY <1>3, <1>4
<1>6. \E x, y \in kSubset(q, 1..m) : ~(Cardinality(x \cap y) >= ComputeF(m) + 1)
  <2>1. ~(Cardinality(low \cap high) >= ComputeF(m) + 1)
    BY <1>3, <1>4, <1>5
  <2>. QED
    BY <1>1, <2>1, Zenon
<1>. QED
  BY <1>6 DEF Intersecting

(* computeQuorum is the least intersecting size, for every cluster size.  *)
LEMMA QuorumIsLeast ==
    ASSUME NEW m \in Nat \ {0}
    PROVE  ComputeQuorum(m) = RefQuorum(m)
<1> DEFINE Q == ComputeQuorum(m)
<1>1. Q \in Intersecting(m) /\ \A y \in Intersecting(m) : Q <= y
  <2>1. Q \in Intersecting(m)
    BY QuorumIsIntersecting
  <2>2. ASSUME NEW y \in Intersecting(m) PROVE Q <= y
    <3>1. y \in 0..m /\ Q \in Nat
      BY QuorumArithmetic DEF Intersecting
    <3>. QED
      BY <3>1, BelowQuorumNotIntersecting
  <2>. QED
    BY <2>1, <2>2
<1>2. RefQuorum(m) \in Intersecting(m)
      /\ \A y \in Intersecting(m) : RefQuorum(m) <= y
  BY <1>1 DEF RefQuorum, Min, Intersecting
<1>3. RefQuorum(m) \in Nat /\ Q \in Nat
  BY <1>2, QuorumArithmetic DEF Intersecting
<1>. QED
  BY <1>1, <1>2, <1>3

(* Every configuration the run examines has a positive cluster size.      *)
ConfigOK == n \in Nat \ {0}

LEMMA ConfigInvariant == Spec => []ConfigOK
<1>1. Init => ConfigOK
  BY DEF Init, ConfigOK
<1>2. ConfigOK /\ [Next]_vars => ConfigOK'
  BY DEF Next, vars, ConfigOK
<1>. QED
  BY <1>1, <1>2, PTL DEF Spec

(* The comment of computeQuorum, in every configuration: two quorums of an *)
(* N-member cluster share F + 1 members.                                   *)
THEOREM QuorumIntersectionInvariant == Spec => []QuorumIntersection
<1>1. ConfigOK => QuorumIntersection
  BY FS_Interval, QuorumIntersectionHolds DEF ConfigOK, QuorumIntersection
<1>. QED
  BY <1>1, ConfigInvariant, PTL

(* computeQuorum returns the smallest size at which quorums intersect in   *)
(* F + 1 members, and a quorum of correct members exists (Q <= N - F).     *)
THEOREM QuorumMatchesReferenceInvariant == Spec => []QuorumMatchesReference
<1>1. ConfigOK => QuorumMatchesReference
  BY QuorumIsLeast, QuorumArithmetic DEF ConfigOK, QuorumMatchesReference
<1>. QED
  BY <1>1, ConfigInvariant, PTL

=============================================================================
