CONSTANTS
    MaxN = 7
    MaxView = 14
SPECIFICATION Spec
INVARIANTS
    QuorumIntersection
    QuorumMatchesReference
