CONSTANT MaxSeq <- MCMaxSeq
SPECIFICATION Spec
INVARIANT ReadConsistent
