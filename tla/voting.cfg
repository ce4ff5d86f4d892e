CONSTANTS
    Node = {n1, n2, n3, n4}
    Faulty = {n4}
    Candidate = {c1, c2}
    Attempt = {1, 2}
    Quorum <- MCQuorum
SPECIFICATION Spec
SYMMETRY MCSymmetry
INVARIANTS IInv Agreement
CHECK_DEADLOCK FALSE
