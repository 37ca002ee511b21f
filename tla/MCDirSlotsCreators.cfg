SPECIFICATION Spec
CONSTANTS
    l1 = l1
    l2 = l2
    s1 = s1
    s2 = s2
    s3 = s3
    Names = {l1, l2, s1, s2, s3}
    Need <- MCNeed
    Inodes = {i1, i2}
    Threads = {t1, t2}
    BlockSize = 10
    MaxBlocks = 2
    Exclusive = FALSE
    NewNames = FALSE
    None = None
SYMMETRY MCSymmetry
INVARIANT WellFormed
