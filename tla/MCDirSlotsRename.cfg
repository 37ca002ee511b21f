SPECIFICATION Spec
CONSTANTS
    l1 = l1
    l2 = l2
    s1 = s1
    s2 = s2
    s3 = s3
    Names = {l1, l2, s1, s2, s3}
    Need <- MCNeed
    Inodes = {i1}
    Threads = {t1}
    BlockSize = 13
    MaxBlocks = 1
    Exclusive = TRUE
    NewNames = TRUE
    None = None
SYMMETRY MCSymmetry
VIEW ReadLater
INVARIANT ParametersCurrent
