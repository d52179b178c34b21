SPECIFICATION Spec
CONSTANTS
    p = p
    q = q
    r = r
    a = a
    b = b
    Path = {p, q, r}
    Data = {a, b}
    NoFile = NoFile
    MaxBlocks = 2
    Blocks <- MCBlocks
    Prefix <- MCPrefix
    RootPrefix = {r}
    NAS = TRUE
    Root = Root
    EnvPath = {p, q}
    TmpLen = 10
INVARIANT WalkComputesTar
INVARIANT ReadsBack
INVARIANT IndexEnumerates
INVARIANT TmpFits
