SPECIFICATION Spec
CONSTANTS
    p = p
    q = q
    r = r
    Path = {p, r}
    Data = {a, b}
    Long = {}
    MaxBlocks = 1
    NoFile = NoFile
    Blocks <- MCBlocks
    Prefix <- MCPrefix
    RootPrefix = {r}
    NAS = TRUE
    Flash = "NAND"
    Half = 8
    Erase = 4
    Page = 2
    SeqMod = 16
    SeqWrap = 12
    MaxSeq = 2
    Faults = {"read", "erase", "write", "remap"}
SYMMETRY MCSymmetry
INVARIANT NoTornCopy
