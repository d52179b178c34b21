SPECIFICATION Spec
CONSTANTS
    p = p
    q = q
    r = r
    Path = {p}
    Data = {a, b, c}
    Long = {c}
    MaxBlocks = 3
    NoFile = NoFile
    Blocks <- MCBlocks
    Prefix <- MCPrefix
    RootPrefix = {}
    NAS = TRUE
    Flash = "EMMC"
    Half = 7
    Erase = 1
    Page = 1
    SeqMod = 16
    SeqWrap = 12
    MaxSeq = 4
    Faults = {}
INVARIANT StaysInCopy
