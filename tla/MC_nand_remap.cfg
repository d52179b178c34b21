SPECIFICATION SpecNoReset
CONSTANTS
    p = p
    q = q
    r = r
    Path = {p, q}
    Data = {a, b}
    Long = {}
    MaxBlocks = 1
    NoFile = NoFile
    Blocks <- MCBlocks
    Prefix <- MCPrefix
    RootPrefix = {}
    NAS = TRUE
    Flash = "NAND"
    Half = 8
    Erase = 4
    Page = 2
    SeqMod = 16
    SeqWrap = 12
    MaxSeq = 4
    Faults = {"remap"}
PROPERTY SaveOkIsVisible
