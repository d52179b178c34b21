SPECIFICATION Spec
CONSTANTS
    p = p
    q = q
    r = r
    Path = {p, q}
    Data = {a, b}
    Long = {}
    MaxBlocks = 1
    NoFile = NoFile
    Blocks <- MCBlocks
    Prefix <- MCPrefix
    RootPrefix = {}
    NAS = TRUE
    Flash = "SPI"
    Half = 7
    Erase = 7
    Page = 1
    SeqMod = 16
    SeqWrap = 12
    MaxSeq = 4
    Faults = {}
INVARIANT TypeOK
PROPERTY OldOrNew
PROPERTY SaveOkIsVisible
PROPERTY ResetClearsBoth
