SPECIFICATION FairEnvSpec
CONSTANTS
    e = e
    q = q
    EnvFile = e
    Default = a
    Path = {e, q}
    Data = {a, b}
    Long = {}
    MaxBlocks = 1
    NoFile = NoFile
    Blocks <- MCBlocks
    Prefix <- MCPrefix
    RootPrefix = {}
    NAS = TRUE
    Flash = "NAND"
    Half = 8
    Erase = 4
    Page = 4
    SeqMod = 4
    SeqWrap = 2
    MaxSeq = 4
    Faults = {"erase", "write"}
INVARIANT PingPong
INVARIANT NoRedundantHeader
INVARIANT EnvOnFlash
INVARIANT EnvInv
PROPERTY BootStoresEnv
