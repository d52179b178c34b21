--------------------------- MODULE MCFactoryStore ---------------------------
EXTENDS FactoryStoreInv, TLC

CONSTANTS
    p, q, r, \* paths; p is a prefix of q, and r of "tmp/factory/"
    Long     \* the contents that take MaxBlocks blocks; the others take one

MCPrefix == 
    {<<p, p>>, <<q, q>>, <<p, q>>, <<r, p>>, <<r, q>>, <<r, r>>} \cap (Path \X Path)
MCBlocks == [d \in Data |-> IF d \in Long THEN MaxBlocks ELSE 1]
\* The contents are interchangeable when they are equally long.
MCSymmetry == Permutations(Data)
=============================================================================
