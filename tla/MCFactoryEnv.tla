---------------------------- MODULE MCFactoryEnv ----------------------------
EXTENDS FactoryEnv, FactoryStoreInv

CONSTANTS
    e, q,    \* the environment's file and another one
    Long     \* the contents that take MaxBlocks blocks; the others take one

MCPrefix == {<<e, e>>, <<q, q>>}
MCBlocks == [d \in Data |-> IF d \in Long THEN MaxBlocks ELSE 1]
=============================================================================
