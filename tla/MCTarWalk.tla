------------------------------ MODULE MCTarWalk ------------------------------
EXTENDS TarWalk

CONSTANTS p, q, r, \* paths; p is a prefix of q, and r of "tmp/factory/"
          a, b     \* contents: a is empty, b takes two blocks

MCPrefix == {<<p, p>>, <<q, q>>, <<p, q>>, <<r, p>>, <<r, q>>, <<r, r>>}
MCBlocks == [d \in Data |-> IF d = a THEN 0 ELSE 2]
=============================================================================
