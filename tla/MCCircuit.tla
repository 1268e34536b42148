------------------------------ MODULE MCCircuit ------------------------------
EXTENDS Circuit

CONSTANTS r1, r2, r3, r4, r5, r6, alice, bob

\* alice polls a relay the sender does not know and one it can use; bob has
\* published no candidates.
MCPublished == [u \in Peers |-> IF u = alice THEN <<r5, r1>> ELSE << >>]
=============================================================================
