---------------------------- MODULE MCRatchetPair ----------------------------
(* A sends more than the counter can count, B replies once. *)
EXTENDS RatchetPair

CONSTANTS SendsOfA, SendsOfB
MCMaxSends == [u \in {A, B} |-> IF u = A THEN SendsOfA ELSE SendsOfB]
=============================================================================
