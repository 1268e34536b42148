--------------------------- MODULE MCSessionManager ---------------------------
(* Two users who write to each other. *)
EXTENDS SessionManager

CONSTANTS A, B, SendsAB, SendsBA, RestartsOfA, RestartsOfB

MCMaxSends == [u \in Users |-> [v \in Users |->
                 CASE u = A /\ v = B -> SendsAB
                   [] u = B /\ v = A -> SendsBA
                   [] OTHER -> 0]]

MCMaxRestarts == [u \in Users |-> CASE u = A -> RestartsOfA
                                    [] u = B -> RestartsOfB
                                    [] OTHER -> 0]
=============================================================================
