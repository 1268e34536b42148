---------------------------- MODULE MessageChannel ----------------------------
(***************************************************************************)
(* What a session promises its two users: a message that appears in an     *)
(* inbox was put on the wire by the other user, and appears there once,    *)
(* whatever the network repeats, reorders or loses and however often a     *)
(* user restarts.  Nothing is promised about order or about delivery.      *)
(***************************************************************************)
EXTENDS Naturals, Sequences

CONSTANTS A, B      \* the two users

VARIABLES submitted,   \* how many messages each user has put on the wire
          received     \* the numbers of the messages each user was handed, in order

Users == {A, B}
Peer(u) == IF u = A THEN B ELSE A

Init == /\ submitted = [u \in Users |-> 0]
        /\ received  = [u \in Users |-> << >>]

Submit(u) == /\ submitted' = [submitted EXCEPT ![u] = @ + 1]
             /\ UNCHANGED received

Deliver(u, m) ==
  /\ \A i \in 1 .. Len(received[u]) : received[u][i] # m
  /\ received' = [received EXCEPT ![u] = Append(@, m)]
  /\ UNCHANGED submitted

Next == \E u \in Users : \/ Submit(u)
                         \/ \E m \in 1 .. submitted[Peer(u)] : Deliver(u, m)

Spec == Init /\ [][Next]_<<submitted, received>>
=============================================================================
