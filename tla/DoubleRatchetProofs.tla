------------------------- MODULE DoubleRatchetProofs -------------------------
(***************************************************************************)
(* What the operators of DoubleRatchet return and preserve, for all        *)
(* secrets, widths of the counters and longest jumps.                      *)
(***************************************************************************)
EXTENDS DoubleRatchet, TLAPS

\* A remainder is below its modulus: what keeps the counters in range.
LEMMA ModRange ==
  ASSUME NEW M \in Nat, M > 0, NEW x \in Nat
  PROVE  x % M \in 0 .. M - 1
OBVIOUS

\* A number below the modulus is its own remainder.
LEMMA ModSmall ==
  ASSUME NEW M \in Nat, NEW x \in Nat, x < M
  PROVE  x % M = x
OBVIOUS

-----------------------------------------------------------------------------
(* The operators of the ratchet                                            *)

\* A new ratchet is a ratchet, whichever side it is for.
LEMMA NewRatchetType ==
  ASSUME NEW s \in Secrets, NEW role \in RatchetRole
  PROVE  NewRatchet(s, role) \in Ratchet
<1>1. NoKeys \in [{} -> MessageKey]
  BY DEF NoKeys
<1>2. NoKeys \in SkippedKeys
  BY <1>1 DEF SkippedKeys
<1>3. 0 \in Counter
  BY RatchetAssumption DEF Counter
<1>4. /\ ChainTowards(s, role) \in Chain
      /\ ChainTowards(s, Opposite(role)) \in Chain
  BY DEF ChainTowards, Opposite, Chain
<1> QED
  BY <1>2, <1>3, <1>4 DEF NewRatchet, Ratchet, ChainKey

\* A new ratchet: the two chains of its role, at step 0, and no keys kept.
LEMMA NewRatchetFields ==
  ASSUME NEW s, NEW role
  PROVE  /\ NewRatchet(s, role).sendKey.chain = ChainTowards(s, role)
         /\ NewRatchet(s, role).recvKey.chain = ChainTowards(s, Opposite(role))
         /\ NewRatchet(s, role).sendKey.step = 0
         /\ NewRatchet(s, role).recvKey.step = 0
         /\ NewRatchet(s, role).sendCounter = 0
         /\ NewRatchet(s, role).recvCounter = 0
         /\ DOMAIN NewRatchet(s, role).skipped = {}
BY DEF NewRatchet, NoKeys

\* Chains differ by direction within a role, and by secret or by role
\* between two sessions.
LEMMA ChainsDiffer ==
  ASSUME NEW s, NEW t, NEW role \in RatchetRole, NEW other \in RatchetRole
  PROVE  /\ ChainTowards(s, role) # ChainTowards(t, Opposite(role))
         /\ s # t => ChainTowards(s, role) # ChainTowards(t, other)
         /\ role # other => ChainTowards(s, role) # ChainTowards(t, other)
<1>1. /\ ChainTowards(s, role).secret = s /\ ChainTowards(t, other).secret = t
      /\ ChainTowards(s, role).dir = IF role = "Initiator" THEN "InitiatorToResponder" ELSE "ResponderToInitiator"
      /\ ChainTowards(t, other).dir = IF other = "Initiator" THEN "InitiatorToResponder" ELSE "ResponderToInitiator"
      /\ ChainTowards(t, Opposite(role)).dir =
           IF Opposite(role) = "Initiator" THEN "InitiatorToResponder" ELSE "ResponderToInitiator"
  BY DEF ChainTowards
<1> QED
  BY <1>1 DEF RatchetRole, Opposite

\* Rows of the store and ratchets map to one another.
LEMMA ExportRestoreType ==
  /\ \A r \in Ratchet : ExportState(r) \in RatchetState
  /\ \A s \in RatchetState : Restore(s) \in Ratchet
<1>1. NoKeys \in [{} -> MessageKey]
  BY DEF NoKeys
<1>2. NoKeys \in SkippedKeys
  BY <1>1 DEF SkippedKeys
<1> QED
  BY <1>2 DEF ExportState, Restore, Ratchet, RatchetState

\* What a sending step changes and what it leaves alone.
LEMMA SendStepFields ==
  ASSUME NEW r \in Ratchet
  PROVE  /\ SendStep(r) \in Ratchet
         /\ SendStep(r).sendKey.chain = r.sendKey.chain
         /\ SendStep(r).sendKey.step = r.sendKey.step + 1
         /\ SendStep(r).sendCounter = (r.sendCounter + 1) % CounterMod
         /\ SendStep(r).recvKey = r.recvKey
         /\ SendStep(r).recvCounter = r.recvCounter
         /\ SendStep(r).skipped = r.skipped
<1> DEFINE c == (r.sendCounter + 1) % CounterMod
<1>1. c \in Counter
  BY RatchetAssumption, ModRange DEF Ratchet, Counter
<1>2. SendStep(r) = [r EXCEPT !.sendKey.step = @ + 1, !.sendCounter = c]
  BY DEF SendStep
<1> HIDE DEF c
<1>3. r.sendKey.step + 1 \in Nat
  BY DEF Ratchet, ChainKey
<1>4. /\ SendStep(r) \in Ratchet
      /\ SendStep(r).sendKey.chain = r.sendKey.chain
      /\ SendStep(r).sendKey.step = r.sendKey.step + 1
      /\ SendStep(r).sendCounter = c
      /\ SendStep(r).recvKey = r.recvKey
      /\ SendStep(r).recvCounter = r.recvCounter
      /\ SendStep(r).skipped = r.skipped
  BY <1>1, <1>2, <1>3 DEF Ratchet, ChainKey
<1> QED
  BY <1>4 DEF c

\* The row keeps both chains and both counters.
LEMMA ExportFields ==
  ASSUME NEW r
  PROVE  /\ ExportState(r).sendKey = r.sendKey /\ ExportState(r).sendCounter = r.sendCounter
         /\ ExportState(r).recvKey = r.recvKey /\ ExportState(r).recvCounter = r.recvCounter
BY DEF ExportState

\* A ratchet restored from a row has its chains and no keys kept.
LEMMA RestoreFields ==
  ASSUME NEW s
  PROVE  /\ Restore(s).sendKey = s.sendKey /\ Restore(s).sendCounter = s.sendCounter
         /\ Restore(s).recvKey = s.recvKey /\ Restore(s).recvCounter = s.recvCounter
         /\ DOMAIN Restore(s).skipped = {}
BY DEF Restore, NoKeys

-----------------------------------------------------------------------------
(* What a ratchet in use satisfies: the receiving chain has made as many   *)
(* steps as its counter says, and a skipped key is the one of its counter, *)
(* which the chain has passed.                                             *)

Regular(r) ==
  /\ r.recvKey.step = r.recvCounter
  /\ \A c \in DOMAIN r.skipped :
       /\ c <= r.recvCounter
       /\ r.skipped[c] = [chain |-> r.recvKey.chain, index |-> c]

\* Counters are natural numbers.
LEMMA CounterIsNat == Counter \subseteq Nat
BY RatchetAssumption DEF Counter

\* decrypt looks for the key with the counter's own number, in either case.
LEMMA KeyForRegular ==
  ASSUME NEW r \in Ratchet, Regular(r), NEW c \in Counter, HasKeyFor(r, c)
  PROVE  KeyFor(r, c) = [chain |-> r.recvKey.chain, index |-> c]
<1>1. CASE c > r.recvCounter
  <2>1. r.recvKey.step + (c - r.recvCounter) = c
    <3>1. r.recvCounter \in Nat /\ c \in Nat /\ r.recvKey.step = r.recvCounter
      BY CounterIsNat DEF Regular, Ratchet
    <3> QED
      BY <3>1
  <2> QED
    BY <1>1, <2>1 DEF KeyFor, KeyAhead
<1>2. CASE ~(c > r.recvCounter)
  BY <1>2 DEF KeyFor, HasKeyFor, IsAhead, IsLate, Regular
<1> QED
  BY <1>1, <1>2

\* After decrypt has taken the key of c: the ratchet is regular, it is past
\* c and has no key for c, and it has given up no key but c's.
LEMMA AfterDecryptRegular ==
  ASSUME NEW r \in Ratchet, Regular(r), NEW c \in Counter, HasKeyFor(r, c),
         NEW n, n = AfterDecrypt(r, c)
  PROVE  /\ n \in Ratchet
         /\ Regular(n)
         /\ n.sendKey = r.sendKey /\ n.sendCounter = r.sendCounter
         /\ n.recvKey.chain = r.recvKey.chain
         /\ n.recvCounter >= r.recvCounter /\ n.recvCounter >= c
         /\ \A d \in DOMAIN n.skipped : d # c /\ (d \in DOMAIN r.skipped \/ d > r.recvCounter)
         /\ \A d \in Counter : d # c /\ d <= n.recvCounter =>
              \/ d \in DOMAIN n.skipped
              \/ d <= r.recvCounter /\ d \notin DOMAIN r.skipped
<1> DEFINE K(d) == [chain |-> r.recvKey.chain, index |-> d]
<1>0. PICK S \in SUBSET Counter : r.skipped \in [S -> MessageKey]
  BY DEF Ratchet, SkippedKeys
<1>s. DOMAIN r.skipped = S
  BY <1>0
<1>n. /\ r.recvCounter \in Counter /\ r.recvCounter \in Nat /\ c \in Nat
      /\ r.recvKey.step = r.recvCounter
      /\ r.recvKey.chain \in Chain
      /\ \A d \in Counter : d \in Nat
  BY CounterIsNat DEF Ratchet, Regular, ChainKey
<1>k. \A d \in S : d <= r.recvCounter /\ r.skipped[d] = K(d)
  BY <1>s DEF Regular
<1>t. \A d \in Nat : K(d) \in MessageKey
  BY <1>n DEF MessageKey
<1> HIDE DEF K
<1>1. CASE c > r.recvCounter
  <2> DEFINE D == S \union (r.recvCounter + 1) .. (c - 1)
             k == [d \in D |-> IF d > r.recvCounter THEN KeyAhead(r.recvKey, d - r.recvCounter)
                                                    ELSE r.skipped[d]]
  <2>1. n = [r EXCEPT !.recvKey.step = @ + (c - r.recvCounter), !.recvCounter = c, !.skipped = k]
    BY <1>s, <1>1 DEF AfterDecrypt, AdvanceTo
  <2>2. D \in SUBSET Counter
    <3> SUFFICES ASSUME NEW d \in D PROVE d \in Counter
      OBVIOUS
    <3>1. CASE d \in S
      BY <3>1, <1>0
    <3>2. CASE d \in (r.recvCounter + 1) .. (c - 1)
      <4>1. d \in Nat /\ d <= c
        BY <3>2, <1>n
      <4>2. c <= CounterMod - 1 /\ CounterMod \in Nat
        BY RatchetAssumption DEF Counter
      <4> QED
        BY <4>1, <4>2, <1>n DEF Counter
    <3> QED
      BY <3>1, <3>2
  <2>3. \A d \in D : k[d] = K(d)
    <3> SUFFICES ASSUME NEW d \in D PROVE k[d] = K(d)
      OBVIOUS
    <3>1. d \in Nat
      BY <2>2, <1>n
    <3>2. CASE d > r.recvCounter
      <4>1. r.recvKey.step + (d - r.recvCounter) = d
        BY <3>1, <3>2, <1>n
      <4> QED
        BY <3>2, <4>1 DEF KeyAhead, K
    <3>3. CASE ~(d > r.recvCounter)
      <4>1. d \in S
        BY <3>1, <3>3, <1>n
      <4> QED
        BY <4>1, <3>3, <1>k
    <3> QED
      BY <3>2, <3>3
  <2>4. k \in SkippedKeys
    <3>1. k \in [D -> MessageKey]
      BY <2>2, <2>3, <1>n, <1>t
    <3> QED
      BY <2>2, <3>1 DEF SkippedKeys
  <2>5. DOMAIN k = D
    OBVIOUS
  <2> HIDE DEF k
  <2>6. r.recvKey.step + (c - r.recvCounter) = c
    BY <1>n, <1>1
  <2>7. n \in Ratchet
    BY <2>1, <2>4, <2>6, <1>n DEF Ratchet, ChainKey
  <2>8. /\ n.sendKey = r.sendKey /\ n.sendCounter = r.sendCounter
        /\ n.recvKey.chain = r.recvKey.chain
        /\ n.recvKey.step = c
        /\ n.recvCounter = c
        /\ n.skipped = k
    BY <2>1, <2>6 DEF Ratchet, ChainKey
  <2>9. \A d \in D : d <= c /\ d # c /\ (d \in S \/ d > r.recvCounter)
    <3> SUFFICES ASSUME NEW d \in D PROVE d <= c /\ d # c /\ (d \in S \/ d > r.recvCounter)
      OBVIOUS
    <3> DEFINE m == r.recvCounter
    <3>1. m \in Nat /\ c > m /\ c \in Nat
      BY <1>n, <1>1
    <3>2. CASE d \in S
      <4>1. d \in Nat /\ d <= m
        BY <3>2, <1>k, <1>0, <1>n
      <4> HIDE DEF m, D
      <4> QED
        BY <3>1, <3>2, <4>1
    <3>3. CASE d \in (m + 1) .. (c - 1)
      <4> HIDE DEF m, D
      <4>1. d <= c /\ d # c /\ d > m
        BY <3>1, <3>3
      <4> QED
        BY <4>1 DEF m
    <3> QED
      BY <3>2, <3>3
  <2>10. Regular(n)
    BY <2>3, <2>5, <2>8, <2>9 DEF Regular, K
  <2>11. \A d \in Counter : d # c /\ d <= c => d \in D \/ (d <= r.recvCounter /\ d \notin S)
    <3> SUFFICES ASSUME NEW d \in Counter, d # c, d <= c, d \notin D
                 PROVE  d <= r.recvCounter /\ d \notin S
      OBVIOUS
    <3>1. d \in Nat /\ d \notin (r.recvCounter + 1) .. (c - 1)
      BY <1>n
    <3> QED
      BY <3>1, <1>n
  <2> HIDE DEF D
  <2> QED
    BY <2>5, <2>7, <2>8, <2>9, <2>10, <2>11, <1>1, <1>n, <1>s
<1>2. CASE ~(c > r.recvCounter)
  <2> DEFINE k == [d \in S \ {c} |-> r.skipped[d]]
  <2>1. n = [r EXCEPT !.skipped = k]
    BY <1>2, <1>s DEF AfterDecrypt, TakeSkipped
  <2>2. k \in SkippedKeys
    <3>1. k \in [S \ {c} -> MessageKey]
      BY <1>0
    <3> QED
      BY <3>1 DEF SkippedKeys
  <2>3. DOMAIN k = S \ {c} /\ \A d \in S \ {c} : k[d] = r.skipped[d]
    OBVIOUS
  <2> HIDE DEF k
  <2>4. n \in Ratchet
    BY <2>1, <2>2 DEF Ratchet
  <2>5. /\ n.sendKey = r.sendKey /\ n.sendCounter = r.sendCounter
        /\ n.recvKey = r.recvKey /\ n.recvCounter = r.recvCounter
        /\ n.skipped = k
    BY <2>1 DEF Ratchet
  <2>6. Regular(n)
    BY <2>3, <2>5, <1>k, <1>n DEF Regular, K
  <2> QED
    BY <2>3, <2>4, <2>5, <2>6, <1>2, <1>n, <1>s
<1> QED
  BY <1>1, <1>2

\* The receiving counter moves to the envelope's or not at all.
LEMMA AfterDecryptCounter ==
  ASSUME NEW r \in Ratchet, NEW c \in Counter
  PROVE  AfterDecrypt(r, c).recvCounter = IF c > r.recvCounter THEN c ELSE r.recvCounter
<1>1. CASE c > r.recvCounter
  <2> DEFINE k == [d \in DOMAIN r.skipped \union (r.recvCounter + 1) .. (c - 1) |->
                     IF d > r.recvCounter THEN KeyAhead(r.recvKey, d - r.recvCounter) ELSE r.skipped[d]]
  <2>1. AfterDecrypt(r, c) =
          [r EXCEPT !.recvKey.step = @ + (c - r.recvCounter), !.recvCounter = c, !.skipped = k]
    BY <1>1 DEF AfterDecrypt, AdvanceTo
  <2> HIDE DEF k
  <2> QED
    BY <1>1, <2>1 DEF Ratchet
<1>2. CASE ~(c > r.recvCounter)
  BY <1>2 DEF AfterDecrypt, TakeSkipped, Ratchet
<1> QED
  BY <1>1, <1>2

\* Members of Ratchet are ratchets in the form that TLC evaluates.
LEMMA RatchetIsRatchet ==
  ASSUME NEW r \in Ratchet
  PROVE  IsRatchet(r)
<1>1. PICK S \in SUBSET Counter : r.skipped \in [S -> MessageKey]
  BY DEF Ratchet, SkippedKeys
<1>2. DOMAIN r.skipped \subseteq Counter /\ \A c \in DOMAIN r.skipped : r.skipped[c] \in MessageKey
  BY <1>1
<1>3. r = [Restore(ExportState(r)) EXCEPT !.skipped = r.skipped]
  BY DEF Ratchet, Restore, ExportState
<1>4. ExportState(r) \in RatchetState
  BY ExportRestoreType
<1> QED
  BY <1>2, <1>3, <1>4 DEF IsRatchet
=============================================================================
