-------------------------- MODULE RatchetPairProofs --------------------------
(***************************************************************************)
(* Theorems about RatchetPair, for all users, secrets, bounds and widths.  *)
(* The inductive invariant is IInv: type correctness and six facts that    *)
(* relate the two sessions, their rows, the wire and the inboxes.          *)
(***************************************************************************)
EXTENDS RatchetPair, DoubleRatchetProofs, TLAPS

\* The envelope that a sending step puts on the wire.
LEMMA SealFields ==
  ASSUME NEW r \in Ratchet
  PROVE  /\ Seal(r) \in Envelope
         /\ Seal(r).counter = (r.sendCounter + 1) % CounterMod
         /\ Seal(r).key.chain = r.sendKey.chain
         /\ Seal(r).key.index = r.sendKey.step + 1
<1>1. SendStep(r).sendCounter = (r.sendCounter + 1) % CounterMod
  BY SendStepFields
<1>2. SendStep(r).sendCounter \in Counter
  BY SendStepFields DEF Ratchet
<1> QED
  BY <1>1, <1>2 DEF Seal, KeyAhead, Envelope, MessageKey, Ratchet, ChainKey

-----------------------------------------------------------------------------
(* The inductive invariant                                                 *)

\* Every row has the chains of its session; the two users send on different
\* chains, and nobody receives on the chain it sends on.
ChainsOK ==
  /\ \A u \in Users : /\ store[u].sendKey.chain = session[u].sendKey.chain
                      /\ store[u].recvKey.chain = session[u].recvKey.chain
                      /\ session[u].sendKey.chain # session[u].recvKey.chain
  /\ session[A].sendKey.chain # session[B].sendKey.chain

\* A row is never ahead of its session in memory.
RowsBehind ==
  \A u \in Users : /\ Regular(session[u])
                   /\ store[u].recvKey.step = store[u].recvCounter
                   /\ store[u].recvCounter <= session[u].recvCounter
                   /\ store[u].sendKey.step <= session[u].sendKey.step

\* The keys on the wire are the sender's, in growing order, behind its row.
WireOK ==
  \A u \in Users : \A i \in 1 .. Len(wire[u]) :
    /\ wire[u][i].key.chain = session[u].sendKey.chain
    /\ wire[u][i].key.index <= store[u].sendKey.step
    /\ \A j \in 1 .. Len(wire[u]) : i < j => wire[u][i].key.index < wire[u][j].key.index

\* What was handed over was opened with the receiver's key of that number;
\* the row is past it and the key is not kept.
InboxOK ==
  \A u \in Users : \A i \in 1 .. Len(inbox[u]) :
    LET n == inbox[u][i]
        e == wire[Peer(u)][n]
    IN  /\ n \in 1 .. Len(wire[Peer(u)])
        /\ e.key = [chain |-> session[u].recvKey.chain, index |-> e.counter]
        /\ e.counter <= store[u].recvCounter
        /\ e.counter \notin DOMAIN session[u].skipped

\* No message is in an inbox twice.
NoRepeats ==
  \A u \in Users : \A i, j \in 1 .. Len(inbox[u]) : i # j => inbox[u][i] # inbox[u][j]

\* TypeOK with the set of all ratchets.
Typed ==
  /\ session \in [Users -> Ratchet]
  /\ store  \in [Users -> RatchetState]
  /\ loaded \in [Users -> BOOLEAN]
  /\ wire   \in [Users -> Seq(Envelope)]
  /\ inbox  \in [Users -> Seq(Nat)]
  /\ lost   \in [Users -> SUBSET Counter]

IInv == Typed /\ ChainsOK /\ RowsBehind /\ WireOK /\ InboxOK /\ NoRepeats

\* There are two users, and each is the peer of the other.
LEMMA PeerFacts ==
  ASSUME NEW u \in Users
  PROVE  /\ Peer(u) \in Users /\ Peer(u) # u /\ Peer(Peer(u)) = u
         /\ \A v \in Users : v = u \/ v = Peer(u)
         /\ \A v \in Users : Peer(v) \in Users
BY PairAssumption DEF Users, Peer

\* The invariant holds of two sessions that were just set up.
LEMMA InitIInv == Init => IInv
<1> SUFFICES ASSUME Init PROVE IInv
  OBVIOUS
<1>1. PICK secret \in [Users -> Secrets], role \in [Users -> RatchetRole] :
        /\ secret[A] = secret[B] => role[A] # role[B]
        /\ session = [u \in Users |-> NewRatchet(secret[u], role[u])]
  BY DEF Init
<1>2. \A u \in Users : session[u] = NewRatchet(secret[u], role[u])
  BY <1>1
<1>3. session \in [Users -> Ratchet]
  BY <1>1, NewRatchetType
<1>4. store = [u \in Users |-> ExportState(session[u])] /\ store \in [Users -> RatchetState]
  BY <1>3, ExportRestoreType DEF Init
<1>5. Typed
  BY <1>3, <1>4 DEF Init, Typed
<1>6. \A u \in Users : store[u] = ExportState(session[u])
  BY <1>4
<1>7. ChainsOK
  <2>1. A \in Users /\ B \in Users
    BY DEF Users
  <2>2. \A u \in Users :
          /\ session[u].sendKey.chain = ChainTowards(secret[u], role[u])
          /\ session[u].recvKey.chain = ChainTowards(secret[u], Opposite(role[u]))
    BY <1>2, NewRatchetFields
  <2>3. \A u \in Users : session[u].sendKey.chain # session[u].recvKey.chain
    BY <2>2, ChainsDiffer
  <2>4. session[A].sendKey.chain # session[B].sendKey.chain
    <3>1. /\ session[A].sendKey.chain = ChainTowards(secret[A], role[A])
          /\ session[B].sendKey.chain = ChainTowards(secret[B], role[B])
      BY <2>1, <2>2
    <3>2. role[A] \in RatchetRole /\ role[B] \in RatchetRole
      BY <2>1
    <3>3. CASE secret[A] # secret[B]
      BY <3>1, <3>2, <3>3, ChainsDiffer
    <3>4. CASE role[A] # role[B]
      BY <3>1, <3>2, <3>4, ChainsDiffer
    <3> QED
      BY <1>1, <3>3, <3>4
  <2> QED
    BY <1>6, <2>3, <2>4, ExportFields DEF ChainsOK
<1>8. RowsBehind
  <2>1. \A u \in Users : /\ session[u].recvKey.step = 0 /\ session[u].recvCounter = 0
                         /\ session[u].sendKey.step = 0 /\ DOMAIN session[u].skipped = {}
    BY <1>2, NewRatchetFields
  <2> QED
    BY <1>6, <2>1, ExportFields DEF RowsBehind, Regular
<1>9. WireOK /\ InboxOK /\ NoRepeats
  BY DEF Init, WireOK, InboxOK, NoRepeats
<1> QED
  BY <1>5, <1>7, <1>8, <1>9 DEF IInv
-----------------------------------------------------------------------------
(* Every step preserves the invariant                                      *)

\* What the conjuncts about one user say of it.
LEMMA UserFacts ==
  ASSUME IInv, NEW u \in Users
  PROVE  /\ session[u] \in Ratchet /\ Regular(session[u])
         /\ store[u] \in RatchetState
         /\ session[u].sendKey.step \in Nat /\ store[u].sendKey.step \in Nat
         /\ session[u].recvKey.step \in Nat /\ store[u].recvKey.step \in Nat
         /\ session[u].recvCounter \in Nat /\ store[u].recvCounter \in Nat
         /\ store[u].sendKey.step <= session[u].sendKey.step
         /\ store[u].recvCounter <= session[u].recvCounter
         /\ store[u].recvKey.step = store[u].recvCounter
         /\ wire[u] \in Seq(Envelope) /\ Len(wire[u]) \in Nat
         /\ inbox[u] \in Seq(Nat) /\ Len(inbox[u]) \in Nat
         /\ \A i \in 1 .. Len(wire[u]) : /\ wire[u][i] \in Envelope
                                         /\ wire[u][i].counter \in Counter
                                         /\ wire[u][i].key.index \in Nat
<1>1. /\ session[u] \in Ratchet /\ store[u] \in RatchetState
      /\ wire[u] \in Seq(Envelope) /\ inbox[u] \in Seq(Nat)
  BY DEF IInv, Typed
<1>2. /\ session[u].sendKey.step \in Nat /\ store[u].sendKey.step \in Nat
      /\ session[u].recvKey.step \in Nat /\ store[u].recvKey.step \in Nat
      /\ session[u].recvCounter \in Nat /\ store[u].recvCounter \in Nat
  BY <1>1, CounterIsNat DEF Ratchet, RatchetState, ChainKey
<1>3. /\ Regular(session[u])
      /\ store[u].sendKey.step <= session[u].sendKey.step
      /\ store[u].recvCounter <= session[u].recvCounter
      /\ store[u].recvKey.step = store[u].recvCounter
  BY DEF IInv, RowsBehind
<1>4. \A i \in 1 .. Len(wire[u]) : wire[u][i] \in Envelope
  BY <1>1
<1>5. Len(wire[u]) \in Nat /\ Len(inbox[u]) \in Nat
  BY <1>1
<1>6. \A e \in Envelope : e.counter \in Counter /\ e.key.index \in Nat
  BY DEF Envelope, MessageKey
<1> QED
  BY <1>1, <1>2, <1>3, <1>4, <1>5, <1>6

\* encrypt_for, with the row written, keeps the invariant.
LEMMA EncryptKeepsIInv ==
  ASSUME IInv, NEW u \in Users, Encrypt(u)
  PROVE  IInv'
<1> DEFINE r == session[u]
           n == SendStep(session[u])
<1>1. r \in Ratchet /\ Regular(r)
  BY UserFacts
<1>2. /\ n \in Ratchet
      /\ n.sendKey.chain = r.sendKey.chain /\ n.sendKey.step = r.sendKey.step + 1
      /\ n.recvKey = r.recvKey /\ n.recvCounter = r.recvCounter /\ n.skipped = r.skipped
  BY <1>1, SendStepFields
<1>3. /\ Seal(r) \in Envelope
      /\ Seal(r).key.chain = r.sendKey.chain /\ Seal(r).key.index = r.sendKey.step + 1
  BY <1>1, SealFields
<1>4. /\ session' = [session EXCEPT ![u] = n]
      /\ store' = [store EXCEPT ![u] = ExportState(n)]
      /\ wire' = [wire EXCEPT ![u] = Append(@, Seal(r))]
      /\ loaded' = [loaded EXCEPT ![u] = TRUE]
      /\ inbox' = inbox /\ lost' = lost
  BY DEF Encrypt
<1> HIDE DEF n, r
<1>5. Typed'
  <2>1. ExportState(n) \in RatchetState
    BY <1>2, ExportRestoreType
  <2>2. Append(wire[u], Seal(r)) \in Seq(Envelope)
    BY <1>3, UserFacts
  <2> QED
    BY <1>2, <1>4, <2>1, <2>2 DEF IInv, Typed
<1>6. /\ session'[u] = n /\ store'[u] = ExportState(n) /\ wire'[u] = Append(wire[u], Seal(r))
      /\ \A v \in Users : v # u => session'[v] = session[v] /\ store'[v] = store[v] /\ wire'[v] = wire[v]
  BY <1>4 DEF IInv, Typed
<1>7. /\ store'[u].sendKey = n.sendKey /\ store'[u].recvKey = n.recvKey
      /\ store'[u].recvCounter = n.recvCounter
  BY <1>6, ExportFields
<1>8. ChainsOK'
  <2>1. \A v \in Users : /\ session'[v].sendKey.chain = session[v].sendKey.chain
                         /\ session'[v].recvKey.chain = session[v].recvKey.chain
    BY <1>2, <1>6 DEF r
  <2>2. \A v \in Users : /\ store'[v].sendKey.chain = session'[v].sendKey.chain
                         /\ store'[v].recvKey.chain = session'[v].recvKey.chain
    BY <1>6, <1>7 DEF IInv, ChainsOK
  <2> QED
    BY <2>1, <2>2, <1>4 DEF IInv, ChainsOK, Users
<1>9. RowsBehind'
  <2>1. Regular(n)
    BY <1>1, <1>2 DEF Regular
  <2>2. /\ store'[u].recvKey.step = store'[u].recvCounter
        /\ store'[u].recvCounter <= session'[u].recvCounter
        /\ store'[u].sendKey.step <= session'[u].sendKey.step
    <3>1. n.recvKey.step = n.recvCounter
      BY <2>1 DEF Regular
    <3>2. n.recvCounter \in Nat /\ n.sendKey.step \in Nat
      BY <1>2, CounterIsNat DEF Ratchet, ChainKey
    <3> QED
      BY <1>6, <1>7, <3>1, <3>2
  <2>3. \A v \in Users : v # u =>
          /\ Regular(session'[v])
          /\ store'[v].recvKey.step = store'[v].recvCounter
          /\ store'[v].recvCounter <= session'[v].recvCounter
          /\ store'[v].sendKey.step <= session'[v].sendKey.step
    BY <1>6 DEF IInv, RowsBehind
  <2>4. Regular(session'[u])
    BY <1>6, <2>1
  <2> QED
    BY <2>2, <2>3, <2>4 DEF RowsBehind, Regular
<1>10. WireOK'
  <2> SUFFICES ASSUME NEW v \in Users, NEW i \in 1 .. Len(wire'[v])
               PROVE  /\ wire'[v][i].key.chain = session'[v].sendKey.chain
                      /\ wire'[v][i].key.index <= store'[v].sendKey.step
                      /\ \A j \in 1 .. Len(wire'[v]) :
                           i < j => wire'[v][i].key.index < wire'[v][j].key.index
    BY DEF WireOK
  <2>1. CASE v # u
    BY <2>1, <1>6 DEF IInv, WireOK
  <2>2. CASE v = u
    <3> DEFINE w == wire[u]
               l == Len(wire[u])
    <3>1. /\ w \in Seq(Envelope) /\ l \in Nat
          /\ r.sendKey.step \in Nat /\ store[u].sendKey.step \in Nat
          /\ store[u].sendKey.step <= r.sendKey.step
      BY UserFacts DEF r
    <3>2. \A k \in 1 .. l : /\ w[k].key.chain = r.sendKey.chain
                            /\ w[k].key.index \in Nat /\ w[k].key.index <= r.sendKey.step
                            /\ \A j \in 1 .. l : k < j => w[k].key.index < w[j].key.index
      BY <3>1, UserFacts DEF r, IInv, WireOK
    <3>3. /\ Len(wire'[v]) = l + 1
          /\ wire'[v][l + 1] = Seal(r)
          /\ \A k \in 1 .. l : wire'[v][k] = w[k]
      BY <2>2, <1>3, <1>6, <3>1
    <3>4. session'[v].sendKey.chain = r.sendKey.chain /\ store'[v].sendKey.step = r.sendKey.step + 1
      BY <2>2, <1>2, <1>6, <1>7
    <3> HIDE DEF w, l
    <3>5. CASE i = l + 1
      BY <3>5, <3>1, <3>3, <3>4, <1>3
    <3>6. CASE i \in 1 .. l
      <4>1. /\ wire'[v][i] = w[i]
            /\ w[i].key.chain = r.sendKey.chain
            /\ w[i].key.index \in Nat /\ w[i].key.index <= r.sendKey.step
        BY <3>6, <3>2, <3>3
      <4>2. ASSUME NEW j \in 1 .. Len(wire'[v]), i < j
            PROVE  wire'[v][i].key.index < wire'[v][j].key.index
        <5>1. CASE j = l + 1
          BY <5>1, <4>1, <3>1, <3>3, <1>3
        <5>2. CASE j \in 1 .. l
          BY <5>2, <4>1, <4>2, <3>2, <3>3, <3>6
        <5> QED
          BY <5>1, <5>2, <3>1, <3>3
      <4> QED
        BY <4>1, <4>2, <3>1, <3>4
    <3> QED
      BY <3>1, <3>3, <3>5, <3>6
  <2> QED
    BY <2>1, <2>2
<1>11. InboxOK'
  <2> SUFFICES ASSUME NEW v \in Users, NEW i \in 1 .. Len(inbox[v])
               PROVE  LET m == inbox[v][i]
                          e == wire'[Peer(v)][m]
                      IN  /\ m \in 1 .. Len(wire'[Peer(v)])
                          /\ e.key = [chain |-> session'[v].recvKey.chain, index |-> e.counter]
                          /\ e.counter <= store'[v].recvCounter
                          /\ e.counter \notin DOMAIN session'[v].skipped
    BY <1>4 DEF InboxOK
  <2> DEFINE m == inbox[v][i]
  <2>1. /\ m \in 1 .. Len(wire[Peer(v)])
        /\ wire[Peer(v)][m].key = [chain |-> session[v].recvKey.chain, index |-> wire[Peer(v)][m].counter]
        /\ wire[Peer(v)][m].counter <= store[v].recvCounter
        /\ wire[Peer(v)][m].counter \notin DOMAIN session[v].skipped
    BY DEF IInv, InboxOK
  <2>2. m \in 1 .. Len(wire'[Peer(v)]) /\ wire'[Peer(v)][m] = wire[Peer(v)][m]
    <3>1. Peer(v) \in Users
      BY PeerFacts
    <3>2. wire[Peer(v)] \in Seq(Envelope)
      BY <3>1, UserFacts
    <3>3. CASE Peer(v) # u
      BY <3>1, <3>3, <2>1, <1>6
    <3>4. CASE Peer(v) = u
      BY <3>2, <3>4, <2>1, <1>3, <1>6
    <3> QED
      BY <3>3, <3>4
  <2>3. wire[Peer(v)][m].counter \in Nat
    BY <2>1, PeerFacts, UserFacts, CounterIsNat
  <2>4. /\ session'[v].recvKey = session[v].recvKey
        /\ session'[v].skipped = session[v].skipped
        /\ store[v].recvCounter <= store'[v].recvCounter
        /\ store[v].recvCounter \in Nat /\ store'[v].recvCounter \in Nat
    <3>1. CASE v # u
      BY <3>1, <1>6, UserFacts
    <3>2. CASE v = u
      BY <3>2, <1>2, <1>6, <1>7, UserFacts DEF r
    <3> QED
      BY <3>1, <3>2
  <2> HIDE DEF m
  <2>5. wire[Peer(v)][m].counter <= store'[v].recvCounter
    BY <2>1, <2>3, <2>4
  <2> QED
    BY <2>1, <2>2, <2>4, <2>5 DEF m
<1>12. NoRepeats'
  BY <1>4 DEF IInv, NoRepeats
<1> QED
  BY <1>5, <1>8, <1>9, <1>10, <1>11, <1>12 DEF IInv

\* encrypt_for whose write of the row fails keeps the invariant.
LEMMA EncryptUnsavedKeepsIInv ==
  ASSUME IInv, NEW u \in Users, EncryptUnsaved(u)
  PROVE  IInv'
<1> DEFINE r == session[u]
           n == SendStep(session[u])
<1>1. r \in Ratchet /\ Regular(r)
  BY UserFacts
<1>2. /\ n \in Ratchet
      /\ n.sendKey.chain = r.sendKey.chain /\ n.sendKey.step = r.sendKey.step + 1
      /\ n.recvKey = r.recvKey /\ n.recvCounter = r.recvCounter /\ n.skipped = r.skipped
  BY <1>1, SendStepFields
<1>3. /\ session' = [session EXCEPT ![u] = n]
      /\ loaded' = [loaded EXCEPT ![u] = TRUE]
      /\ store' = store /\ wire' = wire /\ inbox' = inbox /\ lost' = lost
  BY DEF EncryptUnsaved
<1> HIDE DEF n, r
<1>4. /\ session'[u] = n
      /\ \A v \in Users : v # u => session'[v] = session[v]
  BY <1>3 DEF IInv, Typed
<1>5. \A v \in Users : /\ session'[v].sendKey.chain = session[v].sendKey.chain
                       /\ session'[v].recvKey = session[v].recvKey
                       /\ session'[v].recvCounter = session[v].recvCounter
                       /\ session'[v].skipped = session[v].skipped
  BY <1>2, <1>4 DEF r
<1>6. Typed'
  BY <1>2, <1>3 DEF IInv, Typed
<1>7. ChainsOK'
  BY <1>3, <1>5 DEF IInv, ChainsOK, Users
<1>8. RowsBehind'
  <2> SUFFICES ASSUME NEW v \in Users
               PROVE  /\ Regular(session'[v])
                      /\ store[v].recvKey.step = store[v].recvCounter
                      /\ store[v].recvCounter <= session'[v].recvCounter
                      /\ store[v].sendKey.step <= session'[v].sendKey.step
    BY <1>3 DEF RowsBehind, Regular
  <2>1. Regular(session'[v])
    BY <1>5, UserFacts DEF Regular
  <2>2. store[v].sendKey.step <= session'[v].sendKey.step
    BY <1>2, <1>4, UserFacts DEF r
  <2> QED
    BY <2>1, <2>2, <1>5, UserFacts
<1>9. WireOK'
  BY <1>3, <1>5 DEF IInv, WireOK
<1>10. InboxOK'
  BY <1>3, <1>5 DEF IInv, InboxOK
<1>11. NoRepeats'
  BY <1>3 DEF IInv, NoRepeats
<1> QED
  BY <1>6, <1>7, <1>8, <1>9, <1>10, <1>11 DEF IInv

\* The three outcomes of a decryption share what happens to the ratchet.
LEMMA DecryptedRatchet ==
  ASSUME IInv, NEW u \in Users, NEW m \in 1 .. Len(wire[Peer(u)]),
         CanTry(u, wire[Peer(u)][m]),
         session' = [session EXCEPT ![u] = AfterDecrypt(session[u], wire[Peer(u)][m].counter)]
  PROVE  /\ session'[u] = AfterDecrypt(session[u], wire[Peer(u)][m].counter)
         /\ session'[u] \in Ratchet /\ Regular(session'[u])
         /\ session'[u].sendKey = session[u].sendKey
         /\ session'[u].recvKey.chain = session[u].recvKey.chain
         /\ session'[u].recvCounter \in Nat
         /\ session'[u].recvKey.step = session'[u].recvCounter
         /\ session'[u].recvCounter >= session[u].recvCounter
         /\ session'[u].recvCounter >= wire[Peer(u)][m].counter
         /\ \A d \in DOMAIN session'[u].skipped :
              /\ d # wire[Peer(u)][m].counter
              /\ d \in DOMAIN session[u].skipped \/ d > session[u].recvCounter
         /\ \A d \in Counter : d # wire[Peer(u)][m].counter /\ d <= session'[u].recvCounter =>
              \/ d \in DOMAIN session'[u].skipped
              \/ d <= session[u].recvCounter /\ d \notin DOMAIN session[u].skipped
         /\ session' \in [Users -> Ratchet]
         /\ \A v \in Users : v # u => session'[v] = session[v]
<1> DEFINE n == AfterDecrypt(session[u], wire[Peer(u)][m].counter)
<1> DEFINE c == wire[Peer(u)][m].counter
<1>1. session[u] \in Ratchet /\ Regular(session[u])
  BY UserFacts
<1>2. c \in Counter /\ HasKeyFor(session[u], c)
  <2>1. Peer(u) \in Users
    BY PeerFacts
  <2> QED
    BY <2>1, UserFacts DEF CanTry
<1> HIDE DEF c
<1>3. n = AfterDecrypt(session[u], c) /\ session' = [session EXCEPT ![u] = n]
  BY DEF c
<1> HIDE DEF n
<1>4. /\ n \in Ratchet
      /\ Regular(n)
      /\ n.sendKey = session[u].sendKey /\ n.sendCounter = session[u].sendCounter
      /\ n.recvKey.chain = session[u].recvKey.chain
      /\ n.recvCounter >= session[u].recvCounter /\ n.recvCounter >= c
      /\ \A d \in DOMAIN n.skipped : d # c /\ (d \in DOMAIN session[u].skipped \/ d > session[u].recvCounter)
      /\ \A d \in Counter : d # c /\ d <= n.recvCounter =>
              \/ d \in DOMAIN n.skipped
              \/ d <= session[u].recvCounter /\ d \notin DOMAIN session[u].skipped
  BY <1>1, <1>2, <1>3, AfterDecryptRegular
<1>5. n.recvCounter \in Nat /\ n.recvKey.step = n.recvCounter
  BY <1>4, CounterIsNat DEF Ratchet, Regular
<1>6. /\ session' \in [Users -> Ratchet] /\ session'[u] = n
      /\ \A v \in Users : v # u => session'[v] = session[v]
  BY <1>3, <1>4 DEF IInv, Typed
<1> QED
  BY <1>3, <1>4, <1>5, <1>6 DEF c

\* Facts about the messages already handed over survive a decryption.
LEMMA DecryptKeepsInbox ==
  ASSUME IInv, NEW u \in Users, NEW m \in 1 .. Len(wire[Peer(u)]),
         CanTry(u, wire[Peer(u)][m]),
         session' = [session EXCEPT ![u] = AfterDecrypt(session[u], wire[Peer(u)][m].counter)],
         wire' = wire,
         \A v \in Users : store'[v].recvCounter \in Nat /\ store[v].recvCounter <= store'[v].recvCounter,
         NEW v \in Users, NEW i \in 1 .. Len(inbox[v])
  PROVE  LET k == inbox[v][i]
             d == wire'[Peer(v)][k]
         IN  /\ k \in 1 .. Len(wire'[Peer(v)])
             /\ d.key = [chain |-> session'[v].recvKey.chain, index |-> d.counter]
             /\ d.counter <= store'[v].recvCounter
             /\ d.counter \notin DOMAIN session'[v].skipped
<1> DEFINE k == inbox[v][i]
           d == wire[Peer(v)][k]
           n == AfterDecrypt(session[u], wire[Peer(u)][m].counter)
<1>1. /\ n.recvKey.chain = session[u].recvKey.chain
      /\ \A c \in DOMAIN n.skipped : c \in DOMAIN session[u].skipped \/ c > session[u].recvCounter
      /\ session'[u] = n
      /\ \A w \in Users : w # u => session'[w] = session[w]
  BY DecryptedRatchet
<1>2. /\ k \in 1 .. Len(wire[Peer(v)])
      /\ d.key = [chain |-> session[v].recvKey.chain, index |-> d.counter]
      /\ d.counter <= store[v].recvCounter
      /\ d.counter \notin DOMAIN session[v].skipped
  BY DEF IInv, InboxOK
<1>3. /\ d.counter \in Nat
      /\ store[v].recvCounter \in Nat /\ session[v].recvCounter \in Nat
      /\ store[v].recvCounter <= session[v].recvCounter
  <2>1. Peer(v) \in Users
    BY PeerFacts
  <2>2. d.counter \in Counter
    BY <1>2, <2>1, UserFacts
  <2> QED
    BY <2>2, UserFacts, CounterIsNat
<1> HIDE DEF n, k, d
<1>4. d.counter \notin DOMAIN session'[v].skipped
  <2>1. CASE v # u
    BY <2>1, <1>1, <1>2
  <2>2. CASE v = u
    BY <2>2, <1>1, <1>2, <1>3
  <2> QED
    BY <2>1, <2>2
<1>5. session'[v].recvKey.chain = session[v].recvKey.chain
  BY <1>1
<1>6. d.counter <= store'[v].recvCounter
  BY <1>2, <1>3
<1> QED
  BY <1>2, <1>4, <1>5, <1>6 DEF k, d

\* A message that was handed over has no key left at its receiver.
LEMMA DecryptsOnce ==
  ASSUME IInv, NEW u \in Users, NEW m \in 1 .. Len(wire[Peer(u)]), Decrypt(u, m)
  PROVE  \A i \in 1 .. Len(inbox[u]) : inbox[u][i] # m
<1> DEFINE e == wire[Peer(u)][m]
<1> SUFFICES ASSUME NEW i \in 1 .. Len(inbox[u]), inbox[u][i] = m
             PROVE  FALSE
  OBVIOUS
<1>1. e.counter <= store[u].recvCounter /\ e.counter \notin DOMAIN session[u].skipped
  BY DEF IInv, InboxOK
<1>2. e.counter \in Counter /\ HasKeyFor(session[u], e.counter)
  BY PeerFacts, UserFacts DEF Decrypt, CanTry
<1>3. /\ e.counter \in Nat /\ store[u].recvCounter \in Nat /\ session[u].recvCounter \in Nat
      /\ store[u].recvCounter <= session[u].recvCounter
  BY <1>2, UserFacts, CounterIsNat
<1> HIDE DEF e
<1>4. e.counter <= session[u].recvCounter
  BY <1>1, <1>3
<1> QED
  BY <1>1, <1>2, <1>3, <1>4 DEF HasKeyFor, IsAhead, IsLate

\* decrypt_from that hands a message over keeps the invariant.
LEMMA DecryptKeepsIInv ==
  ASSUME IInv, NEW u \in Users, NEW m \in 1 .. Len(wire[Peer(u)]), Decrypt(u, m)
  PROVE  IInv'
<1> DEFINE e == wire[Peer(u)][m]
           n == AfterDecrypt(session[u], wire[Peer(u)][m].counter)
<1>1. /\ CanTry(u, e) /\ Opens(u, e)
      /\ session' = [session EXCEPT ![u] = n]
      /\ store' = [store EXCEPT ![u] = ExportState(n)]
      /\ inbox' = [inbox EXCEPT ![u] = Append(@, m)]
      /\ loaded' = loaded /\ wire' = wire /\ lost' = lost
  BY DEF Decrypt
<1>2. /\ n \in Ratchet /\ Regular(n)
      /\ n.sendKey = session[u].sendKey /\ n.recvKey.chain = session[u].recvKey.chain
      /\ n.recvCounter \in Nat /\ n.recvKey.step = n.recvCounter
      /\ n.recvCounter >= session[u].recvCounter
      /\ n.recvCounter >= e.counter
      /\ \A d \in DOMAIN n.skipped : d # e.counter
      /\ session' \in [Users -> Ratchet]
      /\ session'[u] = n
      /\ \A v \in Users : v # u => session'[v] = session[v]
  <2>1. /\ session'[u] = n
        /\ n \in Ratchet /\ Regular(n)
        /\ n.sendKey = session[u].sendKey /\ n.recvKey.chain = session[u].recvKey.chain
        /\ n.recvCounter \in Nat /\ n.recvKey.step = n.recvCounter
        /\ n.recvCounter >= session[u].recvCounter
    BY <1>1, DecryptedRatchet
  <2>2. /\ session'[u].recvCounter >= e.counter
        /\ \A d \in DOMAIN session'[u].skipped :
             /\ d # e.counter
             /\ d \in DOMAIN session[u].skipped \/ d > session[u].recvCounter
    BY <1>1, DecryptedRatchet
  <2>3. /\ session' \in [Users -> Ratchet]
        /\ \A v \in Users : v # u => session'[v] = session[v]
    BY <1>1, DecryptedRatchet
  <2> QED
    BY <2>1, <2>2, <2>3
<1>3. /\ Peer(u) \in Users /\ e \in Envelope /\ e.counter \in Counter
      /\ HasKeyFor(session[u], e.counter)
  BY <1>1, PeerFacts, UserFacts DEF CanTry
<1>4. e.key = [chain |-> session[u].recvKey.chain, index |-> e.counter]
  BY <1>1, <1>3, UserFacts, KeyForRegular DEF Opens
<1>5. /\ store' \in [Users -> RatchetState]
      /\ store'[u] = ExportState(n)
      /\ \A v \in Users : v # u => store'[v] = store[v]
  BY <1>1, <1>2, ExportRestoreType DEF IInv, Typed
<1>6. /\ store'[u].sendKey = session[u].sendKey /\ store'[u].recvKey = n.recvKey
      /\ store'[u].recvCounter = n.recvCounter
  BY <1>2, <1>5, ExportFields
<1>7. \A v \in Users : store'[v].recvCounter \in Nat /\ store[v].recvCounter <= store'[v].recvCounter
  <2> SUFFICES ASSUME NEW v \in Users
               PROVE  store'[v].recvCounter \in Nat /\ store[v].recvCounter <= store'[v].recvCounter
    OBVIOUS
  <2>1. /\ store[v].recvCounter \in Nat /\ session[v].recvCounter \in Nat
        /\ store[v].recvCounter <= session[v].recvCounter
    BY UserFacts
  <2>2. CASE v = u
    BY <2>1, <2>2, <1>2, <1>6
  <2>3. CASE v # u
    BY <2>1, <2>3, <1>5
  <2> QED
    BY <2>2, <2>3
<1>8. /\ inbox[u] \in Seq(Nat) /\ m \in Nat
      /\ inbox'[u] = Append(inbox[u], m)
      /\ \A v \in Users : v # u => inbox'[v] = inbox[v]
  BY <1>1, UserFacts DEF IInv, Typed
<1>9. /\ Len(inbox[u]) \in Nat
      /\ Len(inbox'[u]) = Len(inbox[u]) + 1
      /\ inbox'[u][Len(inbox[u]) + 1] = m
      /\ \A i \in 1 .. Len(inbox[u]) : inbox'[u][i] = inbox[u][i]
  BY <1>8
<1> HIDE DEF n
<1>10. Typed'
  <2>1. inbox' \in [Users -> Seq(Nat)]
    BY <1>1, <1>8 DEF IInv, Typed
  <2> QED
    BY <1>1, <1>2, <1>5, <2>1 DEF IInv, Typed
<1>11. \A v \in Users : /\ session'[v].sendKey = session[v].sendKey
                        /\ session'[v].recvKey.chain = session[v].recvKey.chain
  BY <1>2
<1>12. ChainsOK'
  <2>1. \A v \in Users : /\ store'[v].sendKey.chain = session'[v].sendKey.chain
                         /\ store'[v].recvKey.chain = session'[v].recvKey.chain
    BY <1>2, <1>5, <1>6 DEF IInv, ChainsOK
  <2> QED
    BY <2>1, <1>11 DEF IInv, ChainsOK, Users
<1>13. RowsBehind'
  <2> SUFFICES ASSUME NEW v \in Users
               PROVE  /\ Regular(session'[v])
                      /\ store'[v].recvKey.step = store'[v].recvCounter
                      /\ store'[v].recvCounter <= session'[v].recvCounter
                      /\ store'[v].sendKey.step <= session'[v].sendKey.step
    BY DEF RowsBehind, Regular
  <2>1. CASE v # u
    BY <2>1, <1>2, <1>5, UserFacts
  <2>2. CASE v = u
    BY <2>2, <1>2, <1>6, UserFacts
  <2> QED
    BY <2>1, <2>2
<1>14. \A v \in Users : store[v].sendKey.step <= store'[v].sendKey.step
                        /\ store'[v].sendKey.step \in Nat
  BY <1>5, <1>6, UserFacts
<1>15. WireOK'
  <2> SUFFICES ASSUME NEW v \in Users, NEW i \in 1 .. Len(wire[v])
               PROVE  /\ wire[v][i].key.chain = session'[v].sendKey.chain
                      /\ wire[v][i].key.index <= store'[v].sendKey.step
                      /\ \A j \in 1 .. Len(wire[v]) :
                           i < j => wire[v][i].key.index < wire[v][j].key.index
    BY <1>1 DEF WireOK
  <2>1. /\ wire[v][i].key.chain = session[v].sendKey.chain
        /\ wire[v][i].key.index <= store[v].sendKey.step
        /\ \A j \in 1 .. Len(wire[v]) : i < j => wire[v][i].key.index < wire[v][j].key.index
    BY DEF IInv, WireOK
  <2>2. wire[v][i].key.index \in Nat /\ store[v].sendKey.step \in Nat
    BY UserFacts
  <2> QED
    BY <2>1, <2>2, <1>11, <1>14
<1>16. InboxOK'
  <2> SUFFICES ASSUME NEW v \in Users, NEW i \in 1 .. Len(inbox'[v])
               PROVE  LET k == inbox'[v][i]
                          d == wire'[Peer(v)][k]
                      IN  /\ k \in 1 .. Len(wire'[Peer(v)])
                          /\ d.key = [chain |-> session'[v].recvKey.chain, index |-> d.counter]
                          /\ d.counter <= store'[v].recvCounter
                          /\ d.counter \notin DOMAIN session'[v].skipped
    BY DEF InboxOK
  <2>1. CASE v = u /\ i = Len(inbox[u]) + 1
    <3>1. inbox'[v][i] = m /\ wire'[Peer(v)][m] = e
      BY <2>1, <1>1, <1>9
    <3>2. e.key = [chain |-> session'[v].recvKey.chain, index |-> e.counter]
      BY <2>1, <1>4, <1>11
    <3>3. e.counter <= store'[v].recvCounter
      BY <2>1, <1>2, <1>3, <1>6, CounterIsNat
    <3>4. e.counter \notin DOMAIN session'[v].skipped
      BY <2>1, <1>2
    <3> HIDE DEF e
    <3> QED
      BY <2>1, <3>1, <3>2, <3>3, <3>4, <1>1
  <2>2. CASE i \in 1 .. Len(inbox[v]) /\ inbox'[v][i] = inbox[v][i]
    BY <2>2, <1>1, <1>7, DecryptKeepsInbox DEF n
  <2> QED
    BY <2>1, <2>2, <1>8, <1>9
<1>17. NoRepeats'
  <2>1. \A i \in 1 .. Len(inbox[u]) : inbox[u][i] # m
    BY DecryptsOnce
  <2> SUFFICES ASSUME NEW v \in Users, NEW i \in 1 .. Len(inbox'[v]), NEW j \in 1 .. Len(inbox'[v]),
                      i # j, inbox'[v][i] = inbox'[v][j]
               PROVE  FALSE
    BY DEF NoRepeats
  <2>2. CASE v # u
    BY <2>2, <1>8 DEF IInv, NoRepeats
  <2>3. CASE v = u
    <3>1. CASE i \in 1 .. Len(inbox[u]) /\ j \in 1 .. Len(inbox[u])
      <4>1. inbox[u][i] = inbox[u][j]
        BY <3>1, <2>3, <1>9
      <4> QED
        BY <3>1, <4>1 DEF IInv, NoRepeats
    <3>2. CASE i = Len(inbox[u]) + 1 \/ j = Len(inbox[u]) + 1
      <4>1. CASE i = Len(inbox[u]) + 1
        <5>1. j \in 1 .. Len(inbox[u])
          BY <4>1, <2>3, <1>9
        <5> QED
          BY <4>1, <5>1, <2>1, <2>3, <1>9
      <4>2. CASE j = Len(inbox[u]) + 1
        <5>1. i \in 1 .. Len(inbox[u])
          BY <4>2, <2>3, <1>9
        <5> QED
          BY <4>2, <5>1, <2>1, <2>3, <1>9
      <4> QED
        BY <3>2, <4>1, <4>2
    <3> QED
      BY <3>1, <3>2, <2>3, <1>9
  <2> QED
    BY <2>2, <2>3
<1> QED
  BY <1>10, <1>12, <1>13, <1>15, <1>16, <1>17 DEF IInv

\* The other two outcomes: the ratchet moves, the row and the inbox do not.
LEMMA BurntKeyKeepsIInv ==
  ASSUME IInv, NEW u \in Users, NEW m \in 1 .. Len(wire[Peer(u)]),
         CanTry(u, wire[Peer(u)][m]),
         session' = [session EXCEPT ![u] = AfterDecrypt(session[u], wire[Peer(u)][m].counter)],
         lost' \in [Users -> SUBSET Counter],
         UNCHANGED <<loaded, store, wire, inbox>>
  PROVE  IInv'
<1> DEFINE n == AfterDecrypt(session[u], wire[Peer(u)][m].counter)
<1>1. /\ n \in Ratchet /\ Regular(n)
      /\ n.sendKey = session[u].sendKey /\ n.recvKey.chain = session[u].recvKey.chain
      /\ n.recvCounter \in Nat /\ n.recvCounter >= session[u].recvCounter
      /\ session' \in [Users -> Ratchet]
      /\ session'[u] = n
      /\ \A v \in Users : v # u => session'[v] = session[v]
  <2>1. session'[u] = n
    BY DecryptedRatchet
  <2> HIDE DEF n
  <2> QED
    BY <2>1, DecryptedRatchet
<1> HIDE DEF n
<1>2. Typed'
  BY <1>1 DEF IInv, Typed
<1>3. \A v \in Users : /\ session'[v].sendKey = session[v].sendKey
                       /\ session'[v].recvKey.chain = session[v].recvKey.chain
  BY <1>1
<1>4. ChainsOK'
  BY <1>3 DEF IInv, ChainsOK, Users
<1>5. RowsBehind'
  <2> SUFFICES ASSUME NEW v \in Users
               PROVE  /\ Regular(session'[v])
                      /\ store[v].recvKey.step = store[v].recvCounter
                      /\ store[v].recvCounter <= session'[v].recvCounter
                      /\ store[v].sendKey.step <= session'[v].sendKey.step
    BY DEF RowsBehind, Regular
  <2>1. CASE v # u
    BY <2>1, <1>1, UserFacts
  <2>2. CASE v = u
    BY <2>2, <1>1, UserFacts
  <2> QED
    BY <2>1, <2>2
<1>6. WireOK'
  BY <1>3 DEF IInv, WireOK
<1>7. InboxOK'
  <2>1. \A v \in Users : store'[v].recvCounter \in Nat /\ store[v].recvCounter <= store'[v].recvCounter
    BY UserFacts
  <2> QED
    BY <2>1, DecryptKeepsInbox DEF InboxOK
<1>8. NoRepeats'
  BY DEF IInv, NoRepeats
<1> QED
  BY <1>2, <1>4, <1>5, <1>6, <1>7, <1>8 DEF IInv

\* Dropping a session from memory keeps the invariant: the row is never
\* ahead of the ratchet, and every envelope sent is behind the row.
LEMMA UnloadKeepsIInv ==
  ASSUME IInv, NEW u \in Users, Unload(u)
  PROVE  IInv'
<1> DEFINE n == Restore(store[u])
<1>1. /\ session' = [session EXCEPT ![u] = n]
      /\ loaded' = [loaded EXCEPT ![u] = FALSE]
      /\ store' = store /\ wire' = wire /\ inbox' = inbox
  BY DEF Unload
<1>2. n \in Ratchet
  BY UserFacts, ExportRestoreType
<1>3. /\ n.sendKey = store[u].sendKey /\ n.recvKey = store[u].recvKey
      /\ n.recvCounter = store[u].recvCounter
      /\ DOMAIN n.skipped = {}
  BY RestoreFields
<1> HIDE DEF n
<1>4. /\ session' \in [Users -> Ratchet] /\ session'[u] = n
      /\ \A v \in Users : v # u => session'[v] = session[v]
  BY <1>1, <1>2 DEF IInv, Typed
<1>5. Typed'
  <2>1. lost' \in [Users -> SUBSET Counter]
    <3> DEFINE X == {c \in lost[u] \union DOMAIN session[u].skipped : c <= store[u].recvCounter}
    <3>1. lost' = [lost EXCEPT ![u] = X]
      BY DEF Unload
    <3>2. PICK S \in SUBSET Counter : session[u].skipped \in [S -> MessageKey]
      BY UserFacts DEF Ratchet, SkippedKeys
    <3>3. X \in SUBSET Counter
      BY <3>2 DEF IInv, Typed
    <3> HIDE DEF X
    <3> QED
      BY <3>1, <3>3 DEF IInv, Typed
  <2> QED
    BY <1>1, <1>4, <2>1 DEF IInv, Typed
<1>6. \A v \in Users : /\ session'[v].sendKey.chain = session[v].sendKey.chain
                       /\ session'[v].recvKey.chain = session[v].recvKey.chain
  BY <1>3, <1>4 DEF IInv, ChainsOK
<1>7. ChainsOK'
  BY <1>1, <1>6 DEF IInv, ChainsOK, Users
<1>8. RowsBehind'
  <2> SUFFICES ASSUME NEW v \in Users
               PROVE  /\ Regular(session'[v])
                      /\ store[v].recvKey.step = store[v].recvCounter
                      /\ store[v].recvCounter <= session'[v].recvCounter
                      /\ store[v].sendKey.step <= session'[v].sendKey.step
    BY <1>1 DEF RowsBehind, Regular
  <2>1. CASE v # u
    BY <2>1, <1>4, UserFacts
  <2>2. CASE v = u
    BY <2>2, <1>3, <1>4, UserFacts DEF Regular
  <2> QED
    BY <2>1, <2>2
<1>9. WireOK'
  BY <1>1, <1>6 DEF IInv, WireOK
<1>10. InboxOK'
  <2>1. \A v \in Users : \A d : d \notin DOMAIN session[v].skipped => d \notin DOMAIN session'[v].skipped
    BY <1>3, <1>4
  <2> QED
    BY <1>1, <1>6, <2>1 DEF IInv, InboxOK
<1>11. NoRepeats'
  BY <1>1 DEF IInv, NoRepeats
<1> QED
  BY <1>5, <1>7, <1>8, <1>9, <1>10, <1>11 DEF IInv

\* Every step keeps the invariant.
LEMMA NextIInv == IInv /\ [Next]_vars => IInv'
<1> SUFFICES ASSUME IInv, [Next]_vars PROVE IInv'
  OBVIOUS
<1>1. ASSUME NEW u \in Users, Encrypt(u) PROVE IInv'
  BY <1>1, EncryptKeepsIInv
<1>2. ASSUME NEW u \in Users, EncryptUnsaved(u) PROVE IInv'
  BY <1>2, EncryptUnsavedKeepsIInv
<1>3. ASSUME NEW u \in Users, NEW m \in 1 .. Len(wire[Peer(u)]), Decrypt(u, m) PROVE IInv'
  BY <1>3, DecryptKeepsIInv
<1>4. ASSUME NEW u \in Users, NEW m \in 1 .. Len(wire[Peer(u)]), DecryptUnsaved(u, m) PROVE IInv'
  <2>1. wire[Peer(u)][m].counter \in Counter
    BY PeerFacts, UserFacts
  <2>2. lost' \in [Users -> SUBSET Counter]
    BY <1>4, <2>1 DEF DecryptUnsaved, IInv, Typed
  <2> QED
    BY <1>4, <2>2, BurntKeyKeepsIInv DEF DecryptUnsaved
<1>5. ASSUME NEW u \in Users, NEW m \in 1 .. Len(wire[Peer(u)]), DecryptFails(u, m) PROVE IInv'
  BY <1>5, BurntKeyKeepsIInv DEF DecryptFails, IInv, Typed
<1>6. ASSUME NEW u \in Users, Unload(u) PROVE IInv'
  BY <1>6, UnloadKeepsIInv
<1>7. CASE UNCHANGED vars
  BY <1>7 DEF vars, IInv, Typed, ChainsOK, RowsBehind, Regular, WireOK, InboxOK, NoRepeats
<1> QED
  BY <1>1, <1>2, <1>3, <1>4, <1>5, <1>6, <1>7 DEF Next, Receive

\* The inductive invariant holds in every reachable state.
THEOREM Invariance == Spec => []IInv
<1>1. Init => IInv
  BY InitIInv
<1>2. IInv /\ [Next]_vars => IInv'
  BY NextIInv
<1> QED
  BY <1>1, <1>2, PTL DEF Spec
-----------------------------------------------------------------------------
(* The theorems                                                            *)

\* Types are kept; the counters never leave the range of a u32.
THEOREM TypeCorrect == Spec => []TypeOK
<1>1. IInv => TypeOK
  <2> SUFFICES ASSUME Typed PROVE TypeOK
    BY DEF IInv
  <2>1. \A u \in Users : IsRatchet(session[u])
    BY RatchetIsRatchet DEF Typed
  <2> QED
    BY <2>1 DEF Typed, TypeOK
<1> QED
  BY <1>1, Invariance, PTL

\* No message key ever seals two envelopes: the indices of a sender's keys
\* grow along its wire, across failed writes and reloads, and the two users
\* send on different chains.
THEOREM FreshKeys == Spec => []KeysAreFresh
<1>1. IInv => KeysAreFresh
  <2> SUFFICES ASSUME IInv, NEW u \in Users, NEW v \in Users,
                      NEW i \in 1 .. Len(wire[u]), NEW j \in 1 .. Len(wire[v]),
                      wire[u][i].key = wire[v][j].key
               PROVE  u = v /\ i = j
    BY DEF KeysAreFresh
  <2>1. u = v
    <3>1. session[u].sendKey.chain = session[v].sendKey.chain
      BY DEF IInv, WireOK
    <3> QED
      BY <3>1, PairAssumption DEF IInv, ChainsOK, Users
  <2>2. i = j
    <3>1. Len(wire[u]) \in Nat /\ wire[u][i].key.index \in Nat
      BY UserFacts
    <3>2. CASE i < j
      BY <2>1, <3>1, <3>2 DEF IInv, WireOK
    <3>3. CASE j < i
      BY <2>1, <3>1, <3>3 DEF IInv, WireOK
    <3> QED
      BY <2>1, <3>1, <3>2, <3>3
  <2> QED
    BY <2>1, <2>2
<1> QED
  BY <1>1, Invariance, PTL

\* Once a message is handed over, nothing that either user keeps in memory
\* or on disk yields its key again.
THEOREM KeysErased == Spec => []ForwardSecrecy
<1>1. IInv => ForwardSecrecy
  <2> SUFFICES ASSUME IInv, NEW u \in Users, NEW i \in 1 .. Len(inbox[u]), NEW v \in Users,
                      NEW k, k = wire[Peer(u)][inbox[u][i]].key
               PROVE  ~Holds(session[v], k) /\ ~Holds(Restore(store[v]), k)
    BY DEF ForwardSecrecy
  <2> DEFINE e == wire[Peer(u)][inbox[u][i]]
  <2>1. Peer(u) \in Users /\ Peer(u) # u /\ (v = u \/ v = Peer(u))
    BY PeerFacts
  <2>2. /\ inbox[u][i] \in 1 .. Len(wire[Peer(u)])
        /\ k = [chain |-> session[u].recvKey.chain, index |-> e.counter]
        /\ e.counter <= store[u].recvCounter
        /\ e.counter \notin DOMAIN session[u].skipped
    BY DEF IInv, InboxOK
  <2>3. /\ k.chain = session[Peer(u)].sendKey.chain
        /\ k.index <= store[Peer(u)].sendKey.step
    BY <2>1, <2>2 DEF IInv, WireOK
  <2>4. k.chain = session[u].recvKey.chain /\ k.index = e.counter /\ e.counter \in Nat
    <3>1. e.counter \in Counter
      BY <2>1, <2>2, UserFacts
    <3>2. e.counter \in Nat
      BY <3>1, CounterIsNat
    <3> HIDE DEF e
    <3>3. k.chain = session[u].recvKey.chain /\ k.index = e.counter
      BY <2>2
    <3> QED
      BY <3>2, <3>3
  <2>5. /\ session[u].sendKey.chain # k.chain
        /\ session[Peer(u)].recvKey.chain # k.chain
    BY <2>1, <2>3, <2>4 DEF IInv, ChainsOK
  <2>6. \A w \in Users :
          /\ store[w].sendKey.chain = session[w].sendKey.chain
          /\ store[w].recvKey.chain = session[w].recvKey.chain
          /\ store[w].sendKey.step \in Nat /\ session[w].sendKey.step \in Nat
          /\ store[w].sendKey.step <= session[w].sendKey.step
          /\ session[w].recvKey.step = session[w].recvCounter
          /\ store[w].recvKey.step = store[w].recvCounter
          /\ store[w].recvCounter \in Nat /\ session[w].recvCounter \in Nat
          /\ store[w].recvCounter <= session[w].recvCounter
          /\ \A c \in DOMAIN session[w].skipped :
               session[w].skipped[c] = [chain |-> session[w].recvKey.chain, index |-> c]
    BY UserFacts DEF IInv, ChainsOK, Regular
  <2> HIDE DEF e
  <2>7. \A w \in Users : Restore(store[w]).sendKey = store[w].sendKey
                         /\ Restore(store[w]).recvKey = store[w].recvKey
                         /\ DOMAIN Restore(store[w]).skipped = {}
    BY RestoreFields
  <2>8. CASE v = u
    <3>1. ~(k.chain = session[u].recvKey.chain /\ k.index > session[u].recvKey.step)
      BY <2>2, <2>4, <2>6
    <3>2. ~(k.chain = store[u].recvKey.chain /\ k.index > store[u].recvKey.step)
      BY <2>2, <2>4, <2>6
    <3>3. \A c \in DOMAIN session[u].skipped : session[u].skipped[c] # k
      <4> SUFFICES ASSUME NEW c \in DOMAIN session[u].skipped, session[u].skipped[c] = k
                   PROVE  FALSE
        OBVIOUS
      <4>1. k = [chain |-> session[u].recvKey.chain, index |-> c]
        BY <2>6
      <4>2. k.index = c
        BY <4>1
      <4> QED
        BY <4>2, <2>2, <2>4
    <3>4. store[u].sendKey.chain # k.chain
      BY <2>5, <2>6
    <3> QED
      BY <2>5, <2>7, <2>8, <3>1, <3>2, <3>3, <3>4 DEF Holds
  <2>9. CASE v = Peer(u)
    <3>1. ~(k.index > session[v].sendKey.step) /\ ~(k.index > store[v].sendKey.step)
      BY <2>1, <2>3, <2>4, <2>6, <2>9
    <3>2. \A c \in DOMAIN session[v].skipped : session[v].skipped[c] # k
      <4> SUFFICES ASSUME NEW c \in DOMAIN session[v].skipped, session[v].skipped[c] = k
                   PROVE  FALSE
        OBVIOUS
      <4>1. k = [chain |-> session[v].recvKey.chain, index |-> c]
        BY <2>6
      <4>2. k.chain = session[v].recvKey.chain
        BY <4>1
      <4> QED
        BY <4>2, <2>5, <2>9
    <3>3. store[v].recvKey.chain # k.chain /\ session[v].recvKey.chain # k.chain
      BY <2>5, <2>6, <2>9
    <3> QED
      BY <2>7, <3>1, <3>2, <3>3 DEF Holds
  <2> QED
    BY <2>1, <2>8, <2>9
<1> QED
  BY <1>1, Invariance, PTL

\* A user only ever accepts from a peer with which it agrees on the chain.
THEOREM Agreement == Spec => []OnlyAgreedDeliver
<1>1. IInv => OnlyAgreedDeliver
  <2> SUFFICES ASSUME IInv, NEW u \in Users, inbox[u] # << >>
               PROVE  session[u].recvKey.chain = session[Peer(u)].sendKey.chain
    BY DEF OnlyAgreedDeliver
  <2>1. 1 \in 1 .. Len(inbox[u])
    BY UserFacts
  <2>2. /\ inbox[u][1] \in 1 .. Len(wire[Peer(u)])
        /\ wire[Peer(u)][inbox[u][1]].key.chain = session[u].recvKey.chain
    <3> DEFINE m == inbox[u][1]
    <3>1. /\ m \in 1 .. Len(wire[Peer(u)])
          /\ wire[Peer(u)][m].key = [chain |-> session[u].recvKey.chain, index |-> wire[Peer(u)][m].counter]
      BY <2>1 DEF IInv, InboxOK
    <3> QED
      BY <3>1
  <2> QED
    BY <2>2, PeerFacts DEF IInv, WireOK
<1> QED
  BY <1>1, Invariance, PTL

\* Neither chain in a row of the store ever moves back.
THEOREM NoRewind == Spec => StoreNeverRewinds
<1>1. IInv /\ [Next]_vars =>
        [\A u \in Users : /\ store'[u].sendKey.step >= store[u].sendKey.step
                          /\ store'[u].recvKey.step >= store[u].recvKey.step]_vars
  <2> SUFFICES ASSUME IInv, Next, NEW v \in Users
               PROVE  /\ store'[v].sendKey.step >= store[v].sendKey.step
                      /\ store'[v].recvKey.step >= store[v].recvKey.step
    OBVIOUS
  <2>0. /\ store[v].sendKey.step \in Nat /\ store[v].recvKey.step \in Nat
        /\ session[v].sendKey.step \in Nat /\ session[v].recvKey.step \in Nat
        /\ session[v].recvKey.step = session[v].recvCounter
        /\ store[v].recvKey.step = store[v].recvCounter
        /\ store[v].recvCounter <= session[v].recvCounter
        /\ store[v].sendKey.step <= session[v].sendKey.step
    BY UserFacts DEF Regular
  <2>1. ASSUME NEW u \in Users, Encrypt(u)
        PROVE  /\ store'[v].sendKey.step >= store[v].sendKey.step
               /\ store'[v].recvKey.step >= store[v].recvKey.step
    <3>1. /\ SendStep(session[u]).sendKey.step = session[u].sendKey.step + 1
          /\ SendStep(session[u]).recvKey = session[u].recvKey
      BY SendStepFields, UserFacts
    <3>2. store' = [store EXCEPT ![u] = ExportState(SendStep(session[u]))]
      BY <2>1 DEF Encrypt
    <3>3. v # u => store'[v] = store[v]
      BY <3>2 DEF IInv, Typed
    <3>4. v = u => /\ store'[v].sendKey = SendStep(session[u]).sendKey
                   /\ store'[v].recvKey = SendStep(session[u]).recvKey
      BY <3>2, ExportFields DEF IInv, Typed
    <3> QED
      BY <2>0, <3>1, <3>3, <3>4
  <2>2. ASSUME NEW u \in Users, NEW m \in 1 .. Len(wire[Peer(u)]), Decrypt(u, m)
        PROVE  /\ store'[v].sendKey.step >= store[v].sendKey.step
               /\ store'[v].recvKey.step >= store[v].recvKey.step
    <3> DEFINE n == AfterDecrypt(session[u], wire[Peer(u)][m].counter)
    <3>1. /\ store' = [store EXCEPT ![u] = ExportState(n)]
          /\ session' = [session EXCEPT ![u] = n]
          /\ CanTry(u, wire[Peer(u)][m])
      BY <2>2 DEF Decrypt
    <3>2. /\ n.sendKey = session[u].sendKey
          /\ n.recvCounter \in Nat /\ n.recvKey.step = n.recvCounter
          /\ n.recvCounter >= session[u].recvCounter
      BY <3>1, DecryptedRatchet
    <3> HIDE DEF n
    <3>3. v # u => store'[v] = store[v]
      BY <3>1 DEF IInv, Typed
    <3>4. v = u => store'[v].sendKey = n.sendKey /\ store'[v].recvKey = n.recvKey
      BY <3>1, ExportFields DEF IInv, Typed
    <3> QED
      BY <2>0, <3>2, <3>3, <3>4
  <2>3. CASE store' = store
    BY <2>0, <2>3
  <2> QED
    BY <2>1, <2>2, <2>3 DEF Next, Receive, EncryptUnsaved, DecryptUnsaved, DecryptFails, Unload
<1> QED
  BY <1>1, Invariance, PTL DEF Spec, StoreNeverRewinds

\* The conversation implements the at-most-once channel: every step submits
\* a message, or hands over one that was submitted and not handed over
\* before, or changes neither the wire nor an inbox.
THEOREM Refinement == Spec => ChannelSpec
<1> DEFINE submitted == [u \in Users |-> Len(wire[u])]
<1>1. Init => Channel!Init
  BY DEF Init, Channel!Init, Users, Channel!Users
<1>2. IInv /\ [Next]_vars => [Channel!Next]_<<submitted, inbox>>
  <2> SUFFICES ASSUME IInv, [Next]_vars
               PROVE  Channel!Next \/ UNCHANGED <<submitted, inbox>>
    OBVIOUS
  <2>0. Users = Channel!Users /\ \A u : Peer(u) = Channel!Peer(u)
    BY DEF Users, Channel!Users, Peer, Channel!Peer
  <2>1. ASSUME NEW u \in Users, Encrypt(u)
        PROVE  Channel!Next
    <3>1. /\ wire' = [wire EXCEPT ![u] = Append(@, Seal(session[u]))]
          /\ inbox' = inbox
      BY <2>1 DEF Encrypt
    <3>2. Seal(session[u]) \in Envelope /\ wire[u] \in Seq(Envelope)
      BY UserFacts, SealFields
    <3>3. Len(wire'[u]) = Len(wire[u]) + 1
      BY <3>1, <3>2 DEF IInv, Typed
    <3>4. \A v \in Users : v # u => wire'[v] = wire[v]
      BY <3>1 DEF IInv, Typed
    <3>5. submitted' = [submitted EXCEPT ![u] = @ + 1]
      BY <3>3, <3>4
    <3>6. Channel!Submit(u)
      BY <3>1, <3>5 DEF Channel!Submit
    <3> QED
      BY <2>0, <3>6 DEF Channel!Next
  <2>2. ASSUME NEW u \in Users, NEW m \in 1 .. Len(wire[Peer(u)]), Decrypt(u, m)
        PROVE  Channel!Next
    <3>1. /\ inbox' = [inbox EXCEPT ![u] = Append(@, m)]
          /\ wire' = wire
      BY <2>2 DEF Decrypt
    <3>2. \A i \in 1 .. Len(inbox[u]) : inbox[u][i] # m
      BY <2>2, DecryptsOnce
    <3>3. Channel!Deliver(u, m)
      BY <3>1, <3>2 DEF Channel!Deliver
    <3>4. m \in 1 .. submitted[Channel!Peer(u)]
      BY <2>0, PeerFacts
    <3> QED
      BY <2>0, <3>3, <3>4 DEF Channel!Next
  <2>3. CASE wire' = wire /\ inbox' = inbox
    BY <2>3
  <2> QED
    BY <2>1, <2>2, <2>3 DEF Next, Receive, EncryptUnsaved, DecryptUnsaved, DecryptFails, Unload, vars
<1> QED
  BY <1>1, <1>2, Invariance, PTL DEF Spec, ChannelSpec, Channel!Spec

-----------------------------------------------------------------------------
(* Reordering loses nothing                                                *)

\* Until a chain has made CounterMod steps, its counter counts them, and so
\* do the envelopes: the number an envelope carries is that of its key.
CountsExact(r)  == r.sendKey.step < CounterMod => r.sendCounter = r.sendKey.step

CountersExact ==
  \A u \in Users :
    /\ CountsExact(session[u]) /\ CountsExact(store[u])
    /\ \A i \in 1 .. Len(wire[u]) :
         wire[u][i].key.index < CounterMod => wire[u][i].counter = wire[u][i].key.index

\* u receives on the chain its peer sends on, and the peer has not wrapped.
InStep(u) ==
  /\ session[u].recvKey.chain = session[Peer(u)].sendKey.chain
  /\ store[Peer(u)].sendKey.step < CounterMod

\* The n-th envelope of u's peer was handed over, or its key is kept, or
\* u gave it up.
AccountedFor(u, n) ==
  LET c == wire[Peer(u)][n].counter
  IN  \/ \E i \in 1 .. Len(inbox[u]) : inbox[u][i] = n
      \/ c \in DOMAIN session[u].skipped
      \/ c \in lost[u]

\* A receiver in step is never ahead of its sender's row, and has accounted
\* for all it has passed.
PassedAccounted(u) ==
  InStep(u) =>
    /\ session[u].recvCounter <= store[Peer(u)].sendKey.step
    /\ \A n \in 1 .. Len(wire[Peer(u)]) :
         wire[Peer(u)][n].counter <= session[u].recvCounter => AccountedFor(u, n)

LossInv == IInv /\ CountersExact /\ \A u \in Users : PassedAccounted(u)

\* It holds of two sessions that were just set up.
LEMMA InitLoss == Init => LossInv
<1> SUFFICES ASSUME Init PROVE LossInv
  OBVIOUS
<1>1. IInv
  BY InitIInv
<1>2. PICK secret \in [Users -> Secrets], role \in [Users -> RatchetRole] :
        session = [u \in Users |-> NewRatchet(secret[u], role[u])]
  BY DEF Init
<1>3. \A u \in Users : /\ session[u].sendKey.step = 0 /\ session[u].sendCounter = 0
                       /\ session[u].recvCounter = 0
                       /\ store[u] = ExportState(session[u])
                       /\ wire[u] = << >>
  BY <1>2, NewRatchetFields DEF Init
<1>4. \A u \in Users : store[u].sendKey.step = 0 /\ store[u].sendCounter = 0
  BY <1>3, ExportFields
<1>5. CountersExact
  BY <1>3, <1>4 DEF CountersExact, CountsExact
<1>6. ASSUME NEW u \in Users PROVE PassedAccounted(u)
  BY <1>3, <1>4, PeerFacts DEF PassedAccounted
<1> QED
  BY <1>1, <1>5, <1>6 DEF LossInv

\* A sending step keeps counting.
LEMMA SendStepExact ==
  ASSUME NEW r \in Ratchet, CountsExact(r)
  PROVE  CountsExact(SendStep(r))
<1>1. /\ SendStep(r).sendKey.step = r.sendKey.step + 1
      /\ SendStep(r).sendCounter = (r.sendCounter + 1) % CounterMod
      /\ r.sendKey.step \in Nat
  BY SendStepFields DEF Ratchet, ChainKey
<1> QED
  BY <1>1, ModSmall, RatchetAssumption DEF CountsExact

\* What a step does not touch stays accounted for.
LEMMA StaysAccounted ==
  ASSUME LossInv, NEW w \in Users,
         session'[w].recvKey = session[w].recvKey,
         session'[w].recvCounter = session[w].recvCounter,
         session'[w].skipped = session[w].skipped,
         session'[Peer(w)].sendKey.chain = session[Peer(w)].sendKey.chain,
         store[Peer(w)].sendKey.step <= store'[Peer(w)].sendKey.step,
         store'[Peer(w)].sendKey.step \in Nat,
         wire'[Peer(w)] = wire[Peer(w)], inbox'[w] = inbox[w], lost'[w] = lost[w]
  PROVE  PassedAccounted(w)'
<1>1. /\ session[w].recvCounter \in Nat /\ store[Peer(w)].sendKey.step \in Nat
      /\ CounterMod \in Nat
  BY UserFacts, PeerFacts, RatchetAssumption DEF LossInv
<1>2. InStep(w)' => InStep(w)
  BY <1>1 DEF InStep
<1>3. PassedAccounted(w)
  BY DEF LossInv
<1>4. InStep(w) => session[w].recvCounter <= store'[Peer(w)].sendKey.step
  BY <1>1, <1>3 DEF PassedAccounted
<1> QED
  BY <1>2, <1>3, <1>4 DEF PassedAccounted, AccountedFor

\* The next envelope has a number the receiver has not reached.
LEMMA EncryptKeepsLoss ==
  ASSUME LossInv, NEW u \in Users, Encrypt(u)
  PROVE  CountersExact' /\ \A w \in Users : PassedAccounted(w)'
<1> DEFINE r == session[u]
           n == SendStep(session[u])
<1>i. IInv /\ CountersExact
  BY DEF LossInv
<1>1. r \in Ratchet /\ CountsExact(r) /\ r.sendKey.step \in Nat
  BY <1>i, UserFacts DEF CountersExact
<1>2. /\ n.sendKey.chain = r.sendKey.chain /\ n.sendKey.step = r.sendKey.step + 1
      /\ n.recvKey = r.recvKey /\ n.recvCounter = r.recvCounter /\ n.skipped = r.skipped
      /\ n.sendCounter = (r.sendCounter + 1) % CounterMod
      /\ CountsExact(n)
  BY <1>1, SendStepFields, SendStepExact
<1>3. /\ Seal(r) \in Envelope
      /\ Seal(r).counter = (r.sendCounter + 1) % CounterMod
      /\ Seal(r).key.index = r.sendKey.step + 1
  BY <1>1, SealFields
<1>4. /\ session' = [session EXCEPT ![u] = n]
      /\ store' = [store EXCEPT ![u] = ExportState(n)]
      /\ wire' = [wire EXCEPT ![u] = Append(@, Seal(r))]
      /\ inbox' = inbox /\ lost' = lost
  BY DEF Encrypt
<1> HIDE DEF n, r
<1>5. /\ session'[u] = n /\ store'[u] = ExportState(n) /\ wire'[u] = Append(wire[u], Seal(r))
      /\ \A v \in Users : v # u => session'[v] = session[v] /\ store'[v] = store[v] /\ wire'[v] = wire[v]
  BY <1>4, <1>i DEF IInv, Typed
<1>6. store'[u].sendKey = n.sendKey /\ store'[u].sendCounter = n.sendCounter
  BY <1>5, ExportFields
<1>7. /\ wire[u] \in Seq(Envelope) /\ Len(wire[u]) \in Nat
      /\ Len(wire'[u]) = Len(wire[u]) + 1
      /\ wire'[u][Len(wire[u]) + 1] = Seal(r)
      /\ \A i \in 1 .. Len(wire[u]) : wire'[u][i] = wire[u][i]
  BY <1>3, <1>5, <1>i, UserFacts
<1>8. CountersExact'
  <2> SUFFICES ASSUME NEW v \in Users
               PROVE  /\ CountsExact(session'[v]) /\ CountsExact(store'[v])
                      /\ \A i \in 1 .. Len(wire'[v]) :
                           wire'[v][i].key.index < CounterMod => wire'[v][i].counter = wire'[v][i].key.index
    BY DEF CountersExact, CountsExact
  <2>1. CASE v # u
    BY <2>1, <1>5, <1>i DEF CountersExact
  <2>2. CASE v = u
    <3>1. CountsExact(store'[u])
      BY <1>2, <1>6 DEF CountsExact
    <3>2. Seal(r).key.index < CounterMod => Seal(r).counter = Seal(r).key.index
      BY <1>2, <1>3 DEF CountsExact
    <3>3. ASSUME NEW i \in 1 .. Len(wire'[u])
          PROVE  wire'[u][i].key.index < CounterMod => wire'[u][i].counter = wire'[u][i].key.index
      <4>1. CASE i = Len(wire[u]) + 1
        BY <4>1, <3>2, <1>7
      <4>2. CASE i \in 1 .. Len(wire[u])
        BY <4>2, <1>7, <1>i DEF CountersExact
      <4> QED
        BY <4>1, <4>2, <1>7
    <3> QED
      BY <2>2, <3>1, <3>3, <1>2, <1>5
  <2> QED
    BY <2>1, <2>2
<1>9. ASSUME NEW w \in Users PROVE PassedAccounted(w)'
  <2>0. Peer(w) \in Users /\ Peer(w) # w /\ Peer(Peer(w)) = w /\ (u = w \/ u = Peer(w))
    BY PeerFacts
  <2>1. CASE u = w
    <3>1. store[Peer(w)].sendKey.step \in Nat
      BY <2>0, <1>i, UserFacts
    <3> QED
      BY <2>0, <2>1, <3>1, <1>2, <1>4, <1>5, StaysAccounted DEF r
  <2>2. CASE u = Peer(w)
    <3> SUFFICES ASSUME InStep(w)'
                 PROVE  /\ session'[w].recvCounter <= store'[u].sendKey.step
                        /\ \A k \in 1 .. Len(wire'[u]) :
                             wire'[u][k].counter <= session'[w].recvCounter => AccountedFor(w, k)'
      BY <2>2 DEF PassedAccounted
    <3>1. /\ session'[w] = session[w]
          /\ store[u].sendKey.step \in Nat /\ store[u].sendKey.step <= r.sendKey.step
          /\ session[w].recvCounter \in Nat
          /\ store'[u].sendKey.step = r.sendKey.step + 1
      BY <2>0, <2>2, <1>2, <1>5, <1>6, <1>i, UserFacts DEF r
    <3>2. r.sendKey.step + 1 < CounterMod
      BY <2>2, <3>1 DEF InStep
    <3>3. InStep(w)
      BY <2>2, <3>1, <3>2, <1>1, <1>2, <1>5, RatchetAssumption DEF InStep, r
    <3>4. /\ session[w].recvCounter <= store[u].sendKey.step
          /\ \A k \in 1 .. Len(wire[u]) :
                wire[u][k].counter <= session[w].recvCounter => AccountedFor(w, k)
      BY <2>2, <3>3 DEF LossInv, PassedAccounted
    <3>5. Seal(r).counter = r.sendKey.step + 1
      BY <3>2, <1>2, <1>3 DEF CountsExact
    <3>6. ASSUME NEW k \in 1 .. Len(wire'[u]), wire'[u][k].counter <= session'[w].recvCounter
          PROVE  AccountedFor(w, k)'
      <4>1. k # Len(wire[u]) + 1
        BY <3>1, <3>4, <3>5, <3>6, <1>1, <1>7
      <4>2. k \in 1 .. Len(wire[u]) /\ wire'[u][k] = wire[u][k]
        BY <4>1, <1>7
      <4>3. AccountedFor(w, k)
        BY <4>2, <3>1, <3>4, <3>6
      <4> QED
        BY <4>2, <4>3, <2>2, <3>1, <1>4 DEF AccountedFor
    <3>7. session'[w].recvCounter <= store'[u].sendKey.step
      BY <3>1, <3>4, <1>1
    <3> QED
      BY <3>6, <3>7
  <2> QED
    BY <2>0, <2>1, <2>2
<1> QED
  BY <1>8, <1>9

\* A step that nobody is told of changes no number that was sent.
LEMMA EncryptUnsavedKeepsLoss ==
  ASSUME LossInv, NEW u \in Users, EncryptUnsaved(u)
  PROVE  CountersExact' /\ \A w \in Users : PassedAccounted(w)'
<1> DEFINE r == session[u]
           n == SendStep(session[u])
<1>i. IInv /\ CountersExact
  BY DEF LossInv
<1>1. r \in Ratchet /\ CountsExact(r)
  BY <1>i, UserFacts DEF CountersExact
<1>2. /\ n.sendKey.chain = r.sendKey.chain
      /\ n.recvKey = r.recvKey /\ n.recvCounter = r.recvCounter /\ n.skipped = r.skipped
      /\ CountsExact(n)
  BY <1>1, SendStepFields, SendStepExact
<1>3. /\ session' = [session EXCEPT ![u] = n]
      /\ store' = store /\ wire' = wire /\ inbox' = inbox /\ lost' = lost
  BY DEF EncryptUnsaved
<1> HIDE DEF n, r
<1>4. session'[u] = n /\ \A v \in Users : v # u => session'[v] = session[v]
  BY <1>3, <1>i DEF IInv, Typed
<1>5. \A v \in Users : /\ session'[v].recvKey = session[v].recvKey
                       /\ session'[v].recvCounter = session[v].recvCounter
                       /\ session'[v].skipped = session[v].skipped
                       /\ session'[v].sendKey.chain = session[v].sendKey.chain
                       /\ CountsExact(session'[v])
  BY <1>2, <1>4, <1>i DEF r, CountersExact
<1>6. CountersExact'
  BY <1>3, <1>5, <1>i DEF CountersExact, CountsExact
<1>7. ASSUME NEW w \in Users PROVE PassedAccounted(w)'
  <2>1. Peer(w) \in Users /\ store[Peer(w)].sendKey.step \in Nat
    BY PeerFacts, UserFacts, <1>i
  <2> QED
    BY <2>1, <1>3, <1>5, StaysAccounted
<1> QED
  BY <1>6, <1>7

\* The number of an envelope that can be tried is accounted for afterwards
\* if the step says so, and the others were before.
LEMMA ReceiveKeepsLoss ==
  ASSUME LossInv, NEW u \in Users, NEW m \in 1 .. Len(wire[Peer(u)]),
         CanTry(u, wire[Peer(u)][m]),
         session' = [session EXCEPT ![u] = AfterDecrypt(session[u], wire[Peer(u)][m].counter)],
         \/ store' = store
         \/ store' = [store EXCEPT ![u] = ExportState(AfterDecrypt(session[u], wire[Peer(u)][m].counter))],
         wire' = wire,
         \A v \in Users : v # u => inbox'[v] = inbox[v] /\ lost'[v] = lost[v],
         lost[u] \subseteq lost'[u],
         \A i \in 1 .. Len(inbox[u]) : i \in 1 .. Len(inbox'[u]) /\ inbox'[u][i] = inbox[u][i],
         \/ \E i \in 1 .. Len(inbox'[u]) : inbox'[u][i] = m
         \/ wire[Peer(u)][m].counter \in lost'[u]
         \/ ~Opens(u, wire[Peer(u)][m])
  PROVE  CountersExact' /\ \A w \in Users : PassedAccounted(w)'
<1> DEFINE e == wire[Peer(u)][m]
           r == session[u]
           n == AfterDecrypt(session[u], wire[Peer(u)][m].counter)
<1>i. IInv /\ CountersExact
  BY DEF LossInv
<1>p. Peer(u) \in Users /\ Peer(u) # u
  BY PeerFacts
<1>1. r \in Ratchet /\ Regular(r) /\ e.counter \in Counter /\ HasKeyFor(r, e.counter)
  BY <1>i, <1>p, UserFacts DEF CanTry
<1>2. /\ n \in Ratchet
      /\ n.sendKey = r.sendKey /\ n.sendCounter = r.sendCounter
      /\ n.recvKey.chain = r.recvKey.chain
      /\ \A d \in Counter : d # e.counter /\ d <= n.recvCounter =>
            \/ d \in DOMAIN n.skipped
            \/ d <= r.recvCounter /\ d \notin DOMAIN r.skipped
  BY <1>1, AfterDecryptRegular
<1>3. n.recvCounter = IF e.counter > r.recvCounter THEN e.counter ELSE r.recvCounter
  BY <1>1, AfterDecryptCounter
<1>4. session' = [session EXCEPT ![u] = n] /\ (store' = store \/ store' = [store EXCEPT ![u] = ExportState(n)])
  OBVIOUS
<1>k. Opens(u, e) <=> e.key = [chain |-> r.recvKey.chain, index |-> e.counter]
  BY <1>1, KeyForRegular DEF Opens
<1> HIDE DEF n, r, e
<1>5. /\ session'[u] = n /\ \A v \in Users : v # u => session'[v] = session[v]
      /\ store'[u] = store[u] \/ store'[u] = ExportState(n)
      /\ \A v \in Users : v # u => store'[v] = store[v]
  BY <1>4, <1>i DEF IInv, Typed
<1>6. \A v \in Users : /\ session'[v].sendKey = session[v].sendKey
                       /\ session'[v].sendCounter = session[v].sendCounter
                       /\ \/ store'[v] = store[v]
                          \/ /\ store'[v].sendKey = session[v].sendKey
                             /\ store'[v].sendCounter = session[v].sendCounter
  <2>1. ExportState(n).sendKey = n.sendKey /\ ExportState(n).sendCounter = n.sendCounter
    BY ExportFields
  <2> QED
    BY <2>1, <1>2, <1>5 DEF r
<1>7. CountersExact'
  <2>1. \A v \in Users : CountsExact(session'[v]) /\ CountsExact(store'[v])
    BY <1>6, <1>i DEF CountersExact, CountsExact
  <2> QED
    BY <2>1, <1>i DEF CountersExact, CountsExact
<1>8. \A v \in Users : /\ store'[v].sendKey.step \in Nat
                       /\ store[v].sendKey.step <= store'[v].sendKey.step
  BY <1>6, <1>i, UserFacts
<1>9. ASSUME NEW w \in Users, w # u PROVE PassedAccounted(w)'
  <2>1. Peer(w) \in Users
    BY PeerFacts
  <2> QED
    BY <2>1, <1>5, <1>6, <1>8, <1>9, StaysAccounted
<1>10. PassedAccounted(u)'
  <2> SUFFICES ASSUME InStep(u)'
               PROVE  /\ session'[u].recvCounter <= store'[Peer(u)].sendKey.step
                      /\ \A k \in 1 .. Len(wire[Peer(u)]) :
                           wire[Peer(u)][k].counter <= session'[u].recvCounter => AccountedFor(u, k)'
    BY DEF PassedAccounted
  <2>1. InStep(u) /\ store'[Peer(u)] = store[Peer(u)] /\ store[Peer(u)].sendKey.step \in Nat
    BY <1>p, <1>2, <1>5, <1>i, UserFacts DEF InStep, r
  <2>2. /\ r.recvCounter <= store[Peer(u)].sendKey.step
        /\ \A k \in 1 .. Len(wire[Peer(u)]) :
             wire[Peer(u)][k].counter <= r.recvCounter => AccountedFor(u, k)
    BY <2>1 DEF LossInv, PassedAccounted, r
  <2>3. ASSUME NEW k \in 1 .. Len(wire[Peer(u)])
        PROVE  LET d == wire[Peer(u)][k]
               IN  /\ d \in Envelope /\ d.counter \in Counter /\ d.counter \in Nat
                   /\ d.key.chain = r.recvKey.chain
                   /\ d.key.index = d.counter /\ d.counter <= store[Peer(u)].sendKey.step
    <3> DEFINE d == wire[Peer(u)][k]
    <3>1. /\ d \in Envelope /\ d.counter \in Counter /\ d.key.index \in Nat
          /\ d.key.chain = session[Peer(u)].sendKey.chain /\ d.key.index <= store[Peer(u)].sendKey.step
      BY <1>p, <1>i, UserFacts DEF IInv, WireOK
    <3>2. d.key.index < CounterMod
      BY <2>1, <3>1, RatchetAssumption DEF InStep
    <3>3. d.counter = d.key.index
      BY <3>2, <1>p, <1>i DEF CountersExact
    <3> QED
      BY <2>1, <3>1, <3>3, CounterIsNat DEF InStep, r
  <2>4. /\ e.counter \in Nat /\ e.counter <= store[Peer(u)].sendKey.step
        /\ e \in Envelope /\ e.key.chain = r.recvKey.chain /\ e.key.index = e.counter
    BY <2>3 DEF e
  <2>5. Opens(u, e)
    BY <2>4, <1>k DEF Envelope, MessageKey
  <2>6. session'[u].recvCounter <= store'[Peer(u)].sendKey.step
    BY <2>1, <2>2, <2>4, <1>3, <1>5
  <2>7. ASSUME NEW k \in 1 .. Len(wire[Peer(u)]), wire[Peer(u)][k].counter <= session'[u].recvCounter
        PROVE  AccountedFor(u, k)'
    <3>1. CASE wire[Peer(u)][k].counter = e.counter
      <4>1. k = m
        <5>1. wire[Peer(u)][k].key.index = wire[Peer(u)][m].key.index
          BY <2>3, <2>4, <3>1 DEF e
        <5>2. wire[Peer(u)][k].key.index \in Nat /\ Len(wire[Peer(u)]) \in Nat
          BY <2>3, <1>p, <1>i, UserFacts
        <5>3. ~(k < m)
          BY <5>1, <5>2, <1>p, <1>i DEF IInv, WireOK
        <5>4. ~(m < k)
          BY <5>1, <5>2, <1>p, <1>i DEF IInv, WireOK
        <5> QED
          BY <5>2, <5>3, <5>4
      <4> QED
        BY <4>1, <2>5 DEF AccountedFor, e
    <3>2. CASE wire[Peer(u)][k].counter # e.counter
      <4> DEFINE c == wire[Peer(u)][k].counter
      <4>1. c \in Counter /\ c <= n.recvCounter
        BY <2>3, <2>7, <1>5
      <4>2. c \in DOMAIN n.skipped \/ (c <= r.recvCounter /\ c \notin DOMAIN r.skipped)
        BY <4>1, <3>2, <1>2
      <4>3. CASE c \in DOMAIN n.skipped
        BY <4>3, <1>5 DEF AccountedFor
      <4>4. CASE c <= r.recvCounter /\ c \notin DOMAIN r.skipped
        <5>1. AccountedFor(u, k)
          BY <4>4, <2>2
        <5> QED
          BY <5>1, <4>4 DEF AccountedFor, r
      <4> QED
        BY <4>2, <4>3, <4>4
    <3> QED
      BY <3>1, <3>2
  <2> QED
    BY <2>6, <2>7
<1> QED
  BY <1>7, <1>9, <1>10

\* Keys that go with the session's memory are put down as lost.
LEMMA UnloadKeepsLoss ==
  ASSUME LossInv, NEW u \in Users, Unload(u)
  PROVE  CountersExact' /\ \A w \in Users : PassedAccounted(w)'
<1> DEFINE n == Restore(store[u])
           X == {c \in lost[u] \union DOMAIN session[u].skipped : c <= store[u].recvCounter}
<1>i. IInv /\ CountersExact
  BY DEF LossInv
<1>1. /\ session' = [session EXCEPT ![u] = n] /\ lost' = [lost EXCEPT ![u] = X]
      /\ store' = store /\ wire' = wire /\ inbox' = inbox
  BY DEF Unload
<1>2. /\ n.sendKey = store[u].sendKey /\ n.sendCounter = store[u].sendCounter
      /\ n.recvKey = store[u].recvKey /\ n.recvCounter = store[u].recvCounter
  BY RestoreFields
<1> HIDE DEF n, X
<1>3. /\ session'[u] = n /\ lost'[u] = X
      /\ \A v \in Users : v # u => session'[v] = session[v] /\ lost'[v] = lost[v]
  BY <1>1, <1>i DEF IInv, Typed
<1>4. \A v \in Users : /\ CountsExact(session'[v])
                       /\ session'[v].sendKey.chain = session[v].sendKey.chain
                       /\ session'[v].recvKey.chain = session[v].recvKey.chain
  BY <1>2, <1>3, <1>i DEF CountersExact, CountsExact, IInv, ChainsOK
<1>5. CountersExact'
  BY <1>1, <1>4, <1>i DEF CountersExact, CountsExact
<1>6. ASSUME NEW w \in Users, w # u PROVE PassedAccounted(w)'
  <2>1. Peer(w) \in Users /\ store[Peer(w)].sendKey.step \in Nat
    BY <1>i, PeerFacts, UserFacts
  <2> QED
    BY <2>1, <1>1, <1>3, <1>4, <1>6, StaysAccounted
<1>7. PassedAccounted(u)'
  <2> SUFFICES ASSUME InStep(u)'
               PROVE  /\ session'[u].recvCounter <= store[Peer(u)].sendKey.step
                      /\ \A k \in 1 .. Len(wire[Peer(u)]) :
                           wire[Peer(u)][k].counter <= session'[u].recvCounter => AccountedFor(u, k)'
    BY <1>1 DEF PassedAccounted
  <2>1. /\ session'[u].recvCounter = store[u].recvCounter
        /\ store[u].recvCounter \in Nat /\ session[u].recvCounter \in Nat
        /\ store[u].recvCounter <= session[u].recvCounter
        /\ store[Peer(u)].sendKey.step \in Nat
    BY <1>2, <1>3, <1>i, PeerFacts, UserFacts
  <2>2. Peer(u) \in Users /\ InStep(u)
    BY <1>1, <1>4, PeerFacts DEF InStep
  <2>3. /\ session[u].recvCounter <= store[Peer(u)].sendKey.step
        /\ \A k \in 1 .. Len(wire[Peer(u)]) :
             wire[Peer(u)][k].counter <= session[u].recvCounter => AccountedFor(u, k)
    BY <2>2 DEF LossInv, PassedAccounted
  <2>4. ASSUME NEW k \in 1 .. Len(wire[Peer(u)]), wire[Peer(u)][k].counter <= session'[u].recvCounter
        PROVE  AccountedFor(u, k)'
    <3>1. wire[Peer(u)][k].counter \in Nat
      BY <2>2, <1>i, UserFacts, CounterIsNat
    <3>2. AccountedFor(u, k) /\ wire[Peer(u)][k].counter <= store[u].recvCounter
      BY <2>1, <2>3, <2>4, <3>1
    <3> QED
      BY <3>2, <1>1, <1>3 DEF AccountedFor, X
  <2>5. session'[u].recvCounter <= store[Peer(u)].sendKey.step
    BY <2>1, <2>3
  <2> QED
    BY <2>4, <2>5
<1> QED
  BY <1>5, <1>6, <1>7

\* Every step keeps it.
LEMMA NextLoss == LossInv /\ [Next]_vars => LossInv'
<1> SUFFICES ASSUME LossInv, [Next]_vars PROVE CountersExact' /\ \A w \in Users : PassedAccounted(w)'
  BY NextIInv DEF LossInv
<1>i. IInv
  BY DEF LossInv
<1>1. ASSUME NEW u \in Users, Encrypt(u) PROVE CountersExact' /\ \A w \in Users : PassedAccounted(w)'
  BY <1>1, EncryptKeepsLoss
<1>2. ASSUME NEW u \in Users, EncryptUnsaved(u) PROVE CountersExact' /\ \A w \in Users : PassedAccounted(w)'
  BY <1>2, EncryptUnsavedKeepsLoss
<1>3. ASSUME NEW u \in Users, NEW m \in 1 .. Len(wire[Peer(u)]), Decrypt(u, m)
      PROVE  CountersExact' /\ \A w \in Users : PassedAccounted(w)'
  <2>1. inbox[u] \in Seq(Nat) /\ m \in Nat /\ DOMAIN inbox = Users
    BY <1>i, UserFacts DEF IInv, Typed
  <2>2. inbox' = [inbox EXCEPT ![u] = Append(inbox[u], m)] /\ lost' = lost
    BY <1>3 DEF Decrypt
  <2>3. /\ inbox'[u] = Append(inbox[u], m)
        /\ \A v \in Users : v # u => inbox'[v] = inbox[v]
    BY <2>1, <2>2
  <2>4. /\ Len(inbox[u]) + 1 \in 1 .. Len(inbox'[u])
        /\ inbox'[u][Len(inbox[u]) + 1] = m
        /\ \A i \in 1 .. Len(inbox[u]) : i \in 1 .. Len(inbox'[u]) /\ inbox'[u][i] = inbox[u][i]
    BY <2>1, <2>3
  <2>5. \E i \in 1 .. Len(inbox'[u]) : inbox'[u][i] = m
    BY <2>4
  <2> QED
    BY <1>3, <2>2, <2>3, <2>4, <2>5, ReceiveKeepsLoss DEF Decrypt
<1>4. ASSUME NEW u \in Users, NEW m \in 1 .. Len(wire[Peer(u)]), DecryptUnsaved(u, m)
      PROVE  CountersExact' /\ \A w \in Users : PassedAccounted(w)'
  <2>1. /\ lost' = [lost EXCEPT ![u] = @ \union {wire[Peer(u)][m].counter}]
        /\ DOMAIN lost = Users
        /\ inbox' = inbox
    BY <1>4, <1>i DEF DecryptUnsaved, IInv, Typed
  <2>2. /\ lost[u] \subseteq lost'[u] /\ wire[Peer(u)][m].counter \in lost'[u]
        /\ \A v \in Users : v # u => lost'[v] = lost[v]
    BY <2>1
  <2> QED
    BY <1>4, <2>1, <2>2, ReceiveKeepsLoss DEF DecryptUnsaved
<1>5. ASSUME NEW u \in Users, NEW m \in 1 .. Len(wire[Peer(u)]), DecryptFails(u, m)
      PROVE  CountersExact' /\ \A w \in Users : PassedAccounted(w)'
  BY <1>5, ReceiveKeepsLoss DEF DecryptFails
<1>6. ASSUME NEW u \in Users, Unload(u) PROVE CountersExact' /\ \A w \in Users : PassedAccounted(w)'
  BY <1>6, UnloadKeepsLoss
<1>7. CASE UNCHANGED vars
  BY <1>7 DEF vars, LossInv, CountersExact, CountsExact, PassedAccounted, InStep, AccountedFor
<1> QED
  BY <1>1, <1>2, <1>3, <1>4, <1>5, <1>6, <1>7 DEF Next, Receive

\* The skipped keys: while the sender's counter has not wrapped, a message
\* that the receiver's chain has passed was handed over, or its key is kept
\* for it, or the key went with a restart or a failed write.
THEOREM NothingLost == Spec => []NothingSkippedIsLost
<1>1. LossInv => NothingSkippedIsLost
  BY DEF LossInv, PassedAccounted, InStep, AccountedFor, NothingSkippedIsLost
<1> QED
  BY <1>1, InitLoss, NextLoss, PTL DEF Spec
=============================================================================
