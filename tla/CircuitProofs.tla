----------------------------- MODULE CircuitProofs -----------------------------
(***************************************************************************)
(* Theorems about Circuit, for every set of relays and users, every        *)
(* selection of candidates and every bound: the types, what a relay on the *)
(* way learns, which relays are chosen, that no message vanishes, and      *)
(* where the messages end.                                                 *)
(***************************************************************************)
EXTENDS Circuit, FiniteSetTheorems, SequenceTheorems, WellFoundedInduction, TLAPS

-----------------------------------------------------------------------------
(* The inductive invariant                                                 *)

\* A relay's score and its failures are at most as far from zero as there
\* were reports.
RelaysOK ==
  /\ reports \in 0 .. MaxReports
  /\ score \in [Relays -> -reports .. reports]
  /\ failures \in [Relays -> 0 .. reports]

CandidatesOK ==
  /\ DOMAIN candidates = Peers
  /\ \A u \in Peers : candidates[u] \in {<< >>, Published[u]}

CircuitOK(c) == c \in Seq(Relays) /\ (c = << >> \/ Len(c) \in MinHops .. MaxHops)

CircuitsOK ==
  /\ DOMAIN circuits = Messages
  /\ \A m \in Messages : CircuitOK(circuits[m])

HistoryOK ==
  /\ aimed \subseteq Messages /\ excused \subseteq Messages
  /\ faults \in 0 .. MaxFaults

\* Messages are numbered as they are sent: the next number is a new one.
SentFirst == \E n \in 0 .. MaxSends : {m \in Messages : circuits[m] # << >>} = 1 .. n

\* A packet for the i-th hop of its message's circuit comes from the hop
\* before and carries the layers from the i-th on.
AtHop(p, i, u) ==
  LET c == circuits[p.msg]
  IN  /\ p.to = c[i]
      /\ p.from = IF i = 1 THEN Sender ELSE c[i - 1]
      /\ p.layers = Layers(c, u, Payload(p.msg))[i]

PacketOK(p) ==
  /\ p.msg \in Messages /\ p.to \in Addressable
  /\ \E i \in 1 .. Len(circuits[p.msg]), u \in Peers : AtHop(p, i, u)

WireOK == \A p \in wire : PacketOK(p)

MailOK ==
  /\ \A e \in mailboxes : e.relay \in Addressable /\ e.owner \in Peers
  /\ \A o \in opened : o.owner \in Peers

\* What LearnsNeighboursOnly says of one observation.
LearntAt(l, c, i) ==
  /\ l.relay = c[i]
  /\ l.from = IF i = 1 THEN Sender ELSE c[i - 1]
  /\ l.kind = "forward" => i < Len(c) /\ l.next = c[i + 1]
  /\ l.kind = "exit" => i = Len(c) /\ l.next \in Peers

LearntOK ==
  \A l \in learnt :
    l.msg \in Messages /\ \E i \in 1 .. Len(circuits[l.msg]) : LearntAt(l, circuits[l.msg], i)

IInv ==
  /\ RelaysOK /\ CandidatesOK /\ CircuitsOK /\ HistoryOK
  /\ SentFirst /\ WireOK /\ MailOK /\ LearntOK

-----------------------------------------------------------------------------
(* The layers                                                              *)

\* Every nonempty set of numbers has a least element.
LEMMA Least ==
  ASSUME NEW T \in SUBSET Nat, T # {}
  PROVE  \E x \in T : \A y \in T : x <= y
<1>1. IsWellFoundedOn({r \in Nat \X Nat : r[1] < r[2]}, Nat)
  BY NatLessThanWellFounded DEF OpToRel
<1>2. PICK x \in T : \A y \in T : <<y, x>> \notin {r \in Nat \X Nat : r[1] < r[2]}
  BY <1>1, WFMin
<1>3. \A y \in T : ~(y < x)
  BY <1>2
<1> QED
  BY <1>3

\* The layer for hop i around what is inside it.
Layer(hops, i, inner, u, payload) ==
  [key |-> KeyInConfig(hops[i]), content |-> LayerContent(hops, i, inner, u, payload)]

\* The function f is a way to seal the layers from hop k on.
SealsFrom(f, k, hops, u, payload) ==
  f = [i \in k .. Len(hops) |-> Layer(hops, i, IF i = Len(hops) THEN payload ELSE f[i + 1], u, payload)]

\* Sealed from the exit outwards, the layers exist, from whichever hop on.
LEMMA LayersExist ==
  ASSUME NEW hops \in Seq(Relays), NEW u, NEW payload
  PROVE  \E f : SealsFrom(f, 1, hops, u, payload)
<1> DEFINE n == Len(hops)
           Missing == {j \in 0 .. n : ~ \E f : SealsFrom(f, n + 1 - j, hops, u, payload)}
<1>n. n \in Nat
  OBVIOUS
<1>1. 0 \notin Missing
  <2>1. SealsFrom([i \in n + 1 .. n |-> payload], n + 1, hops, u, payload)
    BY <1>n DEF SealsFrom
  <2> QED
    BY <2>1, <1>n
<1>2. ASSUME NEW j \in 0 .. n, j + 1 \in 0 .. n, j \notin Missing
      PROVE  j + 1 \notin Missing
  <2>1. PICK f : SealsFrom(f, n + 1 - j, hops, u, payload)
    BY <1>2
  <2> DEFINE k == n + 1 - j
             g == [i \in k - 1 .. n |->
                     IF i = k - 1
                     THEN Layer(hops, i, IF i = n THEN payload ELSE f[k], u, payload)
                     ELSE f[i]]
  <2>2. k \in Nat /\ k - 1 \in 1 .. n /\ k - 1 = n + 1 - (j + 1)
    BY <1>2, <1>n
  <2>3. \A i \in k .. n : g[i] = f[i] /\ f[i] = Layer(hops, i, IF i = n THEN payload ELSE f[i + 1], u, payload)
    BY <2>1, <2>2, <1>n DEF SealsFrom
  <2>4. ASSUME NEW i \in k - 1 .. n
        PROVE  g[i] = Layer(hops, i, IF i = n THEN payload ELSE g[i + 1], u, payload)
    <3>1. i # n => i + 1 \in k .. n /\ g[i + 1] = f[i + 1]
      BY <2>2, <2>3, <2>4, <1>n
    <3>2. CASE i = k - 1
      <4>1. i = n \/ i + 1 = k
        BY <3>2, <2>2, <1>n
      <4> QED
        BY <3>1, <3>2, <4>1
    <3>3. CASE i # k - 1
      <4>1. i \in k .. n
        BY <3>3, <2>2, <2>4, <1>n
      <4>2. CASE i = n
        BY <4>1, <4>2, <2>3
      <4>3. CASE i # n
        BY <4>1, <4>3, <2>3, <3>1
      <4> QED
        BY <4>2, <4>3
    <3> QED
      BY <3>2, <3>3
  <2>5. g = [i \in k - 1 .. n |-> Layer(hops, i, IF i = n THEN payload ELSE g[i + 1], u, payload)]
    <3> HIDE DEF k
    <3>1. g = [i \in k - 1 .. n |-> g[i]]
      OBVIOUS
    <3> HIDE DEF g
    <3> QED
      BY <3>1, <2>4
  <2>6. SealsFrom(g, k - 1, hops, u, payload)
    <3> HIDE DEF g
    <3> QED
      BY <2>5 DEF SealsFrom
  <2> QED
    BY <2>6, <2>2
<1>3. Missing = {}
  <2> SUFFICES ASSUME Missing # {} PROVE FALSE
    OBVIOUS
  <2>1. Missing \in SUBSET Nat
    BY <1>n
  <2>2. PICK x \in Missing : \A y \in Missing : x <= y
    <3> HIDE DEF Missing
    <3> QED
      BY <2>1, Least
  <2>3. x \in 0 .. n /\ x # 0
    BY <1>1
  <2>4. x - 1 \in 0 .. n /\ x - 1 \notin Missing /\ (x - 1) + 1 = x
    <3>1. x - 1 \in 0 .. n /\ ~(x <= x - 1) /\ (x - 1) + 1 = x
      BY <2>3, <1>n
    <3> HIDE DEF Missing
    <3> QED
      BY <3>1, <2>2
  <2> QED
    BY <2>3, <2>4, <1>2
<1>4. n \in 0 .. n /\ n + 1 - n = 1
  BY <1>n
<1> QED
  BY <1>3, <1>4

\* A layer holds the layer for the hop after it, the innermost the payload.
LEMMA LayersAre ==
  ASSUME NEW hops \in Seq(Relays), NEW u, NEW payload, NEW i \in 1 .. Len(hops)
  PROVE  Layers(hops, u, payload)[i] =
           Layer(hops, i, IF i = Len(hops) THEN payload ELSE Layers(hops, u, payload)[i + 1], u, payload)
<1>1. PICK f : SealsFrom(f, 1, hops, u, payload)
  BY LayersExist
<1>2. SealsFrom(CHOOSE g : SealsFrom(g, 1, hops, u, payload), 1, hops, u, payload)
  BY <1>1
<1>3. Layers(hops, u, payload) = CHOOSE g : SealsFrom(g, 1, hops, u, payload)
  BY DEF Layers, SealsFrom, Layer
<1>4. SealsFrom(Layers(hops, u, payload), 1, hops, u, payload)
  BY <1>2, <1>3
<1> QED
  BY <1>4 DEF SealsFrom

-----------------------------------------------------------------------------
(* The choice of relays                                                    *)

\* The relays of hops are used rows, and there are count of them.
AllUsable(hops) == \A k \in 1 .. Len(hops) : Usable(hops[k])

\* The first usable rows of what the database returns are rows of it.
LEMMA FirstUsableAre ==
  ASSUME NEW s, NEW count \in Nat, NEW hops \in FirstUsable(s, count)
  PROVE  hops \in Seq(Relays) /\ Len(hops) = count /\ AllUsable(hops)
<1> DEFINE usable == {i \in DOMAIN s : Usable(s[i])}
<1>1. PICK at \in [1 .. count -> usable] : hops = [k \in 1 .. count |-> s[at[k]]]
  BY DEF FirstUsable
<1>2. \A k \in 1 .. count : Usable(hops[k]) /\ hops[k] \in Relays
  BY <1>1, CircuitAssumption DEF Usable
<1>3. hops \in Seq(Relays) /\ Len(hops) = count
  BY <1>1, <1>2
<1> QED
  BY <1>2, <1>3 DEF AllUsable

\* select_hops returns at least MinHops hops, all of them usable.
LEMMA SelectHopsAre ==
  ASSUME NEW n \in Nat, NEW hops \in SelectHops(n)
  PROVE  hops \in Seq(Relays) /\ Len(hops) \in MinHops .. MaxHops /\ AllUsable(hops)
<1>1. Clamped(n) \in MinHops .. MaxHops /\ Clamped(n) \in Nat
  BY CircuitAssumption DEF Clamped
<1>2. PICK s : hops \in FirstUsable(s, Clamped(n))
  BY DEF SelectHops
<1> QED
  BY <1>1, <1>2, FirstUsableAre

\* build_circuit keeps the first hops, no more than MaxHops.
LEMMA BuildCircuitIs ==
  ASSUME NEW hops \in Seq(Relays), AllUsable(hops)
  PROVE  CircuitOK(BuildCircuit(hops)) /\ AllUsable(BuildCircuit(hops))
<1>1. CASE Len(hops) < MinHops
  BY <1>1 DEF BuildCircuit, CircuitOK, AllUsable
<1>2. CASE ~(Len(hops) < MinHops)
  <2> DEFINE n == IF Len(hops) < MaxHops THEN Len(hops) ELSE MaxHops
  <2>1. n \in MinHops .. MaxHops /\ n \in 1 .. Len(hops)
    BY <1>2, CircuitAssumption
  <2>2. BuildCircuit(hops) = SubSeq(hops, 1, n)
    BY <1>2 DEF BuildCircuit
  <2> HIDE DEF n
  <2>3. /\ SubSeq(hops, 1, n) \in Seq(Relays) /\ Len(SubSeq(hops, 1, n)) = n
        /\ \A k \in 1 .. n : SubSeq(hops, 1, n)[k] = hops[k]
    BY <2>1
  <2> QED
    BY <2>1, <2>2, <2>3 DEF CircuitOK, AllUsable
<1> QED
  BY <1>1, <1>2

\* Whatever circuit send_message may use is made of usable relays.
LEMMA CircuitsForAre ==
  ASSUME NEW u \in Peers, NEW c \in CircuitsFor(u)
  PROVE  CircuitOK(c) /\ AllUsable(c)
<1>m. MinHops \in Nat /\ MinHops - 1 \in Nat
  BY CircuitAssumption
<1>1. CASE candidates[u] = << >>
  <2>1. PICK hops \in SelectHops(MinHops) : c = BuildCircuit(hops)
    BY <1>1 DEF CircuitsFor
  <2> QED
    BY <2>1, <1>m, SelectHopsAre, BuildCircuitIs
<1>2. CASE candidates[u] # << >>
  <2>1. PICK hops \in SelectHops(MinHops - 1), exit \in SelectExitFrom(candidates[u]) :
               c = BuildCircuit(ExitLast(hops, exit))
    BY <1>2 DEF CircuitsFor
  <2>2. PICK one \in FirstUsable(candidates[u], 1) : exit = one[1]
    BY <2>1 DEF SelectExitFrom
  <2>3. one \in Seq(Relays) /\ Len(one) = 1 /\ AllUsable(one)
    BY FirstUsableAre
  <2>4. exit \in Relays /\ Usable(exit)
    <3>1. 1 \in 1 .. Len(one)
      BY <2>3
    <3>2. one[1] \in Relays
      BY <3>1, <2>3, ElementOfSeq
    <3> QED
      BY <3>1, <3>2, <2>2, <2>3 DEF AllUsable
  <2>5. hops \in Seq(Relays) /\ AllUsable(hops)
    BY <1>m, SelectHopsAre
  <2>6. ExitLast(hops, exit) \in Seq(Relays) /\ AllUsable(ExitLast(hops, exit))
    BY <2>4, <2>5 DEF ExitLast, AllUsable
  <2> QED
    BY <2>1, <2>6, BuildCircuitIs
<1> QED
  BY <1>1, <1>2

-----------------------------------------------------------------------------
(* The invariant holds                                                     *)

\* It holds when the node starts.
LEMMA InitIInv == Init => IInv
<1> SUFFICES ASSUME Init PROVE IInv
  OBVIOUS
<1> USE CircuitAssumption DEF Init
<1>1. RelaysOK
  BY DEF RelaysOK
<1>2. CandidatesOK /\ HistoryOK /\ MailOK /\ WireOK /\ LearntOK
  BY DEF CandidatesOK, HistoryOK, MailOK, WireOK, LearntOK
<1>3. CircuitsOK
  BY DEF CircuitsOK, CircuitOK
<1>4. {m \in Messages : circuits[m] # << >>} = 1 .. 0
  OBVIOUS
<1>5. SentFirst
  BY <1>4 DEF SentFirst
<1> QED
  BY <1>1, <1>2, <1>3, <1>5 DEF IInv

\* The message sent next has no circuit yet, and the ones before it have.
LEMMA NextIsNew ==
  ASSUME IInv, sent < MaxSends
  PROVE  /\ sent \in Nat /\ sent + 1 \in Messages
         /\ circuits[sent + 1] = << >>
         /\ {m \in Messages : circuits[m] # << >>} = 1 .. sent
<1>1. PICK n \in 0 .. MaxSends : {m \in Messages : circuits[m] # << >>} = 1 .. n
  BY DEF IInv, SentFirst
<1>2. sent = n
  <2>1. n \in Int /\ 1 \in Int /\ Cardinality(1 .. n) = n
    BY FS_Interval, CircuitAssumption
  <2> QED
    BY <1>1, <2>1 DEF sent
<1>3. sent + 1 \in Messages /\ sent + 1 \notin 1 .. n
  BY <1>2, CircuitAssumption DEF Messages
<1> QED
  BY <1>1, <1>2, <1>3

\* Sending a message gives it a circuit and its packet to the first hop.
LEMMA SendKeepsIInv ==
  ASSUME IInv, NEW u \in Peers, SendMessage(u)
  PROVE  IInv'
<1> DEFINE m == sent + 1
<1>1. PICK c \in CircuitsFor(u) :
             /\ c # << >> /\ Head(c) \in Addressable
             /\ circuits' = [circuits EXCEPT ![m] = c]
             /\ aimed' = IF candidates[u] = << >> THEN aimed ELSE aimed \union {m}
             /\ wire' = wire \union {Packet(m, Sender, Head(c), WrapLayers(c, u, Payload(m)))}
  BY DEF SendMessage
<1>2. m \in Messages /\ circuits[m] = << >> /\ {k \in Messages : circuits[k] # << >>} = 1 .. sent
  BY NextIsNew DEF SendMessage
<1>3. CircuitOK(c) /\ c \in Seq(Relays) /\ 1 \in 1 .. Len(c) /\ Head(c) = c[1]
  BY <1>1, CircuitsForAre DEF CircuitOK
<1>4. DOMAIN circuits = Messages /\ \A k \in Messages : CircuitOK(circuits[k])
  BY DEF IInv, CircuitsOK
<1>u. UNCHANGED <<score, failures, candidates, mailboxes, opened, learnt, excused, reports, faults>>
  BY DEF SendMessage
<1>s. sent \in Nat /\ sent < MaxSends
  BY NextIsNew DEF SendMessage
<1> HIDE DEF m
<1>5. circuits'[m] = c /\ \A k \in Messages : k # m => circuits'[k] = circuits[k]
  BY <1>1, <1>2, <1>4
<1>6. DOMAIN circuits' = Messages
  BY <1>1, <1>4
<1>7. CircuitsOK'
  BY <1>3, <1>4, <1>5, <1>6 DEF CircuitsOK
<1>8. RelaysOK' /\ CandidatesOK' /\ MailOK'
  BY <1>u DEF IInv, RelaysOK, CandidatesOK, MailOK
<1>9. HistoryOK'
  BY <1>1, <1>2, <1>u DEF IInv, HistoryOK
<1>10. SentFirst'
  <2>1. m \in 1 .. MaxSends /\ m = sent + 1 /\ 1 .. m = (1 .. sent) \union {m}
    BY <1>s, CircuitAssumption DEF m
  <2>2. {k \in Messages : circuits'[k] # << >>} = (1 .. sent) \union {m}
    BY <1>1, <1>2, <1>5
  <2>3. m \in 0 .. MaxSends
    BY <2>1, CircuitAssumption
  <2> QED
    BY <2>1, <2>2, <2>3 DEF SentFirst
<1>11. ASSUME NEW p \in wire' PROVE PacketOK(p)'
  <2>1. CASE p \in wire
    <3>1. PacketOK(p)
      BY <2>1 DEF IInv, WireOK
    <3>2. p.msg # m
      BY <3>1, <1>2 DEF PacketOK
    <3> QED
      BY <3>1, <3>2, <1>5 DEF PacketOK, AtHop
  <2>2. CASE p = Packet(m, Sender, Head(c), WrapLayers(c, u, Payload(m)))
    <3>1. /\ p.msg = m /\ p.from = Sender /\ p.to = c[1]
          /\ p.layers = Layers(c, u, Payload(m))[1]
      BY <2>2, <1>3 DEF Packet, WrapLayers, LayersFor
    <3>2. AtHop(p, 1, u)'
      BY <3>1, <1>5 DEF AtHop
    <3> QED
      BY <3>1, <3>2, <1>1, <1>2, <1>3, <1>5 DEF PacketOK
  <2> QED
    BY <1>1, <2>1, <2>2
<1>12. LearntOK'
  <2>1. ASSUME NEW l \in learnt
        PROVE  l.msg \in Messages /\ \E i \in 1 .. Len(circuits'[l.msg]) : LearntAt(l, circuits'[l.msg], i)
    <3>1. l.msg \in Messages /\ \E i \in 1 .. Len(circuits[l.msg]) : LearntAt(l, circuits[l.msg], i)
      BY DEF IInv, LearntOK
    <3>2. l.msg # m
      BY <3>1, <1>2
    <3> QED
      BY <3>1, <3>2, <1>5
  <2> QED
    BY <2>1, <1>u DEF LearntOK, LearntAt
<1> QED
  BY <1>7, <1>8, <1>9, <1>10, <1>11, <1>12 DEF IInv, WireOK

\* What the relay that opens the layer for hop i finds in it.
LEMMA WhatIsPeeled ==
  ASSUME IInv, NEW p \in wire,
         NEW i \in 1 .. Len(circuits[p.msg]), NEW u \in Peers, AtHop(p, i, u)
  PROVE  LET c == circuits[p.msg]
             content == p.layers.content
         IN  /\ i = Len(c) => /\ content.kind = "exit" /\ content.next = u
             /\ i # Len(c) => /\ content.kind = "forward" /\ i + 1 \in 1 .. Len(c)
                              /\ content.next = c[i + 1]
                              /\ content.inner = Layers(c, u, Payload(p.msg))[i + 1]
<1> DEFINE c == circuits[p.msg]
<1>1. c \in Seq(Relays)
  BY DEF IInv, WireOK, PacketOK, CircuitsOK, CircuitOK
<1>2. Layers(c, u, Payload(p.msg))[i] =
        Layer(c, i, IF i = Len(c) THEN Payload(p.msg) ELSE Layers(c, u, Payload(p.msg))[i + 1], u, Payload(p.msg))
  BY <1>1, LayersAre
<1>3. p.layers.content =
        LayerContent(c, i, IF i = Len(c) THEN Payload(p.msg) ELSE Layers(c, u, Payload(p.msg))[i + 1],
                     u, Payload(p.msg))
  BY <1>2 DEF AtHop, Layer
<1>4. i # Len(c) => i + 1 \in 1 .. Len(c)
  BY <1>1
<1> HIDE DEF c
<1>5. CASE i = Len(c)
  BY <1>3, <1>5 DEF LayerContent, c
<1>6. CASE i # Len(c)
  BY <1>3, <1>4, <1>6 DEF LayerContent, c
<1> QED
  BY <1>5, <1>6 DEF c

\* A relay learns of the hops next to it, and passes on what was sealed for
\* the hop after it.
LEMMA HandleKeepsIInv ==
  ASSUME IInv, NEW p \in wire, HandlePacket(p)
  PROVE  IInv'
<1> DEFINE c       == circuits[p.msg]
           content == p.layers.content
           seen    == [msg |-> p.msg, relay |-> p.to, from |-> p.from, kind |-> content.kind, next |-> content.next]
<1>1. /\ learnt' = learnt \union {seen}
      /\ Forward(p, content) \/ Store(p, content)
      /\ UNCHANGED <<score, failures, candidates, opened, circuits, aimed, reports>>
  BY DEF HandlePacket
<1>2. p.msg \in Messages /\ p.to \in Addressable
  BY DEF IInv, WireOK, PacketOK
<1>3. PICK i \in 1 .. Len(c), u \in Peers : AtHop(p, i, u)
  BY DEF IInv, WireOK, PacketOK
<1>4. /\ i = Len(c) => /\ content.kind = "exit" /\ content.next = u
      /\ i # Len(c) => /\ content.kind = "forward" /\ i + 1 \in 1 .. Len(c)
                       /\ content.next = c[i + 1]
                       /\ content.inner = Layers(c, u, Payload(p.msg))[i + 1]
  BY <1>3, WhatIsPeeled
<1>5. c \in Seq(Relays) /\ Len(c) \in Nat
  BY <1>2 DEF IInv, CircuitsOK, CircuitOK
<1> HIDE DEF content
<1>6. RelaysOK' /\ CandidatesOK' /\ CircuitsOK' /\ SentFirst'
  BY <1>1 DEF IInv, RelaysOK, CandidatesOK, CircuitsOK, SentFirst
<1>7. HistoryOK'
  <2>1. excused' \subseteq Messages /\ faults' \in 0 .. MaxFaults
    BY <1>1, <1>2, CircuitAssumption DEF IInv, HistoryOK, Forward, Store, Fault
  <2> QED
    BY <2>1, <1>1 DEF IInv, HistoryOK
<1>8. MailOK'
  <2>1. CASE UNCHANGED mailboxes
    BY <2>1, <1>1 DEF IInv, MailOK
  <2>2. CASE mailboxes' = mailboxes \union {[relay |-> p.to, owner |-> content.next, msg |-> p.msg, blob |-> content.inner]}
             /\ content.kind = "exit"
    <3>1. content.next \in Peers
      BY <2>2, <1>4
    <3> QED
      BY <2>2, <3>1, <1>1, <1>2 DEF IInv, MailOK
  <2> QED
    BY <2>1, <2>2, <1>1 DEF Forward, Store
<1>9. ASSUME NEW q \in wire' PROVE PacketOK(q)'
  <2>1. CASE q \in wire
    <3>1. PacketOK(q)
      BY <2>1 DEF IInv, WireOK
    <3> QED
      BY <3>1, <1>1 DEF PacketOK, AtHop
  <2>2. CASE /\ content.kind = "forward" /\ content.next \in Addressable
             /\ q = Packet(p.msg, p.to, content.next, content.inner)
    <3>1. i # Len(c)
      BY <2>2, <1>4
    <3>2. i + 1 \in 1 .. Len(c) /\ i + 1 # 1 /\ (i + 1) - 1 = i
      BY <3>1, <1>4, <1>5
    <3>3. q.msg = p.msg /\ q.from = c[i] /\ q.to = c[i + 1] /\ q.to \in Addressable
          /\ q.layers = Layers(c, u, Payload(p.msg))[i + 1]
      BY <2>2, <3>1, <1>3, <1>4 DEF Packet, AtHop
    <3>4. AtHop(q, i + 1, u)'
      BY <3>2, <3>3, <1>1 DEF AtHop
    <3> QED
      BY <3>2, <3>3, <3>4, <1>1, <1>2 DEF PacketOK
  <2> QED
    BY <2>1, <2>2, <1>1 DEF Forward, Store
<1>10. ASSUME NEW l \in learnt'
       PROVE  l.msg \in Messages /\ \E k \in 1 .. Len(circuits'[l.msg]) : LearntAt(l, circuits'[l.msg], k)
  <2>1. CASE l \in learnt
    BY <2>1, <1>1 DEF IInv, LearntOK
  <2>2. CASE l = seen
    <3>1. LearntAt(l, c, i)
      BY <2>2, <1>3, <1>4, <1>5 DEF LearntAt, AtHop
    <3> QED
      BY <3>1, <2>2, <1>1, <1>2, <1>3
  <2> QED
    BY <2>1, <2>2, <1>1
<1> QED
  BY <1>6, <1>7, <1>8, <1>9, <1>10 DEF IInv, WireOK, LearntOK, LearntAt

\* Packets that are dropped, fetches, reports and a restart leave what was
\* sent and what was learnt as it is.
LEMMA OthersKeepIInv ==
  ASSUME IInv,
         \/ \E p \in wire : HandleUnreadable(p) \/ LosePacket(p)
         \/ \E u \in Peers : CacheCandidates(u) \/ \E r \in Relays : FetchMailbox(u, r)
         \/ \E r \in Relays : RecordSuccess(r) \/ RecordFailure(r)
         \/ Restart
  PROVE  IInv'
<1>1. UNCHANGED <<circuits, aimed, learnt>>
  BY DEF HandleUnreadable, LosePacket, CacheCandidates, FetchMailbox, RecordSuccess, RecordFailure, Report, Restart
<1>2. CircuitsOK' /\ SentFirst'
  BY <1>1 DEF IInv, CircuitsOK, SentFirst
<1>3. LearntOK'
  BY <1>1 DEF IInv, LearntOK, LearntAt
<1>4. wire' \subseteq wire
  BY DEF HandleUnreadable, LosePacket, CacheCandidates, FetchMailbox, RecordSuccess, RecordFailure, Report, Restart
<1>5. WireOK'
  BY <1>1, <1>4 DEF IInv, WireOK, PacketOK, AtHop
<1>6. \A p \in wire : p.msg \in Messages
  BY DEF IInv, WireOK, PacketOK
<1>7. excused' \subseteq Messages /\ faults' \in 0 .. MaxFaults
  <2>1. ASSUME NEW p \in wire, HandleUnreadable(p)
        PROVE  excused' \subseteq Messages /\ faults' \in 0 .. MaxFaults
    BY <2>1, <1>6 DEF IInv, HistoryOK, HandleUnreadable
  <2>2. ASSUME NEW p \in wire, LosePacket(p)
        PROVE  excused' \subseteq Messages /\ faults' \in 0 .. MaxFaults
    BY <2>2, <1>6, CircuitAssumption DEF IInv, HistoryOK, LosePacket, Fault
  <2>3. CASE Restart
    BY <2>3, CircuitAssumption DEF IInv, HistoryOK, Restart, Fault
  <2>4. CASE UNCHANGED <<excused, faults>>
    BY <2>4 DEF IInv, HistoryOK
  <2> QED
    BY <2>1, <2>2, <2>3, <2>4 DEF CacheCandidates, FetchMailbox, RecordSuccess, RecordFailure, Report
<1>8. HistoryOK'
  BY <1>1, <1>7 DEF IInv, HistoryOK
<1>9. MailOK'
  <2>1. ASSUME NEW u \in Peers, NEW r \in Relays, FetchMailbox(u, r)
        PROVE  MailOK'
    BY <2>1 DEF IInv, MailOK, FetchMailbox
  <2>2. CASE UNCHANGED <<mailboxes, opened>>
    BY <2>2 DEF IInv, MailOK
  <2> QED
    BY <2>1, <2>2 DEF HandleUnreadable, LosePacket, CacheCandidates, RecordSuccess, RecordFailure, Report, Restart
<1>10. CandidatesOK'
  <2>1. ASSUME NEW u \in Peers, CacheCandidates(u)
        PROVE  CandidatesOK'
    BY <2>1 DEF IInv, CandidatesOK, CacheCandidates
  <2>2. CASE Restart
    BY <2>2 DEF CandidatesOK, Restart
  <2>3. CASE UNCHANGED candidates
    BY <2>3 DEF IInv, CandidatesOK
  <2> QED
    BY <2>1, <2>2, <2>3 DEF HandleUnreadable, LosePacket, FetchMailbox, RecordSuccess, RecordFailure, Report
<1>11. RelaysOK'
  <2>0. /\ reports \in Nat /\ reports \in 0 .. MaxReports
        /\ score \in [Relays -> -reports .. reports] /\ failures \in [Relays -> 0 .. reports]
    BY CircuitAssumption DEF IInv, RelaysOK
  <2>1. ASSUME NEW r \in Relays, NEW delta \in {-1, 1}, NEW count \in 0 .. reports + 1, Report(r, delta, count)
        PROVE  RelaysOK'
    <3>1. reports' \in 0 .. MaxReports /\ reports' = reports + 1
      BY <2>0, <2>1, CircuitAssumption DEF Report
    <3>2. /\ score' = [score EXCEPT ![r] = score[r] + delta]
          /\ failures' = [failures EXCEPT ![r] = count]
      BY <2>1 DEF Report
    <3>3. \A q \in Relays : /\ score[q] \in -(reports + 1) .. reports + 1
                            /\ score[q] + delta \in -(reports + 1) .. reports + 1
                            /\ failures[q] \in 0 .. reports + 1
      BY <2>0
    <3>4. score' \in [Relays -> -(reports + 1) .. reports + 1]
      BY <2>0, <3>2, <3>3
    <3>5. failures' \in [Relays -> 0 .. reports + 1]
      BY <2>0, <3>2, <3>3
    <3> QED
      BY <3>1, <3>4, <3>5 DEF RelaysOK
  <2>2. ASSUME NEW r \in Relays, RecordSuccess(r) PROVE RelaysOK'
    <3>1. 0 \in 0 .. reports + 1
      BY <2>0
    <3> QED
      BY <2>1, <2>2, <3>1 DEF RecordSuccess
  <2>3. ASSUME NEW r \in Relays, RecordFailure(r) PROVE RelaysOK'
    <3>1. failures[r] + 1 \in 0 .. reports + 1
      BY <2>0
    <3> QED
      BY <2>1, <2>3, <3>1 DEF RecordFailure
  <2>4. CASE Restart
    BY <2>0, <2>4 DEF RelaysOK, Restart
  <2>5. CASE UNCHANGED <<score, failures, reports>>
    BY <2>0, <2>5 DEF RelaysOK
  <2> QED
    BY <2>2, <2>3, <2>4, <2>5 DEF HandleUnreadable, LosePacket, CacheCandidates, FetchMailbox
<1> QED
  BY <1>2, <1>3, <1>5, <1>8, <1>9, <1>10, <1>11 DEF IInv

\* Every step keeps it.
LEMMA NextIInv == IInv /\ [Next]_vars => IInv'
<1> SUFFICES ASSUME IInv, [Next]_vars PROVE IInv'
  OBVIOUS
<1>1. CASE \E u \in Peers : SendMessage(u)
  BY <1>1, SendKeepsIInv
<1>2. CASE \E p \in wire : HandlePacket(p)
  BY <1>2, HandleKeepsIInv
<1>3. CASE UNCHANGED vars
  BY <1>3 DEF vars, IInv, RelaysOK, CandidatesOK, CircuitsOK, HistoryOK, SentFirst, WireOK, PacketOK,
              AtHop, MailOK, LearntOK, LearntAt
<1> QED
  BY <1>1, <1>2, <1>3, OthersKeepIInv DEF Next

\* So it holds throughout.
LEMMA Invariance == Spec => []IInv
BY InitIInv, NextIInv, PTL DEF Spec

-----------------------------------------------------------------------------
(* The theorems                                                            *)

\* The variables have their types: scores and failures stay within the
\* number of reports, candidates are what the user published, packets travel
\* between addresses, and a circuit has MinHops to MaxHops relays.
THEOREM TypeCorrect == Spec => []TypeOK
<1>1. IInv => TypeOK
  <2> SUFFICES ASSUME IInv PROVE TypeOK
    OBVIOUS
  <2>1. /\ score \in [Relays -> -MaxReports .. MaxReports]
        /\ failures \in [Relays -> 0 .. MaxReports]
        /\ reports \in 0 .. MaxReports
    BY CircuitAssumption DEF IInv, RelaysOK
  <2>2. \A u \in Peers : candidates[u] \in {<< >>, Published[u]}
    BY DEF IInv, CandidatesOK
  <2>3. \A p \in wire : p.msg \in Messages /\ p.to \in Addressable
    BY DEF IInv, WireOK, PacketOK
  <2>4. \A m \in Messages : circuits[m] = << >> \/ Len(circuits[m]) \in MinHops .. MaxHops
    BY DEF IInv, CircuitsOK, CircuitOK
  <2> QED
    BY <2>1, <2>2, <2>3, <2>4 DEF TypeOK, IInv, MailOK, HistoryOK
<1> QED
  BY <1>1, Invariance, PTL

\* wrap_layers and peel_layer: a relay that opens a layer of a message is a
\* hop of the message's circuit and learns the hops next to it and no more;
\* only the first sees the sender, only the last the recipient.
THEOREM NeighboursOnly == Spec => []LearnsNeighboursOnly
<1>1. IInv => LearnsNeighboursOnly
  <2> SUFFICES ASSUME IInv, NEW l \in learnt
               PROVE  LET hops == circuits[l.msg]
                      IN  \E i \in DOMAIN hops : LearntAt(l, hops, i)
    BY DEF LearnsNeighboursOnly, LearntAt
  <2>1. l.msg \in Messages /\ \E i \in 1 .. Len(circuits[l.msg]) : LearntAt(l, circuits[l.msg], i)
    BY DEF IInv, LearntOK
  <2>2. circuits[l.msg] \in Seq(Relays)
    BY <2>1 DEF IInv, CircuitsOK, CircuitOK
  <2> QED
    BY <2>1, <2>2
<1> QED
  BY <1>1, Invariance, PTL

\* select_hops and select_exit_from: no relay with FailureThreshold failures
\* in a row is in a circuit that is new, whatever the recipient published.
THEOREM FailedRest == Spec => FailedRelaysRest
<1> DEFINE Rests == \A m \in Messages : circuits'[m] # circuits[m] =>
                      \A r \in ToSet(circuits'[m]) : failures[r] < FailureThreshold
<1>1. IInv /\ [Next]_vars => [Rests]_vars
  <2> SUFFICES ASSUME IInv, Next, NEW m \in Messages, circuits'[m] # circuits[m],
                      NEW r \in ToSet(circuits'[m])
               PROVE  failures[r] < FailureThreshold
    OBVIOUS
  <2>1. PICK u \in Peers : SendMessage(u)
    BY DEF Next, CacheCandidates, FetchMailbox, HandlePacket, HandleUnreadable, LosePacket,
           RecordSuccess, RecordFailure, Report, Restart
  <2>2. PICK c \in CircuitsFor(u) : circuits' = [circuits EXCEPT ![sent + 1] = c]
    BY <2>1 DEF SendMessage
  <2>3. DOMAIN circuits = Messages
    BY DEF IInv, CircuitsOK
  <2>4. circuits'[m] = c
    BY <2>2, <2>3
  <2>5. c \in Seq(Relays) /\ AllUsable(c)
    BY CircuitsForAre DEF CircuitOK
  <2>6. PICK k \in 1 .. Len(c) : r = c[k]
    BY <2>4, <2>5 DEF ToSet
  <2>7. r \in Relays /\ ~IsExcluded(r)
    BY <2>5, <2>6 DEF AllUsable, Usable
  <2>8. failures[r] \in Nat
    BY <2>7 DEF IInv, RelaysOK
  <2> QED
    BY <2>7, <2>8, CircuitAssumption DEF IsExcluded
<1> QED
  BY <1>1, Invariance, PTL DEF Spec, FailedRelaysRest

-----------------------------------------------------------------------------
(* No message vanishes                                                     *)

Travels(m) == \E p \in wire : p.msg = m

\* A message that left is on its way, is kept, was fetched or met a fault.
Accounted(m) == Travels(m) \/ Stored(m) \/ Opened(m) \/ m \in excused

SentAreAccounted == \A m \in Messages : circuits[m] # << >> => Accounted(m)

\* A relay cannot read what was sealed for it only if its key in the sender's
\* configuration is not its own any more.
LEMMA UnreadableMeansOutdated ==
  ASSUME IInv, NEW p \in wire, ~Opens(p.to, p.layers)
  PROVE  p.to \in Outdated
<1> DEFINE c == circuits[p.msg]
<1>1. PICK i \in 1 .. Len(c), u \in Peers : AtHop(p, i, u)
  BY DEF IInv, WireOK, PacketOK
<1>2. c \in Seq(Relays)
  BY DEF IInv, WireOK, PacketOK, CircuitsOK, CircuitOK
<1>3. Layers(c, u, Payload(p.msg))[i] =
        Layer(c, i, IF i = Len(c) THEN Payload(p.msg) ELSE Layers(c, u, Payload(p.msg))[i + 1], u, Payload(p.msg))
  BY <1>1, <1>2, LayersAre
<1>4. p.layers.key = KeyInConfig(p.to)
  BY <1>1, <1>3 DEF AtHop, Layer
<1> QED
  BY <1>4 DEF Opens, OwnKey, KeyInConfig

\* A step that takes the packet p off the wire, if any, leaves every message
\* but p's where it was or further on.
LEMMA StaysAccounted ==
  ASSUME SentAreAccounted, UNCHANGED circuits,
         wire \subseteq wire' \/ \E p \in wire : wire \ {p} \subseteq wire' /\ Accounted(p.msg)',
         excused \subseteq excused',
         \A e \in mailboxes : Stored(e.msg)' \/ Opened(e.msg)',
         opened \subseteq opened'
  PROVE  SentAreAccounted'
<1> SUFFICES ASSUME NEW m \in Messages, circuits[m] # << >>
             PROVE  Accounted(m)'
  BY DEF SentAreAccounted
<1>1. Accounted(m)
  BY DEF SentAreAccounted
<1>2. CASE Travels(m)
  BY <1>2 DEF Travels, Accounted
<1>3. CASE Stored(m)
  BY <1>3 DEF Stored, Accounted
<1>4. CASE Opened(m)
  BY <1>4 DEF Opened, Accounted
<1>5. CASE m \in excused
  BY <1>5 DEF Accounted
<1> QED
  BY <1>1, <1>2, <1>3, <1>4, <1>5 DEF Accounted

\* A relay passes a packet on, keeps what is in it, or the message met a
\* fault.
LEMMA HandledIsAccounted ==
  ASSUME IInv, SentAreAccounted, NEW p \in wire,
         HandlePacket(p) \/ HandleUnreadable(p) \/ LosePacket(p)
  PROVE  SentAreAccounted'
<1>1. UNCHANGED <<circuits, opened>>
  BY DEF HandlePacket, HandleUnreadable, LosePacket
<1>2. wire \ {p} \subseteq wire' /\ excused \subseteq excused' /\ mailboxes \subseteq mailboxes'
  BY DEF HandlePacket, Forward, Store, HandleUnreadable, LosePacket
<1>3. Accounted(p.msg)'
  <2>1. CASE LosePacket(p)
    BY <2>1 DEF LosePacket, Accounted
  <2>2. CASE HandleUnreadable(p)
    BY <2>2, UnreadableMeansOutdated DEF HandleUnreadable, Accounted
  <2>3. CASE HandlePacket(p) /\ Forward(p, p.layers.content)
    <3> DEFINE q == Packet(p.msg, p.to, p.layers.content.next, p.layers.content.inner)
    <3>1. q.msg = p.msg
      BY DEF Packet
    <3>2. q \in wire' \/ p.msg \in excused'
      BY <2>3 DEF Forward
    <3> QED
      BY <3>1, <3>2 DEF Accounted, Travels
  <2>4. CASE HandlePacket(p) /\ Store(p, p.layers.content)
    <3> DEFINE e == [relay |-> p.to, owner |-> p.layers.content.next, msg |-> p.msg,
                     blob |-> p.layers.content.inner]
    <3>1. e.msg = p.msg
      OBVIOUS
    <3>2. e \in mailboxes' \/ p.msg \in excused'
      BY <2>4 DEF Store
    <3> QED
      BY <3>1, <3>2 DEF Accounted, Stored
  <2> QED
    BY <2>1, <2>2, <2>3, <2>4 DEF HandlePacket
<1>4. \A e \in mailboxes : Stored(e.msg)'
  BY <1>2 DEF Stored
<1> QED
  BY <1>1, <1>2, <1>3, <1>4, StaysAccounted

\* Sending puts the new message on the wire.
LEMMA SentIsAccounted ==
  ASSUME IInv, SentAreAccounted, NEW u \in Peers, SendMessage(u)
  PROVE  SentAreAccounted'
<1>0. PICK m : m = sent + 1
  OBVIOUS
<1>1. PICK c \in CircuitsFor(u) :
             /\ circuits' = [circuits EXCEPT ![m] = c]
             /\ wire' = wire \union {Packet(m, Sender, Head(c), WrapLayers(c, u, Payload(m)))}
  BY <1>0 DEF SendMessage
<1>2. UNCHANGED <<mailboxes, opened, excused>>
  BY DEF SendMessage
<1>3. DOMAIN circuits = Messages
  BY DEF IInv, CircuitsOK
<1>4. Travels(m)'
  <2> DEFINE q == Packet(m, Sender, Head(c), WrapLayers(c, u, Payload(m)))
  <2>1. q \in wire' /\ q.msg = m
    BY <1>1 DEF Packet
  <2> QED
    BY <2>1 DEF Travels
<1>5. ASSUME NEW k \in Messages, circuits'[k] # << >> PROVE Accounted(k)'
  <2>1. CASE k = m
    BY <2>1, <1>4 DEF Accounted
  <2>2. CASE k # m
    <3>1. circuits[k] # << >>
      BY <1>1, <1>3, <1>5, <2>2
    <3>2. Accounted(k)
      BY <3>1 DEF SentAreAccounted
    <3> QED
      BY <3>2, <1>1, <1>2 DEF Accounted, Travels, Stored, Opened
  <2> QED
    BY <2>1, <2>2
<1> QED
  BY <1>5 DEF SentAreAccounted

\* A fetch empties the mailbox into the owner's hands.
LEMMA FetchedIsAccounted ==
  ASSUME SentAreAccounted, NEW u \in Peers, NEW r \in Relays, FetchMailbox(u, r)
  PROVE  SentAreAccounted'
<1> DEFINE fetched == {e \in mailboxes : e.relay = r /\ e.owner = u}
           blobs   == {[owner |-> u, msg |-> e.msg, blob |-> e.blob] : e \in fetched}
<1>1. /\ mailboxes' = mailboxes \ fetched /\ opened' = opened \union blobs
      /\ UNCHANGED <<wire, circuits, excused>>
  BY DEF FetchMailbox
<1>2. ASSUME NEW e \in mailboxes PROVE Stored(e.msg)' \/ Opened(e.msg)'
  <2>1. CASE e \in fetched
    <3> DEFINE o == [owner |-> u, msg |-> e.msg, blob |-> e.blob]
    <3>1. o \in opened' /\ o.msg = e.msg
      BY <2>1, <1>1
    <3> QED
      BY <3>1 DEF Opened
  <2>2. CASE e \notin fetched
    BY <2>2, <1>1 DEF Stored
  <2> QED
    BY <2>1, <2>2
<1> QED
  BY <1>1, <1>2, StaysAccounted

\* send_message, forward_to_next_hop and the mailbox: at every moment, a
\* message whose packet left the sender is in a packet, in a mailbox or with
\* its recipient, or met one of the faults that excuse it. EverySentIsStored
\* can fail only by relays that never handle what arrived.
THEOREM NothingVanishes == Spec => []SentAreAccounted
<1>1. Init => SentAreAccounted
  BY DEF Init, SentAreAccounted
<1>2. IInv /\ SentAreAccounted /\ [Next]_vars => SentAreAccounted'
  <2> SUFFICES ASSUME IInv, SentAreAccounted, [Next]_vars PROVE SentAreAccounted'
    OBVIOUS
  <2>1. CASE \E u \in Peers : SendMessage(u)
    BY <2>1, SentIsAccounted
  <2>2. CASE \E u \in Peers, r \in Relays : FetchMailbox(u, r)
    BY <2>2, FetchedIsAccounted
  <2>3. CASE \E p \in wire : HandlePacket(p) \/ HandleUnreadable(p) \/ LosePacket(p)
    BY <2>3, HandledIsAccounted
  <2>4. CASE UNCHANGED <<circuits, wire, mailboxes, opened, excused>>
    BY <2>4 DEF SentAreAccounted, Accounted, Travels, Stored, Opened
  <2> QED
    BY <2>1, <2>2, <2>3, <2>4
    DEF Next, vars, CacheCandidates, RecordSuccess, RecordFailure, Report, Restart
<1> QED
  BY <1>1, <1>2, Invariance, PTL DEF Spec

-----------------------------------------------------------------------------
(* A message aimed at a recipient's relays ends at one of them             *)

Exit(c) == c[Len(c)]

PolledBy(u) == Relays \intersect ToSet(Published[u])

\* A packet on its way to u, through u's candidates if they were known.
AimedPacket(p) ==
  LET c == circuits[p.msg]
  IN  \E i \in 1 .. Len(c), u \in Peers :
        AtHop(p, i, u) /\ (p.msg \in aimed => Exit(c) \in PolledBy(u))

AimedOnWire == \A p \in wire : AimedPacket(p)

\* What FetchMailbox asks of the relay and the owner of an entry.
AimedInReach ==
  \A e \in mailboxes : e.msg \in aimed => e.relay \in PolledBy(e.owner) \intersect Addressable

\* What is aimed or kept was sent.
AimedWereSent ==
  /\ \A m \in aimed : circuits[m] # << >>
  /\ \A e \in mailboxes : e.msg \in Messages /\ circuits[e.msg] # << >>

AimInv == AimedOnWire /\ AimedInReach /\ AimedWereSent

\* With candidates known the circuit ends at one of them: the chosen hops are
\* so few that build_circuit never cuts off the exit.
LEMMA EndsAtCandidate ==
  ASSUME NEW u \in Peers, candidates[u] = Published[u], candidates[u] # << >>,
         NEW c \in CircuitsFor(u)
  PROVE  Exit(c) \in PolledBy(u)
<1> DEFINE n == Clamped(MinHops - 1)
<1>1. MinHops \in Nat /\ MaxHops \in Nat /\ n = MinHops /\ MinHops + 1 <= MaxHops
  BY CircuitAssumption DEF Clamped
<1>2. PICK hops \in SelectHops(MinHops - 1), exit \in SelectExitFrom(candidates[u]) :
             c = BuildCircuit(ExitLast(hops, exit))
  BY DEF CircuitsFor
<1>3. hops \in Seq(Relays) /\ Len(hops) = MinHops
  <2>1. PICK s : hops \in FirstUsable(s, n)
    BY <1>2 DEF SelectHops
  <2> HIDE DEF n
  <2> QED
    BY <2>1, <1>1, FirstUsableAre
<1>4. exit \in PolledBy(u)
  <2>1. PICK one \in FirstUsable(Published[u], 1) : exit = one[1]
    BY <1>2 DEF SelectExitFrom
  <2> DEFINE usable == {i \in DOMAIN Published[u] : Usable(Published[u][i])}
  <2>2. PICK at \in [1 .. 1 -> usable] : one = [k \in 1 .. 1 |-> Published[u][at[k]]]
    BY <2>1 DEF FirstUsable
  <2>3. at[1] \in usable /\ exit = Published[u][at[1]]
    BY <2>1, <2>2
  <2> QED
    BY <2>3, CircuitAssumption DEF PolledBy, ToSet, Usable
<1>5. c = Append(hops, exit) /\ Len(c) = MinHops + 1
  <2> DEFINE s == Append(hops, exit)
  <2>1. s \in Seq(Relays) /\ Len(s) = MinHops + 1
    BY <1>3, <1>4 DEF PolledBy
  <2>2. c = SubSeq(s, 1, IF Len(s) < MaxHops THEN Len(s) ELSE MaxHops)
    BY <2>1, <1>1, <1>2 DEF BuildCircuit, ExitLast
  <2>3. (IF Len(s) < MaxHops THEN Len(s) ELSE MaxHops) = Len(s)
    BY <2>1, <1>1
  <2>4. c = SubSeq(s, 1, Len(s))
    BY <2>2, <2>3
  <2> HIDE DEF s
  <2>5. SubSeq(s, 1, Len(s)) = s
    BY <2>1
  <2> QED
    BY <2>1, <2>4, <2>5 DEF s
<1>6. c[Len(c)] = exit
  BY <1>1, <1>3, <1>5
<1> QED
  BY <1>4, <1>6 DEF Exit

\* A packet that stays on the wire goes to the same hop of the same circuit.
LEMMA StaysAimed ==
  ASSUME NEW p, AimedPacket(p), circuits'[p.msg] = circuits[p.msg],
         p.msg \in aimed' => p.msg \in aimed
  PROVE  AimedPacket(p)'
BY DEF AimedPacket, AtHop

\* The packet of a new message is aimed if the candidates were known.
LEMMA SendKeepsAim ==
  ASSUME IInv, AimInv, NEW u \in Peers, SendMessage(u)
  PROVE  AimInv'
<1> DEFINE m == sent + 1
<1>1. PICK c \in CircuitsFor(u) :
             /\ c # << >>
             /\ circuits' = [circuits EXCEPT ![m] = c]
             /\ aimed' = IF candidates[u] = << >> THEN aimed ELSE aimed \union {m}
             /\ wire' = wire \union {Packet(m, Sender, Head(c), WrapLayers(c, u, Payload(m)))}
  BY DEF SendMessage
<1>2. m \in Messages /\ circuits[m] = << >> /\ DOMAIN circuits = Messages
  BY NextIsNew DEF SendMessage, IInv, CircuitsOK
<1>3. CircuitOK(c) /\ 1 \in 1 .. Len(c) /\ Head(c) = c[1]
  BY <1>1, CircuitsForAre DEF CircuitOK
<1>4. candidates[u] # << >> => Exit(c) \in PolledBy(u)
  BY EndsAtCandidate DEF IInv, CandidatesOK
<1>5. m \notin aimed /\ \A e \in mailboxes : e.msg # m
  BY <1>2 DEF AimInv, AimedWereSent
<1> HIDE DEF m
<1>6. ASSUME NEW p \in wire' PROVE AimedPacket(p)'
  <2>1. CASE p \in wire
    <3>1. AimedPacket(p)
      BY <2>1 DEF AimInv, AimedOnWire
    <3>2. p.msg \in Messages /\ p.msg # m
      BY <2>1, <3>1, <1>2 DEF AimedPacket, IInv, WireOK, PacketOK
    <3> QED
      BY <3>1, <3>2, <1>1, <1>2, StaysAimed
  <2>2. CASE p = Packet(m, Sender, Head(c), WrapLayers(c, u, Payload(m)))
    <3>1. /\ p.msg = m /\ p.from = Sender /\ p.to = c[1]
          /\ p.layers = Layers(c, u, Payload(m))[1]
      BY <2>2, <1>3 DEF Packet, WrapLayers, LayersFor
    <3>2. circuits'[m] = c
      BY <1>1, <1>2
    <3>3. AtHop(p, 1, u)'
      BY <3>1, <3>2 DEF AtHop
    <3> QED
      BY <3>1, <3>2, <3>3, <1>1, <1>3, <1>4, <1>5 DEF AimedPacket
  <2> QED
    BY <1>1, <2>1, <2>2
<1>7. UNCHANGED mailboxes
  BY DEF SendMessage
<1>8. AimedInReach'
  BY <1>1, <1>5, <1>7 DEF AimInv, AimedInReach
<1>9. AimedWereSent'
  <2>1. \A k \in Messages : k # m => circuits'[k] = circuits[k]
    BY <1>1, <1>2
  <2>2. circuits'[m] # << >> /\ aimed \subseteq Messages /\ aimed' \subseteq aimed \union {m}
    BY <1>1, <1>2 DEF IInv, HistoryOK
  <2> QED
    BY <2>1, <2>2, <1>7 DEF AimInv, AimedWereSent
<1> QED
  BY <1>6, <1>8, <1>9 DEF AimedOnWire, AimInv

\* A relay passes the packet to the next hop of the same circuit; the last
\* keeps what is in it for the recipient the circuit was built for.
LEMMA HandleKeepsAim ==
  ASSUME IInv, AimInv, NEW p \in wire, HandlePacket(p)
  PROVE  AimInv'
<1> DEFINE c       == circuits[p.msg]
           content == p.layers.content
<1>1. UNCHANGED <<circuits, aimed>> /\ (Forward(p, content) \/ Store(p, content))
  BY DEF HandlePacket
<1>2. p.msg \in Messages /\ p.to \in Addressable /\ c \in Seq(Relays)
  BY DEF IInv, WireOK, PacketOK, CircuitsOK, CircuitOK
<1>3. PICK i \in 1 .. Len(c), u \in Peers : AtHop(p, i, u) /\ (p.msg \in aimed => Exit(c) \in PolledBy(u))
  BY DEF AimInv, AimedOnWire, AimedPacket
<1>4. /\ i = Len(c) => /\ content.kind = "exit" /\ content.next = u
      /\ i # Len(c) => /\ content.kind = "forward" /\ i + 1 \in 1 .. Len(c)
                       /\ content.next = c[i + 1]
                       /\ content.inner = Layers(c, u, Payload(p.msg))[i + 1]
  BY <1>3, WhatIsPeeled
<1>5. circuits[p.msg] # << >>
  BY <1>2, <1>3
<1> HIDE DEF content
<1>6. ASSUME NEW q \in wire' PROVE AimedPacket(q)'
  <2>1. CASE q \in wire
    BY <2>1, <1>1, StaysAimed DEF AimInv, AimedOnWire
  <2>2. CASE /\ content.kind = "forward"
             /\ q = Packet(p.msg, p.to, content.next, content.inner)
    <3>1. i # Len(c)
      BY <2>2, <1>4
    <3>2. i + 1 \in 1 .. Len(c) /\ i + 1 # 1 /\ (i + 1) - 1 = i
      BY <3>1, <1>2, <1>4
    <3>3. q.msg = p.msg /\ q.from = c[i] /\ q.to = c[i + 1] /\ q.layers = Layers(c, u, Payload(p.msg))[i + 1]
      BY <2>2, <3>1, <1>3, <1>4 DEF Packet, AtHop
    <3>4. AtHop(q, i + 1, u)
      BY <3>2, <3>3 DEF AtHop
    <3>5. AimedPacket(q)
      BY <3>2, <3>3, <3>4, <1>3 DEF AimedPacket
    <3> QED
      BY <3>5, <1>1, StaysAimed
  <2> QED
    BY <2>1, <2>2, <1>1 DEF Forward, Store
<1>7. ASSUME NEW e \in mailboxes'
      PROVE  /\ e.msg \in aimed => e.relay \in PolledBy(e.owner) \intersect Addressable
             /\ e.msg \in Messages /\ circuits[e.msg] # << >>
  <2>1. CASE e \in mailboxes
    BY <2>1 DEF AimInv, AimedInReach, AimedWereSent
  <2>2. CASE /\ content.kind = "exit"
             /\ e = [relay |-> p.to, owner |-> content.next, msg |-> p.msg, blob |-> content.inner]
    <3>1. i = Len(c)
      BY <2>2, <1>4
    <3>2. e.msg = p.msg /\ e.owner = u /\ e.relay = p.to
      BY <2>2, <3>1, <1>4
    <3>3. p.to = Exit(c)
      BY <3>1, <1>3 DEF AtHop, Exit
    <3> QED
      BY <3>2, <3>3, <1>2, <1>3, <1>5
  <2> QED
    BY <2>1, <2>2, <1>1 DEF Forward, Store
<1> QED
  BY <1>1, <1>6, <1>7 DEF AimInv, AimedOnWire, AimedInReach, AimedWereSent

\* The other steps put nothing on the wire and nothing into a mailbox.
LEMMA OthersKeepAim ==
  ASSUME AimInv, UNCHANGED <<circuits, aimed>>, wire' \subseteq wire, mailboxes' \subseteq mailboxes
  PROVE  AimInv'
<1>1. AimedOnWire'
  BY StaysAimed DEF AimInv, AimedOnWire
<1> QED
  BY <1>1 DEF AimInv, AimedInReach, AimedWereSent

\* select_exit_from and build_circuit: what a relay keeps of a message sent
\* with the recipient's candidates known lies at a relay that the recipient
\* polls and can reach. AimedIsFetched can fail only by faults on the way or
\* by a recipient that never polls.
THEOREM AimedLieInReach == Spec => []AimedInReach
<1>1. Init => AimInv
  BY DEF Init, AimInv, AimedOnWire, AimedInReach, AimedWereSent
<1>2. IInv /\ AimInv /\ [Next]_vars => AimInv'
  <2> SUFFICES ASSUME IInv, AimInv, [Next]_vars PROVE AimInv'
    OBVIOUS
  <2>1. CASE \E u \in Peers : SendMessage(u)
    BY <2>1, SendKeepsAim
  <2>2. CASE \E p \in wire : HandlePacket(p)
    BY <2>2, HandleKeepsAim
  <2>3. CASE UNCHANGED <<circuits, aimed>> /\ wire' \subseteq wire /\ mailboxes' \subseteq mailboxes
    BY <2>3, OthersKeepAim
  <2> QED
    BY <2>1, <2>2, <2>3
    DEF Next, vars, HandleUnreadable, LosePacket, CacheCandidates, FetchMailbox,
        RecordSuccess, RecordFailure, Report, Restart
<1>3. AimInv => AimedInReach
  BY DEF AimInv
<1> QED
  BY <1>1, <1>2, <1>3, Invariance, PTL DEF Spec
================================================================================
