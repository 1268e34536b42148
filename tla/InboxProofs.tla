----------------------------- MODULE InboxProofs -----------------------------
(***************************************************************************)
(* Theorems about Inbox, for every set of peers, every length of a thread  *)
(* on the screen and every bound: the types, that each thread is an        *)
(* at-most-once channel from its peer, which sent rows there are, what is  *)
(* refused, and that nothing taken up or announced is dropped.             *)
(***************************************************************************)
EXTENDS Inbox, DoubleRatchetProofs, FiniteSetTheorems, WellFoundedInduction, TLAPS

-----------------------------------------------------------------------------
(* The received rows of a thread                                           *)

\* Every nonempty set of numbers has a least element.
LEMMA Least ==
  ASSUME NEW T \in SUBSET Nat, T # {}
  PROVE  \E x \in T : \A y \in T : x <= y
<1>1. IsWellFoundedOn({r \in Nat \X Nat : r[1] < r[2]}, Nat)
  BY NatLessThanWellFounded DEF OpToRel
<1>2. PICK x \in T : \A y \in T : <<y, x>> \notin {r \in Nat \X Nat : r[1] < r[2]}
  BY <1>1, WFMin
<1>3. \A y \in T : ~(y < x)
  BY <1>2
<1> QED
  BY <1>3

\* The numbers s, and that of row r if it is a received one of p's thread.
Added(s, r, p) == IF r.peer = p /\ r.direction = "received" THEN Append(s, r.n) ELSE s

\* f lists the received numbers of each of the first k prefixes of rows.
Lists(f, rows, p, k) ==
  f = [i \in 0 .. k |-> IF i = 0 THEN << >> ELSE Added(f[i - 1], rows[i], p)]

\* Prefix by prefix, the lists exist.
LEMMA ListsExist ==
  ASSUME NEW rows, NEW p, NEW k \in Nat
  PROVE  \E f : Lists(f, rows, p, k)
<1> DEFINE Missing == {j \in Nat : ~ \E f : Lists(f, rows, p, j)}
<1>1. 0 \notin Missing
  <2>1. Lists([i \in 0 .. 0 |-> << >>], rows, p, 0)
    BY DEF Lists
  <2> QED
    BY <2>1
<1>2. ASSUME NEW j \in Nat, j \notin Missing
      PROVE  j + 1 \notin Missing
  <2>1. PICK f : Lists(f, rows, p, j)
    BY <1>2
  <2> DEFINE g == [i \in 0 .. j + 1 |-> IF i = j + 1 THEN Added(f[j], rows[i], p) ELSE f[i]]
  <2>2. \A i \in 0 .. j : g[i] = f[i] /\ f[i] = IF i = 0 THEN << >> ELSE Added(f[i - 1], rows[i], p)
    BY <2>1 DEF Lists
  <2>3. ASSUME NEW i \in 0 .. j + 1
        PROVE  g[i] = IF i = 0 THEN << >> ELSE Added(g[i - 1], rows[i], p)
    <3>1. CASE i = j + 1
      <4>1. i # 0 /\ i - 1 = j /\ g[i] = Added(f[j], rows[i], p)
        BY <3>1
      <4>2. g[i - 1] = f[j]
        BY <4>1, <2>2
      <4> HIDE DEF g
      <4> QED
        BY <4>1, <4>2
    <3>2. CASE i \in 0 .. j /\ i # 0
      <4>1. i - 1 \in 0 .. j
        BY <3>2
      <4>2. g[i - 1] = f[i - 1] /\ g[i] = f[i] /\ f[i] = Added(f[i - 1], rows[i], p)
        BY <3>2, <4>1, <2>2
      <4> HIDE DEF g
      <4> QED
        BY <3>2, <4>2
    <3>3. CASE i = 0
      <4> HIDE DEF g
      <4>1. i \in 0 .. j
        BY <3>3
      <4>2. g[i] = f[i] /\ f[i] = << >>
        BY <3>3, <4>1, <2>2
      <4> QED
        BY <3>3, <4>2
    <3> QED
      BY <3>1, <3>2, <3>3
  <2>4. g = [i \in 0 .. j + 1 |-> g[i]]
    OBVIOUS
  <2> HIDE DEF g
  <2>5. Lists(g, rows, p, j + 1)
    BY <2>3, <2>4 DEF Lists
  <2> QED
    BY <2>5
<1>3. Missing = {}
  <2> SUFFICES ASSUME Missing # {} PROVE FALSE
    OBVIOUS
  <2>1. PICK x \in Missing : \A y \in Missing : x <= y
    <3>1. Missing \in SUBSET Nat
      OBVIOUS
    <3> HIDE DEF Missing
    <3> QED
      BY <3>1, Least
  <2>2. x \in Nat /\ x # 0
    BY <1>1
  <2>3. x - 1 \in Nat /\ x - 1 \notin Missing /\ (x - 1) + 1 = x
    <3>1. x - 1 \in Nat /\ ~(x <= x - 1) /\ (x - 1) + 1 = x
      BY <2>2
    <3> HIDE DEF Missing
    <3> QED
      BY <3>1, <2>1
  <2>4. x \notin Missing
    <3> HIDE DEF Missing
    <3> QED
      BY <2>3, <1>2
  <2> QED
    BY <2>4
<1> QED
  BY <1>3

\* Two lists of the same rows are the same as far as both go.
LEMMA ListsAgree ==
  ASSUME NEW rows, NEW more, NEW p, NEW k \in Nat, NEW l \in Nat, k <= l,
         \A i \in 1 .. k : rows[i] = more[i],
         NEW f, Lists(f, rows, p, k), NEW g, Lists(g, more, p, l)
  PROVE  f[k] = g[k]
<1> DEFINE Differ == {i \in 0 .. k : f[i] # g[i]}
<1>1. \A i \in 0 .. k : f[i] = IF i = 0 THEN << >> ELSE Added(f[i - 1], rows[i], p)
  BY DEF Lists
<1>2. \A i \in 0 .. k : g[i] = IF i = 0 THEN << >> ELSE Added(g[i - 1], more[i], p)
  BY DEF Lists
<1>3. Differ = {}
  <2> SUFFICES ASSUME Differ # {} PROVE FALSE
    OBVIOUS
  <2>1. PICK x \in Differ : \A y \in Differ : x <= y
    <3>1. Differ \in SUBSET Nat
      OBVIOUS
    <3> HIDE DEF Differ
    <3> QED
      BY <3>1, Least
  <2>2. x \in 1 .. k /\ x - 1 \in 0 .. k /\ ~(x <= x - 1)
    BY <1>1, <1>2
  <2>3. f[x - 1] = g[x - 1]
    BY <2>1, <2>2
  <2>4. f[x] = g[x]
    BY <2>2, <2>3, <1>1, <1>2
  <2> QED
    BY <2>4
<1> QED
  BY <1>3

\* The list that ReceivedIn reads.
LEMMA ReceivedLists ==
  ASSUME NEW rows \in Seq(Row), NEW p
  PROVE  \E f : Lists(f, rows, p, Len(rows)) /\ ReceivedIn(rows, p) = f[Len(rows)]
<1>1. Len(rows) \in Nat
  OBVIOUS
<1>2. \E f : Lists(f, rows, p, Len(rows))
  BY <1>1, ListsExist
<1>3. Lists(CHOOSE f : Lists(f, rows, p, Len(rows)), rows, p, Len(rows))
  BY <1>2
<1>4. ReceivedIn(rows, p) = (CHOOSE f : Lists(f, rows, p, Len(rows)))[Len(rows)]
  BY DEF ReceivedIn, Lists, Added
<1> QED
  BY <1>3, <1>4

\* An empty table has no received rows.
LEMMA ReceivedNone ==
  ASSUME NEW p
  PROVE  ReceivedIn(<< >>, p) = << >>
<1>1. << >> \in Seq(Row) /\ Len(<< >>) = 0
  OBVIOUS
<1>2. PICK f : Lists(f, << >>, p, 0) /\ ReceivedIn(<< >>, p) = f[0]
  BY <1>1, ReceivedLists
<1>3. f[0] = << >>
  BY <1>2 DEF Lists
<1> QED
  BY <1>2, <1>3

\* A row at the end of the table is at the end of its thread.
LEMMA ReceivedAppend ==
  ASSUME NEW rows \in Seq(Row), NEW r \in Row, NEW p
  PROVE  ReceivedIn(Append(rows, r), p) = Added(ReceivedIn(rows, p), r, p)
<1> DEFINE more == Append(rows, r)
           k    == Len(rows)
<1>1. /\ more \in Seq(Row) /\ k \in Nat /\ Len(more) = k + 1
      /\ more[k + 1] = r /\ \A i \in 1 .. k : rows[i] = more[i]
  OBVIOUS
<1> HIDE DEF more, k
<1>2. PICK f : Lists(f, rows, p, k) /\ ReceivedIn(rows, p) = f[k]
  BY ReceivedLists DEF k
<1>3. PICK g : Lists(g, more, p, k + 1) /\ ReceivedIn(more, p) = g[k + 1]
  BY <1>1, ReceivedLists
<1>4. f[k] = g[k]
  BY <1>1, <1>2, <1>3, ListsAgree
<1>5. g[k + 1] = Added(g[k], r, p)
  <2>1. k + 1 \in 0 .. k + 1 /\ k + 1 # 0 /\ (k + 1) - 1 = k
    BY <1>1
  <2>2. g[k + 1] = Added(g[(k + 1) - 1], more[k + 1], p)
    BY <1>3, <2>1 DEF Lists
  <2> QED
    BY <1>1, <2>1, <2>2
<1> QED
  BY <1>2, <1>3, <1>4, <1>5 DEF more

-----------------------------------------------------------------------------
(* The inductive invariant                                                 *)

\* The loop: what is in a batch was sealed; what is in the channel was
\* sealed and waits for the writer; sessions are ratchets in use.
LoopOK ==
  /\ sealed \in [Peers -> 0 .. MaxMade]
  /\ batch \in Seq(Envelope \union {Garbage})
  /\ \A i \in 1 .. Len(batch) : batch[i] # Garbage => batch[i].n <= sealed[batch[i].from]
  /\ incoming \in Seq(Envelope)

\* n is behind ratchet r, and r has no key for it any more.
Past(r, n) == n <= r.recvCounter /\ n \notin DOMAIN r.skipped

SessionOK(p) ==
  session[p] # NoSession =>
    /\ session[p] \in Ratchet /\ Regular(session[p])
    /\ \A n \in opened[p] : Past(session[p], n)

SessionsOK ==
  /\ DOMAIN session = Peers /\ opened \in [Peers -> SUBSET (1 .. MaxMade)]
  /\ \A p \in Peers : SessionOK(p)

\* What a session that is still there has handed over, it has opened.
OpenedBy(p, n) == n \in 1 .. sealed[p] /\ (session[p] # NoSession => n \in opened[p])

\* The numbers of a thread's received rows, and the envelopes that wait for
\* the writer.
Handed(p) == {Received(p)[k] : k \in 1 .. Len(Received(p))}
Waiting == {incoming[i] : i \in 1 .. Len(incoming)}

\* What the writer has still to save is in no thread yet, and waits once.
WaitingOK ==
  /\ \A e \in Waiting : OpenedBy(e.from, e.n) /\ e.n \notin Handed(e.from)
  /\ \A i, j \in 1 .. Len(incoming) : i # j => incoming[i] # incoming[j]

ThreadsOK ==
  \A p \in Peers : Received(p) \in Seq(Nat) /\ \A n \in Handed(p) : OpenedBy(p, n)

\* A text on its way has a recipient, and one that was sent has left.
TextsOK ==
  /\ text \in [1 .. MaxTexts -> [to : Peers \union {NoPeer}, left : BOOLEAN,
                   at : {"unwritten", "asked", "sent", "saved", "gone"}]]
  /\ \A t \in 1 .. MaxTexts :
       /\ text[t].at \in {"asked", "sent"} => text[t].to \in Peers
       /\ text[t].at = "sent" => text[t].left

\* The row of a text: the text was sent to the row's peer, and is done with.
SentRowOK(r, texts) ==
  r.direction = "sent" =>
    /\ r.n \in 1 .. MaxTexts /\ texts[r.n].at \in {"saved", "gone"}
    /\ texts[r.n].left /\ texts[r.n].to = r.peer

RowsOK ==
  /\ history \in Seq(Row)
  /\ \A i \in 1 .. Len(history) : SentRowOK(history[i], text)
  /\ \A i, j \in 1 .. Len(history) :
       history[i].direction = "sent" /\ history[j] = history[i] => i = j

WindowOK ==
  /\ thread \in Peers \union {NoPeer} /\ asked \in [Peers -> Nat]
  /\ \A a \in answers \union {shown} : a \subseteq Row /\ Cardinality(a) <= HistoryLimit

RestOK ==
  /\ contact \in [Peers -> {"right", "wrong", "none"}]
  /\ saved \in Seq(Peers) /\ Len(saved) <= 1
  /\ arrivals \in 0 .. MaxArrivals /\ opens \in 0 .. MaxOpens /\ faults \in 0 .. MaxFaults
  /\ excused \subseteq Envelope

IInv ==
  /\ LoopOK /\ SessionsOK /\ WaitingOK /\ ThreadsOK
  /\ TextsOK /\ RowsOK /\ WindowOK /\ RestOK

\* The blob that is no envelope is none.
LEMMA GarbageIsNone == Garbage \notin Envelope
BY InboxAssumption DEF Garbage, Envelope

\* It holds when the application starts.
LEMMA InitIInv == Init => IInv
<1> SUFFICES ASSUME Init PROVE IInv
  OBVIOUS
<1> USE InboxAssumption DEF Init
<1>1. LoopOK
  BY DEF LoopOK
<1>2. SessionsOK
  <2>1. ASSUME NEW p \in Peers PROVE SessionOK(p)
    <3>1. session[p] = NewRatchet(p, "Responder") /\ opened[p] = {}
      OBVIOUS
    <3>2. p \in Secrets /\ "Responder" \in RatchetRole
      BY DEF RatchetRole
    <3>3. session[p] \in Ratchet
      BY <3>1, <3>2, NewRatchetType
    <3>4. Regular(session[p])
      BY <3>1, NewRatchetFields DEF Regular
    <3> QED
      BY <3>1, <3>3, <3>4 DEF SessionOK
  <2> QED
    BY <2>1 DEF SessionsOK
<1>3. \A p \in Peers : Received(p) = << >>
  BY ReceivedNone DEF Received
<1>4. WaitingOK
  BY DEF WaitingOK, Waiting
<1>w. ThreadsOK
  <2>1. << >> \in Seq(Nat) /\ 1 .. Len(<< >>) = {}
    OBVIOUS
  <2> QED
    BY <1>3, <2>1 DEF ThreadsOK, Handed
<1>5. TextsOK
  BY DEF TextsOK
<1>6. RowsOK
  BY DEF RowsOK
<1>7. WindowOK
  <2>1. Cardinality({}) = 0
    BY FS_EmptySet
  <2> QED
    BY <2>1 DEF WindowOK
<1>8. RestOK
  BY DEF RestOK
<1> QED
  BY <1>1, <1>2, <1>4, <1>w, <1>5, <1>6, <1>7, <1>8 DEF IInv

-----------------------------------------------------------------------------
(* The window                                                              *)

\* get_history returns at most HistoryLimit rows of the table.
LEMMA NewestAreFew ==
  ASSUME history \in Seq(Row), NEW p \in Peers
  PROVE  NewestRows(p) \subseteq Row /\ Cardinality(NewestRows(p)) <= HistoryLimit
<1> DEFINE J == {j \in RowsOf(p) : RowsFrom(p, j) <= HistoryLimit}
<1>1. /\ DOMAIN history = 1 .. Len(history) /\ Len(history) \in Nat
      /\ RowsOf(p) \subseteq 1 .. Len(history)
  BY DEF RowsOf
<1>2. IsFiniteSet(RowsOf(p)) /\ IsFiniteSet(J) /\ J \in SUBSET Nat
  <2>1. IsFiniteSet(1 .. Len(history))
    BY <1>1, FS_Interval
  <2>2. RowsOf(p) \in SUBSET (1 .. Len(history)) /\ J \in SUBSET (1 .. Len(history))
    BY <1>1
  <2> HIDE DEF J
  <2>3. IsFiniteSet(RowsOf(p)) /\ IsFiniteSet(J)
    BY <2>1, <2>2, FS_Subset
  <2>4. J \in SUBSET Nat
    BY <1>1, <2>2
  <2> QED
    BY <2>3, <2>4
<1>3. NewestRows(p) = {history[j] : j \in J}
  BY DEF NewestRows
<1>4. Cardinality(J) <= HistoryLimit
  <2>1. CASE J = {}
    <3> HIDE DEF J
    <3>1. Cardinality(J) = 0
      BY <2>1, FS_EmptySet
    <3> QED
      BY <3>1, InboxAssumption
  <2>2. CASE J # {}
    <3>1. PICK m \in J : \A j \in J : m <= j
      <4> HIDE DEF J
      <4> QED
        BY <1>2, <2>2, Least
    <3> DEFINE S == {j \in RowsOf(p) : m <= j}
    <3>2. J \in SUBSET S /\ IsFiniteSet(S)
      <4>1. S \in SUBSET RowsOf(p)
        OBVIOUS
      <4>2. J \in SUBSET S
        BY <3>1
      <4> HIDE DEF S
      <4> QED
        BY <4>1, <4>2, <1>2, FS_Subset
    <3>3. Cardinality(J) <= Cardinality(S) /\ Cardinality(J) \in Nat /\ Cardinality(S) \in Nat
      <4> HIDE DEF S, J
      <4> QED
        BY <3>2, <1>2, FS_Subset, FS_CardinalityType
    <3>4. Cardinality(S) <= HistoryLimit
      BY <3>1 DEF RowsFrom
    <3> HIDE DEF S, J
    <3> QED
      BY <3>3, <3>4, InboxAssumption
  <2> QED
    BY <2>1, <2>2
<1>5. Cardinality(NewestRows(p)) <= Cardinality(J) /\ Cardinality(NewestRows(p)) \in Nat
      /\ Cardinality(J) \in Nat
  <2>1. PICK f : f = [j \in J |-> history[j]]
    OBVIOUS
  <2>2. f \in Surjection(J, NewestRows(p))
    BY <2>1, <1>3 DEF Surjection
  <2> HIDE DEF J
  <2> QED
    BY <2>2, <1>2, FS_Surjection, FS_CardinalityType
<1>6. NewestRows(p) \subseteq Row
  BY <1>1, <1>3
<1> HIDE DEF J
<1> QED
  BY <1>4, <1>5, <1>6, InboxAssumption

\* loadMessages asks for the thread that is open, if any.
LEMMA LoadType ==
  ASSUME WindowOK, NEW q \in Peers \union {NoPeer}, LoadMessages(q)
  PROVE  asked' \in [Peers -> Nat]
<1>1. CASE q = NoPeer
  BY <1>1 DEF LoadMessages, WindowOK
<1>2. CASE q # NoPeer
  BY <1>2 DEF LoadMessages, WindowOK
<1> QED
  BY <1>1, <1>2

\* The window shows what it read, never more than it asks for.
LEMMA WindowStays ==
  ASSUME IInv, [Next]_vars
  PROVE  WindowOK'
<1>i. WindowOK
  BY DEF IInv
<1>1. ASSUME NEW p \in Peers, OpenThread(p) PROVE WindowOK'
  <2>1. asked' \in [Peers -> Nat]
    BY <1>1, <1>i, LoadType DEF OpenThread
  <2> QED
    BY <1>1, <1>i, <2>1 DEF OpenThread, WindowOK
<1>2. ASSUME NEW p \in Peers, ReadHistory(p) PROVE WindowOK'
  <2>1. asked' \in [Peers -> Nat]
    BY <1>2, <1>i DEF ReadHistory, WindowOK
  <2>2. NewestRows(p) \subseteq Row /\ Cardinality(NewestRows(p)) <= HistoryLimit
    BY NewestAreFew DEF IInv, RowsOK
  <2> QED
    BY <1>2, <1>i, <2>1, <2>2 DEF ReadHistory, WindowOK
<1>3. CASE Emit
  <2>1. \A p : OnMessage(p) => asked' \in [Peers -> Nat]
    <3> SUFFICES ASSUME NEW p, OnMessage(p) PROVE asked' \in [Peers -> Nat]
      OBVIOUS
    <3>1. CASE thread = p
      BY <3>1, <1>i, LoadType DEF OnMessage, WindowOK
    <3>2. CASE thread # p
      BY <3>2, <1>i DEF OnMessage, WindowOK
    <3> QED
      BY <3>1, <3>2
  <2> QED
    BY <1>3, <1>i, <2>1 DEF Emit, WindowOK
<1>4. CASE CloseThread
  BY <1>4, <1>i DEF CloseThread, WindowOK
<1>5. CASE Show
  BY <1>5, <1>i DEF Show, WindowOK
<1>6. CASE Restart
  <2>1. Cardinality({}) = 0
    BY FS_EmptySet
  <2> QED
    BY <1>6, <2>1, InboxAssumption DEF Restart, WindowOK
<1>7. ASSUME NEW t \in 1 .. MaxTexts, SaveSent(t) PROVE WindowOK'
  <2>1. asked' \in [Peers -> Nat]
    BY <1>7, <1>i, LoadType DEF SaveSent, WindowOK
  <2> QED
    BY <1>7, <1>i, <2>1 DEF SaveSent, WindowOK
<1>8. CASE UNCHANGED <<thread, asked, answers, shown>>
  BY <1>8, <1>i DEF WindowOK
<1> QED
  BY <1>1, <1>2, <1>3, <1>4, <1>5, <1>6, <1>7, <1>8
  DEF Next, vars, loopVars, windowVars, Seals, AddContact, Arrives, Refuse, Decrypt, PersistFails,
      SaveIncoming, SaveFails, SendCurrent, HandleSendText

-----------------------------------------------------------------------------
(* Texts and rows                                                          *)

\* What becomes of a text, and the row it leaves.
LEMMA RowsStay ==
  ASSUME IInv, [Next]_vars
  PROVE  TextsOK' /\ RowsOK'
<1>i. TextsOK /\ RowsOK /\ LoopOK
  BY DEF IInv
<1> DEFINE Text == [to : Peers \union {NoPeer}, left : BOOLEAN,
                    at : {"unwritten", "asked", "sent", "saved", "gone"}]
<1>t. text \in [1 .. MaxTexts -> Text]
  BY <1>i DEF TextsOK
<1>e. ASSUME NEW t \in 1 .. MaxTexts, NEW new \in Text, text' = [text EXCEPT ![t] = new],
             text[t].at \in {"unwritten", "asked", "sent"}, history' = history,
             new.at \in {"asked", "sent"} => new.to \in Peers, new.at = "sent" => new.left
      PROVE  TextsOK' /\ RowsOK'
  <2>1. text'[t] = new /\ \A u \in 1 .. MaxTexts : u # t => text'[u] = text[u]
    BY <1>t, <1>e
  <2>2. TextsOK'
    BY <1>t, <1>e, <1>i, <2>1 DEF TextsOK
  <2>3. ASSUME NEW i \in 1 .. Len(history) PROVE SentRowOK(history[i], text')
    <3>1. SentRowOK(history[i], text)
      BY <1>i DEF RowsOK
    <3>2. history[i].direction = "sent" => history[i].n # t
      BY <3>1, <1>e DEF SentRowOK
    <3> QED
      BY <3>1, <3>2, <2>1, <1>e DEF SentRowOK
  <2> QED
    BY <2>2, <2>3, <1>e, <1>i DEF RowsOK
<1>1. ASSUME NEW t \in 1 .. MaxTexts, SendCurrent(t) PROVE TextsOK' /\ RowsOK'
  <2> DEFINE new == [text[t] EXCEPT !.to = thread, !.at = "asked"]
  <2>1. thread \in Peers /\ text[t].at = "unwritten" /\ history' = history
    BY <1>1 DEF SendCurrent, IInv, WindowOK
  <2>2. text' = [text EXCEPT ![t] = new]
    BY <1>1, <1>t DEF SendCurrent
  <2>3. new \in Text /\ new.at = "asked" /\ new.to = thread
    BY <1>t, <2>1
  <2> HIDE DEF new, Text
  <2> QED
    BY <2>1, <2>2, <2>3, <1>e
<1>2. ASSUME NEW t \in 1 .. MaxTexts, HandleSendText(t) PROVE TextsOK' /\ RowsOK'
  <2> DEFINE new  == [text[t] EXCEPT !.at = "sent", !.left = TRUE]
             back == [text[t] EXCEPT !.at = "unwritten", !.to = NoPeer]
  <2>1. text[t].at = "asked" /\ history' = history /\ text[t].to \in Peers
    BY <1>2, <1>i DEF HandleSendText, TextsOK
  <2>2. text' = [text EXCEPT ![t] = new] \/ text' = [text EXCEPT ![t] = back]
    BY <1>2, <1>t DEF HandleSendText
  <2>3. new \in Text /\ new.at = "sent" /\ new.to \in Peers /\ new.left
    BY <1>t, <2>1
  <2>4. back \in Text /\ back.at = "unwritten"
    BY <1>t, <2>1
  <2> HIDE DEF new, back, Text
  <2> QED
    BY <2>1, <2>2, <2>3, <2>4, <1>e
<1>3. ASSUME NEW t \in 1 .. MaxTexts, SaveSent(t) PROVE TextsOK' /\ RowsOK'
  <2> DEFINE new == [text[t] EXCEPT !.at = "saved"]
             r   == [peer |-> text[t].to, direction |-> "sent", n |-> t]
             l   == Len(history)
  <2>1. text[t].at = "sent" /\ text[t].to \in Peers /\ text[t].left
    BY <1>3, <1>i DEF SaveSent, IsSent, TextsOK
  <2>2. text' = [text EXCEPT ![t] = new] /\ history' = Append(history, r)
    BY <1>3, <1>t DEF SaveSent
  <2>3. new \in Text /\ new.at = "saved" /\ new.to = text[t].to /\ new.left
    BY <1>t, <2>1
  <2>4. r \in Row /\ r.direction = "sent" /\ r.n = t /\ r.peer = text[t].to
    BY <2>1, InboxAssumption DEF Row
  <2> HIDE DEF new, r, Text
  <2>5. text'[t] = new /\ \A u \in 1 .. MaxTexts : u # t => text'[u] = text[u]
    BY <1>t, <2>2
  <2>6. TextsOK'
    BY <1>t, <1>i, <2>2, <2>3, <2>5 DEF TextsOK, Text
  <2>7. /\ history' \in Seq(Row) /\ l \in Nat /\ Len(history') = l + 1
        /\ history'[l + 1] = r /\ \A i \in 1 .. l : history'[i] = history[i]
    BY <1>i, <2>2, <2>4 DEF RowsOK
  <2> HIDE DEF l
  <2>8. \A i \in 1 .. l : history[i].direction = "sent" => history[i].n # t
    BY <1>i, <2>1 DEF RowsOK, SentRowOK, l
  <2>9. ASSUME NEW i \in 1 .. l + 1 PROVE SentRowOK(history'[i], text')
    <3>1. CASE i = l + 1
      BY <3>1, <2>3, <2>4, <2>5, <2>7 DEF SentRowOK
    <3>2. CASE i \in 1 .. l
      <4>1. SentRowOK(history[i], text)
        BY <3>2, <1>i DEF RowsOK, l
      <4> QED
        BY <3>2, <4>1, <2>5, <2>7, <2>8 DEF SentRowOK
    <3> QED
      BY <3>1, <3>2, <2>7
  <2>10. ASSUME NEW i \in 1 .. l + 1, NEW j \in 1 .. l + 1,
                history'[i].direction = "sent", history'[j] = history'[i]
         PROVE  i = j
    <3>1. CASE i \in 1 .. l /\ j \in 1 .. l
      BY <3>1, <2>7, <2>10, <1>i DEF RowsOK, l
    <3>2. i = l + 1 => j = l + 1
      BY <2>4, <2>7, <2>8, <2>10
    <3>3. j = l + 1 => i = l + 1
      BY <2>4, <2>7, <2>8, <2>10
    <3> QED
      BY <3>1, <3>2, <3>3, <2>7
  <2> QED
    BY <2>6, <2>7, <2>9, <2>10 DEF RowsOK, SentRowOK
<1>4. CASE SaveIncoming
  <2> DEFINE r == [peer |-> Head(incoming).from, direction |-> "received", n |-> Head(incoming).n]
             l == Len(history)
  <2>1. Head(incoming) \in Envelope
    BY <1>4, <1>i DEF SaveIncoming, LoopOK
  <2>2. r \in Row /\ r.direction # "sent"
    BY <2>1, InboxAssumption DEF Row, Envelope
  <2>3. history' = Append(history, r) /\ text' = text
    BY <1>4 DEF SaveIncoming
  <2> HIDE DEF r
  <2>4. /\ history' \in Seq(Row) /\ l \in Nat /\ Len(history') = l + 1
        /\ history'[l + 1] = r /\ \A i \in 1 .. l : history'[i] = history[i]
    BY <1>i, <2>2, <2>3 DEF RowsOK
  <2> HIDE DEF l
  <2>5. ASSUME NEW i \in 1 .. l + 1 PROVE SentRowOK(history'[i], text')
    <3>1. CASE i = l + 1
      BY <3>1, <2>2, <2>4 DEF SentRowOK
    <3>2. CASE i \in 1 .. l
      <4>1. SentRowOK(history[i], text)
        BY <3>2, <1>i DEF RowsOK, l
      <4> QED
        BY <3>2, <4>1, <2>3, <2>4 DEF SentRowOK
    <3> QED
      BY <3>1, <3>2, <2>4
  <2>6. ASSUME NEW i \in 1 .. l + 1, NEW j \in 1 .. l + 1,
                history'[i].direction = "sent", history'[j] = history'[i]
         PROVE  i = j
    <3>1. i \in 1 .. l /\ j \in 1 .. l
      BY <2>2, <2>4, <2>6
    <3> QED
      BY <3>1, <2>4, <2>6, <1>i DEF RowsOK, l
  <2>7. TextsOK'
    BY <2>3, <1>i DEF TextsOK
  <2> QED
    BY <2>4, <2>5, <2>6, <2>7 DEF RowsOK, SentRowOK
<1>5. CASE Restart
  <2>1. history' = history /\ DOMAIN text = 1 .. MaxTexts
        /\ text' = [t \in DOMAIN text |-> IF text[t].at = "unwritten" THEN text[t]
                                           ELSE [text[t] EXCEPT !.at = "gone"]]
    BY <1>5, <1>t DEF Restart
  <2>2. ASSUME NEW t \in 1 .. MaxTexts
        PROVE  /\ text'[t] \in Text
               /\ text'[t].at \in {"unwritten", "gone"}
               /\ text'[t].to = text[t].to /\ text'[t].left = text[t].left
               /\ text[t].at # "unwritten" => text'[t].at = "gone"
    BY <1>t, <2>1
  <2>3. TextsOK'
    BY <2>1, <2>2 DEF TextsOK
  <2>4. ASSUME NEW i \in 1 .. Len(history) PROVE SentRowOK(history[i], text')
    <3>1. SentRowOK(history[i], text)
      BY <1>i DEF RowsOK
    <3> QED
      BY <3>1, <2>1, <2>2 DEF SentRowOK
  <2> QED
    BY <2>1, <2>3, <2>4, <1>i DEF RowsOK
<1>6. CASE UNCHANGED <<text, history>>
  BY <1>6, <1>i DEF TextsOK, RowsOK, SentRowOK
<1> QED
  BY <1>1, <1>2, <1>3, <1>4, <1>5, <1>6
  DEF Next, vars, loopVars, windowVars, Seals, AddContact, Arrives, Refuse, Decrypt, PersistFails,
      SaveFails, Emit, OpenThread, CloseThread, ReadHistory, Show

-----------------------------------------------------------------------------
(* The loop                                                                *)

\* Elements of a sequence without its first.
LEMMA TailOf ==
  ASSUME NEW S, NEW s \in Seq(S), s # << >>
  PROVE  /\ Head(s) \in S /\ Head(s) = s[1] /\ 1 \in 1 .. Len(s)
         /\ Tail(s) \in Seq(S) /\ Len(Tail(s)) = Len(s) - 1
         /\ \A i \in 1 .. Len(Tail(s)) : i + 1 \in 1 .. Len(s) /\ Tail(s)[i] = s[i + 1]
<1>1. Len(s) \in Nat /\ Len(s) # 0
  OBVIOUS
<1>2. 1 \in 1 .. Len(s)
  BY <1>1
<1>3. Head(s) = s[1] /\ s[1] \in S
  BY <1>2
<1>4. Tail(s) \in Seq(S) /\ Len(Tail(s)) = Len(s) - 1
  OBVIOUS
<1>5. ASSUME NEW i \in 1 .. Len(Tail(s))
      PROVE  i + 1 \in 1 .. Len(s) /\ Tail(s)[i] = s[i + 1]
  <2>1. i \in 1 .. Len(s) - 1
    BY <1>4
  <2> QED
    BY <1>1, <2>1
<1> QED
  BY <1>2, <1>3, <1>4, <1>5

\* What was opened cannot be opened again: the session has passed it and
\* its key is gone.
LEMMA OpensOnce ==
  ASSUME IInv, NEW p \in Peers, session[p] # NoSession,
         NEW n \in 1 .. MaxMade, HasKeyFor(session[p], n)
  PROVE  n \notin opened[p]
<1> SUFFICES ASSUME n \in opened[p] PROVE FALSE
  OBVIOUS
<1>1. session[p] \in Ratchet /\ Past(session[p], n)
  BY DEF IInv, SessionsOK, SessionOK
<1>2. session[p].recvCounter \in Nat
  <2>1. session[p].recvCounter \in Counter
    BY <1>1 DEF Ratchet
  <2> QED
    BY <2>1, CounterIsNat
<1>3. n \in Nat
  OBVIOUS
<1> QED
  BY <1>1, <1>2, <1>3 DEF HasKeyFor, IsAhead, IsLate, Past

\* The envelope that decrypt_message accepts, and the session afterwards.
LEMMA ReadFacts ==
  ASSUME IInv, batch # << >>, Readable(Head(batch)), Read(Head(batch))
  PROVE  LET e == Head(batch)
         IN  /\ e \in Envelope /\ e.from \in Peers /\ e.n \in 1 .. sealed[e.from]
             /\ session[e.from] # NoSession /\ e.n \notin opened[e.from]
             /\ opened' = [opened EXCEPT ![e.from] = opened[e.from] \union {e.n}]
             /\ DOMAIN session' = Peers
             /\ \A q \in Peers : session'[q] # NoSession => session[q] # NoSession
             /\ SessionsOK'
<1> DEFINE e == Head(batch)
           p == e.from
           r == session[p]
           n == AfterDecrypt(session[p], e.n)
<1>i. LoopOK /\ SessionsOK
  BY DEF IInv
<1>1. e \in Envelope /\ p \in Peers /\ e.n \in 1 .. MaxMade /\ e.n <= sealed[p]
  <2>1. batch \in Seq(Envelope \union {Garbage})
    BY <1>i DEF LoopOK
  <2>2. 1 \in 1 .. Len(batch) /\ batch[1] = e /\ e \in Envelope \union {Garbage}
    BY <2>1, TailOf
  <2>3. e # Garbage
    BY DEF Readable
  <2>4. e.n <= sealed[p]
    BY <2>2, <2>3, <1>i DEF LoopOK
  <2> QED
    BY <2>2, <2>3, <2>4 DEF Envelope
<1>2. r # NoSession /\ HasKeyFor(r, e.n)
  BY DEF Readable
<1>3. e.n \notin opened[p]
  BY <1>1, <1>2, OpensOnce
<1>4. /\ session' = [session EXCEPT ![p] = n]
      /\ opened' = [opened EXCEPT ![p] = opened[p] \union {e.n}]
  BY DEF Read
<1>5. /\ r \in Ratchet /\ Regular(r) /\ \A k \in opened[p] : Past(r, k)
      /\ opened[p] \subseteq 1 .. MaxMade
  BY <1>1, <1>2, <1>i DEF SessionsOK, SessionOK
<1>6. e.n \in Counter /\ e.n \in Nat
  BY <1>1, InboxAssumption, RatchetAssumption DEF Counter
<1>7. /\ n \in Ratchet /\ Regular(n)
      /\ n.recvCounter >= r.recvCounter /\ n.recvCounter >= e.n
      /\ \A d \in DOMAIN n.skipped : d # e.n /\ (d \in DOMAIN r.skipped \/ d > r.recvCounter)
  BY <1>2, <1>5, <1>6, AfterDecryptRegular
<1>8. n.recvCounter \in Nat /\ r.recvCounter \in Nat /\ DOMAIN session = Peers
      /\ opened \in [Peers -> SUBSET (1 .. MaxMade)]
  BY <1>5, <1>7, <1>i, CounterIsNat DEF Ratchet, SessionsOK
<1>s. sealed[p] \in Nat
  BY <1>1, <1>i, InboxAssumption DEF LoopOK
<1> HIDE DEF n, r, p, e
<1>9. \A k \in opened[p] \union {e.n} : Past(n, k)
  <2> SUFFICES ASSUME NEW k \in opened[p] \union {e.n} PROVE Past(n, k)
    OBVIOUS
  <2>1. CASE k = e.n
    BY <2>1, <1>7 DEF Past
  <2>2. CASE k \in opened[p]
    <3>1. k \in Nat /\ k <= r.recvCounter /\ k \notin DOMAIN r.skipped
      BY <2>2, <1>5, InboxAssumption DEF Past
    <3>2. k <= n.recvCounter /\ ~(k > r.recvCounter)
      BY <3>1, <1>7, <1>8
    <3> QED
      BY <3>1, <3>2, <1>7 DEF Past
  <2> QED
    BY <2>1, <2>2
<1>10. /\ session'[p] = n /\ DOMAIN session' = Peers
       /\ opened'[p] = opened[p] \union {e.n}
       /\ \A q \in Peers : q # p => session'[q] = session[q] /\ opened'[q] = opened[q]
       /\ opened' \in [Peers -> SUBSET (1 .. MaxMade)]
  BY <1>1, <1>4, <1>8
<1>11. SessionsOK'
  <2>1. ASSUME NEW q \in Peers PROVE SessionOK(q)'
    <3>1. CASE q = p
      BY <3>1, <1>7, <1>9, <1>10 DEF SessionOK, Regular, Past
    <3>2. CASE q # p
      BY <3>2, <1>10, <1>i DEF SessionsOK, SessionOK, Regular, Past
    <3> QED
      BY <3>1, <3>2
  <2> QED
    BY <2>1, <1>10 DEF SessionsOK
<1>12. \A q \in Peers : session'[q] # NoSession => session[q] # NoSession
  BY <1>2, <1>10 DEF r
<1>13. e.n \in 1 .. sealed[p]
  BY <1>1, <1>s
<1> QED
  BY <1>1, <1>2, <1>3, <1>4, <1>10, <1>11, <1>12, <1>13 DEF e, p, r

\* A peer seals more, and a session that is still there forgets nothing it
\* has opened.
LEMMA OpenedStays ==
  ASSUME IInv, [Next]_vars
  PROVE  /\ SessionsOK'
         /\ \A p \in Peers : \A n : OpenedBy(p, n) => OpenedBy(p, n)'
<1>i. LoopOK /\ SessionsOK
  BY DEF IInv
<1>1. CASE batch # << >> /\ Readable(Head(batch)) /\ Read(Head(batch)) /\ sealed' = sealed
  <2>1. /\ SessionsOK'
        /\ \A q \in Peers : session'[q] # NoSession => session[q] # NoSession
    BY <1>1, ReadFacts
  <2>2. \A q \in Peers : opened[q] \subseteq opened'[q]
    <3> DEFINE e == Head(batch)
    <3>1. opened' = [opened EXCEPT ![e.from] = opened[e.from] \union {e.n}]
      BY <1>1, ReadFacts
    <3> HIDE DEF e
    <3> QED
      BY <3>1, <1>i DEF SessionsOK
  <2> QED
    BY <1>1, <2>1, <2>2 DEF OpenedBy
<1>2. CASE Restart
  <2>1. /\ session' = [p \in Peers |-> NoSession] /\ opened' = [p \in Peers |-> {}]
        /\ sealed' = sealed
    BY <1>2 DEF Restart
  <2>2. \A p \in Peers : session'[p] = NoSession
    BY <2>1
  <2>3. SessionsOK'
    BY <2>1, <2>2 DEF SessionsOK, SessionOK
  <2> QED
    BY <2>1, <2>2, <2>3 DEF OpenedBy
<1>3. CASE session' = session /\ opened' = opened /\ \A p \in Peers : 1 .. sealed[p] \subseteq 1 .. sealed'[p]
  <2>1. SessionsOK'
    BY <1>3, <1>i DEF SessionsOK, SessionOK, Regular, Past
  <2> QED
    BY <1>3, <2>1 DEF OpenedBy
<1>4. ASSUME NEW p \in Peers, Seals(p)
      PROVE  session' = session /\ opened' = opened /\ \A q \in Peers : 1 .. sealed[q] \subseteq 1 .. sealed'[q]
  <2>1. /\ sealed' = [sealed EXCEPT ![p] = sealed[p] + 1] /\ session' = session /\ opened' = opened
    BY <1>4 DEF Seals
  <2>2. ASSUME NEW q \in Peers
        PROVE  sealed[q] \in Nat /\ (sealed'[q] = sealed[q] \/ sealed'[q] = sealed[q] + 1)
    BY <2>1, <1>i, InboxAssumption DEF LoopOK
  <2>3. ASSUME NEW q \in Peers, NEW k \in 1 .. sealed[q] PROVE k \in 1 .. sealed'[q]
    <3>1. CASE sealed'[q] = sealed[q]
      BY <3>1
    <3>2. CASE sealed'[q] = sealed[q] + 1
      BY <3>2, <2>2
    <3> QED
      BY <2>2, <3>1, <3>2
  <2> QED
    BY <2>1, <2>3
<1>5. CASE UNCHANGED <<session, opened, sealed>>
  BY <1>3, <1>5
<1> QED
  BY <1>1, <1>2, <1>3, <1>4, <1>5
  DEF Next, vars, loopVars, windowVars, AddContact, Arrives, Refuse, Decrypt, PersistFails, SaveIncoming,
      SaveFails, Emit, OpenThread, CloseThread, ReadHistory, Show, SendCurrent, HandleSendText, SaveSent

\* Blobs were sealed, and what goes to the writer is an envelope.
LEMMA LoopStays ==
  ASSUME IInv, [Next]_vars
  PROVE  LoopOK'
<1>i. /\ sealed \in [Peers -> 0 .. MaxMade]
      /\ batch \in Seq(Envelope \union {Garbage})
      /\ \A i \in 1 .. Len(batch) : batch[i] # Garbage => batch[i].n <= sealed[batch[i].from]
      /\ incoming \in Seq(Envelope)
  BY DEF IInv, LoopOK
<1> DEFINE Sealed(b) == b # Garbage => b.n <= sealed[b.from]
<1>1. ASSUME NEW p \in Peers, Seals(p) PROVE LoopOK'
  <2>1. /\ sealed[p] < MaxMade /\ sealed' = [sealed EXCEPT ![p] = sealed[p] + 1]
        /\ batch' = batch /\ incoming' = incoming
    BY <1>1 DEF Seals
  <2>2. sealed' \in [Peers -> 0 .. MaxMade] /\ \A q \in Peers : sealed[q] <= sealed'[q]
    BY <2>1, <1>i, InboxAssumption
  <2>3. ASSUME NEW i \in 1 .. Len(batch), batch[i] # Garbage
        PROVE  batch[i].n <= sealed'[batch[i].from]
    <3>1. batch[i] \in Envelope
      BY <2>3, <1>i
    <3>2. batch[i].from \in Peers /\ batch[i].n \in Nat /\ batch[i].n <= sealed[batch[i].from]
      BY <2>3, <3>1, <1>i DEF Envelope
    <3>3. sealed[batch[i].from] \in Nat /\ sealed'[batch[i].from] \in Nat
      BY <3>2, <2>2, <1>i
    <3> QED
      BY <3>2, <3>3, <2>2
  <2> QED
    BY <2>1, <2>2, <2>3, <1>i DEF LoopOK
<1>2. ASSUME NEW b \in Blobs, Arrives(<<b>>) \/ \E c \in Blobs : Arrives(<<b, c>>) PROVE LoopOK'
  <2>1. \A d \in Blobs : d \in Envelope \union {Garbage} /\ Sealed(d)
    BY DEF Blobs
  <2>2. UNCHANGED <<sealed, incoming>>
    BY <1>2 DEF Arrives
  <2>3. /\ batch' \in Seq(Envelope \union {Garbage})
        /\ \A i \in 1 .. Len(batch') : Sealed(batch'[i])
    <3>1. CASE Arrives(<<b>>)
      BY <3>1, <2>1 DEF Arrives
    <3>2. ASSUME NEW c \in Blobs, Arrives(<<b, c>>)
          PROVE  /\ batch' \in Seq(Envelope \union {Garbage})
                 /\ \A i \in 1 .. Len(batch') : Sealed(batch'[i])
      <4>1. batch' = <<b, c>>
        BY <3>2 DEF Arrives
      <4> HIDE DEF Sealed
      <4> QED
        BY <4>1, <2>1
    <3> QED
      BY <3>1, <3>2, <1>2
  <2> QED
    BY <2>2, <2>3, <1>i DEF LoopOK
<1>3. CASE batch # << >> /\ batch' = Tail(batch) /\ sealed' = sealed
           /\ \/ incoming' = incoming
              \/ incoming' = Append(incoming, Head(batch)) /\ Head(batch) \in Envelope
  <2>1. /\ Tail(batch) \in Seq(Envelope \union {Garbage})
        /\ \A i \in 1 .. Len(Tail(batch)) : i + 1 \in 1 .. Len(batch) /\ Tail(batch)[i] = batch[i + 1]
    BY <1>3, <1>i, TailOf
  <2> HIDE DEF Sealed
  <2>2. incoming' \in Seq(Envelope)
    <3>1. CASE incoming' = incoming
      BY <3>1, <1>i
    <3>2. CASE incoming' = Append(incoming, Head(batch)) /\ Head(batch) \in Envelope
      BY <3>2, <1>i
    <3> QED
      BY <3>1, <3>2, <1>3
  <2> QED
    BY <1>3, <2>1, <2>2, <1>i DEF LoopOK
<1>4. CASE Refuse
  BY <1>3, <1>4 DEF Refuse, AfterRefusal
<1>5. CASE Decrypt
  <2>1. Head(batch) \in Envelope
    BY <1>5, ReadFacts DEF Decrypt
  <2> QED
    BY <1>3, <1>5, <2>1 DEF Decrypt, Read
<1>6. CASE PersistFails
  BY <1>3, <1>6 DEF PersistFails, Read
<1>7. CASE UNCHANGED <<sealed, batch>> /\ incoming # << >> /\ incoming' = Tail(incoming)
  <2>1. Tail(incoming) \in Seq(Envelope)
    BY <1>7, <1>i, TailOf
  <2> QED
    BY <1>7, <2>1, <1>i DEF LoopOK
<1>8. CASE Restart
  BY <1>8, <1>i DEF Restart, LoopOK
<1>9. CASE UNCHANGED <<sealed, batch, incoming>>
  BY <1>9, <1>i DEF LoopOK
<1> QED
  BY <1>1, <1>2, <1>4, <1>5, <1>6, <1>7, <1>8, <1>9
  DEF Next, vars, loopVars, windowVars, AddContact, SaveIncoming, SaveFails, Emit, OpenThread,
      CloseThread, ReadHistory, Show, SendCurrent, HandleSendText, SaveSent

-----------------------------------------------------------------------------
(* The threads and the writer                                              *)

\* What the writer saves is at the end of its peer's thread, and in no other.
LEMMA SavesOne ==
  ASSUME IInv, SaveIncoming, NEW e, e = incoming[1]
  PROVE  /\ 1 \in 1 .. Len(incoming) /\ e \in Envelope /\ e.from \in Peers /\ e.n \in Nat
         /\ incoming' = Tail(incoming) /\ UNCHANGED <<sealed, session, opened>>
         /\ Received(e.from)' = Append(Received(e.from), e.n)
         /\ \A q \in Peers : q # e.from => Received(q)' = Received(q)
<1> DEFINE r == [peer |-> e.from, direction |-> "received", n |-> e.n]
<1>i. incoming \in Seq(Envelope) /\ history \in Seq(Row)
  BY DEF IInv, LoopOK, RowsOK
<1>1. Head(incoming) = e /\ 1 \in 1 .. Len(incoming) /\ e \in Envelope
  BY <1>i, TailOf DEF SaveIncoming
<1>2. e.from \in Peers /\ e.n \in Nat
  BY <1>1 DEF Envelope
<1>3. history' = Append(history, r) /\ r \in Row
  BY <1>1, <1>2 DEF SaveIncoming, Row
<1>4. r.peer = e.from /\ r.direction = "received" /\ r.n = e.n
  OBVIOUS
<1> HIDE DEF r
<1>5. \A q \in Peers : Received(q)' = Added(Received(q), r, q)
  BY <1>i, <1>3, ReceivedAppend DEF Received
<1>6. incoming' = Tail(incoming) /\ UNCHANGED <<sealed, session, opened>>
  BY DEF SaveIncoming, loopVars
<1>7. Added(Received(e.from), r, e.from) = Append(Received(e.from), e.n)
  BY <1>4 DEF Added
<1>8. \A q \in Peers : q # e.from => Added(Received(q), r, q) = Received(q)
  BY <1>4 DEF Added
<1> QED
  BY <1>1, <1>2, <1>5, <1>6, <1>7, <1>8

\* No other step touches what a thread has received.
LEMMA ThreadsUntouched ==
  ASSUME IInv, [Next]_vars
  PROVE  SaveIncoming \/ \A p \in Peers : Received(p)' = Received(p)
<1>1. ASSUME NEW t \in 1 .. MaxTexts, SaveSent(t)
      PROVE  \A p \in Peers : Received(p)' = Received(p)
  <2> DEFINE r == [peer |-> text[t].to, direction |-> "sent", n |-> t]
  <2>1. text[t].to \in Peers
    BY <1>1 DEF IInv, TextsOK, SaveSent, IsSent
  <2>2. history \in Seq(Row) /\ history' = Append(history, r) /\ r \in Row
    BY <1>1, <2>1 DEF IInv, RowsOK, SaveSent, Row
  <2>3. r.direction # "received"
    OBVIOUS
  <2> HIDE DEF r
  <2>4. \A p \in Peers : Received(p)' = Added(Received(p), r, p)
    BY <2>2, ReceivedAppend DEF Received
  <2> QED
    BY <2>3, <2>4 DEF Added
<1>2. CASE history' = history
  BY <1>2 DEF Received
<1> QED
  BY <1>1, <1>2
  DEF Next, vars, loopVars, windowVars, Seals, AddContact, Arrives, Refuse, Decrypt, PersistFails,
      SaveFails, Emit, OpenThread, CloseThread, ReadHistory, Show, SendCurrent, HandleSendText,
      Restart

\* One more number in a thread.
LEMMA HandedGrows ==
  ASSUME NEW s \in Seq(Nat), NEW n \in Nat
  PROVE  /\ Append(s, n) \in Seq(Nat)
         /\ {Append(s, n)[k] : k \in 1 .. Len(Append(s, n))} = {s[k] : k \in 1 .. Len(s)} \union {n}
<1> DEFINE t == Append(s, n)
           l == Len(s)
<1>1. /\ t \in Seq(Nat) /\ l \in Nat /\ Len(t) = l + 1
      /\ t[l + 1] = n /\ \A k \in 1 .. l : t[k] = s[k]
  OBVIOUS
<1> HIDE DEF t, l
<1>2. {t[k] : k \in 1 .. l + 1} = {s[k] : k \in 1 .. l} \union {n}
  <2>1. ASSUME NEW k \in 1 .. l + 1 PROVE t[k] \in {s[j] : j \in 1 .. l} \union {n}
    <3>1. CASE k = l + 1
      BY <3>1, <1>1
    <3>2. CASE k \in 1 .. l
      BY <3>2, <1>1
    <3> QED
      BY <3>1, <3>2, <1>1
  <2>2. ASSUME NEW k \in 1 .. l PROVE s[k] \in {t[j] : j \in 1 .. l + 1}
    <3>1. k \in 1 .. l + 1 /\ t[k] = s[k]
      BY <1>1
    <3> QED
      BY <3>1
  <2>3. n \in {t[j] : j \in 1 .. l + 1}
    <3>1. l + 1 \in 1 .. l + 1
      BY <1>1
    <3> QED
      BY <3>1, <1>1
  <2> QED
    BY <2>1, <2>2, <2>3
<1> QED
  BY <1>1, <1>2 DEF t, l

\* Every received row is of an envelope that was sealed, and that the session
\* has opened if it is still there.
LEMMA ThreadsStay ==
  ASSUME IInv, [Next]_vars
  PROVE  ThreadsOK'
<1>i. \A p \in Peers : Received(p) \in Seq(Nat) /\ \A n \in Handed(p) : OpenedBy(p, n)
  BY DEF IInv, ThreadsOK
<1>o. \A p \in Peers : \A n : OpenedBy(p, n) => OpenedBy(p, n)'
  BY OpenedStays
<1> SUFFICES ASSUME NEW p \in Peers
             PROVE  Received(p)' \in Seq(Nat) /\ \A n \in Handed(p)' : OpenedBy(p, n)'
  BY DEF ThreadsOK
<1>1. ASSUME NEW e, e = incoming[1], SaveIncoming, p = e.from
      PROVE  Received(p)' \in Seq(Nat) /\ \A n \in Handed(p)' : OpenedBy(p, n)'
  <2> DEFINE m == e.n
  <2>1. m \in Nat /\ Received(p)' = Append(Received(p), m) /\ 1 \in 1 .. Len(incoming)
    BY <1>1, SavesOne
  <2>2. OpenedBy(p, m)
    BY <1>1, <2>1 DEF IInv, WaitingOK, Waiting
  <2> HIDE DEF m
  <2>3. Received(p)' \in Seq(Nat) /\ Handed(p)' = Handed(p) \union {m}
    BY <2>1, <1>i, HandedGrows DEF Handed
  <2> QED
    BY <2>2, <2>3, <1>i, <1>o
<1>2. CASE Received(p)' = Received(p)
  <2>1. Handed(p)' = Handed(p)
    BY <1>2 DEF Handed
  <2> QED
    BY <1>2, <2>1, <1>i, <1>o
<1>3. ASSUME NEW e, e = incoming[1], SaveIncoming, p # e.from
      PROVE  Received(p)' = Received(p)
  BY <1>3, SavesOne
<1> QED
  BY <1>1, <1>2, <1>3, ThreadsUntouched

\* What a tail keeps: some of the elements, and none of them twice.
LEMMA TailKeeps ==
  ASSUME NEW S, NEW s \in Seq(S), s # << >>,
         \A i, j \in 1 .. Len(s) : i # j => s[i] # s[j]
  PROVE  /\ \A w \in {Tail(s)[i] : i \in 1 .. Len(Tail(s))} :
              w \in {s[i] : i \in 1 .. Len(s)} /\ w # s[1]
         /\ \A i, j \in 1 .. Len(Tail(s)) : i # j => Tail(s)[i] # Tail(s)[j]
<1>1. \A i \in 1 .. Len(Tail(s)) :
        i \in Nat /\ i + 1 \in 1 .. Len(s) /\ i + 1 # 1 /\ Tail(s)[i] = s[i + 1]
  BY TailOf
<1>2. 1 \in 1 .. Len(s)
  BY TailOf
<1>3. ASSUME NEW i \in 1 .. Len(Tail(s))
      PROVE  Tail(s)[i] \in {s[k] : k \in 1 .. Len(s)} /\ Tail(s)[i] # s[1]
  BY <1>1, <1>2
<1>4. ASSUME NEW i \in 1 .. Len(Tail(s)), NEW j \in 1 .. Len(Tail(s)), i # j
      PROVE  Tail(s)[i] # Tail(s)[j]
  <2>1. i + 1 # j + 1
    BY <1>1, <1>4
  <2> QED
    BY <1>1, <2>1
<1> QED
  BY <1>3, <1>4

\* What waits for the writer is still in no thread, and waits once.
LEMMA WaitingStays ==
  ASSUME IInv, [Next]_vars
  PROVE  WaitingOK'
<1>i. /\ incoming \in Seq(Envelope) /\ Waiting \subseteq Envelope
      /\ \A e \in Waiting : OpenedBy(e.from, e.n) /\ e.n \notin Handed(e.from)
      /\ \A i, j \in 1 .. Len(incoming) : i # j => incoming[i] # incoming[j]
  BY DEF IInv, LoopOK, WaitingOK, Waiting
<1>t. \A p \in Peers : Received(p) \in Seq(Nat) /\ \A n \in Handed(p) : OpenedBy(p, n)
  BY DEF IInv, ThreadsOK
<1>o. \A p \in Peers : \A n : OpenedBy(p, n) => OpenedBy(p, n)'
  BY OpenedStays
<1>e. \A e \in Envelope : e.from \in Peers /\ e.n \in Nat
  BY DEF Envelope
<1>h. history' = history => \A p \in Peers : Handed(p)' = Handed(p)
  BY DEF Handed, Received
<1>1. ASSUME NEW e, e = Head(batch), Decrypt
      PROVE  WaitingOK'
  <2>1. /\ e \in Envelope /\ e.from \in Peers /\ e.n \in 1 .. sealed[e.from]
        /\ session[e.from] # NoSession /\ e.n \notin opened[e.from]
        /\ opened' = [opened EXCEPT ![e.from] = opened[e.from] \union {e.n}]
        /\ incoming' = Append(incoming, e) /\ history' = history /\ sealed' = sealed
    BY <1>1, ReadFacts DEF Decrypt
  <2>2. ~OpenedBy(e.from, e.n)
    BY <2>1 DEF OpenedBy
  <2>3. e \notin Waiting /\ e.n \notin Handed(e.from)
    BY <2>1, <2>2, <1>i, <1>t
  <2>4. OpenedBy(e.from, e.n)'
    <3>1. opened'[e.from] = opened[e.from] \union {e.n}
      BY <2>1 DEF IInv, SessionsOK
    <3> QED
      BY <2>1, <3>1 DEF OpenedBy
  <2> DEFINE l == Len(incoming)
  <2>5. /\ l \in Nat /\ Len(incoming') = l + 1 /\ incoming'[l + 1] = e
        /\ \A i \in 1 .. l : incoming'[i] = incoming[i] /\ incoming[i] \in Waiting
    BY <2>1, <1>i DEF Waiting
  <2>6. \A i, j \in 1 .. l : i # j => incoming[i] # incoming[j]
    BY <1>i
  <2> HIDE DEF l
  <2>7. ASSUME NEW i \in 1 .. l + 1, NEW j \in 1 .. l + 1, i # j
        PROVE  incoming'[i] # incoming'[j]
    <3>1. CASE i \in 1 .. l /\ j \in 1 .. l
      BY <3>1, <2>5, <2>6, <2>7
    <3>2. CASE i = l + 1 /\ j \in 1 .. l
      BY <3>2, <2>3, <2>5
    <3>3. CASE j = l + 1 /\ i \in 1 .. l
      BY <3>3, <2>3, <2>5
    <3> QED
      BY <3>1, <3>2, <3>3, <2>5, <2>7
  <2>8. ASSUME NEW w \in Waiting' PROVE OpenedBy(w.from, w.n)' /\ w.n \notin Handed(w.from)'
    <3>1. w = e \/ w \in Waiting
      <4>1. PICK i \in 1 .. l + 1 : w = incoming'[i]
        BY <2>5, <2>8 DEF Waiting
      <4>2. i = l + 1 \/ i \in 1 .. l
        BY <2>5
      <4> QED
        BY <4>1, <4>2, <2>5
    <3>2. w.from \in Peers /\ Handed(w.from)' = Handed(w.from)
      BY <3>1, <2>1, <1>i, <1>e, <1>h
    <3> QED
      BY <3>1, <3>2, <2>3, <2>4, <1>i, <1>o
  <2> QED
    BY <2>5, <2>7, <2>8 DEF WaitingOK
<1>2. ASSUME NEW e, e = incoming[1], SaveIncoming
      PROVE  WaitingOK'
  <2>1. /\ incoming # << >> /\ incoming' = Tail(incoming) /\ e \in Envelope
        /\ Received(e.from)' = Append(Received(e.from), e.n)
        /\ \A q \in Peers : q # e.from => Received(q)' = Received(q)
    BY <1>2, SavesOne DEF SaveIncoming
  <2>2. /\ \A w \in Waiting' : w \in Waiting /\ w # e
        /\ \A i, j \in 1 .. Len(incoming') : i # j => incoming'[i] # incoming'[j]
    <3>1. /\ \A w \in {Tail(incoming)[i] : i \in 1 .. Len(Tail(incoming))} :
                 w \in {incoming[i] : i \in 1 .. Len(incoming)} /\ w # incoming[1]
          /\ \A i, j \in 1 .. Len(Tail(incoming)) : i # j => Tail(incoming)[i] # Tail(incoming)[j]
      BY <2>1, <1>i, TailKeeps
    <3> QED
      BY <1>2, <2>1, <3>1 DEF Waiting
  <2>3. ASSUME NEW w \in Waiting' PROVE OpenedBy(w.from, w.n)' /\ w.n \notin Handed(w.from)'
    <3>1. w \in Waiting /\ w # e /\ w \in Envelope /\ w.from \in Peers
      BY <2>2, <2>3, <1>i, <1>e
    <3>2. CASE w.from # e.from
      <4>1. Handed(w.from)' = Handed(w.from)
        BY <3>1, <3>2, <2>1 DEF Handed
      <4> QED
        BY <3>1, <4>1, <1>i, <1>o
    <3>3. CASE w.from = e.from
      <4>1. w.n # e.n
        BY <3>1, <3>3, <2>1 DEF Envelope
      <4>2. Handed(w.from)' = Handed(w.from) \union {e.n}
        BY <3>1, <3>3, <2>1, <1>t, <1>e, HandedGrows DEF Handed
      <4> QED
        BY <3>1, <4>1, <4>2, <1>i, <1>o
    <3> QED
      BY <3>2, <3>3
  <2> QED
    BY <2>2, <2>3 DEF WaitingOK
<1>3. CASE SaveFails
  <2>1. incoming # << >> /\ incoming' = Tail(incoming) /\ history' = history
    BY <1>3 DEF SaveFails
  <2>2. /\ \A w \in Waiting' : w \in Waiting
        /\ \A i, j \in 1 .. Len(incoming') : i # j => incoming'[i] # incoming'[j]
    BY <2>1, <1>i, TailKeeps DEF Waiting
  <2>3. \A w \in Waiting' : w.from \in Peers /\ Handed(w.from)' = Handed(w.from)
    BY <2>1, <2>2, <1>i, <1>e, <1>h
  <2> QED
    BY <2>2, <2>3, <1>i, <1>o DEF WaitingOK
<1>4. CASE Restart
  <2>1. incoming' = << >>
    BY <1>4 DEF Restart
  <2>2. Len(incoming') = 0 /\ 1 .. 0 = {}
    BY <2>1
  <2> QED
    BY <2>2 DEF WaitingOK, Waiting
<1>5. CASE incoming' = incoming /\ \A p \in Peers : Received(p)' = Received(p)
  <2>1. Waiting' = Waiting /\ \A p \in Peers : Handed(p)' = Handed(p)
    BY <1>5 DEF Waiting, Handed
  <2> QED
    BY <1>5, <2>1, <1>i, <1>e, <1>o DEF WaitingOK
<1>6. incoming' = incoming \/ Decrypt \/ SaveIncoming \/ SaveFails \/ Restart
  BY DEF Next, vars, loopVars, windowVars, Seals, AddContact, Arrives, Refuse, PersistFails,
         Emit, OpenThread, CloseThread, ReadHistory, Show, SendCurrent, HandleSendText, SaveSent
<1> QED
  BY <1>1, <1>2, <1>3, <1>4, <1>5, <1>6, ThreadsUntouched

-----------------------------------------------------------------------------
(* The rest                                                                *)

\* The bounds, the contacts and the writer's announcement.
LEMMA RestStays ==
  ASSUME IInv, [Next]_vars
  PROVE  RestOK'
<1>i. /\ contact \in [Peers -> {"right", "wrong", "none"}]
      /\ saved \in Seq(Peers) /\ Len(saved) <= 1
      /\ arrivals \in 0 .. MaxArrivals /\ opens \in 0 .. MaxOpens /\ faults \in 0 .. MaxFaults
      /\ excused \subseteq Envelope
  BY DEF IInv, RestOK
<1>l. batch \in Seq(Envelope \union {Garbage}) /\ incoming \in Seq(Envelope)
  BY DEF IInv, LoopOK
<1>b. /\ MaxArrivals \in Nat /\ MaxOpens \in Nat /\ MaxFaults \in Nat
  BY InboxAssumption
<1>1. faults' \in 0 .. MaxFaults
  <2>1. CASE Fault
    BY <2>1, <1>i, <1>b DEF Fault
  <2>2. CASE faults' = faults
    BY <2>2, <1>i
  <2> QED
    BY <2>1, <2>2
    DEF Next, vars, loopVars, windowVars, Seals, AddContact, Arrives, Refuse, Decrypt, PersistFails,
        SaveIncoming, SaveFails, Emit, OpenThread, CloseThread, ReadHistory, Show, SendCurrent,
        HandleSendText, SaveSent, Restart
<1>2. arrivals' \in 0 .. MaxArrivals
  <2>1. ASSUME NEW b, Arrives(<<b>>) \/ \E c : Arrives(<<b, c>>)
        PROVE  arrivals' \in 0 .. MaxArrivals
    <3>1. CASE Arrives(<<b>>)
      BY <3>1, <1>i, <1>b DEF Arrives
    <3>2. ASSUME NEW c, Arrives(<<b, c>>) PROVE arrivals' \in 0 .. MaxArrivals
      BY <3>2, <1>i, <1>b DEF Arrives
    <3> QED
      BY <3>1, <3>2, <2>1
  <2>2. CASE arrivals' = arrivals
    BY <2>2, <1>i
  <2> QED
    BY <2>1, <2>2
    DEF Next, vars, loopVars, windowVars, Seals, AddContact, Refuse, Decrypt, PersistFails,
        SaveIncoming, SaveFails, Emit, OpenThread, CloseThread, ReadHistory, Show, SendCurrent,
        HandleSendText, SaveSent, Restart
<1>3. opens' \in 0 .. MaxOpens
  <2>1. ASSUME NEW p \in Peers, OpenThread(p) PROVE opens' \in 0 .. MaxOpens
    BY <2>1, <1>i, <1>b DEF OpenThread
  <2>2. CASE opens' = opens
    BY <2>2, <1>i
  <2> QED
    BY <2>1, <2>2
    DEF Next, vars, loopVars, windowVars, Seals, AddContact, Arrives, Refuse, Decrypt, PersistFails,
        SaveIncoming, SaveFails, Emit, CloseThread, ReadHistory, Show, SendCurrent, HandleSendText,
        SaveSent, Restart
<1>4. contact' \in [Peers -> {"right", "wrong", "none"}]
  <2>1. ASSUME NEW p \in Peers, NEW k \in {"right", "wrong"}, AddContact(p, k)
        PROVE  contact' \in [Peers -> {"right", "wrong", "none"}]
    BY <2>1, <1>i DEF AddContact
  <2>2. CASE contact' = contact
    BY <2>2, <1>i
  <2> QED
    BY <2>1, <2>2
    DEF Next, vars, loopVars, windowVars, Seals, Arrives, Refuse, Decrypt, PersistFails,
        SaveIncoming, SaveFails, Emit, OpenThread, CloseThread, ReadHistory, Show, SendCurrent,
        HandleSendText, SaveSent, Restart
<1>5. saved' \in Seq(Peers) /\ Len(saved') <= 1
  <2>1. CASE SaveIncoming
    <3>1. Head(incoming) \in Envelope /\ saved' = <<Head(incoming).from>>
      BY <2>1, <1>l, TailOf DEF SaveIncoming
    <3>2. Head(incoming).from \in Peers
      BY <3>1 DEF Envelope
    <3> QED
      BY <3>1, <3>2
  <2>2. CASE saved' = << >>
    BY <2>2
  <2>3. CASE saved' = saved
    BY <2>3, <1>i
  <2> QED
    BY <2>1, <2>2, <2>3
    DEF Next, vars, loopVars, windowVars, Seals, AddContact, Arrives, Refuse, Decrypt, PersistFails,
        SaveFails, Emit, OpenThread, CloseThread, ReadHistory, Show, SendCurrent, HandleSendText,
        SaveSent, Restart
<1>6. excused' \subseteq Envelope
  <2>1. CASE Refuse
    <3>1. Head(batch) \in Envelope \union {Garbage}
      BY <2>1, <1>l, TailOf DEF Refuse
    <3> QED
      BY <2>1, <3>1, <1>i DEF Refuse, Excusable
  <2>2. CASE PersistFails
    BY <2>2, <1>i, ReadFacts DEF PersistFails
  <2>3. CASE SaveFails
    <3>1. Head(incoming) \in Envelope
      BY <2>3, <1>l, TailOf DEF SaveFails
    <3> QED
      BY <2>3, <3>1, <1>i DEF SaveFails
  <2>4. CASE Restart
    <3>1. ToSet(batch) \subseteq Envelope \union {Garbage} /\ ToSet(incoming) \subseteq Envelope
      BY <1>l DEF ToSet
    <3> QED
      BY <2>4, <3>1, <1>i DEF Restart
  <2>5. CASE excused' = excused
    BY <2>5, <1>i
  <2> QED
    BY <2>1, <2>2, <2>3, <2>4, <2>5
    DEF Next, vars, loopVars, windowVars, Seals, AddContact, Arrives, Decrypt, SaveIncoming, Emit,
        OpenThread, CloseThread, ReadHistory, Show, SendCurrent, HandleSendText, SaveSent
<1> QED
  BY <1>1, <1>2, <1>3, <1>4, <1>5, <1>6 DEF RestOK

\* Every step keeps the invariant.
LEMMA NextIInv == IInv /\ [Next]_vars => IInv'
<1> SUFFICES ASSUME IInv, [Next]_vars PROVE IInv'
  OBVIOUS
<1>1. LoopOK' /\ SessionsOK' /\ WaitingOK' /\ ThreadsOK'
  BY LoopStays, OpenedStays, WaitingStays, ThreadsStay
<1>2. TextsOK' /\ RowsOK' /\ WindowOK' /\ RestOK'
  BY WindowStays, RowsStay, RestStays
<1> QED
  BY <1>1, <1>2 DEF IInv

\* So it holds throughout.
LEMMA Invariance == Spec => []IInv
<1>1. Init => IInv
  BY InitIInv
<1>2. IInv /\ [Next]_vars => IInv'
  BY NextIInv
<1> QED
  BY <1>1, <1>2, PTL DEF Spec

-----------------------------------------------------------------------------
(* Theorems                                                                *)

\* Types of the variables: at most HistoryLimit rows on the screen and in any
\* answer of get_history, and every session is a ratchet, whatever arrives.
THEOREM TypeCorrect == Spec => []TypeOK
<1>1. IInv => TypeOK
  <2> SUFFICES ASSUME IInv PROVE TypeOK
    OBVIOUS
  <2>1. /\ sealed \in [Peers -> 0 .. MaxMade]
        /\ batch \in Seq(Envelope \union {Garbage}) /\ incoming \in Seq(Envelope)
    BY DEF IInv, LoopOK
  <2>2. \A p \in Peers : session[p] = NoSession \/ IsRatchet(session[p])
    BY RatchetIsRatchet DEF IInv, SessionsOK, SessionOK
  <2>3. opened \in [Peers -> SUBSET (1 .. MaxMade)] /\ history \in Seq(Row)
    BY DEF IInv, SessionsOK, RowsOK
  <2>4. text \in [1 .. MaxTexts -> [to : Peers \union {NoPeer}, left : BOOLEAN,
                     at : {"unwritten", "asked", "sent", "saved", "gone"}]]
    BY DEF IInv, TextsOK
  <2>5. WindowOK /\ RestOK
    BY DEF IInv
  <2> QED
    BY <2>1, <2>2, <2>3, <2>4, <2>5 DEF TypeOK, WindowOK, RestOK
<1> QED
  BY <1>1, Invariance, PTL

\* The row of a sent text is in the thread of the contact the text was sent
\* to, once, and only if the loop has sent the text: whatever thread the user
\* opened while send_message waited.
THEOREM SentRows == Spec => []SentRowsWereSent
<1>1. IInv => SentRowsWereSent
  <2> SUFFICES ASSUME IInv PROVE SentRowsWereSent
    OBVIOUS
  <2>1. /\ DOMAIN history = 1 .. Len(history)
        /\ \A i \in 1 .. Len(history) : SentRowOK(history[i], text)
        /\ \A i, j \in 1 .. Len(history) :
             history[i].direction = "sent" /\ history[j] = history[i] => i = j
    BY DEF IInv, RowsOK
  <2> QED
    BY <2>1 DEF SentRowsWereSent, SentRowOK
<1> QED
  BY <1>1, Invariance, PTL

\* Before anything has happened, every thread is a channel that carried
\* nothing.
LEMMA ChannelsStartEmpty == Init => \A p \in Peers : Channel(p)!Init
<1> SUFFICES ASSUME Init, NEW p \in Peers PROVE Channel(p)!Init
  OBVIOUS
<1>1. Received(p) = << >> /\ sealed[p] = 0
  BY ReceivedNone DEF Init, Received
<1> QED
  BY <1>1 DEF Channel!Init, Channel!Users

\* Every step is a step of the channel of each thread, or leaves it alone.
LEMMA ChannelSteps ==
  ASSUME IInv, [Next]_vars, NEW p \in Peers
  PROVE  Channel(p)!Next \/ UNCHANGED <<sealed[p], Received(p)>>
<1>i. p # Self /\ sealed \in [Peers -> 0 .. MaxMade]
  BY InboxAssumption DEF IInv, LoopOK
<1>1. CASE Seals(p)
  <2>1. sealed'[p] = sealed[p] + 1 /\ Received(p)' = Received(p)
    BY <1>1, <1>i DEF Seals, Received
  <2>2. Channel(p)!Submit(p)
    BY <1>i, <2>1 DEF Channel!Submit
  <2> QED
    BY <2>2 DEF Channel!Next, Channel!Users
<1>2. ASSUME NEW e, e = incoming[1], SaveIncoming, e.from = p
      PROVE  Channel(p)!Next
  <2> DEFINE n == e.n
  <2>1. /\ Received(p)' = Append(Received(p), n) /\ sealed' = sealed
        /\ n \notin Handed(p) /\ n \in 1 .. sealed[p]
    <3>1. /\ 1 \in 1 .. Len(incoming) /\ Received(p)' = Append(Received(p), n) /\ sealed' = sealed
      BY <1>2, SavesOne
    <3>2. e \in Waiting
      BY <1>2, <3>1 DEF Waiting
    <3> QED
      BY <1>2, <3>1, <3>2 DEF IInv, WaitingOK, OpenedBy
  <2> HIDE DEF n
  <2>2. \A i \in 1 .. Len(Received(p)) : Received(p)[i] # n
    BY <2>1 DEF Handed
  <2>3. Channel(p)!Deliver(Self, n)
    BY <1>i, <2>1, <2>2 DEF Channel!Deliver
  <2> QED
    BY <1>i, <2>1, <2>3 DEF Channel!Next, Channel!Users, Channel!Peer
<1>3. ASSUME NEW e, e = incoming[1], SaveIncoming, e.from # p
      PROVE  UNCHANGED <<sealed[p], Received(p)>>
  BY <1>3, SavesOne
<1>4. \/ Seals(p) \/ sealed'[p] = sealed[p]
  <2>1. ASSUME NEW q \in Peers, Seals(q), q # p PROVE sealed'[p] = sealed[p]
    BY <2>1, <1>i DEF Seals
  <2>2. sealed' = sealed \/ \E q \in Peers : Seals(q)
    BY DEF Next, vars, loopVars, windowVars, AddContact, Arrives, Refuse, Decrypt, PersistFails, Read,
           SaveIncoming, SaveFails, Emit, OpenThread, CloseThread, ReadHistory, Show, SendCurrent,
           HandleSendText, SaveSent, Restart
  <2> QED
    BY <2>1, <2>2
<1> QED
  BY <1>1, <1>2, <1>3, <1>4, ThreadsUntouched

\* The received rows of each thread are an at-most-once channel from its peer:
\* nothing the peer has not sealed and nothing twice, whatever arrives again,
\* fails or stops.
THEOREM ThreadsAreChannels == Spec => HistoryIsChannel
<1>1. Init => \A p \in Peers : Channel(p)!Init
  BY ChannelsStartEmpty
<1>2. IInv /\ [Next]_vars => \A p \in Peers : Channel(p)!Next \/ UNCHANGED <<sealed[p], Received(p)>>
  BY ChannelSteps
<1>3. IInv /\ [Next]_vars
        => [\A p \in Peers : Channel(p)!Next \/ UNCHANGED <<sealed[p], Received(p)>>]_vars
  BY <1>2
<1> QED
  BY <1>1, <1>3, Invariance, PTL DEF Spec, HistoryIsChannel

-----------------------------------------------------------------------------
(* Nothing readable is refused                                             *)

\* A session has moved on to the last envelope it opened, and of those it
\* passed it has opened each or kept its key.
PassedOK(p) ==
  session[p] # NoSession =>
    /\ session[p].recvCounter \in opened[p] \union {0}
    /\ \A n \in 1 .. session[p].recvCounter : n \in opened[p] \/ n \in DOMAIN session[p].skipped

GapsInv == IInv /\ \A p \in Peers : PassedOK(p)

\* It holds of sessions that have received nothing.
LEMMA InitGaps == Init => GapsInv
<1> SUFFICES ASSUME Init PROVE GapsInv
  OBVIOUS
<1>1. ASSUME NEW p \in Peers PROVE PassedOK(p)
  <2>1. session[p].recvCounter = 0
    BY NewRatchetFields DEF Init
  <2> QED
    BY <2>1 DEF PassedOK
<1> QED
  BY <1>1, InitIInv DEF GapsInv

\* decrypt_from keeps the key of each envelope it jumps over, and gives up
\* the key it uses.
LEMMA ReadKeepsGaps ==
  ASSUME GapsInv, NEW e, e = Head(batch), batch # << >>, Readable(e), Read(e), NEW p \in Peers
  PROVE  PassedOK(p)'
<1> DEFINE r == session[e.from]
           n == AfterDecrypt(r, e.n)
<1>1. /\ e \in Envelope /\ e.from \in Peers
      /\ opened' = [opened EXCEPT ![e.from] = opened[e.from] \union {e.n}]
  BY ReadFacts DEF GapsInv
<1>2. session' = [session EXCEPT ![e.from] = n] /\ r # NoSession /\ HasKeyFor(r, e.n)
  BY DEF Read, Readable
<1>3. /\ r \in Ratchet /\ Regular(r)
      /\ DOMAIN session = Peers /\ opened \in [Peers -> SUBSET (1 .. MaxMade)]
  BY <1>1, <1>2 DEF GapsInv, IInv, SessionsOK, SessionOK
<1>4. e.n \in Counter /\ e.n \in Nat
  BY <1>1, InboxAssumption, RatchetAssumption DEF Counter, Envelope
<1>5. /\ n \in Ratchet
      /\ \A d \in Counter : d # e.n /\ d <= n.recvCounter =>
           d \in DOMAIN n.skipped \/ (d <= r.recvCounter /\ d \notin DOMAIN r.skipped)
      /\ n.recvCounter = IF e.n > r.recvCounter THEN e.n ELSE r.recvCounter
  BY <1>2, <1>3, <1>4, AfterDecryptRegular, AfterDecryptCounter
<1>6. n.recvCounter \in Counter /\ r.recvCounter \in Counter
  BY <1>3, <1>5 DEF Ratchet
<1>7. PassedOK(e.from) /\ PassedOK(p)
  BY <1>1 DEF GapsInv
<1> HIDE DEF r, n
<1>8. CASE p = e.from
  <2>1. session'[p] = n /\ opened'[p] = opened[p] \union {e.n}
    BY <1>1, <1>2, <1>3, <1>8
  <2>2. /\ r.recvCounter \in opened[p] \union {0}
        /\ \A d \in 1 .. r.recvCounter : d \in opened[p] \/ d \in DOMAIN r.skipped
    BY <1>2, <1>7, <1>8 DEF PassedOK, r
  <2>3. n.recvCounter \in opened'[p] \union {0}
    BY <1>5, <2>1, <2>2
  <2>4. ASSUME NEW d \in 1 .. n.recvCounter
        PROVE  d \in opened'[p] \/ d \in DOMAIN n.skipped
    <3>1. d \in Counter /\ d \in Nat /\ 1 <= d /\ d <= n.recvCounter
      BY <1>6, RatchetAssumption DEF Counter
    <3>2. CASE d = e.n
      BY <3>2, <2>1
    <3>3. CASE d <= r.recvCounter /\ d \notin DOMAIN r.skipped
      <4>1. d \in 1 .. r.recvCounter
        BY <3>1, <3>3, <1>6, CounterIsNat
      <4> QED
        BY <4>1, <3>3, <2>1, <2>2
    <3> QED
      BY <3>1, <3>2, <3>3, <1>5
  <2> QED
    BY <2>1, <2>3, <2>4 DEF PassedOK
<1>9. CASE p # e.from
  <2>1. session'[p] = session[p] /\ opened'[p] = opened[p]
    BY <1>1, <1>2, <1>3, <1>9
  <2> QED
    BY <2>1, <1>7 DEF PassedOK
<1> QED
  BY <1>8, <1>9

\* Nothing else moves a session, but a restart drops them all.
LEMMA NextGaps == GapsInv /\ [Next]_vars => GapsInv'
<1> SUFFICES ASSUME GapsInv, [Next]_vars PROVE GapsInv'
  OBVIOUS
<1>i. IInv'
  BY NextIInv DEF GapsInv
<1>1. ASSUME NEW p \in Peers PROVE PassedOK(p)'
  <2>1. CASE Decrypt \/ PersistFails
    BY <2>1, ReadKeepsGaps DEF Decrypt, PersistFails
  <2>2. CASE Restart
    <3>1. session'[p] = NoSession
      BY <2>2 DEF Restart
    <3> QED
      BY <3>1 DEF PassedOK
  <2>3. CASE UNCHANGED <<session, opened>>
    BY <2>3 DEF GapsInv, PassedOK
  <2> QED
    BY <2>1, <2>2, <2>3
    DEF Next, vars, loopVars, windowVars, Seals, AddContact, Arrives, Refuse, SaveIncoming, SaveFails,
        Emit, OpenThread, CloseThread, ReadHistory, Show, SendCurrent, HandleSendText, SaveSent
<1> QED
  BY <1>i, <1>1 DEF GapsInv

\* The largest of the opened envelopes is the one the session has moved to.
LEMMA LastOpened ==
  ASSUME GapsInv, NEW p \in Peers, session[p] # NoSession
  PROVE  Max(opened[p] \union {0}) = session[p].recvCounter
<1> DEFINE S == opened[p] \union {0}
           c == session[p].recvCounter
<1>1. c \in S /\ S \subseteq Nat /\ \A n \in S : n <= c
  <2>1. PassedOK(p) /\ SessionOK(p) /\ opened[p] \subseteq 1 .. MaxMade
    BY DEF GapsInv, IInv, SessionsOK
  <2>2. c \in Counter
    BY <2>1 DEF SessionOK, Ratchet
  <2> QED
    BY <2>1, <2>2, CounterIsNat DEF PassedOK, SessionOK, Past
<1> HIDE DEF S, c
<1>2. \A x \in S : (\A y \in S : x >= y) => x = c
  BY <1>1
<1>3. \A y \in S : c >= y
  BY <1>1
<1> QED
  BY <1>1, <1>2, <1>3 DEF Max, S, c

\* A session has the key of every envelope that it has not opened and that is
\* not too far ahead of it.
LEMMA RefusedWasOpened ==
  ASSUME GapsInv, Refuse, NEW e \in Envelope, e = Head(batch), e \notin excused'
  PROVE  e.n \in opened[e.from]
<1>1. ~Readable(e) /\ ~Excusable(e)
  BY DEF Refuse
<1>2. e # Garbage /\ e.from \in Peers /\ e.n \in 1 .. MaxMade
  BY GarbageIsNone DEF Envelope
<1>3. session[e.from] # NoSession /\ ~HasKeyFor(session[e.from], e.n) /\ ~TooFarAhead(e)
  BY <1>1, <1>2 DEF Readable, Excusable
<1> DEFINE c == session[e.from].recvCounter
<1>4. ~(e.n > c + MaxSkip) /\ PassedOK(e.from)
  BY <1>2, <1>3, LastOpened DEF TooFarAhead, GapsInv
<1>5. c \in Nat /\ e.n \in Nat /\ MaxSkip \in Nat
  <2>1. session[e.from] \in Ratchet
    BY <1>2, <1>3 DEF GapsInv, IInv, SessionsOK, SessionOK
  <2>2. c \in Counter
    BY <2>1 DEF Ratchet
  <2> HIDE DEF c
  <2>3. c \in Nat
    BY <2>2, CounterIsNat
  <2>4. e.n \in Nat
    BY <1>2, InboxAssumption
  <2> QED
    BY <2>3, <2>4, RatchetAssumption
<1>6. ~(e.n > c)
  BY <1>3, <1>4, <1>5 DEF HasKeyFor, IsAhead
<1>7. e.n \in 1 .. c /\ e.n \notin DOMAIN session[e.from].skipped
  BY <1>2, <1>3, <1>5, <1>6 DEF HasKeyFor, IsLate
<1> QED
  BY <1>3, <1>4, <1>7 DEF PassedOK

\* The loop drops an envelope only when its session has opened it before, or
\* for a reason the code intends: the sender is no contact with that key, or
\* there is no session, or more than MAX_SKIP before it were never opened.
\* In particular no envelope is dropped for one that came before it, in its
\* batch or in any other.
THEOREM RefusalsHaveReasons ==
  Spec => [][\A e \in Envelope :
               Refuse /\ e = Head(batch) => e \in excused' \/ e.n \in opened[e.from]]_vars
<1>1. GapsInv /\ [Next]_vars =>
        [\A e \in Envelope :
           Refuse /\ e = Head(batch) => e \in excused' \/ e.n \in opened[e.from]]_vars
  BY RefusedWasOpened
<1>2. Init => GapsInv
  BY InitGaps
<1>3. GapsInv /\ [Next]_vars => GapsInv'
  BY NextGaps
<1> QED
  BY <1>1, <1>2, <1>3, PTL DEF Spec

-----------------------------------------------------------------------------
(* Nothing that was taken up is dropped                                    *)

InThread(e) ==
  \E i \in 1 .. Len(history) : history[i] = [peer |-> e.from, direction |-> "received", n |-> e.n]

\* The writer has e before it or has saved it, or e met a fault.
Kept(e) == e \in ToSet(incoming) \/ InThread(e) \/ e \in excused

\* What the loop has taken up and not dropped.
Taken(e) == e \in ToSet(batch) \/ Kept(e)

KeptInv == GapsInv /\ \A e \in Envelope : e.n \in opened[e.from] => Kept(e)

\* A sequence is its head and its tail.
LEMMA HeadOrTail ==
  ASSUME NEW S, NEW s \in Seq(S), s # << >>
  PROVE  ToSet(s) = {Head(s)} \union ToSet(Tail(s))
<1>1. /\ Head(s) = s[1] /\ 1 \in 1 .. Len(s)
      /\ Tail(s) \in Seq(S) /\ Len(Tail(s)) = Len(s) - 1
      /\ \A i \in 1 .. Len(Tail(s)) : i + 1 \in 1 .. Len(s) /\ Tail(s)[i] = s[i + 1]
  BY TailOf
<1>2. \A i \in 1 .. Len(s) : i = 1 \/ (i - 1 \in 1 .. Len(s) - 1 /\ (i - 1) + 1 = i)
  OBVIOUS
<1>3. ToSet(s) = {s[i] : i \in 1 .. Len(s)} /\ ToSet(Tail(s)) = {Tail(s)[i] : i \in 1 .. Len(Tail(s))}
  <2>1. \A t \in Seq(S) : DOMAIN t = 1 .. Len(t)
    OBVIOUS
  <2>2. \A t \in Seq(S) : ToSet(t) = {t[i] : i \in 1 .. Len(t)}
    BY <2>1 DEF ToSet
  <2> QED
    BY <1>1, <2>2
<1>4. \A i \in 1 .. Len(s) : s[i] = Head(s) \/ s[i] \in ToSet(Tail(s))
  BY <1>1, <1>2, <1>3
<1>5. \A i \in 1 .. Len(Tail(s)) : Tail(s)[i] \in ToSet(s)
  BY <1>1, <1>3
<1>6. Head(s) \in ToSet(s)
  BY <1>1, <1>3
<1> QED
  BY <1>3, <1>4, <1>5, <1>6

\* Appending leaves what there is.
LEMMA AppendedSet ==
  ASSUME NEW S, NEW s \in Seq(S), NEW x \in S
  PROVE  ToSet(Append(s, x)) = ToSet(s) \union {x}
<1>1. /\ Append(s, x) \in Seq(S) /\ Len(Append(s, x)) = Len(s) + 1 /\ Len(s) \in Nat
      /\ Append(s, x)[Len(s) + 1] = x
      /\ \A i \in 1 .. Len(s) : Append(s, x)[i] = s[i]
  OBVIOUS
<1>2. 1 .. Len(s) + 1 = (1 .. Len(s)) \union {Len(s) + 1}
  BY <1>1
<1>3. /\ ToSet(s) = {s[i] : i \in 1 .. Len(s)}
      /\ ToSet(Append(s, x)) = {Append(s, x)[i] : i \in 1 .. Len(s) + 1}
  BY <1>1 DEF ToSet
<1> QED
  BY <1>1, <1>2, <1>3

\* The table only grows.
LEMMA ThreadStands ==
  ASSUME IInv, NEW e, InThread(e), NEW r, history' = Append(history, r)
  PROVE  InThread(e)'
<1>1. history \in Seq(Row) /\ Len(history) \in Nat
  BY DEF IInv, RowsOK
<1>2. /\ Len(history') = Len(history) + 1
      /\ \A i \in 1 .. Len(history) : i \in 1 .. Len(history) + 1 /\ history'[i] = history[i]
  BY <1>1
<1> QED
  BY <1>2 DEF InThread

\* What the writer has or has saved stays with it.
LEMMA StaysKept ==
  ASSUME IInv, [Next]_vars, NEW e \in Envelope, Kept(e)
  PROVE  Kept(e)'
<1>i. incoming \in Seq(Envelope) /\ batch \in Seq(Envelope \union {Garbage}) /\ e # Garbage
  BY GarbageIsNone DEF IInv, LoopOK
<1>1. CASE UNCHANGED <<incoming, history>> /\ excused \subseteq excused'
  BY <1>1 DEF Kept, InThread
<1>2. CASE Decrypt
  <2>1. Head(batch) \in Envelope
    BY <1>2, ReadFacts DEF Decrypt
  <2>2. incoming' = Append(incoming, Head(batch)) /\ UNCHANGED <<history, excused>>
    BY <1>2 DEF Decrypt
  <2>3. ToSet(incoming) \subseteq ToSet(incoming')
    BY <1>i, <2>1, <2>2, AppendedSet
  <2> QED
    BY <2>2, <2>3 DEF Kept, InThread
<1>3. CASE SaveIncoming
  <2>1. /\ incoming # << >> /\ incoming' = Tail(incoming) /\ UNCHANGED excused
        /\ history' = Append(history, [peer |-> Head(incoming).from, direction |-> "received",
                                       n |-> Head(incoming).n])
    BY <1>3 DEF SaveIncoming
  <2>2. ToSet(incoming) = {Head(incoming)} \union ToSet(incoming')
    BY <1>i, <2>1, HeadOrTail
  <2>3. CASE e = Head(incoming)
    <3>1. history \in Seq(Row) /\ Len(history) \in Nat
      BY DEF IInv, RowsOK
    <3>2. /\ Len(history') \in 1 .. Len(history')
          /\ history'[Len(history')] = [peer |-> e.from, direction |-> "received", n |-> e.n]
      BY <3>1, <2>1, <2>3
    <3> QED
      BY <3>2 DEF Kept, InThread
  <2>4. CASE InThread(e)
    BY <2>1, <2>4, ThreadStands DEF Kept
  <2> QED
    BY <2>1, <2>2, <2>3, <2>4 DEF Kept
<1>4. CASE SaveFails
  <2>1. /\ incoming # << >> /\ incoming' = Tail(incoming) /\ UNCHANGED history
        /\ excused' = excused \union {Head(incoming)}
    BY <1>4 DEF SaveFails
  <2>2. ToSet(incoming) = {Head(incoming)} \union ToSet(incoming')
    BY <1>i, <2>1, HeadOrTail
  <2> QED
    BY <2>1, <2>2 DEF Kept, InThread
<1>5. ASSUME NEW t \in 1 .. MaxTexts, SaveSent(t) PROVE Kept(e)'
  <2>1. /\ UNCHANGED <<incoming, excused>>
        /\ history' = Append(history, [peer |-> text[t].to, direction |-> "sent", n |-> t])
    BY <1>5 DEF SaveSent
  <2> QED
    BY <2>1, ThreadStands DEF Kept
<1>6. CASE Restart
  <2>1. UNCHANGED history /\ excused' = excused \union ((ToSet(batch) \union ToSet(incoming)) \ {Garbage})
    BY <1>6 DEF Restart
  <2> QED
    BY <1>i, <2>1 DEF Kept, InThread
<1> QED
  BY <1>1, <1>2, <1>3, <1>4, <1>5, <1>6
  DEF Next, vars, loopVars, windowVars, Seals, AddContact, Arrives, Refuse, PersistFails,
      Emit, OpenThread, CloseThread, ReadHistory, Show, SendCurrent, HandleSendText

\* What a session opens goes to the writer, or its row could not be written.
LEMMA NextKept == KeptInv /\ [Next]_vars => KeptInv'
<1> SUFFICES ASSUME KeptInv, [Next]_vars PROVE KeptInv'
  OBVIOUS
<1>i. GapsInv /\ IInv /\ GapsInv'
  BY NextGaps DEF KeptInv, GapsInv
<1>1. ASSUME NEW e \in Envelope, e.n \in opened'[e.from] PROVE Kept(e)'
  <2>e. e.from \in Peers /\ e.n \in 1 .. MaxMade /\ opened \in [Peers -> SUBSET (1 .. MaxMade)]
    BY <1>i DEF Envelope, IInv, SessionsOK
  <2>1. CASE e.n \in opened[e.from]
    BY <2>1, <1>i, StaysKept DEF KeptInv
  <2>2. CASE e.n \notin opened[e.from]
    <3>1. Decrypt \/ PersistFails
      <4>1. CASE Restart
        BY <4>1, <1>1, <2>e DEF Restart
      <4> QED
        BY <4>1, <1>1, <2>2
        DEF Next, vars, loopVars, windowVars, Seals, AddContact, Arrives, Refuse, SaveIncoming, SaveFails,
            Emit, OpenThread, CloseThread, ReadHistory, Show, SendCurrent, HandleSendText, SaveSent
    <3> DEFINE h == Head(batch)
    <3>2. h \in Envelope /\ opened' = [opened EXCEPT ![h.from] = opened[h.from] \union {h.n}]
      BY <3>1, <1>i, ReadFacts DEF Decrypt, PersistFails
    <3>3. e = h
      <4> HIDE DEF h
      <4>1. e.from = h.from /\ e.n = h.n
        BY <1>1, <2>2, <2>e, <3>2
      <4> QED
        BY <3>2, <4>1 DEF Envelope
    <3>4. CASE Decrypt
      <4>1. incoming' = Append(incoming, h) /\ incoming \in Seq(Envelope)
        BY <3>4, <1>i DEF Decrypt, IInv, LoopOK
      <4> HIDE DEF h
      <4>2. h \in ToSet(incoming')
        BY <3>2, <4>1, AppendedSet
      <4> QED
        BY <3>3, <4>2 DEF Kept
    <3>5. CASE PersistFails
      BY <3>3, <3>5 DEF PersistFails, Kept
    <3> QED
      BY <3>1, <3>4, <3>5
  <2> QED
    BY <2>1, <2>2
<1> QED
  BY <1>i, <1>1 DEF KeptInv

\* What is in the batch leaves it for the writer, or for a reason; or it is
\* dropped because the writer had it before.
LEMMA StaysTaken ==
  ASSUME KeptInv, [Next]_vars, NEW e \in Envelope, Taken(e)
  PROVE  Taken(e)'
<1>i. GapsInv /\ IInv /\ KeptInv' /\ e # Garbage /\ batch \in Seq(Envelope \union {Garbage})
  BY NextKept, GarbageIsNone DEF KeptInv, GapsInv, IInv, LoopOK
<1>1. CASE Kept(e)
  BY <1>1, <1>i, StaysKept DEF Taken
<1>2. CASE e \in ToSet(batch) /\ UNCHANGED batch
  BY <1>2 DEF Taken
<1>3. CASE e \in ToSet(batch) /\ (Refuse \/ Decrypt \/ PersistFails)
  <2>1. batch # << >> /\ batch' = Tail(batch)
    BY <1>3 DEF Refuse, AfterRefusal, Decrypt, PersistFails, Read
  <2>2. e = Head(batch) \/ e \in ToSet(batch')
    BY <1>3, <1>i, <2>1, HeadOrTail
  <2>3. CASE e = Head(batch) /\ Refuse
    <3>1. e \in excused' \/ e.n \in opened[e.from]
      BY <2>3, <1>i, RefusedWasOpened
    <3>2. e.n \in opened[e.from] => Kept(e)'
      BY <1>i, StaysKept DEF KeptInv
    <3> QED
      BY <3>1, <3>2 DEF Taken, Kept
  <2>4. CASE e = Head(batch) /\ (Decrypt \/ PersistFails)
    <3>1. /\ e.from \in Peers /\ opened \in [Peers -> SUBSET (1 .. MaxMade)]
          /\ opened' = [opened EXCEPT ![e.from] = opened[e.from] \union {e.n}]
      BY <2>4, <1>i, ReadFacts DEF Decrypt, PersistFails, IInv, SessionsOK
    <3>2. e.n \in opened'[e.from]
      BY <3>1
    <3> QED
      BY <3>2, <1>i DEF KeptInv, Taken
  <2> QED
    BY <1>3, <2>2, <2>3, <2>4 DEF Taken
<1>4. CASE e \in ToSet(batch) /\ Restart
  BY <1>4, <1>i DEF Restart, Taken, Kept
<1>5. ASSUME NEW blobs, Arrives(blobs) PROVE e \notin ToSet(batch)
  BY <1>5 DEF Arrives, ToSet
<1> QED
  BY <1>1, <1>2, <1>3, <1>4, <1>5
  DEF Taken, Next, vars, loopVars, windowVars, Seals, AddContact, SaveIncoming, SaveFails,
      Emit, OpenThread, CloseThread, ReadHistory, Show, SendCurrent, HandleSendText, SaveSent

\* The loop and the writer: an envelope that was taken up is in the batch,
\* with the writer, in the history or excused from then on. What ReadInTheEnd
\* asks besides is that the loop and the writer go on.
THEOREM TakenStays == Spec => [][\A e \in Envelope : Taken(e) => Taken(e)']_vars
<1>1. Init => KeptInv
  <2> SUFFICES ASSUME Init PROVE KeptInv
    OBVIOUS
  <2>1. \A p \in Peers : opened[p] = {}
    BY DEF Init
  <2> QED
    BY <2>1, InitGaps DEF KeptInv, Envelope
<1>2. KeptInv /\ [Next]_vars => KeptInv'
  BY NextKept
<1>3. KeptInv /\ [Next]_vars => [\A e \in Envelope : Taken(e) => Taken(e)']_vars
  BY StaysTaken
<1> QED
  BY <1>1, <1>2, <1>3, PTL DEF Spec

-----------------------------------------------------------------------------
(* Announcements stand                                                     *)

\* The newest row of p's thread is among rows.
NewestIn(p, rows) == \E i \in RowsOf(p) : RowsFrom(p, i) = 1 /\ history[i] \in rows

\* The newest row of p's thread is announced, or asked for, or in an answer.
OnItsWay(p) ==
  /\ RowsOf(p) # {}
  /\ saved = <<p>> \/ asked[p] > 0 \/ \E a \in answers : NewestIn(p, a)

\* get_history returns the newest row of a thread that has one: HistoryLimit
\* cuts off the others.
LEMMA NewestIsRead ==
  ASSUME IInv, NEW p \in Peers, RowsOf(p) # {}
  PROVE  NewestIn(p, NewestRows(p))
<1> DEFINE n    == Len(history)
           Back == {k \in 0 .. n : n - k \in RowsOf(p)}
<1>1. n \in Nat /\ RowsOf(p) \subseteq 1 .. n
  BY DEF IInv, RowsOK, RowsOf
<1>2. PICK k \in Back : \A l \in Back : k <= l
  <2>1. PICK i : i \in RowsOf(p)
    OBVIOUS
  <2>2. i \in 1 .. n
    BY <1>1, <2>1
  <2> HIDE DEF n
  <2>3. n - i \in 0 .. n /\ n - (n - i) = i
    BY <1>1, <2>2
  <2>4. Back # {} /\ Back \in SUBSET Nat
    BY <2>1, <2>3
  <2> HIDE DEF Back
  <2> QED
    BY <2>4, Least
<1> DEFINE i == n - k
<1>3. i \in RowsOf(p)
  BY <1>2
<1>4. \A j \in RowsOf(p) : j <= i
  <2> SUFFICES ASSUME NEW j \in RowsOf(p) PROVE j <= i
    OBVIOUS
  <2>1. j \in 1 .. n /\ k \in 0 .. n
    BY <1>1, <1>2
  <2> HIDE DEF n
  <2>2. n - j \in 0 .. n /\ n - (n - j) = j
    BY <1>1, <2>1
  <2>3. n - j \in Back
    BY <2>2
  <2>4. k <= n - j
    BY <1>2, <2>3
  <2> QED
    BY <1>1, <2>1, <2>4
<1>5. i \in Nat /\ \A j \in RowsOf(p) : j \in Nat
  BY <1>1, <1>3
<1> HIDE DEF i, n
<1>6. {j \in RowsOf(p) : i <= j} = {i}
  <2>1. i <= i
    BY <1>5
  <2>2. \A j \in RowsOf(p) : i <= j => j = i
    BY <1>4, <1>5
  <2> HIDE DEF Back
  <2> QED
    BY <1>3, <2>1, <2>2, Zenon
<1>7. RowsFrom(p, i) = 1
  BY <1>6, FS_Singleton DEF RowsFrom
<1>8. history[i] \in NewestRows(p)
  BY <1>3, <1>7, InboxAssumption DEF NewestRows
<1> QED
  BY <1>3, <1>7, <1>8 DEF NewestIn

\* A new row ends its own thread, and leaves the others as they are.
LEMMA AppendedRow ==
  ASSUME IInv, NEW p \in Peers, NEW r \in Row, history' = Append(history, r)
  PROVE  /\ RowsOf(p) \subseteq RowsOf(p)'
         /\ r.peer = p => RowsOf(p)' # {}
         /\ r.peer # p => \A rows : NewestIn(p, rows) => NewestIn(p, rows)'
<1>1. /\ history \in Seq(Row) /\ DOMAIN history = 1 .. Len(history) /\ Len(history) \in Nat
      /\ DOMAIN history' = 1 .. Len(history) + 1
      /\ \A i \in 1 .. Len(history) : history'[i] = history[i]
      /\ history'[Len(history) + 1] = r
  BY DEF IInv, RowsOK
<1>2. RowsOf(p) \subseteq RowsOf(p)' /\ \A i \in RowsOf(p) : history'[i] = history[i]
  BY <1>1 DEF RowsOf
<1>3. ASSUME r.peer = p PROVE RowsOf(p)' # {}
  <2>1. Len(history) + 1 \in DOMAIN history'
    BY <1>1
  <2>2. Len(history) + 1 \in RowsOf(p)'
    <3>1. RowsOf(p)' = {i \in DOMAIN history' : history'[i].peer = p}
      BY DEF RowsOf
    <3> QED
      BY <3>1, <2>1, <1>1, <1>3
  <2> QED
    BY <2>2
<1>4. ASSUME r.peer # p, NEW rows, NEW i \in RowsOf(p), RowsFrom(p, i) = 1, history[i] \in rows
      PROVE  NewestIn(p, rows)'
  <2>1. RowsOf(p)' = RowsOf(p)
    <3>1. \A j \in 1 .. Len(history) + 1 : j \in 1 .. Len(history) \/ j = Len(history) + 1
      BY <1>1
    <3> QED
      BY <1>1, <1>4, <3>1 DEF RowsOf
  <2>2. RowsFrom(p, i)' = RowsFrom(p, i)
    BY <2>1 DEF RowsFrom
  <2>3. history'[i] \in rows
    BY <1>2, <1>4
  <2> QED
    BY <2>1, <2>2, <2>3, <1>4 DEF NewestIn
<1> QED
  BY <1>2, <1>3, <1>4 DEF NewestIn

\* A step of the page or of the writer brings the newest row further on.
LEMMA StaysOnItsWay ==
  ASSUME IInv, [Next]_vars, NEW p \in Peers, thread = p, OnItsWay(p)
  PROVE  thread' # p \/ OnItsWay(p)' \/ NewestIn(p, shown)'
<1>t. asked \in [Peers -> Nat] /\ p # NoPeer
  BY InboxAssumption DEF IInv, WindowOK
<1>1. ASSUME UNCHANGED history
      PROVE  /\ RowsOf(p)' = RowsOf(p)
             /\ \A rows : NewestIn(p, rows)' <=> NewestIn(p, rows)
  <2>1. RowsOf(p)' = RowsOf(p) /\ \A i : RowsFrom(p, i)' = RowsFrom(p, i)
    BY <1>1 DEF RowsOf, RowsFrom
  <2> QED
    BY <1>1, <2>1 DEF NewestIn
<1>2. CASE UNCHANGED <<history, saved, asked, answers>>
  BY <1>1, <1>2 DEF OnItsWay
<1>3. CASE SaveIncoming
  <2> DEFINE e == Head(incoming)
  <2>1. /\ incoming \in Seq(Envelope) /\ incoming # << >> /\ saved = << >>
        /\ history' = Append(history, [peer |-> e.from, direction |-> "received", n |-> e.n])
        /\ saved' = <<e.from>> /\ UNCHANGED <<asked, answers>>
    BY <1>3 DEF SaveIncoming, IInv, LoopOK, windowVars
  <2>2. e \in Envelope
    BY <2>1
  <2> HIDE DEF e
  <2>3. [peer |-> e.from, direction |-> "received", n |-> e.n] \in Row
    BY <2>2, InboxAssumption DEF Envelope, Row
  <2>4. CASE e.from = p
    BY <2>1, <2>3, <2>4, AppendedRow DEF OnItsWay
  <2>5. CASE e.from # p
    <3>1. RowsOf(p)' # {} /\ \A rows : NewestIn(p, rows) => NewestIn(p, rows)'
      BY <2>1, <2>3, <2>5, AppendedRow DEF OnItsWay
    <3>2. saved # <<p>>
      BY <2>1
    <3> QED
      BY <3>1, <3>2, <2>1 DEF OnItsWay
  <2> QED
    BY <2>4, <2>5
<1>4. ASSUME NEW t \in 1 .. MaxTexts, SaveSent(t)
      PROVE  OnItsWay(p)'
  <2>1. /\ text[t].at = "sent" /\ LoadMessages(thread)
        /\ history' = Append(history, [peer |-> text[t].to, direction |-> "sent", n |-> t])
    BY <1>4 DEF SaveSent, IsSent
  <2>2. text[t].to \in Peers
    BY <2>1 DEF IInv, TextsOK
  <2>3. [peer |-> text[t].to, direction |-> "sent", n |-> t] \in Row
    BY <2>2, InboxAssumption DEF Row
  <2>4. asked'[p] > 0
    BY <2>1, <1>t DEF LoadMessages
  <2> QED
    BY <2>1, <2>3, <2>4, AppendedRow DEF OnItsWay
<1>5. CASE Emit
  <2>1. CASE saved = <<p>>
    <3>1. asked'[p] > 0 /\ UNCHANGED history
      BY <1>5, <1>t, <2>1 DEF Emit, OnMessage, LoadMessages
    <3> QED
      BY <1>1, <3>1 DEF OnItsWay
  <2>2. CASE saved # <<p>>
    <3>1. UNCHANGED <<history, answers>>
      BY <1>5 DEF Emit
    <3>2. asked[p] > 0 => asked'[p] > 0
      <4>1. UNCHANGED asked \/ LoadMessages(p)
        BY <1>5 DEF Emit, OnMessage
      <4> QED
        BY <4>1, <1>t DEF LoadMessages
    <3> QED
      BY <2>2, <3>1, <3>2, <1>1 DEF OnItsWay
  <2> QED
    BY <2>1, <2>2
<1>6. ASSUME NEW q \in Peers, OpenThread(q)
      PROVE  thread' # p \/ OnItsWay(p)'
  <2>1. thread' = q /\ UNCHANGED <<history, saved, answers>> /\ LoadMessages(q)
    BY <1>6 DEF OpenThread
  <2>2. q = p => asked'[p] > 0
    BY <2>1, <1>t DEF LoadMessages
  <2> QED
    BY <2>1, <2>2, <1>1 DEF OnItsWay
<1>7. ASSUME NEW q \in Peers, ReadHistory(q)
      PROVE  OnItsWay(p)'
  <2>1. /\ asked' = [asked EXCEPT ![q] = asked[q] - 1]
        /\ answers' = answers \union {NewestRows(q)} /\ UNCHANGED <<history, saved>>
    BY <1>7 DEF ReadHistory
  <2>2. CASE q = p
    <3>1. PICK a \in answers' : a = NewestRows(p)
      BY <2>1, <2>2
    <3>2. NewestIn(p, a)
      BY <3>1, NewestIsRead DEF OnItsWay
    <3> QED
      BY <3>2, <2>1, <1>1 DEF OnItsWay
  <2>3. CASE q # p
    <3>1. asked'[p] = asked[p]
      BY <2>1, <2>3, <1>t
    <3> QED
      BY <3>1, <2>1, <1>1 DEF OnItsWay
  <2> QED
    BY <2>2, <2>3
<1>8. CASE Show
  <2>1. PICK a \in answers : shown' = a /\ answers' = answers \ {a}
    BY <1>8 DEF Show
  <2>2. UNCHANGED <<history, saved, asked>>
    BY <1>8 DEF Show
  <2>3. NewestIn(p, a) => NewestIn(p, shown)'
    BY <2>1, <2>2, <1>1 DEF NewestIn, RowsOf, RowsFrom
  <2> QED
    BY <2>1, <2>2, <2>3, <1>1 DEF OnItsWay
<1>9. CASE CloseThread \/ Restart
  BY <1>9, <1>t DEF CloseThread, Restart
<1> QED
  BY <1>2, <1>3, <1>4, <1>5, <1>6, <1>7, <1>8, <1>9
  DEF Next, vars, loopVars, windowVars, Seals, AddContact, Arrives, Refuse, Decrypt, PersistFails, SaveFails,
      SendCurrent, HandleSendText

\* save_message comes before the event, and the listener asks only for what
\* was saved: the row that is announced is there to be read.
LEMMA AnnouncedIsThere ==
  ASSUME IInv, \A p \in Peers : saved = <<p>> => RowsOf(p) # {}, [Next]_vars, NEW p \in Peers, saved' = <<p>>
  PROVE  RowsOf(p)' # {}
<1>1. CASE SaveIncoming
  <2> DEFINE e == Head(incoming)
  <2>1. /\ incoming \in Seq(Envelope) /\ incoming # << >>
        /\ history' = Append(history, [peer |-> e.from, direction |-> "received", n |-> e.n])
        /\ saved' = <<e.from>>
    BY <1>1 DEF SaveIncoming, IInv, LoopOK
  <2>2. e \in Envelope
    BY <2>1
  <2> HIDE DEF e
  <2>3. [peer |-> e.from, direction |-> "received", n |-> e.n] \in Row /\ e.from = p
    BY <2>1, <2>2, InboxAssumption DEF Envelope, Row
  <2> QED
    BY <2>1, <2>3, AppendedRow
<1>2. ASSUME NEW t \in 1 .. MaxTexts, SaveSent(t)
      PROVE  RowsOf(p)' # {}
  <2>1. /\ text[t].at = "sent" /\ saved' = saved
        /\ history' = Append(history, [peer |-> text[t].to, direction |-> "sent", n |-> t])
    BY <1>2 DEF SaveSent, IsSent
  <2>2. [peer |-> text[t].to, direction |-> "sent", n |-> t] \in Row
    BY <2>1, InboxAssumption DEF Row, IInv, TextsOK
  <2> QED
    BY <2>1, <2>2, AppendedRow
<1>3. CASE UNCHANGED <<history, saved>>
  BY <1>3 DEF RowsOf
<1>4. CASE saved' = << >>
  BY <1>4
<1> QED
  BY <1>1, <1>2, <1>3, <1>4
  DEF Next, vars, loopVars, windowVars, Seals, AddContact, Arrives, Refuse, Decrypt, PersistFails, SaveFails,
      Emit, OpenThread, CloseThread, ReadHistory, Show, SendCurrent, HandleSendText, Restart

\* The message-received event, loadMessages and get_history: while a thread
\* stays open, no step loses the announcement of its newest row. Until that
\* row is on the screen it is announced, asked for, or in an answer, however
\* many rows are saved meanwhile: AnnouncedIsShown could fail only where the
\* event, the read or the answer never comes.
THEOREM AnnouncementsStand ==
  Spec => /\ [](\A p \in Peers : saved = <<p>> => OnItsWay(p))
          /\ [][\A p \in Peers :
                  thread = p /\ OnItsWay(p) => thread' # p \/ OnItsWay(p)' \/ NewestIn(p, shown)']_vars
<1> DEFINE There == \A p \in Peers : saved = <<p>> => RowsOf(p) # {}
           Announced == \A p \in Peers : saved = <<p>> => OnItsWay(p)
<1>1. Init => There
  BY DEF Init
<1>2. IInv /\ There /\ [Next]_vars => There'
  BY AnnouncedIsThere
<1>3. There => Announced
  BY DEF OnItsWay
<1>4. IInv /\ [Next]_vars =>
        [\A p \in Peers :
           thread = p /\ OnItsWay(p) => thread' # p \/ OnItsWay(p)' \/ NewestIn(p, shown)']_vars
  BY StaysOnItsWay
<1> HIDE DEF There, Announced
<1>5. Spec => []Announced
  BY <1>1, <1>2, <1>3, Invariance, PTL DEF Spec
<1>6. Spec => [][\A p \in Peers :
                   thread = p /\ OnItsWay(p) => thread' # p \/ OnItsWay(p)' \/ NewestIn(p, shown)']_vars
  BY <1>4, Invariance, PTL DEF Spec
<1> QED
  BY <1>5, <1>6 DEF Announced
================================================================================
