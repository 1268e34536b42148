------------------------ MODULE SessionManagerProofs ------------------------
(***************************************************************************)
(* Theorems about SessionManager, for all users, bounds, longest jumps and *)
(* widths of the counters.                                                 *)
(*                                                                         *)
(* Why nothing is handed over twice: a session's row is past every         *)
(* envelope the session has handed over, memory is never behind its row,   *)
(* and no session on a spent chain is ever raised anew: a responder's      *)
(* secret took its one-time prekey out of the pool, and an initiator's has *)
(* an ephemeral key that is not used again.                                *)
(***************************************************************************)
EXTENDS SessionManager, TLAPS

R == INSTANCE DoubleRatchetProofs WITH Secrets <- RootSecret

Session  == [origin : Origin, ratchet : Ratchet]
Sessions == UNION {[S -> Session] : S \in SUBSET Users}
Rows     == UNION {[S -> Row] : S \in SUBSET Users}

MapsTyped == mem \in [Users -> Sessions] /\ store \in [Users -> Rows]

KeysTyped ==
  /\ pool \in [Users -> SUBSET Nat] /\ published \in [Users -> Nat]
  /\ run \in [Users -> Nat] /\ ephs \in [Users -> Nat]
  /\ accepted \in [Users -> SUBSET RootSecret]

MessagesTyped ==
  /\ sent \in [Users -> [Users -> Nat]]
  /\ net \in SUBSET Envelope
  /\ inbox \in [Users -> Seq(Envelope)]
  /\ failures \in 0 .. MaxFailures

\* The pool holds nothing but the key of the present run, and nobody has
\* used a key of a later one.
PoolOK ==
  \A u \in Users :
    /\ run[u] >= 1 /\ published[u] >= 1 /\ published[u] <= run[u]
    /\ pool[u] \subseteq {run[u]}
    /\ \A s \in accepted[u] : s.otpk <= run[u]

\* The ratchet or row r is one of u's: raised by u, with a one-time prekey
\* and one of the ephemeral keys E counts, or from a secret u accepted.
FromX3DH(r, u, E, Acc) ==
  \E s \in RootSecret :
    \/ /\ r.sendKey.chain = ChainTowards(s, "Initiator")
       /\ r.recvKey.chain = ChainTowards(s, "Responder")
       /\ s.init = u /\ s.otpk # NoOtpk /\ s.eph <= E
    \/ /\ r.sendKey.chain = ChainTowards(s, "Responder")
       /\ r.recvKey.chain = ChainTowards(s, "Initiator")
       /\ s \in Acc

\* The row q has the chains of the ratchet r and is not ahead of it.
Behind(q, r) ==
  /\ q.sendKey.chain = r.sendKey.chain /\ q.recvKey.chain = r.recvKey.chain
  /\ q.sendKey.step <= r.sendKey.step /\ q.recvCounter <= r.recvCounter

RowsOK ==
  \A u \in Users : \A v \in DOMAIN store[u] :
    LET q == store[u][v].state
    IN  q.recvKey.step = q.recvCounter /\ FromX3DH(q, u, ephs[u], accepted[u])

SessionsOK ==
  \A u \in Users : \A v \in DOMAIN mem[u] :
    /\ R!Regular(mem[u][v].ratchet)
    /\ v \in DOMAIN store[u] /\ Behind(store[u][v].state, mem[u][v].ratchet)

\* An initiator's envelope has a one-time prekey in its secret; a first
\* message was sealed with the first key of the secret its data name.
NetOK ==
  \A e \in net :
    /\ e.key.chain.dir = "InitiatorToResponder" => e.key.chain.secret.otpk # NoOtpk
    /\ e.init # NoInit =>
         /\ e.counter = 1
         /\ e.key = [chain |-> ChainTowards([init |-> e.from, resp |-> e.to,
                                             eph |-> e.init.eph, otpk |-> e.init.otpk],
                                            "Initiator"),
                     index |-> 1]

\* No session on chain c will be raised anew.
Claimed(c, E, Acc, u) ==
  \/ c.dir = "InitiatorToResponder" /\ c.secret \in Acc
  \/ c.dir = "ResponderToInitiator" /\ c.secret.init = u /\ c.secret.eph <= E

\* The row q, and the keys S kept in memory, do not open e any more.
Spent(e, q, S) ==
  q.recvKey.chain = e.key.chain => e.counter <= q.recvCounter /\ e.counter \notin S

KeptKeys(u, v) == IF v \in DOMAIN mem[u] THEN DOMAIN mem[u][v].ratchet.skipped ELSE {}

InboxOK ==
  \A u \in Users : \A i \in 1 .. Len(inbox[u]) :
    LET e == inbox[u][i]
    IN  /\ e \in net
        /\ Claimed(e.key.chain, ephs[u], accepted[u], u)
        /\ e.from \in DOMAIN store[u] =>
             Spent(e, store[u][e.from].state, KeptKeys(u, e.from))

IInv ==
  /\ MapsTyped /\ KeysTyped /\ MessagesTyped
  /\ PoolOK /\ OtpkUsedOnce /\ RowsOK /\ SessionsOK /\ NetOK /\ InboxOK /\ DeliveredOnce

-----------------------------------------------------------------------------
(* The ratchet's lemmas, for the operators as SessionManager names them    *)

\* The widths of the counters are as the ratchet's lemmas assume.
LEMMA Widths == R!RatchetAssumption
BY SessionAssumption DEF R!RatchetAssumption

\* An instance's operators have the bodies of the definitions here.
LEMMA SameTypes ==
  /\ Counter = R!Counter /\ Chain = R!Chain /\ MessageKey = R!MessageKey
  /\ Ratchet = R!Ratchet /\ RatchetState = R!RatchetState /\ RatchetRole = R!RatchetRole
BY DEF Counter, R!Counter, Chain, R!Chain, MessageKey, R!MessageKey, Ratchet, R!Ratchet,
       RatchetState, R!RatchetState, RatchetRole, R!RatchetRole, ChainKey, R!ChainKey,
       SkippedKeys, R!SkippedKeys

\* The same of the operators on ratchets and rows.
LEMMA SameOperators ==
  ASSUME NEW r, NEW c
  PROVE  /\ NewRatchet(r, c) = R!NewRatchet(r, c)
         /\ ChainTowards(r, c) = R!ChainTowards(r, c) /\ Opposite(c) = R!Opposite(c)
         /\ ExportState(r) = R!ExportState(r) /\ Restore(r) = R!Restore(r)
         /\ SendStep(r) = R!SendStep(r)
         /\ KeyFor(r, c) = R!KeyFor(r, c) /\ (HasKeyFor(r, c) <=> R!HasKeyFor(r, c))
         /\ AfterDecrypt(r, c) = R!AfterDecrypt(r, c)
BY DEF NewRatchet, R!NewRatchet, ChainTowards, R!ChainTowards, Opposite, R!Opposite,
       NoKeys, R!NoKeys, ExportState, R!ExportState, Restore, R!Restore,
       SendStep, R!SendStep, KeyAhead, R!KeyAhead, KeyFor, R!KeyFor,
       HasKeyFor, R!HasKeyFor, IsAhead, R!IsAhead, IsLate, R!IsLate,
       AfterDecrypt, R!AfterDecrypt, AdvanceTo, R!AdvanceTo, TakeSkipped, R!TakeSkipped

\* The first counter is 1.
LEMMA OneRemains ==
  ASSUME NEW M \in Nat, M > 1
  PROVE  1 % M = 1
OBVIOUS

\* Counters are natural numbers.
LEMMA CounterIsNat == Counter \subseteq Nat
BY R!CounterIsNat, Widths, SameTypes

\* A new ratchet: the two chains of its role, at step 0, and no keys kept.
LEMMA NewRatchetFacts ==
  ASSUME NEW s \in RootSecret, NEW role \in RatchetRole
  PROVE  LET r == NewRatchet(s, role)
         IN  /\ r \in Ratchet /\ R!Regular(r)
             /\ r.sendKey.chain = ChainTowards(s, role)
             /\ r.recvKey.chain = ChainTowards(s, Opposite(role))
             /\ r.sendKey.step = 0 /\ r.recvKey.step = 0
             /\ r.sendCounter = 0 /\ r.recvCounter = 0
             /\ DOMAIN r.skipped = {}
<1>1. NewRatchet(s, role) \in Ratchet
  BY R!NewRatchetType, Widths, SameTypes, SameOperators
<1>2. LET r == NewRatchet(s, role)
      IN  /\ r.sendKey.chain = ChainTowards(s, role)
          /\ r.recvKey.chain = ChainTowards(s, Opposite(role))
          /\ r.sendKey.step = 0 /\ r.recvKey.step = 0
          /\ r.sendCounter = 0 /\ r.recvCounter = 0
          /\ DOMAIN r.skipped = {}
  BY DEF NewRatchet, NoKeys
<1> QED
  BY <1>1, <1>2 DEF R!Regular

\* A row keeps both chains and both counters, but none of the kept keys.
LEMMA ExportFacts ==
  ASSUME NEW r \in Ratchet
  PROVE  /\ ExportState(r) \in RatchetState
         /\ ExportState(r).sendKey = r.sendKey /\ ExportState(r).sendCounter = r.sendCounter
         /\ ExportState(r).recvKey = r.recvKey /\ ExportState(r).recvCounter = r.recvCounter
BY DEF ExportState, Ratchet, RatchetState

\* A ratchet restored from a row has its chains and no keys kept.
LEMMA RestoreFacts ==
  ASSUME NEW q \in RatchetState
  PROVE  /\ Restore(q) \in Ratchet
         /\ Restore(q).sendKey = q.sendKey /\ Restore(q).sendCounter = q.sendCounter
         /\ Restore(q).recvKey = q.recvKey /\ Restore(q).recvCounter = q.recvCounter
         /\ DOMAIN Restore(q).skipped = {}
<1>1. Restore(q) \in Ratchet
  BY R!ExportRestoreType, Widths, SameTypes, SameOperators
<1> QED
  BY <1>1 DEF Restore, NoKeys

\* What a sending step changes, and what it puts on the wire.
LEMMA SendFacts ==
  ASSUME NEW r \in Ratchet
  PROVE  /\ SendStep(r) \in Ratchet
         /\ SendStep(r).sendKey.chain = r.sendKey.chain
         /\ SendStep(r).sendKey.step = r.sendKey.step + 1
         /\ SendStep(r).recvKey = r.recvKey /\ SendStep(r).recvCounter = r.recvCounter
         /\ SendStep(r).skipped = r.skipped
         /\ Seal(r).counter \in Counter
         /\ Seal(r).counter = (r.sendCounter + 1) % CounterMod
         /\ Seal(r).key \in MessageKey
         /\ Seal(r).key = [chain |-> r.sendKey.chain, index |-> r.sendKey.step + 1]
<1>1. /\ SendStep(r) \in Ratchet
      /\ SendStep(r).sendKey.chain = r.sendKey.chain
      /\ SendStep(r).sendKey.step = r.sendKey.step + 1
      /\ SendStep(r).sendCounter = (r.sendCounter + 1) % CounterMod
      /\ SendStep(r).recvKey = r.recvKey /\ SendStep(r).recvCounter = r.recvCounter
      /\ SendStep(r).skipped = r.skipped
  <2> DEFINE n == R!SendStep(r)
  <2>1. r \in R!Ratchet /\ n = R!SendStep(r)
    BY SameTypes
  <2> HIDE DEF n
  <2>2. /\ n \in R!Ratchet
        /\ n.sendKey.chain = r.sendKey.chain /\ n.sendKey.step = r.sendKey.step + 1
        /\ n.sendCounter = (r.sendCounter + 1) % CounterMod
        /\ n.recvKey = r.recvKey /\ n.recvCounter = r.recvCounter /\ n.skipped = r.skipped
    BY <2>1, R!SendStepFields, Widths
  <2>3. SendStep(r) = n
    BY <2>1, SameOperators
  <2> QED
    BY <2>2, <2>3, SameTypes
<1>2. SendStep(r).sendCounter \in Counter
  BY <1>1 DEF Ratchet
<1>3. Seal(r).counter = SendStep(r).sendCounter
  BY DEF Seal
<1>4. Seal(r).key = [chain |-> r.sendKey.chain, index |-> r.sendKey.step + 1]
  BY DEF Seal, KeyAhead
<1>5. r.sendKey.chain \in Chain /\ r.sendKey.step + 1 \in Nat
  BY DEF Ratchet, ChainKey
<1> QED
  BY <1>1, <1>2, <1>3, <1>4, <1>5 DEF MessageKey

\* What decrypt does to a ratchet that has a key for counter c.
LEMMA DecryptFacts ==
  ASSUME NEW r \in Ratchet, R!Regular(r), NEW c \in Counter, HasKeyFor(r, c)
  PROVE  LET n == AfterDecrypt(r, c)
         IN  /\ KeyFor(r, c) = [chain |-> r.recvKey.chain, index |-> c]
             /\ n \in Ratchet /\ R!Regular(n)
             /\ n.sendKey = r.sendKey /\ n.recvKey.chain = r.recvKey.chain
             /\ n.recvCounter >= r.recvCounter /\ n.recvCounter >= c
             /\ \A d \in DOMAIN n.skipped : d # c /\ (d \in DOMAIN r.skipped \/ d > r.recvCounter)
<1>1. r \in R!Ratchet /\ c \in R!Counter /\ R!HasKeyFor(r, c)
  BY SameTypes, SameOperators
<1>2. R!KeyFor(r, c) = [chain |-> r.recvKey.chain, index |-> c]
  BY <1>1, R!KeyForRegular, Widths
<1>3. LET n == R!AfterDecrypt(r, c)
      IN  /\ n \in R!Ratchet /\ R!Regular(n)
          /\ n.sendKey = r.sendKey /\ n.recvKey.chain = r.recvKey.chain
          /\ n.recvCounter >= r.recvCounter /\ n.recvCounter >= c
          /\ \A d \in DOMAIN n.skipped : d # c /\ (d \in DOMAIN r.skipped \/ d > r.recvCounter)
  <2> DEFINE n == R!AfterDecrypt(r, c)
  <2>1. n = R!AfterDecrypt(r, c)
    OBVIOUS
  <2> HIDE DEF n
  <2>2. /\ n \in R!Ratchet /\ R!Regular(n)
        /\ n.sendKey = r.sendKey /\ n.recvKey.chain = r.recvKey.chain
        /\ n.recvCounter >= r.recvCounter /\ n.recvCounter >= c
        /\ \A d \in DOMAIN n.skipped : d # c /\ (d \in DOMAIN r.skipped \/ d > r.recvCounter)
    BY <1>1, <2>1, R!AfterDecryptRegular, Widths
  <2> QED
    BY <2>1, <2>2
<1>4. KeyFor(r, c) = R!KeyFor(r, c) /\ AfterDecrypt(r, c) = R!AfterDecrypt(r, c)
  BY SameOperators
<1> QED
  BY <1>2, <1>3, <1>4, SameTypes

-----------------------------------------------------------------------------
(* Maps from peers to sessions and to rows                                 *)

\* What is in a map of sessions or rows.
LEMMA MapFacts ==
  /\ \A f \in Sessions : DOMAIN f \subseteq Users /\ \A w \in DOMAIN f : f[w] \in Session
  /\ \A f \in Rows : DOMAIN f \subseteq Users /\ \A w \in DOMAIN f : f[w] \in Row
BY DEF Sessions, Rows

\* Putting in and dropping keep such a map.
LEMMA MapsTypedBy ==
  /\ Empty \in Sessions /\ Empty \in Rows
  /\ \A f \in Sessions : \A v \in Users : Drop(f, v) \in Sessions
  /\ \A f \in Sessions : \A v \in Users : \A x \in Session : Put(f, v, x) \in Sessions
  /\ \A f \in Rows : \A v \in Users : \A x \in Row : Put(f, v, x) \in Rows
<1>1. Empty \in [{} -> Session] /\ Empty \in [{} -> Row] /\ {} \in SUBSET Users
  BY DEF Empty
<1>2. Empty \in Sessions /\ Empty \in Rows
  BY <1>1, Zenon DEF Sessions, Rows
<1>3. ASSUME NEW f \in Sessions, NEW v \in Users PROVE Drop(f, v) \in Sessions
  <2>1. PICK S \in SUBSET Users : f \in [S -> Session]
    BY DEF Sessions
  <2>2. Drop(f, v) \in [S \ {v} -> Session] /\ S \ {v} \in SUBSET Users
    BY <2>1 DEF Drop
  <2> QED
    BY <2>2, Zenon DEF Sessions
<1>4. ASSUME NEW f \in Sessions, NEW v \in Users, NEW x \in Session
      PROVE  Put(f, v, x) \in Sessions
  <2>1. PICK S \in SUBSET Users : f \in [S -> Session]
    BY DEF Sessions
  <2>2. Put(f, v, x) \in [S \union {v} -> Session] /\ S \union {v} \in SUBSET Users
    BY <2>1 DEF Put
  <2> QED
    BY <2>2, Zenon DEF Sessions
<1>5. ASSUME NEW f \in Rows, NEW v \in Users, NEW x \in Row
      PROVE  Put(f, v, x) \in Rows
  <2>1. PICK S \in SUBSET Users : f \in [S -> Row]
    BY DEF Rows
  <2>2. Put(f, v, x) \in [S \union {v} -> Row] /\ S \union {v} \in SUBSET Users
    BY <2>1 DEF Put
  <2> QED
    BY <2>2, Zenon DEF Rows
<1> QED
  BY <1>2, <1>3, <1>4, <1>5

\* A row written over a row is the only one.
LEMMA PutTwice ==
  ASSUME NEW f, NEW v, NEW x, NEW y
  PROVE  Put(Put(f, v, x), v, y) = Put(f, v, y)
BY DEF Put

\* Putting back what is there changes nothing.
LEMMA PutItself ==
  ASSUME NEW f \in Rows, NEW v \in DOMAIN f
  PROVE  Put(f, v, f[v]) = f
<1>1. PICK S \in SUBSET Users : f \in [S -> Row]
  BY DEF Rows
<1>2. DOMAIN f \union {v} = DOMAIN f /\ f = [w \in DOMAIN f |-> f[w]]
  BY <1>1
<1>3. [w \in DOMAIN f |-> IF w = v THEN f[v] ELSE f[w]] = [w \in DOMAIN f |-> f[w]]
  OBVIOUS
<1> QED
  BY <1>2, <1>3 DEF Put

\* Saving t puts its row there, with the origin of the row that was there.
RowOver(row, t) == [origin |-> row.origin, state |-> ExportState(t.ratchet)]
RowOf(t)        == [origin |-> t.origin, state |-> ExportState(t.ratchet)]

\* The upsert over a row keeps the row's origin.
LEMMA SaveOver ==
  ASSUME NEW f, NEW v, NEW row, NEW t
  PROVE  Save(Put(f, v, row), v, t) = Put(f, v, RowOver(row, t))
<1>1. v \in DOMAIN Put(f, v, row) /\ Put(f, v, row)[v] = row
  BY DEF Put
<1>2. Save(Put(f, v, row), v, t) = Put(Put(f, v, row), v, RowOver(row, t))
  BY <1>1 DEF Save, RowOver
<1> QED
  BY <1>2, PutTwice

-----------------------------------------------------------------------------
(* A session put in place                                                  *)

\* Session s and row may become those of u with v, when E counts u's
\* ephemeral keys, Acc are the secrets u accepted, and Q is u's inbox.
Fits(u, v, s, row, E, Acc, Q) ==
  /\ s \in Session /\ row \in Row
  /\ R!Regular(s.ratchet) /\ Behind(row.state, s.ratchet)
  /\ row.state.recvKey.step = row.state.recvCounter
  /\ FromX3DH(row.state, u, E, Acc)
  /\ \A i \in 1 .. Len(Q) :
       Q[i].from = v => Spent(Q[i], row.state, DOMAIN s.ratchet.skipped)

\* Every envelope in the inboxes was there before, or is a new one that u
\* has from v.
OldMail(u, v) ==
  \A w \in Users : \A i \in 1 .. Len(inbox'[w]) :
    \/ \E j \in 1 .. Len(inbox[w]) : inbox[w][j] = inbox'[w][i]
    \/ /\ w = u /\ inbox'[w][i].from = v /\ inbox'[w][i] \in net'
       /\ Claimed(inbox'[w][i].key.chain, ephs'[w], accepted'[w], w)

\* More ephemeral keys and more accepted secrets take nothing away.
LEMMA FromX3DHGrows ==
  ASSUME NEW r, NEW u, NEW E \in Nat, NEW F \in Nat, NEW Acc, NEW Bcc, E <= F, Acc \subseteq Bcc,
         FromX3DH(r, u, E, Acc)
  PROVE  FromX3DH(r, u, F, Bcc)
<1>1. \A s \in RootSecret : s.eph \in Nat
  BY DEF RootSecret
<1> QED
  BY <1>1 DEF FromX3DH

\* Nor from what is claimed.
LEMMA ClaimedGrows ==
  ASSUME NEW c \in Chain, NEW u, NEW E \in Nat, NEW F \in Nat, NEW Acc, NEW Bcc,
         E <= F, Acc \subseteq Bcc, Claimed(c, E, Acc, u)
  PROVE  Claimed(c, F, Bcc, u)
<1>1. c.secret.eph \in Nat
  BY DEF Chain, RootSecret
<1> QED
  BY <1>1 DEF Claimed

\* What was handed over is an envelope.
LEMMA InboxTypes ==
  ASSUME IInv, NEW u \in Users, NEW i \in 1 .. Len(inbox[u])
  PROVE  /\ inbox[u][i] \in Envelope /\ inbox[u][i].key.chain \in Chain
         /\ inbox[u][i].counter \in Nat
<1>1. inbox[u] \in Seq(Envelope)
  BY DEF IInv, MessagesTyped
<1>2. inbox[u][i] \in Envelope
  BY <1>1
<1> QED
  BY <1>2, CounterIsNat DEF Envelope, MessageKey

\* A session and a row that fit, put in place, keep what IInv says of the
\* sessions, the rows and the inboxes.
LEMMA Install ==
  ASSUME IInv, NEW u \in Users, NEW v \in Users, NEW s, NEW row,
         mem' = [mem EXCEPT ![u] = Put(@, v, s)],
         store' = [store EXCEPT ![u] = Put(@, v, row)],
         Fits(u, v, s, row, ephs'[u], accepted'[u], inbox'[u]),
         KeysTyped', net \subseteq net', OldMail(u, v),
         \A w \in Users : ephs[w] <= ephs'[w] /\ accepted[w] \subseteq accepted'[w]
  PROVE  MapsTyped' /\ RowsOK' /\ SessionsOK' /\ InboxOK'
<1>0. /\ s \in Session /\ row \in Row
      /\ mem \in [Users -> Sessions] /\ store \in [Users -> Rows]
  BY DEF Fits, IInv, MapsTyped
<1>1. MapsTyped'
  <2>1. Put(mem[u], v, s) \in Sessions /\ Put(store[u], v, row) \in Rows
    BY <1>0, MapsTypedBy
  <2> QED
    BY <1>0, <2>1 DEF MapsTyped
<1>2. /\ mem'[u] = Put(mem[u], v, s) /\ store'[u] = Put(store[u], v, row)
      /\ \A w \in Users \ {u} : mem'[w] = mem[w] /\ store'[w] = store[w]
  BY <1>0
<1>3. /\ DOMAIN mem'[u] = DOMAIN mem[u] \union {v} /\ mem'[u][v] = s
      /\ DOMAIN store'[u] = DOMAIN store[u] \union {v} /\ store'[u][v] = row
      /\ \A x \in DOMAIN mem[u] : x # v => mem'[u][x] = mem[u][x]
      /\ \A x \in DOMAIN store[u] : x # v => store'[u][x] = store[u][x]
  BY <1>2 DEF Put
<1>4. \A w \in Users : /\ ephs[w] \in Nat /\ ephs'[w] \in Nat
                       /\ ephs[w] <= ephs'[w] /\ accepted[w] \subseteq accepted'[w]
  BY DEF IInv, KeysTyped
<1>5. \A w \in Users, x \in Users : ~(w = u /\ x = v) =>
        /\ x \in DOMAIN mem'[w] <=> x \in DOMAIN mem[w]
        /\ x \in DOMAIN store'[w] <=> x \in DOMAIN store[w]
        /\ x \in DOMAIN mem[w] => mem'[w][x] = mem[w][x]
        /\ x \in DOMAIN store[w] => store'[w][x] = store[w][x]
  BY <1>2, <1>3
<1>6. \A w \in Users : DOMAIN mem'[w] \subseteq Users /\ DOMAIN store'[w] \subseteq Users
  BY <1>1, MapFacts DEF MapsTyped
<1>7. RowsOK'
  <2> SUFFICES ASSUME NEW w \in Users, NEW x \in DOMAIN store'[w]
               PROVE  /\ store'[w][x].state.recvKey.step = store'[w][x].state.recvCounter
                      /\ FromX3DH(store'[w][x].state, w, ephs'[w], accepted'[w])
    BY DEF RowsOK
  <2>1. CASE w = u /\ x = v
    BY <2>1, <1>3 DEF Fits
  <2>2. CASE ~(w = u /\ x = v)
    <3>1. x \in DOMAIN store[w] /\ store'[w][x] = store[w][x]
      BY <2>2, <1>5, <1>6
    <3>2. /\ store[w][x].state.recvKey.step = store[w][x].state.recvCounter
          /\ FromX3DH(store[w][x].state, w, ephs[w], accepted[w])
      BY <3>1 DEF IInv, RowsOK
    <3> QED
      BY <3>1, <3>2, <1>4, FromX3DHGrows
  <2> QED
    BY <2>1, <2>2
<1>8. SessionsOK'
  <2> SUFFICES ASSUME NEW w \in Users, NEW x \in DOMAIN mem'[w]
               PROVE  /\ R!Regular(mem'[w][x].ratchet)
                      /\ x \in DOMAIN store'[w]
                      /\ Behind(store'[w][x].state, mem'[w][x].ratchet)
    BY DEF SessionsOK
  <2>1. CASE w = u /\ x = v
    BY <2>1, <1>3 DEF Fits
  <2>2. CASE ~(w = u /\ x = v)
    <3>1. x \in DOMAIN mem[w] /\ mem'[w][x] = mem[w][x]
      BY <2>2, <1>5, <1>6
    <3>2. /\ R!Regular(mem[w][x].ratchet)
          /\ x \in DOMAIN store[w] /\ Behind(store[w][x].state, mem[w][x].ratchet)
      BY <3>1 DEF IInv, SessionsOK
    <3>3. x \in DOMAIN store'[w] /\ store'[w][x] = store[w][x]
      BY <2>2, <3>2, <1>5, <1>6
    <3> QED
      BY <3>1, <3>2, <3>3
  <2> QED
    BY <2>1, <2>2
<1>9. InboxOK'
  <2> SUFFICES ASSUME NEW w \in Users, NEW i \in 1 .. Len(inbox'[w]), NEW e, e = inbox'[w][i]
               PROVE  /\ e \in net'
                      /\ Claimed(e.key.chain, ephs'[w], accepted'[w], w)
                      /\ e.from \in DOMAIN store'[w] =>
                           Spent(e, store'[w][e.from].state, KeptKeys(w, e.from)')
    BY DEF InboxOK
  <2>1. CASE \E j \in 1 .. Len(inbox[w]) : inbox[w][j] = e
    <3>1. PICK j \in 1 .. Len(inbox[w]) : inbox[w][j] = e
      BY <2>1
    <3>2. /\ e \in net /\ Claimed(e.key.chain, ephs[w], accepted[w], w)
          /\ e.from \in DOMAIN store[w] => Spent(e, store[w][e.from].state, KeptKeys(w, e.from))
      BY <3>1 DEF IInv, InboxOK
    <3>3. e.key.chain \in Chain /\ e.from \in Users
      BY <3>1, InboxTypes DEF Envelope
    <3>4. Claimed(e.key.chain, ephs'[w], accepted'[w], w)
      BY <3>2, <3>3, <1>4, ClaimedGrows
    <3>5. ASSUME e.from \in DOMAIN store'[w]
          PROVE  Spent(e, store'[w][e.from].state, KeptKeys(w, e.from)')
      <4>1. CASE w = u /\ e.from = v
        BY <4>1, <1>3 DEF Fits, KeptKeys
      <4>2. CASE ~(w = u /\ e.from = v)
        BY <4>2, <3>2, <3>3, <3>5, <1>5 DEF KeptKeys
      <4> QED
        BY <4>1, <4>2
    <3> QED
      BY <3>2, <3>4, <3>5
  <2>2. CASE /\ w = u /\ e.from = v /\ e \in net'
             /\ Claimed(e.key.chain, ephs'[w], accepted'[w], w)
    BY <2>2, <1>3 DEF Fits, KeptKeys
  <2> QED
    BY <2>1, <2>2 DEF OldMail
<1> QED
  BY <1>1, <1>7, <1>8, <1>9

-----------------------------------------------------------------------------
(* The session an operation starts with                                    *)

\* A session in memory fits, with its row.
LEMMA FitsInMemory ==
  ASSUME IInv, NEW u \in Users, NEW v \in DOMAIN mem[u]
  PROVE  /\ v \in Users /\ store[u] = Put(store[u], v, store[u][v])
         /\ Fits(u, v, mem[u][v], store[u][v], ephs[u], accepted[u], inbox[u])
<1>1. mem[u] \in Sessions /\ store[u] \in Rows
  BY DEF IInv, MapsTyped
<1>2. v \in DOMAIN store[u]
  BY DEF IInv, SessionsOK
<1>3. v \in Users /\ mem[u][v] \in Session /\ store[u][v] \in Row
  BY <1>1, <1>2, MapFacts
<1>4. R!Regular(mem[u][v].ratchet) /\ Behind(store[u][v].state, mem[u][v].ratchet)
  BY DEF IInv, SessionsOK
<1>5. /\ store[u][v].state.recvKey.step = store[u][v].state.recvCounter
      /\ FromX3DH(store[u][v].state, u, ephs[u], accepted[u])
  BY <1>2 DEF IInv, RowsOK
<1>6. \A i \in 1 .. Len(inbox[u]) :
        inbox[u][i].from = v => Spent(inbox[u][i], store[u][v].state, DOMAIN mem[u][v].ratchet.skipped)
  BY <1>2 DEF IInv, InboxOK, KeptKeys
<1>7. store[u] = Put(store[u], v, store[u][v])
  BY <1>1, <1>2, PutItself
<1> QED
  BY <1>3, <1>4, <1>5, <1>6, <1>7 DEF Fits

\* A session reloaded from its row fits.
LEMMA FitsReloaded ==
  ASSUME IInv, NEW u \in Users, NEW v \in DOMAIN store[u]
  PROVE  /\ v \in Users /\ store[u] = Put(store[u], v, store[u][v])
         /\ Fits(u, v, RestoreSession(store[u][v]), store[u][v], ephs[u], accepted[u], inbox[u])
<1> DEFINE row == store[u][v]
           s == RestoreSession(store[u][v])
<1>1. store[u] \in Rows
  BY DEF IInv, MapsTyped
<1>2. v \in Users /\ row \in Row
  BY <1>1, MapFacts
<1>3. row.state \in RatchetState /\ row.origin \in Origin
  BY <1>2 DEF Row
<1>4. s.ratchet = Restore(row.state) /\ s = [origin |-> row.origin, ratchet |-> Restore(row.state)]
  BY DEF RestoreSession
<1>5. /\ row.state.recvKey.step = row.state.recvCounter
      /\ FromX3DH(row.state, u, ephs[u], accepted[u])
  BY DEF IInv, RowsOK
<1>6. \A i \in 1 .. Len(inbox[u]) :
        inbox[u][i].from = v => Spent(inbox[u][i], row.state, {})
  BY DEF IInv, InboxOK, Spent
<1>7. store[u] = Put(store[u], v, row)
  BY <1>1, PutItself
<1> HIDE DEF row, s
<1>8. /\ Restore(row.state) \in Ratchet
      /\ Restore(row.state).sendKey = row.state.sendKey
      /\ Restore(row.state).recvKey = row.state.recvKey
      /\ Restore(row.state).recvCounter = row.state.recvCounter
      /\ DOMAIN Restore(row.state).skipped = {}
  BY <1>3, RestoreFacts
<1>9. s \in Session
  BY <1>3, <1>4, <1>8 DEF Session
<1>10. row.state.recvCounter \in Nat /\ row.state.sendKey.step \in Nat
  BY <1>3, CounterIsNat DEF RatchetState, ChainKey
<1>11. R!Regular(s.ratchet) /\ Behind(row.state, s.ratchet)
  BY <1>4, <1>5, <1>8, <1>10 DEF R!Regular, Behind
<1>12. Fits(u, v, s, row, ephs[u], accepted[u], inbox[u])
  BY <1>2, <1>4, <1>5, <1>6, <1>8, <1>9, <1>11 DEF Fits
<1> QED
  BY <1>2, <1>7, <1>12 DEF row, s

\* A new session fits if nothing in the inbox is on its receiving chain.
LEMMA FitsNew ==
  ASSUME IInv, NEW u \in Users, NEW v \in Users,
         NEW origin \in Origin, NEW secret \in RootSecret, NEW E, NEW Acc,
         NEW s, s = NewSession(origin, secret), NEW row \in Row, row.state = ExportState(s.ratchet),
         IF origin = "Initiated" THEN secret.init = u /\ secret.otpk # NoOtpk /\ secret.eph <= E
                                 ELSE secret \in Acc,
         \A i \in 1 .. Len(inbox[u]) : inbox[u][i].key.chain # s.ratchet.recvKey.chain
  PROVE  Fits(u, v, s, row, E, Acc, inbox[u])
<1> DEFINE role == RoleForOrigin(origin)
<1>1. role \in RatchetRole /\ s.ratchet = NewRatchet(secret, role) /\ s.origin = origin
      /\ s = [origin |-> origin, ratchet |-> NewRatchet(secret, role)]
  BY DEF NewSession, RoleForOrigin, RatchetRole
<1>2. /\ s.ratchet \in Ratchet /\ R!Regular(s.ratchet)
      /\ s.ratchet.sendKey.chain = ChainTowards(secret, role)
      /\ s.ratchet.recvKey.chain = ChainTowards(secret, Opposite(role))
      /\ s.ratchet.sendKey.step = 0 /\ s.ratchet.recvKey.step = 0
      /\ s.ratchet.recvCounter = 0 /\ DOMAIN s.ratchet.skipped = {}
  BY <1>1, NewRatchetFacts
<1>3. s \in Session
  BY <1>1, <1>2 DEF Session
<1>4. /\ row.state.sendKey = s.ratchet.sendKey /\ row.state.recvKey = s.ratchet.recvKey
      /\ row.state.recvCounter = s.ratchet.recvCounter
  BY <1>2, ExportFacts
<1>5. Behind(row.state, s.ratchet) /\ row.state.recvKey.step = row.state.recvCounter
  BY <1>2, <1>4 DEF Behind
<1>6. FromX3DH(row.state, u, E, Acc)
  <2>1. CASE origin = "Initiated"
    <3>1. role = "Initiator" /\ Opposite(role) = "Responder"
      BY <2>1 DEF RoleForOrigin, Opposite
    <3> QED
      BY <2>1, <3>1, <1>2, <1>4 DEF FromX3DH
  <2>2. CASE origin # "Initiated"
    <3>1. role = "Responder" /\ Opposite(role) = "Initiator"
      BY <2>2 DEF RoleForOrigin, Opposite
    <3> QED
      BY <2>2, <3>1, <1>2, <1>4 DEF FromX3DH
  <2> QED
    BY <2>1, <2>2
<1>7. \A i \in 1 .. Len(inbox[u]) :
        inbox[u][i].from = v => Spent(inbox[u][i], row.state, DOMAIN s.ratchet.skipped)
  BY <1>4 DEF Spent
<1> QED
  BY <1>2, <1>3, <1>5, <1>6, <1>7 DEF Fits

\* The direction of a chain is that of the role that sends on it.
LEMMA ChainFields ==
  ASSUME NEW s, NEW role
  PROVE  /\ ChainTowards(s, role).secret = s
         /\ role = "Initiator" => ChainTowards(s, role).dir = "InitiatorToResponder"
         /\ role = "Responder" => ChainTowards(s, role).dir = "ResponderToInitiator"
BY DEF ChainTowards

\* First contact: the ephemeral key is a new one.
LEMMA FitsInitiated ==
  ASSUME IInv, NEW u \in Users, NEW v \in Users, v \notin DOMAIN store[u],
         NEW secret, secret = [init |-> u, resp |-> v, eph |-> ephs[u] + 1, otpk |-> published[v]],
         NEW s, s = NewSession("Initiated", secret)
  PROVE  /\ secret \in RootSecret
         /\ s.ratchet = NewRatchet(secret, "Initiator")
         /\ Save(store[u], v, s) = Put(store[u], v, RowOf(s))
         /\ Fits(u, v, s, RowOf(s), ephs[u] + 1, accepted[u], inbox[u])
<1>1. /\ ephs[u] \in Nat /\ ephs[u] + 1 \in Nat /\ published[v] \in Nat /\ published[v] >= 1
  BY DEF IInv, KeysTyped, PoolOK
<1>2. secret \in RootSecret
  BY <1>1 DEF RootSecret
<1>3. s = [origin |-> "Initiated", ratchet |-> NewRatchet(secret, "Initiator")]
  BY DEF NewSession, RoleForOrigin
<1>4. s.ratchet = NewRatchet(secret, "Initiator") /\ s.origin = "Initiated"
  BY <1>3
<1>5. /\ s.ratchet \in Ratchet
      /\ s.ratchet.recvKey.chain = ChainTowards(secret, "Responder")
  BY <1>2, <1>4, NewRatchetFacts DEF RatchetRole, Opposite
<1>6. RowOf(s) \in Row /\ RowOf(s).state = ExportState(s.ratchet)
  BY <1>4, <1>5, ExportFacts DEF RowOf, Row, Origin
<1>7. ASSUME NEW i \in 1 .. Len(inbox[u]), inbox[u][i].key.chain = s.ratchet.recvKey.chain
      PROVE  FALSE
  <2>1. Claimed(ChainTowards(secret, "Responder"), ephs[u], accepted[u], u)
    BY <1>5, <1>7 DEF IInv, InboxOK
  <2>2. ChainTowards(secret, "Responder").dir = "ResponderToInitiator"
        /\ ChainTowards(secret, "Responder").secret.eph = ephs[u] + 1
    BY ChainFields
  <2> QED
    BY <2>1, <2>2, <1>1 DEF Claimed
<1>8. secret.init = u /\ secret.otpk # NoOtpk /\ secret.eph <= ephs[u] + 1
  BY <1>1 DEF NoOtpk
<1>9. Fits(u, v, s, RowOf(s), ephs[u] + 1, accepted[u], inbox[u])
  BY <1>2, <1>6, <1>7, <1>8, FitsNew DEF Origin
<1>10. Save(store[u], v, s) = Put(store[u], v, RowOf(s))
  BY DEF Save, RowOf
<1> QED
  BY <1>2, <1>4, <1>9, <1>10

\* An accepted first message: its one-time prekey was not used before.
LEMMA FitsAccepted ==
  ASSUME IInv, NEW u \in Users, NEW e \in net,
         NEW secret, secret = RespondSecret(u, e),
         NEW s, s = NewSession("Accepted", secret)
  PROVE  /\ secret \in RootSecret
         /\ s.ratchet = NewRatchet(secret, "Responder")
         /\ \E row \in Row :
              /\ Save(store[u], e.from, s) = Put(store[u], e.from, row)
              /\ Fits(u, e.from, s, row, ephs[u], accepted[u] \union {secret}, inbox[u])
<1> DEFINE v == e.from
           row == IF v \in DOMAIN store[u] THEN RowOver(store[u][v], s) ELSE RowOf(s)
<1>1. e \in Envelope /\ v \in Users /\ e.init \in SessionInit
  BY DEF IInv, MessagesTyped, Envelope
<1>2. e.init.eph \in Nat /\ TakenOtpk(u, e.init) \in Nat
  BY <1>1 DEF SessionInit, TakenOtpk, NoOtpk
<1>3. secret \in RootSecret
  BY <1>1, <1>2 DEF RespondSecret, RootSecret
<1>4. s = [origin |-> "Accepted", ratchet |-> NewRatchet(secret, "Responder")]
  BY DEF NewSession, RoleForOrigin
<1>5. /\ s.ratchet = NewRatchet(secret, "Responder") /\ s.origin = "Accepted"
      /\ s.ratchet \in Ratchet
      /\ s.ratchet.recvKey.chain = ChainTowards(secret, "Initiator")
  BY <1>3, <1>4, NewRatchetFacts DEF RatchetRole, Opposite
<1>6. row \in Row /\ row.state = ExportState(s.ratchet)
  <2>1. v \in DOMAIN store[u] => store[u][v].origin \in Origin
    BY MapFacts DEF IInv, MapsTyped, Row
  <2> QED
    BY <2>1, <1>5, ExportFacts DEF RowOf, RowOver, Row, Origin
<1>7. Save(store[u], v, s) = Put(store[u], v, row)
  BY DEF Save, RowOf, RowOver
<1> HIDE DEF row
<1>8. ASSUME NEW i \in 1 .. Len(inbox[u]), inbox[u][i].key.chain = s.ratchet.recvKey.chain
      PROVE  FALSE
  <2> DEFINE c == ChainTowards(secret, "Initiator")
             f == inbox[u][i]
  <2>1. f.key.chain = c /\ f \in net /\ Claimed(f.key.chain, ephs[u], accepted[u], u)
    BY <1>5, <1>8 DEF IInv, InboxOK
  <2>2. c.dir = "InitiatorToResponder" /\ c.secret = secret
    BY ChainFields
  <2>3. secret.otpk # NoOtpk
    BY <2>1, <2>2 DEF IInv, NetOK
  <2>4. secret \in accepted[u]
    BY <2>1, <2>2 DEF Claimed
  <2>5. secret.otpk \notin pool[u]
    BY <2>3, <2>4 DEF IInv, OtpkUsedOnce
  <2>6. secret.otpk = TakenOtpk(u, e.init)
    BY DEF RespondSecret
  <2> QED
    BY <2>3, <2>5, <2>6 DEF TakenOtpk
<1>9. secret \in accepted[u] \union {secret}
  OBVIOUS
<1>10. Fits(u, v, s, row, ephs[u], accepted[u] \union {secret}, inbox[u])
  BY <1>1, <1>3, <1>6, <1>8, <1>9, FitsNew DEF Origin
<1> QED
  BY <1>3, <1>5, <1>6, <1>7, <1>10

-----------------------------------------------------------------------------
(* What sending and receiving do to a session                              *)

\* A sending step, with the row written or not.
LEMMA FitsSent ==
  ASSUME NEW u, NEW v, NEW s, NEW row, NEW E, NEW Acc, NEW Q \in Seq(Envelope),
         Fits(u, v, s, row, E, Acc, Q),
         NEW t, t = [s EXCEPT !.ratchet = SendStep(@)]
  PROVE  Fits(u, v, t, row, E, Acc, Q) /\ Fits(u, v, t, RowOver(row, t), E, Acc, Q)
<1>1. s \in Session /\ s.ratchet \in Ratchet /\ s.origin \in Origin /\ row \in Row
  BY DEF Fits, Session
<1>2. t = [origin |-> s.origin, ratchet |-> SendStep(s.ratchet)]
  BY <1>1 DEF Session
<1>3. /\ t.ratchet \in Ratchet /\ t.ratchet.sendKey.chain = s.ratchet.sendKey.chain
      /\ t.ratchet.sendKey.step = s.ratchet.sendKey.step + 1
      /\ t.ratchet.recvKey = s.ratchet.recvKey /\ t.ratchet.recvCounter = s.ratchet.recvCounter
      /\ t.ratchet.skipped = s.ratchet.skipped
  BY <1>1, <1>2, SendFacts
<1>4. t \in Session /\ R!Regular(t.ratchet)
  BY <1>1, <1>2, <1>3 DEF Session, Fits, R!Regular
<1> DEFINE q == ExportState(t.ratchet)
<1>5. RowOver(row, t) = [origin |-> row.origin, state |-> q]
  BY DEF RowOver
<1>6. /\ q \in RatchetState /\ q.sendKey = t.ratchet.sendKey
      /\ q.recvKey = t.ratchet.recvKey /\ q.recvCounter = t.ratchet.recvCounter
  BY <1>3, ExportFacts
<1> HIDE DEF q
<1>7. RowOver(row, t) \in Row /\ RowOver(row, t).state = q
  BY <1>1, <1>5, <1>6 DEF Row
<1>8. /\ s.ratchet.sendKey.step \in Nat /\ t.ratchet.sendKey.step \in Nat
      /\ s.ratchet.recvCounter \in Nat
      /\ row.state.sendKey.step \in Nat /\ row.state.recvCounter \in Nat
  BY <1>1, <1>3, CounterIsNat DEF Ratchet, Row, RatchetState, ChainKey
<1>9. Behind(row.state, t.ratchet) /\ Behind(q, t.ratchet)
  BY <1>3, <1>6, <1>8 DEF Behind, Fits
<1>10. q.recvKey.step = q.recvCounter
  BY <1>4, <1>6 DEF R!Regular
<1>11. q.sendKey.chain = row.state.sendKey.chain /\ q.recvKey.chain = row.state.recvKey.chain
  BY <1>9 DEF Behind
<1>12. FromX3DH(q, u, E, Acc)
  BY <1>11 DEF FromX3DH, Fits
<1>13. \A i \in 1 .. Len(Q) : Q[i].from = v =>
         Spent(Q[i], q, DOMAIN t.ratchet.skipped)
  <2> SUFFICES ASSUME NEW i \in 1 .. Len(Q), Q[i].from = v, q.recvKey.chain = Q[i].key.chain
               PROVE  Q[i].counter <= q.recvCounter /\ Q[i].counter \notin DOMAIN t.ratchet.skipped
    BY DEF Spent
  <2>1. Q[i].counter <= row.state.recvCounter /\ Q[i].counter \notin DOMAIN s.ratchet.skipped
    BY <1>11 DEF Fits, Spent
  <2> QED
    <3>1. Q[i] \in Envelope
      OBVIOUS
    <3>2. Q[i].counter \in Nat
      BY <3>1, CounterIsNat DEF Envelope
    <3>3. row.state.recvCounter <= s.ratchet.recvCounter
      BY DEF Fits, Behind
    <3>4. q.recvCounter = s.ratchet.recvCounter
      BY <1>3, <1>6
    <3> QED
      BY <2>1, <1>3, <1>8, <3>2, <3>3, <3>4
<1> QED
  BY <1>1, <1>3, <1>4, <1>7, <1>9, <1>10, <1>12, <1>13 DEF Fits

After(s, c) == [s EXCEPT !.ratchet = AfterDecrypt(s.ratchet, c)]

\* A key taken for counter c, with the row written or not.
LEMMA FitsTaken ==
  ASSUME NEW u, NEW v, NEW s, NEW row, NEW E, NEW Acc, NEW Q \in Seq(Envelope),
         Fits(u, v, s, row, E, Acc, Q),
         NEW c \in Counter, HasKeyFor(s.ratchet, c),
         NEW t, t = After(s, c)
  PROVE  /\ Fits(u, v, t, row, E, Acc, Q) /\ Fits(u, v, t, RowOver(row, t), E, Acc, Q)
         /\ RowOver(row, t).state.recvKey.chain = row.state.recvKey.chain
         /\ RowOver(row, t).state.recvCounter >= c /\ c \notin DOMAIN t.ratchet.skipped
<1>1. s \in Session /\ s.ratchet \in Ratchet /\ s.origin \in Origin /\ row \in Row
  BY DEF Fits, Session
<1>2. t = [origin |-> s.origin, ratchet |-> AfterDecrypt(s.ratchet, c)]
  BY <1>1 DEF Session, After
<1>3. R!Regular(s.ratchet)
  BY DEF Fits
<1>4. /\ KeyFor(s.ratchet, c) = [chain |-> s.ratchet.recvKey.chain, index |-> c]
      /\ t.ratchet \in Ratchet /\ R!Regular(t.ratchet)
      /\ t.ratchet.sendKey = s.ratchet.sendKey
      /\ t.ratchet.recvKey.chain = s.ratchet.recvKey.chain
      /\ t.ratchet.recvCounter >= s.ratchet.recvCounter /\ t.ratchet.recvCounter >= c
      /\ \A d \in DOMAIN t.ratchet.skipped :
           d # c /\ (d \in DOMAIN s.ratchet.skipped \/ d > s.ratchet.recvCounter)
  BY <1>1, <1>2, <1>3, DecryptFacts
<1>5. t \in Session
  BY <1>1, <1>2, <1>4 DEF Session
<1> DEFINE q == ExportState(t.ratchet)
<1>6. RowOver(row, t) = [origin |-> row.origin, state |-> q]
  BY DEF RowOver
<1>7. /\ q \in RatchetState /\ q.sendKey = t.ratchet.sendKey
      /\ q.recvKey = t.ratchet.recvKey /\ q.recvCounter = t.ratchet.recvCounter
  BY <1>4, ExportFacts
<1> HIDE DEF q
<1>8. RowOver(row, t) \in Row /\ RowOver(row, t).state = q
  BY <1>1, <1>6, <1>7 DEF Row
<1>9. /\ s.ratchet.sendKey.step \in Nat
      /\ s.ratchet.recvCounter \in Nat /\ t.ratchet.recvCounter \in Nat
      /\ row.state.sendKey.step \in Nat /\ row.state.recvCounter \in Nat
  BY <1>1, <1>4, CounterIsNat DEF Ratchet, Row, RatchetState, ChainKey
<1>10. Behind(row.state, t.ratchet) /\ Behind(q, t.ratchet)
  <2>1. Behind(row.state, s.ratchet)
    BY DEF Fits
  <2> QED
    BY <2>1, <1>4, <1>7, <1>9 DEF Behind
<1>11. q.recvKey.step = q.recvCounter
  BY <1>4, <1>7 DEF R!Regular
<1>12. q.sendKey.chain = row.state.sendKey.chain /\ q.recvKey.chain = row.state.recvKey.chain
  BY <1>10 DEF Behind
<1>13. FromX3DH(q, u, E, Acc)
  BY <1>12 DEF FromX3DH, Fits
<1>14. \A i \in 1 .. Len(Q) : Q[i].from = v =>
         /\ Spent(Q[i], row.state, DOMAIN t.ratchet.skipped)
         /\ Spent(Q[i], q, DOMAIN t.ratchet.skipped)
  <2> SUFFICES ASSUME NEW i \in 1 .. Len(Q), Q[i].from = v,
                      row.state.recvKey.chain = Q[i].key.chain
               PROVE  /\ Q[i].counter <= row.state.recvCounter /\ Q[i].counter <= q.recvCounter
                      /\ Q[i].counter \notin DOMAIN t.ratchet.skipped
    BY <1>12 DEF Spent
  <2>1. Q[i].counter <= row.state.recvCounter /\ Q[i].counter \notin DOMAIN s.ratchet.skipped
    BY DEF Fits, Spent
  <2>2. Q[i] \in Envelope
    OBVIOUS
  <2>3. Q[i].counter \in Nat
    BY <2>2, CounterIsNat DEF Envelope
  <2>4. row.state.recvCounter <= s.ratchet.recvCounter
    BY DEF Fits, Behind
  <2>5. Q[i].counter <= s.ratchet.recvCounter /\ Q[i].counter <= q.recvCounter
    BY <2>1, <2>3, <2>4, <1>4, <1>7, <1>9
  <2>6. ~(Q[i].counter > s.ratchet.recvCounter)
    BY <2>3, <2>5, <1>9
  <2> QED
    BY <2>1, <2>5, <2>6, <1>4
<1>15. Fits(u, v, t, row, E, Acc, Q)
  BY <1>1, <1>4, <1>5, <1>10, <1>14 DEF Fits
<1>16. Fits(u, v, t, RowOver(row, t), E, Acc, Q)
  BY <1>4, <1>5, <1>8, <1>10, <1>11, <1>13, <1>14 DEF Fits
<1> QED
  BY <1>4, <1>7, <1>8, <1>12, <1>15, <1>16

\* An envelope that opens in the session is new, and its chain is claimed.
LEMMA OpensNew ==
  ASSUME NEW u, NEW v, NEW s, NEW row, NEW E, NEW Acc, NEW Q \in Seq(Envelope),
         Fits(u, v, s, row, E, Acc, Q),
         NEW e \in Envelope, e.from = v,
         HasKeyFor(s.ratchet, e.counter), KeyFor(s.ratchet, e.counter) = e.key
  PROVE  /\ \A i \in 1 .. Len(Q) : Q[i] # e
         /\ e.key.chain = row.state.recvKey.chain
         /\ Claimed(e.key.chain, E, Acc, u)
<1>1. s \in Session /\ s.ratchet \in Ratchet /\ row \in Row /\ R!Regular(s.ratchet)
  BY DEF Fits, Session
<1>2. e.counter \in Counter /\ e.counter \in Nat
  BY CounterIsNat DEF Envelope
<1>3. e.key.chain = s.ratchet.recvKey.chain
  BY <1>1, <1>2, DecryptFacts
<1>4. row.state.recvKey.chain = s.ratchet.recvKey.chain /\ row.state.recvCounter <= s.ratchet.recvCounter
  BY DEF Fits, Behind
<1>5. ASSUME NEW i \in 1 .. Len(Q), Q[i] = e
      PROVE  FALSE
  <2>1. e.counter <= row.state.recvCounter /\ e.counter \notin DOMAIN s.ratchet.skipped
    BY <1>3, <1>4, <1>5 DEF Fits, Spent
  <2>2. row.state.recvCounter \in Nat /\ s.ratchet.recvCounter \in Nat
    BY <1>1, CounterIsNat DEF Row, RatchetState, Ratchet
  <2>3. ~(e.counter > s.ratchet.recvCounter)
    BY <2>1, <2>2, <1>2, <1>4
  <2> QED
    BY <2>1, <2>3 DEF HasKeyFor, IsAhead, IsLate
<1>6. Claimed(row.state.recvKey.chain, E, Acc, u)
  <2>1. FromX3DH(row.state, u, E, Acc)
    BY DEF Fits
  <2>2. PICK x \in RootSecret :
          \/ row.state.recvKey.chain = ChainTowards(x, "Responder") /\ x.init = u /\ x.eph <= E
          \/ row.state.recvKey.chain = ChainTowards(x, "Initiator") /\ x \in Acc
    BY <2>1 DEF FromX3DH
  <2>3. /\ ChainTowards(x, "Responder").dir = "ResponderToInitiator"
        /\ ChainTowards(x, "Responder").secret = x
        /\ ChainTowards(x, "Initiator").dir = "InitiatorToResponder"
        /\ ChainTowards(x, "Initiator").secret = x
    BY ChainFields
  <2> QED
    BY <2>2, <2>3 DEF Claimed
<1> QED
  BY <1>3, <1>4, <1>5, <1>6

-----------------------------------------------------------------------------
(* Every step preserves the invariant                                      *)

\* The invariant holds before anybody has written to anybody.
LEMMA InitIInv == Init => IInv
<1> SUFFICES ASSUME Init PROVE IInv
  OBVIOUS
<1>1. MapsTyped
  BY MapsTypedBy DEF Init, MapsTyped
<1>2. KeysTyped
  BY DEF Init, KeysTyped
<1>3. MessagesTyped
  BY SessionAssumption DEF Init, MessagesTyped
<1>4. PoolOK /\ OtpkUsedOnce
  BY DEF Init, PoolOK, OtpkUsedOnce
<1>5. \A u \in Users : DOMAIN mem[u] = {} /\ DOMAIN store[u] = {} /\ Len(inbox[u]) = 0
  BY DEF Init, Empty
<1>6. RowsOK /\ SessionsOK
  BY <1>5 DEF RowsOK, SessionsOK
<1>7. NetOK
  BY DEF Init, NetOK
<1>8. InboxOK /\ DeliveredOnce
  BY <1>5 DEF InboxOK, DeliveredOnce
<1> QED
  BY <1>1, <1>2, <1>3, <1>4, <1>6, <1>7, <1>8 DEF IInv

\* The mail stays as it is.
LEMMA NoNewMail ==
  ASSUME inbox' = inbox, NEW u, NEW v
  PROVE  OldMail(u, v)
BY DEF OldMail

\* encrypt_for with the session s and the row that fit, whether or not the
\* row after the step is written.
LEMMA EncryptWithKeepsIInv ==
  ASSUME IInv, NEW u \in Users, NEW v \in Users, NEW s, NEW row, NEW init \in SessionInit,
         ephs' \in [Users -> Nat], \A w \in Users : ephs[w] <= ephs'[w],
         Fits(u, v, s, row, ephs'[u], accepted[u], inbox[u]),
         EncryptWith(u, v, s, Put(store[u], v, row), init),
         init # NoInit => s.ratchet = NewRatchet([init |-> u, resp |-> v, eph |-> init.eph,
                                                  otpk |-> init.otpk], "Initiator")
  PROVE  IInv'
<1> DEFINE t == [s EXCEPT !.ratchet = SendStep(@)]
           e == [from |-> u, to |-> v, n |-> sent[u][v] + 1, init |-> init,
                 counter |-> Seal(s.ratchet).counter, key |-> Seal(s.ratchet).key]
           rows == Put(store[u], v, row)
<1>1. /\ sent' = [sent EXCEPT ![u][v] = @ + 1]
      /\ mem' = [mem EXCEPT ![u] = Put(@, v, t)]
      /\ \/ /\ store' = [store EXCEPT ![u] = Save(rows, v, t)]
            /\ net' = net \union {e} /\ failures' = failures
         \/ /\ WriteFails /\ net' = net
            /\ store' = [store EXCEPT ![u] = rows]
      /\ pool' = pool /\ published' = published /\ run' = run
      /\ inbox' = inbox /\ accepted' = accepted
  BY DEF EncryptWith
<1>2. s \in Session /\ s.ratchet \in Ratchet /\ row \in Row
  BY DEF Fits, Session
<1>3. inbox[u] \in Seq(Envelope)
  BY DEF IInv, MessagesTyped
<1>t. t = [s EXCEPT !.ratchet = SendStep(@)]
  OBVIOUS
<1> HIDE DEF t
<1>4. /\ Fits(u, v, t, row, ephs'[u], accepted'[u], inbox'[u])
      /\ Fits(u, v, t, RowOver(row, t), ephs'[u], accepted'[u], inbox'[u])
  BY <1>1, <1>3, <1>t, FitsSent
<1>5. /\ Seal(s.ratchet).counter \in Counter /\ Seal(s.ratchet).key \in MessageKey
      /\ Seal(s.ratchet).counter = (s.ratchet.sendCounter + 1) % CounterMod
      /\ Seal(s.ratchet).key = [chain |-> s.ratchet.sendKey.chain, index |-> s.ratchet.sendKey.step + 1]
  BY <1>2, SendFacts
<1>6. e \in Envelope
  BY <1>5 DEF IInv, MessagesTyped, Envelope
<1>7. /\ net \subseteq net' /\ \A f \in net' : f \in net \/ f = e
      /\ OldMail(u, v)
  BY <1>1, NoNewMail
<1>8. KeysTyped'
  BY <1>1 DEF IInv, KeysTyped
<1>9. MessagesTyped'
  <2>1. sent' \in [Users -> [Users -> Nat]]
    BY <1>1 DEF IInv, MessagesTyped
  <2>2. net' \in SUBSET Envelope
    BY <1>6, <1>7 DEF IInv, MessagesTyped
  <2>3. failures' \in 0 .. MaxFailures
    BY <1>1, SessionAssumption DEF IInv, MessagesTyped, WriteFails
  <2> QED
    BY <1>1, <2>1, <2>2, <2>3 DEF IInv, MessagesTyped
<1>10. NetOK'
  <2>1. e.key.chain.dir = "InitiatorToResponder" => e.key.chain.secret.otpk # NoOtpk
    <3>1. e.key.chain = row.state.sendKey.chain
      BY <1>5 DEF Fits, Behind
    <3>2. FromX3DH(row.state, u, ephs'[u], accepted[u])
      BY DEF Fits
    <3>3. PICK x \in RootSecret :
            \/ e.key.chain = ChainTowards(x, "Initiator") /\ x.otpk # NoOtpk
            \/ e.key.chain = ChainTowards(x, "Responder")
      BY <3>1, <3>2 DEF FromX3DH
    <3>4. /\ ChainTowards(x, "Initiator").secret = x
          /\ ChainTowards(x, "Responder").dir = "ResponderToInitiator"
      BY ChainFields
    <3> QED
      BY <3>3, <3>4
  <2>2. ASSUME e.init # NoInit
        PROVE  /\ e.counter = 1
               /\ e.key = [chain |-> ChainTowards([init |-> e.from, resp |-> e.to,
                                                   eph |-> e.init.eph, otpk |-> e.init.otpk],
                                                  "Initiator"),
                           index |-> 1]
    <3> DEFINE x == [init |-> u, resp |-> v, eph |-> init.eph, otpk |-> init.otpk]
    <3>1. x \in RootSecret
      BY DEF RootSecret, SessionInit
    <3>2. s.ratchet = NewRatchet(x, "Initiator")
      BY <2>2
    <3> HIDE DEF x
    <3>3. /\ s.ratchet.sendKey.chain = ChainTowards(x, "Initiator")
          /\ s.ratchet.sendKey.step = 0 /\ s.ratchet.sendCounter = 0
      BY <3>1, <3>2, NewRatchetFacts DEF RatchetRole
    <3>4. (0 + 1) % CounterMod = 1
      <4>1. 1 % CounterMod = 1
        BY SessionAssumption, OneRemains
      <4>2. 0 + 1 = 1
        OBVIOUS
      <4> QED
        BY <4>1, <4>2
    <3>5. e.counter = 1 /\ e.key = [chain |-> ChainTowards(x, "Initiator"), index |-> 1]
      BY <1>5, <3>3, <3>4
    <3> QED
      BY <3>5 DEF x
  <2> HIDE DEF e
  <2> QED
    BY <2>1, <2>2, <1>7 DEF IInv, NetOK
<1> HIDE DEF e
<1>11. PoolOK' /\ OtpkUsedOnce' /\ DeliveredOnce'
  BY <1>1 DEF IInv, PoolOK, OtpkUsedOnce, DeliveredOnce
<1>12. \A w \in Users : ephs[w] <= ephs'[w] /\ accepted[w] \subseteq accepted'[w]
  BY <1>1
<1>13. MapsTyped' /\ RowsOK' /\ SessionsOK' /\ InboxOK'
  <2>1. CASE store' = [store EXCEPT ![u] = Save(rows, v, t)]
    <3>1. Save(rows, v, t) = Put(store[u], v, RowOver(row, t))
      BY SaveOver
    <3>2. store' = [store EXCEPT ![u] = Put(@, v, RowOver(row, t))]
      BY <2>1, <3>1
    <3> QED
      BY <1>1, <1>4, <1>7, <1>8, <1>12, <3>2, Install
  <2>2. CASE store' = [store EXCEPT ![u] = rows]
    <3>1. store' = [store EXCEPT ![u] = Put(@, v, row)]
      BY <2>2
    <3> QED
      BY <1>1, <1>4, <1>7, <1>8, <1>12, <3>1, Install
  <2> QED
    BY <1>1, <2>1, <2>2
<1> QED
  BY <1>8, <1>9, <1>10, <1>11, <1>13 DEF IInv

\* decrypt_from with the session s and the row that fit: the envelope is
\* handed over, opened without the row being written, or refused.
LEMMA DecryptWithKeepsIInv ==
  ASSUME IInv, NEW u \in Users, NEW e \in net, NEW s, NEW row,
         accepted' \in [Users -> SUBSET RootSecret], \A w \in Users : accepted[w] \subseteq accepted'[w],
         pool' \in [Users -> SUBSET Nat], PoolOK', OtpkUsedOnce',
         Fits(u, e.from, s, row, ephs[u], accepted'[u], inbox[u]),
         DecryptWith(u, e, s, Put(store[u], e.from, row)),
         UNCHANGED <<published, run, ephs, sent, net>>
  PROVE  IInv'
<1> DEFINE v == e.from
           t == [s EXCEPT !.ratchet = AfterDecrypt(s.ratchet, e.counter)]
           rows == Put(store[u], v, row)
           Found == HasKeyFor(s.ratchet, e.counter)
           Opens == Found /\ KeyFor(s.ratchet, e.counter) = e.key
<1>1. \/ /\ Opens /\ mem' = [mem EXCEPT ![u] = Put(@, v, t)]
         /\ store' = [store EXCEPT ![u] = Save(rows, v, t)]
         /\ inbox' = [inbox EXCEPT ![u] = Append(@, e)] /\ failures' = failures
      \/ /\ Opens /\ WriteFails /\ mem' = [mem EXCEPT ![u] = Put(@, v, t)]
         /\ store' = [store EXCEPT ![u] = rows] /\ inbox' = inbox
      \/ /\ ~Opens /\ mem' = [mem EXCEPT ![u] = Put(@, v, IF Found THEN t ELSE s)]
         /\ store' = [store EXCEPT ![u] = rows]
         /\ inbox' = inbox /\ failures' = failures
  BY DEF DecryptWith
<1>2. /\ e \in Envelope /\ v \in Users /\ e.counter \in Counter
      /\ inbox \in [Users -> Seq(Envelope)] /\ inbox[u] \in Seq(Envelope)
  BY DEF IInv, MessagesTyped, Envelope
<1>t. t = After(s, e.counter)
  BY DEF After
<1> HIDE DEF t
<1>3. ASSUME Found
      PROVE  /\ Fits(u, v, t, row, ephs[u], accepted'[u], inbox[u])
             /\ Fits(u, v, t, RowOver(row, t), ephs[u], accepted'[u], inbox[u])
             /\ RowOver(row, t).state.recvKey.chain = row.state.recvKey.chain
             /\ RowOver(row, t).state.recvCounter >= e.counter
             /\ e.counter \notin DOMAIN t.ratchet.skipped
  <2>1. HasKeyFor(s.ratchet, e.counter) /\ e.counter \in Counter /\ inbox[u] \in Seq(Envelope)
    BY <1>2, <1>3
  <2>2. Fits(u, v, s, row, ephs[u], accepted'[u], inbox[u])
    OBVIOUS
  <2> HIDE DEF v, Found
  <2> QED
    BY <2>1, <2>2, <1>t, FitsTaken
<1>4. KeysTyped'
  BY DEF IInv, KeysTyped
<1>5. failures' \in 0 .. MaxFailures
  BY <1>1, SessionAssumption DEF IInv, MessagesTyped, WriteFails
<1>6. PoolOK' /\ OtpkUsedOnce' /\ NetOK'
  BY DEF IInv, NetOK
<1>7. \A w \in Users : ephs[w] <= ephs'[w] /\ accepted[w] \subseteq accepted'[w]
  BY DEF IInv, KeysTyped
<1>8. net \subseteq net' /\ ephs'[u] = ephs[u]
  OBVIOUS
<1>9. CASE inbox' = inbox
  <2>1. MessagesTyped' /\ DeliveredOnce'
    BY <1>2, <1>5, <1>9 DEF IInv, MessagesTyped, DeliveredOnce
  <2>2. PICK z \in {s, t} : /\ mem' = [mem EXCEPT ![u] = Put(@, v, z)]
                            /\ Fits(u, v, z, row, ephs'[u], accepted'[u], inbox'[u])
    <3>1. CASE mem' = [mem EXCEPT ![u] = Put(@, v, t)] /\ Found
      BY <3>1, <1>3, <1>8, <1>9
    <3>2. CASE ~Found /\ mem' = [mem EXCEPT ![u] = Put(@, v, s)]
      BY <3>2, <1>8, <1>9
    <3> QED
      BY <1>1, <3>1, <3>2
  <2>3. OldMail(u, v)
    BY <1>9, NoNewMail
  <2>4. CASE store' = [store EXCEPT ![u] = rows]
    <3>1. store' = [store EXCEPT ![u] = Put(@, v, row)]
      BY <2>4
    <3>2. MapsTyped' /\ RowsOK' /\ SessionsOK' /\ InboxOK'
      BY <1>2, <1>4, <1>7, <1>8, <2>2, <2>3, <3>1, Install
    <3> QED
      BY <1>4, <1>6, <2>1, <3>2 DEF IInv
  <2>5. store' = [store EXCEPT ![u] = rows]
    <3>1. inbox' # [inbox EXCEPT ![u] = Append(@, e)]
      <4>1. Append(inbox[u], e) # inbox[u]
        BY <1>2
      <4> QED
        BY <1>2, <1>9, <4>1
    <3> QED
      BY <1>1, <3>1
  <2> QED
    BY <2>4, <2>5
<1>10. CASE /\ Opens /\ mem' = [mem EXCEPT ![u] = Put(@, v, t)]
            /\ store' = [store EXCEPT ![u] = Save(rows, v, t)]
            /\ inbox' = [inbox EXCEPT ![u] = Append(@, e)]
  <2>1. /\ \A i \in 1 .. Len(inbox[u]) : inbox[u][i] # e
        /\ e.key.chain = row.state.recvKey.chain
        /\ Claimed(e.key.chain, ephs[u], accepted'[u], u)
    BY <1>2, <1>10, OpensNew
  <2> DEFINE Q == Append(inbox[u], e)
             l == Len(inbox[u])
  <2>2. /\ Q \in Seq(Envelope) /\ Len(Q) = l + 1 /\ l \in Nat
        /\ Q[l + 1] = e /\ \A i \in 1 .. l : Q[i] = inbox[u][i]
    BY <1>2
  <2>3. inbox'[u] = Q /\ \A w \in Users \ {u} : inbox'[w] = inbox[w]
    BY <1>2, <1>10
  <2>4. inbox' \in [Users -> Seq(Envelope)]
    BY <1>2, <1>10, <2>2
  <2> HIDE DEF Q
  <2>5. MessagesTyped'
    BY <1>5, <2>4 DEF IInv, MessagesTyped
  <2>6. DeliveredOnce'
    <3> SUFFICES ASSUME NEW w \in Users, NEW i \in 1 .. Len(inbox'[w]), NEW j \in 1 .. Len(inbox'[w]),
                        inbox'[w][i] = inbox'[w][j]
                 PROVE  i = j
      BY DEF DeliveredOnce
    <3>1. CASE w # u
      BY <3>1, <2>3 DEF IInv, DeliveredOnce
    <3>2. CASE w = u
      <4>1. /\ i \in 1 .. l + 1 /\ j \in 1 .. l + 1 /\ Q[i] = Q[j]
        BY <3>2, <2>2, <2>3
      <4>2. \A x, y \in 1 .. l : inbox[u][x] = inbox[u][y] => x = y
        BY DEF IInv, DeliveredOnce
      <4> HIDE DEF l
      <4>3. (i \in 1 .. l \/ i = l + 1) /\ (j \in 1 .. l \/ j = l + 1)
        BY <4>1, <2>2
      <4> QED
        BY <4>1, <4>2, <4>3, <2>1, <2>2 DEF l
    <3> QED
      BY <3>1, <3>2
  <2>7. Fits(u, v, t, RowOver(row, t), ephs'[u], accepted'[u], inbox'[u])
    <3>1. ASSUME NEW i \in 1 .. Len(Q), Q[i].from = v
          PROVE  Spent(Q[i], RowOver(row, t).state, DOMAIN t.ratchet.skipped)
      <4>1. CASE i \in 1 .. l
        BY <4>1, <3>1, <2>2, <1>3, <1>10 DEF Fits
      <4>2. CASE i = l + 1
        <5>1. RowOver(row, t).state.recvCounter \in Nat /\ e.counter \in Nat
          BY <1>2, <1>3, <1>10, CounterIsNat DEF Fits, Row, RatchetState
        <5> QED
          BY <4>2, <5>1, <2>2, <1>3, <1>10 DEF Spent
      <4> QED
        BY <4>1, <4>2, <2>2
    <3> QED
      BY <3>1, <2>3, <1>3, <1>8, <1>10 DEF Fits
  <2>8. OldMail(u, v)
    <3> SUFFICES ASSUME NEW w \in Users, NEW i \in 1 .. Len(inbox'[w])
                 PROVE  \/ \E j \in 1 .. Len(inbox[w]) : inbox[w][j] = inbox'[w][i]
                        \/ /\ w = u /\ inbox'[w][i].from = v /\ inbox'[w][i] \in net'
                           /\ Claimed(inbox'[w][i].key.chain, ephs'[w], accepted'[w], w)
      BY DEF OldMail
    <3>1. CASE w # u
      BY <3>1, <2>3
    <3>2. CASE w = u /\ i \in 1 .. l
      BY <3>2, <2>2, <2>3
    <3>3. CASE w = u /\ i = l + 1
      BY <3>3, <2>1, <2>2, <2>3, <1>8
    <3> QED
      BY <3>1, <3>2, <3>3, <2>2, <2>3
  <2>9. store' = [store EXCEPT ![u] = Put(@, v, RowOver(row, t))]
    <3>1. Save(rows, v, t) = Put(store[u], v, RowOver(row, t))
      BY SaveOver
    <3> QED
      BY <1>10, <3>1
  <2>10. MapsTyped' /\ RowsOK' /\ SessionsOK' /\ InboxOK'
    BY <1>2, <1>4, <1>7, <1>8, <1>10, <2>7, <2>8, <2>9, Install
  <2> QED
    BY <1>4, <1>6, <2>5, <2>6, <2>10 DEF IInv
<1> QED
  BY <1>1, <1>9, <1>10

\* encrypt_for, from memory, from the row or at first contact.
LEMMA EncryptForKeepsIInv ==
  ASSUME IInv, NEW u \in Users, NEW v \in Users, EncryptFor(u, v)
  PROVE  IInv'
<1>0. NoInit \in SessionInit /\ ephs \in [Users -> Nat]
  BY DEF NoInit, SessionInit, NoOtpk, IInv, KeysTyped
<1>1. CASE EncryptInMemory(u, v)
  <2>1. /\ v \in DOMAIN mem[u] /\ ephs' = ephs
        /\ EncryptWith(u, v, mem[u][v], store[u], NoInit)
    BY <1>1 DEF EncryptInMemory
  <2>2. /\ store[u] = Put(store[u], v, store[u][v])
        /\ Fits(u, v, mem[u][v], store[u][v], ephs[u], accepted[u], inbox[u])
    BY <2>1, FitsInMemory
  <2>3. EncryptWith(u, v, mem[u][v], Put(store[u], v, store[u][v]), NoInit)
    BY <2>1, <2>2
  <2>4. ephs' \in [Users -> Nat] /\ \A w \in Users : ephs[w] <= ephs'[w]
    BY <1>0, <2>1
  <2> QED
    BY <1>0, <2>1, <2>2, <2>3, <2>4, EncryptWithKeepsIInv
<1>2. CASE EncryptReloaded(u, v)
  <2>1. /\ v \in DOMAIN store[u] /\ ephs' = ephs
        /\ EncryptWith(u, v, RestoreSession(store[u][v]), store[u], NoInit)
    BY <1>2 DEF EncryptReloaded
  <2>2. /\ store[u] = Put(store[u], v, store[u][v])
        /\ Fits(u, v, RestoreSession(store[u][v]), store[u][v], ephs[u], accepted[u], inbox[u])
    BY <2>1, FitsReloaded
  <2>3. EncryptWith(u, v, RestoreSession(store[u][v]), Put(store[u], v, store[u][v]), NoInit)
    BY <2>1, <2>2
  <2>4. ephs' \in [Users -> Nat] /\ \A w \in Users : ephs[w] <= ephs'[w]
    BY <1>0, <2>1
  <2> QED
    BY <1>0, <2>1, <2>2, <2>3, <2>4, EncryptWithKeepsIInv
<1>3. CASE EncryptFirst(u, v)
  <2> DEFINE init == [eph |-> ephs[u] + 1, otpk |-> published[v]]
             x == [init |-> u, resp |-> v, eph |-> ephs[u] + 1, otpk |-> published[v]]
             s == NewSession("Initiated", x)
  <2>1. /\ v \notin DOMAIN store[u] /\ ephs' = [ephs EXCEPT ![u] = @ + 1]
        /\ EncryptWith(u, v, s, Save(store[u], v, s), init)
    BY <1>3 DEF EncryptFirst
  <2>2. /\ x \in RootSecret /\ s.ratchet = NewRatchet(x, "Initiator")
        /\ Save(store[u], v, s) = Put(store[u], v, RowOf(s))
        /\ Fits(u, v, s, RowOf(s), ephs[u] + 1, accepted[u], inbox[u])
    BY <2>1, FitsInitiated
  <2>3. init \in SessionInit
    BY DEF SessionInit, IInv, KeysTyped
  <2>4. /\ ephs' \in [Users -> Nat] /\ ephs'[u] = ephs[u] + 1
        /\ \A w \in Users : ephs[w] <= ephs'[w]
    BY <1>0, <2>1
  <2>5. x = [init |-> u, resp |-> v, eph |-> init.eph, otpk |-> init.otpk]
    OBVIOUS
  <2> HIDE DEF init, x, s
  <2>6. Fits(u, v, s, RowOf(s), ephs'[u], accepted[u], inbox[u])
    BY <2>2, <2>4
  <2>7. EncryptWith(u, v, s, Put(store[u], v, RowOf(s)), init)
    BY <2>1, <2>2
  <2>8. init # NoInit => s.ratchet = NewRatchet([init |-> u, resp |-> v, eph |-> init.eph,
                                                 otpk |-> init.otpk], "Initiator")
    BY <2>2, <2>5
  <2> QED
    BY <2>3, <2>4, <2>6, <2>7, <2>8, EncryptWithKeepsIInv
<1> QED
  BY <1>1, <1>2, <1>3 DEF EncryptFor

\* decrypt_from with a session in memory.
LEMMA DecryptInSessionKeepsIInv ==
  ASSUME IInv, NEW u \in Users, NEW e \in net, DecryptInSession(u, e)
  PROVE  IInv'
<1> DEFINE v == e.from
<1>1. /\ v \in DOMAIN mem[u] /\ DecryptWith(u, e, mem[u][v], store[u])
      /\ UNCHANGED <<pool, published, run, ephs, sent, net, accepted>>
  BY DEF DecryptInSession
<1>2. /\ store[u] = Put(store[u], v, store[u][v])
      /\ Fits(u, v, mem[u][v], store[u][v], ephs[u], accepted[u], inbox[u])
  BY <1>1, FitsInMemory
<1>3. DecryptWith(u, e, mem[u][v], Put(store[u], v, store[u][v]))
  BY <1>1, <1>2
<1>4. Fits(u, v, mem[u][v], store[u][v], ephs[u], accepted'[u], inbox[u])
  BY <1>1, <1>2
<1>5. /\ accepted' \in [Users -> SUBSET RootSecret] /\ pool' \in [Users -> SUBSET Nat]
      /\ \A w \in Users : accepted[w] \subseteq accepted'[w]
  BY <1>1 DEF IInv, KeysTyped
<1>6. PoolOK' /\ OtpkUsedOnce'
  BY <1>1 DEF IInv, PoolOK, OtpkUsedOnce
<1> QED
  BY <1>1, <1>3, <1>4, <1>5, <1>6, DecryptWithKeepsIInv

\* accept_incoming_session keeps every one-time prekey to one secret.
LEMMA AcceptKeepsKeys ==
  ASSUME IInv, NEW u \in Users, NEW e \in net,
         pool' = [pool EXCEPT ![u] = RemainingPool(u, e.init)],
         accepted' = [accepted EXCEPT ![u] = @ \union {RespondSecret(u, e)}],
         run' = run, published' = published
  PROVE  /\ pool' \in [Users -> SUBSET Nat] /\ accepted' \in [Users -> SUBSET RootSecret]
         /\ \A w \in Users : accepted[w] \subseteq accepted'[w]
         /\ PoolOK' /\ OtpkUsedOnce'
<1> DEFINE secret == RespondSecret(u, e)
<1>0. /\ pool \in [Users -> SUBSET Nat] /\ accepted \in [Users -> SUBSET RootSecret]
      /\ run \in [Users -> Nat]
  BY DEF IInv, KeysTyped
<1>1. secret \in RootSecret
  BY FitsAccepted
<1>2. secret.otpk = TakenOtpk(u, e.init)
  BY DEF RespondSecret
<1> HIDE DEF secret
<1>3. /\ pool'[u] = pool[u] \ {e.init.otpk} /\ accepted'[u] = accepted[u] \union {secret}
      /\ \A w \in Users : w # u => pool'[w] = pool[w] /\ accepted'[w] = accepted[w]
  BY <1>0 DEF RemainingPool, secret
<1>4. pool' \in [Users -> SUBSET Nat] /\ accepted' \in [Users -> SUBSET RootSecret]
  <2>1. pool[u] \ {e.init.otpk} \in SUBSET Nat /\ accepted[u] \union {secret} \in SUBSET RootSecret
    BY <1>0, <1>1
  <2> QED
    BY <1>0, <2>1 DEF RemainingPool, secret
<1>5. \A w \in Users : accepted[w] \subseteq accepted'[w]
  BY <1>3
<1>6. /\ secret.otpk = NoOtpk \/ (secret.otpk \in pool[u] /\ secret.otpk = e.init.otpk)
      /\ secret.otpk <= run[u]
  BY <1>0, <1>2 DEF TakenOtpk, NoOtpk, IInv, PoolOK
<1>7. PoolOK'
  BY <1>3, <1>6 DEF IInv, PoolOK
<1>8. OtpkUsedOnce'
  <2> SUFFICES ASSUME NEW w \in Users, NEW s \in accepted'[w], s.otpk # NoOtpk
               PROVE  /\ s.otpk \notin pool'[w]
                      /\ \A t \in accepted'[w] : t.otpk = s.otpk => t = s
    BY DEF OtpkUsedOnce
  <2>1. \A x \in accepted[w] : x.otpk # NoOtpk =>
          x.otpk \notin pool[w] /\ \A t \in accepted[w] : t.otpk = x.otpk => t = x
    BY DEF IInv, OtpkUsedOnce
  <2>2. CASE w # u
    BY <2>1, <2>2, <1>3
  <2>3. CASE w = u
    BY <2>1, <2>3, <1>3, <1>6
  <2> QED
    BY <2>2, <2>3
<1> QED
  BY <1>4, <1>5, <1>7, <1>8

\* decrypt_from of a first message, whose row may fail to be written.
LEMMA DecryptFirstKeepsIInv ==
  ASSUME IInv, NEW u \in Users, NEW e \in net, DecryptFirst(u, e)
  PROVE  IInv'
<1> DEFINE secret == RespondSecret(u, e)
           s == NewSession("Accepted", secret)
<1>1. /\ pool' = [pool EXCEPT ![u] = RemainingPool(u, e.init)]
      /\ accepted' = [accepted EXCEPT ![u] = @ \union {secret}]
      /\ \/ DecryptWith(u, e, s, Save(store[u], e.from, s))
         \/ WriteFails /\ UNCHANGED <<mem, store, inbox>>
      /\ UNCHANGED <<published, run, ephs, sent, net>>
  BY DEF DecryptFirst
<1>2. /\ pool' \in [Users -> SUBSET Nat] /\ accepted' \in [Users -> SUBSET RootSecret]
      /\ \A w \in Users : accepted[w] \subseteq accepted'[w]
      /\ PoolOK' /\ OtpkUsedOnce'
  BY <1>1, AcceptKeepsKeys
<1>3. CASE DecryptWith(u, e, s, Save(store[u], e.from, s))
  <2>1. PICK row \in Row :
          /\ Save(store[u], e.from, s) = Put(store[u], e.from, row)
          /\ Fits(u, e.from, s, row, ephs[u], accepted[u] \union {secret}, inbox[u])
    BY FitsAccepted
  <2>2. accepted'[u] = accepted[u] \union {secret}
    BY <1>1 DEF IInv, KeysTyped
  <2> HIDE DEF s, secret
  <2>3. /\ Fits(u, e.from, s, row, ephs[u], accepted'[u], inbox[u])
        /\ DecryptWith(u, e, s, Put(store[u], e.from, row))
    BY <1>3, <2>1, <2>2
  <2> QED
    BY <1>1, <1>2, <2>3, DecryptWithKeepsIInv
<1>4. CASE WriteFails /\ UNCHANGED <<mem, store, inbox>>
  <2>1. MapsTyped' /\ KeysTyped'
    BY <1>1, <1>2, <1>4 DEF IInv, MapsTyped, KeysTyped
  <2>2. MessagesTyped'
    BY <1>1, <1>4, SessionAssumption DEF IInv, MessagesTyped, WriteFails
  <2>3. \A w \in Users : ephs[w] \in Nat /\ ephs[w] <= ephs[w]
    BY DEF IInv, KeysTyped
  <2>4. RowsOK'
    BY <1>1, <1>2, <1>4, <2>3, FromX3DHGrows DEF IInv, RowsOK
  <2>5. SessionsOK' /\ NetOK' /\ DeliveredOnce'
    BY <1>1, <1>4 DEF IInv, SessionsOK, NetOK, DeliveredOnce
  <2>6. InboxOK'
    <3> SUFFICES ASSUME NEW w \in Users, NEW i \in 1 .. Len(inbox[w])
                 PROVE  Claimed(inbox[w][i].key.chain, ephs[w], accepted'[w], w)
      BY <1>1, <1>4 DEF IInv, InboxOK, KeptKeys
    <3>1. Claimed(inbox[w][i].key.chain, ephs[w], accepted[w], w)
      BY DEF IInv, InboxOK
    <3>2. inbox[w][i].key.chain \in Chain
      BY InboxTypes
    <3> QED
      BY <3>1, <3>2, <2>3, <1>2, ClaimedGrows
  <2> QED
    BY <1>2, <2>1, <2>2, <2>4, <2>5, <2>6 DEF IInv
<1> QED
  BY <1>1, <1>3, <1>4

\* What one user's leaving its sessions alone does not change.
LEMMA SettledParts ==
  ASSUME IInv, UNCHANGED <<net, inbox, accepted, ephs, sent, failures>>
  PROVE  /\ MessagesTyped' /\ NetOK' /\ DeliveredOnce'
         /\ (UNCHANGED pool => OtpkUsedOnce')
BY DEF IInv, MessagesTyped, NetOK, DeliveredOnce, OtpkUsedOnce

\* evict_stale.
LEMMA EvictKeepsIInv ==
  ASSUME IInv, NEW u \in Users, NEW v \in Users, Evict(u, v)
  PROVE  IInv'
<1>1. /\ mem' = [mem EXCEPT ![u] = Drop(@, v)] /\ store' = store
      /\ UNCHANGED <<pool, published, run, ephs, sent, net, inbox, accepted, failures>>
  BY DEF Evict
<1>2. mem \in [Users -> Sessions] /\ store \in [Users -> Rows]
  BY DEF IInv, MapsTyped
<1>3. MapsTyped'
  <2>1. Drop(mem[u], v) \in Sessions
    BY <1>2, MapsTypedBy
  <2> QED
    BY <1>1, <1>2, <2>1 DEF MapsTyped
<1>4. /\ mem'[u] = Drop(mem[u], v)
      /\ \A w \in Users : w # u => mem'[w] = mem[w]
  BY <1>1, <1>2
<1>5. \A w \in Users : \A x \in DOMAIN mem'[w] : x \in DOMAIN mem[w] /\ mem'[w][x] = mem[w][x]
  BY <1>4 DEF Drop
<1>6. MessagesTyped' /\ NetOK' /\ DeliveredOnce' /\ OtpkUsedOnce'
  BY <1>1, SettledParts
<1>7. KeysTyped' /\ PoolOK' /\ RowsOK'
  BY <1>1 DEF IInv, KeysTyped, PoolOK, RowsOK
<1>8. SessionsOK'
  BY <1>1, <1>5 DEF IInv, SessionsOK
<1>9. InboxOK'
  <2>1. \A w \in Users, x \in Users : KeptKeys(w, x)' \subseteq KeptKeys(w, x)
    BY <1>5 DEF KeptKeys
  <2> SUFFICES ASSUME NEW w \in Users, NEW i \in 1 .. Len(inbox[w]), NEW e, e = inbox[w][i],
                      e.from \in DOMAIN store[w]
               PROVE  Spent(e, store[w][e.from].state, KeptKeys(w, e.from)')
    BY <1>1 DEF IInv, InboxOK
  <2>2. Spent(e, store[w][e.from].state, KeptKeys(w, e.from))
    BY DEF IInv, InboxOK
  <2>3. e.from \in Users
    BY InboxTypes DEF Envelope
  <2> QED
    BY <2>1, <2>2, <2>3 DEF Spent
<1> QED
  BY <1>3, <1>6, <1>7, <1>8, <1>9 DEF IInv

\* A new process: what is handed over stays spent without its session.
LEMMA RestartKeepsIInv ==
  ASSUME IInv, NEW u \in Users, Restart(u)
  PROVE  IInv'
<1>1. /\ mem' = [mem EXCEPT ![u] = Empty] /\ store' = [store EXCEPT ![u] = Empty]
      /\ run' = [run EXCEPT ![u] = @ + 1] /\ pool' = [pool EXCEPT ![u] = {run[u] + 1}]
      /\ UNCHANGED <<published, ephs, sent, net, inbox, accepted, failures>>
  BY DEF Restart
<1>2. /\ mem \in [Users -> Sessions] /\ store \in [Users -> Rows]
      /\ run \in [Users -> Nat] /\ pool \in [Users -> SUBSET Nat]
      /\ published \in [Users -> Nat] /\ accepted \in [Users -> SUBSET RootSecret]
  BY DEF IInv, MapsTyped, KeysTyped
<1>3. MapsTyped'
  BY <1>1, <1>2, MapsTypedBy DEF MapsTyped
<1>4. KeysTyped'
  <2>1. run[u] + 1 \in Nat
    BY <1>2
  <2> QED
    BY <1>1, <2>1 DEF IInv, KeysTyped
<1>5. MessagesTyped' /\ NetOK' /\ DeliveredOnce'
  BY <1>1, SettledParts
<1>6. /\ run'[u] = run[u] + 1 /\ pool'[u] = {run[u] + 1} /\ run[u] \in Nat
      /\ \A w \in Users : w # u => run'[w] = run[w] /\ pool'[w] = pool[w]
  BY <1>1, <1>2
<1>7. PoolOK'
  <2> SUFFICES ASSUME NEW w \in Users
               PROVE  /\ run'[w] >= 1 /\ published[w] >= 1 /\ published[w] <= run'[w]
                      /\ pool'[w] \subseteq {run'[w]}
                      /\ \A s \in accepted[w] : s.otpk <= run'[w]
    BY <1>1 DEF PoolOK
  <2>1. /\ run[w] >= 1 /\ published[w] >= 1 /\ published[w] <= run[w]
        /\ pool[w] \subseteq {run[w]} /\ \A s \in accepted[w] : s.otpk <= run[w]
    BY DEF IInv, PoolOK
  <2>2. published[w] \in Nat /\ \A s \in accepted[w] : s.otpk \in Nat
    BY <1>2 DEF RootSecret
  <2> QED
    BY <2>1, <2>2, <1>6
<1>8. OtpkUsedOnce'
  <2> SUFFICES ASSUME NEW w \in Users, NEW s \in accepted[w], s.otpk # NoOtpk
               PROVE  /\ s.otpk \notin pool'[w]
                      /\ \A t \in accepted[w] : t.otpk = s.otpk => t = s
    BY <1>1 DEF OtpkUsedOnce
  <2>1. /\ s.otpk \notin pool[w]
        /\ \A t \in accepted[w] : t.otpk = s.otpk => t = s
    BY DEF IInv, OtpkUsedOnce
  <2>2. s.otpk <= run[w] /\ s.otpk \in Nat
    BY <1>2 DEF IInv, PoolOK, RootSecret
  <2> QED
    BY <2>1, <2>2, <1>6
<1>9. /\ DOMAIN mem'[u] = {} /\ DOMAIN store'[u] = {}
      /\ \A w \in Users : w # u => mem'[w] = mem[w] /\ store'[w] = store[w]
  BY <1>1, <1>2 DEF Empty
<1>10. RowsOK' /\ SessionsOK'
  BY <1>1, <1>9 DEF IInv, RowsOK, SessionsOK
<1>11. InboxOK'
  BY <1>1, <1>9 DEF IInv, InboxOK, KeptKeys
<1> QED
  BY <1>3, <1>4, <1>5, <1>7, <1>8, <1>10, <1>11 DEF IInv

\* The bundle of the present run is published.
LEMMA PublishBundleKeepsIInv ==
  ASSUME IInv, NEW u \in Users, PublishBundle(u)
  PROVE  IInv'
<1>1. /\ published' = [published EXCEPT ![u] = run[u]]
      /\ UNCHANGED <<mem, store, pool, run, ephs, sent, net, inbox, accepted, failures>>
  BY DEF PublishBundle
<1>2. MessagesTyped' /\ NetOK' /\ DeliveredOnce' /\ OtpkUsedOnce'
  BY <1>1, SettledParts
<1>3. MapsTyped' /\ RowsOK' /\ SessionsOK'
  BY <1>1 DEF IInv, MapsTyped, RowsOK, SessionsOK
<1>4. InboxOK'
  BY <1>1 DEF IInv, InboxOK, KeptKeys
<1>5. KeysTyped' /\ PoolOK'
  BY <1>1 DEF IInv, KeysTyped, PoolOK
<1> QED
  BY <1>2, <1>3, <1>4, <1>5 DEF IInv

\* Every step preserves the invariant.
LEMMA NextIInv == IInv /\ [Next]_vars => IInv'
<1> SUFFICES ASSUME IInv, [Next]_vars PROVE IInv'
  OBVIOUS
<1>1. CASE UNCHANGED vars
  BY <1>1 DEF vars, IInv, MapsTyped, KeysTyped, MessagesTyped, PoolOK, OtpkUsedOnce, RowsOK,
              SessionsOK, NetOK, InboxOK, DeliveredOnce, KeptKeys
<1>2. ASSUME NEW u \in Users, NEW v \in Users, EncryptFor(u, v) PROVE IInv'
  BY <1>2, EncryptForKeepsIInv
<1>3. ASSUME NEW u \in Users, NEW v \in Users, Evict(u, v) PROVE IInv'
  BY <1>3, EvictKeepsIInv
<1>4. ASSUME NEW u \in Users, NEW e \in net, DecryptFrom(u, e) PROVE IInv'
  BY <1>4, DecryptInSessionKeepsIInv, DecryptFirstKeepsIInv DEF DecryptFrom
<1>5. ASSUME NEW u \in Users, Restart(u) \/ PublishBundle(u) PROVE IInv'
  BY <1>5, RestartKeepsIInv, PublishBundleKeepsIInv
<1> QED
  BY <1>1, <1>2, <1>3, <1>4, <1>5 DEF Next

\* The invariant holds in every reachable state.
LEMMA Invariance == Spec => []IInv
BY InitIInv, NextIInv, PTL DEF Spec

-----------------------------------------------------------------------------
(* Theorems                                                                *)

\* Type correctness: maps of well-formed sessions and rows, and counters
\* within the width of their field, through every restart and failed write.
THEOREM TypeCorrect == Spec => []TypeOK
<1>1. IInv => TypeOK
  <2> SUFFICES ASSUME IInv PROVE TypeOK
    OBVIOUS
  <2>1. ASSUME NEW u \in Users
        PROVE  /\ DOMAIN mem[u] \subseteq Users /\ \A v \in DOMAIN mem[u] : mem[u][v] \in Session
               /\ DOMAIN store[u] \subseteq Users /\ \A v \in DOMAIN store[u] : store[u][v] \in Row
    BY MapFacts DEF IInv, MapsTyped
  <2>2. ASSUME NEW s \in Session
        PROVE  IsSession(s)
    <3>1. s = [origin |-> s.origin, ratchet |-> s.ratchet] /\ s.origin \in Origin /\ s.ratchet \in Ratchet
      BY DEF Session
    <3>2. IsRatchet(s.ratchet)
      <4>1. R!IsRatchet(s.ratchet)
        BY <3>1, R!RatchetIsRatchet, Widths, SameTypes
      <4>2. /\ R!ExportState(s.ratchet) = ExportState(s.ratchet)
            /\ R!Restore(ExportState(s.ratchet)) = Restore(ExportState(s.ratchet))
        BY SameOperators
      <4> QED
        BY <4>1, <4>2, SameTypes DEF IsRatchet, R!IsRatchet
    <3> QED
      BY <3>1, <3>2 DEF IsSession
  <2> QED
    BY <2>1, <2>2 DEF IInv, KeysTyped, MessagesTyped, TypeOK
<1> QED
  BY <1>1, Invariance, PTL

\* Each one-time prekey goes into at most one secret, and is out of the pool
\* from then on: accept_incoming_session takes it before it derives.
THEOREM PrekeysOnce == Spec => []OtpkUsedOnce
<1>1. IInv => OtpkUsedOnce
  BY DEF IInv
<1> QED
  BY <1>1, Invariance, PTL

\* No envelope is handed over twice, whatever arrives again after whatever
\* was evicted, reloaded, lost in a restart or not written.
THEOREM HandedOverOnce == Spec => []DeliveredOnce
<1>1. IInv => DeliveredOnce
  BY DEF IInv
<1> QED
  BY <1>1, Invariance, PTL

\* The row of a session in memory is a state of that session, not ahead of
\* it: every failed write leaves memory in front.
THEOREM RowsFollow == Spec => []RowFollowsSession
<1>1. IInv => RowFollowsSession
  <2> SUFFICES ASSUME IInv, NEW u \in Users, NEW v \in DOMAIN mem[u]
               PROVE  /\ v \in DOMAIN store[u]
                      /\ LET r == mem[u][v].ratchet
                             s == store[u][v].state
                         IN  /\ s.sendKey.chain = r.sendKey.chain /\ s.recvKey.chain = r.recvKey.chain
                             /\ s.sendKey.step <= r.sendKey.step /\ s.recvKey.step <= r.recvKey.step
    BY DEF RowFollowsSession
  <2>1. /\ R!Regular(mem[u][v].ratchet)
        /\ v \in DOMAIN store[u] /\ Behind(store[u][v].state, mem[u][v].ratchet)
    BY DEF IInv, SessionsOK
  <2>2. store[u][v].state.recvKey.step = store[u][v].state.recvCounter
    BY <2>1 DEF IInv, RowsOK
  <2> QED
    BY <2>1, <2>2 DEF Behind, R!Regular
<1> QED
  BY <1>1, Invariance, PTL

\* A first message whose one-time prekey is still there opens at a receiver
\* without a session: both sides derive the same secret, and the key of the
\* first counter is the one it was sealed with.
THEOREM FirstOpens == Spec => []FirstMessageOpens
<1>1. IInv => FirstMessageOpens
  <2> SUFFICES ASSUME IInv, NEW e \in net, e.init # NoInit, e.init.otpk \in pool[e.to],
                      NEW r, r = NewSession("Accepted", RespondSecret(e.to, e)).ratchet
               PROVE  HasKeyFor(r, e.counter) /\ KeyFor(r, e.counter) = e.key
    BY DEF FirstMessageOpens
  <2> DEFINE x == [init |-> e.from, resp |-> e.to, eph |-> e.init.eph, otpk |-> e.init.otpk]
  <2>1. e.counter = 1 /\ e.key = [chain |-> ChainTowards(x, "Initiator"), index |-> 1]
    BY DEF IInv, NetOK
  <2>2. e.to \in Users /\ RespondSecret(e.to, e) = x
    BY DEF RespondSecret, TakenOtpk, IInv, MessagesTyped, Envelope
  <2>3. x \in RootSecret
    BY <2>2, FitsAccepted
  <2>4. r = NewRatchet(x, "Responder")
    BY <2>2 DEF NewSession, RoleForOrigin
  <2> HIDE DEF x
  <2>5. /\ r.recvKey.chain = ChainTowards(x, "Initiator")
        /\ r.recvKey.step = 0 /\ r.recvCounter = 0
    BY <2>3, <2>4, NewRatchetFacts DEF RatchetRole, Opposite
  <2>6. HasKeyFor(r, 1)
    BY <2>5, SessionAssumption DEF HasKeyFor, IsAhead
  <2>7. KeyFor(r, 1) = [chain |-> r.recvKey.chain, index |-> 1]
    BY <2>5 DEF KeyFor, KeyAhead
  <2> QED
    BY <2>1, <2>5, <2>6, <2>7
<1> QED
  BY <1>1, Invariance, PTL

\* Nothing replaces a session in memory: every step of encrypt_for and
\* decrypt_from keeps the receiving chain of a session it finds there.
THEOREM LiveSessionsStay == Spec => LiveSessionKept
<1> DEFINE Kept == \A u \in Users : \A v \in DOMAIN mem[u] \intersect DOMAIN mem'[u] :
                     mem'[u][v].ratchet.recvKey.chain = mem[u][v].ratchet.recvKey.chain
<1>1. IInv /\ [Next]_vars => [Kept]_vars
  <2> SUFFICES ASSUME IInv, Next PROVE Kept
    BY DEF vars
  <2>0. mem \in [Users -> Sessions]
    BY DEF IInv, MapsTyped
  <2>1. ASSUME NEW u \in Users, NEW v \in Users, EncryptFor(u, v) PROVE Kept
    <3>1. v \notin DOMAIN mem[u] \/ EncryptInMemory(u, v)
      BY <2>1 DEF EncryptFor, EncryptReloaded, EncryptFirst
    <3>2. PICK t : /\ mem' = [mem EXCEPT ![u] = Put(@, v, t)]
                   /\ EncryptInMemory(u, v) => t = [mem[u][v] EXCEPT !.ratchet = SendStep(@)]
      <4>1. CASE EncryptInMemory(u, v)
        BY <4>1 DEF EncryptInMemory, EncryptWith
      <4>2. CASE ~EncryptInMemory(u, v)
        BY <2>1, <4>2 DEF EncryptFor, EncryptReloaded, EncryptFirst, EncryptWith
      <4> QED
        BY <4>1, <4>2
    <3>3. ASSUME EncryptInMemory(u, v)
          PROVE  t.ratchet.recvKey.chain = mem[u][v].ratchet.recvKey.chain
      <4>1. mem[u][v] \in Session
        BY <2>0, <3>3, MapFacts DEF EncryptInMemory
      <4>2. /\ mem[u][v].ratchet \in Ratchet
            /\ t.ratchet = SendStep(mem[u][v].ratchet)
        BY <3>2, <3>3, <4>1 DEF Session
      <4> QED
        BY <4>2, SendFacts
    <3> QED
      BY <2>0, <3>1, <3>2, <3>3 DEF Put
  <2>2. ASSUME NEW u \in Users, NEW v \in Users, Evict(u, v) PROVE Kept
    BY <2>0, <2>2 DEF Evict, Drop
  <2>3. ASSUME NEW u \in Users, NEW e \in net, DecryptInSession(u, e) PROVE Kept
    <3> DEFINE s == mem[u][e.from]
               t == [s EXCEPT !.ratchet = AfterDecrypt(s.ratchet, e.counter)]
    <3>1. s \in Session /\ e.counter \in Counter
      BY <2>0, <2>3, MapFacts DEF DecryptInSession, IInv, MessagesTyped, Envelope
    <3>2. s.ratchet \in Ratchet /\ R!Regular(s.ratchet) /\ t.ratchet = AfterDecrypt(s.ratchet, e.counter)
      BY <3>1, <2>3 DEF Session, IInv, SessionsOK, DecryptInSession
    <3>3. PICK x : /\ mem' = [mem EXCEPT ![u] = Put(@, e.from, x)]
                   /\ x = s \/ (HasKeyFor(s.ratchet, e.counter) /\ x = t)
      BY <2>3 DEF DecryptInSession, DecryptWith
    <3> HIDE DEF t
    <3>4. x.ratchet.recvKey.chain = s.ratchet.recvKey.chain
      BY <3>1, <3>2, <3>3, DecryptFacts
    <3> QED
      BY <2>0, <3>3, <3>4 DEF Put
  <2>4. ASSUME NEW u \in Users, NEW e \in net, DecryptFirst(u, e) PROVE Kept
    <3>1. /\ e.from \notin DOMAIN mem[u]
          /\ mem' = mem \/ \E x : mem' = [mem EXCEPT ![u] = Put(@, e.from, x)]
      BY <2>4 DEF DecryptFirst, NeedsAccept, DecryptWith
    <3> QED
      BY <2>0, <3>1 DEF Put
  <2>5. ASSUME NEW u \in Users, Restart(u) PROVE Kept
    BY <2>0, <2>5 DEF Restart, Empty
  <2>6. ASSUME NEW u \in Users, PublishBundle(u) PROVE Kept
    BY <2>6 DEF PublishBundle
  <2> QED
    BY <2>1, <2>2, <2>3, <2>4, <2>5, <2>6 DEF Next, DecryptFrom
<1> QED
  BY <1>1, Invariance, PTL DEF Spec, LiveSessionKept
=============================================================================
