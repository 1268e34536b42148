------------------------------ MODULE MailboxProofs ------------------------------
(***************************************************************************)
(* Theorems about Mailbox, for all owners, limits and bounds. The          *)
(* inductive invariant is IInv: type correctness, where a message can be   *)
(* (in the table, in the hands of the handler, in one answer, or with its  *)
(* owner, and only in one of these), and what the handler knows of the     *)
(* table while it works on a request.                                      *)
(***************************************************************************)
EXTENDS Mailbox, FiniteSetTheorems, TLAPS

\* The entries the relay still has, in the table or read by its handler.
Shelf == entries \union (IF handler.op = "acknowledge" THEN handler.pending ELSE {})

\* A message that has not arrived is nowhere.
NothingAhead ==
  /\ \A e \in Shelf : e.msg <= arrived
  /\ \A r \in answers : \A e \in r.batch : e.msg <= arrived
  /\ \A m \in Messages : m > arrived => handed[m] = 0
  /\ handler.op = "insert" => handler.msg <= arrived

\* A message is kept once, and an answer that carries it is the only one.
OneCopy ==
  /\ \A d, e \in Shelf : d.msg = e.msg => d = e
  /\ \A r \in answers : \A d, e \in r.batch : d.msg = e.msg => d = e
  /\ \A r, s \in answers : \A d \in r.batch, e \in s.batch : d.msg = e.msg => r = s

\* What the relay has is in no answer, and what either has was not handed
\* over.
OnePlace ==
  /\ \A r \in answers : \A d \in r.batch, e \in Shelf : d.msg # e.msg
  /\ \A e \in Shelf : handed[e.msg] = 0
  /\ \A r \in answers : \A e \in r.batch : handed[e.msg] = 0

\* A message about to be inserted is nowhere else, and its owner has room.
InsertFresh ==
  handler.op = "insert" =>
    /\ \A e \in entries : e.msg # handler.msg
    /\ \A r \in answers : \A e \in r.batch : e.msg # handler.msg
    /\ handed[handler.msg] = 0
    /\ Cardinality(EntriesOf(handler.owner)) < Limit

\* While the handler answers a fetch the table loses entries of its owner
\* but gains none: the second read returns nothing the first has not.
ReadBefore ==
  handler.op = "acknowledge" =>
    /\ EntriesOf(handler.owner) \subseteq handler.pending
    /\ \A e \in handler.pending : e.owner = handler.owner

IInv ==
  /\ TypeOK /\ HandedOnce /\ WithinLimit /\ IsFiniteSet(entries)
  /\ NothingAhead /\ OneCopy /\ OnePlace /\ InsertFresh /\ ReadBefore

-----------------------------------------------------------------------------
(* Operators and sets                                                      *)

\* What the handler is at, told by its op.
LEMMA HandlerCases ==
  ASSUME handler \in Handler
  PROVE  /\ handler = Idle <=> handler.op = "idle"
         /\ handler.op \in {"idle", "insert", "acknowledge"}
         /\ handler.op = "insert" => handler.owner \in Owners /\ handler.msg \in Messages
         /\ handler.op = "acknowledge" => handler.owner \in Owners /\ handler.pending \subseteq Entry
BY DEF Handler, Idle

\* How many entries of a message there are in a set that has at most one.
LEMMA CopiesOf ==
  ASSUME NEW S, NEW m, \A d, e \in S : d.msg = e.msg => d = e
  PROVE  Cardinality({e \in S : e.msg = m}) = IF \E e \in S : e.msg = m THEN 1 ELSE 0
<1>1. CASE \E e \in S : e.msg = m
  <2>1. PICK e \in S : e.msg = m
    BY <1>1
  <2>2. {d \in S : d.msg = m} = {e}
    BY <2>1
  <2> QED
    BY <1>1, <2>2, FS_Singleton
<1>2. CASE ~ \E e \in S : e.msg = m
  <2>1. {e \in S : e.msg = m} = {}
    BY <1>2
  <2> QED
    BY <1>2, <2>1, FS_EmptySet
<1> QED
  BY <1>1, <1>2

\* The entries of an owner are finitely many, and no more of them in a
\* smaller table.
LEMMA EntriesShrink ==
  ASSUME IsFiniteSet(entries), entries' \subseteq entries, NEW u
  PROVE  /\ IsFiniteSet(entries')
         /\ EntriesOf(u)' \subseteq EntriesOf(u)
         /\ Cardinality(EntriesOf(u)) \in Nat /\ Cardinality(EntriesOf(u)') \in Nat
         /\ Cardinality(EntriesOf(u)') <= Cardinality(EntriesOf(u))
<1>1. EntriesOf(u) \subseteq entries /\ EntriesOf(u)' \subseteq EntriesOf(u)
  BY DEF EntriesOf
<1>2. IsFiniteSet(EntriesOf(u)) /\ IsFiniteSet(entries')
  BY <1>1, FS_Subset
<1>3. IsFiniteSet(EntriesOf(u)')
  BY <1>1, <1>2, FS_Subset
<1> QED
  BY <1>1, <1>2, <1>3, FS_Subset, FS_CardinalityType

\* It holds of an empty mailbox.
LEMMA InitIInv == Init => IInv
<1> SUFFICES ASSUME Init PROVE IInv
  OBVIOUS
<1>1. TypeOK
  BY MailboxAssumption DEF Init, TypeOK, Handler
<1>2. \A u \in Owners : EntriesOf(u) = {}
  BY DEF Init, EntriesOf
<1>3. WithinLimit /\ IsFiniteSet(entries)
  BY <1>2, FS_EmptySet, MailboxAssumption DEF WithinLimit, Init
<1>4. HandedOnce
  BY DEF Init, HandedOnce
<1>5. handler.op = "idle" /\ Shelf = {}
  BY DEF Init, Idle, Shelf
<1> QED
  BY <1>1, <1>3, <1>4, <1>5 DEF Init, IInv, NothingAhead, OneCopy, OnePlace, InsertFresh, ReadBefore

-----------------------------------------------------------------------------
(* The steps                                                               *)

\* The table loses entries, the handler may give up, time may pass.
LEMMA ShrinkKeepsIInv ==
  ASSUME IInv, TypeOK', entries' \subseteq entries, handler' = handler \/ handler' = Idle,
         UNCHANGED <<answers, arrived, handed>>
  PROVE  IInv'
<1>1. handler' = handler \/ handler'.op = "idle"
  BY DEF Idle
<1>2. Shelf' \subseteq Shelf
  BY <1>1 DEF Shelf
<1>3. IsFiniteSet(entries') /\ \A u \in Owners : Cardinality(EntriesOf(u)) \in Nat
                                              /\ Cardinality(EntriesOf(u)') \in Nat
                                              /\ Cardinality(EntriesOf(u)') <= Cardinality(EntriesOf(u))
                                              /\ EntriesOf(u)' \subseteq EntriesOf(u)
  BY EntriesShrink DEF IInv
<1>4. WithinLimit'
  BY <1>3, MailboxAssumption DEF IInv, WithinLimit
<1>5. HandedOnce'
  BY DEF IInv, HandedOnce
<1>6. NothingAhead'
  BY <1>1, <1>2 DEF IInv, NothingAhead
<1>7. OneCopy' /\ OnePlace'
  BY <1>2 DEF IInv, OneCopy, OnePlace
<1>8. InsertFresh'
  <2> SUFFICES ASSUME handler'.op = "insert" PROVE InsertFresh'
    BY DEF InsertFresh
  <2>1. handler' = handler /\ handler.op = "insert" /\ handler.owner \in Owners
    BY <1>1, HandlerCases DEF IInv, TypeOK
  <2>2. Cardinality(EntriesOf(handler.owner)') < Limit
    BY <2>1, <1>3, MailboxAssumption DEF IInv, InsertFresh
  <2> QED
    BY <2>1, <2>2 DEF IInv, InsertFresh
<1>9. ReadBefore'
  <2> SUFFICES ASSUME handler'.op = "acknowledge" PROVE ReadBefore'
    BY DEF ReadBefore
  <2>1. handler' = handler /\ handler.op = "acknowledge"
    BY <1>1
  <2> QED
    BY <2>1 DEF IInv, ReadBefore, EntriesOf
<1> QED
  BY <1>3, <1>4, <1>5, <1>6, <1>7, <1>8, <1>9 DEF IInv

\* Requests come and go, the clock ticks, expired entries are removed, the
\* handler fails or is stopped.
LEMMA QuietKeepsIInv ==
  ASSUME IInv,
         \/ \E u \in Owners : SendFetch(u) \/ LoseRequest(u)
         \/ Tick \/ CleanupOnce \/ HandlerFails \/ RelayRestarts
  PROVE  IInv'
<1>1. /\ entries' \subseteq entries /\ (handler' = handler \/ handler' = Idle)
      /\ UNCHANGED <<answers, arrived, handed>>
  BY DEF SendFetch, LoseRequest, Tick, CleanupOnce, HandlerFails, RelayRestarts
<1>2. requests' \in [Owners -> 0 .. MaxRequests]
  BY MailboxAssumption DEF IInv, TypeOK, SendFetch, LoseRequest, Tick, CleanupOnce, HandlerFails, RelayRestarts
<1>3. now' \in 0 .. MaxTime /\ faults' \in 0 .. MaxFaults
  BY MailboxAssumption DEF IInv, TypeOK, SendFetch, LoseRequest, Tick, CleanupOnce, HandlerFails,
     RelayRestarts, Fault
<1>4. TypeOK'
  BY <1>1, <1>2, <1>3 DEF IInv, TypeOK, Handler
<1> QED
  BY <1>1, <1>4, ShrinkKeepsIInv

\* A message that arrives is a new one.
LEMMA StoreArrivesKeepsIInv ==
  ASSUME IInv, NEW u \in Owners, StoreArrives(u)
  PROVE  IInv'
<1>1. /\ handler.op = "idle" /\ arrived \in Nat /\ arrived + 1 \in Messages /\ arrived' = arrived + 1
      /\ UNCHANGED <<entries, requests, answers, now, handed, faults>>
  BY HandlerCases, MailboxAssumption DEF IInv, TypeOK, StoreArrives, Messages
<1>2. \/ handler' = handler
      \/ HasRoom(u) /\ handler' = [op |-> "insert", owner |-> u, msg |-> arrived + 1]
  BY DEF StoreArrives
<1>3. TypeOK'
  BY <1>1, <1>2, MailboxAssumption DEF IInv, TypeOK, Handler, Messages
<1>4. handler'.op \in {"idle", "insert"} /\ Shelf' = entries /\ Shelf = entries
  BY <1>1, <1>2 DEF Shelf
<1>5. /\ \A e \in entries : e.msg \in Nat /\ e.msg <= arrived
      /\ \A r \in answers : \A e \in r.batch : e.msg \in Nat /\ e.msg <= arrived
      /\ \A m \in Messages : m \in Nat /\ (m > arrived => handed[m] = 0)
  BY <1>4, MailboxAssumption DEF IInv, NothingAhead, TypeOK, Entry, Messages
<1>6. NothingAhead'
  BY <1>1, <1>2, <1>4, <1>5 DEF NothingAhead
<1>7. InsertFresh'
  <2> SUFFICES ASSUME handler'.op = "insert" PROVE InsertFresh'
    BY DEF InsertFresh
  <2>1. handler'.owner = u /\ handler'.msg = arrived + 1 /\ HasRoom(u)
    BY <1>1, <1>2
  <2>2. EntriesOf(handler.owner)' = EntriesOf(u)
    BY <1>1, <2>1 DEF EntriesOf
  <2>3. arrived + 1 > arrived /\ \A n \in Nat : n <= arrived => n # arrived + 1
    BY <1>1
  <2> QED
    BY <1>1, <1>5, <2>1, <2>2, <2>3 DEF InsertFresh, HasRoom
<1>8. ReadBefore'
  BY <1>4 DEF ReadBefore
<1>9. WithinLimit' /\ HandedOnce' /\ IsFiniteSet(entries')
  BY <1>1 DEF IInv, WithinLimit, HandedOnce, EntriesOf
<1> QED
  BY <1>1, <1>3, <1>4, <1>6, <1>7, <1>8, <1>9 DEF IInv, OneCopy, OnePlace

\* The insert finds the room that was seen, and puts the only copy there.
LEMMA InsertKeepsIInv ==
  ASSUME IInv, Insert
  PROVE  IInv'
<1> DEFINE u == handler.owner
           new == [msg |-> handler.msg, owner |-> u, storedAt |-> now, expiresAt |-> ExpiryOf(now)]
<1>1. /\ handler.op = "insert" /\ u \in Owners /\ handler.msg \in Messages
      /\ handler' = Idle /\ handler'.op = "idle"
      /\ entries' = entries \union {new}
      /\ UNCHANGED <<requests, answers, now, arrived, handed, faults>>
  BY HandlerCases DEF IInv, TypeOK, Insert, Idle
<1>2. new \in Entry /\ new.msg = handler.msg /\ new.owner = u
  BY <1>1, MailboxAssumption DEF IInv, TypeOK, Entry, ExpiryOf, Time
<1> HIDE DEF new
<1>3. TypeOK'
  BY <1>1, <1>2 DEF IInv, TypeOK, Handler
<1>4. Shelf = entries /\ Shelf' = entries \union {new}
  BY <1>1 DEF Shelf
<1>5. NothingAhead'
  BY <1>1, <1>2, <1>4 DEF IInv, NothingAhead
<1>6. OneCopy' /\ OnePlace'
  BY <1>1, <1>2, <1>4 DEF IInv, OneCopy, OnePlace, InsertFresh
<1>7. InsertFresh' /\ ReadBefore' /\ HandedOnce'
  BY <1>1 DEF IInv, InsertFresh, ReadBefore, HandedOnce
<1>8. IsFiniteSet(entries')
  BY <1>1, FS_AddElement DEF IInv
<1>9. WithinLimit'
  <2> SUFFICES ASSUME NEW v \in Owners PROVE Cardinality(EntriesOf(v)') <= Limit
    BY DEF WithinLimit
  <2>1. IsFiniteSet(EntriesOf(v)) /\ Cardinality(EntriesOf(v)) \in Nat
    BY EntriesShrink, FS_Subset, FS_CardinalityType DEF IInv, EntriesOf
  <2>2. CASE v = u
    <3>1. EntriesOf(v)' = EntriesOf(v) \union {new}
      BY <1>1, <1>2, <2>2 DEF EntriesOf
    <3>2. Cardinality(EntriesOf(v)') <= Cardinality(EntriesOf(v)) + 1
      BY <2>1, <3>1, FS_AddElement
    <3>3. Cardinality(EntriesOf(v)') \in Nat
      BY <2>1, <3>1, FS_AddElement, FS_CardinalityType
    <3>4. Cardinality(EntriesOf(v)) < Limit
      BY <1>1, <2>2 DEF IInv, InsertFresh
    <3> QED
      BY <2>1, <3>2, <3>3, <3>4, MailboxAssumption
  <2>3. CASE v # u
    <3>1. EntriesOf(v)' = EntriesOf(v)
      BY <1>1, <1>2, <2>3 DEF EntriesOf
    <3> QED
      BY <3>1 DEF IInv, WithinLimit
  <2> QED
    BY <2>2, <2>3
<1> QED
  BY <1>3, <1>5, <1>6, <1>7, <1>8, <1>9 DEF IInv

\* The first read of a fetch: what the handler holds is in the table.
LEMMA FetchArrivesKeepsIInv ==
  ASSUME IInv, NEW u \in Owners, FetchArrives(u)
  PROVE  IInv'
<1>1. /\ handler.op = "idle"
      /\ UNCHANGED <<entries, answers, now, arrived, handed, faults>>
  BY HandlerCases DEF IInv, TypeOK, FetchArrives
<1>2. \/ handler' = Idle /\ handler'.op = "idle"
      \/ /\ handler' = [op |-> "acknowledge", owner |-> u, pending |-> EntriesOf(u)]
         /\ handler'.op = "acknowledge" /\ handler'.owner = u /\ handler'.pending = EntriesOf(u)
  BY DEF FetchArrives, Idle
<1>3. EntriesOf(u) \subseteq entries
  BY DEF EntriesOf
<1>4. TypeOK'
  <2>1. requests' \in [Owners -> 0 .. MaxRequests]
    BY MailboxAssumption DEF IInv, TypeOK, FetchArrives
  <2>2. handler' \in Handler
    BY <1>2, <1>3 DEF IInv, TypeOK, Handler
  <2> QED
    BY <1>1, <2>1, <2>2 DEF IInv, TypeOK
<1>5. Shelf' = Shelf
  BY <1>1, <1>2, <1>3 DEF Shelf
<1>6. NothingAhead' /\ OneCopy' /\ OnePlace'
  BY <1>1, <1>2, <1>5 DEF IInv, NothingAhead, OneCopy, OnePlace
<1>7. InsertFresh'
  BY <1>2 DEF InsertFresh
<1>8. ReadBefore'
  BY <1>1, <1>2 DEF ReadBefore, EntriesOf
<1>9. WithinLimit' /\ HandedOnce' /\ IsFiniteSet(entries')
  BY <1>1 DEF IInv, WithinLimit, HandedOnce, EntriesOf
<1> QED
  BY <1>4, <1>6, <1>7, <1>8, <1>9 DEF IInv

\* The second read and the delete: what was held leaves the shelf for one
\* new answer.
LEMMA AcknowledgeKeepsIInv ==
  ASSUME IInv, Acknowledge
  PROVE  IInv'
<1> DEFINE u == handler.owner
           new == [to |-> u, batch |-> handler.pending]
<1>1. /\ handler.op = "acknowledge" /\ u \in Owners /\ handler.pending \subseteq Entry
      /\ handler' = Idle /\ handler'.op = "idle"
      /\ entries' = entries \ EntriesOf(u)
      /\ answers' = answers \union {new}
      /\ UNCHANGED <<requests, now, arrived, handed, faults>>
  BY HandlerCases DEF IInv, TypeOK, Acknowledge, ReadAgain, Idle
<1>2. new.to = u /\ new.batch = handler.pending
  OBVIOUS
<1> HIDE DEF new
<1>3. TypeOK'
  BY <1>1, <1>2 DEF IInv, TypeOK, Handler
<1>4. Shelf = entries \union handler.pending /\ Shelf' = entries \ EntriesOf(u)
  BY <1>1 DEF Shelf
<1>5. \A d \in new.batch, e \in Shelf' : d.msg # e.msg
  BY <1>1, <1>2, <1>4 DEF IInv, OneCopy, ReadBefore, EntriesOf
<1>6. \A r \in answers : \A d \in new.batch, e \in r.batch : d.msg # e.msg
  BY <1>2, <1>4 DEF IInv, OnePlace
<1>7. NothingAhead'
  BY <1>1, <1>2, <1>4 DEF IInv, NothingAhead
<1>8. OneCopy'
  BY <1>1, <1>2, <1>4, <1>6 DEF IInv, OneCopy
<1>9. OnePlace'
  BY <1>1, <1>2, <1>4, <1>5 DEF IInv, OnePlace
<1>10. InsertFresh' /\ ReadBefore' /\ HandedOnce'
  BY <1>1 DEF IInv, InsertFresh, ReadBefore, HandedOnce
<1>11. WithinLimit' /\ IsFiniteSet(entries')
  <2>1. entries' \subseteq entries
    BY <1>1
  <2>2. \A v \in Owners : /\ Cardinality(EntriesOf(v)) \in Nat /\ Cardinality(EntriesOf(v)') \in Nat
                          /\ Cardinality(EntriesOf(v)') <= Cardinality(EntriesOf(v))
    BY <2>1, EntriesShrink DEF IInv
  <2>3. IsFiniteSet(entries')
    BY <2>1, FS_Subset DEF IInv
  <2> QED
    BY <2>2, <2>3, MailboxAssumption DEF IInv, WithinLimit
<1> QED
  BY <1>3, <1>7, <1>8, <1>9, <1>10, <1>11 DEF IInv

\* The owner takes a part of an answer, or all of it, and the answer is
\* gone.
LEMMA HandOverKeepsIInv ==
  ASSUME IInv, NEW r \in answers, NEW S \in SUBSET r.batch, HandOver(r, S),
         faults' \in 0 .. MaxFaults
  PROVE  IInv'
<1>1. /\ answers' = answers \ {r}
      /\ UNCHANGED <<entries, handler, requests, now, arrived>>
      /\ Shelf' = Shelf
  BY DEF HandOver, Shelf
<1>2. \A d, e \in S : d.msg = e.msg => d = e
  BY DEF IInv, OneCopy
<1>3. \A m \in Messages : handed'[m] = handed[m] + IF \E e \in S : e.msg = m THEN 1 ELSE 0
  BY <1>2, CopiesOf DEF HandOver
<1>4. handed' \in [Messages -> Nat] /\ handed \in [Messages -> Nat]
  <2>1. handed' = [m \in Messages |-> handed[m] + Cardinality({e \in S : e.msg = m})]
    BY DEF HandOver
  <2>2. \A m \in Messages : Cardinality({e \in S : e.msg = m}) = IF \E e \in S : e.msg = m THEN 1 ELSE 0
    BY <1>2, CopiesOf
  <2>3. \A m \in Messages : Cardinality({e \in S : e.msg = m}) \in Nat
    BY <2>2
  <2> QED
    BY <2>1, <2>3 DEF IInv, TypeOK
<1>5. /\ \A e \in S : handed[e.msg] = 0
      /\ \A e \in S : e.msg <= arrived
      /\ \A e \in S, d \in Shelf : d.msg # e.msg
      /\ \A e \in S : \A s \in answers' : \A d \in s.batch : d.msg # e.msg
      /\ handler.op = "insert" => \A e \in S : e.msg # handler.msg
  BY <1>1 DEF IInv, NothingAhead, OneCopy, OnePlace, InsertFresh
<1>6. \A m \in Messages : ~(\E e \in S : e.msg = m) => handed'[m] = handed[m]
  BY <1>3, <1>4
<1>7. TypeOK'
  BY <1>1, <1>4 DEF IInv, TypeOK
<1>8. /\ \A e \in Shelf : e.msg \in Messages
      /\ \A s \in answers : \A e \in s.batch : e.msg \in Messages
      /\ handler.op = "insert" => handler.msg \in Messages
  BY HandlerCases DEF IInv, TypeOK, Shelf, Entry
<1>9. HandedOnce'
  BY <1>3, <1>4, <1>5 DEF IInv, HandedOnce
<1>10. NothingAhead'
  <2>1. \A m \in Messages : m > arrived => ~(\E e \in S : e.msg = m)
    BY <1>5, MailboxAssumption DEF IInv, TypeOK, Messages
  <2> QED
    BY <1>1, <1>6, <2>1 DEF IInv, NothingAhead
<1>11. OneCopy'
  BY <1>1 DEF IInv, OneCopy
<1>12. OnePlace'
  BY <1>1, <1>5, <1>6, <1>8 DEF IInv, OnePlace
<1>13. InsertFresh'
  BY <1>1, <1>5, <1>6, <1>8 DEF IInv, InsertFresh, EntriesOf
<1>14. ReadBefore' /\ WithinLimit' /\ IsFiniteSet(entries')
  BY <1>1 DEF IInv, ReadBefore, WithinLimit, EntriesOf
<1> QED
  BY <1>7, <1>9, <1>10, <1>11, <1>12, <1>13, <1>14 DEF IInv

\* Every step keeps it.
LEMMA NextIInv == IInv /\ [Next]_vars => IInv'
<1> SUFFICES ASSUME IInv, [Next]_vars PROVE IInv'
  OBVIOUS
<1>1. CASE UNCHANGED vars
  BY <1>1, ShrinkKeepsIInv DEF IInv, TypeOK, vars
<1>2. ASSUME NEW r \in answers, Receive(r)
      PROVE  IInv'
  BY <1>2, HandOverKeepsIInv DEF Receive, IInv, TypeOK
<1>3. ASSUME NEW r \in answers, LoseAnswer(r)
      PROVE  IInv'
  <2>1. faults' \in 0 .. MaxFaults
    BY <1>3, MailboxAssumption DEF LoseAnswer, Fault, IInv, TypeOK
  <2> QED
    BY <1>3, <2>1, HandOverKeepsIInv DEF LoseAnswer
<1>4. CASE Next
  BY <1>2, <1>3, <1>4, QuietKeepsIInv, StoreArrivesKeepsIInv, InsertKeepsIInv, FetchArrivesKeepsIInv,
     AcknowledgeKeepsIInv DEF Next
<1> QED
  BY <1>1, <1>4

\* So it holds throughout.
LEMMA Invariance == Spec => []IInv
<1> QED
  BY InitIInv, NextIInv, PTL DEF Spec

-----------------------------------------------------------------------------
(* Theorems                                                                *)

\* Type correctness.
THEOREM TypeCorrect == Spec => []TypeOK
<1>1. IInv => TypeOK
  BY DEF IInv
<1> QED
  BY <1>1, Invariance, PTL

\* However many fetches are under way and wherever the relay stops, no
\* message is handed to its owner twice.
THEOREM AtMostOnce == Spec => []HandedOnce
<1>1. IInv => HandedOnce
  BY DEF IInv
<1> QED
  BY <1>1, Invariance, PTL

\* The limit is checked before one operation on the table and holds after
\* another.
THEOREM LimitHolds == Spec => []WithinLimit
<1>1. IInv => WithinLimit
  BY DEF IInv
<1> QED
  BY <1>1, Invariance, PTL

\* What leaves the table has expired or leaves for its owner: the delete
\* takes nothing the first read did not return.
THEOREM OnlyServedLeaves == Spec => LeavesForItsOwner
<1>1. IInv /\ [Next]_vars =>
        [\A e \in entries \ entries' :
           \/ e.expiresAt <= now
           \/ \E r \in answers' : r.to = e.owner /\ e \in r.batch]_vars
  <2> SUFFICES ASSUME IInv, Next, NEW e \in entries, e \notin entries', ~(e.expiresAt <= now)
               PROVE  \E r \in answers' : r.to = e.owner /\ e \in r.batch
    OBVIOUS
  <2>1. CASE Acknowledge
    <3> DEFINE new == [to |-> handler.owner, batch |-> handler.pending]
    <3>1. e \in EntriesOf(handler.owner) /\ handler.op = "acknowledge" /\ new \in answers'
      BY <2>1 DEF Acknowledge, ReadAgain
    <3>2. e.owner = handler.owner /\ e \in handler.pending
      BY <3>1 DEF EntriesOf, IInv, ReadBefore
    <3> QED
      BY <3>1, <3>2
  <2>2. CASE CleanupOnce
    <3>1. e.expiresAt \in Nat /\ now \in Nat
      BY MailboxAssumption DEF IInv, TypeOK, Entry, Time
    <3> QED
      BY <2>2, <3>1 DEF CleanupOnce
  <2>3. CASE entries \subseteq entries'
    BY <2>3
  <2> QED
    BY <2>1, <2>2, <2>3 DEF Next, StoreArrives, SendFetch, FetchArrives, LoseRequest, Receive, LoseAnswer,
       HandOver, Insert, HandlerFails, RelayRestarts, Tick
<1> QED
  BY <1>1, Invariance, PTL DEF Spec, LeavesForItsOwner

\* A message that was stored and has not expired is lost in one way only:
\* with an answer that does not reach its owner. The handler itself, its
\* failures, the restarts of the relay and the cleanup lose none.
THEOREM OnlyAnswersAreLost == Spec => LostOnlyWithAnswer
<1>1. IInv /\ [Next]_vars =>
        [\A m \in Messages :
           Kept(m) /\ ~Kept(m)' => HasExpired(m) \/ \E r \in answers : LoseAnswer(r)]_vars
  <2> SUFFICES ASSUME IInv, Next, NEW m \in Messages, Kept(m), ~ \E r \in answers : LoseAnswer(r),
                      ~ HasExpired(m)
               PROVE  Kept(m)'
    OBVIOUS
  <2>1. CASE Acknowledge
    <3> DEFINE new == [to |-> handler.owner, batch |-> handler.pending]
    <3>1. /\ handler.op = "acknowledge" /\ answers' = answers \union {new} /\ handed' = handed
          /\ entries' = entries \ EntriesOf(handler.owner)
      BY <2>1 DEF Acknowledge, ReadAgain
    <3>2. EntriesOf(handler.owner) \subseteq new.batch /\ new \in answers'
      BY <3>1 DEF IInv, ReadBefore
    <3> HIDE DEF new
    <3> QED
      BY <3>1, <3>2 DEF Kept
  <2>2. CASE CleanupOnce
    <3>1. now \in Nat /\ \A e \in entries : e.expiresAt \in Nat
      BY MailboxAssumption DEF IInv, TypeOK, Entry, Time
    <3> QED
      BY <2>2, <3>1 DEF CleanupOnce, Kept, HasExpired
  <2>3. ASSUME NEW r \in answers, Receive(r)
        PROVE  Kept(m)'
    <3>1. answers' = answers \ {r} /\ entries' = entries
      BY <2>3 DEF Receive, HandOver
    <3>2. \A d, e \in r.batch : d.msg = e.msg => d = e
      BY DEF IInv, OneCopy
    <3>3. Cardinality({e \in r.batch : e.msg = m}) = IF \E e \in r.batch : e.msg = m THEN 1 ELSE 0
      BY <3>2, CopiesOf
    <3>4. handed'[m] = (handed[m] + IF \E e \in r.batch : e.msg = m THEN 1 ELSE 0) /\ handed[m] \in Nat
      BY <2>3, <3>3 DEF Receive, HandOver, IInv, TypeOK
    <3> QED
      BY <3>1, <3>4 DEF Kept
  <2>4. CASE entries \subseteq entries' /\ answers' = answers /\ handed' = handed
    BY <2>4 DEF Kept
  <2> QED
    BY <2>1, <2>2, <2>3, <2>4 DEF Next, StoreArrives, SendFetch, FetchArrives, LoseRequest,
       Insert, HandlerFails, RelayRestarts, Tick
<1> QED
  BY <1>1, Invariance, PTL DEF Spec, LostOnlyWithAnswer
=============================================================================
