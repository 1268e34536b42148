----------------------------- MODULE DirectoryProofs -----------------------------
(***************************************************************************)
(* Theorems about Directory, for all sets of nodes, lifetimes of records   *)
(* and bounds. The inductive invariant is IInv: type correctness, that the *)
(* keys in memory are in the database from the step that loads them on,    *)
(* and that every record anywhere is as its builder made it, from keys     *)
(* that are in the database, in a run that ended before it expired.        *)
(***************************************************************************)
EXTENDS Directory, FiniteSetTheorems, TLAPS

\* The key is in its row, or was until the row was damaged.
Held(k, v) == v \in 1 .. made[k] /\ (row[k] = v \/ <<k, v>> \in damaged)

\* The steps of the start-up at which each key has been loaded.
Loaded == [identity |-> {"x3dh", "onion", "start", "record", "bundle", "up"},
           x3dh     |-> {"onion", "start", "record", "bundle", "up"},
           onion    |-> {"start", "record", "bundle", "up"}]

KeysHeld ==
  \A k \in Kinds : /\ step \in Loaded[k] => Held(k, key[k])
                   /\ step \notin Loaded[k] \union {"down"} => key[k] = 0

GivenHeld == \A g \in given : \E k \in Kinds : \E v \in 1 .. made[k] : g = <<k, v>> /\ Held(k, v)

\* What others, the node itself and the finder have of the node's records.
Records == mine \union finder.got \union UNION {copies[n] : n \in Nodes}

\* A record as its builder made it, from keys that are held.
IsUserRecord(r) ==
  /\ r.type = "user" /\ r.key = UserKey(r.content.user)
  /\ r.content.publicKey = r.content.user

IsPreKeyBundle(r) ==
  /\ r.type = "prekeys" /\ r.key = PrekeyKey(r.content.user)
  /\ r.content.signature = Sign(r.content.user, r.content.x3dh)
  /\ r.nonce = Challenge("prekey_bundle", r.content)
  /\ Held("x3dh", r.content.x3dh)

\* The run that made the prekeys of a bundle goes on, or the next one began
\* no earlier than the lifetime of a record before the bundle expires.
RunOutlasts(r) ==
  /\ r.content.oneTime \in 1 .. Run
  /\ r.content.oneTime < Run => r.content.expires <= started[r.content.oneTime + 1] + RecordTTL

WellMade(r) ==
  /\ Held("identity", r.content.user)
  /\ r.content.expires \in 0 .. now + RecordTTL
  /\ IsUserRecord(r) \/ (IsPreKeyBundle(r) /\ RunOutlasts(r))

RecordsMade == \A r \in Records : WellMade(r)

OneEach(S) == \A r, s \in S : r.key = s.key => r = s

\* Before it publishes the node has nothing cached, then one record, then
\* two of different keys.
CachedOnce ==
  /\ OneEach(mine)
  /\ step \notin {"bundle", "up"} => mine = {}
  /\ step = "bundle" => \E a : mine \subseteq {a}
  /\ \E a, b : mine \subseteq {a, b}

\* A finder that looks has no outcome yet, and looks for the bundle with the
\* key of the user it wants.
FinderKnows ==
  /\ finder = [at |-> finder.at, wanted |-> finder.wanted, vk |-> finder.vk,
               outcome |-> finder.outcome, got |-> finder.got]
  /\ finder.at # "idle" => finder.outcome = "none"
  /\ finder.at = "bundle" => finder.vk = finder.wanted

KeysTyped ==
  /\ row \in [Kinds -> Int] /\ (\A k \in Kinds : row[k] \in Garbled .. made[k])
  /\ made \in [Kinds -> Nat]
  /\ key \in [Kinds -> Int] /\ (\A k \in Kinds : key[k] \in 0 .. made[k])
  /\ step \in Steps

TimeTyped ==
  /\ now \in 0 .. MaxTime /\ faults \in 0 .. MaxFaults
  /\ Run \in Nat /\ started \in [1 .. Run -> 0 .. MaxTime] /\ (step # "down" => Run > 0)

CopiesTyped == DOMAIN copies = Nodes /\ (\A n \in Nodes : OneEach(copies[n]))

FinderTyped ==
  /\ finder.at \in {"idle", "record", "bundle"}
  /\ finder.outcome \in {"none", "accepted", "refused", "not found"}

Typed == KeysTyped /\ TimeTyped /\ CopiesTyped /\ FinderTyped

IInv == Typed /\ KeysHeld /\ GivenHeld /\ RecordsMade /\ CachedOnce /\ FinderKnows

-----------------------------------------------------------------------------
(* Steps of the start-up                                                   *)

\* The order of the steps, and which keys are loaded at which.
LEMMA StepFacts ==
  /\ Steps = {"identity", "x3dh", "onion", "start", "record", "bundle", "up", "down"}
  /\ StepAfter["start"] = "record" /\ StepAfter["record"] = "bundle" /\ StepAfter["bundle"] = "up"
  /\ \A k \in Kinds :
       /\ k \in Steps \ {"down", "start", "record", "bundle", "up"} /\ k \notin Loaded[k]
       /\ StepAfter[k] \in Steps \ {"down", "record", "bundle", "up"}
       /\ {"start", "record", "bundle", "up"} \subseteq Loaded[k]
       /\ "down" \notin Loaded[k] /\ (k # "identity" => "identity" \notin Loaded[k])
       /\ "identity" \notin Loaded[k]
BY DEF Steps, StepAfter, Kinds, Loaded

\* A step that loads a key loads that key, and none but the first step comes
\* before every key.
LEMMA LoadingFacts ==
  ASSUME NEW k \in Kinds, NEW j \in Kinds
  PROVE  /\ StepAfter[k] \in Loaded[k]
         /\ j # k => (StepAfter[k] \in Loaded[j] <=> k \in Loaded[j])
BY DEF StepAfter, Kinds, Loaded

-----------------------------------------------------------------------------
(* What is held stays held, and a record well made stays so                *)

\* What a step does to keys and rows: nothing, or it makes a new key, which
\* it may save where there was none, or it damages a row.
RowsOnlyFill ==
  \/ UNCHANGED <<row, made, damaged>>
  \/ /\ \E k \in Kinds : /\ made' = [made EXCEPT ![k] = @ + 1]
                         /\ \/ row' = row
                            \/ row[k] \in {NoRow, Garbled} /\ row' = [row EXCEPT ![k] = made[k] + 1]
     /\ damaged' = damaged
  \/ /\ \E k \in Kinds : /\ row' = [row EXCEPT ![k] = Garbled]
                         /\ damaged' = damaged \union {<<k, row[k]>>}
     /\ made' = made

\* A held key stays held: rows are only filled, or damaged on record.
LEMMA HeldStays ==
  ASSUME Typed, RowsOnlyFill, NEW k \in Kinds, NEW v, Held(k, v)
  PROVE  Held(k, v)'
<1>1. v \in 1 .. made[k] /\ made[k] \in Nat /\ v \notin {NoRow, Garbled}
  BY DEF Typed, KeysTyped, Held, NoRow, Garbled
<1>2. CASE UNCHANGED <<row, made, damaged>>
  BY <1>2 DEF Held
<1>3. ASSUME NEW j \in Kinds, made' = [made EXCEPT ![j] = @ + 1], damaged' = damaged,
             \/ row' = row
             \/ row[j] \in {NoRow, Garbled} /\ row' = [row EXCEPT ![j] = made[j] + 1]
      PROVE  Held(k, v)'
  <2>1. v \in 1 .. made'[k]
    BY <1>1, <1>3 DEF Typed, KeysTyped
  <2>2. row[k] = v => row'[k] = v
    BY <1>1, <1>3 DEF Typed, KeysTyped
  <2> QED
    BY <1>3, <2>1, <2>2 DEF Held
<1>4. ASSUME NEW j \in Kinds, row' = [row EXCEPT ![j] = Garbled], made' = made,
             damaged' = damaged \union {<<j, row[j]>>}
      PROVE  Held(k, v)'
  BY <1>4 DEF Held, Typed, KeysTyped
<1> QED
  BY <1>2, <1>3, <1>4 DEF RowsOnlyFill

\* What a step does to time: nothing, a tick, or a run begins now.
TimeGoesOn ==
  \/ UNCHANGED <<now, started>>
  \/ now' = now + 1 /\ started' = started
  \/ now' = now /\ started' = [r \in 1 .. Run + 1 |-> IF r = Run + 1 THEN now ELSE started[r]]

\* A step leaves the runs alone or begins the next one, now.
LEMMA RunFacts ==
  ASSUME Typed, TimeGoesOn
  PROVE  \/ Run' = Run /\ started' = started
         \/ /\ Run' = Run + 1 /\ now' = now
            /\ started' \in [1 .. Run + 1 -> 0 .. MaxTime]
            /\ started'[Run + 1] = now
            /\ \A r \in 1 .. Run : started'[r] = started[r]
<1>1. CASE started' = started
  BY <1>1 DEF Run
<1>2. CASE now' = now /\ started' = [r \in 1 .. Run + 1 |-> IF r = Run + 1 THEN now ELSE started[r]]
  <2>1. DOMAIN started' = 1 .. Run + 1
    BY <1>2
  <2>2. Cardinality(1 .. Run + 1) = Run + 1
    <3>1. Run \in Nat
      BY DEF Typed, TimeTyped
    <3> QED
      BY <3>1, FS_Interval
  <2>3. Run' = Run + 1
    BY <2>1, <2>2 DEF Run
  <2>4. Run \in Nat /\ started \in [1 .. Run -> 0 .. MaxTime] /\ now \in 0 .. MaxTime
    BY DEF Typed, TimeTyped
  <2>5. started' \in [1 .. Run + 1 -> 0 .. MaxTime]
    BY <1>2, <2>4
  <2>6. started'[Run + 1] = now /\ \A r \in 1 .. Run : started'[r] = started[r]
    BY <1>2, <2>4
  <2> QED
    BY <1>2, <2>3, <2>5, <2>6
<1> QED
  BY <1>1, <1>2 DEF TimeGoesOn

\* A record that was well made stays so: its keys stay held, and a run that
\* begins now begins no earlier than a lifetime before the record expires.
LEMMA WellMadeStays ==
  ASSUME Typed, RowsOnlyFill, TimeGoesOn, NEW r, WellMade(r)
  PROVE  WellMade(r)'
<1>1. Held("identity", r.content.user)'
  BY HeldStays DEF WellMade, Kinds
<1>2. r.content.expires \in 0 .. now + RecordTTL /\ now \in Nat /\ RecordTTL \in Nat
  <2>1. r.content.expires \in 0 .. now + RecordTTL
    BY DEF WellMade
  <2>2. now \in 0 .. MaxTime
    BY DEF Typed, TimeTyped
  <2> QED
    BY <2>1, <2>2, DirectoryAssumption
<1>3. r.content.expires \in 0 .. now' + RecordTTL
  BY <1>2 DEF TimeGoesOn
<1>4. IsUserRecord(r) => IsUserRecord(r)'
  BY DEF IsUserRecord
<1>5. IsPreKeyBundle(r) => IsPreKeyBundle(r)'
  BY HeldStays DEF IsPreKeyBundle, Kinds
<1>6. RunOutlasts(r) => RunOutlasts(r)'
  <2> SUFFICES ASSUME RunOutlasts(r) PROVE RunOutlasts(r)'
    OBVIOUS
  <2> DEFINE o == r.content.oneTime
  <2>1. Run \in Nat /\ o \in 1 .. Run
        /\ (o < Run => r.content.expires <= started[o + 1] + RecordTTL)
    BY DEF RunOutlasts, Typed, TimeTyped
  <2>2. CASE Run' = Run /\ started' = started
    BY <2>1, <2>2 DEF RunOutlasts
  <2>3. CASE /\ Run' = Run + 1 /\ now' = now
             /\ started'[Run + 1] = now
             /\ \A q \in 1 .. Run : started'[q] = started[q]
    <3>1. o \in 1 .. Run + 1
      BY <2>1
    <3>2. r.content.expires <= started'[o + 1] + RecordTTL
      <4>1. CASE o = Run
        BY <4>1, <2>3, <1>2
      <4>2. CASE o < Run
        <5>1. o + 1 \in 1 .. Run
          BY <4>2, <2>1
        <5> QED
          BY <5>1, <4>2, <2>1, <2>3
      <4> QED
        BY <4>1, <4>2, <2>1
    <3> QED
      BY <2>3, <3>1, <3>2 DEF RunOutlasts
  <2> QED
    BY <2>2, <2>3, RunFacts
<1> QED
  BY <1>1, <1>3, <1>4, <1>5, <1>6 DEF WellMade

\* The user ids and onion keys others noted stay held.
LEMMA GivenStays ==
  ASSUME IInv, RowsOnlyFill, given' = given
  PROVE  GivenHeld'
<1> SUFFICES ASSUME NEW g \in given
             PROVE  \E k \in Kinds : \E v \in 1 .. made'[k] : g = <<k, v>> /\ Held(k, v)'
  BY DEF GivenHeld
<1>1. PICK k \in Kinds : \E v \in 1 .. made[k] : g = <<k, v>> /\ Held(k, v)
  BY DEF IInv, GivenHeld
<1>2. PICK v \in 1 .. made[k] : g = <<k, v>> /\ Held(k, v)
  BY <1>1
<1>3. Held(k, v)'
  BY <1>2, HeldStays DEF IInv
<1>4. v \in 1 .. made'[k]
  BY <1>3 DEF Held
<1> QED
  BY <1>2, <1>3, <1>4

\* No new record: those there are stay well made.
LEMMA RecordsStay ==
  ASSUME IInv, RowsOnlyFill, TimeGoesOn, Records' \subseteq Records
  PROVE  RecordsMade'
BY WellMadeStays DEF IInv, RecordsMade

-----------------------------------------------------------------------------
(* Initial state                                                           *)

\* It holds before the first start.
LEMMA InitIInv == Init => IInv
<1> SUFFICES ASSUME Init PROVE IInv
  OBVIOUS
<1>1. KeysTyped
  BY StepFacts DEF Init, KeysTyped, NoRow, Garbled, Steps
<1>2. Run = 0
  BY FS_EmptySet DEF Init, Run
<1>3. TimeTyped
  BY <1>2, DirectoryAssumption DEF Init, TimeTyped
<1>4. CopiesTyped
  BY DEF Init, CopiesTyped, OneEach
<1>5. FinderTyped /\ FinderKnows
  BY DEF Init, FinderTyped, FinderKnows, Waiting
<1>6. KeysHeld
  BY StepFacts DEF Init, KeysHeld
<1>7. GivenHeld
  BY DEF Init, GivenHeld
<1>8. RecordsMade
  BY DEF Init, RecordsMade, Records, Waiting
<1>9. CachedOnce
  BY DEF Init, CachedOnce, OneEach
<1> QED
  BY <1>1, <1>3, <1>4, <1>5, <1>6, <1>7, <1>8, <1>9 DEF IInv, Typed

-----------------------------------------------------------------------------
(* Steps that concern the keys                                             *)

\* What they all leave to show.
LEMMA KeyStepKeepsIInv ==
  ASSUME IInv, RowsOnlyFill, TimeGoesOn, KeysTyped', TimeTyped', KeysHeld',
         mine' = mine, copies' = copies, finder' = finder, given' = given,
         step' = step \/ (step \notin {"bundle", "up"} /\ step' \notin {"bundle", "up"})
  PROVE  IInv'
<1>1. Records' = Records
  BY DEF Records
<1>2. CopiesTyped' /\ FinderTyped' /\ FinderKnows'
  BY DEF IInv, Typed, CopiesTyped, FinderTyped, FinderKnows
<1>3. CachedOnce'
  BY DEF IInv, CachedOnce, OneEach
<1> QED
  BY <1>1, <1>2, <1>3, RecordsStay, GivenStays DEF IInv, Typed

\* A start loads nothing yet.
LEMMA LaunchKeepsIInv ==
  ASSUME IInv, Launch
  PROVE  IInv'
<1>1. /\ step = "down" /\ step' = "identity" /\ key' = [k \in Kinds |-> 0]
      /\ UNCHANGED <<row, made, mine, copies, finder, now, given, damaged, faults>>
      /\ RowsOnlyFill /\ TimeGoesOn
  BY DEF Launch, RowsOnlyFill, TimeGoesOn
<1>2. KeysTyped'
  <2>1. KeysTyped
    BY DEF IInv, Typed
  <2> QED
    BY <1>1, <2>1, StepFacts DEF KeysTyped
<1>3. TimeTyped'
  <2>1. TimeTyped /\ Typed
    BY DEF IInv, Typed
  <2>2. Run' = Run + 1 /\ started' \in [1 .. Run + 1 -> 0 .. MaxTime]
    <3>1. Run \in Nat /\ started' = [r \in 1 .. Run + 1 |-> IF r = Run + 1 THEN now ELSE started[r]]
      BY <2>1 DEF Launch, TimeTyped
    <3>2. DOMAIN started' # DOMAIN started
      <4>1. Run + 1 \in DOMAIN started' /\ DOMAIN started = 1 .. Run
        BY <3>1, <2>1 DEF TimeTyped
      <4>2. Run + 1 \notin 1 .. Run
        BY <3>1
      <4> QED
        BY <4>1, <4>2
    <3> QED
      BY <1>1, <2>1, <3>2, RunFacts
  <2>3. Run + 1 \in Nat /\ Run + 1 > 0
    BY <2>1 DEF TimeTyped
  <2> QED
    BY <1>1, <2>1, <2>2, <2>3 DEF TimeTyped
<1>4. KeysHeld'
  BY <1>1, StepFacts DEF KeysHeld
<1> QED
  BY <1>1, <1>2, <1>3, <1>4, KeyStepKeepsIInv

\* A key that is loaded is the one of its row.
LEMMA LoadKeyKeepsIInv ==
  ASSUME IInv, NEW k \in Kinds, LoadKey(k)
  PROVE  IInv'
<1>1. /\ step = k /\ step' = StepAfter[k] /\ key' = [key EXCEPT ![k] = row[k]]
      /\ row[k] \notin {NoRow, Garbled}
      /\ UNCHANGED <<row, made, started, mine, copies, finder, now, given, damaged, faults>>
      /\ RowsOnlyFill /\ TimeGoesOn
  BY DEF LoadKey, Load, RowsOnlyFill, TimeGoesOn
<1>2. KeysTyped /\ TimeTyped /\ KeysHeld
  BY DEF IInv, Typed
<1>3. row[k] \in 1 .. made[k]
  BY <1>1, <1>2 DEF KeysTyped, NoRow, Garbled
<1>4. KeysTyped'
  BY <1>1, <1>2, <1>3, StepFacts DEF KeysTyped
<1>5. TimeTyped'
  BY <1>1, <1>2, StepFacts DEF TimeTyped, Run
<1>6. KeysHeld'
  <2> SUFFICES ASSUME NEW j \in Kinds
               PROVE  /\ step' \in Loaded[j] => Held(j, key[j])'
                      /\ step' \notin Loaded[j] \union {"down"} => key'[j] = 0
    BY DEF KeysHeld
  <2>1. CASE j = k
    BY <1>1, <1>2, <1>3, <2>1, LoadingFacts DEF Held, KeysTyped
  <2>2. CASE j # k
    <3>1. key'[j] = key[j] /\ (step' \in Loaded[j] <=> step \in Loaded[j])
      BY <1>1, <1>2, <2>2, LoadingFacts DEF KeysTyped
    <3> QED
      BY <1>1, <1>2, <3>1, StepFacts DEF KeysHeld, Held
  <2> QED
    BY <2>1, <2>2
<1> QED
  BY <1>1, <1>4, <1>5, <1>6, StepFacts, KeyStepKeepsIInv

\* A new key is in its row when the start goes on.
LEMMA GenerateKeyKeepsIInv ==
  ASSUME IInv, NEW k \in Kinds, GenerateKey(k)
  PROVE  IInv'
<1>1. /\ step = k /\ step' = StepAfter[k]
      /\ made' = [made EXCEPT ![k] = @ + 1]
      /\ key' = [key EXCEPT ![k] = made[k] + 1] /\ row' = [row EXCEPT ![k] = made[k] + 1]
      /\ row[k] \in {NoRow, Garbled}
      /\ UNCHANGED <<started, mine, copies, finder, now, given, damaged, faults>>
      /\ TimeGoesOn
  BY DEF GenerateKey, Load, TimeGoesOn
<1>2. KeysTyped /\ TimeTyped /\ KeysHeld /\ Typed
  BY DEF IInv, Typed
<1>3. RowsOnlyFill
  BY <1>1 DEF RowsOnlyFill
<1>4. made[k] \in Nat /\ made[k] + 1 \in 1 .. made[k] + 1
  BY <1>2 DEF KeysTyped
<1>5. KeysTyped'
  BY <1>1, <1>2, <1>4, StepFacts DEF KeysTyped, Garbled
<1>6. TimeTyped'
  BY <1>1, <1>2, StepFacts DEF TimeTyped, Run
<1>7. KeysHeld'
  <2> SUFFICES ASSUME NEW j \in Kinds
               PROVE  /\ step' \in Loaded[j] => Held(j, key[j])'
                      /\ step' \notin Loaded[j] \union {"down"} => key'[j] = 0
    BY DEF KeysHeld
  <2>1. CASE j = k
    BY <1>1, <1>2, <1>4, <2>1, LoadingFacts DEF Held, KeysTyped
  <2>2. CASE j # k
    <3>1. key'[j] = key[j] /\ (step' \in Loaded[j] <=> step \in Loaded[j])
      BY <1>1, <1>2, <2>2, LoadingFacts DEF KeysTyped
    <3>2. Held(j, key[j]) => Held(j, key[j])'
      <4>1. \A v : Held(j, v) => Held(j, v)'
        BY <1>2, <1>3, HeldStays
      <4> QED
        BY <4>1, <3>1 DEF Held
    <3> QED
      BY <1>1, <1>2, <3>1, <3>2, StepFacts DEF KeysHeld
  <2> QED
    BY <2>1, <2>2
<1> QED
  BY <1>1, <1>3, <1>5, <1>6, <1>7, StepFacts, KeyStepKeepsIInv

\* A start that ends early leaves nothing loaded.
LEMMA StartEndsKeepsIInv ==
  ASSUME IInv, NEW k \in Kinds, LoadFails(k) \/ SaveFails(k)
  PROVE  IInv'
<1>1. /\ step = k /\ step' = "down"
      /\ UNCHANGED <<row, started, mine, copies, finder, now, given, damaged>>
      /\ \/ UNCHANGED <<made, key>>
         \/ /\ made' = [made EXCEPT ![k] = @ + 1]
            /\ key' = [key EXCEPT ![k] = made[k] + 1]
      /\ faults' = faults \/ Fault
      /\ TimeGoesOn
  BY DEF LoadFails, SaveFails, AfterFailedSave, TimeGoesOn
<1>2. KeysTyped /\ TimeTyped
  BY DEF IInv, Typed
<1>3. RowsOnlyFill
  BY <1>1 DEF RowsOnlyFill
<1>4. KeysTyped'
  <2>1. made[k] \in Nat
    BY <1>2 DEF KeysTyped
  <2> QED
    BY <1>1, <1>2, <2>1, StepFacts DEF KeysTyped, Garbled
<1>5. TimeTyped'
  BY <1>1, <1>2, DirectoryAssumption DEF TimeTyped, Run, Fault
<1>6. KeysHeld'
  BY <1>1, StepFacts DEF KeysHeld
<1> QED
  BY <1>1, <1>3, <1>4, <1>5, <1>6, StepFacts, KeyStepKeepsIInv

\* The node is built from keys that are all loaded.
LEMMA StartNodeKeepsIInv ==
  ASSUME IInv, StartNode
  PROVE  IInv'
<1>1. /\ step = "start" /\ step' = "record"
      /\ UNCHANGED <<row, key, made, started, mine, copies, finder, now, given, damaged, faults>>
      /\ TimeGoesOn /\ RowsOnlyFill
  BY StepFacts DEF StartNode, TimeGoesOn, RowsOnlyFill
<1>2. KeysTyped /\ TimeTyped /\ KeysHeld
  BY DEF IInv, Typed
<1>3. KeysTyped'
  BY <1>1, <1>2, StepFacts DEF KeysTyped
<1>4. TimeTyped'
  BY <1>1, <1>2 DEF TimeTyped, Run
<1>5. KeysHeld'
  BY <1>1, <1>2, StepFacts DEF KeysHeld, Held
<1> QED
  BY <1>1, <1>3, <1>4, <1>5, KeyStepKeepsIInv

\* A row that is damaged is noted as such.
LEMMA DamageRowKeepsIInv ==
  ASSUME IInv, NEW k \in Kinds, DamageRow(k)
  PROVE  IInv'
<1>1. /\ row' = [row EXCEPT ![k] = Garbled] /\ damaged' = damaged \union {<<k, row[k]>>}
      /\ UNCHANGED <<step, key, made, started, mine, copies, finder, now, given>>
      /\ Fault /\ TimeGoesOn
  BY DEF DamageRow, TimeGoesOn
<1>2. KeysTyped /\ TimeTyped /\ KeysHeld /\ Typed
  BY DEF IInv, Typed
<1>3. RowsOnlyFill
  BY <1>1 DEF RowsOnlyFill
<1>4. KeysTyped'
  BY <1>1, <1>2 DEF KeysTyped, Garbled
<1>5. TimeTyped'
  BY <1>1, <1>2, DirectoryAssumption DEF TimeTyped, Run, Fault
<1>6. KeysHeld'
  <2> SUFFICES ASSUME NEW j \in Kinds
               PROVE  /\ step' \in Loaded[j] => Held(j, key[j])'
                      /\ step' \notin Loaded[j] \union {"down"} => key'[j] = 0
    BY DEF KeysHeld
  <2>1. \A v : Held(j, v) => Held(j, v)'
    BY <1>2, <1>3, HeldStays
  <2>2. Held(j, key[j]) => Held(j, key[j])'
    BY <1>1, <2>1 DEF Held
  <2> QED
    BY <1>1, <1>2, <2>2 DEF KeysHeld
<1> QED
  BY <1>1, <1>3, <1>4, <1>5, <1>6, KeyStepKeepsIInv

\* Nothing but time goes on.
LEMMA TickKeepsIInv ==
  ASSUME IInv, Tick
  PROVE  IInv'
<1>1. /\ now < MaxTime /\ now' = now + 1
      /\ UNCHANGED <<row, step, key, made, started, mine, copies, finder, given, damaged, faults>>
      /\ RowsOnlyFill /\ TimeGoesOn
  BY DEF Tick, RowsOnlyFill, TimeGoesOn
<1>2. KeysTyped' /\ KeysHeld'
  BY <1>1 DEF IInv, Typed, KeysTyped, KeysHeld, Held
<1>3. TimeTyped'
  <2>1. TimeTyped
    BY DEF IInv, Typed
  <2> QED
    BY <1>1, <2>1, DirectoryAssumption DEF TimeTyped, Run
<1> QED
  BY <1>1, <1>2, <1>3, KeyStepKeepsIInv

\* What others note down is held.
LEMMA NoteDownKeepsIInv ==
  ASSUME IInv, NEW k \in Kinds, NoteDown(k)
  PROVE  IInv'
<1>1. /\ k \in {"identity", "onion"} /\ key[k] # 0 /\ step \notin {"down", k}
      /\ given' = given \union {<<k, key[k]>>}
      /\ UNCHANGED <<row, step, key, made, started, mine, copies, finder, now, damaged, faults>>
  BY DEF NoteDown
<1>2. Held(k, key[k])
  BY <1>1 DEF IInv, KeysHeld
<1>3. GivenHeld'
  <2> SUFFICES ASSUME NEW g \in given'
               PROVE  \E j \in Kinds : \E v \in 1 .. made[j] : g = <<j, v>> /\ Held(j, v)
    BY <1>1 DEF GivenHeld, Held
  <2>1. CASE g \in given
    BY <2>1 DEF IInv, GivenHeld
  <2>2. CASE g = <<k, key[k]>>
    BY <2>2, <1>2 DEF Held
  <2> QED
    BY <1>1, <2>1, <2>2
<1>4. Typed' /\ KeysHeld' /\ CachedOnce' /\ FinderKnows'
  BY <1>1 DEF IInv, Typed, KeysTyped, TimeTyped, CopiesTyped, FinderTyped, Run, KeysHeld, Held,
     CachedOnce, FinderKnows, OneEach
<1>5. RecordsMade'
  <2>1. RowsOnlyFill /\ TimeGoesOn /\ Records' \subseteq Records
    BY <1>1 DEF RowsOnlyFill, TimeGoesOn, Records
  <2> QED
    BY <2>1, RecordsStay
<1> QED
  BY <1>3, <1>4, <1>5 DEF IInv

-----------------------------------------------------------------------------
(* Steps that concern the records                                          *)

\* What they all leave to show.
LEMMA RecordStepKeepsIInv ==
  ASSUME IInv, UNCHANGED <<row, key, made, started, now, given, damaged>>,
         step' = step \/ {step, step'} \subseteq {"record", "bundle", "up"} \/ step' = "down",
         faults' \in 0 .. MaxFaults,
         DOMAIN copies' = Nodes, \A n \in Nodes : OneEach(copies'[n]),
         CachedOnce', FinderTyped', FinderKnows',
         \A r \in Records' : r \in Records \/ WellMade(r)
  PROVE  IInv'
<1>1. RowsOnlyFill /\ TimeGoesOn
  BY DEF RowsOnlyFill, TimeGoesOn
<1>2. RecordsMade'
  BY <1>1, WellMadeStays DEF IInv, RecordsMade
<1>3. GivenHeld'
  BY <1>1, GivenStays
<1>4. KeysTyped'
  BY StepFacts DEF IInv, Typed, KeysTyped
<1>5. TimeTyped'
  BY DEF IInv, Typed, TimeTyped, Run
<1>6. KeysHeld'
  BY StepFacts DEF IInv, KeysHeld, Held
<1>7. CopiesTyped'
  BY DEF CopiesTyped, OneEach
<1> QED
  BY <1>2, <1>3, <1>4, <1>5, <1>6, <1>7 DEF IInv, Typed

\* Where a record is.
LEMMA InRecords ==
  /\ \A r : r \in Records <=> r \in mine \/ r \in finder.got \/ \E n \in Nodes : r \in copies[n]
  /\ \A r : r \in Records' <=> r \in mine' \/ r \in finder'.got \/ \E n \in Nodes : r \in copies'[n]
BY Zenon DEF Records

\* A node keeps one record under each key.
LEMMA KeepsOneEach ==
  ASSUME NEW kept, NEW records, OneEach(kept), OneEach(records)
  PROVE  OneEach(Keep(kept, records)) /\ Keep(kept, records) \subseteq kept \union records
BY DEF OneEach, Keep

\* The builders build from keys that are held.
LEMMA RecordsAreMade ==
  ASSUME IInv, step \in {"record", "bundle"}
  PROVE  /\ WellMade(UserRecord) /\ UserRecord.key = UserKey(key["identity"])
         /\ WellMade(PreKeyBundle) /\ PreKeyBundle.key = PrekeyKey(key["identity"])
<1>1. Held("identity", key["identity"]) /\ Held("x3dh", key["x3dh"])
  BY StepFacts DEF IInv, KeysHeld, Kinds
<1>2. Run \in Nat /\ Run \in 1 .. Run /\ Expiry \in 0 .. now + RecordTTL
  BY DirectoryAssumption DEF IInv, Typed, TimeTyped, Expiry
<1>3. WellMade(UserRecord) /\ UserRecord.key = UserKey(key["identity"])
  <2>1. /\ UserRecord.type = "user" /\ UserRecord.content.user = key["identity"]
        /\ UserRecord.key = UserKey(key["identity"])
        /\ UserRecord.content.publicKey = key["identity"] /\ UserRecord.content.expires = Expiry
    BY DEF UserRecord
  <2> QED
    BY <1>1, <1>2, <2>1 DEF WellMade, IsUserRecord
<1>4. WellMade(PreKeyBundle) /\ PreKeyBundle.key = PrekeyKey(key["identity"])
  <2>1. /\ PreKeyBundle.type = "prekeys" /\ PreKeyBundle.key = PrekeyKey(key["identity"])
        /\ PreKeyBundle.content = SolvedContent
        /\ PreKeyBundle.nonce = Challenge("prekey_bundle", SolvedContent)
    BY DEF PreKeyBundle, SolvedContent, Solve
  <2>2. /\ SolvedContent.user = key["identity"] /\ SolvedContent.x3dh = key["x3dh"]
        /\ SolvedContent.signature = Sign(key["identity"], key["x3dh"])
        /\ SolvedContent.oneTime = Run /\ SolvedContent.expires = Expiry
    BY DEF SolvedContent, BundleContent
  <2>3. RunOutlasts(PreKeyBundle)
    BY <1>2, <2>1, <2>2 DEF RunOutlasts
  <2> QED
    BY <1>1, <1>2, <2>1, <2>2, <2>3 DEF WellMade, IsPreKeyBundle
<1> QED
  BY <1>3, <1>4

\* A step towards "up" that gives one new record to the DHT.
LEMMA PublishKeepsIInv ==
  ASSUME IInv, PublishRecord \/ PublishBundle
  PROVE  IInv'
<1>1. PICK record \in {UserRecord, PreKeyBundle} :
        PublishMine(record) /\ (step = "record" \/ step = "bundle")
  BY DEF PublishRecord, PublishBundle
<1>2. WellMade(record)
  BY <1>1, RecordsAreMade
<1>3. /\ copies' = [copies EXCEPT ![Self] = Keep(@, {record})]
      /\ mine' = Keep(mine, {record}) /\ step' = StepAfter[step]
      /\ UNCHANGED <<row, key, made, started, finder, now, given, damaged, faults>>
  BY <1>1 DEF PublishMine, Put
<1>4. step' \in {"bundle", "up"} /\ (step' = "bundle" => step = "record")
  BY <1>1, <1>3, StepFacts
<1>5. OneEach({record}) /\ DOMAIN copies = Nodes /\ OneEach(mine) /\ \A n \in Nodes : OneEach(copies[n])
  BY DEF OneEach, IInv, Typed, CopiesTyped, CachedOnce
<1>6. OneEach(mine') /\ mine' \subseteq mine \union {record}
  BY <1>3, <1>5, KeepsOneEach
<1>7. Self \in Nodes /\ DOMAIN copies' = Nodes
      /\ \A n \in Nodes : OneEach(copies'[n]) /\ copies'[n] \subseteq copies[n] \union {record}
  <2>1. OneEach(Keep(copies[Self], {record})) /\ Keep(copies[Self], {record}) \subseteq copies[Self] \union {record}
    BY <1>5, KeepsOneEach DEF Nodes
  <2> QED
    BY <1>3, <1>5, <2>1 DEF Nodes
<1>8. CachedOnce'
  <2>1. CASE step = "record"
    BY <1>4, <1>6, <2>1 DEF IInv, CachedOnce, OneEach
  <2>2. CASE step = "bundle"
    <3>1. step' = "up"
      BY <1>3, <2>2, StepFacts
    <3>2. PICK a : mine \subseteq {a}
      BY <2>2 DEF IInv, CachedOnce
    <3>3. mine' \subseteq {a, record}
      BY <1>6, <3>2
    <3> QED
      BY <1>6, <3>1, <3>3 DEF CachedOnce, OneEach
  <2> QED
    BY <1>1, <2>1, <2>2
<1>9. FinderTyped' /\ FinderKnows'
  BY <1>3 DEF IInv, Typed, FinderTyped, FinderKnows
<1>10. \A r \in Records' : r \in Records \/ WellMade(r)
  BY <1>2, <1>3, <1>6, <1>7, InRecords
<1>11. faults' \in 0 .. MaxFaults
  BY <1>3 DEF IInv, Typed, TimeTyped
<1> QED
  BY <1>1, <1>3, <1>4, <1>7, <1>8, <1>9, <1>10, <1>11, RecordStepKeepsIInv

\* A publication that fails leaves things as they are.
LEMMA PublishFailsKeepsIInv ==
  ASSUME IInv, PublishFails
  PROVE  IInv'
<1>1. /\ step \in {"record", "bundle"} /\ step' = StepAfter[step] /\ Fault
      /\ UNCHANGED <<row, key, made, started, mine, copies, finder, now, given, damaged>>
  BY DEF PublishFails
<1>2. step' \in {"bundle", "up"} /\ (step = "record" => step' = "bundle")
  BY <1>1, StepFacts
<1>3. CachedOnce'
  BY <1>1, <1>2 DEF IInv, CachedOnce, OneEach
<1>4. FinderTyped' /\ FinderKnows' /\ Records' = Records
  BY <1>1 DEF IInv, Typed, FinderTyped, FinderKnows, Records
<1>5. faults' \in 0 .. MaxFaults
  BY <1>1, DirectoryAssumption DEF IInv, Typed, TimeTyped, Fault
<1> QED
  BY <1>1, <1>2, <1>3, <1>4, <1>5, RecordStepKeepsIInv DEF IInv, Typed, CopiesTyped

\* Copies move between nodes, are lost, or are given to the DHT once more.
LEMMA CopiesKeepIInv ==
  ASSUME IInv, NEW n \in Nodes,
         \/ Republish /\ n = Self
         \/ DropCopy(n)
         \/ \E m \in Nodes : Replicate(m, n)
  PROVE  IInv'
<1>1. UNCHANGED <<row, step, key, made, started, mine, finder, now, given, damaged, faults>>
  BY DEF Republish, DropCopy, Replicate
<1>2. DOMAIN copies = Nodes /\ OneEach(mine) /\ \A m \in Nodes : OneEach(copies[m])
  BY DEF IInv, Typed, CopiesTyped, CachedOnce
<1>3. PICK S : /\ copies' = [copies EXCEPT ![n] = S] /\ OneEach(S)
               /\ \A r \in S : r \in Records
  <2>1. CASE Republish /\ n = Self
    <3>1. copies' = [copies EXCEPT ![n] = Keep(copies[n], mine)]
      BY <2>1 DEF Republish, Put
    <3>2. OneEach(Keep(copies[n], mine)) /\ Keep(copies[n], mine) \subseteq copies[n] \union mine
      BY <1>2, KeepsOneEach
    <3> QED
      BY <3>1, <3>2, InRecords
  <2>2. CASE DropCopy(n)
    <3>1. PICK r \in copies[n] : copies' = [copies EXCEPT ![n] = copies[n] \ {r}]
      BY <2>2 DEF DropCopy
    <3>2. OneEach(copies[n] \ {r})
      BY <1>2 DEF OneEach
    <3> QED
      BY <3>1, <3>2, InRecords
  <2>3. ASSUME NEW m \in Nodes, Replicate(m, n)
        PROVE  \E S : /\ copies' = [copies EXCEPT ![n] = S] /\ OneEach(S)
                      /\ \A r \in S : r \in Records
    <3>1. PICK r \in copies[m] : copies' = [copies EXCEPT ![n] = Keep(copies[n], {r})]
      BY <2>3 DEF Replicate
    <3>2. OneEach({r})
      BY DEF OneEach
    <3>3. OneEach(Keep(copies[n], {r})) /\ Keep(copies[n], {r}) \subseteq copies[n] \union {r}
      BY <1>2, <3>2, KeepsOneEach
    <3> QED
      BY <3>1, <3>3, InRecords
  <2> QED
    BY <2>1, <2>2, <2>3
<1>4. DOMAIN copies' = Nodes /\ \A m \in Nodes : OneEach(copies'[m])
  BY <1>2, <1>3
<1>5. \A r \in Records' : r \in Records
  BY <1>1, <1>2, <1>3, InRecords
<1>6. CachedOnce' /\ FinderTyped' /\ FinderKnows' /\ faults' \in 0 .. MaxFaults
  BY <1>1 DEF IInv, Typed, TimeTyped, CachedOnce, OneEach, FinderTyped, FinderKnows
<1> QED
  BY <1>1, <1>4, <1>5, <1>6, RecordStepKeepsIInv

\* The process takes its cache and its copies with it.
LEMMA StopKeepsIInv ==
  ASSUME IInv, Stop
  PROVE  IInv'
<1>1. /\ step' = "down" /\ Fault /\ mine' = {}
      /\ copies' = [copies EXCEPT ![Self] = {}]
      /\ UNCHANGED <<row, key, made, started, finder, now, given, damaged>>
  BY DEF Stop
<1>2. DOMAIN copies' = Nodes /\ \A n \in Nodes : OneEach(copies'[n]) /\ copies'[n] \subseteq copies[n]
  BY <1>1 DEF IInv, Typed, CopiesTyped, OneEach
<1>3. CachedOnce'
  BY <1>1 DEF CachedOnce, OneEach
<1>4. FinderTyped' /\ FinderKnows'
  BY <1>1 DEF IInv, Typed, FinderTyped, FinderKnows
<1>5. \A r \in Records' : r \in Records
  BY <1>1, <1>2, InRecords
<1>6. faults' \in 0 .. MaxFaults
  BY <1>1, DirectoryAssumption DEF IInv, Typed, TimeTyped, Fault
<1> QED
  BY <1>1, <1>2, <1>3, <1>4, <1>5, <1>6, RecordStepKeepsIInv

-----------------------------------------------------------------------------
(* The finder                                                              *)

\* What a query finds was made by the user the finder wants.
LEMMA FoundFacts ==
  ASSUME IInv, NEW u
  PROVE  /\ \A r \in Found(UserKey(u)) : /\ r \in Records /\ IsUserRecord(r)
                                        /\ r.content.user = u
         /\ \A r \in Found(PrekeyKey(u)) : /\ r \in Records /\ IsPreKeyBundle(r) /\ RunOutlasts(r)
                                          /\ r.content.user = u
<1>1. \A k : \A r \in Found(k) : r \in Records /\ WellMade(r) /\ r.key = k
  BY DEF Found, Records, IInv, RecordsMade
<1>2. \A v, w : /\ UserKey(v) # PrekeyKey(w)
                /\ UserKey(v) = UserKey(w) => v = w
                /\ PrekeyKey(v) = PrekeyKey(w) => v = w
  <2>1. \A v : /\ UserKey(v).domain = "user" /\ UserKey(v).id = v
               /\ PrekeyKey(v).domain = "prekey" /\ PrekeyKey(v).id = v
    BY DEF UserKey, PrekeyKey
  <2> QED
    BY <2>1
<1> QED
  BY <1>1, <1>2 DEF WellMade, IsUserRecord, IsPreKeyBundle

\* The finder begins, goes on, or ends with what it found.
LEMMA FinderSteps ==
  ASSUME IInv, \/ \E u \in 1 .. made["identity"] : FetchBundle(u)
               \/ RecordFound \/ BundleFound \/ NothingFound
  PROVE  /\ Others /\ FinderTyped' /\ FinderKnows'
         /\ \A r \in finder'.got : r \in Records
<1>0. FinderTyped /\ FinderKnows
  BY DEF IInv, Typed
<1>1. CASE \E u \in 1 .. made["identity"] : FetchBundle(u)
  <2>1. PICK u : FetchBundle(u)
    BY <1>1
  <2>2. finder' = [at |-> "record", wanted |-> u, vk |-> 0, outcome |-> "none", got |-> {}]
    BY <2>1 DEF FetchBundle, Waiting
  <2>3. Others
    BY <2>1 DEF FetchBundle
  <2> QED
    BY <2>2, <2>3 DEF FinderTyped, FinderKnows
<1>2. ASSUME NEW outcome \in {"accepted", "refused", "not found"}, NEW got, Ends(outcome, got),
             got \subseteq Records
      PROVE  FinderTyped' /\ FinderKnows' /\ \A r \in finder'.got : r \in Records
  <2>1. finder' = [at |-> "idle", wanted |-> finder.wanted, vk |-> 0, outcome |-> outcome, got |-> got]
    BY <1>0, <1>2 DEF Ends, FinderKnows
  <2> QED
    BY <1>2, <2>1 DEF FinderTyped, FinderKnows
<1>3. CASE RecordFound
  <2>1. PICK r \in Found(UserKey(finder.wanted)) :
          IF r.type = "user"
          THEN finder' = [finder EXCEPT !.at = "bundle", !.vk = r.content.publicKey]
          ELSE Ends("refused", {r})
    BY <1>3 DEF RecordFound
  <2>2. IsUserRecord(r) /\ r.content.user = finder.wanted
    BY FoundFacts
  <2>3. finder' = [at |-> "bundle", wanted |-> finder.wanted, vk |-> finder.wanted,
                   outcome |-> finder.outcome, got |-> finder.got]
    BY <1>0, <2>1, <2>2 DEF FinderKnows, IsUserRecord
  <2>4. finder.outcome = "none"
    BY <1>0, <1>3 DEF RecordFound, FinderKnows
  <2> QED
    BY <1>0, <1>3, <2>3, <2>4, InRecords DEF RecordFound, FinderTyped, FinderKnows
<1>4. CASE BundleFound
  <2>1. PICK r \in Found(PrekeyKey(finder.wanted)) :
          Ends(IF r.type = "prekeys" /\ Verified(r, finder.vk) THEN "accepted" ELSE "refused", {r})
    BY <1>4 DEF BundleFound
  <2>2. {r} \subseteq Records
    BY FoundFacts
  <2>3. Others
    BY <1>4 DEF BundleFound
  <2> DEFINE outcome == IF r.type = "prekeys" /\ Verified(r, finder.vk) THEN "accepted" ELSE "refused"
  <2>4. outcome \in {"accepted", "refused", "not found"} /\ Ends(outcome, {r})
    BY <2>1
  <2> HIDE DEF outcome
  <2> QED
    BY <1>2, <2>2, <2>3, <2>4
<1>5. CASE NothingFound
  <2>1. Others /\ Ends("not found", {})
    BY <1>5 DEF NothingFound
  <2>2. finder' = [at |-> "idle", wanted |-> finder.wanted, vk |-> 0, outcome |-> "not found", got |-> {}]
    BY <1>0, <2>1 DEF Ends, FinderKnows
  <2> QED
    BY <2>1, <2>2 DEF FinderTyped, FinderKnows
<1> QED
  BY <1>1, <1>3, <1>4, <1>5

\* A finder changes nothing but what it knows and has got.
LEMMA FinderKeepsIInv ==
  ASSUME IInv, \/ \E u \in 1 .. made["identity"] : FetchBundle(u)
               \/ RecordFound \/ BundleFound \/ NothingFound
  PROVE  IInv'
<1>1. /\ UNCHANGED <<row, step, key, made, started, mine, copies, now, given, damaged, faults>>
      /\ FinderTyped' /\ FinderKnows' /\ \A r \in finder'.got : r \in Records
  BY FinderSteps DEF Others
<1>2. \A r \in Records' : r \in Records
  BY <1>1, InRecords
<1>3. /\ CachedOnce' /\ faults' \in 0 .. MaxFaults
      /\ DOMAIN copies' = Nodes /\ \A n \in Nodes : OneEach(copies'[n])
  BY <1>1 DEF IInv, Typed, TimeTyped, CopiesTyped, CachedOnce, OneEach
<1> QED
  BY <1>1, <1>2, <1>3, RecordStepKeepsIInv

\* Every step keeps it.
LEMMA NextIInv == IInv /\ [Next]_vars => IInv'
<1> SUFFICES ASSUME IInv, [Next]_vars PROVE IInv'
  OBVIOUS
<1>1. CASE UNCHANGED vars
  <2>1. /\ UNCHANGED <<row, step, key, made, started, mine, copies, finder, now, given, damaged, faults>>
        /\ RowsOnlyFill /\ TimeGoesOn
    BY <1>1 DEF vars, RowsOnlyFill, TimeGoesOn
  <2>2. KeysTyped' /\ KeysHeld'
    BY <2>1 DEF IInv, Typed, KeysTyped, KeysHeld, Held
  <2>3. TimeTyped'
    BY <2>1 DEF IInv, Typed, TimeTyped, Run
  <2> QED
    BY <2>1, <2>2, <2>3, KeyStepKeepsIInv
<1>2. CASE Republish
  BY <1>2, CopiesKeepIInv DEF Nodes
<1>3. CASE Next
  BY <1>2, <1>3, LaunchKeepsIInv, StartNodeKeepsIInv, PublishKeepsIInv, PublishFailsKeepsIInv,
     LoadKeyKeepsIInv, StartEndsKeepsIInv, GenerateKeyKeepsIInv, DamageRowKeepsIInv, NoteDownKeepsIInv,
     StopKeepsIInv, TickKeepsIInv, CopiesKeepIInv, FinderKeepsIInv DEF Next
<1> QED
  BY <1>1, <1>3

\* So it holds throughout.
LEMMA Invariance == Spec => []IInv
<1> QED
  BY InitIInv, NextIInv, PTL DEF Spec

-----------------------------------------------------------------------------
(* Theorems                                                                *)

\* Type correctness.
THEOREM TypeCorrect == Spec => []TypeOK
<1>1. IInv => TypeOK
  <2> SUFFICES ASSUME IInv PROVE TypeOK
    OBVIOUS
  <2>1. \A r \in Records : /\ r.key \in [domain : {"user", "prekey"}, id : 1 .. made["identity"]]
                            /\ r.content.expires \in 0 .. MaxTime + RecordTTL
    <3> SUFFICES ASSUME NEW r \in Records
                 PROVE  /\ r.key \in [domain : {"user", "prekey"}, id : 1 .. made["identity"]]
                        /\ r.content.expires \in 0 .. MaxTime + RecordTTL
      OBVIOUS
    <3>1. WellMade(r) /\ now \in 0 .. MaxTime
      BY DEF IInv, RecordsMade, Typed, TimeTyped
    <3>2. r.content.user \in 1 .. made["identity"]
      BY <3>1 DEF WellMade, Held
    <3>3. r.key = UserKey(r.content.user) \/ r.key = PrekeyKey(r.content.user)
      BY <3>1 DEF WellMade, IsUserRecord, IsPreKeyBundle
    <3>4. r.content.expires \in 0 .. now + RecordTTL
      BY <3>1 DEF WellMade
    <3>5. r.content.expires \in 0 .. MaxTime + RecordTTL
      BY <3>1, <3>4, DirectoryAssumption
    <3> QED
      BY <3>2, <3>3, <3>5 DEF UserKey, PrekeyKey
  <2>2. \A n \in Nodes : \A r \in mine \union copies[n] : r \in Records
    BY InRecords
  <2>3. Cardinality(mine) <= 2
    <3>1. PICK a, b : mine \subseteq {a, b}
      BY DEF IInv, CachedOnce
    <3>2. IsFiniteSet({a}) /\ Cardinality({a}) = 1
      BY FS_Singleton
    <3>3. IsFiniteSet({a} \union {b}) /\ Cardinality({a} \union {b}) <= 2
      BY <3>2, FS_AddElement
    <3>4. mine \in SUBSET ({a} \union {b})
      BY <3>1
    <3>5. IsFiniteSet(mine) /\ Cardinality(mine) <= Cardinality({a} \union {b})
      BY <3>3, <3>4, FS_Subset
    <3>6. Cardinality(mine) \in Nat /\ Cardinality({a} \union {b}) \in Nat
      BY <3>3, <3>5, FS_CardinalityType
    <3> QED
      BY <3>3, <3>5, <3>6
  <2>4. \A n \in Nodes : \A r, s \in copies[n] : r.key = s.key => r = s
    BY DEF IInv, Typed, CopiesTyped, OneEach
  <2>5. KeysTyped /\ TimeTyped /\ FinderTyped
    BY DEF IInv, Typed
  <2> QED
    BY <2>1, <2>2, <2>3, <2>4, <2>5 DEF TypeOK, KeysTyped, TimeTyped, FinderTyped
<1> QED
  BY <1>1, Invariance, PTL

\* No key that others rely on is lost with the process: its row is in the
\* database, or was damaged there.
THEOREM KeysOutlive == Spec => []KeysOutliveProcess
<1>1. IInv => KeysOutliveProcess
  <2> SUFFICES ASSUME IInv, NEW rel \in Relied
               PROVE  row[rel[1]] = rel[2] \/ rel \in damaged
    BY DEF KeysOutliveProcess
  <2>1. \/ rel \in given
        \/ \E r \in Records : rel = <<"identity", r.content.user>>
        \/ \E r \in Records : r.type = "prekeys" /\ rel = <<"x3dh", r.content.x3dh>>
    BY DEF Relied, Records
  <2>2. CASE rel \in given
    <3>1. PICK k \in Kinds : \E v \in 1 .. made[k] : rel = <<k, v>> /\ Held(k, v)
      BY <2>2 DEF IInv, GivenHeld
    <3>2. PICK v \in 1 .. made[k] : rel = <<k, v>> /\ Held(k, v)
      BY <3>1
    <3>3. rel[1] = k /\ rel[2] = v
      BY <3>2
    <3> QED
      BY <3>2, <3>3 DEF Held
  <2>3. ASSUME NEW r \in Records, rel = <<"identity", r.content.user>>
        PROVE  row[rel[1]] = rel[2] \/ rel \in damaged
    BY <2>3 DEF IInv, RecordsMade, WellMade, Held
  <2>4. ASSUME NEW r \in Records, r.type = "prekeys", rel = <<"x3dh", r.content.x3dh>>
        PROVE  row[rel[1]] = rel[2] \/ rel \in damaged
    BY <2>4 DEF IInv, RecordsMade, WellMade, IsUserRecord, IsPreKeyBundle, Held
  <2> QED
    BY <2>1, <2>2, <2>3, <2>4
<1> QED
  BY <1>1, Invariance, PTL

\* What a step of the finder that ends at the bundle found there.
LEMMA FinderEnds ==
  ASSUME IInv, [Next]_vars, finder.at # "idle", finder'.outcome \in {"accepted", "refused"}
  PROVE  /\ finder.at = "bundle"
         /\ \E r \in Found(PrekeyKey(finder.wanted)) :
              /\ finder'.got = {r}
              /\ finder'.outcome = "accepted" <=> r.type = "prekeys" /\ Verified(r, finder.vk)
<1>0. FinderKnows /\ finder.outcome = "none"
  BY DEF IInv, FinderKnows
<1>1. \A outcome, got : Ends(outcome, got) => finder'.outcome = outcome /\ finder'.got = got
  <2> SUFFICES ASSUME NEW outcome, NEW got, Ends(outcome, got)
               PROVE  finder'.outcome = outcome /\ finder'.got = got
    OBVIOUS
  <2>1. finder' = [at |-> "idle", wanted |-> finder.wanted, vk |-> 0, outcome |-> outcome, got |-> got]
    BY <1>0 DEF Ends, FinderKnows
  <2> QED
    BY <2>1
<1>2. ~RecordFound /\ ~NothingFound /\ finder' # finder
  <2>1. finder' # finder
    BY <1>0
  <2>2. ASSUME RecordFound PROVE FALSE
    <3>1. PICK r \in Found(UserKey(finder.wanted)) :
            IF r.type = "user"
            THEN finder' = [finder EXCEPT !.at = "bundle", !.vk = r.content.publicKey]
            ELSE Ends("refused", {r})
      BY <2>2 DEF RecordFound
    <3>2. r.type = "user"
      BY FoundFacts DEF IsUserRecord
    <3>3. finder' = [at |-> "bundle", wanted |-> finder.wanted, vk |-> r.content.publicKey,
                     outcome |-> finder.outcome, got |-> finder.got]
      BY <1>0, <3>1, <3>2 DEF FinderKnows
    <3> QED
      BY <1>0, <3>3
  <2>3. ASSUME NothingFound PROVE FALSE
    <3>1. Ends("not found", {})
      BY <2>3 DEF NothingFound
    <3>2. finder'.outcome = "not found"
      BY <1>1, <3>1
    <3> QED
      BY <3>2
  <2> QED
    BY <2>1, <2>2, <2>3
<1>3. BundleFound
  BY <1>2 DEF Next, vars, Launch, StartNode, PublishRecord, PublishBundle, PublishMine, PublishFails,
     Republish, LoadKey, LoadFails, GenerateKey, SaveFails, DamageRow, NoteDown, Stop, Tick, DropCopy,
     Replicate, FetchBundle
<1>4. PICK r \in Found(PrekeyKey(finder.wanted)) :
        Ends(IF r.type = "prekeys" /\ Verified(r, finder.vk) THEN "accepted" ELSE "refused", {r})
  BY <1>3 DEF BundleFound
<1>5. /\ finder'.outcome = IF r.type = "prekeys" /\ Verified(r, finder.vk) THEN "accepted" ELSE "refused"
      /\ finder'.got = {r}
  BY <1>1, <1>4
<1> QED
  BY <1>3, <1>5 DEF BundleFound

\* fetch_bundle refuses only what has expired.
THEOREM RefusedIsExpired == Spec => OnlyExpiryRefuses
<1>1. IInv /\ [Next]_vars =>
        [finder.at # "idle" /\ finder'.outcome = "refused"
         => \E r \in finder'.got : r.content.expires < now]_vars
  <2> SUFFICES ASSUME IInv, [Next]_vars, finder.at # "idle", finder'.outcome = "refused"
               PROVE  \E r \in finder'.got : r.content.expires < now
    OBVIOUS
  <2>1. PICK r \in Found(PrekeyKey(finder.wanted)) :
          finder'.got = {r} /\ ~(r.type = "prekeys" /\ Verified(r, finder.vk))
    BY FinderEnds
  <2>2. IsPreKeyBundle(r) /\ r.content.user = finder.wanted
    BY FoundFacts
  <2>3. finder.vk = finder.wanted
    BY FinderEnds DEF IInv, FinderKnows
  <2>4. Expired(r)
    BY <2>1, <2>2, <2>3 DEF IsPreKeyBundle, Verified, IsSignedBy, Sign, Solves
  <2> QED
    BY <2>1, <2>4 DEF Expired
<1> QED
  BY <1>1, Invariance, PTL DEF Spec, OnlyExpiryRefuses

\* A bundle that is accepted is the wanted user's, and the run that holds
\* its one-time prekeys goes on or ended no longer ago than a record lives.
THEOREM PrekeysFade == Spec => DeadPrekeysFade
<1>1. IInv /\ [Next]_vars =>
        [finder.at = "bundle" /\ finder'.outcome = "accepted" =>
           \E r \in finder'.got :
             /\ r.content.user = finder.wanted
             /\ r.content.oneTime = Run \/ started[r.content.oneTime + 1] + RecordTTL >= now]_vars
  <2> SUFFICES ASSUME IInv, [Next]_vars, finder.at = "bundle", finder'.outcome = "accepted"
               PROVE  \E r \in finder'.got :
                        /\ r.content.user = finder.wanted
                        /\ r.content.oneTime = Run \/ started[r.content.oneTime + 1] + RecordTTL >= now
    OBVIOUS
  <2>1. PICK r \in Found(PrekeyKey(finder.wanted)) :
          finder'.got = {r} /\ Verified(r, finder.vk)
    BY FinderEnds
  <2>2. RunOutlasts(r) /\ r.content.user = finder.wanted /\ r \in Records
    BY FoundFacts
  <2>3. ~(r.content.expires < now)
    BY <2>1 DEF Verified, Expired
  <2>4. r.content.expires \in Nat /\ now \in Nat /\ RecordTTL \in Nat
    <3>1. r.content.expires \in 0 .. now + RecordTTL
      BY <2>2 DEF IInv, RecordsMade, WellMade
    <3>2. now \in Nat
      BY DirectoryAssumption DEF IInv, Typed, TimeTyped
    <3> QED
      BY <3>1, <3>2, DirectoryAssumption
  <2>5. CASE r.content.oneTime < Run
    <3> DEFINE o == r.content.oneTime + 1
    <3>1. r.content.expires <= started[o] + RecordTTL
      BY <2>2, <2>5 DEF RunOutlasts
    <3>2. o \in 1 .. Run
      BY <2>2, <2>5 DEF RunOutlasts, IInv, Typed, TimeTyped
    <3>3. started[o] \in Nat
      BY <3>2 DEF IInv, Typed, TimeTyped
    <3> HIDE DEF o
    <3>4. started[o] + RecordTTL >= now
      BY <2>3, <2>4, <3>1, <3>3
    <3> QED
      BY <2>1, <2>2, <3>4 DEF o
  <2>6. CASE ~(r.content.oneTime < Run)
    <3>1. r.content.oneTime = Run
      BY <2>2, <2>6 DEF RunOutlasts, IInv, Typed, TimeTyped
    <3> QED
      BY <2>1, <2>2, <3>1
  <2> QED
    BY <2>5, <2>6
<1> QED
  BY <1>1, Invariance, PTL DEF Spec, DeadPrekeysFade
=============================================================================
