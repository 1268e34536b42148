------------------------------- MODULE Directory -------------------------------
(***************************************************************************)
(* How a user is found: the keys a node loads or generates at its start    *)
(* (main.rs, src-tauri/src/lib.rs, storage/db.rs), the two records made    *)
(* from them (network/dht/record.rs), the copies of these in the DHT, and  *)
(* fetch_bundle (network/dht/lookup.rs) of somebody who wants to write.    *)
(*                                                                         *)
(* A key is the number of its generation, a user id the number of the      *)
(* identity key it is derived from, a batch of one-time prekeys the number *)
(* of the process run that made it.  A signature is [by, over]; the nonce  *)
(* that solves a proof of work is named by its challenge.  The lookups of  *)
(* fetch_bundle are taken as answered, which Node shows they are not today *)
(* when the node's own loop calls it.                                      *)
(***************************************************************************)
EXTENDS Integers, FiniteSets

CONSTANTS Self,        \* the node of the user who is looked for
          Holders,     \* other nodes that keep copies of its records
          RecordTTL,   \* DHT_RECORD_TTL_SECS, in ticks of the clock
          MaxTime,     \* bound: the clock
          MaxFaults    \* bound: stops, failed statements and publications, damaged rows

ASSUME DirectoryAssumption ==
  /\ Self \notin Holders
  /\ RecordTTL \in Nat /\ MaxTime \in Nat /\ MaxFaults \in Nat

VARIABLES
  row,      \* local_identity, local_x3dh_keys and local_onion_key
  step,     \* where the start-up is: "down", the next thing to do, or "up"
  key,      \* the keys in memory
  made,     \* how many keys of each kind were generated
  started,  \* when each run of the process began
  mine,     \* my_dht_record and my_prekey_bundle
  copies,   \* what each node keeps for the DHT
  finder,   \* the one who looks for the user
  now,
  given,    \* history: the user ids and onion keys others have noted
  damaged,  \* history: the keys whose row was damaged
  faults

vars == <<row, step, key, made, started, mine, copies, finder, now, given, damaged, faults>>

Kinds   == {"identity", "x3dh", "onion"}
NoRow   == 0
Garbled == -1      \* a row whose key is not 32 bytes long
Nodes   == Holders \union {Self}

StepAfter == [identity |-> "x3dh", x3dh |-> "onion", onion |-> "start",
              start |-> "record", record |-> "bundle", bundle |-> "up"]
Steps     == DOMAIN StepAfter \union {"down", "up"}

\* The present run; none before the first.
Run == Cardinality(DOMAIN started)

Waiting == [at |-> "idle", wanted |-> 0, vk |-> 0, outcome |-> "none", got |-> {}]

Init ==
  /\ row     = [k \in Kinds |-> NoRow]
  /\ step    = "down"
  /\ key     = [k \in Kinds |-> 0]
  /\ made    = [k \in Kinds |-> 0]
  /\ started = [r \in {} |-> 0]
  /\ mine    = {}
  /\ copies  = [n \in Nodes |-> {}]
  /\ finder  = Waiting
  /\ now     = 0
  /\ given   = {} /\ damaged = {}
  /\ faults  = 0

Fault == faults < MaxFaults /\ faults' = faults + 1

-----------------------------------------------------------------------------
(* The records                                                             *)

UserKey(u)   == [domain |-> "user", id |-> u]
PrekeyKey(u) == [domain |-> "prekey", id |-> u]

Expiry == now + RecordTTL

\* derive_from: the challenge is bound to a purpose and a content.
Challenge(domain, content) == [domain |-> domain, content |-> content]

Solve(challenge)        == challenge
Solves(nonce, challenge) == nonce = challenge

Sign(by, over)             == [by |-> by, over |-> over]
IsSignedBy(vk, over, sign) == sign = [by |-> vk, over |-> over]

\* DhtRecordBuilder::build. Nothing that reads a user record checks its
\* signature, its work or its expiry.
UserRecord ==
  LET content == [user |-> key["identity"], publicKey |-> key["identity"], expires |-> Expiry]
  IN  [type |-> "user", key |-> UserKey(content.user), content |-> content,
       nonce |-> Solve(Challenge("dht_record", content))]

\* The content over which the work of a prekey bundle is done: the signature
\* of the signed prekey is part of it.
BundleContent(signature) ==
  [user |-> key["identity"], x3dh |-> key["x3dh"], oneTime |-> Run,
   signature |-> signature, expires |-> Expiry]

\* Broken variant: the work is done before the signature is put in.
UnsignedContent == BundleContent(Sign(0, 0))

SolvedContent == BundleContent(Sign(key["identity"], key["x3dh"]))

PreKeyBundle ==
  [type |-> "prekeys", key |-> PrekeyKey(key["identity"]),
   content |-> BundleContent(Sign(key["identity"], key["x3dh"])),
   nonce |-> Solve(Challenge("prekey_bundle", SolvedContent))]

\* Broken variant: the expiry of a record is not looked at.
NeverExpired(r) == FALSE

Expired(r) == r.content.expires < now

\* PreKeyBundleRecordBuilder::verify with the key vk.
Verified(r, vk) ==
  /\ ~Expired(r)
  /\ IsSignedBy(vk, r.content.x3dh, r.content.signature)
  /\ Solves(r.nonce, Challenge("prekey_bundle", r.content))

-----------------------------------------------------------------------------
(* Start-up                                                                *)

Launch ==
  /\ step = "down"
  /\ step' = "identity"
  /\ key'  = [k \in Kinds |-> 0]
  /\ started' = [r \in 1 .. Run + 1 |-> IF r = Run + 1 THEN now ELSE started[r]]
  /\ UNCHANGED <<row, made, mine, copies, finder, now, given, damaged, faults>>

\* Broken variant: a garbled row is an error.
LoadStrictly(k) ==
  CASE row[k] = NoRow -> "none" [] row[k] = Garbled -> "error" [] OTHER -> "key"

\* What load_identity, load_x3dh_keys and load_onion_key find.
Load(k) == IF row[k] \in {NoRow, Garbled} THEN "none" ELSE "key"

LoadKey(k) ==
  /\ step = k /\ Load(k) = "key"
  /\ key'  = [key EXCEPT ![k] = row[k]]
  /\ step' = StepAfter[k]
  /\ UNCHANGED <<row, made, started, mine, copies, finder, now, given, damaged, faults>>

\* An error of the statement ends the start.
LoadFails(k) ==
  /\ step = k
  /\ IF Load(k) = "error" THEN UNCHANGED faults ELSE Fault
  /\ step' = "down"
  /\ UNCHANGED <<row, key, made, started, mine, copies, finder, now, given, damaged>>

GenerateKey(k) ==
  /\ step = k /\ Load(k) = "none"
  /\ made' = [made EXCEPT ![k] = @ + 1]
  /\ key'  = [key EXCEPT ![k] = made[k] + 1]
  /\ row'  = [row EXCEPT ![k] = made[k] + 1]
  /\ step' = StepAfter[k]
  /\ UNCHANGED <<started, mine, copies, finder, now, given, damaged, faults>>

\* Broken variant: the error is logged and the start goes on.
GoesOn(k) == StepAfter[k]

AfterFailedSave(k) == "down"

\* The key exists in memory only; main returns with the error.
SaveFails(k) ==
  /\ step = k /\ Load(k) = "none"
  /\ Fault
  /\ made' = [made EXCEPT ![k] = @ + 1]
  /\ key'  = [key EXCEPT ![k] = made[k] + 1]
  /\ step' = AfterFailedSave(k)
  /\ UNCHANGED <<row, started, mine, copies, finder, now, given, damaged>>

StartNode ==
  /\ step = "start"
  /\ step' = StepAfter[step]
  /\ UNCHANGED <<row, key, made, started, mine, copies, finder, now, given, damaged, faults>>

\* Broken variant: a record is added beside what is kept under its key.
KeepBoth(kept, records) == kept \union records

\* A record replaces what is kept under its key.
Keep(kept, records) ==
  {c \in kept : \A r \in records : r.key # c.key} \union records

Put(records) == copies' = [copies EXCEPT ![Self] = Keep(@, records)]

\* publish_my_record and publish_my_prekey_bundle.
PublishMine(record) ==
  /\ Put({record})
  /\ mine' = Keep(mine, {record})
  /\ step' = StepAfter[step]
  /\ UNCHANGED <<row, key, made, started, finder, now, given, damaged, faults>>

PublishRecord == step = "record" /\ PublishMine(UserRecord)
PublishBundle == step = "bundle" /\ PublishMine(PreKeyBundle)

\* put_record fails: the command-line node ends, the desktop logs and goes on.
PublishFails ==
  /\ step \in {"record", "bundle"}
  /\ Fault
  /\ step' = StepAfter[step]
  /\ UNCHANGED <<row, key, made, started, mine, copies, finder, now, given, damaged>>

\* RepublishDht: the cached records once more, as they are.
Republish ==
  /\ step = "up"
  /\ Put(mine)
  /\ UNCHANGED <<row, step, key, made, started, mine, finder, now, given, damaged, faults>>

\* The process stops, or an error ends its start: its copies are in memory.
Stop ==
  /\ step # "down"
  /\ Fault
  /\ step' = "down"
  /\ mine' = {}
  /\ copies' = [copies EXCEPT ![Self] = {}]
  /\ UNCHANGED <<row, key, made, started, finder, now, given, damaged>>

DamageRow(k) ==
  /\ row[k] \notin {NoRow, Garbled}
  /\ Fault
  /\ row' = [row EXCEPT ![k] = Garbled]
  /\ damaged' = damaged \union {<<k, row[k]>>}
  /\ UNCHANGED <<step, key, made, started, mine, copies, finder, now, given>>

-----------------------------------------------------------------------------
(* The rest of the world                                                   *)

\* The log shows a user id and an onion key once they are loaded or saved;
\* friends and those who configure relays write them down.
NoteDown(k) ==
  /\ k \in {"identity", "onion"} /\ key[k] # 0 /\ step \notin {"down", k}
  /\ given' = given \union {<<k, key[k]>>}
  /\ UNCHANGED <<row, step, key, made, started, mine, copies, finder, now, damaged, faults>>

\* Kademlia carries a copy from one node to another, where it replaces
\* whatever is there, also a newer one.
Replicate(m, n) ==
  /\ \E r \in copies[m] : copies' = [copies EXCEPT ![n] = Keep(@, {r})]
  /\ UNCHANGED <<row, step, key, made, started, mine, finder, now, given, damaged, faults>>

DropCopy(n) ==
  /\ \E r \in copies[n] : copies' = [copies EXCEPT ![n] = @ \ {r}]
  /\ UNCHANGED <<row, step, key, made, started, mine, finder, now, given, damaged, faults>>

Tick ==
  /\ now < MaxTime
  /\ now' = now + 1
  /\ UNCHANGED <<row, step, key, made, started, mine, copies, finder, given, damaged, faults>>

-----------------------------------------------------------------------------
(* fetch_bundle                                                            *)

Others == UNCHANGED <<row, step, key, made, started, mine, copies, now, given, damaged, faults>>

FetchBundle(u) ==
  /\ finder.at = "idle" /\ <<"identity", u>> \in given
  /\ finder' = [Waiting EXCEPT !.at = "record", !.wanted = u]
  /\ Others

\* The first copy a query finds ends it.
Found(dhtKey) == {r \in UNION {copies[n] : n \in Nodes} : r.key = dhtKey}

Ends(outcome, got) ==
  finder' = [finder EXCEPT !.at = "idle", !.vk = 0, !.outcome = outcome, !.got = got]

RecordFound ==
  /\ finder.at = "record"
  /\ \E r \in Found(UserKey(finder.wanted)) :
       IF r.type = "user"
       THEN finder' = [finder EXCEPT !.at = "bundle", !.vk = r.content.publicKey]
       ELSE Ends("refused", {r})
  /\ Others

BundleFound ==
  /\ finder.at = "bundle"
  /\ \E r \in Found(PrekeyKey(finder.wanted)) :
       Ends(IF r.type = "prekeys" /\ Verified(r, finder.vk) THEN "accepted" ELSE "refused", {r})
  /\ Others

NothingFound ==
  /\ finder.at \in {"record", "bundle"}
  /\ Ends("not found", {})
  /\ Others

Next ==
  \/ Launch \/ StartNode \/ PublishRecord \/ PublishBundle \/ PublishFails \/ Republish
  \/ \E k \in Kinds : \/ LoadKey(k) \/ LoadFails(k) \/ GenerateKey(k) \/ SaveFails(k)
                      \/ DamageRow(k) \/ NoteDown(k)
  \/ Stop \/ Tick
  \/ \E n \in Nodes : DropCopy(n) \/ \E m \in Nodes \ {n} : Replicate(m, n)
  \/ \E u \in 1 .. made["identity"] : FetchBundle(u)
  \/ RecordFound \/ BundleFound \/ NothingFound

\* The start-up is one task that runs on, and the user starts the node again.
Fairness ==
  /\ WF_vars(Launch) /\ WF_vars(StartNode) /\ WF_vars(PublishRecord) /\ WF_vars(PublishBundle)
  /\ \A k \in Kinds : WF_vars(LoadKey(k)) /\ WF_vars(GenerateKey(k))

Spec == Init /\ [][Next]_vars /\ Fairness

-----------------------------------------------------------------------------
(* Properties                                                              *)

\* Types of the variables.
TypeOK ==
  /\ row \in [Kinds -> Int] /\ \A k \in Kinds : row[k] \in Garbled .. made[k]
  /\ step \in Steps
  /\ \A k \in Kinds : key[k] \in 0 .. made[k]
  /\ started \in [1 .. Run -> 0 .. MaxTime]
  /\ \A n \in Nodes : \A r \in mine \union copies[n] :
       /\ r.key \in [domain : {"user", "prekey"}, id : 1 .. made["identity"]]
       /\ r.content.expires \in 0 .. MaxTime + RecordTTL
  /\ Cardinality(mine) <= 2 /\ \A n \in Nodes : \A r, s \in copies[n] : r.key = s.key => r = s
  /\ finder.at \in {"idle", "record", "bundle"}
  /\ finder.outcome \in {"none", "accepted", "refused", "not found"}
  /\ now \in 0 .. MaxTime /\ faults \in 0 .. MaxFaults

\* What others rely on is in the database, wherever the process stopped: the
\* row of every user id and onion key that somebody noted, and of the keys of
\* every record that is kept anywhere or was fetched, is there or was damaged.
Relied ==
  LET bundles == {r \in finder.got \union UNION {copies[n] : n \in Nodes} : r.type = "prekeys"}
      users   == UNION {copies[n] : n \in Nodes}
  IN  given \union {<<"identity", r.content.user>> : r \in users}
            \union {<<"x3dh", r.content.x3dh>> : r \in bundles}

KeysOutliveProcess ==
  \A rel \in Relied : row[rel[1]] = rel[2] \/ rel \in damaged

\* fetch_bundle refuses what it found only because it has expired: the user
\* record and the bundle agree on key, signature and work, though copies of
\* several runs and of several identities are about.
OnlyExpiryRefuses ==
  [][finder.at # "idle" /\ finder'.outcome = "refused"
       => \E r \in finder'.got : r.content.expires < now]_vars

\* One-time prekeys live as long as the process that made them, their bundle
\* longer.  A bundle that is accepted is the wanted user's, made by the present
\* run or by one whose successor began no longer ago than a record lives.
DeadPrekeysFade ==
  [][finder.at = "bundle" /\ finder'.outcome = "accepted" =>
       \E r \in finder'.got :
         /\ r.content.user = finder.wanted
         /\ r.content.oneTime = Run \/ started[r.content.oneTime + 1] + RecordTTL >= now]_vars

\* A node that stopped comes up again, whatever rows were damaged and
\* wherever in its start it had stopped before.
ComesUpAgain == step = "down" ~> step = "up"
=============================================================================
