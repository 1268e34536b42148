---------------------------- MODULE SessionManager ----------------------------
(***************************************************************************)
(* session/manager.rs: how sessions come into being, are kept, reloaded    *)
(* and used.  Every user runs one SessionManager over its own SessionStore *)
(* and its own pool of one-time prekeys, and fetches the others' prekey    *)
(* bundles from the DHT.                                                   *)
(*                                                                         *)
(* mem[u] is the `sessions' map and store[u] the sessions table, both      *)
(* functions on the peers that have an entry.  The node opens the table in *)
(* memory, so a restart empties both.  net holds every envelope ever put   *)
(* on the network: each may arrive at any time, any number of times.       *)
(*                                                                         *)
(* X3DH is named by what goes into it: who initiated towards whom, with    *)
(* which ephemeral key, and with which one-time prekey (DH4), if any.  A   *)
(* process publishes a batch of one-time prekeys and fetch_bundle always   *)
(* takes the first of the batch, so a key is named by the number of the    *)
(* process run that generated it; 0 is `None'.  Signatures are the         *)
(* senders' and verify; the users know each other as contacts.             *)
(***************************************************************************)
EXTENDS Naturals, Sequences, FiniteSets

CONSTANTS Users,
          MaxSkip, CounterMod,   \* see DoubleRatchet
          MaxSends,              \* bound: sends per user and peer
          MaxRestarts,           \* bound: restarts per user
          MaxFailures            \* bound: failed writes of the store, in all

ASSUME SessionAssumption ==
  /\ CounterMod \in Nat /\ CounterMod > 1
  /\ MaxSkip \in Nat /\ 0 < MaxSkip /\ MaxSkip < CounterMod
  /\ MaxSends \in [Users -> [Users -> Nat]]
  /\ MaxRestarts \in [Users -> Nat]
  /\ MaxFailures \in Nat

RootSecret == [init : Users, resp : Users, eph : Nat, otpk : Nat]

INSTANCE DoubleRatchet WITH Secrets <- RootSecret

NoOtpk == 0

VARIABLES mem, store, pool, published, run, ephs, sent, net, inbox,
          accepted,   \* history: the secrets each user derived as responder
          failures

vars == <<mem, store, pool, published, run, ephs, sent, net, inbox, accepted, failures>>

SessionInit == [eph : Nat, otpk : Nat]
NoInit      == [eph |-> 0, otpk |-> NoOtpk]      \* session_init = None
Origin      == {"Initiated", "Accepted"}
Row         == [origin : Origin, state : RatchetState]
Envelope    == [from : Users, to : Users, n : Nat, init : SessionInit,
                counter : Counter, key : MessageKey]

Empty         == [v \in {} |-> "none"]
Put(f, v, x)  == [w \in DOMAIN f \union {v} |-> IF w = v THEN x ELSE f[w]]
Drop(f, v)    == [w \in DOMAIN f \ {v} |-> f[w]]

Init ==
  /\ mem       = [u \in Users |-> Empty]
  /\ store     = [u \in Users |-> Empty]
  /\ run       = [u \in Users |-> 1]
  /\ pool      = [u \in Users |-> {1}]
  /\ published = [u \in Users |-> 1]
  /\ ephs      = [u \in Users |-> 0]
  /\ sent      = [u \in Users |-> [v \in Users |-> 0]]
  /\ net       = {}
  /\ inbox     = [u \in Users |-> << >>]
  /\ accepted  = [u \in Users |-> {}]
  /\ failures  = 0

-----------------------------------------------------------------------------
(* Sessions and rows                                                       *)

\* Broken variant: every session takes the chains of an initiator.
AlwaysInitiator(origin) == "Initiator"

RoleForOrigin(origin) == IF origin = "Initiated" THEN "Initiator" ELSE "Responder"

NewSession(origin, secret) ==
  [origin |-> origin, ratchet |-> NewRatchet(secret, RoleForOrigin(origin))]

RestoreSession(row) == [origin |-> row.origin, ratchet |-> Restore(row.state)]

\* Broken variant: the skipped keys go into the row as well.
SaveWhole(rows, v, s) == Put(rows, v, [origin |-> s.origin, state |-> s.ratchet])

\* Broken variant: an existing row is left as it is.
SaveOnce(rows, v, s) ==
  IF v \in DOMAIN rows THEN rows
  ELSE Put(rows, v, [origin |-> s.origin, state |-> ExportState(s.ratchet)])

\* The upsert leaves the origin of an existing row alone.
Save(rows, v, s) ==
  Put(rows, v, [origin |-> IF v \in DOMAIN rows THEN rows[v].origin ELSE s.origin,
                state  |-> ExportState(s.ratchet)])

WriteFails == failures < MaxFailures /\ failures' = failures + 1

-----------------------------------------------------------------------------
(* encrypt_for: rows are the store's rows as ensure_session_as_initiator   *)
(* left them, s the session it found, reloaded or raised.                  *)

EncryptWith(u, v, s, rows, init) ==
  LET t == [s EXCEPT !.ratchet = SendStep(@)]
      sealed == Seal(s.ratchet)
      e == [from |-> u, to |-> v, n |-> sent[u][v] + 1, init |-> init,
            counter |-> sealed.counter, key |-> sealed.key]
  IN  /\ sent[u][v] < MaxSends[u][v]
      /\ sent' = [sent EXCEPT ![u][v] = @ + 1]
      /\ mem'  = [mem EXCEPT ![u] = Put(@, v, t)]
      /\ \/ /\ store' = [store EXCEPT ![u] = Save(rows, v, t)]
            /\ net' = net \union {e}
            /\ UNCHANGED failures
         \/ /\ WriteFails
            /\ store' = [store EXCEPT ![u] = rows]
            /\ UNCHANGED net
      /\ UNCHANGED <<pool, published, run, inbox, accepted>>

EncryptInMemory(u, v) ==
  /\ v \in DOMAIN mem[u]
  /\ EncryptWith(u, v, mem[u][v], store[u], NoInit)
  /\ UNCHANGED ephs

EncryptReloaded(u, v) ==
  /\ v \notin DOMAIN mem[u]
  /\ v \in DOMAIN store[u]
  /\ EncryptWith(u, v, RestoreSession(store[u][v]), store[u], NoInit)
  /\ UNCHANGED ephs

\* First contact: the session is raised from the published bundle.
EncryptFirst(u, v) ==
  /\ v \notin DOMAIN mem[u] \union DOMAIN store[u]
  /\ LET init == [eph |-> ephs[u] + 1, otpk |-> published[v]]
         s == NewSession("Initiated", [init |-> u, resp |-> v, eph |-> init.eph, otpk |-> init.otpk])
     IN  EncryptWith(u, v, s, Save(store[u], v, s), init)
  /\ ephs' = [ephs EXCEPT ![u] = @ + 1]

-----------------------------------------------------------------------------
(* decrypt_from, once it has a session s in memory for the sender.         *)

DecryptWith(u, e, s, rows) ==
  LET r == s.ratchet
      t == [s EXCEPT !.ratchet = AfterDecrypt(r, e.counter)]
      Found == HasKeyFor(r, e.counter)
      Opens == Found /\ KeyFor(r, e.counter) = e.key
  IN  \/ /\ Opens                             \* handed over
         /\ mem'   = [mem EXCEPT ![u] = Put(@, e.from, t)]
         /\ store' = [store EXCEPT ![u] = Save(rows, e.from, t)]
         /\ inbox' = [inbox EXCEPT ![u] = Append(@, e)]
         /\ UNCHANGED failures
      \/ /\ Opens                             \* opened, but the row is not written
         /\ WriteFails
         /\ mem'   = [mem EXCEPT ![u] = Put(@, e.from, t)]
         /\ store' = [store EXCEPT ![u] = rows]
         /\ UNCHANGED inbox
      \/ /\ ~Opens                            \* refused, with or without a key spent on it
         /\ mem'   = [mem EXCEPT ![u] = Put(@, e.from, IF Found THEN t ELSE s)]
         /\ store' = [store EXCEPT ![u] = rows]
         /\ UNCHANGED <<inbox, failures>>

DecryptInSession(u, e) ==
  /\ e.from \in DOMAIN mem[u]
  /\ DecryptWith(u, e, mem[u][e.from], store[u])
  /\ UNCHANGED <<pool, published, run, ephs, sent, net, accepted>>

\* Broken variant: the private half is found although it was used before.
KeptOtpk(u, init) == init.otpk

\* Broken variant: the key is read from the pool and stays in it.
PoolKept(u, init) == pool[u]

\* Broken variant: X3DH data raises a session also when there is one.
HasInit(u, e) == e.init # NoInit

\* accept_incoming_session takes the one-time prekey out of the pool; if it
\* is not there, the secret is derived without it.  The store is not asked.
TakenOtpk(u, init) == IF init.otpk \in pool[u] THEN init.otpk ELSE NoOtpk

RemainingPool(u, init) == pool[u] \ {init.otpk}

NeedsAccept(u, e) == e.from \notin DOMAIN mem[u] /\ e.init # NoInit

RespondSecret(u, e) ==
  [init |-> e.from, resp |-> u, eph |-> e.init.eph, otpk |-> TakenOtpk(u, e.init)]

DecryptFirst(u, e) ==
  /\ NeedsAccept(u, e)
  /\ pool' = [pool EXCEPT ![u] = RemainingPool(u, e.init)]
  /\ accepted' = [accepted EXCEPT ![u] = @ \union {RespondSecret(u, e)}]
  /\ \/ LET s == NewSession("Accepted", RespondSecret(u, e))
        IN  DecryptWith(u, e, s, Save(store[u], e.from, s))
     \/ /\ WriteFails                         \* the new session's row: nothing is inserted
        /\ UNCHANGED <<mem, store, inbox>>
  /\ UNCHANGED <<published, run, ephs, sent, net>>

-----------------------------------------------------------------------------
\* evict_stale drops an idle session from memory; its row stays.
Evict(u, v) ==
  /\ v \in DOMAIN mem[u]
  /\ mem' = [mem EXCEPT ![u] = Drop(@, v)]
  /\ UNCHANGED <<store, pool, published, run, ephs, sent, net, inbox, accepted, failures>>

\* A new process: no sessions, no rows, a new batch of one-time prekeys.
\* The bundle in the DHT is the old one until the new one is published.
Restart(u) ==
  /\ run[u] <= MaxRestarts[u]
  /\ mem'   = [mem EXCEPT ![u] = Empty]
  /\ store' = [store EXCEPT ![u] = Empty]
  /\ run'   = [run EXCEPT ![u] = @ + 1]
  /\ pool'  = [pool EXCEPT ![u] = {run[u] + 1}]
  /\ UNCHANGED <<published, ephs, sent, net, inbox, accepted, failures>>

PublishBundle(u) ==
  /\ published[u] # run[u]
  /\ published' = [published EXCEPT ![u] = run[u]]
  /\ UNCHANGED <<mem, store, pool, run, ephs, sent, net, inbox, accepted, failures>>

EncryptFor(u, v) == EncryptInMemory(u, v) \/ EncryptReloaded(u, v) \/ EncryptFirst(u, v)
DecryptFrom(u, e) == DecryptInSession(u, e) \/ DecryptFirst(u, e)

Next ==
  \E u \in Users :
    \/ \E v \in Users \ {u} : EncryptFor(u, v) \/ Evict(u, v)
    \/ \E e \in net : e.to = u /\ DecryptFrom(u, e)
    \/ Restart(u)
    \/ PublishBundle(u)

Spec == Init /\ [][Next]_vars

-----------------------------------------------------------------------------
(* Properties                                                              *)

IsSession(s) ==
  /\ s = [origin |-> s.origin, ratchet |-> s.ratchet]
  /\ s.origin \in Origin /\ IsRatchet(s.ratchet)

\* Types of the variables.
TypeOK ==
  /\ \A u \in Users :
       /\ DOMAIN mem[u] \subseteq Users /\ \A v \in DOMAIN mem[u] : IsSession(mem[u][v])
       /\ DOMAIN store[u] \subseteq Users /\ \A v \in DOMAIN store[u] : store[u][v] \in Row
  /\ pool \in [Users -> SUBSET Nat] /\ published \in [Users -> Nat]
  /\ run \in [Users -> Nat] /\ ephs \in [Users -> Nat]
  /\ sent \in [Users -> [Users -> Nat]]
  /\ net \in SUBSET Envelope
  /\ inbox \in [Users -> Seq(Envelope)]
  /\ accepted \in [Users -> SUBSET RootSecret]
  /\ failures \in 0 .. MaxFailures

\* An envelope is handed over at most once, also when its first copy raised
\* the session, the session was evicted or lost in a restart, and a second
\* copy raises another one.
DeliveredOnce ==
  \A u \in Users : \A i, j \in 1 .. Len(inbox[u]) : inbox[u][i] = inbox[u][j] => i = j

\* A one-time prekey goes into at most one secret, and is gone by then.
OtpkUsedOnce ==
  \A u \in Users : \A s \in accepted[u] :
    s.otpk # NoOtpk => /\ s.otpk \notin pool[u]
                       /\ \A t \in accepted[u] : t.otpk = s.otpk => t = s

\* While its one-time prekey is in the pool, a first message opens at a
\* receiver that has no session with the sender.
FirstMessageOpens ==
  \A e \in net :
    /\ e.init # NoInit
    /\ e.from \notin DOMAIN mem[e.to]
    /\ e.init.otpk \in pool[e.to]
    => LET r == NewSession("Accepted", RespondSecret(e.to, e)).ratchet
       IN  HasKeyFor(r, e.counter) /\ KeyFor(r, e.counter) = e.key

\* The row of a session in memory is a state of that session, not ahead of it.
RowFollowsSession ==
  \A u \in Users : \A v \in DOMAIN mem[u] :
    /\ v \in DOMAIN store[u]
    /\ LET r == mem[u][v].ratchet
           s == store[u][v].state
       IN  /\ s.sendKey.chain = r.sendKey.chain /\ s.recvKey.chain = r.recvKey.chain
           /\ s.sendKey.step <= r.sendKey.step /\ s.recvKey.step <= r.recvKey.step

\* Nothing replaces a session that is in memory: neither an old first
\* message that arrives again nor a peer that initiates anew.
LiveSessionKept ==
  [][\A u \in Users : \A v \in DOMAIN mem[u] \intersect DOMAIN mem'[u] :
       mem'[u][v].ratchet.recvKey.chain = mem[u][v].ratchet.recvKey.chain]_vars

-----------------------------------------------------------------------------
(* What comments of the repository say, and does not hold                  *)

\* session/state.rs: the two sides of a session always have opposite origins.
OppositeOrigins ==
  \A u \in Users : \A v \in DOMAIN mem[u] :
    u \in DOMAIN mem[v] => mem[u][v].origin # mem[v][u].origin
=============================================================================
