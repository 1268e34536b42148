----------------------------- MODULE RatchetPair -----------------------------
(***************************************************************************)
(* One conversation: two users, each with a session in memory and a row in *)
(* the session store, over a network that may lose, repeat and reorder.    *)
(*                                                                         *)
(* wire[u] is the sequence of envelopes u has put on the network; message  *)
(* n of u is the n-th of them.  Any of them may reach the peer at any time,*)
(* any number of times, or never.  inbox[u] lists the messages u's session *)
(* handed to the application.                                              *)
(*                                                                         *)
(* session[u] is the ratchet of u's session while loaded[u]; while the     *)
(* session is not in memory (evict_stale, or a restart) it is the ratchet  *)
(* that the store's row restores.  A write of the row may fail: the caller *)
(* then gets an error after the ratchet in memory has already moved.       *)
(*                                                                         *)
(* lost[u] is a history variable: the counters whose keys u gave up        *)
(* without handing over a message - skipped keys that a restart dropped,   *)
(* and plaintexts discarded because the row could not be written.          *)
(*                                                                         *)
(* The two users need not agree on the root secret: a responder that no    *)
(* longer has the one-time prekey, or two users who both initiate, start   *)
(* from different ones.                                                    *)
(***************************************************************************)
EXTENDS DoubleRatchet, Sequences

CONSTANTS A, B,         \* the two users
          MaxSends      \* bound: how many ratchet steps each user may make to send

ASSUME PairAssumption == A # B /\ MaxSends \in [{A, B} -> Nat]

VARIABLES session, loaded, store, wire, inbox, lost

vars == <<session, loaded, store, wire, inbox, lost>>

Users   == {A, B}
Peer(u) == IF u = A THEN B ELSE A

Envelope == [counter : Counter, key : MessageKey]

\* At least one side initiated, and sides with the same root secret have
\* opposite roles.
Init ==
  /\ \E secret \in [Users -> Secrets], role \in [Users -> RatchetRole] :
       /\ \E u \in Users : role[u] = "Initiator"
       /\ secret[A] = secret[B] => role[A] # role[B]
       /\ session = [u \in Users |-> NewRatchet(secret[u], role[u])]
  /\ store  = [u \in Users |-> ExportState(session[u])]
  /\ loaded = [u \in Users |-> TRUE]
  /\ wire   = [u \in Users |-> << >>]
  /\ inbox  = [u \in Users |-> << >>]
  /\ lost   = [u \in Users |-> {}]

-----------------------------------------------------------------------------
(* Sending: ensure_session_as_initiator reloads the session when it is not *)
(* in memory, encrypt steps the chain, persist writes the row, and only    *)
(* then is the envelope returned.                                          *)

Encrypt(u) ==
  /\ session[u].sendKey.step < MaxSends[u]
  /\ session' = [session EXCEPT ![u] = SendStep(@)]
  /\ store'   = [store EXCEPT ![u] = ExportState(SendStep(session[u]))]
  /\ wire'    = [wire EXCEPT ![u] = Append(@, Seal(session[u]))]
  /\ loaded'  = [loaded EXCEPT ![u] = TRUE]
  /\ UNCHANGED <<inbox, lost>>

\* The row is not written: encrypt_for returns the error, not the envelope.
EncryptUnsaved(u) ==
  /\ session[u].sendKey.step < MaxSends[u]
  /\ session' = [session EXCEPT ![u] = SendStep(@)]
  /\ loaded'  = [loaded EXCEPT ![u] = TRUE]
  /\ UNCHANGED <<store, wire, inbox, lost>>

-----------------------------------------------------------------------------
(* Receiving envelope e of the peer.  Without a session in memory, or      *)
(* without a key for e's counter, decrypt_from returns an error and leaves *)
(* everything as it is.                                                    *)

CanTry(u, e) == loaded[u] /\ HasKeyFor(session[u], e.counter)
\* Broken variant: the result of the AEAD is not looked at.
OpensAnything(u, e) == TRUE

Opens(u, e)  == KeyFor(session[u], e.counter) = e.key

\* Broken variant: decryption works on a copy of the session; only the row moves.
DecryptOnCopy(u, n) ==
  LET e == wire[Peer(u)][n] IN
  /\ CanTry(u, e)
  /\ Opens(u, e)
  /\ store' = [store EXCEPT ![u] = ExportState(AfterDecrypt(session[u], e.counter))]
  /\ inbox' = [inbox EXCEPT ![u] = Append(@, n)]
  /\ UNCHANGED <<session, loaded, wire, lost>>

Decrypt(u, n) ==
  LET e == wire[Peer(u)][n] IN
  /\ CanTry(u, e)
  /\ Opens(u, e)
  /\ session' = [session EXCEPT ![u] = AfterDecrypt(@, e.counter)]
  /\ store'   = [store EXCEPT ![u] = ExportState(AfterDecrypt(session[u], e.counter))]
  /\ inbox'   = [inbox EXCEPT ![u] = Append(@, n)]
  /\ UNCHANGED <<loaded, wire, lost>>

\* The row is not written: the plaintext is dropped with the error.
DecryptUnsaved(u, n) ==
  LET e == wire[Peer(u)][n] IN
  /\ CanTry(u, e)
  /\ Opens(u, e)
  /\ session' = [session EXCEPT ![u] = AfterDecrypt(@, e.counter)]
  /\ lost'    = [lost EXCEPT ![u] = @ \union {e.counter}]
  /\ UNCHANGED <<loaded, store, wire, inbox>>

\* The AEAD refuses: the ratchet has moved all the same, the row is not written.
DecryptFails(u, n) ==
  LET e == wire[Peer(u)][n] IN
  /\ CanTry(u, e)
  /\ ~Opens(u, e)
  /\ session' = [session EXCEPT ![u] = AfterDecrypt(@, e.counter)]
  /\ UNCHANGED <<loaded, store, wire, inbox, lost>>

-----------------------------------------------------------------------------
\* The session leaves memory.  Keys the row is already past are gone for
\* good; what memory had done beyond the row is forgotten, not lost.
Unload(u) ==
  /\ loaded[u]
  /\ loaded'  = [loaded EXCEPT ![u] = FALSE]
  /\ session' = [session EXCEPT ![u] = Restore(store[u])]
  /\ lost'    = [lost EXCEPT ![u] = {c \in @ \union DOMAIN session[u].skipped :
                                       c <= store[u].recvCounter}]
  /\ UNCHANGED <<store, wire, inbox>>

Receive(u) == \E n \in 1 .. Len(wire[Peer(u)]) :
                Decrypt(u, n) \/ DecryptUnsaved(u, n) \/ DecryptFails(u, n)

Next == \E u \in Users : Encrypt(u) \/ EncryptUnsaved(u) \/ Receive(u) \/ Unload(u)

Spec == Init /\ [][Next]_vars

-----------------------------------------------------------------------------
(* Properties                                                              *)

\* Types of the variables; the counters stay in the range of a u32.
TypeOK ==
  /\ DOMAIN session = Users /\ \A u \in Users : IsRatchet(session[u])
  /\ store  \in [Users -> RatchetState]
  /\ loaded \in [Users -> BOOLEAN]
  /\ wire   \in [Users -> Seq(Envelope)]
  /\ inbox  \in [Users -> Seq(Nat)]
  /\ lost   \in [Users -> SUBSET Counter]

\* No message key seals two envelopes: not in the two directions of one
\* conversation, and not on two sides of a restart or of a failed write.
KeysAreFresh ==
  \A u, v \in Users : \A i \in 1 .. Len(wire[u]), j \in 1 .. Len(wire[v]) :
    wire[u][i].key = wire[v][j].key => u = v /\ i = j

\* Can the ratchet r (in memory, or restored from a row) still produce key k?
Holds(r, k) ==
  \/ k.chain = r.sendKey.chain /\ k.index > r.sendKey.step
  \/ k.chain = r.recvKey.chain /\ k.index > r.recvKey.step
  \/ \E c \in DOMAIN r.skipped : r.skipped[c] = k

\* Forward secrecy: once a message is handed over, neither the memory nor
\* the store of its sender or of its receiver can produce its key again.
ForwardSecrecy ==
  \A u \in Users : \A i \in 1 .. Len(inbox[u]) :
    LET k == wire[Peer(u)][inbox[u][i]].key IN
    \A v \in Users : ~Holds(session[v], k) /\ ~Holds(Restore(store[v]), k)

\* Users who do not agree on the root secret never accept a message: what
\* the peer sealed under another secret is refused, not misread.
OnlyAgreedDeliver ==
  \A u \in Users : inbox[u] # << >> => session[u].recvKey.chain = session[Peer(u)].sendKey.chain

\* Reordering loses nothing.  While the sender's counter has not wrapped, a message
\* that the receiver's chain has passed was handed over, or its key is kept
\* for it, or the key went with a restart or a failed write.
NothingSkippedIsLost ==
  \A u \in Users :
    /\ session[u].recvKey.chain = session[Peer(u)].sendKey.chain
    /\ store[Peer(u)].sendKey.step < CounterMod
    => \A n \in 1 .. Len(wire[Peer(u)]) :
         LET c == wire[Peer(u)][n].counter IN
         c <= session[u].recvCounter =>
           \/ \E i \in 1 .. Len(inbox[u]) : inbox[u][i] = n
           \/ c \in DOMAIN session[u].skipped
           \/ c \in lost[u]

\* A row is never replaced by an older one: neither chain in the store moves
\* back, also not after failed decryptions, failed writes and reloads.
StoreNeverRewinds ==
  [][\A u \in Users : /\ store'[u].sendKey.step >= store[u].sendKey.step
                      /\ store'[u].recvKey.step >= store[u].recvKey.step]_vars

\* The conversation is an at-most-once channel between its two users.
Channel == INSTANCE MessageChannel
             WITH submitted <- [u \in Users |-> Len(wire[u])], received <- inbox

ChannelSpec == Channel!Spec
=============================================================================
