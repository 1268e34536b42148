---------------------------- MODULE DoubleRatchet ----------------------------
(***************************************************************************)
(* The symmetric ratchet of crypto/ratchet.rs as operators on records.     *)
(*                                                                         *)
(* Key material is named, not computed.  A chain is a root secret and a    *)
(* direction (derive_chains expands the secret with one info string per    *)
(* direction); the chain key after `step' HKDF steps is the record         *)
(* [chain, step]; the message key that step number i yields is the record  *)
(* [chain, index |-> i].  HKDF is injective on names, and the AEAD opens a *)
(* ciphertext exactly with the message key that sealed it.                 *)
(*                                                                         *)
(* Counters are u32 in the code and wrap in the release build: CounterMod  *)
(* stands for 2^32, MaxSkip for MAX_SKIP.                                  *)
(***************************************************************************)
EXTENDS Naturals

CONSTANTS Secrets,      \* the X3DH root secrets
          MaxSkip,      \* the longest jump ahead decrypt accepts
          CounterMod    \* the counters are in 0 .. CounterMod - 1

ASSUME RatchetAssumption ==
  /\ CounterMod \in Nat /\ CounterMod > 1
  /\ MaxSkip \in Nat /\ 0 < MaxSkip /\ MaxSkip < CounterMod

RatchetRole == {"Initiator", "Responder"}
Counter     == 0 .. CounterMod - 1
Chain       == [secret : Secrets, dir : {"InitiatorToResponder", "ResponderToInitiator"}]
ChainKey    == [chain : Chain, step : Nat]
MessageKey  == [chain : Chain, index : Nat]

\* The part of a ratchet that is exported to the session store, and the
\* whole of it: `skipped' maps counters to the keys kept for late messages.
RatchetState == [sendKey : ChainKey, sendCounter : Counter,
                 recvKey : ChainKey, recvCounter : Counter]
SkippedKeys  == UNION {[S -> MessageKey] : S \in SUBSET Counter}
Ratchet      == [sendKey : ChainKey, sendCounter : Counter,
                 recvKey : ChainKey, recvCounter : Counter,
                 skipped : SkippedKeys]

-----------------------------------------------------------------------------
(* Construction, export and restore                                        *)

\* Broken variant: one chain for both directions.
OneChain(secret, role) == [secret |-> secret, dir |-> "InitiatorToResponder"]

ChainTowards(secret, role) ==
  [secret |-> secret,
   dir |-> IF role = "Initiator" THEN "InitiatorToResponder" ELSE "ResponderToInitiator"]

Opposite(role) == IF role = "Initiator" THEN "Responder" ELSE "Initiator"

\* Drops the skipped keys: they live only as long as the process.
ExportState(r) == [sendKey |-> r.sendKey, sendCounter |-> r.sendCounter,
                   recvKey |-> r.recvKey, recvCounter |-> r.recvCounter]

\* Broken variant: the row is rebuilt from the root secret, at the chains' beginning.
RestoreFromRoot(s) == [sendKey |-> [s.sendKey EXCEPT !.step = 0], sendCounter |-> 0,
                       recvKey |-> [s.recvKey EXCEPT !.step = 0], recvCounter |-> 0,
                       skipped |-> [c \in {} |-> [chain |-> "none", index |-> 0]]]

NoKeys == [c \in {} |-> [chain |-> "none", index |-> 0]]

Restore(s) == [sendKey |-> s.sendKey, sendCounter |-> s.sendCounter,
               recvKey |-> s.recvKey, recvCounter |-> s.recvCounter,
               skipped |-> NoKeys]

NewRatchet(secret, role) ==
  [sendKey |-> [chain |-> ChainTowards(secret, role), step |-> 0],
   sendCounter |-> 0,
   recvKey |-> [chain |-> ChainTowards(secret, Opposite(role)), step |-> 0],
   recvCounter |-> 0,
   skipped |-> NoKeys]

\* Membership in Ratchet, in a form that does not range over SkippedKeys.
IsRatchet(r) ==
  /\ ExportState(r) \in RatchetState
  /\ r = [Restore(ExportState(r)) EXCEPT !.skipped = r.skipped]
  /\ DOMAIN r.skipped \subseteq Counter
  /\ \A c \in DOMAIN r.skipped : r.skipped[c] \in MessageKey

-----------------------------------------------------------------------------
(* Encryption                                                              *)

\* The message key that the n-th step from chain key ck yields.
KeyAhead(ck, n) == [chain |-> ck.chain, index |-> ck.step + n]

\* Broken variant: the counter is wider than the field that carries it.
SendStepNoWrap(r) == [r EXCEPT !.sendKey.step = @ + 1, !.sendCounter = @ + 1]

SendStep(r) == [r EXCEPT !.sendKey.step = @ + 1,
                         !.sendCounter = (@ + 1) % CounterMod]

\* What encrypt puts on the wire: the counter after the step, and the
\* ciphertext, named by the key that sealed it.
Seal(r) == [counter |-> SendStep(r).sendCounter, key |-> KeyAhead(r.sendKey, 1)]

-----------------------------------------------------------------------------
(* Decryption of an envelope with counter c                                *)

IsAhead(r, c)  == c > r.recvCounter /\ c - r.recvCounter <= MaxSkip
IsLate(r, c)   == c <= r.recvCounter /\ c \in DOMAIN r.skipped
HasKeyFor(r, c) == IsAhead(r, c) \/ IsLate(r, c)

\* The key decrypt obtains for counter c.
KeyFor(r, c) == IF c > r.recvCounter THEN KeyAhead(r.recvKey, c - r.recvCounter)
                                     ELSE r.skipped[c]

\* Broken variant: the first key of a jump is not kept.
AdvanceDroppingOne(r, c) ==
  [r EXCEPT
     !.recvKey.step = @ + (c - r.recvCounter),
     !.recvCounter = c,
     !.skipped = [d \in DOMAIN @ \union (r.recvCounter + 2) .. (c - 1) |->
                    IF d > r.recvCounter THEN KeyAhead(r.recvKey, d - r.recvCounter)
                                         ELSE @[d]]]

\* A jump ahead runs the chain up to c and keeps every key but the last.
AdvanceTo(r, c) ==
  [r EXCEPT
     !.recvKey.step = @ + (c - r.recvCounter),
     !.recvCounter = c,
     !.skipped = [d \in DOMAIN @ \union (r.recvCounter + 1) .. (c - 1) |->
                    IF d > r.recvCounter THEN KeyAhead(r.recvKey, d - r.recvCounter)
                                         ELSE @[d]]]

\* Broken variant: the key of a late message is read and stays.
PeekSkipped(r, c) == r

TakeSkipped(r, c) == [r EXCEPT !.skipped = [d \in DOMAIN @ \ {c} |-> @[d]]]

\* The ratchet after decrypt has obtained the key, whether or not the AEAD
\* then opens the ciphertext with it.
AfterDecrypt(r, c) == IF c > r.recvCounter THEN AdvanceTo(r, c) ELSE TakeSkipped(r, c)
=============================================================================
