-------------------------------- MODULE Mailbox --------------------------------
(***************************************************************************)
(* The offline mailbox of one relay: network/mailbox, the mailbox table of *)
(* storage/mailbox_store.rs, and the handlers around them - the relay's    *)
(* store at the end of an onion circuit and its answer to MAILBOX_FETCH,   *)
(* the owner's periodic fetch and its treatment of the answer.             *)
(*                                                                         *)
(* A message is named by its number.  The relay's event loop handles one   *)
(* request at a time, but a request takes several operations on the table, *)
(* between which the process may stop and the cleanup task may run.        *)
(* `handler' is what the request being handled has read so far.  The table *)
(* is a file and survives; the answers are in flight and may be lost.      *)
(***************************************************************************)
EXTENDS Naturals, FiniteSets

CONSTANTS Owners,        \* the users messages are kept for
          Known,         \* those whose identity key the relay has in its contacts
          Limit,         \* MAILBOX_MAX_MESSAGES_PER_USER
          TTL,           \* MAILBOX_MESSAGE_TTL_DAYS, in ticks of the clock
          MaxMessages,   \* bound: messages that reach the relay
          MaxRequests,   \* bound: fetches of one owner under way
          MaxTime,       \* bound: ticks of the clock
          MaxFaults      \* bound: lost requests and answers, stops, failed statements

ASSUME MailboxAssumption ==
  /\ Known \subseteq Owners
  /\ Limit \in Nat \ {0} /\ TTL \in Nat
  /\ MaxMessages \in Nat /\ MaxRequests \in Nat /\ MaxTime \in Nat /\ MaxFaults \in Nat

VARIABLES entries, handler, requests, answers, now,
          arrived,   \* how many messages have reached the relay
          handed,    \* how often each message was handed to its owner's session
          faults

vars == <<entries, handler, requests, answers, now, arrived, handed, faults>>

Messages == 1 .. MaxMessages
Time     == 0 .. MaxTime + TTL
Entry    == [msg : Messages, owner : Owners, storedAt : Time, expiresAt : Time]

Idle     == [op |-> "idle"]
Handler  == {Idle} \union [op : {"insert"}, owner : Owners, msg : Messages]
                   \union [op : {"acknowledge"}, owner : Owners, pending : SUBSET Entry]

EntriesOf(u) == {e \in entries : e.owner = u}

Init ==
  /\ entries  = {}
  /\ handler  = Idle
  /\ requests = [u \in Owners |-> 0]
  /\ answers  = {}
  /\ now      = 0
  /\ arrived  = 0
  /\ handed   = [m \in Messages |-> 0]
  /\ faults   = 0

Fault == faults < MaxFaults /\ faults' = faults + 1

-----------------------------------------------------------------------------
(* The relay stores a message for u: count_for_user, then insert.          *)

\* Broken variant: one message too many.
HasRoomPastLimit(u) == Cardinality(EntriesOf(u)) <= Limit

HasRoom(u) == Cardinality(EntriesOf(u)) < Limit

StoreArrives(u) ==
  /\ handler = Idle
  /\ arrived < MaxMessages
  /\ arrived' = arrived + 1
  /\ \/ /\ HasRoom(u)
        /\ handler' = [op |-> "insert", owner |-> u, msg |-> arrived + 1]
     \/ /\ ~HasRoom(u)     \* MailboxFull
        /\ UNCHANGED handler
  /\ UNCHANGED <<entries, requests, answers, now, handed, faults>>

\* Broken variant: the days of the TTL are counted as hours of a day.
ExpiryInHours(t) == t + 24 * TTL

ExpiryOf(t) == t + TTL

Insert ==
  /\ handler.op = "insert"
  /\ entries' = entries \union {[msg |-> handler.msg, owner |-> handler.owner,
                                 storedAt |-> now, expiresAt |-> ExpiryOf(now)]}
  /\ handler' = Idle
  /\ UNCHANGED <<requests, answers, now, arrived, handed, faults>>

-----------------------------------------------------------------------------
(* MAILBOX_FETCH: the owner asks again and again; the relay reads the      *)
(* entries, deletes what a second read returns, and answers with the first.*)

SendFetch(u) ==
  /\ requests[u] < MaxRequests
  /\ requests' = [requests EXCEPT ![u] = @ + 1]
  /\ UNCHANGED <<entries, handler, answers, now, arrived, handed, faults>>

\* Broken variant: the check of the signature is inverted.
Unverified(u) == u \notin Known

Verified(u) == u \in Known

\* The signature of an owner that is not a contact cannot be verified; the
\* request is answered with an empty packet.
FetchArrives(u) ==
  /\ handler = Idle
  /\ requests[u] > 0
  /\ requests' = [requests EXCEPT ![u] = @ - 1]
  /\ handler' = IF Verified(u)
                THEN [op |-> "acknowledge", owner |-> u, pending |-> EntriesOf(u)]
                ELSE Idle
  /\ UNCHANGED <<entries, answers, now, arrived, handed, faults>>

\* Broken variant: the second read finds nothing to delete.
ReadNothing(u) == {}

\* Broken variant: the delete is not restricted to the recipient.
ReadEverything(u) == entries

ReadAgain(u) == EntriesOf(u)

Acknowledge ==
  /\ handler.op = "acknowledge"
  /\ entries' = entries \ ReadAgain(handler.owner)
  /\ answers' = answers \union {[to |-> handler.owner, batch |-> handler.pending]}
  /\ handler' = Idle
  /\ UNCHANGED <<requests, now, arrived, handed, faults>>

HandOver(r, S) ==
  /\ handed'  = [m \in Messages |-> handed[m] + Cardinality({e \in S : e.msg = m})]
  /\ answers' = answers \ {r}
  /\ UNCHANGED <<entries, handler, requests, now, arrived>>

\* Broken variant: the owner leaves the batch after its first message.
ReceiveOne(r) == (\E e \in r.batch : HandOver(r, {e})) /\ UNCHANGED faults

Receive(r) == HandOver(r, r.batch) /\ UNCHANGED faults

-----------------------------------------------------------------------------
(* Time, and what goes wrong                                               *)

Tick ==
  /\ now < MaxTime
  /\ now' = now + 1
  /\ UNCHANGED <<entries, handler, requests, answers, arrived, handed, faults>>

CleanupOnce ==
  /\ entries' = {e \in entries : e.expiresAt > now}
  /\ UNCHANGED <<handler, requests, answers, now, arrived, handed, faults>>

\* A statement fails: the handler ends with an error and an empty answer.
HandlerFails ==
  /\ handler # Idle
  /\ Fault
  /\ handler' = Idle
  /\ UNCHANGED <<entries, requests, answers, now, arrived, handed>>

\* The relay stops and starts again: the connections and what was being
\* handled are gone.
RelayRestarts ==
  /\ Fault
  /\ handler' = Idle
  /\ requests' = [u \in Owners |-> 0]
  /\ UNCHANGED <<entries, answers, now, arrived, handed>>

LoseRequest(u) ==
  /\ requests[u] > 0
  /\ Fault
  /\ requests' = [requests EXCEPT ![u] = @ - 1]
  /\ UNCHANGED <<entries, handler, answers, now, arrived, handed>>

\* The connection breaks, or the owner stops on the way through the batch,
\* which it takes in the order the messages were stored in.
LoseAnswer(r) ==
  /\ Fault
  /\ \E S \in SUBSET r.batch :
       /\ S # r.batch \/ r.batch = {}
       /\ \A e \in S, d \in r.batch \ S : e.storedAt <= d.storedAt
       /\ HandOver(r, S)

Next ==
  \/ \E u \in Owners : StoreArrives(u) \/ SendFetch(u) \/ FetchArrives(u) \/ LoseRequest(u)
  \/ \E r \in answers : Receive(r) \/ LoseAnswer(r)
  \/ Insert \/ Acknowledge \/ HandlerFails \/ RelayRestarts
  \/ Tick \/ CleanupOnce

\* The handlers run to their end, the owners' background task fetches for
\* ever, and the swarm does not starve a connection.  Faults are finitely
\* many (MaxFaults).
Fairness ==
  /\ WF_vars(Insert) /\ WF_vars(Acknowledge)
  /\ \A u \in Owners : WF_vars(SendFetch(u)) /\ SF_vars(FetchArrives(u))

Spec == Init /\ [][Next]_vars /\ Fairness

-----------------------------------------------------------------------------
(* Properties                                                              *)

\* Types of the variables.
TypeOK ==
  /\ entries \subseteq Entry
  /\ handler \in Handler
  /\ requests \in [Owners -> 0 .. MaxRequests]
  /\ \A r \in answers : r.to \in Owners /\ r.batch \subseteq Entry
  /\ now \in 0 .. MaxTime /\ arrived \in 0 .. MaxMessages
  /\ handed \in [Messages -> Nat] /\ faults \in 0 .. MaxFaults

\* A message is handed over at most once, however many fetches of the owner
\* are under way and wherever the relay stops.
HandedOnce == \A m \in Messages : handed[m] <= 1

\* The limit checked before the insert holds after it.
WithinLimit == \A u \in Owners : Cardinality(EntriesOf(u)) <= Limit

\* An entry leaves the table only when it has expired or is in the answer
\* to its owner: the second read of the handler deletes nothing that the
\* first has not seen.
LeavesForItsOwner ==
  [][\A e \in entries \ entries' :
       \/ e.expiresAt <= now
       \/ \E r \in answers' : r.to = e.owner /\ e \in r.batch]_vars

\* A message is in the table, on its way to the owner, or was handed over.
Kept(m) ==
  \/ \E e \in entries : e.msg = m
  \/ \E r \in answers : \E e \in r.batch : e.msg = m
  \/ handed[m] > 0

HasExpired(m) == \E e \in entries : e.msg = m /\ e.expiresAt <= now

\* A stored message that has not expired is lost in one way only: with an
\* answer that does not reach its owner's sessions. Wherever a statement of
\* store, fetch and acknowledge fails or the relay stops, whatever the
\* cleanup deletes in between, and however the answers of several fetches
\* share the messages, the message is in the table, in an answer, or handed
\* over.
LostOnlyWithAnswer ==
  [][\A m \in Messages :
       Kept(m) /\ ~Kept(m)' => HasExpired(m) \/ \E r \in answers : LoseAnswer(r)]_vars

\* What is kept for an owner the relay can verify does not stay for ever.
StoredIsServed ==
  \A m \in Messages, u \in Known :
    (\E e \in entries : e.msg = m /\ e.owner = u) ~> ~(\E e \in entries : e.msg = m)

-----------------------------------------------------------------------------
(* What a comment of the repository says, and does not hold                *)

\* network/dispatcher.rs: a stop in the middle of MAILBOX_FETCH may deliver
\* a message twice but loses none.  A stored message that has not expired
\* stays in the table, on its way to the owner, or handed over.
NothingStoredIsLost ==
  [][\A m \in Messages : Kept(m) /\ ~Kept(m)' => HasExpired(m)]_vars
=============================================================================
