---------------------------------- MODULE Inbox ----------------------------------
(***************************************************************************)
(* From the blobs a node receives to the messages its user sees: the two   *)
(* places of the event loop that decrypt (network/p2p.rs and               *)
(* network/dispatcher.rs), the contacts that decide whose signature can be *)
(* verified, the task that writes the history (storage/db.rs), and the     *)
(* window of the desktop application (src-tauri/src/lib.rs and             *)
(* frontend/index.html), with what its user sends.                         *)
(*                                                                         *)
(* The n-th envelope of peer p is [from |-> p, n |-> n]; Garbage is a blob *)
(* that is no envelope.  Sessions exist from the start, for the first      *)
(* contact never returns (Node), and blobs are envelopes, though today's   *)
(* mailboxes hold something else (Circuit).  A restart loses all sessions. *)
(***************************************************************************)
EXTENDS DoubleRatchet, Sequences, SequencesExt, FiniteSetsExt

CONSTANTS Peers,         \* the users messages come from
          Self,          \* the user of this node
          NoPeer,        \* no thread is open
          HistoryLimit,  \* how many rows of a thread the window asks for
          MaxMade,       \* bound: envelopes one peer makes
          MaxArrivals,   \* bound: blobs that reach the node
          MaxOpens,      \* bound: threads opened
          MaxTexts,      \* bound: texts the user sends
          MaxFaults      \* bound: stops, failed statements, mistyped keys

ASSUME InboxAssumption ==
  /\ Self \notin Peers /\ NoPeer \notin Peers /\ Peers \subseteq Secrets
  /\ HistoryLimit \in Nat \ {0} /\ MaxMade \in Nat /\ MaxMade < CounterMod
  /\ MaxArrivals \in Nat /\ MaxOpens \in Nat /\ MaxTexts \in Nat /\ MaxFaults \in Nat

VARIABLES
  sealed,     \* how many envelopes each peer has made
  batch,      \* the blobs the event handler still has to work through
  session,    \* the ratchet of each peer's session
  contact,    \* the key in the contact's row: "right", "wrong" or "none"
  incoming,   \* the channel of IncomingMessage
  history,    \* the table of messages
  saved,      \* what the writer has saved and not yet announced
  thread,     \* the thread that is open in the window
  asked,      \* calls of get_history that have not read yet, by peer
  answers,    \* what calls of get_history have read and the window has not shown
  shown,      \* the rows on the screen
  text,       \* what has become of each text of the user
  arrivals, opens, faults,
  opened,     \* history: the envelopes each session has opened
  excused     \* history: the messages that met a fault, or could not be verified or opened

loopVars   == <<sealed, batch, session, arrivals, opened>>
windowVars == <<thread, asked, answers, shown, opens>>
vars == <<loopVars, contact, incoming, history, saved, windowVars, text, faults, excused>>

Garbage   == [from |-> NoPeer, n |-> 0]
Envelope  == [from : Peers, n : 1 .. MaxMade]
NoSession == << >>
Row       == [peer : Peers, direction : {"sent", "received"}, n : Nat]

Init ==
  /\ sealed   = [p \in Peers |-> 0]
  /\ batch    = << >>
  /\ session  = [p \in Peers |-> NewRatchet(p, "Responder")]
  /\ contact  = [p \in Peers |-> "none"]
  /\ incoming = << >>
  /\ history  = << >>
  /\ saved    = << >>
  /\ thread   = NoPeer
  /\ asked    = [p \in Peers |-> 0]
  /\ answers  = {}
  /\ shown    = {}
  /\ text     = [t \in 1 .. MaxTexts |-> [to |-> NoPeer, at |-> "unwritten", left |-> FALSE]]
  /\ arrivals = 0 /\ opens = 0 /\ faults = 0
  /\ opened   = [p \in Peers |-> {}]
  /\ excused  = {}

Fault == faults < MaxFaults /\ faults' = faults + 1

-----------------------------------------------------------------------------
(* Blobs arrive                                                            *)

\* A peer seals its next message; whether it ever leaves is another matter:
\* send_message may fail after the ratchet has moved.
Seals(p) ==
  /\ sealed[p] < MaxMade
  /\ sealed' = [sealed EXCEPT ![p] = @ + 1]
  /\ UNCHANGED <<batch, session, arrivals, opened, contact, incoming, history, saved,
                 windowVars, text, faults, excused>>

Blobs == {Garbage} \union {e \in Envelope : e.n <= sealed[e.from]}

\* A direct message or the answer to MAILBOX_FETCH: the loop takes up an
\* event when it is done with the last.
Arrives(blobs) ==
  /\ batch = << >>
  /\ arrivals + Len(blobs) <= MaxArrivals
  /\ batch'    = blobs
  /\ arrivals' = arrivals + Len(blobs)
  /\ UNCHANGED <<sealed, session, opened, contact, incoming, history, saved,
                 windowVars, text, faults, excused>>

\* INSERT OR REPLACE: a contact added again has the new key, right or not.
AddContact(p, k) ==
  /\ contact' = [contact EXCEPT ![p] = k]
  /\ IF k = "right" THEN UNCHANGED faults ELSE Fault
  /\ UNCHANGED <<loopVars, incoming, history, saved, windowVars, text, excused>>

-----------------------------------------------------------------------------
(* The loop works through a batch                                          *)

\* Broken variant: a blob that cannot be read ends the batch.
EndOfBatch == << >>

AfterRefusal == Tail(batch)

\* More envelopes in a row were never opened than a jump may pass.
TooFarAhead(e) == e.n > Max(opened[e.from] \union {0}) + MaxSkip

\* The key in the contact's row is the one its messages are signed with.
HasKeyOf(p) == contact[p] = "right"

\* What decrypt_message asks before anything of the session moves: the blob
\* is an envelope, its signature is by the key of a contact, there is a
\* session, and the session has a key for it.
Readable(e) ==
  /\ e # Garbage
  /\ HasKeyOf(e.from)
  /\ session[e.from] # NoSession
  /\ HasKeyFor(session[e.from], e.n)

\* The refusals that the code intends: no contact with that key, no session,
\* a jump beyond the limit.
Excusable(e) ==
  /\ e # Garbage
  /\ HasKeyOf(e.from) /\ session[e.from] # NoSession => TooFarAhead(e)

Refuse ==
  /\ batch # << >> /\ ~Readable(Head(batch))
  /\ excused' = excused \union {e \in {Head(batch)} : Excusable(e)}
  /\ batch' = AfterRefusal
  /\ UNCHANGED <<sealed, session, arrivals, opened, contact, incoming, history, saved,
                 windowVars, text, faults>>

Read(e) ==
  /\ session' = [session EXCEPT ![e.from] = AfterDecrypt(@, e.n)]
  /\ opened'  = [opened EXCEPT ![e.from] = @ \union {e.n}]
  /\ batch'   = Tail(batch)

Decrypt ==
  /\ batch # << >> /\ Readable(Head(batch))
  /\ Read(Head(batch))
  /\ incoming' = Append(incoming, Head(batch))
  /\ UNCHANGED <<sealed, arrivals, contact, history, saved, windowVars, text, faults, excused>>

\* The row of the session cannot be written after the ratchet has moved.
PersistFails ==
  /\ batch # << >> /\ Readable(Head(batch))
  /\ Fault
  /\ Read(Head(batch))
  /\ excused' = excused \union {Head(batch)}
  /\ UNCHANGED <<sealed, arrivals, contact, incoming, history, saved, windowVars, text>>

-----------------------------------------------------------------------------
(* The task that writes the history                                        *)

SaveIncoming ==
  /\ incoming # << >> /\ saved = << >>
  /\ history'  = Append(history, [peer |-> Head(incoming).from, direction |-> "received",
                                  n |-> Head(incoming).n])
  /\ saved'    = <<Head(incoming).from>>
  /\ incoming' = Tail(incoming)
  /\ UNCHANGED <<loopVars, contact, windowVars, text, faults, excused>>

\* save_message fails: no event, and on to the next.
SaveFails ==
  /\ incoming # << >> /\ saved = << >>
  /\ Fault
  /\ incoming' = Tail(incoming)
  /\ excused'  = excused \union {Head(incoming)}
  /\ UNCHANGED <<loopVars, contact, history, saved, windowVars, text>>

-----------------------------------------------------------------------------
(* The window                                                              *)

\* loadMessages, up to the await.
LoadMessages(p) == asked' = IF p = NoPeer THEN asked ELSE [asked EXCEPT ![p] = @ + 1]

\* Broken variant: the page only loads a thread when it is opened.
IgnoreEvent(p) == UNCHANGED asked

\* The listener of message-received.
OnMessage(p) == IF thread = p THEN LoadMessages(p) ELSE UNCHANGED asked

Emit ==
  /\ saved # << >>
  /\ OnMessage(Head(saved))
  /\ saved' = << >>
  /\ UNCHANGED <<loopVars, contact, incoming, history, thread, answers, shown, opens, text, faults, excused>>

OpenThread(p) ==
  /\ contact[p] # "none" /\ opens < MaxOpens
  /\ opens'  = opens + 1
  /\ thread' = p
  /\ LoadMessages(p)
  /\ UNCHANGED <<loopVars, contact, incoming, history, saved, answers, shown, text, faults, excused>>

CloseThread ==
  /\ thread # NoPeer
  /\ thread' = NoPeer
  /\ UNCHANGED <<loopVars, contact, incoming, history, saved, asked, answers, shown, opens,
                 text, faults, excused>>

\* Where the table has the rows of p's thread, and how many of them are not
\* older than the i-th row.
RowsOf(p) == {i \in DOMAIN history : history[i].peer = p}
RowsFrom(p, i) == Cardinality({j \in RowsOf(p) : i <= j})

\* Broken variant: one row more than asked for.
OneRowMore(p) == {history[i] : i \in {j \in RowsOf(p) : RowsFrom(p, j) <= HistoryLimit + 1}}

\* get_history: ORDER BY sent_at DESC LIMIT. The index on (contact_user_id,
\* sent_at) gives rows of one second in the order of their insertion too.
NewestRows(p) == {history[i] : i \in {j \in RowsOf(p) : RowsFrom(p, j) <= HistoryLimit}}

ReadHistory(p) ==
  /\ asked[p] > 0
  /\ asked'   = [asked EXCEPT ![p] = @ - 1]
  /\ answers' = answers \union {NewestRows(p)}
  /\ UNCHANGED <<loopVars, contact, incoming, history, saved, thread, shown, opens, text, faults, excused>>

\* The answers come in any order, and the page shows each as it comes,
\* whatever thread is open by then.
Show ==
  /\ \E a \in answers : shown' = a /\ answers' = answers \ {a}
  /\ UNCHANGED <<loopVars, contact, incoming, history, saved, thread, asked, opens, text, faults, excused>>

-----------------------------------------------------------------------------
(* What the user sends                                                     *)

\* sendCurrent, in a session that exists.
SendCurrent(t) ==
  /\ thread # NoPeer /\ session[thread] # NoSession
  /\ text[t].at = "unwritten"
  /\ text' = [text EXCEPT ![t].to = thread, ![t].at = "asked"]
  /\ UNCHANGED <<loopVars, contact, incoming, history, saved, windowVars, faults, excused>>

\* The loop handles SendText when it is done with a batch; there may be too
\* few relays for a circuit, and the page puts the text back.
HandleSendText(t) ==
  /\ batch = << >> /\ text[t].at = "asked"
  /\ \/ text' = [text EXCEPT ![t].at = "sent", ![t].left = TRUE]
     \/ text' = [text EXCEPT ![t].at = "unwritten", ![t].to = NoPeer]
  /\ UNCHANGED <<loopVars, contact, incoming, history, saved, windowVars, faults, excused>>

\* Broken variant: the row is written before the loop has answered.
IsGiven(t) == text[t].at \in {"asked", "sent"}

IsSent(t) == text[t].at = "sent"

SaveSent(t) ==
  /\ IsSent(t)
  /\ history' = Append(history, [peer |-> text[t].to, direction |-> "sent", n |-> t])
  /\ text' = [text EXCEPT ![t].at = "saved"]
  /\ LoadMessages(thread)
  /\ UNCHANGED <<loopVars, contact, incoming, saved, thread, answers, shown, opens, faults, excused>>

-----------------------------------------------------------------------------

Restart ==
  /\ Fault
  /\ batch' = << >> /\ incoming' = << >> /\ saved' = << >>
  /\ excused' = excused \union ((ToSet(batch) \union ToSet(incoming)) \ {Garbage})
  /\ session' = [p \in Peers |-> NoSession]
  /\ opened' = [p \in Peers |-> {}]
  /\ thread' = NoPeer /\ shown' = {} /\ answers' = {}
  /\ asked' = [p \in Peers |-> 0]
  /\ text' = [t \in DOMAIN text |-> IF text[t].at = "unwritten" THEN text[t]
                                    ELSE [text[t] EXCEPT !.at = "gone"]]
  /\ UNCHANGED <<sealed, arrivals, contact, history, opens>>

Next ==
  \/ \E p \in Peers : \/ Seals(p) \/ OpenThread(p) \/ ReadHistory(p)
                      \/ \E k \in {"right", "wrong"} : AddContact(p, k)
  \/ \E b \in Blobs : Arrives(<<b>>) \/ \E c \in Blobs : Arrives(<<b, c>>)
  \/ Refuse \/ Decrypt \/ PersistFails \/ SaveIncoming \/ SaveFails
  \/ Emit \/ CloseThread \/ Show \/ Restart
  \/ \E t \in 1 .. MaxTexts : SendCurrent(t) \/ HandleSendText(t) \/ SaveSent(t)

Fairness ==
  /\ WF_vars(Refuse \/ Decrypt) /\ WF_vars(SaveIncoming) /\ WF_vars(Emit)
  /\ \A p \in Peers : WF_vars(ReadHistory(p))
  /\ WF_vars(Show)

Spec == Init /\ [][Next]_vars /\ Fairness

-----------------------------------------------------------------------------
(* Properties                                                              *)

\* Types of the variables; the window never has more rows than it asks for.
TypeOK ==
  /\ sealed \in [Peers -> 0 .. MaxMade]
  /\ batch \in Seq(Envelope \union {Garbage}) /\ incoming \in Seq(Envelope)
  /\ \A p \in Peers : session[p] = NoSession \/ IsRatchet(session[p])
  /\ contact \in [Peers -> {"right", "wrong", "none"}]
  /\ history \in Seq(Row) /\ saved \in Seq(Peers) /\ Len(saved) <= 1
  /\ thread \in Peers \union {NoPeer} /\ asked \in [Peers -> Nat]
  /\ \A a \in answers \union {shown} : a \subseteq Row /\ Cardinality(a) <= HistoryLimit
  /\ text \in [1 .. MaxTexts -> [to : Peers \union {NoPeer}, left : BOOLEAN,
                   at : {"unwritten", "asked", "sent", "saved", "gone"}]]
  /\ arrivals \in 0 .. MaxArrivals /\ opens \in 0 .. MaxOpens /\ faults \in 0 .. MaxFaults
  /\ opened \in [Peers -> SUBSET (1 .. MaxMade)] /\ excused \subseteq Envelope

\* The received rows of a thread are an at-most-once channel from its peer:
\* nothing the peer has not sealed, and nothing twice, whatever arrives again,
\* whichever way it arrives, and wherever the process stops.
ReceivedIn(rows, p) ==
  LET upTo[i \in 0 .. Len(rows)] ==
        IF i = 0 THEN << >>
        ELSE IF rows[i].peer = p /\ rows[i].direction = "received" THEN Append(upTo[i - 1], rows[i].n)
        ELSE upTo[i - 1]
  IN  upTo[Len(rows)]

Received(p) == ReceivedIn(history, p)

Channel(p) == INSTANCE MessageChannel WITH
  A <- Self, B <- p,
  submitted <- [u \in {Self, p} |-> IF u = p THEN sealed[p] ELSE 0],
  received  <- [u \in {Self, p} |-> IF u = Self THEN Received(p) ELSE << >>]

HistoryIsChannel ==
  /\ \A p \in Peers : Channel(p)!Init
  /\ [][\A p \in Peers : Channel(p)!Next \/ UNCHANGED <<sealed[p], Received(p)>>]_vars

\* An envelope the loop has taken up ends in the history, whatever it lies
\* among in its batch and whatever was refused before it, unless it met a
\* fault or a wrong contact, or more than MAX_SKIP before it never arrived.
ReadInTheEnd ==
  \A e \in Envelope :
    e \in ToSet(batch) ~>
      \/ e \in excused
      \/ \E i \in DOMAIN history : history[i] = [peer |-> e.from, direction |-> "received", n |-> e.n]

\* A row of a sent text is in the thread of the contact it was sent to, once,
\* and only if the loop has sent it: the user may have opened another thread
\* while send_message waited.
SentRowsWereSent ==
  \A i \in DOMAIN history : history[i].direction = "sent" =>
    /\ text[history[i].n].left /\ text[history[i].n].to = history[i].peer
    /\ \A j \in DOMAIN history : history[j] = history[i] => j = i

\* A message that is saved while its thread is open comes on the screen: the
\* event is emitted after the row was saved, and get_history returns the
\* newest rows. It may be replaced by an older answer afterwards.
NewestIsShown(p) == \E i \in RowsOf(p) : RowsFrom(p, i) = 1 /\ history[i] \in shown

AnnouncedIsShown ==
  \A p \in Peers : saved = <<p>> /\ thread = p ~> thread # p \/ NewestIsShown(p)
=============================================================================
