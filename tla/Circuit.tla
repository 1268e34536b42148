-------------------------------- MODULE Circuit --------------------------------
(***************************************************************************)
(* One sender's messages on their way through the relays: the choice of    *)
(* relays (network/relay/scoring.rs), the circuit and its layers           *)
(* (network/onion), send_message and handle_onion_or_direct of             *)
(* network/dispatcher.rs, down to the mailbox of the last relay and the    *)
(* owner who fetches from it.                                              *)
(*                                                                         *)
(* A layer is a record that only the relay it is sealed for can open.      *)
(* Serialized data remembers the type it was serialized from: bincode      *)
(* reads it back as that type, and fails on a Packet read as an envelope   *)
(* (the first eight bytes of the Packet become the length of a string).    *)
(***************************************************************************)
EXTENDS Naturals, Integers, FiniteSets, SequencesExt

CONSTANTS Relays,            \* rows of known_relays
          Keyed,             \* those with a valid onion key in the configuration
          Outdated,          \* those whose key in the configuration is not theirs any more
          Addressable,       \* relay ids that are PeerIds
          Peers,             \* the users written to
          Published,         \* the mailbox_candidates of each user, which it polls
          Sender,            \* the node that sends
          MinHops, MaxHops,  \* ONION_MIN_HOPS, ONION_MAX_HOPS
          Spare,             \* rows of known_relays read per hop
          FailureThreshold,  \* RELAY_FAILURE_THRESHOLD
          MaxSends,          \* bound: messages sent
          MaxReports,        \* bound: successes and failures reported of relays
          MaxFaults          \* bound: packets lost, full mailboxes, restarts

ASSUME CircuitAssumption ==
  /\ Keyed \subseteq Relays /\ Outdated \subseteq Relays
  /\ Sender \notin Relays \union Addressable
  /\ DOMAIN Published = Peers
  /\ MinHops \in Nat \ {0, 1} /\ MaxHops \in Nat /\ MinHops < MaxHops
  /\ Spare \in Nat \ {0} /\ FailureThreshold \in Nat \ {0}
  /\ MaxSends \in Nat /\ MaxReports \in Nat /\ MaxFaults \in Nat

VARIABLES
  score,        \* reputation_score of each row
  failures,     \* consecutive failures of each relay, in memory
  candidates,   \* known_mailbox_candidates, in memory; << >> when not cached
  wire,         \* packets between nodes
  mailboxes,    \* what the relays keep
  opened,       \* blobs given to their owner's session manager
  circuits,     \* history: the relays each message was sent through
  aimed,        \* history: messages sent while the candidates were cached
  learnt,       \* history: what each relay saw of each message it peeled
  excused,      \* history: messages that met a fault
  reports, faults

selection == <<score, failures, candidates>>
vars == <<score, failures, candidates, wire, mailboxes, opened, circuits, aimed,
          learnt, excused, reports, faults>>

Messages == 1 .. MaxSends
sent     == Cardinality({m \in Messages : circuits[m] # << >>})

Init ==
  /\ score      = [r \in Relays |-> 0]
  /\ failures   = [r \in Relays |-> 0]
  /\ candidates = [u \in Peers |-> << >>]
  /\ wire       = {}
  /\ mailboxes  = {}
  /\ opened     = {}
  /\ circuits   = [m \in Messages |-> << >>]
  /\ aimed      = {}
  /\ learnt     = {}
  /\ excused    = {}
  /\ reports    = 0
  /\ faults     = 0

Fault == faults < MaxFaults /\ faults' = faults + 1

-----------------------------------------------------------------------------
(* Which relays                                                            *)

\* Broken variant: one failure more is forgiven.
IsExcludedLate(r) == failures[r] > FailureThreshold

IsExcluded(r) == failures[r] >= FailureThreshold

Usable(r) == r \in Keyed /\ ~IsExcluded(r)

\* ORDER BY reputation_score DESC leaves the order of equal scores open.
IsRanked(s) == \A i, j \in DOMAIN s : i < j => score[s[i]] >= score[s[j]]

BestRelays(limit) ==
  {SubSeq(s, 1, IF limit < Len(s) THEN limit ELSE Len(s)) : s \in {t \in SetToSeqs(Relays) : IsRanked(t)}}

Clamped(n) == IF n < MinHops THEN MinHops ELSE IF n > MaxHops THEN MaxHops ELSE n

\* The first count usable relays of s, in their order; no outcome when fewer
\* are usable.
FirstUsable(s, count) ==
  LET usable  == {i \in DOMAIN s : Usable(s[i])}
      rank(i) == Cardinality({j \in usable : j <= i})
  IN  {[k \in 1 .. count |-> s[at[k]]] :
         at \in {f \in [1 .. count -> usable] : \A k \in 1 .. count : rank(f[k]) = k}}

SelectHops(n) ==
  LET count == Clamped(n)
  IN  UNION {FirstUsable(s, count) : s \in BestRelays(count * Spare)}

SelectExitFrom(published) == {hops[1] : hops \in FirstUsable(published, 1)}

BuildCircuit(hops) ==
  IF Len(hops) < MinHops
  THEN << >>
  ELSE SubSeq(hops, 1, IF Len(hops) < MaxHops THEN Len(hops) ELSE MaxHops)


ExitLast(hops, exit) == Append(hops, exit)

\* The circuits send_message may choose for u; it fails where there is none.
CircuitsFor(u) ==
  IF candidates[u] = << >>
  THEN {BuildCircuit(hops) : hops \in SelectHops(MinHops)}
  ELSE {BuildCircuit(ExitLast(hops, exit)) :
          hops \in SelectHops(MinHops - 1), exit \in SelectExitFrom(candidates[u])}

-----------------------------------------------------------------------------
(* Layers                                                                  *)

\* The key of relay r as the sender has it, and as r has it.
KeyInConfig(r) == IF r \in Outdated THEN <<r, "old">> ELSE <<r, "now">>
OwnKey(r)      == <<r, "now">>

Serialized(type, data) == [type |-> type, data |-> data]

\* Broken variant: a layer names the relay that opens it.
OffByOneContent(hops, i, inner, u, payload) ==
  IF i = Len(hops)
  THEN [kind |-> "exit", next |-> u, inner |-> payload]
  ELSE [kind |-> "forward", next |-> hops[i], inner |-> inner]

LayerContent(hops, i, inner, u, payload) ==
  IF i = Len(hops)
  THEN [kind |-> "exit", next |-> u, inner |-> payload]
  ELSE [kind |-> "forward", next |-> hops[i + 1], inner |-> inner]

Layers(hops, u, payload) ==
  LET layer[i \in 1 .. Len(hops)] ==
        [key |-> KeyInConfig(hops[i]),
         content |-> LayerContent(hops, i, IF i = Len(hops) THEN payload ELSE layer[i + 1], u, payload)]
  IN  layer

LayersFor(hops, u, payload) == Layers(hops, u, payload)[1]


\* From the exit outwards; the packet is the layer of the first hop.
WrapLayers(hops, u, payload) == LayersFor(hops, u, payload)

Opens(r, layer) == layer.key = OwnKey(r)

-----------------------------------------------------------------------------
(* Sending and forwarding                                                  *)

\* A UserRecord lookup that found u's record, from handle_kademlia_event.
CacheCandidates(u) ==
  /\ Published[u] # << >>
  /\ candidates' = [candidates EXCEPT ![u] = Published[u]]
  /\ UNCHANGED <<score, failures, wire, mailboxes, opened, circuits, aimed, learnt, excused, reports, faults>>

\* encrypt_message returns a Packet with the envelope in it; what goes into
\* the circuit is that Packet, serialized.
Payload(m) == Serialized("Packet", Serialized("EncryptedEnvelope", m))

Packet(m, from, to, layers) == [msg |-> m, from |-> from, to |-> to, layers |-> layers]

\* Where no circuit is found or the first hop has no address the caller gets
\* an error and nothing leaves; the request itself is not awaited.
SendMessage(u) ==
  /\ sent < MaxSends
  /\ \E hops \in CircuitsFor(u) :
       /\ hops # << >> /\ Head(hops) \in Addressable
       /\ LET m == sent + 1
          IN  /\ circuits' = [circuits EXCEPT ![m] = hops]
              /\ aimed' = IF candidates[u] = << >> THEN aimed ELSE aimed \union {m}
              /\ wire' = wire \union {Packet(m, Sender, Head(hops), WrapLayers(hops, u, Payload(m)))}
  /\ UNCHANGED <<score, failures, candidates, mailboxes, opened, learnt, excused, reports, faults>>

\* Broken variant: whatever the layer names is taken for an address.
ForwardAnywhere(p, c) ==
  /\ c.kind = "forward"
  /\ wire' = (wire \ {p}) \union {Packet(p.msg, p.to, c.next, c.inner)}
  /\ UNCHANGED <<mailboxes, excused, faults>>

\* What the relay does with the packet: peel_layer, then forward_to_next_hop
\* and the loop's send_packet, or the mailbox.
Forward(p, c) ==
  /\ c.kind = "forward"
  /\ \/ /\ c.next \in Addressable
        /\ wire' = (wire \ {p}) \union {Packet(p.msg, p.to, c.next, c.inner)}
        /\ UNCHANGED excused
     \/ /\ c.next \notin Addressable     \* Invalid PeerId, only logged
        /\ wire' = wire \ {p}
        /\ excused' = excused \union {p.msg}
  /\ UNCHANGED <<mailboxes, faults>>

Store(p, c) ==
  /\ c.kind = "exit"
  /\ wire' = wire \ {p}
  /\ \/ /\ mailboxes' = mailboxes \union {[relay |-> p.to, owner |-> c.next, msg |-> p.msg, blob |-> c.inner]}
        /\ UNCHANGED <<excused, faults>>
     \/ /\ Fault               \* MailboxFull, or a statement that fails
        /\ excused' = excused \union {p.msg}
        /\ UNCHANGED mailboxes

HandlePacket(p) ==
  /\ Opens(p.to, p.layers)
  /\ learnt' = learnt \union {[msg |-> p.msg, relay |-> p.to, from |-> p.from,
                               kind |-> p.layers.content.kind, next |-> p.layers.content.next]}
  /\ Forward(p, p.layers.content) \/ Store(p, p.layers.content)
  /\ UNCHANGED <<score, failures, candidates, opened, circuits, aimed, reports>>

\* peel_layer fails: a RelayForward packet is then logged and forgotten.
HandleUnreadable(p) ==
  /\ ~Opens(p.to, p.layers)
  /\ wire' = wire \ {p}
  /\ excused' = excused \union (IF p.to \in Outdated THEN {p.msg} ELSE {})
  /\ UNCHANGED <<score, failures, candidates, mailboxes, opened, circuits, aimed, learnt, reports, faults>>

LosePacket(p) ==
  /\ Fault
  /\ wire' = wire \ {p}
  /\ excused' = excused \union {p.msg}
  /\ UNCHANGED <<score, failures, candidates, mailboxes, opened, circuits, aimed, learnt, reports>>

\* u polls the relays it published; each blob becomes the payload of a
\* DirectMessage, which decrypt_message reads as an envelope.
FetchMailbox(u, r) ==
  /\ r \in ToSet(Published[u]) \intersect Addressable
  /\ LET fetched == {e \in mailboxes : e.relay = r /\ e.owner = u}
     IN  /\ fetched # {}
         /\ mailboxes' = mailboxes \ fetched
         /\ opened' = opened \union {[owner |-> u, msg |-> e.msg, blob |-> e.blob] : e \in fetched}
  /\ UNCHANGED <<score, failures, candidates, wire, circuits, aimed, learnt, excused, reports, faults>>

-----------------------------------------------------------------------------
(* What is known of the relays                                             *)

Report(r, delta, count) ==
  /\ reports < MaxReports
  /\ reports'  = reports + 1
  /\ score'    = [score EXCEPT ![r] = @ + delta]
  /\ failures' = [failures EXCEPT ![r] = count]
  /\ UNCHANGED <<candidates, wire, mailboxes, opened, circuits, aimed, learnt, excused, faults>>

\* Both are offered to whoever learns how a relay did; today only tests do.
RecordSuccess(r) == Report(r, 1, 0)

RecordFailure(r) == Report(r, -1, failures[r] + 1)

\* The sender starts again: scores are in the database, the rest is not.
Restart ==
  /\ Fault
  /\ failures'   = [r \in Relays |-> 0]
  /\ candidates' = [u \in Peers |-> << >>]
  /\ UNCHANGED <<score, wire, mailboxes, opened, circuits, aimed, learnt, excused, reports>>

Next ==
  \/ \E u \in Peers : CacheCandidates(u) \/ SendMessage(u) \/ \E r \in Relays : FetchMailbox(u, r)
  \/ \E p \in wire : HandlePacket(p) \/ HandleUnreadable(p) \/ LosePacket(p)
  \/ \E r \in Relays : RecordSuccess(r) \/ RecordFailure(r)
  \/ Restart

\* Relays handle what arrives; owners poll every 30 seconds.
Fairness ==
  /\ WF_vars(\E p \in wire : HandlePacket(p) \/ HandleUnreadable(p))
  /\ \A u \in Peers, r \in Relays : WF_vars(FetchMailbox(u, r))

Spec == Init /\ [][Next]_vars /\ Fairness

-----------------------------------------------------------------------------
(* Properties                                                              *)

Stored(m) == \E e \in mailboxes : e.msg = m
Opened(m) == \E o \in opened : o.msg = m

\* Types of the variables.
TypeOK ==
  /\ score \in [Relays -> -MaxReports .. MaxReports]
  /\ failures \in [Relays -> 0 .. MaxReports]
  /\ \A u \in Peers : candidates[u] \in {<< >>, Published[u]}
  /\ \A p \in wire : p.msg \in Messages /\ p.to \in Addressable
  /\ \A e \in mailboxes : e.relay \in Addressable /\ e.owner \in Peers
  /\ \A o \in opened : o.owner \in Peers
  /\ \A m \in Messages : circuits[m] = << >> \/ Len(circuits[m]) \in MinHops .. MaxHops
  /\ aimed \subseteq Messages /\ excused \subseteq Messages
  /\ reports \in 0 .. MaxReports /\ faults \in 0 .. MaxFaults

\* A relay that peels a layer of a message is a hop of its circuit, and sees
\* the hop before it and the hop after it; the recipient is seen at the end
\* of the circuit only, the sender at its beginning only.
LearnsNeighboursOnly ==
  \A l \in learnt :
    LET hops == circuits[l.msg]
    IN  \E i \in DOMAIN hops :
          /\ l.relay = hops[i]
          /\ l.from = IF i = 1 THEN Sender ELSE hops[i - 1]
          /\ l.kind = "forward" => i < Len(hops) /\ l.next = hops[i + 1]
          /\ l.kind = "exit" => i = Len(hops) /\ l.next \in Peers

\* A relay that failed FailureThreshold times in a row is in no new circuit,
\* neither as a chosen hop nor as the exit the recipient asked for.
FailedRelaysRest ==
  [][\A m \in Messages : circuits'[m] # circuits[m] =>
       \A r \in ToSet(circuits'[m]) : failures[r] < FailureThreshold]_vars



-----------------------------------------------------------------------------
(* What comments of the repository say, and does not hold                  *)

\* network/p2p.rs: each blob of a mailbox answer is what the exit of the
\* circuit stored, a serialized EncryptedEnvelope, so that decrypt_message
\* can read it.
BlobsAreEnvelopes == \A o \in opened : o.blob.type = "EncryptedEnvelope"
=============================================================================
