---------------------------------- MODULE Node ----------------------------------
(***************************************************************************)
(* The task that owns a node (run_with_commands of network/p2p.rs) and     *)
(* those who wait for it: callers of its commands and lookups, peers that  *)
(* sent it a request, and the records of the node in the DHT, which only   *)
(* this task can publish (network/dht, services/background.rs).            *)
(*                                                                         *)
(* The loop takes one thing at a time and awaits its handler to the end.   *)
(* One handler waits for something else: fetch_bundle, at the first        *)
(* contact with a peer, puts a LookupRequest into dht_lookup_rx and awaits *)
(* the answer. Time passes in units of DHT_REPUBLISH_INTERVAL_SECS; the    *)
(* time of a record is its expires_at_unix, and Never is no record.        *)
(***************************************************************************)
EXTENDS Naturals, FiniteSets, Sequences

CONSTANTS Senders,       \* calls of SendText, each to a peer never written to
          Fetchers,      \* calls of FetchMailbox for a relay id that is a PeerId
          BadFetchers,   \* calls of FetchMailbox for one that is not
          Finders,       \* calls of lookup_user and lookup_relay_descriptor
          FirstMessages, \* requests that carry a session_init of a known contact
          BadRequests,   \* requests whose handler fails
          Requests,      \* all requests of peers
          Background,    \* the caller of a command nobody waits for
          Bundle,        \* the lookup of fetch_bundle
          Timers,        \* the commands the background tasks give
          RecordTTL,     \* DHT_RECORD_TTL_SECS
          MaxTime,       \* bound: the clock
          MaxQueued,     \* bound: commands of one timer in the channel
          MaxFaults      \* bound: records lost, failed publications, restarts

Callers == Senders \union Fetchers \union BadFetchers
Asking  == Finders \union {Bundle}
Never   == 0

ASSUME NodeAssumption ==
  /\ FirstMessages \subseteq Requests /\ BadRequests \subseteq Requests \ FirstMessages
  /\ Background \notin Callers /\ Callers \intersect Asking = {} /\ Bundle \notin Finders
  /\ Timers \subseteq {"FetchMailbox", "SendDummy", "RepublishDht"}
  /\ RecordTTL \in Nat \ {0} /\ MaxTime \in Nat \ {0}
  /\ MaxQueued \in Nat /\ MaxFaults \in Nat

VARIABLES
  loop,       \* "new", "published", "selecting" or, inside fetch_bundle, "awaiting"
  commands,   \* the channel of NodeCommand
  lookupRx,   \* dht_lookup_rx
  answer,     \* what each caller and each lookup was told
  serving,    \* whom the handler inside fetch_bundle is to answer
  pending,    \* pending_lookups
  query,      \* the Kademlia queries behind the lookups
  request,    \* requests of peers
  record,     \* my_dht_record and my_prekey_bundle
  put,        \* the publication under way
  dht,        \* what others find in the DHT
  now, faults

vars == <<loop, commands, lookupRx, answer, serving, pending, query, request,
          record, put, dht, now, faults>>
asks == <<answer, pending, query>>
records == <<record, put, dht>>

Commands == [kind : {"SendText", "FetchMailbox", "SendDummy", "RepublishDht"},
             from : Callers \union {Background}]

Init ==
  /\ loop     = "new"
  /\ commands = << >> /\ lookupRx = << >>
  /\ answer   = [c \in Callers \union Asking |-> "none"]
  /\ serving  = Background
  /\ pending  = {}
  /\ query    = [c \in Asking |-> "none"]
  /\ request  = [r \in Requests |-> "none"]
  /\ record   = Never /\ put = Never /\ dht = Never
  /\ now      = 1
  /\ faults   = 0

Fault == faults < MaxFaults /\ faults' = faults + 1

Command(kind, from) == [kind |-> kind, from |-> from]

-----------------------------------------------------------------------------
(* Start-up                                                                *)

\* Broken variant: the lifetime is taken for the time of expiry.
ExpiresAtTTL == RecordTTL

\* expires_at_unix of a record built now.
ExpiresAt == now + RecordTTL

\* Broken variant: the record is not kept.
PublishOnly(expiry) == put' = expiry /\ UNCHANGED record

PublishMyRecord(expiry) == put' = expiry /\ record' = expiry

\* Both records are built and given to the swarm before anything polls it.
PublishAtStart ==
  /\ loop = "new"
  /\ loop' = "published"
  /\ PublishMyRecord(ExpiresAt)
  /\ UNCHANGED <<commands, lookupRx, asks, serving, request, dht, now, faults>>

\* lookup_user and lookup_relay_descriptor take &mut self: they can be
\* called as long as the loop has not taken the node.
Lookup(c) ==
  /\ loop \in {"new", "published"} /\ answer[c] = "none"
  /\ answer'  = [answer EXCEPT ![c] = "awaited"]
  /\ pending' = pending \union {c}
  /\ query'   = [query EXCEPT ![c] = "asked"]
  /\ UNCHANGED <<loop, commands, lookupRx, serving, request, records, now, faults>>

\* sync_on_startup, then run_with_commands.
StartLoop ==
  /\ loop = "published"
  /\ loop' = "selecting"
  /\ commands' = commands \o <<Command("FetchMailbox", Background), Command("RepublishDht", Background)>>
  /\ UNCHANGED <<lookupRx, asks, serving, request, records, now, faults>>

-----------------------------------------------------------------------------
(* What is asked of the node                                               *)

KindOf(c) == IF c \in Senders THEN "SendText" ELSE "FetchMailbox"

Call(c) ==
  /\ loop \in {"selecting", "awaiting"} /\ answer[c] = "none"
  /\ commands' = Append(commands, Command(KindOf(c), c))
  /\ answer'   = [answer EXCEPT ![c] = "awaited"]
  /\ UNCHANGED <<loop, lookupRx, serving, pending, query, request, records, now, faults>>

\* A timer of the background tasks. It does not look at what the channel
\* holds; the bound is on its own commands, for the timers do not slow each
\* other down.
TimerFires(kind) ==
  LET cmd == Command(kind, Background)
  IN  /\ loop \in {"selecting", "awaiting"}
      /\ Cardinality({i \in DOMAIN commands : commands[i] = cmd}) < MaxQueued
      /\ commands' = Append(commands, cmd)
      /\ UNCHANGED <<loop, lookupRx, asks, serving, request, records, now, faults>>

SendRequest(r) ==
  /\ request[r] = "none"
  /\ request' = [request EXCEPT ![r] = "sent"]
  /\ UNCHANGED <<loop, commands, lookupRx, asks, serving, records, now, faults>>

\* The peer gives up: its request_response times out.
RequestTimesOut(r) ==
  /\ request[r] \in {"sent", "held"}
  /\ request' = [request EXCEPT ![r] = "failed"]
  /\ UNCHANGED <<loop, commands, lookupRx, asks, serving, records, now, faults>>

-----------------------------------------------------------------------------
(* The arms of the loop                                                    *)

\* fetch_bundle, up to the await. The table of sessions starts empty, so the
\* first thing to need a session gets here.
FetchBundle(for) ==
  /\ loop'     = "awaiting"
  /\ lookupRx' = Append(lookupRx, Bundle)
  /\ serving'  = for

Answered(c, what) == IF c = Background THEN answer ELSE [answer EXCEPT ![c] = what]

SendText(c) ==
  /\ FetchBundle(c)
  /\ UNCHANGED <<answer, put, record>>

\* Broken variant: only a request that could be sent is answered.
ResultIfSent(c) == IF c \in BadFetchers THEN answer ELSE Answered(c, "ok")

FetchResult(c) == Answered(c, IF c \in BadFetchers THEN "error" ELSE "ok")

FetchMailbox(c) ==
  /\ answer' = FetchResult(c)
  /\ UNCHANGED <<loop, lookupRx, serving, put, record>>

SendDummy == UNCHANGED <<loop, lookupRx, serving, answer, put, record>>

RepublishDht ==
  /\ IF record = Never THEN UNCHANGED <<put, record>> ELSE PublishMyRecord(record)
  /\ UNCHANGED <<loop, lookupRx, serving, answer>>

HandleCommand ==
  /\ loop = "selecting" /\ commands # << >>
  /\ commands' = Tail(commands)
  /\ LET cmd == Head(commands)
     IN  \/ cmd.kind = "SendText"     /\ SendText(cmd.from)
         \/ cmd.kind = "FetchMailbox" /\ FetchMailbox(cmd.from)
         \/ cmd.kind = "SendDummy"    /\ SendDummy
         \/ cmd.kind = "RepublishDht" /\ RepublishDht
  /\ UNCHANGED <<pending, query, request, dht, now, faults>>

\* Broken variant: the channel of a request is dropped with the error.
AckIfHandled(r) == IF r \in BadRequests THEN "held" ELSE "acked"

\* The content of the answer or the empty one, also after an error.
Ack(r) == "acked"

HandleRequest(r) ==
  /\ loop = "selecting" /\ request[r] = "sent"
  /\ \/ /\ r \in FirstMessages
        /\ FetchBundle(Background)
        /\ request' = [request EXCEPT ![r] = "held"]
     \/ /\ r \notin FirstMessages
        /\ request' = [request EXCEPT ![r] = Ack(r)]
        /\ UNCHANGED <<loop, lookupRx, serving>>
  /\ UNCHANGED <<commands, asks, records, now, faults>>

\* Broken variant: the entry stays when the query failed.
EntriesKept(c) == pending

EntriesWithout(c) == pending \ {c}

\* Broken variant: an undecodable record answers nobody.
TellDecoded(c, outcome) ==
  answer' = IF outcome = "ok" THEN [answer EXCEPT ![c] = outcome] ELSE answer

Tell(c, outcome) == answer' = [answer EXCEPT ![c] = outcome]

\* A query reports every copy of the record it finds; the first one found
\* answers, if it decodes, and the others find no entry.
FoundRecord(c) ==
  /\ loop = "selecting" /\ query[c] \in {"asked", "found"}
  /\ query' = [query EXCEPT ![c] = "found"]
  /\ \/ c \in pending /\ pending' = pending \ {c} /\ \E outcome \in {"ok", "error"} : Tell(c, outcome)
     \/ c \notin pending /\ UNCHANGED <<pending, answer>>
  /\ UNCHANGED <<loop, commands, lookupRx, serving, request, records, now, faults>>

\* NotFound, or the timeout, which may come after a copy was found.
QueryFails(c) ==
  /\ loop = "selecting" /\ query[c] \in {"asked", "found"}
  /\ query' = [query EXCEPT ![c] = "over"]
  /\ \/ c \in pending /\ pending' = EntriesWithout(c) /\ Tell(c, "error")
     \/ c \notin pending /\ UNCHANGED <<pending, answer>>
  /\ UNCHANGED <<loop, commands, lookupRx, serving, request, records, now, faults>>

\* FinishedWithNoAdditionalRecord, which the code passes over.
QueryFinishes(c) ==
  /\ loop = "selecting" /\ query[c] = "found"
  /\ query' = [query EXCEPT ![c] = "over"]
  /\ UNCHANGED <<loop, commands, lookupRx, answer, serving, pending, request, records, now, faults>>

\* A publication gets on while the loop polls the swarm; nobody looks at how
\* it ends.
PutEnds ==
  /\ loop = "selecting" /\ put # Never
  /\ put' = Never
  /\ \/ dht' = put /\ UNCHANGED faults
     \/ Fault /\ UNCHANGED dht
  /\ UNCHANGED <<loop, commands, lookupRx, asks, serving, request, record, now>>

-----------------------------------------------------------------------------
(* The world                                                               *)

\* What the loop has to do takes no time beside DHT_REPUBLISH_INTERVAL_SECS;
\* a node may be down, or wait for a bundle, much longer.
Tick ==
  /\ now < MaxTime
  /\ loop = "selecting" => commands = << >> /\ put = Never
  /\ loop # "published"
  /\ now' = now + 1
  /\ UNCHANGED <<loop, commands, lookupRx, asks, serving, request, records, faults>>

\* The nodes that hold the record leave.
RecordLost ==
  /\ Fault /\ dht # Never
  /\ dht' = Never
  /\ UNCHANGED <<loop, commands, lookupRx, asks, serving, request, record, put, now>>

\* The process ends, with all who wait in it, and starts again.
Restart ==
  /\ Fault
  /\ loop'     = "new"
  /\ commands' = << >> /\ lookupRx' = << >>
  /\ answer'   = [c \in Callers \union Asking |-> "none"]
  /\ serving'  = Background
  /\ pending'  = {}
  /\ query'    = [c \in Asking |-> "none"]
  /\ request'  = [r \in Requests |-> IF request[r] \in {"sent", "held"} THEN "failed" ELSE request[r]]
  /\ record'   = Never /\ put' = Never
  /\ UNCHANGED <<dht, now>>

Next ==
  \/ PublishAtStart \/ StartLoop
  \/ \E c \in Finders : Lookup(c) \/ FoundRecord(c) \/ QueryFails(c) \/ QueryFinishes(c)
  \/ \E c \in Callers : Call(c)
  \/ \E kind \in Timers : TimerFires(kind)
  \/ \E r \in Requests : SendRequest(r) \/ RequestTimesOut(r) \/ HandleRequest(r)
  \/ HandleCommand \/ PutEnds
  \/ Tick \/ RecordLost \/ Restart

\* The loop takes whatever is ready, in an order drawn at random by select!;
\* queries end after at most 30 seconds; the timers of the background tasks
\* go on.
LoopFairness ==
  /\ WF_vars(PublishAtStart) /\ WF_vars(StartLoop)
  /\ WF_vars(HandleCommand) /\ WF_vars(PutEnds)
  /\ \A c \in Finders : WF_vars(FoundRecord(c) \/ QueryFails(c) \/ QueryFinishes(c))
  /\ \A r \in Requests : WF_vars(HandleRequest(r))
  /\ WF_vars(TimerFires("RepublishDht"))

Spec == Init /\ [][Next]_vars /\ LoopFairness

-----------------------------------------------------------------------------
(* The rest of the loop: the third arm of select!, which starts the query  *)
(* of fetch_bundle, the answer of that query, and what the handler does    *)
(* with the answer. No step of Next leads to a state where one of them is  *)
(* enabled (NodeProofs!ArmIsDead), so Next does without; SpecWithArm has   *)
(* them.                                                                   *)

HandleLookupRequest ==
  /\ loop = "selecting" /\ lookupRx # << >>
  /\ lookupRx' = Tail(lookupRx)
  /\ answer'   = [answer EXCEPT ![Bundle] = "awaited"]
  /\ pending'  = pending \union {Bundle}
  /\ query'    = [query EXCEPT ![Bundle] = "asked"]
  /\ UNCHANGED <<loop, commands, serving, request, records, now, faults>>

FetchBundleReturns ==
  /\ loop = "awaiting" /\ answer[Bundle] \in {"ok", "error"}
  /\ loop'    = "selecting"
  /\ answer'  = [Answered(serving, answer[Bundle]) EXCEPT ![Bundle] = "none"]
  /\ request' = [r \in Requests |-> IF request[r] = "held" THEN "acked" ELSE request[r]]
  /\ UNCHANGED <<commands, lookupRx, serving, pending, query, records, now, faults>>

BundleFound == FoundRecord(Bundle) \/ QueryFails(Bundle) \/ QueryFinishes(Bundle)

SpecWithArm ==
  /\ Init /\ [][Next \/ HandleLookupRequest \/ BundleFound \/ FetchBundleReturns]_vars
  /\ LoopFairness
  /\ WF_vars(HandleLookupRequest) /\ WF_vars(BundleFound) /\ WF_vars(FetchBundleReturns)

-----------------------------------------------------------------------------
(* Properties                                                              *)

Waiting == loop = "awaiting"

\* Types of the variables; a record expires RecordTTL after it was built.
TypeOK ==
  /\ loop \in {"new", "published", "selecting", "awaiting"}
  /\ commands \in Seq(Commands) /\ lookupRx \in Seq({Bundle})
  /\ answer \in [Callers \union Asking -> {"none", "awaited", "ok", "error"}]
  /\ serving \in Callers \union {Background}
  /\ pending \subseteq Asking
  /\ query \in [Asking -> {"none", "asked", "found", "over"}]
  /\ request \in [Requests -> {"none", "sent", "held", "acked", "failed"}]
  /\ {record, put, dht} \subseteq {Never} \union (1 + RecordTTL) .. (MaxTime + RecordTTL)
  /\ now \in 1 .. MaxTime /\ faults \in 0 .. MaxFaults

\* pending_lookups holds exactly the lookups whose caller still waits, and
\* the query of each has not reported anything yet: no entry is left behind
\* by a query that reports twice or fails, and no caller is left without one.
PendingUnderWay ==
  \A c \in Finders : /\ c \in pending <=> answer[c] = "awaited"
                     /\ c \in pending => query[c] = "asked"

\* Whoever gives the node a command hears of its outcome, as long as the
\* loop does not wait for the DHT.
CommandsAnswered ==
  \A c \in Callers : answer[c] = "awaited" ~> answer[c] # "awaited" \/ Waiting

\* A lookup is answered once the loop runs: found, failed or not decodable.
LookupsAnswered ==
  \A c \in Finders : answer[c] = "awaited" ~> answer[c] # "awaited" \/ Waiting

\* Each request gets its answer, also when its handler fails.
RequestsAnswered ==
  \A r \in Requests : request[r] = "sent" ~> request[r] \in {"acked", "failed"} \/ Waiting

\* A record that is not in the DHT, because its publication failed or its
\* holders left, is there again in the end.
RecordReturns == dht = Never ~> dht # Never \/ Waiting

-----------------------------------------------------------------------------
(* What the repository says, and does not hold                             *)

\* src-tauri/src/lib.rs: a message that cannot be sent is an error to the
\* caller; in any case send_message returns.
SendReturns == \A c \in Senders : answer[c] = "awaited" ~> answer[c] # "awaited"

\* services/background.rs and dht/publish.rs: what the node publishes while
\* it lives is a record that lookups accept, for it is built anew.
PublishedIsValid == [][put' # put /\ put' # Never => put' >= now]_vars
=============================================================================
