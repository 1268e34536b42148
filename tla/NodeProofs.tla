------------------------------- MODULE NodeProofs -------------------------------
(***************************************************************************)
(* Theorems about Node, for all sets of callers, lookups and requests and  *)
(* all bounds. The inductive invariant is IInv: type correctness, the      *)
(* safety invariant of the runs, and that the lookup of fetch_bundle,      *)
(* which only the third arm of the loop could start, was neither taken     *)
(* from its channel nor started.                                           *)
(***************************************************************************)
EXTENDS Node, TLAPS

\* The third arm of select! and what depends on it.
Arm == HandleLookupRequest \/ BundleFound \/ FetchBundleReturns

\* The request of fetch_bundle is in its channel exactly while the loop is
\* not there to take it.
RequestUntaken == Waiting <=> lookupRx # << >>

\* Nobody has asked the DHT for the bundle a handler waits for.
BundleUnasked ==
  answer[Bundle] = "none" /\ query[Bundle] = "none" /\ Bundle \notin pending

IInv == TypeOK /\ PendingUnderWay /\ RequestUntaken /\ BundleUnasked

-----------------------------------------------------------------------------
(* Operators                                                               *)

\* The times at which a record may expire, and that of no record.
Expiries == {Never} \union (1 + RecordTTL) .. (MaxTime + RecordTTL)

\* The expiry of a record built now is one of them.
LEMMA ExpiresAtType ==
  ASSUME TypeOK
  PROVE  ExpiresAt \in Expiries
BY NodeAssumption DEF TypeOK, ExpiresAt, Expiries

\* An answer to a caller of a command is no answer to a lookup.
LEMMA AnsweredType ==
  ASSUME TypeOK, NEW c \in Callers \union {Background}, NEW what \in {"ok", "error"}
  PROVE  /\ Answered(c, what) \in [Callers \union Asking -> {"none", "awaited", "ok", "error"}]
         /\ \A d \in Asking : Answered(c, what)[d] = answer[d]
BY NodeAssumption DEF TypeOK, Answered

\* The commands the node is given are commands.
LEMMA CommandType ==
  /\ \A c \in Callers : Command(KindOf(c), c) \in Commands
  /\ \A kind \in Timers \union {"FetchMailbox", "RepublishDht"} : Command(kind, Background) \in Commands
BY NodeAssumption DEF Command, Commands, KindOf

-----------------------------------------------------------------------------
(* Initial state                                                           *)

\* It holds when the node is created.
LEMMA InitIInv == Init => IInv
<1> SUFFICES ASSUME Init PROVE IInv
  OBVIOUS
<1>1. TypeOK
  BY NodeAssumption DEF Init, TypeOK
<1>2. PendingUnderWay /\ BundleUnasked
  BY DEF Init, PendingUnderWay, BundleUnasked, Asking
<1>3. RequestUntaken
  BY DEF Init, RequestUntaken, Waiting
<1> QED
  BY <1>1, <1>2, <1>3 DEF IInv

-----------------------------------------------------------------------------
(* The steps                                                               *)

\* Building and giving away the two records touches only the records.
LEMMA PublishAtStartKeepsIInv ==
  ASSUME IInv, PublishAtStart
  PROVE  IInv'
<1>1. TypeOK'
  BY ExpiresAtType DEF IInv, TypeOK, PublishAtStart, PublishMyRecord, asks, Expiries
<1> QED
  BY <1>1 DEF IInv, PublishAtStart, asks, PendingUnderWay, RequestUntaken, Waiting, BundleUnasked

\* A lookup is entered, asked and awaited at once.
LEMMA LookupKeepsIInv ==
  ASSUME IInv, NEW c \in Finders, Lookup(c)
  PROVE  IInv'
<1>1. c \in Asking /\ c # Bundle /\ Finders \subseteq Asking /\ Bundle \in Asking
  BY NodeAssumption DEF Asking
<1>2. TypeOK'
  BY <1>1 DEF IInv, TypeOK, Lookup, records
<1>3. PendingUnderWay'
  BY <1>1 DEF IInv, TypeOK, Lookup, PendingUnderWay
<1>4. RequestUntaken' /\ BundleUnasked'
  BY <1>1 DEF IInv, TypeOK, Lookup, RequestUntaken, Waiting, BundleUnasked
<1> QED
  BY <1>2, <1>3, <1>4 DEF IInv

\* Only the channel of commands grows, by commands.
LEMMA EnqueueKeepsIInv ==
  ASSUME IInv,
         loop' = loop \/ (loop = "published" /\ loop' = "selecting"),
         commands' \in Seq(Commands),
         UNCHANGED <<lookupRx, asks, serving, request, records, now, faults>>
  PROVE  IInv'
<1>1. TypeOK'
  BY DEF IInv, TypeOK, asks, records
<1> QED
  BY <1>1 DEF IInv, asks, PendingUnderWay, RequestUntaken, Waiting, BundleUnasked

\* The start of the loop and the timers add commands to the channel, no more.
LEMMA StartLoopKeepsIInv ==
  ASSUME IInv, StartLoop
  PROVE  IInv'
<1>1. commands' \in Seq(Commands)
  BY CommandType DEF StartLoop, IInv, TypeOK
<1> QED
  BY <1>1, EnqueueKeepsIInv DEF StartLoop

\* The same of a timer.
LEMMA TimerFiresKeepsIInv ==
  ASSUME IInv, NEW kind \in Timers, TimerFires(kind)
  PROVE  IInv'
<1>1. commands' \in Seq(Commands)
  BY CommandType DEF TimerFires, IInv, TypeOK
<1> QED
  BY <1>1, EnqueueKeepsIInv DEF TimerFires

\* A caller waits, and no lookup is concerned.
LEMMA CallKeepsIInv ==
  ASSUME IInv, NEW c \in Callers, Call(c)
  PROVE  IInv'
<1>1. \A d \in Asking : answer'[d] = answer[d]
  BY NodeAssumption DEF Call, IInv, TypeOK
<1>2. commands' \in Seq(Commands)
  BY CommandType DEF Call, IInv, TypeOK
<1>3. TypeOK'
  BY <1>2 DEF Call, IInv, TypeOK, records
<1>4. Finders \subseteq Asking /\ Bundle \in Asking
  BY DEF Asking
<1> QED
  BY <1>1, <1>3, <1>4 DEF Call, IInv, PendingUnderWay, RequestUntaken, Waiting, BundleUnasked

\* What a peer does with its request concerns only that request.
LEMMA RequestKeepsIInv ==
  ASSUME IInv, NEW r \in Requests, SendRequest(r) \/ RequestTimesOut(r)
  PROVE  IInv'
<1>1. TypeOK'
  BY DEF IInv, TypeOK, SendRequest, RequestTimesOut, asks, records
<1> QED
  BY <1>1 DEF IInv, SendRequest, RequestTimesOut, asks, PendingUnderWay, RequestUntaken, Waiting,
              BundleUnasked

\* fetch_bundle is entered from the loop, with nothing in dht_lookup_rx, and
\* leaves its request there.
LEMMA FetchBundleEnters ==
  ASSUME IInv, loop = "selecting", NEW c \in Callers \union {Background}, FetchBundle(c)
  PROVE  /\ loop' = "awaiting" /\ serving' \in Callers \union {Background}
         /\ lookupRx' \in Seq({Bundle}) /\ lookupRx' # << >>
BY DEF IInv, TypeOK, FetchBundle

\* The four handlers of a command: none of them touches a lookup.
LEMMA HandleCommandKeepsIInv ==
  ASSUME IInv, HandleCommand
  PROVE  IInv'
<1> DEFINE cmd == Head(commands)
<1>1. /\ commands' = Tail(commands) /\ loop = "selecting" /\ commands # << >>
      /\ pending' = pending /\ query' = query /\ request' = request /\ dht' = dht
      /\ now' = now /\ faults' = faults
  BY DEF HandleCommand
<1>2. commands' \in Seq(Commands)
  BY <1>1 DEF IInv, TypeOK
<1>3. cmd \in Commands
  BY <1>1 DEF IInv, TypeOK
<1>4. cmd.from \in Callers \union {Background}
  BY <1>3 DEF Commands
<1>5. Finders \subseteq Asking /\ Bundle \in Asking
  BY DEF Asking
<1> HIDE DEF cmd
<1>6. CASE SendText(cmd.from)
  <2>1. /\ answer' = answer /\ put' = put /\ record' = record
        /\ FetchBundle(cmd.from)
    BY <1>6 DEF SendText
  <2>2. /\ loop' = "awaiting" /\ serving' \in Callers \union {Background}
        /\ lookupRx' \in Seq({Bundle}) /\ lookupRx' # << >>
    BY <1>1, <1>4, <2>1, FetchBundleEnters
  <2>3. TypeOK'
    BY <1>1, <1>2, <2>1, <2>2 DEF IInv, TypeOK
  <2> QED
    BY <1>1, <2>1, <2>2, <2>3 DEF IInv, PendingUnderWay, RequestUntaken, Waiting, BundleUnasked
<1>7. CASE FetchMailbox(cmd.from)
  <2>1. /\ loop' = loop /\ lookupRx' = lookupRx /\ serving' = serving /\ put' = put /\ record' = record
        /\ answer' = FetchResult(cmd.from)
    BY <1>7 DEF FetchMailbox
  <2>2. /\ answer' \in [Callers \union Asking -> {"none", "awaited", "ok", "error"}]
        /\ \A d \in Asking : answer'[d] = answer[d]
    BY <1>4, <2>1, AnsweredType DEF FetchResult, IInv
  <2>3. TypeOK'
    BY <1>1, <1>2, <2>1, <2>2 DEF IInv, TypeOK
  <2> QED
    BY <1>1, <1>5, <2>1, <2>2, <2>3 DEF IInv, PendingUnderWay, RequestUntaken, Waiting, BundleUnasked
<1>8. CASE SendDummy \/ RepublishDht
  <2>1. /\ loop' = loop /\ lookupRx' = lookupRx /\ serving' = serving /\ answer' = answer
        /\ {put', record'} \subseteq {put, record}
    BY <1>8 DEF SendDummy, RepublishDht, PublishMyRecord
  <2>2. TypeOK'
    BY <1>1, <1>2, <2>1 DEF IInv, TypeOK
  <2> QED
    BY <1>1, <2>1, <2>2 DEF IInv, PendingUnderWay, RequestUntaken, Waiting, BundleUnasked
<1> QED
  BY <1>6, <1>7, <1>8 DEF HandleCommand, cmd

\* A request is answered at once or held by a handler that fetches a bundle.
LEMMA HandleRequestKeepsIInv ==
  ASSUME IInv, NEW r \in Requests, HandleRequest(r)
  PROVE  IInv'
<1>1. UNCHANGED <<commands, asks, records, now, faults>>
  BY DEF HandleRequest
<1>2. CASE FetchBundle(Background) /\ request' = [request EXCEPT ![r] = "held"]
  <2>1. /\ loop' = "awaiting" /\ serving' \in Callers \union {Background}
        /\ lookupRx' \in Seq({Bundle}) /\ lookupRx' # << >>
    BY <1>2, FetchBundleEnters DEF HandleRequest
  <2>2. TypeOK'
    BY <1>1, <1>2, <2>1 DEF IInv, TypeOK, asks, records
  <2> QED
    BY <1>1, <2>1, <2>2 DEF IInv, asks, PendingUnderWay, RequestUntaken, Waiting, BundleUnasked
<1>3. CASE request' = [request EXCEPT ![r] = Ack(r)] /\ UNCHANGED <<loop, lookupRx, serving>>
  <2>1. TypeOK'
    BY <1>1, <1>3 DEF IInv, TypeOK, asks, records, Ack
  <2> QED
    BY <1>1, <1>3, <2>1 DEF IInv, asks, PendingUnderWay, RequestUntaken, Waiting, BundleUnasked
<1> QED
  BY <1>2, <1>3 DEF HandleRequest

\* A report on the query of c takes its entry, if there is one, and answers.
LEMMA QueryKeepsIInv ==
  ASSUME IInv, NEW c \in Finders, FoundRecord(c) \/ QueryFails(c) \/ QueryFinishes(c)
  PROVE  IInv'
<1>1. c \in Asking /\ c # Bundle /\ Finders \subseteq Asking /\ Bundle \in Asking
  BY NodeAssumption DEF Asking
<1>2. /\ UNCHANGED <<loop, commands, lookupRx, serving, request, records, now, faults>>
      /\ \E q \in {"found", "over"} : query' = [query EXCEPT ![c] = q]
  BY DEF FoundRecord, QueryFails, QueryFinishes
<1>3. CASE /\ pending' = pending \ {c}
           /\ \E outcome \in {"ok", "error"} : answer' = [answer EXCEPT ![c] = outcome]
  <2>1. TypeOK'
    BY <1>1, <1>2, <1>3 DEF IInv, TypeOK, records
  <2>2. PendingUnderWay'
    BY <1>1, <1>2, <1>3 DEF IInv, TypeOK, PendingUnderWay
  <2>3. RequestUntaken' /\ BundleUnasked'
    BY <1>1, <1>2, <1>3 DEF IInv, TypeOK, RequestUntaken, Waiting, BundleUnasked
  <2> QED
    BY <2>1, <2>2, <2>3 DEF IInv
<1>4. CASE c \notin pending /\ UNCHANGED <<pending, answer>>
  <2>1. TypeOK'
    BY <1>1, <1>2, <1>4 DEF IInv, TypeOK, records
  <2>2. PendingUnderWay'
    BY <1>1, <1>2, <1>4 DEF IInv, TypeOK, PendingUnderWay
  <2>3. RequestUntaken' /\ BundleUnasked'
    BY <1>1, <1>2, <1>4 DEF IInv, TypeOK, RequestUntaken, Waiting, BundleUnasked
  <2> QED
    BY <2>1, <2>2, <2>3 DEF IInv
<1>5. c \in pending => query[c] = "asked"
  BY DEF IInv, PendingUnderWay
<1> QED
  BY <1>3, <1>4, <1>5 DEF FoundRecord, QueryFails, QueryFinishes, EntriesWithout, Tell

\* Publications, the clock and what becomes of the record elsewhere.
LEMMA WorldKeepsIInv ==
  ASSUME IInv, PutEnds \/ Tick \/ RecordLost
  PROVE  IInv'
<1>1. UNCHANGED <<loop, commands, lookupRx, asks, serving, request, record>>
  BY DEF PutEnds, Tick, RecordLost, records
<1>2. TypeOK'
  BY <1>1, NodeAssumption DEF IInv, TypeOK, asks, records, PutEnds, Tick, RecordLost, Fault, Never
<1> QED
  BY <1>1, <1>2 DEF IInv, asks, PendingUnderWay, RequestUntaken, Waiting, BundleUnasked

\* A restart forgets callers, lookups and queries together.
LEMMA RestartKeepsIInv ==
  ASSUME IInv, Restart
  PROVE  IInv'
<1>1. TypeOK'
  BY NodeAssumption DEF IInv, TypeOK, Restart, Fault
<1>2. PendingUnderWay' /\ BundleUnasked'
  BY DEF Restart, PendingUnderWay, BundleUnasked, Asking
<1>3. RequestUntaken'
  BY DEF Restart, RequestUntaken, Waiting
<1> QED
  BY <1>1, <1>2, <1>3 DEF IInv

\* Every step keeps it.
LEMMA NextIInv == IInv /\ [Next]_vars => IInv'
<1> SUFFICES ASSUME IInv, [Next]_vars PROVE IInv'
  OBVIOUS
<1>1. CASE UNCHANGED vars
  BY <1>1 DEF IInv, TypeOK, PendingUnderWay, RequestUntaken, Waiting, BundleUnasked, vars
<1>2. CASE Next
  BY <1>2, PublishAtStartKeepsIInv, StartLoopKeepsIInv, LookupKeepsIInv, QueryKeepsIInv, CallKeepsIInv,
     TimerFiresKeepsIInv, RequestKeepsIInv, HandleRequestKeepsIInv, HandleCommandKeepsIInv,
     WorldKeepsIInv, RestartKeepsIInv DEF Next
<1> QED
  BY <1>1, <1>2

\* So it holds throughout.
LEMMA Invariance == Spec => []IInv
<1> QED
  BY InitIInv, NextIInv, PTL DEF Spec

-----------------------------------------------------------------------------
(* Theorems                                                                *)

\* Type correctness.
THEOREM TypeCorrect == Spec => []TypeOK
<1>1. IInv => TypeOK
  BY DEF IInv
<1> QED
  BY <1>1, Invariance, PTL

\* No lookup is forgotten and none is answered by a query that is over:
\* pending_lookups is exactly the lookups whose caller still waits.
THEOREM LookupsTracked == Spec => []PendingUnderWay
<1>1. IInv => PendingUnderWay
  BY DEF IInv
<1> QED
  BY <1>1, Invariance, PTL

\* The third arm of select! is dead code: with the arm, the query it would
\* start and the return of fetch_bundle added to the steps, the node still
\* only does what it does without them.
THEOREM ArmIsDead == SpecWithArm => Spec /\ [][~Arm]_vars
<1>1. IInv => ~Arm
  BY DEF IInv, RequestUntaken, Waiting, BundleUnasked, Arm, HandleLookupRequest, BundleFound,
         FoundRecord, QueryFails, QueryFinishes, FetchBundleReturns
<1>2. IInv /\ [Next \/ HandleLookupRequest \/ BundleFound \/ FetchBundleReturns]_vars
        => [Next]_vars /\ [~Arm]_vars
  BY <1>1 DEF Arm
<1>3. IInv /\ [Next \/ HandleLookupRequest \/ BundleFound \/ FetchBundleReturns]_vars => IInv'
  BY <1>2, NextIInv
<1> QED
  BY <1>2, <1>3, InitIInv, PTL DEF Spec, SpecWithArm

\* Once a handler waits for a bundle, every step but a restart of the
\* process leaves it waiting, and leaves without an answer every caller that
\* has none: the send at a first contact never returns, nor does any command
\* queued behind it.
THEOREM NobodyReturns ==
  SpecWithArm => [][Waiting => \/ Restart
                               \/ /\ Waiting'
                                  /\ \A c \in Callers : answer[c] = "awaited" => answer'[c] = "awaited"]_vars
<1>1. IInv /\ [Next]_vars =>
        [Waiting => \/ Restart
                    \/ /\ Waiting'
                       /\ \A c \in Callers : answer[c] = "awaited" => answer'[c] = "awaited"]_vars
  <2> SUFFICES ASSUME IInv, Next, Waiting, ~Restart
               PROVE  /\ loop' = "awaiting"
                      /\ \A c \in Callers : answer[c] = "awaited" => answer'[c] = "awaited"
    BY DEF Waiting
  <2>1. /\ ~PublishAtStart /\ ~StartLoop /\ ~HandleCommand /\ ~PutEnds
        /\ \A c \in Finders : ~Lookup(c) /\ ~FoundRecord(c) /\ ~QueryFails(c) /\ ~QueryFinishes(c)
        /\ \A r \in Requests : ~HandleRequest(r)
    BY DEF Waiting, PublishAtStart, StartLoop, HandleCommand, PutEnds, Lookup, FoundRecord, QueryFails,
           QueryFinishes, HandleRequest
  <2>2. ASSUME NEW d \in Callers, Call(d)
        PROVE  /\ loop' = loop
               /\ \A c \in Callers : answer[c] = "awaited" => answer'[c] = "awaited"
    BY <2>2 DEF Call, IInv, TypeOK
  <2>3. CASE loop' = loop /\ answer' = answer
    BY <2>3 DEF Waiting
  <2> QED
    BY <2>1, <2>2, <2>3 DEF Waiting, Next, TimerFires, SendRequest, RequestTimesOut, Tick, RecordLost, asks
<1> QED
  BY <1>1, Invariance, ArmIsDead, PTL DEF Spec
=============================================================================
