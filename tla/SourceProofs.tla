---------------------------- MODULE SourceProofs -----------------------------
(***************************************************************************)
(* Theorems about reading the source, whatever the number of concurrent    *)
(* requests, hits, attributes, limits and stopped attempts.                *)
(*                                                                         *)
(* AlgoliaRequest: a request counts before it is sent, and a client that   *)
(* resumes a run counts on from the recorded responses; so what is under   *)
(* way is within what was counted, and what is in the air is not yet       *)
(* recorded.                                                               *)
(*                                                                         *)
(* Credentials: whoever awaits the discovery holds the lock, so at most    *)
(* one request does (RefreshLock), and only the holder replaces the        *)
(* client's seed; a waiting request whose observed seed was replaced is    *)
(* resent and never gets that far.                                         *)
(*                                                                         *)
(* Pagination: no cursor stands for a page that is not stored, and while   *)
(* counts are exact a range split stores all that it can tell apart.       *)
(***************************************************************************)
EXTENDS AlgoliaRequest, Credentials, Pagination, SequenceTheorems, FiniteSetTheorems, TLAPS

(***************************************************************************)
(* AlgoliaRequest: the request budget                                      *)
(***************************************************************************)

Underway == {c \in Callers : call[c].at \in {"token", "slot"}}
InFlight == {c \in Callers : call[c].at = "sent"}

CountersType == {started, sent, recorded} \subseteq Nat
CallType ==
    /\ call = [c \in Callers |-> call[c]]
    /\ \A c \in Callers : "at" \in DOMAIN call[c]

SentIsCounted == sent + Cardinality(Underway) <= started
RecordedIsSent == recorded + Cardinality(InFlight) <= sent
CountedIsBudgeted == started <= MaxRequests

BudgetInv ==
    /\ CountersType /\ CallType
    /\ SentIsCounted /\ RecordedIsSent /\ CountedIsBudgeted

\* One caller comes to or leaves a set of callers.
LEMMA OneComes ==
    ASSUME NEW S \in SUBSET Callers, NEW c \in Callers
    PROVE  /\ Cardinality(S) \in Nat
           /\ c \notin S => Cardinality(S \cup {c}) = Cardinality(S) + 1
           /\ c \in S => Cardinality(S \ {c}) = Cardinality(S) - 1
  <1>1. IsFiniteSet(S)
    BY FS_Subset, CallersAssumption
  <1>2. QED
    BY <1>1, FS_CardinalityType, FS_AddElement, FS_RemoveElement

LEMMA BudgetInit == ClientInit => BudgetInv
  <1> SUFFICES ASSUME ClientInit PROVE BudgetInv
    OBVIOUS
  <1>1. Underway = {} /\ InFlight = {}
    BY DEF ClientInit, Idle, Underway, InFlight
  <1>2. MaxRequests \in Nat
    BY LimitAssumption
  <1>3. QED
    BY <1>1, <1>2, FS_EmptySet
       DEF ClientInit, Idle, BudgetInv, CountersType, CallType, SentIsCounted, RecordedIsSent,
           CountedIsBudgeted

\* What becomes of the sets of callers when one of them changes its step.
LEMMA OneMoves ==
    ASSUME CallType, NEW c \in Callers, NEW r, "at" \in DOMAIN r, Become(c, r)
    PROVE  /\ CallType'
           /\ Underway' = IF r.at \in {"token", "slot"} THEN Underway \cup {c} ELSE Underway \ {c}
           /\ InFlight' = IF r.at = "sent" THEN InFlight \cup {c} ELSE InFlight \ {c}
  BY DEF CallType, Become, Underway, InFlight

LEMMA TryKeeps ==
    ASSUME BudgetInv, NEW c \in Callers, NEW r0, "at" \in DOMAIN r0, Try(c, r0),
           call[c].at \in {"idle", "sleep"}, UNCHANGED <<sent, recorded>>
    PROVE  BudgetInv'
  <1> DEFINE r == [r0 EXCEPT !.host = r0.hosts[1 + (r0.attempt % Len(r0.hosts))]]
             on == [r EXCEPT !.at = "token", !.probe = State(breaker[r.host]) = "half_open"]
  <1>1. "at" \in DOMAIN on /\ on.at = "token"
    OBVIOUS
  <1>2. \/ Become(c, Idle) /\ started' = started
        \/ started < MaxRequests /\ started' = started + 1 /\ (Become(c, on) \/ Become(c, Idle))
    BY DEF Try, BudgetSpent, BudgetLeft
  <1> HIDE DEF on
  <1>3. c \notin Underway /\ c \notin InFlight
    BY DEF Underway, InFlight
  <1>4. Cardinality(Underway) \in Nat /\ Cardinality(Underway \cup {c}) = Cardinality(Underway) + 1
    BY <1>3, OneComes DEF Underway
  <1>5. InFlight \ {c} = InFlight /\ Underway \ {c} = Underway
    BY <1>3
  <1>6. Cardinality(InFlight) \in Nat
    BY OneComes DEF InFlight
  <1> MaxRequests \in Nat
    BY LimitAssumption
  <1> CountersType /\ CallType /\ SentIsCounted /\ RecordedIsSent /\ CountedIsBudgeted
    BY DEF BudgetInv
  <1>7. CASE Become(c, Idle)
    <2>1. CallType' /\ Underway' = Underway /\ InFlight' = InFlight
      BY <1>5, <1>7, OneMoves DEF Idle
    <2>2. QED
      BY <1>2, <1>4, <1>6, <2>1
         DEF BudgetInv, CountersType, SentIsCounted, RecordedIsSent, CountedIsBudgeted
  <1>8. CASE Become(c, on) /\ started < MaxRequests /\ started' = started + 1
    <2>1. CallType' /\ Underway' = Underway \cup {c} /\ InFlight' = InFlight
      BY <1>1, <1>5, <1>8, OneMoves
    <2>2. QED
      BY <1>4, <1>6, <1>8, <2>1
         DEF BudgetInv, CountersType, SentIsCounted, RecordedIsSent, CountedIsBudgeted
  <1>9. QED
    BY <1>2, <1>7, <1>8

LEMMA BudgetStep == BudgetInv /\ [ClientNext]_clientVars => BudgetInv'
  <1> SUFFICES ASSUME BudgetInv, [ClientNext]_clientVars PROVE BudgetInv'
    OBVIOUS
  <1> CountersType /\ CallType /\ SentIsCounted /\ RecordedIsSent /\ CountedIsBudgeted
    BY DEF BudgetInv
  <1> MaxRequests \in Nat
    BY LimitAssumption
  <1>a. /\ Cardinality(Underway) \in Nat /\ Cardinality(InFlight) \in Nat
        /\ \A c \in Underway : Cardinality(Underway \ {c}) = Cardinality(Underway) - 1
        /\ \A c \in InFlight : Cardinality(InFlight \ {c}) = Cardinality(InFlight) - 1
        /\ \A c \in Callers \ InFlight :
              Cardinality(InFlight \cup {c}) = Cardinality(InFlight) + 1
    <2>1. Underway \in SUBSET Callers /\ InFlight \in SUBSET Callers
      BY DEF Underway, InFlight
    <2>2. \A c \in Callers :
             /\ Cardinality(Underway) \in Nat /\ Cardinality(InFlight) \in Nat
             /\ c \in Underway => Cardinality(Underway \ {c}) = Cardinality(Underway) - 1
             /\ c \in InFlight => Cardinality(InFlight \ {c}) = Cardinality(InFlight) - 1
             /\ c \notin InFlight => Cardinality(InFlight \cup {c}) = Cardinality(InFlight) + 1
      BY <2>1, OneComes
    <2>3. Cardinality(Underway) \in Nat /\ Cardinality(InFlight) \in Nat
      BY <2>1, CallersAssumption, FS_Subset, FS_CardinalityType
    <2>4. QED
      BY <2>1, <2>2, <2>3
  <1>1. CASE UNCHANGED clientVars
    BY <1>1 DEF clientVars, BudgetInv, CountersType, CallType, SentIsCounted, RecordedIsSent,
                CountedIsBudgeted, Underway, InFlight
  <1>2. ASSUME NEW c \in Callers, Begin(c) PROVE BudgetInv'
    <2>1. PICK q \in Queries :
              Try(c, [at |-> "try", query |-> q, hosts |-> candidates, attempt |-> 0,
                      host |-> HostOrder[1], probe |-> FALSE, left |-> Timeout])
      BY <1>2 DEF Begin
    <2>2. QED
      BY <1>2, <2>1, TryKeeps DEF Begin
  <1>3. ASSUME NEW c \in Callers, Retry(c) PROVE BudgetInv'
    <2>1. "at" \in DOMAIN [call[c] EXCEPT !.attempt = @ + 1]
      BY DEF CallType
    <2>2. QED
      BY <1>3, <2>1, TryKeeps DEF Retry
  <1>4. ASSUME NEW c \in Callers, TakeToken(c) PROVE BudgetInv'
    <2> DEFINE r == [call[c] EXCEPT !.at = "slot"]
    <2>1. "at" \in DOMAIN r /\ r.at = "slot" /\ Become(c, r)
      BY <1>4 DEF TakeToken, CallType
    <2> HIDE DEF r
    <2>2. c \in Underway /\ c \notin InFlight
      BY <1>4 DEF TakeToken, Underway, InFlight
    <2>3. CallType' /\ Underway' = Underway /\ InFlight' = InFlight
      BY <2>1, <2>2, OneMoves
    <2>4. QED
      BY <1>4, <2>3 DEF TakeToken, BudgetInv, CountersType, SentIsCounted, RecordedIsSent,
                        CountedIsBudgeted
  <1>5. ASSUME NEW c \in Callers, SendCall(c) PROVE BudgetInv'
    <2> DEFINE r == [call[c] EXCEPT !.at = "sent", !.left = Timeout]
    <2>1. "at" \in DOMAIN r /\ r.at = "sent" /\ Become(c, r)
      BY <1>5 DEF SendCall, CallType
    <2> HIDE DEF r
    <2>2. c \in Underway /\ c \notin InFlight
      BY <1>5 DEF SendCall, Underway, InFlight
    <2>3. CallType' /\ Underway' = Underway \ {c} /\ InFlight' = InFlight \cup {c}
      BY <2>1, OneMoves
    <2>4. QED
      BY <1>5, <1>a, <2>2, <2>3 DEF SendCall, BudgetInv, CountersType, SentIsCounted, RecordedIsSent,
                              CountedIsBudgeted
  <1>6. ASSUME NEW c \in Callers, NEW r, "at" \in DOMAIN r, r.at \in {"idle", "sleep"},
               call[c].at = "sent", Become(c, r), UNCHANGED <<started, sent>>,
               recorded' \in {recorded, recorded + 1}
        PROVE  BudgetInv'
    <2>1. c \in InFlight /\ c \notin Underway
      BY <1>6 DEF Underway, InFlight
    <2>2. CallType' /\ Underway' = Underway /\ InFlight' = InFlight \ {c}
      BY <1>6, <2>1, OneMoves
    <2>3. QED
      BY <1>6, <1>a, <2>1, <2>2 DEF BudgetInv, CountersType, SentIsCounted, RecordedIsSent,
                                    CountedIsBudgeted
  <1>7. ASSUME NEW c \in Callers
        PROVE  /\ "at" \in DOMAIN After(call[c]) /\ After(call[c]).at \in {"idle", "sleep"}
               /\ "at" \in DOMAIN Idle /\ Idle.at \in {"idle", "sleep"}
    BY DEF After, Idle, CallType
  <1>8. ASSUME NEW c \in Callers, NEW status \in Statuses, Respond(c, status) PROVE BudgetInv'
    <2>1. Become(c, After(call[c])) \/ Become(c, Idle)
      BY <1>8 DEF Respond
    <2>2. QED
      BY <1>6, <1>7, <1>8, <2>1 DEF Respond
  <1>9. ASSUME NEW c \in Callers, Fail(c) PROVE BudgetInv'
    BY <1>6, <1>7, <1>9 DEF Fail, Failed
  <1>10. CASE Tick
    <2>1. /\ CallType'
          /\ \A c \in Callers : call'[c].at = call[c].at
      BY <1>10 DEF Tick, CallType
    <2>2. Underway' = Underway /\ InFlight' = InFlight
      BY <2>1 DEF Underway, InFlight
    <2>3. QED
      BY <1>10, <2>1, <2>2 DEF Tick, BudgetInv, CountersType, SentIsCounted, RecordedIsSent,
                               CountedIsBudgeted
  <1>11. CASE Restart
    <2>1. CallType' /\ Underway' = {} /\ InFlight' = {}
      BY <1>11 DEF Restart, Idle, CallType, Underway, InFlight
    <2>2. recorded <= started
      BY <1>a DEF CountersType, SentIsCounted, RecordedIsSent
    <2>3. QED
      BY <1>11, <2>1, <2>2, FS_EmptySet
         DEF Restart, BudgetInv, CountersType, SentIsCounted, RecordedIsSent, CountedIsBudgeted
  <1>12. QED
    BY <1>1, <1>2, <1>3, <1>4, <1>5, <1>8, <1>9, <1>10, <1>11 DEF ClientNext

(***************************************************************************)
(* The client never sends more than max_requests_per_run requests, however *)
(* many workers retry at once and however often the run is resumed         *)
(* (AlgoliaClient._request; a resume counts the responses it recorded).    *)
(***************************************************************************)
THEOREM BudgetIsKept == ClientSpec => []BudgetHolds
  <1>1. BudgetInv => BudgetHolds
    <2> SUFFICES ASSUME BudgetInv PROVE BudgetHolds
      OBVIOUS
    <2>1. Cardinality(Underway) \in Nat
      BY OneComes, FS_CardinalityType, FS_Subset, CallersAssumption DEF Underway
    <2>2. QED
      BY <2>1, LimitAssumption
         DEF BudgetInv, BudgetHolds, CountersType, SentIsCounted, CountedIsBudgeted
  <1>2. QED
    BY <1>1, BudgetInit, BudgetStep, PTL DEF ClientSpec

(***************************************************************************)
(* Credentials: one refresh for one seed                                   *)
(***************************************************************************)

Holds(r) == request[r].pc \in {"joined", "reload"}

(* At most one request holds the client's refresh lock.                      *)
RefreshLock == \A p, q \in Requests : Holds(p) /\ Holds(q) => p = q

RequestType == [pc : Steps, key : Keys, mine : BOOLEAN, observed : BOOLEAN]

(* What a discovery probes and stores is a key it read from the page.        *)
FlightHasKey == flight.pc \in {"probe", "persist"} => flight.key \in Keys

KeysInv == TypeOK /\ FlightHasKey

RefreshInv == KeysInv /\ RefreshLock /\ OneRefreshPerSeed

(* The two ways in which requests move on without another key.               *)
LEMMA GoesType ==
    ASSUME request \in [Requests -> RequestType], NEW r \in Requests, NEW pc \in Steps, Goes(r, pc)
    PROVE  request' \in [Requests -> RequestType]
<1> DEFINE moved == [request[r] EXCEPT !.pc = pc]
<1>1. moved \in RequestType
  BY DEF RequestType
<1>2. request' = [request EXCEPT ![r] = moved]
  BY DEF Goes
<1> HIDE DEF moved
<1>3. QED
  BY <1>1, <1>2

LEMMA LandsType ==
    ASSUME request \in [Requests -> RequestType], NEW pc \in Steps, Lands(pc)
    PROVE  request' \in [Requests -> RequestType] /\ flight' = Grounded
<1>1. \A r \in Requests : [request[r] EXCEPT !.pc = pc] \in RequestType
  BY DEF RequestType
<1>2. QED
  BY <1>1 DEF Lands

(* Every step keeps the variables in their types: every key the row, the     *)
(* client and the requests ever hold is one the page published.              *)
LEMMA KeysStep == KeysInv /\ [Next]_vars => KeysInv'
<1> SUFFICES ASSUME KeysInv, [Next]_vars PROVE KeysInv'
  OBVIOUS
<1> USE DEF KeysInv, TypeOK, FlightHasKey, Steps
<1>1. CASE Rotate
  BY <1>1, CredentialsAssumption DEF Rotate, Keys
<1>2. CASE Expire
  BY <1>2 DEF Expire
<1>3. CASE DiscoveryStep
  <2>1. CASE Invalidate
    BY <2>1 DEF Invalidate, mark_stale
  <2>2. CASE CheckCached
    <3>1. CASE stored.fresh /\ Lands("reload")
      <4>1. request' \in [Requests -> RequestType] /\ flight' = Grounded
        BY <3>1, LandsType DEF RequestType
      <4>2. QED
        BY <2>2, <4>1 DEF CheckCached, Grounded, RequestType
    <3>2. CASE flight' = [flight EXCEPT !.pc = "page"] /\ UNCHANGED request
      BY <2>2, <3>2 DEF CheckCached
    <3>3. QED
      BY <2>2, <3>1, <3>2 DEF CheckCached
  <2>3. CASE ReadPage
    BY <2>3 DEF ReadPage
  <2>4. CASE Probe
    <3>1. CASE flight.key = page
      BY <2>4, <3>1 DEF Probe
    <3>2. CASE flight.key # page /\ ~flight.again
      BY <2>4, <3>2 DEF Probe, mark_stale
    <3>3. CASE flight.key # page /\ flight.again
      <4>1. Lands("idle") /\ mark_stale
        BY <2>4, <3>3 DEF Probe
      <4>2. request' \in [Requests -> RequestType] /\ flight' = Grounded
        BY <4>1, LandsType DEF RequestType
      <4>3. QED
        BY <2>4, <4>1, <4>2 DEF Probe, mark_stale, Grounded, RequestType
    <3>4. QED
      BY <3>1, <3>2, <3>3
  <2>5. CASE Persist
    <3>1. request' \in [Requests -> RequestType] /\ flight' = Grounded
      BY <2>5, LandsType DEF Persist, RequestType
    <3>2. QED
      BY <2>5, <3>1 DEF Persist, persist, Grounded, RequestType
  <2>6. QED
    BY <1>3, <2>1, <2>2, <2>3, <2>4, <2>5 DEF DiscoveryStep
<1>4. CASE DiscoveryFails
  <2>1. request' \in [Requests -> RequestType] /\ flight' = Grounded
    BY <1>4, LandsType DEF DiscoveryFails, RequestType
  <2>2. QED
    BY <1>4, <2>1, CredentialsAssumption DEF DiscoveryFails, Grounded, Fault, RequestType
<1>5. ASSUME NEW r \in Requests, RequestStep(r) \/ RequestFails(r) PROVE KeysInv'
  <2>1. CASE Send(r)
    BY <2>1 DEF Send
  <2> request[r] \in RequestType
    BY DEF RequestType
  <2>2. CASE Answer(r)
    <3> DEFINE answered == [request[r] EXCEPT
                              !.pc = IF request[r].key = page THEN "idle" ELSE "waiting",
                              !.observed = TRUE]
    <3>1. answered \in RequestType
      BY DEF RequestType
    <3>2. request' = [request EXCEPT ![r] = answered]
      BY <2>2 DEF Answer
    <3> HIDE DEF answered
    <3>3. request' \in [Requests -> RequestType]
      BY <3>1, <3>2 DEF RequestType
    <3>4. QED
      BY <2>2, <3>3 DEF Answer, RequestType
  <2>3. CASE ReplacedMeanwhile(r)
    <3> DEFINE again == [request[r] EXCEPT !.pc = "resent", !.key = seed, !.mine = TRUE]
    <3>1. again \in RequestType
      BY DEF RequestType
    <3>2. request' = [request EXCEPT ![r] = again]
      BY <2>3 DEF ReplacedMeanwhile, Resend
    <3> HIDE DEF again
    <3>3. request' \in [Requests -> RequestType]
      BY <3>1, <3>2 DEF RequestType
    <3>4. QED
      BY <2>3, <3>3 DEF ReplacedMeanwhile, RequestType
  <2>4. CASE Refresh(r)
    <3>1. request' \in [Requests -> RequestType]
      BY <2>4, GoesType DEF Refresh, RequestType
    <3>2. QED
      BY <2>4, <3>1 DEF Refresh, invalidate_and_refresh, launch, Grounded, RequestType
  <2>5. CASE Reload(r)
    <3> DEFINE mover(q) == IF q = r
                           THEN [request[r] EXCEPT !.pc = "resent", !.key = stored.key,
                                                   !.mine = TRUE, !.observed = FALSE]
                           ELSE [request[q] EXCEPT !.mine = FALSE, !.observed = FALSE]
    <3>1. \A q \in Requests : mover(q) \in RequestType
      BY DEF RequestType
    <3>2. request' = [q \in Requests |-> mover(q)]
      BY <2>5 DEF Reload
    <3> HIDE DEF mover
    <3>3. request' \in [Requests -> RequestType]
      BY <3>1, <3>2
    <3>4. QED
      BY <2>5, <3>3 DEF Reload, RequestType
  <2>6. CASE AnswerAgain(r)
    <3>1. request' \in [Requests -> RequestType]
      BY <2>6, GoesType DEF AnswerAgain, RequestType
    <3>2. QED
      BY <2>6, <3>1 DEF AnswerAgain, RequestType
  <2>7. CASE RequestFails(r)
    <3>1. request' \in [Requests -> RequestType]
      BY <2>7, GoesType DEF RequestFails, RequestType
    <3>2. QED
      BY <2>7, <3>1, CredentialsAssumption DEF RequestFails, Fault, RequestType
  <2> HIDE DEF KeysInv, TypeOK, FlightHasKey, Steps
  <2>8. QED
    BY <1>5, <2>1, <2>2, <2>3, <2>4, <2>5, <2>6, <2>7 DEF RequestStep
<1>6. ASSUME NEW force \in BOOLEAN, RefreshElsewhere(force) PROVE KeysInv'
  <2>1. PICK begin \in {"page", "check"} : launch(begin)
    BY <1>6 DEF RefreshElsewhere
  <2>2. flight' = [pc |-> begin, key |-> 0, again |-> FALSE]
    BY <1>6, <2>1 DEF RefreshElsewhere, launch, Grounded
  <2>3. others' \in 0..MaxOthers
    BY <1>6, CredentialsAssumption DEF RefreshElsewhere
  <2>4. QED
    BY <1>6, <2>1, <2>2, <2>3 DEF RefreshElsewhere
<1>7. CASE UNCHANGED vars
  BY <1>7 DEF vars
<1>8. QED
  BY <1>1, <1>2, <1>3, <1>4, <1>5, <1>6, <1>7 DEF Next

(* The keys of the row, the client and its requests stay published keys.     *)
THEOREM TypeCorrect == Spec => []TypeOK
<1>1. Init => KeysInv
  BY CredentialsAssumption DEF Init, KeysInv, TypeOK, FlightHasKey, Keys, Steps, Grounded
<1>2. KeysInv => TypeOK
  BY DEF KeysInv
<1>3. QED
  BY <1>1, <1>2, KeysStep, PTL DEF Spec

------------------------------------------------------------------------------
(* Every step keeps the lock to one holder, whose observed seed is the       *)
(* client's: a request becomes the holder only when the lock is free, and    *)
(* the seed is replaced by the holder, who lets the lock go.                 *)
LEMMA RefreshStep == RefreshInv /\ [Next]_vars => RefreshInv'
<1> SUFFICES ASSUME RefreshInv, [Next]_vars PROVE RefreshInv'
  OBVIOUS
<1>1. KeysInv'
  BY KeysStep DEF RefreshInv
<1> DEFINE Locked == RefreshLock /\ OneRefreshPerSeed
<1> USE DEF RefreshInv, RefreshLock, OneRefreshPerSeed, Holds
<1>2. request \in [Requests -> RequestType]
  BY DEF KeysInv, TypeOK, RequestType
<1>3. ASSUME UNCHANGED request PROVE Locked'
  BY <1>3
<1>4. ASSUME NEW pc \in {"reload", "idle"}, Lands(pc) PROVE Locked'
  BY <1>2, <1>4 DEF Lands, RequestType
<1>5. ASSUME NEW r \in Requests, RequestStep(r) \/ RequestFails(r) PROVE Locked'
  <2>1. CASE Send(r)
    BY <1>2, <2>1 DEF Send, RequestType
  <2>2. CASE Answer(r)
    BY <1>2, <2>2 DEF Answer, RequestType
  <2>3. CASE ReplacedMeanwhile(r)
    BY <1>2, <2>3 DEF ReplacedMeanwhile, Resend, RequestType
  <2>4. CASE Refresh(r)
    BY <1>2, <2>4 DEF Refresh, Goes, LockFree, replaced, RequestType
  <2>5. CASE Reload(r)
    <3>1. \A q \in Requests : ~Holds(q)'
      BY <1>2, <2>5 DEF Reload, RequestType
    <3>2. QED
      BY <3>1
  <2>6. CASE AnswerAgain(r) \/ RequestFails(r)
    BY <1>2, <2>6 DEF AnswerAgain, RequestFails, Goes, RequestType
  <2>7. QED
    BY <1>5, <2>1, <2>2, <2>3, <2>4, <2>5, <2>6 DEF RequestStep
<1>6. ASSUME DiscoveryStep \/ DiscoveryFails PROVE Locked'
  <2>1. UNCHANGED request \/ \E pc \in {"reload", "idle"} : Lands(pc)
    BY <1>6 DEF DiscoveryStep, DiscoveryFails, Invalidate, CheckCached, ReadPage, Probe, Persist
  <2>2. QED
    BY <1>3, <1>4, <2>1
<1>7. ASSUME Rotate \/ Expire \/ (\E force \in BOOLEAN : RefreshElsewhere(force)) \/ UNCHANGED vars
      PROVE  Locked'
  BY <1>3, <1>7 DEF Rotate, Expire, RefreshElsewhere, vars
<1>8. QED
  BY <1>1, <1>5, <1>6, <1>7 DEF Next

(* Of the requests that were refused with one seed only one refreshes it,    *)
(* for any number of requests and in any order of answers and lock wake-ups. *)
THEOREM OneRefresh == Spec => []OneRefreshPerSeed
<1>1. Init => RefreshInv
  BY CredentialsAssumption DEF Init, RefreshInv, KeysInv, TypeOK, FlightHasKey, RefreshLock,
     OneRefreshPerSeed, Holds, Keys, Steps, Grounded
<1>2. RefreshInv => OneRefreshPerSeed
  BY DEF RefreshInv
<1>3. QED
  BY <1>1, <1>2, RefreshStep, PTL DEF Spec

------------------------------------------------------------------------------
(* A refused key is replaced.  Nobody holds a key that was not published     *)
(* yet (Published), so a refused one is older than the page's.  While only   *)
(* the client starts discoveries, each is started and awaited by the holder  *)
(* of the lock; it reads the page after the refusal, hence a newer key, and  *)
(* nothing else writes the row before the holder has read it.                *)

Published ==
    /\ seed <= page /\ stored.key <= page /\ flight.key <= page
    /\ \A r \in Requests : request[r].key <= page

Refused(r) == request[r].pc \in {"waiting", "joined", "reload"}

Newer ==
    /\ flight.pc # "check"
    /\ flight.pc # "none" => \E r \in Requests : request[r].pc = "joined"
    /\ \A r \in Requests :
        /\ Refused(r) => request[r].key < page
        /\ request[r].pc = "joined" /\ flight.pc \in {"probe", "persist"} => request[r].key < flight.key
        /\ request[r].pc = "reload" => request[r].key < stored.key

NewerInv == RefreshInv /\ Published /\ (others = 0 => Newer)

(* Keys come from the page, and the page only moves on.                      *)
LEMMA PublishedStep ==
    ASSUME KeysInv, Published, [Next]_vars
    PROVE  Published'
<1>1. /\ request \in [Requests -> RequestType] /\ page \in Nat /\ seed \in Nat
      /\ stored \in [key : Keys, fresh : BOOLEAN] /\ stored.key \in Nat
      /\ \A q \in Requests : request[q].key \in Nat
  BY DEF KeysInv, TypeOK, RequestType, Keys
<1>2. /\ flight \in [pc : {"none", "invalidate", "check", "page", "probe", "persist"},
                     key : Keys \union {0}, again : BOOLEAN]
      /\ flight.key \in Nat
  BY DEF KeysInv, TypeOK, Keys
<1> USE DEF Published
<1>3. CASE Rotate
  BY <1>1, <1>2, <1>3 DEF Rotate
<1>4. CASE Expire
  BY <1>1, <1>4 DEF Expire
<1>5. ASSUME NEW pc \in Steps, Lands(pc), UNCHANGED <<page, seed>>, stored'.key <= page PROVE Published'
  BY <1>1, <1>5 DEF Lands, Grounded, RequestType
<1>6. CASE DiscoveryStep \/ DiscoveryFails
  <2>1. CASE Invalidate
    BY <1>1, <1>2, <2>1 DEF Invalidate, mark_stale
  <2>2. CASE CheckCached
    BY <1>2, <1>5, <2>2 DEF CheckCached, Steps
  <2>3. CASE ReadPage
    BY <1>1, <1>2, <2>3 DEF ReadPage
  <2>4. CASE Probe
    BY <1>1, <1>2, <1>5, <2>4 DEF Probe, mark_stale, Steps
  <2>5. CASE Persist
    BY <1>5, <2>5 DEF Persist, persist, Steps
  <2>6. CASE DiscoveryFails
    BY <1>5, <2>6 DEF DiscoveryFails, Steps
  <2>7. QED
    BY <1>6, <2>1, <2>2, <2>3, <2>4, <2>5, <2>6 DEF DiscoveryStep
<1>7. ASSUME NEW r \in Requests, RequestStep(r) \/ RequestFails(r) PROVE Published'
  <2>1. CASE Send(r)
    BY <1>1, <2>1 DEF Send, RequestType
  <2>2. CASE Answer(r) \/ AnswerAgain(r) \/ RequestFails(r)
    BY <1>1, <2>2 DEF Answer, AnswerAgain, RequestFails, Goes, RequestType
  <2>3. CASE ReplacedMeanwhile(r)
    BY <1>1, <2>3 DEF ReplacedMeanwhile, Resend, RequestType
  <2>4. CASE Refresh(r)
    BY <1>1, <1>2, <2>4 DEF Refresh, Goes, invalidate_and_refresh, launch, Grounded, RequestType
  <2>5. CASE Reload(r)
    BY <1>1, <2>5 DEF Reload, RequestType
  <2>6. QED
    BY <1>7, <2>1, <2>2, <2>3, <2>4, <2>5 DEF RequestStep
<1>8. ASSUME NEW force \in BOOLEAN, RefreshElsewhere(force) PROVE Published'
  BY <1>1, <1>2, <1>8 DEF RefreshElsewhere, launch, Grounded
<1>9. CASE UNCHANGED vars
  BY <1>9 DEF vars
<1>10. QED
  BY <1>3, <1>4, <1>6, <1>7, <1>8, <1>9 DEF Next

(* Every step of a request keeps it.                                         *)
LEMMA NewerRequest ==
    ASSUME NewerInv, others = 0, NEW r \in Requests, RequestStep(r) \/ RequestFails(r)
    PROVE  Newer'
<1>1. /\ request \in [Requests -> RequestType] /\ page \in Nat /\ seed \in Nat
      /\ stored.key \in Nat /\ \A q \in Requests : request[q].key \in Nat
  BY DEF NewerInv, RefreshInv, KeysInv, TypeOK, RequestType, Keys
<1> USE DEF NewerInv, Published, Newer, Refused
<1>2. CASE Send(r)
  BY <1>1, <1>2 DEF Send, RequestType
<1>3. CASE Answer(r)
  BY <1>1, <1>3 DEF Answer, RequestType
<1>4. CASE ReplacedMeanwhile(r)
  BY <1>1, <1>4 DEF ReplacedMeanwhile, Resend, RequestType
<1>5. CASE Refresh(r)
  <2>1. flight.pc = "none"
    BY <1>5 DEF Refresh, LockFree
  <2>2. flight' = [pc |-> "invalidate", key |-> 0, again |-> FALSE]
    BY <1>5, <2>1 DEF Refresh, invalidate_and_refresh, launch, Grounded
  <2>3. QED
    BY <1>1, <1>5, <2>2 DEF Refresh, Goes, RequestType
<1>6. CASE Reload(r)
  <2>1. flight.pc = "none"
    BY <1>6 DEF Reload, RefreshInv, RefreshLock, Holds
  <2>2. QED
    BY <1>1, <1>6, <2>1 DEF Reload, RequestType
<1>7. CASE AnswerAgain(r) \/ RequestFails(r)
  BY <1>1, <1>7 DEF AnswerAgain, RequestFails, Goes, RequestType
<1>8. QED
  BY <1>2, <1>3, <1>4, <1>5, <1>6, <1>7 DEF RequestStep

(* So does every step of a discovery.                                        *)
LEMMA NewerDiscovery ==
    ASSUME NewerInv, others = 0, DiscoveryStep \/ DiscoveryFails
    PROVE  Newer'
<1>1. /\ request \in [Requests -> RequestType] /\ page \in Nat /\ seed \in Nat
      /\ stored \in [key : Keys, fresh : BOOLEAN] /\ stored.key \in Nat
      /\ \A q \in Requests : request[q].key \in Nat
  BY DEF NewerInv, RefreshInv, KeysInv, TypeOK, RequestType, Keys
<1>2. flight \in [pc : {"none", "invalidate", "check", "page", "probe", "persist"},
                  key : Keys \union {0}, again : BOOLEAN]
  BY DEF NewerInv, RefreshInv, KeysInv, TypeOK
<1> USE DEF NewerInv, Published, Newer, Refused
<1>3. \A p, q \in Requests : request[p].pc = "joined" => request[q].pc # "reload"
  BY DEF RefreshInv, RefreshLock, Holds
<1>4. CASE Invalidate
  BY <1>1, <1>2, <1>3, <1>4 DEF Invalidate, mark_stale
<1>5. ~CheckCached
  BY DEF CheckCached
<1>6. CASE ReadPage
  BY <1>1, <1>2, <1>6 DEF ReadPage
<1>7. ASSUME flight' = Grounded, UNCHANGED <<page, seed>>, stored'.key = stored.key, Lands("idle")
      PROVE  Newer'
  BY <1>1, <1>7 DEF Lands, Grounded, RequestType
<1>8. CASE Probe
  <2>1. CASE flight.key = page
    <3>1. flight'.pc = "persist" /\ flight'.key = page
      BY <1>2, <1>8, <2>1 DEF Probe
    <3>2. UNCHANGED <<page, seed, stored, request>>
      BY <1>8, <2>1 DEF Probe
    <3>3. QED
      BY <1>1, <1>8, <3>1, <3>2 DEF Probe
  <2>2. CASE flight.key # page /\ ~flight.again
    <3>1. flight'.pc = "page" /\ flight'.key = flight.key
      BY <1>2, <1>8, <2>2 DEF Probe
    <3>2. UNCHANGED <<page, seed, request>> /\ stored'.key = stored.key
      BY <1>1, <1>8, <2>2 DEF Probe, mark_stale
    <3>3. QED
      BY <1>1, <1>8, <3>1, <3>2 DEF Probe
  <2>3. CASE flight.key # page /\ flight.again
    BY <1>1, <1>7, <1>8, <2>3 DEF Probe, mark_stale, Lands
  <2>4. QED
    BY <2>1, <2>2, <2>3
<1>9. CASE Persist
  BY <1>1, <1>2, <1>3, <1>9 DEF Persist, persist, Lands, Grounded, RequestType
<1>10. CASE DiscoveryFails
  BY <1>7, <1>10 DEF DiscoveryFails, Lands
<1>11. QED
  BY <1>4, <1>5, <1>6, <1>8, <1>9, <1>10 DEF DiscoveryStep

LEMMA NewerStep == NewerInv /\ [Next]_vars => NewerInv'
<1> SUFFICES ASSUME NewerInv, [Next]_vars PROVE NewerInv'
  OBVIOUS
<1>1. RefreshInv' /\ Published'
  BY RefreshStep, PublishedStep DEF NewerInv, RefreshInv
<1>2. ASSUME others' = 0 PROVE Newer'
  <2>1. /\ page \in Nat /\ others \in Nat /\ \A q \in Requests : request[q].key \in Nat
    BY CredentialsAssumption DEF NewerInv, RefreshInv, KeysInv, TypeOK, Keys
  <2>2. \A force \in BOOLEAN : ~RefreshElsewhere(force)
    BY <1>2, <2>1 DEF RefreshElsewhere
  <2>3. others = 0
    BY <1>2, <2>2 DEF Next, vars, Rotate, Expire, DiscoveryStep, DiscoveryFails, Invalidate,
       CheckCached, ReadPage, Probe, Persist, RequestStep, RequestFails, Send, Answer,
       ReplacedMeanwhile, Refresh, Reload, AnswerAgain
  <2>4. Newer
    BY <2>3 DEF NewerInv
  <2>5. CASE Rotate
    BY <2>1, <2>4, <2>5 DEF Rotate, Newer, Refused
  <2>6. CASE Expire
    BY <2>4, <2>6 DEF Expire, Newer, Refused
  <2>7. CASE UNCHANGED vars
    BY <2>4, <2>7 DEF vars, Newer, Refused
  <2>8. QED
    BY <2>2, <2>3, <2>5, <2>6, <2>7, NewerRequest, NewerDiscovery DEF Next
<1>3. QED
  BY <1>1, <1>2 DEF NewerInv

(* While only the client starts discoveries, the row a refresh hands back    *)
(* never holds the key that was refused, for any number of requests, keys,   *)
(* failures and rotations.                                                   *)
THEOREM RefusedKeyReplaced == Spec => []RefusedKeyIsReplaced
<1>1. Init => NewerInv
  BY CredentialsAssumption DEF Init, NewerInv, Published, Newer, Refused, RefreshInv, KeysInv,
     TypeOK, FlightHasKey, RefreshLock, OneRefreshPerSeed, Holds, Keys, Steps, Grounded
<1>2. NewerInv => RefusedKeyIsReplaced
  <2>1. ASSUME NewerInv PROVE \A r \in Requests : request[r].key \in Nat /\ stored.key \in Nat
    BY <2>1 DEF NewerInv, RefreshInv, KeysInv, TypeOK, Keys
  <2>2. QED
    BY <2>1 DEF NewerInv, Newer, RefusedKeyIsReplaced
<1>3. QED
  BY <1>1, <1>2, NewerStep, PTL DEF Spec

------------------------------------------------------------------------------
(* The fields of the task and of the attempt; the index stands still.        *)

RunFields == {"pc", "prior", "expected", "exact", "seen", "leaf", "truncated", "split", "bound",
              "tie", "more", "place", "resumed", "completed", "queue", "pages"}

FieldsInv ==
    /\ DOMAIN run = RunFields
    /\ DOMAIN task = {"status", "hits", "cursor", "complete"}
    /\ index \in Indexes /\ listed \subseteq Hits

LEMMA InitFields == PagesInit => FieldsInv
BY DEF PagesInit, FieldsInv, RunFields, NewTask, NoAttempt

LEMMA NextFields == FieldsInv /\ [PagesNext]_pagesVars => FieldsInv'
<1> SUFFICES ASSUME FieldsInv, [PagesNext]_pagesVars PROVE FieldsInv'
    OBVIOUS
<1>1. index' = index /\ listed' = listed
    BY DEF PagesNext, pagesVars, bounds, Attempt, BeginAttempt, BrowsePage, KeysetPage, EmptyBucket, OnePage,
           Bounded, Split, Truncate, PageArrives, SplitEnds, Finish, Interrupt
<1>2. DOMAIN task' = DOMAIN task
    BY DEF PagesNext, pagesVars, bounds, Attempt, BeginAttempt, BrowsePage, KeysetPage, EmptyBucket, OnePage,
           Bounded, Split, Truncate, PageArrives, SplitEnds, Finish, Interrupt, Store, FieldsInv
<1>3. DOMAIN run' = RunFields
    <2>1. DOMAIN NoAttempt = RunFields
        BY DEF NoAttempt, RunFields
    <2>2. CASE Attempt
        <3>1. CASE BeginAttempt
            BY <2>1, <3>1 DEF BeginAttempt
        <3>2. CASE BrowsePage
            BY <3>2 DEF BrowsePage, FieldsInv
        <3>3. CASE KeysetPage
            BY <3>3 DEF KeysetPage, FieldsInv
        <3>4. CASE EmptyBucket \/ OnePage \/ Bounded \/ Split \/ Truncate
            BY <3>4 DEF EmptyBucket, OnePage, Bounded, Split, Truncate, DropBucket, FieldsInv
        <3>5. CASE PageArrives \/ SplitEnds
            BY <3>5 DEF PageArrives, SplitEnds, FieldsInv
        <3>6. CASE Finish
            BY <2>1, <3>6 DEF Finish
        <3> QED
            BY <2>2, <3>1, <3>2, <3>3, <3>4, <3>5, <3>6 DEF Attempt
    <2>3. CASE Interrupt
        BY <2>1, <2>3 DEF Interrupt
    <2>4. CASE UNCHANGED pagesVars
        BY <2>4 DEF pagesVars, FieldsInv
    <2> QED
        BY <2>2, <2>3, <2>4 DEF PagesNext
<1> QED
    BY <1>1, <1>2, <1>3 DEF FieldsInv

------------------------------------------------------------------------------
(* The pages still to come are finitely many, so one of them comes first.    *)

LEMMA SmallestOfFinite ==
    ASSUME NEW S \in SUBSET Int, IsFiniteSet(S), S # {}
    PROVE  \E m \in S : \A i \in S : m <= i
<1> DEFINE Below(i) == {j \in S : j < i}
           Belows == {Below(i) : i \in S}
           R == StrictSubsetOrdering(S)
           F == FiniteSubsetsOf(S)
<1>1. Belows \subseteq F /\ Belows # {}
    <2>1. F = SUBSET S
        BY FS_FiniteSubsetsOfFinite
    <2> HIDE DEF F
    <2> QED
        BY <2>1
<1>2. IsWellFoundedOn(R, F)
    BY FS_StrictSubsetOrderingWellFounded
<1>3. \A U, V \in SUBSET S : U \subseteq V /\ U # V => <<U, V>> \in R
    BY DEF StrictSubsetOrdering
<1>4. \E U \in Belows : \A V \in Belows : ~(<<V, U>> \in R)
    <2> HIDE DEF R, F, Belows
    <2> QED
        BY <1>1, <1>2, WFMin
<1>5. PICK m \in S : \A V \in Belows : ~(<<V, Below(m)>> \in R)
    <2> HIDE DEF R
    <2> QED
        BY <1>4
<1> HIDE DEF R, F
<1>6. ASSUME NEW i \in S, ~(m <= i) PROVE FALSE
    <2>1. i < m /\ i \in Below(m) /\ i \notin Below(i)
        BY <1>6
    <2>2. Below(i) \subseteq Below(m)
        <3>1. i \in Int /\ m \in Int /\ \A j \in S : j \in Int
            OBVIOUS
        <3>2. \A j \in S : j < i => j < m
            BY <2>1, <3>1
        <3> QED
            BY <3>2
    <2>3. Below(i) \in SUBSET S /\ Below(m) \in SUBSET S
        OBVIOUS
    <2>4. Below(i) \in Belows
        OBVIOUS
    <2>5. Below(i) # Below(m)
        BY <2>1
    <2> HIDE DEF Below, Belows
    <2> QED
        BY <1>3, <1>5, <2>2, <2>3, <2>4, <2>5
<1> QED
    BY <1>6

Numbered(pages) == \E last \in Nat : \A s \in pages : s[3] \in 0..last

LEMMA FirstIsThere ==
    ASSUME NEW pages, Numbered(pages), pages # {}
    PROVE  first(pages) \in pages
<1> DEFINE S == {s[3] : s \in pages}
<1>1. PICK last \in Nat : \A s \in pages : s[3] \in 0..last
    BY DEF Numbered
<1>2. S \subseteq 0..last /\ S # {}
    BY <1>1
<1>3. IsFiniteSet(0..last)
    BY <1>1, FS_Interval
<1>4. IsFiniteSet(S)
    <2> HIDE DEF S
    <2> QED
        BY <1>2, <1>3, FS_Subset
<1>5. \E m \in S : \A i \in S : m <= i
    <2>1. S \in SUBSET Int
        <3> HIDE DEF S
        <3> QED
            BY <1>1, <1>2
    <2> HIDE DEF S
    <2> QED
        BY <1>2, <1>4, <2>1, SmallestOfFinite
<1> QED
    BY <1>5 DEF first

(* How many hits a search finds, and how many pages they take.               *)

LEMMA IndexType ==
    ASSUME FieldsInv
    PROVE  /\ Limit \in Nat \ {0} /\ PerPage \in Nat \ {0} /\ index.exact_to \in Nat \ {0}
           /\ \A h \in listed : value[h] \in [id : 0..Width, key : 0..Width]
           /\ IsFiniteSet(listed) /\ Width \in Nat \ {0}
<1>1. index \in IndexTypes /\ listed \subseteq Hits /\ IsFiniteSet(Hits)
    BY PaginationAssumption DEF FieldsInv
<1>2. IsFiniteSet(listed)
    BY <1>1, FS_Subset
<1> QED
    BY <1>1, <1>2, PaginationAssumption DEF IndexTypes, Limit, PerPage, value

LEMMA MatchingType ==
    ASSUME FieldsInv, NEW tie, NEW bucket
    PROVE  /\ Matching(tie, bucket) \subseteq listed
           /\ IsFiniteSet(Matching(tie, bucket)) /\ Cardinality(Matching(tie, bucket)) \in Nat
<1>1. Matching(tie, bucket) \subseteq listed
    BY DEF Matching
<1> QED
    BY <1>1, IndexType, FS_Subset, FS_CardinalityType

LEMMA CountType ==
    ASSUME FieldsInv, NEW hits, Cardinality(hits) \in Nat, NEW count \in Counts(hits)
    PROVE  count.nb \in Nat
BY IndexType DEF Counts

LEMMA PagesType ==
    ASSUME FieldsInv, NEW nb \in Nat
    PROVE  /\ Min({nb, Limit}) \in Nat /\ PagesFor(Min({nb, Limit})) \in Nat
           /\ Min({nb, Limit}) = IF nb <= Limit THEN nb ELSE Limit
           /\ Numbered(Pages(nb))
<1>1. Limit \in Nat /\ PerPage \in Nat \ {0}
    BY IndexType
<1>2. Min({nb, Limit}) = IF nb <= Limit THEN nb ELSE Limit
    BY <1>1 DEF Min
<1>3. PICK m \in Nat : m = Min({nb, Limit})
    BY <1>1, <1>2
<1>4. PagesFor(m) \in Nat
    BY <1>1 DEF PagesFor
<1>5. \A s \in Pages(nb) : s[3] \in 0..PagesFor(m)
    BY <1>3, <1>4 DEF Pages, Signature
<1> QED
    BY <1>2, <1>3, <1>4, <1>5 DEF Numbered

------------------------------------------------------------------------------
(* What a cursor stands for is stored: what an attempt saw is stored, every  *)
(* page the cursor, the attempt or the attempt it resumes counts as read is  *)
(* stored, and the pages still to come belong to the split at hand.          *)

PageOf(s) == Page(Matching(s[1], s[2]), s[3])

StoredInv ==
    /\ run.seen \subseteq saved
    /\ \A s \in task.cursor.pages \union run.completed \union run.resumed : PageOf(s) \subseteq saved
    /\ \A s \in run.pages : s[1] = run.tie
    /\ Numbered(run.pages)
    /\ run.pages # {} => run.pc = "split"

LEMMA PageOfStands ==
    ASSUME index' = index, listed' = listed, NEW s
    PROVE  PageOf(s)' = PageOf(s)
BY DEF PageOf, Page, Matching, place, value, AttrsOf, Limit, PerPage

(* A batch loses nothing that is stored, adds what it found, and leaves the  *)
(* task its cursor or gives it the batch's.                                  *)
LEMMA BatchIsStored ==
    ASSUME FieldsInv, StoredInv, NEW found, NEW cursor, Store(found, cursor)
    PROVE  /\ saved \subseteq saved' /\ found \subseteq saved'
           /\ task'.status = task.status
           /\ task'.cursor \in {task.cursor, cursor}
BY DEF Store, FieldsInv, StoredInv

LEMMA NoneNumbered == Numbered({})
BY DEF Numbered

LEMMA InitStored == PagesInit => StoredInv
<1> SUFFICES ASSUME PagesInit PROVE StoredInv
    OBVIOUS
<1>1. /\ run.pages = {} /\ run.seen = {} /\ run.completed = {} /\ run.resumed = {}
      /\ task.cursor.pages = {}
    BY DEF PagesInit, NoAttempt, NewTask, NoCursor
<1> QED
    BY <1>1, NoneNumbered DEF StoredInv

LEMMA BegunRun ==
    ASSUME FieldsInv, BeginAttempt
    PROVE  /\ saved' = saved /\ task'.cursor = task.cursor /\ task'.status = "running"
           /\ run'.seen = {} /\ run'.pages = {} /\ ~run'.truncated /\ ~run'.more
           /\ run'.tie = Everything
           /\ run'.resumed = task.cursor.pages /\ run'.completed = task.cursor.pages
           /\ index.strategy = "range_split" =>
                 /\ run'.queue = <<<<WholeRange>>>>
                 /\ \E count \in Counts(listed) :
                       run'.pc = IF count.nb = 0 THEN "finish" ELSE "split"
<1>1. /\ DOMAIN NoAttempt = RunFields /\ NoAttempt.seen = {} /\ NoAttempt.pages = {} /\ ~NoAttempt.truncated
      /\ ~NoAttempt.more /\ NoAttempt.tie = Everything
    BY DEF NoAttempt, RunFields
<1>2. saved' = saved /\ task'.cursor = task.cursor /\ task'.status = "running"
    BY DEF BeginAttempt, FieldsInv
<1> DEFINE pages == task.cursor.pages
           entry(count) == IF count.nb = 0 THEN "finish"
                           ELSE IF index.strategy = "range_split" THEN "split" ELSE index.strategy
           queue == IF index.strategy = "range_split" THEN <<<<WholeRange>>>> ELSE <<>>
<1>3. PICK count \in Counts(listed) :
        run' = [NoAttempt EXCEPT
            !.pc = entry(count), !.prior = task.hits, !.expected = count.nb, !.exact = count.exact,
            !.bound = task.cursor.key, !.place = task.cursor.place,
            !.resumed = pages, !.completed = pages, !.queue = queue]
    BY DEF BeginAttempt, range_completed
<1>4. run'.queue = queue /\ run'.pc = entry(count)
    <2> HIDE DEF entry, queue, pages
    <2> QED
        BY <1>1, <1>3 DEF RunFields
<1>5. run'.resumed = pages /\ run'.completed = pages
    <2> HIDE DEF entry, queue, pages
    <2> QED
        BY <1>1, <1>3 DEF RunFields
<1>6. /\ run'.seen = {} /\ run'.pages = {} /\ run'.truncated = NoAttempt.truncated
      /\ run'.more = NoAttempt.more /\ run'.tie = Everything
    <2> HIDE DEF entry, queue, pages
    <2> QED
        BY <1>1, <1>3 DEF RunFields
<1> QED
    BY <1>1, <1>2, <1>3, <1>4, <1>5, <1>6

LEMMA NextStored == FieldsInv /\ FieldsInv' /\ StoredInv /\ [PagesNext]_pagesVars => StoredInv'
<1> SUFFICES ASSUME FieldsInv, FieldsInv', StoredInv, [PagesNext]_pagesVars PROVE StoredInv'
    OBVIOUS
<1>1. index' = index /\ listed' = listed
    BY DEF PagesNext, pagesVars, bounds, Attempt, BeginAttempt, BrowsePage, KeysetPage, EmptyBucket, OnePage,
           Bounded, Split, Truncate, PageArrives, SplitEnds, Finish, Interrupt
<1>2. \A s : PageOf(s)' = PageOf(s)
    BY <1>1, PageOfStands
<1> DEFINE Claims == task.cursor.pages \union run.completed \union run.resumed
<1>3. ASSUME saved \subseteq saved', run'.seen \subseteq saved',
             \A s \in Claims' \ Claims : PageOf(s) \subseteq saved',
             \A s \in run'.pages : s[1] = run'.tie, Numbered(run'.pages), run'.pages # {} => run'.pc = "split"
      PROVE  StoredInv'
    <2>1. \A s \in Claims' : PageOf(s) \subseteq saved'
        BY <1>3 DEF StoredInv
    <2> QED
        BY <1>2, <1>3, <2>1 DEF StoredInv
<1>4. ASSUME run' = NoAttempt, saved' = saved, task'.cursor = task.cursor
      PROVE  StoredInv'
    <2>1. /\ run'.pages = {} /\ run'.seen = {} /\ run'.completed = {} /\ run'.resumed = {}
        BY <1>4 DEF NoAttempt
    <2> QED
        BY <1>2, <1>4, <2>1, NoneNumbered DEF StoredInv
<1>5. CASE BeginAttempt
    <2>1. /\ saved' = saved /\ task'.cursor = task.cursor /\ run'.seen = {} /\ run'.pages = {}
          /\ run'.resumed = task.cursor.pages /\ run'.completed = task.cursor.pages
        BY <1>5, BegunRun
    <2> QED
        BY <1>2, <2>1, NoneNumbered DEF StoredInv
<1>6. CASE BrowsePage
    <2>1. PICK found, cursor :
            /\ Store(found, cursor) /\ cursor.pages \subseteq task.cursor.pages
            /\ run'.seen = run.seen \union found /\ run'.pages = run.pages
            /\ run'.completed = run.completed /\ run'.resumed = run.resumed
        <3>1. /\ [NoCursor EXCEPT !.place = passed(run.place)].pages = {}
            BY DEF NoCursor
        <3> QED
            BY <1>6, <3>1 DEF BrowsePage, FieldsInv, RunFields
    <2>2. run.pages = {}
        BY <1>6 DEF BrowsePage, StoredInv
    <2>3. (\A s \in run'.pages : s[1] = run'.tie) /\ Numbered(run'.pages)
        BY <2>1, <2>2, NoneNumbered
    <2>4. saved \subseteq saved' /\ found \subseteq saved' /\ task'.cursor \in {task.cursor, cursor}
        BY <2>1, BatchIsStored
    <2> QED
        BY <1>3, <2>1, <2>2, <2>3, <2>4 DEF StoredInv
<1>7. CASE KeysetPage
    <2>0. run.pages = {}
        BY <1>7 DEF KeysetPage, StoredInv
    <2>1. CASE run'.pc = "finish"
        <3>1. saved' = saved /\ task' = task /\ run' = [run EXCEPT !.pc = "finish"]
            BY <1>7, <2>1 DEF KeysetPage, FieldsInv, RunFields
        <3>2. /\ run'.seen = run.seen /\ run'.pages = {}
              /\ run'.completed = run.completed /\ run'.resumed = run.resumed
            BY <2>0, <3>1 DEF FieldsInv, RunFields
        <3> QED
            BY <1>3, <3>1, <3>2, NoneNumbered DEF StoredInv
    <2>2. CASE run'.pc # "finish"
        <3>1. PICK found, boundary :
                /\ Store(found, [NoCursor EXCEPT !.key = below(boundary)])
                /\ run'.seen = run.seen \union found /\ run'.pages = run.pages
                /\ run'.completed = run.resumed /\ run'.resumed = run.resumed
            <4>1. PICK found, boundary :
                    /\ Store(found, [NoCursor EXCEPT !.key = below(boundary)])
                    /\ \E more : run' = [run EXCEPT
                          !.pc = "split", !.seen = @ \union found,
                          !.bound = below(boundary), !.tie = boundary,
                          !.more = more, !.completed = run.resumed, !.queue = <<<<WholeRange>>>>]
                BY <1>7, <2>2 DEF KeysetPage, FieldsInv, RunFields
            <4> QED
                BY <4>1 DEF FieldsInv, RunFields
        <3> DEFINE cursor == [NoCursor EXCEPT !.key = below(boundary)]
        <3>3. cursor.pages = {}
            BY DEF NoCursor
        <3> HIDE DEF cursor
        <3>2. saved \subseteq saved' /\ found \subseteq saved' /\ task'.cursor \in {task.cursor, cursor}
            BY <3>1, BatchIsStored DEF cursor
        <3> QED
            BY <1>3, <2>0, <3>1, <3>2, <3>3, NoneNumbered DEF StoredInv
    <2> QED
        BY <2>1, <2>2
<1>8. CASE EmptyBucket \/ Split \/ SplitEnds
    <2>1. /\ saved' = saved /\ task' = task /\ run'.seen = run.seen
          /\ run'.completed = run.completed /\ run'.resumed = run.resumed
          /\ run.pages = {} /\ run'.pages = {}
        <3>1. CASE EmptyBucket
            BY <3>1 DEF EmptyBucket, Splitting, DropBucket, FieldsInv, RunFields
        <3>2. CASE Split
            BY <3>2 DEF Split, Splitting, FieldsInv, RunFields
        <3>3. CASE SplitEnds
            BY <3>3 DEF SplitEnds, FieldsInv, RunFields
        <3> QED
            BY <1>8, <3>1, <3>2, <3>3
    <2> QED
        BY <1>3, <2>1, NoneNumbered DEF StoredInv
<1>9. CASE Bounded \/ Truncate
    <2>1. /\ saved' = saved /\ task' = task /\ run'.seen = run.seen
          /\ run'.completed = run.completed /\ run'.resumed = run.resumed
          /\ run'.pc = "split" /\ run'.tie = run.tie
        BY <1>9 DEF Bounded, Truncate, Splitting, FieldsInv, RunFields
    <2>3. \E nb \in Nat : run'.pages = Pages(nb)
        <3>1. CASE Bounded
            <4>1. PICK count \in Counts(Within(head)) : run'.pages = Pages(count.nb)
                BY <3>1 DEF Bounded, FieldsInv, RunFields
            <4>2. count.nb \in Nat
                BY MatchingType, CountType DEF Within
            <4> QED
                BY <4>1, <4>2
        <3>2. CASE Truncate
            <4>1. run'.pages = Pages(Limit)
                BY <3>2 DEF Truncate, FieldsInv, RunFields
            <4> QED
                BY <4>1, IndexType
        <3> QED
            BY <1>9, <3>1, <3>2
    <2>2. (\A s \in run'.pages : s[1] = run'.tie) /\ Numbered(run'.pages)
        BY <2>1, <2>3, PagesType DEF Pages, Signature
    <2> QED
        BY <1>3, <2>1, <2>2 DEF StoredInv
<1>10. CASE OnePage
    <2> DEFINE found == Page(Within(head), 0)
               more == run.completed \union {Signature(head, 0)}
    <2>1. /\ Store(found, RangeCursor(more)) /\ run.pages = {}
          /\ run'.seen = run.seen \union found /\ run'.completed = more
          /\ run'.resumed = run.resumed /\ run'.pages = run.pages
        BY <1>10 DEF OnePage, Splitting, FieldsInv, RunFields
    <2>2. PageOf(Signature(head, 0)) = found
        BY DEF PageOf, Signature, Within
    <2>3. RangeCursor(more).pages = more
        BY DEF RangeCursor, NoCursor
    <2> HIDE DEF found
    <2>4. saved \subseteq saved' /\ found \subseteq saved' /\ task'.cursor \in {task.cursor, RangeCursor(more)}
        BY <2>1, BatchIsStored
    <2> QED
        BY <1>3, <2>1, <2>2, <2>3, <2>4 DEF StoredInv
<1>11. CASE PageArrives
    <2> DEFINE s == first(run.pages)
               found == Page(Within(s[2]), s[3])
               more == run.completed \union {s}
    <2>1. /\ Store(found, RangeCursor(more)) /\ run.pages # {}
          /\ run'.seen = run.seen \union found /\ run'.completed = more
          /\ run'.resumed = run.resumed /\ run'.pages = run.pages \ {s}
          /\ run'.tie = run.tie /\ run'.pc = "split"
        BY <1>11 DEF PageArrives, completes, FieldsInv, RunFields
    <2>2. RangeCursor(more).pages = more
        BY DEF RangeCursor, NoCursor
    <2>3. s[1] = run.tie /\ s \in run.pages
        BY <2>1, FirstIsThere DEF StoredInv
    <2>4. PageOf(s) = found
        BY <2>3 DEF PageOf, Within
    <2>6. Numbered(run'.pages)
        BY <2>1 DEF StoredInv, Numbered
    <2> HIDE DEF found, s
    <2>5. saved \subseteq saved' /\ found \subseteq saved' /\ task'.cursor \in {task.cursor, RangeCursor(more)}
        BY <2>1, BatchIsStored
    <2> QED
        BY <1>3, <2>1, <2>2, <2>4, <2>5, <2>6 DEF StoredInv
<1>12. CASE Finish
    BY <1>4, <1>12 DEF Finish, FieldsInv
<1>13. CASE Interrupt
    BY <1>4, <1>13 DEF Interrupt, FieldsInv
<1>14. CASE UNCHANGED pagesVars
    BY <1>2, <1>14 DEF pagesVars, StoredInv
<1> QED
    BY <1>5, <1>6, <1>7, <1>8, <1>9, <1>10, <1>11, <1>12, <1>13, <1>14 DEF PagesNext, Attempt

(* The next attempt passes over no page that is not stored.                  *)
THEOREM CursorStored == PagesSpec => []CursorIsStored
<1>1. PagesInit => FieldsInv /\ StoredInv
    BY InitFields, InitStored
<1>2. FieldsInv /\ StoredInv /\ [PagesNext]_pagesVars => (FieldsInv /\ StoredInv)'
    BY NextFields, NextStored
<1>3. StoredInv => CursorIsStored
    BY DEF StoredInv, CursorIsStored, PageOf
<1> QED
    BY <1>1, <1>2, <1>3, PTL DEF PagesSpec

------------------------------------------------------------------------------
(* A split loses nothing.  While nbHits is exact, every hit that has the     *)
(* attributes is stored, or in a bucket that waits, or on a page that is     *)
(* still to come; until a bucket is truncated.                               *)

Exact == index.strategy = "range_split" /\ index.exact_to >= Cardinality(Hits)
Intervals == [lo : Nat, hi : Nat]
Bucket == {b \in Seq(Intervals) : Len(b) \in 1..2}

Elems(q) == {q[i] : i \in 1..Len(q)}
Waits(h) == \E b \in Elems(run.queue) : h \in Matching(Everything, b)
Comes(h) == \E s \in run.pages : h \in PageOf(s)

SplitInv == Exact =>
    /\ run.pc \in {"idle", "split", "finish"} /\ run.tie = Everything /\ ~run.more
    /\ run.queue \in Seq(Bucket)
    /\ run.pc = "split" /\ ~run.truncated =>
            \A h \in Splittable : h \in saved \/ Waits(h) \/ Comes(h)
    /\ run.pc = "finish" /\ ~run.truncated => Splittable \subseteq saved
    /\ task.status \in {"done", "skipped"} => Splittable \subseteq saved

(* An exact count is the count.                                              *)
LEMMA ExactCount ==
    ASSUME FieldsInv, Exact, NEW S \in SUBSET listed
    PROVE  Counts(S) = {[nb |-> Cardinality(S), exact |-> TRUE]} /\ Cardinality(S) \in Nat
<1>1. S \subseteq Hits /\ IsFiniteSet(Hits)
    BY PaginationAssumption DEF FieldsInv
<1>2. Cardinality(S) \in Nat /\ Cardinality(S) <= Cardinality(Hits) /\ Cardinality(Hits) \in Nat
    BY <1>1, FS_Subset, FS_CardinalityType
<1>3. index.exact_to \in Nat /\ index.exact_to >= Cardinality(Hits)
    BY IndexType DEF Exact
<1> QED
    BY <1>2, <1>3 DEF Counts

(* A hit comes before as many others as its set has at most.                 *)
LEMMA PlaceBelow ==
    ASSUME NEW S, IsFiniteSet(S), NEW h \in S, h \in Nat
    PROVE  place(h, S) \in Nat /\ place(h, S) < Cardinality(S)
<1> DEFINE before == {g \in S : g < h}
<1>1. before \subseteq S \ {h}
    OBVIOUS
<1>2. IsFiniteSet(S \ {h}) /\ Cardinality(S \ {h}) = Cardinality(S) - 1 /\ Cardinality(S) \in Nat
    BY FS_RemoveElement, FS_CardinalityType
<1>3. IsFiniteSet(before) /\ Cardinality(before) \in Nat /\ Cardinality(before) <= Cardinality(S \ {h})
    <2> HIDE DEF before
    <2> QED
        BY <1>1, <1>2, FS_Subset, FS_CardinalityType
<1>4. place(h, S) = Cardinality(before)
    BY DEF place
<1> HIDE DEF before
<1> QED
    BY <1>2, <1>3, <1>4

(* The pages asked for hold every hit of a set that can be shown.            *)
LEMMA PagesCover ==
    ASSUME FieldsInv, NEW S \in SUBSET listed, Cardinality(S) <= Limit, NEW h \in S
    PROVE  \E n \in 1..PagesFor(Cardinality(S)) : h \in Page(S, n - 1)
<1>1. Limit \in Nat /\ PerPage \in Nat \ {0} /\ IsFiniteSet(S) /\ h \in Nat
    BY IndexType, FS_Subset, PaginationAssumption DEF FieldsInv
<1>2. PICK at \in Nat : at = place(h, S) /\ at < Cardinality(S)
    BY <1>1, PlaceBelow
<1>3. PICK size \in Nat : size = Cardinality(S)
    BY <1>1, FS_CardinalityType
<1>4. PICK per \in Nat \ {0} : per = PerPage
    BY <1>1
<1>5. at \div per \in Nat /\ at \div per + 1 <= (size + per - 1) \div per
    <2>1. at + per <= size + per - 1
        BY <1>2, <1>3
    <2>2. (at + per) \div per = at \div per + 1
        OBVIOUS
    <2>3. (at + per) \div per <= (size + per - 1) \div per
        BY <2>1
    <2> QED
        BY <2>2, <2>3
<1>6. h \in Page(S, (at \div per + 1) - 1)
    BY <1>1, <1>2, <1>3, <1>4, <1>5 DEF Page
<1>7. at \div per + 1 \in 1..PagesFor(Cardinality(S))
    BY <1>1, <1>3, <1>4, <1>5 DEF PagesFor
<1> QED
    BY <1>6, <1>7

(* The halves of an interval, and the next attribute, hold what the bucket   *)
(* held.                                                                     *)
LEMMA MatchingEverything ==
    ASSUME NEW b \in Bucket, NEW h
    PROVE  h \in Matching(Everything, b) <=>
              /\ h \in listed
              /\ b[1].lo <= value[h].id /\ value[h].id < b[1].hi
              /\ Len(b) = 2 => b[2].lo <= value[h].key /\ value[h].key < b[2].hi
<1>1. DOMAIN b = 1..Len(b) /\ Len(b) \in 1..2
    BY DEF Bucket
<1>2. AttrsOf(Everything) = <<"id", "key">>
    BY DEF AttrsOf
<1>3. CASE Len(b) = 1
    <2>1. DOMAIN b = {1}
        BY <1>1, <1>3
    <2> QED
        BY <1>2, <1>3, <2>1 DEF Matching
<1>4. CASE Len(b) = 2
    <2>1. DOMAIN b = {1, 2}
        BY <1>1, <1>4
    <2> QED
        BY <1>2, <1>4, <2>1 DEF Matching
<1> QED
    BY <1>1, <1>3, <1>4

LEMMA HalvesCover ==
    ASSUME FieldsInv, NEW b \in Bucket, NEW r, r = b[Len(b)]
    PROVE  LET halves == bisect_interval(r)
               With(half) == [b EXCEPT ![Len(b)] = half]
           IN  /\ With(halves[1]) \in Bucket /\ With(halves[2]) \in Bucket
               /\ \A h \in Matching(Everything, b) :
                     \/ h \in Matching(Everything, With(halves[1]))
                     \/ h \in Matching(Everything, With(halves[2]))
<1> DEFINE middle == r.lo + (r.hi - r.lo) \div 2
           lower == [r EXCEPT !.hi = middle]
           upper == [r EXCEPT !.lo = middle]
<1>1. b \in Seq(Intervals) /\ Len(b) \in 1..2 /\ r \in Intervals
    BY DEF Bucket
<1>2. bisect_interval(r)[1] = lower /\ bisect_interval(r)[2] = upper
    BY DEF bisect_interval
<1>3. middle \in Nat /\ lower \in Intervals /\ upper \in Intervals
    <2>1. r.lo \in Nat /\ r.hi \in Nat
        BY <1>1 DEF Intervals
    <2>2. middle \in Nat
        <3>1. \A lo, hi \in Nat : lo + (hi - lo) \div 2 \in Nat
            OBVIOUS
        <3> QED
            BY <2>1, <3>1
    <2> HIDE DEF middle
    <2> QED
        BY <1>1, <2>2 DEF Intervals
<1>4. /\ lower.lo = r.lo /\ lower.hi = middle /\ upper.lo = middle /\ upper.hi = r.hi
    BY <1>1 DEF Intervals
<1> HIDE DEF lower, upper, middle
<1>5. ASSUME NEW s \in Intervals
      PROVE  /\ [b EXCEPT ![Len(b)] = s] \in Bucket /\ Len([b EXCEPT ![Len(b)] = s]) = Len(b)
             /\ [b EXCEPT ![Len(b)] = s][Len(b)] = s
             /\ Len(b) = 2 => [b EXCEPT ![Len(b)] = s][1] = b[1]
    <2>1. /\ [b EXCEPT ![Len(b)] = s] \in Seq(Intervals) /\ Len([b EXCEPT ![Len(b)] = s]) = Len(b)
          /\ \A j \in 1..Len(b) : [b EXCEPT ![Len(b)] = s][j] = IF j = Len(b) THEN s ELSE b[j]
        BY <1>1, ExceptSeq
    <2> QED
        BY <1>1, <2>1 DEF Bucket
<1>6. PICK first_half, second_half :
        /\ first_half = [b EXCEPT ![Len(b)] = lower] /\ second_half = [b EXCEPT ![Len(b)] = upper]
    OBVIOUS
<1>7. first_half \in Bucket /\ second_half \in Bucket
    BY <1>3, <1>5, <1>6
<1>8. ASSUME NEW h \in Matching(Everything, b)
      PROVE  h \in Matching(Everything, first_half) \/ h \in Matching(Everything, second_half)
    <2>1. value[h].id \in Nat /\ value[h].key \in Nat
        BY <1>8, MatchingEverything, IndexType
    <2>2. CASE Len(b) = 1
        <3>1. /\ Len(first_half) = 1 /\ first_half[1] = lower /\ Len(second_half) = 1 /\ second_half[1] = upper
            BY <1>3, <1>5, <1>6, <2>2
        <3> QED
            BY <1>3, <1>4, <1>7, <1>8, <2>1, <2>2, <3>1, MatchingEverything
    <2>3. CASE Len(b) = 2
        <3>1. /\ Len(first_half) = 2 /\ first_half[1] = b[1] /\ first_half[2] = lower
              /\ Len(second_half) = 2 /\ second_half[1] = b[1] /\ second_half[2] = upper
            BY <1>3, <1>5, <1>6, <2>3
        <3> QED
            BY <1>3, <1>4, <1>7, <1>8, <2>1, <2>3, <3>1, MatchingEverything
    <2> QED
        BY <1>1, <2>2, <2>3
<1> QED
    BY <1>2, <1>6, <1>7, <1>8

LEMMA NextAttributeCovers ==
    ASSUME FieldsInv, NEW b \in Bucket, Len(b) = 1
    PROVE  /\ Append(b, WholeRange) \in Bucket
           /\ \A h \in Matching(Everything, b) \cap Splittable :
                 h \in Matching(Everything, Append(b, WholeRange))
<1>1. WholeRange \in Intervals
    BY IndexType DEF WholeRange, Intervals
<1>2. b \in Seq(Intervals)
    BY DEF Bucket
<1> DEFINE c == Append(b, WholeRange)
<1>3. c \in Seq(Intervals) /\ Len(c) = 2 /\ c[1] = b[1] /\ c[2] = WholeRange
    <2>1. /\ c \in Seq(Intervals) /\ Len(c) = Len(b) + 1 /\ c[Len(b) + 1] = WholeRange
          /\ \A i \in 1..Len(b) : c[i] = b[i]
        <3>1. ASSUME NEW S, NEW q \in Seq(S), NEW e \in S
              PROVE  /\ Append(q, e) \in Seq(S) /\ Len(Append(q, e)) = Len(q) + 1
                     /\ Append(q, e)[Len(q) + 1] = e /\ \A i \in 1..Len(q) : Append(q, e)[i] = q[i]
            BY <3>1, AppendProperties
        <3>2. \A e \in Intervals : /\ Append(b, e) \in Seq(Intervals) /\ Len(Append(b, e)) = Len(b) + 1
                 /\ Append(b, e)[Len(b) + 1] = e /\ \A i \in 1..Len(b) : Append(b, e)[i] = b[i]
            BY <1>2, <3>1
        <3> QED
            BY <1>1, <3>2, Zenon
    <2> QED
        BY <2>1
<1>4. c \in Bucket
    BY <1>3 DEF Bucket
<1>5. ASSUME NEW h \in Matching(Everything, b), h \in Splittable PROVE h \in Matching(Everything, c)
    <2>1. h \in listed /\ value[h].key \in 0..Width /\ value[h].key # Width
        BY <1>5, IndexType DEF Splittable
    <2>2. WholeRange.lo <= value[h].key /\ value[h].key < WholeRange.hi
        BY <2>1, IndexType DEF WholeRange
    <2> HIDE DEF c
    <2> QED
        BY <1>3, <1>4, <1>5, <2>1, <2>2, MatchingEverything
<1> QED
    BY <1>4, <1>5

(* The queue: its first bucket leaves, others come behind.                   *)
LEMMA TailKeeps ==
    ASSUME NEW q \in Seq(Bucket), q # <<>>
    PROVE  /\ Tail(q) \in Seq(Bucket) /\ Head(q) \in Bucket
           /\ \A b \in Elems(q) : b = Head(q) \/ b \in Elems(Tail(q))
<1>1. /\ Tail(q) \in Seq(Bucket) /\ Head(q) \in Bucket /\ Len(Tail(q)) = Len(q) - 1
      /\ \A i \in 1..Len(Tail(q)) : Tail(q)[i] = q[i + 1]
    BY HeadTailProperties
<1>2. ASSUME NEW i \in 1..Len(q) PROVE q[i] = Head(q) \/ q[i] \in Elems(Tail(q))
    <2>1. CASE i = 1
        BY <2>1
    <2>2. CASE i # 1
        <3>1. i - 1 \in 1..Len(Tail(q)) /\ Tail(q)[i - 1] = q[i]
            BY <1>1, <2>2
        <3> QED
            BY <3>1 DEF Elems
    <2> QED
        BY <2>1, <2>2
<1> QED
    BY <1>1, <1>2 DEF Elems

LEMMA AppendKeeps ==
    ASSUME NEW q \in Seq(Bucket), NEW b \in Bucket
    PROVE  Append(q, b) \in Seq(Bucket) /\ Elems(q) \cup {b} \subseteq Elems(Append(q, b))
<1>1. /\ Append(q, b) \in Seq(Bucket) /\ Len(Append(q, b)) = Len(q) + 1
      /\ Append(q, b)[Len(q) + 1] = b /\ \A i \in 1..Len(q) : Append(q, b)[i] = q[i]
    BY AppendProperties
<1>2. Len(q) \in Nat
    OBVIOUS
<1>3. ASSUME NEW i \in 1..Len(q) PROVE q[i] \in Elems(Append(q, b))
    <2>1. i \in 1..Len(Append(q, b)) /\ Append(q, b)[i] = q[i]
        BY <1>1, <1>2
    <2> QED
        BY <2>1 DEF Elems
<1>4. b \in Elems(Append(q, b))
    <2>1. Len(q) + 1 \in 1..Len(Append(q, b))
        BY <1>1, <1>2
    <2> QED
        BY <1>1, <2>1 DEF Elems
<1> QED
    BY <1>1, <1>3, <1>4 DEF Elems

LEMMA ConcatKeeps ==
    ASSUME NEW q \in Seq(Bucket), NEW a \in Bucket, NEW b \in Bucket
    PROVE  q \o <<a, b>> \in Seq(Bucket) /\ Elems(q) \cup {a, b} \subseteq Elems(q \o <<a, b>>)
<1>1. q \o <<a, b>> = Append(Append(q, a), b)
    OBVIOUS
<1>2. Append(q, a) \in Seq(Bucket) /\ Elems(q) \cup {a} \subseteq Elems(Append(q, a))
    BY AppendKeeps
<1> QED
    BY <1>1, <1>2, AppendKeeps

LEMMA InitSplit == PagesInit => SplitInv
BY DEF PagesInit, SplitInv, NoAttempt, NewTask

LEMMA NextSplit == FieldsInv /\ StoredInv /\ SplitInv /\ [PagesNext]_pagesVars => SplitInv'
<1> SUFFICES ASSUME FieldsInv, StoredInv, SplitInv, [PagesNext]_pagesVars, Exact' PROVE SplitInv'
    BY DEF SplitInv
<1>1. index' = index /\ listed' = listed
    BY DEF PagesNext, pagesVars, bounds, Attempt, BeginAttempt, BrowsePage, KeysetPage, EmptyBucket, OnePage,
           Bounded, Split, Truncate, PageArrives, SplitEnds, Finish, Interrupt
<1>2. Exact
    BY <1>1 DEF Exact
<1>3. Splittable' = Splittable
    BY <1>1 DEF Splittable, value
<1>4. \A b : Matching(Everything, b)' = Matching(Everything, b)
    BY <1>1 DEF Matching, value, AttrsOf
<1>5. \A s : PageOf(s)' = PageOf(s)
    BY <1>1, PageOfStands
<1>6. ASSUME run.pc = "split", run'.pc = "split", run'.tie = run.tie, run'.more = run.more,
             run'.queue \in Seq(Bucket), saved \subseteq saved', task'.status = task.status,
             run'.truncated \/ ~run.truncated,
             ~run'.truncated => \A h \in Splittable : Waits(h) \/ Comes(h) =>
                \/ h \in saved'
                \/ \E b \in Elems(run'.queue) : h \in Matching(Everything, b)
                \/ \E s \in run'.pages : h \in PageOf(s)
      PROVE  SplitInv'
    <2>1. ASSUME ~run'.truncated, NEW h \in Splittable PROVE h \in saved' \/ Waits(h)' \/ Comes(h)'
        <3>1. h \in saved \/ Waits(h) \/ Comes(h)
            BY <1>2, <1>6, <2>1 DEF SplitInv
        <3>2. \/ h \in saved'
              \/ \E b \in Elems(run'.queue) : h \in Matching(Everything, b)
              \/ \E s \in run'.pages : h \in PageOf(s)
            BY <1>6, <2>1, <3>1
        <3> QED
            BY <1>4, <1>5, <3>2 DEF Waits, Comes, Elems
    <2> QED
        BY <1>2, <1>3, <1>6, <2>1 DEF SplitInv
<1>7. run.pc \in {"idle", "split", "finish"} /\ run.tie = Everything /\ ~run.more /\ run.queue \in Seq(Bucket)
    BY <1>2 DEF SplitInv
<1>8. CASE BeginAttempt
    <2>1. /\ run'.tie = Everything /\ ~run'.more /\ task'.status = "running"
          /\ run'.queue = <<<<WholeRange>>>>
        BY <1>2, <1>8, BegunRun DEF Exact
    <2>2. <<WholeRange>> \in Bucket /\ run'.queue \in Seq(Bucket) /\ <<WholeRange>> \in Elems(run'.queue)
        <3>1. WholeRange \in Intervals
            BY IndexType DEF WholeRange, Intervals
        <3>2. <<WholeRange>> \in Bucket
            BY <3>1 DEF Bucket
        <3> QED
            BY <2>1, <3>2 DEF Elems
    <2>3. \A h \in Splittable : h \in Matching(Everything, <<WholeRange>>)
        <3>1. ASSUME NEW h \in Splittable PROVE h \in Matching(Everything, <<WholeRange>>)
            <4>1. h \in listed /\ value[h].id \in 0..Width /\ value[h].id # Width /\ Width \in Nat
                BY <3>1, IndexType DEF Splittable
            <4>2. <<WholeRange>>[1].lo = 0 /\ <<WholeRange>>[1].hi = Width /\ Len(<<WholeRange>>) = 1
                BY DEF WholeRange
            <4> QED
                BY <2>2, <4>1, <4>2, MatchingEverything
        <3> QED
            BY <3>1
    <2>4. PICK count \in Counts(listed) : run'.pc = IF count.nb = 0 THEN "finish" ELSE "split"
        BY <1>2, <1>8, BegunRun DEF Exact
    <2>5. count.nb = Cardinality(listed)
        BY <1>2, <2>4, ExactCount
    <2>6. run'.pc = "finish" => Splittable = {}
        BY <2>4, <2>5, IndexType, FS_EmptySet DEF Splittable
    <2>7. \A h \in Splittable : Waits(h)'
        BY <1>4, <2>2, <2>3 DEF Waits, Elems
    <2> QED
        BY <1>3, <2>1, <2>2, <2>4, <2>6, <2>7 DEF SplitInv
<1>9. CASE BrowsePage \/ KeysetPage
    BY <1>7, <1>9 DEF BrowsePage, KeysetPage
<1>10. CASE EmptyBucket
    <2>1. /\ run.pc = "split" /\ run'.pc = run.pc /\ run'.tie = run.tie /\ run'.more = run.more
          /\ run'.truncated = run.truncated /\ run'.pages = run.pages /\ run'.queue = Tail(run.queue)
          /\ task' = task /\ saved' = saved /\ run.queue # <<>> /\ Matching(Everything, head) = {}
        BY <1>7, <1>10 DEF EmptyBucket, Splitting, DropBucket, Within, FieldsInv, RunFields
    <2>2. /\ run'.queue \in Seq(Bucket)
          /\ \A b \in Elems(run.queue) : b = head \/ b \in Elems(run'.queue)
        BY <1>7, <2>1, TailKeeps DEF head
    <2> QED
        BY <1>6, <2>1, <2>2 DEF Waits, Comes
<1>11. CASE OnePage
    <2>1. PICK count \in Counts(Within(head)) : ~count.exact
        BY <1>11 DEF OnePage, FitsOnePage
    <2>2. count.exact
        BY <1>2, <2>1, ExactCount, MatchingType DEF Within
    <2> QED
        BY <2>1, <2>2
<1>12. CASE Bounded
    <2> DEFINE M == Matching(Everything, head)
    <2>1. PICK count \in Counts(Within(head)) : FitsLimit(count) /\ run'.pages = Pages(count.nb)
        BY <1>12 DEF Bounded, FieldsInv, RunFields
    <2>2. Within(head) = M /\ M \in SUBSET listed
        BY <1>7, MatchingType DEF Within
    <2>3. count.nb = Cardinality(M) /\ Cardinality(M) \in Nat /\ Cardinality(M) <= Limit
        BY <1>2, <2>1, <2>2, ExactCount DEF FitsLimit
    <2>4. /\ run.pc = "split" /\ run'.pc = run.pc /\ run'.tie = run.tie /\ run'.more = run.more
          /\ run'.truncated = run.truncated /\ run.pages = {} /\ run'.queue = Tail(run.queue)
          /\ task' = task /\ saved' = saved /\ run.queue # <<>>
        BY <1>12 DEF Bounded, Splitting, FieldsInv, RunFields
    <2>5. /\ run'.queue \in Seq(Bucket)
          /\ \A b \in Elems(run.queue) : b = head \/ b \in Elems(run'.queue)
        BY <1>7, <2>4, TailKeeps DEF head
    <2>6. ASSUME NEW h \in M PROVE h \in saved \/ \E s \in run'.pages : h \in PageOf(s)
        <3>1. PICK n \in 1..PagesFor(Cardinality(M)) : h \in Page(M, n - 1)
            <4> HIDE DEF M
            <4> QED
                BY <2>2, <2>3, <2>6, PagesCover
        <3>2. PageOf(Signature(head, n - 1)) = Page(M, n - 1)
            BY <1>7 DEF PageOf, Signature
        <3>3. Min({count.nb, Limit}) = Cardinality(M)
            BY <2>3, PagesType
        <3>4. Signature(head, n - 1) \in run.completed \/ Signature(head, n - 1) \in run'.pages
            BY <2>1, <3>3 DEF Pages
        <3> QED
            BY <3>1, <3>2, <3>4 DEF StoredInv
    <2> HIDE DEF M
    <2>7. \A h \in Splittable : Waits(h) \/ Comes(h) =>
             \/ h \in saved'
             \/ \E b \in Elems(run'.queue) : h \in Matching(Everything, b)
             \/ \E s \in run'.pages : h \in PageOf(s)
        BY <2>4, <2>5, <2>6 DEF Waits, Comes, M
    <2> QED
        BY <1>6, <2>4, <2>5, <2>7
<1>13. CASE Split
    <2> DEFINE halves == bisect_interval(current)
               With(r) == [head EXCEPT ![Len(head)] = r]
    <2>1. /\ run.pc = "split" /\ run'.pc = run.pc /\ run'.tie = run.tie /\ run'.more = run.more
          /\ run'.truncated = run.truncated /\ run.pages = {} /\ run'.pages = {}
          /\ task' = task /\ saved' = saved /\ run.queue # <<>>
        BY <1>13 DEF Split, Splitting, FieldsInv, RunFields
    <2>2. /\ Tail(run.queue) \in Seq(Bucket) /\ head \in Bucket
          /\ \A b \in Elems(run.queue) : b = head \/ b \in Elems(Tail(run.queue))
        BY <1>7, <2>1, TailKeeps DEF head
    <2>3. CASE run'.queue = Tail(run.queue) \o <<With(halves[1]), With(halves[2])>>
        <3>1. /\ With(halves[1]) \in Bucket /\ With(halves[2]) \in Bucket
              /\ \A h \in Matching(Everything, head) :
                    \/ h \in Matching(Everything, With(halves[1]))
                    \/ h \in Matching(Everything, With(halves[2]))
            BY <2>2, HalvesCover DEF current
        <3> HIDE DEF With, halves
        <3>2. /\ run'.queue \in Seq(Bucket)
              /\ Elems(Tail(run.queue)) \cup {With(halves[1]), With(halves[2])} \subseteq Elems(run'.queue)
            BY <2>2, <2>3, <3>1, ConcatKeeps
        <3>3. \A h \in Splittable : Waits(h) => \E b \in Elems(run'.queue) : h \in Matching(Everything, b)
            BY <2>2, <3>1, <3>2 DEF Waits
        <3> QED
            BY <1>6, <2>1, <3>2, <3>3 DEF Comes
    <2>4. CASE ~LastAttr /\ run'.queue = Append(Tail(run.queue), Append(head, WholeRange))
        <3>1. Len(head) = 1
            BY <1>7, <2>2, <2>4 DEF LastAttr, AttrsOf, Bucket
        <3>2. /\ Append(head, WholeRange) \in Bucket
              /\ \A h \in Matching(Everything, head) \cap Splittable :
                    h \in Matching(Everything, Append(head, WholeRange))
            BY <2>2, <3>1, NextAttributeCovers
        <3>3. /\ run'.queue \in Seq(Bucket)
              /\ Elems(Tail(run.queue)) \cup {Append(head, WholeRange)} \subseteq Elems(run'.queue)
            BY <2>2, <2>4, <3>2, AppendKeeps
        <3>4. \A h \in Splittable : Waits(h) => \E b \in Elems(run'.queue) : h \in Matching(Everything, b)
            BY <2>2, <3>2, <3>3 DEF Waits
        <3> QED
            BY <1>6, <2>1, <3>3, <3>4 DEF Comes
    <2> QED
        BY <1>13, <2>3, <2>4 DEF Split, FieldsInv, RunFields
<1>14. CASE Truncate
    <2>1. /\ run.pc = "split" /\ run'.pc = run.pc /\ run'.tie = run.tie /\ run'.more = run.more
          /\ run'.truncated /\ run'.queue = Tail(run.queue)
          /\ task' = task /\ saved' = saved /\ run.queue # <<>>
        BY <1>14 DEF Truncate, Splitting, FieldsInv, RunFields
    <2>2. run'.queue \in Seq(Bucket)
        BY <1>7, <2>1, TailKeeps
    <2> QED
        BY <1>6, <2>1, <2>2
<1>15. CASE PageArrives
    <2> DEFINE s == first(run.pages)
               found == Page(Within(s[2]), s[3])
               cursor == RangeCursor(run.completed \union completes(run.pages))
    <2>1. /\ run.pc = "split" /\ run'.pc = run.pc /\ run'.tie = run.tie /\ run'.more = run.more
          /\ run'.truncated = run.truncated /\ run'.queue = run.queue
          /\ run'.pages = run.pages \ {s} /\ run.pages # {}
        BY <1>15 DEF PageArrives, FieldsInv, RunFields
    <2>2. s \in run.pages /\ s[1] = run.tie
        BY <2>1, FirstIsThere DEF StoredInv
    <2>3. PageOf(s) = found
        BY <2>2 DEF PageOf, Within
    <2>4. Store(found, cursor)
        BY <1>15 DEF PageArrives
    <2> HIDE DEF s, found, cursor
    <2>5. saved \subseteq saved' /\ found \subseteq saved' /\ task'.status = task.status
        BY <2>4, BatchIsStored
    <2>6. \A h \in Splittable : Waits(h) \/ Comes(h) =>
             \/ h \in saved'
             \/ \E b \in Elems(run'.queue) : h \in Matching(Everything, b)
             \/ \E t \in run'.pages : h \in PageOf(t)
        BY <2>1, <2>3, <2>5 DEF Waits, Comes
    <2> QED
        BY <1>6, <1>7, <2>1, <2>5, <2>6
<1>16. CASE SplitEnds
    <2>1. /\ run.pc = "split" /\ run'.pc = "finish" /\ run'.tie = Everything /\ run'.more = run.more
          /\ run'.truncated = run.truncated /\ run.queue = <<>> /\ run.pages = {}
          /\ run'.queue = run.queue /\ task' = task /\ saved' = saved
        BY <1>7, <1>16 DEF SplitEnds, FieldsInv, RunFields
    <2>2. Elems(run.queue) = {}
        BY <2>1 DEF Elems
    <2>3. ~run.truncated => Splittable \subseteq saved
        BY <1>2, <2>1, <2>2 DEF SplitInv, Waits, Comes
    <2> QED
        BY <1>2, <1>3, <1>7, <2>1, <2>3 DEF SplitInv
<1>17. CASE Finish
    <2>1. run.pc = "finish" /\ run' = NoAttempt /\ saved' = saved
        BY <1>17 DEF Finish
    <2>2. task'.status \in {"done", "skipped"} => ~run.truncated
        BY <1>17 DEF Finish, FieldsInv
    <2>3. run'.pc = "idle" /\ run'.tie = Everything /\ ~run'.more /\ run'.queue = <<>>
        BY <2>1 DEF NoAttempt
    <2> QED
        BY <1>2, <1>3, <2>1, <2>2, <2>3 DEF SplitInv
<1>18. CASE Interrupt
    <2>1. run' = NoAttempt /\ task'.status = "pending"
        BY <1>18 DEF Interrupt, FieldsInv
    <2>2. run'.pc = "idle" /\ run'.tie = Everything /\ ~run'.more /\ run'.queue = <<>>
        BY <2>1 DEF NoAttempt
    <2> QED
        BY <2>1, <2>2 DEF SplitInv
<1>19. CASE UNCHANGED pagesVars
    BY <1>2, <1>3, <1>4, <1>5, <1>7, <1>19 DEF pagesVars, SplitInv, Waits, Comes, Elems
<1> QED
    BY <1>8, <1>9, <1>10, <1>11, <1>12, <1>13, <1>14, <1>15, <1>16, <1>17, <1>18, <1>19 DEF PagesNext, Attempt

(* A task that was split to its end has stored every hit with the attributes.*)
THEOREM SplitLosesNothing == PagesSpec => []SplitIsComplete
<1>1. PagesInit => FieldsInv /\ StoredInv /\ SplitInv
    BY InitFields, InitStored, InitSplit
<1>2. FieldsInv /\ StoredInv /\ SplitInv /\ [PagesNext]_pagesVars => (FieldsInv /\ StoredInv /\ SplitInv)'
    BY NextFields, NextStored, NextSplit
<1>3. SplitInv => SplitIsComplete
    BY DEF SplitInv, SplitIsComplete, Exact
<1> QED
    BY <1>1, <1>2, <1>3, PTL DEF PagesSpec
==============================================================================
