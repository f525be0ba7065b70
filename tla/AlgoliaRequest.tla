--------------------------- MODULE AlgoliaRequest ---------------------------
(***************************************************************************)
(* One Algolia client that several workers share: its retries over a pool  *)
(* of hosts, behind a response cache, the run's request budget, a circuit  *)
(* breaker per host and a rate limiter (algolia/client.py, hosts.py,       *)
(* services/transport).                                                    *)
(*                                                                         *)
(* Time passes in ticks; a timer counts down the ticks it has left.  What  *)
(* happens between two awaits of a caller is one action.  The refresh of   *)
(* a refused key is module Credentials.                                    *)
(***************************************************************************)
EXTENDS Integers, FiniteSets, SequencesExt

CONSTANTS
    Callers, Hosts,
    HostOrder,          \* the hosts, in the order the pool lists them
    Queries,            \* what a caller may ask
    MaxRetries, MaxRequests, Burst, Rate, HostLimit,
    Threshold, Window, Recovery, Cooldown, TTL, MaxEntries, Timeout,
    MaxRestarts         \* bound: how often the run is interrupted

ASSUME CallersAssumption == IsFiniteSet(Callers)
ASSUME HostsAssumption == HostOrder # <<>> /\ Hosts = ToSet(HostOrder)
\* Every caller ahead of a request ends well before a circuit recovers: with 3 callers,
\* calls of 15 s and a token every 0.67 s, recovery_s is 120 s.
ASSUME TimeoutAssumption == Cardinality(Callers) * (Timeout + 1) < Recovery
ASSUME LimitAssumption == {Burst, Rate, HostLimit, Threshold, MaxRequests} \subseteq Nat \ {0}

VARIABLES
    call,               \* caller -> what it is doing
    breaker,            \* host -> [failures, opened, probe]
    down,               \* host -> ticks until it is healthy again
    cache,              \* the entries of the cache, oldest first
    tokens,
    started,            \* requests counted against the budget
    recorded,           \* responses the run's metrics counted
    sent,               \* history: requests that went to the network
    restarts

clientVars == <<call, breaker, down, cache, tokens, started, recorded, sent, restarts>>

Idle == [at |-> "idle"]
Never == -1
Closed == [failures |-> <<>>, opened |-> Never, probe |-> FALSE]
Statuses == {200, 404, 429, 500}

ClientInit ==
    /\ call = [c \in Callers |-> Idle]
    /\ breaker = [h \in Hosts |-> Closed]
    /\ down = [h \in Hosts |-> 0]
    /\ cache = <<>> /\ tokens = Burst
    /\ started = 0 /\ recorded = 0 /\ sent = 0 /\ restarts = 0

---------------------------------------------------------------------------
(* Circuit breaker: ticks since a failure, and since the circuit opened    *)

State(b) == IF b.opened = Never THEN "closed" ELSE IF b.opened >= Recovery THEN "half_open" ELSE "open"

Allowed(b) == State(b) = "closed" \/ (State(b) = "half_open" /\ ~ b.probe)

\* Mutant: a probe is not remembered.
allow_request_Any(b) == b

allow_request(b) == IF State(b) = "half_open" THEN [b EXCEPT !.probe = TRUE] ELSE b

record_success == Closed

record_failure(b) ==
    LET recent(age) == age <= Window
        failures == SelectSeq(Append(b.failures, 0), recent)
    IN  [failures |-> failures,
         opened |-> IF b.probe \/ Len(failures) >= Threshold THEN 0 ELSE b.opened, probe |-> FALSE]

---------------------------------------------------------------------------
(* A request                                                               *)

Healthy(h) == down[h] = 0
candidates == LET up == SelectSeq(HostOrder, Healthy) IN IF up = <<>> THEN HostOrder ELSE up

Key(r) == [host |-> r.host, query |-> r.query]
Cached(k) == \E i \in DOMAIN cache : cache[i].key = k /\ cache[i].left > 0

\* ResponseCache.set: the oldest entry makes room, an entry that is set again keeps its place.
Remember(k) ==
    LET entry == [key |-> k, left |-> TTL]
        room == IF Len(cache) >= MaxEntries THEN Tail(cache) ELSE cache
    IN  IF \E i \in DOMAIN cache : cache[i].key = k
        THEN [i \in DOMAIN cache |-> IF cache[i].key = k THEN entry ELSE cache[i]]
        ELSE Append(room, entry)

Become(c, r) == call' = [call EXCEPT ![c] = r]

BudgetLeft == started < MaxRequests

\* Mutant: the budget is only looked at before the first try.
BudgetSpent_First(r) == r.attempt = 0 /\ ~ BudgetLeft

BudgetSpent(r) == ~ BudgetLeft

\* The start of one try: the cache, the budget and the circuit may each end the request.
Try(c, r0) ==
    LET r == [r0 EXCEPT !.host = r0.hosts[1 + (r0.attempt % Len(r0.hosts))]]
        b == breaker[r.host]
    IN  IF Cached(Key(r)) \/ BudgetSpent(r)
        THEN Become(c, Idle) /\ UNCHANGED <<breaker, started>>
        ELSE /\ started' = started + 1
             /\ IF Allowed(b)
                THEN /\ breaker' = [breaker EXCEPT ![r.host] = allow_request(b)]
                     /\ Become(c, [r EXCEPT !.at = "token", !.probe = State(b) = "half_open"])
                ELSE Become(c, Idle) /\ UNCHANGED breaker

Begin(c) ==
    /\ call[c].at = "idle"
    /\ \E q \in Queries :
          Try(c, [at |-> "try", query |-> q, hosts |-> candidates, attempt |-> 0,
                  host |-> HostOrder[1], probe |-> FALSE, left |-> Timeout])
    /\ UNCHANGED <<down, cache, tokens, recorded, sent, restarts>>

Retry(c) ==
    /\ call[c].at = "sleep"
    /\ Try(c, [call[c] EXCEPT !.attempt = @ + 1])
    /\ UNCHANGED <<down, cache, tokens, recorded, sent, restarts>>

\* RateLimiter.acquire: a token of the source, then a slot of the host.
TakeToken(c) ==
    /\ call[c].at = "token" /\ tokens >= 1
    /\ tokens' = tokens - 1
    /\ Become(c, [call[c] EXCEPT !.at = "slot"])
    /\ UNCHANGED <<breaker, down, cache, started, recorded, sent, restarts>>

Using(h) == {c \in Callers : call[c].at \in {"sent", "stuck"} /\ call[c].host = h}

SendCall(c) ==
    /\ call[c].at = "slot" /\ Cardinality(Using(call[c].host)) < HostLimit
    /\ sent' = sent + 1
    /\ Become(c, [call[c] EXCEPT !.at = "sent", !.left = Timeout])
    /\ UNCHANGED <<breaker, down, cache, tokens, started, recorded, restarts>>

Again(r) == r.attempt < MaxRetries
After(r) == IF Again(r) THEN [r EXCEPT !.at = "sleep", !.probe = FALSE] ELSE Idle

\* Mutant: a probe that fails leaves the circuit as it is.
Judged_Probe(b, ok) == IF ok THEN record_success ELSE IF b.probe THEN b ELSE record_failure(b)

Judged(b, ok) == IF ok THEN record_success ELSE record_failure(b)

\* A response: 429 and 5xx are tried again while tries are left, an answer is remembered.
Respond(c, status) ==
    LET r == call[c]
        retried == status \in {429, 500} /\ Again(r)
    IN  /\ r.at = "sent"
        /\ recorded' = recorded + 1
        /\ breaker' = [breaker EXCEPT ![r.host] = Judged(@, status < 400)]
        /\ cache' = IF status < 400 THEN Remember(Key(r)) ELSE cache
        /\ down' = IF status >= 500 /\ retried THEN [down EXCEPT ![r.host] = Cooldown] ELSE down
        /\ Become(c, IF retried THEN After(r) ELSE Idle)
        /\ UNCHANGED <<tokens, started, sent, restarts>>

\* Mutant: a call that fails keeps its slot of the host.
Failed_Leak(r) == [r EXCEPT !.at = "stuck"]

Failed(r) == After(r)

\* The transport raises, or its timeout passes.
Fail(c) ==
    /\ call[c].at = "sent"
    /\ breaker' = [breaker EXCEPT ![call[c].host] = Judged(@, FALSE)]
    /\ down' = [down EXCEPT ![call[c].host] = Cooldown]
    /\ Become(c, Failed(call[c]))
    /\ UNCHANGED <<cache, tokens, started, recorded, sent, restarts>>

---------------------------------------------------------------------------
(* Time, and the end of the client                                         *)

Less(n) == IF n > 0 THEN n - 1 ELSE 0
More(n, limit) == IF n = Never \/ n >= limit THEN n ELSE n + 1

\* A call in flight has time left, and no caller could go on at once.
Waiting(r) == /\ r.at = "sent" => r.left > 0
              /\ r.at = "token" => tokens = 0
              /\ r.at = "slot" => Cardinality(Using(r.host)) >= HostLimit

Tick ==
    /\ \A c \in Callers : Waiting(call[c])
    /\ call' = [c \in Callers |->
          IF call[c].at = "sent" THEN [call[c] EXCEPT !.left = @ - 1] ELSE call[c]]
    /\ breaker' = [h \in Hosts |->
          [breaker[h] EXCEPT !.failures = [i \in DOMAIN @ |-> More(@[i], Window + 1)],
                             !.opened = More(@, Recovery)]]
    /\ down' = [h \in Hosts |-> Less(down[h])]
    /\ cache' = [i \in DOMAIN cache |-> [cache[i] EXCEPT !.left = Less(@)]]
    /\ tokens' = Min({Burst, tokens + Rate})
    /\ UNCHANGED <<started, recorded, sent, restarts>>

\* The run is cancelled or interrupted with its workers, and resumed with a new client
\* that takes the budget it has used from the run's metrics.
Restart ==
    /\ restarts < MaxRestarts
    /\ restarts' = restarts + 1
    /\ call' = [c \in Callers |-> Idle]
    /\ breaker' = [h \in Hosts |-> Closed]
    /\ down' = [h \in Hosts |-> 0]
    /\ cache' = <<>> /\ tokens' = Burst
    /\ started' = recorded /\ sent' = recorded
    /\ UNCHANGED recorded

ClientNext ==
    \/ \E c \in Callers : \/ Begin(c) \/ Retry(c) \/ TakeToken(c) \/ SendCall(c) \/ Fail(c)
                          \/ \E status \in Statuses : Respond(c, status)
    \/ Tick
    \/ Restart

ClientSpec == ClientInit /\ [][ClientNext]_clientVars

Ends(c) == Fail(c) \/ \E status \in Statuses : Respond(c, status)

\* The event loop runs every caller that can go on, the transport has a timeout, time passes.
FairClientSpec ==
    /\ ClientSpec
    /\ WF_clientVars(Tick)
    /\ \A c \in Callers : /\ WF_clientVars(Retry(c))
                          /\ WF_clientVars(TakeToken(c))
                          /\ WF_clientVars(SendCall(c))
                          /\ WF_clientVars(Ends(c))

---------------------------------------------------------------------------
(* Properties                                                              *)

\* However many callers retry at once, the client sends no more than the run's budget
\* (max_requests_per_run).
BudgetHolds == sent <= MaxRequests

\* A host that is being tried again gets one request, also when a request from before its
\* circuit opened ends in the middle of it (CircuitBreaker).
OneProbe == \A h \in Hosts :
    Cardinality({c \in Callers : call[c].at \in {"token", "slot", "sent"}
                                 /\ call[c].host = h /\ call[c].probe}) <= 1

\* A host that is down long enough is tried again: no probe blocks its circuit for good.
ProbeEnds == \A h \in Hosts : breaker[h].probe ~> ~ breaker[h].probe

\* Every request ends, with an answer or an error: no token and no slot is lost.
RequestEnds == \A c \in Callers : call[c].at # "idle" ~> call[c].at = "idle"
=============================================================================
