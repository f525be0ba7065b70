---------------------------- MODULE Credentials ----------------------------
(***************************************************************************)
(* The public search key of the source, as one AlgoliaClient's concurrent  *)
(* requests and the shared discovery keep it: client.py `_json' refreshes  *)
(* a refused key under a lock of the client, discovery/service.py runs one *)
(* discovery at a time for the whole app, and any caller joins it.         *)
(*                                                                         *)
(* A key is the number of its publication on the source's page; only the   *)
(* last one published is accepted.  `_json' compares seeds by identity:    *)
(* mine and observed of a request say whether the seed it was sent with,   *)
(* and the one it saw when it was refused, is still the client's.          *)
(***************************************************************************)
EXTENDS Naturals

CONSTANTS
    Requests,     \* the client's concurrent requests
    MaxKeys,      \* bound: keys the page publishes
    MaxFaults,    \* bound: failures other than a refused key
    MaxOthers     \* bound: discoveries started outside the client

ASSUME CredentialsAssumption ==
    MaxKeys \in Nat \ {0} /\ MaxFaults \in Nat /\ MaxOthers \in Nat

VARIABLES
    page,      \* the key on the source's page
    stored,    \* the source_credentials row: its key, and whether it is fresh
    seed,      \* the key of the client's seed
    request,   \* request[r]: its step, its key, and the two identities
    flight,    \* DiscoveryService._inflight and how far it is
    faults,    \* failures so far
    others     \* discoveries started outside the client so far

vars == <<page, stored, seed, request, flight, faults, others>>

Keys == 1..MaxKeys
Steps == {"idle", "sent", "waiting", "joined", "reload", "resent"}
Grounded == [pc |-> "none", key |-> 0, again |-> FALSE]

(* _credential_refresh_lock: whoever awaits the discovery holds it.          *)
LockFree == \A r \in Requests : request[r].pc \notin {"joined", "reload"}

Fault == faults < MaxFaults /\ faults' = faults + 1
Goes(r, pc) == request' = [request EXCEPT ![r].pc = pc]

------------------------------------------------------------------------------
(* The source and time. *)

Rotate ==
    /\ page < MaxKeys
    /\ page' = page + 1
    /\ UNCHANGED <<stored, seed, request, flight, faults, others>>

(* The stored key passes its time to live: status() says stale.              *)
Expire ==
    /\ stored.fresh
    /\ stored' = [stored EXCEPT !.fresh = FALSE]
    /\ UNCHANGED <<page, seed, request, flight, faults, others>>

------------------------------------------------------------------------------
(* _json: a request, its refusal, the refresh and the second try. *)

(* _request takes the key, then waits for the limiter and the network.       *)
Send(r) ==
    /\ request[r].pc = "idle"
    /\ request' = [request EXCEPT ![r] =
                    [pc |-> "sent", key |-> seed, mine |-> TRUE, observed |-> FALSE]]
    /\ UNCHANGED <<page, stored, seed, flight, faults, others>>

(* The answer: the key is accepted, or refused and the client's seed of this *)
(* moment is the observed one.                                               *)
Answer(r) ==
    /\ request[r].pc = "sent"
    /\ request' = [request EXCEPT ![r].pc = IF request[r].key = page THEN "idle" ELSE "waiting",
                                  ![r].observed = TRUE]
    /\ UNCHANGED <<page, stored, seed, flight, faults, others>>

(* Mutant: the seed is not compared again under the lock.                    *)
replaced_Unchecked(r) == FALSE

(* Another request replaced the seed while this one waited for the lock.     *)
replaced(r) == ~request[r].observed

Resend(r) ==
    request' = [request EXCEPT ![r] = [@ EXCEPT !.pc = "resent", !.key = seed, !.mine = TRUE]]

ReplacedMeanwhile(r) ==
    /\ request[r].pc = "waiting" /\ LockFree
    /\ replaced(r)
    /\ Resend(r)
    /\ UNCHANGED <<page, stored, seed, flight, faults, others>>

(* _singleflight: start a discovery, or join the one in flight.              *)
launch(first) ==
    flight' = IF flight.pc = "none" THEN [Grounded EXCEPT !.pc = first] ELSE flight

(* Mutant: the client asks without invalidating the key it was refused.      *)
invalidate_and_refresh_Cached == launch("check")

invalidate_and_refresh == launch("invalidate")

Refresh(r) ==
    /\ request[r].pc = "waiting" /\ LockFree
    /\ ~replaced(r)
    /\ Goes(r, "joined")
    /\ invalidate_and_refresh
    /\ UNCHANGED <<page, stored, seed, faults, others>>

(* credential_refresher reads the row; the client's seed is a new object, so *)
(* no other request's seed is the client's any more.                         *)
Reload(r) ==
    /\ request[r].pc = "reload"
    /\ seed' = stored.key
    /\ request' = [q \in Requests |->
                    IF q = r THEN [request[r] EXCEPT !.pc = "resent", !.key = stored.key,
                                                     !.mine = TRUE, !.observed = FALSE]
                             ELSE [request[q] EXCEPT !.mine = FALSE, !.observed = FALSE]]
    /\ UNCHANGED <<page, stored, flight, faults, others>>

(* The second answer ends the request, whatever it is.                       *)
AnswerAgain(r) ==
    /\ request[r].pc = "resent"
    /\ Goes(r, "idle")
    /\ UNCHANGED <<page, stored, seed, flight, faults, others>>

(* A request that gets no answer fails.                                      *)
RequestFails(r) ==
    /\ request[r].pc \in {"sent", "resent"}
    /\ Fault
    /\ Goes(r, "idle")
    /\ UNCHANGED <<page, stored, seed, flight, others>>

------------------------------------------------------------------------------
(* DiscoveryService. *)

(* A launch of a run, or POST /discovery/refresh, which may be forced.       *)
RefreshElsewhere(force) ==
    /\ flight.pc = "none"
    /\ others < MaxOthers /\ others' = others + 1
    /\ launch(IF force THEN "page" ELSE "check")
    /\ UNCHANGED <<page, stored, seed, request, faults>>

(* The discovery ends, and with it the wait of everyone who joined it: the   *)
(* result is there, or the exception is everyone's.                          *)
Lands(pc) ==
    /\ flight' = Grounded
    /\ request' = [r \in Requests |-> IF request[r].pc = "joined"
                                      THEN [request[r] EXCEPT !.pc = pc] ELSE request[r]]

mark_stale == stored' = [stored EXCEPT !.fresh = FALSE]

Invalidate ==
    /\ flight.pc = "invalidate"
    /\ mark_stale
    /\ flight' = [flight EXCEPT !.pc = "page"]
    /\ UNCHANGED <<page, seed, request, faults, others>>

(* An unforced discovery is content with a fresh row.                        *)
CheckCached ==
    /\ flight.pc = "check"
    /\ \/ stored.fresh /\ Lands("reload")
       \/ ~stored.fresh /\ flight' = [flight EXCEPT !.pc = "page"] /\ UNCHANGED request
    /\ UNCHANGED <<page, stored, seed, faults, others>>

ReadPage ==
    /\ flight.pc = "page"
    /\ flight' = [flight EXCEPT !.pc = "probe", !.key = page]
    /\ UNCHANGED <<page, stored, seed, request, faults, others>>

(* The probes with the key just read: a refusal invalidates the row and      *)
(* reads the page once more, a second one is raised.                         *)
Probe ==
    /\ flight.pc = "probe"
    /\ \/ /\ flight.key = page
          /\ flight' = [flight EXCEPT !.pc = "persist"]
          /\ UNCHANGED <<stored, request>>
       \/ /\ flight.key # page
          /\ mark_stale
          /\ \/ ~flight.again /\ flight' = [flight EXCEPT !.pc = "page", !.again = TRUE]
                              /\ UNCHANGED request
             \/ flight.again /\ Lands("idle")
    /\ UNCHANGED <<page, seed, faults, others>>

(* DiscoveryRepository.persist                                               *)
persist == stored' = [key |-> flight.key, fresh |-> TRUE]

Persist ==
    /\ flight.pc = "persist"
    /\ persist
    /\ Lands("reload")
    /\ UNCHANGED <<page, seed, faults, others>>

(* The page, a probe or the database fails.                                  *)
DiscoveryFails ==
    /\ flight.pc # "none"
    /\ Fault
    /\ Lands("idle")
    /\ UNCHANGED <<page, stored, seed, others>>

------------------------------------------------------------------------------
Init ==
    /\ page = 1 /\ seed = 1 /\ faults = 0 /\ others = 0
    /\ stored = [key |-> 1, fresh |-> TRUE]
    /\ request = [r \in Requests |->
                    [pc |-> "idle", key |-> 1, mine |-> FALSE, observed |-> FALSE]]
    /\ flight = Grounded

DiscoveryStep == Invalidate \/ CheckCached \/ ReadPage \/ Probe \/ Persist

RequestStep(r) ==
    Send(r) \/ Answer(r) \/ ReplacedMeanwhile(r) \/ Refresh(r) \/ Reload(r) \/ AnswerAgain(r)

Next ==
    \/ Rotate \/ Expire \/ DiscoveryStep \/ DiscoveryFails
    \/ \E r \in Requests : RequestStep(r) \/ RequestFails(r)
    \/ \E force \in BOOLEAN : RefreshElsewhere(force)

Spec == Init /\ [][Next]_vars

(* Every coroutine that can run is run; the run keeps sending requests; the  *)
(* lock is handed over in the order it was asked for.                        *)
FairSpec ==
    /\ Spec
    /\ WF_vars(DiscoveryStep)
    /\ \A r \in Requests :
        /\ WF_vars(Send(r)) /\ WF_vars(Answer(r)) /\ WF_vars(Reload(r)) /\ WF_vars(AnswerAgain(r))
        /\ SF_vars(ReplacedMeanwhile(r)) /\ SF_vars(Refresh(r))

------------------------------------------------------------------------------
(* Properties. *)

TypeOK ==
    /\ page \in Keys /\ seed \in Keys /\ faults \in 0..MaxFaults /\ others \in 0..MaxOthers
    /\ stored \in [key : Keys, fresh : BOOLEAN]
    /\ request \in [Requests -> [pc : Steps, key : Keys, mine : BOOLEAN, observed : BOOLEAN]]
    /\ flight \in [pc : {"none", "invalidate", "check", "page", "probe", "persist"},
                   key : Keys \union {0}, again : BOOLEAN]

(* A request refreshes the seed it saw when it was refused: of the requests  *)
(* refused together one refreshes, and the others, woken later by the lock,  *)
(* are sent again with what it brought (client.py:210-223).                  *)
OneRefreshPerSeed ==
    \A r \in Requests :
        request[r].pc \in {"joined", "reload"} => request[r].observed

(* A client whose key was replaced at the source finds the new one, whatever *)
(* discoveries its requests join, if it keeps asking (client.py:209-223).    *)
NewKeyIsFound == (seed # page) ~> (seed = page)

(* docs/DISCOVERY.md:70: the first 401/403 marks the row stale and runs      *)
(* re-discovery.  So a refresh never gives the client back the key that was  *)
(* refused, as long as no discovery from elsewhere is there to be joined:    *)
(* an unforced one is content with the row and returns that very key.        *)
RefusedKeyIsReplaced ==
    others = 0 =>
        \A r \in Requests :
            request[r].pc = "reload" /\ request[r].mine => stored.key # request[r].key
=============================================================================
