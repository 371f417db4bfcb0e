---------------------------- MODULE Confirmation ----------------------------
(***************************************************************************)
(* The in-memory store of human confirmations,                             *)
(* internal/confirmation/memory_store.go, as the tools of                  *)
(* internal/tool/policy_request_confirmation.go and swagger_execute.go use *)
(* it.  Every operation runs under the store's mutex, so it is one action. *)
(* An operation reads the clock two or three times; the model reads it     *)
(* once, at the last of them: a record that expires in between is removed  *)
(* by the next operation and is never looked at unexpired.                 *)
(***************************************************************************)
EXTENDS Naturals, Sequences

CONSTANTS
    Id,        \* what newID can draw: 16 random bytes, never the same twice
    Op,        \* operationIds
    Method,    \* HTTP methods, upper-case
    URL,       \* final URLs
    Unset,     \* an empty method or URL in a request, which matches all
    TTL,       \* CONFIRMATION_TTL in ticks (NewMemoryStore replaces ttl <= 0)
    MaxTime    \* bound of the clock

ASSUME ConfirmationAssumption ==
    /\ TTL \in Nat \ {0}
    /\ MaxTime \in Nat
    /\ Unset \notin Op \cup Method \cup URL

VARIABLES
    items,     \* the map id -> Record of the live process
    now,       \* the clock
    issued,    \* history: what was asked for under each id ever drawn, and when
    verdict,   \* history: the last Confirm the store accepted for an id
    uses       \* history: the successful ConsumeApproved calls of an id, in order

storeVars == <<items, issued, verdict, uses>>
vars == <<items, now, issued, verdict, uses>>

Target == [op: Op, method: Method \cup {Unset}, url: URL \cup {Unset}]
Check  == [op: Op, method: Method, url: URL]
Record == [target: Target, approved: BOOLEAN, consumed: BOOLEAN, expiresAt: Nat]
Use    == [check: Check, at: Nat]

Verdict(approve) == IF approve THEN "approve" ELSE "reject"

\* The type invariant: only records under issued ids are in the map, each with a
\* deadline and both flags, whatever MemoryStore did to them.
TypeOK ==
    /\ DOMAIN items \subseteq DOMAIN issued
    /\ items \in [DOMAIN items -> Record]
    /\ now \in Nat
    /\ DOMAIN issued \subseteq Id
    /\ issued \in [DOMAIN issued -> [target: Target, at: Nat]]
    /\ verdict \in [Id -> {"none", "approve", "reject"}]
    /\ uses \in [Id -> Seq(Use)]

-----------------------------------------------------------------------------
\* A faulty expiry: the deadline itself still counts as alive.
isExpiredLate(i) == items[i].expiresAt < now

isExpired(i) == items[i].expiresAt <= now

matches(expected, actual) == expected = Unset \/ expected = actual

MatchesCheck(target, check) ==
    /\ matches(target.op, check.op)
    /\ matches(target.method, check.method)
    /\ matches(target.url, check.url)

\* cleanupLocked.  It spares the id being looked up, which the caller deletes
\* itself if expired: the id is told "expired" once, and "not_found" later.
Unexpired == {i \in DOMAIN items : ~isExpired(i)}
Cleaned   == [i \in Unexpired |-> items[i]]

\* What Confirm answers; ConsumeApproved starts with the same tests.
Lookup(i) ==
    IF i \notin DOMAIN items THEN "not_found"
    ELSE IF isExpired(i) THEN "expired"
    ELSE IF items[i].consumed THEN "consumed"
    ELSE "ok"

ConsumeResult(i, check) ==
    IF Lookup(i) # "ok" THEN Lookup(i)
    ELSE IF ~items[i].approved THEN "not_approved"
    ELSE IF ~MatchesCheck(items[i].target, check) THEN "mismatch"
    ELSE "ok"

-----------------------------------------------------------------------------
Init ==
    /\ items = << >>
    /\ now = 0
    /\ issued = << >>
    /\ verdict = [i \in Id |-> "none"]
    /\ uses = [i \in Id |-> << >>]

Request(target) ==
    \E i \in Id \ DOMAIN issued :
        LET record == [target |-> target, approved |-> FALSE, consumed |-> FALSE,
                       expiresAt |-> now + TTL]
        IN  /\ items' = [j \in Unexpired \cup {i} |-> IF j = i THEN record ELSE items[j]]
            /\ issued' = [j \in DOMAIN issued \cup {i} |->
                            IF j = i THEN [target |-> target, at |-> now] ELSE issued[j]]
            /\ UNCHANGED <<now, verdict, uses>>

\* An operation that answers an error has only cleaned up: newID without
\* randomness, Confirm or ConsumeApproved refused.
Refused ==
    /\ items' = Cleaned
    /\ UNCHANGED <<now, issued, verdict, uses>>

RequestFails == Refused

\* A faulty decision: an unknown id is written into the map.
ConfirmUpserts(i, approve) ==
    /\ Lookup(i) \in {"ok", "not_found"}
    /\ items' = [j \in Unexpired \cup {i} |->
                    IF j \in Unexpired THEN items[j]
                    ELSE [target |-> CHOOSE t \in Target : TRUE, approved |-> approve,
                          consumed |-> FALSE, expiresAt |-> now + TTL]]
    /\ verdict' = [verdict EXCEPT ![i] = Verdict(approve)]
    /\ UNCHANGED <<now, issued, uses>>

Confirm(i, approve) ==
    /\ Lookup(i) = "ok"
    /\ items' = [Cleaned EXCEPT ![i].approved = approve]
    /\ verdict' = [verdict EXCEPT ![i] = Verdict(approve)]
    /\ UNCHANGED <<now, issued, uses>>

ConfirmRefused(i) == Lookup(i) # "ok" /\ Refused

\* A faulty consumption: the record is not marked.
ConsumeUnmarked(i, check) ==
    /\ ConsumeResult(i, check) = "ok"
    /\ items' = Cleaned
    /\ uses' = [uses EXCEPT ![i] = Append(@, [check |-> check, at |-> now])]
    /\ UNCHANGED <<now, issued, verdict>>

ConsumeApproved(i, check) ==
    /\ ConsumeResult(i, check) = "ok"
    /\ items' = [Cleaned EXCEPT ![i].consumed = TRUE]
    /\ uses' = [uses EXCEPT ![i] = Append(@, [check |-> check, at |-> now])]
    /\ UNCHANGED <<now, issued, verdict>>

ConsumeRefused(i, check) == ConsumeResult(i, check) # "ok" /\ Refused

Tick ==
    /\ now < MaxTime
    /\ now' = now + 1
    /\ UNCHANGED storeVars

\* The process stops and starts again: the store is memory only.
Restart ==
    /\ items' = << >>
    /\ UNCHANGED <<now, issued, verdict, uses>>

Next ==
    \/ \E target \in Target : Request(target)
    \/ RequestFails
    \/ \E i \in Id, approve \in BOOLEAN : Confirm(i, approve)
    \/ \E i \in Id : ConfirmRefused(i)
    \/ \E i \in Id, check \in Check : ConsumeApproved(i, check) \/ ConsumeRefused(i, check)
    \/ Tick
    \/ Restart

Spec == Init /\ [][Next]_vars

-----------------------------------------------------------------------------
(***************************************************************************)
(* Properties                                                              *)
(***************************************************************************)

\* The human was asked about this operation, and about this method and URL where
\* the request named them.
AskedAbout(i, check) ==
    /\ check.op = issued[i].target.op
    /\ issued[i].target.method \in {check.method, Unset}
    /\ issued[i].target.url \in {check.url, Unset}

Covered(i) ==
    /\ Len(uses[i]) = 1
    /\ i \in DOMAIN issued
    /\ AskedAbout(i, uses[i][1].check)
    /\ uses[i][1].at < issued[i].at + TTL
    /\ verdict[i] = "approve"

\* Every successful ConsumeApproved is the only one of its id, happened before
\* the TTL was over, for a call that matches what the human was asked about, and
\* the human's last accepted word on it is yes: a rejection the store accepts
\* can neither have preceded the use nor follow it.
UsesAreCovered == \A i \in Id : uses[i] # << >> => Covered(i)

\* The store's state, read as permits: what is expired or no longer in the map
\* is void, and what was used is used even after its record is gone.
PermitStatus(i) ==
    IF i \notin DOMAIN issued THEN "unissued"
    ELSE IF uses[i] # << >> THEN "used"
    ELSE IF i \notin DOMAIN items \/ isExpired(i) THEN "void"
    ELSE IF items[i].approved THEN "approved"
    ELSE "pending"

Permits == INSTANCE Permit WITH
    status   <- [i \in Id |-> PermitStatus(i)],
    useCount <- [i \in Id |-> Len(uses[i])]

\* The store implements one-shot permits: no interleaving of Request, Confirm,
\* ConsumeApproved, the clock and a restart revives or reuses one.
ImplementsPermit == Permits!Spec
=============================================================================
