---------------------------- MODULE Introspection ----------------------------
(***************************************************************************)
(* Validation of opaque inbound tokens by introspection (RFC 7662) with a  *)
(* cache, internal/auth/introspection.go.  Every HTTP request validates in *)
(* a goroutine of its own: a look under the read lock, the deletion of a   *)
(* stale entry under the write lock, the call of the endpoint under no     *)
(* lock, and the storing of the answer.  Of a cache entry only the         *)
(* deadline matters; the principal in it is the token's.                   *)
(***************************************************************************)
EXTENDS Integers

CONSTANTS
    Caller,        \* HTTP requests, one after another in each
    Token,
    NoRequest,     \* stands for the token of a request that is over and was refused
    Exp,           \* the exp claim of each token, NoExp if it has none
    NoExp,
    CacheTTL,      \* INBOUND_OAUTH_INTROSPECTION_CACHE_TTL (<= 0 is replaced)
    MaxLatency,    \* bound: ticks from the endpoint's answer to its storing
    MaxTime        \* bound of the clock

\* Assumed by InboundAuth.
IntrospectionAssumption ==
    /\ NoExp \notin Nat /\ NoRequest \notin Token
    /\ Exp \in [Token -> Nat \cup {NoExp}]
    /\ CacheTTL \in Nat \ {0}
    /\ {MaxLatency, MaxTime} \subseteq Nat

VARIABLES
    now,         \* the clock
    revokedAt,   \* when the issuer revoked each token
    deadline,    \* v.cache: the deadline of each token's entry
    pc,
    token,       \* the token each request carries
    copy,        \* the deadline of the entry that cached() has copied
    answeredAt,  \* when the endpoint said "active"
    acceptedAt   \* the reading of the clock by which the last request of each
                 \* caller was let in

vars == <<now, revokedAt, deadline, pc, token, copy, answeredAt, acceptedAt>>

Never  == -1    \* not revoked, not accepted
Absent == -1    \* no entry

Stage == {"idle", "look", "judge", "evict", "ask", "claims", "store"}

\* The type invariant of the cache and of the requests in Validate.
TypeOK ==
    /\ now \in Nat
    /\ revokedAt \in [Token -> Nat \cup {Never}]
    /\ deadline \in [Token -> Nat \cup {Absent}]
    /\ pc \in [Caller -> Stage]
    /\ token \in [Caller -> Token \cup {NoRequest}]
    /\ \A c \in Caller : pc[c] # "idle" \/ acceptedAt[c] # Never => token[c] # NoRequest
    /\ copy \in [Caller -> Nat \cup {Absent}]
    /\ answeredAt \in [Caller -> Nat]
    /\ acceptedAt \in [Caller -> Nat \cup {Never}]

-----------------------------------------------------------------------------
Init ==
    /\ now = 0
    /\ revokedAt = [t \in Token |-> Never]
    /\ deadline = [t \in Token |-> Absent]
    /\ pc = [c \in Caller |-> "idle"]
    /\ token = [c \in Caller |-> NoRequest]
    /\ copy = [c \in Caller |-> Absent]
    /\ answeredAt = [c \in Caller |-> 0]
    /\ acceptedAt = [c \in Caller |-> Never]

Goto(c, from, to) == pc[c] = from /\ pc' = [pc EXCEPT ![c] = to]

Begin(c, t) ==
    /\ Goto(c, "idle", "look")
    /\ token' = [token EXCEPT ![c] = t]
    /\ acceptedAt' = [acceptedAt EXCEPT ![c] = Never]
    /\ UNCHANGED <<now, revokedAt, deadline, copy, answeredAt>>

\* The request is over: let in by a reading of the clock, or turned away.
Accept(c, at) == acceptedAt' = [acceptedAt EXCEPT ![c] = at]
Forget(c) ==
    /\ copy' = [copy EXCEPT ![c] = Absent]
    /\ answeredAt' = [answeredAt EXCEPT ![c] = 0]

-----------------------------------------------------------------------------
\* cached: the entry is copied under the read lock and judged by a later clock.

Look(c) ==
    /\ pc[c] = "look"
    /\ pc' = [pc EXCEPT ![c] = IF deadline[token[c]] = Absent THEN "ask" ELSE "judge"]
    /\ copy' = [copy EXCEPT ![c] = deadline[token[c]]]
    /\ UNCHANGED <<now, revokedAt, deadline, token, answeredAt, acceptedAt>>

Stale(c) == now > copy[c]

Hit(c) ==
    /\ ~Stale(c)
    /\ Goto(c, "judge", "idle")
    /\ Accept(c, now)
    /\ Forget(c)
    /\ UNCHANGED <<now, revokedAt, deadline, token>>

JudgeStale(c) ==
    /\ Stale(c)
    /\ Goto(c, "judge", "evict")
    /\ copy' = [copy EXCEPT ![c] = Absent]
    /\ UNCHANGED <<now, revokedAt, deadline, token, answeredAt, acceptedAt>>

\* Whatever entry is there by now is deleted, be it a fresh one.
Evict(c) ==
    /\ Goto(c, "evict", "ask")
    /\ deadline' = [deadline EXCEPT ![token[c]] = Absent]
    /\ UNCHANGED <<now, revokedAt, token, copy, answeredAt, acceptedAt>>

-----------------------------------------------------------------------------
\* The endpoint's answer, on its way to the validator.
Answer(c) ==
    /\ Goto(c, "ask", "claims")
    /\ revokedAt[token[c]] = Never
    /\ answeredAt' = [answeredAt EXCEPT ![c] = now]
    /\ UNCHANGED <<now, revokedAt, deadline, token, copy, acceptedAt>>

\* A faulty fallback: while the endpoint is down, the entry last seen is good.
RejectUnlessSeen(c) ==
    /\ pc[c] \in {"ask", "claims"}
    /\ pc' = [pc EXCEPT ![c] = "idle"]
    /\ IF deadline[token[c]] # Absent
       THEN Accept(c, now) /\ UNCHANGED token
       ELSE token' = [token EXCEPT ![c] = NoRequest] /\ UNCHANGED acceptedAt
    /\ Forget(c)
    /\ UNCHANGED <<now, revokedAt, deadline>>

\* The endpoint cannot be asked, or says "inactive"; or the answer's nbf, issuer,
\* audience or scopes do not do.
Reject(c) ==
    /\ pc[c] \in {"ask", "claims"}
    /\ pc' = [pc EXCEPT ![c] = "idle"]
    /\ token' = [token EXCEPT ![c] = NoRequest]
    /\ Forget(c)
    /\ UNCHANGED <<now, revokedAt, deadline, acceptedAt>>

ClaimsPass(c) ==
    /\ Goto(c, "claims", "store")
    /\ Exp[token[c]] # NoExp => now < Exp[token[c]]
    /\ Accept(c, now)
    /\ UNCHANGED <<now, revokedAt, deadline, token, copy, answeredAt>>

\* A faulty deadline: a claim that is absent counts as well.
DeadlineByClaim(t) ==
    IF Exp[t] = NoExp THEN NoExp ELSE IF Exp[t] < now + CacheTTL THEN Exp[t] ELSE now + CacheTTL

\* A faulty deadline: the token's own is not looked at.
DeadlineByTTL(t) == now + CacheTTL

Deadline(t) ==
    IF Exp[t] # NoExp /\ Exp[t] < now + CacheTTL THEN Exp[t] ELSE now + CacheTTL

\* The clock is read just before the write lock is taken: a wait for the lock
\* stores an earlier deadline than this step, never a later one.
Store(c) ==
    /\ Goto(c, "store", "idle")
    /\ deadline' = [deadline EXCEPT ![token[c]] = Deadline(token[c])]
    /\ Forget(c)
    /\ UNCHANGED <<now, revokedAt, token, acceptedAt>>

-----------------------------------------------------------------------------
\* The issuer.
Revoke(t) ==
    /\ revokedAt[t] = Never
    /\ revokedAt' = [revokedAt EXCEPT ![t] = now]
    /\ UNCHANGED <<now, deadline, pc, token, copy, answeredAt, acceptedAt>>

\* The validator's HTTP client gives up after five seconds.
Tick ==
    /\ now < MaxTime
    /\ \A c \in Caller : pc[c] \in {"claims", "store"} => now < answeredAt[c] + MaxLatency
    /\ now' = now + 1
    /\ UNCHANGED <<revokedAt, deadline, pc, token, copy, answeredAt, acceptedAt>>

Next ==
    \/ \E c \in Caller :
          \/ \E t \in Token : Begin(c, t)
          \/ Look(c) \/ Hit(c) \/ JudgeStale(c) \/ Evict(c)
          \/ Answer(c) \/ Reject(c) \/ ClaimsPass(c) \/ Store(c)
    \/ \E t \in Token : Revoke(t)
    \/ Tick

Spec == Init /\ [][Next]_vars

-----------------------------------------------------------------------------
(***************************************************************************)
(* Properties                                                              *)
(***************************************************************************)

\* A revoked token is let in for the cache's TTL and one answer's latency at most:
\* an answer given before the revocation may be stored after it, by any of several
\* overlapping requests, but no storing prolongs another.
RevokedTokensRunOut ==
    \A c \in Caller :
        acceptedAt[c] # Never =>
            LET revoked == revokedAt[token[c]]
            IN  revoked # Never => acceptedAt[c] <= revoked + MaxLatency + CacheTTL

\* No entry outlives its token: a token is never let in after its exp, neither by
\* an answer nor by the cache.  (At exp itself an answer is refused, a cached one
\* is not: After in cached, Before in Validate.)
NeverAfterExp ==
    \A c \in Caller :
        acceptedAt[c] # Never =>
            LET exp == Exp[token[c]]
            IN  exp # NoExp => acceptedAt[c] <= exp
=============================================================================
