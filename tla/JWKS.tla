--------------------------------- MODULE JWKS ---------------------------------
(***************************************************************************)
(* Validation of inbound JWTs against a cached key set,                    *)
(* internal/auth/jwt_jwks.go.  A request looks its key up, refreshes the   *)
(* whole set from the issuer under no lock if it finds none, stores what   *)
(* it got, and looks again.  Refreshes overlap.  All keys are of one       *)
(* algorithm; signatures verify exactly under the key that made them.      *)
(***************************************************************************)
EXTENDS Integers

CONSTANTS
    Caller,       \* HTTP requests, one after another in each
    Key,          \* signing keys, named by their kid
    NoRequest,    \* stands for the token of a request that is over and was refused
    CacheTTL,     \* INBOUND_OAUTH_JWKS_CACHE_TTL (<= 0 is replaced)
    MaxLatency,   \* bound: ticks from the issuer's answer to its storing
    MaxTime       \* bound of the clock

\* What a token's header tells: its signer, and whether it names it by kid.
Header == [signer: Key, named: BOOLEAN]

\* Assumed by InboundAuth.
JWKSAssumption ==
    /\ NoRequest \notin Header
    /\ CacheTTL \in Nat \ {0}
    /\ {MaxLatency, MaxTime} \subseteq Nat

VARIABLES
    now,          \* the clock
    published,    \* the keys of the issuer's document
    removedAt,    \* when the issuer took each key out of it
    cache,        \* v.cache
    pc,
    token,        \* of each request: who signed it, and does its header say kid?
    refreshed,    \* requests on their second look
    copy,         \* the set a request has copied from the cache, or fetched
    acceptedAt,   \* the reading of the clock by which a request's key was found
    missing,      \* requests that ended with "matching jwk not found"
    steady,       \* history: the signer was published during the whole request
    overtaken     \* history: another refresh was stored after the request's own

vars == <<now, published, removedAt, cache, pc, token, refreshed, copy,
          acceptedAt, missing, steady, overtaken>>

Never   == -1
KeySet  == [keys: SUBSET Key, at: Nat]
NoKeys  == [keys |-> {}, at |-> 0]
Stage   == {"idle", "look", "judge", "fetch", "store"}

\* The type invariant.  The field "at" of a set is its deadline in the cache and in
\* a copy of it, and the time of the issuer's answer while it is being fetched.
TypeOK ==
    /\ now \in Nat
    /\ published \subseteq Key
    /\ removedAt \in [Key -> Nat \cup {Never}]
    /\ cache \in KeySet
    /\ pc \in [Caller -> Stage]
    /\ token \in [Caller -> Header \cup {NoRequest}]
    /\ \A c \in Caller :
         pc[c] # "idle" \/ acceptedAt[c] # Never \/ c \in missing => token[c] # NoRequest
    /\ copy \in [Caller -> KeySet]
    /\ acceptedAt \in [Caller -> Nat \cup {Never}]
    /\ refreshed \subseteq Caller /\ missing \subseteq Caller
    /\ steady \subseteq Caller /\ overtaken \subseteq Caller

-----------------------------------------------------------------------------
Init ==
    /\ now = 0
    /\ published = {}
    /\ removedAt = [k \in Key |-> Never]
    /\ cache = NoKeys
    /\ pc = [c \in Caller |-> "idle"]
    /\ token = [c \in Caller |-> NoRequest]
    /\ refreshed = {}
    /\ copy = [c \in Caller |-> NoKeys]
    /\ acceptedAt = [c \in Caller |-> Never]
    /\ missing = {} /\ steady = {} /\ overtaken = {}

Goto(c, from, to) == pc[c] = from /\ pc' = [pc EXCEPT ![c] = to]

Issuer == <<published, removedAt>>

Begin(c, t) ==
    /\ Goto(c, "idle", "look")
    /\ token' = [token EXCEPT ![c] = t]
    /\ refreshed' = refreshed \ {c}
    /\ overtaken' = overtaken \ {c}
    /\ missing' = missing \ {c}
    /\ steady' = IF t.signer \in published THEN steady \cup {c} ELSE steady \ {c}
    /\ acceptedAt' = [acceptedAt EXCEPT ![c] = Never]
    /\ UNCHANGED <<now, Issuer, cache, copy>>

\* The request is over, and not for want of a key.
End(c) ==
    /\ pc' = [pc EXCEPT ![c] = "idle"]
    /\ copy' = [copy EXCEPT ![c] = NoKeys]
    /\ refreshed' = refreshed \ {c}
    /\ overtaken' = overtaken \ {c}
    /\ steady' = steady \ {c}
    /\ UNCHANGED missing

Refuse(c) == token' = [token EXCEPT ![c] = NoRequest] /\ UNCHANGED acceptedAt

-----------------------------------------------------------------------------
\* cachedKey: the cache is copied under the read lock and judged by a later clock.

Look(c) ==
    /\ Goto(c, "look", "judge")
    /\ copy' = [copy EXCEPT ![c] = cache]
    /\ UNCHANGED <<now, Issuer, cache, token, refreshed, acceptedAt, missing, steady, overtaken>>

Alive(set) == set.keys # {} /\ now <= set.at

\* The keys that may be the one: by kid, or the only one there is.
Found(c) ==
    IF ~Alive(copy[c]) THEN {}
    ELSE IF token[c].named THEN copy[c].keys \cap {token[c].signer}
    ELSE {k \in copy[c].keys : copy[c].keys = {k}}

\* The signature verifies under the key found; the claims and scopes may not do.
Hit(c) ==
    /\ pc[c] = "judge"
    /\ Found(c) # {}
    /\ \/ /\ token[c].signer \in Found(c)
          /\ acceptedAt' = [acceptedAt EXCEPT ![c] = now]
          /\ UNCHANGED token
       \/ Refuse(c)
    /\ End(c)
    /\ UNCHANGED <<now, Issuer, cache>>

Miss(c) ==
    /\ Goto(c, "judge", "fetch")
    /\ Found(c) = {}
    /\ c \notin refreshed
    /\ copy' = [copy EXCEPT ![c] = NoKeys]
    /\ UNCHANGED <<now, Issuer, cache, token, refreshed, acceptedAt, missing, steady, overtaken>>

NotFound(c) ==
    /\ Goto(c, "judge", "idle")
    /\ Found(c) = {}
    /\ c \in refreshed
    /\ missing' = missing \cup {c}
    /\ UNCHANGED <<now, Issuer, cache, token, refreshed, copy, acceptedAt, steady, overtaken>>

-----------------------------------------------------------------------------
\* refreshJWKS

Answer(c) ==
    /\ Goto(c, "fetch", "store")
    /\ copy' = [copy EXCEPT ![c] = [keys |-> published, at |-> now]]
    /\ UNCHANGED <<now, Issuer, cache, token, refreshed, acceptedAt, missing, steady, overtaken>>

\* A faulty failure: the set at hand is kept alive while the issuer is down.
FetchFailsProlongs(c) ==
    /\ pc[c] \in {"fetch", "store"}
    /\ cache' = IF cache.keys = {} THEN cache ELSE [cache EXCEPT !.at = now + CacheTTL]
    /\ Refuse(c) /\ End(c)
    /\ UNCHANGED <<now, Issuer>>

\* No answer, an error status, or no supported key in it.
FetchFails(c) ==
    /\ pc[c] \in {"fetch", "store"}
    /\ Refuse(c) /\ End(c)
    /\ UNCHANGED <<now, Issuer, cache>>

\* A faulty storing: the first of several overlapping refreshes is kept.
StoreFirst(c) ==
    /\ copy[c].keys # {}
    /\ Goto(c, "store", "look")
    /\ cache' = IF now <= cache.at /\ cache.keys # {} THEN cache
                ELSE [keys |-> copy[c].keys, at |-> now + CacheTTL]
    /\ refreshed' = refreshed \cup {c}
    /\ overtaken' = (overtaken \cup refreshed) \ {c}
    /\ copy' = [copy EXCEPT ![c] = NoKeys]
    /\ UNCHANGED <<now, Issuer, token, acceptedAt, missing, steady>>

\* The set is replaced, be it by an older one.
Store(c) ==
    /\ copy[c].keys # {}
    /\ Goto(c, "store", "look")
    /\ cache' = [keys |-> copy[c].keys, at |-> now + CacheTTL]
    /\ refreshed' = refreshed \cup {c}
    /\ overtaken' = (overtaken \cup refreshed) \ {c}
    /\ copy' = [copy EXCEPT ![c] = NoKeys]
    /\ UNCHANGED <<now, Issuer, token, acceptedAt, missing, steady>>

-----------------------------------------------------------------------------
\* The issuer rotates its keys; a key that was removed does not come back.
Publish(k) ==
    /\ k \notin published /\ removedAt[k] = Never
    /\ published' = published \cup {k}
    /\ UNCHANGED <<now, removedAt, cache, pc, token, refreshed, copy, acceptedAt,
                   missing, steady, overtaken>>

Remove(k) ==
    /\ k \in published
    /\ published' = published \ {k}
    /\ removedAt' = [removedAt EXCEPT ![k] = now]
    /\ steady' = {c \in steady : token[c] # NoRequest /\ token[c].signer # k}
    /\ UNCHANGED <<now, cache, pc, token, refreshed, copy, acceptedAt, missing, overtaken>>

\* The validator's HTTP client gives up after five seconds.
Tick ==
    /\ now < MaxTime
    /\ \A c \in Caller : pc[c] = "store" => now < copy[c].at + MaxLatency
    /\ now' = now + 1
    /\ UNCHANGED <<Issuer, cache, pc, token, refreshed, copy, acceptedAt, missing,
                   steady, overtaken>>

Next ==
    \/ \E c \in Caller :
          \/ \E t \in Header : Begin(c, t)
          \/ Look(c) \/ Hit(c) \/ Miss(c) \/ NotFound(c)
          \/ Answer(c) \/ FetchFails(c) \/ Store(c)
    \/ \E k \in Key : Publish(k) \/ Remove(k)
    \/ Tick

Spec == Init /\ [][Next]_vars

-----------------------------------------------------------------------------
(***************************************************************************)
(* Properties                                                              *)
(***************************************************************************)

\* A key the issuer removed, because it leaked for example, verifies tokens for
\* the cache's TTL and one answer's latency at most, however refreshes overlap,
\* overwrite each other and fail.
RemovedKeysRunOut ==
    \A c \in Caller :
        acceptedAt[c] # Never =>
            LET removed == removedAt[token[c].signer]
            IN  removed # Never => acceptedAt[c] <= removed + MaxLatency + CacheTTL

\* A request that was turned away for want of its key although the issuer had it
\* all along, and that named it, was overtaken: another request's refresh replaced
\* its own before the second look, or its own had already run out.
MissingKeyIsExplained ==
    \A c \in Caller :
        c \in missing /\ token[c].named /\ c \in steady
          => c \in overtaken \/ now > copy[c].at
=============================================================================
