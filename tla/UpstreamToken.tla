---------------------------- MODULE UpstreamToken ----------------------------
(***************************************************************************)
(* The cache of the OAuth client-credentials token,                        *)
(* internal/upstreamauth/oauth_client_credentials.go.  Each call of        *)
(* swagger.http.execute asks for a token in a goroutine of its own: it     *)
(* reads the clock, looks at the cache under the mutex, and fetches a      *)
(* token without the mutex if there is none or it is over.  Fetches        *)
(* overlap, and their answers are stored in any order.                     *)
(***************************************************************************)
EXTENDS Integers

CONSTANTS
    Call,
    Lifetime,      \* lifetimes the token endpoint may grant, in ticks
    CacheTTL,      \* UPSTREAM_OAUTH_TOKEN_CACHE_TTL, 0 to follow expires_in
    Margin,        \* defaultTokenSafetyMargin
    Floor,         \* the five seconds that a token is always kept
    Default,       \* the fifty seconds without a usable expires_in
    MaxDuration,   \* the largest time.Duration
    FetchLatency,  \* bound: ticks from the issue of a token to its storing
    MaxClock       \* bound of the clock

ASSUME UpstreamTokenAssumption ==
    /\ Lifetime \subseteq Nat
    /\ {CacheTTL, FetchLatency, MaxClock} \subseteq Nat
    /\ {Margin, Floor, Default, MaxDuration} \subseteq Nat \ {0}

VARIABLES
    clock,     \* the clock
    pc,
    readAt,    \* when each call read the clock
    cached,    \* p.cached: the token and its deadline
    fetched,   \* the answer of the token endpoint to each call
    handed     \* what each caller's last call returned: the token, and the
               \* reading of the clock by which it was still good

tokenVars == <<clock, pc, readAt, cached, fetched, handed>>

\* A token is what the endpoint knows of it: its lifetime, whether the answer
\* stated that as expires_in, and when it was issued.
Grant   == [life: Lifetime, stated: BOOLEAN, issuedAt: Nat]
NoToken == [life |-> 0, stated |-> FALSE, issuedAt |-> -1]
Empty   == [token |-> NoToken, expiresAt |-> 0]
Nothing == [token |-> NoToken, goodAt |-> 0]

Stage == {"idle", "look", "fetch", "store"}

\* The type invariant of the cache and of the calls of token().
TokenTypeOK ==
    /\ clock \in Nat
    /\ pc \in [Call -> Stage]
    /\ readAt \in [Call -> Nat]
    /\ cached \in [token: Grant \cup {NoToken}, expiresAt: Nat]
    /\ fetched \in [Call -> Grant \cup {NoToken}]
    /\ handed \in [Call -> [token: Grant \cup {NoToken}, goodAt: Nat]]

-----------------------------------------------------------------------------
(***************************************************************************)
(* How long an answer is kept                                              *)
(***************************************************************************)

\* parseExpiresIn: absent or unreadable is zero.  A lifetime beyond the largest
\* Duration overflows in the conversion or in the product with time.Second, with
\* any result; -1 stands for every negative one.
parseExpiresIn(token) ==
    IF ~token.stated THEN {0}
    ELSE IF token.life <= MaxDuration THEN {token.life}
    ELSE -1 .. MaxDuration

AtLeast(bound, ttl) == IF ttl < bound THEN bound ELSE ttl

\* A faulty derivation: negative results pass, and there is no floor.
deriveTTLUnfloored(expiresIn) == IF expiresIn = 0 THEN Default ELSE expiresIn - Margin

deriveTTL(expiresIn) ==
    IF expiresIn <= 0 THEN Default ELSE AtLeast(Floor, expiresIn - Margin)

TTLs(token) ==
    IF CacheTTL > 0 THEN {CacheTTL} ELSE {deriveTTL(e) : e \in parseExpiresIn(token)}

-----------------------------------------------------------------------------
TokenInit ==
    /\ clock = 0
    /\ pc = [c \in Call |-> "idle"]
    /\ readAt = [c \in Call |-> 0]
    /\ cached = Empty
    /\ fetched = [c \in Call |-> NoToken]
    /\ handed = [c \in Call |-> Nothing]

Goto(c, from, to) == pc[c] = from /\ pc' = [pc EXCEPT ![c] = to]

ReadClock(c) ==
    /\ Goto(c, "idle", "look")
    /\ readAt' = [readAt EXCEPT ![c] = clock]
    /\ handed' = [handed EXCEPT ![c] = Nothing]
    /\ UNCHANGED <<clock, cached, fetched>>

Usable(c) == cached.token # NoToken /\ readAt[c] < cached.expiresAt

Hit(c) ==
    /\ Usable(c)
    /\ Goto(c, "look", "idle")
    /\ handed' = [handed EXCEPT ![c] = [token |-> cached.token, goodAt |-> readAt[c]]]
    /\ readAt' = [readAt EXCEPT ![c] = 0]
    /\ UNCHANGED <<clock, cached, fetched>>

Miss(c) ==
    /\ ~Usable(c)
    /\ Goto(c, "look", "fetch")
    /\ readAt' = [readAt EXCEPT ![c] = 0]
    /\ UNCHANGED <<clock, cached, fetched, handed>>

\* The token endpoint issues a token; its answer is on the way.
Issue(c, life, stated) ==
    /\ Goto(c, "fetch", "store")
    /\ fetched' = [fetched EXCEPT ![c] =
                     [life |-> life, stated |-> stated, issuedAt |-> clock]]
    /\ UNCHANGED <<clock, readAt, cached, handed>>

\* No answer, an error status, or an answer without a token.
FetchFails(c) ==
    /\ pc[c] \in {"fetch", "store"}
    /\ pc' = [pc EXCEPT ![c] = "idle"]
    /\ fetched' = [fetched EXCEPT ![c] = NoToken]
    /\ UNCHANGED <<clock, readAt, cached, handed>>

\* A faulty merge: the later deadline is kept, whichever token it belongs to.
StoreLongest(c) ==
    \E ttl \in TTLs(fetched[c]) :
        /\ Goto(c, "store", "idle")
        /\ cached' = [token |-> fetched[c], expiresAt |-> AtLeast(cached.expiresAt, clock + ttl)]
        /\ handed' = [handed EXCEPT ![c] = [token |-> fetched[c], goodAt |-> clock]]
        /\ fetched' = [fetched EXCEPT ![c] = NoToken]
        /\ UNCHANGED <<clock, readAt>>

\* Whatever is cached by now is replaced, be it a newer token.
Store(c) ==
    \E ttl \in TTLs(fetched[c]) :
        /\ Goto(c, "store", "idle")
        /\ cached' = [token |-> fetched[c], expiresAt |-> clock + ttl]
        /\ handed' = [handed EXCEPT ![c] = [token |-> fetched[c], goodAt |-> clock]]
        /\ fetched' = [fetched EXCEPT ![c] = NoToken]
        /\ UNCHANGED <<clock, readAt>>

\* No answer is on the way for more than MaxLatency: the provider's HTTP client
\* gives up after ten seconds.
Tick ==
    /\ clock < MaxClock
    /\ \A c \in Call : pc[c] = "store" => clock < fetched[c].issuedAt + FetchLatency
    /\ clock' = clock + 1
    /\ UNCHANGED <<pc, readAt, cached, fetched, handed>>

TokenNext ==
    \/ \E c \in Call :
          \/ ReadClock(c) \/ Hit(c) \/ Miss(c)
          \/ FetchFails(c) \/ Store(c)
          \/ \E life \in Lifetime, stated \in BOOLEAN : Issue(c, life, stated)
    \/ Tick

TokenSpec == TokenInit /\ [][TokenNext]_tokenVars

-----------------------------------------------------------------------------
(***************************************************************************)
(* Properties                                                              *)
(***************************************************************************)

\* The tokens the cache is made for: their lifetime was stated and is long enough
\* for the margin and the floor, no setting overrides it, and answers arrive
\* within the margin.
Cacheable(token) ==
    /\ CacheTTL = 0 /\ FetchLatency <= Margin
    /\ token.stated /\ token.life >= Margin + Floor

\* Unless an unusable expires_in, read as the default, makes it short.
LongEnough(token) == token.life <= MaxDuration \/ token.life >= Default + FetchLatency

Dies(token) == token.issuedAt + token.life

\* token() never returns a token that was already over at the token endpoint when
\* it was judged good, although fetches overlap and an older answer may replace a
\* newer one: the deadline that is tested is the returned token's own.
NoDeadToken ==
    \A c \in Call :
        LET token == handed[c].token
        IN  token # NoToken /\ Cacheable(token) /\ LongEnough(token)
              => handed[c].goodAt < Dies(token)
=============================================================================
