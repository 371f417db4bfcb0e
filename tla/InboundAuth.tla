----------------------------- MODULE InboundAuth -----------------------------
(***************************************************************************)
(* The validator of inbound bearer tokens.  buildValidator in              *)
(* cmd/mcp-server/main.go makes one of the two, by configuration, for the  *)
(* life of the process; the middleware gives it every request.             *)
(***************************************************************************)
EXTENDS Integers

CONSTANTS
    Caller, NoRequest, Key, Token, Exp, NoExp,   \* as in JWKS and Introspection
    JWKSCacheTTL, IntrospectionCacheTTL,
    MaxLatency, MaxTime

VARIABLES
    mode,   \* cfg.OAuthMode()
    now,
    \* of JWKS
    published, removedAt, keyCache, jwtPc, jwt, refreshed, keyCopy, jwtAcceptedAt,
    missing, steady, overtaken,
    \* of Introspection
    revokedAt, deadline, opaquePc, opaque, deadlineCopy, answeredAt, opaqueAcceptedAt

jwtVars    == <<published, removedAt, keyCache, jwtPc, jwt, refreshed, keyCopy,
                jwtAcceptedAt, missing, steady, overtaken>>
opaqueVars == <<revokedAt, deadline, opaquePc, opaque, deadlineCopy, answeredAt,
                opaqueAcceptedAt>>
vars       == <<mode, now, jwtVars, opaqueVars>>

Jwks == INSTANCE JWKS WITH
    CacheTTL <- JWKSCacheTTL, cache <- keyCache, pc <- jwtPc, token <- jwt,
    copy <- keyCopy, acceptedAt <- jwtAcceptedAt

Introspect == INSTANCE Introspection WITH
    CacheTTL <- IntrospectionCacheTTL, pc <- opaquePc, token <- opaque,
    copy <- deadlineCopy, acceptedAt <- opaqueAcceptedAt

ASSUME InboundAuthAssumption == Jwks!JWKSAssumption /\ Introspect!IntrospectionAssumption

\* Both components keep their types.
TypeOK == mode \in {"jwks", "introspection"} /\ Jwks!TypeOK /\ Introspect!TypeOK

Init ==
    /\ mode \in {"jwks", "introspection"}
    /\ Jwks!Init
    /\ Introspect!Init

ValidateJWT ==
    /\ mode = "jwks"
    /\ Jwks!Next
    /\ UNCHANGED <<mode, opaqueVars>>

ValidateOpaque ==
    /\ mode = "introspection"
    /\ Introspect!Next
    /\ UNCHANGED <<mode, jwtVars>>

Next == ValidateJWT \/ ValidateOpaque

Spec == Init /\ [][Next]_vars

-----------------------------------------------------------------------------
(***************************************************************************)
(* Properties                                                              *)
(***************************************************************************)

\* What the issuer takes back is accepted for a bounded time: a removed signing key
\* by the JWKS validator, a revoked token by the introspecting one, both in spite
\* of overlapping fetches whose answers are stored in any order.
RemovedKeysRunOut   == Jwks!RemovedKeysRunOut
RevokedTokensRunOut == Introspect!RevokedTokensRunOut

\* A token is never let in after its own exp, cached or not.
NeverAfterExp == Introspect!NeverAfterExp

\* A rotation turns a request away only when another request's refresh got between
\* the storing of its own and its second look at the cache, or that took a TTL.
MissingKeyIsExplained == Jwks!MissingKeyIsExplained
=============================================================================
