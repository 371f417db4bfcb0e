----------------------------- MODULE TokenProofs -----------------------------
(***************************************************************************)
(* Theorems about the tokens that the server is shown, for either          *)
(* validator, every number of requests, keys and tokens, every TTL and     *)
(* every bound on the latency, and about the token that it shows itself,   *)
(* for every number of calls and every lifetime.                           *)
(*                                                                         *)
(* In either mode the other validator is not there: its variables keep     *)
(* their values.                                                           *)
(***************************************************************************)
EXTENDS InboundAuth, UpstreamToken, TLAPS

LEMMA ConstantTypes ==
    /\ NoExp \notin Nat /\ NoRequest \notin Token /\ NoRequest \notin Jwks!Header
    /\ Exp \in [Token -> Nat \cup {NoExp}]
    /\ JWKSCacheTTL \in Nat /\ IntrospectionCacheTTL \in Nat
    /\ MaxLatency \in Nat /\ MaxTime \in Nat
  BY InboundAuthAssumption DEF Jwks!JWKSAssumption, Introspect!IntrospectionAssumption

-----------------------------------------------------------------------------
(***************************************************************************)
(* Introspection                                                           *)
(***************************************************************************)

\* A time at which the token may still be let in.
InTime(t, at) ==
    /\ revokedAt[t] # -1 => at <= revokedAt[t] + MaxLatency + IntrospectionCacheTTL
    /\ Exp[t] # NoExp => at <= Exp[t]

\* A deadline made by now and good for its token.
Sound(t, at) == at <= now + IntrospectionCacheTTL /\ InTime(t, at)

RevokedByNow == \A t \in Token : revokedAt[t] <= now

DeadlinesSound == \A t \in Token : Sound(t, deadline[t])

CopiesSound == \A c \in Caller :
    opaquePc[c] = "judge" => Sound(opaque[c], deadlineCopy[c])

\* An answer on its way is recent, and from before the revocation.
AnswersRecent == \A c \in Caller : opaquePc[c] \in {"claims", "store"} =>
    /\ answeredAt[c] <= now /\ now <= answeredAt[c] + MaxLatency
    /\ revokedAt[opaque[c]] # -1 => answeredAt[c] <= revokedAt[opaque[c]]

AcceptedInTime == \A c \in Caller : opaqueAcceptedAt[c] # -1 =>
    opaqueAcceptedAt[c] <= now /\ InTime(opaque[c], opaqueAcceptedAt[c])

\* The endpoint's word is what a request without an entry waits for.
NotYetAccepted == \A c \in Caller :
    opaquePc[c] \in {"look", "judge", "evict", "ask", "claims"} => opaqueAcceptedAt[c] = -1

OInv == /\ Introspect!TypeOK /\ NotYetAccepted
        /\ RevokedByNow /\ DeadlinesSound /\ CopiesSound /\ AnswersRecent /\ AcceptedInTime

\* Every step below needs every conjunct, so they are in sight in this section.
USE DEF Introspect!Never, Introspect!Absent, OInv, NotYetAccepted, Introspect!TypeOK,
    Introspect!Stage, RevokedByNow, DeadlinesSound, CopiesSound, AnswersRecent,
    AcceptedInTime, Sound, InTime, Introspect!Goto

LEMMA InitOInv == Introspect!Init => OInv
  BY ConstantTypes DEF Introspect!Init

\* The steps up to the answer of the endpoint: no deadline changes but by deletion.
LEMMA LookOInv ==
    ASSUME OInv, NEW c \in Caller,
           \/ \E t \in Token : Introspect!Begin(c, t)
           \/ Introspect!Look(c) \/ Introspect!JudgeStale(c) \/ Introspect!Evict(c)
    PROVE  OInv'
  <1>1. CASE \E t \in Token : Introspect!Begin(c, t)
    BY <1>1, ConstantTypes DEF Introspect!Begin
  <1>2. CASE Introspect!Look(c)
    BY <1>2, ConstantTypes DEF Introspect!Look
  <1>3. CASE Introspect!JudgeStale(c)
    BY <1>3, ConstantTypes DEF Introspect!JudgeStale
  <1>4. CASE Introspect!Evict(c)
    <2>1. opaque[c] \in Token
      BY <1>4, ConstantTypes DEF Introspect!Evict, Introspect!Goto, OInv,
         Introspect!TypeOK
    <2>2. /\ now \in Nat /\ IntrospectionCacheTTL \in Nat /\ MaxLatency \in Nat
          /\ revokedAt[opaque[c]] \in Nat \cup {-1} /\ Exp[opaque[c]] \in Nat \cup {NoExp}
      BY <2>1, ConstantTypes DEF OInv, Introspect!TypeOK
    <2>3. Sound(opaque[c], -1)
      BY <2>2 DEF Sound, InTime
    <2>4. deadline' = [deadline EXCEPT ![opaque[c]] = -1] /\ DeadlinesSound'
      BY <1>4, <2>1, <2>3 DEF Introspect!Evict
    <2>5. QED
      BY <1>4, <2>1, <2>3, <2>4, ConstantTypes DEF Introspect!Evict
  <1>5. QED
    BY <1>1, <1>2, <1>3, <1>4

\* A copied deadline that has not passed lets the request in in time.
LEMMA HitOInv ==
    ASSUME OInv, NEW c \in Caller, Introspect!Hit(c)
    PROVE  OInv'
  BY ConstantTypes DEF Introspect!Hit, Introspect!Stale, Introspect!Accept,
     Introspect!Forget

LEMMA AnswerOInv ==
    ASSUME OInv, NEW c \in Caller,
           Introspect!Answer(c) \/ Introspect!Reject(c) \/ Introspect!ClaimsPass(c)
    PROVE  OInv'
  <1>1. CASE Introspect!Answer(c)
    BY <1>1, ConstantTypes DEF Introspect!Answer
  <1>2. CASE Introspect!Reject(c)
    BY <1>2, ConstantTypes DEF Introspect!Reject, Introspect!Forget
  <1>3. CASE Introspect!ClaimsPass(c)
    BY <1>3, ConstantTypes DEF Introspect!ClaimsPass, Introspect!Accept
  <1>4. QED
    BY <1>1, <1>2, <1>3

LEMMA StoreOInv ==
    ASSUME OInv, NEW c \in Caller, Introspect!Store(c)
    PROVE  OInv'
  <1>1. opaque[c] \in Token /\ opaquePc[c] = "store"
    BY ConstantTypes DEF Introspect!Store, Introspect!Goto, OInv, NotYetAccepted,
       Introspect!TypeOK
  <1>2. Introspect!Deadline(opaque[c]) \in Nat /\ Sound(opaque[c], Introspect!Deadline(opaque[c]))
    BY <1>1, ConstantTypes DEF Introspect!Deadline
  <1>3. QED
    BY <1>1, <1>2, ConstantTypes DEF Introspect!Store, Introspect!Forget

\* Revocation and time.
LEMMA IssuerOInv ==
    ASSUME OInv, (\E t \in Token : Introspect!Revoke(t)) \/ Introspect!Tick
    PROVE  OInv'
  <1>1. CASE \E t \in Token : Introspect!Revoke(t)
    BY <1>1, ConstantTypes DEF Introspect!Revoke
  <1>2. CASE Introspect!Tick
    BY <1>2, ConstantTypes DEF Introspect!Tick
  <1>3. QED
    BY <1>1, <1>2

HIDE DEF OInv, NotYetAccepted, Introspect!TypeOK, Introspect!Stage, RevokedByNow,
    DeadlinesSound, CopiesSound, AnswersRecent, AcceptedInTime, Sound, InTime,
    Introspect!Goto

LEMMA NextOInv == OInv /\ Introspect!Next => OInv'
  BY LookOInv, HitOInv, AnswerOInv, StoreOInv, IssuerOInv DEF Introspect!Next

-----------------------------------------------------------------------------
(***************************************************************************)
(* Key sets                                                                *)
(***************************************************************************)

\* A time at which the key may still be used.
KeyInTime(k, at) == removedAt[k] # -1 => at <= removedAt[k] + MaxLatency + JWKSCacheTTL

\* A set with a deadline made by now and good for each of its keys.
SoundSet(set) == /\ set.at <= now + JWKSCacheTTL
                 /\ \A k \in set.keys : KeyInTime(k, set.at)

KeysRemovedByNow == /\ \A k \in Key : removedAt[k] <= now
                    /\ \A k \in published : removedAt[k] = -1

KeyCopiesSound == \A c \in Caller : jwtPc[c] = "judge" => SoundSet(keyCopy[c])

\* An answer on its way is recent, and from before its keys were removed.
SetsRecent == \A c \in Caller : jwtPc[c] = "store" =>
    /\ keyCopy[c].at <= now /\ now <= keyCopy[c].at + MaxLatency
    /\ \A k \in keyCopy[c].keys : removedAt[k] # -1 => keyCopy[c].at <= removedAt[k]

KeysAcceptedInTime == \A c \in Caller : jwtAcceptedAt[c] # -1 =>
    jwtAcceptedAt[c] <= now /\ KeyInTime(jwt[c].signer, jwtAcceptedAt[c])

NotYetOver == \A c \in Caller : jwtPc[c] # "idle" => jwtAcceptedAt[c] = -1 /\ c \notin missing

\* A key that stays published is in what the request fetched and stored, and in the
\* cache until another request stores something else.
SteadyKeyFound == \A c \in steady :
    /\ jwtPc[c] # "idle" => jwt[c].signer \in published
    /\ jwtPc[c] = "store" => jwt[c].signer \in keyCopy[c].keys
    /\ jwtPc[c] = "look" /\ c \in refreshed \ overtaken => jwt[c].signer \in keyCache.keys
    /\ jwtPc[c] = "judge" /\ c \in refreshed \ overtaken => jwt[c].signer \in keyCopy[c].keys

JInv == /\ Jwks!TypeOK /\ NotYetOver
        /\ KeysRemovedByNow /\ SoundSet(keyCache) /\ KeyCopiesSound /\ SetsRecent
        /\ KeysAcceptedInTime
        /\ SteadyKeyFound /\ MissingKeyIsExplained

\* As above.
USE DEF Jwks!Never, JInv, Jwks!TypeOK, Jwks!Stage, Jwks!KeySet, Jwks!NoKeys,
    Jwks!Header, NotYetOver, KeysRemovedByNow, SoundSet, KeyInTime, KeyCopiesSound,
    SetsRecent, KeysAcceptedInTime, SteadyKeyFound, MissingKeyIsExplained,
    Jwks!MissingKeyIsExplained, Jwks!Goto, Jwks!Issuer

LEMMA InitJInv == Jwks!Init => JInv
  BY ConstantTypes DEF Jwks!Init

\* Looking a key up, and giving up.
LEMMA LookJInv ==
    ASSUME JInv, NEW c \in Caller,
           \/ \E t \in Jwks!Header : Jwks!Begin(c, t)
           \/ Jwks!Look(c) \/ Jwks!Miss(c) \/ Jwks!NotFound(c)
    PROVE  JInv'
  <1>1. CASE \E t \in Jwks!Header : Jwks!Begin(c, t)
    BY <1>1, ConstantTypes DEF Jwks!Begin
  <1>2. CASE Jwks!Look(c)
    BY <1>2, ConstantTypes DEF Jwks!Look
  <1>3. CASE Jwks!Miss(c)
    BY <1>3, ConstantTypes DEF Jwks!Miss
  <1>4. CASE Jwks!NotFound(c)
    BY <1>4, ConstantTypes DEF Jwks!NotFound, Jwks!Found, Jwks!Alive
  <1>5. QED
    BY <1>1, <1>2, <1>3, <1>4

LEMMA HitJInv ==
    ASSUME JInv, NEW c \in Caller, Jwks!Hit(c)
    PROVE  JInv'
  <1>1. /\ jwtPc[c] = "judge" /\ Jwks!End(c) /\ UNCHANGED <<now, Jwks!Issuer, keyCache>>
    BY DEF Jwks!Hit
  <1>2. CASE Jwks!Refuse(c)
    BY <1>1, <1>2, ConstantTypes DEF Jwks!Refuse, Jwks!End
  <1>3. CASE /\ jwt[c].signer \in Jwks!Found(c)
             /\ jwtAcceptedAt' = [jwtAcceptedAt EXCEPT ![c] = now]
             /\ UNCHANGED jwt
    <2>1. KeyInTime(jwt[c].signer, now) /\ jwt[c] # NoRequest
      <3>1. jwt[c] \in Jwks!Header /\ keyCopy[c] \in Jwks!KeySet
        BY <1>1 DEF JInv, Jwks!TypeOK
      <3>2. jwt[c].signer \in keyCopy[c].keys /\ now <= keyCopy[c].at
        BY <1>3 DEF Jwks!Found, Jwks!Alive
      <3>3. now \in Nat /\ keyCopy[c].at \in Nat /\ removedAt[jwt[c].signer] \in Nat \cup {-1}
        BY <3>1 DEF JInv, Jwks!TypeOK, Jwks!Header, Jwks!KeySet
      <3>4. KeyInTime(jwt[c].signer, keyCopy[c].at)
        BY <1>1, <3>2 DEF JInv, KeyCopiesSound, SoundSet
      <3>5. QED
        BY <3>1, <3>2, <3>3, <3>4, ConstantTypes DEF KeyInTime
    <2>2. QED
      BY <1>1, <1>3, <2>1, ConstantTypes DEF Jwks!End
  <1>4. QED
    BY <1>2, <1>3 DEF Jwks!Hit

\* Fetching a set.
LEMMA FetchJInv ==
    ASSUME JInv, NEW c \in Caller,
           Jwks!Answer(c) \/ Jwks!FetchFails(c) \/ Jwks!Store(c)
    PROVE  JInv'
  <1>1. CASE Jwks!Answer(c)
    BY <1>1, ConstantTypes DEF Jwks!Answer
  <1>2. CASE Jwks!FetchFails(c)
    BY <1>2, ConstantTypes DEF Jwks!FetchFails, Jwks!End, Jwks!Refuse
  <1>3. CASE Jwks!Store(c)
    BY <1>3, ConstantTypes DEF Jwks!Store
  <1>4. QED
    BY <1>1, <1>2, <1>3

\* Rotation and time.
LEMMA IssuerJInv ==
    ASSUME JInv, (\E k \in Key : Jwks!Publish(k) \/ Jwks!Remove(k)) \/ Jwks!Tick
    PROVE  JInv'
  <1>1. CASE \E k \in Key : Jwks!Publish(k)
    BY <1>1, ConstantTypes DEF Jwks!Publish
  <1>2. CASE \E k \in Key : Jwks!Remove(k)
    BY <1>2, ConstantTypes DEF Jwks!Remove
  <1>3. CASE Jwks!Tick
    BY <1>3, ConstantTypes DEF Jwks!Tick
  <1>4. QED
    BY <1>1, <1>2, <1>3

HIDE DEF JInv, Jwks!TypeOK, Jwks!Stage, Jwks!KeySet, Jwks!NoKeys, Jwks!Header,
    NotYetOver, KeysRemovedByNow, SoundSet, KeyInTime, KeyCopiesSound, SetsRecent,
    KeysAcceptedInTime, SteadyKeyFound, MissingKeyIsExplained,
    Jwks!MissingKeyIsExplained, Jwks!Goto, Jwks!Issuer

LEMMA NextJInv == JInv /\ Jwks!Next => JInv'
  BY LookJInv, HitJInv, FetchJInv, IssuerJInv DEF Jwks!Next

-----------------------------------------------------------------------------
(***************************************************************************)
(* Both                                                                    *)
(***************************************************************************)

\* The validator that was not made has no requests.
NoJWTs    == \A c \in Caller : jwtPc[c] = "idle"
NoOpaques == \A c \in Caller : opaquePc[c] = "idle"

IInv == /\ mode \in {"jwks", "introspection"}
        /\ JInv /\ OInv
        /\ mode = "jwks" => NoOpaques
        /\ mode = "introspection" => NoJWTs

LEMMA InitIInv == Init => IInv
  BY InitJInv, InitOInv DEF Init, IInv, NoJWTs, NoOpaques, Jwks!Init, Introspect!Init

\* The clock does not go back.
LEMMA ClockAdvances ==
    ASSUME now \in Nat, Jwks!Next \/ Introspect!Next
    PROVE  now' \in Nat /\ now <= now'
  BY DEF Jwks!Next, Jwks!Begin, Jwks!Look, Jwks!Hit, Jwks!Miss, Jwks!NotFound,
     Jwks!Answer, Jwks!FetchFails, Jwks!Store, Jwks!Publish, Jwks!Remove, Jwks!Tick,
     Introspect!Next, Introspect!Begin, Introspect!Look, Introspect!Hit,
     Introspect!JudgeStale, Introspect!Evict, Introspect!Answer, Introspect!Reject,
     Introspect!ClaimsPass, Introspect!Store, Introspect!Revoke, Introspect!Tick

\* Without requests, time and the other validator disturb nothing.
LEMMA RestOInv ==
    ASSUME OInv, NoOpaques, now' \in Nat, now <= now', UNCHANGED opaqueVars
    PROVE  OInv' /\ NoOpaques'
  BY ConstantTypes DEF opaqueVars, NoOpaques, OInv, NotYetAccepted, Introspect!TypeOK,
     RevokedByNow, DeadlinesSound, CopiesSound, AnswersRecent, AcceptedInTime, Sound,
     InTime

LEMMA RestJInv ==
    ASSUME JInv, NoJWTs, now' \in Nat, now <= now', UNCHANGED jwtVars
    PROVE  JInv' /\ NoJWTs'
  BY ConstantTypes DEF jwtVars, NoJWTs, JInv, Jwks!TypeOK, Jwks!KeySet, NotYetOver,
     KeysRemovedByNow, SoundSet, KeyInTime, KeyCopiesSound, SetsRecent,
     KeysAcceptedInTime, SteadyKeyFound, MissingKeyIsExplained,
     Jwks!MissingKeyIsExplained

\* The inductive invariant of inbound authentication.
THEOREM Invariance == Spec => []IInv
  <1>1. ASSUME IInv, [Next]_vars
        PROVE  IInv'
    <2>1. now \in Nat
      BY <1>1 DEF IInv, OInv, Introspect!TypeOK
    <2>2. CASE ValidateJWT
      <3>1. mode = "jwks" /\ mode' = mode /\ Jwks!Next /\ UNCHANGED opaqueVars
        BY <2>2 DEF ValidateJWT
      <3>2. JInv'
        BY <1>1, <3>1, NextJInv DEF IInv
      <3>3. OInv' /\ NoOpaques'
        BY <1>1, <2>1, <3>1, ClockAdvances, RestOInv DEF IInv
      <3>4. QED
        BY <3>1, <3>2, <3>3 DEF IInv
    <2>3. CASE ValidateOpaque
      <3>1. mode = "introspection" /\ mode' = mode /\ Introspect!Next /\ UNCHANGED jwtVars
        BY <2>3 DEF ValidateOpaque
      <3>2. OInv'
        BY <1>1, <3>1, NextOInv DEF IInv
      <3>3. JInv' /\ NoJWTs'
        BY <1>1, <2>1, <3>1, ClockAdvances, RestJInv DEF IInv
      <3>4. QED
        BY <3>1, <3>2, <3>3 DEF IInv
    <2>4. CASE UNCHANGED vars
      <3>1. UNCHANGED <<mode, now, jwtVars, opaqueVars>>
        BY <2>4 DEF vars
      <3>2. IInv'
        BY <1>1, <3>1 DEF jwtVars, opaqueVars, IInv, NoJWTs, NoOpaques, JInv,
           OInv, NotYetAccepted, Introspect!TypeOK, RevokedByNow,
           DeadlinesSound, CopiesSound, AnswersRecent, AcceptedInTime, Sound,
           InTime, Jwks!TypeOK, NotYetOver, KeysRemovedByNow, SoundSet,
           KeyInTime, KeyCopiesSound, SetsRecent, KeysAcceptedInTime,
           SteadyKeyFound, MissingKeyIsExplained, Jwks!MissingKeyIsExplained
      <3>3. QED
        BY <3>2
    <2>5. QED
      BY <1>1, <2>2, <2>3, <2>4 DEF Next
  <1>2. QED
    BY InitIInv, <1>1, PTL DEF Spec

\* Both validators keep their types.
THEOREM TypeCorrect == Spec => []TypeOK
  <1>1. IInv => TypeOK
    BY DEF IInv, JInv, OInv, TypeOK
  <1>2. QED
    BY <1>1, Invariance, PTL

\* A signing key that the issuer removed lets requests in for a TTL and a latency at
\* most, however refreshes overlap and fail.
THEOREM RemovalTakesEffect == Spec => []RemovedKeysRunOut
  <1>1. IInv => RemovedKeysRunOut
    BY DEF IInv, JInv, RemovedKeysRunOut, Jwks!RemovedKeysRunOut,
       KeysAcceptedInTime, KeyInTime
  <1>2. QED
    BY <1>1, Invariance, PTL

\* A request whose named key was published all along is turned away only if another
\* refresh was stored after its own, or its own ran out.
THEOREM OnlyOverlapsMissKeys == Spec => []MissingKeyIsExplained
  <1>1. IInv => MissingKeyIsExplained
    BY DEF IInv, JInv
  <1>2. QED
    BY <1>1, Invariance, PTL

\* A revoked token is let in for a TTL and a latency at most.
THEOREM RevocationTakesEffect == Spec => []RevokedTokensRunOut
  <1>1. IInv => RevokedTokensRunOut
    BY DEF IInv, OInv, RevokedTokensRunOut, Introspect!RevokedTokensRunOut,
       AcceptedInTime, InTime
  <1>2. QED
    BY <1>1, Invariance, PTL

\* No token is let in after its exp, cached or not.
THEOREM ExpiryIsKept == Spec => []NeverAfterExp
  <1>1. IInv => NeverAfterExp
    BY DEF IInv, OInv, NeverAfterExp, Introspect!NeverAfterExp, AcceptedInTime,
       InTime
  <1>2. QED
    BY <1>1, Invariance, PTL

-----------------------------------------------------------------------------
(***************************************************************************)
(* The upstream token                                                      *)
(***************************************************************************)

\* The tokens that NoDeadToken speaks of.
Kept(token) == token # NoToken /\ Cacheable(token) /\ LongEnough(token)

\* The deadline in the cache is no later than the end of the token it is for.
DeadlineIsTheTokens == Kept(cached.token) => cached.expiresAt <= Dies(cached.token)

\* An answer on the way was issued, and not long ago.
AnswersAreRecent ==
    \A c \in Call : pc[c] = "store" =>
        /\ fetched[c] \in Grant
        /\ fetched[c].issuedAt <= clock
        /\ clock <= fetched[c].issuedAt + FetchLatency

TokenInv == TokenTypeOK /\ DeadlineIsTheTokens /\ AnswersAreRecent /\ NoDeadToken

LEMMA TokenConstants ==
    /\ CacheTTL \in Nat /\ FetchLatency \in Nat /\ MaxClock \in Nat
    /\ Margin \in Nat /\ Margin > 0 /\ Floor \in Nat /\ Floor > 0
    /\ Default \in Nat /\ Default > 0 /\ MaxDuration \in Nat /\ MaxDuration > 0
    /\ \A life \in Lifetime : life \in Nat
  BY UpstreamTokenAssumption

LEMMA NoTokenIsNoToken == NoToken \notin Grant
  BY DEF NoToken, Grant

\* However expires_in reads, an answer is kept for some time.
LEMMA TTLsPositive ==
    ASSUME NEW token \in Grant, NEW ttl \in TTLs(token)
    PROVE  ttl \in Nat /\ ttl > 0
PROOF
  <1>1. \A e \in parseExpiresIn(token) : e \in Int
    BY TokenConstants DEF parseExpiresIn, Grant
  <1>2. \A e \in Int : deriveTTL(e) \in Nat /\ deriveTTL(e) > 0
    BY TokenConstants DEF deriveTTL, AtLeast
  <1>3. QED
    BY <1>1, <1>2, TokenConstants DEF TTLs

\* A token the cache is made for is kept for less than its life: by the margin, or,
\* if its Duration overflowed, by what the default leaves of it.
LEMMA TTLsShort ==
    ASSUME NEW token \in Grant, Kept(token), NEW ttl \in TTLs(token)
    PROVE  ttl + FetchLatency <= token.life
PROOF
  <1>1. /\ CacheTTL = 0 /\ FetchLatency <= Margin /\ token.stated
        /\ token.life >= Margin + Floor
        /\ token.life <= MaxDuration \/ token.life >= Default + FetchLatency
        /\ token.life \in Nat
    BY TokenConstants DEF Kept, Cacheable, LongEnough, Grant
  <1>2. PICK e \in parseExpiresIn(token) : ttl = deriveTTL(e)
    BY <1>1 DEF TTLs
  <1>3. CASE token.life <= MaxDuration
    <2>1. e = token.life
      BY <1>1, <1>2, <1>3 DEF parseExpiresIn
    <2>2. QED
      BY <1>1, <1>2, <2>1, TokenConstants DEF deriveTTL, AtLeast
  <1>4. CASE token.life > MaxDuration
    <2>1. e \in -1 .. MaxDuration
      BY <1>1, <1>2, <1>4, TokenConstants DEF parseExpiresIn
    <2>2. QED
      BY <1>1, <1>2, <1>4, <2>1, TokenConstants DEF deriveTTL, AtLeast
  <1>5. QED
    BY <1>1, <1>3, <1>4, TokenConstants

LEMMA TokenInitially == TokenInit => TokenInv
PROOF
  <1> SUFFICES ASSUME TokenInit PROVE TokenInv
    OBVIOUS
  <1>1. TokenTypeOK
    BY DEF TokenInit, TokenTypeOK, Empty, Nothing, Stage
  <1>2. DeadlineIsTheTokens /\ AnswersAreRecent /\ NoDeadToken
    BY DEF TokenInit, DeadlineIsTheTokens, Kept, AnswersAreRecent, NoDeadToken, Empty, Nothing
  <1>3. QED
    BY <1>1, <1>2 DEF TokenInv

\* What a call does on its own, up to the answer of the token endpoint.
LEMMA LookStep ==
    ASSUME TokenInv, NEW c \in Call, ReadClock(c) \/ Hit(c) \/ Miss(c) \/ FetchFails(c)
    PROVE  TokenInv'
PROOF
  <1> USE DEF TokenInv
  <1>1. TokenTypeOK'
    BY DEF ReadClock, Hit, Miss, FetchFails, Goto, TokenTypeOK, Stage, Nothing
  <1>2. DeadlineIsTheTokens'
    BY DEF ReadClock, Hit, Miss, FetchFails, DeadlineIsTheTokens, Kept, Cacheable, LongEnough, Dies
  <1>3. AnswersAreRecent'
    BY DEF ReadClock, Hit, Miss, FetchFails, Goto, TokenTypeOK, AnswersAreRecent
  <1>4. NoDeadToken'
    <2>1. CASE ReadClock(c)
      BY <2>1 DEF ReadClock, TokenTypeOK, NoDeadToken, Nothing
    <2>2. CASE Miss(c) \/ FetchFails(c)
      BY <2>2 DEF Miss, FetchFails, TokenTypeOK, NoDeadToken
    <2>3. CASE Hit(c)
      <3>1. \A d \in Call \ {c} : handed'[d] = handed[d]
        BY <2>3 DEF Hit, TokenTypeOK
      <3>2. handed'[c].token = cached.token /\ handed'[c].goodAt = readAt[c]
        BY <2>3 DEF Hit, TokenTypeOK
      <3>3. Kept(cached.token) => readAt[c] < Dies(cached.token)
        <4>1. SUFFICES ASSUME Kept(cached.token)
                       PROVE  readAt[c] < Dies(cached.token)
          OBVIOUS
        <4>2. cached.token \in Grant /\ Dies(cached.token) \in Int
          BY <4>1, TokenConstants DEF Kept, TokenTypeOK, Dies, Grant
        <4>3. cached.expiresAt <= Dies(cached.token) /\ readAt[c] < cached.expiresAt
          BY <2>3, <4>1 DEF Hit, Usable, DeadlineIsTheTokens
        <4>4. QED
          BY <4>2, <4>3 DEF TokenTypeOK
      <3>4. QED
        BY <3>1, <3>2, <3>3 DEF NoDeadToken, Kept
    <2>4. QED
      BY <2>1, <2>2, <2>3
  <1>5. QED
    BY <1>1, <1>2, <1>3, <1>4

LEMMA IssueStep ==
    ASSUME TokenInv, NEW c \in Call, NEW life \in Lifetime, NEW stated \in BOOLEAN,
           Issue(c, life, stated)
    PROVE  TokenInv'
PROOF
  <1> DEFINE token == [life |-> life, stated |-> stated, issuedAt |-> clock]
  <1>1. token \in Grant /\ token.issuedAt = clock
    BY DEF Grant, TokenInv, TokenTypeOK
  <1>2. TokenTypeOK'
    BY <1>1 DEF Issue, Goto, TokenInv, TokenTypeOK, Stage
  <1>3. AnswersAreRecent'
    BY <1>1, TokenConstants DEF Issue, Goto, TokenInv, TokenTypeOK, AnswersAreRecent
  <1>4. DeadlineIsTheTokens' /\ NoDeadToken'
    BY DEF Issue, TokenInv, DeadlineIsTheTokens, Kept, Cacheable, LongEnough, Dies, NoDeadToken
  <1>5. QED
    BY <1>2, <1>3, <1>4 DEF TokenInv

LEMMA StoreStep ==
    ASSUME TokenInv, NEW c \in Call, Store(c)
    PROVE  TokenInv'
PROOF
  <1> DEFINE token == fetched[c]
  <1>1. PICK ttl \in TTLs(token) :
          /\ pc[c] = "store" /\ pc' = [pc EXCEPT ![c] = "idle"]
          /\ cached' = [token |-> token, expiresAt |-> clock + ttl]
          /\ handed' = [handed EXCEPT ![c] = [token |-> token, goodAt |-> clock]]
          /\ fetched' = [fetched EXCEPT ![c] = NoToken]
          /\ UNCHANGED <<clock, readAt>>
    BY DEF Store, Goto
  <1>2. token \in Grant /\ token.issuedAt <= clock /\ clock <= token.issuedAt + FetchLatency
    BY <1>1 DEF TokenInv, AnswersAreRecent
  <1>3. ttl \in Nat /\ ttl > 0 /\ clock \in Nat
    BY <1>2, TTLsPositive DEF TokenInv, TokenTypeOK
  <1>4. TokenTypeOK'
    BY <1>1, <1>2, <1>3 DEF TokenInv, TokenTypeOK, Stage
  <1>5. Kept(token) => clock + ttl <= Dies(token)
    BY <1>2, <1>3, TTLsShort, TokenConstants DEF Dies, Grant
  <1>6. DeadlineIsTheTokens'
    BY <1>1, <1>5 DEF DeadlineIsTheTokens, Kept, Cacheable, LongEnough, Dies
  <1>7. AnswersAreRecent'
    BY <1>1 DEF TokenInv, TokenTypeOK, AnswersAreRecent
  <1>8. NoDeadToken'
    <2>1. Kept(token) => clock < Dies(token)
      BY <1>2, <1>3, <1>5, TokenConstants DEF Dies, Grant
    <2>2. \A d \in Call \ {c} : handed'[d] = handed[d]
      BY <1>1 DEF TokenInv, TokenTypeOK
    <2>3. handed'[c].token = token /\ handed'[c].goodAt = clock
      BY <1>1 DEF TokenInv, TokenTypeOK
    <2>4. QED
      BY <2>1, <2>2, <2>3 DEF TokenInv, NoDeadToken, Kept
  <1>9. QED
    BY <1>4, <1>6, <1>7, <1>8 DEF TokenInv

LEMMA TickStep == TokenInv /\ Tick => TokenInv'
PROOF
  <1> SUFFICES ASSUME TokenInv, Tick PROVE TokenInv'
    OBVIOUS
  <1>1. TokenTypeOK'
    BY DEF Tick, TokenInv, TokenTypeOK
  <1>2. AnswersAreRecent'
    <2> SUFFICES ASSUME NEW c \in Call, pc[c] = "store"
                 PROVE  /\ fetched[c] \in Grant
                        /\ fetched[c].issuedAt <= clock + 1
                        /\ clock + 1 <= fetched[c].issuedAt + FetchLatency
      BY DEF Tick, AnswersAreRecent
    <2>1. /\ fetched[c] \in Grant /\ fetched[c].issuedAt \in Nat
          /\ fetched[c].issuedAt <= clock /\ clock < fetched[c].issuedAt + FetchLatency
      BY DEF Tick, TokenInv, AnswersAreRecent, Grant
    <2>2. QED
      BY <2>1, TokenConstants DEF TokenInv, TokenTypeOK
  <1>3. DeadlineIsTheTokens' /\ NoDeadToken'
    BY DEF Tick, TokenInv, DeadlineIsTheTokens, Kept, Cacheable, LongEnough, Dies, NoDeadToken
  <1>4. QED
    BY <1>1, <1>2, <1>3 DEF TokenInv

LEMMA StutterStep == TokenInv /\ UNCHANGED tokenVars => TokenInv'
  BY DEF tokenVars, TokenInv, TokenTypeOK, DeadlineIsTheTokens, Kept, Cacheable, LongEnough, Dies,
         AnswersAreRecent, NoDeadToken

\* The inductive invariant of token(): every stored deadline belongs to the token
\* stored with it, whichever answer came last.
THEOREM TokenInvariance == TokenSpec => []TokenInv
PROOF
  <1>1. TokenInv /\ [TokenNext]_tokenVars => TokenInv'
    BY LookStep, IssueStep, StoreStep, TickStep, StutterStep DEF TokenNext
  <1>2. QED
    BY TokenInitially, <1>1, PTL DEF TokenSpec

\* The cache and the calls of token() keep their types.
THEOREM TokenTypeCorrect == TokenSpec => []TokenTypeOK
  BY TokenInvariance, PTL DEF TokenInv

\* token() returns no token that the token endpoint has already let expire, for
\* every lifetime that leaves room for the margin.
THEOREM NoDeadTokenEver == TokenSpec => []NoDeadToken
  BY TokenInvariance, PTL DEF TokenInv
=============================================================================
