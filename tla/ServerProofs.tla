----------------------------- MODULE ServerProofs -----------------------------
(***************************************************************************)
(* Theorems about the server process, for every configuration, whatever    *)
(* the sources answer, and every number of requests, and about the         *)
(* document it keeps, for every number of lookups and every TTL.           *)
(***************************************************************************)
EXTENDS Gateway, SwaggerStore, SequenceTheorems, TLAPS

Phase == {"starting", "loading", "checking", "serving", "stopping", "closing", "exited", "failed"}

Running == {"serving", "stopping", "closing"}

-----------------------------------------------------------------------------
\* The guard

LEMMA SuffixIsAnEnd ==
    ASSUME NEW domain \in Seq(STRING), NEW host \in Seq(STRING), IsSuffix(domain, host)
    PROVE  \E k \in 0 .. Len(host) : SubSeq(host, k + 1, Len(host)) = domain
PROOF
  <1> DEFINE d == Len(domain)
             h == Len(host)
             end == SubSeq(host, (h - d) + 1, h)
  <1>1. d \in Nat /\ h \in Nat /\ d <= h
    BY DEF IsSuffix, IsPrefix, Reverse
  <1>2. \A j \in 1 .. d : Reverse(domain)[j] = Reverse(host)[j]
    <2>1. Len(Reverse(domain)) = d /\ Len(Reverse(host)) = h
      BY DEF Reverse
    <2>2. SubSeq(Reverse(domain), 1, d) = SubSeq(Reverse(host), 1, d)
      BY <2>1 DEF IsSuffix, IsPrefix
    <2>3. /\ Reverse(domain) \in Seq(STRING)
          /\ Reverse(host) \in Seq(STRING)
      BY <1>1 DEF Reverse
    <2>4. \A j \in 1 .. d : /\ SubSeq(Reverse(domain), 1, d)[j] = Reverse(domain)[j]
                            /\ SubSeq(Reverse(host), 1, d)[j] = Reverse(host)[j]
      BY <1>1, <2>1, <2>3
    <2>5. QED
      BY <2>2, <2>4
  <1>3. \A i \in 1 .. d : domain[i] = host[(h - d) + i]
    <2> SUFFICES ASSUME NEW i \in 1 .. d PROVE domain[i] = host[(h - d) + i]
      OBVIOUS
    <2> DEFINE j == (d - i) + 1
    <2>1. j \in 1 .. d /\ j \in 1 .. h
      BY <1>1
    <2>2. Reverse(domain)[j] = domain[(d - j) + 1] /\ Reverse(host)[j] = host[(h - j) + 1]
      BY <2>1 DEF Reverse
    <2>3. (d - j) + 1 = i /\ (h - j) + 1 = (h - d) + i
      BY <1>1
    <2>4. QED
      BY <1>2, <2>1, <2>2, <2>3
  <1>4. end \in Seq(STRING) /\ Len(end) = d /\ \A i \in 1 .. d : end[i] = host[(h - d) + i]
    BY <1>1
  <1>5. end = domain
    BY <1>3, <1>4, SeqEqual
  <1>6. QED
    <2>1. h - d \in 0 .. h
      BY <1>1
    <2>2. QED
      BY <1>5, <2>1

\* What the guard lets pass, its allowlist permits.
LEMMA ValidIsPermitted ==
    ASSUME NEW guard, NEW url, ValidateURL(guard, url), IsHosted(url),
           \A i \in DOMAIN guard.entries : guard.entries[i].name \in Seq(STRING)
    PROVE  Permits(guard, url.host)
PROOF
  <1> DEFINE host == url.host
             entries == guard.entries
             named == {i \in DOMAIN entries : entries[i].name # <<>>}
             list == normalizeAllowlist(entries)
             In(domain) == \E k \in 0 .. Len(host) : SubSeq(host, k + 1, Len(host)) = domain
             Covers(e) == IF e.wild THEN In(e.name) ELSE host = e.name
  <1>1. isAllowed(guard, host) /\ (guard.blockPrivate => AddressesOf[host] = {"public"})
    BY DEF ValidateURL, ValidateHost
  <1>2. guard.blockPrivate => "private" \notin AddressesOf[host]
    BY <1>1
  <1>3. ASSUME named # {} PROVE \E i \in named : Covers(entries[i])
    <2>1. PICK n \in named : TRUE
      BY <1>3
    <2>2. list.exact # {} \/ list.suffix # {}
      BY <2>1 DEF normalizeAllowlist
    <2>3. CASE host \in list.exact
      BY <2>3 DEF normalizeAllowlist
    <2>4. CASE \E suffix \in list.suffix : IsSuffix(suffix, host)
      <3>1. PICK i \in named : entries[i].wild /\ IsSuffix(entries[i].name, host)
        BY <2>4 DEF normalizeAllowlist
      <3>2. entries[i].name \in Seq(STRING) /\ host \in Seq(STRING)
        BY <3>1 DEF IsHosted
      <3>3. In(entries[i].name)
        BY <3>1, <3>2, SuffixIsAnEnd
      <3>4. QED
        BY <3>1, <3>3
    <2>5. QED
      BY <1>1, <2>2, <2>3, <2>4 DEF isAllowed
  <1>4. QED
    BY <1>2, <1>3 DEF Permits

-----------------------------------------------------------------------------
\* The invariant

Checked(url) == ValidateURL(cfg.swagger, url) /\ IsHosted(url)

URLs == Targets \cup {c.source : c \in Configs}

\* Over the network, as many as the fetch may make, each of them checked.
GoodTrail(trail) ==
    ~ IsFile(cfg.source) => Len(trail) \in 1 .. MaxRedirects /\ \A i \in 1 .. Len(trail) : Checked(trail[i])

FetchInv ==
    /\ hops \in Seq(URLs)
    /\ hops # <<>> => GoodTrail(hops)
    /\ document # NoDocument => GoodTrail(document.trail)
    /\ DOMAIN document.trail = 1 .. Len(document.trail)
    /\ phase \in {"starting", "loading"} => Active = {}
    /\ \A s \in document.servers : IsHosted(s)

ServeInv ==
    /\ cfg \in Configs
    /\ phase \in {"loading", "checking"} \cup Running => Accepted(cfg)
    /\ phase \in {"checking"} \cup Running => document # NoDocument
    /\ phase \in Running /\ ~ reloaded => TargetsAllowed

\* The time that has gone by is what the deadlines of Stop have lost.
TimeInv ==
    /\ phase \in Phase
    /\ left \in Nat /\ waited \in Nat
    /\ phase \in {"starting", "loading", "checking", "serving"} => waited = 0
    /\ phase = "stopping" => left + waited = Grace
    /\ phase = "closing" => Active = {} \/ left + waited = 2 * Grace
    /\ phase # "exited" /\ phase # "failed" => \A r \in Request : requests[r] # "cut"
    /\ requests \in [Request -> {"none", "active", "done", "cut"}]
    /\ GraceBeforeCut

IInv == FetchInv /\ ServeInv /\ TimeInv

-----------------------------------------------------------------------------
\* Steps

LEMMA TimeStep ==
    ASSUME TimeInv, [Next]_vars
    PROVE  TimeInv'
PROOF
  <1> USE GatewayAssumption DEF TimeInv, Phase, Active, GraceBeforeCut
  <1>1. CASE CheckConfig
    BY <1>1 DEF CheckConfig
  <1>2. CASE Open
    BY <1>2 DEF Open
  <1>3. ASSUME NEW target \in Targets, Redirect(target) PROVE TimeInv'
    BY <1>3 DEF Redirect
  <1>4. ASSUME NEW a \in Answers, Receive(a) PROVE TimeInv'
    BY <1>4 DEF Receive
  <1>5. CASE FetchFails
    BY <1>5 DEF FetchFails
  <1>6. CASE CheckTargets
    BY <1>6 DEF CheckTargets
  <1>7. ASSUME NEW r \in Request, Arrive(r) PROVE TimeInv'
    BY <1>7 DEF Arrive
  <1>8. ASSUME NEW r \in Request, Finish(r) PROVE TimeInv'
    BY <1>8 DEF Finish
  <1>9. CASE StartReturns
    BY <1>9 DEF StartReturns, Cut
  <1>10. CASE Signal
    BY <1>10 DEF Signal
  <1>11. CASE BeginStop
    BY <1>11 DEF BeginStop, Cut
  <1>12. CASE Tick
    BY <1>12 DEF Tick
  <1>13. CASE StopAgain
    BY <1>13 DEF StopAgain, StopReturns
  <1>14. CASE Exit
    BY <1>14 DEF Exit, StopReturns, Cut
  <1>15. CASE UNCHANGED vars
    BY <1>15 DEF vars
  <1>16. QED
    BY <1>1, <1>2, <1>3, <1>4, <1>5, <1>6, <1>7, <1>8, <1>9, <1>10, <1>11, <1>12, <1>13, <1>14, <1>15 DEF Next

LEMMA FetchStep ==
    ASSUME FetchInv, TimeInv, cfg \in Configs, [Next]_vars
    PROVE  FetchInv'
PROOF
  <1> USE DEF FetchInv, Active, NoDocument
  <1>0. MaxRedirects \in Nat \ {0} /\ IsHosted(cfg.source) /\ \A target \in Targets : IsHosted(target)
    BY GatewayAssumption
  <1>1. ASSUME UNCHANGED <<cfg, hops, document>>,
               phase' \in {"starting", "loading"} => Active' = {}
        PROVE  FetchInv'
    BY <1>1 DEF Checked, GoodTrail
  <1>2. CASE CheckConfig
    BY <1>1, <1>2 DEF CheckConfig
  <1>3. CASE Open
    <2>1. hops' = <<cfg.source>> /\ UNCHANGED <<cfg, phase, document, requests>>
      BY <1>3 DEF Open
    <2>2. hops' \in Seq(URLs) /\ Len(hops') = 1 /\ hops'[1] = cfg.source
      <3>1. cfg.source \in URLs
        BY DEF URLs
      <3>2. QED
        BY ONLY <2>1, <3>1
    <2>3. ~ IsFile(cfg.source) => Checked(cfg.source)
      BY <1>0, <1>3 DEF Open, Checked
    <2>4. GoodTrail(hops)'
      BY ONLY <1>0, <2>1, <2>2, <2>3 DEF GoodTrail, Checked
    <2>5. GoodTrail(document.trail) => GoodTrail(document.trail)'
      BY ONLY <2>1 DEF GoodTrail, Checked
    <2>6. QED
      BY <2>1, <2>2, <2>4, <2>5
  <1>4. ASSUME NEW target \in Targets, Redirect(target) PROVE FetchInv'
    <2>1. hops' = Append(hops, target) /\ UNCHANGED <<cfg, phase, document, requests>>
      BY <1>4 DEF Redirect
    <2>2. /\ hops' \in Seq(URLs)
          /\ Len(hops') = Len(hops) + 1
          /\ \A i \in 1 .. Len(hops) : hops'[i] = hops[i]
          /\ hops'[Len(hops) + 1] = target
          /\ Len(hops) \in Nat
      <3>1. hops \in Seq(URLs) /\ target \in URLs
        BY DEF URLs
      <3>2. QED
        BY ONLY <2>1, <3>1
    <2>3. Len(hops) < MaxRedirects /\ Checked(target) /\ hops # <<>> /\ GoodTrail(hops)
      BY <1>0, <1>4 DEF Redirect, MayFollow, Checked
    <2>4. \A i \in 1 .. Len(hops') : ~ IsFile(cfg.source) => Checked(hops'[i])
      <3> SUFFICES ASSUME NEW i \in 1 .. Len(hops'), ~ IsFile(cfg.source) PROVE Checked(hops'[i])
        OBVIOUS
      <3>1. CASE i = Len(hops) + 1
        BY ONLY <2>2, <2>3, <3>1
      <3>2. CASE i # Len(hops) + 1
        <4>1. i \in 1 .. Len(hops)
          BY ONLY <2>2, <3>2, i \in 1 .. Len(hops')
        <4>2. QED
          BY ONLY <2>2, <2>3, <4>1, ~ IsFile(cfg.source) DEF GoodTrail
      <3>3. QED
        BY ONLY <3>1, <3>2
    <2>5. GoodTrail(hops)'
      BY ONLY <1>0, <2>1, <2>2, <2>3, <2>4 DEF GoodTrail, Checked
    <2>6. GoodTrail(document.trail) => GoodTrail(document.trail)'
      BY ONLY <2>1 DEF GoodTrail, Checked
    <2>7. QED
      BY <2>1, <2>2, <2>5, <2>6
  <1>5. ASSUME NEW a \in Answers, Receive(a) PROVE FetchInv'
    <2>1. /\ hops' = <<>> /\ document'.trail = hops /\ document'.servers = a.servers
          /\ hops # <<>> /\ UNCHANGED <<cfg, requests>>
          /\ phase' \in {"starting", "loading"} => phase \in {"starting", "loading"}
      BY <1>5 DEF Receive
    <2>2. GoodTrail(document.trail)'
      BY <2>1 DEF GoodTrail, Checked
    <2>3. DOMAIN document'.trail = 1 .. Len(document'.trail) /\ hops' \in Seq(URLs)
      BY <2>1
    <2>4. \A s \in document'.servers : IsHosted(s)
      BY <2>1, GatewayAssumption
    <2>5. QED
      BY <2>1, <2>2, <2>3, <2>4
  <1>6. CASE FetchFails
    <2>1. /\ hops' = <<>> /\ UNCHANGED <<cfg, document, requests>>
          /\ phase' \in {"starting", "loading"} => phase \in {"starting", "loading"}
      BY <1>6 DEF FetchFails
    <2>2. QED
      BY <2>1 DEF GoodTrail, Checked
  <1>7. CASE CheckTargets
    BY <1>1, <1>7 DEF CheckTargets
  <1>8. ASSUME NEW r \in Request, Arrive(r) PROVE FetchInv'
    BY <1>1, <1>8 DEF Arrive
  <1>9. ASSUME NEW r \in Request, Finish(r) PROVE FetchInv'
    BY <1>1, <1>9 DEF Finish
  <1>10. CASE StartReturns
    BY <1>1, <1>10 DEF StartReturns
  <1>11. CASE Signal
    BY <1>1, <1>11 DEF Signal
  <1>12. CASE BeginStop
    BY <1>1, <1>12 DEF BeginStop
  <1>13. CASE Tick
    BY <1>1, <1>13 DEF Tick
  <1>14. CASE StopAgain
    BY <1>1, <1>14 DEF StopAgain
  <1>15. CASE Exit
    BY <1>1, <1>15 DEF Exit
  <1>16. CASE UNCHANGED vars
    BY <1>1, <1>16 DEF vars
  <1>17. QED
    BY <1>2, <1>3, <1>4, <1>5, <1>6, <1>7, <1>8, <1>9, <1>10, <1>11, <1>12, <1>13, <1>14, <1>15, <1>16 DEF Next

LEMMA ServeStep ==
    ASSUME ServeInv, FetchInv, TimeInv, [Next]_vars
    PROVE  ServeInv'
PROOF
  <1> USE DEF ServeInv, Running, Accepted, TargetsAllowed
  <1>1. CASE CheckConfig
    BY <1>1 DEF CheckConfig
  <1>2. CASE Open
    BY <1>2 DEF Open
  <1>3. ASSUME NEW target \in Targets, Redirect(target) PROVE ServeInv'
    BY <1>3 DEF Redirect
  <1>4. ASSUME NEW a \in Answers, Receive(a) PROVE ServeInv'
    <2>1. document' # NoDocument
      BY <1>4 DEF Receive, NoDocument
    <2>2. phase' \notin Running \/ reloaded'
      BY <1>4 DEF Receive
    <2>3. QED
      BY <1>4, <2>1, <2>2 DEF Receive, FetchInv, TimeInv, Phase
  <1>5. CASE FetchFails
    BY <1>5 DEF FetchFails
  <1>6. CASE CheckTargets
    BY <1>6 DEF CheckTargets
  <1>7. ASSUME NEW r \in Request, Arrive(r) PROVE ServeInv'
    BY <1>7 DEF Arrive
  <1>8. ASSUME NEW r \in Request, Finish(r) PROVE ServeInv'
    BY <1>8 DEF Finish
  <1>9. CASE StartReturns
    BY <1>9 DEF StartReturns
  <1>10. CASE Signal
    BY <1>10 DEF Signal
  <1>11. CASE BeginStop
    BY <1>11 DEF BeginStop
  <1>12. CASE Tick
    BY <1>12 DEF Tick
  <1>13. CASE StopAgain
    BY <1>13 DEF StopAgain
  <1>14. CASE Exit
    BY <1>14 DEF Exit
  <1>15. CASE UNCHANGED vars
    BY <1>15 DEF vars
  <1>16. QED
    BY <1>1, <1>2, <1>3, <1>4, <1>5, <1>6, <1>7, <1>8, <1>9, <1>10, <1>11, <1>12, <1>13, <1>14, <1>15 DEF Next

LEMMA Initially == Init => IInv
PROOF
  BY GatewayAssumption
  DEF Init, IInv, FetchInv, ServeInv, TimeInv, GraceBeforeCut, NoDocument, Active, Phase, Running, GoodTrail

LEMMA Invariance == Spec => []IInv
PROOF
  <1>1. IInv /\ [Next]_vars => IInv'
    BY TimeStep, FetchStep, ServeStep DEF IInv, ServeInv
  <1>2. QED
    BY Initially, <1>1, PTL DEF Spec

-----------------------------------------------------------------------------
\* Theorems

\* Over HTTP, no request that a signal finds active is cut before the two calls of
\* Stop have each waited for HTTP_SHUTDOWN_TIMEOUT.
THEOREM GracePeriod == Spec => []GraceBeforeCut
PROOF
  <1>1. IInv => GraceBeforeCut
    BY DEF IInv, TimeInv
  <1>2. QED
    BY <1>1, Invariance, PTL

LEMMA InvImpliesChecked == IInv => CheckedBeforeServing
PROOF
  <1> SUFFICES ASSUME IInv PROVE CheckedBeforeServing
    OBVIOUS
  <1> USE GatewayAssumption DEF IInv, FetchInv, ServeInv
  <1>1. cfg \in Configs
    OBVIOUS
  <1>2. \A g \in {cfg.swagger, cfg.upstream} :
           \A i \in DOMAIN g.entries : g.entries[i].name \in Seq(STRING)
    BY <1>1
  <1>3. ASSUME document # NoDocument, ~ IsFile(cfg.source)
        PROVE  /\ Len(document.trail) \in 1 .. MaxRedirects
               /\ \A i \in DOMAIN document.trail : Permits(cfg.swagger, document.trail[i].host)
    <2>1. GoodTrail(document.trail) /\ DOMAIN document.trail = 1 .. Len(document.trail)
      BY <1>3
    <2>2. \A i \in DOMAIN document.trail : Checked(document.trail[i])
      BY <1>3, <2>1 DEF GoodTrail
    <2>3. QED
      BY <1>2, <1>3, <2>1, <2>2, ValidIsPermitted DEF Checked, GoodTrail
  <1>4. ASSUME phase \in {"serving", "stopping", "closing"}
        PROVE  /\ document # NoDocument
               /\ \A base \in cfg.bases : Permits(cfg.upstream, base.host)
               /\ ~ reloaded =>
                     \A s \in document.servers :
                        s.scheme \in HTTPSchemes => Permits(cfg.upstream, s.host)
    <2>1. document # NoDocument /\ Accepted(cfg)
      BY <1>4 DEF Running
    <2>2. ASSUME NEW base \in cfg.bases PROVE Permits(cfg.upstream, base.host)
      <3>1. ValidateURL(cfg.upstream, base) /\ IsHosted(base)
        BY <1>1, <2>1 DEF Accepted
      <3>2. QED
        BY <1>2, <3>1, ValidIsPermitted
    <2>3. ASSUME ~ reloaded, NEW s \in document.servers, s.scheme \in HTTPSchemes
          PROVE  Permits(cfg.upstream, s.host)
      <3>1. ValidateURL(cfg.upstream, s) /\ IsHosted(s)
        BY <1>4, <2>3 DEF Running, TargetsAllowed
      <3>2. QED
        BY <1>2, <3>1, ValidIsPermitted
    <2>4. QED
      BY <2>1, <2>2, <2>3
  <1>5. QED
    BY <1>3, <1>4 DEF CheckedBeforeServing

\* Whatever the sources answer and wherever they redirect to, a document comes over
\* permitted hosts alone, and the server starts on permitted servers alone.
THEOREM OnlyPermittedHosts == Spec => []CheckedBeforeServing
PROOF
  BY InvImpliesChecked, Invariance, PTL

-----------------------------------------------------------------------------
(***************************************************************************)
(* The cache of the document                                               *)
(***************************************************************************)

\* What the write lock protects.  The snapshot is the newest one ever served and
\* no newer than the document; what its holder has read lies between the two; and
\* the holder took the lock for a state whose TTL was over, which still is.
LockProtects ==
    /\ served = state.version
    /\ state.version <= edition
    /\ \/ state = Nothing /\ loadedAt = -TTL
       \/ state.expiresAt = loadedAt + TTL
    /\ \A c \in Caller :
          /\ pc[c] = "build" => state.version <= loaded[c] /\ loaded[c] <= edition
          /\ pc[c] \in {"load", "build"} => reload \/ now - loadedAt >= TTL

\* What a lookup noted when it began lies in the past.
NotesArePast ==
    \A c \in Caller : started[c] <= now /\ floor[c] <= served

StoreInv == TypeOK /\ LockProtects /\ NotesArePast /\ FreshOrFailed /\ NoGoingBack

LEMMA StoreConstants ==
    TTL \in Nat /\ TTL > 0 /\ MaxTime \in Nat /\ MaxVersion \in Nat /\ NoOne \notin Caller
  BY SwaggerStoreAssumption

\* Whoever finds the lock free finds no load going on.
LEMMA FreeLock ==
    ASSUME TypeOK, writer = NoOne, NEW c \in Caller
    PROVE  pc[c] \notin {"load", "build"}
  BY StoreConstants DEF TypeOK

LEMMA StoreInitially == StoreInit => StoreInv
PROOF
  <1> SUFFICES ASSUME StoreInit PROVE StoreInv
    OBVIOUS
  <1>1. Nothing \in Snapshot
    BY DEF Nothing, Snapshot
  <1>2. TypeOK
    BY <1>1, StoreConstants DEF StoreInit, TypeOK, Version, Time
  <1>3. LockProtects /\ NotesArePast
    BY StoreConstants DEF StoreInit, LockProtects, NotesArePast, Nothing
  <1>4. FreshOrFailed /\ NoGoingBack
    BY DEF StoreInit, FreshOrFailed, NoGoingBack, Nothing
  <1>5. QED
    BY <1>2, <1>3, <1>4 DEF StoreInv

LEMMA BeginStep ==
    ASSUME StoreInv, NEW c \in Caller, Begin(c)
    PROVE  StoreInv'
PROOF
  <1> USE StoreConstants DEF StoreInv, Begin, Goto
  <1>1. TypeOK'
    BY DEF TypeOK
  <1>2. LockProtects'
    BY DEF TypeOK, LockProtects
  <1>3. NotesArePast'
    BY DEF TypeOK, NotesArePast, Time, Version
  <1>4. FreshOrFailed' /\ NoGoingBack'
    BY DEF TypeOK, FreshOrFailed, NoGoingBack
  <1>5. QED
    BY <1>1, <1>2, <1>3, <1>4

\* A lookup that is answered with the state as it stands, the lock being free or
\* its own, and that was begun before the state's deadline or has failed.
LEMMA AnsweredStep ==
    ASSUME StoreInv, NEW c \in Caller, Return(c, state),
           writer \in {NoOne, c},
           pc' = [pc EXCEPT ![c] = "idle"],
           failed' = [failed EXCEPT ![c] = failed'[c]], failed'[c] \in BOOLEAN,
           failed'[c] \/ state.expiresAt > started[c],
           UNCHANGED <<reload, edition, state, now, started, floor, loadedAt>>
    PROVE  StoreInv'
PROOF
  <1>1. /\ state.version \in Int /\ served = state.version
        /\ served' = served
    BY DEF StoreInv, TypeOK, LockProtects, Return, Newer, Snapshot, Version
  <1>2. TypeOK'
    <2>1. writer' = NoOne /\ \A d \in Caller : pc'[d] \notin {"load", "build"}
      BY StoreConstants DEF StoreInv, TypeOK, Return
    <2>2. loaded' \in [Caller -> Version] /\ answer' \in [Caller -> Snapshot]
      BY StoreConstants DEF StoreInv, TypeOK, Return, Version
    <2>3. QED
      BY <1>1, <2>1, <2>2, StoreConstants DEF StoreInv, TypeOK
  <1>3. LockProtects'
    <2>1. \A d \in Caller : pc'[d] \notin {"load", "build"}
      BY StoreConstants DEF StoreInv, TypeOK
    <2>2. QED
      BY <1>1, <2>1 DEF StoreInv, LockProtects, Nothing
  <1>4. NotesArePast'
    BY <1>1 DEF StoreInv, NotesArePast
  <1>5. FreshOrFailed'
    BY DEF StoreInv, TypeOK, FreshOrFailed, Return
  <1>6. NoGoingBack'
    BY <1>1 DEF StoreInv, TypeOK, NoGoingBack, NotesArePast, Return
  <1>7. QED
    BY <1>2, <1>3, <1>4, <1>5, <1>6 DEF StoreInv

LEMMA AcquireStep ==
    ASSUME StoreInv, NEW c \in Caller, Acquire(c)
    PROVE  StoreInv'
PROOF
  <1>1. CASE PeekHit(c)
    <2>1. failed' = [failed EXCEPT ![c] = failed'[c]] /\ failed'[c] \in BOOLEAN
      BY <1>1 DEF PeekHit, StoreInv, TypeOK
    <2>2. state.expiresAt > started[c]
      BY <1>1 DEF PeekHit, Usable, StoreInv, TypeOK, Snapshot, Time
    <2>3. QED
      BY <1>1, <2>1, <2>2, AnsweredStep DEF PeekHit, Goto
  <1>2. CASE LockHit(c)
    <2>1. failed' = [failed EXCEPT ![c] = failed'[c]] /\ failed'[c] \in BOOLEAN
      BY <1>2 DEF LockHit, StoreInv, TypeOK
    <2>2. state.expiresAt > started[c]
      BY <1>2, StoreConstants DEF LockHit, Usable, StoreInv, TypeOK, Snapshot, Time, NotesArePast
    <2>3. QED
      BY <1>2, <2>1, <2>2, AnsweredStep DEF LockHit, Goto
  <1>3. CASE PeekMiss(c)
    <2>1. TypeOK'
      BY <1>3, StoreConstants DEF PeekMiss, Goto, StoreInv, TypeOK
    <2>2. LockProtects' /\ NotesArePast'
      BY <1>3 DEF PeekMiss, Goto, StoreInv, TypeOK, LockProtects, NotesArePast, Nothing
    <2>3. FreshOrFailed' /\ NoGoingBack'
      BY <1>3 DEF PeekMiss, Goto, StoreInv, TypeOK, FreshOrFailed, NoGoingBack
    <2>4. QED
      BY <2>1, <2>2, <2>3 DEF StoreInv
  <1>4. CASE LockMiss(c)
    <2>1. TypeOK'
      BY <1>4, FreeLock, StoreConstants DEF LockMiss, Goto, StoreInv, TypeOK
    <2>2. reload \/ now - loadedAt >= TTL
      BY <1>4, StoreConstants
         DEF LockMiss, Usable, StoreInv, TypeOK, LockProtects, Time, Snapshot, Nothing
    <2>3. LockProtects' /\ NotesArePast'
      BY <1>4, <2>2 DEF LockMiss, Goto, StoreInv, TypeOK, LockProtects, NotesArePast, Nothing
    <2>4. FreshOrFailed' /\ NoGoingBack'
      BY <1>4 DEF LockMiss, Goto, StoreInv, TypeOK, FreshOrFailed, NoGoingBack
    <2>5. QED
      BY <2>1, <2>3, <2>4 DEF StoreInv
  <1>5. QED
    BY <1>1, <1>2, <1>3, <1>4 DEF Acquire

LEMMA PublishStep ==
    ASSUME StoreInv, NEW c \in Caller, Publish(c)
    PROVE  StoreInv'
PROOF
  <1> DEFINE fresh == [version |-> loaded[c], expiresAt |-> now + TTL]
  <1>1. /\ pc[c] = "build" /\ pc' = [pc EXCEPT ![c] = "idle"]
        /\ state' = fresh /\ loadedAt' = now
        /\ Return(c, fresh)
        /\ UNCHANGED <<reload, edition, now, started, failed, floor>>
    BY DEF Publish, Goto
  <1>2. fresh \in Snapshot /\ fresh.version = loaded[c] /\ fresh.expiresAt = now + TTL
    BY StoreConstants DEF StoreInv, TypeOK, Snapshot, Time
  <1>3. served' = loaded[c] /\ served <= served' /\ served' \in Version /\ served \in Int
    BY <1>1, <1>2 DEF StoreInv, TypeOK, LockProtects, Return, Newer, Version
  <1>4. \A d \in Caller : pc'[d] \notin {"load", "build"}
    BY <1>1 DEF StoreInv, TypeOK
  <1>5. TypeOK'
    <2>1. writer' = NoOne /\ loaded' \in [Caller -> Version] /\ answer' \in [Caller -> Snapshot]
      BY <1>1, <1>2, StoreConstants DEF StoreInv, TypeOK, Return, Version
    <2>2. QED
      BY <1>1, <1>2, <1>3, <1>4, <2>1, StoreConstants DEF StoreInv, TypeOK
  <1>6. LockProtects'
    BY <1>1, <1>2, <1>3, <1>4 DEF StoreInv, LockProtects
  <1>7. NotesArePast'
    BY <1>1, <1>3 DEF StoreInv, TypeOK, NotesArePast, Version
  <1>8. FreshOrFailed'
    BY <1>1, <1>2, StoreConstants DEF StoreInv, TypeOK, FreshOrFailed, NotesArePast, Return, Time
  <1>9. NoGoingBack'
    BY <1>1, <1>2, <1>3, <1>7 DEF StoreInv, TypeOK, NoGoingBack, NotesArePast, Return
  <1>10. QED
    BY <1>5, <1>6, <1>7, <1>8, <1>9 DEF StoreInv

LEMMA BuildStep ==
    ASSUME StoreInv, NEW c \in Caller, Build(c)
    PROVE  StoreInv'
PROOF
  <1>1. CASE Load(c)
    <2>1. TypeOK'
      BY <1>1, StoreConstants DEF Load, Goto, StoreInv, TypeOK
    <2>2. LockProtects' /\ NotesArePast'
      BY <1>1 DEF Load, Goto, StoreInv, TypeOK, LockProtects, NotesArePast, Nothing, Version
    <2>3. FreshOrFailed' /\ NoGoingBack'
      BY <1>1 DEF Load, Goto, StoreInv, TypeOK, FreshOrFailed, NoGoingBack
    <2>4. QED
      BY <2>1, <2>2, <2>3 DEF StoreInv
  <1>2. CASE Publish(c)
    BY <1>2, PublishStep
  <1>3. CASE BuildFails(c)
    <2>1. writer = c
      BY <1>3 DEF BuildFails, StoreInv, TypeOK
    <2>2. /\ failed' = [failed EXCEPT ![c] = failed'[c]]
          /\ failed'[c] = TRUE
      BY <1>3 DEF BuildFails, StoreInv, TypeOK
    <2>3. QED
      BY <1>3, <2>1, <2>2, AnsweredStep DEF BuildFails
  <1>4. QED
    BY <1>1, <1>2, <1>3 DEF Build

\* The document's owner and the clock only move forward.
LEMMA EnvironmentStep ==
    ASSUME StoreInv, Edit \/ StoreTick
    PROVE  StoreInv'
PROOF
  <1>1. TypeOK'
    BY StoreConstants DEF Edit, StoreTick, StoreInv, TypeOK, Version, Time
  <1>2. LockProtects'
    <2>1. CASE Edit
      BY <2>1 DEF Edit, StoreInv, TypeOK, LockProtects, Nothing, Version, Snapshot
    <2>2. CASE StoreTick
      BY <2>2, StoreConstants DEF StoreTick, StoreInv, TypeOK, LockProtects, Nothing, Time
    <2>3. QED
      BY <2>1, <2>2
  <1>3. NotesArePast'
    BY DEF Edit, StoreTick, StoreInv, TypeOK, NotesArePast, Time
  <1>4. FreshOrFailed' /\ NoGoingBack'
    BY DEF Edit, StoreTick, StoreInv, FreshOrFailed, NoGoingBack
  <1>5. QED
    BY <1>1, <1>2, <1>3, <1>4 DEF StoreInv

LEMMA StoreStutters == StoreInv /\ UNCHANGED storeVars => StoreInv'
  BY DEF storeVars, StoreInv, TypeOK, LockProtects, NotesArePast, FreshOrFailed, NoGoingBack, Nothing

\* The inductive invariant of CachedStore: what its lock protects, what lookups noted
\* when they began, and the two promises that rest on both.
THEOREM StoreInvariance == StoreSpec => []StoreInv
PROOF
  <1>1. StoreInv /\ [StoreNext]_storeVars => StoreInv'
    BY BeginStep, AcquireStep, BuildStep, EnvironmentStep, StoreStutters DEF StoreNext
  <1>2. QED
    BY StoreInitially, <1>1, PTL DEF StoreSpec

\* State, lock and lookups of CachedStore keep their types; a load is only ever run
\* by the holder of the write lock.
THEOREM StoreTypeCorrect == StoreSpec => []TypeOK
  BY StoreInvariance, PTL DEF StoreInv

\* A lookup answers with a snapshot that was alive when it began, unless its own
\* load failed.
THEOREM Freshness == StoreSpec => []FreshOrFailed
  BY StoreInvariance, PTL DEF StoreInv

\* The document is never seen to go back, although lookups overlap and loads fail.
THEOREM Monotonicity == StoreSpec => []NoGoingBack
  BY StoreInvariance, PTL DEF StoreInv

\* The second look under the lock lets one load through per TTL.
THEOREM OneLoadPerTTL == StoreSpec => LoadsAreATTLApart
PROOF
  <1>1. StoreInv /\ [StoreNext]_storeVars =>
          [\A c \in Caller : Publish(c) => reload \/ now - loadedAt >= TTL]_storeVars
    BY DEF StoreInv, LockProtects, Publish, Goto
  <1>2. QED
    BY StoreInvariance, <1>1, PTL DEF StoreSpec, LoadsAreATTLApart
=============================================================================
