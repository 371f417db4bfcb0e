------------------------------- MODULE Gateway -------------------------------
(***************************************************************************)
(* The server process (cmd/mcp-server/main.go): it checks its              *)
(* configuration, loads the Swagger document (internal/swagger/loader.go,  *)
(* parser.go), checks the document's servers, and serves requests over     *)
(* stdio or HTTP (internal/server) until it is told to stop.               *)
(*                                                                         *)
(* The document is read from a file or fetched; the fetch follows          *)
(* redirects.  The store loads it again while the server runs, see         *)
(* SwaggerStore.  Requests are only counted: what they do is in the other  *)
(* modules.  The reading of the document for the listing of resources,     *)
(* between the check of its servers and the first request, is left out: it *)
(* finds the document just loaded, or loads it as a request does.          *)
(***************************************************************************)
EXTENDS Guard, Naturals

CONSTANTS
    Configs,       \* [transport, authenticated, source, bases, swagger, upstream], the
                   \* source and the bases URLs, the last two guards
    Targets,       \* URLs a fetch may be redirected to
    Answers,       \* [ok, fits, format, valid, servers]: how a source answers
    MaxRedirects,
    Request,
    Grace          \* HTTP_SHUTDOWN_TIMEOUT, in ticks

IsHosted(url) == url.host \in Seq(STRING)

ASSUME GatewayAssumption ==
    /\ MaxRedirects \in Nat \ {0}
    /\ Grace \in Nat
    /\ \A c \in Configs :
          /\ \A url \in {c.source} \cup c.bases : IsHosted(url)
          /\ \A g \in {c.swagger, c.upstream} :
                \A i \in DOMAIN g.entries : g.entries[i].name \in Seq(STRING)
    /\ \A url \in Targets : IsHosted(url)
    /\ \A a \in Answers : \A url \in a.servers : IsHosted(url)

VARIABLES
    cfg,
    phase,        \* "starting", "loading", "checking", "serving", "stopping" and
                  \* "closing" in the two calls of Stop, "exited" or "failed"
    hops,         \* the URLs of the fetch under way, <<>> without one
    document,     \* the servers of the document in use, and the hops to it
    reloaded,     \* whether it is another than the one loaded first
    signalled,
    requests,     \* [Request -> {"none", "active", "done", "cut"}]
    left,         \* of the deadline of Stop
    waited        \* since the first call of Stop

vars == <<cfg, phase, hops, document, reloaded, signalled, requests, left, waited>>

NoDocument == [servers |-> {}, trail |-> <<>>]

Active == {r \in Request : requests[r] = "active"}

\* The process ends: what is active is cut.
Cut == [r \in Request |-> IF requests[r] = "active" THEN "cut" ELSE requests[r]]

-----------------------------------------------------------------------------
Init ==
    /\ cfg \in Configs
    /\ phase = "starting"
    /\ hops = <<>>
    /\ document = NoDocument
    /\ reloaded = FALSE
    /\ signalled = FALSE
    /\ requests = [r \in Request |-> "none"]
    /\ left = 0 /\ waited = 0

-----------------------------------------------------------------------------
\* Startup

IsFile(url) == url.scheme = ""

\* Validate, validateConfiguredTargets and the inbound authentication that HTTP needs.
Accepted(c) ==
    /\ IsFile(c.source) \/ ValidateURL(c.swagger, c.source)
    /\ \A base \in c.bases : ValidateURL(c.upstream, base)
    /\ c.transport = "streamable" => c.authenticated

CheckConfig ==
    /\ phase = "starting"
    /\ phase' = IF Accepted(cfg) THEN "loading" ELSE "failed"
    /\ UNCHANGED <<cfg, hops, document, reloaded, signalled, requests, left, waited>>

\* The store loads for the startup, and then again for a request.
Loading == phase = "loading" \/ Active # {}

Open ==
    /\ Loading /\ hops = <<>>
    /\ IsFile(cfg.source) \/ ValidateURL(cfg.swagger, cfg.source)
    /\ hops' = <<cfg.source>>
    /\ UNCHANGED <<cfg, phase, document, reloaded, signalled, requests, left, waited>>

\* A faulty form of MayFollow: the scheme alone is checked.
MayFollowAnywhere(target) == Len(hops) < MaxRedirects /\ target.scheme \in HTTPSchemes

\* CheckRedirect; hops are the requests made so far.
MayFollow(target) == Len(hops) < MaxRedirects /\ ValidateURL(cfg.swagger, target)

Redirect(target) ==
    /\ hops # <<>> /\ ~ IsFile(cfg.source)
    /\ MayFollow(target)
    /\ hops' = Append(hops, target)
    /\ UNCHANGED <<cfg, phase, document, reloaded, signalled, requests, left, waited>>

\* A converted document of version 2 need not be valid, one of version 3 has to be,
\* with examples, defaults and patterns disregarded.
Parses(a) == a.format = "v2" \/ (a.format = "v3" /\ a.valid \in {"strict", "relaxed"})

Receive(a) ==
    /\ hops # <<>>
    /\ a.ok /\ a.fits /\ Parses(a)
    /\ document' = [servers |-> a.servers, trail |-> hops]
    /\ hops' = <<>>
    /\ reloaded' = (phase # "loading")
    /\ phase' = IF phase = "loading" THEN "checking" ELSE phase
    /\ UNCHANGED <<cfg, signalled, requests, left, waited>>

\* Everything else that may come of a fetch, a timeout or a redirect that is not
\* followed among it.
FetchFails ==
    /\ hops # <<>>
    /\ hops' = <<>>
    /\ phase' = IF phase = "loading" THEN "failed" ELSE phase
    /\ UNCHANGED <<cfg, document, reloaded, signalled, requests, left, waited>>

\* Relative servers are passed over.
TargetsAllowed ==
    \A s \in document.servers : s.scheme \in HTTPSchemes => ValidateURL(cfg.upstream, s)

CheckTargets ==
    /\ phase = "checking"
    /\ phase' = IF TargetsAllowed THEN "serving" ELSE "failed"
    /\ UNCHANGED <<cfg, hops, document, reloaded, signalled, requests, left, waited>>

-----------------------------------------------------------------------------
\* Serving

Arrive(r) ==
    /\ phase = "serving" /\ requests[r] = "none"
    /\ requests' = [requests EXCEPT ![r] = "active"]
    /\ UNCHANGED <<cfg, phase, hops, document, reloaded, signalled, left, waited>>

Finish(r) ==
    /\ phase \in {"serving", "stopping", "closing"} /\ requests[r] = "active"
    /\ requests' = [requests EXCEPT ![r] = "done"]
    /\ UNCHANGED <<cfg, phase, hops, document, reloaded, signalled, left, waited>>

\* The listener cannot be opened or breaks, or the client closes stdin: Start
\* returns by itself.  An error of stdio ends the process as well, by log.Fatal.
StartReturns ==
    /\ phase = "serving"
    /\ phase' = IF cfg.transport = "stdio" THEN "exited" ELSE "failed"
    /\ requests' = Cut
    /\ UNCHANGED <<cfg, hops, document, reloaded, signalled, left, waited>>

\* Before main asks for signals one ends the process, and later ones change nothing.
Signal ==
    /\ phase \notin {"exited", "failed"}
    /\ signalled' = TRUE
    /\ phase' = IF phase \in {"starting", "loading", "checking"} THEN "exited" ELSE phase
    /\ UNCHANGED <<cfg, hops, document, reloaded, requests, left, waited>>

-----------------------------------------------------------------------------
\* Shutdown

\* Run of stdio returns when its context is done; Start of HTTP calls Stop.
BeginStop ==
    /\ phase = "serving" /\ signalled
    /\ IF cfg.transport = "stdio"
       THEN phase' = "exited" /\ requests' = Cut /\ UNCHANGED left
       ELSE phase' = "stopping" /\ left' = Grace /\ UNCHANGED requests
    /\ UNCHANGED <<cfg, hops, document, reloaded, signalled, waited>>

Tick ==
    /\ phase \in {"stopping", "closing"} /\ left > 0
    /\ left' = left - 1
    /\ waited' = waited + 1
    /\ UNCHANGED <<cfg, phase, hops, document, reloaded, signalled, requests>>

\* Shutdown returns when all is idle or its deadline has passed.
StopReturns == Active = {} \/ left = 0

\* A faulty form of StopAgain: main waits until the deadline that has passed.
StopOnce ==
    /\ phase = "stopping" /\ StopReturns
    /\ phase' = "closing"
    /\ UNCHANGED <<cfg, hops, document, reloaded, signalled, requests, left, waited>>

\* main calls Stop again, with a deadline of its own.
StopAgain ==
    /\ phase = "stopping" /\ StopReturns
    /\ phase' = "closing"
    /\ left' = Grace
    /\ UNCHANGED <<cfg, hops, document, reloaded, signalled, requests, waited>>

\* A faulty form of Exit: it waits for all requests.
ExitWhenIdle ==
    /\ phase = "closing" /\ Active = {}
    /\ phase' = "exited"
    /\ requests' = Cut
    /\ UNCHANGED <<cfg, hops, document, reloaded, signalled, left, waited>>

Exit ==
    /\ phase = "closing" /\ StopReturns
    /\ phase' = "exited"
    /\ requests' = Cut
    /\ UNCHANGED <<cfg, hops, document, reloaded, signalled, left, waited>>

-----------------------------------------------------------------------------
Next ==
    \/ CheckConfig
    \/ Open
    \/ \E target \in Targets : Redirect(target)
    \/ \E a \in Answers : Receive(a)
    \/ FetchFails
    \/ CheckTargets
    \/ \E r \in Request : Arrive(r) \/ Finish(r)
    \/ StartReturns
    \/ Signal
    \/ BeginStop
    \/ Tick
    \/ StopAgain
    \/ Exit

\* The process runs and time passes; sources, clients and signals owe nothing.
Spec ==
    /\ Init /\ [][Next]_vars
    /\ WF_vars(BeginStop) /\ WF_vars(Tick) /\ WF_vars(StopAgain) /\ WF_vars(Exit)

-----------------------------------------------------------------------------
\* Properties

\* What an allowlist says of a host: it is on it, or in a domain that is.
Permits(guard, host) ==
    LET named == {i \in DOMAIN guard.entries : guard.entries[i].name # <<>>}
        In(domain) == \E k \in 0 .. Len(host) : SubSeq(host, k + 1, Len(host)) = domain
        Covers(e) == IF e.wild THEN In(e.name) ELSE host = e.name
    IN /\ named # {} => \E i \in named : Covers(guard.entries[i])
       /\ guard.blockPrivate => "private" \notin AddressesOf[host]

\* A document that is fetched comes over permitted hosts alone, after fewer than
\* MaxRedirects redirects, whether at startup or later, and the one a server starts
\* to serve on has no server its upstream guard does not permit.
CheckedBeforeServing ==
    /\ document # NoDocument /\ ~ IsFile(cfg.source) =>
          /\ Len(document.trail) \in 1 .. MaxRedirects
          /\ \A i \in DOMAIN document.trail : Permits(cfg.swagger, document.trail[i].host)
    /\ phase \in {"serving", "stopping", "closing"} =>
          /\ document # NoDocument
          /\ \A base \in cfg.bases : Permits(cfg.upstream, base.host)
          /\ ~ reloaded =>
                \A s \in document.servers : s.scheme \in HTTPSchemes => Permits(cfg.upstream, s.host)

\* Over HTTP, no request that a signal finds active is cut before it has had
\* HTTP_SHUTDOWN_TIMEOUT twice to finish, once in each call of Stop.
GraceBeforeCut ==
    phase = "exited" /\ cfg.transport = "streamable" /\ (\E r \in Request : requests[r] = "cut")
    => waited = 2 * Grace

\* A signal ends the server, whatever its requests do.
SignalEndsTheServer == signalled ~> phase \in {"exited", "failed"}
=============================================================================
