# A TLA+ model of mcp-swagger

mcp-swagger is an MCP server that lets an agent read an OpenAPI (Swagger) document and,
if the operator allows it, call the API the document describes. This directory holds
TLA+ modules of its stateful parts, TLC configurations that check them on small
instances, and TLAPS proofs of the most important properties for every instance. Paths
below are relative to the repository's `internal/` unless they begin with `src/` or
name a file of this directory.

    tlc -config MCConfirmation.cfg Confirmation      # one run
    tlapm ConfirmationProofs.tla                     # one module of proofs

`PROJECT.json` lists components, runs, mutants (faulty variants of a definition, each of
which makes one property fail), the source lines of every definition, the hazards the
properties were chosen for, and the theorems.

## 1. Inventory

| Component | State it keeps | Operations | Talks to |
|---|---|---|---|
| Execution policy (`policy`) | configuration, fixed at startup | `Evaluate` | called by the execute tool |
| Confirmation store (`confirmation`) | map id -> record, under one mutex; memory only | `Request`, `Confirm`, `ConsumeApproved`, expiry in each of them | called by both confirmation tools and by the execute tool |
| Confirmation tools (`tool/policy_request_confirmation.go`) | none | `policy.request_confirmation`, `policy.confirm` | the store |
| Execute tool (`tool/swagger_execute.go`) | none of its own; metrics, audit log | `swagger.http.execute` | Swagger cache, policy, confirmation store, upstream auth, HTTP client, audit, metrics |
| HTTP client (`httpclient`) | global and per-principal semaphores, global and per-principal minute windows | `Do` (acquire, wait twice, send, release) | net/http; context cancellation |
| Swagger cache (`swagger/store.go`) | one snapshot with a deadline, under an RWMutex | five lookups, all through `snapshot` | loader, parser, resolver |
| Loader, parser, resolver (`swagger`) | none | `Load`, `Parse`, `ResolveEndpoint` | files, HTTP, the network guard |
| Upstream authentication (`upstreamauth`) | one cached OAuth token | `Apply` | the token endpoint |
| Inbound authentication (`auth`) | JWKS cache, introspection cache | `Validate`, the HTTP middleware | issuer endpoints |
| Network guard (`netguard`) | none | `ValidateURL`, `ValidateHost` | the resolver of names |
| Other tools (`tool`) | none | search, plan, prepare, generate, validate | the Swagger cache |
| Transports (`server/streamable`, `server/stdio`) | a started flag, the running server | `Start`, `Stop`, middleware chain | MCP SDK, inbound auth, correlation |
| Audit, metrics, correlation | counters; the log sink | `LogCall`, increments, ids | the execute tool and the transports |
| Resources, prompts, registry (`resouce`, `prompt`, `tool/registry.go`, `usecase`) | maps filled at startup | lookups | the Swagger cache |
| Configuration, `main` (`src/config`, `src/cmd`) | none after startup | load, validate, wire | all |

How they interact: every MCP request runs in a goroutine of its own. `swagger.http.execute`
is the path on which everything meets. It looks its endpoint up in the Swagger cache
(which may load the document under a lock everybody waits for), asks the policy,
consumes a confirmation that a human has approved through another tool call in the
meantime, fetches credentials, passes the HTTP client's semaphores and limiters, sends,
and records the outcome. Only mutexes, channels and contexts connect the goroutines;
nothing is persisted, so a restart forgets every confirmation, cache and window.

What is hard, and what makes each part correct:

* *Confirmations*: several executions may present one id at the same time, while the
  human changes his mind, the record expires, and cleanup runs. Correct means: one use
  per approval, for what the human was asked, in time, and never against his last word.
* *Execution*: about ten early returns, before and after the confirmation is used up and
  before and after the request is on the wire. Correct means: every write that is sent
  has a confirmation of its own, and metrics, audit and reality agree.
* *HTTP client*: calls hold tokens of one kind while they wait for another kind, or for a
  window, or for the clock, and may be cancelled at any of these points. Correct means:
  no leak, no deadlock, cancellation works, windows are what they claim to be.
* *Swagger cache*: a lookup decides twice, with two readings of the clock, around a lock
  under which a slow and failing load runs. Correct means: fresh unless a load failed,
  never back in time, one load per TTL, and no lookup stuck.
* *Token caches* (upstream and inbound): the fetch runs without the lock, so answers are
  stored in another order than they were given.
* *Policy and the pure parts*: the order of rules; boundaries and precedence; and that
  several tools compute the same thing in different places. A body is generated by one
  walk over a schema and judged by another; a URL is built by two tools; a response is
  decoded by one and read again by the next. Correct means: what one tool says, the other
  keeps.
* *The process*: the document comes over redirects, and again while the server runs; a
  shutdown goes through two calls of `Stop`. Correct means: no host the allowlists do not
  permit, and no request cut before its time, but an end.

## 2. Modules

| Module | What it is |
|---|---|
| `Policy` | `Evaluate` as operators over a configuration record |
| `PolicyHardening` | the deployments reachable by tightening one setting at a time; the properties of `Policy` |
| `Permit` | abstract specification: permits that are used at most once, only while approved |
| `Confirmation` | the store, one action per operation; implements `Permit` |
| `ConfirmationProofs` | its theorems |
| `Execute` | concurrent executions, composing `Policy` (EXTENDS) and `Confirmation` (INSTANCE) with the tools, the upstream, audit and metrics |
| `ExecuteProofs` | its theorems |
| `MCExecute` | the endpoints, deployments and inputs of the small instances |
| `HTTPClient`, `MCHTTPClient` | admission of upstream calls |
| `HTTPClientProofs` | its theorems |
| `SwaggerStore` | the cache in front of the document |
| `UpstreamToken` | the cache of the OAuth token for upstream calls |
| `JWKS` | validation of inbound JWTs against a cached key set |
| `Introspection` | validation of opaque inbound tokens, with a cache of answers |
| `InboundAuth`, `MCInboundAuth` | the one of the two that the configuration chooses |
| `TokenProofs` | theorems of `InboundAuth` and of `UpstreamToken` |
| `Catalog` | what is made of a document's operations: collection, ids, servers, parameters, responses, indexes |
| `CatalogProofs` | lemmas about it, and about sequences, for the two modules of proofs that follow |
| `Requests`, `MCRequests` | one input through `prepare_request`, `validate_request`, `request_confirmation` and `execute`, composing `Catalog`, `Policy` and `PolicyHardening` |
| `RequestsProofs` | theorems of `Requests` and of `Policy` |
| `Schemas` | resolution, validation, generation and merging, as recursive functions of schemas and values |
| `Bodies` | encoding of request bodies, decoding of responses, envelopes, the choice of a response's schema |
| `Search` | the indexes, filters and ranking of `swagger.search`, and `plan_call` |
| `PayloadFlow` | one operation searched for, its body made and judged, its response judged, composing the three; JSON Schema and the document as the reference |
| `MCPayload` | the documents, operations, bodies, filters and responses of the instance |
| `PayloadProofs` | theorems of `Schemas`, `Bodies`, `Search` and `PayloadFlow` |
| `Guard` | the check of a URL against an allowlist and the address it resolves to |
| `Gateway`, `MCGateway` | the process from startup to shutdown, composing `Guard` with loader and transports |
| `ServerProofs` | theorems of `Gateway` and of `SwaggerStore` |

Definitions whose comment begins with "A faulty" or "Another"
are not part of any specification. They are the mutants of `PROJECT.json`, kept beside
the definition they vary.

### Policy and PolicyHardening

`Evaluate` is a function of the configuration and of one call; its three parts are the
three groups of early returns in `policy/policy.go`. `NewEvaluator`'s trimming and
upper-casing are taken as done, and so are the tests for an empty operationId or method:
the only caller passes an endpoint's own, which are never empty. `PolicyHardening` starts
in every configuration and tightens it step by step. *HardeningNeverLoosens* says that no
tightening lets more through or turns a denial into something a confirmation lifts. One
step that looks like tightening is excluded by a guard, because it loosens: taking the
last name off an allowlist leaves it empty, and an empty allowlist restricts nothing.
*FollowsPriorityTable* compares every decision with the README's table of priorities; it
is proved (in `RequestsProofs`), and checked by no run. `Requests` runs the same configurations (its *Configure*
is `PolicyHardening`'s `Next`), so that a call is decided under a hardened policy.

### Confirmation and Permit

`items` is the map of the live process. `issued`, `verdict` and `uses` are history: they
survive expiry, cleanup and `Restart`, which is what lets *UsesAreCovered* speak of "the
only use of this id, ever". Decisions of the model:

* An operation runs under the mutex, so it is one action. It reads the clock two or
  three times in the code and once here; a record that expires in between is removed by
  the next operation and is never taken for alive later.
* `cleanupLocked` spares the id that is being looked up. The action for a refusal
  therefore deletes every expired record: the caller deletes the spared one itself.
* `newID` draws 128 random bits; a collision is left out.
* The body of the request is no part of the match in the code, nor here: a confirmation
  is for an operation, a method and a URL.
* An empty method or URL in the request for a confirmation matches everything (`Unset`).

*ImplementsPermit* is the refinement: a record's permit is pending, approved, used, or
void (expired, or gone with the process). That it holds means among other things that
neither a late `Confirm` nor cleanup nor a restart ever revives a permit.

### Execute

Each call is a process with the stages prepare, dispatch, upstream, logging, returning. A
stage ends where the call touches what others see: the store (`Confirmed`), the wire
(`Send`), the counters (`fail`, `Succeed`), the audit log (`LogCall`), the gauge
(`Return`). What fails inside a stage is a nondeterministic choice among the codes the Go
code returns there, so every early return is an outcome. `fail` is the closure of that
name up to the audit log, and `outcome` is the entry it is about to write; between the two
other calls may count, log and return, so *RecordsAgree* has the counters ahead of the log
by the calls that are in between. The two counters of a rate-limited call (one increased
just before `fail`, one in it) are one step. `consumers` is history: the calls that used a
confirmation up, so that *SpentConfirmationIsAudited* can speak of the very call that did,
and not of another that was refused for the same id. `OtherTools` are agent and human, who
ask and answer at any time. Not modelled: the computation inside the
stages, redirects (they are net/http's), and a crash between sending and logging (nothing
is persisted, so the process could not know).

Two facts about the code that the model makes visible and that are not errors: a
confirmation is used up before schema validation, credentials and rate limiting, so a
call that fails there has burned it (at most once, never at least once), and a write may
reach the wire after its confirmation's TTL because it waits in the HTTP client.

The fairness of `Execute` (each started call takes steps) rests on `HTTPClient` and
`SwaggerStore`, where the two places that block are shown to let every call go.

### HTTPClient

One process per call of `Do`. Time appears only as differences, so the model keeps ages:
of each window, of each caller's reading of the clock, and what remains of its timer.
`minuteLimiter.Wait` reads the clock *before* it takes its lock; `readAge` models the
delay, bounded by `MaxStall`, and everything in the limiter that follows (`Elapsed`,
`WaitFor`) works with the old reading as the code does. A `select` with two ready cases
takes either. `release` empties a channel only if it is not empty (`Drained`), as the
code does; *SlotsMatchHolders* shows that the empty case never occurs. The window's
counter and the semaphore are separate, and a call may be counted in the global window
and then park in its principal's: it is sent in a later minute than the one it was
counted in. What is bounded is therefore grants per window, and
*WindowsKeepTheirDistance* says how far apart windows are, the global limiter's and each
principal's: a minute less the delay. Two
full windows can meet, so a period of a minute may see twice the limit, the usual price
of fixed windows. A response's body is read after the tokens are given back.

### SwaggerStore

`PeekHit`/`PeekMiss` are the look under the read lock, with the clock read before it,
maybe a whole load ago; `LockHit`/`LockMiss` the second look under the write lock; `Load`,
`Publish` and `BuildFails` run while it is held. Of the document only its version is
modelled. A read lock is free when nobody writes, and a look is one step. In reload mode
nothing is ever usable. When a load fails, the previous snapshot is served and keeps its
deadline, so the next lookup tries again.

### UpstreamToken

`ReadClock` (before the mutex), `Hit` or `Miss` under it, `Issue` at the token endpoint
and `FetchFails` outside of it, `Store` under it again. A token is what the endpoint knows
of it: its lifetime, whether the answer stated it, and when it was issued. `deriveTTL` and
`parseExpiresIn` are operators; a lifetime beyond the largest `time.Duration` reads as any
value, because `time.Duration(v) * time.Second` wraps (and the conversion of a `float64`
out of range is the platform's choice). *NoDeadToken* says for which tokens the cache is
sound: the answer arrives within the margin, no `UPSTREAM_OAUTH_TOKEN_CACHE_TTL` overrides
`expires_in`, and the lifetime has room for margin and floor. A token that lives for less
than fifteen seconds may be sent after its end; that is what the code does on purpose (it
keeps every token for five seconds), and the reason for the precondition.

### JWKS, Introspection and InboundAuth

Both validators are read as their sources stand: the cache is copied under the read lock
and judged by a clock that is read later (`Look`, then `Hit`, `Miss`, `JudgeStale`); the
fetch runs without a lock (`Answer` is the moment at which the issuer's answer is fixed);
what was fetched replaces whatever is there (`Store`). `lookupKey`'s second look after a
refresh is the same action as the first, with `refreshed` set. Issuer steps (`Publish`,
`Remove`, `Revoke`) may come between any two of them. `acceptedAt` is the reading of the
clock by which a request was let in. Of the claims only `exp` is told apart, and only for
opaque tokens; the other claim and scope checks, of both kinds, are free choices to refuse.
Signatures verify exactly under the key that made them; a removed key does not return.
A set's deadline starts when it is stored, not when it was asked for: hence the latency
in *RemovedKeysRunOut* and *RevokedTokensRunOut*. *MissingKeyIsExplained* is about
rotation: a refreshed set may be replaced by an older one that another request fetched
before, so a good token can be refused, and this is the only way. `cached` deletes whatever
entry is there when the lock is free, be it a fresh one (`Evict`): it costs another
introspection and nothing else. `InboundAuth` composes both by INSTANCE: `buildValidator`
makes one of them, by `OAuthMode`, and the middleware gives it every request.

### Catalog and Requests

`Catalog` is `buildState` and `ResolveEndpoint`: operations in the order of paths and
methods, an id made up of method and path where there is none, servers by precedence
(override, operation, path, document; an empty list of an operation is a list),
parameters merged by place and name, one media type per body, responses grouped by
status, with ranges and informational ones dropped. A name is a sequence of words, which
is what makes two made-up ids alike: `/a_b` and `/a/b`, `{d}` and `d`. A segment of a
path is its text, its words, and whether it is a parameter. Two details of names are left
out: the index is asked with a trimmed id and filled with an untrimmed one, so that an id
given with blanks around it is never found; and header names are in one case.

`Requests` takes one input of an agent through the tools. *Serve* loads a document under
settings of the operator, *PrepareRequest* and *ValidateRequest* are the two rehearsals,
*RequestConfirmation* hands on the operation, method and URL of what was prepared last,
and *Execute* builds the request again, with another base URL and other options, asks the
policy, and matches the confirmation. What may become of a confirmation in the meantime
is left to `Confirmation` and `Execute`: here it is approved and unused. A URL keeps its
segments and, in each, the parts between slashes, because escaping is where two ways of
building it differ.

What the proofs need to know of the constants is what the parsed types give: the items of
a document have different paths (they are the keys of a map) and methods of OpenAPI's
path items; servers, override, sandbox, upstream and `baseURL` are lists of base URLs,
each a sequence of segments with a query; the value of a path parameter is a sequence of
parts. That is *DocumentsAssumption*, *SettingsAssumption* and *InputsAssumption*.

* *IdsLeadBack*: the id under which an operation is listed leads `execute` back to it,
  unless another is like it; *Alike* is stated over the document. Two operations that are
  alike exist in the instance; the last one collected answers for both.
* *ParametersArrive* compares a validated request with the document: every required
  parameter is where the document has it; and a rehearsal that finds fault with more than
  the body names a parameter the document requires and the input does not have. The URL
  may have it all the same: a query of the base URL is not looked at by the validation.
* *ConfirmedAsPrepared* relates three tools: a confirmation asked for with an answer of
  `prepare_request`, or with what `execute` suggests, works for the same input, and only
  for the URL the human was shown. Its exceptions are facts about the code:
  `prepare_request` uses the input's `baseURL` or the document's server, while `execute`
  ignores `baseURL` and prefers the sandbox or `UPSTREAM_BASE_URL`, so under these settings a
  confirmation asked for with the prepared URL never matches; and an id given in
  `params.query` becomes part of the URL, and so never matches.

Also seen in the model, and not contradicted by any document: `validate_request` adds no
default headers and has no limit on the body, so it may find a header missing that
`execute` would add, and pass a body that `execute` refuses. A slash in the value of a
path parameter is one escaped segment when there is no base URL, but with one the path is
parsed and put together again, and the value becomes two segments; *InOnePart* excludes
it. Cookie parameters are never looked at.

### Schemas, Bodies, Search and PayloadFlow

`Schemas` has one definition per Go function: *ResolveSchema* (`resolver.go`), *Issues*
(`validateValueAgainstSchema`), *Generate* with its helpers, and *DeepMerge*. A value is a
record of its kind, what `fmt` prints of it, its fields and its elements; a schema a
record of keywords. An issue is its kind, not its wording, so the uniqueness of messages
disappears in a set. Generated strings and numbers are one value each: the validator looks
at no format, length, pattern or numeric limit. The keywords that the resolver keeps
and nobody reads are part of a schema all the same: `nullable`; `oneWay`, the fields that
are readOnly or writeOnly; `union`, a list of several types, which reaches the readers as a
`[]string` and is no type for them; `others`, the schemas under `not` and
`additionalProperties`, which are resolved and indexed; and `excludes`, the values that
these two and formats, lengths, patterns, limits and uniqueness rule out, by their meaning
alone. An enum is compared as `fmt` prints its values, which forgets kinds at every depth:
of a scalar that is its text, of objects and arrays the constant operator `PrintOf`, any
operator at all for the proofs, and for TLC one by which `{"p":1}` is `{"p":"1"}` and
`["x y"]` is `["x","y"]`. *CircularRef* is a schema without
keywords, since no reader of the tree knows the key `x-circularRef`; as all schemas are
taken to be components, it is never an empty map, and the generator makes a string of it.
The recursion of the Go code is that of functions: what is done at one place (`ValueIssues`,
`MergedField`, `GenerateFrom`, `ResolvedSchema`) takes the function itself as its first
argument, which says what is done at the parts. Their domains are the trees the resolver
can make (`SchemaTrees`) and `JSONValues`, a constant.

`Bodies` is the way of a body: what is sent for a request's, how `execute` makes an
envelope of a response's bytes, how `validate_response` reads an envelope given field by
field or as one object, and which of the responses judges it. A string that holds JSON has
the value it holds as its element, which is all that parsing is about here. `Search` has
the indexes, the filters, the scores with their order, the page and the listings of
`swagger.search`, and the choice of `plan_call`.

`PayloadFlow` takes one document through *Resolve*, and then one of three ways: a search;
*GeneratePayload* or *WriteBody* and *ValidateRequest*; or *Execute* and
*ValidateResponse*. *Admits* is the reference: JSON Schema on the document itself, which
knows nothing of markers or of the generator. *Meets* is the reference of a search: what
the document says of an operation and the schemas it refers to, however far down.

* *AdmittedBodiesPass* and *PassingBodiesAreAdmitted* are the two directions in which the
  validator agrees with it. *GeneratedBodyPasses* and *GeneratedBodyIsAdmitted* say that
  the generator's one choice at every composition survives the validator's, and the
  document's, look at all of them. *OverridesReplaceTheirOwn* is stated over the paths of
  the values, not over the recursion of the merge.
* The preconditions of the first two are part of the result: without any one of them the
  properties fail on the instance, but for three that are there for documents it does not
  have (types the validator does not know; a field required in one direction only, among
  the options of a `oneOf`, in *Exact*; without *WellFounded* the reference has no meaning).
  So this is what the code does not do. It refuses a null where a schema is `nullable`
  (*NoneIsNullable*), and it demands a required field in requests and in responses, though
  it be readOnly or writeOnly (*OneWayRequired*): two false alarms, about keywords that the
  resolver hands on. It lets pass every value for a list of types, what is excluded by a
  keyword that it does not read, and, for an enum, what is printed like one of its values:
  hence *Covered* asks for an enum of scalars, of the schema's own type. In a recursive
  document with a `oneOf` a valid body may be refused, because the marker matches everything and makes a second option match. A
  recursive document may also let an invalid body through. The limits of arrays are not
  checked, the fields and items of a schema without `type` neither, and an absent body is
  never missed.
* *Generable* says of which documents a valid body can be made the generator's way: by one
  keyword, in the order of its precedence. Six of its conjuncts are needed on the instance:
  no `oneOf` in a recursive document; `required` beside `properties` only; options of a
  `oneOf` told apart by their types, two conjuncts; an `allOf` of objects; and these
  describe what they require. The others are what the proof needs for documents at large:
  no more than 17 schemas reached from the root (below `MaxDepth` the generator makes a
  null), an `example` or `enum` of the type beside it (both are taken as they are), no
  second keyword beside the one that decides, `minItems` up to `maxItems`, no option for
  integers beside one for numbers, and fields that two parts of an `allOf` share by the
  same schema, since the later part wins. 1735 of the 3152 documents are
  *Generable*, 1074 of them recursive, 54 with an `allOf` and 68 with a `oneOf`; 1637 of
  them are *Plain* as well, which is what *GeneratedBodyIsAdmitted* asks for: the generator
  takes a list of types for none, and knows some formats and limits, whose part in what it
  makes is left out. It fills readOnly fields too, which nothing forbids. What the
  code does elsewhere: an object with `required` and no `properties` is generated empty,
  although README.md:1108 says "fills required fields"; a part of an `allOf` may overwrite
  a field of another with the placeholder; and `maximal` puts a string where a schema
  recurs, which *GeneratedBodyIsAdmitted* excludes.
* *AdmittedResponsesPass* says of `execute`'s verdict what *AdmittedBodiesPass* says of a
  request's, through decoding, lookup of the response and opening of envelopes.
  *VerdictsAgree* compares it with that of `validate_response` on the envelope `execute`
  returned. The exception is a JSON string that holds JSON: `execute` reads it when it
  validates, `validate_response` when it normalises, and once more when it validates. An
  API whose own answers look like an envelope (`bodyEncoding`, `body`) has them opened.
  The exceptions of *AdmittedBodiesPass* hold for responses too: a response with a null for
  a `nullable` field is reported as invalid.
* *SearchIsExact* says that the count, the page, the listing of the users of a schema and
  the choice of `plan_call` are those the document calls for, where ids are unique. The
  listing of schemas whose names contain the query is left out.

### Guard and Gateway

`Guard` is `netguard`: a host is a sequence of labels, so that the end of a domain is the
end of a sequence. Entries are exact or wild; blank ones count for nothing, and a list of
only such entries restricts nothing. What a name resolves to is a constant: the classes of
addresses are `guard.go`'s, the resolution is not its own (and is done again by the
connection, which the model does not see).

`Gateway` is the process. *CheckConfig* is `Validate`, `validateConfiguredTargets` and the
authentication that HTTP needs; *Open*, *Redirect*, *Receive* and *FetchFails* are the
loader and the parser, at startup and again while requests are active (`SwaggerStore` says
when); *CheckTargets* is the check of the document's servers, which happens at startup
only: a document loaded later is not checked, hence *reloaded* in the property. The loads by
which `main` lists its resources, between that check and the first request, are not a
phase of their own, but loads like those that follow. *Signal*
may come at any time. Over HTTP a shutdown is `Stop` in `Start`, then `Stop` again in
`main`, with a deadline each; over stdio the process ends at once. (A transport that fails ends `main` in `log.Fatal`;
the model does not tell the exit codes apart.)

*CheckedBeforeServing* states the allowlists in terms of the ends of names, not of
`normalizeAllowlist`, over everything that was asked on the way to the document in use. It
allows fewer than `MaxRedirects` redirects: `len(via) >= max` counts the first request too,
so the five of the documentation are four redirects.
*GraceBeforeCut* says that no request is cut before both deadlines are over, so that a
shutdown takes up to twice `HTTP_SHUTDOWN_TIMEOUT`; *SignalEndsTheServer* that it ends.

## 3. Runs

| Run | Instance and bounds | Shows |
|---|---|---|
| `requests` | all configurations over 2 operations, 3 methods, five of them served; 4 documents, 4 settings, inputs complete or with one or two parts otherwise | *IdsLeadBack*, *ParametersArrive*, *ConfirmedAsPrepared*, *HardeningNeverLoosens* |
| `confirmation` | 2 ids, 2 methods, TTL 2, clock to 4 | *TypeOK*, *UsesAreCovered*, *ImplementsPermit* |
| `execute` | 2 calls, 2 ids, a write and a read endpoint, TTL 1, clock to 1, two deployments | *EachWriteHasItsOwnConfirmation*, *NoWriteAgainstTheHumansWord*, *RecordsAgree* |
| `execute_live` | 2 calls, 1 id, no symmetry | *SpentConfirmationIsAudited* |
| `httpclient` | 3 calls of 2 principals, 2 global tokens, 1 per principal, 1 call a minute of 3 ticks, delay 1 | *TypeOK*, *SlotsMatchHolders*, *WindowsKeepTheirDistance* |
| `httpclient_live` | the same, minutes of 2 ticks, no delay | *CancelledCallReturns*, *EveryCallReturns* |
| `httpclient_quota` | 4 calls, 2 global tokens, 2 per principal | violated: *NotBlockedByAnothersQuota* |
| `swagger_store` | 2 callers, TTL 2, clock to 3, one edit | *FreshOrFailed*, *NoGoingBack*, *LoadsAreATTLApart*, *EveryLookupReturns* |
| `upstream_token` | 2 callers; lifetimes too short, just long enough, and overflowing; clock to 5 | *TypeOK*, *NoDeadToken* |
| `inbound_auth` | 2 requests at a time, 2 keys, a token with `exp` and one without, TTL 1, latency 1, clock to 3 | *TypeOK*, *RemovedKeysRunOut*, *MissingKeyIsExplained*, *RevokedTokensRunOut*, *NeverAfterExp* |
| `payload` | 3152 documents of three schemas A, B, C, eight of them with a fourth; objects with fields `p`, `q`, arrays with and without limits, pairs under `oneOf`, `anyOf`, `allOf`, 248 documents with keywords that nobody reads or with enums that print alike; 3 operations; 37 bodies, 2 strategies, 2 overrides, 7 searches, 15 responses | *AdmittedBodiesPass*, *PassingBodiesAreAdmitted*, *GeneratedBodyPasses*, *GeneratedBodyIsAdmitted*, *OverridesReplaceTheirOwn*, *SearchIsExact*, *AdmittedResponsesPass*, *VerdictsAgree* |
| `gateway` | 4 kinds of guards, sources and redirects inside and outside of them, 3 requests on the way, 2 requests, 2 ticks of grace | *CheckedBeforeServing*, *GraceBeforeCut*, *SignalEndsTheServer* |

Why these bounds are enough to be interesting: two ids and two calls give every race for
one confirmation and every mix-up of two; the clock runs past each TTL, so records expire
while they are pending, approved and used; two tokens and three calls make every semaphore
and both limiters full with a call waiting at each; two callers of the cache give a load
that others wait for, and a clock beyond the TTL a second load. Two overlapping fetches
are what it takes to store answers out of order, and a clock past latency plus TTL is what
it takes to accept something too late. Larger constants add permutations of the same
situations. The safety properties do not depend on the bounds at all: every one of them is
proved below. `execute` uses symmetry of calls and ids, `inbound_auth` of requests and
keys (their properties and inputs treat these alike); no liveness run does. The runs of
`Execute` stop when all calls have returned and the clock stands, `payload` and `requests`
with the last answer, and `gateway` when the process has ended, hence `CHECK_DEADLOCK
FALSE` there; in the other modules deadlock is checked.
Three schemas give a schema shared by two others, cycles of length one to three, and a
cycle that passes through a composition. The documents of `requests` have what the code
tells apart: an id that is given twice, one that is made up alike, and one made up that
another operation was given; a parameter on path and operation, required in one of them;
servers on each level, relative and unknown ones, and one with a path and a query that
has a required parameter's name. Two
redirects are what the limit of three requests lets pass, a third is one too many.

### Fairness

* `Execute`: weak fairness of each call. Agent, human and clock may stop for ever.
* `HTTPClient`: weak fairness of each call: goroutines are scheduled, a `select` whose case
  stays ready fires, and the transport answers within `HTTP_TIMEOUT`. The clock is not
  assumed to run except where *EveryCallReturns* says so. Each call tries finitely often
  to get in because the instance has finitely many calls; with an endless stream of new
  ones the code promises nothing, as its limiter is no queue (a hazard in
  `PROJECT.json`).
* `SwaggerStore`: strong fairness of taking the lock, because `sync.RWMutex` blocks new
  readers behind a waiting writer and `sync.Mutex` hands itself to who has waited longer
  than a millisecond; weak fairness of the load, which `SWAGGER_HTTP_TIMEOUT` ends.

* `Gateway`: weak fairness of what the process does by itself once a signal has come
  (*BeginStop*, *StopAgain*, *Exit*) and of the clock. Sources, clients, requests and
  signals owe nothing.

### The violated property

`httpclient/client_test.go:130` says "other principal request should not be blocked by
alice quota", and tests it with one waiting call and ten tokens. `Do` takes the global
token first and keeps it while it sleeps in the principal's own limiter. When alice has
as many sleeping calls as there are global tokens, which the default
`MAX_CONCURRENT_CALLS_PER_PRINCIPAL` = `MAX_CONCURRENT_CALLS` permits, bob's call waits
for up to a minute, although his quota is untouched. `httpclient_quota` gives the trace.

## 4. Proofs

All proofs are for every value of the constants allowed by the modules' `ASSUME`s.

* `ConfirmationProofs`: *TypeCorrect*, *OneShotConfirmation* (`[]UsesAreCovered`) and
  *Implementation* (`Spec => ImplementsPermit`). *UsesAreCovered* is not inductive: that a
  record is unused must imply that the history holds no use of it. `StoreAgrees` ties the
  map to the history (target, deadline, verdict, use), and ids never drawn have no
  history. *Implementation* maps each action to a step of `Permit`: `Request` to `Issue`
  while cleanup is invisible (expired records are void already), `Tick` and `Restart` to
  `Void` of those that are lost.
* `HTTPClientProofs`: *TypeCorrect*, *NoLeakedSlots* (`[]SlotsMatchHolders`) and
  *WindowsApart* (`[]WindowsKeepTheirDistance`, for every limiter). The tokens are counted
  as cardinalities of sets of calls; a move of one call changes at most one of these sets
  by one element (`GlobalMove` and its siblings). For the windows the missing fact is
  `OpenedByItsAge`: a window was opened when its age says, or up to `MaxStall` later;
  `GrantKeepsApart` is the step, the same for both kinds of limiter.
* `ServerProofs`, of `SwaggerStore`: *StoreTypeCorrect*, *Freshness*, *Monotonicity* and
  *OneLoadPerTTL*. The strengthening is `LockProtects`: the snapshot is the newest version ever served and no
  newer than the document, what the lock's holder has read lies between the two, and the
  state it took the lock for is over its TTL and remains so; and `NotesArePast`.
* `TokenProofs`, of `UpstreamToken`: *TokenTypeCorrect* and *NoDeadTokenEver*, from the latency bound, the
  margin and the floor as `Cacheable` and `LongEnough` state them. What has to be added is
  that the cached deadline is the cached token's own (`DeadlineIsTheTokens`), whichever
  answer came last, and that an answer on its way is recent (`AnswersAreRecent`);
  `TTLsShort` does the arithmetic of `deriveTTL`, the overflow included.
* `TokenProofs`, of `InboundAuth`: *RemovalTakesEffect*, *OnlyOverlapsMissKeys*,
  *RevocationTakesEffect*, *ExpiryIsKept* and *TypeCorrect*. `OInv` and `JInv` are the inductive
  invariants of the two validators: every deadline, in the cache or in a copy, is `Sound`
  for its token (for each key of its set), and an answer on its way is recent and from
  before the revocation of what it vouches for. For rotation, `SteadyKeyFound` follows a
  published key from the answer through the cache to the second look. `IInv` adds that the
  validator which was not made has no requests, so that the common clock disturbs nothing.

* `ExecuteProofs`: *TypeCorrect*, *OwnConfirmation* (`[]EachWriteHasItsOwnConfirmation`),
  *TheHumansWord* (`[]NoWriteAgainstTheHumansWord`), *RecordsAgreeAlways*, *UsesTheStore*
  (`SafetySpec => Store!Spec`) and *ImplementsPermits* (`SafetySpec =>
  Store!ImplementsPermit`), of `SafetySpec`, for any set of calls. That the calls *on
  the wire* have confirmations of their own is not inductive: a call may send long after
  its check. `EntitledInv` says it of every call that is *cleared*, from the check on:
  it is allowed, or the history holds a use of its id for exactly its request, and no
  other cleared call has that id. A new use cannot collide with it, since it needs an
  unused record and `StoreAgrees` ties that to a history without uses. `Counted` makes
  each counter the size of a set of calls, which is finite though the set of all calls
  need not be. `StepOfStore` shows that every step is one the store knows, or none of
  its own; the theorems of `ConfirmationProofs` then hold of the composition (through an
  instance of that module), and *TheHumansWord* combines `UsesAreCovered` with
  `EntitledInv`.
* `ServerProofs`, of `Gateway`: *OnlyPermittedHosts* (`[]CheckedBeforeServing`) and *GracePeriod*
  (`[]GraceBeforeCut`). `ValidIsPermitted` proves that the guard lets only permitted hosts
  pass, for every allowlist (`SuffixIsAnEnd` does the arithmetic of wildcards). `FetchInv`
  carries that along the hops of a fetch, and `ServeInv` carries the checks of the startup
  into the phases that rest on them. For the deadlines, `TimeInv` adds up what has gone by
  and what is left.
* `RequestsProofs`, for any documents, settings and inputs that the assumptions admit:
  * *IdsAlwaysLeadBack* (`[]IdsLeadBack`). `SnapshotOfOperations` says what *buildState*
    makes of a document: its endpoints are those of all operations, and its index has, at
    each id, one with this id. `SameIdIsAlike` turns equal ids into operations that are
    *Alike*. The invariant is `Loaded`: what is served was made of one document.
  * *ConfirmedIsAsPrepared* (`[]ConfirmedAsPrepared`), by the inductive invariant `Asking`:
    what a confirmation was asked for is what `prepare_request` shows for the present
    input, or what `execute` makes of it. `IdInTheWay` says that an id at the top of the
    input changes nothing of the request that `execute` builds.
  * *ParametersAlwaysArrive* (`[]ParametersArrive`). `JoinedPath` and `ExpandedPath` follow
    a path parameter to its place in the URL, behind whatever base; `PreparedIsComplete`
    says for one request what the three tools then inherit.
  * *MergedParameters*: the merge of two lists of parameters is the last definition of each
    of the operation's, and of those of the path that the operation has none for.
  * *EvaluateIsTheTable*, that `Evaluate` is the table of priorities, for every
    configuration, operation and method; and *HardeningIsSafe* (`Spec =>
    HardeningNeverLoosens`).

  What *collectOperations*, *sortOperations* and *buildState* make of any document is in
  `CatalogProofs`: each operation once, and nothing else (`SnapshotOfOperations`,
  `SnapshotListing`). The definitions under these (`FlattenSeq`, the fold behind the merge,
  *ElementsAt*, the order of methods) are recursive functions. What they compute is proved
  by least counterexample, without an induction theorem: `LeastNumber` says that a set of
  numbers that is not empty has a least one, and a least place at which a function is wrong
  has a place before it at which it is right (`FlattenElements`, `ChosenElements`).
* `PayloadProofs`, for any documents of finitely many schemas, API, bodies, overrides, filters
  and responses that the assumptions admit:
  * *NoFalseAlarms* (`[]AdmittedBodiesPass`) and *NothingSlipsThrough*
    (`[]PassingBodiesAreAdmitted`). `Leniency` and `Exactness` compare the validator on the
    tree of a schema with *Admits* on the schema itself, at every place at which the
    resolver may come by and with every set of schemas open there: a marker lets all
    values pass, and where nothing recurs there is none. `AskedLess` and `AskedAsMuch` are
    the step for one schema and one value, keyword by keyword. They speak of the values that
    are `Clean` for the document, without a null unless no schema is nullable, which the
    parts of a clean value are too (`CleanValues`). Of `PrintOf` nothing is assumed: equal
    values print alike, and scalars of one kind differ in their text.
  * *OverridesAlwaysReplaceTheirOwn* (`[]OverridesReplaceTheirOwn`): `MergedLeaves` says by
    paths what the recursion of `deepMergeMaps` does, `GeneratedIsJSON` that the generator
    ends, at the depth where the Go code gives up, with a value.
  * *GeneratedAlwaysPasses* (`[]GeneratedBodyPasses`) and *GeneratedIsAlwaysAdmitted*
    (`[]GeneratedBodyIsAdmitted`) are one argument about two judges, the validator and the
    document. `Judges` has what it needs of a judge: a value that a schema admits, by its
    verdicts on the parts, is accepted; a marker accepts everything; an accepted value has
    the type asked for; and what is expanded alike is judged alike. `MadeIsAccepted` says
    that such a judge accepts what the generator makes, at every place at which the
    strategy comes by and with every set of schemas open there (`ValidatorJudges` and
    `DocumentJudges` say that these two are). `AcceptedHere` is the step for one schema,
    keyword by keyword; the document asks more than the validator, for the length of arrays,
    among others (`Fits`, `FitsAdmits`), and for more still where a document is not *Plain*.
    The hard one is `allOf`: the parts are merged and each of them is
    asked about the fields of all. `MergeGathers` says that objects which agree on what they
    share are merged without loss, and `SharedField` that two parts make the same of a
    field they share although each was open for the other's: `ExpandedAlike` proves that
    what is open counts only as far as the field's schema leads there. `NotTooDeep` bounds
    the depth by the number of schemas that are open.
  * *NamesAreExact*: the names collected from a resolved schema are those of every schema
    that its references lead to. The markers stand where a schema has been seen already, so
    they hide no name (`NamesAreClosed`).
  * *SearchFindsWhatMeets* (`[]SearchIsExact`): by *NamesAreExact* and `SnapshotListing` an
    endpoint passes the filters just where the document says so (`PassingIsMeeting`); the
    order by score is a permutation of what passed (`BestFirstElements`), so that it is
    listed once, and counted once.
  * *Agreement* (`[]VerdictsAgree`) and *ResponsesAreNotRejected* (`[]AdmittedResponsesPass`).
    `HandedBody` goes through what `execute` may have put into an envelope, and what
    `normalizeResponseBody` makes of each. The invariant is `Reported`: answer, envelope and
    verdict are those of one call.

  A recursive definition means something only if it goes down. `Recursion` proves that one
  which does, by some number, has the value its equation says; `Descent` is the induction
  that goes with it. The number is the depth of a value, the height of a tree (which is
  finite, as no way from its root has a schema twice), the rank of a schema among
  those it is composed of, what is left of `MaxDepth`, or a pair of these.

The hypotheses of these theorems are on `JSONValues`. `OnlyJSON`: each of its members is
JSON (of an object, just its fields: `WellFormed`) and built of fewer levels than itself (that
is, of finitely many) out of other members.
`AllOfJSON`: moreover, it has all values that can be built of its members. The finite trees
over strings satisfy both, and every body that the Go program can hold is one of them, as
`json.Unmarshal` and the generator make nothing else. An instance of TLC satisfies `OnlyJSON`;
it cannot satisfy `AllOfJSON`, but then TLC evaluates a function only where it is applied.
Two further assumptions are of a technical kind: `LiteralsAssumption` says that the literals
of `Schemas` are strings, which the provers do not know, and `APIAssumption` that
the operation which is called is one of the API's and that its bodies refer to schemas the
document has, which the parser has seen to. That ids are unique it does *not* say: nothing
in the loader makes it so, and *SearchIsExact* and *AdmittedResponsesPass* have it as a
precondition instead (what happens otherwise is *IdsLeadBack*'s subject).

Only model-checked is what these provers have no means for, liveness under fairness:
*EveryLookupReturns*, *CancelledCallReturns*, *EveryCallReturns*, *SpentConfirmationIsAudited*
and *SignalEndsTheServer*.

## 5. Not modelled

* Left out for good: JSON parsing and OpenAPI parsing (libraries), signatures and TLS,
  MCP framing and sessions (the SDK's), wording of messages, static schemas, `echo` and
  `health`, correlation ids (no state).
* Name resolution: a name may resolve to another address when the connection is made than
  when `netguard` checked it. The model has one address per name.
* The chain of HTTP handlers (body limit, CORS, correlation, authentication in front of
  the MCP handler): a sequence of tests on one request, without shared state.
* The audit log's redaction: a walk over names and patterns of text, whose subject is the
  text itself, which the models leave out. That each execution has one entry is in
  `Execute`.
* Reading the configuration from environment and flags, and the ranges of single values.
* Resources, prompts and registry: reads of maps that do not change after startup, and
  of the Swagger cache.
* Claims and scopes of inbound tokens: free choices to refuse, see above. Lookup by JSON
  pointer, security requirements, examples, and the listing of schemas by a query.
* Redirects of upstream calls: net/http follows those whose URL passes the check.

## 6. Plan

Built in this order: `Policy`, `Permit`, `Confirmation`, `Execute`, `HTTPClient`,
`SwaggerStore`, `UpstreamToken`, `JWKS`, `Introspection`, `InboundAuth`, `Schemas`,
`PayloadFlow`; then `Catalog`, `Search`, `Bodies`, `Requests`, `Guard`, `Gateway`, and the
proofs of `Policy`, `Gateway`, `Execute`, `Catalog`, `Requests` and `PayloadFlow`. Worth doing
next:

1. Claim and scope checks of `auth` as operators, and the order of the HTTP handlers.
2. An abstract TTL cache that serves nothing older than its bound, implemented by the
   three caches, and admission control as two counters, implemented by `HTTPClient`.
3. Redirects of upstream calls in `HTTPClient`, with the URL check of `Guard`.
