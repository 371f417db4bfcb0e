------------------------------ MODULE Requests ------------------------------
(***************************************************************************)
(* One request of an agent against a configured server: how                *)
(* swagger.http.prepare_request, .validate_request and .execute            *)
(* (internal/tool) build it from the same input, and what                  *)
(* policy.request_confirmation remembers of it.  The operator configures   *)
(* the policy (PolicyHardening), the server is started on a document, and  *)
(* the agent takes one input through the tools.                            *)
(*                                                                         *)
(* The text of a parameter is the sequence of its parts between slashes,   *)
(* the empty one being blank.  A URL is [host, path, query], its path a    *)
(* sequence of segments, each a text: one with more than one part is a     *)
(* segment with an escaped slash.       Header names are in lower case.    *)
(* The confirmation is approved and unused; what else may become of it is  *)
(* in Confirmation and Execute.                                            *)
(***************************************************************************)
EXTENDS Policy, Catalog

CONSTANTS
    Op, Method,   \* as in PolicyHardening
    Served,       \* the configurations under which calls are looked at
    Documents,    \* as in Catalog
    Settings,     \* [override, upstream, sandbox, validate]: the base URLs configured
    Inputs,       \* [op, params, legacy, baseURL]
    Hosts         \* those that the network guard lets pass

VARIABLES
    config,       \* the policy
    stage,        \* "configuring", "serving", "given", "rehearsed", "executed" or "asked"
    document, settings,
    snapshot,     \* what the store has made of the document
    input,        \* of the agent
    by,           \* the tool whose request counts: is asked about, once asked
    prepared,     \* the request prepared last
    issues,       \* what its validation has found
    asked,        \* the target of the confirmation, <<>> if there is none
    idAt,         \* where execute was given its id, "none" without one
    outcome       \* of execute: "sent" or the code of its error

ASSUME DocumentsAssumption == \A d \in Documents : IsDocument(d)

ASSUME SettingsAssumption ==
    \A s \in Settings : AreBases(s.override) /\ AreBases(s.upstream) /\ AreBases(s.sandbox)

ASSUME InputsAssumption ==
    \A in \in Inputs :
        /\ in = [op |-> in.op, params |-> in.params, legacy |-> in.legacy, baseURL |-> in.baseURL,
                 confirmation |-> in.confirmation]
        /\ AreBases(in.baseURL)
        /\ \A given \in {in.params, in.legacy} :
              "path" \in DOMAIN given => \A name \in DOMAIN given.path : IsSeq(given.path[name])

vars == <<config, stage, document, settings, snapshot, input, by, prepared, issues,
          asked, idAt, outcome>>

Policies == INSTANCE PolicyHardening

-----------------------------------------------------------------------------
\* Input

NoText == <<"[]">>          \* a value that is neither a text, a number nor null
IdText == <<"c1">>          \* the id of the confirmation

Parts == {"path", "query", "headers", "body"}

Overlay(f, g) ==
    [k \in DOMAIN f \cup DOMAIN g |-> IF k \in DOMAIN g THEN g[k] ELSE f[k]]

ValueOr(f, key, default) == IF key \in DOMAIN f THEN f[key] ELSE default

\* What params has hides what stands beside it, whole.
paramOrLegacy(in, part, default) ==
    ValueOr(in.params, part, ValueOr(in.legacy, part, default))

\* A bare query counts where neither of the two is given.
queryGiven(in) == paramOrLegacy(in, "query", ValueOr(in.legacy, "bare", <<>>))

Textual(f) == \A key \in DOMAIN f : f[key] # NoText

\* <<>> if the input is refused.
parseExecuteInput(in) ==
    LET path    == paramOrLegacy(in, "path", <<>>)
        query   == queryGiven(in)
        headers == paramOrLegacy(in, "headers", <<>>)
    IN IF in.op = <<>> \/ ~ (Textual(path) /\ Textual(query) /\ Textual(headers)) THEN <<>>
       ELSE <<[op |-> in.op, path |-> path, query |-> query, headers |-> headers,
               body |-> paramOrLegacy(in, "body", ""), baseURL |-> in.baseURL,
               confirmation |-> IF in.confirmation # <<>> THEN in.confirmation
                                ELSE ValueOr(query, "confirmationId", <<>>)]>>

-----------------------------------------------------------------------------
\* Preparation

\* Path parameters that the input does not have, or has blank.
MissingInPath(path, given) ==
    {path[i].text : i \in {k \in DOMAIN path :
        path[k].param /\ ValueOr(given, path[k].text, <<>>) = <<>>}}

\* A value is one segment, its slashes escaped.
expandPathTemplate(path, given) ==
    [i \in DOMAIN path |-> IF path[i].param THEN given[path[i].text] ELSE <<path[i].text>>]

Segments(parts) == [i \in DOMAIN parts |-> <<parts[i]>>]

\* A URL without a base keeps the escapes.  Against a base the path is parsed, and
\* put together again from its parts.
buildTargetURL(base, path, query) ==
    IF base = <<>> THEN [host |-> "", path |-> path, query |-> query]
    ELSE [base[1] EXCEPT !.path = @ \o Segments(FlattenSeq(path)), !.query = Overlay(@, query)]

FirstServer(e) == IF e.servers = <<>> THEN <<>> ELSE <<e.servers[1]>>

Refused(code) == [error |-> code]

\* opts is [base, needsBase, limited, defaults]: whether a base is needed, a large
\* body refused, and which headers are added.
prepareEndpointRequest(e, in, opts) ==
    LET base == IF opts.base # <<>> THEN opts.base
                ELSE IF in.baseURL # <<>> THEN in.baseURL
                ELSE FirstServer(e) IN
    IF MissingInPath(e.path, in.path) # {} THEN Refused("invalid_request")
    ELSE IF base = <<>> /\ opts.needsBase THEN Refused("no_base_url")
    ELSE IF opts.limited /\ in.body = "large" THEN Refused("invalid_request")
    ELSE [error   |-> "",
          op      |-> e.id,
          method  |-> e.method,
          url     |-> buildTargetURL(base, expandPathTemplate(e.path, in.path), in.query),
          path    |-> in.path,
          query   |-> in.query,
          headers |-> Overlay([h \in opts.defaults |-> <<"default">>], in.headers),
          body    |-> in.body]

validateRequiredParams(e, place, given) ==
    {place : p \in {q \in e.params :
        q.place = place /\ q.required /\ ValueOr(given, q.name, <<>>) = <<>>}}

\* Cookies are not looked at.  A body is judged by its schema, see Schemas.
validatePreparedRequest(e, r) ==
    validateRequiredParams(e, "path", r.path)
    \cup validateRequiredParams(e, "query", r.query)
    \cup validateRequiredParams(e, "header", r.headers)
    \cup {k \in {"body"} : r.body # "" /\ (e.body = NoSchema \/ r.body = "wrong")}

DefaultHeaders == {"accept", "user-agent"}

PrepareOptions  == [base |-> <<>>, needsBase |-> FALSE, limited |-> TRUE, defaults |-> DefaultHeaders]
ValidateOptions == [PrepareOptions EXCEPT !.limited = FALSE, !.defaults = {}]

-----------------------------------------------------------------------------
\* Execution

\* A faulty form of resolveBaseURL: the last of the servers.
resolveLastBaseURL(e) ==
    IF config.mode = "sandbox" THEN settings.sandbox
    ELSE IF settings.upstream # <<>> THEN settings.upstream
    ELSE IF e.servers = <<>> THEN <<>> ELSE <<Last(e.servers)>>

\* Whatever base URL the input has.
resolveBaseURL(e) ==
    IF config.mode = "sandbox" THEN settings.sandbox
    ELSE IF settings.upstream # <<>> THEN settings.upstream
    ELSE FirstServer(e)

ExecuteOptions(base) == [PrepareOptions EXCEPT !.base = base, !.needsBase = TRUE]

\* What execute makes of the input before it asks the policy.
prepareForExecute(in) ==
    LET e    == snapshot.byID[in.op]
        base == resolveBaseURL(e)
    IN IF in.op \notin DOMAIN snapshot.byID THEN Refused("invalid_request")
       ELSE IF base = <<>> THEN Refused("no_base_url")
       ELSE IF base[1].host \notin Hosts THEN Refused("policy_denied")
       ELSE prepareEndpointRequest(e, in, ExecuteOptions(base))

Target(r) == [op |-> r.op, method |-> r.method, url |-> r.url]

\* The error of a prepared request, "" if it is sent.
Verdict(r, confirmation) ==
    LET decision == Evaluate(config, r.op, r.method) IN
    IF /\ decision # "allow"
       /\ ~ (decision = "confirmation_required" /\ confirmation = IdText /\ asked = <<Target(r)>>)
    THEN decision
    ELSE IF settings.validate /\ validatePreparedRequest(snapshot.byID[r.op], r) # {}
    THEN "invalid_request"
    ELSE ""

-----------------------------------------------------------------------------
\* The id goes with the input, or among its query parameters.
WithId(in, where) ==
    CASE where = "top"   -> [in EXCEPT !.confirmation = IdText]
      [] where = "query" ->
            LET query == Overlay(queryGiven(in), [confirmationId |-> IdText])
            IN [in EXCEPT !.params = Overlay(@, [query |-> query])]
      [] OTHER           -> in

Init ==
    /\ Policies!Init
    /\ stage = "configuring"
    /\ document = [servers |-> <<>>, items |-> <<>>]
    /\ settings = [override |-> <<>>, upstream |-> <<>>, sandbox |-> <<>>, validate |-> TRUE]
    /\ snapshot = [endpoints |-> <<>>, byID |-> <<>>]
    /\ input = [op |-> <<>>, params |-> <<>>, legacy |-> <<>>, baseURL |-> <<>>, confirmation |-> <<>>]
    /\ by = ""
    /\ prepared = Refused("")
    /\ issues = {}
    /\ asked = <<>>
    /\ idAt = "none"
    /\ outcome = ""

Configure ==
    /\ stage = "configuring"
    /\ Policies!Next
    /\ UNCHANGED <<stage, document, settings, snapshot, input, by, prepared, issues, asked, idAt, outcome>>

\* The configuration is refused if the sandbox has no base URL.
Serve(d, s) ==
    /\ stage = "configuring" /\ config \in Served
    /\ config.mode = "sandbox" => s.sandbox # <<>>
    /\ document' = d
    /\ settings' = s
    /\ snapshot' = buildState(s.override, d)
    /\ stage' = "serving"
    /\ UNCHANGED <<config, input, by, prepared, issues, asked, idAt, outcome>>

Give(in) ==
    /\ stage = "serving"
    /\ input' = in
    /\ stage' = "given"
    /\ UNCHANGED <<config, document, settings, snapshot, by, prepared, issues, asked, idAt, outcome>>

\* prepare_request and validate_request.
Rehearse(tool, opts) ==
    LET in == parseExecuteInput(input)
        r  == IF in = <<>> THEN Refused("invalid_request")
              ELSE IF in[1].op \notin DOMAIN snapshot.byID THEN Refused("invalid_request")
              ELSE prepareEndpointRequest(snapshot.byID[in[1].op], in[1], opts)
    IN /\ stage = "given"
       /\ by' = tool
       /\ prepared' = r
       /\ issues' = IF r.error # "" THEN {} ELSE validatePreparedRequest(snapshot.byID[r.op], r)
       /\ stage' = "rehearsed"
       /\ UNCHANGED <<config, document, settings, snapshot, input, asked, idAt, outcome>>

PrepareRequest  == Rehearse("prepare_request", PrepareOptions)
ValidateRequest == Rehearse("validate_request", ValidateOptions)

\* The agent hands on what prepare_request has answered, or what execute suggests
\* when it asks for a confirmation.
RequestConfirmation ==
    /\ asked = <<>> /\ prepared.error = ""
    /\ \/ stage = "rehearsed" /\ by = "prepare_request"
       \/ stage = "executed" /\ outcome = "confirmation_required"
    /\ asked' = <<Target(prepared)>>
    /\ stage' = "asked"
    /\ UNCHANGED <<config, document, settings, snapshot, input, by, prepared, issues, idAt, outcome>>

Execute(where) ==
    LET in == parseExecuteInput(WithId(input, where))
        r  == IF in = <<>> THEN Refused("invalid_request") ELSE prepareForExecute(in[1])
        error == IF r.error # "" THEN r.error ELSE Verdict(r, in[1].confirmation)
    IN /\ stage \in {"given", "rehearsed", "asked"}
       /\ where = "none" <=> asked = <<>>
       /\ prepared' = r
       /\ outcome' = IF error = "" THEN "sent" ELSE error
       /\ issues' = {}
       /\ by' = IF asked = <<>> THEN "execute" ELSE by
       /\ idAt' = where
       /\ stage' = "executed"
       /\ UNCHANGED <<config, document, settings, snapshot, input, asked>>

Next ==
    \/ Configure
    \/ \E d \in Documents, s \in Settings : Serve(d, s)
    \/ \E in \in Inputs : Give(in)
    \/ PrepareRequest
    \/ ValidateRequest
    \/ RequestConfirmation
    \/ \E where \in {"none", "top", "query"} : Execute(where)

Spec == Init /\ [][Next]_vars

-----------------------------------------------------------------------------
\* Properties

\* No tightening of the policy lets it pass a call it refused, see PolicyHardening.
HardeningNeverLoosens == Policies!HardeningNeverLoosens

Operations == OperationsOf(document)

Described(o) == OperationAt(document, o)

Words(o) ==
    LET path == document.items[o[1]].path
    IN IF path = <<>> THEN <<"root">> ELSE FlattenSeq([k \in DOMAIN path |-> path[k].words])

\* Two operations that cannot be told apart by id: they are given the same one, or
\* are given none and have the method and the words of the path in common, or one
\* is given what the other has for want of one.
Alike(o, p) ==
    LET a == Described(o).id  b == Described(p).id IN
    CASE a # <<>> /\ b # <<>> -> a = b
      [] a = <<>> /\ b = <<>> -> o[2] = p[2] /\ Words(o) = Words(p)
      [] a = <<>> /\ b # <<>> -> b = <<o[2]>> \o Words(o)
      [] OTHER                -> a = <<p[2]>> \o Words(p)

\* Every operation is listed, and the id it is listed with leads execute back to
\* it, given by the document or synthesised, unless another one is like it.
IdsLeadBack ==
    stage = "serving" =>
        \A o \in Operations :
            \E e \in ToSet(snapshot.endpoints) :
                /\ e.path = document.items[o[1]].path /\ e.method = o[2]
                /\ (\A p \in Operations \ {o} : ~ Alike(o, p)) => snapshot.byID[e.id] = e

Key(p) == <<p.place, p.name>>

\* Of the definitions of one parameter in a list, the last.
LastOfEach(list) ==
    {list[i] : i \in {k \in DOMAIN list : \A j \in DOMAIN list : Key(list[j]) = Key(list[k]) => j <= k}}

\* What the document requires of a call of e: the operation's own parameters, and
\* those of its path that the operation does not define anew.
Required(e) ==
    LET o    == CHOOSE p \in Operations : document.items[p[1]].path = e.path /\ p[2] = e.method
        own  == LastOfEach(Described(o).params)
        path == {p \in LastOfEach(document.items[o[1]].params) : \A q \in own : Key(q) # Key(p)}
    IN {p \in own \cup path : p.required}

\* A parameter that the request has a value for.
Given(p, r) ==
    CASE p.place = "path"   -> ValueOr(r.path, p.name, <<>>) # <<>>
      [] p.place = "query"  -> ValueOr(r.query, p.name, <<>>) # <<>>
      [] p.place = "header" -> ValueOr(r.headers, p.name, <<>>) # <<>>
      [] OTHER              -> TRUE

\* The value of a parameter in a URL and headers, as the API reads them: a path
\* parameter where the template has it, counted from the end.
Arrives(p, e, r) ==
    CASE p.place = "query"  -> ValueOr(r.url.query, p.name, <<>>) # <<>>
      [] p.place = "header" -> ValueOr(r.headers, p.name, <<>>) # <<>>
      [] p.place = "path"   ->
            \A k \in DOMAIN e.path : e.path[k].param /\ e.path[k].text = p.name =>
                r.url.path[Len(r.url.path) - Len(e.path) + k] = r.path[p.name]
      [] OTHER              -> TRUE

\* A path parameter with a slash is no segment of its own any more.
InOnePart(r) == \A name \in DOMAIN r.path : Len(r.path[name]) = 1

\* A validated request carries every required parameter where the document has it,
\* through the merge of two lists of parameters, two ways of giving them and the
\* joining of base, path and queries; and it is only for its body, or for one that
\* the input does not have, be it in the query of the base, that a rehearsal finds
\* fault with a request.
ParametersArrive ==
    /\ stage = "executed" /\ outcome = "sent" /\ settings.validate /\ InOnePart(prepared) =>
         LET e == snapshot.byID[prepared.op] IN \A p \in Required(e) : Arrives(p, e, prepared)
    /\ stage = "rehearsed" /\ prepared.error = "" /\ InOnePart(prepared) =>
         LET e == snapshot.byID[prepared.op] IN
         IF issues \subseteq {"body"} THEN \A p \in Required(e) : Arrives(p, e, prepared)
         ELSE \E p \in Required(e) : ~ Given(p, prepared)

\* A confirmation asked for with the answer of prepare_request, or with what execute
\* suggests, is good for execute of the same input, and lets through just the URL
\* that was shown.  Not so if execute has a base URL of its own, or the id goes with
\* the query and so into the URL.
ConfirmedAsPrepared ==
    stage = "executed" /\ asked # <<>> =>
        /\ outcome = "sent" => prepared.url = asked[1].url \/ Evaluate(config, prepared.op, prepared.method) = "allow"
        /\ outcome = "confirmation_required" =>
              \/ idAt = "query"
              \/ /\ by = "prepare_request"
                 /\ input.baseURL # <<>> \/ settings.upstream # <<>> \/ config.mode = "sandbox"
=============================================================================
