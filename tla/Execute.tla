------------------------------- MODULE Execute -------------------------------
(***************************************************************************)
(* Concurrent calls of swagger.http.execute                                *)
(* (internal/tool/swagger_execute.go) against the policy of Policy.tla and *)
(* the confirmation store of Confirmation.tla, together with the agent and *)
(* the human who call policy.request_confirmation and policy.confirm.      *)
(*                                                                         *)
(* A call runs in a goroutine of its own; pc says how far it is:           *)
(*   prepare    parse, look up the endpoint, build and validate the request*)
(*              and ask the policy, consuming the confirmation             *)
(*   dispatch   request validation, upstream authentication, then in the   *)
(*              HTTP client with nothing sent yet                          *)
(*   upstream   the request is on the wire, or its response is being read  *)
(*   logging    the outcome is counted, its audit entry not yet written    *)
(*   returning  the audit entry is written, the deferred calls are left    *)
(* A stage ends where the call touches what other actors see.  What the    *)
(* stages compute (payloads, URLs, schemas) is left out; that each can     *)
(* fail, with which code and with what already done, is not.               *)
(***************************************************************************)
EXTENDS Policy, Naturals, Sequences

CONSTANTS
    Call,         \* calls of swagger.http.execute, one goroutine each
    Id, URL, Unset, TTL, MaxTime,   \* as in Confirmation
    MethodOf,     \* the endpoints: operationId -> HTTP method
    Deployment,   \* the policy configurations to look at
    Asked,        \* what the agent asks the human to confirm
    Tried,        \* what the agent passes to Execute
    NoId          \* a call without confirmationId

Op     == DOMAIN MethodOf
Method == {MethodOf[op] : op \in Op}

VARIABLES
    items, now, issued, verdict, uses,   \* the confirmation store
    config,       \* the policy, fixed at startup
    pc,           \* stage of each call
    input,        \* what each call was given
    sent,         \* calls whose request reached the upstream
    outcome,      \* what each call has counted and is going to log
    audit,        \* outcomes each call wrote to the audit log
    errors,       \* mcp_execute_errors_total by code
    total,        \* mcp_execute_total
    rateLimited,  \* mcp_rate_limited_total
    inflight,     \* mcp_execute_inflight
    consumers     \* history: the calls that have used a confirmation up

Store == INSTANCE Confirmation

storeVars  == <<items, issued, verdict, uses>>
callVars   == <<pc, input, sent, outcome, audit, errors, total, rateLimited, inflight, consumers>>
vars       == <<items, now, issued, verdict, uses, config, pc, input, sent,
                outcome, audit, errors, total, rateLimited, inflight, consumers>>

ErrorCode == {"invalid_request", "no_base_url", "policy_denied", "plan_only",
              "confirmation_required", "upstream_error", "rate_limited",
              "timeout", "network_error"}
Outcome   == ErrorCode \cup {"ok"}
Input     == [op: Op, url: URL, id: Id \cup {NoId}]

ASSUME ExecuteAssumption ==
    /\ TTL \in Nat \ {0} /\ MaxTime \in Nat
    /\ Op # {} /\ URL # {} /\ NoId \notin Id
    /\ Unset \notin Op \cup Method \cup URL
    /\ Deployment \subseteq Config(Op, Method)
    /\ Asked \subseteq Store!Target
    /\ Tried \subseteq Input

NoInput == [op |-> CHOOSE op \in Op : TRUE, url |-> CHOOSE u \in URL : TRUE, id |-> NoId]
Stage   == {"idle", "prepare", "dispatch", "upstream", "logging", "returning", "done"}

methodOf(c)   == MethodOf[input[c].op]
checkOf(c)    == [op |-> input[c].op, method |-> methodOf(c), url |-> input[c].url]
decisionOn(c) == Evaluate(config, input[c].op, methodOf(c))

\* The type invariant; the gauge and the counters of prometheus.go never go below
\* zero, and a call's audit entries carry the codes that fail is called with.
TypeOK ==
    /\ Store!TypeOK
    /\ config \in Config(Op, Method)
    /\ pc \in [Call -> Stage]
    /\ input \in [Call -> Input]
    /\ sent \subseteq Call
    /\ outcome \in [Call -> Outcome \cup {"none"}]
    /\ audit \in [Call -> Seq(Outcome)]
    /\ errors \in [ErrorCode -> Nat]
    /\ {total, rateLimited, inflight} \subseteq Nat
    /\ consumers \subseteq Call

-----------------------------------------------------------------------------
Init ==
    /\ Store!Init
    /\ config \in Deployment
    /\ pc = [c \in Call |-> "idle"]
    /\ input = [c \in Call |-> NoInput]
    /\ sent = {}
    /\ outcome = [c \in Call |-> "none"]
    /\ audit = [c \in Call |-> << >>]
    /\ errors = [code \in ErrorCode |-> 0]
    /\ total = 0 /\ rateLimited = 0 /\ inflight = 0
    /\ consumers = {}

Goto(c, from, to) == pc[c] = from /\ pc' = [pc EXCEPT ![c] = to]

\* What the metrics count of an error.
CountError(code) ==
    /\ errors' = [errors EXCEPT ![code] = @ + 1]
    /\ rateLimited' = IF code = "rate_limited" THEN rateLimited + 1 ELSE rateLimited

\* A faulty early return: the rate-limited call is counted but not logged.
failUnlogged(c, from, code) ==
    /\ Goto(c, from, IF code = "rate_limited" THEN "returning" ELSE "logging")
    /\ CountError(code)
    /\ outcome' = [outcome EXCEPT ![c] = code]
    /\ UNCHANGED <<total, input, audit, inflight>>

\* Another: fail lowers the gauge that the deferred call lowers again.
failAndLeave(c, from, code) ==
    /\ Goto(c, from, "logging")
    /\ CountError(code)
    /\ outcome' = [outcome EXCEPT ![c] = code]
    /\ inflight' = inflight - 1
    /\ UNCHANGED <<total, input, audit>>

\* The closure fail, up to the audit log: every error path counts the error once.
fail(c, from, code) ==
    /\ Goto(c, from, "logging")
    /\ CountError(code)
    /\ outcome' = [outcome EXCEPT ![c] = code]
    /\ UNCHANGED <<total, input, audit, inflight>>

Advance(c, from, to) ==
    /\ Goto(c, from, to)
    /\ UNCHANGED <<input, outcome, audit, errors, total, rateLimited, inflight>>

\* Steps of a call that leave the store and the upstream alone.
Local == UNCHANGED <<items, now, issued, verdict, uses, config, sent, consumers>>

Begin(c, in) ==
    /\ Goto(c, "idle", "prepare")
    /\ input' = [input EXCEPT ![c] = in]
    /\ inflight' = inflight + 1
    /\ UNCHANGED <<outcome, audit, errors, total, rateLimited>>
    /\ Local

\* No store, bad input, unknown operation, unpreparable request (invalid_request);
\* no HTTP client (upstream_error); no base URL; base or final URL blocked.
PrepareFails(c) ==
    /\ \E code \in {"invalid_request", "upstream_error", "no_base_url", "policy_denied"} :
          fail(c, "prepare", code)
    /\ Local

Allowed(c) ==
    /\ decisionOn(c) = "allow"
    /\ Advance(c, "prepare", "dispatch")
    /\ Local

Denied(c) ==
    /\ decisionOn(c) \in {"policy_denied", "plan_only"}
    /\ fail(c, "prepare", decisionOn(c))
    /\ Local

\* A write to confirm: without an id the agent is told to get one, with an id the
\* confirmation is consumed before anything else can fail.
ConfirmationMissing(c) ==
    /\ decisionOn(c) = "confirmation_required"
    /\ input[c].id = NoId
    /\ fail(c, "prepare", "confirmation_required")
    /\ Local

ConfirmationRefused(c) ==
    /\ decisionOn(c) = "confirmation_required"
    /\ input[c].id # NoId
    /\ Store!ConsumeRefused(input[c].id, checkOf(c))
    /\ fail(c, "prepare", "confirmation_required")
    /\ UNCHANGED <<config, sent, consumers>>

\* A faulty order: the approval is only looked at here, and marked later or never.
PeekConfirmation(c) ==
    /\ decisionOn(c) = "confirmation_required"
    /\ input[c].id # NoId
    /\ Store!ConsumeResult(input[c].id, checkOf(c)) = "ok"
    /\ Advance(c, "prepare", "dispatch")
    /\ Local

Confirmed(c) ==
    /\ decisionOn(c) = "confirmation_required"
    /\ input[c].id # NoId
    /\ Store!ConsumeApproved(input[c].id, checkOf(c))
    /\ Advance(c, "prepare", "dispatch")
    /\ consumers' = consumers \cup {c}
    /\ UNCHANGED <<config, sent>>

\* Nothing is sent: the request does not match the schema, there are no upstream
\* credentials, or httpDoer.Do gives up (URL blocked, body too large, cancelled in
\* a rate limiter or while waiting for a slot, no connection).
DispatchFails(c) ==
    /\ \E code \in {"invalid_request", "upstream_error", "policy_denied",
                    "rate_limited", "timeout", "network_error"} :
          fail(c, "dispatch", code)
    /\ Local

Send(c) ==
    /\ Advance(c, "dispatch", "upstream")
    /\ sent' = sent \cup {c}
    /\ UNCHANGED <<items, now, issued, verdict, uses, config, consumers>>

\* The request was sent and its response is lost: HTTP_TIMEOUT, a broken
\* connection, a redirect to a blocked URL, a body that cannot be read.
ResponseLost(c) ==
    /\ \E code \in {"timeout", "network_error", "policy_denied", "upstream_error"} :
          fail(c, "upstream", code)
    /\ Local

\* The success is counted; response validation only annotates the result.
Succeed(c) ==
    /\ Goto(c, "upstream", "logging")
    /\ total' = total + 1
    /\ outcome' = [outcome EXCEPT ![c] = "ok"]
    /\ UNCHANGED <<input, audit, errors, rateLimited, inflight>>
    /\ Local

\* The LogCall at the end of fail and of the success path; what it returns is
\* dropped, so a sink that fails changes nothing for the call.
LogCall(c) ==
    /\ Goto(c, "logging", "returning")
    /\ audit' = [audit EXCEPT ![c] = Append(@, outcome[c])]
    /\ UNCHANGED <<input, outcome, errors, total, rateLimited, inflight>>
    /\ Local

\* The deferred DecExecuteInflight.
Return(c) ==
    /\ Goto(c, "returning", "done")
    /\ inflight' = inflight - 1
    /\ UNCHANGED <<input, outcome, audit, errors, total, rateLimited>>
    /\ Local

Step(c) ==
    \/ PrepareFails(c)
    \/ Allowed(c) \/ Denied(c)
    \/ ConfirmationMissing(c) \/ ConfirmationRefused(c) \/ Confirmed(c)
    \/ DispatchFails(c) \/ Send(c)
    \/ ResponseLost(c) \/ Succeed(c)
    \/ LogCall(c) \/ Return(c)

\* policy.request_confirmation and policy.confirm, the latter for an id that was
\* issued (Execute may be given any).
OtherTools == UNCHANGED config /\ UNCHANGED callVars

RequestConfirmation(target) == Store!Request(target) /\ OtherTools

ConfirmTool(i) ==
    /\ \/ \E approve \in BOOLEAN : Store!Confirm(i, approve)
       \/ Store!ConfirmRefused(i)
    /\ OtherTools

Tick == Store!Tick /\ UNCHANGED config /\ UNCHANGED callVars

Next ==
    \/ \E c \in Call, in \in Tried : Begin(c, in)
    \/ \E c \in Call : Step(c)
    \/ \E target \in Asked : RequestConfirmation(target)
    \/ \E i \in DOMAIN issued : ConfirmTool(i)
    \/ Tick

\* Every stage of a started call ends: the HTTP client lets every call go in the end
\* (HTTPClient!EveryCallReturns) and bounds an exchange by HTTP_TIMEOUT, the Swagger
\* store answers (SwaggerStore!EveryLookupReturns), nothing else blocks.
Fairness == \A c \in Call : WF_vars(Step(c))

SafetySpec == Init /\ [][Next]_vars

Spec == SafetySpec /\ Fairness

-----------------------------------------------------------------------------
(***************************************************************************)
(* Properties                                                              *)
(***************************************************************************)

NeedsConfirmation(c) == decisionOn(c) = "confirmation_required"

\* Whatever the interleaving of calls, retries and human answers, a request on the
\* wire is one the policy allows outright, or one with a confirmation of its own:
\* used, for exactly this operation, method and URL, and by no other call.
EachWriteHasItsOwnConfirmation ==
    \A c \in sent :
        \/ decisionOn(c) = "allow"
        \/ /\ NeedsConfirmation(c)
           /\ input[c].id # NoId
           /\ \E use \in {uses[input[c].id][k] : k \in DOMAIN uses[input[c].id]} :
                 use.check = checkOf(c)
           /\ \A d \in sent \ {c} : NeedsConfirmation(d) => input[d].id # input[c].id

\* A write on the wire, however long it was on its way, is what the human was asked
\* about under its id, the last verdict that policy.confirm accepted is yes, and this
\* was acted on once and before the TTL was over.
NoWriteAgainstTheHumansWord ==
    \A c \in sent : NeedsConfirmation(c) =>
        /\ Store!Covered(input[c].id)
        /\ Store!AskedAbout(input[c].id, checkOf(c))

\* No call is lost from or doubled in the records: a call that is about to return has
\* written its one audit entry, the counters are ahead of the audit log by just the
\* calls that are between the two, and the gauge counts the calls that have not
\* returned.
Ended == {c \in Call : pc[c] \in {"returning", "done"}}

Audited(o)  == {c \in Call : o \in {audit[c][k] : k \in DOMAIN audit[c]}}
Unlogged(o) == {c \in Call : pc[c] = "logging" /\ outcome[c] = o}

Records(o) == Cardinality(Audited(o)) + Cardinality(Unlogged(o))

RecordsAgree ==
    /\ \A c \in Call : Len(audit[c]) = IF c \in Ended THEN 1 ELSE 0
    /\ \A code \in ErrorCode : errors[code] = Records(code)
    /\ total = Records("ok")
    /\ rateLimited = errors["rate_limited"]
    /\ inflight = Cardinality({c \in Call : pc[c] \notin {"idle", "done"}})

\* Every confirmation that is used up is accounted for: the very call that consumed it
\* ends in the audit log, also when it failed after the consumption.  A call that was
\* refused for an id already used does not stand in for it.
SpentConfirmationIsAudited ==
    \A i \in Id :
        (uses[i] # << >>) ~> (\E c \in consumers : input[c].id = i /\ audit[c] # << >>)
=============================================================================
