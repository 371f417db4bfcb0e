----------------------------- MODULE PayloadFlow -----------------------------
(***************************************************************************)
(* One call of an operation, as an agent prepares and judges it: the store *)
(* resolves the document, the agent searches for an operation, has a body  *)
(* generated (swagger.http.generate_payload) or writes one, the body is    *)
(* judged (swagger.http.validate_request, and again inside of execute),    *)
(* and so is the response, by execute itself and by                        *)
(* swagger.http.validate_response.  What is computed on the way is in      *)
(* Search, Schemas and Bodies; here it is compared with what the document  *)
(* itself says.                                                            *)
(***************************************************************************)
EXTENDS Search, Bodies

CONSTANTS
    API,         \* the operations of the document
    Called,      \* the id of the operation that is called
    Overrides,   \* objects an agent may lay over a generated body
    Values,      \* bodies an agent may write itself, as <<body, content type>>
    Filters,     \* what an agent may search for
    Answers      \* responses: [status, contentType, payload, fits]

\* Overrides are objects; a payload is a text or no text until it is read.
ASSUME InputsAssumption ==
    /\ Filters \subseteq [query : Seq(STRING), method : STRING, tag : STRING, schema : STRING,
                           status : Int, limit : Int, include : SUBSET STRING]
    /\ \A overrides \in Overrides : overrides \in JSONValues /\ overrides.kind = "object"
    /\ \A value \in Values : value[1] \in JSONValues
    /\ \A answer \in Answers : answer.payload \in JSONValues /\ answer.payload.kind \in {"string", "bytes"}

Strategies == {"minimal", "maximal"}

VARIABLES
    doc,
    schema,      \* the resolved schema of the body
    stage,       \* "loaded", "resolved" and then "searched", "composed" and
                 \* "judged", or "answered" and "checked"
    asked,       \* the filter of search, the strategy and the overrides of
                 \* generate_payload, <<>> for the agent's own body, the answer
    found,       \* what search has returned
    body,        \* the body as it is sent; the envelope of a response
    verdict,     \* of a response, the issues execute reports with it
    issues       \* the issues of validate_request or validate_response

vars == <<doc, schema, stage, asked, found, body, verdict, issues>>

Snapshot  == buildState(<<>>, API)
Operation == Snapshot.byID[Called]
Root      == Operation.body

ASSUME RootAssumption == \A d \in Documents : Root \in DOMAIN d

\* The id an operation goes by, given or made up.
IdOf(o) == operationID(API.items[o[1]], o[2])

Contents(op) == {op.body} \cup {op.responses[key] : key \in DOMAIN op.responses}

\* The operation that is called is one of the document's, and bodies refer to its
\* schemas.
ASSUME APIAssumption ==
    /\ IsDocument(API)
    /\ Called \in {IdOf(o) : o \in OperationsOf(API)}
    /\ \A o \in OperationsOf(API) :
         /\ DOMAIN OperationAt(API, o).responses \subseteq Int
         /\ \A content \in Contents(OperationAt(API, o)) \ {NoBody} :
              /\ DOMAIN content # {} /\ DOMAIN content \subseteq ToSet(MediaTypes)
              /\ \A type \in DOMAIN content, d \in Documents : content[type] \in DOMAIN d

-----------------------------------------------------------------------------
Init ==
    /\ doc \in Documents
    /\ schema = NoKeywords
    /\ stage = "loaded"
    /\ asked = <<>>
    /\ found = <<>>
    /\ body = Null
    /\ verdict = {}
    /\ issues = {}

Resolve ==
    /\ stage = "loaded"
    /\ schema' = ResolveSchema(doc, Root, {})
    /\ stage' = "resolved"
    /\ UNCHANGED <<doc, asked, found, body, verdict, issues>>

SearchOperations(filter) ==
    /\ stage = "resolved"
    /\ asked' = filter
    /\ found' = search(doc, Snapshot.endpoints, filter)
    /\ stage' = "searched"
    /\ UNCHANGED <<doc, schema, body, verdict, issues>>

GeneratePayload(strategy, overrides) ==
    /\ stage = "resolved"
    /\ asked' = <<strategy, overrides>>
    /\ body' = MergeOverrides(Generate(schema, strategy), overrides)
    /\ stage' = "composed"
    /\ UNCHANGED <<doc, schema, found, verdict, issues>>

\* The agent writes a body of its own; one that cannot be encoded goes no further.
WriteBody(value, ct) ==
    /\ stage = "resolved"
    /\ encodeRequestBody(value, ct) # <<>>
    /\ asked' = <<>>
    /\ body' = encodeRequestBody(value, ct)[1]
    /\ stage' = "composed"
    /\ UNCHANGED <<doc, schema, found, verdict, issues>>

ValidateRequest ==
    /\ stage = "composed"
    /\ issues' = BodyIssues(body, schema)
    /\ stage' = "judged"
    /\ UNCHANGED <<doc, schema, asked, found, body, verdict>>

\* execute has called the API: it returns an envelope and a verdict of its own.
Execute(answer) ==
    LET payload  == readResponseBodyLimited(answer.payload, answer.fits)
        envelope == decodeResponseBody(answer.contentType, payload)
    IN /\ stage = "resolved"
       /\ asked' = answer
       /\ body' = envelope
       /\ verdict' = validateResponse(doc, Operation, answer.status, bodyForValidation[envelope.body])
       /\ stage' = "answered"
       /\ UNCHANGED <<doc, schema, found, issues>>

\* The agent hands the envelope to validate_response, beside the status or whole as
\* the body.
ValidateResponse(whole) ==
    LET object == Object([contentType  |-> Scalar("string", body.contentType),
                          bodyEncoding |-> Scalar("string", body.bodyEncoding),
                          body         |-> body.body])
        normalized == IF whole THEN normalizeResponseBody("", "", object)
                      ELSE normalizeResponseBody(body.contentType, body.bodyEncoding, body.body)
    IN /\ stage = "answered"
       /\ issues' = validateResponse(doc, Operation, asked.status, bodyForValidation[normalized.body])
       /\ stage' = "checked"
       /\ UNCHANGED <<doc, schema, asked, found, body, verdict>>

Next ==
    \/ Resolve
    \/ \E filter \in Filters : SearchOperations(filter)
    \/ \E strategy \in Strategies, overrides \in Overrides : GeneratePayload(strategy, overrides)
    \/ \E value \in Values : WriteBody(value[1], value[2])
    \/ ValidateRequest
    \/ \E answer \in Answers : Execute(answer)
    \/ \E whole \in BOOLEAN : ValidateResponse(whole)

Spec == Init /\ [][Next]_vars

-----------------------------------------------------------------------------
\* What the document says: JSON Schema, on the document as it is written, with
\* the references followed.  The recursion ends where no schema is composed of
\* itself, since every other reference leads into a part of the value.

\* The value is of one of the types of the schema, or is null and may be.
AllowsKind(s, value) ==
    LET types == IF s.union = {} THEN {s.type} ELSE s.union
    IN \/ types = {""}
       \/ value.kind \in types
       \/ value.kind = "integer" /\ "number" \in types
       \/ value.kind = "null" /\ s.nullable

\* In this, admitted says which parts of the value their schemas admit.
AdmittedBy(admitted, s, value) ==
    LET Admitting(options) == {i \in DOMAIN options : admitted[<<value, options[i]>>]} IN
    /\ AllowsKind(s, value)
    /\ value \notin s.excludes
    /\ s.enum # <<>> => value \in ToSet(s.enum)
    /\ value.kind = "object" =>
         /\ s.required \ s.oneWay \subseteq DOMAIN value.fields
         /\ \A key \in DOMAIN s.props \cap DOMAIN value.fields :
              admitted[<<value.fields[key], s.props[key]>>]
    /\ value.kind = "array" =>
         /\ Len(value.elems) >= s.minItems
         /\ s.maxItems > 0 => Len(value.elems) <= s.maxItems
         /\ \A item \in ToSet(value.elems), ref \in ToSet(s.items) : admitted[<<item, ref>>]
    /\ Admitting(s.allOf) = DOMAIN s.allOf
    /\ s.anyOf # <<>> => Admitting(s.anyOf) # {}
    /\ s.oneOf # <<>> => Cardinality(Admitting(s.oneOf)) = 1

Admits(d, name, value) ==
    LET admitted[at \in JSONValues \X DOMAIN d] == AdmittedBy(admitted, d[at[2]], at[1])
    IN admitted[<<value, name>>]

Composed(s)   == ToSet(s.oneOf) \cup ToSet(s.anyOf) \cup ToSet(s.allOf)
Parts(s)      == {s.props[key] : key \in DOMAIN s.props} \cup ToSet(s.items)
References(s) == Composed(s) \cup Parts(s) \cup ToSet(s.others)

\* The schemas can be ranked so that Refs only lead down.
Acyclic(d, Refs(_)) ==
    \E rank \in [DOMAIN d -> 1..Cardinality(DOMAIN d)] :
        \A name \in DOMAIN d : \A ref \in Refs(d[name]) : rank[ref] < rank[name]

\* Documents that mean something.
WellFounded(d) == Acyclic(d, Composed)

Recursive(d) == ~ Acyclic(d, References)

\* Where a schema leads along its references, itself included.
Reach(d, from) ==
    {name \in DOMAIN d :
        \A closed \in SUBSET DOMAIN d :
            from \in closed /\ (\A n \in closed : References(d[n]) \subseteq closed) => name \in closed}

\* No more than one operation goes by the id: the loader does not look into that.
Unique(id) == \A o, p \in OperationsOf(API) : IdOf(o) = id /\ IdOf(p) = id => o = p

\* The operation of the document that goes by the id.
Described(id) == OperationAt(API, CHOOSE o \in OperationsOf(API) : IdOf(o) = id)

\* What the validator is known to look at: one type, of those it knows, no keyword
\* that it passes over and no limits on arrays, keywords for objects and arrays
\* only under their types, and an enum of scalars of the schema's own type, since it
\* goes by what is printed of them.
Covered(s) ==
    /\ s.type \in {"", "object", "array", "string", "boolean", "integer", "number"}
    /\ s.union = {} /\ s.excludes = {}
    /\ s.minItems = 0 /\ s.maxItems = 0
    /\ s.props # <<>> \/ s.required # {} => s.type = "object"
    /\ s.items # <<>> => s.type = "array"
    /\ s.enum # <<>> => /\ s.type \in {"string", "boolean", "integer"}
                       /\ \A e \in ToSet(s.enum) : e.kind = s.type

\* Required in one direction only: the validator demands such a field in both.
OneWayRequired(d) == \E name \in DOMAIN d : d[name].required \cap d[name].oneWay # {}

\* Documents of which the validator knows all.
Exact(d) ==
    /\ ~ Recursive(d) /\ ~ OneWayRequired(d)
    /\ \A name \in DOMAIN d : Covered(d[name])

\* Documents that the validator may be too lenient with, but not too strict.  Only
\* where just one option may match does lenience reject what is valid: the marker
\* of a circular reference, for one, lets every value pass.
Lenient(d) ==
    /\ WellFounded(d) /\ ~ OneWayRequired(d)
    /\ Exact(d) \/ \A name \in DOMAIN d : d[name].oneOf = <<>>

\* No null in the value, at any depth.
NullFree[value \in JSONValues] ==
    value.kind # "null" /\ \A part \in ValuesIn(value) : NullFree[part]

\* Where null may stand beside a type, the validator refuses it all the same.
NoneIsNullable(d, value) == NullFree[value] \/ \A name \in DOMAIN d : ~ d[name].nullable

-----------------------------------------------------------------------------
\* Safety

\* validateValueAgainstSchema, on the schema the resolver has made, never
\* rejects a body that the document admits, recursive or not, with three exceptions:
\* a null in it where a schema is nullable, a field that is required and readOnly or
\* writeOnly, and a oneOf that meets something the validator passes over.
AdmittedBodiesPass ==
    stage = "judged" /\ Lenient(doc) /\ NoneIsNullable(doc, body) /\ Admits(doc, Root, body)
    => issues = {}

\* For a document without recursion whose keywords the validator covers, a body
\* that passes is one the document admits, if no schema is nullable or no null is
\* in it: expanding a shared schema at every place, the order of the checks and the
\* early return after a wrong type lose no issue.  An absent body is never looked at.
PassingBodiesAreAdmitted ==
    stage = "judged" /\ Exact(doc) /\ NoneIsNullable(doc, body) /\ issues = {} /\ body # Null
    => Admits(doc, Root, body)

\* A schema by which the generator's precedence does no harm: the keyword that decides
\* what is made leaves nothing to any other; an example, or the first value of an enum,
\* is of the type beside it; arrays may be as long as they must; and an object that
\* requires something describes something.
Decided(s) ==
    LET given == ToSet(s.example) \cup ToSet(s.enum) IN
    /\ s.type \in {"", "object", "array", "string", "boolean", "integer", "number", "null"}
    /\ given # {} \/ Composed(s) # {} => s.props = <<>> /\ s.items = <<>> /\ s.minItems = 0 /\ s.maxItems = 0
    /\ Composed(s) # {} => s.type = "" /\ given = {}
    /\ s.oneOf # <<>> => s.anyOf = <<>> /\ s.allOf = <<>>
    /\ s.anyOf # <<>> => s.allOf = <<>>
    /\ \A v \in given : s.type \in {"", v.kind}
    /\ s.enum # <<>> => ToSet(s.example) \subseteq ToSet(s.enum)
    /\ s.maxItems > 0 => s.minItems <= s.maxItems
    /\ s.required # {} => s.props # <<>>

\* The options of a oneOf, of which no value is of two.
Distinct(d, options) ==
    \A i, j \in DOMAIN options :
        /\ d[options[i]].type \notin {"", "null"}
        /\ i # j => /\ d[options[i]].type # d[options[j]].type
                   /\ {d[options[i]].type, d[options[j]].type} # {"integer", "number"}

\* The parts of an allOf, the schema name's, whose values can be merged: objects that
\* describe what they require, and a field that two of them share by the same schema,
\* which is not expanded differently under the one and the other.
Mergeable(d, name, parts) ==
    /\ \A r \in parts : /\ d[r].type = "object" /\ d[r].required \subseteq DOMAIN d[r].props
                        /\ d[r].example = <<>> /\ d[r].enum = <<>>
    /\ \A r1, r2 \in parts : \A key \in DOMAIN d[r1].props \cap DOMAIN d[r2].props :
         r1 # r2 => /\ d[r1].props[key] = d[r2].props[key]
                    /\ d[r1].props[key] = name \/ Reach(d, d[r1].props[key]) \cap parts = {}

\* Documents from which a valid body can be made by taking one option and by
\* merging the objects of an allOf, and that are not so deep that the generator gives up.
Generable(d) ==
    /\ 2 * Cardinality(Reach(d, Root)) <= MaxDepth + 2
    /\ (\E name \in DOMAIN d : d[name].oneOf # <<>>) => ~ Recursive(d)
    /\ \A name \in DOMAIN d : /\ Decided(d[name])
                             /\ Distinct(d, d[name].oneOf)
                             /\ Mergeable(d, name, ToSet(d[name].allOf))

\* Generated, without overrides.
Untouched == asked # <<>> /\ asked[2].fields = <<>>

\* A generated body passes the validation of the request it is meant for, at
\* every depth, with either strategy, for recursive documents too.
GeneratedBodyPasses ==
    stage = "judged" /\ Untouched /\ Generable(doc) => issues = {}

\* The references that the strategy cannot help but follow.
Followed(s) ==
    Composed(s) \cup ToSet(s.items) \cup
    {s.props[key] : key \in FilledFields(s, asked[1])}

\* The generator takes a list of types for none, and keeps to no other keyword.
Plain(d) == \A name \in DOMAIN d : d[name].union = {} /\ d[name].excludes = {}

\* It is even admitted by a document of one type a schema and without formats and
\* the like, the limits of arrays included, if the fields that are filled do not
\* recur: where they do, the body has a string in the place of the marker.
GeneratedBodyIsAdmitted ==
    stage = "composed" /\ Untouched /\ Generable(doc) /\ Plain(doc) /\ Acyclic(doc, Followed)
    => Admits(doc, Root, body)

-----------------------------------------------------------------------------
\* The values in a value, by the fields that lead to them.
Leaves[value \in JSONValues] ==
    IF value.kind # "object" \/ value.fields = <<>> THEN {<<<<>>, value>>}
    ELSE UNION {{<<<<key>> \o leaf[1], leaf[2]>> : leaf \in Leaves[value.fields[key]]} :
                key \in DOMAIN value.fields}

\* Every overriding value is in the body, and so is every generated value that
\* none of them stands in for, at any depth, and nothing else; except that an empty
\* object overrides no object.
OverridesReplaceTheirOwn ==
    stage = "composed" /\ asked # <<>> =>
        LET over == Leaves[asked[2]]
            kept == {leaf \in Leaves[Generate(schema, asked[1])] :
                       \A o \in over : ~ IsPrefix(o[1], leaf[1]) /\ ~ IsPrefix(leaf[1], o[1])}
        IN (\A o \in over : o[2].kind # "object") => Leaves[body] = over \cup kept

-----------------------------------------------------------------------------
\* Searching

\* The statuses whose responses are kept: no ranges, nothing informational.
Kept == (200 .. 599) \cup {Default}

BodiesOf(op) ==
    {preferredMedia(c) : c \in {op.body} \cup {op.responses[k] : k \in Kept \cap DOMAIN op.responses}}
    \ {NoSchema}

\* What the document says of an endpoint: the filters by schema and by status mean
\* any body that refers to the schema, however far down, recursion or not, and any
\* response that is listed.
Meets(e, f) ==
    LET op == Described(e.id) IN
    /\ f.method \in {"", e.method}
    /\ f.tag # "" => f.tag \in op.tags
    /\ f.query # <<>> => matchesQuery(e, f.query)
    /\ f.schema # "" => \E b \in BodiesOf(op) : f.schema \in Reach(doc, b)
    /\ f.status > 0 => f.status \in Kept \cap DOMAIN op.responses

\* Where ids are unique, search finds just the operations that the document says
\* meet the filters: the markers in the resolved schemas, the indexes by name and
\* the scores lose none and add none.  A page is as long as it may be, the usage
\* listing names all that use a schema, and plan_call picks one that search finds.
SearchIsExact ==
    stage = "searched" /\ (\A o \in OperationsOf(API) : Unique(IdOf(o))) =>
        LET f    == parseSearchInput(asked)
            met  == {e \in ToSet(Snapshot.endpoints) : Meets(e, f)}
            plan == planCall(Snapshot, <<>>, f.query, <<>>)
        IN /\ found.count = Cardinality(met)
           /\ ToSet(found.results) \subseteq met
           /\ "endpoints" \in includeSet(f.include) => Len(found.results) = Min({found.count, f.limit})
           /\ f = [f EXCEPT !.method = "", !.tag = "", !.query = <<>>, !.status = 0]
                /\ "usage" \in f.include /\ f.schema # ""
              => {u.id : u \in found.schema} = {e.id : e \in met}
           /\ f = [f EXCEPT !.method = "", !.tag = "", !.schema = "", !.status = 0]
              => IF met = {} THEN plan = <<>> ELSE plan[1] \in met

-----------------------------------------------------------------------------
\* Responses

\* A value the tools do not take for something else: an object with the fields of
\* an envelope is opened, a string that looks like JSON is read once more.
TakenAsItIs(value) == ~ IsEnvelope(value) /\ ~ looksLikeJSON(value)

\* execute's own verdict never rejects a response that the document admits for its
\* status, or by default for a status it does not list, as far as the body has
\* come whole; with the exceptions of AdmittedBodiesPass.
AdmittedResponsesPass ==
    stage = "answered" /\ Unique(Called) =>
        LET responses == Described(Called).responses
            key       == IF asked.status \in DOMAIN responses THEN asked.status ELSE Default
            payload   == asked.payload
        IN /\ key \in Kept \cap DOMAIN responses
           /\ asked.fits /\ Parses(payload)
           /\ isJSONContentType(asked.contentType) \/ looksLikeJSON(payload)
           /\ TakenAsItIs(Parsed(payload))
           /\ Lenient(doc) /\ NoneIsNullable(doc, Parsed(payload))
           /\ responses[key] # NoBody
           /\ Admits(doc, preferredMedia(responses[key]), Parsed(payload))
           => verdict = {}

\* validate_response, given the envelope that execute has returned, field by field
\* or as one object, comes to the verdict execute reported with it, whatever the
\* API sent: bytes, texts, texts cut short, JSON without a content type, envelopes.
\* A JSON string that holds an envelope, or JSON once more, is the exception: the
\* tools do not open it equally often.
VerdictsAgree ==
    stage = "checked" /\ TakenAsItIs(bodyForValidation[body.body]) => issues = verdict
=============================================================================
