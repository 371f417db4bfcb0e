------------------------------- MODULE Search -------------------------------
(***************************************************************************)
(* swagger.search and swagger.plan_call (internal/tool): how an agent      *)
(* finds an operation.  The indexes are made anew for every search, from   *)
(* the endpoints of one snapshot; they go by operationId.                  *)
(*                                                                         *)
(* A phrase is a sequence of words in lower case, and a filter a record    *)
(*   [query, method, tag, schema, status, limit, include]                  *)
(* with "", <<>> and 0 for what is not given.  Scores are in tenths.       *)
(***************************************************************************)
EXTENDS Schemas, Catalog

-----------------------------------------------------------------------------
\* Indexes

\* The components a resolved schema is made of, those of its markers included.
collectSchemaNames[schema \in SchemaTrees] ==
    {schema.origin} \cup UNION {collectSchemaNames[part] : part \in Subschemas(schema)}

\* A faulty form of schemaUses: the bodies of errors are passed over.
schemaUsesOfSuccess(schemas, e) ==
    LET Used(body, side) ==
            IF body = NoSchema THEN {}
            ELSE {[schema |-> name, id |-> e.id, side |-> side] :
                    name \in collectSchemaNames[ResolveSchema(schemas, body, {})]}
    IN Used(e.body, "request")
       \cup UNION {Used(r.body, "response") : r \in {x \in e.responses : x.group = "success"}}

schemaUses(schemas, e) ==
    LET Used(body, side) ==
            IF body = NoSchema THEN {}
            ELSE {[schema |-> name, id |-> e.id, side |-> side] :
                    name \in collectSchemaNames[ResolveSchema(schemas, body, {})]}
    IN Used(e.body, "request") \cup UNION {Used(r.body, "response") : r \in e.responses}

\* The default response has no status to be found by.
statusUses(e) ==
    {[status |-> r.status, id |-> e.id, group |-> r.group] :
        r \in {x \in e.responses : x.status > 0}}

buildSearchIndexes(schemas, endpoints) ==
    [schemas  |-> UNION {schemaUses(schemas, e) : e \in ToSet(endpoints)},
     statuses |-> UNION {statusUses(e) : e \in ToSet(endpoints)}]

SidesOf(indexes, schema, id) ==
    {u.side : u \in {x \in indexes.schemas : x.schema = schema /\ x.id = id}}

GroupsOf(indexes, status, id) ==
    {u.group : u \in {x \in indexes.statuses : x.status = status /\ x.id = id}}

-----------------------------------------------------------------------------
\* Ranking

PathWords(path) == UNION {ToSet(path[i].words) : i \in DOMAIN path}

\* Identifiers and paths have no spaces: they contain no phrase but a word.
Among(phrase, words) == Len(phrase) = 1 /\ phrase[1] \in words

Within(phrase, text) ==
    \E i \in 1 .. 1 + Len(text) - Len(phrase) : SubSeq(text, i, i + Len(phrase) - 1) = phrase

queryMatchScore(e, phrase) ==
    (IF Among(phrase, ToSet(e.id)) THEN 30 ELSE 0)
    + (IF Among(phrase, PathWords(e.path)) THEN 20 ELSE 0)
    + (IF Within(phrase, e.summary) THEN 20 ELSE 0)
    + (IF Within(phrase, e.description) THEN 15 ELSE 0)
    + (IF Among(phrase, e.tags) THEN 10 ELSE 0)

\* Whether every filter that is given lets the endpoint through.
Passes(e, f, indexes) ==
    /\ f.method # "" => e.method = f.method
    /\ f.tag # "" => f.tag \in e.tags
    /\ f.query # <<>> => queryMatchScore(e, f.query) > 0
    /\ f.schema # "" => SidesOf(indexes, f.schema, e.id) # {}
    /\ f.status > 0 => GroupsOf(indexes, f.status, e.id) # {}

SchemaScore(sides) == IF Cardinality(sides) = 2 THEN 50 ELSE 40

StatusScore(groups) ==
    (IF "errors" \in groups THEN 35 ELSE 0) + (IF "success" \in groups THEN 20 ELSE 0)

Score(e, f, indexes) ==
    10 + (IF f.method # "" THEN 4 ELSE 0)
    + (IF f.tag # "" THEN 4 ELSE 0)
    + (IF f.query # <<>> THEN queryMatchScore(e, f.query) ELSE 0)
    + (IF f.schema # "" THEN SchemaScore(SidesOf(indexes, f.schema, e.id)) ELSE 0)
    + (IF f.status > 0 THEN StatusScore(GroupsOf(indexes, f.status, e.id)) ELSE 0)

\* The places of those that come before the one at place k: the better ones, and
\* of the equally good ones those that are listed before it.
Ahead(scores, k) ==
    {j \in DOMAIN scores : scores[j] > scores[k] \/ (scores[j] = scores[k] /\ j < k)}

BestFirst(s, scores) ==
    [n \in DOMAIN s |-> s[CHOOSE k \in DOMAIN s : Cardinality(Ahead(scores, k)) = n - 1]]

\* The endpoints that pass, the best first.  Equal scores are in the order of the
\* ids, here in that of the listing.
Ranked(endpoints, f, indexes) ==
    LET passing == ElementsAt(endpoints, {k \in DOMAIN endpoints : Passes(endpoints[k], f, indexes)})
    IN BestFirst(passing, [k \in DOMAIN passing |-> Score(passing[k], f, indexes)])

-----------------------------------------------------------------------------
\* The answer

\* What is missing, no number or not positive is as if it were not given.
PositiveOr(raw, default) == IF raw > 0 THEN raw ELSE default

parseSearchInput(f) == [f EXCEPT !.limit = PositiveOr(@, 20), !.status = PositiveOr(@, 0)]

includeSet(items) ==
    LET known == items \cap {"endpoints", "schemas", "usage"}
    IN IF known = {} THEN {"endpoints"} ELSE known

usageOfSchema(indexes, schema) ==
    {[id |-> u.id, sides |-> SidesOf(indexes, schema, u.id)] :
        u \in {x \in indexes.schemas : x.schema = schema}}

usageOfStatus(indexes, status) ==
    {[id |-> u.id, groups |-> GroupsOf(indexes, status, u.id)] :
        u \in {x \in indexes.statuses : x.status = status}}

\* count is that of all that pass, however few are shown.  The listing of schemas
\* whose names contain the query is left out.
search(schemas, endpoints, input) ==
    LET f       == parseSearchInput(input)
        indexes == buildSearchIndexes(schemas, endpoints)
        ranked  == Ranked(endpoints, f, indexes)
        asked   == includeSet(f.include)
    IN [count   |-> Len(ranked),
        results |-> IF "endpoints" \in asked
                    THEN SubSeq(ranked, 1, Min({Len(ranked), f.limit})) ELSE <<>>,
        schema  |-> IF asked \cap {"schemas", "usage"} # {} /\ f.schema # ""
                    THEN usageOfSchema(indexes, f.schema) ELSE {},
        status  |-> IF "usage" \in asked /\ f.status > 0
                    THEN usageOfStatus(indexes, f.status) ELSE {}]

-----------------------------------------------------------------------------
\* plan_call

matchesQuery(e, phrase) ==
    \/ Among(phrase, ToSet(e.id) \cup PathWords(e.path) \cup e.tags)
    \/ Within(phrase, e.summary) \/ Within(phrase, e.description)

\* The endpoint of the operationId, or else the first that the query and the goal
\* match as one phrase; <<>> if there is none.
planCall(state, id, query, goal) ==
    LET phrase == query \o goal
        Fits(e) == phrase = <<>> \/ matchesQuery(e, phrase)
        first  == SelectInSeq(state.endpoints, Fits)
    IN IF id # <<>>
       THEN IF id \in DOMAIN state.byID THEN <<state.byID[id]>> ELSE <<>>
       ELSE IF first = 0 THEN <<>> ELSE <<state.endpoints[first]>>
=============================================================================
