------------------------------ MODULE MCPayload ------------------------------
(***************************************************************************)
(* Documents of three schemas: A, the body's, has any of the shapes below, *)
(* B any but the largest, C is a scalar or leads back to one of the three; *)
(* or they have a keyword that the validator passes over, or misreads.     *)
(* Three operations share them.                                            *)
(***************************************************************************)
EXTENDS PayloadFlow, TLC

Str(text) == Scalar("string", text)

OfType(t) == [NoKeywords EXCEPT !.type = t]

Scalars ==
    {OfType("string"), OfType("integer"),
     [OfType("string") EXCEPT !.enum = <<Str("x"), Str("y")>>]}

Objects(refs) ==
    {[OfType("object") EXCEPT !.props = [p |-> ref], !.required = req] :
        ref \in refs, req \in {{}, {"p"}}}

WideObjects(refs) ==
    {[OfType("object") EXCEPT !.props = [p |-> r1, q |-> r2], !.required = {"q"}] :
        r1 \in refs, r2 \in refs}

OddShapes ==
    {[OfType("object") EXCEPT !.required = {"q"}],
     [OfType("object") EXCEPT !.props = [p |-> "C"], !.required = {"q"}],
     [NoKeywords EXCEPT !.props = [p |-> "C"], !.required = {"q"}],
     [NoKeywords EXCEPT !.items = <<"C">>]}

Arrays(refs) ==
    {[OfType("array") EXCEPT !.items = <<ref>>, !.minItems = lim[1], !.maxItems = lim[2]] :
        ref \in refs, lim \in {<<0, 0>>, <<2, 2>>}}

Compositions(pairs) ==
    UNION {{[NoKeywords EXCEPT !.oneOf = pair], [NoKeywords EXCEPT !.anyOf = pair],
            [NoKeywords EXCEPT !.allOf = pair]} : pair \in pairs}

\* Keywords that nobody reads, and enums that fmt prints alike.
Unread(refs) ==
    {[OfType("string") EXCEPT !.nullable = TRUE],
     [NoKeywords EXCEPT !.union = {"integer", "null"}],
     [OfType("string") EXCEPT !.excludes = {Str("z"), SomeString}],
     [OfType("integer") EXCEPT !.enum = <<Str("1")>>],
     [OfType("object") EXCEPT !.enum = <<Object([p |-> Str("1")])>>],
     [OfType("array") EXCEPT !.enum = <<Array(<<Str("x y")>>)>>]}
    \cup {[OfType("object") EXCEPT !.others = <<ref>>, !.excludes = {Object([p |-> Str("x")])}] : ref \in refs}
    \cup {[OfType("object") EXCEPT !.props = [q |-> ref], !.required = {"q"}, !.oneWay = {"q"}] : ref \in refs}

UnreadDocuments ==
    {[A |-> a, B |-> b, C |-> c] :
        a \in Unread({"B"}) \cup Objects({"B"}) \cup Arrays({"B"}) \cup Compositions({<<"B", "C">>}),
        b \in Unread({"C"}),
        c \in {OfType("string"), [OfType("object") EXCEPT !.props = [p |-> "A"]]}}
    \cup {[A |-> a, B |-> [NoKeywords EXCEPT !.oneOf = <<"C", "D">>],
            C |-> [OfType("string") EXCEPT !.nullable = TRUE], D |-> d] :
            a \in Objects({"B"}) \cup Arrays({"B"}), d \in {NoKeywords, OfType("integer")}}

MCDocuments ==
    UnreadDocuments \cup
    {[A |-> a, B |-> b, C |-> c] :
        a \in Objects({"A", "B"}) \cup WideObjects({"B", "C"}) \cup OddShapes
              \cup Arrays({"A", "B"})
              \cup Compositions({<<"B", "C">>, <<"C", "B">>}),
        b \in Scalars \cup {[OfType("number") EXCEPT !.example = <<Scalar("number", "1.5")>>]}
              \cup Objects({"A", "C"}) \cup OddShapes \cup Arrays({"A", "C"})
              \cup Compositions({<<"A", "C">>, <<"C", "C">>}),
        c \in (Scalars \ {OfType("integer")})
              \cup {[OfType("object") EXCEPT !.props = [p |-> "A"]],
                    [OfType("object") EXCEPT !.props = [q |-> "B"], !.required = {"q"}],
                    [NoKeywords EXCEPT !.oneOf = <<"A", "B">>],
                    [NoKeywords EXCEPT !.anyOf = <<"A", "B">>]}}

\* Fields occur in these combinations only.
Dictionary(S) ==
    [{} -> S] \cup [{"p"} -> S] \cup [{"q"} -> S] \cup [{"p", "q"} -> S]
    \cup [{"bodyEncoding", "body"} -> S] \cup [{"contentType", "bodyEncoding", "body"} -> S]

\* The values of at most n + 1 levels.
JSONUpTo[n \in 0..5] ==
    LET S == IF n = 0 THEN {} ELSE JSONUpTo[n - 1]
    IN [kind : STRING \ {"object"}, text : STRING, fields : Dictionary(S), elems : Seq(S)]
       \cup [kind : {"object"}, text : {""}, fields : Dictionary(S), elems : {<<>>}]

MCJSONValues == JSONUpTo[5]

\* Without quotes and kinds, and with spaces between the elements.
Printed[value \in MCJSONValues] ==
    CASE value.kind = "object" ->
            JSON("", "map", [key \in DOMAIN value.fields |-> Printed[value.fields[key]]], <<>>)
      [] value.kind = "array" ->
            LET Words(v) == IF v = Str("x y") THEN <<Printed[Str("x")], Printed[Str("y")]>> ELSE <<Printed[v]>>
            IN JSON("", "list", <<>>, FlattenSeq([i \in DOMAIN value.elems |-> Words(value.elems[i])]))
      [] OTHER -> [value EXCEPT !.kind = ""]

MCPrintOf(value) == Printed[value]

MCOverrides == {Object(<<>>), Object([p |-> Object([q |-> Str("x")])])}

Atoms == {Str("x"), Str("z"), Scalar("integer", "1")}

MCValues ==
    LET small == Atoms \cup {Object(<<>>)}
        plain ==
            small \cup {Null, Array(<<>>)}
            \cup {Object([p |-> v]) : v \in small}
            \cup {Object([q |-> v]) : v \in small}
            \cup {Object([p |-> v, q |-> w]) : v \in Atoms, w \in Atoms}
            \cup {Object([p |-> Object([p |-> v])]) : v \in Atoms}
            \cup {Array(<<v>>) : v \in small}
            \cup {Object([p |-> Null]), Array(<<Null>>), Array(<<Str("x"), Str("y")>>)}
    IN (plain \X {""}) \cup {<<Text(Object([q |-> Str("x")])), "">>, <<Text(Str("x")), "json">>,
                            <<Text(Object(<<>>)), "text">>, <<Str("z"), "json">>}

-----------------------------------------------------------------------------
\* The operations, by path: one to call, one without a body, one without an id.

Segment(word, param) == [text |-> word, words |-> <<word>>, param |-> param]

JSONOf(name) == "application/json" :> name

Op(id, tag, request, responses) ==
    [id |-> id, summary |-> <<"an", "item">>, description |-> <<"one", "of", "many">>, tags |-> {tag}, servers |-> <<>>, params |-> <<>>,
     body |-> request, responses |-> responses]

MCCalled == <<"create", "item">>

MCAPI ==
    [servers |-> <<>>,
     items |->
       <<[path |-> <<Segment("items", FALSE)>>, servers |-> <<>>, params |-> <<>>,
          operations |->
            "GET" :> Op(<<"list", "items">>, "read", NoBody,
                        200 :> ("application/xml" :> "A" @@ "application/json" :> "B")
                        @@ 100 :> JSONOf("A") @@ 404 :> NoBody)
            @@ "POST" :> Op(MCCalled, "write", JSONOf("A"),
                            200 :> JSONOf("B") @@ Default :> JSONOf("C") @@ Range2XX :> JSONOf("A"))],
         [path |-> <<Segment("items", FALSE), Segment("id", TRUE)>>, servers |-> <<>>, params |-> <<>>,
          operations |-> "GET" :> Op(<<>>, "read", "text/plain" :> "C", 404 :> JSONOf("B"))]>>]

NoFilter ==
    [query |-> <<>>, method |-> "", tag |-> "", schema |-> "", status |-> 0, limit |-> 0, include |-> {}]

MCFilters ==
    {[NoFilter EXCEPT !.schema = "A"],
     [NoFilter EXCEPT !.schema = "B", !.include = {"usage"}],
     [NoFilter EXCEPT !.schema = "C", !.include = {"usage", "endpoints"}, !.limit = 1],
     [NoFilter EXCEPT !.schema = "C", !.method = "GET", !.status = 404],
     [NoFilter EXCEPT !.query = <<"item">>],
     [NoFilter EXCEPT !.query = <<"of", "many">>],
     [NoFilter EXCEPT !.query = <<"item">>, !.schema = "B", !.tag = "read", !.limit = -1]}

\* Envelopes that an API may send itself.
Wrapped(value) == Object([bodyEncoding |-> Str("json"), body |-> value])

MCAnswers ==
    LET Whole(status, ct, payload) ==
            [status |-> status, contentType |-> ct, payload |-> payload, fits |-> TRUE]
        small == {Str("x"), Object(<<>>), Object([p |-> Str("x")]), Object([p |-> Null])}
    IN {Whole(200, "json", Text(v)) : v \in small}
       \cup {Whole(500, "", Text(v)) : v \in small}
       \cup {Whole(200, "json", Text(Wrapped(Str("x")))),
             Whole(200, "json", Text(Wrapped(Text(Object(<<>>))))),
             Whole(200, "text", Text(Object([q |-> Str("x")]))),
             Whole(200, "json", Text(Null)),
             Whole(404, "", Bytes),
             Whole(404, "json", EmptyText),
             [Whole(200, "json", Text(Object(<<>>))) EXCEPT !.fits = FALSE]}
=============================================================================
