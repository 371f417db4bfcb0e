------------------------------- MODULE Schemas -------------------------------
(***************************************************************************)
(* OpenAPI schemas: how the references of a document are resolved into a   *)
(* tree (internal/swagger/resolver.go), how a value is judged against that *)
(* tree and how one is made from it (internal/tool).                       *)
(*                                                                         *)
(* A document is a function from the names of its component schemas to     *)
(* schemas that refer to one another by name; a resolved schema has the    *)
(* schemas themselves in those places.  All of them are components, that   *)
(* is, they are reached through a $ref.  The keywords that are resolved    *)
(* but judged by nobody are there by their meaning: the values they        *)
(* exclude, and the schemas they name.  What is made for a format or a     *)
(* numeric limit is left out, and so is the random part of a generated     *)
(* string or number.                                                       *)
(***************************************************************************)
EXTENDS SequencesExt

CONSTANTS
    Documents,    \* functions from schema names to schemas
    JSONValues,   \* the values that occur, see AllOfJSON
    PrintOf(_)    \* what fmt prints of an object or an array

-----------------------------------------------------------------------------
\* JSON values.  Of a scalar, text is what fmt prints of it.

JSON(kind, text, fields, elems) ==
    [kind |-> kind, text |-> text, fields |-> fields, elems |-> elems]

Scalar(kind, text) == JSON(kind, text, <<>>, <<>>)
Object(fields)     == JSON("object", "", fields, <<>>)
Array(elems)       == JSON("array", "", <<>>, elems)
Null               == Scalar("null", "<nil>")

\* The provers do not know of any string that it is one.
ASSUME LiteralsAssumption ==
    {"", "null", "<nil>", "object", "array", "string", "boolean", "true", "integer", "n",
     "number", "n.5", "value", "value-n"} \subseteq STRING

ValuesIn(value) == {value.fields[key] : key \in DOMAIN value.fields} \cup ToSet(value.elems)

\* An object is its fields.
WellFormed(v) == v.kind = "object" => v = Object(v.fields)

\* What JSONValues stands for: nothing but JSON, and no value without an end ...
OnlyJSON ==
    /\ \A v \in JSONValues : \E kind, text \in STRING, keys \in SUBSET STRING :
         \E fields \in [keys -> JSONValues], elems \in Seq(JSONValues) :
            IsFiniteSet(keys) /\ v = JSON(kind, text, fields, elems) /\ WellFormed(v)
    /\ \E depth \in [JSONValues -> Nat] :
         \A v \in JSONValues : \A part \in ValuesIn(v) : depth[part] < depth[v]

\* ... and all that can be built of finitely many values.  The theorems are about
\* these; for TLC it is a set of those that an instance comes across.
AllOfJSON ==
    /\ OnlyJSON
    /\ \A kind, text \in STRING, keys \in SUBSET STRING :
         \A fields \in [keys -> JSONValues], elems \in Seq(JSONValues) :
            LET v == JSON(kind, text, fields, elems)
            IN IsFiniteSet(keys) /\ WellFormed(v) => v \in JSONValues

-----------------------------------------------------------------------------
\* Schemas.  The optional keywords items and example are sequences of at most
\* one element, and a limit of 0 is one that is not given.  The resolver notes in
\* origin (x-originRef) which component it has put there.  It keeps a single type
\* as a string, in type, and a list of several, union, as a []string, which all
\* that read a schema take for no type.  It keeps these too, and nobody reads them:
\*   nullable  null is allowed beside the type
\*   oneWay    the described fields that are readOnly or writeOnly: they need
\*             not be there in the other direction, required or not
\*   others    the schemas under not and additionalProperties
\*   excludes  the values ruled out by these two, by formats, patterns, lengths and
\*             numeric limits, by uniqueItems, minProperties and maxProperties

NoKeywords ==
    [origin |-> "", type |-> "", union |-> {}, nullable |-> FALSE,
     example |-> <<>>, enum |-> <<>>, props |-> <<>>, required |-> {}, oneWay |-> {},
     items |-> <<>>, minItems |-> 0, maxItems |-> 0,
     oneOf |-> <<>>, anyOf |-> <<>>, allOf |-> <<>>, others |-> <<>>, excludes |-> {}]

\* The references of a schema are to the names given.
IsSchema(s, names) ==
    /\ s \in [origin : STRING, type : STRING, union : SUBSET STRING, nullable : BOOLEAN,
              example : Seq(JSONValues), enum : Seq(JSONValues),
              props : [DOMAIN s.props -> names], required : SUBSET STRING,
              oneWay : SUBSET STRING, items : Seq(names), minItems : Nat, maxItems : Nat,
              oneOf : Seq(names), anyOf : Seq(names), allOf : Seq(names), others : Seq(names),
              excludes : SUBSET JSONValues]
    /\ DOMAIN s.props \subseteq STRING
    /\ IsFiniteSet(DOMAIN s.props \cup s.required)
    /\ Len(s.example) <= 1 /\ Len(s.items) <= 1
    /\ s.union # {} => s.type = "" /\ "" \notin s.union

ASSUME DocumentsAssumption ==
    \A d \in Documents :
        /\ IsFiniteSet(DOMAIN d) /\ DOMAIN d \subseteq STRING
        /\ \A name \in DOMAIN d : IsSchema(d[name], DOMAIN d)

\* What stands for a schema that is already open: its one key, x-circularRef,
\* names it as origin does and is no keyword for the validator and the generator.
CircularRef(name) == [NoKeywords EXCEPT !.origin = name]

-----------------------------------------------------------------------------
\* Resolution

\* The schema name, where those in seen are open: expanded gives its parts.
ResolvedSchema(schemas, expanded, name, seen) ==
    LET ResolveAll(refs) == [x \in DOMAIN refs |-> expanded[seen \cup {name}][refs[x]]] IN
    IF name \in seen
    THEN CircularRef(name)
    ELSE [schemas[name] EXCEPT !.origin = name, !.props = ResolveAll(@), !.items = ResolveAll(@),
                           !.oneOf = ResolveAll(@), !.anyOf = ResolveAll(@),
                           !.allOf = ResolveAll(@), !.others = ResolveAll(@)]

\* seen holds the schemas on the way from the root: a schema is taken out of it
\* when its resolution returns, so that it may be expanded again beside it.
ResolveSchema(schemas, name, seen) ==
    LET expanded[open \in SUBSET DOMAIN schemas] ==
            [ref \in DOMAIN schemas |-> ResolvedSchema(schemas, expanded, ref, open)]
    IN expanded[seen][name]

\* The resolved schemas and their parts.
SchemaTrees ==
    LET Places == UNION {{d} \X (DOMAIN d) \X SUBSET DOMAIN d : d \in Documents}
    IN {ResolveSchema(at[1], at[2], at[3]) : at \in Places}

Subschemas(schema) ==
    {schema.props[key] : key \in DOMAIN schema.props} \cup ToSet(schema.items)
    \cup ToSet(schema.oneOf) \cup ToSet(schema.anyOf) \cup ToSet(schema.allOf)
    \cup ToSet(schema.others)

-----------------------------------------------------------------------------
\* Validation of a value against a resolved schema: the set of the kinds of
\* issue found, empty for a valid value.

\* ensureType; a type it does not know, and the absence of one, lets all pass.  It
\* is not asked whether null is allowed beside the type.
HasType(type, value) ==
    CASE type \in {"object", "array", "string", "boolean", "integer"} -> value.kind = type
      [] type = "number" -> value.kind \in {"integer", "number"}
      [] OTHER -> TRUE

printed(value) ==
    IF value.kind \in {"object", "array"} THEN PrintOf(value) ELSE [value EXCEPT !.kind = ""]

\* Values are compared with an enum as they are printed: 1 is "1", and {"p":1} is
\* {"p":"1"}.
EnumContains(enum, value) == \E e \in ToSet(enum) : printed(e) = printed(value)

\* In these, found has the issues of the parts.

Matching(found, value, branches) == {i \in DOMAIN branches : found[branches[i]][value] = {}}

\* A faulty form of CompositionIssues: oneOf as anyOf.
LooseCompositionIssues(found, value, schema) ==
    (UNION {found[branch][value] : branch \in ToSet(schema.allOf)})
    \cup {k \in {"anyOf"} : schema.anyOf # <<>> /\ Matching(found, value, schema.anyOf) = {}}
    \cup {k \in {"oneOf"} : schema.oneOf # <<>> /\ Matching(found, value, schema.oneOf) = {}}

\* Another one: anyOf as oneOf.
StrictCompositionIssues(found, value, schema) ==
    (UNION {found[branch][value] : branch \in ToSet(schema.allOf)})
    \cup {k \in {"anyOf"} : schema.anyOf # <<>> /\ Cardinality(Matching(found, value, schema.anyOf)) # 1}
    \cup {k \in {"oneOf"} : schema.oneOf # <<>> /\ Cardinality(Matching(found, value, schema.oneOf)) # 1}

\* The issues of the compositions, which are looked at before the type.
CompositionIssues(found, value, schema) ==
    (UNION {found[branch][value] : branch \in ToSet(schema.allOf)})
    \cup {k \in {"anyOf"} : schema.anyOf # <<>> /\ Matching(found, value, schema.anyOf) = {}}
    \cup {k \in {"oneOf"} : schema.oneOf # <<>> /\ Cardinality(Matching(found, value, schema.oneOf)) # 1}

\* Required and described fields count under an explicit type "object" only.
FieldIssues(found, value, schema) ==
    {k \in {"required"} : schema.required \ DOMAIN value.fields # {}}
    \cup UNION {found[schema.props[key]][value.fields[key]] :
                key \in DOMAIN schema.props \cap DOMAIN value.fields}

ItemIssues(found, value, schema) ==
    UNION {found[schema.items[1]][item] :
           item \in IF schema.items = <<>> THEN {} ELSE ToSet(value.elems)}

\* A value of the wrong type is not looked at any further.
ValueIssues(found, value, schema) ==
    CompositionIssues(found, value, schema) \cup
    IF ~ HasType(schema.type, value)
    THEN {"type"}
    ELSE (IF schema.type = "object" THEN FieldIssues(found, value, schema) ELSE {})
         \cup (IF schema.type = "array" THEN ItemIssues(found, value, schema) ELSE {})
         \cup {k \in {"enum"} : schema.enum # <<>> /\ ~ EnumContains(schema.enum, value)}

Issues[schema \in SchemaTrees] ==
    [value \in JSONValues |-> ValueIssues(Issues, value, schema)]

\* The part of validatePreparedRequest about the body: no body, no issue.
BodyIssues(body, schema) == IF body = Null THEN {} ELSE Issues[schema][body]

-----------------------------------------------------------------------------
\* Merging

\* A faulty form of MergedField: one level only.
ShallowMergedField(merged, base, patch, key) ==
    IF key \in DOMAIN patch.fields THEN patch.fields[key] ELSE base.fields[key]

\* One field of the merge: objects on both sides are merged, and otherwise the
\* patch wins.
MergedField(merged, base, patch, key) ==
    IF key \notin DOMAIN patch.fields THEN base.fields[key]
    ELSE IF key \notin DOMAIN base.fields THEN patch.fields[key]
    ELSE IF base.fields[key].kind = "object" /\ patch.fields[key].kind = "object"
    THEN merged[base.fields[key]][patch.fields[key]]
    ELSE patch.fields[key]

DeepMerge[base \in JSONValues] ==
    [patch \in JSONValues |->
        Object([key \in DOMAIN base.fields \cup DOMAIN patch.fields |->
                  MergedField(DeepMerge, base, patch, key)])]

\* The objects among the parts are merged, one after another.
MergeAll[parts \in Seq(JSONValues)] ==
    IF parts = <<>> THEN Object(<<>>)
    ELSE LET before == MergeAll[Front(parts)] IN
         IF Last(parts).kind = "object" THEN DeepMerge[before][Last(parts)] ELSE before

\* No overrides change nothing; overrides of what is no object replace it.
MergeOverrides(generated, overrides) ==
    IF overrides.fields = <<>> THEN generated
    ELSE IF generated.kind # "object" THEN overrides
    ELSE DeepMerge[generated][overrides]

-----------------------------------------------------------------------------
\* Generation

MaxDepth == 32

SomeString  == Scalar("string", "value-n")
SomeInteger == Scalar("integer", "n")
SomeNumber  == Scalar("number", "n.5")
Placeholder == Scalar("string", "value")   \* for a required field nothing describes

InferredType(schema) ==
    IF schema.type # "" THEN schema.type
    ELSE IF schema.props # <<>> THEN "object"
    ELSE IF schema.items # <<>> THEN "array"
    ELSE ""

ChooseOption(options, strategy) == IF strategy = "maximal" THEN Len(options) ELSE 1

\* A faulty form of FilledFields: the optional ones for the required ones.
OptionalFields(schema, strategy) ==
    IF strategy = "maximal" THEN DOMAIN schema.props ELSE DOMAIN schema.props \ schema.required

\* The fields that are filled from their schemas.
FilledFields(schema, strategy) ==
    IF strategy = "maximal" THEN DOMAIN schema.props ELSE DOMAIN schema.props \cap schema.required

\* A faulty form of ItemCount: without maxItems.
UnlimitedItemCount(schema, strategy) ==
    Max({IF strategy = "maximal" THEN 3 ELSE 1, schema.minItems})

\* How many elements an array gets.
ItemCount(schema, strategy) ==
    LET most == IF schema.maxItems > 0 THEN schema.maxItems ELSE 3
        wish == IF strategy = "maximal" THEN Min({most, 8}) ELSE 1
    IN Max({wish, schema.minItems})

\* In these, made has what is made of the parts, by the depth at which it is asked for.

GenerateAllOf(made, options, depth) ==
    LET parts == [k \in DOMAIN options |-> made[options[k]][depth + 1]] IN
    IF \A k \in DOMAIN parts : parts[k].kind # "object" THEN Null ELSE MergeAll[parts]

\* An object that describes no fields stays empty, whatever it requires.
GenerateObject(made, schema, strategy, depth) ==
    LET filled == FilledFields(schema, strategy) IN
    IF schema.props = <<>> THEN Object(<<>>)
    ELSE Object([key \in filled \cup schema.required |->
                   IF key \in filled THEN made[schema.props[key]][depth + 1] ELSE Placeholder])

\* An array of what nothing describes is filled with nulls.
GenerateArray(made, schema, strategy, depth) ==
    Array([i \in 1..ItemCount(schema, strategy) |->
             IF schema.items = <<>> THEN Null ELSE made[schema.items[1]][depth + 1]])

\* In the order of precedence: the first keyword found decides, and what stands
\* beside it is passed over.
GenerateFrom(made, schema, strategy, depth) ==
    LET Pick(options) == made[options[ChooseOption(options, strategy)]][depth + 1]
        type == InferredType(schema)
    IN IF depth > MaxDepth THEN Null
       ELSE IF schema.example # <<>> THEN schema.example[1]
       ELSE IF schema.enum # <<>> THEN schema.enum[1]
       ELSE IF schema.oneOf # <<>> THEN Pick(schema.oneOf)
       ELSE IF schema.anyOf # <<>> THEN Pick(schema.anyOf)
       ELSE IF schema.allOf # <<>> THEN GenerateAllOf(made, schema.allOf, depth + 1)
       ELSE CASE type = "object"  -> GenerateObject(made, schema, strategy, depth + 1)
              [] type = "array"   -> GenerateArray(made, schema, strategy, depth + 1)
              [] type = "integer" -> SomeInteger
              [] type = "number"  -> SomeNumber
              [] type = "boolean" -> Scalar("boolean", "true")
              [] type = "null"    -> Null
              [] OTHER            -> SomeString

Generate(schema, strategy) ==
    LET made[part \in SchemaTrees] ==
            [depth \in Nat |-> GenerateFrom(made, part, strategy, depth)]
    IN made[schema][0]
=============================================================================
