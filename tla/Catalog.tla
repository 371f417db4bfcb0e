------------------------------- MODULE Catalog -------------------------------
(***************************************************************************)
(* The operations of a Swagger document: what internal/swagger makes of    *)
(* paths, servers, parameters and responses when it loads one (store.go,   *)
(* resolver.go).  A document is a record                                   *)
(*   [servers, items], its items in the order of their paths, each         *)
(*   [path, servers, params, operations], operations by method, each       *)
(*   [id, summary, description, tags, servers, params, body, responses].   *)
(* A path is a sequence of segments [text, words, param]: the words of     *)
(* /a_b and of /a/b are the same, and the text of a parameter is its name. *)
(* Names are sequences of words as well, and the empty one is a name that  *)
(* is not given.  No name has spaces around it: an id is looked up trimmed *)
(* but stored as it is.  Headers are written in one case throughout:       *)
(* parameters that differ in it alone are not merged.  Of the texts there  *)
(* are only the summary and the description; security requirements and the *)
(* schemas of parameters are left out, and a schema is referred to by its  *)
(* name (see Schemas for what is made of it).                              *)
(***************************************************************************)
EXTENDS SequencesExt

MethodOrder == <<"GET", "POST", "PUT", "DELETE", "PATCH", "OPTIONS", "HEAD", "TRACE",
                 "CONNECT">>

\* Of a body, the schemas of its media types, by type, and the order in which
\* sort.Strings puts those.
MediaTypes == <<"application/json", "application/xml", "text/plain">>
NoBody     == <<>>
NoSchema   == ""

Default == 0     \* the key "default" of a response
Range2XX == -2   \* the key "2XX", which OpenAPI also allows

\* The elements of s at the places in I, in their order.
ElementsAt(s, I) ==
    LET chosen[k \in 0..Len(s)] ==
            IF k = 0 THEN <<>> ELSE IF k \in I THEN Append(chosen[k - 1], s[k]) ELSE chosen[k - 1]
    IN chosen[Len(s)]

-----------------------------------------------------------------------------
\* Documents

IsSeq(s) == s \in Seq(ToSet(s))

\* At most one base URL in a setting or an input, any number in a document.
AreBases(bases) ==
    /\ IsSeq(bases)
    /\ \A i \in DOMAIN bases :
          /\ bases[i] = [host |-> bases[i].host, path |-> bases[i].path, query |-> bases[i].query]
          /\ IsSeq(bases[i].path)

\* An item of a document, under one path.
IsItem(item) ==
    /\ IsSeq(item.path) /\ \A k \in DOMAIN item.path : IsSeq(item.path[k].words)
    /\ AreBases(item.servers) /\ IsSeq(item.params)
    /\ DOMAIN item.operations \subseteq ToSet(MethodOrder)
    /\ \A m \in DOMAIN item.operations :
          LET op == item.operations[m]
          IN IsSeq(op.params) /\ (op.servers # <<>> => AreBases(op.servers[1]))

\* The path is the key of an item.
IsDocument(d) ==
    /\ AreBases(d.servers) /\ IsSeq(d.items)
    /\ \A i \in DOMAIN d.items : IsItem(d.items[i])
    /\ \A i, j \in DOMAIN d.items : d.items[i].path = d.items[j].path => i = j

\* The operations of a document, <<item, method>>.
OperationsOf(doc) ==
    UNION {{<<i, m>> : m \in DOMAIN doc.items[i].operations} : i \in DOMAIN doc.items}

OperationAt(doc, o) == doc.items[o[1]].operations[o[2]]

-----------------------------------------------------------------------------
\* Collection

\* A faulty form of syntheticOperationID: of the path only.
syntheticOperationIDOfPath(method, path) ==
    <<"op">> \o FlattenSeq([i \in DOMAIN path |-> path[i].words])

\* The method and the words of the path; separators and braces are lost.
syntheticOperationID(method, path) ==
    <<method>> \o IF path = <<>> THEN <<"root">>
                  ELSE FlattenSeq([i \in DOMAIN path |-> path[i].words])

operationID(item, method) ==
    LET id == item.operations[method].id
    IN IF id = <<>> THEN syntheticOperationID(method, item.path) ELSE id

\* In the order of the paths, and of the methods on each.
collectOperations(doc) ==
    FlattenSeq([i \in DOMAIN doc.items |->
        LET item    == doc.items[i]
            methods == ElementsAt(MethodOrder,
                           {k \in DOMAIN MethodOrder : MethodOrder[k] \in DOMAIN item.operations})
        IN [j \in DOMAIN methods |-> [item |-> item, method |-> methods[j]]]])

-----------------------------------------------------------------------------
\* Resolution of one operation

dedupe(s) == ElementsAt(s, {i \in DOMAIN s : \A j \in 1..(i - 1) : s[j] # s[i]})

\* The servers of an operation are a sequence in a sequence, the empty one if
\* the operation has no such keyword: an empty list is a list.
resolveServers(override, doc, item, op) ==
    IF override # <<>> THEN override
    ELSE dedupe(IF op.servers # <<>> THEN op.servers[1]
                ELSE IF item.servers # <<>> THEN item.servers
                ELSE doc.servers)

\* A faulty form of mergeParameters: the first definition wins.
mergeParametersFirst(item, op) ==
    LET all == item.params \o op.params
        Counts(i) == \A j \in 1..(i - 1) : <<all[j].place, all[j].name>> # <<all[i].place, all[i].name>>
    IN {all[i] : i \in {k \in DOMAIN all : Counts(k)}}

\* Of the parameters with one place and name, the operation's.
mergeParameters(item, op) ==
    LET all == item.params \o op.params
        Counts(i) == \A j \in (i + 1)..Len(all) : <<all[j].place, all[j].name>> # <<all[i].place, all[i].name>>
    IN {all[i] : i \in {k \in DOMAIN all : Counts(k)}}

\* The schema of the JSON media type, or of the first one.
preferredMedia(content) ==
    IF content = NoBody THEN NoSchema
    ELSE LET first == SelectInSeq(MediaTypes, LAMBDA type : type \in DOMAIN content)
         IN content[MediaTypes[first]]

responseGroup(key) ==
    CASE key \in 200..399                     -> "success"
      [] key \in 400..599 \/ key = Default    -> "errors"
      [] OTHER                                -> "dropped"

resolveResponses(op) ==
    {[group |-> responseGroup(key), status |-> key, body |-> preferredMedia(op.responses[key])] :
        key \in {k \in DOMAIN op.responses : responseGroup(k) # "dropped"}}

ResolveEndpoint(override, doc, item, method) ==
    LET op == item.operations[method] IN
    [id        |-> operationID(item, method),
     method    |-> method,
     path      |-> item.path,
     summary   |-> op.summary,
     description |-> op.description,
     tags      |-> op.tags,
     servers   |-> resolveServers(override, doc, item, op),
     params    |-> mergeParameters(item, op),
     body      |-> preferredMedia(op.body),
     responses |-> resolveResponses(op)]

-----------------------------------------------------------------------------
\* The indexes of a snapshot

\* By method, and by path for each.
sortOperations(resolved) ==
    FlattenSeq([i \in DOMAIN MethodOrder |->
        ElementsAt(resolved, {k \in DOMAIN resolved : resolved[k].method = MethodOrder[i]})])

\* Of endpoints with one id, the one collected last.
endpointByOpID(resolved) ==
    [id \in {resolved[i].id : i \in DOMAIN resolved} |->
        resolved[SelectLastInSeq(resolved, LAMBDA e : e.id = id)]]

buildState(override, doc) ==
    LET ops == collectOperations(doc)
        resolved == FlattenSeq([i \in DOMAIN ops |->
            <<ResolveEndpoint(override, doc, ops[i].item, ops[i].method)>>])
    IN [endpoints |-> sortOperations(resolved), byID |-> endpointByOpID(resolved)]
=============================================================================
