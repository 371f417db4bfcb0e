---------------------------- MODULE RequestsProofs ----------------------------
(***************************************************************************)
(* Theorems about one request of an agent, for every set of documents,     *)
(* settings and inputs of the assumed shape: the ids of the operations     *)
(* lead back to them, parameters arrive, what was confirmed is what is     *)
(* sent, and a tighter policy is no more lenient.                          *)
(*                                                                         *)
(* What is known of the documents is in CatalogProofs.                     *)
(***************************************************************************)
EXTENDS Requests, CatalogProofs

-----------------------------------------------------------------------------
\* The snapshot of a document

\* What an operation of the document is resolved to.
EndpointOf(o) == EndpointAt(settings.override, document, o)

LEMMA ServedFields ==
    ASSUME NEW o
    PROVE  LET e == EndpointOf(o)  item == document.items[o[1]]
           IN /\ e.id = operationID(item, o[2]) /\ e.method = o[2] /\ e.path = item.path
              /\ e.servers = resolveServers(settings.override, document, item, item.operations[o[2]])
              /\ e.params = mergeParameters(item, item.operations[o[2]])
  BY EndpointFields DEF EndpointOf, OperationAt

LEMMA ServedShape ==
    ASSUME IsDocument(document), NEW o \in Operations
    PROVE  /\ o = <<o[1], o[2]>> /\ o[1] \in DOMAIN document.items
           /\ o[2] \in DOMAIN document.items[o[1]].operations
           /\ o[2] \in ToSet(MethodOrder) /\ IsItem(document.items[o[1]])
  BY OperationShape DEF Operations

\* The snapshot is made of the operations, all of them.
Snapshot ==
    /\ IsDocument(document)
    /\ snapshot = buildState(settings.override, document)

\* Endpoints and index are those of the operations, and the index by id has its ids.
LEMMA ServedOperations ==
    ASSUME Snapshot
    PROVE  /\ ToSet(snapshot.endpoints) = {EndpointOf(o) : o \in Operations}
           /\ DOMAIN snapshot.byID = {EndpointOf(o).id : o \in Operations}
           /\ \A id \in DOMAIN snapshot.byID :
                 /\ \E o \in Operations : snapshot.byID[id] = EndpointOf(o)
                 /\ snapshot.byID[id].id = id
  BY SnapshotOfOperations DEF Snapshot, EndpointOf, Operations

-----------------------------------------------------------------------------
\* Ids

\* Sequences that are equal are so in their first element and in the rest.
LEMMA SameHeadAndRest ==
    ASSUME NEW T, NEW x \in T, NEW y \in T, NEW s \in Seq(T), NEW t \in Seq(T),
           <<x>> \o s = <<y>> \o t
    PROVE  x = y /\ s = t
PROOF
  <1> DEFINE a == <<x>>
             b == <<y>>
  <1>0. a \in Seq(T) /\ b \in Seq(T)
    OBVIOUS
  <1>1. Len(a) = 1 /\ Len(b) = 1 /\ a[1] = x /\ b[1] = y
    OBVIOUS
  <1> HIDE DEF a, b
  <1>2. /\ Len(a \o s) = 1 + Len(s) /\ (a \o s)[1] = x
        /\ \A i \in 1 .. Len(s) : (a \o s)[1 + i] = s[i]
    <2>1. /\ Len(a \o s) = Len(a) + Len(s)
          /\ \A i \in 1 .. Len(a) : (a \o s)[i] = a[i]
          /\ \A i \in 1 .. Len(s) : (a \o s)[Len(a) + i] = s[i]
      BY <1>0, ConcatPlaces
    <2>2. 1 \in 1 .. Len(a)
      BY <1>1
    <2>3. (a \o s)[1] = x
      BY <1>1, <2>1, <2>2
    <2>4. QED
      BY <1>1, <2>1, <2>3
  <1>2a. /\ Len(b \o t) = 1 + Len(t) /\ (b \o t)[1] = y
         /\ \A i \in 1 .. Len(t) : (b \o t)[1 + i] = t[i]
    <2>1. /\ Len(b \o t) = Len(b) + Len(t)
          /\ \A i \in 1 .. Len(b) : (b \o t)[i] = b[i]
          /\ \A i \in 1 .. Len(t) : (b \o t)[Len(b) + i] = t[i]
      BY <1>0, ConcatPlaces
    <2>2. 1 \in 1 .. Len(b)
      BY <1>1
    <2>3. (b \o t)[1] = y
      BY <1>1, <2>1, <2>2
    <2>4. QED
      BY <1>1, <2>1, <2>3
  <1>3. a \o s = b \o t
    BY DEF a, b
  <1>5. x = y
    BY <1>2, <1>3, <1>2a
  <1>6. Len(s) \in Nat /\ Len(t) \in Nat /\ DOMAIN s = 1 .. Len(s) /\ DOMAIN t = 1 .. Len(t)
    OBVIOUS
  <1>7. Len(s) = Len(t)
    <2>1. 1 + Len(s) = 1 + Len(t)
      BY <1>2, <1>3, <1>2a
    <2> DEFINE m == Len(s)  n == Len(t)
    <2>2. m \in Nat /\ n \in Nat /\ 1 + m = 1 + n
      BY <1>6, <2>1
    <2> HIDE DEF m, n
    <2>3. m = n
      BY <2>2
    <2>4. QED
      BY <2>3 DEF m, n
  <1>8. \A i \in 1 .. Len(s) : s[i] = t[i]
    BY <1>2, <1>3, <1>7, <1>2a
  <1>9. s = t
    <2>1. s = [i \in 1 .. Len(s) |-> s[i]] /\ t = [i \in 1 .. Len(t) |-> t[i]]
      OBVIOUS
    <2>2. QED
      BY <1>6, <1>7, <1>8, <2>1
  <1>10. QED
    BY <1>5, <1>9

\* The words of a path are a sequence.
LEMMA WordsAreSequences ==
    ASSUME IsDocument(document), NEW o \in Operations
    PROVE  \E T : Words(o) \in Seq(T)
PROOF
  <1> DEFINE path == document.items[o[1]].path
             ss   == [k \in DOMAIN path |-> path[k].words]
  <1>1. CASE path = <<>>
    <2>1. Words(o) = <<"root">>
      BY <1>1 DEF Words
    <2>2. \A x : <<x>> \in Seq({x})
      OBVIOUS
    <2>3. QED
      BY <2>1, <2>2
  <1>2. CASE path # <<>>
    <2>1. IsSeq(path) /\ \A k \in DOMAIN path : IsSeq(path[k].words)
      BY ServedShape DEF IsItem
    <2>2. DOMAIN path = 1 .. Len(path) /\ Len(path) \in Nat
      BY <2>1 DEF IsSeq
    <2> DEFINE T == UNION {ToSet(path[k].words) : k \in DOMAIN path}
    <2>3. \A k \in DOMAIN path : path[k].words \in Seq(T)
      <3> TAKE k \in DOMAIN path
      <3> DEFINE words == path[k].words
      <3>1. words \in Seq(ToSet(words)) /\ ToSet(words) \subseteq T
        BY <2>1 DEF IsSeq
      <3> HIDE DEF T, words
      <3>2. words \in Seq(T)
        BY <3>1
      <3>3. QED
        BY <3>2 DEF words
    <2> HIDE DEF T, path
    <2>4. ss \in Seq(Seq(T))
      BY <2>2, <2>3
    <2>5. Words(o) = FlattenSeq(ss)
      BY <1>2 DEF Words, path
    <2>6. QED
      BY <2>4, <2>5, FlattenElements
  <1>3. QED
    BY <1>1, <1>2

\* The id given, or method and words of the path.
LEMMA IdOfEndpoint ==
    ASSUME NEW o
    PROVE  EndpointOf(o).id = IF Described(o).id = <<>> THEN <<o[2]>> \o Words(o) ELSE Described(o).id
BY ServedFields DEF operationID, syntheticOperationID, Described, OperationAt, Words

\* Operations with one id are alike.
LEMMA SameIdIsAlike ==
    ASSUME IsDocument(document), NEW o \in Operations, NEW p \in Operations,
           EndpointOf(o).id = EndpointOf(p).id
    PROVE  Alike(o, p)
PROOF
  <1> DEFINE a == Described(o).id
             b == Described(p).id
  <1>1. /\ EndpointOf(o).id = IF a = <<>> THEN <<o[2]>> \o Words(o) ELSE a
        /\ EndpointOf(p).id = IF b = <<>> THEN <<p[2]>> \o Words(p) ELSE b
    BY IdOfEndpoint
  <1>2. CASE a # <<>> /\ b # <<>>
    BY <1>1, <1>2 DEF Alike
  <1>3. CASE a = <<>> /\ b = <<>>
    <2>1. <<o[2]>> \o Words(o) = <<p[2]>> \o Words(p)
      BY <1>1, <1>3
    <2>2. PICK S : Words(o) \in Seq(S)
      BY WordsAreSequences
    <2>3. PICK T : Words(p) \in Seq(T)
      BY WordsAreSequences
    <2> DEFINE U == S \cup T \cup {o[2], p[2]}
    <2>4. Words(o) \in Seq(U) /\ Words(p) \in Seq(U) /\ o[2] \in U /\ p[2] \in U
      BY <2>2, <2>3
    <2> DEFINE x == o[2]  y == p[2]  s == Words(o)  t == Words(p)
    <2>5. x = y /\ s = t
      <3> HIDE DEF U, x, y, s, t
      <3>1. s \in Seq(U) /\ t \in Seq(U) /\ x \in U /\ y \in U /\ <<x>> \o s = <<y>> \o t
        BY <2>1, <2>4 DEF x, y, s, t
      <3>2. QED
        BY <3>1, SameHeadAndRest
    <2>6. QED
      BY <1>3, <2>5 DEF Alike
  <1>4. CASE a = <<>> /\ b # <<>>
    BY <1>1, <1>4 DEF Alike
  <1>5. CASE a # <<>> /\ b = <<>>
    BY <1>1, <1>5 DEF Alike
  <1>6. QED
    BY <1>2, <1>3, <1>4, <1>5

\* What is served is made of one of the documents.
Loaded ==
    stage # "configuring" =>
        /\ document \in Documents /\ settings \in Settings
        /\ snapshot = buildState(settings.override, document)

\* What is served stays as Serve has made it.
LEMMA AlwaysLoaded == Spec => []Loaded
PROOF
  <1>1. Init => Loaded
    BY DEF Init, Loaded
  <1>2. Loaded /\ [Next]_vars => Loaded'
    <2> SUFFICES ASSUME Loaded, [Next]_vars PROVE Loaded'
      OBVIOUS
    <2> USE DEF Loaded
    <2>1. CASE Configure
      BY <2>1 DEF Configure
    <2>2. ASSUME NEW d \in Documents, NEW s \in Settings, Serve(d, s) PROVE Loaded'
      BY <2>2 DEF Serve
    <2>3. ASSUME NEW in \in Inputs, Give(in) PROVE Loaded'
      BY <2>3 DEF Give
    <2>4. CASE PrepareRequest \/ ValidateRequest
      BY <2>4 DEF PrepareRequest, ValidateRequest, Rehearse
    <2>5. CASE RequestConfirmation
      BY <2>5 DEF RequestConfirmation
    <2>6. ASSUME NEW where, Execute(where) PROVE Loaded'
      BY <2>6 DEF Execute
    <2>7. CASE UNCHANGED vars
      BY <2>7 DEF vars
    <2>8. QED
      BY <2>1, <2>2, <2>3, <2>4, <2>5, <2>6, <2>7 DEF Next
  <1>3. QED
    BY <1>1, <1>2, PTL DEF Spec

\* The documents are those that the assumption is about.
LEMMA LoadedIsSnapshot ==
    ASSUME Loaded, stage # "configuring"
    PROVE  Snapshot
BY DocumentsAssumption DEF Loaded, Snapshot

\* Whatever the documents, every operation is listed, and its id leads back to it
\* unless the document has another one that is like it.
THEOREM IdsAlwaysLeadBack == Spec => []IdsLeadBack
PROOF
  <1>1. ASSUME Loaded PROVE IdsLeadBack
    <2> SUFFICES ASSUME stage = "serving", NEW o \in Operations
                 PROVE  \E e \in ToSet(snapshot.endpoints) :
                            /\ e.path = document.items[o[1]].path /\ e.method = o[2]
                            /\ (\A p \in Operations \ {o} : ~ Alike(o, p)) => snapshot.byID[e.id] = e
      BY DEF IdsLeadBack
    <2>1. Snapshot /\ IsDocument(document)
      BY <1>1, LoadedIsSnapshot DEF Snapshot
    <2> DEFINE e == EndpointOf(o)
    <2>2. e \in ToSet(snapshot.endpoints) /\ e.id \in DOMAIN snapshot.byID
      BY <2>1, ServedOperations
    <2>3. e.path = document.items[o[1]].path /\ e.method = o[2]
      BY ServedFields
    <2>4. ASSUME \A p \in Operations \ {o} : ~ Alike(o, p)
          PROVE  snapshot.byID[e.id] = e
      <3>1. PICK p \in Operations : snapshot.byID[e.id] = EndpointOf(p)
        BY <2>1, <2>2, ServedOperations
      <3>2. EndpointOf(p).id = e.id
        BY <2>1, <2>2, <3>1, ServedOperations
      <3>3. Alike(o, p)
        BY <2>1, <3>2, SameIdIsAlike
      <3>4. p = o
        BY <2>4, <3>3
      <3>5. QED
        BY <3>1, <3>4
    <2> HIDE DEF e
    <2>5. QED
      BY <2>2, <2>3, <2>4
  <1>2. QED
    BY <1>1, AlwaysLoaded, PTL

-----------------------------------------------------------------------------
\* Confirmations

\* What prepare_request and execute make of the input without an id.
Shown ==
    LET in == parseExecuteInput(input)
    IN IF in = <<>> THEN Refused("invalid_request")
       ELSE IF in[1].op \notin DOMAIN snapshot.byID THEN Refused("invalid_request")
       ELSE prepareEndpointRequest(snapshot.byID[in[1].op], in[1], PrepareOptions)

Executed(in) ==
    LET parsed == parseExecuteInput(in)
    IN IF parsed = <<>> THEN Refused("invalid_request") ELSE prepareForExecute(parsed[1])

OwnBase == input.baseURL # <<>> \/ settings.upstream # <<>> \/ config.mode = "sandbox"

\* The confirmation, once there is one, is for what was shown or what execute made
\* of the same input.
Asking ==
    /\ stage \in {"given", "rehearsed", "executed", "asked"} => input \in Inputs
    /\ stage = "rehearsed" /\ by = "prepare_request" => prepared = Shown
    /\ stage = "executed" /\ asked = <<>> => by = "execute" /\ prepared = Executed(input)
    /\ asked # <<>> =>
          /\ stage \in {"asked", "executed"}
          /\ \/ by = "prepare_request" /\ Shown.error = "" /\ asked = <<Target(Shown)>>
             \/ by = "execute" /\ Executed(input).error = "" /\ asked = <<Target(Executed(input))>>

\* An id at the top of an input changes its confirmation, and nothing else that parsing
\* leaves.
LEMMA IdAtTop ==
    ASSUME NEW in \in Inputs
    PROVE  LET plain == parseExecuteInput(in)  with == parseExecuteInput(WithId(in, "top"))
           IN /\ plain = <<>> <=> with = <<>>
              /\ with # <<>> => /\ with[1].confirmation = IdText
                                /\ plain[1].baseURL = in.baseURL
                                /\ \A f \in {"op", "path", "query", "headers", "body", "baseURL"} :
                                      with[1][f] = plain[1][f]
PROOF
  <1> DEFINE with == WithId(in, "top")
  <1>1. in = [op |-> in.op, params |-> in.params, legacy |-> in.legacy, baseURL |-> in.baseURL,
              confirmation |-> in.confirmation]
    BY InputsAssumption
  <1>2. with = [in EXCEPT !.confirmation = IdText]
    BY DEF WithId
  <1>3. /\ with.op = in.op /\ with.params = in.params /\ with.legacy = in.legacy
        /\ with.baseURL = in.baseURL /\ with.confirmation = IdText
    <2> HIDE DEF with
    <2>1. QED
      BY <1>1, <1>2
  <1> HIDE DEF with
  <1>4. \A part, default : paramOrLegacy(with, part, default) = paramOrLegacy(in, part, default)
    BY <1>3 DEF paramOrLegacy
  <1>4a. queryGiven(with) = queryGiven(in)
    BY <1>3, <1>4 DEF queryGiven
  <1> DEFINE path    == paramOrLegacy(in, "path", <<>>)
             query   == queryGiven(in)
             headers == paramOrLegacy(in, "headers", <<>>)
             body    == paramOrLegacy(in, "body", "")
             refused == in.op = <<>> \/ ~ (Textual(path) /\ Textual(query) /\ Textual(headers))
             a == [op |-> in.op, path |-> path, query |-> query, headers |-> headers, body |-> body,
                   baseURL |-> in.baseURL,
                   confirmation |-> IF in.confirmation # <<>> THEN in.confirmation
                                    ELSE ValueOr(query, "confirmationId", <<>>)]
             b == [op |-> in.op, path |-> path, query |-> query, headers |-> headers, body |-> body,
                   baseURL |-> in.baseURL, confirmation |-> IdText]
  <1>5. IdText # <<>>
    BY DEF IdText
  <1>6. parseExecuteInput(in) = IF refused THEN <<>> ELSE <<a>>
    BY DEF parseExecuteInput
  <1>7. parseExecuteInput(with) = IF refused THEN <<>> ELSE <<b>>
    BY <1>3, <1>4, <1>4a, <1>5 DEF parseExecuteInput
  <1>8. /\ a.op = b.op /\ a.path = b.path /\ a.query = b.query /\ a.headers = b.headers
        /\ a.body = b.body /\ a.baseURL = b.baseURL /\ b.confirmation = IdText /\ a.baseURL = in.baseURL
    OBVIOUS
  <1> HIDE DEF a, b, refused
  <1>9. <<a>> # <<>> /\ <<b>> # <<>> /\ <<a>>[1] = a /\ <<b>>[1] = b
    OBVIOUS
  <1>10. CASE refused
    <2>1. parseExecuteInput(in) = <<>> /\ parseExecuteInput(with) = <<>>
      BY <1>6, <1>7, <1>10
    <2>2. QED
      BY <2>1 DEF with
  <1>11. CASE ~ refused
    <2>1. parseExecuteInput(in) = <<a>> /\ parseExecuteInput(with) = <<b>>
      BY <1>6, <1>7, <1>11
    <2>2. QED
      BY <1>8, <1>9, <2>1 DEF with
  <1>12. QED
    BY <1>10, <1>11

\* execute makes the same of an input with and without an id at its top.
LEMMA IdInTheWay ==
    ASSUME NEW in \in Inputs
    PROVE  Executed(WithId(in, "top")) = Executed(in)
PROOF
  <1> DEFINE plain == parseExecuteInput(in)
             with  == parseExecuteInput(WithId(in, "top"))
  <1>1. /\ plain = <<>> <=> with = <<>>
        /\ with # <<>> => \A f \in {"op", "path", "query", "headers", "body", "baseURL"} :
                               with[1][f] = plain[1][f]
    BY IdAtTop
  <1> HIDE DEF plain, with
  <1>2. CASE with = <<>>
    BY <1>1, <1>2 DEF Executed, plain, with
  <1>3. CASE with # <<>>
    <2> DEFINE a == plain[1]  b == with[1]
    <2>1. /\ b.op = a.op /\ b.path = a.path /\ b.query = a.query /\ b.headers = a.headers
          /\ b.body = a.body /\ b.baseURL = a.baseURL
      BY <1>1, <1>3
    <2> HIDE DEF a, b
    <2>2. prepareForExecute(b) = prepareForExecute(a)
      BY <2>1 DEF prepareForExecute, prepareEndpointRequest
    <2>3. QED
      BY <1>1, <1>3, <2>2 DEF Executed, plain, with, a, b
  <1>4. QED
    BY <1>2, <1>3

ChosenBase(e, in, opts) ==
    IF opts.base # <<>> THEN opts.base ELSE IF in.baseURL # <<>> THEN in.baseURL ELSE FirstServer(e)

PreparedURL(e, in, base) == buildTargetURL(base, expandPathTemplate(e.path, in.path), in.query)

Prepared(r, e, in, opts) == r = prepareEndpointRequest(e, in, opts) /\ r.error = ""

\* A request that is not refused.
LEMMA PreparedRecord ==
    ASSUME NEW e, NEW in, NEW opts, NEW r, Prepared(r, e, in, opts)
    PROVE  /\ r.op = e.id /\ r.method = e.method /\ r.path = in.path /\ r.query = in.query
           /\ r.url = PreparedURL(e, in, ChosenBase(e, in, opts))
           /\ MissingInPath(e.path, in.path) = {}
PROOF
  <1> DEFINE chosen == ChosenBase(e, in, opts)
             url  == buildTargetURL(chosen, expandPathTemplate(e.path, in.path), in.query)
             made == [error   |-> "",
                      op      |-> e.id,
                      method  |-> e.method,
                      url     |-> url,
                      path    |-> in.path,
                      query   |-> in.query,
                      headers |-> Overlay([h \in opts.defaults |-> <<"default">>], in.headers),
                      body    |-> in.body]
  <1>1. \A code \in {"invalid_request", "no_base_url"} : Refused(code).error # ""
    BY DEF Refused
  <1>2. prepareEndpointRequest(e, in, opts)
          = IF MissingInPath(e.path, in.path) # {} THEN Refused("invalid_request")
            ELSE IF chosen = <<>> /\ opts.needsBase THEN Refused("no_base_url")
            ELSE IF opts.limited /\ in.body = "large" THEN Refused("invalid_request")
            ELSE made
    BY DEF prepareEndpointRequest, ChosenBase
  <1> HIDE DEF url
  <1>3. /\ made.op = e.id /\ made.method = e.method /\ made.path = in.path /\ made.query = in.query
        /\ made.url = url
    OBVIOUS
  <1> HIDE DEF made, chosen
  <1>4. r = made /\ MissingInPath(e.path, in.path) = {}
    BY <1>1, <1>2 DEF Prepared
  <1>5. QED
    BY <1>3, <1>4 DEF url, chosen, PreparedURL

\* What is confirmed of a request that is not refused.
LEMMA PreparedTarget ==
    ASSUME NEW e, NEW in, NEW opts, NEW r, Prepared(r, e, in, opts)
    PROVE  Target(r) = [op |-> e.id, method |-> e.method, url |-> PreparedURL(e, in, ChosenBase(e, in, opts))]
BY PreparedRecord DEF Target

\* Without a base URL of its own, execute makes of the input what was shown.
LEMMA ExecutedAsShown ==
    ASSUME input \in Inputs, ~ OwnBase, Shown.error = "", Executed(input).error = ""
    PROVE  Target(Executed(input)) = Target(Shown)
PROOF
  <1> DEFINE parsed == parseExecuteInput(input)
             in == parsed[1]
             e  == snapshot.byID[in.op]
  <1>1. parsed # <<>> /\ in.op \in DOMAIN snapshot.byID
    <2>1. Refused("invalid_request").error # ""
      BY DEF Refused
    <2>2. QED
      BY <2>1 DEF Shown
  <1>2. in.baseURL = <<>>
    <2>1. parseExecuteInput(WithId(input, "top")) # <<>>
      BY <1>1, IdAtTop
    <2>2. in.baseURL = input.baseURL
      BY <2>1, IdAtTop
    <2>3. QED
      BY <2>2 DEF OwnBase
  <1>3. resolveBaseURL(e) = FirstServer(e)
    BY DEF OwnBase, resolveBaseURL
  <1> HIDE DEF parsed
  <1>4. Shown = prepareEndpointRequest(e, in, PrepareOptions)
    BY <1>1 DEF Shown, parsed
  <1>5. Executed(input) = prepareForExecute(in)
    BY <1>1 DEF Executed, parsed
  <1> DEFINE base == FirstServer(e)
             r    == prepareEndpointRequest(e, in, ExecuteOptions(base))
             s    == prepareEndpointRequest(e, in, PrepareOptions)
  <1>6. Executed(input) = r
    <2>1. \A code \in {"invalid_request", "no_base_url", "policy_denied"} : Refused(code).error # ""
      BY DEF Refused
    <2>2. prepareForExecute(in) = IF in.op \notin DOMAIN snapshot.byID THEN Refused("invalid_request")
                                  ELSE IF base = <<>> THEN Refused("no_base_url")
                                  ELSE IF base[1].host \notin Hosts THEN Refused("policy_denied")
                                  ELSE r
      BY <1>3 DEF prepareForExecute
    <2> HIDE DEF r, base, in
    <2>3. QED
      BY <1>5, <2>1, <2>2
  <1> HIDE DEF in, e, base
  <1> DEFINE opts == ExecuteOptions(base)
  <1>7. ChosenBase(e, in, opts) = base /\ ChosenBase(e, in, PrepareOptions) = base
    BY <1>2 DEF ChosenBase, PrepareOptions, ExecuteOptions, base
  <1>8. Prepared(r, e, in, opts) /\ Prepared(s, e, in, PrepareOptions)
    BY <1>4, <1>6 DEF Prepared
  <1> HIDE DEF r, s, opts
  <1>9. Target(r) = Target(s)
    BY <1>7, <1>8, PreparedTarget
  <1>10. QED
    BY <1>4, <1>6, <1>9 DEF s

-----------------------------------------------------------------------------

\* The errors of a preparation; none of them says "sent".
LEMMA PreparedErrors ==
    ASSUME NEW in
    PROVE  Executed(in).error \in {"", "invalid_request", "no_base_url", "policy_denied"}
BY DEF Executed, prepareForExecute, prepareEndpointRequest, Refused

\* What is sent was allowed or confirmed, and a confirmation asked for was missing.
LEMMA VerdictOf ==
    ASSUME NEW r, NEW confirmation
    PROVE  /\ Verdict(r, confirmation) \in Decision \cup {"", "invalid_request"}
           /\ Verdict(r, confirmation) # "sent"
           /\ Verdict(r, confirmation) = "" =>
                Evaluate(config, r.op, r.method) = "allow" \/ asked = <<Target(r)>>
           /\ Verdict(r, confirmation) = "confirmation_required" =>
                ~ (confirmation = IdText /\ asked = <<Target(r)>>)
PROOF
  <1>1. Evaluate(config, r.op, r.method) \in Decision
    BY DEF Evaluate, ModeDecision, ConfirmationDecision, Decision
  <1>2. QED
    BY <1>1 DEF Verdict, Decision

\* An executed request keeps what was confirmed.
LEMMA ExecuteKeepsConfirmed ==
    ASSUME Asking, NEW where \in {"none", "top", "query"}, Execute(where)
    PROVE  ConfirmedAsPrepared'
PROOF
  <1> DEFINE in == parseExecuteInput(WithId(input, where))
             r  == Executed(WithId(input, where))
             verdict == Verdict(r, in[1].confirmation)
             error == IF r.error # "" THEN r.error ELSE verdict
  <1>1. /\ prepared' = r /\ outcome' = IF error = "" THEN "sent" ELSE error
        /\ asked' = asked /\ input' = input /\ settings' = settings /\ config' = config
        /\ idAt' = where /\ (asked # <<>> => by' = by) /\ (where = "none" <=> asked = <<>>)
        /\ stage \in {"given", "rehearsed", "asked"}
    BY DEF Execute, Executed
  <1>2. r.error \in {"", "invalid_request", "no_base_url", "policy_denied"}
    BY PreparedErrors
  <1>3. /\ verdict # "sent"
        /\ verdict = "" => Evaluate(config, r.op, r.method) = "allow" \/ asked = <<Target(r)>>
        /\ verdict = "confirmation_required" => ~ (in[1].confirmation = IdText /\ asked = <<Target(r)>>)
    BY VerdictOf
  <1> HIDE DEF verdict, r, in
  <1> SUFFICES ASSUME asked # <<>>
               PROVE  /\ outcome' = "sent" => r.url = asked[1].url \/ Evaluate(config, r.op, r.method) = "allow"
                      /\ outcome' = "confirmation_required" =>
                            idAt' = "query" \/ (by' = "prepare_request" /\ OwnBase)
    BY <1>1 DEF ConfirmedAsPrepared, OwnBase
  <1>4. ASSUME outcome' = "sent" PROVE r.url = asked[1].url \/ Evaluate(config, r.op, r.method) = "allow"
    <2>1. r.error = "" /\ verdict = ""
      BY <1>1, <1>2, <1>3, <1>4
    <2>2. CASE asked = <<Target(r)>>
      BY <2>2 DEF Target
    <2>3. QED
      BY <1>3, <2>1, <2>2
  <1>5. ASSUME outcome' = "confirmation_required", idAt' # "query"
        PROVE  by' = "prepare_request" /\ OwnBase
    <2>1. where = "top"
      BY <1>1, <1>5
    <2>2. r.error = "" /\ verdict = "confirmation_required"
      BY <1>1, <1>2, <1>5
    <2>3. input \in Inputs
      BY <1>1 DEF Asking
    <2>4. in # <<>>
      BY <2>2 DEF r, in, Executed, Refused
    <2>5. in[1].confirmation = IdText
      BY <2>1, <2>3, <2>4, IdAtTop DEF in
    <2>6. r = Executed(input)
      BY <2>1, <2>3, IdInTheWay DEF r
    <2>7. asked # <<Target(Executed(input))>>
      BY <1>3, <2>2, <2>5, <2>6
    <2>8. by = "prepare_request" /\ Shown.error = "" /\ asked = <<Target(Shown)>>
      BY <2>7 DEF Asking
    <2>9. OwnBase
      BY <2>2, <2>3, <2>6, <2>7, <2>8, ExecutedAsShown
    <2>10. QED
      BY <1>1, <2>8, <2>9
  <1>6. QED
    BY <1>4, <1>5

\* The inductive invariant: the confirmation stays that of what was prepared.
LEMMA AskingIsKept == Spec => [](Asking /\ ConfirmedAsPrepared)
PROOF
  <1>1. Init => Asking /\ ConfirmedAsPrepared
    BY DEF Init, Asking, ConfirmedAsPrepared
  <1>2. Asking /\ ConfirmedAsPrepared /\ [Next]_vars => (Asking /\ ConfirmedAsPrepared)'
    <2> SUFFICES ASSUME Asking, ConfirmedAsPrepared, [Next]_vars
                 PROVE  Asking' /\ ConfirmedAsPrepared'
      OBVIOUS
    <2>1. CASE Configure
      BY <2>1 DEF Configure, Asking, ConfirmedAsPrepared
    <2>2. ASSUME NEW d \in Documents, NEW s \in Settings, Serve(d, s) PROVE Asking' /\ ConfirmedAsPrepared'
      BY <2>2 DEF Serve, Asking, ConfirmedAsPrepared
    <2>3. ASSUME NEW in \in Inputs, Give(in) PROVE Asking' /\ ConfirmedAsPrepared'
      BY <2>3 DEF Give, Asking, ConfirmedAsPrepared
    <2>4. CASE PrepareRequest
      <3>1. stage = "given" /\ prepared' = Shown /\ Shown' = Shown /\ stage' = "rehearsed"
            /\ asked' = asked /\ input' = input
        BY <2>4 DEF PrepareRequest, Rehearse, Shown
      <3>2. QED
        BY <3>1 DEF Asking, ConfirmedAsPrepared
    <2>5. CASE ValidateRequest
      <3>1. stage = "given" /\ by' = "validate_request" /\ stage' = "rehearsed"
            /\ asked' = asked /\ input' = input
        BY <2>5 DEF ValidateRequest, Rehearse
      <3>2. QED
        BY <3>1 DEF Asking, ConfirmedAsPrepared
    <2>6. CASE RequestConfirmation
      <3>1. /\ asked = <<>> /\ prepared.error = "" /\ asked' = <<Target(prepared)>> /\ stage' = "asked"
            /\ (stage = "rehearsed" /\ by = "prepare_request") \/ stage = "executed"
            /\ by' = by /\ input' = input /\ Shown' = Shown /\ Executed(input)' = Executed(input)
        BY <2>6 DEF RequestConfirmation, Shown, Executed, prepareForExecute, resolveBaseURL
      <3>2. \/ by = "prepare_request" /\ prepared = Shown
            \/ by = "execute" /\ prepared = Executed(input)
        BY <3>1 DEF Asking
      <3>3. input \in Inputs
        BY <3>1 DEF Asking
      <3>4. Target(prepared)' = Target(prepared)
        BY <2>6 DEF RequestConfirmation, Target
      <3>5. Asking'
        BY <3>1, <3>2, <3>3 DEF Asking
      <3>6. QED
        BY <3>1, <3>5 DEF ConfirmedAsPrepared
    <2>7. ASSUME NEW where \in {"none", "top", "query"}, Execute(where)
          PROVE  Asking' /\ ConfirmedAsPrepared'
      <3>1. /\ prepared' = Executed(WithId(input, where)) /\ stage' = "executed"
            /\ asked' = asked /\ input' = input /\ by' = IF asked = <<>> THEN "execute" ELSE by
            /\ where = "none" <=> asked = <<>>
            /\ stage \in {"given", "rehearsed", "asked"}
        BY <2>7 DEF Execute, Executed
      <3>2. Shown' = Shown /\ Executed(input)' = Executed(input)
        BY <2>7 DEF Execute, Shown, Executed, prepareForExecute, resolveBaseURL
      <3>3. WithId(input, "none") = input
        BY DEF WithId
      <3>4. Asking'
        BY <3>1, <3>2, <3>3 DEF Asking
      <3>5. QED
        BY <2>7, <3>4, ExecuteKeepsConfirmed
    <2>8. CASE UNCHANGED vars
      <3>1. Shown' = Shown /\ Executed(input)' = Executed(input)
        BY <2>8 DEF vars, Shown, Executed, prepareForExecute, resolveBaseURL
      <3>2. Asking'
        BY <2>8, <3>1 DEF vars, Asking
      <3>3. ConfirmedAsPrepared'
        BY <2>8 DEF vars, ConfirmedAsPrepared
      <3>4. QED
        BY <3>2, <3>3
    <2>9. QED
      BY <2>1, <2>2, <2>3, <2>4, <2>5, <2>6, <2>7, <2>8 DEF Next
  <1>3. QED
    BY <1>1, <1>2, PTL DEF Spec

\* A confirmation lets through just the URL that was shown, and execute of the same
\* input is refused one only with a base URL of its own or with the id in the query.
THEOREM ConfirmedIsAsPrepared == Spec => []ConfirmedAsPrepared
BY AskingIsKept, PTL

-----------------------------------------------------------------------------
\* Parameters

\* A key that is in a list has a last definition there.
LEMMA LastDefinition ==
    ASSUME NEW T, NEW list \in Seq(T), NEW j \in DOMAIN list
    PROVE  \E q \in LastOfEach(list) : Key(q) = Key(list[j])
PROOF
  <1> DEFINE n == Len(list)
             I == {k \in 1 .. n : Key(list[k]) = Key(list[j])}
  <1>1. n \in Nat /\ DOMAIN list = 1 .. n
    OBVIOUS
  <1>2. I \in SUBSET (1 .. n) /\ I # {}
    BY <1>1
  <1>3. Max(I) \in I /\ \A m \in I : m <= Max(I)
    <2> HIDE DEF I
    <2>1. QED
      BY <1>1, <1>2, LargestNumber
  <1>4. PICK k \in I : \A m \in I : m <= k
    <2> HIDE DEF I
    <2>1. QED
      BY <1>3
  <1>5. \A m \in DOMAIN list : Key(list[m]) = Key(list[k]) => m <= k
    BY <1>1, <1>4
  <1>6. list[k] \in LastOfEach(list)
    BY <1>1, <1>5 DEF LastOfEach
  <1>7. QED
    BY <1>6

\* Whatever the two lists, mergeParameters leaves the last definitions of the operation,
\* and those of the path that the operation has none for.
THEOREM MergedParameters ==
    ASSUME NEW item, NEW op, IsSeq(item.params), IsSeq(op.params)
    PROVE  LET own  == LastOfEach(op.params)
               path == {p \in LastOfEach(item.params) : \A q \in own : Key(q) # Key(p)}
           IN mergeParameters(item, op) = own \cup path
PROOF
  <1> DEFINE s == item.params
             t == op.params
             all == s \o t
             m == Len(s)
             n == Len(t)
             T == ToSet(s) \cup ToSet(t)
             Counts(i) == \A j \in (i + 1) .. Len(all) : Key(all[j]) # Key(all[i])
             own  == LastOfEach(t)
             path == {p \in LastOfEach(s) : \A q \in own : Key(q) # Key(p)}
  <1>1. s \in Seq(T) /\ t \in Seq(T)
    <2>1. s \in Seq(ToSet(s)) /\ t \in Seq(ToSet(t))
      BY DEF IsSeq
    <2>2. QED
      BY <2>1
  <1> HIDE DEF s, t, T
  <1>2. /\ m \in Nat /\ n \in Nat /\ DOMAIN s = 1 .. m /\ DOMAIN t = 1 .. n
    BY <1>1
  <1>3. /\ all \in Seq(T) /\ Len(all) = m + n
        /\ \A i \in 1 .. m : all[i] = s[i]
        /\ \A i \in 1 .. n : all[m + i] = t[i]
    BY <1>1, ConcatPlaces
  <1>4. mergeParameters(item, op) = {all[i] : i \in {k \in DOMAIN all : Counts(k)}}
    BY DEF mergeParameters, Key, s, t
  <1> HIDE DEF all, m, n
  <1>5. DOMAIN all = 1 .. (m + n)
    BY <1>2, <1>3
  <1>6. ASSUME NEW k \in 1 .. n
        PROVE  Counts(m + k) <=> \A j \in DOMAIN t : Key(t[j]) = Key(t[k]) => j <= k
    <2>1. ASSUME Counts(m + k), NEW j \in 1 .. n, Key(t[j]) = Key(t[k]) PROVE j <= k
      <3>1. CASE j > k
        <4>1. m + j \in (m + k + 1) .. Len(all)
          BY <1>2, <1>3, <3>1
        <4>2. Key(all[m + j]) # Key(all[m + k])
          BY <2>1, <4>1
        <4>3. QED
          BY <1>3, <2>1, <4>2
      <3>2. QED
        BY <1>2, <3>1
    <2>2. ASSUME \A j \in 1 .. n : Key(t[j]) = Key(t[k]) => j <= k, NEW i \in (m + k + 1) .. Len(all)
          PROVE  Key(all[i]) # Key(all[m + k])
      <3>1. i - m \in 1 .. n /\ ~ (i - m <= k) /\ i = m + (i - m)
        BY <1>2, <1>3
      <3>2. all[i] = t[i - m]
        BY <1>3, <3>1
      <3>3. QED
        BY <1>3, <2>2, <3>1, <3>2
    <2>3. QED
      BY <1>2, <2>1, <2>2
  <1>7. ASSUME NEW k \in 1 .. m
        PROVE  Counts(k) <=> /\ \A j \in DOMAIN s : Key(s[j]) = Key(s[k]) => j <= k
                             /\ \A j \in 1 .. n : Key(t[j]) # Key(s[k])
    <2>1. ASSUME Counts(k), NEW j \in 1 .. m, Key(s[j]) = Key(s[k]) PROVE j <= k
      <3>1. CASE j > k
        <4>1. j \in (k + 1) .. Len(all)
          BY <1>2, <1>3, <3>1
        <4>2. Key(all[j]) # Key(all[k])
          BY <2>1, <4>1
        <4>3. QED
          BY <1>3, <2>1, <4>2
      <3>2. QED
        BY <1>2, <3>1
    <2>2. ASSUME Counts(k), NEW j \in 1 .. n PROVE Key(t[j]) # Key(s[k])
      <3>1. m + j \in (k + 1) .. Len(all)
        BY <1>2, <1>3
      <3>2. Key(all[m + j]) # Key(all[k])
        BY <2>2, <3>1
      <3>3. QED
        BY <1>3, <3>2
    <2>3. ASSUME \A j \in 1 .. m : Key(s[j]) = Key(s[k]) => j <= k,
                 \A j \in 1 .. n : Key(t[j]) # Key(s[k]),
                 NEW i \in (k + 1) .. Len(all)
          PROVE  Key(all[i]) # Key(all[k])
      <3>1. CASE i <= m
        <4>1. i \in 1 .. m /\ ~ (i <= k)
          BY <1>2, <1>3, <3>1
        <4>2. QED
          BY <1>3, <2>3, <4>1
      <3>2. CASE i > m
        <4>1. i - m \in 1 .. n /\ i = m + (i - m)
          BY <1>2, <1>3, <3>2
        <4>2. all[i] = t[i - m]
          BY <1>3, <4>1
        <4>3. QED
          BY <1>3, <2>3, <4>1, <4>2
      <3>3. QED
        BY <1>2, <1>3, <3>1, <3>2
    <2>4. QED
      BY <1>2, <2>1, <2>2, <2>3
  <1>8. ASSUME NEW k \in 1 .. m
        PROVE  (\A j \in 1 .. n : Key(t[j]) # Key(s[k])) <=> (\A q \in own : Key(q) # Key(s[k]))
    <2>1. ASSUME NEW j \in 1 .. n PROVE \E q \in own : Key(q) = Key(t[j])
      BY <1>1, <1>2, LastDefinition
    <2>2. ASSUME NEW q \in own PROVE \E j \in 1 .. n : q = t[j]
      BY <1>2 DEF LastOfEach
    <2> HIDE DEF own
    <2>3. QED
      BY <2>1, <2>2
  <1> HIDE DEF Counts
  <1>9. ASSUME NEW x \in own PROVE \E i \in 1 .. (m + n) : Counts(i) /\ x = all[i]
    <2>1. PICK k \in 1 .. n : x = t[k] /\ \A j \in DOMAIN t : Key(t[j]) = Key(t[k]) => j <= k
      BY <1>2 DEF LastOfEach
    <2>2. Counts(m + k) /\ x = all[m + k] /\ m + k \in 1 .. (m + n)
      BY <1>2, <1>3, <1>6, <2>1
    <2>3. QED
      BY <2>2
  <1>10. ASSUME NEW x \in path PROVE \E i \in 1 .. (m + n) : Counts(i) /\ x = all[i]
    <2>1. PICK k \in 1 .. m : x = s[k] /\ \A j \in DOMAIN s : Key(s[j]) = Key(s[k]) => j <= k
      BY <1>2 DEF LastOfEach
    <2>2. \A q \in own : Key(q) # Key(x)
      OBVIOUS
    <2> HIDE DEF own
    <2>3. Counts(k) /\ x = all[k] /\ k \in 1 .. (m + n)
      BY <1>2, <1>3, <1>7, <1>8, <2>1, <2>2
    <2>4. QED
      BY <2>3
  <1>11. ASSUME NEW i \in 1 .. (m + n), Counts(i) PROVE all[i] \in own \cup path
    <2>1. CASE i <= m
      <3>1. i \in 1 .. m
        BY <1>2, <2>1
      <3>2. /\ \A j \in DOMAIN s : Key(s[j]) = Key(s[i]) => j <= i
            /\ \A j \in 1 .. n : Key(t[j]) # Key(s[i])
        BY <1>7, <1>11, <3>1
      <3>3. s[i] \in LastOfEach(s)
        BY <1>2, <3>1, <3>2 DEF LastOfEach
      <3>4. \A q \in own : Key(q) # Key(s[i])
        BY <1>8, <3>1, <3>2
      <3>5. all[i] = s[i]
        BY <1>3, <3>1
      <3>6. QED
        BY <3>3, <3>4, <3>5
    <2>2. CASE i > m
      <3>1. i - m \in 1 .. n /\ i = m + (i - m)
        BY <1>2, <2>2
      <3> DEFINE k == i - m
      <3>2. k \in 1 .. n /\ i = m + k
        BY <3>1
      <3> HIDE DEF k
      <3>3. \A j \in DOMAIN t : Key(t[j]) = Key(t[k]) => j <= k
        BY <1>6, <1>11, <3>2
      <3>4. t[k] \in own /\ all[i] = t[k]
        BY <1>2, <1>3, <3>2, <3>3 DEF LastOfEach
      <3>5. QED
        BY <3>4
    <2>3. QED
      BY <1>2, <2>1, <2>2
  <1>12. {all[i] : i \in {k \in DOMAIN all : Counts(k)}} = own \cup path
    <2> HIDE DEF own, path
    <2>1. QED
      BY <1>5, <1>9, <1>10, <1>11
  <1>13. QED
    BY <1>4, <1>12 DEF s, t

\* What a call of an endpoint requires is what the snapshot has for it.
LEMMA RequiredParameters ==
    ASSUME IsDocument(document), NEW o \in Operations
    PROVE  Required(EndpointOf(o)) = {p \in EndpointOf(o).params : p.required}
PROOF
  <1> DEFINE e == EndpointOf(o)
             That(p) == document.items[p[1]].path = e.path /\ p[2] = e.method
             item == document.items[o[1]]
             op   == item.operations[o[2]]
             own  == LastOfEach(op.params)
             path == {p \in LastOfEach(item.params) : \A q \in own : Key(q) # Key(p)}
  <1>1. That(o)
    BY ServedFields
  <1>2. ASSUME NEW p \in Operations, That(p) PROVE p = o
    <2>1. /\ o = <<o[1], o[2]>> /\ o[1] \in DOMAIN document.items
          /\ p = <<p[1], p[2]>> /\ p[1] \in DOMAIN document.items
      BY ServedShape
    <2>2. document.items[p[1]].path = document.items[o[1]].path /\ p[2] = o[2]
      BY <1>1, <1>2
    <2>3. p[1] = o[1]
      BY <2>1, <2>2 DEF IsDocument
    <2>4. QED
      BY <2>1, <2>2, <2>3
  <1>3. (CHOOSE p \in Operations : That(p)) = o
    <2> HIDE DEF That
    <2>1. QED
      BY <1>1, <1>2
  <1>4. IsSeq(item.params) /\ IsSeq(op.params)
    <2>1. IsItem(item) /\ o[2] \in DOMAIN item.operations
      BY ServedShape
    <2>2. QED
      BY <2>1 DEF IsItem
  <1>5. e.params = mergeParameters(item, op)
    BY ServedFields
  <1>6. mergeParameters(item, op) = own \cup path
    BY <1>4, MergedParameters
  <1>7. Required(e) = {p \in own \cup path : p.required}
    BY <1>3 DEF Required, Described, OperationAt
  <1>8. QED
    BY <1>5, <1>6, <1>7

-----------------------------------------------------------------------------
\* Base URLs

IsBase(b) == b = [host |-> b.host, path |-> b.path, query |-> b.query] /\ IsSeq(b.path)

\* The first of a list of base URLs is one.
LEMMA FirstOfBases ==
    ASSUME NEW bases, AreBases(bases), bases # <<>>
    PROVE  IsBase(bases[1])
PROOF
  <1>1. bases \in Seq(ToSet(bases))
    BY DEF AreBases, IsSeq
  <1>2. 1 \in DOMAIN bases
    BY <1>1
  <1>3. QED
    BY <1>2 DEF AreBases, IsBase

\* dedupe leaves base URLs.
LEMMA DistinctBases ==
    ASSUME NEW s, AreBases(s)
    PROVE  AreBases(dedupe(s))
PROOF
  <1> DEFINE T == ToSet(s)
             t == dedupe(s)
  <1>1. s \in Seq(T)
    BY DEF AreBases, IsSeq
  <1>2. t \in Seq(T) /\ ToSet(t) \subseteq T
    <2> DEFINE I == {i \in DOMAIN s : \A j \in 1..(i - 1) : s[j] # s[i]}
    <2>1. t = ElementsAt(s, I)
      BY DEF dedupe
    <2> HIDE DEF t, I
    <2>2. t \in Seq(T) /\ ToSet(t) = {s[i] : i \in I \cap DOMAIN s}
      <3> HIDE DEF T
      <3>1. QED
        BY <1>1, <2>1, ChosenElements
    <2>3. \A i \in I \cap DOMAIN s : s[i] \in T
      BY DEF ToSet
    <2>4. QED
      BY <2>2, <2>3
  <1>3. ASSUME NEW i \in DOMAIN t PROVE IsBase(t[i])
    <2>1. t[i] \in ToSet(t)
      BY DEF ToSet
    <2>2. PICK j \in DOMAIN s : t[i] = s[j]
      BY <1>2, <2>1 DEF ToSet
    <2>3. QED
      BY <2>2 DEF AreBases, IsBase
  <1> HIDE DEF t, T
  <1>4. t \in Seq(ToSet(t))
    <2>1. DOMAIN t = 1 .. Len(t) /\ Len(t) \in Nat
      BY <1>2
    <2>2. \A i \in 1 .. Len(t) : t[i] \in ToSet(t)
      BY <2>1 DEF ToSet
    <2>3. t = [i \in 1 .. Len(t) |-> t[i]]
      BY <1>2
    <2>4. QED
      BY <2>1, <2>2, <2>3
  <1>5. AreBases(t)
    BY <1>3, <1>4 DEF AreBases, IsSeq, IsBase
  <1>6. QED
    BY <1>5 DEF t

\* The servers of every endpoint are base URLs, wherever they come from.
LEMMA ServersAreBases ==
    ASSUME IsDocument(document), settings \in Settings, NEW o \in Operations
    PROVE  AreBases(EndpointOf(o).servers)
PROOF
  <1> DEFINE item == document.items[o[1]]
             op   == item.operations[o[2]]
             s == IF op.servers # <<>> THEN op.servers[1]
                  ELSE IF item.servers # <<>> THEN item.servers
                  ELSE document.servers
  <1>1. IsItem(item) /\ o[2] \in DOMAIN item.operations
    BY ServedShape
  <1>2. AreBases(s)
    BY <1>1 DEF IsItem, IsDocument
  <1>3. AreBases(dedupe(s))
    <2> HIDE DEF s
    <2>1. QED
      BY <1>2, DistinctBases
  <1>4. AreBases(settings.override)
    BY SettingsAssumption
  <1>5. EndpointOf(o).servers = IF settings.override # <<>> THEN settings.override ELSE dedupe(s)
    BY ServedFields DEF resolveServers
  <1>6. QED
    BY <1>3, <1>4, <1>5

-----------------------------------------------------------------------------
\* URLs

\* The segment of a URL that stands for the k-th of path, counted from the end.
Counted(url, path, k) == url.path[Len(url.path) - Len(path) + k]

EachOne(path) == \A i \in DOMAIN path : Len(path[i]) = 1

\* Joined with a base, a path of single parts is at the end of the URL's path.
LEMMA JoinedPath ==
    ASSUME NEW T, NEW base, IsBase(base), NEW path \in Seq(Seq(T)), EachOne(path),
           NEW query, NEW k \in DOMAIN path
    PROVE  Counted(buildTargetURL(<<base>>, path, query), path, k) = path[k]
PROOF
  <1> DEFINE flat == FlattenSeq(path)
             segs == Segments(flat)
             url  == buildTargetURL(<<base>>, path, query)
             U    == ToSet(base.path) \cup Seq(T)
  <1>1. /\ flat \in Seq(T) /\ Len(flat) = Len(path)
        /\ \A i \in DOMAIN path : flat[i] = path[i][1]
    BY FlattenSingletons DEF EachOne
  <1>2. DOMAIN path = 1 .. Len(path) /\ Len(path) \in Nat
    OBVIOUS
  <1> HIDE DEF flat
  <1>3. segs = [i \in 1 .. Len(path) |-> <<flat[i]>>]
    <2>1. DOMAIN flat = 1 .. Len(path)
      BY <1>1
    <2>2. QED
      BY <2>1 DEF Segments
  <1>4. \A i \in 1 .. Len(path) : <<flat[i]>> \in Seq(T) /\ flat[i] \in T
    BY <1>1, <1>2
  <1> HIDE DEF segs
  <1>5. segs \in Seq(U) /\ Len(segs) = Len(path)
    <2>1. \A i \in 1 .. Len(path) : <<flat[i]>> \in U
      BY <1>4
    <2> HIDE DEF U
    <2>2. QED
      BY <1>2, <1>3, <2>1
  <1>6. base.path \in Seq(U)
    <2>1. base.path \in Seq(ToSet(base.path))
      BY DEF IsBase, IsSeq
    <2>2. QED
      BY <2>1
  <1> HIDE DEF U
  <1>7. url.path = base.path \o segs
    <2>1. <<base>>[1] = base /\ <<base>> # <<>>
      OBVIOUS
    <2>2. base = [host |-> base.host, path |-> base.path, query |-> base.query]
      BY DEF IsBase
    <2>3. url = [base EXCEPT !.path = @ \o segs, !.query = Overlay(@, query)]
      BY <2>1 DEF buildTargetURL, segs, flat
    <2> HIDE DEF url
    <2>4. QED
      BY <2>2, <2>3
  <1>8. /\ Len(base.path \o segs) = Len(base.path) + Len(segs)
        /\ \A i \in 1 .. Len(segs) : (base.path \o segs)[Len(base.path) + i] = segs[i]
    <2>1. segs \in Seq(U)
      BY <1>5
    <2>2. QED
      BY <1>6, <2>1, ConcatPlaces
  <1>9. Len(url.path) - Len(path) + k = Len(base.path) + k
    <2> DEFINE m == Len(base.path)  n == Len(path)  l == Len(url.path)
    <2>0. n \in Nat /\ k \in Nat /\ m \in Nat
      BY <1>2, <1>6
    <2>1. l = m + n
      BY <1>5, <1>7, <1>8
    <2> HIDE DEF m, n, l
    <2>2. l - n + k = m + k
      BY <2>0, <2>1
    <2>3. QED
      BY <2>2 DEF m, n, l
  <1>10. url.path[Len(base.path) + k] = segs[k]
    BY <1>2, <1>5, <1>7, <1>8
  <1>11. segs[k] = path[k]
    <2>1. segs[k] = <<path[k][1]>>
      BY <1>1, <1>2, <1>3
    <2>2. path[k] \in Seq(T) /\ Len(path[k]) = 1
      BY DEF EachOne
    <2>3. path[k] = <<path[k][1]>>
      BY <2>2
    <2>4. QED
      BY <2>1, <2>3
  <1> HIDE DEF url
  <1>12. QED
    BY <1>9, <1>10, <1>11 DEF url, Counted

\* In an expanded path every parameter has its value, at its place.
LEMMA ExpandedPath ==
    ASSUME NEW path, IsSeq(path), NEW given,
           \A name \in DOMAIN given : IsSeq(given[name]) /\ Len(given[name]) = 1,
           MissingInPath(path, given) = {}
    PROVE  LET expanded == expandPathTemplate(path, given)
           IN /\ \E T : expanded \in Seq(Seq(T))
              /\ DOMAIN expanded = DOMAIN path /\ Len(expanded) = Len(path)
              /\ \A i \in DOMAIN path : Len(expanded[i]) = 1
              /\ \A i \in DOMAIN path : path[i].param => /\ expanded[i] = given[path[i].text]
                                                         /\ path[i].text \in DOMAIN given
PROOF
  <1> DEFINE expanded == expandPathTemplate(path, given)
             T == {path[i].text : i \in DOMAIN path} \cup UNION {ToSet(given[name]) : name \in DOMAIN given}
  <1>1. DOMAIN path = 1 .. Len(path) /\ Len(path) \in Nat
    BY DEF IsSeq
  <1>2. expanded = [i \in DOMAIN path |-> IF path[i].param THEN given[path[i].text] ELSE <<path[i].text>>]
    BY DEF expandPathTemplate
  <1>3. ASSUME NEW i \in DOMAIN path, path[i].param PROVE path[i].text \in DOMAIN given
    <2>1. path[i].text \notin MissingInPath(path, given)
      OBVIOUS
    <2>2. ValueOr(given, path[i].text, <<>>) # <<>>
      BY <1>3, <2>1 DEF MissingInPath
    <2>3. QED
      BY <2>2 DEF ValueOr
  <1> HIDE DEF expanded
  <1>4. ASSUME NEW name \in DOMAIN given PROVE given[name] \in Seq(T)
    <2> DEFINE g == given[name]
    <2>1. g \in Seq(ToSet(g)) /\ ToSet(g) \subseteq T
      BY DEF IsSeq
    <2> HIDE DEF g, T
    <2>2. g \in Seq(T)
      BY <2>1
    <2>3. QED
      BY <2>2 DEF g
  <1>5. ASSUME NEW i \in DOMAIN path PROVE expanded[i] \in Seq(T) /\ Len(expanded[i]) = 1
    <2>1. CASE path[i].param
      BY <1>2, <1>3, <1>4, <2>1
    <2>2. CASE ~ path[i].param
      <3>1. expanded[i] = <<path[i].text>> /\ path[i].text \in T
        BY <1>2, <2>2
      <3> HIDE DEF T
      <3>2. QED
        BY <3>1
    <2>3. QED
      BY <2>1, <2>2
  <1> HIDE DEF T
  <1>6. DOMAIN expanded = DOMAIN path
    BY <1>2
  <1>7. expanded \in Seq(Seq(T)) /\ Len(expanded) = Len(path)
    <2>1. expanded = [i \in 1 .. Len(path) |-> expanded[i]]
      BY <1>1, <1>2
    <2>2. \A i \in 1 .. Len(path) : expanded[i] \in Seq(T)
      BY <1>1, <1>5
    <2>3. expanded \in Seq(Seq(T))
      BY <1>1, <2>1, <2>2
    <2>4. Len(expanded) = Len(path)
      BY <1>1, <1>6, <2>3
    <2>5. QED
      BY <2>3, <2>4
  <1>8. \A i \in DOMAIN path : path[i].param => /\ expanded[i] = given[path[i].text]
                                                /\ path[i].text \in DOMAIN given
    BY <1>2, <1>3
  <1>9. QED
    BY <1>5, <1>6, <1>7, <1>8 DEF expanded

\* What parsing leaves of an input, with an id or without one.
LEMMA ParsedInput ==
    ASSUME NEW in \in Inputs, NEW where \in {"none", "top", "query"},
           parseExecuteInput(WithId(in, where)) # <<>>
    PROVE  LET parsed == parseExecuteInput(WithId(in, where))[1]
           IN /\ \A name \in DOMAIN parsed.path : IsSeq(parsed.path[name])
              /\ AreBases(parsed.baseURL)
PROOF
  <1> DEFINE with == WithId(in, where)
             path == paramOrLegacy(with, "path", <<>>)
             parsed == parseExecuteInput(with)[1]
  <1>1. /\ in = [op |-> in.op, params |-> in.params, legacy |-> in.legacy, baseURL |-> in.baseURL,
                 confirmation |-> in.confirmation]
        /\ AreBases(in.baseURL)
        /\ \A given \in {in.params, in.legacy} :
              "path" \in DOMAIN given => \A name \in DOMAIN given.path : IsSeq(given.path[name])
    BY InputsAssumption
  <1>2. /\ with.baseURL = in.baseURL /\ with.legacy = in.legacy
        /\ "path" \in DOMAIN with.params <=> "path" \in DOMAIN in.params
        /\ "path" \in DOMAIN in.params => with.params.path = in.params.path
    <2>1. CASE where = "none"
      BY <2>1 DEF WithId
    <2>2. CASE where = "top"
      <3>1. with = [in EXCEPT !.confirmation = IdText]
        BY <2>2 DEF WithId
      <3> HIDE DEF with
      <3>2. QED
        BY <1>1, <3>1
    <2>3. CASE where = "query"
      <3> DEFINE query == Overlay(queryGiven(in), [confirmationId |-> IdText])
                 params == Overlay(in.params, [query |-> query])
      <3>1. with = [in EXCEPT !.params = params]
        BY <2>3 DEF WithId
      <3> HIDE DEF query
      <3>2. /\ "path" \in DOMAIN params <=> "path" \in DOMAIN in.params
            /\ "path" \in DOMAIN in.params => params.path = in.params.path
        BY DEF Overlay
      <3> HIDE DEF with, params
      <3>3. with.baseURL = in.baseURL /\ with.legacy = in.legacy /\ with.params = params
        BY <1>1, <3>1
      <3>4. QED
        BY <3>2, <3>3
    <2>4. QED
      BY <2>1, <2>2, <2>3
  <1> HIDE DEF with
  <1>3. \A name \in DOMAIN path : IsSeq(path[name])
    <2>1. CASE "path" \in DOMAIN in.params
      <3>1. path = in.params.path
        BY <1>2, <2>1 DEF paramOrLegacy, ValueOr
      <3>2. QED
        BY <1>1, <2>1, <3>1
    <2>2. CASE "path" \notin DOMAIN in.params /\ "path" \in DOMAIN in.legacy
      <3>1. path = in.legacy.path
        BY <1>2, <2>2 DEF paramOrLegacy, ValueOr
      <3>2. QED
        BY <1>1, <2>2, <3>1
    <2>3. CASE "path" \notin DOMAIN in.params /\ "path" \notin DOMAIN in.legacy
      <3>1. path = <<>>
        BY <1>2, <2>3 DEF paramOrLegacy, ValueOr
      <3>2. DOMAIN path = {}
        BY <3>1
      <3>3. QED
        BY <3>2
    <2>4. QED
      BY <2>1, <2>2, <2>3
  <1>4. parsed.path = path /\ parsed.baseURL = with.baseURL
    <2>1. parseExecuteInput(with) # <<>>
      BY DEF with
    <2> HIDE DEF path
    <2>2. QED
      BY <2>1 DEF parseExecuteInput, path
  <1>5. QED
    BY <1>1, <1>2, <1>3, <1>4 DEF with

\* A place counted from the end of the sequence it is in.
LEMMA PlaceFromEnd ==
    ASSUME NEW T, NEW s \in Seq(T), NEW k \in DOMAIN s
    PROVE  Len(s) - Len(s) + k = k
OBVIOUS

PathTexts(in) == \A name \in DOMAIN in.path : IsSeq(in.path[name])

\* A parameter with a value arrives where the document has it.
LEMMA GivenArrives ==
    ASSUME NEW e, IsSeq(e.path), AreBases(e.servers),
           NEW in, PathTexts(in), AreBases(in.baseURL),
           NEW opts, AreBases(opts.base),
           NEW r, Prepared(r, e, in, opts), InOnePart(r), NEW p, Given(p, r)
    PROVE  Arrives(p, e, r)
PROOF
  <1> DEFINE chosen == ChosenBase(e, in, opts)
             expanded == expandPathTemplate(e.path, in.path)
             url == buildTargetURL(chosen, expanded, in.query)
  <1>1. MissingInPath(e.path, in.path) = {}
    BY PreparedRecord
  <1>2. r.url = url /\ r.path = in.path /\ r.query = in.query
    <2>1. r.url = PreparedURL(e, in, ChosenBase(e, in, opts)) /\ r.path = in.path /\ r.query = in.query
      BY PreparedRecord
    <2>2. QED
      BY <2>1 DEF PreparedURL
  <1>3. \A name \in DOMAIN in.path : IsSeq(in.path[name]) /\ Len(in.path[name]) = 1
    BY <1>2 DEF InOnePart, PathTexts
  <1>4. /\ \E T : expanded \in Seq(Seq(T))
        /\ DOMAIN expanded = DOMAIN e.path /\ Len(expanded) = Len(e.path)
        /\ \A i \in DOMAIN e.path : Len(expanded[i]) = 1
        /\ \A i \in DOMAIN e.path : e.path[i].param => /\ expanded[i] = in.path[e.path[i].text]
                                                       /\ e.path[i].text \in DOMAIN in.path
    BY <1>1, <1>3, ExpandedPath
  <1>5. chosen # <<>> => IsBase(chosen[1])
    <2>1. \/ AreBases(FirstServer(e))
          \/ FirstServer(e) = <<>>
          \/ (FirstServer(e) # <<>> /\ FirstServer(e)[1] = e.servers[1] /\ e.servers # <<>>)
      BY DEF FirstServer
    <2>2. QED
      BY <2>1, FirstOfBases DEF ChosenBase
  <1> HIDE DEF chosen, expanded, url
  <1>8. CASE p.place = "query"
    <2>1. p.name \in DOMAIN in.query /\ in.query[p.name] # <<>>
      BY <1>2, <1>8 DEF Given, ValueOr
    <2>2. CASE chosen = <<>>
      <3>1. url.query = in.query
        BY <2>2 DEF url, buildTargetURL
      <3>2. QED
        BY <1>2, <1>8, <2>1, <3>1 DEF Arrives, ValueOr
    <2>3. CASE chosen # <<>>
      <3> DEFINE base == chosen[1]
                 path == base.path \o Segments(FlattenSeq(expanded))
                 query == Overlay(base.query, in.query)
      <3>1. base = [host |-> base.host, path |-> base.path, query |-> base.query]
        BY <1>5, <2>3 DEF IsBase
      <3>2. url = [base EXCEPT !.path = path, !.query = query]
        BY <2>3 DEF url, buildTargetURL
      <3> HIDE DEF base, path, query
      <3>3. url.query = query
        BY <3>1, <3>2
      <3>4. p.name \in DOMAIN query /\ query[p.name] = in.query[p.name]
        BY <2>1 DEF query, Overlay
      <3>5. QED
        BY <1>2, <1>8, <2>1, <3>3, <3>4 DEF Arrives, ValueOr
    <2>4. QED
      BY <2>2, <2>3
  <1>9. CASE p.place = "header"
    BY <1>9 DEF Given, Arrives
  <1>10. CASE p.place = "path"
    <2> SUFFICES ASSUME NEW k \in DOMAIN e.path, e.path[k].param, e.path[k].text = p.name
                 PROVE  r.url.path[Len(r.url.path) - Len(e.path) + k] = r.path[p.name]
      BY <1>10 DEF Arrives
    <2>1. expanded[k] = in.path[p.name]
      BY <1>4
    <2>2. url.path[Len(url.path) - Len(expanded) + k] = expanded[k]
      <3>1. PICK T : expanded \in Seq(Seq(T))
        BY <1>4
      <3>2. k \in DOMAIN expanded /\ \A i \in DOMAIN expanded : Len(expanded[i]) = 1
        BY <1>4
      <3>3. CASE chosen = <<>>
        <4>1. url.path = expanded
          BY <3>3 DEF url, buildTargetURL
        <4>2. k \in DOMAIN expanded
          BY <3>2
        <4>3. Len(expanded) - Len(expanded) + k = k
          BY <3>1, <4>2, PlaceFromEnd
        <4>4. QED
          BY <4>1, <4>3
      <3>4. CASE chosen # <<>>
        <4> DEFINE base == chosen[1]
        <4>1. IsBase(base)
          BY <1>5, <3>4
        <4>2. url = buildTargetURL(<<base>>, expanded, in.query)
          BY <3>4 DEF url, buildTargetURL
        <4> HIDE DEF base
        <4> DEFINE query == in.query
        <4> HIDE DEF query
        <4>3. EachOne(expanded)
          BY <3>2 DEF EachOne
        <4>4. k \in DOMAIN expanded
          BY <3>2
        <4>5. Counted(buildTargetURL(<<base>>, expanded, query), expanded, k) = expanded[k]
          BY <3>1, <4>1, <4>3, <4>4, JoinedPath
        <4>6. QED
          BY <4>2, <4>5 DEF query, Counted
      <3>5. QED
        BY <3>3, <3>4
    <2>3. QED
      BY <1>2, <1>4, <2>1, <2>2
  <1>11. CASE p.place \notin {"path", "query", "header"}
    BY <1>11 DEF Arrives
  <1>12. QED
    BY <1>8, <1>9, <1>10, <1>11

\* Validation finds fault with what is missing.
LEMMA MissingIsReported ==
    ASSUME NEW e, NEW r
    PROVE  (validatePreparedRequest(e, r) \subseteq {"body"})
              <=> \A p \in e.params : p.required => Given(p, r)
PROOF
  <1> DEFINE Missing(place, given) ==
                {q \in e.params : q.place = place /\ q.required /\ ValueOr(given, q.name, <<>>) = <<>>}
  <1>1. ASSUME NEW place, NEW given
        PROVE  \/ validateRequiredParams(e, place, given) = {} /\ Missing(place, given) = {}
               \/ validateRequiredParams(e, place, given) = {place} /\ Missing(place, given) # {}
    BY DEF validateRequiredParams
  <1>2. \A p \in e.params : p.required /\ ~ Given(p, r) <=>
            p \in Missing("path", r.path) \cup Missing("query", r.query) \cup Missing("header", r.headers)
    BY DEF Given
  <1>3. validatePreparedRequest(e, r) \subseteq {"body"} <=>
            /\ validateRequiredParams(e, "path", r.path) = {}
            /\ validateRequiredParams(e, "query", r.query) = {}
            /\ validateRequiredParams(e, "header", r.headers) = {}
    <2>1. validatePreparedRequest(e, r)
            = validateRequiredParams(e, "path", r.path)
              \cup validateRequiredParams(e, "query", r.query)
              \cup validateRequiredParams(e, "header", r.headers)
              \cup {k \in {"body"} : r.body # "" /\ (e.body = NoSchema \/ r.body = "wrong")}
      BY DEF validatePreparedRequest
    <2> HIDE DEF Missing
    <2>2. validateRequiredParams(e, "path", r.path) \in {{}, {"path"}}
      BY <1>1
    <2>3. validateRequiredParams(e, "query", r.query) \in {{}, {"query"}}
      BY <1>1
    <2>4. validateRequiredParams(e, "header", r.headers) \in {{}, {"header"}}
      BY <1>1
    <2>5. QED
      BY <2>1, <2>2, <2>3, <2>4
  <1>4. /\ \A p \in Missing("path", r.path) : p \in e.params
        /\ \A p \in Missing("query", r.query) : p \in e.params
        /\ \A p \in Missing("header", r.headers) : p \in e.params
    OBVIOUS
  <1> HIDE DEF Missing
  <1>5. QED
    BY <1>1, <1>2, <1>3, <1>4

\* The endpoints as the index by id has them.
LEMMA IndexedEndpoint ==
    ASSUME Snapshot, settings \in Settings, NEW id \in DOMAIN snapshot.byID
    PROVE  LET e == snapshot.byID[id]
           IN /\ e.id = id /\ IsSeq(e.path) /\ AreBases(e.servers)
              /\ Required(e) = {p \in e.params : p.required}
PROOF
  <1>1. IsDocument(document)
    BY DEF Snapshot
  <1>2. PICK o \in Operations : snapshot.byID[id] = EndpointOf(o)
    BY ServedOperations
  <1>3. snapshot.byID[id].id = id
    BY ServedOperations
  <1>4. AreBases(EndpointOf(o).servers) /\ Required(EndpointOf(o)) = {p \in EndpointOf(o).params : p.required}
    BY <1>1, ServersAreBases, RequiredParameters
  <1>5. IsSeq(EndpointOf(o).path)
    <2>1. IsItem(document.items[o[1]])
      BY <1>1, ServedShape
    <2>2. QED
      BY <2>1, ServedFields DEF IsItem
  <1>6. QED
    BY <1>2, <1>3, <1>4, <1>5

\* A request as prepared: complete unless validation says otherwise.
Complete(e, r) == \A p \in Required(e) : Arrives(p, e, r)
Lacking(e, r)  == \E p \in Required(e) : ~ Given(p, r)
Judged(e, r)   ==
    InOnePart(r) => IF validatePreparedRequest(e, r) \subseteq {"body"} THEN Complete(e, r) ELSE Lacking(e, r)

\* A prepared request is what the verdict of validation says, complete or lacking.
LEMMA PreparedIsComplete ==
    ASSUME Snapshot, settings \in Settings, NEW id \in DOMAIN snapshot.byID,
           NEW in, PathTexts(in), AreBases(in.baseURL),
           NEW opts, AreBases(opts.base),
           NEW r, Prepared(r, snapshot.byID[id], in, opts)
    PROVE  r.op = id /\ Judged(snapshot.byID[id], r)
PROOF
  <1> DEFINE e == snapshot.byID[id]
  <1>1. e.id = id /\ IsSeq(e.path) /\ AreBases(e.servers) /\ Required(e) = {p \in e.params : p.required}
    BY IndexedEndpoint
  <1>2. Prepared(r, e, in, opts)
    OBVIOUS
  <1>3. validatePreparedRequest(e, r) \subseteq {"body"} <=> \A p \in e.params : p.required => Given(p, r)
    BY MissingIsReported
  <1> HIDE DEF e
  <1>4. r.op = e.id
    BY <1>2, PreparedRecord
  <1>5. ASSUME InOnePart(r), NEW p, Given(p, r) PROVE Arrives(p, e, r)
    BY <1>1, <1>2, <1>5, GivenArrives
  <1>6. QED
    BY <1>1, <1>3, <1>4, <1>5 DEF Judged, Complete, Lacking, e

\* prepare_request and validate_request keep ParametersArrive.
LEMMA RehearsedIsComplete ==
    ASSUME Loaded, input \in Inputs, NEW tool, NEW opts, opts.base = <<>>,
           Rehearse(tool, opts), ParametersArrive
    PROVE  ParametersArrive'
PROOF
  <1> DEFINE parsed == parseExecuteInput(input)
             in == parsed[1]
             r  == IF parsed = <<>> THEN Refused("invalid_request")
                   ELSE IF in.op \notin DOMAIN snapshot.byID THEN Refused("invalid_request")
                   ELSE prepareEndpointRequest(snapshot.byID[in.op], in, opts)
  <1>1. /\ stage = "given" /\ stage' = "rehearsed" /\ prepared' = r
        /\ issues' = IF r.error # "" THEN {} ELSE validatePreparedRequest(snapshot.byID[r.op], r)
        /\ document' = document /\ snapshot' = snapshot
    BY DEF Rehearse
  <1>2. Snapshot /\ settings \in Settings
    BY <1>1, LoadedIsSnapshot DEF Loaded
  <1>3. ASSUME r.error = ""
        PROVE  InOnePart(r) =>
                  IF issues' \subseteq {"body"} THEN Complete(snapshot.byID[r.op], r)
                  ELSE Lacking(snapshot.byID[r.op], r)
    <2>1. parsed # <<>> /\ in.op \in DOMAIN snapshot.byID
      BY <1>3 DEF Refused
    <2>2. r = prepareEndpointRequest(snapshot.byID[in.op], in, opts)
      BY <2>1
    <2>3. PathTexts(in) /\ AreBases(in.baseURL)
      <3>1. WithId(input, "none") = input
        BY DEF WithId
      <3>2. QED
        BY <2>1, <3>1, ParsedInput DEF PathTexts
    <2>4. AreBases(opts.base)
      <3>1. <<>> \in Seq(ToSet(<<>>)) /\ DOMAIN <<>> = {}
        OBVIOUS
      <3>2. QED
        BY <3>1 DEF AreBases, IsSeq
    <2>2a. Prepared(r, snapshot.byID[in.op], in, opts)
      BY <1>3, <2>2 DEF Prepared
    <2> HIDE DEF r, in, parsed
    <2>5. r.op = in.op /\ Judged(snapshot.byID[in.op], r)
      BY <1>2, <2>1, <2>2a, <2>3, <2>4, PreparedIsComplete
    <2>6. QED
      BY <1>1, <1>3, <2>5 DEF Judged
  <1> HIDE DEF r
  <1>4. \A e : Required(e)' = Required(e)
    <2>1. document' = document
      BY <1>1
    <2>2. QED
      BY <2>1 DEF Required, Described, OperationAt, Operations, OperationsOf
  <1>5. QED
    BY <1>1, <1>3, <1>4 DEF ParametersArrive, Complete, Lacking

\* The base URL of execute is one, from the settings or from the document.
LEMMA BaseOfExecute ==
    ASSUME settings \in Settings, NEW e, AreBases(e.servers)
    PROVE  AreBases(resolveBaseURL(e))
PROOF
  <1>1. AreBases(settings.sandbox) /\ AreBases(settings.upstream)
    BY SettingsAssumption
  <1>2. AreBases(FirstServer(e))
    <2>1. CASE e.servers = <<>>
      BY <2>1 DEF FirstServer
    <2>2. CASE e.servers # <<>>
      <3> DEFINE b == e.servers[1]
      <3>1. IsBase(b)
        BY <2>2, FirstOfBases
      <3>2. FirstServer(e) = <<b>>
        BY <2>2 DEF FirstServer
      <3> HIDE DEF b
      <3>3. <<b>> \in Seq({b}) /\ ToSet(<<b>>) = {b} /\ DOMAIN <<b>> = {1} /\ <<b>>[1] = b
        BY DEF ToSet
      <3>4. AreBases(<<b>>)
        BY <3>1, <3>3 DEF AreBases, IsSeq, IsBase
      <3>5. QED
        BY <3>2, <3>4
    <2>3. QED
      BY <2>1, <2>2
  <1>3. QED
    BY <1>1, <1>2 DEF resolveBaseURL

\* execute keeps ParametersArrive.
LEMMA SentIsComplete ==
    ASSUME Loaded, input \in Inputs, NEW where \in {"none", "top", "query"}, Execute(where), ParametersArrive
    PROVE  ParametersArrive'
PROOF
  <1> DEFINE parsed == parseExecuteInput(WithId(input, where))
             in   == parsed[1]
             e    == snapshot.byID[in.op]
             base == resolveBaseURL(e)
             r    == IF parsed = <<>> THEN Refused("invalid_request") ELSE prepareForExecute(in)
             verdict == Verdict(r, in.confirmation)
             error == IF r.error # "" THEN r.error ELSE verdict
  <1>1. /\ stage \in {"given", "rehearsed", "asked"} /\ stage' = "executed" /\ prepared' = r
        /\ outcome' = IF error = "" THEN "sent" ELSE error
        /\ document' = document /\ snapshot' = snapshot /\ settings' = settings
    BY DEF Execute
  <1>2. Snapshot /\ settings \in Settings
    BY <1>1, LoadedIsSnapshot DEF Loaded
  <1>3. r.error \in {"", "invalid_request", "no_base_url", "policy_denied"}
    BY PreparedErrors DEF Executed
  <1>4. verdict # "sent"
    BY VerdictOf
  <1>5. verdict = "" /\ settings.validate => validatePreparedRequest(snapshot.byID[r.op], r) = {}
    <2> HIDE DEF r
    <2>1. Evaluate(config, r.op, r.method) \in Decision
      BY DEF Evaluate, ModeDecision, ConfirmationDecision, Decision
    <2>2. QED
      BY <2>1 DEF Verdict, Decision
  <1> HIDE DEF verdict
  <1>6. ASSUME outcome' = "sent", settings.validate, InOnePart(r)
        PROVE  Complete(snapshot.byID[r.op], r)
    <2>1. r.error = "" /\ verdict = ""
      <3> HIDE DEF r
      <3>1. QED
        BY <1>1, <1>3, <1>4, <1>6
    <2>2. parsed # <<>>
      BY <2>1 DEF Refused
    <2>3. in.op \in DOMAIN snapshot.byID /\ r = prepareEndpointRequest(e, in, ExecuteOptions(base))
      BY <2>1, <2>2 DEF prepareForExecute, Refused
    <2>4. PathTexts(in) /\ AreBases(in.baseURL)
      BY <2>2, ParsedInput DEF PathTexts
    <2>5. AreBases(e.servers)
      BY <1>2, <2>3, IndexedEndpoint
    <2>6. AreBases(base)
      BY <1>2, <2>5, BaseOfExecute
    <2> HIDE DEF base
    <2>7. AreBases(ExecuteOptions(base).base)
      BY <2>6 DEF ExecuteOptions, PrepareOptions
    <2> DEFINE opts == ExecuteOptions(base)
    <2> HIDE DEF r, in, opts
    <2>8. r.op = in.op /\ Judged(snapshot.byID[in.op], r)
      <3>1. Prepared(r, snapshot.byID[in.op], in, opts) /\ AreBases(opts.base)
        BY <2>1, <2>3, <2>7 DEF Prepared, opts
      <3>2. QED
        BY <1>2, <2>3, <2>4, <3>1, PreparedIsComplete
    <2>9. validatePreparedRequest(snapshot.byID[r.op], r) = {}
      BY <1>5, <1>6, <2>1
    <2>10. QED
      BY <1>6, <2>8, <2>9 DEF Judged
  <1> HIDE DEF r
  <1>7. \A x : Required(x)' = Required(x)
    <2>1. document' = document
      BY <1>1
    <2>2. QED
      BY <2>1 DEF Required, Described, OperationAt, Operations, OperationsOf
  <1>8. QED
    BY <1>1, <1>6, <1>7 DEF ParametersArrive, Complete

\* Whatever the documents, the base URLs and the inputs, a request that validation
\* passes carries every required parameter where the document has it, and one that
\* a rehearsal finds fault with for more than its body lacks one of them.
THEOREM ParametersAlwaysArrive == Spec => []ParametersArrive
PROOF
  <1>1. Init => ParametersArrive
    BY DEF Init, ParametersArrive
  <1>2. Loaded /\ Asking /\ ParametersArrive /\ [Next]_vars => ParametersArrive'
    <2> SUFFICES ASSUME Loaded, Asking, ParametersArrive, [Next]_vars PROVE ParametersArrive'
      OBVIOUS
    <2>1. CASE Configure
      BY <2>1 DEF Configure, ParametersArrive
    <2>2. ASSUME NEW d \in Documents, NEW s \in Settings, Serve(d, s) PROVE ParametersArrive'
      BY <2>2 DEF Serve, ParametersArrive
    <2>3. ASSUME NEW in \in Inputs, Give(in) PROVE ParametersArrive'
      BY <2>3 DEF Give, ParametersArrive
    <2>4. CASE PrepareRequest \/ ValidateRequest
      <3>1. PrepareOptions.base = <<>> /\ ValidateOptions.base = <<>>
        BY DEF PrepareOptions, ValidateOptions
      <3>2. input \in Inputs
        BY <2>4 DEF PrepareRequest, ValidateRequest, Rehearse, Asking
      <3>3. QED
        BY <2>4, <3>1, <3>2, RehearsedIsComplete DEF PrepareRequest, ValidateRequest
    <2>5. CASE RequestConfirmation
      BY <2>5 DEF RequestConfirmation, ParametersArrive
    <2>6. ASSUME NEW where \in {"none", "top", "query"}, Execute(where) PROVE ParametersArrive'
      <3>1. input \in Inputs
        BY <2>6 DEF Execute, Asking
      <3>2. QED
        BY <2>6, <3>1, SentIsComplete
    <2>7. CASE UNCHANGED vars
      <3>1. \A e : Required(e)' = Required(e)
        BY <2>7 DEF vars, Required, Described, OperationAt, Operations, OperationsOf
      <3>2. QED
        BY <2>7, <3>1 DEF vars, ParametersArrive
    <2>8. QED
      BY <2>1, <2>2, <2>3, <2>4, <2>5, <2>6, <2>7 DEF Next
  <1>3. QED
    BY <1>1, <1>2, AlwaysLoaded, AskingIsKept, PTL DEF Spec

-----------------------------------------------------------------------------
\* The policy

\* Requests and the instance of PolicyHardening have one policy.
LEMMA OnePolicy ==
    /\ Policies!Config(Op, Method) = Config(Op, Method)
    /\ \A cfg, op, m : Policies!Evaluate(cfg, op, m) = Evaluate(cfg, op, m)
PROOF
  <1>1. Policies!Config(Op, Method) = Config(Op, Method)
    BY DEF Config, Policies!Config, Mode, Policies!Mode
  <1>2. ASSUME NEW cfg, NEW op, NEW m PROVE Policies!Evaluate(cfg, op, m) = Evaluate(cfg, op, m)
    BY DEF Evaluate, ExplicitlyDenied, OutsideAllowlist, ModeDecision, ConfirmationDecision,
           isReadonlyMethod, isWriteMethod, ReadonlyMethod, WriteMethod,
           Policies!Evaluate, Policies!ExplicitlyDenied, Policies!OutsideAllowlist,
           Policies!ModeDecision, Policies!ConfirmationDecision, Policies!isReadonlyMethod,
           Policies!isWriteMethod, Policies!ReadonlyMethod, Policies!WriteMethod
  <1>3. QED
    BY <1>1, <1>2

-----------------------------------------------------------------------------
\* The priority table

\* FirstRow is the row before which none applies.
LEMMA RowOfEvaluate ==
    ASSUME NEW op, NEW m, NEW i \in 1 .. 8,
           Policies!PriorityTable(op, m)[i].on,
           \A j \in 1 .. 8 : Policies!PriorityTable(op, m)[j].on => i <= j
    PROVE  Policies!FirstRow(Policies!PriorityTable(op, m)) = Policies!PriorityTable(op, m)[i].result
PROOF
  <1> DEFINE table == Policies!PriorityTable(op, m)
             First(k) == table[k].on /\ \A j \in DOMAIN table : table[j].on => k <= j
  <1>1. DOMAIN table = 1 .. 8
    BY DEF Policies!PriorityTable
  <1>2. i \in DOMAIN table /\ First(i)
    BY <1>1
  <1>3. \A k \in DOMAIN table : First(k) => k = i
    BY <1>1, <1>2
  <1>4. (CHOOSE k \in DOMAIN table : First(k)) = i
    BY <1>2, <1>3
  <1>5. QED
    BY <1>4 DEF Policies!FirstRow

\* In every configuration, whatever set it is over, the early returns of Evaluate
\* decide as the README's table does, whose first row that applies counts.
THEOREM EvaluateIsTheTable == Policies!FollowsPriorityTable
PROOF
  <1> SUFFICES ASSUME NEW op \in Op, NEW m \in Method
               PROVE  Evaluate(config, op, m) = Policies!FirstRow(Policies!PriorityTable(op, m))
    BY OnePolicy DEF Policies!FollowsPriorityTable
  <1> DEFINE table == Policies!PriorityTable(op, m)
             On(i) == table[i].on
             Decides(i) == On(i) /\ \A j \in 1 .. 8 : On(j) => i <= j
  <1>1. \E i \in 1 .. 8 : Decides(i)
    <2>1. On(8)
      BY DEF Policies!PriorityTable
    <2>2. \/ On(1) \/ (~ On(1) /\ On(2)) \/ (~ On(1) /\ ~ On(2) /\ On(3))
          \/ (~ On(1) /\ ~ On(2) /\ ~ On(3) /\ On(4))
          \/ (~ On(1) /\ ~ On(2) /\ ~ On(3) /\ ~ On(4) /\ On(5))
          \/ (~ On(1) /\ ~ On(2) /\ ~ On(3) /\ ~ On(4) /\ ~ On(5) /\ On(6))
          \/ (~ On(1) /\ ~ On(2) /\ ~ On(3) /\ ~ On(4) /\ ~ On(5) /\ ~ On(6) /\ On(7))
          \/ (~ On(1) /\ ~ On(2) /\ ~ On(3) /\ ~ On(4) /\ ~ On(5) /\ ~ On(6) /\ ~ On(7) /\ On(8))
      BY <2>1
    <2>3. QED
      <3> HIDE DEF On
      <3>1. \A i \in 1 .. 8 : i \in {1, 2, 3, 4, 5, 6, 7, 8}
        OBVIOUS
      <3>2. QED
        BY <2>2, <3>1
  <1>2. PICK i \in 1 .. 8 : Decides(i)
    BY <1>1
  <1>3. Policies!FirstRow(table) = table[i].result
    BY <1>2, RowOfEvaluate
  <1>4. Evaluate(config, op, m) = table[i].result
    <2>1. i \in {1, 2, 3, 4, 5, 6, 7, 8}
      OBVIOUS
    <2>2. \A j \in 1 .. 8 : j < i => ~ On(j)
      BY <1>2
    <2>3. /\ On(1) <=> op \in config.deniedOps
          /\ On(2) <=> m \in config.deniedMethods
          /\ On(3) <=> config.allowedOps # {} /\ op \notin config.allowedOps
          /\ On(4) <=> config.allowedMethods # {} /\ m \notin config.allowedMethods
          /\ On(5) <=> config.mode \notin {"execute_readonly", "execute_write", "sandbox"}
          /\ On(6) <=> config.mode = "execute_readonly" /\ m \notin ReadonlyMethod
          /\ On(7) <=> config.requireConfirmation /\ m \in WriteMethod
      BY DEF Policies!PriorityTable, ReadonlyMethod, WriteMethod
    <2>4. /\ \A k \in {1, 2, 3, 4, 6} : table[k].result = "policy_denied"
          /\ table[5].result = "plan_only"
          /\ table[7].result = "confirmation_required"
          /\ table[8].result = "allow"
      BY DEF Policies!PriorityTable
    <2> HIDE DEF On, table
    <2> USE DEF Evaluate, ExplicitlyDenied, OutsideAllowlist, ModeDecision, ConfirmationDecision,
                isReadonlyMethod, isWriteMethod
    <2>5. CASE i \in {1, 2, 3, 4}
      BY <1>2, <2>3, <2>4, <2>5
    <2>6. ASSUME i \notin {1, 2, 3, 4} PROVE ~ ExplicitlyDenied(config, op, m) /\ ~ OutsideAllowlist(config, op, m)
      <3>1. ~ On(1) /\ ~ On(2) /\ ~ On(3) /\ ~ On(4)
        BY <2>1, <2>2, <2>6
      <3>2. QED
        BY <2>3, <3>1
    <2>7. CASE i = 5
      BY <1>2, <2>3, <2>4, <2>6, <2>7
    <2>8. CASE i = 6
      BY <1>2, <2>3, <2>4, <2>6, <2>8
    <2>9. CASE i = 7
      <3>1. ~ On(5) /\ ~ On(6)
        BY <2>2, <2>9
      <3>2. ReadonlyMethod \cap WriteMethod = {}
        BY DEF ReadonlyMethod, WriteMethod
      <3>3. QED
        BY <1>2, <2>3, <2>4, <2>6, <2>9, <3>1, <3>2
    <2>10. CASE i = 8
      <3>1. ~ On(5) /\ ~ On(6) /\ ~ On(7)
        BY <2>2, <2>10
      <3>2. QED
        BY <1>2, <2>3, <2>4, <2>6, <2>10, <3>1
    <2>11. QED
      BY <2>1, <2>5, <2>7, <2>8, <2>9, <2>10
  <1>5. QED
    BY <1>3, <1>4

-----------------------------------------------------------------------------
\* Hardening

\* Every tightening leaves a configuration.
LEMMA TighterIsTyped ==
    ASSUME config \in Config(Op, Method), Policies!Next
    PROVE  config' \in Config(Op, Method)
PROOF
  <1> USE DEF Config, Mode
  <1>1. ASSUME NEW o \in Op, Policies!DenyOp(o) PROVE config' \in Config(Op, Method)
    BY <1>1 DEF Policies!DenyOp
  <1>2. ASSUME NEW o \in Op, Policies!RevokeAllowedOp(o) PROVE config' \in Config(Op, Method)
    BY <1>2 DEF Policies!RevokeAllowedOp
  <1>3. ASSUME NEW m \in Method, Policies!DenyMethod(m) PROVE config' \in Config(Op, Method)
    BY <1>3 DEF Policies!DenyMethod
  <1>4. ASSUME NEW m \in Method, Policies!RevokeAllowedMethod(m) PROVE config' \in Config(Op, Method)
    BY <1>4 DEF Policies!RevokeAllowedMethod
  <1>5. ASSUME NEW S \in SUBSET Op, Policies!IntroduceAllowedOps(S) PROVE config' \in Config(Op, Method)
    BY <1>5 DEF Policies!IntroduceAllowedOps
  <1>6. CASE Policies!LowerMode
    BY <1>6 DEF Policies!LowerMode
  <1>7. CASE Policies!RequireConfirmation
    BY <1>7 DEF Policies!RequireConfirmation
  <1>8. QED
    BY <1>1, <1>2, <1>3, <1>4, <1>5, <1>6, <1>7 DEF Policies!Next

\* No tightening makes one decision more lenient.
LEMMA StepNeverLoosens ==
    ASSUME config \in Config(Op, Method), Policies!Next, NEW op \in Op, NEW m \in Method
    PROVE  Policies!Leniency(Evaluate(config', op, m)) <= Policies!Leniency(Evaluate(config, op, m))
PROOF
  <1> DEFINE Tighter == Policies!Leniency(Evaluate(config', op, m)) <= Policies!Leniency(Evaluate(config, op, m))
  <1> USE DEF Config, Mode, Policies!Leniency, Evaluate, ExplicitlyDenied, OutsideAllowlist, ModeDecision,
              ConfirmationDecision, isReadonlyMethod, isWriteMethod, ReadonlyMethod, WriteMethod
  <1>1. ASSUME NEW o \in Op, Policies!DenyOp(o) PROVE Tighter
    BY <1>1 DEF Policies!DenyOp
  <1>2. ASSUME NEW o \in Op, Policies!RevokeAllowedOp(o) PROVE Tighter
    BY <1>2 DEF Policies!RevokeAllowedOp
  <1>3. ASSUME NEW n \in Method, Policies!DenyMethod(n) PROVE Tighter
    BY <1>3 DEF Policies!DenyMethod
  <1>4. ASSUME NEW n \in Method, Policies!RevokeAllowedMethod(n) PROVE Tighter
    BY <1>4 DEF Policies!RevokeAllowedMethod
  <1>5. ASSUME NEW S \in SUBSET Op, Policies!IntroduceAllowedOps(S) PROVE Tighter
    BY <1>5 DEF Policies!IntroduceAllowedOps
  <1>6. CASE Policies!LowerMode
    BY <1>6 DEF Policies!LowerMode
  <1>7. CASE Policies!RequireConfirmation
    BY <1>7 DEF Policies!RequireConfirmation
  <1>8. QED
    BY <1>1, <1>2, <1>3, <1>4, <1>5, <1>6, <1>7 DEF Policies!Next

\* Only the operator changes the policy.
LEMMA ConfigSteps ==
    ASSUME [Next]_vars
    PROVE  Policies!Next \/ config' = config
BY DEF Next, vars, Configure, Serve, Give, PrepareRequest, ValidateRequest, Rehearse,
       RequestConfirmation, Execute

\* The type invariant of the configuration.
LEMMA ConfigIsTyped == Spec => [](config \in Config(Op, Method))
PROOF
  <1>1. Init => config \in Config(Op, Method)
    BY OnePolicy DEF Init, Policies!Init
  <1>2. config \in Config(Op, Method) /\ [Next]_vars => (config \in Config(Op, Method))'
    BY ConfigSteps, TighterIsTyped
  <1>3. QED
    BY <1>1, <1>2, PTL DEF Spec

\* No tightening of any configuration lets a call through that was refused, or
\* makes a refusal something that a confirmation can lift.
THEOREM HardeningIsSafe == Spec => HardeningNeverLoosens
PROOF
  <1> DEFINE Tighter ==
        \A op \in Op, m \in Method :
            Policies!Leniency(Policies!Evaluate(config', op, m))
              <= Policies!Leniency(Policies!Evaluate(config, op, m))
  <1>1. config \in Config(Op, Method) /\ [Next]_vars => [Tighter]_config
    <2> SUFFICES ASSUME config \in Config(Op, Method), Policies!Next PROVE Tighter
      BY ConfigSteps
    <2>1. \A op \in Op, m \in Method :
             Policies!Leniency(Evaluate(config', op, m)) <= Policies!Leniency(Evaluate(config, op, m))
      BY StepNeverLoosens
    <2>2. QED
      BY <2>1, OnePolicy
  <1>2. QED
    BY <1>1, ConfigIsTyped, PTL DEF Spec, HardeningNeverLoosens, Policies!HardeningNeverLoosens
=============================================================================
