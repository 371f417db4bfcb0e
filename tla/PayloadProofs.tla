---------------------------- MODULE PayloadProofs ----------------------------
(***************************************************************************)
(* Theorems about schemas, the values that are made from them and judged   *)
(* by them, responses and the search, for every API, document, body and    *)
(* filter of the assumed shape.                                            *)
(*                                                                         *)
(* A recursive definition defines something if it goes down some number:   *)
(* the depth of a value, the height of the tree that the resolver makes of *)
(* a document, or both (Recursion, Descent).  Hence the hypothesis of many *)
(* a theorem, that values are JSON and end somewhere (OnlyJSON); where new *)
(* ones are made, all that there are are meant (AllOfJSON).                *)
(***************************************************************************)
EXTENDS PayloadFlow, CatalogProofs, SequenceTheorems

\* Induction over what has a level: a property that passes up from all of lower level
\* holds of everything.
PassesUp(S, level, Good) ==
    \A s \in S : (\A t \in S : level[t] < level[s] => t \in Good) => s \in Good

\* What holds of all of S if it holds of an element whenever it holds of those of a lower level.
LEMMA Descent ==
    ASSUME NEW S, NEW level \in [S -> Nat], NEW Good, PassesUp(S, level, Good)
    PROVE  \A s \in S : s \in Good
PROOF
  <1> SUFFICES ASSUME \E s \in S : s \notin Good PROVE FALSE
    OBVIOUS
  <1> DEFINE Levels == {level[s] : s \in {t \in S : t \notin Good}}
  <1>1. Levels \in SUBSET Nat /\ Levels # {}
    OBVIOUS
  <1>2. PICK n \in Levels : \A m \in Levels : n <= m
    BY <1>1, LeastNumber
  <1>3. PICK s \in S : s \notin Good /\ level[s] = n
    BY <1>2
  <1>4. \A t \in S : level[t] < level[s] => t \in Good
    <2> SUFFICES ASSUME NEW t \in S, level[t] < level[s], t \notin Good PROVE FALSE
      OBVIOUS
    <2>1. level[t] \in Levels
      OBVIOUS
    <2>2. n <= level[t]
      BY <1>2, <2>1
    <2>3. level[t] \in Nat /\ level[s] \in Nat
      OBVIOUS
    <2> QED
      BY <1>3, <2>2, <2>3
  <1>5. QED
    BY <1>3, <1>4 DEF PassesUp

\* A recursive definition defines something if each step depends on what is of lower
\* level only.
LooksDown(S, X, level, step) ==
    \A s \in S : \A f, g \in [S -> X] :
        (\A t \in S : level[t] < level[s] => f[t] = g[t]) => step[s][f] = step[s][g]

\* f is defined, element by element, by step.
Solves(f, S, step) == f = [s \in S |-> step[s][f]]

\* A recursive definition that only looks at lower levels defines a function.
LEMMA Recursion ==
    ASSUME NEW S, NEW X, X # {}, NEW level \in [S -> Nat], NEW step \in [S -> [[S -> X] -> X]],
           LooksDown(S, X, level, step)
    PROVE  \E f \in [S -> X] : Solves(f, S, step)
PROOF
  <1> USE DEF LooksDown
  <1> DEFINE Up(n) == {f \in [S -> X] : \A s \in S : level[s] < n => f[s] = step[s][f]}
  <1>1. \A n \in Nat : Up(n) # {}
    <2> SUFFICES ASSUME NEW k \in Nat, Up(k) = {} PROVE FALSE
      OBVIOUS
    <2> DEFINE Bad == {n \in Nat : Up(n) = {}}
    <2>1. PICK n \in Bad : \A m \in Bad : n <= m
      <3>1. Bad \in SUBSET Nat /\ Bad # {}
        OBVIOUS
      <3> HIDE DEF Bad
      <3>2. QED
        BY <3>1, LeastNumber
    <2>2. n # 0
      <3>1. PICK x \in X : TRUE
        OBVIOUS
      <3>2. [s \in S |-> x] \in Up(0)
        OBVIOUS
      <3>3. QED
        BY <2>1, <3>2
    <2>3. n - 1 \in Nat /\ n - 1 \notin Bad
      BY <2>1, <2>2
    <2>4. PICK f \in Up(n - 1) : TRUE
      BY <2>3
    <2> DEFINE g == [s \in S |-> IF level[s] < n THEN step[s][f] ELSE f[s]]
    <2>5. g \in [S -> X]
      OBVIOUS
    <2>6. ASSUME NEW t \in S, level[t] < n - 1 PROVE g[t] = f[t]
      BY <2>1, <2>4, <2>6
    <2>7. ASSUME NEW s \in S, level[s] < n PROVE g[s] = step[s][g]
      <3>1. \A t \in S : level[t] < level[s] => f[t] = g[t]
        <4> SUFFICES ASSUME NEW t \in S, level[t] < level[s] PROVE f[t] = g[t]
          OBVIOUS
        <4>1. level[t] < n - 1
          BY <2>7, <2>1
        <4>2. QED
          BY <4>1, <2>6
      <3>2. f \in [S -> X]
        OBVIOUS
      <3>3. g[s] = step[s][f]
        BY <2>7
      <3> HIDE DEF g, Up, Bad
      <3>4. step[s][f] = step[s][g]
        BY <2>5, <3>1, <3>2
      <3>5. QED
        BY <3>3, <3>4
    <2>8. g \in Up(n)
      BY <2>5, <2>7
    <2>9. QED
      BY <2>1, <2>8
  <1>2. ASSUME NEW n \in Nat, NEW f \in Up(n), NEW g \in Up(n), NEW s \in S, level[s] < n
        PROVE  f[s] = g[s]
    <2> DEFINE Good == {t \in S : level[t] < n => f[t] = g[t]}
    <2>1. ASSUME NEW t \in S, \A u \in S : level[u] < level[t] => u \in Good PROVE t \in Good
      <3>1. ASSUME level[t] < n PROVE f[t] = g[t]
        <4>1. \A u \in S : level[u] < level[t] => f[u] = g[u]
          <5> SUFFICES ASSUME NEW u \in S, level[u] < level[t] PROVE f[u] = g[u]
            OBVIOUS
          <5>1. level[u] < n
            BY <3>1
          <5>2. QED
            BY <5>1, <2>1
        <4>2. f \in [S -> X] /\ g \in [S -> X] /\ f[t] = step[t][f] /\ g[t] = step[t][g]
          BY <3>1
        <4> HIDE DEF Good, Up
        <4>3. step[t][f] = step[t][g]
          BY <4>1, <4>2
        <4>4. QED
          BY <4>2, <4>3
      <3>2. QED
        BY <3>1
    <2> HIDE DEF Good
    <2>2. PassesUp(S, level, Good)
      BY <2>1 DEF PassesUp
    <2>3. level \in [S -> Nat]
      OBVIOUS
    <2>4. \A t \in S : t \in Good
      BY <2>2, <2>3, Descent
    <2>5. QED
      BY <2>4, <1>2 DEF Good
  <1> DEFINE At(s) == CHOOSE f \in Up(level[s] + 1) : TRUE
             whole == [s \in S |-> At(s)[s]]
  <1>3. ASSUME NEW s \in S PROVE At(s) \in Up(level[s] + 1)
    <2>1. level[s] + 1 \in Nat
      OBVIOUS
    <2> HIDE DEF Up
    <2>2. QED
      BY <1>1, <2>1
  <1> HIDE DEF At
  <1>4. ASSUME NEW s \in S
        PROVE  /\ At(s) \in [S -> X]
               /\ At(s)[s] = step[s][At(s)]
               /\ \A t \in S : level[t] < level[s] => At(s)[t] = At(t)[t]
    <2>1. At(s) \in [S -> X] /\ At(s)[s] = step[s][At(s)]
      BY <1>3
    <2>2. ASSUME NEW t \in S, level[t] < level[s] PROVE At(s)[t] = At(t)[t]
      <3>1. At(s) \in Up(level[t] + 1)
        BY <1>3, <2>2
      <3>2. At(t) \in Up(level[t] + 1)
        BY <1>3
      <3>3. level[t] + 1 \in Nat /\ level[t] < level[t] + 1
        OBVIOUS
      <3> HIDE DEF Up
      <3>4. QED
        BY <1>2, <3>1, <3>2, <3>3
    <2>3. QED
      BY <2>1, <2>2
  <1> HIDE DEF Up
  <1>5. whole \in [S -> X]
    BY <1>4
  <1>6. ASSUME NEW s \in S PROVE whole[s] = step[s][whole]
    <2>1. \A t \in S : level[t] < level[s] => At(s)[t] = whole[t]
      BY <1>4
    <2>2. whole[s] = At(s)[s]
      OBVIOUS
    <2> HIDE DEF whole
    <2>3. step[s][At(s)] = step[s][whole]
      BY <1>4, <1>5, <2>1
    <2>4. QED
      BY <1>4, <2>2, <2>3
  <1>7. whole = [s \in S |-> step[s][whole]]
    <2> HIDE DEF whole
    <2>1. QED
      BY <1>5, <1>6
  <1>8. QED
    BY <1>5, <1>7 DEF Solves

-----------------------------------------------------------------------------
\* Resolution

\* The resolver closes one more schema with each step down: the resolution of a
\* reference is defined by those with fewer schemas left.
ResolveAll(d, refs, seen) == [x \in DOMAIN refs |-> ResolveSchema(d, refs[x], seen)]

\* The keywords of a schema of a document.
LEMMA SchemaFields ==
    ASSUME NEW d \in Documents, NEW name \in DOMAIN d
    PROVE  /\ d[name].example \in Seq(JSONValues) /\ d[name].enum \in Seq(JSONValues)
           /\ d[name].props \in [DOMAIN d[name].props -> DOMAIN d] /\ d[name].items \in Seq(DOMAIN d)
           /\ d[name].oneOf \in Seq(DOMAIN d) /\ d[name].anyOf \in Seq(DOMAIN d)
           /\ d[name].allOf \in Seq(DOMAIN d) /\ d[name].others \in Seq(DOMAIN d)
           /\ d[name].union # {} => d[name].type = "" /\ "" \notin d[name].union
PROOF
  <1>1. IsSchema(d[name], DOMAIN d)
    BY DocumentsAssumption
  <1>2. QED
    BY <1>1, Zenon DEF IsSchema

\* The resolver does what ResolvedSchema says, at every place.
LEMMA Resolved ==
    ASSUME NEW d \in Documents, NEW name \in DOMAIN d, NEW seen \in SUBSET DOMAIN d
    PROVE  LET Expand(refs) == ResolveAll(d, refs, seen \cup {name}) IN
           /\ name \in seen => ResolveSchema(d, name, seen) = CircularRef(name)
           /\ name \notin seen =>
                ResolveSchema(d, name, seen) =
                  [d[name] EXCEPT !.origin = name, !.props = Expand(@), !.items = Expand(@),
                                  !.oneOf = Expand(@), !.anyOf = Expand(@), !.allOf = Expand(@),
                                  !.others = Expand(@)]
PROOF
  <1> DEFINE N       == Cardinality(DOMAIN d)
             left(o) == Cardinality(DOMAIN d \ o)
             row(f, o)    == [ref \in DOMAIN d |-> ResolvedSchema(d, f, ref, o)]
             SolvesBelow(f, n) == /\ f = [o \in SUBSET DOMAIN d |-> f[o]]
                             /\ \A o \in SUBSET DOMAIN d : left(o) < n => f[o] = row(f, o)
  <1>1. IsFiniteSet(DOMAIN d)
    BY DocumentsAssumption
  <1>9. N \in Nat
    BY <1>1, FS_CardinalityType
  <1>2. ASSUME NEW o \in SUBSET DOMAIN d PROVE left(o) \in Nat /\ left(o) <= N /\ N \in Nat
    <2>1. IsFiniteSet(DOMAIN d \ o)
      BY <1>1, FS_Subset
    <2>2. left(o) <= N /\ left(o) \in Nat /\ N \in Nat
      BY <1>1, <2>1, FS_Subset, FS_CardinalityType
    <2>3. QED
      BY <2>2
  <1>3. ASSUME NEW o \in SUBSET DOMAIN d, NEW ref \in DOMAIN d, ref \notin o
        PROVE  o \cup {ref} \in SUBSET DOMAIN d /\ left(o \cup {ref}) < left(o)
    <2>1. IsFiniteSet(DOMAIN d \ o)
      BY <1>1, FS_Subset
    <2>2. DOMAIN d \ (o \cup {ref}) = (DOMAIN d \ o) \ {ref} /\ ref \in DOMAIN d \ o
      BY <1>3
    <2>3. left(o \cup {ref}) = left(o) - 1
      <3> DEFINE rest == DOMAIN d \ o
      <3>1. IsFiniteSet(rest) /\ ref \in rest
        BY <2>1, <2>2
      <3> HIDE DEF rest
      <3>2. Cardinality(rest \ {ref}) = Cardinality(rest) - 1
        BY <3>1, FS_RemoveElement
      <3>3. QED
        BY <2>2, <3>2 DEF rest
    <2>4. left(o) \in Nat
      BY <1>2
    <2>5. QED
      BY <2>3, <2>4
  <1>4. ASSUME NEW f, NEW g, NEW o \in SUBSET DOMAIN d,
               \A p \in SUBSET DOMAIN d : left(p) < left(o) => f[p] = g[p]
        PROVE  row(f, o) = row(g, o)
    <2>1. ASSUME NEW ref \in DOMAIN d PROVE ResolvedSchema(d, f, ref, o) = ResolvedSchema(d, g, ref, o)
      <3>1. CASE ref \in o
        BY <3>1 DEF ResolvedSchema
      <3>2. CASE ref \notin o
        <4>1. f[o \cup {ref}] = g[o \cup {ref}]
          BY <1>3, <1>4, <3>2
        <4>2. QED
          BY <3>2, <4>1 DEF ResolvedSchema
      <3>3. QED
        BY <3>1, <3>2
    <2>2. QED
      BY <2>1
  <1>5. ASSUME NEW n \in Nat PROVE \E f : SolvesBelow(f, n)
    <2> SUFFICES ASSUME ~ \E f : SolvesBelow(f, n) PROVE FALSE
      OBVIOUS
    <2> DEFINE Bad == {m \in Nat : ~ \E f : SolvesBelow(f, m)}
    <2>1. PICK k \in Bad : \A m \in Bad : k <= m
      <3>1. Bad \in SUBSET Nat /\ Bad # {}
        <4> HIDE DEF SolvesBelow
        <4> QED
          OBVIOUS
      <3> HIDE DEF Bad
      <3>2. QED
        BY <3>1, LeastNumber
    <2>2. k # 0
      <3>1. SolvesBelow([o \in SUBSET DOMAIN d |-> 0], 0)
        BY <1>2
      <3> HIDE DEF SolvesBelow
      <3>2. QED
        BY <2>1, <3>1
    <2>3. k - 1 \in Nat /\ k - 1 \notin Bad
      <3>1. k \in Nat
        OBVIOUS
      <3> HIDE DEF Bad
      <3>2. QED
        BY <2>1, <2>2, <3>1
    <2>4. PICK f : SolvesBelow(f, k - 1)
      BY <2>3
    <2> DEFINE g == [o \in SUBSET DOMAIN d |-> row(f, o)]
    <2>5. ASSUME NEW o \in SUBSET DOMAIN d, left(o) < k PROVE g[o] = row(g, o)
      <3>1. ASSUME NEW p \in SUBSET DOMAIN d, left(p) < left(o) PROVE f[p] = g[p]
        <4>1. left(p) < k - 1
          <5>1. left(p) \in Nat /\ left(o) \in Nat /\ k \in Nat
            BY <1>2
          <5> HIDE DEF left
          <5>2. QED
            BY <2>5, <3>1, <5>1
        <4>2. f[p] = row(f, p)
          BY <2>4, <4>1
        <4> HIDE DEF row
        <4>3. QED
          BY <4>2
      <3> HIDE DEF row, left
      <3>2. row(f, o) = row(g, o)
        <4> HIDE DEF g
        <4> QED
          BY <1>4, <3>1
      <3>3. QED
        BY <3>2
    <2>6. SolvesBelow(g, k)
      <3> HIDE DEF row
      <3>1. g = [o \in SUBSET DOMAIN d |-> g[o]]
        OBVIOUS
      <3> HIDE DEF g, left
      <3>2. QED
        BY <2>5, <3>1
    <2> HIDE DEF SolvesBelow
    <2>7. QED
      BY <2>1, <2>6
  <1> DEFINE expanded == CHOOSE f : f = [o \in SUBSET DOMAIN d |-> row(f, o)]
  <1>6. expanded = [o \in SUBSET DOMAIN d |-> row(expanded, o)]
    <2>1. PICK f : SolvesBelow(f, N + 1)
      <3>1. N + 1 \in Nat
        BY <1>9
      <3> HIDE DEF SolvesBelow, N
      <3>2. QED
        BY <1>5, <3>1
    <2>2. ASSUME NEW o \in SUBSET DOMAIN d PROVE f[o] = row(f, o)
      <3>1. left(o) < N + 1
        BY <1>2
      <3> HIDE DEF left, row
      <3>2. QED
        BY <2>1, <3>1
    <2>3. f = [o \in SUBSET DOMAIN d |-> row(f, o)]
      <3> HIDE DEF row, left
      <3> QED
        BY <2>1, <2>2
    <2> HIDE DEF row
    <2>4. QED
      BY <2>3
  <1>7. \A ref \in DOMAIN d, o \in SUBSET DOMAIN d :
            /\ ResolveSchema(d, ref, o) = ResolvedSchema(d, expanded, ref, o)
            /\ ResolveSchema(d, ref, o) = expanded[o][ref]
    <2>1. \A ref \in DOMAIN d, o \in SUBSET DOMAIN d : ResolveSchema(d, ref, o) = expanded[o][ref]
      BY DEF ResolveSchema
    <2> HIDE DEF expanded
    <2>2. \A ref \in DOMAIN d, o \in SUBSET DOMAIN d : expanded[o][ref] = ResolvedSchema(d, expanded, ref, o)
      BY <1>6
    <2>3. QED
      BY <2>1, <2>2
  <1>8. QED
    <2> HIDE DEF expanded
    <2>1. CASE name \in seen
      BY <1>7, <2>1 DEF ResolvedSchema
    <2>2. CASE name \notin seen
      <3> DEFINE more == seen \cup {name}
                 ByCall(refs)  == [x \in DOMAIN refs |-> ResolveSchema(d, refs[x], more)]
                 ByTable(refs) == [x \in DOMAIN refs |-> expanded[more][refs[x]]]
      <3>1. more \in SUBSET DOMAIN d
        OBVIOUS
      <3>2. \A ref \in DOMAIN d : ResolveSchema(d, ref, more) = expanded[more][ref]
        BY <1>7, <3>1
      <3>3. ASSUME NEW refs, \A x \in DOMAIN refs : refs[x] \in DOMAIN d
            PROVE  ByCall(refs) = ByTable(refs)
        BY <3>2, <3>3
      <3>4. IsSchema(d[name], DOMAIN d)
        BY DocumentsAssumption
      <3>5. /\ ByCall(d[name].props) = ByTable(d[name].props)
            /\ ByCall(d[name].items) = ByTable(d[name].items)
            /\ ByCall(d[name].oneOf) = ByTable(d[name].oneOf)
            /\ ByCall(d[name].anyOf) = ByTable(d[name].anyOf)
            /\ ByCall(d[name].allOf) = ByTable(d[name].allOf)
            /\ ByCall(d[name].others) = ByTable(d[name].others)
        <4> HIDE DEF ByCall, ByTable
        <4>1. \A refs : refs \in Seq(DOMAIN d) => \A x \in DOMAIN refs : refs[x] \in DOMAIN d
          OBVIOUS
        <4>2. QED
          BY <3>3, <4>1, SchemaFields
      <3>6. ResolveSchema(d, name, seen) =
              [d[name] EXCEPT !.origin = name, !.props = ByTable(@), !.items = ByTable(@),
                              !.oneOf = ByTable(@), !.anyOf = ByTable(@), !.allOf = ByTable(@),
                              !.others = ByTable(@)]
        <4>1. ResolvedSchema(d, expanded, name, seen) =
              [d[name] EXCEPT !.origin = name, !.props = ByTable(@), !.items = ByTable(@),
                              !.oneOf = ByTable(@), !.anyOf = ByTable(@), !.allOf = ByTable(@),
                              !.others = ByTable(@)]
          BY <2>2, Zenon DEF ResolvedSchema
        <4> HIDE DEF ByTable
        <4>2. QED
          BY <1>7, <4>1
      <3>7. QED
        <4> HIDE DEF ByTable, more
        <4>1. ResolveSchema(d, name, seen) =
              [d[name] EXCEPT !.origin = name, !.props = ByCall(@), !.items = ByCall(@),
                              !.oneOf = ByCall(@), !.anyOf = ByCall(@), !.allOf = ByCall(@),
                              !.others = ByCall(@)]
          <5> HIDE DEF ByCall
          <5> QED
            BY <3>4, <3>5, <3>6 DEF IsSchema
        <4>2. QED
          BY <2>2, <4>1, Zenon DEF more, ResolveAll
    <2>3. QED
      BY <2>1, <2>2

\* The keywords of a resolved schema are those of the schema, its references resolved.
LEMMA ResolvedKeywords ==
    ASSUME NEW d \in Documents, NEW name \in DOMAIN d, NEW seen \in SUBSET DOMAIN d, name \notin seen
    PROVE  LET tree == ResolveSchema(d, name, seen)
               Expand(refs) == ResolveAll(d, refs, seen \cup {name}) IN
           /\ tree.origin = name /\ tree.type = d[name].type
           /\ tree.example = d[name].example /\ tree.enum = d[name].enum
           /\ tree.required = d[name].required
           /\ tree.minItems = d[name].minItems /\ tree.maxItems = d[name].maxItems
           /\ tree.props = Expand(d[name].props) /\ tree.items = Expand(d[name].items)
           /\ tree.oneOf = Expand(d[name].oneOf) /\ tree.anyOf = Expand(d[name].anyOf)
           /\ tree.allOf = Expand(d[name].allOf) /\ tree.others = Expand(d[name].others)
PROOF
  <1> DEFINE tree == ResolveSchema(d, name, seen)
             Expand(refs) == ResolveAll(d, refs, seen \cup {name})
  <1>1. tree = [d[name] EXCEPT !.origin = name, !.props = Expand(@), !.items = Expand(@),
                               !.oneOf = Expand(@), !.anyOf = Expand(@),
                               !.allOf = Expand(@), !.others = Expand(@)]
    BY Resolved
  <1>2. IsSchema(d[name], DOMAIN d)
    BY DocumentsAssumption
  <1> HIDE DEF tree, Expand
  <1>3. /\ tree.origin = name /\ tree.type = d[name].type
        /\ tree.example = d[name].example /\ tree.enum = d[name].enum
        /\ tree.required = d[name].required
        /\ tree.minItems = d[name].minItems /\ tree.maxItems = d[name].maxItems
        /\ tree.props = Expand(d[name].props) /\ tree.items = Expand(d[name].items)
        /\ tree.oneOf = Expand(d[name].oneOf) /\ tree.anyOf = Expand(d[name].anyOf)
        /\ tree.allOf = Expand(d[name].allOf) /\ tree.others = Expand(d[name].others)
    BY <1>1, <1>2 DEF IsSchema
  <1>4. QED
    BY <1>3 DEF tree, Expand

\* The parts of a resolved schema are those that it refers to, resolved.
LEMMA ResolvedParts ==
    ASSUME NEW d \in Documents, NEW name \in DOMAIN d, NEW seen \in SUBSET DOMAIN d
    PROVE  Subschemas(ResolveSchema(d, name, seen)) =
             IF name \in seen THEN {}
             ELSE {ResolveSchema(d, ref, seen \cup {name}) : ref \in References(d[name])}
PROOF
  <1> DEFINE tree == ResolveSchema(d, name, seen)
             Part(ref) == ResolveSchema(d, ref, seen \cup {name})
             Expand(refs) == ResolveAll(d, refs, seen \cup {name})
  <1>1. CASE name \in seen
    <2>1. tree = CircularRef(name)
      BY <1>1, Resolved
    <2>2. /\ tree.props = <<>> /\ tree.items = <<>> /\ tree.oneOf = <<>> /\ tree.anyOf = <<>>
          /\ tree.allOf = <<>> /\ tree.others = <<>>
      BY <2>1 DEF CircularRef, NoKeywords
    <2> HIDE DEF tree
    <2>3. Subschemas(tree) = {}
      BY <2>2 DEF Subschemas, ToSet
    <2>4. QED
      BY <1>1, <2>3 DEF tree
  <1>2. CASE name \notin seen
    <2>1. /\ tree.props = Expand(d[name].props) /\ tree.items = Expand(d[name].items)
          /\ tree.oneOf = Expand(d[name].oneOf) /\ tree.anyOf = Expand(d[name].anyOf)
          /\ tree.allOf = Expand(d[name].allOf) /\ tree.others = Expand(d[name].others)
      BY <1>2, ResolvedKeywords
    <2> DEFINE Made(refs) == {Part(ref) : ref \in refs}
    <2>2. ASSUME NEW refs PROVE ToSet(Expand(refs)) = Made(ToSet(refs))
      <3> DEFINE s == Expand(refs)
      <3>1. DOMAIN s = DOMAIN refs /\ \A x \in DOMAIN refs : s[x] = Part(refs[x])
        BY DEF ResolveAll
      <3> HIDE DEF s, Part
      <3>2. ToSet(s) = Made(ToSet(refs))
        BY <3>1 DEF ToSet
      <3>3. QED
        BY <3>2 DEF s
    <2>3. ASSUME NEW A, NEW B PROVE Made(A \cup B) = Made(A) \cup Made(B)
      BY Zenon
    <2> HIDE DEF tree, Expand, Made
    <2>4. Subschemas(tree) = Made(References(d[name]))
      <3> DEFINE P == ToSet(d[name].props)
                 I == ToSet(d[name].items)
                 O == ToSet(d[name].oneOf)
                 Y == ToSet(d[name].anyOf)
                 L == ToSet(d[name].allOf)
                 X == ToSet(d[name].others)
      <3>1. Subschemas(tree) = ToSet(tree.props) \cup ToSet(tree.items) \cup ToSet(tree.oneOf)
                               \cup ToSet(tree.anyOf) \cup ToSet(tree.allOf) \cup ToSet(tree.others)
        BY Zenon DEF Subschemas, ToSet
      <3>2. References(d[name]) = (((O \cup Y) \cup L) \cup (P \cup I)) \cup X
        BY Zenon DEF References, Composed, Parts, ToSet
      <3>3. Subschemas(tree) = Made(P) \cup Made(I) \cup Made(O) \cup Made(Y) \cup Made(L) \cup Made(X)
        BY <2>1, <2>2, <3>1
      <3> HIDE DEF P, I, O, Y, L, X
      <3>4. /\ Made(References(d[name])) = Made(((O \cup Y) \cup L) \cup (P \cup I)) \cup Made(X)
            /\ Made(((O \cup Y) \cup L) \cup (P \cup I)) = Made((O \cup Y) \cup L) \cup Made(P \cup I)
            /\ Made((O \cup Y) \cup L) = Made(O \cup Y) \cup Made(L)
            /\ Made(O \cup Y) = Made(O) \cup Made(Y) /\ Made(P \cup I) = Made(P) \cup Made(I)
        BY <2>3, <3>2
      <3>5. QED
        BY <3>3, <3>4
    <2>6. QED
      BY <1>2, <2>4 DEF tree, Made
  <1>3. QED
    BY <1>1, <1>2

\* A schema resolved at any place is one of the trees.
LEMMA SchemaTreesAre ==
    ASSUME NEW tree
    PROVE  tree \in SchemaTrees <=>
             \E d \in Documents : \E name \in DOMAIN d, seen \in SUBSET DOMAIN d : tree = ResolveSchema(d, name, seen)
PROOF
  <1> DEFINE PlacesOf(d) == {d} \X (DOMAIN d) \X SUBSET DOMAIN d
             Places == UNION {PlacesOf(d) : d \in Documents}
  <1>1. SchemaTrees = {ResolveSchema(at[1], at[2], at[3]) : at \in Places}
    BY DEF SchemaTrees
  <1>2. ASSUME tree \in SchemaTrees
        PROVE  \E d \in Documents : \E name \in DOMAIN d, seen \in SUBSET DOMAIN d : tree = ResolveSchema(d, name, seen)
    <2>1. PICK d \in Documents : \E at \in PlacesOf(d) : tree = ResolveSchema(at[1], at[2], at[3])
      BY <1>1, <1>2
    <2>2. PICK at \in PlacesOf(d) : tree = ResolveSchema(at[1], at[2], at[3])
      BY <2>1
    <2>3. at[1] = d /\ at[2] \in DOMAIN d /\ at[3] \in SUBSET DOMAIN d
      OBVIOUS
    <2>4. QED
      BY <2>2, <2>3
  <1>3. ASSUME NEW d \in Documents, NEW name \in DOMAIN d, NEW seen \in SUBSET DOMAIN d,
               tree = ResolveSchema(d, name, seen)
        PROVE  tree \in SchemaTrees
    <2>1. <<d, name, seen>> \in PlacesOf(d)
      OBVIOUS
    <2>2. <<d, name, seen>> \in Places
      <3> HIDE DEF PlacesOf
      <3> QED
        BY <2>1
    <2> HIDE DEF Places
    <2>3. QED
      BY <1>1, <1>3, <2>2
  <1>4. QED
    BY <1>2, <1>3

\* References of a document that hold to the names in it.
LEMMA ReferencesAreNames ==
    ASSUME NEW d \in Documents, NEW name \in DOMAIN d PROVE References(d[name]) \subseteq DOMAIN d
PROOF
  <1> DEFINE s == d[name]
  <1>1. ASSUME NEW refs \in Seq(DOMAIN d) PROVE ToSet(refs) \subseteq DOMAIN d
    BY DEF ToSet
  <1>2. {s.props[key] : key \in DOMAIN s.props} \subseteq DOMAIN d
    <2>1. s.props \in [DOMAIN s.props -> DOMAIN d]
      BY SchemaFields
    <2> HIDE DEF s
    <2>2. QED
      BY <2>1
  <1>3. /\ ToSet(s.items) \subseteq DOMAIN d /\ ToSet(s.oneOf) \subseteq DOMAIN d
        /\ ToSet(s.anyOf) \subseteq DOMAIN d /\ ToSet(s.allOf) \subseteq DOMAIN d
        /\ ToSet(s.others) \subseteq DOMAIN d
    BY <1>1, SchemaFields
  <1>4. References(s) \subseteq DOMAIN d
    <2> HIDE DEF s
    <2> QED
      BY <1>2, <1>3 DEF References, Composed, Parts
  <1>5. QED
    BY <1>4

\* A resolved schema has no end of parts: the resolver stops at what is open.
LEMMA TreeLevels ==
    \E level \in [SchemaTrees -> Nat] :
        \A tree \in SchemaTrees : \A part \in Subschemas(tree) : part \in SchemaTrees /\ level[part] < level[tree]
PROOF
  <1> DEFINE left(d, seen) == Cardinality(DOMAIN d \ seen)
             Lefts(tree) == {n \in Nat : \E d \in Documents : \E name \in DOMAIN d, seen \in SUBSET DOMAIN d :
                                           tree = ResolveSchema(d, name, seen) /\ n = left(d, seen)}
             Least(tree) == CHOOSE n \in Lefts(tree) : \A m \in Lefts(tree) : n <= m
             level == [tree \in SchemaTrees |-> Least(tree)]
  <1>1. ASSUME NEW d \in Documents, NEW seen \in SUBSET DOMAIN d PROVE left(d, seen) \in Nat
    BY DocumentsAssumption, FS_Subset, FS_CardinalityType
  <1>2. ASSUME NEW d \in Documents, NEW seen \in SUBSET DOMAIN d, NEW name \in DOMAIN d, name \notin seen
        PROVE  left(d, seen \cup {name}) < left(d, seen)
    <2> DEFINE rest == DOMAIN d \ seen
    <2>1. IsFiniteSet(rest) /\ name \in rest
      BY <1>2, DocumentsAssumption, FS_Subset
    <2>2. rest \ {name} = DOMAIN d \ (seen \cup {name})
      OBVIOUS
    <2>3. Cardinality(rest) \in Nat
      BY <1>1
    <2> HIDE DEF rest
    <2>4. Cardinality(rest \ {name}) = Cardinality(rest) - 1
      BY <2>1, FS_RemoveElement
    <2>5. QED
      BY <2>2, <2>3, <2>4 DEF rest
  <1>3. ASSUME NEW d \in Documents, NEW name \in DOMAIN d, NEW seen \in SUBSET DOMAIN d
        PROVE  left(d, seen) \in Lefts(ResolveSchema(d, name, seen))
    BY <1>1
  <1>4. ASSUME NEW tree \in SchemaTrees
        PROVE  level[tree] \in Lefts(tree) /\ \A m \in Lefts(tree) : level[tree] <= m
    <2>1. PICK d \in Documents : \E name \in DOMAIN d, seen \in SUBSET DOMAIN d : tree = ResolveSchema(d, name, seen)
      BY SchemaTreesAre
    <2>2. Lefts(tree) # {} /\ Lefts(tree) \in SUBSET Nat
      BY <1>3, <2>1
    <2> HIDE DEF Lefts
    <2>3. \E n \in Lefts(tree) : \A m \in Lefts(tree) : n <= m
      BY <2>2, LeastNumber
    <2>4. QED
      BY <2>3
  <1>5. level \in [SchemaTrees -> Nat]
    <2> SUFFICES ASSUME NEW tree \in SchemaTrees PROVE level[tree] \in Nat
      <3> HIDE DEF Least
      <3> QED
        OBVIOUS
    <2> QED
      BY <1>4
  <1> HIDE DEF level
  <1>6. ASSUME NEW tree \in SchemaTrees, NEW part \in Subschemas(tree)
        PROVE  part \in SchemaTrees /\ level[part] < level[tree]
    <2>1. PICK d \in Documents : \E name \in DOMAIN d, seen \in SUBSET DOMAIN d :
                tree = ResolveSchema(d, name, seen) /\ level[tree] = left(d, seen)
      BY <1>4
    <2>2. PICK name \in DOMAIN d, seen \in SUBSET DOMAIN d :
                tree = ResolveSchema(d, name, seen) /\ level[tree] = left(d, seen)
      BY <2>1
    <2> HIDE DEF left, Lefts
    <2>3. name \notin seen
      BY <2>2, ResolvedParts
    <2>4. PICK ref \in References(d[name]) : part = ResolveSchema(d, ref, seen \cup {name})
      BY <2>2, <2>3, ResolvedParts
    <2>5. ref \in DOMAIN d /\ seen \cup {name} \in SUBSET DOMAIN d
      BY <2>4, ReferencesAreNames
    <2>6. part \in SchemaTrees
      BY <2>4, <2>5, SchemaTreesAre
    <2>7. level[part] <= left(d, seen \cup {name})
      BY <1>3, <1>4, <2>4, <2>5, <2>6
    <2>8. left(d, seen \cup {name}) < left(d, seen) /\ left(d, seen) \in Nat /\ left(d, seen \cup {name}) \in Nat
      BY <1>1, <1>2, <2>3, <2>5
    <2>9. level[part] \in Nat
      BY <1>5, <2>6
    <2>10. QED
      BY <2>2, <2>6, <2>7, <2>8, <2>9
  <1>7. QED
    BY <1>5, <1>6

\* What holds of a resolved schema whenever it holds of its parts holds of all.
GoesUpTrees(Good) == \A tree \in SchemaTrees : Subschemas(tree) \subseteq Good => tree \in Good

\* What passes from the parts of a tree up to the tree holds of every tree.
LEMMA TreeInduction == ASSUME NEW Good, GoesUpTrees(Good) PROVE SchemaTrees \subseteq Good
PROOF
  <1>1. PICK level \in [SchemaTrees -> Nat] :
          \A tree \in SchemaTrees : \A part \in Subschemas(tree) : part \in SchemaTrees /\ level[part] < level[tree]
    BY TreeLevels
  <1>2. PassesUp(SchemaTrees, level, Good)
    BY <1>1 DEF PassesUp, GoesUpTrees
  <1>3. QED
    BY <1>2, Descent

\* A function of resolved schemas may be defined by what it is for their parts.
FromSubschemas(X, step) ==
    \A tree \in SchemaTrees : \A f, g \in [SchemaTrees -> X] :
        (\A part \in Subschemas(tree) : f[part] = g[part]) => step[tree][f] = step[tree][g]

\* A recursive definition on trees that only looks at their parts defines a function.
LEMMA TreeRecursion ==
    ASSUME NEW X, X # {}, NEW step \in [SchemaTrees -> [[SchemaTrees -> X] -> X]], FromSubschemas(X, step)
    PROVE  \E f \in [SchemaTrees -> X] : Solves(f, SchemaTrees, step)
PROOF
  <1>1. PICK level \in [SchemaTrees -> Nat] :
          \A tree \in SchemaTrees : \A part \in Subschemas(tree) : part \in SchemaTrees /\ level[part] < level[tree]
    BY TreeLevels
  <1>2. LooksDown(SchemaTrees, X, level, step)
    BY <1>1 DEF LooksDown, FromSubschemas
  <1>3. QED
    BY <1>2, Recursion

\* The keywords of a tree are of the types of those of a schema.
LEMMA TreeFields ==
    ASSUME NEW tree \in SchemaTrees
    PROVE  /\ tree.origin \in STRING
           /\ tree.example \in Seq(JSONValues) /\ tree.enum \in Seq(JSONValues)
           /\ tree.required \in SUBSET STRING
           /\ tree.props \in [DOMAIN tree.props -> SchemaTrees] /\ DOMAIN tree.props \subseteq STRING
           /\ IsFiniteSet(DOMAIN tree.props \cup tree.required)
           /\ tree.items \in Seq(SchemaTrees) /\ Len(tree.items) <= 1
           /\ tree.minItems \in Nat /\ tree.maxItems \in Nat
           /\ tree.oneOf \in Seq(SchemaTrees) /\ tree.anyOf \in Seq(SchemaTrees)
           /\ tree.allOf \in Seq(SchemaTrees)
PROOF
  <1>1. PICK d \in Documents : \E name \in DOMAIN d, seen \in SUBSET DOMAIN d : tree = ResolveSchema(d, name, seen)
    BY SchemaTreesAre
  <1>5. PICK name \in DOMAIN d, seen \in SUBSET DOMAIN d : tree = ResolveSchema(d, name, seen)
    BY <1>1
  <1>2. CASE name \in seen
    <2>1. tree = [NoKeywords EXCEPT !.origin = name]
      <3>1. tree = CircularRef(name)
        BY <1>5, <1>2, Resolved
      <3>2. QED
        BY <3>1 DEF CircularRef
    <2>2. name \in STRING
      BY DocumentsAssumption
    <2>3. IsFiniteSet({})
      BY FS_EmptySet
    <2>4. QED
      <3>1. /\ tree.type = "" /\ tree.origin = name /\ tree.example = <<>> /\ tree.enum = <<>>
            /\ tree.required = {} /\ tree.props = <<>> /\ tree.items = <<>> /\ tree.minItems = 0
            /\ tree.maxItems = 0 /\ tree.oneOf = <<>> /\ tree.anyOf = <<>> /\ tree.allOf = <<>>
        BY <2>1 DEF NoKeywords
      <3>2. /\ <<>> \in Seq(JSONValues) /\ <<>> \in Seq(SchemaTrees) /\ Len(<<>>) <= 1
            /\ <<>> \in [DOMAIN <<>> -> SchemaTrees] /\ DOMAIN <<>> = {}
        OBVIOUS
      <3>3. QED
        <4>1. tree.props \in [DOMAIN tree.props -> SchemaTrees] /\ DOMAIN tree.props = {}
          BY <3>1, <3>2
        <4>2. DOMAIN tree.props \cup tree.required = {}
          BY <3>1, <4>1
        <4>3. QED
          <5>1. IsFiniteSet(DOMAIN tree.props \cup tree.required)
            BY <2>3, <4>2
          <5>2. tree.origin \in STRING /\ tree.minItems \in Nat /\ tree.maxItems \in Nat
            <6>1. tree.origin = name /\ tree.minItems = 0 /\ tree.maxItems = 0
              BY <3>1
            <6>2. tree.origin \in STRING
              BY <2>2, <6>1
            <6>3. tree.minItems \in Nat /\ tree.maxItems \in Nat
              BY <6>1
            <6>4. QED
              BY <6>2, <6>3
          <5>3. tree.example \in Seq(JSONValues) /\ tree.enum \in Seq(JSONValues)
            BY <3>1, <3>2
          <5>4. tree.items \in Seq(SchemaTrees) /\ Len(tree.items) <= 1 /\ tree.oneOf \in Seq(SchemaTrees)
                /\ tree.anyOf \in Seq(SchemaTrees) /\ tree.allOf \in Seq(SchemaTrees)
            BY <3>1, <3>2
          <5>5. tree.required \in SUBSET STRING
            BY <3>1
          <5>6. QED
            BY <4>1, <5>1, <5>2, <5>3, <5>4, <5>5
  <1>3. CASE name \notin seen
    <2> DEFINE Expand(refs) == ResolveAll(d, refs, seen \cup {name})
    <2>1. /\ tree.origin = name /\ tree.type = d[name].type
          /\ tree.example = d[name].example /\ tree.enum = d[name].enum
          /\ tree.required = d[name].required
          /\ tree.minItems = d[name].minItems /\ tree.maxItems = d[name].maxItems
          /\ tree.props = Expand(d[name].props) /\ tree.items = Expand(d[name].items)
          /\ tree.oneOf = Expand(d[name].oneOf) /\ tree.anyOf = Expand(d[name].anyOf)
          /\ tree.allOf = Expand(d[name].allOf)
      BY <1>5, <1>3, ResolvedKeywords
    <2>2. IsSchema(d[name], DOMAIN d) /\ name \in STRING
      BY DocumentsAssumption
    <2>3. \A ref \in DOMAIN d : ResolveSchema(d, ref, seen \cup {name}) \in SchemaTrees
      <3>1. seen \cup {name} \in SUBSET DOMAIN d
        OBVIOUS
      <3>2. QED
        BY <3>1, SchemaTreesAre
    <2>4. ASSUME NEW refs \in Seq(DOMAIN d) PROVE Expand(refs) \in Seq(SchemaTrees) /\ Len(Expand(refs)) = Len(refs)
      <3>1. refs \in [1..Len(refs) -> DOMAIN d] /\ Len(refs) \in Nat
        OBVIOUS
      <3>2. Expand(refs) \in [1..Len(refs) -> SchemaTrees]
        BY <2>3, <3>1 DEF ResolveAll
      <3> HIDE DEF Expand
      <3>3. QED
        BY <3>1, <3>2
    <2>5. ASSUME NEW K, NEW refs \in [K -> DOMAIN d] PROVE Expand(refs) \in [K -> SchemaTrees] /\ DOMAIN Expand(refs) = K
      BY <2>3 DEF ResolveAll
    <2> HIDE DEF Expand
    <2>6. /\  d[name].example \in Seq(JSONValues) /\ d[name].enum \in Seq(JSONValues)
          /\ d[name].required \in SUBSET STRING
          /\ d[name].props \in [DOMAIN d[name].props -> DOMAIN d] /\ DOMAIN d[name].props \subseteq STRING
          /\ IsFiniteSet(DOMAIN d[name].props \cup d[name].required)
          /\ d[name].items \in Seq(DOMAIN d) /\ Len(d[name].items) <= 1
          /\ d[name].minItems \in Nat /\ d[name].maxItems \in Nat
          /\ d[name].oneOf \in Seq(DOMAIN d) /\ d[name].anyOf \in Seq(DOMAIN d) /\ d[name].allOf \in Seq(DOMAIN d)
      BY <2>2 DEF IsSchema
    <2>7. tree.props \in [DOMAIN d[name].props -> SchemaTrees] /\ DOMAIN tree.props = DOMAIN d[name].props
      <3>1. tree.props = Expand(d[name].props) /\ d[name].props \in [DOMAIN d[name].props -> DOMAIN d]
        BY <2>1, <2>6
      <3>2. Expand(d[name].props) \in [DOMAIN d[name].props -> SchemaTrees]
        BY <2>5, <3>1
      <3>3. QED
        BY <3>1, <3>2
    <2>8. QED
      BY <2>1, <2>2, <2>4, <2>6, <2>7
  <1>4. QED
    BY <1>2, <1>3

\* Everything at a place in a resolved schema is one of its parts.
LEMMA TreeParts ==
    ASSUME NEW tree \in SchemaTrees
    PROVE  /\ Subschemas(tree) \subseteq SchemaTrees
           /\ \A key \in DOMAIN tree.props : tree.props[key] \in Subschemas(tree)
           /\ \A i \in DOMAIN tree.items : tree.items[i] \in Subschemas(tree)
           /\ \A i \in DOMAIN tree.oneOf : tree.oneOf[i] \in Subschemas(tree)
           /\ \A i \in DOMAIN tree.anyOf : tree.anyOf[i] \in Subschemas(tree)
           /\ \A i \in DOMAIN tree.allOf : tree.allOf[i] \in Subschemas(tree)
PROOF
  <1>1. Subschemas(tree) \subseteq SchemaTrees
    BY TreeLevels
  <1>2. QED
    BY <1>1 DEF Subschemas, ToSet

-----------------------------------------------------------------------------
\* Values

\* A value is what its fields say, and its parts are values.
LEMMA JSONFields ==
    ASSUME OnlyJSON, NEW v \in JSONValues
    PROVE  /\ v = JSON(v.kind, v.text, v.fields, v.elems) /\ IsFiniteSet(DOMAIN v.fields)
           /\ v.kind \in STRING /\ v.text \in STRING /\ DOMAIN v.fields \subseteq STRING
           /\ v.fields \in [DOMAIN v.fields -> JSONValues] /\ v.elems \in Seq(JSONValues)
           /\ v.kind = "object" => v = Object(v.fields)
           /\ \A key \in DOMAIN v.fields : v.fields[key] \in ValuesIn(v)
           /\ \A i \in DOMAIN v.elems : v.elems[i] \in ValuesIn(v)
           /\ ValuesIn(v) \subseteq JSONValues
PROOF
  <1>1. PICK kind, text \in STRING, keys \in SUBSET STRING :
          \E fields \in [keys -> JSONValues], elems \in Seq(JSONValues) :
            IsFiniteSet(keys) /\ v = JSON(kind, text, fields, elems) /\ WellFormed(v)
    BY DEF OnlyJSON
  <1>2. PICK fields \in [keys -> JSONValues], elems \in Seq(JSONValues) :
            IsFiniteSet(keys) /\ v = JSON(kind, text, fields, elems) /\ WellFormed(v)
    BY <1>1
  <1>3. v.kind = kind /\ v.text = text /\ v.fields = fields /\ v.elems = elems
    BY <1>2 DEF JSON
  <1>4. v.fields \in [DOMAIN v.fields -> JSONValues]
    BY <1>3
  <1>5. \A i \in DOMAIN v.elems : v.elems[i] \in JSONValues
    BY <1>3
  <1>6. ValuesIn(v) \subseteq JSONValues
    BY <1>4, <1>5 DEF ValuesIn, ToSet
  <1>7. /\ \A key \in DOMAIN v.fields : v.fields[key] \in ValuesIn(v)
        /\ \A i \in DOMAIN v.elems : v.elems[i] \in ValuesIn(v)
    BY DEF ValuesIn, ToSet
  <1>8. DOMAIN v.fields \subseteq STRING /\ IsFiniteSet(DOMAIN v.fields)
    BY <1>2, <1>3
  <1>9. v.kind = "object" => v = Object(v.fields)
    BY <1>2 DEF WellFormed
  <1>10. QED
    BY <1>2, <1>3, <1>4, <1>6, <1>7, <1>8, <1>9

\* From its parts up to the value.
GoesUpValues(Good) == \A v \in JSONValues : ValuesIn(v) \subseteq Good => v \in Good

\* What passes from the parts of a value up to the value holds of every value.
LEMMA ValueInduction == ASSUME OnlyJSON, NEW Good, GoesUpValues(Good) PROVE JSONValues \subseteq Good
PROOF
  <1>1. PICK depth \in [JSONValues -> Nat] : \A v \in JSONValues : \A part \in ValuesIn(v) : depth[part] < depth[v]
    BY DEF OnlyJSON
  <1>2. PassesUp(JSONValues, depth, Good)
    BY <1>1, JSONFields DEF PassesUp, GoesUpValues
  <1>3. QED
    BY <1>2, Descent

\* A step that only looks at the parts of the value.
FromValuesIn(X, step) ==
    \A v \in JSONValues : \A f, g \in [JSONValues -> X] :
        (\A part \in ValuesIn(v) : f[part] = g[part]) => step[v][f] = step[v][g]

\* A recursive definition on values that only looks at their parts defines a function.
LEMMA ValueRecursion ==
    ASSUME OnlyJSON, NEW X, X # {}, NEW step \in [JSONValues -> [[JSONValues -> X] -> X]], FromValuesIn(X, step)
    PROVE  \E f \in [JSONValues -> X] : Solves(f, JSONValues, step)
PROOF
  <1>1. PICK depth \in [JSONValues -> Nat] : \A v \in JSONValues : \A part \in ValuesIn(v) : depth[part] < depth[v]
    BY DEF OnlyJSON
  <1>2. LooksDown(JSONValues, X, depth, step)
    BY <1>1, JSONFields DEF LooksDown, FromValuesIn
  <1>3. QED
    BY <1>2, Recursion

-----------------------------------------------------------------------------
\* Validation

\* The issues of a value depend on those of the parts of the schema only.
LEMMA IssuesOfParts ==
    ASSUME OnlyJSON, NEW tree \in SchemaTrees, NEW v \in JSONValues, NEW f, NEW g,
           \A part \in Subschemas(tree) : f[part] = g[part]
    PROVE  ValueIssues(f, v, tree) = ValueIssues(g, v, tree)
PROOF
  <1>1. CompositionIssues(f, v, tree) = CompositionIssues(g, v, tree)
    <2>1. {f[branch][v] : branch \in ToSet(tree.allOf)} = {g[branch][v] : branch \in ToSet(tree.allOf)}
      <3>1. \A branch \in ToSet(tree.allOf) : f[branch][v] = g[branch][v]
        BY TreeParts DEF ToSet
      <3>2. QED
        BY <3>1
    <2>2. Matching(f, v, tree.anyOf) = Matching(g, v, tree.anyOf)
      BY TreeParts DEF Matching
    <2>3. Matching(f, v, tree.oneOf) = Matching(g, v, tree.oneOf)
      BY TreeParts DEF Matching
    <2>4. QED
      BY <2>1, <2>2, <2>3 DEF CompositionIssues
  <1>2. FieldIssues(f, v, tree) = FieldIssues(g, v, tree)
    <2> DEFINE keys == DOMAIN tree.props \cap DOMAIN v.fields
    <2>1. \A key \in keys : f[tree.props[key]][v.fields[key]] = g[tree.props[key]][v.fields[key]]
      BY TreeParts
    <2>2. {f[tree.props[key]][v.fields[key]] : key \in keys} = {g[tree.props[key]][v.fields[key]] : key \in keys}
      BY <2>1
    <2>3. QED
      BY <2>2 DEF FieldIssues
  <1>3. ItemIssues(f, v, tree) = ItemIssues(g, v, tree)
    <2>1. CASE tree.items = <<>>
      BY <2>1 DEF ItemIssues
    <2>2. CASE tree.items # <<>>
      <3>1. 1 \in DOMAIN tree.items
        <4>1. tree.items \in Seq(SchemaTrees)
          BY TreeFields
        <4>2. QED
          BY <2>2, <4>1
      <3>2. f[tree.items[1]] = g[tree.items[1]]
        BY <3>1, TreeParts
      <3>3. QED
        BY <3>2 DEF ItemIssues
    <2>3. QED
      BY <2>1, <2>2
  <1>4. QED
    BY <1>1, <1>2, <1>3 DEF ValueIssues

Kinds == {"type", "enum", "required", "oneOf", "anyOf"}

\* Issues are of these kinds.
LEMMA IssuesAreKinds ==
    ASSUME OnlyJSON, NEW tree \in SchemaTrees, NEW v \in JSONValues,
           NEW f \in [SchemaTrees -> [JSONValues -> SUBSET Kinds]]
    PROVE  ValueIssues(f, v, tree) \in SUBSET Kinds
PROOF
  <1>1. CompositionIssues(f, v, tree) \subseteq Kinds
    <2>1. \A branch \in ToSet(tree.allOf) : f[branch][v] \subseteq Kinds
      BY TreeParts DEF ToSet
    <2>2. QED
      <3> DEFINE S == {f[branch][v] : branch \in ToSet(tree.allOf)}
      <3>1. UNION S \subseteq Kinds
        BY <2>1
      <3> DEFINE A == {k \in {"anyOf"} : tree.anyOf # <<>> /\ Matching(f, v, tree.anyOf) = {}}
                 B == {k \in {"oneOf"} : tree.oneOf # <<>> /\ Cardinality(Matching(f, v, tree.oneOf)) # 1}
      <3>2. A \subseteq Kinds /\ B \subseteq Kinds
        BY DEF Kinds
      <3>3. CompositionIssues(f, v, tree) = (UNION S) \cup A \cup B
        BY Zenon DEF CompositionIssues
      <3> HIDE DEF S, A, B
      <3>4. QED
        BY <3>1, <3>2, <3>3
  <1>2. FieldIssues(f, v, tree) \subseteq Kinds
    <2>1. \A key \in DOMAIN tree.props \cap DOMAIN v.fields : f[tree.props[key]][v.fields[key]] \subseteq Kinds
      BY TreeParts, JSONFields
    <2>2. QED
      BY <2>1 DEF FieldIssues, Kinds
  <1>3. ItemIssues(f, v, tree) \subseteq Kinds
    <2>1. CASE tree.items = <<>>
      BY <2>1 DEF ItemIssues
    <2>2. CASE tree.items # <<>>
      <3>1. tree.items[1] \in SchemaTrees
        <4>1. tree.items \in Seq(SchemaTrees)
          BY TreeFields
        <4>2. QED
          BY <2>2, <4>1
      <3>2. \A item \in ToSet(v.elems) : item \in JSONValues
        BY JSONFields DEF ToSet
      <3>3. QED
        BY <3>1, <3>2 DEF ItemIssues
    <2>3. QED
      BY <2>1, <2>2
  <1>4. QED
    BY <1>1, <1>2, <1>3 DEF ValueIssues, Kinds

\* The validator's recursion is well defined: it descends in the schema.
LEMMA IssuesAre ==
    ASSUME OnlyJSON
    PROVE  \A tree \in SchemaTrees, v \in JSONValues : Issues[tree][v] = ValueIssues(Issues, v, tree)
PROOF
  <1> DEFINE X    == [JSONValues -> SUBSET Kinds]
             step == [tree \in SchemaTrees |-> [f \in [SchemaTrees -> X] |->
                        [v \in JSONValues |-> ValueIssues(f, v, tree)]]]
  <1>1. X # {}
    <2>1. [v \in JSONValues |-> {}] \in X
      OBVIOUS
    <2>2. QED
      BY <2>1
  <1>2. step \in [SchemaTrees -> [[SchemaTrees -> X] -> X]]
    BY IssuesAreKinds
  <1>3. FromSubschemas(X, step)
    <2> SUFFICES ASSUME NEW tree \in SchemaTrees, NEW f \in [SchemaTrees -> X], NEW g \in [SchemaTrees -> X],
                        \A part \in Subschemas(tree) : f[part] = g[part]
                 PROVE  step[tree][f] = step[tree][g]
      <3> HIDE DEF step, X
      <3> QED
        BY DEF FromSubschemas
    <2>1. \A v \in JSONValues : ValueIssues(f, v, tree) = ValueIssues(g, v, tree)
      BY IssuesOfParts
    <2>2. QED
      BY <2>1
  <1>4. PICK f \in [SchemaTrees -> X] : Solves(f, SchemaTrees, step)
    <2> HIDE DEF X, step
    <2> QED
      BY <1>1, <1>2, <1>3, TreeRecursion
  <1>5. f = [tree \in SchemaTrees |-> [v \in JSONValues |-> ValueIssues(f, v, tree)]]
    BY <1>4 DEF Solves
  <1>6. Issues = [tree \in SchemaTrees |-> [v \in JSONValues |-> ValueIssues(Issues, v, tree)]]
    BY <1>5, Zenon DEF Issues
  <1>7. QED
    BY <1>6

-----------------------------------------------------------------------------
\* Reading a body

\* bodyForValidation does what its definition says of every value.
LEMMA BodyForValidationIs ==
    ASSUME OnlyJSON
    PROVE  \A v \in JSONValues :
             bodyForValidation[v] =
               IF IsEnvelope(v) THEN bodyForValidation[v.fields["body"]]
               ELSE IF looksLikeJSON(v) /\ Parses(v) THEN Parsed(v) ELSE v
PROOF
  <1> DEFINE X       == JSONValues \cup {0}
             At(f, v) == IF IsEnvelope(v) THEN f[v.fields["body"]]
                         ELSE IF looksLikeJSON(v) /\ Parses(v) THEN Parsed(v) ELSE v
             step    == [v \in JSONValues |-> [f \in [JSONValues -> X] |-> At(f, v)]]
  <1>1. \A v \in JSONValues : IsEnvelope(v) => v.fields["body"] \in ValuesIn(v) /\ v.fields["body"] \in JSONValues
    BY JSONFields DEF IsEnvelope
  <1>2. \A v \in JSONValues : Parses(v) => Parsed(v) \in JSONValues
    <2> SUFFICES ASSUME NEW v \in JSONValues, Parses(v) PROVE v.elems[1] \in JSONValues
      BY DEF Parsed
    <2>1. v.elems \in Seq(JSONValues) /\ v.elems # <<>>
      BY JSONFields DEF Parses
    <2>2. QED
      BY <2>1
  <1>3. ASSUME NEW v \in JSONValues, NEW f \in [JSONValues -> X] PROVE At(f, v) \in X
    BY <1>1, <1>2
  <1>4. step \in [JSONValues -> [[JSONValues -> X] -> X]]
    <2> HIDE DEF At, X
    <2> QED
      BY <1>3
  <1>5. FromValuesIn(X, step)
    <2> SUFFICES ASSUME NEW v \in JSONValues, NEW f \in [JSONValues -> X], NEW g \in [JSONValues -> X],
                        \A part \in ValuesIn(v) : f[part] = g[part]
                 PROVE  At(f, v) = At(g, v)
      <3> HIDE DEF At, X
      <3> QED
        BY DEF FromValuesIn
    <2> QED
      BY <1>1
  <1>6. PICK f \in [JSONValues -> X] : Solves(f, JSONValues, step)
    <2>1. X # {}
      OBVIOUS
    <2> HIDE DEF X, step
    <2>2. QED
      BY <1>4, <1>5, <2>1, ValueRecursion
  <1>7. f = [v \in JSONValues |-> At(f, v)]
    <2> HIDE DEF At
    <2> QED
      BY <1>6 DEF Solves
  <1>8. bodyForValidation = [v \in JSONValues |-> At(bodyForValidation, v)]
    BY <1>7, Zenon DEF bodyForValidation
  <1>9. \A v \in JSONValues : bodyForValidation[v] = At(bodyForValidation, v)
    <2> HIDE DEF At
    <2> QED
      BY <1>8
  <1>10. QED
    BY <1>9

\* What validate_response makes of an envelope that it is given in either way.
Handed(envelope, whole) ==
    IF whole
    THEN normalizeResponseBody("", "", Object([contentType  |-> Scalar("string", envelope.contentType),
                                               bodyEncoding |-> Scalar("string", envelope.bodyEncoding),
                                               body         |-> envelope.body]))
    ELSE normalizeResponseBody(envelope.contentType, envelope.bodyEncoding, envelope.body)

\* The envelope that execute makes of an answer.
Received(answer) ==
    decodeResponseBody(answer.contentType, readResponseBodyLimited(answer.payload, answer.fits))

\* A body that is no envelope is left as it was decoded, unless it is read once more;
\* of an envelope in an envelope, the inner one's body is left.
LEMMA HandedBody ==
    ASSUME OnlyJSON, NEW answer \in Answers, NEW whole \in BOOLEAN,
           NEW b, b = Received(answer).body, NEW c, c = Handed(Received(answer), whole).body
    PROVE  \/ c = b
           \/ b \in JSONValues /\ looksLikeJSON(b) /\ Parses(b) /\ c = Parsed(b)
           \/ /\ b \in JSONValues /\ IsEnvelope(b)
              /\ LET inner == b.fields["body"]
                 IN c = IF looksLikeJSON(inner) /\ Parses(inner) THEN Parsed(inner) ELSE inner
PROOF
  <1> DEFINE payload   == readResponseBodyLimited(answer.payload, answer.fits)
             envelope  == Received(answer)
             Read(v)   == IF looksLikeJSON(v) /\ Parses(v) THEN Parsed(v) ELSE v
             Encodings == {"json", "text", "base64"}
  <1>1. payload.kind \in {"string", "bytes"} /\ (Parses(payload) => Parsed(payload) \in JSONValues)
    <2> DEFINE whole_ == answer.payload
    <2>1. /\ whole_ \in JSONValues /\ whole_.kind \in {"string", "bytes"}
          /\ whole_ = JSON(whole_.kind, whole_.text, whole_.fields, whole_.elems) /\ whole_.elems \in Seq(JSONValues)
      BY InputsAssumption, JSONFields
    <2>2. CASE answer.fits
      <3>1. payload = whole_
        BY <2>2 DEF readResponseBodyLimited
      <3> HIDE DEF payload, whole_
      <3>2. QED
        BY <2>1, <3>1 DEF Parses, Parsed
    <2>3. CASE ~ answer.fits
      <3>1. payload = [whole_ EXCEPT !.elems = <<>>]
        BY <2>3 DEF readResponseBodyLimited
      <3> HIDE DEF payload, whole_
      <3>2. payload.kind = whole_.kind /\ payload.elems = <<>>
        BY <2>1, <3>1 DEF JSON
      <3>3. QED
        BY <2>1, <3>2 DEF Parses
    <2>4. QED
      BY <2>2, <2>3
  <1>2. /\ envelope.bodyEncoding \in Encodings
        /\ envelope.bodyEncoding = "json" => b \in JSONValues
        /\ envelope.bodyEncoding = "text" => b.kind = "string"
        /\ envelope.bodyEncoding = "base64" => b = Base64
    <2> HIDE DEF payload
    <2>1. envelope = decodeResponseBody(answer.contentType, payload)
      BY DEF Received, payload
    <2>2. b = envelope.body
      OBVIOUS
    <2> HIDE DEF envelope
    <2>3. QED
      BY <1>1, <2>1, <2>2 DEF decodeResponseBody, Envelope
  <1>3. ASSUME NEW ct, NEW encoding \in Encodings, NEW v
        PROVE  normalizeByEncoding(ct, encoding, v).body =
                 CASE encoding = "json" -> Read(v)
                   [] encoding = "text" -> stringifyBody(v)
                   [] OTHER             -> base64Body(v)
    BY <1>3 DEF normalizeByEncoding, Envelope
  <1>4. \E ct : Handed(envelope, whole) =
          normalizeByEncoding(ct, envelope.bodyEncoding, IF whole \/ ~ IsEnvelope(b) THEN b ELSE b.fields["body"])
    <2>1. b = envelope.body /\ envelope.bodyEncoding # ""
      BY <1>2
    <2> HIDE DEF envelope
    <2>2. CASE whole
      <3> DEFINE fields == [contentType  |-> Scalar("string", envelope.contentType),
                            bodyEncoding |-> Scalar("string", envelope.bodyEncoding),
                            body         |-> envelope.body]
                 object == Object(fields)
      <3>1. /\ object.kind = "object" /\ object.fields = fields
            /\ DOMAIN fields = {"contentType", "bodyEncoding", "body"} /\ fields["body"] = b
            /\ fields["bodyEncoding"].text = envelope.bodyEncoding
        BY <2>1 DEF Object, Scalar, JSON
      <3>2. Handed(envelope, whole) = normalizeResponseBody("", "", object)
        BY <2>2 DEF Handed
      <3> HIDE DEF object, fields
      <3>3. IsEnvelope(object)
        BY <2>1, <3>1 DEF IsEnvelope
      <3>4. QED
        BY <2>2, <3>1, <3>2, <3>3 DEF normalizeResponseBody
    <2>3. CASE ~ whole
      <3>1. Handed(envelope, whole) = normalizeResponseBody(envelope.contentType, envelope.bodyEncoding, b)
        BY <2>1, <2>3 DEF Handed
      <3>2. QED
        BY <2>1, <2>3, <3>1 DEF normalizeResponseBody
    <2>4. QED
      BY <2>2, <2>3
  <1>5. PICK ct : Handed(envelope, whole) =
          normalizeByEncoding(ct, envelope.bodyEncoding, IF whole \/ ~ IsEnvelope(b) THEN b ELSE b.fields["body"])
    BY <1>4
  <1>6. c = Handed(envelope, whole).body
    OBVIOUS
  <1> HIDE DEF envelope
  <1>7. CASE envelope.bodyEncoding = "json"
    BY <1>2, <1>3, <1>5, <1>6, <1>7
  <1>8. CASE envelope.bodyEncoding = "text"
    <2>1. b.kind = "string"
      BY <1>2, <1>8
    <2>2. ~ IsEnvelope(b) /\ stringifyBody(b) = b
      BY <2>1 DEF IsEnvelope, stringifyBody, Null, Scalar, JSON
    <2>3. QED
      BY <1>3, <1>5, <1>6, <1>8, <2>2
  <1>9. CASE envelope.bodyEncoding = "base64"
    <2>1. b.kind = "string"
      BY <1>2, <1>9 DEF Base64, Scalar, JSON
    <2>2. ~ IsEnvelope(b) /\ base64Body(b) = b
      BY <2>1 DEF IsEnvelope, base64Body, Null, Scalar, JSON
    <2>3. QED
      BY <1>3, <1>5, <1>6, <1>9, <2>2
  <1>10. QED
    BY <1>2, <1>7, <1>8, <1>9

\* Judged alike.
LEMMA HandedOver ==
    ASSUME OnlyJSON, NEW answer \in Answers, NEW whole \in BOOLEAN,
           TakenAsItIs(bodyForValidation[Received(answer).body])
    PROVE  bodyForValidation[Handed(Received(answer), whole).body] = bodyForValidation[Received(answer).body]
PROOF
  <1> DEFINE b == Received(answer).body
             c == Handed(Received(answer), whole).body
  <1>1. \/ c = b
        \/ b \in JSONValues /\ looksLikeJSON(b) /\ Parses(b) /\ c = Parsed(b)
        \/ /\ b \in JSONValues /\ IsEnvelope(b)
           /\ LET inner == b.fields["body"]
              IN c = IF looksLikeJSON(inner) /\ Parses(inner) THEN Parsed(inner) ELSE inner
    BY HandedBody
  <1>2. TakenAsItIs(bodyForValidation[b])
    OBVIOUS
  <1> HIDE DEF b, c
  <1>3. \A v \in JSONValues : looksLikeJSON(v) => ~ IsEnvelope(v)
    BY DEF looksLikeJSON, IsEnvelope
  <1>4. ASSUME NEW v \in JSONValues, looksLikeJSON(v), Parses(v), TakenAsItIs(bodyForValidation[v])
        PROVE  bodyForValidation[Parsed(v)] = bodyForValidation[v]
    <2>1. bodyForValidation[v] = Parsed(v)
      BY <1>3, <1>4, BodyForValidationIs
    <2>2. Parsed(v) \in JSONValues
      <3>1. v.elems \in Seq(JSONValues) /\ v.elems # <<>>
        BY <1>4, JSONFields DEF Parses
      <3>2. QED
        BY <3>1 DEF Parsed
    <2>3. QED
      BY <1>4, <2>1, <2>2, BodyForValidationIs DEF TakenAsItIs
  <1>5. CASE b \in JSONValues /\ looksLikeJSON(b) /\ Parses(b) /\ c = Parsed(b)
    BY <1>2, <1>4, <1>5 DEF b, c
  <1>6. CASE /\ b \in JSONValues /\ IsEnvelope(b)
             /\ LET inner == b.fields["body"]
                IN c = IF looksLikeJSON(inner) /\ Parses(inner) THEN Parsed(inner) ELSE inner
    <2> DEFINE inner == b.fields["body"]
    <2>1. inner \in JSONValues
      BY <1>6, JSONFields DEF IsEnvelope
    <2>2. bodyForValidation[b] = bodyForValidation[inner]
      BY <1>6, BodyForValidationIs
    <2>3. c = IF looksLikeJSON(inner) /\ Parses(inner) THEN Parsed(inner) ELSE inner
      BY <1>6
    <2> HIDE DEF inner
    <2>4. bodyForValidation[c] = bodyForValidation[b]
      BY <1>2, <1>4, <2>1, <2>2, <2>3
    <2>5. QED
      BY <2>4 DEF b, c
  <1>7. QED
    BY <1>1, <1>5, <1>6 DEF b, c

Reported ==
    stage \in {"answered", "checked"} =>
        \E answer \in Answers :
            /\ asked = answer /\ body = Received(answer)
            /\ verdict = validateResponse(doc, Operation, answer.status, bodyForValidation[body.body])

\* An answer, what is made of it and the verdict on it stay together.
LEMMA ReportedAlways == Spec => []Reported
PROOF
  <1>1. Init => Reported
    BY DEF Init, Reported
  <1>2. Reported /\ [Next]_vars => Reported'
    <2> SUFFICES ASSUME Reported, [Next]_vars PROVE Reported'
      OBVIOUS
    <2>1. ASSUME Resolve PROVE Reported'
      BY <2>1 DEF Resolve, Reported
    <2>2. ASSUME NEW filter \in Filters, SearchOperations(filter) PROVE Reported'
      BY <2>2 DEF SearchOperations, Reported
    <2>3. ASSUME NEW strategy \in Strategies, NEW overrides \in Overrides, GeneratePayload(strategy, overrides)
          PROVE  Reported'
      BY <2>3 DEF GeneratePayload, Reported
    <2>4. ASSUME NEW value \in Values, WriteBody(value[1], value[2]) PROVE Reported'
      BY <2>4 DEF WriteBody, Reported
    <2>5. ASSUME ValidateRequest PROVE Reported'
      BY <2>5 DEF ValidateRequest, Reported
    <2>6. ASSUME NEW answer \in Answers, Execute(answer) PROVE Reported'
      <3>1. /\ asked' = answer /\ body' = Received(answer)
            /\ verdict' = validateResponse(doc, Operation, answer.status, bodyForValidation[body'.body]) /\ doc' = doc
        BY <2>6 DEF Execute, Received
      <3>2. QED
        BY <3>1 DEF Reported
    <2>7. ASSUME NEW whole \in BOOLEAN, ValidateResponse(whole) PROVE Reported'
      <3>1. /\ stage = "answered" /\ asked' = asked /\ body' = body /\ verdict' = verdict /\ doc' = doc
        BY <2>7 DEF ValidateResponse
      <3>2. QED
        BY <3>1 DEF Reported
    <2>8. ASSUME UNCHANGED vars PROVE Reported'
      BY <2>8 DEF vars, Reported
    <2>9. QED
      BY <2>1, <2>2, <2>3, <2>4, <2>5, <2>6, <2>7, <2>8 DEF Next
  <1>3. QED
    BY <1>1, <1>2, PTL DEF Spec

\* validate_response, given what execute has returned, comes to execute's own verdict,
\* whatever the API sent (VerdictsAgree): what the envelope says of the body leaves it
\* as execute has read it.
THEOREM Agreement == ASSUME OnlyJSON PROVE Spec => []VerdictsAgree
PROOF
  <1>1. Init => VerdictsAgree
    BY DEF Init, VerdictsAgree
  <1>2. Reported /\ VerdictsAgree /\ [Next]_vars => VerdictsAgree'
    <2> SUFFICES ASSUME Reported, VerdictsAgree, [Next]_vars PROVE VerdictsAgree'
      OBVIOUS
    <2>1. CASE stage' # "checked"
      BY <2>1 DEF VerdictsAgree
    <2>2. CASE UNCHANGED vars
      BY <2>2 DEF vars, VerdictsAgree
    <2>3. ASSUME NEW whole \in BOOLEAN, ValidateResponse(whole) PROVE VerdictsAgree'
      <3>1. /\ stage = "answered" /\ body' = body /\ verdict' = verdict
            /\ issues' = validateResponse(doc, Operation, asked.status, bodyForValidation[Handed(body, whole).body])
        BY <2>3 DEF ValidateResponse, Handed
      <3>2. PICK answer \in Answers :
              /\ asked = answer /\ body = Received(answer)
              /\ verdict = validateResponse(doc, Operation, answer.status, bodyForValidation[body.body])
        BY <3>1 DEF Reported
      <3>3. ASSUME TakenAsItIs(bodyForValidation[body'.body]) PROVE issues' = verdict'
        <4>1. bodyForValidation[Handed(body, whole).body] = bodyForValidation[body.body]
          BY <3>1, <3>2, <3>3, HandedOver
        <4>2. QED
          BY <3>1, <3>2, <4>1
      <3>4. QED
        BY <3>3 DEF VerdictsAgree
    <2>4. CASE Next /\ stage' = "checked"
      <3>1. \E whole \in BOOLEAN : ValidateResponse(whole)
        BY <2>4 DEF Next, Resolve, SearchOperations, GeneratePayload, WriteBody, ValidateRequest, Execute
      <3>2. QED
        BY <2>3, <3>1
    <2>5. QED
      BY <2>1, <2>2, <2>4
  <1>3. QED
    BY <1>1, <1>2, ReportedAlways, PTL DEF Spec

-----------------------------------------------------------------------------
\* What the document says

\* The pairs of a value and a schema, by the depth of the one and the rank of the other.
LEMMA PairLevels ==
    ASSUME NEW a \in Nat, NEW b \in Nat, NEW n \in Nat, NEW r \in 1..n, NEW s \in 1..n,
           a < b \/ (a = b /\ r < s)
    PROVE  a * (n + 1) + r \in Nat /\ b * (n + 1) + s \in Nat /\ a * (n + 1) + r < b * (n + 1) + s
PROOF
  <1> DEFINE m == n + 1
  <1>1. m \in Nat /\ r \in Nat /\ s \in Nat /\ r < m /\ s >= 1
    OBVIOUS
  <1> HIDE DEF m
  <1>2. a * m \in Nat /\ b * m \in Nat
    BY <1>1
  <1>3. CASE a = b /\ r < s
    BY <1>1, <1>2, <1>3
  <1>4. CASE a < b
    <2> DEFINE k == b - a - 1
    <2>1. k \in Nat /\ b = a + 1 + k
      BY <1>4
    <2> HIDE DEF k
    <2>2. b * m = a * m + m + k * m
      BY <1>1, <2>1
    <2>3. k * m \in Nat
      BY <1>1, <2>1
    <2>4. QED
      BY <1>1, <1>2, <2>2, <2>3
  <1>5. QED
    BY <1>1, <1>2, <1>3, <1>4 DEF m

\* Of an object or an array, AdmittedBy asks after parts of the value, and otherwise
\* after the value itself and the schemas a schema is composed of.
LEMMA AdmittedByParts ==
    ASSUME OnlyJSON, NEW d \in Documents, NEW name \in DOMAIN d, NEW v \in JSONValues, NEW f, NEW g,
           \A ref \in Composed(d[name]) : f[<<v, ref>>] = g[<<v, ref>>],
           \A part \in ValuesIn(v), ref \in DOMAIN d : f[<<part, ref>>] = g[<<part, ref>>]
    PROVE  AdmittedBy(f, d[name], v) = AdmittedBy(g, d[name], v)
PROOF
  <1> DEFINE s == d[name]
             Admitting(h, options) == {i \in DOMAIN options : h[<<v, options[i]>>]}
  <1>1. IsSchema(s, DOMAIN d)
    BY DocumentsAssumption
  <1>2. /\ \A i \in DOMAIN s.allOf : f[<<v, s.allOf[i]>>] = g[<<v, s.allOf[i]>>]
        /\ \A i \in DOMAIN s.anyOf : f[<<v, s.anyOf[i]>>] = g[<<v, s.anyOf[i]>>]
        /\ \A i \in DOMAIN s.oneOf : f[<<v, s.oneOf[i]>>] = g[<<v, s.oneOf[i]>>]
    BY DEF Composed, ToSet
  <1>3. \A key \in DOMAIN s.props \cap DOMAIN v.fields :
           f[<<v.fields[key], s.props[key]>>] = g[<<v.fields[key], s.props[key]>>]
    BY <1>1, JSONFields DEF IsSchema
  <1>4. \A item \in ToSet(v.elems), ref \in ToSet(s.items) : f[<<item, ref>>] = g[<<item, ref>>]
    <2>1. \A ref \in ToSet(s.items) : ref \in DOMAIN d
      <3>1. ToSet(s.items) \subseteq References(s)
        BY DEF References, Parts
      <3>2. QED
        BY <3>1, ReferencesAreNames
    <2>2. \A item \in ToSet(v.elems) : item \in ValuesIn(v)
      BY DEF ValuesIn
    <2>3. QED
      BY <2>1, <2>2
  <1> HIDE DEF s
  <1>5. /\ Admitting(f, s.allOf) = Admitting(g, s.allOf)
        /\ Admitting(f, s.anyOf) = Admitting(g, s.anyOf)
        /\ Admitting(f, s.oneOf) = Admitting(g, s.oneOf)
    BY <1>2
  <1>6. AdmittedBy(f, s, v) = AdmittedBy(g, s, v)
    <2> DEFINE Compositions(h) == /\ Admitting(h, s.allOf) = DOMAIN s.allOf
                                  /\ s.anyOf # <<>> => Admitting(h, s.anyOf) # {}
                                  /\ s.oneOf # <<>> => Cardinality(Admitting(h, s.oneOf)) = 1
               Fields(h) == \A key \in DOMAIN s.props \cap DOMAIN v.fields : h[<<v.fields[key], s.props[key]>>]
               Items(h)  == \A item \in ToSet(v.elems), ref \in ToSet(s.items) : h[<<item, ref>>]
               Here(c, x, y) ==
                   /\ AllowsKind(s, v)
                   /\ v \notin s.excludes
                   /\ s.enum # <<>> => v \in ToSet(s.enum)
                   /\ v.kind = "object" => s.required \ s.oneWay \subseteq DOMAIN v.fields /\ x
                   /\ v.kind = "array" => Len(v.elems) >= s.minItems /\ (s.maxItems > 0 => Len(v.elems) <= s.maxItems) /\ y
                   /\ c
    <2>1. ASSUME NEW h PROVE AdmittedBy(h, s, v) = Here(Compositions(h), Fields(h), Items(h))
      BY Zenon DEF AdmittedBy
    <2>2. Compositions(f) = Compositions(g)
      <3> HIDE DEF Admitting
      <3> QED
        BY <1>5
    <2>3. Fields(f) = Fields(g)
      BY <1>3
    <2>4. Items(f) = Items(g)
      BY <1>4
    <2> HIDE DEF Compositions, Fields, Items, Here
    <2>5. QED
      BY <2>1, <2>2, <2>3, <2>4
  <1>7. QED
    BY <1>6 DEF s

\* What Admits says is what AdmittedBy says, where no schema is composed of itself.
IsAdmitting(admitted, d) ==
    /\ admitted \in [JSONValues \X DOMAIN d -> BOOLEAN]
    /\ \A v \in JSONValues, name \in DOMAIN d :
         /\ admitted[<<v, name>>] = AdmittedBy(admitted, d[name], v)
         /\ Admits(d, name, v) = admitted[<<v, name>>]

LEMMA AdmittedByIsBoolean == ASSUME NEW f, NEW s, NEW v PROVE AdmittedBy(f, s, v) \in BOOLEAN
PROOF
  <1> QED
    BY DEF AdmittedBy

\* Where no schema is composed of itself, what the document admits is well defined.
LEMMA AdmitsIs ==
    ASSUME OnlyJSON, NEW d \in Documents, WellFounded(d)
    PROVE  \E admitted : IsAdmitting(admitted, d)
PROOF
  <1> DEFINE N     == Cardinality(DOMAIN d)
             Pairs == JSONValues \X DOMAIN d
             At(f, p) == AdmittedBy(f, d[p[2]], p[1])
             step  == [p \in Pairs |-> [f \in [Pairs -> BOOLEAN] |-> At(f, p)]]
  <1>1. PICK rank \in [DOMAIN d -> 1..N] : \A name \in DOMAIN d : \A ref \in Composed(d[name]) : rank[ref] < rank[name]
    BY DEF WellFounded, Acyclic
  <1>2. PICK depth \in [JSONValues -> Nat] : \A v \in JSONValues : \A part \in ValuesIn(v) : depth[part] < depth[v]
    BY DEF OnlyJSON
  <1>3. N \in Nat
    BY DocumentsAssumption, FS_CardinalityType
  <1> DEFINE level == [p \in Pairs |-> depth[p[1]] * (N + 1) + rank[p[2]]]
  <1>4. ASSUME NEW p \in Pairs, NEW q \in Pairs,
               depth[p[1]] < depth[q[1]] \/ (depth[p[1]] = depth[q[1]] /\ rank[p[2]] < rank[q[2]])
        PROVE  level[p] < level[q]
    <2>1. depth[p[1]] \in Nat /\ depth[q[1]] \in Nat /\ rank[p[2]] \in 1..N /\ rank[q[2]] \in 1..N
      OBVIOUS
    <2> HIDE DEF N
    <2>2. QED
      BY <1>3, <1>4, <2>1, PairLevels
  <1>5. level \in [Pairs -> Nat]
    <2> SUFFICES ASSUME NEW p \in Pairs PROVE depth[p[1]] * (N + 1) + rank[p[2]] \in Nat
      OBVIOUS
    <2>1. depth[p[1]] \in Nat /\ rank[p[2]] \in 1..N
      OBVIOUS
    <2> HIDE DEF N
    <2>2. depth[p[1]] * (N + 1) \in Nat
      BY <1>3, <2>1
    <2>3. QED
      BY <1>3, <2>1, <2>2
  <1>6. step \in [Pairs -> [[Pairs -> BOOLEAN] -> BOOLEAN]]
    BY AdmittedByIsBoolean
  <1>7. LooksDown(Pairs, BOOLEAN, level, step)
    <2> SUFFICES ASSUME NEW p \in Pairs, NEW f \in [Pairs -> BOOLEAN], NEW g \in [Pairs -> BOOLEAN],
                        \A q \in Pairs : level[q] < level[p] => f[q] = g[q]
                 PROVE  step[p][f] = step[p][g]
      <3> HIDE DEF step, level, Pairs
      <3> QED
        BY DEF LooksDown
    <2>1. p = <<p[1], p[2]>> /\ p[1] \in JSONValues /\ p[2] \in DOMAIN d
      OBVIOUS
    <2>2. ASSUME NEW ref \in Composed(d[p[2]]) PROVE f[<<p[1], ref>>] = g[<<p[1], ref>>]
      <3>1. ref \in DOMAIN d
        BY <2>1, ReferencesAreNames DEF References
      <3>2. <<p[1], ref>> \in Pairs
        BY <2>1, <3>1
      <3>3. rank[ref] < rank[p[2]]
        BY <1>1, <2>1
      <3> HIDE DEF level, Pairs
      <3>4. level[<<p[1], ref>>] < level[p]
        BY <1>4, <3>2, <3>3
      <3>5. QED
        BY <3>2, <3>4
    <2>3. ASSUME NEW part \in ValuesIn(p[1]), NEW ref \in DOMAIN d PROVE f[<<part, ref>>] = g[<<part, ref>>]
      <3>1. part \in JSONValues
        BY <2>1, JSONFields
      <3>2. <<part, ref>> \in Pairs
        BY <3>1
      <3>3. depth[part] < depth[p[1]]
        BY <1>2, <2>1
      <3> HIDE DEF level, Pairs
      <3>4. level[<<part, ref>>] < level[p]
        BY <1>4, <3>2, <3>3
      <3>5. QED
        BY <3>2, <3>4
    <2>4. At(f, p) = At(g, p)
      BY <2>1, <2>2, <2>3, AdmittedByParts
    <2>5. QED
      BY <2>4
  <1>8. PICK f \in [Pairs -> BOOLEAN] : Solves(f, Pairs, step)
    <2>1. BOOLEAN # {}
      OBVIOUS
    <2> HIDE DEF step, level, Pairs
    <2>2. QED
      BY <1>5, <1>6, <1>7, <2>1, Recursion
  <1> DEFINE admitted == CHOOSE h : h = [p \in Pairs |-> At(h, p)]
  <1>9. admitted = [p \in Pairs |-> At(admitted, p)]
    <2>1. f = [p \in Pairs |-> At(f, p)]
      <3> HIDE DEF At
      <3> QED
        BY <1>8 DEF Solves
    <2> HIDE DEF At, Pairs
    <2>2. QED
      BY <2>1, Zenon
  <1>10. \A v \in JSONValues, name \in DOMAIN d : Admits(d, name, v) = admitted[<<v, name>>]
    BY DEF Admits
  <1> HIDE DEF admitted
  <1>11. \A p \in Pairs : admitted[p] = At(admitted, p)
    <2> HIDE DEF At
    <2> QED
      BY <1>9
  <1>12. admitted \in [Pairs -> BOOLEAN]
    <2>1. \A p \in Pairs : At(admitted, p) \in BOOLEAN
      BY AdmittedByIsBoolean
    <2> HIDE DEF At
    <2>2. QED
      BY <1>9, <2>1
  <1>13. \A v \in JSONValues, name \in DOMAIN d : admitted[<<v, name>>] = AdmittedBy(admitted, d[name], v)
    BY <1>11
  <1>14. QED
    BY <1>10, <1>12, <1>13 DEF IsAdmitting

\* What the validator asks of a value, in the terms of the document; passed says which
\* parts of the value pass which schemas.
PassedBy(passed, s, v) ==
    LET Passing(options) == {i \in DOMAIN options : passed[<<v, options[i]>>]} IN
    /\ HasType(s.type, v)
    /\ s.enum # <<>> => EnumContains(s.enum, v)
    /\ s.type = "object" =>
         /\ s.required \subseteq DOMAIN v.fields
         /\ \A key \in DOMAIN s.props \cap DOMAIN v.fields : passed[<<v.fields[key], s.props[key]>>]
    /\ s.type = "array" => \A item \in ToSet(v.elems), ref \in ToSet(s.items) : passed[<<item, ref>>]
    /\ Passing(s.allOf) = DOMAIN s.allOf
    /\ s.anyOf # <<>> => Passing(s.anyOf) # {}
    /\ s.oneOf # <<>> => Cardinality(Passing(s.oneOf)) = 1

SaysWhatPasses(passed, d, seen) ==
    \A w \in JSONValues, ref \in DOMAIN d :
        passed[<<w, ref>>] <=> (Issues[ResolveSchema(d, ref, seen)][w] = {})

\* Of a schema that is not open, the validator finds no issue just if ...
LEMMA NoIssue ==
    ASSUME OnlyJSON, NEW d \in Documents, NEW name \in DOMAIN d, NEW seen \in SUBSET DOMAIN d, name \notin seen,
           NEW v \in JSONValues, NEW passed, SaysWhatPasses(passed, d, seen \cup {name})
    PROVE  (Issues[ResolveSchema(d, name, seen)][v] = {}) <=> PassedBy(passed, d[name], v)
PROOF
  <1> DEFINE tree == ResolveSchema(d, name, seen)
             s    == d[name]
             Expand(refs) == ResolveAll(d, refs, seen \cup {name})
             Passing(options) == {i \in DOMAIN options : passed[<<v, options[i]>>]}
  <1>1. /\ tree.type = s.type /\ tree.enum = s.enum /\ tree.required = s.required
        /\ tree.props = Expand(s.props) /\ tree.items = Expand(s.items)
        /\ tree.oneOf = Expand(s.oneOf) /\ tree.anyOf = Expand(s.anyOf) /\ tree.allOf = Expand(s.allOf)
    <2>1. /\ tree.type = s.type /\ tree.enum = s.enum /\ tree.required = s.required
      BY ResolvedKeywords
    <2>2. /\ tree.props = Expand(s.props) /\ tree.items = Expand(s.items)
          /\ tree.oneOf = Expand(s.oneOf) /\ tree.anyOf = Expand(s.anyOf) /\ tree.allOf = Expand(s.allOf)
      BY ResolvedKeywords
    <2>3. QED
      BY <2>1, <2>2
  <1>2. Issues[tree][v] = ValueIssues(Issues, v, tree)
    BY IssuesAre, SchemaTreesAre
  <1>3. ASSUME NEW refs, NEW i \in DOMAIN refs, refs[i] \in DOMAIN d, NEW w \in JSONValues
        PROVE  (Issues[Expand(refs)[i]][w] = {}) <=> passed[<<w, refs[i]>>]
    BY <1>3 DEF ResolveAll, SaysWhatPasses
  <1>4. \A refs : DOMAIN Expand(refs) = DOMAIN refs
    BY DEF ResolveAll
  <1>5. /\ s.props \in [DOMAIN s.props -> DOMAIN d]
        /\ s.items \in Seq(DOMAIN d) /\ Len(s.items) <= 1
        /\ s.oneOf \in Seq(DOMAIN d) /\ s.anyOf \in Seq(DOMAIN d) /\ s.allOf \in Seq(DOMAIN d)
    BY DocumentsAssumption DEF IsSchema
  <1> HIDE DEF tree, s, Expand
  <1>6. ASSUME NEW refs \in Seq(DOMAIN d) PROVE Matching(Issues, v, Expand(refs)) = Passing(refs)
    <2>1. \A i \in DOMAIN refs : refs[i] \in DOMAIN d
      OBVIOUS
    <2>2. \A i \in DOMAIN refs : (Issues[Expand(refs)[i]][v] = {}) <=> passed[<<v, refs[i]>>]
      BY <1>3, <2>1
    <2>3. QED
      BY <1>4, <2>2 DEF Matching
  <1>7. ASSUME NEW refs \in Seq(DOMAIN d) PROVE Expand(refs) = <<>> <=> refs = <<>>
    <2>1. refs \in [1..Len(refs) -> DOMAIN d] /\ Len(refs) \in Nat
      OBVIOUS
    <2>2. Expand(refs) = [x \in 1..Len(refs) |-> ResolveSchema(d, refs[x], seen \cup {name})]
      BY <2>1 DEF Expand, ResolveAll
    <2>3. QED
      BY <2>1, <2>2
  <1> DEFINE AllOf == UNION {Issues[branch][v] : branch \in ToSet(tree.allOf)}
             SomeOf == {k \in {"anyOf"} : tree.anyOf # <<>> /\ Matching(Issues, v, tree.anyOf) = {}}
             JustOne == {k \in {"oneOf"} : tree.oneOf # <<>> /\ Cardinality(Matching(Issues, v, tree.oneOf)) # 1}
  <1>8. AllOf = {} <=> Passing(s.allOf) = DOMAIN s.allOf
    <2>1. AllOf = {} <=> \A i \in DOMAIN tree.allOf : Issues[tree.allOf[i]][v] = {}
      BY DEF ToSet
    <2>2. (\A i \in DOMAIN tree.allOf : Issues[tree.allOf[i]][v] = {}) <=> \A i \in DOMAIN s.allOf : passed[<<v, s.allOf[i]>>]
      <3>1. \A i \in DOMAIN s.allOf : s.allOf[i] \in DOMAIN d
        BY <1>5
      <3>2. \A i \in DOMAIN s.allOf : (Issues[tree.allOf[i]][v] = {}) <=> passed[<<v, s.allOf[i]>>]
        BY <1>1, <1>3, <3>1
      <3>3. DOMAIN tree.allOf = DOMAIN s.allOf
        BY <1>1, <1>4
      <3>4. QED
        BY <3>2, <3>3
    <2> HIDE DEF AllOf
    <2>3. QED
      BY <2>1, <2>2
  <1>9. SomeOf = {} <=> (s.anyOf # <<>> => Passing(s.anyOf) # {})
    <2>1. Matching(Issues, v, tree.anyOf) = Passing(s.anyOf) /\ (tree.anyOf = <<>> <=> s.anyOf = <<>>)
      BY <1>1, <1>5, <1>6, <1>7
    <2> HIDE DEF Passing
    <2>2. QED
      BY <2>1
  <1>10. JustOne = {} <=> (s.oneOf # <<>> => Cardinality(Passing(s.oneOf)) = 1)
    <2>1. Matching(Issues, v, tree.oneOf) = Passing(s.oneOf) /\ (tree.oneOf = <<>> <=> s.oneOf = <<>>)
      BY <1>1, <1>5, <1>6, <1>7
    <2> HIDE DEF Passing
    <2>2. QED
      BY <2>1
  <1>11. CompositionIssues(Issues, v, tree) = AllOf \cup SomeOf \cup JustOne
    BY Zenon DEF CompositionIssues
  <1>12. FieldIssues(Issues, v, tree) = {} <=>
           /\ s.required \subseteq DOMAIN v.fields
           /\ \A key \in DOMAIN s.props \cap DOMAIN v.fields : passed[<<v.fields[key], s.props[key]>>]
    <2> DEFINE keys == DOMAIN tree.props \cap DOMAIN v.fields
    <2>1. FieldIssues(Issues, v, tree) = {k \in {"required"} : tree.required \ DOMAIN v.fields # {}}
                                         \cup UNION {Issues[tree.props[key]][v.fields[key]] : key \in keys}
      BY Zenon DEF FieldIssues
    <2>2. keys = DOMAIN s.props \cap DOMAIN v.fields
      BY <1>1, <1>4
    <2>3. \A key \in keys : (Issues[tree.props[key]][v.fields[key]] = {}) <=> passed[<<v.fields[key], s.props[key]>>]
      <3>1. \A key \in keys : s.props[key] \in DOMAIN d /\ v.fields[key] \in JSONValues /\ key \in DOMAIN s.props
        BY <1>5, <2>2, JSONFields
      <3>2. QED
        BY <1>1, <1>3, <3>1
    <2> HIDE DEF keys
    <2>4. (UNION {Issues[tree.props[key]][v.fields[key]] : key \in keys}) = {} <=>
            \A key \in keys : Issues[tree.props[key]][v.fields[key]] = {}
      OBVIOUS
    <2>5. {k \in {"required"} : tree.required \ DOMAIN v.fields # {}} = {} <=> s.required \subseteq DOMAIN v.fields
      BY <1>1
    <2>6. QED
      BY <2>1, <2>2, <2>3, <2>4, <2>5
  <1>13. ItemIssues(Issues, v, tree) = {} <=> \A item \in ToSet(v.elems), ref \in ToSet(s.items) : passed[<<item, ref>>]
    <2>1. CASE s.items = <<>>
      <3>1. tree.items = <<>>
        BY <1>1, <1>5, <1>7, <2>1
      <3>2. ItemIssues(Issues, v, tree) = {}
        BY <3>1 DEF ItemIssues
      <3>3. ToSet(s.items) = {}
        BY <2>1 DEF ToSet
      <3>4. QED
        BY <3>2, <3>3
    <2>2. CASE s.items # <<>>
      <3>1. DOMAIN s.items = {1} /\ s.items[1] \in DOMAIN d
        BY <1>5, <2>2
      <3>2. ToSet(s.items) = {s.items[1]}
        BY <3>1 DEF ToSet
      <3>3. tree.items # <<>>
        BY <1>1, <1>5, <1>7, <2>2
      <3>4. ItemIssues(Issues, v, tree) = UNION {Issues[tree.items[1]][item] : item \in ToSet(v.elems)}
        BY <3>3 DEF ItemIssues
      <3>5. \A item \in ToSet(v.elems) : (Issues[tree.items[1]][item] = {}) <=> passed[<<item, s.items[1]>>]
        <4>1. \A item \in ToSet(v.elems) : item \in JSONValues
          BY JSONFields DEF ToSet
        <4>2. QED
          BY <1>1, <1>3, <3>1, <4>1
      <3>6. ItemIssues(Issues, v, tree) = {} <=> \A item \in ToSet(v.elems) : Issues[tree.items[1]][item] = {}
        BY <3>4
      <3>7. QED
        BY <3>2, <3>5, <3>6
    <2>3. QED
      BY <2>1, <2>2
  <1> HIDE DEF AllOf, SomeOf, JustOne, Passing
  <1>14. ValueIssues(Issues, v, tree) = {} <=>
           /\ AllOf = {} /\ SomeOf = {} /\ JustOne = {} /\ HasType(s.type, v)
           /\ s.type = "object" => FieldIssues(Issues, v, tree) = {}
           /\ s.type = "array" => ItemIssues(Issues, v, tree) = {}
           /\ s.enum # <<>> => EnumContains(s.enum, v)
    BY <1>1, <1>11 DEF ValueIssues
  <1>15. PassedBy(passed, s, v) <=>
           /\ HasType(s.type, v)
           /\ s.enum # <<>> => EnumContains(s.enum, v)
           /\ s.type = "object" =>
                /\ s.required \subseteq DOMAIN v.fields
                /\ \A key \in DOMAIN s.props \cap DOMAIN v.fields : passed[<<v.fields[key], s.props[key]>>]
           /\ s.type = "array" => \A item \in ToSet(v.elems), ref \in ToSet(s.items) : passed[<<item, ref>>]
           /\ Passing(s.allOf) = DOMAIN s.allOf
           /\ s.anyOf # <<>> => Passing(s.anyOf) # {}
           /\ s.oneOf # <<>> => Cardinality(Passing(s.oneOf)) = 1
    BY Zenon DEF PassedBy, Passing
  <1>16. QED
    BY <1>2, <1>8, <1>9, <1>10, <1>12, <1>13, <1>14, <1>15 DEF tree, s

-----------------------------------------------------------------------------
\* The document and the validator

\* What holds of a name in front of some open schemas, if it holds of those it refers to
\* in front of one more, holds of all.
GoesUpDocument(d, Good) ==
    \A name \in DOMAIN d, seen \in SUBSET DOMAIN d :
        (name \notin seen => \A ref \in References(d[name]) : <<ref, seen \cup {name}>> \in Good)
        => <<name, seen>> \in Good

\* It does, since ever fewer schemas are left to be opened.
LEMMA DocumentInduction ==
    ASSUME NEW d \in Documents, NEW Good, GoesUpDocument(d, Good)
    PROVE  \A name \in DOMAIN d, seen \in SUBSET DOMAIN d : <<name, seen>> \in Good
PROOF
  <1> DEFINE S     == (DOMAIN d) \X SUBSET DOMAIN d
             level == [p \in S |-> Cardinality(DOMAIN d \ p[2])]
  <1>1. ASSUME NEW seen \in SUBSET DOMAIN d PROVE Cardinality(DOMAIN d \ seen) \in Nat
    BY DocumentsAssumption, FS_Subset, FS_CardinalityType
  <1>2. level \in [S -> Nat]
    BY <1>1
  <1>3. PassesUp(S, level, Good)
    <2> SUFFICES ASSUME NEW p \in S, \A q \in S : level[q] < level[p] => q \in Good PROVE p \in Good
      <3> HIDE DEF level, S
      <3> QED
        BY DEF PassesUp
    <2> DEFINE name == p[1]
               seen == p[2]
    <2>1. p = <<name, seen>> /\ name \in DOMAIN d /\ seen \in SUBSET DOMAIN d
      OBVIOUS
    <2>2. ASSUME name \notin seen, NEW ref \in References(d[name]) PROVE <<ref, seen \cup {name}>> \in Good
      <3> DEFINE q == <<ref, seen \cup {name}>>
      <3>1. q \in S
        BY <2>1, ReferencesAreNames
      <3>2. level[q] < level[p]
        <4> DEFINE rest == DOMAIN d \ seen
        <4>1. IsFiniteSet(rest) /\ name \in rest
          BY <2>1, <2>2, DocumentsAssumption, FS_Subset
        <4>2. rest \ {name} = DOMAIN d \ (seen \cup {name})
          OBVIOUS
        <4>3. Cardinality(rest) \in Nat
          BY <1>1, <2>1
        <4>4. level[p] = Cardinality(rest) /\ level[q] = Cardinality(rest \ {name})
          BY <3>1, <4>2
        <4> HIDE DEF rest, level
        <4>5. Cardinality(rest \ {name}) = Cardinality(rest) - 1
          BY <4>1, FS_RemoveElement
        <4>6. QED
          BY <4>3, <4>4, <4>5
      <3> HIDE DEF level, S
      <3>3. QED
        BY <3>1, <3>2
    <2> HIDE DEF name, seen
    <2>3. QED
      BY <2>1, <2>2 DEF GoesUpDocument
  <1> HIDE DEF level
  <1>4. \A p \in S : p \in Good
    <2> HIDE DEF S
    <2> QED
      BY <1>2, <1>3, Descent
  <1>5. QED
    BY <1>4

\* The marker of a circular reference lets every value pass.
LEMMA MarkersPass ==
    ASSUME OnlyJSON, NEW d \in Documents, NEW name \in DOMAIN d, NEW seen \in SUBSET DOMAIN d, name \in seen,
           NEW v \in JSONValues
    PROVE  Issues[ResolveSchema(d, name, seen)][v] = {}
PROOF
  <1> DEFINE tree == ResolveSchema(d, name, seen)
  <1>1. Issues[tree][v] = ValueIssues(Issues, v, tree)
    BY IssuesAre, SchemaTreesAre
  <1>2. tree = [NoKeywords EXCEPT !.origin = name]
    <2>1. tree = CircularRef(name)
      BY Resolved
    <2>2. QED
      BY <2>1 DEF CircularRef
  <1> HIDE DEF tree
  <1>3. tree.type = "" /\ tree.enum = <<>> /\ tree.oneOf = <<>> /\ tree.anyOf = <<>> /\ tree.allOf = <<>>
    BY <1>2 DEF NoKeywords
  <1>4. CompositionIssues(Issues, v, tree) = {}
    <2> DEFINE all  == UNION {Issues[branch][v] : branch \in ToSet(tree.allOf)}
               some == {k \in {"anyOf"} : tree.anyOf # <<>> /\ Matching(Issues, v, tree.anyOf) = {}}
               one  == {k \in {"oneOf"} : tree.oneOf # <<>> /\ Cardinality(Matching(Issues, v, tree.oneOf)) # 1}
    <2>1. CompositionIssues(Issues, v, tree) = all \cup some \cup one
      BY Zenon DEF CompositionIssues
    <2>2. ToSet(tree.allOf) = {}
      <3>1. tree.allOf = <<>> 
        BY <1>3, Zenon
      <3>3. DOMAIN <<>> = {}
        OBVIOUS
      <3>2. QED
        BY <3>1, <3>3 DEF ToSet
    <2>3. all = {}
      BY <2>2
    <2>4. some = {} /\ one = {}
      BY <1>3
    <2>5. QED
      BY <2>1, <2>3, <2>4
  <1>5. HasType(tree.type, v)
    BY <1>3 DEF HasType
  <1>6. ValueIssues(Issues, v, tree) = {}
    BY <1>3, <1>4, <1>5 DEF ValueIssues
  <1>7. QED
    BY <1>1, <1>6 DEF tree

\* A value has no null in it if it is none and its parts have none.
LEMMA NullFreeIs ==
    ASSUME OnlyJSON, NEW v \in JSONValues
    PROVE  NullFree[v] <=> v.kind # "null" /\ \A part \in ValuesIn(v) : NullFree[part]
PROOF
  <1> DEFINE Free(f, w) == w.kind # "null" /\ \A part \in ValuesIn(w) : f[part]
             step == [w \in JSONValues |-> [f \in [JSONValues -> BOOLEAN] |-> Free(f, w)]]
  <1>1. step \in [JSONValues -> [[JSONValues -> BOOLEAN] -> BOOLEAN]]
    OBVIOUS
  <1>2. FromValuesIn(BOOLEAN, step)
    <2>1. ASSUME NEW w \in JSONValues, NEW f \in [JSONValues -> BOOLEAN], NEW g \in [JSONValues -> BOOLEAN],
                 \A part \in ValuesIn(w) : f[part] = g[part]
          PROVE  step[w][f] = step[w][g]
      <3>1. Free(f, w) = Free(g, w)
        BY <2>1
      <3> HIDE DEF Free
      <3>2. QED
        BY <3>1
    <2> HIDE DEF step
    <2>2. QED
      BY <2>1 DEF FromValuesIn
  <1>3. PICK f \in [JSONValues -> BOOLEAN] : Solves(f, JSONValues, step)
    <2> HIDE DEF step
    <2> QED
      BY <1>1, <1>2, ValueRecursion
  <1>4. f = [w \in JSONValues |-> Free(f, w)]
    <2> HIDE DEF Free
    <2> QED
      BY <1>3 DEF Solves
  <1>5. NullFree = CHOOSE h : h = [w \in JSONValues |-> Free(h, w)]
    BY Zenon DEF NullFree
  <1>6. NullFree = [w \in JSONValues |-> Free(NullFree, w)]
    <2> HIDE DEF Free
    <2> QED
      BY <1>4, <1>5, Zenon
  <1>7. NullFree[v] = Free(NullFree, v)
    <2> HIDE DEF Free
    <2> QED
      BY <1>6
  <1>8. QED
    BY <1>7

\* The values in which null is nowhere but where it may not be.
Clean(d) == {v \in JSONValues : NoneIsNullable(d, v)}

\* The parts of such a value are such values, and it is of the one type there is.
LEMMA CleanValues ==
    ASSUME OnlyJSON, NEW d \in Documents, NEW v \in Clean(d)
    PROVE  /\ v \in JSONValues
           /\ ValuesIn(v) \subseteq Clean(d)
           /\ \A name \in DOMAIN d : AllowsKind(d[name], v) => HasType(d[name].type, v)
PROOF
  <1>1. v \in JSONValues /\ NoneIsNullable(d, v)
    BY DEF Clean
  <1>2. ValuesIn(v) \subseteq JSONValues
    BY <1>1, JSONFields
  <1>3. ASSUME NEW part \in ValuesIn(v) PROVE NoneIsNullable(d, part)
    BY <1>1, NullFreeIs DEF NoneIsNullable
  <1>4. ASSUME NEW name \in DOMAIN d, AllowsKind(d[name], v) PROVE HasType(d[name].type, v)
    <2>1. v.kind # "null" \/ ~ d[name].nullable
      BY <1>1, NullFreeIs DEF NoneIsNullable
    <2>2. d[name].union # {} => d[name].type = ""
      BY DocumentsAssumption DEF IsSchema
    <2>3. CASE d[name].union # {}
      BY <2>2, <2>3 DEF HasType
    <2>4. CASE d[name].union = {}
      <3> DEFINE type == d[name].type
      <3>1. \/ type \in {"", v.kind}
            \/ v.kind = "integer" /\ type = "number"
        BY <1>4, <2>1, <2>4 DEF AllowsKind
      <3> HIDE DEF type
      <3>2. HasType(type, v)
        BY <3>1 DEF HasType
      <3>3. QED
        BY <3>2 DEF type
    <2>5. QED
      BY <2>3, <2>4
  <1>5. QED
    BY <1>1, <1>2, <1>3, <1>4 DEF Clean

\* What the document asks, the validator asks as well, or less.
LEMMA AskedLess ==
    ASSUME NEW d \in Documents, NEW name \in DOMAIN d, NEW v \in Clean(d), OnlyJSON,
           NEW admitted, NEW passed, d[name].required \cap d[name].oneWay = {},
           \A w \in Clean(d), ref \in References(d[name]) : admitted[<<w, ref>>] => passed[<<w, ref>>],
           \/ d[name].oneOf = <<>>
           \/ \A w \in Clean(d), ref \in References(d[name]) : passed[<<w, ref>>] => admitted[<<w, ref>>],
           AdmittedBy(admitted, d[name], v)
    PROVE  PassedBy(passed, d[name], v)
PROOF
  <1> DEFINE s == d[name]
             Chosen(f, options) == {i \in DOMAIN options : f[<<v, options[i]>>]}
  <1>1. /\ \A i \in DOMAIN s.allOf : s.allOf[i] \in References(s)
        /\ \A i \in DOMAIN s.anyOf : s.anyOf[i] \in References(s)
        /\ \A i \in DOMAIN s.oneOf : s.oneOf[i] \in References(s)
        /\ \A key \in DOMAIN s.props : s.props[key] \in References(s)
        /\ ToSet(s.items) \subseteq References(s)
    BY DEF References, Composed, Parts, ToSet
  <1>2. /\ \A key \in DOMAIN v.fields : v.fields[key] \in Clean(d)
        /\ \A item \in ToSet(v.elems) : item \in Clean(d)
    BY CleanValues DEF ValuesIn
  <1>3. /\ AllowsKind(s, v)
        /\ s.enum # <<>> => v \in ToSet(s.enum)
        /\ v.kind = "object" =>
             /\ s.required \ s.oneWay \subseteq DOMAIN v.fields
             /\ \A key \in DOMAIN s.props \cap DOMAIN v.fields : admitted[<<v.fields[key], s.props[key]>>]
        /\ v.kind = "array" => \A item \in ToSet(v.elems), ref \in ToSet(s.items) : admitted[<<item, ref>>]
        /\ Chosen(admitted, s.allOf) = DOMAIN s.allOf
        /\ s.anyOf # <<>> => Chosen(admitted, s.anyOf) # {}
        /\ s.oneOf # <<>> => Cardinality(Chosen(admitted, s.oneOf)) = 1
    BY Zenon DEF AdmittedBy
  <1>4. HasType(s.type, v)
    BY <1>3, CleanValues
  <1>5. s.enum # <<>> => EnumContains(s.enum, v)
    BY <1>3 DEF EnumContains
  <1>6. s.type = "object" =>
             /\ s.required \subseteq DOMAIN v.fields
             /\ \A key \in DOMAIN s.props \cap DOMAIN v.fields : passed[<<v.fields[key], s.props[key]>>]
    <2>1. s.type = "object" => v.kind = "object"
      BY <1>4 DEF HasType
    <2>2. QED
      BY <1>1, <1>2, <1>3, <2>1
  <1>7. s.type = "array" => \A item \in ToSet(v.elems), ref \in ToSet(s.items) : passed[<<item, ref>>]
    <2>1. s.type = "array" => v.kind = "array"
      BY <1>4 DEF HasType
    <2>2. QED
      BY <1>1, <1>2, <1>3, <2>1
  <1>8. Chosen(passed, s.allOf) = DOMAIN s.allOf
    BY <1>1, <1>3
  <1>9. s.anyOf # <<>> => Chosen(passed, s.anyOf) # {}
    BY <1>1, <1>3
  <1>10. s.oneOf # <<>> => Cardinality(Chosen(passed, s.oneOf)) = 1
    <2>1. ASSUME s.oneOf # <<>> PROVE Chosen(passed, s.oneOf) = Chosen(admitted, s.oneOf)
      BY <1>1, <2>1
    <2> HIDE DEF Chosen
    <2>2. QED
      BY <1>3, <2>1
  <1> HIDE DEF s
  <1>11. PassedBy(passed, s, v)
    BY <1>4, <1>5, <1>6, <1>7, <1>8, <1>9, <1>10, Zenon DEF PassedBy
  <1>12. QED
    BY <1>11 DEF s

\* Of a schema that it covers, the validator asks as much as the document.
LEMMA AskedAsMuch ==
    ASSUME NEW d \in Documents, NEW name \in DOMAIN d, NEW v \in Clean(d), OnlyJSON,
           NEW admitted, NEW passed,
           \A w \in Clean(d), ref \in References(d[name]) : admitted[<<w, ref>>] <=> passed[<<w, ref>>],
           Covered(d[name]), PassedBy(passed, d[name], v)
    PROVE  AdmittedBy(admitted, d[name], v)
PROOF
  <1> DEFINE s == d[name]
             Chosen(f, options) == {i \in DOMAIN options : f[<<v, options[i]>>]}
  <1>1. /\ \A i \in DOMAIN s.allOf : s.allOf[i] \in References(s)
        /\ \A i \in DOMAIN s.anyOf : s.anyOf[i] \in References(s)
        /\ \A i \in DOMAIN s.oneOf : s.oneOf[i] \in References(s)
        /\ \A key \in DOMAIN s.props : s.props[key] \in References(s)
        /\ ToSet(s.items) \subseteq References(s)
    BY DEF References, Composed, Parts, ToSet
  <1>2. /\ \A key \in DOMAIN v.fields : v.fields[key] \in Clean(d)
        /\ \A item \in ToSet(v.elems) : item \in Clean(d)
        /\ v.elems \in Seq(JSONValues) /\ v = JSON(v.kind, v.text, v.fields, v.elems)
    BY CleanValues, JSONFields DEF ValuesIn
  <1>3. /\ HasType(s.type, v)
        /\ s.enum # <<>> => EnumContains(s.enum, v)
        /\ s.type = "object" =>
             /\ s.required \subseteq DOMAIN v.fields
             /\ \A key \in DOMAIN s.props \cap DOMAIN v.fields : passed[<<v.fields[key], s.props[key]>>]
        /\ s.type = "array" => \A item \in ToSet(v.elems), ref \in ToSet(s.items) : passed[<<item, ref>>]
        /\ Chosen(passed, s.allOf) = DOMAIN s.allOf
        /\ s.anyOf # <<>> => Chosen(passed, s.anyOf) # {}
        /\ s.oneOf # <<>> => Cardinality(Chosen(passed, s.oneOf)) = 1
    BY Zenon DEF PassedBy
  <1>4. /\ s.type \in {"", "object", "array", "string", "boolean", "integer", "number"}
        /\ s.union = {} /\ s.excludes = {} /\ s.minItems = 0 /\ s.maxItems = 0
        /\ s.props # <<>> \/ s.required # {} => s.type = "object"
        /\ s.items # <<>> => s.type = "array"
        /\ s.enum # <<>> => /\ s.type \in {"string", "boolean", "integer"}
                           /\ \A e \in ToSet(s.enum) : e.kind = s.type
    BY DEF Covered
  <1>5. s.enum \in Seq(JSONValues)
    BY DocumentsAssumption DEF IsSchema
  <1> HIDE DEF s
  <1>13. \A w \in Clean(d), ref \in References(s) : admitted[<<w, ref>>] <=> passed[<<w, ref>>]
    BY DEF s
  <1>6. AllowsKind(s, v) /\ v \notin s.excludes
    BY <1>3, <1>4 DEF HasType, AllowsKind
  <1>7. s.enum # <<>> => v \in ToSet(s.enum)
    <2> SUFFICES ASSUME s.enum # <<>> PROVE v \in ToSet(s.enum)
      OBVIOUS
    <2>1. PICK e \in ToSet(s.enum) : printed(e) = printed(v)
      BY <1>3 DEF EnumContains
    <2>2. e \in JSONValues
      BY <1>5 DEF ToSet
    <2>3. e = JSON(e.kind, e.text, e.fields, e.elems)
      BY <2>2, JSONFields
    <2>4. e.kind = s.type /\ v.kind = s.type /\ s.type \notin {"object", "array"}
      BY <1>3, <1>4 DEF HasType
    <2>7. [e EXCEPT !.kind = ""] = [v EXCEPT !.kind = ""]
      BY <2>1, <2>4 DEF printed
    <2>5. e.text = v.text /\ e.fields = v.fields /\ e.elems = v.elems
      <3> DEFINE e0 == [e EXCEPT !.kind = ""]
                 v0 == [v EXCEPT !.kind = ""]
      <3>1. e0.text = e.text /\ e0.fields = e.fields /\ e0.elems = e.elems
        BY <2>3 DEF JSON
      <3>2. v0.text = v.text /\ v0.fields = v.fields /\ v0.elems = v.elems
        BY <1>2 DEF JSON
      <3>3. QED
        BY <2>7, <3>1, <3>2
    <2>6. QED
      BY <1>2, <2>3, <2>4, <2>5
  <1>8. v.kind = "object" =>
             /\ s.required \ s.oneWay \subseteq DOMAIN v.fields
             /\ \A key \in DOMAIN s.props \cap DOMAIN v.fields : admitted[<<v.fields[key], s.props[key]>>]
    <2>1. CASE s.type = "object"
      BY <1>1, <1>2, <1>3, <1>13, <2>1
    <2>2. CASE s.type # "object"
      <3>1. s.props = <<>> /\ s.required = {}
        BY <1>4, <2>2
      <3>2. DOMAIN s.props = {}
        BY <3>1
      <3>3. QED
        BY <3>1, <3>2
    <2>3. QED
      BY <2>1, <2>2
  <1>9. v.kind = "array" =>
             /\ Len(v.elems) >= s.minItems
             /\ s.maxItems > 0 => Len(v.elems) <= s.maxItems
             /\ \A item \in ToSet(v.elems), ref \in ToSet(s.items) : admitted[<<item, ref>>]
    <2>1. Len(v.elems) >= s.minItems /\ (s.maxItems > 0 => Len(v.elems) <= s.maxItems)
      <3>1. Len(v.elems) \in Nat
        BY <1>2
      <3>2. s.minItems = 0 /\ s.maxItems = 0
        BY <1>4
      <3>3. QED
        BY <3>1, <3>2
    <2>2. CASE s.type = "array"
      BY <1>1, <1>2, <1>3, <1>13, <2>1, <2>2
    <2>3. CASE s.type # "array"
      <3>1. s.items = <<>>
        BY <1>4, <2>3
      <3>2. ToSet(s.items) = {}
        BY <3>1 DEF ToSet
      <3>3. QED
        BY <2>1, <3>2
    <2>4. QED
      BY <2>2, <2>3
  <1>10. /\ Chosen(admitted, s.allOf) = Chosen(passed, s.allOf)
         /\ Chosen(admitted, s.anyOf) = Chosen(passed, s.anyOf)
         /\ Chosen(admitted, s.oneOf) = Chosen(passed, s.oneOf)
    BY <1>1, <1>13
  <1>11. AdmittedBy(admitted, s, v)
    <2>1. /\ Chosen(admitted, s.allOf) = DOMAIN s.allOf
          /\ s.anyOf # <<>> => Chosen(admitted, s.anyOf) # {}
          /\ s.oneOf # <<>> => Cardinality(Chosen(admitted, s.oneOf)) = 1
      <3> HIDE DEF Chosen
      <3> QED
        BY <1>3, <1>10
    <2>2. QED
      BY <1>6, <1>7, <1>8, <1>9, <2>1, Zenon DEF AdmittedBy
  <1>12. QED
    BY <1>11 DEF s

\* What the document admits passes the validator, on any of the ways to a schema.
LEMMA Leniency ==
    ASSUME OnlyJSON, NEW d \in Documents, \A name \in DOMAIN d : d[name].oneOf = <<>>,
           ~ OneWayRequired(d), NEW admitted, IsAdmitting(admitted, d)
    PROVE  \A name \in DOMAIN d, seen \in SUBSET DOMAIN d, v \in Clean(d) :
             admitted[<<v, name>>] => Issues[ResolveSchema(d, name, seen)][v] = {}
PROOF
  <1> DEFINE Accepts(name, seen) ==
                 \A v \in Clean(d) : admitted[<<v, name>>] => Issues[ResolveSchema(d, name, seen)][v] = {}
             Good == {p \in (DOMAIN d) \X SUBSET DOMAIN d : Accepts(p[1], p[2])}
  <1>1. GoesUpDocument(d, Good)
    <2> SUFFICES ASSUME NEW name \in DOMAIN d, NEW seen \in SUBSET DOMAIN d,
                        name \notin seen => \A ref \in References(d[name]) : <<ref, seen \cup {name}>> \in Good
                 PROVE  Accepts(name, seen)
      <3> HIDE DEF Accepts
      <3> QED
        BY DEF GoesUpDocument
    <2>1. CASE name \in seen
      BY <2>1, MarkersPass, CleanValues
    <2>2. CASE name \notin seen
      <3> DEFINE passed == [p \in JSONValues \X DOMAIN d |->
                              Issues[ResolveSchema(d, p[2], seen \cup {name})][p[1]] = {}]
      <3>1. SaysWhatPasses(passed, d, seen \cup {name})
        BY DEF SaysWhatPasses
      <3>2. \A w \in Clean(d), ref \in References(d[name]) : admitted[<<w, ref>>] => passed[<<w, ref>>]
        <4>1. \A ref \in References(d[name]) : Accepts(ref, seen \cup {name})
          BY <2>2
        <4>2. QED
          BY <4>1, ReferencesAreNames, CleanValues
      <3> HIDE DEF passed
      <3>3. ASSUME NEW v \in Clean(d), admitted[<<v, name>>]
            PROVE  Issues[ResolveSchema(d, name, seen)][v] = {}
        <4>4. v \in JSONValues
          BY CleanValues
        <4>1. AdmittedBy(admitted, d[name], v)
          BY <3>3, <4>4 DEF IsAdmitting
        <4>5. d[name].required \cap d[name].oneWay = {}
          BY DEF OneWayRequired
        <4>2. PassedBy(passed, d[name], v)
          BY <3>2, <4>1, <4>5, AskedLess
        <4>3. QED
          BY <2>2, <3>1, <4>2, <4>4, NoIssue
      <3>4. QED
        BY <3>3
    <2>3. QED
      BY <2>1, <2>2
  <1> HIDE DEF Good
  <1>2. \A name \in DOMAIN d, seen \in SUBSET DOMAIN d : <<name, seen>> \in Good
    BY <1>1, DocumentInduction
  <1>3. \A name \in DOMAIN d, seen \in SUBSET DOMAIN d : Accepts(name, seen)
    <2> HIDE DEF Accepts
    <2> QED
      BY <1>2 DEF Good
  <1>4. QED
    BY <1>3

\* Where nothing recurs, the validator and the document agree on whatever can be met on
\* the way from the root: a schema is open there only if it lies above.
LEMMA Exactness ==
    ASSUME OnlyJSON, NEW d \in Documents, \A name \in DOMAIN d : Covered(d[name]), ~ OneWayRequired(d),
           NEW rank \in [DOMAIN d -> 1..Cardinality(DOMAIN d)],
           \A name \in DOMAIN d : \A ref \in References(d[name]) : rank[ref] < rank[name],
           NEW admitted, IsAdmitting(admitted, d)
    PROVE  \A name \in DOMAIN d, seen \in SUBSET DOMAIN d, v \in Clean(d) :
             (\A open \in seen : rank[name] < rank[open])
             => (admitted[<<v, name>>] <=> Issues[ResolveSchema(d, name, seen)][v] = {})
PROOF
  <1> DEFINE Below(name, seen) == \A open \in seen : rank[name] < rank[open]
             Agrees(name, seen) ==
                 Below(name, seen) =>
                     \A v \in Clean(d) : admitted[<<v, name>>] <=> Issues[ResolveSchema(d, name, seen)][v] = {}
             Good == {p \in (DOMAIN d) \X SUBSET DOMAIN d : Agrees(p[1], p[2])}
  <1>1. GoesUpDocument(d, Good)
    <2> SUFFICES ASSUME NEW name \in DOMAIN d, NEW seen \in SUBSET DOMAIN d,
                        name \notin seen => \A ref \in References(d[name]) : <<ref, seen \cup {name}>> \in Good,
                        Below(name, seen)
                 PROVE  Agrees(name, seen)
      <3> HIDE DEF Agrees
      <3>1. ASSUME NEW name \in DOMAIN d, NEW seen \in SUBSET DOMAIN d,
                   name \notin seen => \A ref \in References(d[name]) : <<ref, seen \cup {name}>> \in Good
            PROVE  Agrees(name, seen)
        <4>1. Below(name, seen) \/ ~ Below(name, seen)
          OBVIOUS
        <4>2. ~ Below(name, seen) => Agrees(name, seen)
          BY DEF Agrees
        <4> HIDE DEF Below, Good
        <4>3. QED
          BY <3>1, <4>1, <4>2
      <3>2. QED
        BY <3>1 DEF GoesUpDocument
    <2>1. name \notin seen
      <3>1. rank[name] \in Nat
        <4>1. Cardinality(DOMAIN d) \in Nat
          BY DocumentsAssumption, FS_CardinalityType
        <4>2. QED
          BY <4>1
      <3>2. QED
        BY <3>1
    <2> DEFINE passed == [p \in JSONValues \X DOMAIN d |->
                            Issues[ResolveSchema(d, p[2], seen \cup {name})][p[1]] = {}]
    <2>2. SaysWhatPasses(passed, d, seen \cup {name})
      BY DEF SaysWhatPasses
    <2>3. \A w \in Clean(d), ref \in References(d[name]) : admitted[<<w, ref>>] <=> passed[<<w, ref>>]
      <3>1. \A ref \in References(d[name]) : Agrees(ref, seen \cup {name})
        BY <2>1
      <3>2. ASSUME NEW ref \in References(d[name]) PROVE Below(ref, seen \cup {name})
        <4>1. Cardinality(DOMAIN d) \in Nat /\ ref \in DOMAIN d
          BY DocumentsAssumption, FS_CardinalityType, ReferencesAreNames
        <4>2. \A n \in DOMAIN d : rank[n] \in Int
          BY <4>1
        <4>3. rank[ref] < rank[name]
          OBVIOUS
        <4>4. ASSUME NEW open \in seen PROVE rank[ref] < rank[open]
          <5>1. rank[name] < rank[open]
            OBVIOUS
          <5>2. open \in DOMAIN d
            OBVIOUS
          <5>3. QED
            BY <4>1, <4>2, <4>3, <5>1, <5>2
        <4>5. QED
          BY <4>3, <4>4
      <3>3. QED
        BY <3>1, <3>2, ReferencesAreNames, CleanValues
    <2> HIDE DEF passed
    <2>4. ASSUME NEW v \in Clean(d)
          PROVE  admitted[<<v, name>>] <=> Issues[ResolveSchema(d, name, seen)][v] = {}
      <3>6. v \in JSONValues /\ d[name].required \cap d[name].oneWay = {}
        BY CleanValues DEF OneWayRequired
      <3>1. admitted[<<v, name>>] <=> AdmittedBy(admitted, d[name], v)
        BY <3>6 DEF IsAdmitting
      <3>2. AdmittedBy(admitted, d[name], v) => PassedBy(passed, d[name], v)
        BY <2>3, <3>6, AskedLess
      <3>3. PassedBy(passed, d[name], v) => AdmittedBy(admitted, d[name], v)
        BY <2>3, AskedAsMuch
      <3>4. (Issues[ResolveSchema(d, name, seen)][v] = {}) <=> PassedBy(passed, d[name], v)
        BY <2>1, <2>2, <3>6, NoIssue
      <3>5. QED
        BY <3>1, <3>2, <3>3, <3>4
    <2>5. QED
      BY <2>4
  <1> HIDE DEF Good
  <1>2. \A name \in DOMAIN d, seen \in SUBSET DOMAIN d : <<name, seen>> \in Good
    BY <1>1, DocumentInduction
  <1>3. \A name \in DOMAIN d, seen \in SUBSET DOMAIN d : Agrees(name, seen)
    <2> HIDE DEF Agrees
    <2> QED
      BY <1>2 DEF Good
  <1>4. QED
    BY <1>3

\* On the way from the root, in short.
LEMMA ExactValidation ==
    ASSUME OnlyJSON, NEW d \in Documents, Exact(d), NEW name \in DOMAIN d, NEW v \in Clean(d)
    PROVE  Admits(d, name, v) <=> Issues[ResolveSchema(d, name, {})][v] = {}
PROOF
  <1>1. PICK rank \in [DOMAIN d -> 1..Cardinality(DOMAIN d)] :
          \A n \in DOMAIN d : \A ref \in References(d[n]) : rank[ref] < rank[n]
    BY DEF Exact, Recursive, Acyclic
  <1>2. WellFounded(d)
    <2>1. \A n \in DOMAIN d : \A ref \in Composed(d[n]) : rank[ref] < rank[n]
      BY <1>1 DEF References
    <2>2. QED
      BY <2>1 DEF WellFounded, Acyclic
  <1>3. PICK admitted : IsAdmitting(admitted, d)
    BY <1>2, AdmitsIs
  <1>4. (\A n \in DOMAIN d : Covered(d[n])) /\ ~ OneWayRequired(d)
    BY DEF Exact
  <1>5. \A n \in DOMAIN d, seen \in SUBSET DOMAIN d, w \in Clean(d) :
          (\A open \in seen : rank[n] < rank[open])
          => (admitted[<<w, n>>] <=> Issues[ResolveSchema(d, n, seen)][w] = {})
    BY <1>1, <1>3, <1>4, Exactness
  <1>6. admitted[<<v, name>>] <=> Issues[ResolveSchema(d, name, {})][v] = {}
    BY <1>5
  <1>7. QED
    BY <1>3, <1>6, CleanValues DEF IsAdmitting

\* The validator passes what a document admits that it may be lenient with.
LEMMA LenientValidation ==
    ASSUME OnlyJSON, NEW d \in Documents, Lenient(d), NEW name \in DOMAIN d, NEW v \in Clean(d),
           Admits(d, name, v)
    PROVE  Issues[ResolveSchema(d, name, {})][v] = {}
PROOF
  <1>1. CASE Exact(d)
    BY <1>1, ExactValidation
  <1>2. CASE \A n \in DOMAIN d : d[n].oneOf = <<>>
    <2>1. PICK admitted : IsAdmitting(admitted, d)
      BY AdmitsIs DEF Lenient
    <2>2. admitted[<<v, name>>]
      BY <2>1, CleanValues DEF IsAdmitting
    <2>3. QED
      BY <1>2, <2>1, <2>2, Leniency DEF Lenient
  <1>3. QED
    BY <1>1, <1>2 DEF Lenient

-----------------------------------------------------------------------------
\* Merging

\* Objects and arrays of values are values.
LEMMA JSONIsClosed ==
    ASSUME AllOfJSON, NEW kind \in STRING, NEW text \in STRING, NEW fields, NEW elems \in Seq(JSONValues),
           fields \in [DOMAIN fields -> JSONValues], DOMAIN fields \subseteq STRING, IsFiniteSet(DOMAIN fields),
           kind = "object" => text = "" /\ elems = <<>>
    PROVE  JSON(kind, text, fields, elems) \in JSONValues
PROOF
  <1>1. DOMAIN fields \in SUBSET STRING
    OBVIOUS
  <1>2. WellFormed(JSON(kind, text, fields, elems))
    BY DEF WellFormed, Object, JSON
  <1>3. QED
    BY <1>1, <1>2 DEF AllOfJSON

\* So are the scalars that the generator makes.
LEMMA MadeValues ==
    ASSUME AllOfJSON
    PROVE  /\ \A fields : fields \in [DOMAIN fields -> JSONValues] /\ DOMAIN fields \subseteq STRING
                          /\ IsFiniteSet(DOMAIN fields) => Object(fields) \in JSONValues
           /\ \A elems \in Seq(JSONValues) : Array(elems) \in JSONValues
           /\ \A kind, text \in STRING : kind # "object" => Scalar(kind, text) \in JSONValues
           /\ Object(<<>>) \in JSONValues
PROOF
  <1>1. "object" \in STRING /\ "array" \in STRING /\ "" \in STRING
    BY LiteralsAssumption
  <1>2. <<>> \in Seq(JSONValues) /\ <<>> \in [DOMAIN <<>> -> JSONValues] /\ DOMAIN <<>> = {}
    OBVIOUS
  <1>3. IsFiniteSet(DOMAIN <<>>) /\ DOMAIN <<>> \subseteq STRING
    BY <1>2, FS_EmptySet
  <1>4. \A elems \in Seq(JSONValues) : Array(elems) \in JSONValues
    BY <1>1, <1>2, <1>3, JSONIsClosed DEF Array
  <1>5. \A kind, text \in STRING : kind # "object" => Scalar(kind, text) \in JSONValues
    BY <1>2, <1>3, JSONIsClosed DEF Scalar
  <1>6. ASSUME NEW fields, fields \in [DOMAIN fields -> JSONValues], DOMAIN fields \subseteq STRING,
               IsFiniteSet(DOMAIN fields)
        PROVE  Object(fields) \in JSONValues
    BY <1>1, <1>2, <1>6, JSONIsClosed DEF Object
  <1>7. Object(<<>>) \in JSONValues
    BY <1>2, <1>3, <1>6
  <1>8. QED
    BY <1>4, <1>5, <1>6, <1>7

\* The fields of a merge.
MergedFields(merged, base, patch) ==
    [key \in DOMAIN base.fields \cup DOMAIN patch.fields |-> MergedField(merged, base, patch, key)]

\* They make a value, if those merged below do.
LEMMA MergedObject ==
    ASSUME AllOfJSON, NEW merged \in [JSONValues -> [JSONValues -> JSONValues]],
           NEW base \in JSONValues, NEW patch \in JSONValues
    PROVE  Object(MergedFields(merged, base, patch)) \in JSONValues
PROOF
  <1> DEFINE keys == DOMAIN base.fields \cup DOMAIN patch.fields
             all  == MergedFields(merged, base, patch)
  <1>1. /\ DOMAIN base.fields \subseteq STRING /\ IsFiniteSet(DOMAIN base.fields)
        /\ DOMAIN patch.fields \subseteq STRING /\ IsFiniteSet(DOMAIN patch.fields)
        /\ \A key \in DOMAIN base.fields : base.fields[key] \in JSONValues
        /\ \A key \in DOMAIN patch.fields : patch.fields[key] \in JSONValues
    BY JSONFields DEF AllOfJSON
  <1>2. \A key \in keys : MergedField(merged, base, patch, key) \in JSONValues
    BY <1>1 DEF MergedField
  <1>3. DOMAIN all = keys /\ all \in [keys -> JSONValues]
    BY <1>2 DEF MergedFields
  <1>4. keys \subseteq STRING /\ IsFiniteSet(keys)
    BY <1>1, FS_Union
  <1> HIDE DEF keys, all
  <1>5. Object(all) \in JSONValues
    BY <1>3, <1>4, MadeValues
  <1>6. QED
    BY <1>5 DEF all

\* deepMerge is well defined and its results are objects.
LEMMA MergeIs ==
    ASSUME AllOfJSON
    PROVE  /\ DeepMerge \in [JSONValues -> [JSONValues -> JSONValues]]
           /\ \A base, patch \in JSONValues : DeepMerge[base][patch] = Object(MergedFields(DeepMerge, base, patch))
PROOF
  <1> DEFINE X        == [JSONValues -> JSONValues]
             At(f, b) == [patch \in JSONValues |-> Object(MergedFields(f, b, patch))]
             step     == [b \in JSONValues |-> [f \in [JSONValues -> X] |-> At(f, b)]]
  <1>1. X # {}
    <2>1. [v \in JSONValues |-> v] \in X
      OBVIOUS
    <2>2. QED
      BY <2>1
  <1>2. ASSUME NEW b \in JSONValues, NEW f \in [JSONValues -> X] PROVE At(f, b) \in X
    BY MergedObject
  <1>3. step \in [JSONValues -> [[JSONValues -> X] -> X]]
    <2> HIDE DEF At, X
    <2> QED
      BY <1>2
  <1>4. FromValuesIn(X, step)
    <2> SUFFICES ASSUME NEW b \in JSONValues, NEW f \in [JSONValues -> X], NEW g \in [JSONValues -> X],
                        \A part \in ValuesIn(b) : f[part] = g[part]
                 PROVE  At(f, b) = At(g, b)
      <3> HIDE DEF At, X
      <3> QED
        BY DEF FromValuesIn
    <2>1. ASSUME NEW patch \in JSONValues PROVE MergedFields(f, b, patch) = MergedFields(g, b, patch)
      <3>1. \A key \in DOMAIN b.fields : b.fields[key] \in ValuesIn(b)
        BY DEF ValuesIn
      <3>2. \A key : key \in DOMAIN b.fields \cup DOMAIN patch.fields =>
               MergedField(f, b, patch, key) = MergedField(g, b, patch, key)
        BY <3>1 DEF MergedField
      <3>3. QED
        BY <3>2 DEF MergedFields
    <2>2. QED
      BY <2>1
  <1>5. PICK f \in [JSONValues -> X] : Solves(f, JSONValues, step)
    <2> HIDE DEF X, step
    <2> QED
      BY <1>1, <1>3, <1>4, ValueRecursion DEF AllOfJSON
  <1>6. f = [b \in JSONValues |-> At(f, b)]
    <2> HIDE DEF At
    <2> QED
      BY <1>5 DEF Solves
  <1>7. DeepMerge = CHOOSE h : h = [b \in JSONValues |-> At(h, b)]
    BY Zenon DEF DeepMerge, MergedFields
  <1>8. DeepMerge = [b \in JSONValues |-> At(DeepMerge, b)]
    <2> HIDE DEF At
    <2> QED
      BY <1>6, <1>7, Zenon
  <1>9. \A b \in JSONValues : DeepMerge[b] = At(DeepMerge, b)
    <2> HIDE DEF At
    <2> QED
      BY <1>8
  <1>10. \A base, patch \in JSONValues : DeepMerge[base][patch] = Object(MergedFields(DeepMerge, base, patch))
    BY <1>9
  <1>11. \A b \in JSONValues : DeepMerge[b] \in X
    <2> DEFINE Good == {b \in JSONValues : DeepMerge[b] \in X}
    <2>1. GoesUpValues(Good)
      <3> SUFFICES ASSUME NEW b \in JSONValues, ValuesIn(b) \subseteq Good PROVE b \in Good
        <4> HIDE DEF Good
        <4> QED
          BY DEF GoesUpValues
      <3> DEFINE merged == [w \in JSONValues |-> IF w \in Good THEN DeepMerge[w] ELSE [v \in JSONValues |-> v]]
      <3>1. merged \in [JSONValues -> X]
        OBVIOUS
      <3>2. \A part \in ValuesIn(b) : merged[part] = DeepMerge[part]
        OBVIOUS
      <3>3. ASSUME NEW patch \in JSONValues PROVE MergedFields(DeepMerge, b, patch) = MergedFields(merged, b, patch)
        <4>1. \A key \in DOMAIN b.fields : b.fields[key] \in ValuesIn(b)
          BY DEF ValuesIn
        <4> HIDE DEF merged
        <4>2. \A key : key \in DOMAIN b.fields \cup DOMAIN patch.fields =>
                 MergedField(DeepMerge, b, patch, key) = MergedField(merged, b, patch, key)
          BY <3>2, <4>1 DEF MergedField
        <4>3. QED
          BY <4>2 DEF MergedFields
      <3> HIDE DEF merged
      <3>4. \A patch \in JSONValues : Object(MergedFields(DeepMerge, b, patch)) \in JSONValues
        BY <3>1, <3>3, MergedObject
      <3>5. DeepMerge[b] \in X
        <4>1. DeepMerge[b] = At(DeepMerge, b)
          BY <1>9
        <4>2. \A patch \in JSONValues : Object(MergedFields(DeepMerge, b, patch)) \in JSONValues
          BY <3>4
        <4>3. At(DeepMerge, b) \in X
          BY <4>2, Zenon
        <4>4. QED
          BY <4>1, <4>3
      <3>6. QED
        BY <3>5
    <2> HIDE DEF Good
    <2>2. JSONValues \subseteq Good
      BY <2>1, ValueInduction DEF AllOfJSON
    <2>3. QED
      BY <2>2 DEF Good
  <1>12. DeepMerge \in [JSONValues -> X]
    <2> HIDE DEF X, At
    <2> QED
      BY <1>8, <1>11
  <1>13. QED
    BY <1>10, <1>12

\* A sequence is its front and its last element.
LEMMA FrontAndLast ==
    ASSUME NEW S, NEW s \in Seq(S), s # <<>>
    PROVE  Front(s) \in Seq(S) /\ Len(Front(s)) < Len(s) /\ Last(s) \in S
PROOF
  <1>1. Len(s) \in Nat \ {0}
    OBVIOUS
  <1>2. QED
    BY <1>1 DEF Front, Last

\* The merge of the parts of an allOf is well defined.
LEMMA MergeAllIs ==
    ASSUME AllOfJSON
    PROVE  \A parts \in Seq(JSONValues) :
             /\ MergeAll[parts] \in JSONValues
             /\ MergeAll[parts] =
                  IF parts = <<>> THEN Object(<<>>)
                  ELSE IF Last(parts).kind = "object" THEN DeepMerge[MergeAll[Front(parts)]][Last(parts)]
                  ELSE MergeAll[Front(parts)]
PROOF
  <1> DEFINE S       == Seq(JSONValues)
             At(f, p) == IF p = <<>> THEN Object(<<>>)
                         ELSE LET before == f[Front(p)] IN
                              IF Last(p).kind = "object" THEN DeepMerge[before][Last(p)] ELSE before
             step    == [p \in S |-> [f \in [S -> JSONValues] |-> At(f, p)]]
             level   == [p \in S |-> Len(p)]
  <1>1. JSONValues # {}
    BY MadeValues
  <1>2. DeepMerge \in [JSONValues -> [JSONValues -> JSONValues]]
    BY MergeIs
  <1>3. ASSUME NEW p \in S, NEW f \in [S -> JSONValues] PROVE At(f, p) \in JSONValues
    <2>1. CASE p = <<>>
      BY <2>1, MadeValues
    <2>2. CASE p # <<>>
      <3>1. Front(p) \in S /\ Last(p) \in JSONValues
        BY <2>2, FrontAndLast
      <3> HIDE DEF S
      <3>2. f[Front(p)] \in JSONValues
        BY <3>1
      <3>3. DeepMerge[f[Front(p)]][Last(p)] \in JSONValues
        BY <1>2, <3>1, <3>2
      <3>4. QED
        BY <2>2, <3>2, <3>3
    <2>3. QED
      BY <2>1, <2>2
  <1>4. step \in [S -> [[S -> JSONValues] -> JSONValues]]
    <2> HIDE DEF At, S
    <2> QED
      BY <1>3
  <1>5. level \in [S -> Nat]
    OBVIOUS
  <1>6. LooksDown(S, JSONValues, level, step)
    <2> SUFFICES ASSUME NEW p \in S, NEW f \in [S -> JSONValues], NEW g \in [S -> JSONValues],
                        \A q \in S : level[q] < level[p] => f[q] = g[q]
                 PROVE  At(f, p) = At(g, p)
      <3> HIDE DEF At, S, level
      <3> QED
        BY DEF LooksDown
    <2>1. CASE p # <<>>
      <3>1. Front(p) \in S /\ Len(Front(p)) < Len(p)
        BY <2>1, FrontAndLast
      <3>2. f[Front(p)] = g[Front(p)]
        BY <3>1
      <3>3. QED
        BY <3>2
    <2>2. QED
      BY <2>1
  <1>7. PICK f \in [S -> JSONValues] : Solves(f, S, step)
    <2> HIDE DEF S, step, level
    <2> QED
      BY <1>1, <1>4, <1>5, <1>6, Recursion
  <1>8. f = [p \in S |-> At(f, p)]
    <2> HIDE DEF At
    <2> QED
      BY <1>7 DEF Solves
  <1>9. MergeAll = CHOOSE h : h = [p \in S |-> At(h, p)]
    BY Zenon DEF MergeAll
  <1>10. MergeAll = [p \in S |-> At(MergeAll, p)]
    <2> HIDE DEF At
    <2> QED
      BY <1>8, <1>9, Zenon
  <1>11. \A p \in S : MergeAll[p] = At(MergeAll, p)
    <2> HIDE DEF At, S
    <2> QED
      BY <1>10
  <1> DEFINE Good == {p \in S : MergeAll[p] \in JSONValues}
  <1>12. PassesUp(S, level, Good)
    <2> SUFFICES ASSUME NEW p \in S, \A q \in S : level[q] < level[p] => q \in Good
                 PROVE  MergeAll[p] \in JSONValues
      BY DEF PassesUp
    <2>1. CASE p = <<>>
      BY <1>11, <2>1, MadeValues
    <2>2. CASE p # <<>>
      <3>1. Front(p) \in S /\ Last(p) \in JSONValues /\ Len(Front(p)) < Len(p)
        BY <2>2, FrontAndLast
      <3>2. MergeAll[Front(p)] \in JSONValues
        BY <3>1
      <3>3. DeepMerge[MergeAll[Front(p)]][Last(p)] \in JSONValues
        BY <1>2, <3>1, <3>2
      <3>4. MergeAll[p] = At(MergeAll, p)
        BY <1>11
      <3>5. QED
        BY <2>2, <3>2, <3>3, <3>4
    <2>3. QED
      BY <2>1, <2>2
  <1>13. \A p \in S : p \in Good
    <2> HIDE DEF S, level, Good
    <2> QED
      BY <1>5, <1>12, Descent
  <1>14. QED
    BY <1>11, <1>13

-----------------------------------------------------------------------------
\* Generation

\* An array has a length.
LEMMA ItemCountIs ==
    ASSUME NEW tree \in SchemaTrees, NEW strategy
    PROVE  ItemCount(tree, strategy) \in Nat
PROOF
  <1>1. ASSUME NEW a \in Nat, NEW b \in Nat PROVE Max({a, b}) \in Nat /\ Min({a, b}) \in Nat
    <2>1. \E x \in {a, b} : \A y \in {a, b} : x >= y
      OBVIOUS
    <2>2. \E x \in {a, b} : \A y \in {a, b} : x =< y
      OBVIOUS
    <2>3. Max({a, b}) \in {a, b}
      BY <2>1 DEF Max
    <2>4. Min({a, b}) \in {a, b}
      BY <2>2 DEF Min
    <2>5. QED
      BY <2>3, <2>4
  <1>2. tree.minItems \in Nat /\ tree.maxItems \in Nat
    BY TreeFields
  <1> DEFINE most == IF tree.maxItems > 0 THEN tree.maxItems ELSE 3
             wish == IF strategy = "maximal" THEN Min({most, 8}) ELSE 1
  <1>3. most \in Nat
    BY <1>2
  <1>4. wish \in Nat
    <2> HIDE DEF most
    <2> QED
      BY <1>1, <1>3
  <1>5. Max({wish, tree.minItems}) \in Nat
    <2> HIDE DEF wish
    <2> QED
      BY <1>1, <1>2, <1>4
  <1>6. QED
    BY <1>5 DEF ItemCount

\* What is made of a schema goes by what is made of its parts.
LEMMA MadeFromParts ==
    ASSUME NEW tree \in SchemaTrees, NEW strategy, NEW depth, NEW f, NEW g,
           \A part \in Subschemas(tree) : f[part] = g[part]
    PROVE  GenerateFrom(f, tree, strategy, depth) = GenerateFrom(g, tree, strategy, depth)
PROOF
  <1>1. /\ \A key \in DOMAIN tree.props : f[tree.props[key]] = g[tree.props[key]]
        /\ \A i \in DOMAIN tree.items : f[tree.items[i]] = g[tree.items[i]]
        /\ \A i \in DOMAIN tree.oneOf : f[tree.oneOf[i]] = g[tree.oneOf[i]]
        /\ \A i \in DOMAIN tree.anyOf : f[tree.anyOf[i]] = g[tree.anyOf[i]]
        /\ \A i \in DOMAIN tree.allOf : f[tree.allOf[i]] = g[tree.allOf[i]]
    BY TreeParts
  <1>2. ASSUME NEW options \in Seq(SchemaTrees), options # <<>>
        PROVE  ChooseOption(options, strategy) \in DOMAIN options
    BY <1>2 DEF ChooseOption
  <1>3. /\ tree.items \in Seq(SchemaTrees) /\ tree.oneOf \in Seq(SchemaTrees)
        /\ tree.anyOf \in Seq(SchemaTrees)
    BY TreeFields
  <1>4. \A n : GenerateAllOf(f, tree.allOf, n) = GenerateAllOf(g, tree.allOf, n)
    <2> SUFFICES ASSUME NEW n PROVE GenerateAllOf(f, tree.allOf, n) = GenerateAllOf(g, tree.allOf, n)
      OBVIOUS
    <2>1. [k \in DOMAIN tree.allOf |-> f[tree.allOf[k]][n + 1]] = [k \in DOMAIN tree.allOf |-> g[tree.allOf[k]][n + 1]]
      BY <1>1
    <2>2. QED
      BY <2>1 DEF GenerateAllOf
  <1>5. \A n : GenerateObject(f, tree, strategy, n) = GenerateObject(g, tree, strategy, n)
    <2> SUFFICES ASSUME NEW n PROVE GenerateObject(f, tree, strategy, n) = GenerateObject(g, tree, strategy, n)
      OBVIOUS
    <2> DEFINE filled == FilledFields(tree, strategy)
               made(h) == [key \in filled \cup tree.required |->
                             IF key \in filled THEN h[tree.props[key]][n + 1] ELSE Placeholder]
    <2>1. filled \subseteq DOMAIN tree.props
      BY DEF FilledFields
    <2>2. made(f) = made(g)
      <3> HIDE DEF filled
      <3> QED
        BY <1>1, <2>1
    <2>3. QED
      BY <2>2 DEF GenerateObject
  <1>6. \A n : GenerateArray(f, tree, strategy, n) = GenerateArray(g, tree, strategy, n)
    <2> SUFFICES ASSUME NEW n PROVE GenerateArray(f, tree, strategy, n) = GenerateArray(g, tree, strategy, n)
      OBVIOUS
    <2> DEFINE made(h) == [i \in 1..ItemCount(tree, strategy) |->
                             IF tree.items = <<>> THEN Null ELSE h[tree.items[1]][n + 1]]
    <2>1. tree.items # <<>> => f[tree.items[1]] = g[tree.items[1]]
      BY <1>1, <1>3
    <2>2. made(f) = made(g)
      BY <2>1
    <2>3. QED
      BY <2>2 DEF GenerateArray
  <1>7. /\ tree.oneOf # <<>> => f[tree.oneOf[ChooseOption(tree.oneOf, strategy)]] = g[tree.oneOf[ChooseOption(tree.oneOf, strategy)]]
        /\ tree.anyOf # <<>> => f[tree.anyOf[ChooseOption(tree.anyOf, strategy)]] = g[tree.anyOf[ChooseOption(tree.anyOf, strategy)]]
    BY <1>1, <1>2, <1>3
  <1>8. QED
    BY <1>4, <1>5, <1>6, <1>7 DEF GenerateFrom

\* What is made of a schema is JSON.
LEMMA MadeIsJSON ==
    ASSUME AllOfJSON, NEW tree \in SchemaTrees, NEW strategy, NEW depth \in Nat,
           NEW made \in [SchemaTrees -> [Nat -> JSONValues]]
    PROVE  GenerateFrom(made, tree, strategy, depth) \in JSONValues
PROOF
  <1>1. /\ tree.example \in Seq(JSONValues) /\ tree.enum \in Seq(JSONValues) /\ tree.required \in SUBSET STRING
        /\ tree.props \in [DOMAIN tree.props -> SchemaTrees] /\ DOMAIN tree.props \subseteq STRING
        /\ IsFiniteSet(DOMAIN tree.props \cup tree.required) /\ tree.items \in Seq(SchemaTrees)
        /\ tree.oneOf \in Seq(SchemaTrees) /\ tree.anyOf \in Seq(SchemaTrees) /\ tree.allOf \in Seq(SchemaTrees)
    BY TreeFields
  <1>2. \A t \in SchemaTrees, n \in Nat : made[t][n] \in JSONValues
    OBVIOUS
  <1>3. /\ Null \in JSONValues /\ Placeholder \in JSONValues /\ SomeString \in JSONValues
        /\ SomeInteger \in JSONValues /\ SomeNumber \in JSONValues /\ Scalar("boolean", "true") \in JSONValues
    BY MadeValues, LiteralsAssumption DEF Null, Placeholder, SomeString, SomeInteger, SomeNumber
  <1>4. ASSUME NEW options \in Seq(SchemaTrees), options # <<>>, NEW n \in Nat
        PROVE  made[options[ChooseOption(options, strategy)]][n] \in JSONValues
    <2>1. ChooseOption(options, strategy) \in DOMAIN options
      BY <1>4 DEF ChooseOption
    <2>2. options[ChooseOption(options, strategy)] \in SchemaTrees
      BY <2>1
    <2>3. QED
      BY <1>2, <2>2
  <1>5. ASSUME NEW n \in Nat PROVE GenerateAllOf(made, tree.allOf, n) \in JSONValues
    <2> DEFINE parts == [k \in DOMAIN tree.allOf |-> made[tree.allOf[k]][n + 1]]
    <2>1. parts \in Seq(JSONValues)
      <3>1. Len(tree.allOf) \in Nat /\ DOMAIN tree.allOf = 1 .. Len(tree.allOf)
        BY <1>1
      <3>2. \A k \in 1 .. Len(tree.allOf) : made[tree.allOf[k]][n + 1] \in JSONValues
        BY <1>1, <1>2
      <3>3. parts \in [1 .. Len(tree.allOf) -> JSONValues]
        BY <3>1, <3>2
      <3>4. QED
        BY <3>1, <3>3, SeqDef
    <2> HIDE DEF parts
    <2>2. MergeAll[parts] \in JSONValues
      BY <2>1, MergeAllIs
    <2>3. QED
      BY <1>3, <2>2 DEF GenerateAllOf, parts
  <1>6. ASSUME NEW n \in Nat PROVE GenerateObject(made, tree, strategy, n) \in JSONValues
    <2> DEFINE filled == FilledFields(tree, strategy)
               fields == [key \in filled \cup tree.required |->
                            IF key \in filled THEN made[tree.props[key]][n + 1] ELSE Placeholder]
    <2>1. filled \subseteq DOMAIN tree.props
      BY DEF FilledFields
    <2>2. filled \cup tree.required \subseteq STRING /\ IsFiniteSet(filled \cup tree.required)
      <3>1. filled \cup tree.required \subseteq DOMAIN tree.props \cup tree.required
        BY <2>1
      <3> HIDE DEF filled
      <3>2. QED
        BY <1>1, <3>1, FS_Subset
    <2>3. \A key \in filled : made[tree.props[key]][n + 1] \in JSONValues
      BY <1>1, <1>2, <2>1
    <2>4. DOMAIN fields = filled \cup tree.required /\ fields \in [DOMAIN fields -> JSONValues]
      <3> HIDE DEF filled
      <3> QED
        BY <1>3, <2>3
    <2>5. Object(fields) \in JSONValues
      <3> HIDE DEF fields
      <3> QED
        BY <2>2, <2>4, MadeValues
    <2>6. Object(<<>>) \in JSONValues
      BY MadeValues
    <2>7. QED
      BY <2>5, <2>6 DEF GenerateObject
  <1>7. ASSUME NEW n \in Nat PROVE GenerateArray(made, tree, strategy, n) \in JSONValues
    <2> DEFINE N     == ItemCount(tree, strategy)
               elems == [i \in 1..N |-> IF tree.items = <<>> THEN Null ELSE made[tree.items[1]][n + 1]]
    <2>1. N \in Nat
      BY ItemCountIs
    <2>2. tree.items # <<>> => made[tree.items[1]][n + 1] \in JSONValues
      BY <1>1, <1>2
    <2>3. elems \in [1..N -> JSONValues]
      <3> HIDE DEF N
      <3> QED
        BY <1>3, <2>2
    <2>4. elems \in Seq(JSONValues)
      <3> HIDE DEF N, elems
      <3> QED
        BY <2>1, <2>3, SeqDef
    <2>5. Array(elems) \in JSONValues
      <3> HIDE DEF elems
      <3> QED
        BY <2>4, MadeValues
    <2>6. QED
      BY <2>5 DEF GenerateArray
  <1>8. tree.example # <<>> => tree.example[1] \in JSONValues
    BY <1>1
  <1>9. tree.enum # <<>> => tree.enum[1] \in JSONValues
    BY <1>1
  <1>10. /\ tree.oneOf # <<>> => made[tree.oneOf[ChooseOption(tree.oneOf, strategy)]][depth + 1] \in JSONValues
         /\ tree.anyOf # <<>> => made[tree.anyOf[ChooseOption(tree.anyOf, strategy)]][depth + 1] \in JSONValues
    <2>1. depth + 1 \in Nat
      OBVIOUS
    <2>2. QED
      BY <1>1, <1>4, <2>1, Zenon
  <1>11. /\ GenerateAllOf(made, tree.allOf, depth + 1) \in JSONValues
         /\ GenerateObject(made, tree, strategy, depth + 1) \in JSONValues
         /\ GenerateArray(made, tree, strategy, depth + 1) \in JSONValues
    BY <1>5, <1>6, <1>7
  <1>12. QED
    BY <1>3, <1>8, <1>9, <1>10, <1>11, Zenon DEF GenerateFrom

\* What generate_payload makes of the parts of a schema.
IsMade(made, strategy) ==
    /\ made \in [SchemaTrees -> [Nat -> JSONValues]]
    /\ \A tree \in SchemaTrees, n \in Nat : made[tree][n] = GenerateFrom(made, tree, strategy, n)

\* What is made is well defined, and Generate is what is made at depth 0.
LEMMA GenerateIs ==
    ASSUME AllOfJSON, NEW strategy
    PROVE  \E made : IsMade(made, strategy) /\ \A tree \in SchemaTrees : Generate(tree, strategy) = made[tree][0]
PROOF
  <1> DEFINE X        == [Nat -> JSONValues]
             At(f, t) == [n \in Nat |-> GenerateFrom(f, t, strategy, n)]
             step     == [t \in SchemaTrees |-> [f \in [SchemaTrees -> X] |-> At(f, t)]]
             Defines(h) == h = [t \in SchemaTrees |-> At(h, t)]
             made     == CHOOSE h : Defines(h)
  <1>1. X # {}
    <2>1. [n \in Nat |-> Object(<<>>)] \in X
      BY MadeValues
    <2>2. QED
      BY <2>1
  <1>2. ASSUME NEW t \in SchemaTrees, NEW f \in [SchemaTrees -> X] PROVE At(f, t) \in X
    BY MadeIsJSON
  <1>3. step \in [SchemaTrees -> [[SchemaTrees -> X] -> X]]
    <2> HIDE DEF At, X
    <2> QED
      BY <1>2
  <1>4. FromSubschemas(X, step)
    <2> SUFFICES ASSUME NEW t \in SchemaTrees, NEW f \in [SchemaTrees -> X], NEW g \in [SchemaTrees -> X],
                        \A part \in Subschemas(t) : f[part] = g[part]
                 PROVE  At(f, t) = At(g, t)
      <3> HIDE DEF At, X
      <3> QED
        BY DEF FromSubschemas
    <2>1. \A n \in Nat : GenerateFrom(f, t, strategy, n) = GenerateFrom(g, t, strategy, n)
      BY MadeFromParts
    <2>2. QED
      BY <2>1
  <1>5. PICK f \in [SchemaTrees -> X] : Solves(f, SchemaTrees, step)
    <2> HIDE DEF X, step
    <2> QED
      BY <1>1, <1>3, <1>4, TreeRecursion
  <1>6. Defines(f)
    <2> HIDE DEF At
    <2> QED
      BY <1>5 DEF Solves
  <1>7. Defines(made)
    <2> HIDE DEF Defines
    <2> QED
      BY <1>6
  <1>8. \A t \in SchemaTrees : Generate(t, strategy) = made[t][0]
    BY Zenon DEF Generate
  <1> HIDE DEF made
  <1>9. made = [t \in SchemaTrees |-> At(made, t)]
    BY <1>7
  <1>10. \A t \in SchemaTrees : made[t] = At(made, t)
    <2> HIDE DEF At
    <2> QED
      BY <1>9
  <1>11. \A t \in SchemaTrees, n \in Nat : made[t][n] = GenerateFrom(made, t, strategy, n)
    BY <1>10
  <1> DEFINE Good == {t \in SchemaTrees : made[t] \in X}
  <1>12. GoesUpTrees(Good)
    <2> SUFFICES ASSUME NEW t \in SchemaTrees, Subschemas(t) \subseteq Good PROVE made[t] \in X
      <3> HIDE DEF X
      <3> QED
        BY DEF GoesUpTrees
    <2> DEFINE plain == [n \in Nat |-> Object(<<>>)]
               known == [u \in SchemaTrees |-> IF u \in Good THEN made[u] ELSE plain]
    <2>1. plain \in X
      BY MadeValues
    <2>2. known \in [SchemaTrees -> X]
      <3> HIDE DEF X, plain
      <3> QED
        BY <2>1
    <2>3. \A part \in Subschemas(t) : made[part] = known[part]
      <3> HIDE DEF X, plain
      <3> QED
        OBVIOUS
    <2> HIDE DEF known
    <2>4. \A n \in Nat : GenerateFrom(made, t, strategy, n) = GenerateFrom(known, t, strategy, n)
      BY <2>3, MadeFromParts
    <2>5. \A n \in Nat : GenerateFrom(made, t, strategy, n) \in JSONValues
      BY <2>2, <2>4, MadeIsJSON
    <2>6. made[t] = At(made, t)
      BY <1>10
    <2>7. At(made, t) \in X
      BY <2>5, Zenon
    <2>8. QED
      BY <2>6, <2>7
  <1>13. SchemaTrees \subseteq Good
    <2> HIDE DEF Good
    <2> QED
      BY <1>12, TreeInduction
  <1>14. made \in [SchemaTrees -> X]
    <2>1. \A t \in SchemaTrees : made[t] \in X
      BY <1>13
    <2> HIDE DEF X, At
    <2>2. QED
      BY <1>9, <2>1
  <1>15. IsMade(made, strategy)
    BY <1>11, <1>14 DEF IsMade
  <1>16. QED
    BY <1>8, <1>15

\* What is generated is JSON.
LEMMA GeneratedIsJSON ==
    ASSUME AllOfJSON, NEW tree \in SchemaTrees, NEW strategy PROVE Generate(tree, strategy) \in JSONValues
PROOF
  <1>1. PICK made : IsMade(made, strategy) /\ \A t \in SchemaTrees : Generate(t, strategy) = made[t][0]
    BY GenerateIs
  <1>2. QED
    BY <1>1 DEF IsMade

-----------------------------------------------------------------------------
\* The flow of a body

\* What is known of a body: the schema it is judged by is that of the document, and
\* the body is one that was made of it, with overrides, or JSON of the agent's own.
Flow ==
    /\ doc \in Documents
    /\ stage # "loaded" => schema = ResolveSchema(doc, Root, {})
    /\ stage \in {"composed", "judged"} =>
         \/ asked = <<>> /\ body \in JSONValues
         \/ \E strategy \in Strategies, overrides \in Overrides :
              asked = <<strategy, overrides>> /\ body = MergeOverrides(Generate(schema, strategy), overrides)
    /\ stage = "judged" => body \in JSONValues /\ issues = BodyIssues(body, schema)

\* What an agent writes is JSON once it is encoded.
LEMMA EncodedIsJSON ==
    ASSUME OnlyJSON, NEW value \in Values, NEW ct, encodeRequestBody(value[1], ct) # <<>>
    PROVE  encodeRequestBody(value[1], ct)[1] \in JSONValues
PROOF
  <1> DEFINE v == value[1]
  <1>1. v \in JSONValues
    BY InputsAssumption
  <1> HIDE DEF v
  <1>2. Parses(v) => Parsed(v) \in JSONValues
    <2>1. v.elems \in Seq(JSONValues)
      BY <1>1, JSONFields
    <2>2. QED
      BY <2>1 DEF Parses, Parsed
  <1>3. encodeRequestBody(v, ct) # <<>>
    BY DEF v
  <1>4. encodeRequestBody(v, ct) = <<v>> \/ (Parses(v) /\ encodeRequestBody(v, ct) = <<Parsed(v)>>)
    BY <1>3 DEF encodeRequestBody
  <1>5. QED
    BY <1>1, <1>2, <1>4 DEF v

\* Overridden values stay JSON.
LEMMA MergedIsJSON ==
    ASSUME AllOfJSON, NEW generated \in JSONValues, NEW overrides \in JSONValues
    PROVE  MergeOverrides(generated, overrides) \in JSONValues
PROOF
  <1>1. DeepMerge[generated][overrides] \in JSONValues
    BY MergeIs
  <1>2. QED
    BY <1>1 DEF MergeOverrides

\* The schema of the body is one of the trees.
LEMMA RootOfTree == ASSUME NEW d \in Documents PROVE ResolveSchema(d, Root, {}) \in SchemaTrees
PROOF
  <1>1. Root \in DOMAIN d /\ {} \in SUBSET DOMAIN d
    BY RootAssumption
  <1>2. QED
    BY <1>1, SchemaTreesAre

\* All of it is an invariant.
LEMMA FlowAlways == ASSUME AllOfJSON PROVE Spec => []Flow
PROOF
  <1>0. OnlyJSON
    BY DEF AllOfJSON
  <1>1. Init => Flow
    BY DEF Init, Flow
  <1>2. Flow /\ [Next]_vars => Flow'
    <2> SUFFICES ASSUME Flow, [Next]_vars PROVE Flow'
      OBVIOUS
    <2>1. CASE Resolve
      BY <2>1 DEF Resolve, Flow
    <2>2. ASSUME NEW filter \in Filters, SearchOperations(filter) PROVE Flow'
      BY <2>2 DEF SearchOperations, Flow
    <2>3. ASSUME NEW strategy \in Strategies, NEW overrides \in Overrides, GeneratePayload(strategy, overrides)
          PROVE  Flow'
      BY <2>3, Zenon DEF GeneratePayload, Flow
    <2>4. ASSUME NEW value \in Values, WriteBody(value[1], value[2]) PROVE Flow'
      <3>1. body' \in JSONValues /\ asked' = <<>> /\ stage' = "composed"
        BY <1>0, <2>4, EncodedIsJSON DEF WriteBody
      <3>2. doc' = doc /\ schema' = schema /\ stage = "resolved"
        BY <2>4 DEF WriteBody
      <3>3. QED
        BY <3>1, <3>2 DEF Flow
    <2>5. CASE ValidateRequest
      <3>1. /\ stage = "composed" /\ stage' = "judged" /\ issues' = BodyIssues(body, schema)
            /\ doc' = doc /\ schema' = schema /\ body' = body /\ asked' = asked
        BY <2>5 DEF ValidateRequest
      <3>2. body \in JSONValues
        <4>1. CASE asked = <<>> /\ body \in JSONValues
          BY <4>1
        <4>2. ASSUME NEW strategy \in Strategies, NEW overrides \in Overrides,
                     body = MergeOverrides(Generate(schema, strategy), overrides)
              PROVE  body \in JSONValues
          <5>1. schema \in SchemaTrees
            BY <3>1, RootOfTree DEF Flow
          <5>2. Generate(schema, strategy) \in JSONValues
            BY <5>1, GeneratedIsJSON
          <5>3. overrides \in JSONValues
            BY InputsAssumption
          <5>4. QED
            BY <4>2, <5>2, <5>3, MergedIsJSON
        <4>3. QED
          BY <3>1, <4>1, <4>2 DEF Flow
      <3>3. QED
        BY <3>1, <3>2 DEF Flow
    <2>6. ASSUME NEW answer \in Answers, Execute(answer) PROVE Flow'
      BY <2>6 DEF Execute, Flow
    <2>7. ASSUME NEW whole \in BOOLEAN, ValidateResponse(whole) PROVE Flow'
      BY <2>7 DEF ValidateResponse, Flow
    <2>8. CASE UNCHANGED vars
      BY <2>8 DEF vars, Flow
    <2>9. QED
      BY <2>1, <2>2, <2>3, <2>4, <2>5, <2>6, <2>7, <2>8 DEF Next
  <1>3. QED
    BY <1>1, <1>2, PTL DEF Spec

\* validateValueAgainstSchema rejects no body that the document admits, with the
\* exceptions that AdmittedBodiesPass names: nulls that are allowed beside a type,
\* fields required in one direction, a oneOf with what the validator passes over.
THEOREM NoFalseAlarms == ASSUME AllOfJSON PROVE Spec => []AdmittedBodiesPass
PROOF
  <1>1. Flow => AdmittedBodiesPass
    <2> SUFFICES ASSUME Flow, stage = "judged", Lenient(doc), NoneIsNullable(doc, body),
                        Admits(doc, Root, body)
                 PROVE  issues = {}
      BY DEF AdmittedBodiesPass
    <2>1. /\ doc \in Documents /\ Root \in DOMAIN doc /\ body \in JSONValues
          /\ schema = ResolveSchema(doc, Root, {}) /\ issues = BodyIssues(body, schema)
      BY RootAssumption DEF Flow
    <2>2. Issues[ResolveSchema(doc, Root, {})][body] = {}
      BY <2>1, LenientValidation DEF AllOfJSON, Clean
    <2>3. QED
      BY <2>1, <2>2 DEF BodyIssues
  <1>2. QED
    BY <1>1, FlowAlways, PTL

\* For a document of which the validator knows all, no body passes that the document
\* does not admit, unless there is a null in it and some schema is nullable.
THEOREM NothingSlipsThrough == ASSUME AllOfJSON PROVE Spec => []PassingBodiesAreAdmitted
PROOF
  <1>1. Flow => PassingBodiesAreAdmitted
    <2> SUFFICES ASSUME Flow, stage = "judged", Exact(doc), NoneIsNullable(doc, body),
                        issues = {}, body # Null
                 PROVE  Admits(doc, Root, body)
      BY DEF PassingBodiesAreAdmitted
    <2>1. /\ doc \in Documents /\ Root \in DOMAIN doc /\ body \in JSONValues
          /\ schema = ResolveSchema(doc, Root, {}) /\ issues = BodyIssues(body, schema)
      BY RootAssumption DEF Flow
    <2>2. Issues[ResolveSchema(doc, Root, {})][body] = {}
      BY <2>1 DEF BodyIssues
    <2>3. QED
      BY <2>1, <2>2, ExactValidation DEF AllOfJSON, Clean
  <1>2. QED
    BY <1>1, FlowAlways, PTL

-----------------------------------------------------------------------------
\* Overrides

\* Leaves below one more field.
Under(key, leaves) == {<<<<key>> \o leaf[1], leaf[2]>> : leaf \in leaves}

\* A path below a field begins with it and goes on.
LEMMA PathsGrow ==
    ASSUME NEW S, NEW x \in S, NEW s \in Seq(S)
    PROVE  <<x>> \in Seq(S) /\ <<x>> \o s \in Seq(S) /\ <<>> \in Seq(S)
OBVIOUS

\* They are paths and values still.
LEMMA UnderIsLeaves ==
    ASSUME NEW key \in STRING, NEW S, NEW L, L \in SUBSET (Seq(STRING) \X S)
    PROVE  Under(key, L) \in SUBSET (Seq(STRING) \X S)
PROOF
  <1>1. ASSUME NEW leaf \in L PROVE <<<<key>> \o leaf[1], leaf[2]>> \in Seq(STRING) \X S
    <2>1. leaf[1] \in Seq(STRING) /\ leaf[2] \in S
      OBVIOUS
    <2>3. <<key>> \o leaf[1] \in Seq(STRING)
      BY <2>1, PathsGrow
    <2>4. QED
      BY <2>1, <2>3
  <1>2. QED
    BY <1>1 DEF Under

\* The leaves of a value are those of its fields, under their keys.
LeavesFrom(leaves, v) ==
    IF v.kind # "object" \/ v.fields = <<>> THEN {<<<<>>, v>>}
    ELSE UNION {Under(key, leaves[v.fields[key]]) : key \in DOMAIN v.fields}

\* Leaves does what its definition says of every value.
LEMMA LeavesAre ==
    ASSUME OnlyJSON
    PROVE  /\ \A v \in JSONValues : Leaves[v] = LeavesFrom(Leaves, v)
           /\ \A v \in JSONValues : Leaves[v] \in SUBSET (Seq(STRING) \X JSONValues) /\ Leaves[v] # {}
PROOF
  <1> DEFINE X        == SUBSET (Seq(STRING) \X JSONValues)
             step     == [v \in JSONValues |-> [f \in [JSONValues -> X] |-> LeavesFrom(f, v)]]
  <1>1. X # {}
    OBVIOUS
  <1>2. ASSUME NEW v \in JSONValues, NEW f,
               \A part \in ValuesIn(v) : f[part] \in X
        PROVE  LeavesFrom(f, v) \in X
    <2>1. CASE v.kind # "object" \/ v.fields = <<>>
      <3>1. <<<<>>, v>> \in Seq(STRING) \X JSONValues
        <4>1. \A S : <<>> \in Seq(S)
          OBVIOUS
        <4>2. <<>> \in Seq(STRING)
          BY <4>1
        <4>3. QED
          BY <4>2
      <3>2. QED
        BY <2>1, <3>1 DEF LeavesFrom
    <2>2. CASE ~ (v.kind # "object" \/ v.fields = <<>>)
      <3>1. ASSUME NEW key \in DOMAIN v.fields PROVE Under(key, f[v.fields[key]]) \in X
        <4>1. key \in STRING /\ v.fields[key] \in ValuesIn(v)
          BY JSONFields
        <4>2. f[v.fields[key]] \in X
          BY <1>2, <4>1
        <4>3. QED
          BY <4>1, <4>2, UnderIsLeaves
      <3>2. LeavesFrom(f, v) = UNION {Under(key, f[v.fields[key]]) : key \in DOMAIN v.fields}
        BY <2>2 DEF LeavesFrom
      <3>3. QED
        BY <3>1, <3>2
    <2>3. QED
      BY <2>1, <2>2
  <1>3. step \in [JSONValues -> [[JSONValues -> X] -> X]]
    <2>1. ASSUME NEW v \in JSONValues, NEW f \in [JSONValues -> X] PROVE LeavesFrom(f, v) \in X
      <3> HIDE DEF X
      <3>1. \A part \in ValuesIn(v) : f[part] \in X
        BY JSONFields
      <3>2. QED
        BY <1>2, <3>1
    <2> HIDE DEF X
    <2>2. QED
      BY <2>1
  <1>4. FromValuesIn(X, step)
    <2> SUFFICES ASSUME NEW v \in JSONValues, NEW f \in [JSONValues -> X], NEW g \in [JSONValues -> X],
                        \A part \in ValuesIn(v) : f[part] = g[part]
                 PROVE  LeavesFrom(f, v) = LeavesFrom(g, v)
      <3> HIDE DEF X
      <3> QED
        BY DEF FromValuesIn
    <2>1. \A key \in DOMAIN v.fields : f[v.fields[key]] = g[v.fields[key]]
      BY JSONFields
    <2>2. {Under(key, f[v.fields[key]]) : key \in DOMAIN v.fields} = {Under(key, g[v.fields[key]]) : key \in DOMAIN v.fields}
      BY <2>1
    <2>3. QED
      BY <2>2 DEF LeavesFrom
  <1>5. PICK f \in [JSONValues -> X] : Solves(f, JSONValues, step)
    <2> HIDE DEF X, step
    <2> QED
      BY <1>1, <1>3, <1>4, ValueRecursion
  <1>6. f = [v \in JSONValues |-> LeavesFrom(f, v)]
    BY <1>5 DEF Solves
  <1>7. Leaves = CHOOSE h : h = [v \in JSONValues |-> LeavesFrom(h, v)]
    BY Zenon DEF Leaves, LeavesFrom, Under
  <1>8. Leaves = [v \in JSONValues |-> LeavesFrom(Leaves, v)]
    BY <1>6, <1>7, Zenon
  <1>9. \A v \in JSONValues : Leaves[v] = LeavesFrom(Leaves, v)
    BY <1>8
  <1> DEFINE Good == {v \in JSONValues : Leaves[v] \in X /\ Leaves[v] # {}}
  <1>10. GoesUpValues(Good)
    <2> SUFFICES ASSUME NEW v \in JSONValues, ValuesIn(v) \subseteq Good
                 PROVE  Leaves[v] \in X /\ Leaves[v] # {}
      <3> HIDE DEF X
      <3> QED
        BY DEF GoesUpValues
    <2>1. Leaves[v] \in X
      <3> HIDE DEF X
      <3> QED
        BY <1>2, <1>9
    <2>2. Leaves[v] # {}
      <3>1. CASE v.kind # "object" \/ v.fields = <<>>
        BY <1>9, <3>1 DEF LeavesFrom
      <3>2. CASE ~ (v.kind # "object" \/ v.fields = <<>>)
        <4>1. v.fields \in [DOMAIN v.fields -> JSONValues] /\ v.fields # <<>>
          BY <3>2, JSONFields
        <4>2. PICK key \in DOMAIN v.fields : TRUE
          BY <4>1
        <4>3. Leaves[v.fields[key]] # {}
          BY JSONFields
        <4>4. Under(key, Leaves[v.fields[key]]) # {}
          BY <4>3 DEF Under
        <4>5. Leaves[v] = UNION {Under(k, Leaves[v.fields[k]]) : k \in DOMAIN v.fields}
          BY <1>9, <3>2 DEF LeavesFrom
        <4>6. Under(key, Leaves[v.fields[key]]) \subseteq Leaves[v]
          BY <4>5
        <4>7. QED
          BY <4>4, <4>6
      <3>3. QED
        BY <3>1, <3>2
    <2>3. QED
      BY <2>1, <2>2
  <1>11. JSONValues \subseteq Good
    <2> HIDE DEF Good
    <2> QED
      BY <1>10, ValueInduction
  <1>12. QED
    BY <1>9, <1>11

\* Paths.

\* A prefix, by its elements.
LEMMA PrefixIs ==
    ASSUME NEW S, NEW s \in Seq(S), NEW t \in Seq(S)
    PROVE  IsPrefix(s, t) <=> Len(s) <= Len(t) /\ \A i \in 1 .. Len(s) : s[i] = t[i]
PROOF
  <1>1. Len(s) \in Nat /\ Len(t) \in Nat
    OBVIOUS
  <1>2. SubSeq(s, 1, Len(s)) = [i \in 1 .. Len(s) |-> s[i]]
    OBVIOUS
  <1>3. Len(s) <= Len(t) => SubSeq(t, 1, Len(s)) = [i \in 1 .. Len(s) |-> t[i]]
    BY <1>1
  <1>4. QED
    BY <1>1, <1>2, <1>3 DEF IsPrefix

\* One path leads through the other.
Related(s, t) == IsPrefix(s, t) \/ IsPrefix(t, s)

\* A path below a field is a prefix just of those below the same field that it is one of there.
LEMMA LongerPaths ==
    ASSUME NEW S, NEW j \in S, NEW k \in S, NEW s \in Seq(S), NEW t \in Seq(S)
    PROVE  /\ IsPrefix(<<j>> \o s, <<k>> \o t) <=> j = k /\ IsPrefix(s, t)
           /\ IsPrefix(<<>>, t)
           /\ ~ IsPrefix(<<j>> \o s, <<>>)
PROOF
  <1> DEFINE a == <<j>> \o s
             b == <<k>> \o t
  <1>1. /\ a \in Seq(S) /\ Len(a) = 1 + Len(s) /\ a[1] = j /\ \A i \in 1 .. Len(s) : a[i + 1] = s[i]
        /\ b \in Seq(S) /\ Len(b) = 1 + Len(t) /\ b[1] = k /\ \A i \in 1 .. Len(t) : b[i + 1] = t[i]
    OBVIOUS
  <1>2. Len(s) \in Nat /\ Len(t) \in Nat
    OBVIOUS
  <1> HIDE DEF a, b
  <1>3. IsPrefix(a, b) <=> Len(a) <= Len(b) /\ \A i \in 1 .. Len(a) : a[i] = b[i]
    BY <1>1, PrefixIs
  <1>4. IsPrefix(s, t) <=> Len(s) <= Len(t) /\ \A i \in 1 .. Len(s) : s[i] = t[i]
    BY PrefixIs
  <1>5. ASSUME IsPrefix(a, b) PROVE j = k /\ IsPrefix(s, t)
    <2>1. Len(s) <= Len(t)
      BY <1>1, <1>2, <1>3, <1>5
    <2>2. j = k
      <3>1. 1 \in 1 .. Len(a)
        BY <1>1, <1>2
      <3>2. QED
        BY <1>1, <1>3, <1>5, <3>1
    <2>3. ASSUME NEW i \in 1 .. Len(s) PROVE s[i] = t[i]
      <3>1. i + 1 \in 1 .. Len(a)
        BY <1>1, <1>2
      <3>2. a[i + 1] = b[i + 1]
        BY <1>3, <1>5, <3>1
      <3>3. i \in 1 .. Len(t)
        BY <1>2, <2>1
      <3>4. QED
        BY <1>1, <3>2, <3>3
    <2>4. QED
      BY <1>4, <2>1, <2>2, <2>3
  <1>6. ASSUME j = k, IsPrefix(s, t) PROVE IsPrefix(a, b)
    <2>1. Len(s) <= Len(t) /\ \A i \in 1 .. Len(s) : s[i] = t[i]
      BY <1>4, <1>6
    <2>2. ASSUME NEW i \in 1 .. Len(a) PROVE a[i] = b[i]
      <3>1. CASE i = 1
        BY <1>1, <1>6, <3>1
      <3>2. CASE i # 1
        <4>1. i - 1 \in 1 .. Len(s) /\ i - 1 \in 1 .. Len(t) /\ (i - 1) + 1 = i
          BY <1>1, <1>2, <2>1, <3>2
        <4>2. a[(i - 1) + 1] = s[i - 1] /\ b[(i - 1) + 1] = t[i - 1]
          BY <1>1, <4>1
        <4>3. QED
          BY <2>1, <4>1, <4>2
      <3>3. QED
        BY <3>1, <3>2
    <2>3. Len(a) <= Len(b)
      BY <1>1, <1>2, <2>1
    <2>4. QED
      BY <1>3, <2>2, <2>3
  <1>7. IsPrefix(<<>>, t)
    <2>1. <<>> \in Seq(S) /\ Len(<<>>) = 0
      OBVIOUS
    <2>2. Len(<<>>) <= Len(t) /\ \A i \in 1 .. Len(<<>>) : <<>>[i] = t[i]
      BY <1>2, <2>1
    <2>3. QED
      BY <2>1, <2>2, PrefixIs
  <1>8. ~ IsPrefix(a, <<>>)
    <2>1. <<>> \in Seq(S) /\ Len(<<>>) = 0
      OBVIOUS
    <2>2. ~ (Len(a) <= 0)
      BY <1>1, <1>2
    <2>3. QED
      BY <1>1, <2>1, <2>2, PrefixIs
  <1>9. QED
    BY <1>5, <1>6, <1>7, <1>8 DEF a, b

\* A leaf of a field is one of the object, under the key.
Below(key, leaf) == <<<<key>> \o leaf[1], leaf[2]>>

\* The leaves of an object are those below its fields.
LEMMA FieldLeaves ==
    ASSUME OnlyJSON, NEW v \in JSONValues, v.kind = "object", v.fields # <<>>, NEW x
    PROVE  x \in Leaves[v] <=> \E key \in DOMAIN v.fields : \E leaf \in Leaves[v.fields[key]] : x = Below(key, leaf)
PROOF
  <1>1. Leaves[v] = UNION {Under(key, Leaves[v.fields[key]]) : key \in DOMAIN v.fields}
    BY LeavesAre DEF LeavesFrom
  <1>2. x \in Leaves[v] <=> \E key \in DOMAIN v.fields : x \in Under(key, Leaves[v.fields[key]])
    BY <1>1
  <1>3. \A key : x \in Under(key, Leaves[v.fields[key]]) <=> \E leaf \in Leaves[v.fields[key]] : x = Below(key, leaf)
    BY DEF Under, Below
  <1>4. QED
    BY <1>2, <1>3

\* Overrides of which no value is an object, and so not an empty one.
Overriding(patch) == \A o \in Leaves[patch] : o[2].kind # "object"

\* The leaves that the patch leaves alone.
Spared(base, patch) == {leaf \in Leaves[base] : \A o \in Leaves[patch] : ~ Related(o[1], leaf[1])}

\* The fields of an overriding object override as well.
LEMMA OverridingFields ==
    ASSUME OnlyJSON, NEW p \in JSONValues, p.kind = "object", Overriding(p)
    PROVE  p.fields # <<>> /\ \A key \in DOMAIN p.fields : Overriding(p.fields[key])
PROOF
  <1>1. p.fields # <<>>
    <2> SUFFICES ASSUME p.fields = <<>> PROVE FALSE
      OBVIOUS
    <2>1. <<<<>>, p>> \in Leaves[p]
      BY LeavesAre DEF LeavesFrom
    <2>2. <<<<>>, p>>[2] = p
      OBVIOUS
    <2>3. QED
      BY <2>1, <2>2 DEF Overriding
  <1>2. ASSUME NEW key \in DOMAIN p.fields, NEW o \in Leaves[p.fields[key]] PROVE o[2].kind # "object"
    <2>1. Below(key, o) \in Leaves[p]
      BY <1>1, FieldLeaves
    <2>2. Below(key, o)[2] = o[2]
      BY DEF Below
    <2>3. QED
      BY <2>1, <2>2 DEF Overriding
  <1>3. QED
    BY <1>1, <1>2 DEF Overriding

\* A leaf of a field is out of the way of all overrides if it is out of the way of
\* those under its key.
LEMMA OutOfTheWay ==
    ASSUME OnlyJSON, NEW p \in JSONValues, p.kind = "object", p.fields # <<>>,
           NEW key \in STRING, NEW path \in Seq(STRING)
    PROVE  (\A o \in Leaves[p] : ~ Related(o[1], <<key>> \o path)) <=>
             (key \in DOMAIN p.fields => \A o \in Leaves[p.fields[key]] : ~ Related(o[1], path))
PROOF
  <1>1. ASSUME NEW k \in DOMAIN p.fields, NEW o \in Leaves[p.fields[k]]
        PROVE  Related(Below(k, o)[1], <<key>> \o path) <=> k = key /\ Related(o[1], path)
    <2>1. k \in STRING /\ p.fields[k] \in JSONValues
      BY JSONFields
    <2>2. o[1] \in Seq(STRING)
      BY <2>1, LeavesAre
    <2>3. Below(k, o)[1] = <<k>> \o o[1]
      BY DEF Below
    <2>4. IsPrefix(<<k>> \o o[1], <<key>> \o path) <=> k = key /\ IsPrefix(o[1], path)
      BY <2>1, <2>2, LongerPaths
    <2>5. IsPrefix(<<key>> \o path, <<k>> \o o[1]) <=> key = k /\ IsPrefix(path, o[1])
      BY <2>1, <2>2, LongerPaths
    <2>6. QED
      BY <2>3, <2>4, <2>5 DEF Related
  <1>2. ASSUME \A o \in Leaves[p] : ~ Related(o[1], <<key>> \o path), key \in DOMAIN p.fields,
               NEW o \in Leaves[p.fields[key]]
        PROVE  ~ Related(o[1], path)
    <2>1. Below(key, o) \in Leaves[p]
      BY <1>2, FieldLeaves
    <2>2. ~ Related(Below(key, o)[1], <<key>> \o path)
      BY <1>2, <2>1
    <2>3. QED
      BY <1>1, <1>2, <2>2
  <1>3. ASSUME key \in DOMAIN p.fields => \A o \in Leaves[p.fields[key]] : ~ Related(o[1], path),
               NEW x \in Leaves[p]
        PROVE  ~ Related(x[1], <<key>> \o path)
    <2>1. PICK k \in DOMAIN p.fields : \E o \in Leaves[p.fields[k]] : x = Below(k, o)
      BY FieldLeaves
    <2>2. PICK o \in Leaves[p.fields[k]] : x = Below(k, o)
      BY <2>1
    <2>3. QED
      BY <1>1, <1>3, <2>2
  <1>4. QED
    BY <1>2, <1>3

\* A value that is not taken apart is in the way of everything, at the root.
LEMMA NoneSpared ==
    ASSUME OnlyJSON, NEW base \in JSONValues, NEW patch \in JSONValues,
           \/ base.kind # "object" \/ base.fields = <<>>
           \/ patch.kind # "object" \/ patch.fields = <<>>
    PROVE  Spared(base, patch) = {}
PROOF
  <1> SUFFICES ASSUME NEW leaf \in Leaves[base], \A o \in Leaves[patch] : ~ Related(o[1], leaf[1]) PROVE FALSE
    BY DEF Spared
  <1>1. PICK o \in Leaves[patch] : TRUE
    BY LeavesAre
  <1>2. leaf[1] \in Seq(STRING) /\ o[1] \in Seq(STRING)
    BY LeavesAre
  <1>3. \A s \in Seq(STRING) : IsPrefix(<<>>, s)
    BY LongerPaths, LiteralsAssumption
  <1>4. CASE base.kind # "object" \/ base.fields = <<>>
    <2>1. Leaves[base] = {<<<<>>, base>>}
      BY <1>4, LeavesAre DEF LeavesFrom
    <2>2. leaf[1] = <<>>
      BY <2>1
    <2>3. QED
      BY <1>2, <1>3, <2>2 DEF Related
  <1>5. CASE patch.kind # "object" \/ patch.fields = <<>>
    <2>1. Leaves[patch] = {<<<<>>, patch>>}
      BY <1>5, LeavesAre DEF LeavesFrom
    <2>2. o[1] = <<>>
      BY <2>1
    <2>3. QED
      BY <1>2, <1>3, <2>2 DEF Related
  <1>6. QED
    BY <1>4, <1>5

\* One field of a merge, if the merges of the fields' values are right.
LEMMA MergedFieldLeaves ==
    ASSUME AllOfJSON, NEW b \in JSONValues, NEW p \in JSONValues, NEW key \in DOMAIN b.fields \cup DOMAIN p.fields,
           \A k \in DOMAIN b.fields \cap DOMAIN p.fields :
              b.fields[k].kind = "object" /\ p.fields[k].kind = "object"
              => Leaves[DeepMerge[b.fields[k]][p.fields[k]]] = Leaves[p.fields[k]] \cup Spared(b.fields[k], p.fields[k]),
           NEW leaf
    PROVE  leaf \in Leaves[MergedField(DeepMerge, b, p, key)] <=>
             \/ key \in DOMAIN p.fields /\ leaf \in Leaves[p.fields[key]]
             \/ /\ key \in DOMAIN b.fields /\ leaf \in Leaves[b.fields[key]]
                /\ key \in DOMAIN p.fields => \A o \in Leaves[p.fields[key]] : ~ Related(o[1], leaf[1])
PROOF
  <1> DEFINE B == b.fields  P == p.fields
  <1>1. OnlyJSON
    BY DEF AllOfJSON
  <1>2. CASE key \notin DOMAIN P
    BY <1>2 DEF MergedField
  <1>3. CASE key \in DOMAIN P /\ key \notin DOMAIN B
    BY <1>3 DEF MergedField
  <1>4. CASE key \in DOMAIN P /\ key \in DOMAIN B
    <2>1. B[key] \in JSONValues /\ P[key] \in JSONValues
      BY <1>1, <1>4, JSONFields
    <2>2. \A x : x \in Spared(B[key], P[key]) <=>
                   x \in Leaves[B[key]] /\ \A o \in Leaves[P[key]] : ~ Related(o[1], x[1])
      BY DEF Spared
    <2>3. Leaves[MergedField(DeepMerge, b, p, key)] = Leaves[P[key]] \cup Spared(B[key], P[key])
      <3>1. CASE B[key].kind = "object" /\ P[key].kind = "object"
        BY <1>4, <3>1 DEF MergedField
      <3>2. CASE ~ (B[key].kind = "object" /\ P[key].kind = "object")
        <4>1. Spared(B[key], P[key]) = {}
          BY <1>1, <2>1, <3>2, NoneSpared
        <4>2. MergedField(DeepMerge, b, p, key) = P[key]
          BY <1>4, <3>2 DEF MergedField
        <4>3. QED
          BY <4>1, <4>2
      <3>3. QED
        BY <3>1, <3>2
    <2>4. QED
      BY <1>4, <2>2, <2>3
  <1>5. QED
    BY <1>2, <1>3, <1>4

\* The leaves of a merge are those of the patch and those of the base that it spares.
LEMMA MergedLeaves ==
    ASSUME AllOfJSON, NEW b \in JSONValues, b.kind = "object",
           NEW p \in JSONValues, p.kind = "object", Overriding(p)
    PROVE  Leaves[DeepMerge[b][p]] = Leaves[p] \cup Spared(b, p)
PROOF
  <1>0. OnlyJSON
    BY DEF AllOfJSON
  <1> DEFINE Right(v) == v.kind = "object" =>
                 \A q \in JSONValues : q.kind = "object" /\ Overriding(q)
                    => Leaves[DeepMerge[v][q]] = Leaves[q] \cup Spared(v, q)
             Good == {v \in JSONValues : Right(v)}
  <1>1. ASSUME NEW v \in JSONValues, ValuesIn(v) \subseteq Good, v.kind = "object",
               NEW q \in JSONValues, q.kind = "object", Overriding(q)
        PROVE  Leaves[DeepMerge[v][q]] = Leaves[q] \cup Spared(v, q)
    <2> DEFINE M == MergedFields(DeepMerge, v, q)
               D == DeepMerge[v][q]
    <2>1. q.fields # <<>> /\ \A key \in DOMAIN q.fields : Overriding(q.fields[key])
      BY <1>0, <1>1, OverridingFields
    <2>2. D \in JSONValues /\ D = Object(M)
      BY MergeIs
    <2>3. D.kind = "object" /\ D.fields = M
      <3> HIDE DEF D, M
      <3>1. JSON("object", "", M, <<>>).kind = "object" /\ JSON("object", "", M, <<>>).fields = M
        BY DEF JSON
      <3>2. QED
        BY <2>2, <3>1 DEF Object
    <2>4. DOMAIN M = DOMAIN v.fields \cup DOMAIN q.fields
      BY DEF MergedFields
    <2>5. \A key \in DOMAIN M : M[key] = MergedField(DeepMerge, v, q, key)
      BY <2>4 DEF MergedFields
    <2>6. D.fields # <<>>
      <3>1. q.fields \in [DOMAIN q.fields -> JSONValues]
        BY <1>0, JSONFields
      <3>2. PICK key \in DOMAIN q.fields : TRUE
        <4> DEFINE fields == q.fields
        <4>1. fields \in [DOMAIN fields -> JSONValues] /\ fields # <<>>
          BY <2>1, <3>1
        <4> HIDE DEF fields
        <4>2. DOMAIN fields # {}
          BY <4>1
        <4>3. QED
          BY <4>2 DEF fields
      <3>3. DOMAIN <<>> = {}
        OBVIOUS
      <3> HIDE DEF D, M
      <3>4. QED
        BY <2>3, <2>4, <3>2, <3>3
    <2>7. \A k \in DOMAIN v.fields \cap DOMAIN q.fields :
              v.fields[k].kind = "object" /\ q.fields[k].kind = "object"
              => Leaves[DeepMerge[v.fields[k]][q.fields[k]]] = Leaves[q.fields[k]] \cup Spared(v.fields[k], q.fields[k])
      <3> SUFFICES ASSUME NEW k \in DOMAIN v.fields \cap DOMAIN q.fields,
                          v.fields[k].kind = "object", q.fields[k].kind = "object"
                   PROVE  Leaves[DeepMerge[v.fields[k]][q.fields[k]]] = Leaves[q.fields[k]] \cup Spared(v.fields[k], q.fields[k])
        OBVIOUS
      <3>1. v.fields[k] \in ValuesIn(v) /\ q.fields[k] \in JSONValues
        BY <1>0, JSONFields
      <3>2. Right(v.fields[k])
        BY <1>1, <3>1
      <3>3. QED
        BY <2>1, <3>1, <3>2
    <2> HIDE DEF Good
    <2>8. ASSUME NEW key \in DOMAIN M, NEW leaf
          PROVE  leaf \in Leaves[M[key]] <=>
                   \/ key \in DOMAIN q.fields /\ leaf \in Leaves[q.fields[key]]
                   \/ /\ key \in DOMAIN v.fields /\ leaf \in Leaves[v.fields[key]]
                      /\ key \in DOMAIN q.fields => \A o \in Leaves[q.fields[key]] : ~ Related(o[1], leaf[1])
      <3>1. key \in DOMAIN v.fields \cup DOMAIN q.fields
        BY <2>4
      <3>2. leaf \in Leaves[MergedField(DeepMerge, v, q, key)] <=>
              \/ key \in DOMAIN q.fields /\ leaf \in Leaves[q.fields[key]]
              \/ /\ key \in DOMAIN v.fields /\ leaf \in Leaves[v.fields[key]]
                 /\ key \in DOMAIN q.fields => \A o \in Leaves[q.fields[key]] : ~ Related(o[1], leaf[1])
        BY <2>7, <3>1, MergedFieldLeaves
      <3>3. QED
        BY <2>5, <3>2
    <2>9. ASSUME NEW key \in DOMAIN v.fields, NEW leaf \in Leaves[v.fields[key]]
          PROVE  (\A o \in Leaves[q] : ~ Related(o[1], Below(key, leaf)[1])) <=>
                   (key \in DOMAIN q.fields => \A o \in Leaves[q.fields[key]] : ~ Related(o[1], leaf[1]))
      <3>1. key \in STRING /\ v.fields[key] \in JSONValues
        BY <1>0, JSONFields
      <3>2. leaf[1] \in Seq(STRING)
        BY <1>0, <3>1, LeavesAre
      <3>3. Below(key, leaf)[1] = <<key>> \o leaf[1]
        BY DEF Below
      <3>4. (\A o \in Leaves[q] : ~ Related(o[1], <<key>> \o leaf[1])) <=>
              (key \in DOMAIN q.fields => \A o \in Leaves[q.fields[key]] : ~ Related(o[1], leaf[1]))
        BY <1>0, <1>1, <2>1, <3>1, <3>2, OutOfTheWay
      <3>5. QED
        BY <3>3, <3>4
    <2>10. ASSUME NEW x
           PROVE  x \in Spared(v, q) <=>
                    \E key \in DOMAIN v.fields : \E leaf \in Leaves[v.fields[key]] :
                       /\ x = Below(key, leaf)
                       /\ key \in DOMAIN q.fields => \A o \in Leaves[q.fields[key]] : ~ Related(o[1], leaf[1])
      <3>1. CASE v.fields = <<>>
        <4>1. Spared(v, q) = {}
          BY <1>0, <3>1, NoneSpared
        <4>2. DOMAIN v.fields = {}
          BY <3>1
        <4>3. QED
          BY <4>1, <4>2
      <3>2. CASE v.fields # <<>>
        <4>1. x \in Leaves[v] <=> \E key \in DOMAIN v.fields : \E leaf \in Leaves[v.fields[key]] : x = Below(key, leaf)
          BY <1>0, <1>1, <3>2, FieldLeaves
        <4>2. x \in Spared(v, q) <=> x \in Leaves[v] /\ \A o \in Leaves[q] : ~ Related(o[1], x[1])
          BY DEF Spared
        <4>3. QED
          BY <2>9, <4>1, <4>2
      <3>3. QED
        BY <3>1, <3>2
    <2>11. ASSUME NEW x PROVE x \in Leaves[D] <=> x \in Leaves[q] \/ x \in Spared(v, q)
      <3> HIDE DEF D, M
      <3>1. x \in Leaves[D] <=> \E key \in DOMAIN M : \E leaf \in Leaves[M[key]] : x = Below(key, leaf)
        <4>1. x \in Leaves[D] <=> \E key \in DOMAIN D.fields : \E leaf \in Leaves[D.fields[key]] : x = Below(key, leaf)
          BY <1>0, <2>2, <2>3, <2>6, FieldLeaves
        <4>2. QED
          BY <2>3, <4>1
      <3>2. x \in Leaves[q] <=> \E key \in DOMAIN q.fields : \E leaf \in Leaves[q.fields[key]] : x = Below(key, leaf)
        BY <1>0, <1>1, <2>1, FieldLeaves
      <3>3. QED
        BY <2>4, <2>8, <2>10, <3>1, <3>2
    <2>12. QED
      BY <2>11
  <1>2. GoesUpValues(Good)
    <2> SUFFICES ASSUME NEW v \in JSONValues, ValuesIn(v) \subseteq Good PROVE v \in Good
      <3> HIDE DEF Good
      <3> QED
        BY DEF GoesUpValues
    <2>1. Right(v)
      BY <1>1
    <2>2. QED
      BY <2>1
  <1>3. JSONValues \subseteq Good
    <2> HIDE DEF Good
    <2> QED
      BY <1>0, <1>2, ValueInduction
  <1>4. Right(b)
    BY <1>3
  <1>5. QED
    BY <1>4

\* The overrides of generate_payload replace just what they name.
LEMMA OverriddenLeaves ==
    ASSUME AllOfJSON, NEW generated \in JSONValues, NEW overrides \in JSONValues, overrides.kind = "object",
           Overriding(overrides)
    PROVE  Leaves[MergeOverrides(generated, overrides)] = Leaves[overrides] \cup Spared(generated, overrides)
PROOF
  <1>1. overrides.fields # <<>>
    BY OverridingFields DEF AllOfJSON
  <1>2. CASE generated.kind # "object"
    <2>1. Spared(generated, overrides) = {}
      BY <1>2, NoneSpared DEF AllOfJSON
    <2>2. MergeOverrides(generated, overrides) = overrides
      BY <1>1, <1>2 DEF MergeOverrides
    <2>3. QED
      BY <2>1, <2>2
  <1>3. CASE generated.kind = "object"
    <2>1. MergeOverrides(generated, overrides) = DeepMerge[generated][overrides]
      BY <1>1, <1>3 DEF MergeOverrides
    <2>2. QED
      BY <1>3, <2>1, MergedLeaves
  <1>4. QED
    BY <1>2, <1>3

\* Overrides replace what they stand in for in a generated body, at any depth, and nothing else.
THEOREM OverridesAlwaysReplaceTheirOwn == ASSUME AllOfJSON PROVE Spec => []OverridesReplaceTheirOwn
PROOF
  <1>1. Flow => OverridesReplaceTheirOwn
    <2> SUFFICES ASSUME Flow, stage = "composed", asked # <<>>,
                        \A o \in Leaves[asked[2]] : o[2].kind # "object"
                 PROVE  Leaves[body] = Leaves[asked[2]] \cup
                          {leaf \in Leaves[Generate(schema, asked[1])] :
                             \A o \in Leaves[asked[2]] : ~ IsPrefix(o[1], leaf[1]) /\ ~ IsPrefix(leaf[1], o[1])}
      BY Zenon DEF OverridesReplaceTheirOwn
    <2>1. PICK strategy \in Strategies, overrides \in Overrides :
            asked = <<strategy, overrides>> /\ body = MergeOverrides(Generate(schema, strategy), overrides)
      BY DEF Flow
    <2>2. asked[1] = strategy /\ asked[2] = overrides
      BY <2>1
    <2> DEFINE generated == Generate(schema, strategy)
    <2>3. schema \in SchemaTrees
      BY RootOfTree DEF Flow
    <2>4. generated \in JSONValues
      BY <2>3, GeneratedIsJSON
    <2>5. overrides \in JSONValues /\ overrides.kind = "object"
      BY InputsAssumption
    <2>6. Overriding(overrides)
      BY <2>2 DEF Overriding
    <2> HIDE DEF generated
    <2>7. Leaves[MergeOverrides(generated, overrides)] = Leaves[overrides] \cup Spared(generated, overrides)
      BY <2>4, <2>5, <2>6, OverriddenLeaves
    <2>8. Spared(generated, overrides) =
            {leaf \in Leaves[generated] :
               \A o \in Leaves[overrides] : ~ IsPrefix(o[1], leaf[1]) /\ ~ IsPrefix(leaf[1], o[1])}
      BY DEF Spared, Related
    <2>9. QED
      BY <2>1, <2>2, <2>7, <2>8 DEF generated
  <1>2. QED
    BY <1>1, FlowAlways, PTL

-----------------------------------------------------------------------------
\* Names

\* The names in a resolved schema are its own and those in its parts.
LEMMA NamesAre ==
    \A tree \in SchemaTrees :
        collectSchemaNames[tree] = {tree.origin} \cup UNION {collectSchemaNames[part] : part \in Subschemas(tree)}
PROOF
  <1> DEFINE X        == SUBSET STRING
             At(f, t) == {t.origin} \cup UNION {f[part] : part \in Subschemas(t)}
             step     == [t \in SchemaTrees |-> [f \in [SchemaTrees -> X] |-> At(f, t)]]
  <1>1. X # {}
    OBVIOUS
  <1>2. ASSUME NEW t \in SchemaTrees, NEW f \in [SchemaTrees -> X] PROVE At(f, t) \in X
    <2>1. t.origin \in STRING
      BY TreeFields
    <2>2. \A part \in Subschemas(t) : f[part] \in X
      <3> HIDE DEF X
      <3> QED
        BY TreeParts
    <2>3. QED
      BY <2>1, <2>2
  <1>3. step \in [SchemaTrees -> [[SchemaTrees -> X] -> X]]
    <2> HIDE DEF At, X
    <2> QED
      BY <1>2
  <1>4. FromSubschemas(X, step)
    <2> SUFFICES ASSUME NEW t \in SchemaTrees, NEW f \in [SchemaTrees -> X], NEW g \in [SchemaTrees -> X],
                        \A part \in Subschemas(t) : f[part] = g[part]
                 PROVE  At(f, t) = At(g, t)
      <3> HIDE DEF At, X
      <3> QED
        BY DEF FromSubschemas
    <2>1. {f[part] : part \in Subschemas(t)} = {g[part] : part \in Subschemas(t)}
      OBVIOUS
    <2>2. QED
      BY <2>1
  <1>5. PICK f \in [SchemaTrees -> X] : Solves(f, SchemaTrees, step)
    <2> HIDE DEF X, step
    <2> QED
      BY <1>1, <1>3, <1>4, TreeRecursion
  <1>6. f = [t \in SchemaTrees |-> At(f, t)]
    <2> HIDE DEF At
    <2> QED
      BY <1>5 DEF Solves
  <1>7. collectSchemaNames = CHOOSE h : h = [t \in SchemaTrees |-> At(h, t)]
    BY Zenon DEF collectSchemaNames
  <1>8. collectSchemaNames = [t \in SchemaTrees |-> At(collectSchemaNames, t)]
    <2> HIDE DEF At
    <2> QED
      BY <1>6, <1>7, Zenon
  <1>9. \A t \in SchemaTrees : collectSchemaNames[t] = At(collectSchemaNames, t)
    <2> HIDE DEF At
    <2> QED
      BY <1>8
  <1>10. QED
    BY <1>9

\* The names that the search finds in a schema of the document.
NamesIn(d, name, seen) == collectSchemaNames[ResolveSchema(d, name, seen)]

\* They are its own and those in the schemas that it refers to.
LEMMA ResolvedNames ==
    ASSUME NEW d \in Documents, NEW name \in DOMAIN d, NEW seen \in SUBSET DOMAIN d
    PROVE  NamesIn(d, name, seen) =
             {name} \cup (IF name \in seen THEN {}
                          ELSE UNION {NamesIn(d, ref, seen \cup {name}) : ref \in References(d[name])})
PROOF
  <1> DEFINE tree == ResolveSchema(d, name, seen)
  <1>1. tree \in SchemaTrees
    BY SchemaTreesAre
  <1>2. tree.origin = name
    <2>1. CASE name \in seen
      <3>1. tree = CircularRef(name)
        BY <2>1, Resolved
      <3>2. CircularRef(name).origin = name
        BY DEF CircularRef, NoKeywords
      <3>3. QED
        BY <3>1, <3>2
    <2>2. CASE name \notin seen
      BY <2>2, ResolvedKeywords
    <2>3. QED
      BY <2>1, <2>2
  <1>3. collectSchemaNames[tree] = {tree.origin} \cup UNION {collectSchemaNames[part] : part \in Subschemas(tree)}
    <2> HIDE DEF tree
    <2> QED
      BY <1>1, NamesAre
  <1>4. Subschemas(tree) = IF name \in seen THEN {} ELSE {ResolveSchema(d, ref, seen \cup {name}) : ref \in References(d[name])}
    BY ResolvedParts
  <1>5. NamesIn(d, name, seen) = collectSchemaNames[tree]
    BY DEF NamesIn
  <1> HIDE DEF tree
  <1>6. CASE name \in seen
    BY <1>2, <1>3, <1>4, <1>5, <1>6
  <1>7. CASE name \notin seen
    <2>1. UNION {collectSchemaNames[part] : part \in Subschemas(tree)} =
            UNION {NamesIn(d, ref, seen \cup {name}) : ref \in References(d[name])}
      BY <1>4, <1>7 DEF NamesIn
    <2>2. QED
      BY <1>2, <1>3, <1>5, <1>7, <2>1
  <1>8. QED
    BY <1>6, <1>7

\* Its own is among them.
LEMMA OwnName ==
    ASSUME NEW d \in Documents, NEW name \in DOMAIN d, NEW seen \in SUBSET DOMAIN d
    PROVE  name \in NamesIn(d, name, seen)
PROOF
  <1> DEFINE rest == IF name \in seen THEN {}
                     ELSE UNION {NamesIn(d, ref, seen \cup {name}) : ref \in References(d[name])}
  <1>1. NamesIn(d, name, seen) = {name} \cup rest
    BY ResolvedNames
  <1> HIDE DEF rest
  <1>2. QED
    BY <1>1

\* All that is found is reached by the references of the document ...
LEMMA NamesAreReached ==
    ASSUME NEW d \in Documents, NEW closed, \A n \in closed : References(d[n]) \subseteq closed
    PROVE  \A name \in DOMAIN d, seen \in SUBSET DOMAIN d : name \in closed => NamesIn(d, name, seen) \subseteq closed
PROOF
  <1> DEFINE Good == {p \in (DOMAIN d) \X SUBSET DOMAIN d : p[1] \in closed => NamesIn(d, p[1], p[2]) \subseteq closed}
  <1>1. GoesUpDocument(d, Good)
    <2> SUFFICES ASSUME NEW name \in DOMAIN d, NEW seen \in SUBSET DOMAIN d,
                        name \notin seen => \A ref \in References(d[name]) : <<ref, seen \cup {name}>> \in Good,
                        name \in closed
                 PROVE  NamesIn(d, name, seen) \subseteq closed
      BY DEF GoesUpDocument
    <2>1. CASE name \in seen
      BY <2>1, ResolvedNames
    <2>2. CASE name \notin seen
      <3>1. ASSUME NEW ref \in References(d[name]) PROVE NamesIn(d, ref, seen \cup {name}) \subseteq closed
        <4>1. <<ref, seen \cup {name}>> \in Good
          BY <2>2
        <4>2. ref \in closed
          OBVIOUS
        <4>3. QED
          BY <4>1, <4>2
      <3>2. NamesIn(d, name, seen) = {name} \cup UNION {NamesIn(d, ref, seen \cup {name}) : ref \in References(d[name])}
        BY <2>2, ResolvedNames
      <3>3. QED
        BY <3>1, <3>2
    <2>3. QED
      BY <2>1, <2>2
  <1>2. \A name \in DOMAIN d, seen \in SUBSET DOMAIN d : <<name, seen>> \in Good
    <2> HIDE DEF Good
    <2> QED
      BY <1>1, DocumentInduction
  <1>3. QED
    BY <1>2

\* ... and all that is reached is found: what stands behind a marker is open above it.
LEMMA NamesAreClosed ==
    ASSUME NEW d \in Documents
    PROVE  \A name \in DOMAIN d, seen \in SUBSET DOMAIN d :
             \A n \in NamesIn(d, name, seen) : n \notin seen => References(d[n]) \subseteq NamesIn(d, name, seen)
PROOF
  <1> DEFINE Closed(name, seen) ==
                 \A n \in NamesIn(d, name, seen) : n \notin seen => References(d[n]) \subseteq NamesIn(d, name, seen)
             Good == {p \in (DOMAIN d) \X SUBSET DOMAIN d : Closed(p[1], p[2])}
  <1>1. GoesUpDocument(d, Good)
    <2> SUFFICES ASSUME NEW name \in DOMAIN d, NEW seen \in SUBSET DOMAIN d,
                        name \notin seen => \A ref \in References(d[name]) : <<ref, seen \cup {name}>> \in Good
                 PROVE  Closed(name, seen)
      BY DEF GoesUpDocument
    <2> SUFFICES ASSUME NEW n \in NamesIn(d, name, seen), n \notin seen
                 PROVE  References(d[n]) \subseteq NamesIn(d, name, seen)
      OBVIOUS
    <2>1. name \notin seen
      BY ResolvedNames
    <2>2. NamesIn(d, name, seen) = {name} \cup UNION {NamesIn(d, ref, seen \cup {name}) : ref \in References(d[name])}
      BY <2>1, ResolvedNames
    <2> DEFINE Names(ref) == NamesIn(d, ref, seen \cup {name})
    <2>2a. \A ref \in References(d[name]) : Names(ref) \subseteq NamesIn(d, name, seen)
      <3> HIDE DEF Names
      <3>1. NamesIn(d, name, seen) = {name} \cup UNION {Names(ref) : ref \in References(d[name])}
        BY <2>2 DEF Names
      <3>2. QED
        BY <3>1
    <2>3. CASE n = name
      <3>1. ASSUME NEW ref \in References(d[name]) PROVE ref \in Names(ref)
        <4>1. ref \in DOMAIN d /\ seen \cup {name} \in SUBSET DOMAIN d
          BY ReferencesAreNames
        <4> HIDE DEF Names
        <4>2. ref \in NamesIn(d, ref, seen \cup {name})
          BY <4>1, OwnName
        <4>3. QED
          BY <4>2 DEF Names
      <3> HIDE DEF Names
      <3>2. QED
        BY <2>2a, <2>3, <3>1
    <2>4. CASE n # name
      <3>1. PICK ref \in References(d[name]) : n \in NamesIn(d, ref, seen \cup {name})
        <4>1. NamesIn(d, name, seen) = {name} \cup UNION {Names(ref) : ref \in References(d[name])}
          BY <2>2
        <4>2. \E ref \in References(d[name]) : n \in Names(ref)
          <5> HIDE DEF Names
          <5> QED
            BY <2>4, <4>1
        <4>3. QED
          BY <4>2
      <3>2. <<ref, seen \cup {name}>> \in Good
        BY <2>1
      <3>3. Closed(ref, seen \cup {name})
        BY <3>2
      <3>4. References(d[n]) \subseteq NamesIn(d, ref, seen \cup {name})
        BY <2>4, <3>1, <3>3
      <3>5. QED
        BY <2>2, <3>4
    <2>5. QED
      BY <2>3, <2>4
  <1>2. \A name \in DOMAIN d, seen \in SUBSET DOMAIN d : <<name, seen>> \in Good
    <2> HIDE DEF Good
    <2> QED
      BY <1>1, DocumentInduction
  <1>3. QED
    BY <1>2

\* The names that are collected from a resolved schema are those of the schemas that
\* its references lead to, however often the resolver has cut a circle short.
THEOREM NamesAreExact ==
    ASSUME NEW d \in Documents, NEW name \in DOMAIN d
    PROVE  collectSchemaNames[ResolveSchema(d, name, {})] = Reach(d, name)
PROOF
  <1> DEFINE whole == NamesIn(d, name, {})
  <1>1. \A n \in whole : References(d[n]) \subseteq whole
    BY NamesAreClosed
  <1>2. name \in whole
    BY ResolvedNames
  <1>3. whole \subseteq DOMAIN d
    <2>1. \A n \in DOMAIN d : References(d[n]) \subseteq DOMAIN d
      BY ReferencesAreNames
    <2>2. QED
      BY <2>1, NamesAreReached
  <1>4. ASSUME NEW closed \in SUBSET DOMAIN d, name \in closed, \A n \in closed : References(d[n]) \subseteq closed
        PROVE  whole \subseteq closed
    BY <1>4, NamesAreReached
  <1>5. whole = collectSchemaNames[ResolveSchema(d, name, {})]
    BY DEF NamesIn
  <1> HIDE DEF whole
  <1>6. whole \subseteq Reach(d, name)
    BY <1>3, <1>4 DEF Reach
  <1>7. Reach(d, name) \subseteq whole
    BY <1>1, <1>2, <1>3 DEF Reach
  <1>8. QED
    BY <1>5, <1>6, <1>7
-----------------------------------------------------------------------------
\* Operations and their responses

\* The media type that is preferred is one of those there are.
LEMMA PreferredMediaIsThere ==
    ASSUME NEW content, content # NoBody, DOMAIN content # {}, DOMAIN content \subseteq ToSet(MediaTypes)
    PROVE  \E type \in DOMAIN content : preferredMedia(content) = content[type]
PROOF
  <1> DEFINE I == {i \in 1 .. Len(MediaTypes) : MediaTypes[i] \in DOMAIN content}
  <1>1. Len(MediaTypes) = 3 /\ DOMAIN MediaTypes = 1 .. 3
    BY DEF MediaTypes
  <1>2. I # {} /\ I \in SUBSET Nat
    <2>1. PICK type \in DOMAIN content : TRUE
      OBVIOUS
    <2>2. PICK i \in DOMAIN MediaTypes : MediaTypes[i] = type
      BY DEF ToSet
    <2>3. QED
      BY <1>1, <2>1, <2>2
  <1>3. Min(I) \in I
    <2> HIDE DEF I
    <2>1. PICK n \in I : \A m \in I : n <= m
      BY <1>2, LeastNumber
    <2>2. QED
      BY <2>1 DEF Min
  <1>4. preferredMedia(content) = content[MediaTypes[Min(I)]]
    BY <1>2 DEF preferredMedia, SelectInSeq
  <1>5. QED
    BY <1>3, <1>4

\* A body of the document refers to a schema of it, whichever media type is preferred.
LEMMA PreferredIsSchema ==
    ASSUME NEW o \in OperationsOf(API), NEW content \in Contents(OperationAt(API, o)), content # NoBody,
           NEW d \in Documents
    PROVE  preferredMedia(content) \in DOMAIN d
PROOF
  <1>1. /\ DOMAIN content # {} /\ DOMAIN content \subseteq ToSet(MediaTypes)
        /\ \A type \in DOMAIN content : content[type] \in DOMAIN d
    BY APIAssumption
  <1>2. QED
    BY <1>1, PreferredMediaIsThere

\* The snapshot has an id's operation, as the document describes it.
LEMMA OperationDescribed ==
    ASSUME NEW id \in {IdOf(o) : o \in OperationsOf(API)}, Unique(id)
    PROVE  \E o \in OperationsOf(API) :
              /\ IdOf(o) = id /\ Described(id) = OperationAt(API, o)
              /\ Snapshot.byID[id] = EndpointAt(<<>>, API, o)
PROOF
  <1> DEFINE s    == Snapshot
             E(o) == EndpointAt(<<>>, API, o)
  <1>1. IsDocument(API)
    BY APIAssumption
  <1>2. /\ DOMAIN s.byID = {E(o).id : o \in OperationsOf(API)}
        /\ \A i \in DOMAIN s.byID : (\E o \in OperationsOf(API) : s.byID[i] = E(o)) /\ s.byID[i].id = i
    BY <1>1, SnapshotOfOperations DEF Snapshot
  <1>3. \A o \in OperationsOf(API) : E(o).id = IdOf(o)
    BY EndpointFields DEF IdOf
  <1> HIDE DEF s, E
  <1>4. id \in DOMAIN s.byID
    BY <1>2, <1>3
  <1>5. PICK o \in OperationsOf(API) : s.byID[id] = E(o)
    BY <1>2, <1>4
  <1>6. IdOf(o) = id
    BY <1>2, <1>3, <1>4, <1>5
  <1>7. o = CHOOSE p \in OperationsOf(API) : IdOf(p) = id
    BY <1>6 DEF Unique
  <1>8. QED
    BY <1>5, <1>6, <1>7 DEF Described, s, E

\* The response of a status is the document's: of the status itself, or by default.
LEMMA ResponseDescribed ==
    ASSUME NEW responses, NEW e, e.responses = resolveResponses([responses |-> responses]), NEW status,
           DOMAIN responses \subseteq Int,
           NEW key, key = IF status \in DOMAIN responses THEN status ELSE Default,
           key \in Kept \cap DOMAIN responses
    PROVE  \E r : responseForStatus(e, status) = {r} /\ r.body = preferredMedia(responses[key])
PROOF
  <1> DEFINE Of(k)   == [group |-> responseGroup(k), status |-> k, body |-> preferredMedia(responses[k])]
             With(s) == {r \in e.responses : r.status = s}
             R       == {k \in DOMAIN responses : responseGroup(k) # "dropped"}
  <1>1. e.responses = {Of(k) : k \in R}
    BY DEF resolveResponses
  <1>2. key \in R
    <2>1. responseGroup(key) \in {"success", "errors"}
      BY DEF responseGroup, Kept, Default
    <2>2. QED
      BY <2>1
  <1>3. \A k : Of(k).status = k
    OBVIOUS
  <1> HIDE DEF Of
  <1>4. \A k \in R : With(k) = {Of(k)}
    BY <1>1, <1>3
  <1>5. \A k : k \notin DOMAIN responses => With(k) = {}
    BY <1>1, <1>3
  <1>6. responseForStatus(e, status) = IF With(status) # {} THEN With(status) ELSE With(Default)
    BY DEF responseForStatus
  <1> HIDE DEF With, R
  <1>7. responseForStatus(e, status) = {Of(key)}
    <2>1. CASE status \in DOMAIN responses
      BY <1>2, <1>4, <1>6, <2>1
    <2>2. CASE status \notin DOMAIN responses
      BY <1>2, <1>4, <1>5, <1>6, <2>2
    <2>3. QED
      BY <2>1, <2>2
  <1>8. Of(key).body = preferredMedia(responses[key])
    BY DEF Of
  <1>9. QED
    BY <1>7, <1>8

\* A body that has come whole, and that execute can read, is judged as what it says.
LEMMA ReceivedBody ==
    ASSUME OnlyJSON, NEW answer \in Answers, answer.fits, Parses(answer.payload),
           isJSONContentType(answer.contentType) \/ looksLikeJSON(answer.payload),
           TakenAsItIs(Parsed(answer.payload))
    PROVE  /\ Parsed(answer.payload) \in JSONValues
           /\ bodyForValidation[Received(answer).body] = Parsed(answer.payload)
PROOF
  <1> DEFINE value == Parsed(answer.payload)
  <1>1. value \in JSONValues
    <2>1. answer.payload.elems \in Seq(JSONValues) /\ answer.payload.elems # <<>>
      BY InputsAssumption, JSONFields DEF Parses
    <2>2. QED
      BY <2>1 DEF Parsed
  <1>2. Received(answer).body = value
    BY DEF Received, readResponseBodyLimited, decodeResponseBody, Envelope
  <1> HIDE DEF value
  <1>3. TakenAsItIs(value)
    BY DEF value
  <1>4. bodyForValidation[value] = value
    BY <1>1, <1>3, BodyForValidationIs DEF TakenAsItIs
  <1>5. QED
    BY <1>1, <1>2, <1>4 DEF value

\* execute's own verdict does not reject a response that the document admits, with
\* the exceptions that AdmittedBodiesPass and AdmittedResponsesPass name.
THEOREM ResponsesAreNotRejected == ASSUME OnlyJSON PROVE Spec => []AdmittedResponsesPass
PROOF
  <1> DEFINE responses == Described(Called).responses
             key       == IF asked.status \in DOMAIN responses THEN asked.status ELSE Default
             value     == Parsed(asked.payload)
             judged    == preferredMedia(responses[key])
  <1>1. ASSUME Reported, doc \in Documents, stage = "answered", Unique(Called),
               key \in Kept \cap DOMAIN responses, asked.fits, Parses(asked.payload),
               isJSONContentType(asked.contentType) \/ looksLikeJSON(asked.payload),
               TakenAsItIs(value), Lenient(doc), NoneIsNullable(doc, value),
               responses[key] # NoBody, Admits(doc, judged, value)
        PROVE  verdict = {}
    <2>1. PICK answer \in Answers :
            /\ asked = answer /\ body = Received(answer)
            /\ verdict = validateResponse(doc, Operation, answer.status, bodyForValidation[body.body])
      BY <1>1 DEF Reported
    <2>2. value \in JSONValues /\ bodyForValidation[body.body] = value
      BY <1>1, <2>1, ReceivedBody
    <2>3. PICK o \in OperationsOf(API) :
            /\ Described(Called) = OperationAt(API, o)
            /\ Operation = EndpointAt(<<>>, API, o)
      BY <1>1, APIAssumption, OperationDescribed DEF Operation
    <2>4. Operation.responses = resolveResponses(OperationAt(API, o))
      BY <2>3, EndpointFields
    <2>5. Operation.responses = resolveResponses([responses |-> responses])
      BY <2>3, <2>4 DEF resolveResponses
    <2>6. DOMAIN responses \subseteq Int
      BY <2>3, APIAssumption
    <2>7. PICK r : responseForStatus(Operation, asked.status) = {r} /\ r.body = judged
      <3>1. key = IF asked.status \in DOMAIN responses THEN asked.status ELSE Default
        OBVIOUS
      <3> HIDE DEF key, responses
      <3>2. QED
        BY <1>1, <2>5, <2>6, <3>1, ResponseDescribed
    <2>8. judged \in DOMAIN doc
      <3>1. responses[key] \in Contents(OperationAt(API, o))
        BY <1>1, <2>3 DEF Contents
      <3>2. QED
        BY <1>1, <2>3, <3>1, PreferredIsSchema
    <2> HIDE DEF value, judged, key, responses
    <2>9. Issues[ResolveSchema(doc, judged, {})][value] = {}
      BY <1>1, <2>2, <2>8, LenientValidation DEF Clean
    <2>10. validateResponse(doc, Operation, asked.status, value) = {}
      BY <2>7, <2>9 DEF validateResponse
    <2>11. QED
      BY <2>1, <2>2, <2>10
  <1>2. Reported /\ doc \in Documents => AdmittedResponsesPass
    BY <1>1 DEF AdmittedResponsesPass
  <1>3. Spec => [](doc \in Documents)
    <2>1. Init => doc \in Documents
      BY DEF Init
    <2>2. doc \in Documents /\ [Next]_vars => (doc \in Documents)'
      BY DEF Next, vars, Resolve, SearchOperations, GeneratePayload, WriteBody, ValidateRequest, Execute,
             ValidateResponse
    <2>3. QED
      BY <2>1, <2>2, PTL DEF Spec
  <1>4. QED
    BY <1>2, <1>3, ReportedAlways, PTL

-----------------------------------------------------------------------------
\* Ranking

\* Of two places one comes before the other, and with it all that come before that.
LEMMA AheadIsAnOrder ==
    ASSUME NEW D \in SUBSET Nat, NEW scores \in [D -> Int], NEW i \in D, NEW j \in D, i # j
    PROVE  /\ i \notin Ahead(scores, i) /\ (i \in Ahead(scores, j) \/ j \in Ahead(scores, i))
           /\ i \in Ahead(scores, j) => Ahead(scores, i) \cup {i} \subseteq Ahead(scores, j)
PROOF
  <1>1. \A k \in D : k \in Int /\ scores[k] \in Int
    OBVIOUS
  <1>2. \A k, l \in D : l \in Ahead(scores, k) <=> scores[l] > scores[k] \/ (scores[l] = scores[k] /\ l < k)
    BY DEF Ahead
  <1>3. i \notin Ahead(scores, i)
    BY <1>1, <1>2
  <1>4. i \in Ahead(scores, j) \/ j \in Ahead(scores, i)
    BY <1>1, <1>2
  <1>5. ASSUME i \in Ahead(scores, j), NEW k \in Ahead(scores, i) PROVE k \in Ahead(scores, j)
    <2>1. k \in D
      BY DEF Ahead
    <2>2. QED
      BY <1>1, <1>2, <1>5, <2>1
  <1>6. QED
    BY <1>3, <1>4, <1>5

\* BestFirst has as many elements as the sequence, and none that the sequence has not.
LEMMA BestFirstElements ==
    ASSUME NEW T, NEW s \in Seq(T), NEW scores \in [DOMAIN s -> Int]
    PROVE  /\ BestFirst(s, scores) \in Seq(ToSet(s))
           /\ Len(BestFirst(s, scores)) = Len(s)
PROOF
  <1> DEFINE D       == DOMAIN s
             Before(k) == Ahead(scores, k)
             rank    == [k \in D |-> Cardinality(Before(k)) + 1]
  <1>1. D = 1 .. Len(s) /\ Len(s) \in Nat /\ D \in SUBSET Nat /\ IsFiniteSet(D) /\ Cardinality(D) = Len(s)
    <2>1. D = 1 .. Len(s) /\ Len(s) \in Nat
      OBVIOUS
    <2> HIDE DEF D
    <2>2. QED
      BY <2>1, FS_Interval
  <1>2. \A k \in D : Before(k) \subseteq D \ {k}
    BY <1>1 DEF Ahead
  <1>3. ASSUME NEW k \in D
        PROVE  IsFiniteSet(Before(k)) /\ Cardinality(Before(k)) \in 0 .. (Len(s) - 1)
    <2> HIDE DEF D, Before
    <2>1. IsFiniteSet(D \ {k}) /\ Cardinality(D \ {k}) = Len(s) - 1
      <3>1. k \in D /\ IsFiniteSet(D)
        BY <1>1
      <3>2. IsFiniteSet(D \ {k}) /\ Cardinality(D \ {k}) = IF k \in D THEN Cardinality(D) - 1 ELSE Cardinality(D)
        BY <3>1, FS_RemoveElement
      <3>3. QED
        BY <1>1, <3>1, <3>2
    <2>2. Before(k) \in SUBSET (D \ {k})
      BY <1>2
    <2>3. IsFiniteSet(Before(k)) /\ Cardinality(Before(k)) <= Len(s) - 1
      BY <2>1, <2>2, FS_Subset
    <2>4. Cardinality(Before(k)) \in Nat
      BY <2>3, FS_CardinalityType
    <2>5. QED
      BY <1>1, <2>3, <2>4
  <1>4. ASSUME NEW i \in D, NEW j \in D, i \in Before(j) PROVE rank[i] < rank[j]
    <2>1. i # j
      BY <1>2, <1>4
    <2>2. i \notin Before(i) /\ Before(i) \cup {i} \subseteq Before(j)
      <3>1. scores \in [D -> Int]
        OBVIOUS
      <3> HIDE DEF D
      <3>2. QED
        BY <1>1, <1>4, <2>1, <3>1, AheadIsAnOrder
    <2> HIDE DEF Before, D
    <2>3. IsFiniteSet(Before(i)) /\ IsFiniteSet(Before(j))
      BY <1>3
    <2>4. Cardinality(Before(i) \cup {i}) = Cardinality(Before(i)) + 1
      BY <2>2, <2>3, FS_AddElement
    <2>5. Cardinality(Before(i) \cup {i}) <= Cardinality(Before(j))
      BY <2>2, <2>3, FS_Subset
    <2>6. Cardinality(Before(i)) \in Nat /\ Cardinality(Before(j)) \in Nat
      BY <2>3, FS_CardinalityType
    <2>7. QED
      BY <2>4, <2>5, <2>6
  <1>5. rank \in [D -> D] /\ \A k \in D : rank[k] = Cardinality(Before(k)) + 1
    <2> HIDE DEF Before
    <2>1. \A k \in D : Cardinality(Before(k)) + 1 \in 1 .. Len(s)
      BY <1>1, <1>3
    <2> HIDE DEF D
    <2>2. QED
      BY <1>1, <2>1
  <1>6. ASSUME NEW i \in D, NEW j \in D, rank[i] = rank[j] PROVE i = j
    <2> SUFFICES ASSUME i # j PROVE FALSE
      OBVIOUS
    <2>1. i \in Before(j) \/ j \in Before(i)
      <3>1. scores \in [D -> Int]
        OBVIOUS
      <3> HIDE DEF D
      <3>2. QED
        BY <1>1, <3>1, AheadIsAnOrder
    <2> HIDE DEF rank, D, Before
    <2>2. rank[i] < rank[j] \/ rank[j] < rank[i]
      BY <1>4, <2>1
    <2>3. rank[i] \in Int /\ rank[j] \in Int
      BY <1>1, <1>5
    <2>4. QED
      BY <1>6, <2>2, <2>3
  <1> HIDE DEF rank, D, Before
  <1>7. rank \in Injection(D, D)
    BY <1>5, <1>6 DEF Injection, IsInjective
  <1>8. rank \in Surjection(D, D)
    BY <1>1, <1>7, FS_Injection
  <1>9. ASSUME NEW n \in D PROVE \E k \in D : Cardinality(Before(k)) = n - 1
    <2>1. PICK k \in D : rank[k] = n
      BY <1>8 DEF Surjection
    <2>2. Cardinality(Before(k)) \in Nat
      BY <1>1, <1>3
    <2>3. QED
      BY <1>5, <2>1, <2>2
  <1> DEFINE At(n) == s[CHOOSE k \in D : Cardinality(Before(k)) = n - 1]
  <1>10. \A n \in D : At(n) \in ToSet(s)
    <2>1. \A k \in D : s[k] \in ToSet(s)
      BY DEF D, ToSet
    <2>2. QED
      BY <1>9, <2>1
  <1> HIDE DEF At
  <1>11. BestFirst(s, scores) = [n \in 1 .. Len(s) |-> At(n)]
    BY <1>1 DEF BestFirst, At, D, Before
  <1>12. QED
    BY <1>1, <1>10, <1>11

\* A sequence without repetitions has as many places as elements.
LEMMA CountWithoutRepetition ==
    ASSUME NEW T, NEW s \in Seq(T), IsInjective(s)
    PROVE  Cardinality(ToSet(s)) = Len(s)
PROOF
  <1>1. DOMAIN s = 1 .. Len(s) /\ Len(s) \in Nat
    OBVIOUS
  <1>2. IsFiniteSet(DOMAIN s) /\ Cardinality(DOMAIN s) = Len(s)
    BY <1>1, FS_Interval
  <1>3. s \in [DOMAIN s -> ToSet(s)]
    BY DEF ToSet
  <1>4. \A x \in ToSet(s) : \E i \in DOMAIN s : s[i] = x
    BY DEF ToSet
  <1>5. s \in Surjection(DOMAIN s, ToSet(s))
    BY <1>3, <1>4 DEF Surjection
  <1>6. s \in Injection(DOMAIN s, ToSet(s))
    BY <1>3 DEF Injection, IsInjective
  <1>7. QED
    BY <1>2, <1>5, <1>6, FS_Surjection

-----------------------------------------------------------------------------
\* What search finds

\* No two operations go by one id.
IdsAreUnique == \A o \in OperationsOf(API) : Unique(IdOf(o))

\* An operation as the snapshot lists it.
ListedAt(o) == EndpointAt(<<>>, API, o)

\* The endpoints of the snapshot are the operations, each once.
LEMMA Listing ==
    /\ ToSet(Snapshot.endpoints) = {ListedAt(o) : o \in OperationsOf(API)}
    /\ Snapshot.endpoints \in Seq(ToSet(Snapshot.endpoints)) /\ IsInjective(Snapshot.endpoints)
PROOF
  <1>1. IsDocument(API)
    BY APIAssumption
  <1> DEFINE endpoints == Snapshot.endpoints
  <1>2. endpoints = buildState(<<>>, API).endpoints
    BY DEF Snapshot
  <1> HIDE DEF endpoints
  <1>3. endpoints \in Seq(ToSet(endpoints)) /\ IsInjective(endpoints)
    BY <1>1, <1>2, SnapshotListing
  <1>4. ToSet(endpoints) = {EndpointAt(<<>>, API, o) : o \in OperationsOf(API)}
    BY <1>1, <1>2, SnapshotListing
  <1>5. QED
    BY <1>3, <1>4 DEF endpoints, ListedAt

\* An endpoint tells what the document says of its operation.
LEMMA ListedFields ==
    ASSUME IdsAreUnique, NEW o \in OperationsOf(API), NEW op, op = OperationAt(API, o)
    PROVE  /\ ListedAt(o).id = IdOf(o) /\ Described(ListedAt(o).id) = op
           /\ ListedAt(o).tags = op.tags
           /\ ListedAt(o).body = preferredMedia(op.body)
           /\ ListedAt(o).responses = resolveResponses(op)
           /\ \A p \in OperationsOf(API) : ListedAt(p).id = ListedAt(o).id => p = o
PROOF
  <1>1. \A p \in OperationsOf(API) : ListedAt(p).id = IdOf(p)
    BY EndpointFields DEF IdOf, ListedAt
  <1>2. /\ ListedAt(o).tags = op.tags
        /\ ListedAt(o).body = preferredMedia(op.body)
        /\ ListedAt(o).responses = resolveResponses(op)
    BY EndpointFields DEF ListedAt
  <1>3. \A p \in OperationsOf(API) : IdOf(p) = IdOf(o) => p = o
    BY DEF IdsAreUnique, Unique
  <1>4. (CHOOSE p \in OperationsOf(API) : IdOf(p) = IdOf(o)) = o
    BY <1>3
  <1>5. Described(IdOf(o)) = op
    BY <1>4 DEF Described
  <1>6. QED
    BY <1>1, <1>2, <1>3, <1>5

\* The query has a score wherever it matches.
LEMMA ScoreOfMatch ==
    ASSUME NEW e, NEW phrase
    PROVE  /\ queryMatchScore(e, phrase) \in Int
           /\ queryMatchScore(e, phrase) > 0 <=> matchesQuery(e, phrase)
PROOF
  <1> DEFINE A == Among(phrase, ToSet(e.id))
             B == Among(phrase, PathWords(e.path))
             C == Within(phrase, e.summary)
             D == Within(phrase, e.description)
             E == Among(phrase, e.tags)
  <1>1. queryMatchScore(e, phrase) =
          (IF A THEN 30 ELSE 0) + (IF B THEN 20 ELSE 0) + (IF C THEN 20 ELSE 0)
          + (IF D THEN 15 ELSE 0) + (IF E THEN 10 ELSE 0)
    BY DEF queryMatchScore
  <1>2. matchesQuery(e, phrase) <=> A \/ B \/ C \/ D \/ E
    BY DEF matchesQuery, Among
  <1> HIDE DEF A, B, C, D, E
  <1>3. QED
    BY <1>1, <1>2

\* The indexes tell of an endpoint, by its id, what they were told of it.
LEMMA IndexedById ==
    ASSUME IdsAreUnique, NEW o \in OperationsOf(API), NEW d,
           NEW indexes, indexes = buildSearchIndexes(d, Snapshot.endpoints)
    PROVE  /\ \A name : SidesOf(indexes, name, ListedAt(o).id) # {}
                            <=> \E u \in schemaUses(d, ListedAt(o)) : u.schema = name
           /\ \A status : GroupsOf(indexes, status, ListedAt(o).id) # {}
                              <=> \E u \in statusUses(ListedAt(o)) : u.status = status
PROOF
  <1> DEFINE e    == ListedAt(o)
             S    == ToSet(Snapshot.endpoints)
             uses == UNION {schemaUses(d, x) : x \in S}
             told == UNION {statusUses(x) : x \in S}
  <1>1. indexes.schemas = uses /\ indexes.statuses = told
    BY DEF buildSearchIndexes
  <1>2. e \in S /\ \A x \in S : x.id = e.id => x = e
    BY Listing, ListedFields
  <1>3. \A x : (\A u \in schemaUses(d, x) : u.id = x.id) /\ (\A u \in statusUses(x) : u.id = x.id)
    BY DEF schemaUses, statusUses
  <1>4. \A name : SidesOf(indexes, name, e.id) # {} <=> \E u \in uses : u.schema = name /\ u.id = e.id
    BY <1>1 DEF SidesOf
  <1>5. \A status : GroupsOf(indexes, status, e.id) # {} <=> \E u \in told : u.status = status /\ u.id = e.id
    BY <1>1 DEF GroupsOf
  <1> HIDE DEF e, S
  <1>6. \A u \in uses : u.id = e.id => u \in schemaUses(d, e)
    BY <1>2, <1>3
  <1>7. schemaUses(d, e) \subseteq uses /\ statusUses(e) \subseteq told
    BY <1>2
  <1>8. \A u \in told : u.id = e.id => u \in statusUses(e)
    BY <1>2, <1>3
  <1>9. QED
    BY <1>3, <1>4, <1>5, <1>6, <1>7, <1>8 DEF e

\* The responses that are kept are those of the statuses that are.
LEMMA KeptResponses ==
    ASSUME NEW op, DOMAIN op.responses \subseteq Int
    PROVE  \A k \in DOMAIN op.responses : responseGroup(k) # "dropped" <=> k \in Kept
PROOF
  <1>1. ASSUME NEW k \in Int PROVE responseGroup(k) # "dropped" <=> k \in Kept
    <2>1. CASE k \in 200 .. 399
      BY <2>1 DEF responseGroup, Kept
    <2>2. CASE k \in 400 .. 599 \/ k = Default
      BY <2>2 DEF responseGroup, Kept, Default
    <2>3. CASE k \notin 200 .. 399 /\ ~ (k \in 400 .. 599 \/ k = Default)
      <3>1. responseGroup(k) = "dropped"
        BY <2>3 DEF responseGroup
      <3>2. k \notin Kept
        BY <2>3 DEF Kept, Default
      <3>3. QED
        BY <3>1, <3>2
    <2>4. QED
      BY <2>1, <2>2, <2>3
  <1>2. QED
    BY <1>1

\* The uses of a schema are noted where a body leads to it.
LEMMA UsesAreNoted ==
    ASSUME IdsAreUnique, NEW o \in OperationsOf(API), NEW d \in Documents, NEW name
    PROVE  (\E u \in schemaUses(d, ListedAt(o)) : u.schema = name)
              <=> \E b \in BodiesOf(OperationAt(API, o)) : name \in Reach(d, b)
PROOF
  <1> DEFINE e     == ListedAt(o)
             op    == OperationAt(API, o)
             K     == Kept \cap DOMAIN op.responses
             Names(b) == collectSchemaNames[ResolveSchema(d, b, {})]
             Used(b, side) ==
                IF b = NoSchema THEN {} ELSE {[schema |-> n, id |-> e.id, side |-> side] : n \in Names(b)}
             Bs    == {e.body} \cup {r.body : r \in e.responses}
  <1>1. e.body = preferredMedia(op.body) /\ e.responses = resolveResponses(op)
    BY ListedFields
  <1>2. DOMAIN op.responses \subseteq Int
    BY APIAssumption
  <1>3. {r.body : r \in e.responses} = {preferredMedia(op.responses[k]) : k \in K}
    <2> DEFINE Of(k) == [group |-> responseGroup(k), status |-> k, body |-> preferredMedia(op.responses[k])]
    <2>1. e.responses = {Of(k) : k \in {l \in DOMAIN op.responses : responseGroup(l) # "dropped"}}
      BY <1>1 DEF resolveResponses
    <2>2. {l \in DOMAIN op.responses : responseGroup(l) # "dropped"} = K
      BY <1>2, KeptResponses
    <2>3. e.responses = {Of(k) : k \in K}
      BY <2>1, <2>2
    <2>4. \A k : Of(k).body = preferredMedia(op.responses[k])
      OBVIOUS
    <2> HIDE DEF Of, e, K
    <2>5. QED
      BY <2>3, <2>4
  <1>4. Bs \ {NoSchema} = BodiesOf(op)
    <2>1. BodiesOf(op) = {preferredMedia(c) : c \in {op.body} \cup {op.responses[k] : k \in K}} \ {NoSchema}
      BY DEF BodiesOf
    <2> DEFINE P(c) == preferredMedia(c)
    <2> HIDE DEF P
    <2>2. {P(c) : c \in {op.body} \cup {op.responses[k] : k \in K}} = {P(op.body)} \cup {P(op.responses[k]) : k \in K}
      OBVIOUS
    <2>3. QED
      BY <1>1, <1>3, <2>1, <2>2 DEF P
  <1>5. ASSUME NEW b \in BodiesOf(op) PROVE b \in DOMAIN d /\ Names(b) = Reach(d, b)
    <2>1. PICK c \in Contents(op) : b = preferredMedia(c) /\ b # NoSchema
      BY DEF BodiesOf, Contents
    <2>2. c # NoBody
      BY <2>1 DEF preferredMedia
    <2>3. b \in DOMAIN d
      BY <2>1, <2>2, PreferredIsSchema
    <2>4. QED
      BY <2>3, NamesAreExact
  <1>6. schemaUses(d, e) = Used(e.body, "request") \cup UNION {Used(r.body, "response") : r \in e.responses}
    BY DEF schemaUses
  <1>7. ASSUME NEW b, NEW side
        PROVE  (\E u \in Used(b, side) : u.schema = name) <=> b # NoSchema /\ name \in Names(b)
    <2> HIDE DEF Names
    <2>1. CASE b = NoSchema
      BY <2>1
    <2>2. CASE b # NoSchema
      <3>1. Used(b, side) = {[schema |-> n, id |-> e.id, side |-> side] : n \in Names(b)}
        BY <2>2
      <3> DEFINE Note(n) == [schema |-> n, id |-> e.id, side |-> side]
                 N       == Names(b)
      <3>2. \A n : Note(n).schema = n
        OBVIOUS
      <3>3. Used(b, side) = {Note(n) : n \in N}
        BY <3>1
      <3> HIDE DEF Used, e, Note, N
      <3>4. (\E u \in Used(b, side) : u.schema = name) <=> name \in N
        BY <3>2, <3>3
      <3>5. QED
        BY <2>2, <3>4 DEF N
    <2>3. QED
      BY <2>1, <2>2
  <1> HIDE DEF Used, Names, e, op
  <1>8. (\E u \in schemaUses(d, e) : u.schema = name) <=> \E b \in Bs : b # NoSchema /\ name \in Names(b)
    BY <1>6, <1>7
  <1> HIDE DEF Bs
  <1>9. (\E u \in schemaUses(d, e) : u.schema = name) <=> \E b \in BodiesOf(op) : name \in Names(b)
    BY <1>4, <1>8
  <1>10. QED
    BY <1>5, <1>9 DEF e, op

\* And so are the statuses of the responses.
LEMMA StatusesAreNoted ==
    ASSUME IdsAreUnique, NEW o \in OperationsOf(API), NEW status \in Int, status > 0
    PROVE  (\E u \in statusUses(ListedAt(o)) : u.status = status)
              <=> status \in Kept \cap DOMAIN OperationAt(API, o).responses
PROOF
  <1> DEFINE e  == ListedAt(o)
             op == OperationAt(API, o)
             Of(k) == [group |-> responseGroup(k), status |-> k, body |-> preferredMedia(op.responses[k])]
             R  == {k \in DOMAIN op.responses : responseGroup(k) # "dropped"}
  <1>1. e.responses = {Of(k) : k \in R}
    BY ListedFields DEF resolveResponses
  <1>2. R = Kept \cap DOMAIN op.responses
    <2>1. DOMAIN op.responses \subseteq Int
      BY APIAssumption
    <2>2. QED
      BY <2>1, KeptResponses
  <1>3. \A k : Of(k).status = k
    OBVIOUS
  <1> HIDE DEF Of, R, e
  <1>4. (\E r \in e.responses : r.status = status) <=> status \in R
    BY <1>1, <1>3
  <1>5. (\E u \in statusUses(e) : u.status = status) <=> (\E r \in e.responses : r.status > 0 /\ r.status = status)
    <2>1. statusUses(e) = {[status |-> r.status, id |-> e.id, group |-> r.group] :
                              r \in {x \in e.responses : x.status > 0}}
      BY DEF statusUses
    <2> DEFINE Note(r) == [status |-> r.status, id |-> e.id, group |-> r.group]
               Known   == {x \in e.responses : x.status > 0}
    <2>2. \A r : Note(r).status = r.status
      OBVIOUS
    <2> HIDE DEF Note
    <2>3. statusUses(e) = {Note(r) : r \in Known}
      BY <2>1 DEF Note
    <2>4. (\E u \in statusUses(e) : u.status = status) <=> \E r \in Known : r.status = status
      <3> HIDE DEF Known
      <3>1. QED
        BY <2>2, <2>3
    <2>5. QED
      BY <2>4
  <1>6. QED
    BY <1>2, <1>4, <1>5 DEF e

\* The filters let those endpoints through that the document says meet them.
LEMMA PassingIsMeeting ==
    ASSUME IdsAreUnique, doc \in Documents, NEW e \in ToSet(Snapshot.endpoints), NEW f, f.status \in Int,
           NEW indexes, indexes = buildSearchIndexes(doc, Snapshot.endpoints)
    PROVE  Passes(e, f, indexes) <=> Meets(e, f)
PROOF
  <1>1. PICK o \in OperationsOf(API) : e = ListedAt(o)
    BY Listing
  <1> DEFINE op == OperationAt(API, o)
  <1>2. Described(e.id) = op /\ e.tags = op.tags
    BY <1>1, ListedFields
  <1>2a. /\ SidesOf(indexes, f.schema, e.id) # {} <=> \E u \in schemaUses(doc, e) : u.schema = f.schema
         /\ GroupsOf(indexes, f.status, e.id) # {} <=> \E u \in statusUses(e) : u.status = f.status
    <2>1. \A name : SidesOf(indexes, name, ListedAt(o).id) # {}
                       <=> \E u \in schemaUses(doc, ListedAt(o)) : u.schema = name
      BY IndexedById
    <2>2. \A status : GroupsOf(indexes, status, ListedAt(o).id) # {}
                         <=> \E u \in statusUses(ListedAt(o)) : u.status = status
      BY IndexedById
    <2>3. QED
      BY <1>1, <2>1, <2>2
  <1>3. SidesOf(indexes, f.schema, e.id) # {} <=> \E b \in BodiesOf(op) : f.schema \in Reach(doc, b)
    BY <1>1, <1>2a, UsesAreNoted
  <1>4. f.status > 0 =>
          (GroupsOf(indexes, f.status, e.id) # {} <=> f.status \in Kept \cap DOMAIN op.responses)
    BY <1>1, <1>2a, StatusesAreNoted
  <1>5. queryMatchScore(e, f.query) > 0 <=> matchesQuery(e, f.query)
    BY ScoreOfMatch
  <1> HIDE DEF op
  <1>6. QED
    BY <1>2, <1>3, <1>4, <1>5 DEF Passes, Meets


\* Filters as they are understood.
ParsedFilters == [query : Seq(STRING), method : STRING, tag : STRING, schema : STRING,
                  status : Nat, limit : Nat \ {0}, include : SUBSET STRING]

\* Scores can be compared.
LEMMA ScoresAreNumbers == ASSUME NEW e, NEW f, NEW indexes PROVE Score(e, f, indexes) \in Int
PROOF
  <1> DEFINE M == f.method # ""
             T == f.tag # ""
             Q == f.query # <<>>
             N == f.schema # ""
             G == f.status > 0
             q == queryMatchScore(e, f.query)
             n == SchemaScore(SidesOf(indexes, f.schema, e.id))
             g == StatusScore(GroupsOf(indexes, f.status, e.id))
  <1>1. queryMatchScore(e, f.query) \in Int
    BY ScoreOfMatch
  <1>2. SchemaScore(SidesOf(indexes, f.schema, e.id)) \in Int
    BY DEF SchemaScore
  <1>3. StatusScore(GroupsOf(indexes, f.status, e.id)) \in Int
    BY DEF StatusScore
  <1>4. Score(e, f, indexes) =
          10 + (IF M THEN 4 ELSE 0) + (IF T THEN 4 ELSE 0) + (IF Q THEN q ELSE 0)
          + (IF N THEN n ELSE 0) + (IF G THEN g ELSE 0)
    BY Zenon DEF Score
  <1> HIDE DEF M, T, Q, N, G, q, n, g
  <1>5. q \in Int /\ n \in Int /\ g \in Int
    BY <1>1, <1>2, <1>3 DEF q, n, g
  <1>6. QED
    BY <1>4, <1>5

\* The listed operations that meet the filter.
Met(f) == {e \in ToSet(Snapshot.endpoints) : Meets(e, f)}

\* The ranking has every endpoint that meets the filters once, and no other.
LEMMA RankedAreMet ==
    ASSUME IdsAreUnique, doc \in Documents, NEW f \in ParsedFilters,
           NEW indexes, indexes = buildSearchIndexes(doc, Snapshot.endpoints)
    PROVE  /\ Ranked(Snapshot.endpoints, f, indexes) \in Seq(Met(f))
           /\ Len(Ranked(Snapshot.endpoints, f, indexes)) = Cardinality(Met(f))
PROOF
  <1> DEFINE S       == Snapshot.endpoints
             T       == ToSet(S)
             I       == {k \in DOMAIN S : Passes(S[k], f, indexes)}
             passing == ElementsAt(S, I)
             scores  == [k \in DOMAIN passing |-> Score(passing[k], f, indexes)]
  <1>1. S \in Seq(T) /\ IsInjective(S)
    BY Listing
  <1>2. Ranked(S, f, indexes) = BestFirst(passing, scores)
    BY DEF Ranked
  <1>3. scores \in [DOMAIN passing -> Int]
    BY ScoresAreNumbers
  <1>4. \A e \in T : Passes(e, f, indexes) <=> Meets(e, f)
    <2>1. f.status \in Int
      BY DEF ParsedFilters
    <2>2. QED
      BY <2>1, PassingIsMeeting
  <1>5. /\ passing \in Seq(T) /\ ToSet(passing) = {S[k] : k \in I \cap DOMAIN S}
        /\ IsInjective(passing)
    <2> HIDE DEF S, T, I
    <2>1. QED
      BY <1>1, ChosenElements
  <1>6. ToSet(passing) = Met(f)
    <2>1. {S[k] : k \in I \cap DOMAIN S} = {e \in T : Passes(e, f, indexes)}
      BY DEF ToSet
    <2>2. {e \in T : Passes(e, f, indexes)} = Met(f)
      BY <1>4 DEF Met
    <2>3. QED
      BY <1>5, <2>1, <2>2
  <1> HIDE DEF passing, scores, S, T, I
  <1>7. BestFirst(passing, scores) \in Seq(ToSet(passing)) /\ Len(BestFirst(passing, scores)) = Len(passing)
    BY <1>3, <1>5, BestFirstElements
  <1>8. Cardinality(ToSet(passing)) = Len(passing)
    BY <1>5, CountWithoutRepetition
  <1>9. QED
    BY <1>2, <1>6, <1>7, <1>8 DEF S

\* A filter as it is understood: an absent or impossible limit or status is replaced.
LEMMA ParsedFilter ==
    ASSUME NEW filter \in Filters, NEW f, f = parseSearchInput(filter)
    PROVE  f \in ParsedFilters
PROOF
  <1>1. filter \in [query : Seq(STRING), method : STRING, tag : STRING, schema : STRING,
                    status : Int, limit : Int, include : SUBSET STRING]
    BY InputsAssumption
  <1>2. f = [filter EXCEPT !.limit = PositiveOr(filter.limit, 20), !.status = PositiveOr(filter.status, 0)]
    BY DEF parseSearchInput
  <1>3. PositiveOr(filter.limit, 20) \in Nat \ {0} /\ PositiveOr(filter.status, 0) \in Nat
    BY <1>1 DEF PositiveOr
  <1>4. QED
    BY <1>1, <1>2, <1>3 DEF ParsedFilters

\* The filter is one for a schema and nothing else.
BySchema(f) == ~ (f.status > 0) /\ f.method = "" /\ f.tag = "" /\ f.query = <<>> /\ f.schema # ""
ByQuery(f)  == ~ (f.status > 0) /\ f.method = "" /\ f.tag = "" /\ f.schema = ""

\* The listing of usage is that of the endpoints that meet a filter by schema alone.
LEMMA UsageIsMet ==
    ASSUME IdsAreUnique, doc \in Documents, NEW f, f.status \in Int, BySchema(f),
           NEW indexes, indexes = buildSearchIndexes(doc, Snapshot.endpoints)
    PROVE  {u.id : u \in usageOfSchema(indexes, f.schema)} = {e.id : e \in Met(f)}
PROOF
  <1> DEFINE S    == ToSet(Snapshot.endpoints)
             uses == {x \in indexes.schemas : x.schema = f.schema}
             Note(id) == [id |-> id, sides |-> SidesOf(indexes, f.schema, id)]
  <1>1. \A e \in S : Meets(e, f) <=> SidesOf(indexes, f.schema, e.id) # {}
    <2>1. \A e \in S : Passes(e, f, indexes) <=> Meets(e, f)
      BY PassingIsMeeting
    <2>2. \A e \in S : Passes(e, f, indexes) <=> SidesOf(indexes, f.schema, e.id) # {}
      BY Zenon DEF Passes, BySchema
    <2>3. QED
      BY <2>1, <2>2
  <1>2. usageOfSchema(indexes, f.schema) = {Note(u.id) : u \in uses}
    BY DEF usageOfSchema
  <1>3. \A id : Note(id).id = id
    OBVIOUS
  <1>4. \A id : SidesOf(indexes, f.schema, id) # {} <=> \E u \in uses : u.id = id
    BY DEF SidesOf
  <1>5. \A u \in uses : \E e \in S : u.id = e.id
    <2>1. indexes.schemas = UNION {schemaUses(doc, e) : e \in S}
      BY DEF buildSearchIndexes
    <2>2. \A e \in S : \A u \in schemaUses(doc, e) : u.id = e.id
      BY DEF schemaUses
    <2> HIDE DEF S
    <2>3. QED
      BY <2>1, <2>2
  <1> HIDE DEF Note, uses, S
  <1>6. {u.id : u \in usageOfSchema(indexes, f.schema)} = {u.id : u \in uses}
    BY <1>2, <1>3
  <1>7. {e.id : e \in Met(f)} = {e.id : e \in {x \in S : SidesOf(indexes, f.schema, x.id) # {}}}
    BY <1>1 DEF Met, S
  <1>8. QED
    BY <1>4, <1>5, <1>6, <1>7

\* plan_call picks one of the endpoints that meet the query, if there are any.
LEMMA PlanIsMet ==
    ASSUME NEW f, f.query \in Seq(STRING), ByQuery(f),
           NEW plan, plan = planCall(Snapshot, <<>>, f.query, <<>>)
    PROVE  IF Met(f) = {} THEN plan = <<>> ELSE plan[1] \in Met(f)
PROOF
  <1> DEFINE S       == Snapshot.endpoints
             phrase  == f.query \o <<>>
             Fits(e) == phrase = <<>> \/ matchesQuery(e, phrase)
             I       == {i \in 1 .. Len(S) : Fits(S[i])}
             first   == IF I # {} THEN Min(I) ELSE 0
  <1>1. phrase = f.query
    OBVIOUS
  <1>2. \A e \in ToSet(S) : Meets(e, f) <=> Fits(e)
    BY <1>1, Zenon DEF Meets, ByQuery
  <1>3. plan = IF first = 0 THEN <<>> ELSE <<S[first]>>
    BY DEF planCall, SelectInSeq
  <1>4. S \in Seq(ToSet(S))
    BY Listing
  <1> HIDE DEF S, Fits
  <1>5. DOMAIN S = 1 .. Len(S) /\ Len(S) \in Nat
    BY <1>4
  <1>6. Met(f) = {S[i] : i \in I}
    <2>1. Met(f) = {e \in ToSet(S) : Fits(e)}
      BY <1>2 DEF Met, S
    <2>2. ToSet(S) = {S[i] : i \in 1 .. Len(S)}
      BY <1>5 DEF ToSet
    <2>3. QED
      BY <2>1, <2>2
  <1>7. CASE I = {}
    BY <1>3, <1>6, <1>7
  <1>8. CASE I # {}
    <2>1. Min(I) \in I
      <3>1. I \in SUBSET Nat
        OBVIOUS
      <3> HIDE DEF I
      <3>2. PICK n \in I : \A m \in I : n <= m
        BY <1>8, <3>1, LeastNumber
      <3>3. QED
        BY <3>2 DEF Min
    <2>2. first = Min(I) /\ first # 0
      BY <1>8, <2>1
    <2>3. plan = <<S[first]>> /\ S[first] \in Met(f)
      BY <1>3, <1>6, <2>1, <2>2
    <2>4. QED
      BY <2>3
  <1>9. QED
    BY <1>7, <1>8

\* A filter that stays the same with some fields cleared has them cleared.
LEMMA FieldsAreClear ==
    ASSUME NEW f \in ParsedFilters
    PROVE  /\ f = [f EXCEPT !.method = "", !.tag = "", !.query = <<>>, !.status = 0]
                => f.method = "" /\ f.tag = "" /\ f.query = <<>> /\ f.status = 0
           /\ f = [f EXCEPT !.method = "", !.tag = "", !.schema = "", !.status = 0]
                => f.method = "" /\ f.tag = "" /\ f.schema = "" /\ f.status = 0
BY DEF ParsedFilters

Searched ==
    /\ doc \in Documents
    /\ stage = "searched" => asked \in Filters /\ found = search(doc, Snapshot.endpoints, asked)

\* What has been found goes with what has been asked for.
LEMMA SearchedAlways == Spec => []Searched
PROOF
  <1>1. Init => Searched
    BY DEF Init, Searched
  <1>2. Searched /\ [Next]_vars => Searched'
    <2> SUFFICES ASSUME Searched, [Next]_vars PROVE Searched'
      OBVIOUS
    <2>1. doc' = doc
      BY DEF Next, vars, Resolve, SearchOperations, GeneratePayload, WriteBody, ValidateRequest, Execute,
             ValidateResponse
    <2>2. CASE UNCHANGED vars
      BY <2>2 DEF vars, Searched
    <2>3. ASSUME NEW filter \in Filters, SearchOperations(filter) PROVE Searched'
      BY <2>1, <2>3 DEF SearchOperations, Searched, Snapshot
    <2>4. CASE stage' # "searched"
      BY <2>1, <2>4 DEF Searched
    <2>5. CASE Next /\ stage' = "searched"
      <3>1. \E filter \in Filters : SearchOperations(filter)
        BY <2>5 DEF Next, Resolve, GeneratePayload, WriteBody, ValidateRequest, Execute, ValidateResponse
      <3>2. QED
        BY <2>3, <3>1
    <2>6. QED
      BY <2>2, <2>4, <2>5
  <1>3. QED
    BY <1>1, <1>2, PTL DEF Spec

\* Where ids are unique, search finds just the operations that the document says meet
\* the filters, and the usage listing and plan_call agree with it.
THEOREM SearchFindsWhatMeets == Spec => []SearchIsExact
PROOF
  <1> DEFINE f       == parseSearchInput(asked)
             S       == Snapshot.endpoints
             indexes == buildSearchIndexes(doc, S)
             ranked  == Ranked(S, f, indexes)
             shown   == includeSet(f.include)
             plan    == planCall(Snapshot, <<>>, f.query, <<>>)
  <1>1. ASSUME Searched, stage = "searched", IdsAreUnique
        PROVE  /\ found.count = Cardinality(Met(f))
               /\ ToSet(found.results) \subseteq Met(f)
               /\ "endpoints" \in shown => Len(found.results) = Min({found.count, f.limit})
               /\ f = [f EXCEPT !.method = "", !.tag = "", !.query = <<>>, !.status = 0]
                    /\ "usage" \in f.include /\ f.schema # ""
                  => {u.id : u \in found.schema} = {e.id : e \in Met(f)}
               /\ f = [f EXCEPT !.method = "", !.tag = "", !.schema = "", !.status = 0]
                  => IF Met(f) = {} THEN plan = <<>> ELSE plan[1] \in Met(f)
    <2>1. f \in ParsedFilters /\ doc \in Documents
      BY <1>1, ParsedFilter DEF Searched
    <2>2. /\ found.count = Len(ranked)
          /\ found.results = IF "endpoints" \in shown
                             THEN SubSeq(ranked, 1, Min({Len(ranked), f.limit})) ELSE <<>>
          /\ found.schema = IF shown \cap {"schemas", "usage"} # {} /\ f.schema # ""
                            THEN usageOfSchema(indexes, f.schema) ELSE {}
      <3> DEFINE answer ==
                   [count   |-> Len(ranked),
                    results |-> IF "endpoints" \in shown
                                THEN SubSeq(ranked, 1, Min({Len(ranked), f.limit})) ELSE <<>>,
                    schema  |-> IF shown \cap {"schemas", "usage"} # {} /\ f.schema # ""
                                THEN usageOfSchema(indexes, f.schema) ELSE {},
                    status  |-> IF "usage" \in shown /\ f.status > 0
                                THEN usageOfStatus(indexes, f.status) ELSE {}]
      <3>1. found = answer
        BY <1>1, Zenon DEF Searched, search
      <3> HIDE DEF ranked, shown, f, indexes
      <3>2. QED
        BY <3>1
    <2>3. indexes = buildSearchIndexes(doc, Snapshot.endpoints)
      OBVIOUS
    <2>4. "usage" \in f.include => shown \cap {"schemas", "usage"} # {}
      BY DEF includeSet
    <2> HIDE DEF f, indexes, shown, plan
    <2>5. f.status \in Int /\ f.limit \in Nat \ {0} /\ f.query \in Seq(STRING)
      <3>1. f.status \in Int /\ f.limit \in Nat \ {0}
        BY <2>1 DEF ParsedFilters
      <3>2. f.query \in Seq(STRING)
        BY <2>1 DEF ParsedFilters
      <3>3. QED
        BY <3>1, <3>2
    <2>6. ranked \in Seq(Met(f)) /\ Len(ranked) = Cardinality(Met(f))
      BY <1>1, <2>1, <2>3, <2>5, RankedAreMet
    <2> HIDE DEF ranked
    <2>7. /\ ToSet(found.results) \subseteq Met(f)
          /\ "endpoints" \in shown => Len(found.results) = Min({Len(ranked), f.limit})
      <3> DEFINE n == Min({Len(ranked), f.limit})
      <3>1. n \in 0 .. Len(ranked)
        <4>1. Len(ranked) \in Nat /\ f.limit \in Nat
          BY <2>5, <2>6
        <4>2. \E m \in {Len(ranked), f.limit} : \A l \in {Len(ranked), f.limit} : m <= l
          BY <4>1
        <4>3. n \in {Len(ranked), f.limit} /\ n <= Len(ranked)
          BY <4>2 DEF Min
        <4>4. QED
          BY <4>1, <4>3
      <3> HIDE DEF n
      <3>2. SubSeq(ranked, 1, n) \in Seq(Met(f)) /\ Len(SubSeq(ranked, 1, n)) = n
        BY <2>6, <3>1
      <3>3. \A s \in Seq(Met(f)) : ToSet(s) \subseteq Met(f)
        BY DEF ToSet
      <3>4. <<>> \in Seq(Met(f))
        OBVIOUS
      <3>5. QED
        BY <2>2, <3>2, <3>3, <3>4 DEF n
    <2>8. ASSUME f = [f EXCEPT !.method = "", !.tag = "", !.query = <<>>, !.status = 0],
                 "usage" \in f.include, f.schema # ""
          PROVE  {u.id : u \in found.schema} = {e.id : e \in Met(f)}
      <3>1. f.method = "" /\ f.tag = "" /\ f.query = <<>> /\ f.status = 0
        BY <2>1, <2>8, FieldsAreClear, Zenon
      <3>2. ~ (0 > 0)
        OBVIOUS
      <3>3. BySchema(f)
        BY <2>8, <3>1, <3>2, Zenon DEF BySchema
      <3>4. found.schema = usageOfSchema(indexes, f.schema)
        BY <2>2, <2>4, <2>8, Zenon
      <3>5. QED
        BY <1>1, <2>1, <2>3, <2>5, <3>3, <3>4, UsageIsMet
    <2>9. ASSUME f = [f EXCEPT !.method = "", !.tag = "", !.schema = "", !.status = 0]
          PROVE  IF Met(f) = {} THEN plan = <<>> ELSE plan[1] \in Met(f)
      <3>1. f.method = "" /\ f.tag = "" /\ f.schema = "" /\ f.status = 0
        BY <2>1, <2>9, FieldsAreClear, Zenon
      <3>2. ~ (0 > 0)
        OBVIOUS
      <3>3. ByQuery(f)
        BY <3>1, <3>2, Zenon DEF ByQuery
      <3>4. plan = planCall(Snapshot, <<>>, f.query, <<>>)
        BY DEF plan
      <3>5. QED
        BY <2>5, <3>3, <3>4, PlanIsMet
    <2>10. QED
      BY <2>2, <2>6, <2>7, <2>8, <2>9
  <1>2. Searched => SearchIsExact
    BY <1>1, Zenon DEF SearchIsExact, IdsAreUnique, Met
  <1>3. QED
    BY <1>2, SearchedAlways, PTL

-----------------------------------------------------------------------------
\* Merging what agrees, and expanding what is open elsewhere

\* A function of nothing is the empty one.
LEMMA NoFields == ASSUME NEW f, f = [key \in DOMAIN f |-> f[key]], DOMAIN f = {} PROVE f = <<>>
PROOF
  <1> QED
    OBVIOUS

\* Nothing is in it.
LEMMA NothingThere == ASSUME NEW f, f = <<>> PROVE DOMAIN f = {} /\ ToSet(f) = {}
PROOF
  <1>1. DOMAIN <<>> = {}
    OBVIOUS
  <1>2. DOMAIN f = {}
    BY <1>1
  <1>3. QED
    BY <1>2 DEF ToSet

\* Merged with itself an object stays what it is.
LEMMA MergeOfSame ==
    ASSUME AllOfJSON, NEW v \in JSONValues, v.kind = "object" PROVE DeepMerge[v][v] = v
PROOF
  <1> DEFINE Good == {w \in JSONValues : w.kind = "object" => DeepMerge[w][w] = w}
  <1>1. GoesUpValues(Good)
    <2> SUFFICES ASSUME NEW w \in JSONValues, ValuesIn(w) \subseteq Good, w.kind = "object"
                 PROVE  DeepMerge[w][w] = w
      BY DEF GoesUpValues
    <2>1. /\ w = Object(w.fields) /\ w.fields \in [DOMAIN w.fields -> JSONValues]
          /\ \A key \in DOMAIN w.fields : w.fields[key] \in ValuesIn(w)
      BY JSONFields DEF AllOfJSON
    <2>2. ASSUME NEW key \in DOMAIN w.fields PROVE MergedField(DeepMerge, w, w, key) = w.fields[key]
      <3>1. w.fields[key] \in Good
        BY <2>1
      <3>2. w.fields[key].kind = "object" => DeepMerge[w.fields[key]][w.fields[key]] = w.fields[key]
        BY <3>1
      <3>3. QED
        BY <3>2 DEF MergedField
    <2>3. MergedFields(DeepMerge, w, w) = w.fields
      BY <2>1, <2>2 DEF MergedFields
    <2>4. QED
      BY <2>1, <2>3, MergeIs
  <1>2. v \in Good
    <2> HIDE DEF Good
    <2> QED
      BY <1>1, ValueInduction DEF AllOfJSON
  <1>3. QED
    BY <1>2

\* Objects that agree on the fields they share.
Agreeing(parts) ==
    \A j, k \in DOMAIN parts :
        parts[j].kind = "object" /\ parts[k].kind = "object" =>
            \A key \in DOMAIN parts[j].fields \cap DOMAIN parts[k].fields :
                parts[j].fields[key] = parts[k].fields[key]

\* v is an object of all their fields, and of no others.
Gathers(v, parts) ==
    /\ v.kind = "object"
    /\ \A k \in DOMAIN parts : parts[k].kind = "object" =>
         \A key \in DOMAIN parts[k].fields : key \in DOMAIN v.fields /\ v.fields[key] = parts[k].fields[key]
    /\ \A key \in DOMAIN v.fields :
         \E k \in DOMAIN parts : parts[k].kind = "object" /\ key \in DOMAIN parts[k].fields

\* Merged, they make such an object.
LEMMA MergeGathers ==
    ASSUME AllOfJSON, NEW parts \in Seq(JSONValues), Agreeing(parts)
    PROVE  Gathers(MergeAll[parts], parts)
PROOF
  <1> DEFINE S     == Seq(JSONValues)
             level == [p \in S |-> Len(p)]
             Good  == {p \in S : Agreeing(p) => Gathers(MergeAll[p], p)}
  <1>1. PassesUp(S, level, Good)
    <2> SUFFICES ASSUME NEW p \in S, \A q \in S : level[q] < level[p] => q \in Good, Agreeing(p)
                 PROVE  Gathers(MergeAll[p], p)
      BY DEF PassesUp
    <2>1. CASE p = <<>>
      <3>1. MergeAll[p] = Object(<<>>)
        BY <2>1, MergeAllIs
      <3>2. QED
        <4> DEFINE v == MergeAll[p]
        <4>1. v.kind = "object" /\ v.fields = <<>>
          <5>1. v = Object(<<>>)
            BY <3>1
          <5> HIDE DEF v
          <5>2. QED
            BY <5>1 DEF Object, JSON
        <4> HIDE DEF v
        <4>2. DOMAIN p = {} /\ DOMAIN v.fields = {}
          BY <2>1, <4>1
        <4>3. QED
          BY <4>1, <4>2 DEF Gathers, v
    <2>2. CASE p # <<>>
      <3> DEFINE q      == Front(p)
                 l      == Last(p)
                 before == MergeAll[q]
                 n      == Len(p)
      <3>1. q \in S /\ l \in JSONValues /\ Len(q) < Len(p)
        BY <2>2, FrontAndLast
      <3>2. /\ n \in Nat \ {0} /\ DOMAIN p = 1 .. n /\ DOMAIN q = 1 .. (n - 1) /\ l = p[n]
            /\ \A k \in 1 .. (n - 1) : q[k] = p[k]
        BY <2>2 DEF Front, Last
      <3>3. MergeAll[p] = IF l.kind = "object" THEN DeepMerge[before][l] ELSE before
        BY <2>2, MergeAllIs
      <3>4. before \in JSONValues
        BY <3>1, MergeAllIs
      <3> HIDE DEF q, l, n, before
      <3>5. DOMAIN q \subseteq DOMAIN p /\ n \in DOMAIN p /\ DOMAIN p = DOMAIN q \cup {n}
            /\ \A k \in DOMAIN q : q[k] = p[k]
        BY <3>2
      <3>6. Agreeing(q)
        BY <3>5 DEF Agreeing
      <3>7. q \in Good
        BY <3>1
      <3>8. Gathers(before, q)
        BY <3>6, <3>7 DEF before
      <3>9. CASE l.kind # "object"
        <4>1. MergeAll[p] = before
          BY <3>3, <3>9
        <4>2. \A k \in DOMAIN p : p[k].kind = "object" => k \in DOMAIN q /\ q[k] = p[k]
          BY <3>2, <3>5, <3>9
        <4>3. /\ before.kind = "object"
              /\ \A k \in DOMAIN q : q[k].kind = "object" =>
                   \A key \in DOMAIN q[k].fields : key \in DOMAIN before.fields /\ before.fields[key] = q[k].fields[key]
              /\ \A key \in DOMAIN before.fields :
                   \E k \in DOMAIN q : q[k].kind = "object" /\ key \in DOMAIN q[k].fields
          BY <3>8 DEF Gathers
        <4>5. \A k \in DOMAIN p : p[k].kind = "object" =>
                \A key \in DOMAIN p[k].fields : key \in DOMAIN before.fields /\ before.fields[key] = p[k].fields[key]
          BY <4>2, <4>3
        <4>6. \A key \in DOMAIN before.fields :
                \E k \in DOMAIN p : p[k].kind = "object" /\ key \in DOMAIN p[k].fields
          BY <3>5, <4>3
        <4>7. Gathers(before, p)
          BY <4>3, <4>5, <4>6 DEF Gathers
        <4>8. QED
          BY <4>1, <4>7
      <3>10. CASE l.kind = "object"
        <4> DEFINE fields == MergedFields(DeepMerge, before, l)
        <4>1. MergeAll[p] = Object(fields)
          BY <3>1, <3>3, <3>4, <3>10, MergeIs
        <4>2. DOMAIN fields = DOMAIN before.fields \cup DOMAIN l.fields
          BY DEF MergedFields
        <4>3. \A key \in DOMAIN fields : fields[key] = MergedField(DeepMerge, before, l, key)
          BY DEF MergedFields
        <4> HIDE DEF fields
        <4>4. ASSUME NEW key \in DOMAIN before.fields \cap DOMAIN l.fields
              PROVE  before.fields[key] = l.fields[key]
          <5>1. PICK k \in DOMAIN q : q[k].kind = "object" /\ key \in DOMAIN q[k].fields
            BY <3>8 DEF Gathers
          <5>2. before.fields[key] = q[k].fields[key]
            BY <3>8, <5>1 DEF Gathers
          <5>3. q[k] = p[k] /\ k \in DOMAIN p /\ n \in DOMAIN p /\ l = p[n]
            BY <3>2, <3>5
          <5>4. p[k].fields[key] = p[n].fields[key]
            BY <3>10, <5>1, <5>3 DEF Agreeing
          <5>5. QED
            BY <5>2, <5>3, <5>4
        <4>5. ASSUME NEW key \in DOMAIN before.fields PROVE fields[key] = before.fields[key]
          <5>1. CASE key \notin DOMAIN l.fields
            BY <4>2, <4>3, <5>1 DEF MergedField
          <5>2. CASE key \in DOMAIN l.fields
            <6>1. before.fields[key] = l.fields[key] /\ l.fields[key] \in JSONValues
              BY <3>1, <4>4, <5>2, JSONFields DEF AllOfJSON
            <6>2. fields[key] = MergedField(DeepMerge, before, l, key)
              BY <4>2, <4>3
            <6>3. l.fields[key].kind = "object" => DeepMerge[l.fields[key]][l.fields[key]] = l.fields[key]
              BY <6>1, MergeOfSame
            <6>4. QED
              BY <5>2, <6>1, <6>2, <6>3 DEF MergedField
          <5>3. QED
            BY <5>1, <5>2
        <4>6. ASSUME NEW key \in DOMAIN l.fields PROVE fields[key] = l.fields[key]
          <5>1. CASE key \in DOMAIN before.fields
            BY <4>4, <4>5, <5>1
          <5>2. CASE key \notin DOMAIN before.fields
            BY <4>2, <4>3, <5>2 DEF MergedField
          <5>3. QED
            BY <5>1, <5>2
        <4> DEFINE v == MergeAll[p]
        <4>7. v.kind = "object" /\ v.fields = fields
          <5>1. v = Object(fields)
            BY <4>1
          <5> HIDE DEF v
          <5>2. QED
            BY <5>1 DEF Object, JSON
        <4> HIDE DEF v
        <4>8. \A k \in DOMAIN p : p[k].kind = "object" =>
                \A key \in DOMAIN p[k].fields : key \in DOMAIN v.fields /\ v.fields[key] = p[k].fields[key]
          <5> SUFFICES ASSUME NEW k \in DOMAIN p, p[k].kind = "object", NEW key \in DOMAIN p[k].fields
                       PROVE  key \in DOMAIN v.fields /\ v.fields[key] = p[k].fields[key]
            OBVIOUS
          <5>1. CASE k = n
            BY <3>2, <4>2, <4>6, <4>7, <5>1
          <5>2. CASE k \in DOMAIN q
            <6>1. q[k] = p[k]
              BY <3>5, <5>2
            <6>2. key \in DOMAIN before.fields /\ before.fields[key] = p[k].fields[key]
              BY <3>8, <5>2, <6>1 DEF Gathers
            <6>3. QED
              BY <4>2, <4>5, <4>7, <6>2
          <5>3. QED
            BY <3>5, <5>1, <5>2
        <4>9. \A key \in DOMAIN v.fields :
                \E k \in DOMAIN p : p[k].kind = "object" /\ key \in DOMAIN p[k].fields
          <5> SUFFICES ASSUME NEW key \in DOMAIN v.fields
                       PROVE  \E k \in DOMAIN p : p[k].kind = "object" /\ key \in DOMAIN p[k].fields
            OBVIOUS
          <5>1. CASE key \in DOMAIN l.fields
            BY <3>2, <3>5, <3>10, <5>1
          <5>2. CASE key \in DOMAIN before.fields
            BY <3>5, <3>8, <5>2 DEF Gathers
          <5>3. QED
            BY <4>2, <4>7, <5>1, <5>2
        <4>10. QED
          BY <4>7, <4>8, <4>9 DEF v, Gathers
      <3>11. QED
        BY <3>9, <3>10
    <2>3. QED
      BY <2>1, <2>2
  <1>2. level \in [S -> Nat]
    OBVIOUS
  <1>3. parts \in Good
    <2> HIDE DEF S, level, Good
    <2>1. parts \in S
      BY DEF S
    <2> QED
      BY <1>1, <1>2, <2>1, Descent
  <1>4. QED
    BY <1>3

\* What is open beside the schemas that one leads to is of no importance to how it is
\* expanded.
LEMMA ExpandedAlike ==
    ASSUME NEW d \in Documents, NEW C \in SUBSET DOMAIN d, \A name \in C : References(d[name]) \subseteq C,
           NEW ref \in C, NEW open1 \in SUBSET DOMAIN d, NEW open2 \in SUBSET DOMAIN d,
           open1 \cap C = open2 \cap C
    PROVE  ResolveSchema(d, ref, open1) = ResolveSchema(d, ref, open2)
PROOF
  <1> DEFINE Same(name, seen) ==
                 name \in C => \A other \in SUBSET DOMAIN d :
                    seen \cap C = other \cap C => ResolveSchema(d, name, seen) = ResolveSchema(d, name, other)
             Good == {p \in (DOMAIN d) \X SUBSET DOMAIN d : Same(p[1], p[2])}
  <1>1. GoesUpDocument(d, Good)
    <2> SUFFICES ASSUME NEW name \in DOMAIN d, NEW seen \in SUBSET DOMAIN d,
                        name \notin seen => \A r \in References(d[name]) : <<r, seen \cup {name}>> \in Good
                 PROVE  Same(name, seen)
      <3> HIDE DEF Same
      <3> QED
        BY DEF GoesUpDocument
    <2> SUFFICES ASSUME name \in C, NEW other \in SUBSET DOMAIN d, seen \cap C = other \cap C
                 PROVE  ResolveSchema(d, name, seen) = ResolveSchema(d, name, other)
      OBVIOUS
    <2>1. name \in seen <=> name \in other
      OBVIOUS
    <2>2. CASE name \in seen
      <3> HIDE DEF Good
      <3>1. ResolveSchema(d, name, seen) = CircularRef(name)
        BY <2>2, Resolved
      <3>2. ResolveSchema(d, name, other) = CircularRef(name)
        BY <2>1, <2>2, Resolved
      <3>3. QED
        BY <3>1, <3>2
    <2>3. CASE name \notin seen
      <3> DEFINE more == seen \cup {name}
                 most == other \cup {name}
                 s    == d[name]
      <3>1. \A r \in References(s) : Same(r, more) /\ r \in C
        BY <2>3
      <3>2. more \cap C = most \cap C /\ most \in SUBSET DOMAIN d
        OBVIOUS
      <3>3. \A r \in References(s) : ResolveSchema(d, r, more) = ResolveSchema(d, r, most)
        BY <3>1, <3>2
      <3> HIDE DEF more, most, s
      <3>4. ASSUME NEW refs, ToSet(refs) \subseteq References(s)
            PROVE  ResolveAll(d, refs, more) = ResolveAll(d, refs, most)
        <4>1. \A x \in DOMAIN refs : refs[x] \in References(s)
          BY <3>4 DEF ToSet
        <4>2. QED
          BY <3>3, <4>1 DEF ResolveAll
      <3>5. /\ ToSet(s.props) \subseteq References(s) /\ ToSet(s.items) \subseteq References(s)
            /\ ToSet(s.oneOf) \subseteq References(s) /\ ToSet(s.anyOf) \subseteq References(s)
            /\ ToSet(s.allOf) \subseteq References(s) /\ ToSet(s.others) \subseteq References(s)
        BY DEF References, Composed, Parts, ToSet
      <3>6. /\ ResolveAll(d, s.props, more) = ResolveAll(d, s.props, most)
            /\ ResolveAll(d, s.items, more) = ResolveAll(d, s.items, most)
            /\ ResolveAll(d, s.oneOf, more) = ResolveAll(d, s.oneOf, most)
            /\ ResolveAll(d, s.anyOf, more) = ResolveAll(d, s.anyOf, most)
            /\ ResolveAll(d, s.allOf, more) = ResolveAll(d, s.allOf, most)
            /\ ResolveAll(d, s.others, more) = ResolveAll(d, s.others, most)
        BY <3>4, <3>5
      <3> DEFINE With(o) ==
            [s EXCEPT !.origin = name, !.props = ResolveAll(d, @, o), !.items = ResolveAll(d, @, o),
                      !.oneOf = ResolveAll(d, @, o), !.anyOf = ResolveAll(d, @, o),
                      !.allOf = ResolveAll(d, @, o), !.others = ResolveAll(d, @, o)]
      <3>7. ResolveSchema(d, name, seen) = With(more) /\ ResolveSchema(d, name, other) = With(most)
        <4> HIDE DEF Good
        <4>1. ResolveSchema(d, name, seen) = With(more)
          BY <2>3, Resolved DEF more, s
        <4>2. ResolveSchema(d, name, other) = With(most)
          BY <2>1, <2>3, Resolved DEF most, s
        <4>3. QED
          BY <4>1, <4>2
      <3>8. With(more) = With(most)
        BY <3>6
      <3>9. QED
        BY <3>7, <3>8
    <2>4. QED
      BY <2>2, <2>3
  <1> HIDE DEF Good
  <1>2. <<ref, open1>> \in Good
    BY <1>1, DocumentInduction
  <1>3. Same(ref, open1)
    <2> HIDE DEF Same
    <2> QED
      BY <1>2 DEF Good
  <1>4. QED
    BY <1>3

-----------------------------------------------------------------------------
\* What a schema in the document makes

\* An array gets as many elements as it must have, and no more than it may have.
LEMMA ItemCountFits ==
    ASSUME NEW s, s.minItems \in Nat, s.maxItems \in Nat, NEW strategy
    PROVE  /\ ItemCount(s, strategy) \in Nat /\ ItemCount(s, strategy) >= s.minItems
           /\ s.maxItems > 0 /\ s.minItems <= s.maxItems => ItemCount(s, strategy) <= s.maxItems
PROOF
  <1>1. ASSUME NEW a \in Nat, NEW b \in Nat
        PROVE  /\ Max({a, b}) \in {a, b} /\ Max({a, b}) >= a /\ Max({a, b}) >= b
               /\ Min({a, b}) \in {a, b} /\ Min({a, b}) <= a /\ Min({a, b}) <= b
    <2>1. \E x \in {a, b} : \A y \in {a, b} : x >= y
      OBVIOUS
    <2>2. \E x \in {a, b} : \A y \in {a, b} : x =< y
      OBVIOUS
    <2>3. Max({a, b}) \in {a, b} /\ \A y \in {a, b} : Max({a, b}) >= y
      BY <2>1 DEF Max
    <2>4. Min({a, b}) \in {a, b} /\ \A y \in {a, b} : Min({a, b}) =< y
      BY <2>2 DEF Min
    <2>5. QED
      BY <2>3, <2>4
  <1> DEFINE most == IF s.maxItems > 0 THEN s.maxItems ELSE 3
             wish == IF strategy = "maximal" THEN Min({most, 8}) ELSE 1
  <1>2. most \in Nat /\ (s.maxItems > 0 => most = s.maxItems) /\ most >= 1
    OBVIOUS
  <1>3. wish \in Nat /\ (s.maxItems > 0 => wish <= s.maxItems)
    <2> HIDE DEF most
    <2>1. Min({most, 8}) \in Nat /\ Min({most, 8}) <= most
      BY <1>1, <1>2
    <2>2. QED
      BY <1>2, <2>1
  <1> HIDE DEF wish
  <1>4. /\ Max({wish, s.minItems}) \in {wish, s.minItems} /\ Max({wish, s.minItems}) >= s.minItems
    BY <1>1, <1>3
  <1>5. ItemCount(s, strategy) = Max({wish, s.minItems})
    BY Zenon DEF ItemCount, wish
  <1>6. QED
    BY <1>3, <1>4, <1>5

\* What is made of a schema in the document, in front of those that are open: made has
\* what is made of resolved schemas.
MadeAt(made, d, seen) == [ref \in DOMAIN d |-> made[ResolveSchema(d, ref, seen)]]

\* The generator may as well look at the schema in the document.
LEMMA MadeOfSchema ==
    ASSUME NEW d \in Documents, NEW name \in DOMAIN d, NEW seen \in SUBSET DOMAIN d, name \notin seen,
           NEW made, NEW strategy, NEW depth
    PROVE  GenerateFrom(made, ResolveSchema(d, name, seen), strategy, depth) =
             GenerateFrom(MadeAt(made, d, seen \cup {name}), d[name], strategy, depth)
PROOF
  <1> DEFINE tree == ResolveSchema(d, name, seen)
             s    == d[name]
             f    == MadeAt(made, d, seen \cup {name})
             Expand(refs) == ResolveAll(d, refs, seen \cup {name})
  <1>1. /\ tree.type = s.type /\ tree.required = s.required /\ tree.example = s.example /\ tree.enum = s.enum
        /\ tree.minItems = s.minItems /\ tree.maxItems = s.maxItems
        /\ tree.props = Expand(s.props) /\ tree.items = Expand(s.items)
        /\ tree.oneOf = Expand(s.oneOf) /\ tree.anyOf = Expand(s.anyOf) /\ tree.allOf = Expand(s.allOf)
    <2>1. /\ tree.type = s.type /\ tree.required = s.required
          /\ tree.example = s.example /\ tree.enum = s.enum
      BY ResolvedKeywords
    <2>4. tree.minItems = s.minItems /\ tree.maxItems = s.maxItems
      BY ResolvedKeywords
    <2>2. /\ tree.props = Expand(s.props) /\ tree.items = Expand(s.items)
          /\ tree.oneOf = Expand(s.oneOf) /\ tree.anyOf = Expand(s.anyOf) /\ tree.allOf = Expand(s.allOf)
      BY ResolvedKeywords
    <2>3. QED
      BY <2>1, <2>2, <2>4
  <1>2. /\ s.props \in [DOMAIN s.props -> DOMAIN d]
        /\ s.items \in Seq(DOMAIN d) /\ Len(s.items) <= 1
        /\ s.oneOf \in Seq(DOMAIN d) /\ s.anyOf \in Seq(DOMAIN d) /\ s.allOf \in Seq(DOMAIN d)
    BY DocumentsAssumption DEF IsSchema
  <1>3. \A refs : DOMAIN Expand(refs) = DOMAIN refs
    BY DEF ResolveAll
  <1>4. ASSUME NEW refs, NEW x \in DOMAIN refs, refs[x] \in DOMAIN d PROVE made[Expand(refs)[x]] = f[refs[x]]
    BY <1>4 DEF ResolveAll, MadeAt
  <1> HIDE DEF tree, s, f
  <1>5. ASSUME NEW refs \in Seq(DOMAIN d)
        PROVE  (Expand(refs) = <<>> <=> refs = <<>>) /\ Len(Expand(refs)) = Len(refs)
    <2>1. refs \in [1..Len(refs) -> DOMAIN d] /\ Len(refs) \in Nat
      OBVIOUS
    <2>2. Expand(refs) = [x \in 1..Len(refs) |-> ResolveSchema(d, refs[x], seen \cup {name})]
      BY <2>1 DEF Expand, ResolveAll
    <2>3. QED
      BY <2>1, <2>2
  <1>6. tree.props = <<>> <=> s.props = <<>>
    <2>1. s.props = [key \in DOMAIN s.props |-> s.props[key]]
      BY <1>2
    <2>2. tree.props = [key \in DOMAIN s.props |-> ResolveSchema(d, s.props[key], seen \cup {name})]
      BY <1>1 DEF ResolveAll
    <2>3. DOMAIN tree.props = DOMAIN s.props /\ DOMAIN <<>> = {}
      BY <2>2
    <2>4. tree.props = [key \in DOMAIN tree.props |-> tree.props[key]]
      BY <2>2
    <2>5. QED
      BY <2>1, <2>3, <2>4, NoFields
  <1>7. tree.items = <<>> <=> s.items = <<>>
    BY <1>1, <1>2, <1>5
  <1>8. InferredType(tree) = InferredType(s)
    BY <1>1, <1>6, <1>7 DEF InferredType
  <1>9. FilledFields(tree, strategy) = FilledFields(s, strategy) /\ FilledFields(s, strategy) \subseteq DOMAIN s.props
    BY <1>1, <1>3 DEF FilledFields
  <1>10. ItemCount(tree, strategy) = ItemCount(s, strategy)
    BY <1>1 DEF ItemCount
  <1>11. \A key \in DOMAIN s.props : made[tree.props[key]] = f[s.props[key]]
    BY <1>1, <1>2, <1>4
  <1>12. s.items # <<>> => made[tree.items[1]] = f[s.items[1]]
    <2> SUFFICES ASSUME s.items # <<>> PROVE made[tree.items[1]] = f[s.items[1]]
      OBVIOUS
    <2>1. 1 \in DOMAIN s.items /\ s.items[1] \in DOMAIN d
      BY <1>2
    <2>2. made[Expand(s.items)[1]] = f[s.items[1]]
      BY <1>4, <2>1
    <2>3. QED
      BY <1>1, <2>2
  <1>13. \A n : GenerateObject(made, tree, strategy, n) = GenerateObject(f, s, strategy, n)
    <2> SUFFICES ASSUME NEW n PROVE GenerateObject(made, tree, strategy, n) = GenerateObject(f, s, strategy, n)
      OBVIOUS
    <2> DEFINE filled == FilledFields(s, strategy)
    <2>1. [key \in filled \cup s.required |->
              IF key \in filled THEN made[tree.props[key]][n + 1] ELSE Placeholder]
          = [key \in filled \cup s.required |->
              IF key \in filled THEN f[s.props[key]][n + 1] ELSE Placeholder]
      <3>1. \A key \in filled : made[tree.props[key]] = f[s.props[key]]
        BY <1>9, <1>11
      <3> HIDE DEF filled
      <3>2. QED
        BY <3>1
    <2>2. QED
      BY <1>1, <1>6, <1>9, <2>1 DEF GenerateObject
  <1>14. \A n : GenerateArray(made, tree, strategy, n) = GenerateArray(f, s, strategy, n)
    <2> SUFFICES ASSUME NEW n PROVE GenerateArray(made, tree, strategy, n) = GenerateArray(f, s, strategy, n)
      OBVIOUS
    <2>1. [i \in 1..ItemCount(s, strategy) |->
              IF tree.items = <<>> THEN Null ELSE made[tree.items[1]][n + 1]]
          = [i \in 1..ItemCount(s, strategy) |->
              IF s.items = <<>> THEN Null ELSE f[s.items[1]][n + 1]]
      BY <1>7, <1>12
    <2>2. QED
      BY <1>10, <2>1 DEF GenerateArray
  <1>15. ASSUME NEW refs \in Seq(DOMAIN d), refs # <<>>
         PROVE  made[Expand(refs)[ChooseOption(Expand(refs), strategy)]] = f[refs[ChooseOption(refs, strategy)]]
    <2>1. ChooseOption(Expand(refs), strategy) = ChooseOption(refs, strategy)
      BY <1>5 DEF ChooseOption
    <2>2. ChooseOption(refs, strategy) \in DOMAIN refs
      BY <1>15 DEF ChooseOption
    <2>3. refs[ChooseOption(refs, strategy)] \in DOMAIN d
      BY <2>2
    <2>4. QED
      BY <1>4, <2>1, <2>2, <2>3
  <1>16. \A n : GenerateAllOf(made, tree.allOf, n) = GenerateAllOf(f, s.allOf, n)
    <2> SUFFICES ASSUME NEW n PROVE GenerateAllOf(made, tree.allOf, n) = GenerateAllOf(f, s.allOf, n)
      OBVIOUS
    <2>1. \A k \in DOMAIN s.allOf : made[tree.allOf[k]] = f[s.allOf[k]]
      <3>1. \A k \in DOMAIN s.allOf : s.allOf[k] \in DOMAIN d
        BY <1>2
      <3>2. QED
        BY <1>1, <1>4, <3>1
    <2>2. DOMAIN tree.allOf = DOMAIN s.allOf
      BY <1>1, <1>3
    <2>3. [k \in DOMAIN tree.allOf |-> made[tree.allOf[k]][n + 1]] = [k \in DOMAIN s.allOf |-> f[s.allOf[k]][n + 1]]
      BY <2>1, <2>2
    <2>4. QED
      BY <2>3 DEF GenerateAllOf
  <1>17. /\ tree.oneOf = <<>> <=> s.oneOf = <<>>
         /\ tree.anyOf = <<>> <=> s.anyOf = <<>>
         /\ tree.allOf = <<>> <=> s.allOf = <<>>
    BY <1>1, <1>2, <1>5
  <1>18. /\ s.oneOf # <<>> => made[tree.oneOf[ChooseOption(tree.oneOf, strategy)]] = f[s.oneOf[ChooseOption(s.oneOf, strategy)]]
         /\ s.anyOf # <<>> => made[tree.anyOf[ChooseOption(tree.anyOf, strategy)]] = f[s.anyOf[ChooseOption(s.anyOf, strategy)]]
    BY <1>1, <1>2, <1>15
  <1>19. GenerateFrom(made, tree, strategy, depth) = GenerateFrom(f, s, strategy, depth)
    BY <1>1, <1>8, <1>13, <1>14, <1>16, <1>17, <1>18 DEF GenerateFrom
  <1>20. QED
    BY <1>19 DEF tree, s, f

-----------------------------------------------------------------------------
\* What is made fits the schema

\* In these, acc says which parts of the value are admitted already.

\* v is of the type of the schema, and all that the schema asks for; with nothing said
\* of the keywords that the generator does not read.
Fits(acc, s, v) ==
    LET Admitting(options) == {i \in DOMAIN options : acc[<<v, options[i]>>]} IN
    /\ \/ s.type \in {"", v.kind}
       \/ s.type = "number" /\ v.kind = "integer"
    /\ s.enum # <<>> => v \in ToSet(s.enum)
    /\ v.kind = "object" =>
         /\ s.required \subseteq DOMAIN v.fields
         /\ \A key \in DOMAIN s.props \cap DOMAIN v.fields : acc[<<v.fields[key], s.props[key]>>]
    /\ v.kind = "array" =>
         /\ Len(v.elems) >= s.minItems
         /\ s.maxItems > 0 => Len(v.elems) <= s.maxItems
         /\ \A item \in ToSet(v.elems), ref \in ToSet(s.items) : acc[<<item, ref>>]
    /\ Admitting(s.allOf) = DOMAIN s.allOf
    /\ s.anyOf # <<>> => Admitting(s.anyOf) # {}
    /\ s.oneOf # <<>> => Cardinality(Admitting(s.oneOf)) = 1

\* What fits has the type, and passes the validator.
LEMMA FitsPass ==
    ASSUME NEW acc, NEW s, NEW v, Fits(acc, s, v) PROVE HasType(s.type, v) /\ PassedBy(acc, s, v)
PROOF
  <1> DEFINE Chosen(options) == {i \in DOMAIN options : acc[<<v, options[i]>>]}
  <1>1. /\ \/ s.type \in {"", v.kind}
           \/ s.type = "number" /\ v.kind = "integer"
        /\ s.enum # <<>> => v \in ToSet(s.enum)
        /\ v.kind = "object" =>
             /\ s.required \subseteq DOMAIN v.fields
             /\ \A key \in DOMAIN s.props \cap DOMAIN v.fields : acc[<<v.fields[key], s.props[key]>>]
        /\ v.kind = "array" => \A item \in ToSet(v.elems), ref \in ToSet(s.items) : acc[<<item, ref>>]
        /\ Chosen(s.allOf) = DOMAIN s.allOf
        /\ s.anyOf # <<>> => Chosen(s.anyOf) # {}
        /\ s.oneOf # <<>> => Cardinality(Chosen(s.oneOf)) = 1
    BY Zenon DEF Fits
  <1>2. HasType(s.type, v)
    BY <1>1 DEF HasType
  <1>3. s.enum # <<>> => EnumContains(s.enum, v)
    BY <1>1 DEF EnumContains
  <1>4. /\ s.type = "object" => v.kind = "object"
        /\ s.type = "array" => v.kind = "array"
    BY <1>2 DEF HasType
  <1>5. QED
    BY <1>1, <1>2, <1>3, <1>4, Zenon DEF PassedBy

\* Of the options of a oneOf, only one admits a value that has its type.
LEMMA OneOption ==
    ASSUME NEW d \in Documents, Generable(d), Plain(d), NEW admitted, IsAdmitting(admitted, d),
           NEW name \in DOMAIN d, NEW v \in JSONValues, NEW i \in DOMAIN d[name].oneOf,
           HasType(d[d[name].oneOf[i]].type, v),
           NEW j \in DOMAIN d[name].oneOf, admitted[<<v, d[name].oneOf[j]>>]
    PROVE  HasType(d[d[name].oneOf[j]].type, v)
PROOF
  <1> DEFINE p == d[name].oneOf[i]
             q == d[name].oneOf[j]
  <1>1. p \in DOMAIN d /\ q \in DOMAIN d
    BY ReferencesAreNames DEF References, Composed, ToSet
  <1>2. d[p].type \notin {"", "null"} /\ Decided(d[p])
    BY <1>1, Zenon DEF Generable, Distinct
  <1> HIDE DEF p, q
  <1>3. HasType(d[p].type, v) /\ admitted[<<v, q>>]
    BY DEF p, q
  <1>4. v.kind # "null"
    BY <1>2, <1>3 DEF Decided, HasType
  <1>5. AllowsKind(d[q], v) /\ d[q].union = {}
    <2>1. AdmittedBy(admitted, d[q], v)
      BY <1>1, <1>3 DEF IsAdmitting
    <2>2. QED
      BY <1>1, <2>1, Zenon DEF AdmittedBy, Plain
  <1>6. HasType(d[q].type, v)
    <2> DEFINE type == d[q].type
    <2>1. \/ type \in {"", v.kind}
          \/ v.kind = "integer" /\ type = "number"
      BY <1>4, <1>5 DEF AllowsKind
    <2> HIDE DEF type
    <2>2. HasType(type, v)
      BY <2>1 DEF HasType
    <2>3. QED
      BY <2>2 DEF type
  <1>7. QED
    BY <1>6 DEF q

\* In a document without the keywords that the generator does not read, what fits is
\* admitted, if acc accepts what is admitted and has its type.
LEMMA FitsAdmits ==
    ASSUME NEW d \in Documents, Generable(d), Plain(d), NEW admitted, IsAdmitting(admitted, d),
           OnlyJSON, NEW acc,
           \A w \in JSONValues, ref \in DOMAIN d :
              acc[<<w, ref>>] <=> admitted[<<w, ref>>] /\ HasType(d[ref].type, w),
           NEW name \in DOMAIN d, NEW v \in JSONValues, Fits(acc, d[name], v)
    PROVE  AdmittedBy(admitted, d[name], v)
PROOF
  <1> DEFINE s == d[name]
             Chosen(f, options) == {i \in DOMAIN options : f[<<v, options[i]>>]}
  <1>1. /\ \/ s.type \in {"", v.kind}
           \/ s.type = "number" /\ v.kind = "integer"
        /\ s.enum # <<>> => v \in ToSet(s.enum)
        /\ v.kind = "object" =>
             /\ s.required \subseteq DOMAIN v.fields
             /\ \A key \in DOMAIN s.props \cap DOMAIN v.fields : acc[<<v.fields[key], s.props[key]>>]
        /\ v.kind = "array" =>
             /\ Len(v.elems) >= s.minItems
             /\ s.maxItems > 0 => Len(v.elems) <= s.maxItems
             /\ \A item \in ToSet(v.elems), ref \in ToSet(s.items) : acc[<<item, ref>>]
        /\ Chosen(acc, s.allOf) = DOMAIN s.allOf
        /\ s.anyOf # <<>> => Chosen(acc, s.anyOf) # {}
        /\ s.oneOf # <<>> => Cardinality(Chosen(acc, s.oneOf)) = 1
    BY Zenon DEF Fits
  <1>2. s.union = {} /\ s.excludes = {}
    BY DEF Plain
  <1>3. /\ \A i \in DOMAIN s.allOf : s.allOf[i] \in DOMAIN d
        /\ \A i \in DOMAIN s.anyOf : s.anyOf[i] \in DOMAIN d
        /\ \A i \in DOMAIN s.oneOf : s.oneOf[i] \in DOMAIN d
        /\ \A key \in DOMAIN s.props : s.props[key] \in DOMAIN d
        /\ ToSet(s.items) \subseteq DOMAIN d
    <2>1. References(s) \subseteq DOMAIN d
      BY ReferencesAreNames
    <2> HIDE DEF s
    <2>2. QED
      BY <2>1 DEF References, Composed, Parts, ToSet
  <1>4. /\ \A key \in DOMAIN v.fields : v.fields[key] \in JSONValues
        /\ \A item \in ToSet(v.elems) : item \in JSONValues
    BY JSONFields DEF ToSet
  <1>5. s.oneOf # <<>> => Chosen(admitted, s.oneOf) = Chosen(acc, s.oneOf)
    <2> SUFFICES ASSUME s.oneOf # <<>> PROVE Chosen(admitted, s.oneOf) = Chosen(acc, s.oneOf)
      OBVIOUS
    <2>1. PICK i \in Chosen(acc, s.oneOf) : TRUE
      <3> DEFINE C == Chosen(acc, s.oneOf)
      <3>1. Cardinality(C) = 1
        BY <1>1
      <3> HIDE DEF C
      <3>4. Cardinality({}) = 0
        BY FS_EmptySet
      <3>2. C # {}
        <4> SUFFICES ASSUME C = {} PROVE FALSE
          OBVIOUS
        <4>1. Cardinality(C) = Cardinality({})
          BY Zenon
        <4>2. QED
          BY <3>1, <3>4, <4>1
      <3>3. QED
        BY <3>2 DEF C
    <2>2. HasType(d[s.oneOf[i]].type, v)
      BY <1>3, <2>1
    <2>3. ASSUME NEW j \in DOMAIN s.oneOf, admitted[<<v, s.oneOf[j]>>] PROVE acc[<<v, s.oneOf[j]>>]
      <3>1. HasType(d[s.oneOf[j]].type, v)
        BY <2>1, <2>2, <2>3, OneOption
      <3>2. QED
        BY <1>3, <2>3, <3>1
    <2>4. QED
      BY <1>3, <2>3
  <1> HIDE DEF s
  <1>6. \A w \in JSONValues, ref \in DOMAIN d : acc[<<w, ref>>] => admitted[<<w, ref>>]
    OBVIOUS
  <1>7. AllowsKind(s, v) /\ v \notin s.excludes
    BY <1>1, <1>2 DEF AllowsKind
  <1>8. v.kind = "object" =>
          /\ s.required \ s.oneWay \subseteq DOMAIN v.fields
          /\ \A key \in DOMAIN s.props \cap DOMAIN v.fields : admitted[<<v.fields[key], s.props[key]>>]
    BY <1>1, <1>3, <1>4, <1>6
  <1>9. v.kind = "array" =>
          /\ Len(v.elems) >= s.minItems
          /\ s.maxItems > 0 => Len(v.elems) <= s.maxItems
          /\ \A item \in ToSet(v.elems), ref \in ToSet(s.items) : admitted[<<item, ref>>]
    BY <1>1, <1>3, <1>4, <1>6
  <1>10. /\ Chosen(admitted, s.allOf) = DOMAIN s.allOf
         /\ s.anyOf # <<>> => Chosen(admitted, s.anyOf) # {}
    BY <1>1, <1>3, <1>6
  <1>11. s.oneOf # <<>> => Cardinality(Chosen(admitted, s.oneOf)) = 1
    <2> HIDE DEF Chosen
    <2> QED
      BY <1>1, <1>5
  <1>12. AdmittedBy(admitted, s, v)
    BY <1>1, <1>7, <1>8, <1>9, <1>10, <1>11, Zenon DEF AdmittedBy
  <1>13. QED
    BY <1>12 DEF s

\* A sequence without indices is empty.
LEMMA NoElements == ASSUME NEW S, NEW t \in Seq(S), DOMAIN t = {} PROVE t = <<>>
PROOF
  <1> QED
    OBVIOUS

\* One of at most one element has the one, if it is not.
LEMMA OneElement == ASSUME NEW S, NEW t \in Seq(S), t # <<>>, Len(t) <= 1 PROVE DOMAIN t = {1}
PROOF
  <1>1. Len(t) \in Nat /\ DOMAIN t = 1..Len(t)
    OBVIOUS
  <1>2. Len(t) # 0
    OBVIOUS
  <1>3. Len(t) = 1
    BY <1>1, <1>2
  <1>4. QED
    BY <1>1, <1>3

\* The length of a sequence of equal elements.
LEMMA AllAlike == ASSUME NEW n \in Nat, NEW e PROVE Len([i \in 1..n |-> e]) = n
PROOF
  <1> QED
    OBVIOUS

\* A schema that is composed of none has no options.
LEMMA NoOptions ==
    ASSUME NEW s, Composed(s) = {}, NEW names, IsSchema(s, names)
    PROVE  s.oneOf = <<>> /\ s.anyOf = <<>> /\ s.allOf = <<>>
PROOF
  <1>1. ToSet(s.oneOf) = {} /\ ToSet(s.anyOf) = {} /\ ToSet(s.allOf) = {}
    BY DEF Composed
  <1>2. s.oneOf \in Seq(names) /\ s.anyOf \in Seq(names) /\ s.allOf \in Seq(names)
    BY DEF IsSchema
  <1>3. ASSUME NEW t \in Seq(names), ToSet(t) = {} PROVE t = <<>>
    <2>1. DOMAIN t = {}
      BY <1>3 DEF ToSet
    <2>2. QED
      BY <2>1, NoElements
  <1>4. QED
    BY <1>1, <1>2, <1>3

\* A schema that is not composed admits what fits its type, its fields and its items.
LEMMA PlainAdmits ==
    ASSUME NEW s, NEW names, IsSchema(s, names), Composed(s) = {}, NEW v, NEW acc,
           \/ s.type \in {"", v.kind}
           \/ s.type = "number" /\ v.kind = "integer",
           s.enum # <<>> => v \in ToSet(s.enum),
           v.kind = "object" =>
             /\ s.required \subseteq DOMAIN v.fields
             /\ \A key \in DOMAIN s.props \cap DOMAIN v.fields : acc[<<v.fields[key], s.props[key]>>],
           v.kind = "array" =>
             /\ Len(v.elems) >= s.minItems
             /\ s.maxItems > 0 => Len(v.elems) <= s.maxItems
             /\ \A item \in ToSet(v.elems), ref \in ToSet(s.items) : acc[<<item, ref>>]
    PROVE  Fits(acc, s, v)
PROOF
  <1> DEFINE Admitting(options) == {i \in DOMAIN options : acc[<<v, options[i]>>]}
  <1>1. s.oneOf = <<>> /\ s.anyOf = <<>> /\ s.allOf = <<>>
    BY NoOptions
  <1>2. Admitting(s.allOf) = DOMAIN s.allOf
    <2>1. DOMAIN s.allOf = {}
      BY <1>1, NothingThere
    <2>2. QED
      BY <2>1
  <1> HIDE DEF Admitting
  <1>3. /\ s.anyOf # <<>> => Admitting(s.anyOf) # {}
        /\ s.oneOf # <<>> => Cardinality(Admitting(s.oneOf)) = 1
    BY <1>1
  <1>4. QED
    BY <1>2, <1>3, Zenon DEF Fits, Admitting

\* Nothing else counts of one that is.
LEMMA ComposedAdmits ==
    ASSUME NEW s, NEW names, IsSchema(s, names), Decided(s), Composed(s) # {}, NEW v, v.elems \in Seq(JSONValues),
           NEW acc,
           \A i \in DOMAIN s.allOf : acc[<<v, s.allOf[i]>>],
           s.anyOf # <<>> => \E i \in DOMAIN s.anyOf : acc[<<v, s.anyOf[i]>>],
           s.oneOf # <<>> => \E i \in DOMAIN s.oneOf : /\ acc[<<v, s.oneOf[i]>>]
                                                        /\ \A j \in DOMAIN s.oneOf \ {i} : ~ acc[<<v, s.oneOf[j]>>]
    PROVE  Fits(acc, s, v)
PROOF
  <1> DEFINE Admitting(options) == {i \in DOMAIN options : acc[<<v, options[i]>>]}
  <1>1. /\ s.type = "" /\ ToSet(s.example) \cup ToSet(s.enum) = {}
        /\ s.props = <<>> /\ s.items = <<>> /\ s.minItems = 0 /\ s.maxItems = 0 /\ s.required = {}
    BY DEF Decided
  <1>2. s.enum = <<>>
    <2>1. s.enum \in Seq(JSONValues) /\ ToSet(s.enum) = {}
      BY <1>1 DEF IsSchema
    <2>2. DOMAIN s.enum = {}
      BY <2>1 DEF ToSet
    <2>3. QED
      BY <2>1, <2>2, NoElements
  <1>3. DOMAIN s.props = {} /\ ToSet(s.items) = {}
    BY <1>1, NothingThere
  <1>4. Len(v.elems) >= s.minItems /\ (s.maxItems > 0 => Len(v.elems) <= s.maxItems)
    <2>1. Len(v.elems) \in Nat
      OBVIOUS
    <2>2. s.minItems = 0 /\ s.maxItems = 0
      BY <1>1
    <2>3. QED
      BY <2>1, <2>2
  <1>5. Admitting(s.allOf) = DOMAIN s.allOf
    OBVIOUS
  <1>6. s.anyOf # <<>> => Admitting(s.anyOf) # {}
    OBVIOUS
  <1>7. s.oneOf # <<>> => Cardinality(Admitting(s.oneOf)) = 1
    <2> SUFFICES ASSUME s.oneOf # <<>> PROVE Cardinality(Admitting(s.oneOf)) = 1
      OBVIOUS
    <2>1. PICK i \in DOMAIN s.oneOf : /\ acc[<<v, s.oneOf[i]>>]
                                      /\ \A j \in DOMAIN s.oneOf \ {i} : ~ acc[<<v, s.oneOf[j]>>]
      OBVIOUS
    <2>2. Admitting(s.oneOf) = {i}
      BY <2>1
    <2> HIDE DEF Admitting
    <2>3. QED
      BY <2>2, FS_Singleton
  <1>8. v.kind = "object" =>
             /\ s.required \subseteq DOMAIN v.fields
             /\ \A key \in DOMAIN s.props \cap DOMAIN v.fields : acc[<<v.fields[key], s.props[key]>>]
    BY <1>1, <1>3
  <1>9. v.kind = "array" =>
             /\ Len(v.elems) >= s.minItems
             /\ s.maxItems > 0 => Len(v.elems) <= s.maxItems
             /\ \A item \in ToSet(v.elems), ref \in ToSet(s.items) : acc[<<item, ref>>]
    BY <1>3, <1>4
  <1> HIDE DEF Admitting
  <1>10. QED
    BY <1>1, <1>2, <1>5, <1>6, <1>7, <1>8, <1>9, Zenon DEF Fits, Admitting

\* An example, or the first value of an enum.
LEMMA GivenAdmitted ==
    ASSUME OnlyJSON, NEW s, NEW names, IsSchema(s, names), Decided(s), NEW acc,
           NEW v \in ToSet(s.example) \cup ToSet(s.enum)
    PROVE  Fits(acc, s, v)
PROOF
  <1> DEFINE given == ToSet(s.example) \cup ToSet(s.enum)
  <1>1. s.example \in Seq(JSONValues) /\ s.enum \in Seq(JSONValues)
    BY DEF IsSchema
  <1>2. v \in JSONValues
    BY <1>1 DEF ToSet
  <1>3. given # {}
    OBVIOUS
  <1>4. /\ s.props = <<>> /\ s.items = <<>> /\ s.minItems = 0 /\ s.maxItems = 0
        /\ Composed(s) = {} /\ s.type \in {"", v.kind}
        /\ s.enum # <<>> => ToSet(s.example) \subseteq ToSet(s.enum)
        /\ s.required = {}
    BY <1>3 DEF Decided
  <1>5. s.enum # <<>> => v \in ToSet(s.enum)
    BY <1>4
  <1>6. DOMAIN s.props = {} /\ ToSet(s.items) = {}
    BY <1>4, NothingThere
  <1>7. Len(v.elems) >= s.minItems /\ (s.maxItems > 0 => Len(v.elems) <= s.maxItems)
    <2>1. Len(v.elems) \in Nat
      BY <1>2, JSONFields
    <2>2. s.minItems = 0 /\ s.maxItems = 0
      BY <1>4
    <2>3. QED
      BY <2>1, <2>2
  <1>8. QED
    BY <1>4, <1>5, <1>6, <1>7, PlainAdmits

\* An object whose fields are filled by their schemas.
LEMMA ObjectAdmitted ==
    ASSUME NEW s, NEW names, IsSchema(s, names), Decided(s), Composed(s) = {},
           s.enum = <<>>, s.type \in {"", "object"}, NEW acc, NEW strategy \in Strategies, NEW f, NEW depth,
           \A key \in FilledFields(s, strategy) : acc[<<f[s.props[key]][depth + 1], s.props[key]>>]
    PROVE  Fits(acc, s, GenerateObject(f, s, strategy, depth))
PROOF
  <1> DEFINE v      == GenerateObject(f, s, strategy, depth)
             filled == FilledFields(s, strategy)
             fields == [key \in filled \cup s.required |->
                          IF key \in filled THEN f[s.props[key]][depth + 1] ELSE Placeholder]
  <1>1. \A some : Object(some).kind = "object" /\ Object(some).fields = some
    BY DEF Object, JSON
  <1>2. CASE s.props = <<>>
    <2>1. v = Object(<<>>)
      BY <1>2 DEF GenerateObject
    <2>2. s.required = {} /\ DOMAIN s.props = {}
      BY <1>2, NothingThere DEF Decided
    <2> HIDE DEF v
    <2>3. v.kind = "object" /\ v.fields = <<>>
      BY <1>1, <2>1
    <2>4. Fits(acc, s, v)
      BY <2>2, <2>3, PlainAdmits
    <2>5. QED
      BY <2>4 DEF v
  <1>3. CASE s.props # <<>>
    <2>1. v = Object(fields)
      BY <1>3 DEF GenerateObject
    <2>2. v.kind = "object" /\ v.fields = fields
      <3> HIDE DEF v, fields
      <3> QED
        BY <1>1, <2>1
    <2>3. DOMAIN s.props \cap s.required \subseteq filled /\ filled \subseteq DOMAIN s.props
      BY DEF FilledFields
    <2>4. DOMAIN fields = filled \cup s.required
          /\ \A key \in filled : fields[key] = f[s.props[key]][depth + 1]
      <3> HIDE DEF filled
      <3> QED
        OBVIOUS
    <2>5. s.required \subseteq DOMAIN v.fields
          /\ \A key \in DOMAIN s.props \cap DOMAIN v.fields : acc[<<v.fields[key], s.props[key]>>]
      <3> HIDE DEF v, fields
      <3>1. s.required \subseteq DOMAIN v.fields
        BY <2>2, <2>4
      <3>2. ASSUME NEW key \in DOMAIN s.props \cap DOMAIN v.fields PROVE acc[<<v.fields[key], s.props[key]>>]
        <4>1. key \in filled
          BY <2>2, <2>3, <2>4
        <4>2. QED
          BY <2>2, <2>4, <4>1
      <3>3. QED
        BY <3>1, <3>2
    <2> HIDE DEF v
    <2>6. Fits(acc, s, v)
      BY <2>2, <2>5, PlainAdmits
    <2>7. QED
      BY <2>6 DEF v
  <1>4. QED
    BY <1>2, <1>3

\* An array of as many elements as it needs, all of them made by the one schema.
LEMMA ArrayAdmitted ==
    ASSUME NEW s, NEW names, IsSchema(s, names), Decided(s), Composed(s) = {},
           s.enum = <<>>, s.type \in {"", "array"}, NEW acc, NEW strategy, NEW f, NEW depth,
           \A ref \in ToSet(s.items) : acc[<<f[ref][depth + 1], ref>>]
    PROVE  Fits(acc, s, GenerateArray(f, s, strategy, depth))
PROOF
  <1> DEFINE v     == GenerateArray(f, s, strategy, depth)
             N     == ItemCount(s, strategy)
             elem  == IF s.items = <<>> THEN Null ELSE f[s.items[1]][depth + 1]
             elems == [i \in 1..N |-> elem]
  <1>1. v = Array(elems)
    BY DEF GenerateArray
  <1>2. v.kind = "array" /\ v.elems = elems
    <2> HIDE DEF v, elems
    <2> QED
      BY <1>1 DEF Array, JSON
  <1>3. /\ s.minItems \in Nat /\ s.maxItems \in Nat /\ s.items \in Seq(names) /\ Len(s.items) <= 1
        /\ s.maxItems > 0 => s.minItems <= s.maxItems
    BY DEF IsSchema, Decided
  <1>4. N \in Nat /\ N >= s.minItems /\ (s.maxItems > 0 => N <= s.maxItems)
    BY <1>3, ItemCountFits
  <1>5. Len(elems) = N
    <2>1. N \in Nat
      BY <1>4
    <2> HIDE DEF N, elem
    <2>2. QED
      BY <2>1, AllAlike
  <1>6. ASSUME NEW item \in ToSet(elems), NEW ref \in ToSet(s.items) PROVE acc[<<item, ref>>]
    <2>1. s.items # <<>>
      BY NothingThere
    <2>4. DOMAIN s.items = {1}
      <3>1. s.items \in Seq(names) /\ Len(s.items) <= 1
        BY <1>3
      <3>2. QED
        BY <2>1, <3>1, OneElement
    <2>5. ref = s.items[1]
      BY <2>4 DEF ToSet
    <2>2. item = f[s.items[1]][depth + 1]
      BY <2>1 DEF ToSet
    <2>3. QED
      BY <2>2, <2>5
  <1> HIDE DEF v, N, elem, elems
  <1>7. Fits(acc, s, v)
    BY <1>2, <1>3, <1>4, <1>5, <1>6, PlainAdmits
  <1>8. QED
    BY <1>7 DEF v

-----------------------------------------------------------------------------
\* How deep the generator goes

\* Where the strategy leads.
FollowedBy(s, strategy) ==
    Composed(s) \cup ToSet(s.items) \cup {s.props[key] : key \in FilledFields(s, strategy)}

\* What is reached leads nowhere else.
LEMMA ReachIsClosed ==
    ASSUME NEW d \in Documents, NEW from \in DOMAIN d
    PROVE  /\ from \in Reach(d, from) /\ Reach(d, from) \subseteq DOMAIN d
           /\ \A name \in Reach(d, from) : References(d[name]) \subseteq Reach(d, from)
PROOF
  <1>1. \A name \in DOMAIN d : References(d[name]) \subseteq DOMAIN d
    BY ReferencesAreNames
  <1>2. QED
    BY <1>1 DEF Reach

\* No way from the root is longer than the generator goes.
LEMMA NotTooDeep ==
    ASSUME NEW d \in Documents, Generable(d), NEW name \in Reach(d, Root), NEW seen \in SUBSET Reach(d, Root),
           name \notin seen
    PROVE  /\ Cardinality(seen) \in Nat /\ Cardinality(seen \cup {name}) = Cardinality(seen) + 1
           /\ 2 * Cardinality(seen) <= MaxDepth
PROOF
  <1> DEFINE R == Reach(d, Root)
  <1>1. R \subseteq DOMAIN d /\ IsFiniteSet(DOMAIN d)
    BY DocumentsAssumption DEF Reach
  <1>2. 2 * Cardinality(R) <= MaxDepth + 2
    BY DEF Generable
  <1> HIDE DEF R
  <1>3. IsFiniteSet(R) /\ Cardinality(R) \in Nat
    BY <1>1, FS_Subset, FS_CardinalityType
  <1>4. seen \cup {name} \subseteq R /\ seen \subseteq R
    BY DEF R
  <1>5. IsFiniteSet(seen) /\ Cardinality(seen) \in Nat
    BY <1>3, <1>4, FS_Subset, FS_CardinalityType
  <1>6. Cardinality(seen \cup {name}) = Cardinality(seen) + 1
    BY <1>5, FS_AddElement
  <1>7. Cardinality(seen \cup {name}) <= Cardinality(R)
    BY <1>3, <1>4, FS_Subset
  <1>8. QED
    BY <1>2, <1>3, <1>5, <1>6, <1>7 DEF MaxDepth

\* What is made at a place is JSON, and made by GenerateFrom.
LEMMA MadeIs ==
    ASSUME NEW d \in Documents, NEW name \in DOMAIN d, NEW seen \in SUBSET DOMAIN d,
           NEW strategy, NEW made, IsMade(made, strategy), NEW depth \in Nat
    PROVE  /\ made[ResolveSchema(d, name, seen)][depth] \in JSONValues
           /\ made[ResolveSchema(d, name, seen)][depth] =
                GenerateFrom(made, ResolveSchema(d, name, seen), strategy, depth)
PROOF
  <1> DEFINE tree == ResolveSchema(d, name, seen)
  <1>1. tree \in SchemaTrees
    BY SchemaTreesAre
  <1> HIDE DEF tree
  <1>2. made[tree][depth] = GenerateFrom(made, tree, strategy, depth) /\ made[tree][depth] \in JSONValues
    BY <1>1 DEF IsMade
  <1>3. QED
    BY <1>2 DEF tree

\* For a marker the generator makes no object.
LEMMA MarkerMade ==
    ASSUME NEW d \in Documents, NEW name \in DOMAIN d, NEW seen \in SUBSET DOMAIN d, name \in seen,
           NEW strategy, NEW made, IsMade(made, strategy), NEW depth \in Nat
    PROVE  made[ResolveSchema(d, name, seen)][depth].kind # "object"
PROOF
  <1> DEFINE tree == ResolveSchema(d, name, seen)
             v    == made[tree][depth]
  <1>1. tree \in SchemaTrees
    BY SchemaTreesAre
  <1>2. tree = [NoKeywords EXCEPT !.origin = name]
    <2>1. tree = CircularRef(name)
      BY Resolved
    <2>2. QED
      BY <2>1 DEF CircularRef
  <1> HIDE DEF tree
  <1>3. /\ tree.type = "" /\ tree.example = <<>> /\ tree.enum = <<>> /\ tree.props = <<>> /\ tree.items = <<>>
        /\ tree.oneOf = <<>> /\ tree.anyOf = <<>> /\ tree.allOf = <<>>
    BY <1>2 DEF NoKeywords
  <1>4. InferredType(tree) = ""
    BY <1>3 DEF InferredType
  <1>5. v = GenerateFrom(made, tree, strategy, depth)
    BY <1>1 DEF IsMade
  <1> HIDE DEF v
  <1>6. v = Null \/ v = SomeString
    BY <1>3, <1>4, <1>5 DEF GenerateFrom
  <1>7. Null.kind = "null" /\ SomeString.kind = "string"
    BY DEF Null, SomeString, Scalar, JSON
  <1>8. v.kind # "object"
    BY <1>6, <1>7
  <1>9. QED
    BY <1>8 DEF v, tree

-----------------------------------------------------------------------------
\* The parts of an allOf

\* The object that is made of a schema has just the fields the strategy fills.
FillsAsFollowed(d, strategy, made, name, seen, depth) ==
    LET s      == d[name]
        filled == FilledFields(s, strategy)
        object == made[ResolveSchema(d, name, seen)][depth]
    IN /\ Composed(s) = {} /\ s.required \subseteq filled /\ filled \subseteq DOMAIN s.props
       /\ object.kind = "object" /\ DOMAIN object.fields = filled
       /\ \A key \in filled :
            object.fields[key] = made[ResolveSchema(d, s.props[key], seen \cup {name})][depth + 2]

\* That is so if the schema describes what it requires and nothing else decides.
LEMMA PartMade ==
    ASSUME NEW d \in Documents, NEW name \in DOMAIN d, NEW seen \in SUBSET DOMAIN d, name \notin seen,
           Decided(d[name]), d[name].type = "object", d[name].required \subseteq DOMAIN d[name].props,
           d[name].example = <<>>, d[name].enum = <<>>,
           NEW strategy \in Strategies, NEW made, IsMade(made, strategy), NEW depth \in Nat, depth <= MaxDepth
    PROVE  FillsAsFollowed(d, strategy, made, name, seen, depth)
PROOF
  <1> DEFINE s      == d[name]
             filled == FilledFields(s, strategy)
             part   == made[ResolveSchema(d, name, seen)][depth]
             f      == MadeAt(made, d, seen \cup {name})
             fields == [key \in filled \cup s.required |->
                          IF key \in filled THEN f[s.props[key]][depth + 1 + 1] ELSE Placeholder]
  <1>1. IsSchema(s, DOMAIN d)
    BY DocumentsAssumption
  <1>2. Composed(s) = {}
    BY DEF Decided
  <1>3. s.oneOf = <<>> /\ s.anyOf = <<>> /\ s.allOf = <<>>
    BY <1>1, <1>2, NoOptions
  <1>4. s.required \subseteq filled /\ filled \subseteq DOMAIN s.props
    BY DEF FilledFields
  <1>5. part = GenerateFrom(f, s, strategy, depth)
    BY MadeIs, MadeOfSchema
  <1>6. /\ s.type = "object" /\ s.example = <<>> /\ s.enum = <<>>
    OBVIOUS
  <1>7. \A key \in filled : f[s.props[key]] = made[ResolveSchema(d, s.props[key], seen \cup {name})]
    <2>1. \A key \in filled : s.props[key] \in DOMAIN d
      BY <1>1, <1>4 DEF IsSchema
    <2>2. QED
      BY <2>1 DEF MadeAt
  <1> HIDE DEF s, f, part
  <1>8. InferredType(s) = "object"
    BY <1>6 DEF InferredType
  <1>9. part = GenerateObject(f, s, strategy, depth + 1)
    BY <1>3, <1>5, <1>6, <1>8 DEF GenerateFrom, MaxDepth
  <1>10. part.kind = "object" /\ DOMAIN part.fields = filled
         /\ \A key \in filled : part.fields[key] = f[s.props[key]][depth + 2]
    <2>1. \A some : Object(some).kind = "object" /\ Object(some).fields = some
      BY DEF Object, JSON
    <2>2. CASE s.props = <<>>
      <3>1. part = Object(<<>>)
        BY <1>9, <2>2 DEF GenerateObject
      <3>2. filled = {} /\ DOMAIN <<>> = {}
        BY <1>4, <2>2, NothingThere
      <3>3. part.kind = "object" /\ part.fields = <<>>
        BY <2>1, <3>1
      <3> HIDE DEF filled
      <3>4. QED
        BY <3>2, <3>3
    <2>3. CASE s.props # <<>>
      <3>1. part = Object(fields)
        BY <1>9, <2>3 DEF GenerateObject
      <3>2. part.kind = "object" /\ part.fields = fields
        <4> HIDE DEF fields
        <4> QED
          BY <2>1, <3>1
      <3>3. depth + 1 + 1 = depth + 2
        OBVIOUS
      <3> HIDE DEF filled
      <3>4. QED
        BY <1>4, <3>2, <3>3
    <2>4. QED
      BY <2>2, <2>3
  <1>11. \A key \in filled :
           part.fields[key] = made[ResolveSchema(d, s.props[key], seen \cup {name})][depth + 2]
    BY <1>7, <1>10
  <1>12. QED
    BY <1>2, <1>4, <1>10, <1>11 DEF s, part, FillsAsFollowed

\* A field that two parts of an allOf share is expanded alike under both.
Share(d, r1, r2, key, open) ==
    LET ref == d[r1].props[key] IN
    /\ d[r2].props[key] = ref
    /\ ResolveSchema(d, ref, open \cup {r1}) = ResolveSchema(d, ref, open \cup {r2})

\* That is so of a document whose parts can be merged.
LEMMA SharedField ==
    ASSUME NEW d \in Documents, NEW name \in DOMAIN d, NEW open \in SUBSET DOMAIN d, name \in open,
           Mergeable(d, name, ToSet(d[name].allOf)),
           NEW r1 \in ToSet(d[name].allOf), NEW r2 \in ToSet(d[name].allOf),
           NEW key \in DOMAIN d[r1].props \cap DOMAIN d[r2].props
    PROVE  Share(d, r1, r2, key, open)
PROOF
  <1> DEFINE q     == d[r1].props[key]
             parts == ToSet(d[name].allOf)
  <1>1. r1 \in DOMAIN d /\ r2 \in DOMAIN d
    BY ReferencesAreNames DEF References, Composed
  <1>2. q \in DOMAIN d
    BY <1>1, SchemaFields
  <1>3. r1 # r2 => /\ q = d[r2].props[key]
                   /\ q = name \/ Reach(d, q) \cap parts = {}
    BY DEF Mergeable
  <1>4. open \cup {r1} \in SUBSET DOMAIN d /\ open \cup {r2} \in SUBSET DOMAIN d
    BY <1>1
  <1>5. q = d[r2].props[key]
    BY <1>3
  <1> HIDE DEF q
  <1>6. ResolveSchema(d, q, open \cup {r1}) = ResolveSchema(d, q, open \cup {r2})
    <2>1. CASE r1 = r2
      BY <2>1
    <2>2. CASE q = name
      <3>1. ResolveSchema(d, q, open \cup {r1}) = CircularRef(q)
        BY <1>2, <1>4, <2>2, Resolved
      <3>2. ResolveSchema(d, q, open \cup {r2}) = CircularRef(q)
        BY <1>2, <1>4, <2>2, Resolved
      <3>3. QED
        BY <3>1, <3>2
    <2>3. CASE r1 # r2 /\ q # name
      <3> DEFINE C == Reach(d, q)
      <3>1. q \in C /\ C \in SUBSET DOMAIN d /\ \A n \in C : References(d[n]) \subseteq C
        BY <1>2, ReachIsClosed
      <3>2. r1 \notin C /\ r2 \notin C
        BY <1>3, <2>3
      <3> HIDE DEF C
      <3>3. (open \cup {r1}) \cap C = (open \cup {r2}) \cap C
        BY <3>2
      <3>4. QED
        BY <1>4, <3>1, <3>3, ExpandedAlike
    <2>4. QED
      BY <2>1, <2>2, <2>3
  <1>7. QED
    BY <1>5, <1>6 DEF q, Share

\* A judge of values, who has heard which schemas are open, is one for whom, at the places
\* in live, it is enough that a value is admitted by what the schema says, markers
\* accept everything, types are respected, and that what is expanded alike is judged alike.
\* What the strategy follows from a place in live is a place in live.
Judges(d, strategy, live, acc) ==
    /\ \A name \in DOMAIN d, seen \in SUBSET DOMAIN d : <<name, seen>> \in live =>
         /\ name \in seen => \A v \in JSONValues : acc[seen][<<v, name>>]
         /\ name \notin seen =>
              /\ \A v \in JSONValues : /\ Fits(acc[seen \cup {name}], d[name], v) => acc[seen][<<v, name>>]
                                       /\ acc[seen][<<v, name>>] => HasType(d[name].type, v)
              /\ \A ref \in FollowedBy(d[name], strategy) : <<ref, seen \cup {name}>> \in live
              /\ \A ref \in ToSet(d[name].oneOf) : ref \notin seen \cup {name}
    /\ \A ref \in DOMAIN d, open1, open2 \in SUBSET DOMAIN d, v \in JSONValues :
         ResolveSchema(d, ref, open1) = ResolveSchema(d, ref, open2) /\ acc[open1][<<v, ref>>]
         => acc[open2][<<v, ref>>]

\* What is made at a place is accepted there, so far down as there are schemas open.
AcceptedAt(d, made, acc, name, seen) ==
    \A depth \in Nat : depth <= 2 * Cardinality(seen)
                       => acc[seen][<<made[ResolveSchema(d, name, seen)][depth], name>>]

\* The parts of an allOf, merged, are accepted by every one of them.
LEMMA PartsAccepted ==
    ASSUME AllOfJSON, NEW d \in Documents, Generable(d), NEW strategy \in Strategies,
           NEW made, IsMade(made, strategy), NEW live, NEW acc, Judges(d, strategy, live, acc),
           NEW name \in Reach(d, Root), NEW seen \in SUBSET Reach(d, Root), name \notin seen,
           <<name, seen>> \in live, NEW depth \in Nat, depth <= 2 * Cardinality(seen),
           \A r \in ToSet(d[name].allOf) \ (seen \cup {name}) : \A key \in FilledFields(d[r], strategy) :
             AcceptedAt(d, made, acc, d[r].props[key], seen \cup {name} \cup {r}),
           NEW v \in JSONValues, v = GenerateAllOf(MadeAt(made, d, seen \cup {name}), d[name].allOf, depth + 1),
           NEW i \in DOMAIN d[name].allOf
    PROVE  acc[seen \cup {name}][<<v, d[name].allOf[i]>>]
PROOF
  <1> DEFINE R     == Reach(d, Root)
             open  == seen \cup {name}
             all   == d[name].allOf
             f     == MadeAt(made, d, open)
             parts == [k \in DOMAIN all |-> f[all[k]][depth + 1 + 1]]
             r     == all[i]
  <1>1. Root \in DOMAIN d
    BY RootAssumption
  <1>2. R \subseteq DOMAIN d /\ \A n \in R : References(d[n]) \subseteq R
    BY <1>1, ReachIsClosed
  <1>3. open \in SUBSET R /\ open \in SUBSET DOMAIN d /\ name \in DOMAIN d /\ name \in open /\ seen \in SUBSET DOMAIN d
    BY <1>2
  <1>4. all \in Seq(DOMAIN d)
    BY <1>3, DocumentsAssumption DEF IsSchema
  <1>5. ASSUME NEW k \in DOMAIN all PROVE all[k] \in ToSet(all) /\ all[k] \in R /\ all[k] \in DOMAIN d
    <2>1. all[k] \in References(d[name])
      BY DEF References, Composed, ToSet
    <2>2. QED
      BY <1>2, <2>1 DEF ToSet
  <1>6. ASSUME NEW k \in DOMAIN all
        PROVE  parts[k] = made[ResolveSchema(d, all[k], open)][depth + 2] /\ parts[k] \in JSONValues
    <2>1. f[all[k]] = made[ResolveSchema(d, all[k], open)]
      BY <1>5 DEF MadeAt
    <2>2. depth + 1 + 1 = depth + 2 /\ depth + 2 \in Nat
      OBVIOUS
    <2>3. parts[k] = made[ResolveSchema(d, all[k], open)][depth + 2]
      BY <2>1, <2>2
    <2> HIDE DEF parts, open, all
    <2>4. QED
      BY <1>3, <1>5, <2>2, <2>3, MadeIs
  <1>7. DOMAIN parts = DOMAIN all /\ parts \in Seq(JSONValues)
    <2>1. DOMAIN all = 1..Len(all) /\ Len(all) \in Nat
      BY <1>4
    <2>2. DOMAIN parts = DOMAIN all
      OBVIOUS
    <2>3. parts = [k \in 1..Len(all) |-> parts[k]]
      BY <2>1
    <2> HIDE DEF parts, all
    <2>4. parts \in [1..Len(all) -> JSONValues]
      BY <1>6, <2>1, <2>3
    <2>5. QED
      BY <2>1, <2>2, <2>4, SeqDef
  <1>8. Mergeable(d, name, ToSet(all))
    BY <1>3 DEF Generable
  <1>18. \A r1, r2 \in ToSet(all) : \A key \in DOMAIN d[r1].props \cap DOMAIN d[r2].props :
           Share(d, r1, r2, key, open)
    <2> HIDE DEF parts, f, open
    <2> QED
      BY <1>3, <1>8, SharedField
  <1>9. v = IF \A k \in DOMAIN parts : parts[k].kind # "object" THEN Null ELSE MergeAll[parts]
    <2>1. GenerateAllOf(f, all, depth + 1) =
            IF \A k \in DOMAIN parts : parts[k].kind # "object" THEN Null ELSE MergeAll[parts]
      BY Zenon DEF GenerateAllOf
    <2>2. QED
      BY <2>1
  <1>10. /\ Cardinality(seen) \in Nat /\ Cardinality(open) = Cardinality(seen) + 1
    <2>1. /\ Cardinality(seen) \in Nat /\ Cardinality(seen \cup {name}) = Cardinality(seen) + 1
      BY NotTooDeep
    <2>2. QED
      BY <2>1
  <1>11. ASSUME NEW k \in DOMAIN all, all[k] \in open PROVE parts[k].kind # "object"
    <2>1. depth + 2 \in Nat
      OBVIOUS
    <2> HIDE DEF parts, open, all
    <2>2. QED
      BY <1>3, <1>5, <1>6, <1>11, <2>1, MarkerMade
  <1>12. ASSUME NEW k \in DOMAIN all, all[k] \notin open
         PROVE  LET s == d[all[k]]
                    filled == FilledFields(s, strategy)
                IN /\ Composed(s) = {} /\ s.required \subseteq filled /\ filled \subseteq DOMAIN s.props
                   /\ s.type = "object" /\ s.enum = <<>>
                   /\ parts[k].kind = "object" /\ DOMAIN parts[k].fields = filled
                   /\ \A key \in filled :
                        /\ parts[k].fields[key] = made[ResolveSchema(d, s.props[key], open \cup {all[k]})][depth + 4]
                        /\ acc[open \cup {all[k]}][<<parts[k].fields[key], s.props[key]>>]
    <2> DEFINE q == all[k]
               filled == FilledFields(d[q], strategy)
    <2>1. q \in ToSet(all) /\ q \in R /\ q \in DOMAIN d /\ q \notin open
      BY <1>5, <1>12
    <2>2. /\ d[q].type = "object" /\ d[q].required \subseteq DOMAIN d[q].props
          /\ d[q].example = <<>> /\ d[q].enum = <<>>
      BY <1>8, <2>1 DEF Mergeable
    <2>3. Decided(d[q])
      BY <2>1 DEF Generable
    <2>4. /\ Cardinality(open \cup {q}) = Cardinality(open) + 1
          /\ 2 * Cardinality(open) <= MaxDepth
      <3> HIDE DEF q, open
      <3> QED
        BY <1>3, <2>1, NotTooDeep
    <2>5. depth + 2 \in Nat /\ depth + 2 <= MaxDepth /\ depth + 4 \in Nat /\ depth + 2 + 2 = depth + 4
          /\ depth + 4 <= 2 * Cardinality(open \cup {q})
      BY <1>10, <2>4 DEF MaxDepth
    <2> DEFINE part == made[ResolveSchema(d, q, open)][depth + 2]
    <2>6. /\ Composed(d[q]) = {} /\ d[q].required \subseteq filled /\ filled \subseteq DOMAIN d[q].props
          /\ part.kind = "object" /\ DOMAIN part.fields = filled
          /\ \A key \in filled :
               part.fields[key] = made[ResolveSchema(d, d[q].props[key], open \cup {q})][depth + 2 + 2]
      <3> DEFINE m == depth + 2
      <3>1. m \in Nat /\ m <= MaxDepth
        BY <2>5
      <3> HIDE DEF q, open, all, parts, m, part, filled
      <3>2. q \in DOMAIN d /\ open \in SUBSET DOMAIN d /\ q \notin open
        BY <1>3, <2>1
      <3>3. FillsAsFollowed(d, strategy, made, q, open, m)
        BY <2>2, <2>3, <3>1, <3>2, PartMade
      <3>4. QED
        BY <3>3, Zenon DEF m, part, filled, FillsAsFollowed
    <2>7. parts[k] = part
      BY <1>6
    <2>8. ASSUME NEW key \in filled
          PROVE  acc[open \cup {q}][<<made[ResolveSchema(d, d[q].props[key], open \cup {q})][depth + 4], d[q].props[key]>>]
      <3>1. AcceptedAt(d, made, acc, d[q].props[key], open \cup {q})
        BY <2>1
      <3> HIDE DEF q, open, filled
      <3>2. QED
        BY <2>5, <3>1 DEF AcceptedAt
    <2> HIDE DEF q, part, parts, filled, open
    <2>9. \A key \in filled :
             /\ parts[k].fields[key] = made[ResolveSchema(d, d[q].props[key], open \cup {q})][depth + 4]
             /\ acc[open \cup {q}][<<parts[k].fields[key], d[q].props[key]>>]
      <3> SUFFICES ASSUME NEW key \in filled
                   PROVE  /\ parts[k].fields[key] = made[ResolveSchema(d, d[q].props[key], open \cup {q})][depth + 4]
                          /\ acc[open \cup {q}][<<parts[k].fields[key], d[q].props[key]>>]
        OBVIOUS
      <3>1. parts[k].fields[key] = made[ResolveSchema(d, d[q].props[key], open \cup {q})][depth + 2 + 2]
        BY <2>6, <2>7
      <3>2. parts[k].fields[key] = made[ResolveSchema(d, d[q].props[key], open \cup {q})][depth + 4]
        BY <2>5, <3>1
      <3>3. QED
        BY <2>8, <3>2
    <2>10. QED
      BY <2>2, <2>6, <2>7, <2>9 DEF q, filled
  <1> HIDE DEF R, open, f, parts, all
  <1>13. Agreeing(parts)
    <2> SUFFICES ASSUME NEW j \in DOMAIN all, NEW k \in DOMAIN all,
                        parts[j].kind = "object", parts[k].kind = "object",
                        NEW key \in DOMAIN parts[j].fields \cap DOMAIN parts[k].fields
                 PROVE  parts[j].fields[key] = parts[k].fields[key]
      BY <1>7 DEF Agreeing
    <2>1. all[j] \notin open /\ all[k] \notin open
      BY <1>11
    <2>2. /\ key \in DOMAIN d[all[j]].props \cap DOMAIN d[all[k]].props
          /\ parts[j].fields[key] = made[ResolveSchema(d, d[all[j]].props[key], open \cup {all[j]})][depth + 4]
          /\ parts[k].fields[key] = made[ResolveSchema(d, d[all[k]].props[key], open \cup {all[k]})][depth + 4]
      BY <1>12, <2>1
    <2>3. Share(d, all[j], all[k], key, open)
      BY <1>5, <1>18, <2>2
    <2>4. QED
      BY <2>2, <2>3 DEF Share
  <1>14. <<r, open>> \in live /\ r \in DOMAIN d
    <2>1. r \in FollowedBy(d[name], strategy)
      BY DEF FollowedBy, Composed, ToSet, all
    <2>2. QED
      BY <1>3, <1>5, <2>1 DEF Judges, open, all
  <1>15. CASE r \in open
    <2> HIDE DEF r
    <2>1. acc[open][<<v, r>>]
      BY <1>3, <1>14, <1>15 DEF Judges
    <2>2. QED
      BY <2>1 DEF r, open, all
  <1>16. CASE r \notin open
    <2> DEFINE more   == open \cup {r}
               s      == d[r]
               filled == FilledFields(s, strategy)
    <2>1. /\ Composed(s) = {} /\ s.required \subseteq filled /\ filled \subseteq DOMAIN s.props
          /\ s.type = "object" /\ s.enum = <<>>
          /\ parts[i].kind = "object" /\ DOMAIN parts[i].fields = filled
      BY <1>12, <1>16 DEF all
    <2>2. v = MergeAll[parts]
      BY <1>7, <1>9, <2>1 DEF all
    <2>3. Gathers(v, parts)
      BY <1>7, <1>13, <2>2, MergeGathers
    <2>4. v.kind = "object" /\ s.required \subseteq DOMAIN v.fields
      <3>1. filled \subseteq DOMAIN v.fields
        BY <1>7, <2>1, <2>3 DEF Gathers, all
      <3> HIDE DEF filled
      <3>2. QED
        BY <2>1, <2>3, <3>1 DEF Gathers
    <2>5. ASSUME NEW key \in DOMAIN s.props \cap DOMAIN v.fields
          PROVE  acc[more][<<v.fields[key], s.props[key]>>]
      <3>1. PICK k \in DOMAIN all : parts[k].kind = "object" /\ key \in DOMAIN parts[k].fields
        BY <1>7, <2>3 DEF Gathers
      <3>2. v.fields[key] = parts[k].fields[key]
        BY <1>7, <2>3, <3>1 DEF Gathers
      <3>3. all[k] \notin open
        BY <1>11, <3>1
      <3>4. /\ key \in DOMAIN d[all[k]].props
            /\ acc[open \cup {all[k]}][<<v.fields[key], d[all[k]].props[key]>>]
        <4> DEFINE q == all[k]
        <4>1. /\ FilledFields(d[q], strategy) \subseteq DOMAIN d[q].props
              /\ DOMAIN parts[k].fields = FilledFields(d[q], strategy)
              /\ \A x \in FilledFields(d[q], strategy) : acc[open \cup {q}][<<parts[k].fields[x], d[q].props[x]>>]
          BY <1>12, <3>3
        <4> HIDE DEF q
        <4>2. key \in DOMAIN d[q].props /\ acc[open \cup {q}][<<parts[k].fields[key], d[q].props[key]>>]
          BY <3>1, <4>1
        <4>3. QED
          BY <3>2, <4>2 DEF q
      <3>5. /\ d[all[k]].props[key] = s.props[key]
            /\ ResolveSchema(d, s.props[key], open \cup {all[k]}) = ResolveSchema(d, s.props[key], more)
        <4>1. key \in DOMAIN d[all[k]].props \cap DOMAIN d[r].props /\ all[k] \in ToSet(all) /\ r \in ToSet(all)
          BY <1>5, <3>4 DEF all
        <4>2. Share(d, all[k], r, key, open)
          <5> HIDE DEF r
          <5> QED
            BY <1>18, <4>1
        <4>3. QED
          BY <4>2 DEF Share
      <3>6. /\ s.props[key] \in DOMAIN d /\ v.fields[key] \in JSONValues
            /\ open \cup {all[k]} \in SUBSET DOMAIN d /\ more \in SUBSET DOMAIN d
        <4>1. IsSchema(s, DOMAIN d)
          BY <1>14, DocumentsAssumption
        <4>2. s.props[key] \in DOMAIN d
          BY <4>1 DEF IsSchema
        <4>3. v.fields[key] \in JSONValues
          BY JSONFields DEF AllOfJSON
        <4>4. QED
          BY <1>3, <1>5, <1>14, <4>2, <4>3
      <3> DEFINE w == v.fields[key]
                 p == s.props[key]
                 o == open \cup {all[k]}
      <3>7. /\ p \in DOMAIN d /\ w \in JSONValues /\ o \in SUBSET DOMAIN d /\ more \in SUBSET DOMAIN d
            /\ ResolveSchema(d, p, o) = ResolveSchema(d, p, more) /\ acc[o][<<w, p>>]
        BY <3>4, <3>5, <3>6
      <3> HIDE DEF s, r, more, w, p, o
      <3>8. acc[more][<<w, p>>]
        BY <3>7 DEF Judges
      <3>9. QED
        BY <3>8 DEF w, p
    <2>6. IsSchema(s, DOMAIN d)
      BY <1>14, DocumentsAssumption
    <2> HIDE DEF s, filled, more, r
    <2>7. Fits(acc[more], s, v)
      BY <2>1, <2>4, <2>5, <2>6, PlainAdmits
    <2>8. acc[open][<<v, r>>]
      BY <1>3, <1>14, <1>16, <2>7 DEF Judges, s, more
    <2>9. QED
      BY <2>8 DEF r, open, all
  <1>17. QED
    BY <1>15, <1>16

-----------------------------------------------------------------------------
\* What is made is accepted

\* No value has the types of two options of a oneOf.
LEMMA OneType ==
    ASSUME NEW d \in Documents, NEW options, Distinct(d, options), NEW i \in DOMAIN options, NEW j \in DOMAIN options,
           i # j, Decided(d[options[i]]), Decided(d[options[j]]), NEW v,
           HasType(d[options[i]].type, v), HasType(d[options[j]].type, v)
    PROVE  FALSE
PROOF
  <1> DEFINE s == d[options[i]].type
             t == d[options[j]].type
  <1>1. s \in {"object", "array", "string", "boolean", "integer", "number"}
    BY DEF Decided, Distinct
  <1>2. t \in {"object", "array", "string", "boolean", "integer", "number"}
    BY DEF Decided, Distinct
  <1>3. s # t /\ {s, t} # {"integer", "number"}
    BY Zenon DEF Distinct
  <1> HIDE DEF s, t
  <1>4. HasType(s, v) /\ HasType(t, v)
    BY DEF s, t
  <1>5. v.kind = s \/ (s = "number" /\ v.kind = "integer")
    BY <1>1, <1>4 DEF HasType
  <1>6. v.kind = t \/ (t = "number" /\ v.kind = "integer")
    BY <1>2, <1>4 DEF HasType
  <1>7. QED
    BY <1>3, <1>5, <1>6

\* What is made at a place is accepted there, if what is made where the strategy leads is,
\* and of what it merges, what is made of the fields.
LEMMA AcceptedHere ==
    ASSUME AllOfJSON, NEW d \in Documents, Generable(d), NEW strategy \in Strategies,
           NEW made, IsMade(made, strategy), NEW live, NEW acc, Judges(d, strategy, live, acc),
           NEW name \in Reach(d, Root), NEW seen \in SUBSET Reach(d, Root), name \notin seen,
           <<name, seen>> \in live,
           \A ref \in FollowedBy(d[name], strategy) : AcceptedAt(d, made, acc, ref, seen \cup {name}),
           \A r \in ToSet(d[name].allOf) \ (seen \cup {name}) : \A key \in FilledFields(d[r], strategy) :
             AcceptedAt(d, made, acc, d[r].props[key], seen \cup {name} \cup {r})
    PROVE  AcceptedAt(d, made, acc, name, seen)
PROOF
  <1> SUFFICES ASSUME NEW depth \in Nat, depth <= 2 * Cardinality(seen)
               PROVE  acc[seen][<<made[ResolveSchema(d, name, seen)][depth], name>>]
    BY DEF AcceptedAt
  <1> DEFINE R    == Reach(d, Root)
             open == seen \cup {name}
             s    == d[name]
             f    == MadeAt(made, d, open)
             v    == made[ResolveSchema(d, name, seen)][depth]
  <1>1. R \subseteq DOMAIN d /\ \A n \in R : References(d[n]) \subseteq R
    BY RootAssumption, ReachIsClosed
  <1>2. open \in SUBSET R /\ open \in SUBSET DOMAIN d /\ name \in DOMAIN d /\ seen \in SUBSET DOMAIN d
    BY <1>1
  <1>3. IsSchema(s, DOMAIN d) /\ Decided(s) /\ Distinct(d, s.oneOf)
    BY <1>2, DocumentsAssumption DEF Generable
  <1>4. /\ Cardinality(seen) \in Nat /\ Cardinality(open) = Cardinality(seen) + 1
        /\ 2 * Cardinality(seen) <= MaxDepth
    BY NotTooDeep
  <1>5. /\ depth + 1 \in Nat /\ depth + 1 <= 2 * Cardinality(open) /\ ~ (depth > MaxDepth)
        /\ depth + 1 + 1 \in Nat /\ depth + 1 + 1 <= 2 * Cardinality(open)
    <2> HIDE DEF open
    <2> QED
      BY <1>4 DEF MaxDepth
  <1>6. v \in JSONValues /\ v = GenerateFrom(f, s, strategy, depth)
    <2>1. /\ v \in JSONValues
          /\ v = GenerateFrom(made, ResolveSchema(d, name, seen), strategy, depth)
      BY <1>2, MadeIs
    <2>2. GenerateFrom(made, ResolveSchema(d, name, seen), strategy, depth) = GenerateFrom(f, s, strategy, depth)
      BY <1>2, MadeOfSchema
    <2>3. QED
      BY <2>1, <2>2
  <1>7. FollowedBy(s, strategy) \subseteq R
    <2>1. FollowedBy(s, strategy) \subseteq References(s)
      BY DEF FollowedBy, References, Parts, FilledFields
    <2>2. QED
      BY <1>1, <2>1
  <1>8. ASSUME NEW ref \in FollowedBy(s, strategy)
        PROVE  acc[open][<<f[ref][depth + 1], ref>>] /\ acc[open][<<f[ref][depth + 1 + 1], ref>>]
    <2>1. AcceptedAt(d, made, acc, ref, open)
      OBVIOUS
    <2>2. f[ref] = made[ResolveSchema(d, ref, open)]
      BY <1>1, <1>7 DEF MadeAt
    <2> HIDE DEF open, f
    <2>3. QED
      BY <1>5, <2>1, <2>2 DEF AcceptedAt
  <1> DEFINE Pick(options) == options[ChooseOption(options, strategy)]
  <1>9. v = IF s.example # <<>> THEN s.example[1]
            ELSE IF s.enum # <<>> THEN s.enum[1]
            ELSE IF s.oneOf # <<>> THEN f[Pick(s.oneOf)][depth + 1]
            ELSE IF s.anyOf # <<>> THEN f[Pick(s.anyOf)][depth + 1]
            ELSE IF s.allOf # <<>> THEN GenerateAllOf(f, s.allOf, depth + 1)
            ELSE CASE InferredType(s) = "object"  -> GenerateObject(f, s, strategy, depth + 1)
                   [] InferredType(s) = "array"   -> GenerateArray(f, s, strategy, depth + 1)
                   [] InferredType(s) = "integer" -> SomeInteger
                   [] InferredType(s) = "number"  -> SomeNumber
                   [] InferredType(s) = "boolean" -> Scalar("boolean", "true")
                   [] InferredType(s) = "null"    -> Null
                   [] OTHER                       -> SomeString
    <2>1. GenerateFrom(f, s, strategy, depth) =
            IF s.example # <<>> THEN s.example[1]
            ELSE IF s.enum # <<>> THEN s.enum[1]
            ELSE IF s.oneOf # <<>> THEN f[Pick(s.oneOf)][depth + 1]
            ELSE IF s.anyOf # <<>> THEN f[Pick(s.anyOf)][depth + 1]
            ELSE IF s.allOf # <<>> THEN GenerateAllOf(f, s.allOf, depth + 1)
            ELSE CASE InferredType(s) = "object"  -> GenerateObject(f, s, strategy, depth + 1)
                   [] InferredType(s) = "array"   -> GenerateArray(f, s, strategy, depth + 1)
                   [] InferredType(s) = "integer" -> SomeInteger
                   [] InferredType(s) = "number"  -> SomeNumber
                   [] InferredType(s) = "boolean" -> Scalar("boolean", "true")
                   [] InferredType(s) = "null"    -> Null
                   [] OTHER                       -> SomeString
      <3> HIDE DEF f, s
      <3> QED
        BY <1>5, Zenon DEF GenerateFrom
    <2> HIDE DEF f, s, v
    <2>2. QED
      BY <1>6, <2>1
  <1>10. ASSUME NEW options \in Seq(DOMAIN d), options # <<>>
         PROVE  ChooseOption(options, strategy) \in DOMAIN options
    BY <1>10 DEF ChooseOption
  <1>11. s.oneOf \in Seq(DOMAIN d) /\ s.anyOf \in Seq(DOMAIN d) /\ s.allOf \in Seq(DOMAIN d) /\ s.items \in Seq(DOMAIN d)
         /\ s.example \in Seq(JSONValues) /\ s.enum \in Seq(JSONValues)
    BY <1>3 DEF IsSchema
  <1>12. v.elems \in Seq(JSONValues)
    BY <1>6, JSONFields DEF AllOfJSON
  <1>13. /\ \A i \in DOMAIN s.oneOf : s.oneOf[i] \in FollowedBy(s, strategy)
         /\ \A i \in DOMAIN s.anyOf : s.anyOf[i] \in FollowedBy(s, strategy)
         /\ ToSet(s.items) \subseteq FollowedBy(s, strategy)
         /\ \A key \in FilledFields(s, strategy) : s.props[key] \in FollowedBy(s, strategy)
    BY DEF FollowedBy, Composed, ToSet
  <1>14. \A i \in DOMAIN s.allOf : v = GenerateAllOf(f, s.allOf, depth + 1) => acc[open][<<v, s.allOf[i]>>]
    BY <1>6, PartsAccepted
  <1>15. \A ref \in FollowedBy(s, strategy) : <<ref, open>> \in live
    BY <1>2 DEF Judges
  <1>16. \A ref \in ToSet(s.oneOf) : ref \notin open
    BY <1>2 DEF Judges
  <1>17. Fits(acc[open], s, v) => acc[seen][<<v, name>>]
    <2>1. \A w \in JSONValues : Fits(acc[open], s, w) => acc[seen][<<w, name>>]
      BY <1>2 DEF Judges
    <2> HIDE DEF open, f, v, s
    <2>2. QED
      BY <1>6, <2>1
  <1> DEFINE Accepted == acc[seen][<<v, name>>]
             Admitted == Fits(acc[open], s, v)
  <1>23. Admitted => Accepted
    BY <1>17, Zenon
  <1> HIDE DEF open, f, v, Pick, s, R, Accepted
  <1>18. ASSUME s.example # <<>> \/ s.enum # <<>> PROVE Accepted
    <2>1. v \in ToSet(s.example) \cup ToSet(s.enum)
      <3>1. (s.example # <<>> => s.example[1] \in ToSet(s.example)) /\ (s.enum # <<>> => s.enum[1] \in ToSet(s.enum))
        BY <1>11 DEF ToSet
      <3>2. QED
        BY <1>9, <1>18, <3>1
    <2>2. Fits(acc[open], s, v)
      BY <1>3, <2>1, GivenAdmitted DEF AllOfJSON
    <2>3. QED
      BY <1>23, <2>2, Zenon
  <1>19. ASSUME s.example = <<>>, s.enum = <<>>, Composed(s) # {} PROVE Accepted
    <2>1. /\ s.oneOf # <<>> => s.anyOf = <<>> /\ s.allOf = <<>>
          /\ s.anyOf # <<>> => s.allOf = <<>>
      BY <1>3 DEF Decided
    <2>2. ASSUME NEW i \in DOMAIN s.allOf PROVE acc[open][<<v, s.allOf[i]>>]
      <3>1. s.allOf # <<>>
        BY <1>11, NothingThere
      <3>2. v = GenerateAllOf(f, s.allOf, depth + 1)
        BY <1>9, <1>19, <2>1, <3>1
      <3>3. QED
        BY <1>14, <3>2
    <2>3. s.anyOf # <<>> => \E i \in DOMAIN s.anyOf : acc[open][<<v, s.anyOf[i]>>]
      <3> SUFFICES ASSUME s.anyOf # <<>> PROVE \E i \in DOMAIN s.anyOf : acc[open][<<v, s.anyOf[i]>>]
        OBVIOUS
      <3> DEFINE i == ChooseOption(s.anyOf, strategy)
      <3>1. i \in DOMAIN s.anyOf
        BY <1>10, <1>11
      <3>2. v = f[s.anyOf[i]][depth + 1]
        BY <1>9, <1>19, <2>1 DEF Pick
      <3> HIDE DEF i
      <3>3. acc[open][<<v, s.anyOf[i]>>]
        BY <1>8, <1>13, <3>1, <3>2
      <3>4. QED
        BY <3>1, <3>3
    <2>4. s.oneOf # <<>> => \E i \in DOMAIN s.oneOf : /\ acc[open][<<v, s.oneOf[i]>>]
                                                       /\ \A j \in DOMAIN s.oneOf \ {i} : ~ acc[open][<<v, s.oneOf[j]>>]
      <3> SUFFICES ASSUME s.oneOf # <<>>
                   PROVE  \E i \in DOMAIN s.oneOf : /\ acc[open][<<v, s.oneOf[i]>>]
                                                    /\ \A j \in DOMAIN s.oneOf \ {i} : ~ acc[open][<<v, s.oneOf[j]>>]
        OBVIOUS
      <3> DEFINE i == ChooseOption(s.oneOf, strategy)
      <3>1. i \in DOMAIN s.oneOf
        BY <1>10, <1>11
      <3>2. v = f[s.oneOf[i]][depth + 1]
        BY <1>9, <1>19 DEF Pick
      <3> HIDE DEF i
      <3>3. acc[open][<<v, s.oneOf[i]>>]
        BY <1>8, <1>13, <3>1, <3>2
      <3>4. ASSUME NEW k \in DOMAIN s.oneOf, acc[open][<<v, s.oneOf[k]>>]
            PROVE  HasType(d[s.oneOf[k]].type, v) /\ Decided(d[s.oneOf[k]])
        <4> DEFINE q == s.oneOf[k]
        <4>1. q \in DOMAIN d /\ <<q, open>> \in live /\ q \notin open /\ acc[open][<<v, q>>]
          BY <1>11, <1>13, <1>15, <1>16, <3>4 DEF ToSet
        <4> HIDE DEF q
        <4>2. HasType(d[q].type, v)
          BY <1>2, <1>6, <4>1 DEF Judges
        <4>3. Decided(d[q])
          BY <4>1 DEF Generable
        <4>4. QED
          BY <4>2, <4>3 DEF q
      <3>5. ASSUME NEW j \in DOMAIN s.oneOf \ {i}, acc[open][<<v, s.oneOf[j]>>] PROVE FALSE
        <4>1. HasType(d[s.oneOf[i]].type, v) /\ Decided(d[s.oneOf[i]])
          BY <3>1, <3>3, <3>4
        <4>2. HasType(d[s.oneOf[j]].type, v) /\ Decided(d[s.oneOf[j]])
          BY <3>4, <3>5
        <4>3. QED
          BY <1>3, <3>1, <3>5, <4>1, <4>2, OneType
      <3>6. QED
        BY <3>1, <3>3, <3>5
    <2> DEFINE A == acc[open]
    <2> HIDE DEF A
    <2>5. Fits(A, s, v)
      <3>1. /\ \A i \in DOMAIN s.allOf : A[<<v, s.allOf[i]>>]
            /\ s.anyOf # <<>> => \E i \in DOMAIN s.anyOf : A[<<v, s.anyOf[i]>>]
            /\ s.oneOf # <<>> => \E i \in DOMAIN s.oneOf : /\ A[<<v, s.oneOf[i]>>]
                                                           /\ \A j \in DOMAIN s.oneOf \ {i} : ~ A[<<v, s.oneOf[j]>>]
        BY <2>2, <2>3, <2>4 DEF A
      <3>2. QED
        BY <1>3, <1>12, <1>19, <3>1, ComposedAdmits
    <2>6. QED
      BY <1>23, <2>5, Zenon DEF A
  <1>20. ASSUME s.example = <<>>, s.enum = <<>>, Composed(s) = {} PROVE Accepted
    <2>1. s.oneOf = <<>> /\ s.anyOf = <<>> /\ s.allOf = <<>>
      BY <1>3, <1>20, NoOptions
    <2> DEFINE type == InferredType(s)
               A    == acc[open]
    <2>2. v = CASE type = "object"  -> GenerateObject(f, s, strategy, depth + 1)
                [] type = "array"   -> GenerateArray(f, s, strategy, depth + 1)
                [] type = "integer" -> SomeInteger
                [] type = "number"  -> SomeNumber
                [] type = "boolean" -> Scalar("boolean", "true")
                [] type = "null"    -> Null
                [] OTHER            -> SomeString
      BY <1>9, <1>20, <2>1, Zenon
    <2>3. type = IF s.type # "" THEN s.type ELSE IF s.props # <<>> THEN "object"
                 ELSE IF s.items # <<>> THEN "array" ELSE ""
      BY DEF InferredType
    <2>4. s.type \in {"", "object", "array", "string", "boolean", "integer", "number", "null"}
      BY <1>3 DEF Decided
    <2> HIDE DEF type, A
    <2>5. Fits(A, s, v)
      <3>1. CASE type = "object"
        <4>1. v = GenerateObject(f, s, strategy, depth + 1)
          BY <2>2, <3>1
        <4>2. s.type \in {"", "object"}
          BY <2>3, <3>1
        <4>3. \A key \in FilledFields(s, strategy) : A[<<f[s.props[key]][depth + 1 + 1], s.props[key]>>]
          BY <1>8, <1>13 DEF A
        <4> DEFINE n == depth + 1
        <4> HIDE DEF n
        <4>4. \A key \in FilledFields(s, strategy) : A[<<f[s.props[key]][n + 1], s.props[key]>>]
          BY <4>3 DEF n
        <4>5. Fits(A, s, GenerateObject(f, s, strategy, n))
          BY <1>3, <1>20, <4>2, <4>4, ObjectAdmitted
        <4>6. QED
          BY <4>1, <4>5 DEF n
      <3>2. CASE type = "array"
        <4>1. v = GenerateArray(f, s, strategy, depth + 1)
          BY <2>2, <3>2
        <4>2. s.type \in {"", "array"}
          BY <2>3, <3>2
        <4>3. \A ref \in ToSet(s.items) : A[<<f[ref][depth + 1 + 1], ref>>]
          BY <1>8, <1>13 DEF A
        <4> DEFINE n == depth + 1
        <4> HIDE DEF n
        <4>4. \A ref \in ToSet(s.items) : A[<<f[ref][n + 1], ref>>]
          BY <4>3 DEF n
        <4>5. Fits(A, s, GenerateArray(f, s, strategy, n))
          BY <1>3, <1>20, <4>2, <4>4, ArrayAdmitted
        <4>6. QED
          BY <4>1, <4>5 DEF n
      <3>3. CASE type \notin {"object", "array"}
        <4>1. /\ v.kind \notin {"object", "array"}
              /\ \/ s.type \in {"", v.kind}
                 \/ s.type = "number" /\ v.kind = "integer"
          BY <2>2, <2>3, <2>4, <3>3 DEF SomeInteger, SomeNumber, SomeString, Null, Scalar, JSON
        <4>2. QED
          BY <1>3, <1>20, <4>1, PlainAdmits
      <3>4. QED
        BY <3>1, <3>2, <3>3
    <2>6. QED
      BY <1>23, <2>5, Zenon DEF A
  <1>21. Accepted
    BY <1>18, <1>19, <1>20
  <1>22. QED
    BY <1>21 DEF v, Accepted

\* All that is made is accepted.
LEMMA MadeIsAccepted ==
    ASSUME AllOfJSON, NEW d \in Documents, Generable(d), NEW strategy \in Strategies,
           NEW made, IsMade(made, strategy), NEW live, NEW acc, Judges(d, strategy, live, acc),
           <<Root, {}>> \in live
    PROVE  acc[{}][<<made[ResolveSchema(d, Root, {})][0], Root>>]
PROOF
  <1> DEFINE R == Reach(d, Root)
             At(name, seen) == AcceptedAt(d, made, acc, name, seen)
             Placed(name, seen) == name \in R /\ seen \in SUBSET R /\ <<name, seen>> \in live
             Here(name, seen) ==
                 /\ Placed(name, seen) => At(name, seen)
                 /\ Placed(name, seen) /\ name \notin seen =>
                      \A ref \in FollowedBy(d[name], strategy) : At(ref, seen \cup {name})
             Good == {p \in (DOMAIN d) \X SUBSET DOMAIN d : Here(p[1], p[2])}
  <1>1. Root \in R /\ R \subseteq DOMAIN d /\ \A n \in R : References(d[n]) \subseteq R
    BY RootAssumption, ReachIsClosed
  <1>2. GoesUpDocument(d, Good)
    <2> SUFFICES ASSUME NEW name \in DOMAIN d, NEW seen \in SUBSET DOMAIN d,
                        name \notin seen => \A ref \in References(d[name]) : <<ref, seen \cup {name}>> \in Good
                 PROVE  Here(name, seen)
      <3> HIDE DEF Here
      <3> QED
        BY DEF GoesUpDocument
    <2> HIDE DEF R, At
    <2>1. CASE ~ Placed(name, seen)
      BY <2>1
    <2>2. CASE Placed(name, seen) /\ name \in seen
      <3>1. \A v \in JSONValues : acc[seen][<<v, name>>]
        BY <2>2 DEF Judges
      <3>2. \A depth \in Nat : made[ResolveSchema(d, name, seen)][depth] \in JSONValues
        BY MadeIs
      <3>3. At(name, seen)
        BY <3>1, <3>2 DEF At, AcceptedAt
      <3>4. QED
        BY <2>2, <3>3
    <2>3. CASE Placed(name, seen) /\ name \notin seen
      <3> DEFINE open == seen \cup {name}
      <3>1. FollowedBy(d[name], strategy) \subseteq References(d[name]) /\ References(d[name]) \subseteq R
        BY <1>1, <2>3 DEF FollowedBy, References, Parts, FilledFields
      <3>2. \A ref \in FollowedBy(d[name], strategy) : <<ref, open>> \in live
        BY <2>3 DEF Judges
      <3>3. open \in SUBSET R
        BY <2>3
      <3>4. \A ref \in FollowedBy(d[name], strategy) : Here(ref, open) /\ Placed(ref, open)
        <4> HIDE DEF Here
        <4> QED
          BY <2>3, <3>1, <3>2, <3>3
      <3> HIDE DEF Placed, Good, open
      <3>5. \A ref \in FollowedBy(d[name], strategy) : At(ref, open)
        BY <3>4
      <3>6. ASSUME NEW r \in ToSet(d[name].allOf) \ open, NEW key \in FilledFields(d[r], strategy)
            PROVE  At(d[r].props[key], open \cup {r})
        <4>1. r \in FollowedBy(d[name], strategy)
          BY DEF FollowedBy, Composed
        <4>2. d[r].props[key] \in FollowedBy(d[r], strategy)
          BY DEF FollowedBy
        <4>3. \A ref \in FollowedBy(d[r], strategy) : At(ref, open \cup {r})
          BY <3>4, <3>6, <4>1
        <4>4. QED
          BY <4>2, <4>3
      <3>7. At(name, seen)
        <4>1. name \in Reach(d, Root) /\ seen \in SUBSET Reach(d, Root) /\ <<name, seen>> \in live
          BY <2>3 DEF Placed, R
        <4>2. \A ref \in FollowedBy(d[name], strategy) : AcceptedAt(d, made, acc, ref, seen \cup {name})
          BY <3>5 DEF At, open
        <4>3. \A r \in ToSet(d[name].allOf) \ (seen \cup {name}) : \A key \in FilledFields(d[r], strategy) :
                AcceptedAt(d, made, acc, d[r].props[key], seen \cup {name} \cup {r})
          BY <3>6 DEF At, open
        <4>4. AcceptedAt(d, made, acc, name, seen)
          BY <2>3, <4>1, <4>2, <4>3, AcceptedHere
        <4>5. QED
          BY <4>4 DEF At
      <3>8. QED
        BY <3>5, <3>7 DEF open
    <2>4. QED
      BY <2>1, <2>2, <2>3
  <1> HIDE DEF Good
  <1>3. \A name \in DOMAIN d, seen \in SUBSET DOMAIN d : <<name, seen>> \in Good
    BY <1>2, DocumentInduction
  <1>4. Here(Root, {})
    <2> HIDE DEF Here
    <2> QED
      BY <1>1, <1>3 DEF Good
  <1>5. AcceptedAt(d, made, acc, Root, {})
    BY <1>1, <1>4
  <1>6. Cardinality({}) = 0
    BY FS_EmptySet
  <1>7. QED
    BY <1>5, <1>6 DEF AcceptedAt

-----------------------------------------------------------------------------
\* The two judges

\* Where the strategy stays, and where the options of a oneOf are not open.
StaysIn(d, strategy, live) ==
    \A name \in DOMAIN d, seen \in SUBSET DOMAIN d : <<name, seen>> \in live /\ name \notin seen =>
        /\ \A ref \in FollowedBy(d[name], strategy) : <<ref, seen \cup {name}>> \in live
        /\ \A ref \in ToSet(d[name].oneOf) : ref \notin seen \cup {name}

\* The places in front of which only schemas of a higher rank are open.
PlacesBelow(d, rank) == {p \in (DOMAIN d) \X SUBSET DOMAIN d : \A open \in p[2] : rank[p[1]] < rank[open]}

\* The strategy stays there, if it only leads down.
LEMMA StaysBelow ==
    ASSUME NEW d \in Documents, NEW strategy, NEW rank \in [DOMAIN d -> 1..Cardinality(DOMAIN d)],
           \A name \in DOMAIN d : \A ref \in FollowedBy(d[name], strategy) : rank[ref] < rank[name]
    PROVE  /\ StaysIn(d, strategy, PlacesBelow(d, rank))
           /\ \A name \in DOMAIN d, seen \in SUBSET DOMAIN d : <<name, seen>> \in PlacesBelow(d, rank) => name \notin seen
           /\ Root \in DOMAIN d => <<Root, {}>> \in PlacesBelow(d, rank)
PROOF
  <1>1. Cardinality(DOMAIN d) \in Nat
    BY DocumentsAssumption, FS_CardinalityType
  <1>2. \A n \in DOMAIN d : rank[n] \in Int
    BY <1>1
  <1>3. \A name \in DOMAIN d, seen \in SUBSET DOMAIN d :
          <<name, seen>> \in PlacesBelow(d, rank) <=> \A open \in seen : rank[name] < rank[open]
    BY DEF PlacesBelow
  <1>4. ASSUME NEW name \in DOMAIN d, NEW seen \in SUBSET DOMAIN d, <<name, seen>> \in PlacesBelow(d, rank)
        PROVE  name \notin seen
    BY <1>2, <1>3, <1>4
  <1>5. ASSUME NEW name \in DOMAIN d, NEW seen \in SUBSET DOMAIN d, <<name, seen>> \in PlacesBelow(d, rank),
               NEW ref \in FollowedBy(d[name], strategy)
        PROVE  <<ref, seen \cup {name}>> \in PlacesBelow(d, rank)
    <2>1. ref \in DOMAIN d
      <3>1. ref \in References(d[name])
        BY DEF FollowedBy, References, Parts, FilledFields
      <3>2. QED
        BY <3>1, ReferencesAreNames
    <2>2. rank[ref] < rank[name] /\ \A open \in seen : rank[name] < rank[open]
      BY <1>3, <1>5
    <2>3. \A open \in seen \cup {name} : rank[ref] < rank[open]
      BY <1>2, <2>1, <2>2
    <2>4. seen \cup {name} \in SUBSET DOMAIN d
      OBVIOUS
    <2>5. QED
      BY <1>3, <2>1, <2>3, <2>4
  <1>6. ASSUME NEW name \in DOMAIN d, NEW seen \in SUBSET DOMAIN d, <<name, seen>> \in PlacesBelow(d, rank),
               NEW ref \in ToSet(d[name].oneOf)
        PROVE  ref \notin seen \cup {name}
    <2>1. ref \in FollowedBy(d[name], strategy)
      BY DEF FollowedBy, Composed
    <2>2. <<ref, seen \cup {name}>> \in PlacesBelow(d, rank)
      BY <1>5, <1>6, <2>1
    <2>3. ref \in DOMAIN d /\ seen \cup {name} \in SUBSET DOMAIN d
      BY <2>2 DEF PlacesBelow
    <2>4. QED
      BY <1>4, <2>2, <2>3
  <1>7. StaysIn(d, strategy, PlacesBelow(d, rank))
    BY <1>5, <1>6 DEF StaysIn
  <1>8. Root \in DOMAIN d => <<Root, {}>> \in PlacesBelow(d, rank)
    BY <1>3
  <1>9. QED
    BY <1>4, <1>7, <1>8

\* The validator is a judge, who passes whatever he finds no issue with.
PassedAnywhere(d) ==
    [seen \in SUBSET DOMAIN d |-> [p \in JSONValues \X DOMAIN d |-> Issues[ResolveSchema(d, p[2], seen)][p[1]] = {}]]

\* He is one wherever the strategy stays.
LEMMA ValidatorJudges ==
    ASSUME OnlyJSON, NEW d \in Documents, NEW strategy, NEW live, StaysIn(d, strategy, live)
    PROVE  Judges(d, strategy, live, PassedAnywhere(d))
PROOF
  <1> DEFINE acc == PassedAnywhere(d)
  <1>1. ASSUME NEW seen \in SUBSET DOMAIN d, NEW v \in JSONValues, NEW name \in DOMAIN d
        PROVE  acc[seen][<<v, name>>] <=> (Issues[ResolveSchema(d, name, seen)][v] = {})
    BY DEF PassedAnywhere
  <1> HIDE DEF acc
  <1>2. ASSUME NEW name \in DOMAIN d, NEW seen \in SUBSET DOMAIN d, name \notin seen, NEW v \in JSONValues
        PROVE  /\ Fits(acc[seen \cup {name}], d[name], v) => acc[seen][<<v, name>>]
               /\ acc[seen][<<v, name>>] => HasType(d[name].type, v)
    <2> DEFINE f == acc[seen \cup {name}]
    <2>1. SaysWhatPasses(f, d, seen \cup {name})
      BY <1>1 DEF SaysWhatPasses
    <2> HIDE DEF f
    <2>2. (Issues[ResolveSchema(d, name, seen)][v] = {}) <=> PassedBy(f, d[name], v)
      BY <1>2, <2>1, NoIssue
    <2>3. Fits(f, d[name], v) => PassedBy(f, d[name], v)
      BY FitsPass
    <2>4. PassedBy(f, d[name], v) => HasType(d[name].type, v)
      BY DEF PassedBy
    <2>5. QED
      BY <1>1, <2>2, <2>3, <2>4 DEF f
  <1>3. ASSUME NEW name \in DOMAIN d, NEW seen \in SUBSET DOMAIN d, name \in seen, NEW v \in JSONValues
        PROVE  acc[seen][<<v, name>>]
    BY <1>1, <1>3, MarkersPass
  <1>4. ASSUME NEW ref \in DOMAIN d, NEW open1 \in SUBSET DOMAIN d, NEW open2 \in SUBSET DOMAIN d, NEW v \in JSONValues,
               ResolveSchema(d, ref, open1) = ResolveSchema(d, ref, open2), acc[open1][<<v, ref>>]
        PROVE  acc[open2][<<v, ref>>]
    BY <1>1, <1>4
  <1>5. Judges(d, strategy, live, acc)
    BY <1>2, <1>3, <1>4, Zenon DEF Judges, StaysIn
  <1>6. QED
    BY <1>5 DEF acc

\* The document is another one, whatever is open, as long as the strategy does not come
\* back to a schema: he asks for the type even of a null.
AdmittedAnywhere(d, admitted) ==
    [seen \in SUBSET DOMAIN d |->
        [p \in JSONValues \X DOMAIN d |-> admitted[p] /\ HasType(d[p[2]].type, p[1])]]

\* It is one where the strategy stays and nothing is open twice.
LEMMA DocumentJudges ==
    ASSUME OnlyJSON, NEW d \in Documents, Generable(d), Plain(d),
           NEW strategy, NEW admitted, IsAdmitting(admitted, d), NEW live, StaysIn(d, strategy, live),
           \A name \in DOMAIN d, seen \in SUBSET DOMAIN d : <<name, seen>> \in live => name \notin seen
    PROVE  Judges(d, strategy, live, AdmittedAnywhere(d, admitted))
PROOF
  <1> DEFINE acc == AdmittedAnywhere(d, admitted)
  <1>1. \A seen \in SUBSET DOMAIN d, v \in JSONValues, name \in DOMAIN d :
          acc[seen][<<v, name>>] <=> admitted[<<v, name>>] /\ HasType(d[name].type, v)
    BY DEF AdmittedAnywhere
  <1> HIDE DEF acc
  <1>2. ASSUME NEW name \in DOMAIN d, NEW seen \in SUBSET DOMAIN d, name \notin seen, NEW v \in JSONValues
        PROVE  /\ Fits(acc[seen \cup {name}], d[name], v) => acc[seen][<<v, name>>]
               /\ acc[seen][<<v, name>>] => HasType(d[name].type, v)
    <2> DEFINE f == acc[seen \cup {name}]
    <2>1. \A w \in JSONValues, ref \in DOMAIN d :
            f[<<w, ref>>] <=> admitted[<<w, ref>>] /\ HasType(d[ref].type, w)
      <3>1. seen \cup {name} \in SUBSET DOMAIN d
        OBVIOUS
      <3>2. QED
        BY <1>1, <3>1
    <2> HIDE DEF f
    <2>2. Fits(f, d[name], v) => AdmittedBy(admitted, d[name], v)
      BY <2>1, FitsAdmits
    <2>3. admitted[<<v, name>>] = AdmittedBy(admitted, d[name], v)
      BY DEF IsAdmitting
    <2>4. Fits(f, d[name], v) => HasType(d[name].type, v)
      BY FitsPass
    <2>5. acc[seen][<<v, name>>] <=> admitted[<<v, name>>] /\ HasType(d[name].type, v)
      BY <1>1
    <2>6. QED
      BY <2>2, <2>3, <2>4, <2>5 DEF f
  <1>3. ASSUME NEW ref \in DOMAIN d, NEW open1 \in SUBSET DOMAIN d, NEW open2 \in SUBSET DOMAIN d, NEW v \in JSONValues,
               acc[open1][<<v, ref>>]
        PROVE  acc[open2][<<v, ref>>]
    BY <1>1, <1>3
  <1>4. Judges(d, strategy, live, acc)
    BY <1>2, <1>3, Zenon DEF Judges, StaysIn
  <1>5. QED
    BY <1>4 DEF acc

\* What is generated passes ...
LEMMA GeneratedPasses ==
    ASSUME AllOfJSON, NEW d \in Documents, Generable(d), NEW strategy \in Strategies
    PROVE  LET tree == ResolveSchema(d, Root, {}) IN
           Generate(tree, strategy) \in JSONValues /\ Issues[tree][Generate(tree, strategy)] = {}
PROOF
  <1> DEFINE tree == ResolveSchema(d, Root, {})
  <1>1. OnlyJSON /\ Root \in DOMAIN d /\ {} \in SUBSET DOMAIN d
    BY RootAssumption DEF AllOfJSON
  <1>2. PICK made : IsMade(made, strategy) /\ \A t \in SchemaTrees : Generate(t, strategy) = made[t][0]
    BY GenerateIs
  <1>3. tree \in SchemaTrees
    BY RootOfTree
  <1> HIDE DEF tree
  <1>4. Generate(tree, strategy) = made[tree][0] /\ Generate(tree, strategy) \in JSONValues
    BY <1>2, <1>3, GeneratedIsJSON
  <1>5. \E live : StaysIn(d, strategy, live) /\ <<Root, {}>> \in live
    <2>1. CASE \A name \in DOMAIN d : d[name].oneOf = <<>>
      <3> DEFINE live == (DOMAIN d) \X SUBSET DOMAIN d
      <3>1. \A name \in DOMAIN d : ToSet(d[name].oneOf) = {}
        BY <2>1, NothingThere
      <3>2. \A name \in DOMAIN d : FollowedBy(d[name], strategy) \subseteq DOMAIN d
        <4>1. \A name \in DOMAIN d : FollowedBy(d[name], strategy) \subseteq References(d[name])
          BY DEF FollowedBy, References, Parts, FilledFields
        <4>2. QED
          BY <4>1, ReferencesAreNames
      <3>3. StaysIn(d, strategy, live) /\ <<Root, {}>> \in live
        BY <1>1, <3>1, <3>2 DEF StaysIn
      <3>4. QED
        BY <3>3
    <2>2. CASE \E name \in DOMAIN d : d[name].oneOf # <<>>
      <3>1. ~ Recursive(d)
        BY <2>2 DEF Generable
      <3>2. PICK rank \in [DOMAIN d -> 1..Cardinality(DOMAIN d)] :
              \A n \in DOMAIN d : \A ref \in References(d[n]) : rank[ref] < rank[n]
        BY <3>1 DEF Recursive, Acyclic
      <3>3. \A n \in DOMAIN d : \A ref \in FollowedBy(d[n], strategy) : rank[ref] < rank[n]
        <4>1. \A n \in DOMAIN d : FollowedBy(d[n], strategy) \subseteq References(d[n])
          BY DEF FollowedBy, References, Parts, FilledFields
        <4>2. QED
          BY <3>2, <4>1
      <3>4. StaysIn(d, strategy, PlacesBelow(d, rank)) /\ <<Root, {}>> \in PlacesBelow(d, rank)
        BY <1>1, <3>3, StaysBelow
      <3>5. QED
        BY <3>4
    <2>3. QED
      BY <2>1, <2>2
  <1>6. PICK live : StaysIn(d, strategy, live) /\ <<Root, {}>> \in live
    BY <1>5
  <1>7. Judges(d, strategy, live, PassedAnywhere(d))
    BY <1>1, <1>6, ValidatorJudges
  <1>8. PassedAnywhere(d)[{}][<<made[tree][0], Root>>]
    BY <1>2, <1>6, <1>7, MadeIsAccepted DEF tree
  <1>9. PassedAnywhere(d)[{}][<<Generate(tree, strategy), Root>>] = (Issues[tree][Generate(tree, strategy)] = {})
    <2> DEFINE v == Generate(tree, strategy)
    <2>1. v \in JSONValues
      BY <1>4
    <2> HIDE DEF v
    <2>2. PassedAnywhere(d)[{}][<<v, Root>>] = (Issues[ResolveSchema(d, Root, {})][v] = {})
      BY <1>1, <2>1 DEF PassedAnywhere
    <2>3. QED
      BY <2>2 DEF v, tree
  <1>10. QED
    BY <1>4, <1>8, <1>9 DEF tree

\* ... and is admitted.
LEMMA GeneratedIsAdmitted ==
    ASSUME AllOfJSON, NEW d \in Documents, Generable(d), Plain(d), NEW strategy \in Strategies,
           NEW rank \in [DOMAIN d -> 1..Cardinality(DOMAIN d)],
           \A name \in DOMAIN d : \A ref \in FollowedBy(d[name], strategy) : rank[ref] < rank[name]
    PROVE  Admits(d, Root, Generate(ResolveSchema(d, Root, {}), strategy))
PROOF
  <1> DEFINE tree == ResolveSchema(d, Root, {})
  <1>1. OnlyJSON /\ Root \in DOMAIN d /\ {} \in SUBSET DOMAIN d
    BY RootAssumption DEF AllOfJSON
  <1>2. PICK made : IsMade(made, strategy) /\ \A t \in SchemaTrees : Generate(t, strategy) = made[t][0]
    BY GenerateIs
  <1>3. tree \in SchemaTrees
    BY RootOfTree
  <1>4. WellFounded(d)
    <2>1. \A n \in DOMAIN d : \A ref \in Composed(d[n]) : rank[ref] < rank[n]
      BY DEF FollowedBy
    <2>2. QED
      BY <2>1 DEF WellFounded, Acyclic
  <1>5. PICK admitted : IsAdmitting(admitted, d)
    BY <1>1, <1>4, AdmitsIs
  <1> DEFINE live == PlacesBelow(d, rank)
             acc  == AdmittedAnywhere(d, admitted)
             v    == Generate(tree, strategy)
  <1> HIDE DEF tree, live, v
  <1>6. v = made[tree][0] /\ v \in JSONValues
    BY <1>2, <1>3, GeneratedIsJSON DEF v
  <1>7. /\ StaysIn(d, strategy, live) /\ <<Root, {}>> \in live
        /\ \A name \in DOMAIN d, seen \in SUBSET DOMAIN d : <<name, seen>> \in live => name \notin seen
    BY <1>1, StaysBelow DEF live
  <1>8. Judges(d, strategy, live, acc)
    BY <1>1, <1>5, <1>7, DocumentJudges
  <1>9. acc[{}][<<v, Root>>] => admitted[<<v, Root>>]
    BY <1>1, <1>6 DEF AdmittedAnywhere
  <1> HIDE DEF acc
  <1>10. acc[{}][<<made[tree][0], Root>>]
    BY <1>2, <1>7, <1>8, MadeIsAccepted DEF tree
  <1>11. admitted[<<v, Root>>]
    BY <1>6, <1>9, <1>10
  <1>12. Admits(d, Root, v)
    BY <1>1, <1>5, <1>6, <1>11 DEF IsAdmitting
  <1>13. QED
    BY <1>12 DEF v, tree

-----------------------------------------------------------------------------
\* A body generated with either strategy, and left as it is, passes the validation of the
\* request it is meant for, however the document recurs.
THEOREM GeneratedAlwaysPasses == ASSUME AllOfJSON PROVE Spec => []GeneratedBodyPasses
PROOF
  <1>1. Flow => GeneratedBodyPasses
    <2> SUFFICES ASSUME Flow, stage = "judged", Untouched, Generable(doc) PROVE issues = {}
      BY DEF GeneratedBodyPasses
    <2>1. /\ doc \in Documents /\ schema = ResolveSchema(doc, Root, {}) /\ issues = BodyIssues(body, schema)
          /\ asked # <<>> /\ asked[2].fields = <<>>
      BY DEF Flow, Untouched
    <2>2. PICK strategy \in Strategies, overrides \in Overrides :
            asked = <<strategy, overrides>> /\ body = MergeOverrides(Generate(schema, strategy), overrides)
      BY <2>1 DEF Flow
    <2>3. overrides.fields = <<>>
      BY <2>1, <2>2
    <2>4. body = Generate(schema, strategy)
      BY <2>2, <2>3 DEF MergeOverrides
    <2>5. Issues[schema][body] = {}
      BY <2>1, <2>4, GeneratedPasses
    <2>6. QED
      BY <2>1, <2>5 DEF BodyIssues
  <1>2. QED
    BY <1>1, FlowAlways, PTL

\* It is admitted by the document itself, the limits of arrays included, where the strategy
\* does not come back to a schema that is open and the document has no keyword that the
\* generator does not read (Plain).
THEOREM GeneratedIsAlwaysAdmitted == ASSUME AllOfJSON PROVE Spec => []GeneratedBodyIsAdmitted
PROOF
  <1>1. Flow => GeneratedBodyIsAdmitted
    <2> SUFFICES ASSUME Flow, stage = "composed", Untouched, Generable(doc), Plain(doc),
                        Acyclic(doc, Followed)
                 PROVE  Admits(doc, Root, body)
      BY DEF GeneratedBodyIsAdmitted
    <2>1. /\ doc \in Documents /\ schema = ResolveSchema(doc, Root, {})
          /\ asked # <<>> /\ asked[2].fields = <<>>
      BY DEF Flow, Untouched
    <2>2. PICK strategy \in Strategies, overrides \in Overrides :
            asked = <<strategy, overrides>> /\ body = MergeOverrides(Generate(schema, strategy), overrides)
      BY <2>1 DEF Flow
    <2>3. overrides.fields = <<>> /\ asked[1] = strategy
      BY <2>1, <2>2
    <2>4. body = Generate(schema, strategy)
      BY <2>2, <2>3 DEF MergeOverrides
    <2>5. PICK rank \in [DOMAIN doc -> 1..Cardinality(DOMAIN doc)] :
            \A name \in DOMAIN doc : \A ref \in Followed(doc[name]) : rank[ref] < rank[name]
      BY DEF Acyclic
    <2>6. \A name \in DOMAIN doc : Followed(doc[name]) = FollowedBy(doc[name], strategy)
      BY <2>3 DEF Followed, FollowedBy
    <2>7. QED
      BY <2>1, <2>4, <2>5, <2>6, GeneratedIsAdmitted
  <1>2. QED
    BY <1>1, FlowAlways, PTL
=============================================================================
