--------------------------- MODULE ExecuteProofs ---------------------------
(***************************************************************************)
(* Theorems about concurrent executions, for every set of calls, ids and   *)
(* endpoints, every deployment, TTL and bound of the clock.                *)
(***************************************************************************)
EXTENDS Execute, FiniteSetTheorems, TLAPS

\* The theorems about the store, for the store that the calls and tools share.
StoreProofs == INSTANCE ConfirmationProofs

\* The store: a record knows whether it was used and what the human said, an id
\* never drawn has no past, and what was used was approved.
StoreAgrees ==
    /\ \A i \in DOMAIN items : /\ items[i].consumed <=> uses[i] # << >>
                               /\ items[i].approved <=> verdict[i] = "approve"
    /\ \A i \in Id \ DOMAIN issued : uses[i] = << >> /\ verdict[i] = "none"
    /\ \A i \in Id : uses[i] # << >> => verdict[i] = "approve"

StoreInv == Store!TypeOK /\ StoreAgrees

\* What an operation of the store may do to the past: uses are only added, and an
\* id that was used keeps its verdict.
UsesGrow ==
    \A i \in Id : \A k \in DOMAIN uses[i] :
        k \in DOMAIN uses'[i] /\ uses'[i][k] = uses[i][k]

LEMMA CleanedPart ==
    ASSUME Store!TypeOK
    PROVE  /\ Store!Unexpired \subseteq DOMAIN items
           /\ Store!Cleaned \in [Store!Unexpired -> Store!Record]
           /\ \A i \in Store!Unexpired : Store!Cleaned[i] = items[i]
  BY DEF Store!TypeOK, Store!Cleaned, Store!Unexpired

LEMMA LookupOk ==
    ASSUME NEW i, Store!Lookup(i) = "ok"
    PROVE  i \in Store!Unexpired /\ ~items[i].consumed
  BY DEF Store!Lookup, Store!Unexpired

LEMMA RequestKeeps ==
    ASSUME StoreInv, NEW target \in Asked, Store!Request(target)
    PROVE  StoreInv' /\ UNCHANGED uses
PROOF
  <1>1. PICK i \in Id \ DOMAIN issued :
          /\ items' = [j \in Store!Unexpired \cup {i} |->
                         IF j = i THEN [target |-> target, approved |-> FALSE,
                                        consumed |-> FALSE, expiresAt |-> now + TTL]
                         ELSE items[j]]
          /\ issued' = [j \in DOMAIN issued \cup {i} |->
                          IF j = i THEN [target |-> target, at |-> now] ELSE issued[j]]
          /\ UNCHANGED <<now, verdict, uses>>
    BY DEF Store!Request
  <1>2. Store!Unexpired \subseteq DOMAIN items
    BY CleanedPart DEF StoreInv
  <1>3. target \in Store!Target
    BY ExecuteAssumption
  <1>4. Store!TypeOK'
    BY <1>1, <1>2, <1>3, ExecuteAssumption DEF StoreInv, Store!TypeOK, Store!Record
  <1>5. StoreAgrees'
    BY <1>1, <1>2 DEF StoreInv, Store!TypeOK, StoreAgrees
  <1>6. QED
    BY <1>1, <1>4, <1>5 DEF StoreInv

LEMMA PartKeeps ==
    ASSUME StoreInv, NEW S \in SUBSET DOMAIN items,
           items' = [i \in S |-> items[i]], now' \in Nat,
           UNCHANGED <<issued, verdict, uses>>
    PROVE  StoreInv'
  BY DEF StoreInv, StoreAgrees, Store!TypeOK

LEMMA RefusedKeeps ==
    ASSUME StoreInv, Store!Refused
    PROVE  StoreInv' /\ UNCHANGED uses
  BY PartKeeps, CleanedPart DEF StoreInv, Store!Refused, Store!Cleaned, Store!TypeOK

LEMMA ConfirmKeeps ==
    ASSUME StoreInv, NEW i \in Id, NEW approve \in BOOLEAN, Store!Confirm(i, approve)
    PROVE  StoreInv' /\ UNCHANGED uses
PROOF
  <1> DEFINE new == [items[i] EXCEPT !.approved = approve]
  <1>1. i \in Store!Unexpired /\ ~items[i].consumed
    BY LookupOk DEF Store!Confirm
  <1>2. uses[i] = << >> /\ items[i] \in Store!Record
    BY <1>1, CleanedPart DEF StoreInv, StoreAgrees, Store!TypeOK
  <1>3. /\ DOMAIN items' = Store!Unexpired
        /\ Store!Unexpired \subseteq DOMAIN items
        /\ \A j \in Store!Unexpired \ {i} : items'[j] = items[j]
        /\ items'[i] = new
        /\ items' = [j \in Store!Unexpired |-> items'[j]]
    BY <1>1, CleanedPart DEF StoreInv, Store!Confirm, Store!Cleaned
  <1>4. /\ new \in Store!Record
        /\ new.approved <=> approve
        /\ new.consumed <=> items[i].consumed
    BY <1>2 DEF Store!Record
  <1> HIDE DEF new
  <1>5. /\ verdict' \in [Id -> {"none", "approve", "reject"}]
        /\ \A j \in Id \ {i} : verdict'[j] = verdict[j]
        /\ new.approved <=> verdict'[i] = "approve"
    BY <1>4 DEF StoreInv, Store!TypeOK, Store!Confirm, Store!Verdict
  <1>6. Store!TypeOK'
    <2>1. items' \in [DOMAIN items' -> Store!Record]
      BY <1>3, <1>4 DEF StoreInv, Store!TypeOK
    <2>2. QED
      BY <1>3, <1>5, <2>1 DEF StoreInv, Store!TypeOK, Store!Confirm
  <1>7. StoreAgrees'
    <2>1. \A j \in Store!Unexpired \ {i} :
             /\ items'[j].consumed <=> uses[j] # << >>
             /\ items'[j].approved <=> verdict'[j] = "approve"
      BY <1>3, <1>5 DEF StoreInv, Store!TypeOK, StoreAgrees
    <2>2. i \in DOMAIN issued
      BY <1>1, <1>3 DEF StoreInv, Store!TypeOK
    <2>3. UNCHANGED <<issued, uses>>
      BY DEF Store!Confirm
    <2>4. \A j \in DOMAIN items' : /\ items'[j].consumed <=> uses'[j] # << >>
                                   /\ items'[j].approved <=> verdict'[j] = "approve"
      BY <1>1, <1>2, <1>3, <1>4, <1>5, <2>1, <2>3
    <2>5. /\ \A j \in Id \ DOMAIN issued : uses[j] = << >> /\ verdict'[j] = "none"
          /\ \A j \in Id : uses[j] # << >> => verdict'[j] = "approve"
      BY <1>2, <1>5, <2>2 DEF StoreInv, StoreAgrees
    <2>6. QED
      BY <2>3, <2>4, <2>5 DEF StoreAgrees
  <1>8. QED
    BY <1>6, <1>7 DEF StoreInv, Store!Confirm

\* The one operation that adds a use: of an id that had none, and for this check.
LEMMA ConsumeKeeps ==
    ASSUME StoreInv, NEW i \in Id, NEW check \in Store!Check,
           Store!ConsumeApproved(i, check)
    PROVE  /\ StoreInv'
           /\ uses[i] = << >>
           /\ uses'[i] = <<[check |-> check, at |-> now]>>
           /\ \A j \in Id \ {i} : uses'[j] = uses[j]
PROOF
  <1> DEFINE new == [items[i] EXCEPT !.consumed = TRUE]
             use == [check |-> check, at |-> now]
  <1>1. i \in Store!Unexpired /\ ~items[i].consumed /\ items[i].approved
    BY LookupOk DEF Store!ConsumeApproved, Store!ConsumeResult
  <1>2. /\ uses[i] = << >>
        /\ verdict[i] = "approve"
        /\ items[i] \in Store!Record
        /\ i \in DOMAIN issued
    BY <1>1, CleanedPart DEF StoreInv, StoreAgrees, Store!TypeOK
  <1>3. /\ DOMAIN items' = Store!Unexpired
        /\ Store!Unexpired \subseteq DOMAIN items
        /\ \A j \in Store!Unexpired \ {i} : items'[j] = items[j]
        /\ items'[i] = new
        /\ items' = [j \in Store!Unexpired |-> items'[j]]
    BY <1>1, CleanedPart DEF StoreInv, Store!ConsumeApproved, Store!Cleaned
  <1>4. /\ new \in Store!Record
        /\ new.consumed
        /\ new.approved <=> items[i].approved
    BY <1>2 DEF Store!Record
  <1> HIDE DEF new
  <1>5. use \in Store!Use
    BY DEF StoreInv, Store!TypeOK, Store!Use
  <1>6. /\ \A j \in Id \ {i} : uses'[j] = uses[j]
        /\ uses'[i] = Append(<< >>, use)
        /\ DOMAIN uses' = Id
        /\ uses' = [j \in DOMAIN uses' |-> uses'[j]]
    BY <1>2 DEF StoreInv, Store!TypeOK, Store!ConsumeApproved
  <1>7. uses'[i] = <<use>> /\ uses'[i] \in Seq(Store!Use) /\ uses'[i] # << >>
    BY <1>5, <1>6
  <1>8. Store!TypeOK'
    <2>1. items' \in [DOMAIN items' -> Store!Record]
      BY <1>3, <1>4 DEF StoreInv, Store!TypeOK
    <2>2. uses' \in [Id -> Seq(Store!Use)]
      BY <1>6, <1>7 DEF StoreInv, Store!TypeOK
    <2>3. QED
      BY <1>3, <2>1, <2>2 DEF StoreInv, Store!TypeOK, Store!ConsumeApproved
  <1>9. StoreAgrees'
    <2>1. \A j \in Store!Unexpired \ {i} :
             /\ items'[j].consumed <=> uses'[j] # << >>
             /\ items'[j].approved <=> verdict[j] = "approve"
      BY <1>3, <1>6 DEF StoreInv, Store!TypeOK, StoreAgrees
    <2>2. QED
      BY <1>1, <1>2, <1>3, <1>4, <1>6, <1>7, <2>1
         DEF StoreInv, StoreAgrees, Store!ConsumeApproved
  <1>10. QED
    BY <1>2, <1>6, <1>7, <1>8, <1>9 DEF StoreInv

-----------------------------------------------------------------------------
(***************************************************************************)
(* The records of a call.                                                  *)
(***************************************************************************)

Active == {c \in Call : pc[c] \notin {"idle", "done"}}

\* The calls that are counted under an outcome, whether in the audit log yet or not.
Reported(o) == {c \in Call : pc[c] \in {"logging", "returning", "done"} /\ outcome[c] = o}

CallTypes ==
    /\ pc \in [Call -> Stage]
    /\ input \in [Call -> Input]
    /\ outcome \in [Call -> Outcome \cup {"none"}]
    /\ audit \in [Call -> Seq(Outcome)]
    /\ errors \in [ErrorCode -> Nat]
    /\ {total, rateLimited, inflight} \subseteq Nat

\* A call that is counted has an outcome, and what it writes is that.
Logged ==
    \A c \in Call :
        /\ pc[c] = "logging" => outcome[c] \in Outcome
        /\ IF c \in Ended THEN outcome[c] \in Outcome /\ audit[c] = <<outcome[c]>>
                          ELSE audit[c] = << >>

\* The counters are the sizes of sets that are finite though Call may not be.
Counted ==
    /\ \A o \in Outcome : IsFiniteSet(Reported(o))
    /\ \A code \in ErrorCode : errors[code] = Cardinality(Reported(code))
    /\ total = Cardinality(Reported("ok"))
    /\ rateLimited = errors["rate_limited"]
    /\ IsFiniteSet(Active) /\ inflight = Cardinality(Active)

RecordsInv == CallTypes /\ Logged /\ Counted

\* Between the counter and the audit log there are just the calls that log now.
LEMMA ReportedAre ==
    ASSUME CallTypes, Logged, NEW o \in Outcome, IsFiniteSet(Reported(o))
    PROVE  Cardinality(Reported(o)) = Records(o)
PROOF
  <1>1. Reported(o) = Audited(o) \cup Unlogged(o)
    <2>1. \A c \in Call : {audit[c][k] : k \in DOMAIN audit[c]}
                            = IF c \in Ended THEN {outcome[c]} ELSE {}
      <3> SUFFICES ASSUME NEW c \in Call
                   PROVE  {audit[c][k] : k \in DOMAIN audit[c]}
                            = IF c \in Ended THEN {outcome[c]} ELSE {}
        OBVIOUS
      <3>1. CASE c \in Ended
        <4>1. audit[c] = <<outcome[c]>>
          BY <3>1 DEF Logged
        <4>2. QED
          BY <3>1, <4>1
      <3>2. CASE c \notin Ended
        <4>1. audit[c] = << >>
          BY <3>2 DEF Logged
        <4>2. QED
          BY <3>2, <4>1
      <3>3. QED
        BY <3>1, <3>2
    <2>2. QED
      BY <2>1 DEF Reported, Audited, Unlogged, Ended
  <1>2. Audited(o) \cap Unlogged(o) = {}
    <2> SUFFICES ASSUME NEW c \in Audited(o) \cap Unlogged(o)
                 PROVE  FALSE
      OBVIOUS
    <2>1. audit[c] = << >>
      BY DEF Unlogged, Logged, Ended
    <2>2. QED
      BY <2>1 DEF Audited
  <1>3. IsFiniteSet(Audited(o)) /\ IsFiniteSet(Unlogged(o))
    BY <1>1, FS_Subset
  <1>4. /\ Cardinality(Reported(o)) = Cardinality(Audited(o)) + Cardinality(Unlogged(o))
                                        - Cardinality(Audited(o) \cap Unlogged(o))
        /\ Cardinality(Audited(o)) \in Nat /\ Cardinality(Unlogged(o)) \in Nat
    BY <1>1, <1>3, FS_Union, FS_CardinalityType
  <1>5. Cardinality(Audited(o) \cap Unlogged(o)) = 0
    BY <1>2, FS_EmptySet
  <1>6. Cardinality(Reported(o)) = Cardinality(Audited(o)) + Cardinality(Unlogged(o))
    BY <1>4, <1>5
  <1>7. QED
    BY <1>6 DEF Records

LEMMA CountedIsRecordsAgree == RecordsInv => RecordsAgree
PROOF
  <1> SUFFICES ASSUME RecordsInv
               PROVE  RecordsAgree
    OBVIOUS
  <1>1. \A c \in Call : Len(audit[c]) = IF c \in Ended THEN 1 ELSE 0
    <2> SUFFICES ASSUME NEW c \in Call
                 PROVE  Len(audit[c]) = IF c \in Ended THEN 1 ELSE 0
      OBVIOUS
    <2>1. CASE c \in Ended
      <3>1. audit[c] = <<outcome[c]>>
        BY <2>1 DEF RecordsInv, Logged
      <3>2. QED
        BY <2>1, <3>1
    <2>2. CASE c \notin Ended
      <3>1. audit[c] = << >>
        BY <2>2 DEF RecordsInv, Logged
      <3>2. QED
        BY <2>2, <3>1
    <2>3. QED
      BY <2>1, <2>2
  <1>2. \A o \in Outcome : Cardinality(Reported(o)) = Records(o)
    BY ReportedAre DEF RecordsInv, Counted
  <1>3. QED
    BY <1>1, <1>2 DEF RecordsInv, Counted, RecordsAgree, Active, Outcome

\* A step of a call between two stages in which it is active.
LEMMA StaysActive ==
    ASSUME CallTypes, NEW c \in Call, NEW from \in Stage, NEW to \in Stage,
           {from, to} \cap {"idle", "done"} = {}, Goto(c, from, to)
    PROVE  /\ pc' \in [Call -> Stage]
           /\ Active' = Active
           /\ Ended' = IF to = "returning" THEN Ended \cup {c} ELSE Ended \ {c}
           /\ (c \in Ended <=> from = "returning")
  BY DEF CallTypes, Goto, Active, Ended

\* A call whose outcome is counted is one of those of its outcome, and of no other.
LEMMA CountsOne ==
    ASSUME RecordsInv, NEW c \in Call, NEW from \in {"prepare", "dispatch", "upstream"},
           NEW o \in Outcome, Goto(c, from, "logging"),
           outcome' = [outcome EXCEPT ![c] = o], UNCHANGED <<audit, inflight>>
    PROVE  /\ pc' \in [Call -> Stage]
           /\ outcome' \in [Call -> Outcome \cup {"none"}]
           /\ Logged'
           /\ \A p \in Outcome : IsFiniteSet(Reported(p)')
           /\ Cardinality(Reported(o)') = Cardinality(Reported(o)) + 1
           /\ \A p \in Outcome \ {o} : Reported(p)' = Reported(p)
           /\ IsFiniteSet(Active') /\ inflight' = Cardinality(Active')
PROOF
  <1>1. /\ pc' \in [Call -> Stage] /\ Active' = Active /\ Ended' = Ended
        /\ c \notin Ended
    BY StaysActive DEF RecordsInv, Stage
  <1>2. /\ pc[c] = from /\ pc'[c] = "logging" /\ outcome'[c] = o
        /\ \A d \in Call \ {c} : pc'[d] = pc[d] /\ outcome'[d] = outcome[d]
        /\ outcome' \in [Call -> Outcome \cup {"none"}]
    BY DEF RecordsInv, CallTypes, Goto
  <1>3. Logged'
    BY <1>1, <1>2 DEF RecordsInv, Logged
  <1>4. /\ c \notin Reported(o)
        /\ Reported(o)' = Reported(o) \cup {c}
        /\ \A p \in Outcome \ {o} : Reported(p)' = Reported(p)
    BY <1>2 DEF Reported
  <1>5. /\ IsFiniteSet(Reported(o)')
        /\ Cardinality(Reported(o)') = Cardinality(Reported(o)) + 1
    BY <1>4, FS_AddElement DEF RecordsInv, Counted
  <1>6. QED
    BY <1>1, <1>2, <1>3, <1>4, <1>5 DEF RecordsInv, Counted

LEMMA AdvanceRecords ==
    ASSUME RecordsInv, NEW c \in Call,
           NEW from \in {"prepare", "dispatch"}, NEW to \in {"dispatch", "upstream"},
           Advance(c, from, to)
    PROVE  RecordsInv'
PROOF
  <1>1. /\ pc' \in [Call -> Stage] /\ Active' = Active /\ Ended' = Ended
        /\ UNCHANGED <<input, outcome, audit, errors, total, rateLimited>>
        /\ UNCHANGED inflight
    BY StaysActive DEF RecordsInv, Advance, Stage
  <1>2. /\ pc[c] = from /\ pc'[c] = to
        /\ \A d \in Call \ {c} : pc'[d] = pc[d]
    BY DEF RecordsInv, CallTypes, Advance, Goto
  <1>3. \A o \in Outcome : Reported(o)' = Reported(o)
    BY <1>1, <1>2 DEF Reported
  <1>4. Logged'
    BY <1>1, <1>2 DEF RecordsInv, Logged
  <1>5. QED
    BY <1>1, <1>3, <1>4 DEF RecordsInv, CallTypes, Counted, Outcome

LEMMA FailRecords ==
    ASSUME RecordsInv, NEW c \in Call, NEW code \in ErrorCode,
           NEW from \in {"prepare", "dispatch", "upstream"}, fail(c, from, code)
    PROVE  RecordsInv'
PROOF
  <1>1. /\ pc' \in [Call -> Stage]
        /\ outcome' \in [Call -> Outcome \cup {"none"}]
        /\ Logged'
        /\ \A p \in Outcome : IsFiniteSet(Reported(p)')
        /\ Cardinality(Reported(code)') = Cardinality(Reported(code)) + 1
        /\ \A p \in Outcome \ {code} : Reported(p)' = Reported(p)
        /\ IsFiniteSet(Active') /\ inflight' = Cardinality(Active')
    BY CountsOne DEF fail, Outcome
  <1>2. /\ errors' \in [ErrorCode -> Nat]
        /\ errors'[code] = errors[code] + 1
        /\ \A other \in ErrorCode \ {code} : errors'[other] = errors[other]
        /\ rateLimited' = IF code = "rate_limited" THEN rateLimited + 1 ELSE rateLimited
        /\ UNCHANGED <<total, input, audit, inflight>>
    BY DEF RecordsInv, CallTypes, fail, CountError
  <1>3. CallTypes'
    BY <1>1, <1>2 DEF RecordsInv, CallTypes
  <1>4. /\ \A other \in ErrorCode : errors'[other] = Cardinality(Reported(other)')
        /\ total' = Cardinality(Reported("ok")')
    BY <1>1, <1>2 DEF RecordsInv, Counted, Outcome, ErrorCode
  <1>5. rateLimited' = errors'["rate_limited"]
    BY <1>2 DEF RecordsInv, Counted, ErrorCode
  <1>6. QED
    BY <1>1, <1>3, <1>4, <1>5 DEF RecordsInv, Counted

LEMMA SucceedRecords ==
    ASSUME RecordsInv, NEW c \in Call, Succeed(c)
    PROVE  RecordsInv'
PROOF
  <1>1. /\ pc' \in [Call -> Stage]
        /\ outcome' \in [Call -> Outcome \cup {"none"}]
        /\ Logged'
        /\ \A p \in Outcome : IsFiniteSet(Reported(p)')
        /\ Cardinality(Reported("ok")') = Cardinality(Reported("ok")) + 1
        /\ \A p \in Outcome \ {"ok"} : Reported(p)' = Reported(p)
        /\ IsFiniteSet(Active') /\ inflight' = Cardinality(Active')
    BY CountsOne DEF Succeed, Outcome
  <1>2. total' = total + 1 /\ UNCHANGED <<input, audit, errors, rateLimited, inflight>>
    BY DEF Succeed
  <1>3. CallTypes'
    BY <1>1, <1>2 DEF RecordsInv, CallTypes
  <1>4. QED
    BY <1>1, <1>2, <1>3 DEF RecordsInv, Counted, Outcome, ErrorCode

LEMMA LogCallRecords ==
    ASSUME RecordsInv, NEW c \in Call, LogCall(c)
    PROVE  RecordsInv'
PROOF
  <1>1. /\ pc' \in [Call -> Stage] /\ Active' = Active /\ Ended' = Ended \cup {c}
        /\ c \notin Ended
    BY StaysActive DEF RecordsInv, LogCall, Stage
  <1>2. /\ pc[c] = "logging" /\ pc'[c] = "returning"
        /\ \A d \in Call \ {c} : pc'[d] = pc[d]
        /\ UNCHANGED <<input, outcome, errors, total, rateLimited, inflight>>
    BY DEF RecordsInv, CallTypes, LogCall, Goto
  <1>3. outcome[c] \in Outcome /\ audit[c] = << >>
    BY <1>1, <1>2 DEF RecordsInv, Logged
  <1>4. /\ audit'[c] = Append(<< >>, outcome[c])
        /\ \A d \in Call \ {c} : audit'[d] = audit[d]
        /\ audit' = [d \in Call |-> audit'[d]]
    BY <1>3 DEF RecordsInv, CallTypes, LogCall
  <1>5. audit'[c] = <<outcome[c]>> /\ audit'[c] \in Seq(Outcome)
    BY <1>3, <1>4
  <1>6. audit' \in [Call -> Seq(Outcome)]
    BY <1>4, <1>5 DEF RecordsInv, CallTypes
  <1>7. Logged'
    BY <1>1, <1>2, <1>3, <1>4, <1>5 DEF RecordsInv, Logged
  <1>8. \A o \in Outcome : Reported(o)' = Reported(o)
    BY <1>2 DEF Reported
  <1>9. QED
    BY <1>1, <1>2, <1>6, <1>7, <1>8 DEF RecordsInv, CallTypes, Counted, Outcome

LEMMA BeginRecords ==
    ASSUME RecordsInv, NEW c \in Call, NEW in \in Tried, Begin(c, in)
    PROVE  RecordsInv'
PROOF
  <1>1. /\ pc' \in [Call -> Stage]
        /\ c \notin Active /\ Active' = Active \cup {c}
        /\ Ended' = Ended
    BY DEF RecordsInv, CallTypes, Begin, Goto, Stage, Active, Ended
  <1>2. /\ IsFiniteSet(Active')
        /\ Cardinality(Active') = Cardinality(Active) + 1
    BY <1>1, FS_AddElement DEF RecordsInv, Counted
  <1>3. /\ inflight' = inflight + 1
        /\ input' \in [Call -> Input]
        /\ UNCHANGED <<outcome, audit, errors, total, rateLimited>>
    BY ExecuteAssumption DEF RecordsInv, CallTypes, Begin
  <1>4. /\ pc[c] = "idle" /\ pc'[c] = "prepare"
        /\ \A d \in Call \ {c} : pc'[d] = pc[d]
    BY DEF RecordsInv, CallTypes, Begin, Goto
  <1>5. Logged' /\ \A o \in Outcome : Reported(o)' = Reported(o)
    BY <1>1, <1>3, <1>4 DEF RecordsInv, Logged, Reported
  <1>6. QED
    BY <1>1, <1>2, <1>3, <1>5 DEF RecordsInv, CallTypes, Counted, Outcome

LEMMA ReturnRecords ==
    ASSUME RecordsInv, NEW c \in Call, Return(c)
    PROVE  RecordsInv'
PROOF
  <1>1. /\ pc' \in [Call -> Stage]
        /\ c \in Active /\ Active' = Active \ {c}
        /\ Ended' = Ended
    BY DEF RecordsInv, CallTypes, Return, Goto, Stage, Active, Ended
  <1>2. /\ IsFiniteSet(Active')
        /\ Cardinality(Active') = Cardinality(Active) - 1
        /\ Cardinality(Active') \in Nat
    BY <1>1, FS_RemoveElement, FS_CardinalityType DEF RecordsInv, Counted
  <1>3. /\ inflight' = inflight - 1
        /\ UNCHANGED <<input, outcome, audit, errors, total, rateLimited>>
    BY DEF Return
  <1>4. /\ pc[c] = "returning" /\ pc'[c] = "done"
        /\ \A d \in Call \ {c} : pc'[d] = pc[d]
    BY DEF RecordsInv, CallTypes, Return, Goto
  <1>5. Logged' /\ \A o \in Outcome : Reported(o)' = Reported(o)
    BY <1>1, <1>3, <1>4 DEF RecordsInv, Logged, Reported
  <1>6. QED
    BY <1>1, <1>2, <1>3, <1>5 DEF RecordsInv, CallTypes, Counted, Outcome

LEMMA QuietRecords == RecordsInv /\ UNCHANGED callVars => RecordsInv'
PROOF
  <1> SUFFICES ASSUME RecordsInv, UNCHANGED callVars
               PROVE  RecordsInv'
    OBVIOUS
  <1>1. UNCHANGED <<pc, input, outcome, audit, errors, total, rateLimited, inflight>>
    BY DEF callVars
  <1>2. Active' = Active /\ Ended' = Ended /\ \A o \in Outcome : Reported(o)' = Reported(o)
    BY <1>1 DEF Active, Ended, Reported
  <1>3. QED
    BY <1>1, <1>2 DEF RecordsInv, CallTypes, Logged, Counted, Outcome

-----------------------------------------------------------------------------
(***************************************************************************)
(* What entitles a call to send its request.                               *)
(***************************************************************************)

\* The calls that may still send, or have sent.
Cleared == {c \in Call : pc[c] \in {"dispatch", "upstream"} \/ c \in sent}

\* The confirmation of c was used for exactly what c asks for.
Backed(c) ==
    /\ input[c].id \in Id
    /\ \E k \in DOMAIN uses[input[c].id] : uses[input[c].id][k].check = checkOf(c)

Entitled(c) == decisionOn(c) = "allow" \/ (NeedsConfirmation(c) /\ Backed(c))

\* EachWriteHasItsOwnConfirmation, from the moment the confirmation is used.
EntitledInv ==
    /\ \A c \in Call : pc[c] \in {"idle", "prepare"} => c \notin sent
    /\ \A c \in Cleared : Entitled(c)
    /\ \A c, d \in Cleared :
          c # d /\ NeedsConfirmation(c) /\ NeedsConfirmation(d) => input[c].id # input[d].id

IInv == /\ StoreInv
        /\ config \in Config(Op, Method)
        /\ RecordsInv
        /\ sent \subseteq Call
        /\ consumers \subseteq Call
        /\ EntitledInv

\* A use that is in the history stays there, so a call stays entitled.
LEMMA EntitledKept ==
    ASSUME NEW c, Entitled(c), UsesGrow, config' = config, input'[c] = input[c]
    PROVE  Entitled(c)'
  BY DEF Entitled, Backed, UsesGrow, NeedsConfirmation, decisionOn, methodOf, checkOf

\* Steps that clear no call.
LEMMA NobodyCleared ==
    ASSUME EntitledInv, UsesGrow, config' = config,
           Cleared' \subseteq Cleared,
           \A c \in Cleared' : input'[c] = input[c],
           \A c \in Call : pc'[c] \in {"idle", "prepare"} => c \notin sent'
    PROVE  EntitledInv'
PROOF
  <1>1. \A c \in Cleared' : Entitled(c)'
    BY EntitledKept DEF EntitledInv
  <1>2. \A c \in Cleared' : NeedsConfirmation(c)' <=> NeedsConfirmation(c)
    BY DEF NeedsConfirmation, decisionOn, methodOf
  <1>3. QED
    BY <1>1, <1>2 DEF EntitledInv

\* Stages a call goes through without touching the store: who was cleared stays so
\* until it returns, and it sends only when cleared.
LEMMA StepClearsNobody ==
    ASSUME RecordsInv, EntitledInv, NEW c \in Call,
           NEW from \in {"prepare", "dispatch", "upstream", "logging", "returning"},
           NEW to \in {"upstream", "logging", "returning", "done"}, Goto(c, from, to),
           UNCHANGED <<config, input>>, UsesGrow,
           to = "upstream" => from = "dispatch",
           sent' = sent \/ (from = "dispatch" /\ sent' = sent \cup {c})
    PROVE  EntitledInv'
PROOF
  <1>1. pc'[c] = to /\ \A d \in Call \ {c} : pc'[d] = pc[d]
    BY DEF RecordsInv, CallTypes, Goto
  <1>2. pc[c] = from
    BY DEF Goto
  <1>3. Cleared' \subseteq Cleared
    BY <1>1, <1>2 DEF Cleared, EntitledInv
  <1>4. \A d \in Call : pc'[d] \in {"idle", "prepare"} => d \notin sent'
    BY <1>1, <1>2 DEF EntitledInv
  <1>5. QED
    BY <1>3, <1>4, NobodyCleared

\* A call the policy lets through, or whose confirmation was used just now.
LEMMA ClearedNow ==
    ASSUME RecordsInv, EntitledInv, NEW c \in Call, Goto(c, "prepare", "dispatch"),
           UNCHANGED <<config, input, sent>>, UsesGrow,
           Entitled(c)',
           NeedsConfirmation(c) => \A d \in Cleared : NeedsConfirmation(d) => input[d].id # input[c].id
    PROVE  EntitledInv'
PROOF
  <1>1. pc[c] = "prepare" /\ pc'[c] = "dispatch" /\ \A d \in Call \ {c} : pc'[d] = pc[d]
    BY DEF RecordsInv, CallTypes, Goto
  <1>2. Cleared' = Cleared \cup {c}
    BY <1>1 DEF Cleared
  <1>3. \A d \in Cleared' : Entitled(d)'
    BY <1>2, EntitledKept DEF EntitledInv
  <1>4. \A d \in Call : NeedsConfirmation(d)' <=> NeedsConfirmation(d)
    BY DEF NeedsConfirmation, decisionOn, methodOf
  <1>5. \A d \in Call : pc'[d] \in {"idle", "prepare"} => d \notin sent'
    BY <1>1 DEF EntitledInv
  <1>6. \A d, e \in Cleared' :
           d # e /\ NeedsConfirmation(d)' /\ NeedsConfirmation(e)' => input'[d].id # input'[e].id
    <2>1. Cleared \subseteq Call
      BY DEF Cleared
    <2>2. QED
      BY <1>2, <1>4, <2>1 DEF EntitledInv
  <1>7. QED
    BY <1>3, <1>5, <1>6 DEF EntitledInv

-----------------------------------------------------------------------------
(***************************************************************************)
(* The steps of a call, then everything else.                              *)
(***************************************************************************)

LEMMA SameUsesGrow == UNCHANGED uses => UsesGrow
  BY DEF UsesGrow

LEMMA LocalKeepsStore == StoreInv /\ Local => StoreInv'
PROOF
  <1> SUFFICES ASSUME StoreInv, Local
               PROVE  StoreInv'
    OBVIOUS
  <1>1. items' = [i \in DOMAIN items |-> items[i]] /\ now' \in Nat
    BY DEF Local, StoreInv, Store!TypeOK
  <1>2. QED
    BY <1>1, PartKeeps DEF Local

\* Every early return, and what it does to the store.
LEMMA FailIInv ==
    ASSUME IInv, NEW c \in Call, NEW code \in ErrorCode,
           NEW from \in {"prepare", "dispatch", "upstream"}, fail(c, from, code),
           StoreInv', UNCHANGED <<uses, config, sent, consumers>>
    PROVE  IInv'
PROOF
  <1>1. RecordsInv'
    BY FailRecords DEF IInv
  <1>2. EntitledInv'
    BY StepClearsNobody, SameUsesGrow DEF IInv, fail
  <1>3. QED
    BY <1>1, <1>2 DEF IInv

LEMMA LocalFails ==
    ASSUME IInv, NEW c \in Call,
           PrepareFails(c) \/ Denied(c) \/ ConfirmationMissing(c)
             \/ DispatchFails(c) \/ ResponseLost(c)
    PROVE  IInv'
PROOF
  <1>1. PICK from \in {"prepare", "dispatch", "upstream"}, code \in ErrorCode :
          fail(c, from, code) /\ Local
    BY DEF PrepareFails, Denied, ConfirmationMissing, DispatchFails, ResponseLost, ErrorCode
  <1>2. StoreInv' /\ UNCHANGED <<uses, config, sent, consumers>>
    BY <1>1, LocalKeepsStore DEF IInv, Local
  <1>3. QED
    BY <1>1, <1>2, FailIInv

LEMMA RefusedFails ==
    ASSUME IInv, NEW c \in Call, ConfirmationRefused(c)
    PROVE  IInv'
PROOF
  <1>1. Store!Refused /\ fail(c, "prepare", "confirmation_required") /\ UNCHANGED <<config, sent, consumers>>
    BY DEF ConfirmationRefused, Store!ConsumeRefused
  <1>2. StoreInv' /\ UNCHANGED uses
    BY <1>1, RefusedKeeps DEF IInv
  <1>3. QED
    BY <1>1, <1>2, FailIInv DEF ErrorCode

LEMMA AllowedIInv ==
    ASSUME IInv, NEW c \in Call, Allowed(c)
    PROVE  IInv'
PROOF
  <1>1. StoreInv' /\ UNCHANGED <<uses, config, sent, consumers>>
    BY LocalKeepsStore DEF IInv, Allowed, Local
  <1>2. RecordsInv'
    BY AdvanceRecords DEF IInv, Allowed
  <1>3. Goto(c, "prepare", "dispatch") /\ UNCHANGED input /\ decisionOn(c) = "allow"
    BY DEF Allowed, Advance
  <1>4. Entitled(c)' /\ ~NeedsConfirmation(c)
    BY <1>1, <1>3 DEF Entitled, NeedsConfirmation, decisionOn, methodOf
  <1>5. EntitledInv'
    BY <1>1, <1>3, <1>4, SameUsesGrow, ClearedNow DEF IInv
  <1>6. QED
    BY <1>1, <1>2, <1>5 DEF IInv

\* The confirmation used now had no use, so no cleared call rests on its id.
LEMMA ConfirmedIInv ==
    ASSUME IInv, NEW c \in Call, Confirmed(c)
    PROVE  IInv'
PROOF
  <1> DEFINE i == input[c].id
  <1>1. /\ Store!ConsumeApproved(i, checkOf(c))
        /\ NeedsConfirmation(c)
        /\ Goto(c, "prepare", "dispatch")
        /\ UNCHANGED <<input, config, sent>> /\ consumers' = consumers \cup {c}
    BY DEF Confirmed, Advance, NeedsConfirmation
  <1>2. i \in Id /\ checkOf(c) \in Store!Check
    <2>1. input[c] \in Input
      BY DEF IInv, RecordsInv, CallTypes
    <2>2. QED
      BY <2>1 DEF Confirmed, Input, checkOf, methodOf, Store!Check, Method
  <1>3. /\ StoreInv'
        /\ uses[i] = << >>
        /\ uses'[i] = <<[check |-> checkOf(c), at |-> now]>>
        /\ \A j \in Id \ {i} : uses'[j] = uses[j]
    BY <1>1, <1>2, ConsumeKeeps DEF IInv
  <1> HIDE DEF i
  <1>4. UsesGrow
    BY <1>3 DEF UsesGrow
  <1>5. RecordsInv'
    BY AdvanceRecords DEF IInv, Confirmed
  <1>6. Entitled(c)'
    <2>1. input'[c].id = i /\ checkOf(c)' = checkOf(c) /\ NeedsConfirmation(c)'
      BY <1>1 DEF i, checkOf, methodOf, NeedsConfirmation, decisionOn
    <2>2. 1 \in DOMAIN uses'[i] /\ uses'[i][1].check = checkOf(c)
      BY <1>3
    <2>3. QED
      BY <1>2, <2>1, <2>2 DEF Entitled, Backed
  <1>7. \A d \in Cleared : NeedsConfirmation(d) => input[d].id # i
    <2> SUFFICES ASSUME NEW d \in Cleared, NeedsConfirmation(d), input[d].id = i
                 PROVE  FALSE
      OBVIOUS
    <2>1. Backed(d)
      BY DEF IInv, EntitledInv, Entitled, NeedsConfirmation
    <2>2. QED
      BY <1>3, <2>1 DEF Backed
  <1>8. EntitledInv'
    BY <1>1, <1>4, <1>6, <1>7, ClearedNow DEF IInv, i
  <1>9. QED
    BY <1>1, <1>3, <1>5, <1>8 DEF IInv

LEMMA SendIInv ==
    ASSUME IInv, NEW c \in Call, Send(c)
    PROVE  IInv'
PROOF
  <1>1. StoreInv'
    <2>1. items' = [i \in DOMAIN items |-> items[i]] /\ now' \in Nat
      BY DEF IInv, StoreInv, Store!TypeOK, Send
    <2>2. QED
      BY <2>1, PartKeeps DEF IInv, Send
  <1>2. RecordsInv'
    BY AdvanceRecords DEF IInv, Send
  <1>3. EntitledInv'
    BY StepClearsNobody, SameUsesGrow DEF IInv, Send, Advance
  <1>4. QED
    BY <1>1, <1>2, <1>3 DEF IInv, Send

LEMMA EndIInv ==
    ASSUME IInv, NEW c \in Call, Succeed(c) \/ LogCall(c) \/ Return(c)
    PROVE  IInv'
PROOF
  <1>1. StoreInv' /\ UNCHANGED <<uses, config, sent, consumers>>
    BY LocalKeepsStore DEF IInv, Succeed, LogCall, Return, Local
  <1>2. RecordsInv'
    BY SucceedRecords, LogCallRecords, ReturnRecords DEF IInv
  <1>3. EntitledInv'
    BY <1>1, StepClearsNobody, SameUsesGrow DEF IInv, Succeed, LogCall, Return
  <1>4. QED
    BY <1>1, <1>2, <1>3 DEF IInv

LEMMA BeginIInv ==
    ASSUME IInv, NEW c \in Call, NEW in \in Tried, Begin(c, in)
    PROVE  IInv'
PROOF
  <1>1. StoreInv' /\ UNCHANGED <<uses, config, sent, consumers>>
    BY LocalKeepsStore DEF IInv, Begin, Local
  <1>2. RecordsInv'
    BY BeginRecords DEF IInv
  <1>3. /\ pc[c] = "idle" /\ pc'[c] = "prepare"
        /\ \A d \in Call \ {c} : pc'[d] = pc[d] /\ input'[d] = input[d]
    BY DEF IInv, RecordsInv, CallTypes, Begin, Goto
  <1>4. c \notin Cleared /\ Cleared' = Cleared /\ Cleared \subseteq Call
    BY <1>1, <1>3 DEF IInv, EntitledInv, Cleared
  <1>5. \A d \in Call : pc'[d] \in {"idle", "prepare"} => d \notin sent'
    BY <1>1, <1>3 DEF IInv, EntitledInv
  <1>6. EntitledInv'
    BY <1>1, <1>3, <1>4, <1>5, NobodyCleared, SameUsesGrow DEF IInv
  <1>7. QED
    BY <1>1, <1>2, <1>6 DEF IInv

\* The agent, the human and the clock, and a step of nothing: no call moves.
LEMMA OthersIInv ==
    ASSUME IInv, StoreInv', UNCHANGED uses, UNCHANGED config, UNCHANGED callVars
    PROVE  IInv'
PROOF
  <1>1. RecordsInv'
    BY QuietRecords DEF IInv
  <1>2. EntitledInv'
    <2>1. UNCHANGED <<pc, input, sent>>
      BY DEF callVars
    <2>2. Cleared' = Cleared
      BY <2>1 DEF Cleared
    <2>3. QED
      BY <2>1, <2>2, NobodyCleared, SameUsesGrow DEF IInv, EntitledInv
  <1>3. QED
    BY <1>1, <1>2 DEF IInv, callVars

LEMMA StepIInv ==
    ASSUME IInv, NEW c \in Call, Step(c)
    PROVE  IInv'
  BY LocalFails, RefusedFails, AllowedIInv, ConfirmedIInv, SendIInv, EndIInv DEF Step

LEMMA InitIInv == Init => IInv
PROOF
  <1> SUFFICES ASSUME Init
               PROVE  IInv
    OBVIOUS
  <1>1. StoreInv
    BY DEF Init, Store!Init, StoreInv, StoreAgrees, Store!TypeOK
  <1>2. config \in Config(Op, Method)
    BY ExecuteAssumption DEF Init
  <1>3. CallTypes
    <2>1. NoInput \in Input
      BY ExecuteAssumption DEF NoInput, Input
    <2>2. QED
      BY <2>1 DEF Init, CallTypes, Stage
  <1>4. Active = {} /\ Ended = {} /\ \A o \in Outcome : Reported(o) = {}
    BY DEF Init, Active, Ended, Reported
  <1>5. Logged /\ Counted
    BY <1>4, FS_EmptySet DEF Init, Logged, Counted, Outcome, ErrorCode
  <1>6. EntitledInv
    BY DEF Init, EntitledInv, Cleared
  <1>7. QED
    BY <1>1, <1>2, <1>3, <1>5, <1>6 DEF Init, IInv, RecordsInv

LEMMA NextIInv == IInv /\ [Next]_vars => IInv'
PROOF
  <1> SUFFICES ASSUME IInv, [Next]_vars
               PROVE  IInv'
    OBVIOUS
  <1>1. CASE \E c \in Call, in \in Tried : Begin(c, in)
    BY <1>1, BeginIInv
  <1>2. CASE \E c \in Call : Step(c)
    BY <1>2, StepIInv
  <1>3. CASE \E target \in Asked : RequestConfirmation(target)
    BY <1>3, RequestKeeps, OthersIInv DEF IInv, RequestConfirmation, OtherTools, callVars
  <1>4. ASSUME NEW i \in DOMAIN issued, ConfirmTool(i)
        PROVE  IInv'
    <2>1. i \in Id
      BY DEF IInv, StoreInv, Store!TypeOK
    <2>2. StoreInv' /\ UNCHANGED uses
      BY <1>4, <2>1, ConfirmKeeps, RefusedKeeps DEF IInv, ConfirmTool, Store!ConfirmRefused
    <2>3. QED
      BY <1>4, <2>2, OthersIInv DEF ConfirmTool, OtherTools, callVars
  <1>5. CASE Tick
    <2>1. items' = [i \in DOMAIN items |-> items[i]] /\ now' \in Nat
      BY <1>5 DEF Tick, Store!Tick, Store!storeVars, IInv, StoreInv, Store!TypeOK
    <2>2. StoreInv' /\ UNCHANGED uses
      BY <1>5, <2>1, PartKeeps DEF Tick, Store!Tick, Store!storeVars, IInv
    <2>3. QED
      BY <1>5, <2>2, OthersIInv DEF Tick
  <1>6. CASE UNCHANGED vars
    <2>1. items' = [i \in DOMAIN items |-> items[i]] /\ now' \in Nat
      BY <1>6 DEF vars, IInv, StoreInv, Store!TypeOK
    <2>2. StoreInv' /\ UNCHANGED uses
      BY <1>6, <2>1, PartKeeps DEF vars, IInv
    <2>3. QED
      BY <1>6, <2>2, OthersIInv DEF vars, callVars
  <1>7. QED
    BY <1>1, <1>2, <1>3, <1>4, <1>5, <1>6 DEF Next

\* The strengthened invariant holds in every reachable state: the store agrees with its
\* history, the records with the calls, and a call is entitled from its check on.
THEOREM Invariance == SafetySpec => []IInv
  BY InitIInv, NextIInv, PTL DEF SafetySpec

\* The stages, inputs, records and counters of the calls keep their types, next to
\* those of the confirmation store; the gauge of prometheus.go never goes below zero.
THEOREM TypeCorrect == SafetySpec => []TypeOK
  <1>1. IInv => TypeOK
    BY DEF IInv, StoreInv, RecordsInv, CallTypes, Outcome, TypeOK
  <1>2. QED
    BY <1>1, Invariance, PTL

\* Whatever is on the wire was allowed outright or has a used confirmation of its
\* own, for its operation, method and URL.
THEOREM OwnConfirmation == SafetySpec => []EachWriteHasItsOwnConfirmation
  <1>1. IInv => EachWriteHasItsOwnConfirmation
    <2> SUFFICES ASSUME IInv, NEW c \in sent, decisionOn(c) # "allow"
                 PROVE  /\ NeedsConfirmation(c)
                        /\ input[c].id # NoId
                        /\ \E use \in {uses[input[c].id][k] : k \in DOMAIN uses[input[c].id]} :
                              use.check = checkOf(c)
                        /\ \A d \in sent \ {c} : NeedsConfirmation(d) => input[d].id # input[c].id
      BY DEF EachWriteHasItsOwnConfirmation
    <2>1. sent \subseteq Cleared
      BY DEF IInv, Cleared
    <2>2. NeedsConfirmation(c) /\ Backed(c)
      BY <2>1 DEF IInv, EntitledInv, Entitled
    <2>3. \A d \in sent \ {c} : NeedsConfirmation(d) => input[d].id # input[c].id
      BY <2>1, <2>2 DEF IInv, EntitledInv
    <2>4. QED
      BY <2>2, <2>3, ExecuteAssumption DEF Backed
  <1>2. QED
    BY <1>1, Invariance, PTL

-----------------------------------------------------------------------------
(***************************************************************************)
(* What Confirmation says of a store by itself holds of this one.          *)
(***************************************************************************)

\* The operations of both instances are the same.
LEMMA SameOperations ==
    /\ Store!Refused <=> StoreProofs!Refused
    /\ Store!Tick <=> StoreProofs!Tick
    /\ Store!Restart <=> StoreProofs!Restart
    /\ \A target : Store!Request(target) <=> StoreProofs!Request(target)
    /\ \A i : Store!Lookup(i) = StoreProofs!Lookup(i)
    /\ \A i, approve : Store!Confirm(i, approve) <=> StoreProofs!Confirm(i, approve)
    /\ \A i, check : Store!ConsumeResult(i, check) = StoreProofs!ConsumeResult(i, check)
    /\ \A i, check : Store!ConsumeApproved(i, check) <=> StoreProofs!ConsumeApproved(i, check)
PROOF
  <1> USE DEF Store!isExpired, StoreProofs!isExpired, Store!Unexpired, StoreProofs!Unexpired,
              Store!Cleaned, StoreProofs!Cleaned
  <1>1. Store!Refused <=> StoreProofs!Refused
    BY DEF Store!Refused, StoreProofs!Refused
  <1>2. (Store!Tick <=> StoreProofs!Tick) /\ (Store!Restart <=> StoreProofs!Restart)
    BY DEF Store!Tick, StoreProofs!Tick, Store!Restart, StoreProofs!Restart,
       Store!storeVars, StoreProofs!storeVars
  <1>3. \A target : Store!Request(target) <=> StoreProofs!Request(target)
    BY DEF Store!Request, StoreProofs!Request
  <1>4. \A i : Store!Lookup(i) = StoreProofs!Lookup(i)
    BY DEF Store!Lookup, StoreProofs!Lookup
  <1>5. \A i, approve : Store!Confirm(i, approve) <=> StoreProofs!Confirm(i, approve)
    BY <1>4 DEF Store!Confirm, StoreProofs!Confirm, Store!Verdict, StoreProofs!Verdict
  <1>6. \A i, check : Store!ConsumeResult(i, check) = StoreProofs!ConsumeResult(i, check)
    BY <1>4 DEF Store!ConsumeResult, StoreProofs!ConsumeResult, Store!MatchesCheck,
       StoreProofs!MatchesCheck, Store!matches, StoreProofs!matches
  <1>7. \A i, check : Store!ConsumeApproved(i, check) <=> StoreProofs!ConsumeApproved(i, check)
    BY <1>6 DEF Store!ConsumeApproved, StoreProofs!ConsumeApproved
  <1>8. QED
    BY <1>1, <1>2, <1>3, <1>4, <1>5, <1>6, <1>7

\* And so are their steps.
LEMMA SameStore ==
    /\ Store!Init <=> StoreProofs!Init
    /\ [Store!Next]_(Store!vars) <=> [StoreProofs!Next]_(StoreProofs!vars)
PROOF
  <1>1. Store!Init <=> StoreProofs!Init
    BY DEF Store!Init, StoreProofs!Init
  <1>2. Store!Target = StoreProofs!Target /\ Store!Check = StoreProofs!Check
    BY DEF Store!Target, StoreProofs!Target, Store!Check, StoreProofs!Check
  <1>3. Store!vars = StoreProofs!vars /\ Store!vars' = StoreProofs!vars'
    BY DEF Store!vars, StoreProofs!vars
  <1>4. Store!Next <=> StoreProofs!Next
    BY <1>2, SameOperations
       DEF Store!Next, StoreProofs!Next, Store!RequestFails, StoreProofs!RequestFails,
           Store!ConfirmRefused, StoreProofs!ConfirmRefused, Store!ConsumeRefused,
           StoreProofs!ConsumeRefused
  <1>5. QED
    BY <1>1, <1>3, <1>4

\* Whatever the calls and the other tools do, to the store it is an operation that
\* Confirmation knows, with arguments it allows, or nothing.
LEMMA StepOfStore ==
    ASSUME IInv, [Next]_vars
    PROVE  [Store!Next]_(Store!vars)
PROOF
  <1> USE DEF Store!vars
  <1>1. CASE \E c \in Call, in \in Tried : Begin(c, in)
    BY <1>1 DEF Begin, Local
  <1>2. ASSUME NEW c \in Call, Step(c)
        PROVE  [Store!Next]_(Store!vars)
    <2>t. input[c].id \in Id \cup {NoId} /\ checkOf(c) \in Store!Check
      BY DEF IInv, RecordsInv, CallTypes, Input, checkOf, methodOf, Method, Store!Check
    <2>1. CASE ConfirmationRefused(c)
      BY <2>1, <2>t DEF ConfirmationRefused, Store!Next
    <2>2. CASE Confirmed(c)
      BY <2>2, <2>t DEF Confirmed, Store!Next
    <2>3. CASE ~ConfirmationRefused(c) /\ ~Confirmed(c)
      BY <1>2, <2>3 DEF Step, PrepareFails, Allowed, Denied, ConfirmationMissing, DispatchFails,
         Send, ResponseLost, Succeed, LogCall, Return, Local
    <2>4. QED
      BY <2>1, <2>2, <2>3
  <1>3. CASE \E target \in Asked : RequestConfirmation(target)
    BY <1>3, ExecuteAssumption DEF RequestConfirmation, Store!Next
  <1>4. ASSUME NEW i \in DOMAIN issued, ConfirmTool(i)
        PROVE  [Store!Next]_(Store!vars)
    <2>1. i \in Id
      BY DEF IInv, StoreInv, Store!TypeOK
    <2>2. QED
      BY <1>4, <2>1 DEF ConfirmTool, Store!Next
  <1>5. CASE Tick
    BY <1>5 DEF Tick, Store!Next
  <1>6. CASE UNCHANGED vars
    BY <1>6 DEF vars
  <1>7. QED
    BY <1>1, <1>2, <1>3, <1>4, <1>5, <1>6 DEF Next

\* The executions, the two tools and the clock are a client of the store such as
\* Confirmation admits: everything proved of the store by itself holds here.
THEOREM UsesTheStore == SafetySpec => Store!Spec
PROOF
  <1>1. Init => Store!Init
    BY DEF Init
  <1>2. IInv /\ [Next]_vars => [Store!Next]_(Store!vars)
    BY StepOfStore
  <1>3. QED
    BY <1>1, <1>2, Invariance, PTL DEF SafetySpec, Store!Spec

\* The same in terms of the theorems' instance.
LEMMA IsThatStore == SafetySpec => StoreProofs!Spec
PROOF
  <1>1. Init => StoreProofs!Init
    BY SameStore DEF Init
  <1>2. IInv /\ [Next]_vars => [StoreProofs!Next]_(StoreProofs!vars)
    BY StepOfStore, SameStore
  <1>3. QED
    BY <1>1, <1>2, Invariance, PTL DEF SafetySpec, StoreProofs!Spec

\* Every confirmation that the calls use up is covered by what the human said.
LEMMA AlwaysCovered == SafetySpec => []Store!UsesAreCovered
PROOF
  <1>1. Unset \notin Op \cup Method \cup URL /\ TTL \in Nat \ {0} /\ MaxTime \in Nat
    BY ExecuteAssumption
  <1>2. StoreProofs!Spec => []StoreProofs!UsesAreCovered
    BY <1>1, StoreProofs!OneShotConfirmation
  <1>3. StoreProofs!UsesAreCovered <=> Store!UsesAreCovered
    BY DEF StoreProofs!UsesAreCovered, StoreProofs!Covered, StoreProofs!AskedAbout,
       Store!UsesAreCovered, Store!Covered, Store!AskedAbout
  <1>4. QED
    BY <1>2, <1>3, IsThatStore, PTL

\* A write on the wire is one that the human was asked about and approved, within the
\* TTL and once: a rejection comes before the use and prevents it, or is refused.
THEOREM TheHumansWord == SafetySpec => []NoWriteAgainstTheHumansWord
PROOF
  <1>1. IInv /\ Store!UsesAreCovered => NoWriteAgainstTheHumansWord
    <2> SUFFICES ASSUME IInv, Store!UsesAreCovered, NEW c \in sent, NeedsConfirmation(c)
                 PROVE  /\ Store!Covered(input[c].id)
                        /\ Store!AskedAbout(input[c].id, checkOf(c))
      BY DEF NoWriteAgainstTheHumansWord
    <2> DEFINE id == input[c].id
    <2>1. id \in Id /\ \E k \in DOMAIN uses[id] : uses[id][k].check = checkOf(c)
      BY DEF IInv, EntitledInv, Entitled, Cleared, NeedsConfirmation, Backed
    <2>2. uses[id] \in Seq(Store!Use)
      BY <2>1 DEF IInv, StoreInv, Store!TypeOK
    <2>3. uses[id] # << >>
      BY <2>1
    <2>4. Store!Covered(id)
      BY <2>1, <2>3 DEF Store!UsesAreCovered
    <2>5. uses[id][1].check = checkOf(c)
      BY <2>1, <2>2, <2>4 DEF Store!Covered
    <2>6. QED
      BY <2>4, <2>5 DEF Store!Covered
  <1>2. QED
    BY <1>1, Invariance, AlwaysCovered, PTL

\* Under concurrent executions, too, confirmations are one-shot permits.
THEOREM ImplementsPermits == SafetySpec => Store!ImplementsPermit
PROOF
  <1>1. Unset \notin Op \cup Method \cup URL /\ TTL \in Nat \ {0} /\ MaxTime \in Nat
    BY ExecuteAssumption
  <1>2. StoreProofs!Spec => StoreProofs!ImplementsPermit
    BY <1>1, StoreProofs!Implementation
  <1>3. \A i : StoreProofs!PermitStatus(i) = Store!PermitStatus(i)
    BY DEF StoreProofs!PermitStatus, Store!PermitStatus, StoreProofs!isExpired, Store!isExpired
  <1>4. (\A i : StoreProofs!PermitStatus(i) = Store!PermitStatus(i))'
    BY DEF StoreProofs!PermitStatus, Store!PermitStatus, StoreProofs!isExpired, Store!isExpired
  <1>5. StoreProofs!Permits!Init <=> Store!Permits!Init
    BY <1>3 DEF StoreProofs!Permits!Init, Store!Permits!Init
  <1>6. StoreProofs!Permits!Next <=> Store!Permits!Next
    BY <1>3, <1>4 DEF StoreProofs!Permits!Next, Store!Permits!Next,
       StoreProofs!Permits!Issue, Store!Permits!Issue, StoreProofs!Permits!Use,
       Store!Permits!Use, StoreProofs!Permits!Decide, Store!Permits!Decide,
       StoreProofs!Permits!Void, Store!Permits!Void, StoreProofs!Permits!Open,
       Store!Permits!Open
  <1>7. /\ StoreProofs!Permits!vars = Store!Permits!vars
        /\ StoreProofs!Permits!vars' = Store!Permits!vars'
    BY <1>3, <1>4 DEF StoreProofs!Permits!vars, Store!Permits!vars
  <1>8. [StoreProofs!Permits!Next]_(StoreProofs!Permits!vars)
          => [Store!Permits!Next]_(Store!Permits!vars)
    BY <1>6, <1>7
  <1>9. QED
    BY <1>2, <1>5, <1>8, IsThatStore, PTL
       DEF StoreProofs!ImplementsPermit, Store!ImplementsPermit,
           StoreProofs!Permits!Spec, Store!Permits!Spec

\* The audit log, the counters by code and the gauge agree on every call, however
\* the calls overlap and wherever they fail.
THEOREM RecordsAgreeAlways == SafetySpec => []RecordsAgree
  <1>1. IInv => RecordsAgree
    BY CountedIsRecordsAgree DEF IInv
  <1>2. QED
    BY <1>1, Invariance, PTL
=============================================================================
