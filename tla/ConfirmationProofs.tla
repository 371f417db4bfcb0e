------------------------- MODULE ConfirmationProofs -------------------------
(***************************************************************************)
(* Theorems about the confirmation store, for every set of ids, target and *)
(* check, every TTL and every bound of the clock.                          *)
(***************************************************************************)
EXTENDS Confirmation, TLAPS

\* What ties the map to the history: a record says what was asked under its id,
\* until when, the last accepted verdict, and whether it was used.
Agrees(i) ==
    /\ items[i].target = issued[i].target
    /\ items[i].expiresAt = issued[i].at + TTL
    /\ items[i].consumed <=> uses[i] # << >>
    /\ items[i].approved <=> verdict[i] = "approve"

StoreAgrees ==
    /\ \A i \in DOMAIN items : Agrees(i)
    /\ \A i \in Id \ DOMAIN issued : uses[i] = << >> /\ verdict[i] = "none"

IInv == TypeOK /\ StoreAgrees /\ UsesAreCovered

\* Cleaning up keeps a well-typed part of the map.
LEMMA CleanedPart ==
    ASSUME TypeOK
    PROVE  /\ Unexpired \subseteq DOMAIN items
           /\ Cleaned \in [Unexpired -> Record]
           /\ \A i \in Unexpired : Cleaned[i] = items[i]
  BY DEF TypeOK, Cleaned, Unexpired

\* An accepted lookup found a record that is alive and unused.
LEMMA LookupOk ==
    ASSUME NEW i, Lookup(i) = "ok"
    PROVE  i \in Unexpired /\ ~items[i].consumed
  BY DEF Lookup, Unexpired

\* A target that matches was about this very call: its operation is never unset.
LEMMA AskedIsWhatMatches ==
    ASSUME NEW target \in Target, NEW check \in Check, MatchesCheck(target, check)
    PROVE  /\ check.op = target.op
           /\ target.method \in {check.method, Unset}
           /\ target.url \in {check.url, Unset}
  BY ConfirmationAssumption DEF Target, MatchesCheck, matches

\* The two fields an operation overwrites, and the two it never touches.
LEMMA MarkConsumed ==
    ASSUME NEW r \in Record
    PROVE  /\ [r EXCEPT !.consumed = TRUE] \in Record
           /\ [r EXCEPT !.consumed = TRUE].consumed
           /\ ([r EXCEPT !.consumed = TRUE].approved <=> r.approved)
           /\ [r EXCEPT !.consumed = TRUE].target = r.target
           /\ [r EXCEPT !.consumed = TRUE].expiresAt = r.expiresAt
  BY DEF Record

LEMMA MarkApproved ==
    ASSUME NEW r \in Record, NEW approve \in BOOLEAN
    PROVE  /\ [r EXCEPT !.approved = approve] \in Record
           /\ ([r EXCEPT !.approved = approve].approved <=> approve)
           /\ ([r EXCEPT !.approved = approve].consumed <=> r.consumed)
           /\ [r EXCEPT !.approved = approve].target = r.target
           /\ [r EXCEPT !.approved = approve].expiresAt = r.expiresAt
  BY DEF Record

LEMMA InitIInv == Init => IInv
  BY ConfirmationAssumption
     DEF Init, IInv, TypeOK, StoreAgrees, Agrees, UsesAreCovered

LEMMA RequestIInv ==
    ASSUME IInv, NEW target \in Target, Request(target)
    PROVE  IInv'
PROOF
  <1>1. PICK i \in Id \ DOMAIN issued :
          /\ items' = [j \in Unexpired \cup {i} |->
                         IF j = i THEN [target |-> target, approved |-> FALSE,
                                        consumed |-> FALSE, expiresAt |-> now + TTL]
                         ELSE items[j]]
          /\ issued' = [j \in DOMAIN issued \cup {i} |->
                          IF j = i THEN [target |-> target, at |-> now] ELSE issued[j]]
          /\ UNCHANGED <<now, verdict, uses>>
    BY DEF Request
  <1>2. Unexpired \subseteq DOMAIN items
    BY CleanedPart DEF IInv
  <1>3. TypeOK'
    BY <1>1, <1>2, ConfirmationAssumption DEF IInv, TypeOK, Record
  <1>4. StoreAgrees'
    BY <1>1, <1>2, ConfirmationAssumption DEF IInv, TypeOK, StoreAgrees, Agrees, Record
  <1>5. UsesAreCovered'
    <2> SUFFICES ASSUME NEW k \in Id, uses[k] # << >>
                 PROVE  Covered(k)'
      BY <1>1 DEF UsesAreCovered
    <2>1. Covered(k) /\ k \in DOMAIN issued
      BY DEF IInv, UsesAreCovered, Covered
    <2>2. issued'[k] = issued[k] /\ k \in DOMAIN issued'
      BY <1>1, <2>1
    <2>3. QED
      BY <1>1, <2>1, <2>2 DEF Covered, AskedAbout
  <1>6. QED
    BY <1>3, <1>4, <1>5 DEF IInv

\* What an operation leaves behind by cleaning up alone keeps the invariant.
LEMMA CleanedIInv ==
    ASSUME IInv, NEW S \in SUBSET DOMAIN items,
           items' = [i \in S |-> items[i]], now' \in Nat,
           UNCHANGED <<issued, verdict, uses>>
    PROVE  IInv'
PROOF
  <1>1. TypeOK'
    BY DEF IInv, TypeOK
  <1>2. StoreAgrees'
    BY DEF IInv, StoreAgrees, Agrees
  <1>3. UsesAreCovered'
    BY DEF IInv, UsesAreCovered, Covered, AskedAbout
  <1>4. QED
    BY <1>1, <1>2, <1>3 DEF IInv

LEMMA RefusedIInv == IInv /\ Refused => IInv'
  BY CleanedIInv, CleanedPart DEF IInv, Refused, Cleaned, TypeOK

LEMMA ConfirmIInv ==
    ASSUME IInv, NEW i \in Id, NEW approve \in BOOLEAN, Confirm(i, approve)
    PROVE  IInv'
PROOF
  <1> DEFINE new == [items[i] EXCEPT !.approved = approve]
  <1>1. i \in Unexpired /\ ~items[i].consumed
    BY LookupOk DEF Confirm
  <1>2. uses[i] = << >>
    BY <1>1, CleanedPart DEF IInv, StoreAgrees, Agrees
  <1>3. /\ DOMAIN items' = Unexpired
        /\ Unexpired \subseteq DOMAIN items
        /\ \A j \in Unexpired \ {i} : items'[j] = items[j]
        /\ items'[i] = new
        /\ items' = [j \in Unexpired |-> items'[j]]
    BY <1>1, CleanedPart DEF IInv, Confirm, Cleaned
  <1>4. /\ new \in Record
        /\ new.approved <=> approve
        /\ new.consumed <=> items[i].consumed
        /\ new.target = items[i].target
        /\ new.expiresAt = items[i].expiresAt
    <2>1. items[i] \in Record
      BY <1>1, CleanedPart DEF IInv, TypeOK
    <2>2. QED
      BY <2>1, MarkApproved
  <1> HIDE DEF new
  <1>5. TypeOK'
    <2>1. items' \in [DOMAIN items' -> Record]
      BY <1>3, <1>4 DEF IInv, TypeOK
    <2>2. QED
      BY <1>3, <2>1 DEF IInv, TypeOK, Confirm, Verdict
  <1>6. StoreAgrees'
    <2>1. \A j \in Id \ {i} : verdict'[j] = verdict[j]
      BY DEF IInv, TypeOK, Confirm
    <2>2. new.approved <=> verdict'[i] = "approve"
      BY <1>4 DEF IInv, TypeOK, Confirm, Verdict
    <2>3. Agrees(i)'
      BY <1>1, <1>2, <1>3, <1>4, <2>2, CleanedPart
         DEF IInv, StoreAgrees, Agrees, Confirm
    <2>4. \A j \in Unexpired \ {i} : Agrees(j)'
      BY <1>3, <2>1 DEF IInv, TypeOK, StoreAgrees, Agrees, Confirm
    <2>5. QED
      BY <1>1, <1>3, <2>1, <2>3, <2>4 DEF IInv, TypeOK, StoreAgrees, Confirm
  <1>7. UsesAreCovered'
    BY <1>2 DEF IInv, TypeOK, UsesAreCovered, Covered, Confirm, AskedAbout
  <1>8. QED
    BY <1>5, <1>6, <1>7 DEF IInv

LEMMA ConsumeIInv ==
    ASSUME IInv, NEW i \in Id, NEW check \in Check, ConsumeApproved(i, check)
    PROVE  IInv'
PROOF
  <1> DEFINE new == [items[i] EXCEPT !.consumed = TRUE]
  <1>1. /\ i \in Unexpired /\ ~items[i].consumed
        /\ items[i].approved
        /\ MatchesCheck(items[i].target, check)
    BY LookupOk DEF ConsumeApproved, ConsumeResult
  <1>2. /\ uses[i] = << >>
        /\ i \in DOMAIN issued
        /\ items[i].target = issued[i].target
        /\ verdict[i] = "approve"
        /\ now < issued[i].at + TTL
    BY <1>1, CleanedPart, ConfirmationAssumption
       DEF IInv, TypeOK, StoreAgrees, Agrees, Unexpired, isExpired, Record
  <1>3. /\ DOMAIN items' = Unexpired
        /\ Unexpired \subseteq DOMAIN items
        /\ \A j \in Unexpired \ {i} : items'[j] = items[j]
        /\ items'[i] = new
        /\ items' = [j \in Unexpired |-> items'[j]]
        /\ new \in Record
        /\ new.consumed
        /\ new.approved <=> items[i].approved
        /\ new.target = items[i].target
        /\ new.expiresAt = items[i].expiresAt
    <2>1. items[i] \in Record
      BY <1>1, CleanedPart DEF IInv, TypeOK
    <2>2. QED
      BY <1>1, <2>1, CleanedPart, MarkConsumed DEF IInv, ConsumeApproved, Cleaned
  <1> HIDE DEF new
  <1>4. /\ \A j \in Id \ {i} : uses'[j] = uses[j]
        /\ uses'[i] = Append(<< >>, [check |-> check, at |-> now])
        /\ DOMAIN uses' = Id
        /\ uses' = [j \in DOMAIN uses' |-> uses'[j]]
    BY <1>2 DEF IInv, TypeOK, ConsumeApproved
  <1>5. [check |-> check, at |-> now] \in Use
    BY DEF IInv, TypeOK, Use
  <1>6. /\ uses'[i] \in Seq(Use)
        /\ uses'[i] # << >>
        /\ Len(uses'[i]) = 1
        /\ uses'[i][1] = [check |-> check, at |-> now]
    BY <1>4, <1>5
  <1>7. TypeOK'
    <2>1. items' \in [DOMAIN items' -> Record]
      BY <1>3 DEF IInv, TypeOK
    <2>2. uses' \in [Id -> Seq(Use)]
      BY <1>4, <1>6 DEF IInv, TypeOK
    <2>3. QED
      BY <1>3, <2>1, <2>2 DEF IInv, TypeOK, ConsumeApproved
  <1>8. StoreAgrees'
    <2>1. Agrees(i)'
      BY <1>1, <1>2, <1>3, <1>6, ConfirmationAssumption
         DEF IInv, StoreAgrees, Agrees, ConsumeApproved
    <2>2. \A j \in Unexpired \ {i} : Agrees(j)'
      BY <1>3, <1>4 DEF IInv, TypeOK, StoreAgrees, Agrees, ConsumeApproved
    <2>3. QED
      BY <1>2, <1>3, <1>4, <2>1, <2>2 DEF IInv, TypeOK, StoreAgrees, ConsumeApproved
  <1>9. UsesAreCovered'
    <2> SUFFICES ASSUME NEW k \in Id, uses'[k] # << >>
                 PROVE  Covered(k)'
      BY DEF UsesAreCovered
    <2>1. CASE k = i
      <3>1. /\ check.op = issued[i].target.op
            /\ issued[i].target.method \in {check.method, Unset}
            /\ issued[i].target.url \in {check.url, Unset}
        BY <1>1, <1>2, AskedIsWhatMatches DEF IInv, TypeOK
      <3>2. QED
        BY <1>2, <1>6, <2>1, <3>1 DEF ConsumeApproved, Covered, AskedAbout
    <2>2. CASE k # i
      BY <1>4, <2>2
         DEF IInv, UsesAreCovered, ConsumeApproved, Covered, AskedAbout
    <2>3. QED
      BY <2>1, <2>2
  <1>10. QED
    BY <1>7, <1>8, <1>9 DEF IInv

LEMMA NextIInv == IInv /\ [Next]_vars => IInv'
PROOF
  <1> SUFFICES ASSUME IInv, [Next]_vars
               PROVE  IInv'
    OBVIOUS
  <1>1. CASE \E target \in Target : Request(target)
    BY <1>1, RequestIInv
  <1>2. CASE Refused
    BY <1>2, RefusedIInv
  <1>3. CASE \E i \in Id, approve \in BOOLEAN : Confirm(i, approve)
    BY <1>3, ConfirmIInv
  <1>4. CASE \E i \in Id, check \in Check : ConsumeApproved(i, check)
    BY <1>4, ConsumeIInv
  <1>5. CASE Tick
    <2>1. items' = [i \in DOMAIN items |-> items[i]] /\ now' \in Nat
      BY <1>5 DEF Tick, storeVars, IInv, TypeOK
    <2>2. QED
      BY <1>5, <2>1, CleanedIInv DEF Tick, storeVars
  <1>6. CASE Restart
    <2>1. items' = [i \in {} |-> items[i]]
      BY <1>6 DEF Restart
    <2>2. QED
      BY <1>6, <2>1, CleanedIInv DEF Restart, IInv, TypeOK
  <1>7. CASE UNCHANGED vars
    <2>1. items' = [i \in DOMAIN items |-> items[i]] /\ now' \in Nat
      BY <1>7 DEF vars, IInv, TypeOK
    <2>2. QED
      BY <1>7, <2>1, CleanedIInv DEF vars
  <1>8. QED
    BY <1>1, <1>2, <1>3, <1>4, <1>5, <1>6, <1>7
       DEF Next, RequestFails, ConfirmRefused, ConsumeRefused

\* The strengthened invariant holds in every reachable state of the store.
THEOREM Invariance == Spec => []IInv
  <1>1. QED
    BY InitIInv, NextIInv, PTL DEF Spec

\* The map, the clock and the history keep their types: no operation of the
\* store leaves a record for an id that was never issued.
THEOREM TypeCorrect == Spec => []TypeOK
  BY Invariance, PTL DEF IInv

\* A confirmation is consumed at most once, in time, by a matching call and with
\* the human's last accepted verdict an approval, across expiry and restarts.
THEOREM OneShotConfirmation == Spec => []UsesAreCovered
  BY Invariance, PTL DEF IInv

-----------------------------------------------------------------------------
(***************************************************************************)
(* The store implements Permit.                                            *)
(***************************************************************************)

\* Cleaning up is invisible to the holder of a permit.
LEMMA StatusKept ==
    ASSUME NEW j \in Id,
           j \in DOMAIN issued' <=> j \in DOMAIN issued,
           uses'[j] = uses[j], now' = now,
           j \in DOMAIN items' <=> j \in Unexpired,
           j \in Unexpired => /\ items'[j].expiresAt = items[j].expiresAt
                              /\ items'[j].approved <=> items[j].approved
    PROVE  PermitStatus(j)' = PermitStatus(j)
  BY DEF PermitStatus, Unexpired, isExpired

\* A permit the store finds is open, and approved exactly if its record is.
LEMMA StatusOfLive ==
    ASSUME IInv, NEW i \in Id, i \in Unexpired, ~items[i].consumed
    PROVE  /\ PermitStatus(i) \in {"pending", "approved"}
           /\ items[i].approved => PermitStatus(i) = "approved"
  BY DEF IInv, TypeOK, StoreAgrees, Agrees, PermitStatus, Unexpired

LEMMA InitImplements == Init => Permits!Init
  BY DEF Init, Permits!Init, PermitStatus

LEMMA RefusedImplements ==
    ASSUME IInv, Refused
    PROVE  UNCHANGED Permits!vars
PROOF
  <1>1. \A j \in Id : PermitStatus(j)' = PermitStatus(j)
    BY StatusKept DEF Refused, Cleaned
  <1>2. QED
    BY <1>1 DEF Permits!vars, Refused

LEMMA RequestImplements ==
    ASSUME IInv, NEW target \in Target, Request(target)
    PROVE  Permits!Next
PROOF
  <1>1. PICK i \in Id \ DOMAIN issued :
          /\ items' = [j \in Unexpired \cup {i} |->
                         IF j = i THEN [target |-> target, approved |-> FALSE,
                                        consumed |-> FALSE, expiresAt |-> now + TTL]
                         ELSE items[j]]
          /\ issued' = [j \in DOMAIN issued \cup {i} |->
                          IF j = i THEN [target |-> target, at |-> now] ELSE issued[j]]
          /\ UNCHANGED <<now, verdict, uses>>
    BY DEF Request
  <1>2. PermitStatus(i) = "unissued"
    BY DEF PermitStatus
  <1>3. PermitStatus(i)' = "pending"
    BY <1>1, ConfirmationAssumption
       DEF IInv, TypeOK, StoreAgrees, PermitStatus, isExpired
  <1>4. \A j \in Id \ {i} : PermitStatus(j)' = PermitStatus(j)
    BY <1>1, StatusKept
  <1>5. Permits!Issue(i)
    BY <1>1, <1>2, <1>3, <1>4 DEF Permits!Issue
  <1>6. QED
    BY <1>5 DEF Permits!Next

LEMMA ConfirmImplements ==
    ASSUME IInv, NEW i \in Id, NEW approve \in BOOLEAN, Confirm(i, approve)
    PROVE  Permits!Next
PROOF
  <1>1. i \in Unexpired /\ ~items[i].consumed
    BY LookupOk DEF Confirm
  <1>2. PermitStatus(i) \in {"pending", "approved"}
    BY <1>1, StatusOfLive
  <1>3. /\ DOMAIN items' = Unexpired
        /\ \A j \in Unexpired \ {i} : items'[j] = items[j]
        /\ items'[i] = [items[i] EXCEPT !.approved = approve]
        /\ items[i] \in Record
    BY <1>1, CleanedPart DEF IInv, TypeOK, Confirm, Cleaned
  <1>4. \A j \in Id \ {i} : PermitStatus(j)' = PermitStatus(j)
    BY <1>3, StatusKept DEF Confirm
  <1>5. PermitStatus(i)' = IF approve THEN "approved" ELSE "pending"
    <2>1. /\ items'[i].approved <=> approve
          /\ items'[i].expiresAt = items[i].expiresAt
      BY <1>3, MarkApproved
    <2>2. i \in DOMAIN issued /\ uses[i] = << >>
      BY <1>1, CleanedPart DEF IInv, TypeOK, StoreAgrees, Agrees
    <2>3. QED
      BY <1>1, <1>3, <2>1, <2>2 DEF Confirm, PermitStatus, Unexpired, isExpired
  <1>6. Permits!Decide(i, approve)
    BY <1>2, <1>4, <1>5 DEF Permits!Decide, Permits!Open, Confirm
  <1>7. QED
    BY <1>6 DEF Permits!Next

LEMMA ConsumeImplements ==
    ASSUME IInv, NEW i \in Id, NEW check \in Check, ConsumeApproved(i, check)
    PROVE  Permits!Next
PROOF
  <1>1. i \in Unexpired /\ ~items[i].consumed /\ items[i].approved
    BY LookupOk DEF ConsumeApproved, ConsumeResult
  <1>2. PermitStatus(i) = "approved"
    BY <1>1, StatusOfLive
  <1>3. /\ DOMAIN items' = Unexpired
        /\ \A j \in Unexpired \ {i} : items'[j] = items[j]
    BY <1>1, CleanedPart DEF IInv, ConsumeApproved, Cleaned
  <1>4. /\ \A j \in Id \ {i} : uses'[j] = uses[j]
        /\ uses'[i] = Append(uses[i], [check |-> check, at |-> now])
        /\ uses[i] \in Seq(Use)
    BY DEF IInv, TypeOK, ConsumeApproved
  <1>5. [check |-> check, at |-> now] \in Use
    BY DEF IInv, TypeOK, Use
  <1>6. uses'[i] # << >> /\ Len(uses'[i]) = Len(uses[i]) + 1
    BY <1>4, <1>5
  <1>7. \A j \in Id \ {i} : PermitStatus(j)' = PermitStatus(j)
    BY <1>3, <1>4, StatusKept DEF ConsumeApproved
  <1>8. PermitStatus(i)' = "used"
    <2>1. i \in DOMAIN issued
      BY <1>1, CleanedPart DEF IInv, TypeOK
    <2>2. QED
      BY <1>6, <2>1 DEF ConsumeApproved, PermitStatus
  <1>9. Permits!Use(i)
    BY <1>2, <1>4, <1>6, <1>7, <1>8 DEF Permits!Use
  <1>10. QED
    BY <1>9 DEF Permits!Next

\* Time and restarts only void open permits.
LEMMA VoidImplements ==
    ASSUME UNCHANGED <<issued, uses>>,
           \A j \in Id : \/ PermitStatus(j)' = PermitStatus(j)
                         \/ /\ PermitStatus(j) \in {"pending", "approved"}
                            /\ PermitStatus(j)' = "void"
    PROVE  Permits!Next
PROOF
  <1> DEFINE S == {j \in Id : PermitStatus(j)' # PermitStatus(j)}
  <1>1. Permits!Void(S)
    BY DEF Permits!Void, Permits!Open
  <1>2. QED
    BY <1>1 DEF Permits!Next

LEMMA TickImplements ==
    ASSUME IInv, Tick
    PROVE  Permits!Next
PROOF
  <1>1. ASSUME NEW j \in Id
        PROVE  \/ PermitStatus(j)' = PermitStatus(j)
               \/ /\ PermitStatus(j) \in {"pending", "approved"}
                  /\ PermitStatus(j)' = "void"
    BY DEF IInv, TypeOK, Record, Tick, storeVars, PermitStatus, isExpired
  <1>2. QED
    BY <1>1, VoidImplements DEF Tick, storeVars

LEMMA RestartImplements ==
    ASSUME IInv, Restart
    PROVE  Permits!Next
PROOF
  <1>1. ASSUME NEW j \in Id
        PROVE  \/ PermitStatus(j)' = PermitStatus(j)
               \/ /\ PermitStatus(j) \in {"pending", "approved"}
                  /\ PermitStatus(j)' = "void"
    BY DEF Restart, PermitStatus
  <1>2. QED
    BY <1>1, VoidImplements DEF Restart

\* Every behaviour of the store is a behaviour of one-shot permits: Request is
\* Issue, Confirm is Decide, ConsumeApproved is Use, the clock and a restart are
\* Void, and a refused operation is a stuttering step.
THEOREM Implementation == Spec => ImplementsPermit
PROOF
  <1>1. Init => Permits!Init
    BY InitImplements
  <1>2. IInv /\ [Next]_vars => [Permits!Next]_(Permits!vars)
    <2> SUFFICES ASSUME IInv, [Next]_vars
                 PROVE  Permits!Next \/ UNCHANGED Permits!vars
      OBVIOUS
    <2>1. CASE Refused
      BY <2>1, RefusedImplements
    <2>2. CASE \E target \in Target : Request(target)
      BY <2>2, RequestImplements
    <2>3. CASE \E i \in Id, approve \in BOOLEAN : Confirm(i, approve)
      BY <2>3, ConfirmImplements
    <2>4. CASE \E i \in Id, check \in Check : ConsumeApproved(i, check)
      BY <2>4, ConsumeImplements
    <2>5. CASE Tick
      BY <2>5, TickImplements
    <2>6. CASE Restart
      BY <2>6, RestartImplements
    <2>7. CASE UNCHANGED vars
      BY <2>7 DEF vars, Permits!vars, PermitStatus, isExpired
    <2>8. QED
      BY <2>1, <2>2, <2>3, <2>4, <2>5, <2>6, <2>7
         DEF Next, RequestFails, ConfirmRefused, ConsumeRefused
  <1>3. QED
    BY <1>1, <1>2, Invariance, PTL DEF Spec, ImplementsPermit, Permits!Spec
=============================================================================
