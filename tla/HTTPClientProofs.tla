--------------------------- MODULE HTTPClientProofs ---------------------------
(***************************************************************************)
(* Theorems about the admission of upstream calls, for every finite set of *)
(* calls, every assignment of principals, every limit, every length of the *)
(* minute and every bound on how late a goroutine may be.                  *)
(***************************************************************************)
EXTENDS HTTPClient, FiniteSetTheorems, TLAPS

\* A window was opened when its age says, or up to MaxStall later: it carries the
\* reading of the clock of the call that opened it.
ByItsAge(w, o) == o.last <= w.age /\ w.age - o.last <= MaxStall

OpenedByItsAge ==
    /\ ByItsAge(window, opened)
    /\ \A k \in Key : ByItsAge(keyWindow[k], keyOpened[k])

IInv == TypeOK /\ SlotsMatchHolders /\ OpenedByItsAge /\ WindowsKeepTheirDistance

\* The constants as numbers.
LEMMA ConstantTypes ==
    /\ MaxConcurrent \in Nat /\ MaxConcurrent > 0
    /\ MaxConcurrentPerKey \in Nat /\ MaxConcurrentPerKey > 0
    /\ MaxCalls \in Nat /\ MaxCalls > 0
    /\ MaxCallsPerKey \in Nat /\ MaxCallsPerKey > 0
    /\ Minute \in Nat /\ Minute > 0
    /\ MaxStall \in Nat
    /\ OldAge \in Nat /\ OldAge = Minute + MaxStall
  BY HTTPClientAssumption DEF OldAge

-----------------------------------------------------------------------------
(***************************************************************************)
(* Tokens                                                                  *)
(***************************************************************************)

\* The sets of holders are finite, so they can be counted.
LEMMA HoldersFinite ==
    /\ IsFiniteSet(Holders) /\ Cardinality(Holders) \in Nat
    /\ \A k : IsFiniteSet(KeyHolders(k)) /\ Cardinality(KeyHolders(k)) \in Nat
PROOF
  <1>1. Holders \subseteq Caller /\ \A k : KeyHolders(k) \subseteq Caller
    BY DEF Holders, KeyHolders
  <1>2. QED
    BY <1>1, FS_Subset, FS_CardinalityType, HTTPClientAssumption

\* A call that neither takes nor gives a token changes no set of holders.
LEMMA QuietMove ==
    ASSUME TypeOK, NEW c \in Caller, NEW to,
           pc' = [pc EXCEPT ![c] = to],
           (pc[c] \in HoldsGlobal) <=> (to \in HoldsGlobal),
           (pc[c] \in HoldsKey) <=> (to \in HoldsKey)
    PROVE  Holders' = Holders /\ \A k \in Key : KeyHolders(k)' = KeyHolders(k)
  BY DEF TypeOK, Holders, KeyHolders

\* The global token alone is taken, or given back, by one call.
LEMMA GlobalMove ==
    ASSUME TypeOK, NEW c \in Caller, NEW to,
           pc' = [pc EXCEPT ![c] = to],
           pc[c] \notin HoldsKey, to \notin HoldsKey
    PROVE  /\ \A k \in Key : KeyHolders(k)' = KeyHolders(k)
           /\ pc[c] \notin HoldsGlobal /\ to \in HoldsGlobal =>
                Cardinality(Holders)' = Cardinality(Holders) + 1
           /\ pc[c] \in HoldsGlobal /\ to \notin HoldsGlobal =>
                Cardinality(Holders)' = Cardinality(Holders) - 1
PROOF
  <1>1. \A k \in Key : KeyHolders(k)' = KeyHolders(k)
    BY DEF TypeOK, KeyHolders
  <1>2. ASSUME pc[c] \notin HoldsGlobal, to \in HoldsGlobal
        PROVE  Cardinality(Holders)' = Cardinality(Holders) + 1
    <2>1. Holders' = Holders \cup {c} /\ c \notin Holders
      BY <1>2 DEF TypeOK, Holders
    <2>2. QED
      BY <2>1, HoldersFinite, FS_AddElement
  <1>3. ASSUME pc[c] \in HoldsGlobal, to \notin HoldsGlobal
        PROVE  Cardinality(Holders)' = Cardinality(Holders) - 1
    <2>1. Holders' = Holders \ {c} /\ c \in Holders
      BY <1>3 DEF TypeOK, Holders
    <2>2. QED
      BY <2>1, HoldersFinite, FS_RemoveElement
  <1>4. QED
    BY <1>1, <1>2, <1>3

\* A principal's token alone is taken, or given back, by one of its calls.
LEMMA KeyMove ==
    ASSUME TypeOK, NEW c \in Caller, NEW to,
           pc' = [pc EXCEPT ![c] = to],
           pc[c] \in HoldsGlobal, to \in HoldsGlobal
    PROVE  /\ Holders' = Holders
           /\ \A k \in Key \ {KeyOf[c]} : KeyHolders(k)' = KeyHolders(k)
           /\ pc[c] \notin HoldsKey /\ to \in HoldsKey =>
                Cardinality(KeyHolders(KeyOf[c]))' = Cardinality(KeyHolders(KeyOf[c])) + 1
           /\ pc[c] \in HoldsKey /\ to \notin HoldsKey =>
                Cardinality(KeyHolders(KeyOf[c]))' = Cardinality(KeyHolders(KeyOf[c])) - 1
PROOF
  <1> DEFINE H == KeyHolders(KeyOf[c])
  <1>1. Holders' = Holders /\ \A k \in Key \ {KeyOf[c]} : KeyHolders(k)' = KeyHolders(k)
    BY DEF TypeOK, Holders, KeyHolders
  <1>2. ASSUME pc[c] \notin HoldsKey, to \in HoldsKey
        PROVE  Cardinality(H)' = Cardinality(H) + 1
    <2>1. H' = H \cup {c} /\ c \notin H
      BY <1>2 DEF TypeOK, KeyHolders
    <2>2. IsFiniteSet(H)
      BY HoldersFinite
    <2>3. QED
      BY <2>1, <2>2, FS_AddElement
  <1>3. ASSUME pc[c] \in HoldsKey, to \notin HoldsKey
        PROVE  Cardinality(H)' = Cardinality(H) - 1
    <2>1. H' = H \ {c} /\ c \in H
      BY <1>3 DEF TypeOK, KeyHolders
    <2>2. IsFiniteSet(H)
      BY HoldersFinite
    <2>3. QED
      BY <2>1, <2>2, FS_RemoveElement
  <1>4. QED
    BY <1>1, <1>2, <1>3

\* What the stages of Do hold, spelled out.
LEMMA StageHoldings ==
    /\ {"wantKey", "releaseGlobal"} \cap HoldsKey = {}
    /\ {"globalClock", "keyClock", "globalLimit", "keyLimit", "globalParked",
        "keyParked", "sending", "releaseKey"} \subseteq HoldsKey
    /\ HoldsKey \cup {"wantKey", "releaseGlobal"} \subseteq HoldsGlobal
    /\ {"idle", "wantGlobal", "done"} \cap HoldsGlobal = {}
    /\ {"idle", "wantGlobal", "done"} \cap HoldsKey = {}
  BY DEF HoldsGlobal, HoldsKey, InWait, InLimiter, Parked

\* A move of one call inside the part of Do that holds both tokens, or inside the
\* part that holds none, changes no count.
LEMMA QuietStep ==
    ASSUME TypeOK, SlotsMatchHolders, NEW c \in Caller, NEW from, NEW to,
           Goto(c, from, to), SlotsUnchanged,
           \/ from \in HoldsKey /\ to \in HoldsKey
           \/ {from, to} \subseteq {"idle", "wantGlobal", "done"}
           \/ {from, to} \subseteq {"wantKey", "releaseGlobal"}
    PROVE  SlotsMatchHolders'
PROOF
  <1>1. /\ (pc[c] \in HoldsGlobal) <=> (to \in HoldsGlobal)
        /\ (pc[c] \in HoldsKey) <=> (to \in HoldsKey)
        /\ pc' = [pc EXCEPT ![c] = to]
    BY StageHoldings DEF Goto
  <1>2. Holders' = Holders /\ \A k \in Key : KeyHolders(k)' = KeyHolders(k)
    BY <1>1, QuietMove
  <1>3. QED
    BY <1>2 DEF SlotsMatchHolders, SlotsUnchanged

\* A step that moves no call keeps the counts.
LEMMA StillStep ==
    ASSUME SlotsMatchHolders, UNCHANGED pc, SlotsUnchanged
    PROVE  SlotsMatchHolders'
  BY DEF SlotsMatchHolders, SlotsUnchanged, Holders, KeyHolders

LEMMA SlotsStep ==
    ASSUME TypeOK, SlotsMatchHolders, NEW c \in Caller,
           Enter(c) \/ Cancel(c) \/ Step(c)
    PROVE  SlotsMatchHolders'
PROOF
  <1> USE DEF Goto
  <1>k. KeyOf[c] \in Key
    BY HTTPClientAssumption
  <1>1. CASE Enter(c)
    BY <1>1, QuietStep DEF Enter
  <1>2. CASE Cancel(c)
    BY <1>2, StillStep DEF Cancel
  <1>3. CASE AcquireGlobal(c)
    <2>1. /\ \A k \in Key : KeyHolders(k)' = KeyHolders(k)
          /\ Cardinality(Holders)' = Cardinality(Holders) + 1
      BY <1>3, GlobalMove, StageHoldings DEF AcquireGlobal
    <2>2. QED
      BY <1>3, <2>1 DEF AcquireGlobal, SlotsMatchHolders
  <1>4. CASE GlobalCancelled(c)
    BY <1>4, QuietStep DEF GlobalCancelled
  <1>5. CASE AcquireKey(c)
    <2>1. /\ Holders' = Holders
          /\ \A k \in Key \ {KeyOf[c]} : KeyHolders(k)' = KeyHolders(k)
          /\ Cardinality(KeyHolders(KeyOf[c]))' = Cardinality(KeyHolders(KeyOf[c])) + 1
      BY <1>5, KeyMove, StageHoldings DEF AcquireKey
    <2>2. QED
      BY <1>5, <1>k, <2>1 DEF AcquireKey, SlotsMatchHolders, TypeOK
  <1>6. CASE KeyCancelled(c)
    BY <1>6, QuietStep DEF KeyCancelled
  <1>7. CASE ReadClock(c)
    BY <1>7, QuietStep, StageHoldings DEF ReadClock
  <1>8. CASE GlobalGrant(c)
    BY <1>8, QuietStep, StageHoldings DEF GlobalGrant
  <1>9. CASE GlobalPark(c)
    BY <1>9, QuietStep, StageHoldings DEF GlobalPark
  <1>10. CASE KeyGrant(c)
    BY <1>10, QuietStep, StageHoldings DEF KeyGrant
  <1>11. CASE KeyPark(c)
    BY <1>11, QuietStep, StageHoldings DEF KeyPark
  <1>12. CASE Wake(c)
    BY <1>12, QuietStep, StageHoldings DEF Wake, LimiterUnchanged
  <1>13. CASE ParkedCancelled(c)
    BY <1>13, QuietStep, StageHoldings DEF ParkedCancelled, Parked
  <1>14. CASE Sent(c)
    BY <1>14, QuietStep, StageHoldings DEF Sent
  <1>15. CASE ReleaseKey(c)
    <2>1. /\ Holders' = Holders
          /\ \A k \in Key \ {KeyOf[c]} : KeyHolders(k)' = KeyHolders(k)
          /\ Cardinality(KeyHolders(KeyOf[c]))' = Cardinality(KeyHolders(KeyOf[c])) - 1
      BY <1>15, KeyMove, StageHoldings DEF ReleaseKey
    <2>2. Cardinality(KeyHolders(KeyOf[c])) > 0
      <3>1. c \in KeyHolders(KeyOf[c])
        BY <1>15, StageHoldings DEF ReleaseKey, KeyHolders
      <3>2. QED
        BY <3>1, HoldersFinite, FS_EmptySet
    <2>3. QED
      BY <1>15, <1>k, <2>1, <2>2 DEF ReleaseKey, Drained, SlotsMatchHolders, TypeOK
  <1>16. CASE ReleaseGlobal(c)
    <2>1. /\ \A k \in Key : KeyHolders(k)' = KeyHolders(k)
          /\ Cardinality(Holders)' = Cardinality(Holders) - 1
      BY <1>16, GlobalMove, StageHoldings DEF ReleaseGlobal
    <2>2. Cardinality(Holders) > 0
      <3>1. c \in Holders
        BY <1>16, StageHoldings DEF ReleaseGlobal, Holders
      <3>2. QED
        BY <3>1, HoldersFinite, FS_EmptySet
    <2>3. QED
      BY <1>16, <2>1, <2>2 DEF ReleaseGlobal, Drained, SlotsMatchHolders
  <1>17. QED
    BY <1>1, <1>2, <1>3, <1>4, <1>5, <1>6, <1>7, <1>8, <1>9, <1>10, <1>11,
       <1>12, <1>13, <1>14, <1>15, <1>16 DEF Step

-----------------------------------------------------------------------------
(***************************************************************************)
(* Windows                                                                 *)
(***************************************************************************)

\* A window stays one, whether it is kept, replaced, or counted in with room left.
LEMMA CurrentWindow ==
    ASSUME TypeOK, NEW c \in Caller, NEW max \in Nat, max > 0, NEW w \in Window(max)
    PROVE  /\ Current(w, c) \in Window(max)
           /\ Current(w, c).age - readAge[c] < Minute
           /\ HasRoom(Current(w, c), max) => Counted(Current(w, c)) \in Window(max)
           /\ WaitFor(Current(w, c), c) \in 0 .. OldAge
PROOF
  <1>1. /\ readAge[c] \in Nat /\ readAge[c] <= MaxStall
        /\ w.age \in Nat /\ w.age <= OldAge
        /\ w.count \in Nat /\ w.count <= max
    BY ConstantTypes DEF TypeOK, Window
  <1>2. /\ Current(w, c) \in Window(max)
        /\ Current(w, c).age - readAge[c] < Minute
    <2>1. CASE Elapsed(w, c)
      BY <1>1, <2>1, ConstantTypes DEF Current, Window
    <2>2. CASE ~Elapsed(w, c)
      BY <1>1, <2>2, ConstantTypes DEF Current, Elapsed
    <2>3. QED
      BY <2>1, <2>2
  <1> DEFINE v == Current(w, c)
  <1>3. /\ v.age \in Nat /\ v.age <= OldAge
        /\ v.count \in Nat /\ v.count <= max
    BY <1>2, ConstantTypes DEF Window
  <1>4. v \in Window(max) /\ v.age - readAge[c] < Minute
    BY <1>2
  <1> HIDE DEF v
  <1>5. HasRoom(v, max) => Counted(v) \in Window(max)
    BY <1>3, ConstantTypes DEF HasRoom, Counted, Window
  <1>6. WaitFor(v, c) \in 0 .. OldAge
    BY <1>1, <1>3, <1>4, ConstantTypes DEF WaitFor
  <1>7. QED
    BY <1>4, <1>5, <1>6 DEF v

LEMMA TypeStep ==
    ASSUME TypeOK, NEW c \in Caller, Enter(c) \/ Cancel(c) \/ Step(c)
    PROVE  TypeOK'
PROOF
  <1> USE DEF Goto
  <1>k. KeyOf[c] \in Key
    BY HTTPClientAssumption
  <1>s. /\ {"idle", "wantGlobal", "wantKey", "globalClock", "globalLimit",
            "globalParked", "keyClock", "keyLimit", "keyParked", "sending",
            "releaseKey", "releaseGlobal", "done"} \subseteq Stage
        /\ 0 \in 0 .. MaxStall /\ 0 \in 0 .. OldAge
    BY ConstantTypes DEF Stage, HoldsGlobal, HoldsKey, InWait, InLimiter, Parked
  <1>d. \A max \in Nat : \A n \in 0 .. max : Drained(n) \in 0 .. max
    BY DEF Drained
  <1>1. CASE Enter(c)
    BY <1>1, <1>s DEF Enter, TypeOK, SlotsUnchanged, LimiterUnchanged
  <1>2. CASE Cancel(c)
    BY <1>2 DEF Cancel, TypeOK, SlotsUnchanged, LimiterUnchanged
  <1>3. CASE AcquireGlobal(c)
    BY <1>3, <1>s, ConstantTypes DEF AcquireGlobal, TypeOK, LimiterUnchanged
  <1>4. CASE GlobalCancelled(c)
    BY <1>4, <1>s DEF GlobalCancelled, TypeOK, SlotsUnchanged, LimiterUnchanged
  <1>5. CASE AcquireKey(c)
    BY <1>5, <1>k, <1>s, ConstantTypes DEF AcquireKey, TypeOK, LimiterUnchanged
  <1>6. CASE KeyCancelled(c)
    BY <1>6, <1>s DEF KeyCancelled, TypeOK, SlotsUnchanged, LimiterUnchanged
  <1>7. CASE ReadClock(c)
    BY <1>7, <1>s DEF ReadClock, TypeOK, SlotsUnchanged
  <1>8. CASE GlobalGrant(c)
    <2>1. window' \in Window(MaxCalls)
      BY <1>8, CurrentWindow, ConstantTypes DEF GlobalGrant, TypeOK
    <2>2. opened' \in Openings
      BY <1>8, <1>s DEF GlobalGrant, Opened, Openings, TypeOK
    <2>3. QED
      BY <1>8, <1>s, <2>1, <2>2 DEF GlobalGrant, TypeOK, SlotsUnchanged
  <1>9. CASE GlobalPark(c)
    <2>1. window' \in Window(MaxCalls) /\ WaitFor(window', c) \in 0 .. OldAge
      BY <1>9, CurrentWindow, ConstantTypes DEF GlobalPark, TypeOK
    <2>2. QED
      BY <1>9, <1>s, <2>1 DEF GlobalPark, TypeOK, SlotsUnchanged
  <1>10. CASE KeyGrant(c)
    <2>1. Counted(Current(keyWindow[KeyOf[c]], c)) \in Window(MaxCallsPerKey)
      BY <1>10, <1>k, CurrentWindow, ConstantTypes DEF KeyGrant, TypeOK
    <2>2. Opened(keyWindow[KeyOf[c]], keyOpened[KeyOf[c]], c) \in Openings
      BY <1>s, <1>k DEF Opened, Openings, TypeOK
    <2>3. QED
      BY <1>10, <1>s, <1>k, <2>1, <2>2 DEF KeyGrant, TypeOK, SlotsUnchanged
  <1>11. CASE KeyPark(c)
    <2> DEFINE w == Current(keyWindow[KeyOf[c]], c)
    <2>1. w \in Window(MaxCallsPerKey) /\ WaitFor(w, c) \in 0 .. OldAge
      BY <1>11, <1>k, CurrentWindow, ConstantTypes DEF TypeOK
    <2>2. QED
      BY <1>11, <1>s, <1>k, <2>1 DEF KeyPark, TypeOK, SlotsUnchanged
  <1>12. CASE Wake(c)
    BY <1>12, <1>s DEF Wake, TypeOK, SlotsUnchanged, LimiterUnchanged
  <1>13. CASE ParkedCancelled(c)
    BY <1>13, <1>s DEF ParkedCancelled, TypeOK, SlotsUnchanged
  <1>14. CASE Sent(c)
    BY <1>14, <1>s DEF Sent, TypeOK, SlotsUnchanged, LimiterUnchanged
  <1>15. CASE ReleaseKey(c)
    BY <1>15, <1>k, <1>s, <1>d, ConstantTypes DEF ReleaseKey, TypeOK, LimiterUnchanged
  <1>16. CASE ReleaseGlobal(c)
    BY <1>16, <1>s, <1>d, ConstantTypes DEF ReleaseGlobal, TypeOK, LimiterUnchanged
  <1>17. QED
    BY <1>1, <1>2, <1>3, <1>4, <1>5, <1>6, <1>7, <1>8, <1>9, <1>10, <1>11,
       <1>12, <1>13, <1>14, <1>15, <1>16 DEF Step

\* Opening a window: the old one is a minute older than the reading of the clock,
\* so its opening, at most MaxStall later than its age says, is long enough ago.
LEMMA GrantKeepsApart ==
    ASSUME TypeOK, NEW c \in Caller, NEW w, w.age \in Nat, NEW o \in Openings,
           ByItsAge(w, o), Apart(o)
    PROVE  ByItsAge(Counted(Current(w, c)), Opened(w, o, c)) /\ Apart(Opened(w, o, c))
PROOF
  <1>t. readAge[c] \in Nat /\ readAge[c] <= MaxStall /\ o.last \in Nat
    BY ConstantTypes DEF TypeOK, Openings
  <1>1. CASE Elapsed(w, c)
    <2>1. /\ Opened(w, o, c).last = 0 /\ Opened(w, o, c).previous = o.last
          /\ Counted(Current(w, c)).age = readAge[c]
      BY <1>1 DEF Opened, Current, Counted
    <2>2. o.last >= Minute - MaxStall
      BY <1>t, <1>1, ConstantTypes DEF Elapsed, ByItsAge
    <2>3. QED
      BY <1>t, <2>1, <2>2, ConstantTypes DEF ByItsAge, Apart
  <1>2. CASE ~Elapsed(w, c)
    BY <1>2 DEF Opened, Current, Counted, ByItsAge
  <1>3. QED
    BY <1>1, <1>2

\* A call that parks has found a full window, which is none it could open.
LEMMA ParkOpensNone ==
    ASSUME NEW c, NEW w, NEW max \in Nat, max > 0, ~HasRoom(Current(w, c), max)
    PROVE  Current(w, c) = w
  BY DEF Current, HasRoom

\* Only a grant opens a window, and only of the limiter that grants.
LEMMA WindowStep ==
    ASSUME TypeOK, OpenedByItsAge, WindowsKeepTheirDistance,
           NEW c \in Caller, Enter(c) \/ Cancel(c) \/ Step(c)
    PROVE  OpenedByItsAge' /\ WindowsKeepTheirDistance'
PROOF
  <1>k. KeyOf[c] \in Key
    BY HTTPClientAssumption
  <1>t. /\ window.age \in Nat /\ opened \in Openings
        /\ \A k \in Key : keyWindow[k].age \in Nat /\ keyOpened[k] \in Openings
        /\ DOMAIN keyWindow = Key /\ DOMAIN keyOpened = Key
    BY ConstantTypes DEF TypeOK, Window
  <1>1. CASE GlobalGrant(c)
    <2>1. ByItsAge(window', opened') /\ Apart(opened')
      BY <1>1, <1>t, GrantKeepsApart
         DEF GlobalGrant, OpenedByItsAge, WindowsKeepTheirDistance
    <2>2. UNCHANGED <<keyWindow, keyOpened>>
      BY <1>1 DEF GlobalGrant
    <2>3. QED
      BY <2>1, <2>2 DEF OpenedByItsAge, WindowsKeepTheirDistance
  <1>2. CASE KeyGrant(c)
    <2> DEFINE own == KeyOf[c]
    <2>1. /\ keyWindow'[own] = Counted(Current(keyWindow[own], c))
          /\ keyOpened'[own] = Opened(keyWindow[own], keyOpened[own], c)
          /\ \A k \in Key \ {own} :
                keyWindow'[k] = keyWindow[k] /\ keyOpened'[k] = keyOpened[k]
          /\ UNCHANGED <<window, opened>>
      BY <1>2, <1>k, <1>t DEF KeyGrant
    <2>2. ByItsAge(keyWindow'[own], keyOpened'[own]) /\ Apart(keyOpened'[own])
      BY <1>k, <1>t, <2>1, GrantKeepsApart DEF OpenedByItsAge, WindowsKeepTheirDistance
    <2>3. ASSUME NEW k \in Key
          PROVE  ByItsAge(keyWindow'[k], keyOpened'[k]) /\ Apart(keyOpened'[k])
      BY <2>1, <2>2 DEF OpenedByItsAge, WindowsKeepTheirDistance
    <2>4. QED
      BY <2>1, <2>3 DEF OpenedByItsAge, WindowsKeepTheirDistance
  <1>3. CASE ~GlobalGrant(c) /\ ~KeyGrant(c)
    <2>1. ASSUME GlobalPark(c) PROVE UNCHANGED <<window, keyWindow, opened, keyOpened>>
      BY <2>1, ParkOpensNone, ConstantTypes DEF GlobalPark
    <2>2. ASSUME KeyPark(c) PROVE UNCHANGED <<window, keyWindow, opened, keyOpened>>
      <3>1. Current(keyWindow[KeyOf[c]], c) = keyWindow[KeyOf[c]]
        BY <2>2, ParkOpensNone, ConstantTypes DEF KeyPark
      <3>2. keyWindow' = keyWindow
        BY <1>k, <1>t, <2>2, <3>1 DEF KeyPark, TypeOK
      <3>3. QED
        BY <2>2, <3>2 DEF KeyPark
    <2>3. ASSUME ~GlobalPark(c), ~KeyPark(c) PROVE UNCHANGED <<window, keyWindow, opened, keyOpened>>
      BY <1>3, <2>3 DEF Step, Enter, Cancel, AcquireGlobal, GlobalCancelled, AcquireKey,
         KeyCancelled, ReadClock, Wake, ParkedCancelled, Sent, ReleaseKey,
         ReleaseGlobal, LimiterUnchanged
    <2>4. UNCHANGED <<window, keyWindow, opened, keyOpened>>
      BY <2>1, <2>2, <2>3
    <2>5. QED
      BY <2>4 DEF OpenedByItsAge, WindowsKeepTheirDistance
  <1>4. QED
    BY <1>1, <1>2, <1>3

-----------------------------------------------------------------------------
(***************************************************************************)
(* The invariant                                                           *)
(***************************************************************************)

LEMMA InitIInv == Init => IInv
PROOF
  <1> SUFFICES ASSUME Init PROVE IInv
    OBVIOUS
  <1>1. TypeOK
    BY ConstantTypes
       DEF Init, TypeOK, Stage, Window, Unopened, Openings, NeverOpened
  <1>2. Holders = {} /\ \A k \in Key : KeyHolders(k) = {}
    BY StageHoldings DEF Init, Holders, KeyHolders
  <1>3. SlotsMatchHolders
    BY <1>2, FS_EmptySet DEF Init, SlotsMatchHolders
  <1>4. OpenedByItsAge /\ WindowsKeepTheirDistance
    BY ConstantTypes DEF Init, Unopened, NeverOpened, OpenedByItsAge, ByItsAge,
       WindowsKeepTheirDistance, Apart
  <1>5. QED
    BY <1>1, <1>3, <1>4 DEF IInv

\* Time passing ages everything alike, up to OldAge.
LEMMA TickIInv == IInv /\ Tick => IInv'
PROOF
  <1> SUFFICES ASSUME IInv, Tick PROVE IInv'
    OBVIOUS
  <1>1. \A age \in 0 .. OldAge : Aged(age) \in 0 .. OldAge /\ Drained(age) \in 0 .. OldAge
    BY ConstantTypes DEF Aged, Drained
  <1>2. \A max \in Nat : \A w \in Window(max) :
            Older(w) \in Window(max) /\ Older(w).age = Aged(w.age)
    BY <1>1 DEF Older, Window
  <1>3. TypeOK'
    <2>1. window' \in Window(MaxCalls) /\ keyWindow' \in [Key -> Window(MaxCallsPerKey)]
      BY <1>2, ConstantTypes DEF IInv, TypeOK, Tick
    <2>2. readAge' \in [Caller -> 0 .. MaxStall]
      BY ConstantTypes DEF IInv, TypeOK, Tick
    <2>3. timer' \in [Caller -> 0 .. OldAge]
      BY <1>1 DEF IInv, TypeOK, Tick
    <2>4. opened' \in Openings /\ keyOpened' \in [Key -> Openings]
      BY <1>1 DEF IInv, TypeOK, Tick, Longer, Openings
    <2>5. QED
      BY <2>1, <2>2, <2>3, <2>4 DEF IInv, TypeOK, Tick, SlotsUnchanged
  <1>4. SlotsMatchHolders'
    BY StillStep DEF IInv, Tick
  <1>5. ASSUME NEW max \in Nat, NEW w \in Window(max), NEW o \in Openings,
               ByItsAge(w, o), Apart(o)
        PROVE  ByItsAge(Older(w), Longer(o)) /\ Apart(Longer(o))
    <2>1. w.age \in 0 .. OldAge /\ o.last \in 0 .. OldAge /\ o.previous \in 0 .. OldAge
      BY DEF Window, Openings
    <2>2. /\ Older(w).age = Aged(w.age)
          /\ Longer(o).last = Aged(o.last) /\ Longer(o).previous = Aged(o.previous)
      BY DEF Older, Longer
    <2>3. QED
      BY <1>5, <2>1, <2>2, ConstantTypes DEF Aged, ByItsAge, Apart
  <1>6. OpenedByItsAge' /\ WindowsKeepTheirDistance'
    <2>1. ByItsAge(window', opened') /\ Apart(opened')
      BY <1>5, ConstantTypes
         DEF IInv, TypeOK, Tick, OpenedByItsAge, WindowsKeepTheirDistance
    <2>2. ASSUME NEW k \in Key
          PROVE  ByItsAge(keyWindow'[k], keyOpened'[k]) /\ Apart(keyOpened'[k])
      <3>1. keyWindow'[k] = Older(keyWindow[k]) /\ keyOpened'[k] = Longer(keyOpened[k])
        BY DEF Tick
      <3>2. keyWindow[k] \in Window(MaxCallsPerKey) /\ keyOpened[k] \in Openings
        BY DEF IInv, TypeOK
      <3>3. ByItsAge(keyWindow[k], keyOpened[k]) /\ Apart(keyOpened[k])
        BY DEF IInv, OpenedByItsAge, WindowsKeepTheirDistance
      <3>4. QED
        BY <1>5, <3>1, <3>2, <3>3, ConstantTypes
    <2>3. QED
      BY <2>1, <2>2 DEF OpenedByItsAge, WindowsKeepTheirDistance
  <1>7. QED
    BY <1>3, <1>4, <1>6 DEF IInv

LEMMA NextIInv == IInv /\ [Next]_vars => IInv'
PROOF
  <1> SUFFICES ASSUME IInv, [Next]_vars PROVE IInv'
    OBVIOUS
  <1>1. ASSUME NEW c \in Caller, Enter(c) \/ Cancel(c) \/ Step(c)
        PROVE  IInv'
    BY <1>1, TypeStep, SlotsStep, WindowStep DEF IInv
  <1>2. CASE Tick
    BY <1>2, TickIInv
  <1>3. CASE UNCHANGED vars
    BY <1>3 DEF vars, IInv, TypeOK, SlotsMatchHolders, Holders, KeyHolders,
       OpenedByItsAge, WindowsKeepTheirDistance
  <1>4. QED
    BY <1>1, <1>2, <1>3 DEF Next

\* The client keeps the invariant, through every interleaving of its callers.
THEOREM Invariance == Spec => []IInv
  BY InitIInv, NextIInv, PTL DEF Spec, SafetySpec

\* The variables of every reachable state have their types; in particular no window
\* counts more calls than its limit and no channel holds more tokens than it has
\* room for.
THEOREM TypeCorrect == Spec => []TypeOK
  BY Invariance, PTL DEF IInv

\* No path through Do leaks a token or returns one twice.
THEOREM NoLeakedSlots == Spec => []SlotsMatchHolders
  BY Invariance, PTL DEF IInv

\* The windows of every limiter, the global one and each principal's, open at least a
\* minute, less the delay of the goroutine that opens one, apart.
THEOREM WindowsApart == Spec => []WindowsKeepTheirDistance
  BY Invariance, PTL DEF IInv
=============================================================================
