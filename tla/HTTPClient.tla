----------------------------- MODULE HTTPClient -----------------------------
(***************************************************************************)
(* Admission of upstream calls, internal/httpclient/client.go: a global    *)
(* and a per-principal semaphore, then a global and a per-principal        *)
(* fixed-window limiter.  Each caller is one call of Client.Do in a        *)
(* goroutine of its own, for the principal (key) of its request.           *)
(*                                                                         *)
(* Only differences of times matter, so time is kept as ages: a window     *)
(* holds the time since its windowStart, a caller the time since it last   *)
(* read the clock (it does so before it takes the limiter's lock, so the   *)
(* reading may be old) and the time its timer still has to run.            *)
(***************************************************************************)
EXTENDS Integers, FiniteSets

CONSTANTS
    Caller,           \* calls of Do
    Key,              \* principals
    KeyOf,            \* the principal of each call
    MaxConcurrent, MaxConcurrentPerKey,
    MaxCalls, MaxCallsPerKey,   \* per minute
    Minute,           \* a minute, in ticks
    MaxStall          \* bound: ticks a goroutine may lose between clock and lock

ASSUME HTTPClientAssumption ==
    /\ IsFiniteSet(Caller)
    /\ KeyOf \in [Caller -> Key]
    /\ {MaxConcurrent, MaxConcurrentPerKey, MaxCalls, MaxCallsPerKey} \subseteq Nat \ {0}
    /\ Minute \in Nat \ {0}
    /\ MaxStall \in Nat

VARIABLES
    pc,         \* where each call is
    cancelled,  \* calls whose context is done
    slots,      \* tokens in the global channel
    keySlots,   \* tokens in each principal's channel
    window,     \* the global limiter
    keyWindow,  \* each principal's limiter
    readAge,    \* how long ago a call in a limiter read the clock
    timer,      \* how long a parked call still sleeps
    opened,     \* history: how long ago the global window was last opened, and
                \* the time before that (at most OldAge: long ago, or never)
    keyOpened   \* history: the same for each principal's

vars == <<pc, cancelled, slots, keySlots, window, keyWindow, readAge, timer,
          opened, keyOpened>>

\* A window that was never opened is as old as one that can always be replaced.
OldAge == Minute + MaxStall

Window(max) == [age: 0 .. OldAge, count: 0 .. max]
Unopened    == [age |-> OldAge, count |-> 0]
Openings    == [last: 0 .. OldAge, previous: 0 .. OldAge]
NeverOpened == [last |-> OldAge, previous |-> OldAge]

InLimiter == {"globalLimit", "keyLimit"}
Parked    == {"globalParked", "keyParked"}
InWait    == {"globalClock", "keyClock"} \cup InLimiter \cup Parked
\* A call holds its principal's token from the moment it has both tokens until
\* it gives that one back, and the global one before and after.
HoldsKey    == InWait \cup {"sending", "releaseKey"}
HoldsGlobal == HoldsKey \cup {"wantKey", "releaseGlobal"}
Stage       == HoldsGlobal \cup {"idle", "wantGlobal", "done"}

\* The type invariant: no channel holds more tokens than its capacity, and
\* minuteLimiter.Wait counts no window beyond its limit.
TypeOK ==
    /\ pc \in [Caller -> Stage]
    /\ cancelled \subseteq Caller
    /\ slots \in 0 .. MaxConcurrent
    /\ keySlots \in [Key -> 0 .. MaxConcurrentPerKey]
    /\ window \in Window(MaxCalls)
    /\ keyWindow \in [Key -> Window(MaxCallsPerKey)]
    /\ readAge \in [Caller -> 0 .. MaxStall]
    /\ timer \in [Caller -> 0 .. OldAge]
    /\ opened \in Openings
    /\ keyOpened \in [Key -> Openings]

-----------------------------------------------------------------------------
Init ==
    /\ pc = [c \in Caller |-> "idle"]
    /\ cancelled = {}
    /\ slots = 0
    /\ keySlots = [k \in Key |-> 0]
    /\ window = Unopened
    /\ keyWindow = [k \in Key |-> Unopened]
    /\ readAge = [c \in Caller |-> 0]
    /\ timer = [c \in Caller |-> 0]
    /\ opened = NeverOpened
    /\ keyOpened = [k \in Key |-> NeverOpened]

Goto(c, from, to) == pc[c] = from /\ pc' = [pc EXCEPT ![c] = to]

SlotsUnchanged   == UNCHANGED <<slots, keySlots>>
LimiterUnchanged == UNCHANGED <<window, keyWindow, readAge, timer, opened, keyOpened>>

\* A request that is too large or whose URL is blocked never gets this far.
Enter(c) ==
    /\ Goto(c, "idle", "wantGlobal")
    /\ UNCHANGED cancelled /\ SlotsUnchanged /\ LimiterUnchanged

\* The client goes away, or the deadline of the inbound request passes.
Cancel(c) ==
    /\ pc[c] \notin {"idle", "done"}
    /\ cancelled' = cancelled \cup {c}
    /\ UNCHANGED pc /\ SlotsUnchanged /\ LimiterUnchanged

-----------------------------------------------------------------------------
\* acquire and release.  A select with both of its cases ready takes either.

AcquireGlobal(c) ==
    /\ Goto(c, "wantGlobal", "wantKey")
    /\ slots < MaxConcurrent
    /\ slots' = slots + 1
    /\ UNCHANGED <<cancelled, keySlots>> /\ LimiterUnchanged

GlobalCancelled(c) ==
    /\ c \in cancelled
    /\ Goto(c, "wantGlobal", "done")
    /\ UNCHANGED cancelled /\ SlotsUnchanged /\ LimiterUnchanged

AcquireKey(c) ==
    /\ Goto(c, "wantKey", "globalClock")
    /\ keySlots[KeyOf[c]] < MaxConcurrentPerKey
    /\ keySlots' = [keySlots EXCEPT ![KeyOf[c]] = @ + 1]
    /\ UNCHANGED <<cancelled, slots>> /\ LimiterUnchanged

\* A faulty early return: the global token is kept.
KeyCancelledLeaks(c) ==
    /\ c \in cancelled
    /\ Goto(c, "wantKey", "done")
    /\ UNCHANGED cancelled /\ SlotsUnchanged /\ LimiterUnchanged

KeyCancelled(c) ==
    /\ c \in cancelled
    /\ Goto(c, "wantKey", "releaseGlobal")
    /\ UNCHANGED cancelled /\ SlotsUnchanged /\ LimiterUnchanged

\* Taking a token out of a channel, or finding it empty.
Drained(n) == IF n > 0 THEN n - 1 ELSE 0

\* A faulty release: the principal's channel keeps the token.
ReleaseOnlyGlobal(c) ==
    /\ Goto(c, "releaseKey", "releaseGlobal")
    /\ UNCHANGED cancelled /\ SlotsUnchanged /\ LimiterUnchanged

ReleaseKey(c) ==
    /\ Goto(c, "releaseKey", "releaseGlobal")
    /\ keySlots' = [keySlots EXCEPT ![KeyOf[c]] = Drained(@)]
    /\ UNCHANGED <<cancelled, slots>> /\ LimiterUnchanged

ReleaseGlobal(c) ==
    /\ Goto(c, "releaseGlobal", "done")
    /\ slots' = Drained(slots)
    /\ UNCHANGED <<cancelled, keySlots>> /\ LimiterUnchanged

-----------------------------------------------------------------------------
\* minuteLimiter.Wait, first for the global limiter and then for the key's.

\* now := time.Now(), before the lock.
ReadClock(c) ==
    /\ \/ Goto(c, "globalClock", "globalLimit")
       \/ Goto(c, "keyClock", "keyLimit")
    /\ readAge' = [readAge EXCEPT ![c] = 0]
    /\ UNCHANGED <<cancelled, window, keyWindow, timer, opened, keyOpened>> /\ SlotsUnchanged

\* A faulty comparison: a window is replaced before its minute is over.
ElapsedEarly(w, c) == w.age - readAge[c] >= Minute - 1

Elapsed(w, c) == w.age - readAge[c] >= Minute

\* Under the lock: the window c's request is counted in, opened at the time c read
\* if the old one has elapsed.
Current(w, c) == IF Elapsed(w, c) THEN [age |-> readAge[c], count |-> 0] ELSE w

\* A faulty test: one more call than the limit.
HasRoomFor1More(w, max) == w.count <= max

HasRoom(w, max) == w.count < max

Counted(w) == [age |-> w.age, count |-> w.count + 1]

\* When w was opened, if c's request was granted: now, if w had elapsed.
Opened(w, o, c) == IF Elapsed(w, c) THEN [last |-> 0, previous |-> o.last] ELSE o

\* How long a full window makes c sleep.
WaitFor(w, c) == Minute - (w.age - readAge[c])

GlobalGrant(c) ==
    LET w == Current(window, c)
    IN  /\ Goto(c, "globalLimit", "keyClock")
        /\ HasRoom(w, MaxCalls)
        /\ window' = Counted(w)
        /\ opened' = Opened(window, opened, c)
        /\ readAge' = [readAge EXCEPT ![c] = 0]
        /\ UNCHANGED <<cancelled, keyWindow, timer, keyOpened>> /\ SlotsUnchanged

GlobalPark(c) ==
    LET w == Current(window, c)
    IN  /\ Goto(c, "globalLimit", "globalParked")
        /\ ~HasRoom(w, MaxCalls)
        /\ window' = w
        /\ timer' = [timer EXCEPT ![c] = WaitFor(w, c)]
        /\ readAge' = [readAge EXCEPT ![c] = 0]
        /\ UNCHANGED <<cancelled, keyWindow, opened, keyOpened>> /\ SlotsUnchanged

KeyGrant(c) ==
    LET w == Current(keyWindow[KeyOf[c]], c)
    IN  /\ Goto(c, "keyLimit", "sending")
        /\ HasRoom(w, MaxCallsPerKey)
        /\ keyWindow' = [keyWindow EXCEPT ![KeyOf[c]] = Counted(w)]
        /\ keyOpened' = [keyOpened EXCEPT ![KeyOf[c]] = Opened(keyWindow[KeyOf[c]], @, c)]
        /\ readAge' = [readAge EXCEPT ![c] = 0]
        /\ UNCHANGED <<cancelled, window, timer, opened>> /\ SlotsUnchanged

KeyPark(c) ==
    LET w == Current(keyWindow[KeyOf[c]], c)
    IN  /\ Goto(c, "keyLimit", "keyParked")
        /\ ~HasRoom(w, MaxCallsPerKey)
        /\ keyWindow' = [keyWindow EXCEPT ![KeyOf[c]] = w]
        /\ timer' = [timer EXCEPT ![c] = WaitFor(w, c)]
        /\ readAge' = [readAge EXCEPT ![c] = 0]
        /\ UNCHANGED <<cancelled, window, opened, keyOpened>> /\ SlotsUnchanged

Wake(c) ==
    /\ timer[c] = 0
    /\ \/ Goto(c, "globalParked", "globalClock")
       \/ Goto(c, "keyParked", "keyClock")
    /\ UNCHANGED cancelled /\ SlotsUnchanged /\ LimiterUnchanged

\* A faulty sleep: only the timer ends it.
ParkedIgnoresContext(c) ==
    /\ c \in cancelled /\ timer[c] = 0
    /\ pc[c] \in Parked
    /\ pc' = [pc EXCEPT ![c] = "releaseKey"]
    /\ UNCHANGED cancelled /\ SlotsUnchanged /\ LimiterUnchanged

\* ErrRateLimited; what a limiter has counted stays counted.
ParkedCancelled(c) ==
    /\ c \in cancelled
    /\ pc[c] \in Parked
    /\ pc' = [pc EXCEPT ![c] = "releaseKey"]
    /\ timer' = [timer EXCEPT ![c] = 0]
    /\ UNCHANGED <<cancelled, window, keyWindow, readAge, opened, keyOpened>> /\ SlotsUnchanged

\* http.Client.Do returns, with a response whose body is still to be read or with
\* an error, a cancelled context's included.
Sent(c) ==
    /\ Goto(c, "sending", "releaseKey")
    /\ UNCHANGED cancelled /\ SlotsUnchanged /\ LimiterUnchanged

-----------------------------------------------------------------------------
Aged(age) == IF age < OldAge THEN age + 1 ELSE OldAge
Older(w)  == [age |-> Aged(w.age), count |-> w.count]
Longer(o) == [last |-> Aged(o.last), previous |-> Aged(o.previous)]

\* A tick passes; no goroutine loses more than MaxStall of them between reading
\* the clock and taking the lock.
Tick ==
    /\ \A c \in Caller : pc[c] \in InLimiter => readAge[c] < MaxStall
    /\ window' = Older(window)
    /\ keyWindow' = [k \in Key |-> Older(keyWindow[k])]
    /\ readAge' = [c \in Caller |-> IF pc[c] \in InLimiter THEN readAge[c] + 1 ELSE 0]
    /\ timer' = [c \in Caller |-> Drained(timer[c])]
    /\ opened' = Longer(opened)
    /\ keyOpened' = [k \in Key |-> Longer(keyOpened[k])]
    /\ UNCHANGED <<pc, cancelled>> /\ SlotsUnchanged

Step(c) ==
    \/ AcquireGlobal(c) \/ GlobalCancelled(c)
    \/ AcquireKey(c) \/ KeyCancelled(c)
    \/ ReadClock(c)
    \/ GlobalGrant(c) \/ GlobalPark(c)
    \/ KeyGrant(c) \/ KeyPark(c)
    \/ Wake(c) \/ ParkedCancelled(c)
    \/ Sent(c)
    \/ ReleaseKey(c) \/ ReleaseGlobal(c)

Next ==
    \/ \E c \in Caller : Enter(c) \/ Cancel(c) \/ Step(c)
    \/ Tick

\* A goroutine that can go on does, and the transport answers within HTTP_TIMEOUT.
\* Nothing is assumed of the clock here, nor that any context is ever done.
Fairness == \A c \in Caller : WF_vars(Step(c))

SafetySpec == Init /\ [][Next]_vars

Spec == SafetySpec /\ Fairness

-----------------------------------------------------------------------------
(***************************************************************************)
(* Properties                                                              *)
(***************************************************************************)

Holders     == {c \in Caller : pc[c] \in HoldsGlobal}
KeyHolders(k) == {c \in Caller : KeyOf[c] = k /\ pc[c] \in HoldsKey}

\* The channels hold exactly the tokens of the calls between acquire and release:
\* no early return of acquire or Wait, cancelled at whatever point, leaks a token
\* or gives one back twice.
SlotsMatchHolders ==
    /\ slots = Cardinality(Holders)
    /\ \A k \in Key : keySlots[k] = Cardinality(KeyHolders(k))

Apart(o) == o.previous < OldAge => o.previous - o.last >= Minute - MaxStall

\* The windows of every limiter, the global one and each principal's, open at least
\* a minute apart, whoever opens them with however old a reading of the clock: a
\* goroutine that was late between the clock and the lock takes at most its own delay
\* off.  With at most the limit's grants in a window (TypeOK), no period that much
\* shorter than a minute sees more than twice the limit.
WindowsKeepTheirDistance == Apart(opened) /\ \A k \in Key : Apart(keyOpened[k])

\* A call whose context is done returns without waiting for the clock or for any
\* other call, wherever in Do it is.
CancelledCallReturns ==
    \A c \in Caller : (c \in cancelled) ~> (pc[c] = "done")

\* If time passes, every call returns: no cycle of calls waits on each other's
\* tokens and windows, and a parked call is woken into a window with room.
EveryCallReturns ==
    WF_vars(Tick) => \A c \in Caller : (pc[c] # "idle") ~> (pc[c] = "done")

\* client_test.go:130, "other principal request should not be blocked by alice
\* quota": no call waits for a global token while every one of them is held by
\* calls of another principal asleep in that principal's own limiter.
NotBlockedByAnothersQuota ==
    \A c \in Caller :
        ~ /\ pc[c] = "wantGlobal"
          /\ slots = MaxConcurrent
          /\ \A h \in Holders : pc[h] = "keyParked" /\ KeyOf[h] # KeyOf[c]
=============================================================================
