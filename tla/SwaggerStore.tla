---------------------------- MODULE SwaggerStore ----------------------------
(***************************************************************************)
(* The cache in front of the Swagger document: CachedStore.snapshot of     *)
(* internal/swagger/store.go, which every tool and resource goes through.  *)
(* A lookup looks at the state under the read lock; if that has expired it *)
(* takes the write lock, looks again, and loads, parses and resolves the   *)
(* document while it holds the lock.  The document's owner may edit it at  *)
(* any time; only its version is modelled.                                 *)
(***************************************************************************)
EXTENDS Integers

CONSTANTS
    Caller,      \* goroutines that look something up, one lookup after another
    NoOne,       \* not a caller
    TTL,         \* SWAGGER_CACHE_TTL in ticks (NewCachedStore replaces ttl <= 0)
    MaxTime,     \* bound of the clock
    MaxVersion   \* bound of the document's edits

ASSUME SwaggerStoreAssumption ==
    /\ NoOne \notin Caller
    /\ TTL \in Nat \ {0}
    /\ {MaxTime, MaxVersion} \subseteq Nat

VARIABLES
    reload,      \* SWAGGER_RELOAD, fixed at startup
    edition,     \* the version of the document at its source
    state,       \* the published snapshot
    writer,      \* who holds the write lock
    pc,
    loaded,      \* what a load has read, not yet published
    now,         \* the clock
    started,     \* when each lookup read the clock first
    answer,      \* what each caller's last lookup returned
    failed,      \* history: did its load fail?  (TRUE before its first lookup)
    floor,       \* history: the newest version served before it began
    served,      \* history: the newest version served to anyone
    loadedAt     \* history: when the state was last replaced

storeVars == <<reload, edition, state, writer, pc, loaded, now, started, answer, failed,
               floor, served, loadedAt>>

Version  == 0 .. MaxVersion
Time     == 0 .. MaxTime
\* Version -1: nothing.  The state before the first load, or an error.
Nothing  == [version |-> -1, expiresAt |-> 0]
Snapshot == [version: Version \cup {-1}, expiresAt: Nat]

\* The type invariant: versions and deadlines, and that buildState is only ever
\* run by the caller that holds the write lock.
TypeOK ==
    /\ reload \in BOOLEAN
    /\ edition \in Version
    /\ state \in Snapshot
    /\ writer \in Caller \cup {NoOne}
    /\ pc \in [Caller -> {"idle", "peek", "wait", "load", "build"}]
    /\ loaded \in [Caller -> Version]
    /\ now \in Time
    /\ started \in [Caller -> Time]
    /\ answer \in [Caller -> Snapshot]
    /\ failed \in [Caller -> BOOLEAN]
    /\ floor \in [Caller -> Version \cup {-1}]
    /\ served \in Version \cup {-1}
    /\ loadedAt \in Time \cup {-TTL}
    /\ \A c \in Caller : pc[c] \in {"load", "build"} <=> writer = c

-----------------------------------------------------------------------------
StoreInit ==
    /\ reload \in BOOLEAN
    /\ edition = 0
    /\ state = Nothing
    /\ writer = NoOne
    /\ pc = [c \in Caller |-> "idle"]
    /\ loaded = [c \in Caller |-> 0]
    /\ now = 0
    /\ started = [c \in Caller |-> 0]
    /\ answer = [c \in Caller |-> Nothing]
    /\ failed = [c \in Caller |-> TRUE]
    /\ floor = [c \in Caller |-> -1]
    /\ served = -1
    /\ loadedAt = -TTL

Goto(c, from, to) == pc[c] = from /\ pc' = [pc EXCEPT ![c] = to]

Newer(v, w) == IF v >= w THEN v ELSE w

\* The lookup of c is over; the lock, if it was taken, is released.
Return(c, snapshot) ==
    /\ answer' = [answer EXCEPT ![c] = snapshot]
    /\ served' = Newer(snapshot.version, served)
    /\ loaded' = [loaded EXCEPT ![c] = 0]
    /\ writer' = NoOne

\* A faulty comparison: a state is still used at its deadline.
UsableAtDeadline(t) == ~reload /\ state # Nothing /\ t <= state.expiresAt

Usable(t) == ~reload /\ state # Nothing /\ t < state.expiresAt

Begin(c) ==
    /\ Goto(c, "idle", "peek")
    /\ started' = [started EXCEPT ![c] = now]
    /\ failed' = [failed EXCEPT ![c] = FALSE]
    /\ floor' = [floor EXCEPT ![c] = served]
    /\ UNCHANGED <<reload, edition, state, writer, loaded, now, answer, served, loadedAt>>

\* The read lock; the clock was read before it, maybe a whole load ago.
PeekHit(c) ==
    /\ writer = NoOne
    /\ Usable(started[c])
    /\ Goto(c, "peek", "idle")
    /\ Return(c, state)
    /\ UNCHANGED <<reload, edition, state, now, started, failed, floor, loadedAt>>

PeekMiss(c) ==
    /\ writer = NoOne
    /\ ~Usable(started[c])
    /\ Goto(c, "peek", "wait")
    /\ UNCHANGED <<reload, edition, state, writer, loaded, now, started, answer,
                   failed, floor, served, loadedAt>>

\* The write lock, and the second look: another caller may have loaded meanwhile.
LockHit(c) ==
    /\ writer = NoOne
    /\ Usable(now)
    /\ Goto(c, "wait", "idle")
    /\ Return(c, state)
    /\ UNCHANGED <<reload, edition, state, now, started, failed, floor, loadedAt>>

\* A faulty second look: none.
LockAlwaysLoads(c) ==
    /\ writer = NoOne
    /\ Goto(c, "wait", "load")
    /\ writer' = c
    /\ UNCHANGED <<reload, edition, state, loaded, now, started, answer, failed,
                   floor, served, loadedAt>>

LockMiss(c) ==
    /\ writer = NoOne
    /\ ~Usable(now)
    /\ Goto(c, "wait", "load")
    /\ writer' = c
    /\ UNCHANGED <<reload, edition, state, loaded, now, started, answer, failed,
                   floor, served, loadedAt>>

\* A faulty load: the lock is not held while the document is fetched and built.
LoadUnlocked(c) ==
    /\ Goto(c, "load", "build")
    /\ loaded' = [loaded EXCEPT ![c] = edition]
    /\ writer' = NoOne
    /\ UNCHANGED <<reload, edition, state, now, started, answer, failed, floor,
                   served, loadedAt>>

Load(c) ==
    /\ Goto(c, "load", "build")
    /\ loaded' = [loaded EXCEPT ![c] = edition]
    /\ UNCHANGED <<reload, edition, state, writer, now, started, answer, failed,
                   floor, served, loadedAt>>

Publish(c) ==
    LET fresh == [version |-> loaded[c], expiresAt |-> now + TTL]
    IN  /\ Goto(c, "build", "idle")
        /\ state' = fresh
        /\ loadedAt' = now
        /\ Return(c, fresh)
        /\ UNCHANGED <<reload, edition, now, started, failed, floor>>

\* A faulty error path: the lock stays taken.
BuildFailsLocked(c) ==
    /\ pc[c] \in {"load", "build"}
    /\ pc' = [pc EXCEPT ![c] = "idle"]
    /\ failed' = [failed EXCEPT ![c] = TRUE]
    /\ answer' = [answer EXCEPT ![c] = state]
    /\ UNCHANGED <<reload, edition, state, writer, loaded, now, started, floor,
                   served, loadedAt>>

\* The source is down, or what it serves cannot be parsed or resolved: the previous
\* snapshot, whose deadline stays, or an error if there is none.
BuildFails(c) ==
    /\ pc[c] \in {"load", "build"}
    /\ pc' = [pc EXCEPT ![c] = "idle"]
    /\ failed' = [failed EXCEPT ![c] = TRUE]
    /\ Return(c, state)
    /\ UNCHANGED <<reload, edition, state, now, started, floor, loadedAt>>

Edit ==
    /\ edition < MaxVersion
    /\ edition' = edition + 1
    /\ UNCHANGED <<reload, state, writer, pc, loaded, now, started, answer, failed,
                   floor, served, loadedAt>>

StoreTick ==
    /\ now < MaxTime
    /\ now' = now + 1
    /\ UNCHANGED <<reload, edition, state, writer, pc, loaded, started, answer,
                   failed, floor, served, loadedAt>>

Acquire(c) == PeekHit(c) \/ PeekMiss(c) \/ LockHit(c) \/ LockMiss(c)
Build(c)   == Load(c) \/ Publish(c) \/ BuildFails(c)

StoreNext ==
    \/ \E c \in Caller : Begin(c) \/ Acquire(c) \/ Build(c)
    \/ Edit
    \/ StoreTick

\* sync.RWMutex hands the lock to those who wait (a goroutine that has waited for a
\* millisecond gets it next), and a load ends within SWAGGER_HTTP_TIMEOUT.
Fairness == \A c \in Caller : SF_storeVars(Acquire(c)) /\ WF_storeVars(Build(c))

StoreSpec == StoreInit /\ [][StoreNext]_storeVars /\ Fairness

-----------------------------------------------------------------------------
(***************************************************************************)
(* Properties                                                              *)
(***************************************************************************)

\* A lookup returns a snapshot that was not expired when the lookup began, or was
\* loaded while it ran; an older one, or none, only if its own load failed.
FreshOrFailed ==
    \A c \in Caller :
        pc[c] = "idle" => failed[c] \/ answer[c].expiresAt > started[c]

\* Tools never see the document go back in time: a lookup that begins after another
\* has returned a version returns that version or a newer one.
NoGoingBack ==
    \A c \in Caller : pc[c] = "idle" => answer[c].version >= floor[c]

\* Unless every lookup is to reload, callers that find the state expired together
\* load it once: successful loads are at least a TTL apart.
LoadsAreATTLApart ==
    [][\A c \in Caller : Publish(c) => reload \/ now - loadedAt >= TTL]_storeVars

\* Every lookup returns, whoever else waits for the lock and however loads end.
EveryLookupReturns ==
    \A c \in Caller : (pc[c] # "idle") ~> (pc[c] = "idle")
=============================================================================
