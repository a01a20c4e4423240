--------------------------- MODULE ReadWriteMutex ---------------------------
(***************************************************************************)
(* The read-write lock of a storage file: class ReadWriteMutex of          *)
(* core/.../utils/common/ReadWriteMutex.kt, built from three coroutine     *)
(* mutexes and a counter.                                                  *)
(*                                                                         *)
(* Every suspension point of the two functions is a value of pc.  A        *)
(* coroutine can be cancelled at any of them; CancelPoints says at which   *)
(* ones it happens.  A cancelled withReadLock still runs its finally       *)
(* block.  A cancelled lock() throws if it must wait, and succeeds if the  *)
(* mutex is free.                                                          *)
(*                                                                         *)
(* Mutex of kotlinx.coroutines is an environment: lock() waits while it is *)
(* held and is fair, unlock() frees it.  Listeners of state changes are    *)
(* left out but for the suspension point they add.                         *)
(***************************************************************************)
EXTENDS Integers, FiniteSets

CONSTANTS
    Process,        \* coroutines
    NoOne,          \* a mutex is free
    This,           \* the owner the readers lock allowNewWrites with
    CancelPoints,   \* where coroutines are cancelled
    LostBound       \* bound: decrements are lost while readers <= LostBound

ASSUME OwnersAssumption ==
    NoOne \notin Process /\ This \notin Process /\ NoOne # This

ASSUME ProcessAssumption == IsFiniteSet(Process)

ASSUME LostBoundAssumption == LostBound \in Nat

VARIABLES
    allowNewReads, allowNewWrites, stateLock,   \* who holds each mutex
    readers,                                    \* the counter
    locked,                                     \* state.state = LOCKED
    pc

mutexes == <<allowNewReads, allowNewWrites, stateLock>>
vars == <<allowNewReads, allowNewWrites, stateLock, readers, locked, pc>>

ReadPoints ==
    {"waitAllowReads", "waitState", "waitNoWriter", "entering", "reading",
     "waitStateAgain", "leaving"}
WritePoints == {"waitAllowWrite", "waitReaders", "writing"}
Points == {"idle"} \cup ReadPoints \cup WritePoints \cup {"cancelled"}

Init ==
    /\ allowNewReads = NoOne /\ allowNewWrites = NoOne /\ stateLock = NoOne
    /\ readers = 0 /\ locked = FALSE
    /\ pc = [p \in Process |-> "idle"]

Goto(p, point) == pc' = [pc EXCEPT ![p] = point]

-----------------------------------------------------------------------------
(* withReadLock *)

WantRead(p) ==
    /\ pc[p] = "idle"
    /\ Goto(p, "waitAllowReads")
    /\ UNCHANGED <<mutexes, readers, locked>>

TakeAllowReads(p) ==
    /\ pc[p] = "waitAllowReads"
    /\ allowNewReads = NoOne
    /\ allowNewReads' = p
    /\ Goto(p, "waitState")
    /\ UNCHANGED <<allowNewWrites, stateLock, readers, locked>>

\* Mutant: the counter is compared after it is incremented.
CountReaderLate(p) ==
    /\ pc[p] = "waitState"
    /\ stateLock = NoOne
    /\ stateLock' = p
    /\ readers' = readers + 1
    /\ Goto(p, IF readers' = 0 THEN "waitNoWriter" ELSE "entering")
    /\ UNCHANGED <<allowNewReads, allowNewWrites, locked>>

\* if (readers++ == 0)
CountReader(p) ==
    /\ pc[p] = "waitState"
    /\ stateLock = NoOne
    /\ stateLock' = p
    /\ readers' = readers + 1
    /\ Goto(p, IF readers = 0 THEN "waitNoWriter" ELSE "entering")
    /\ UNCHANGED <<allowNewReads, allowNewWrites, locked>>

\* the first reader locks writes out
LockWritesOut(p) ==
    /\ pc[p] = "waitNoWriter"
    /\ allowNewWrites = NoOne
    /\ allowNewWrites' = This
    /\ locked' = TRUE
    /\ Goto(p, "entering")
    /\ UNCHANGED <<allowNewReads, stateLock, readers>>

StartReading(p) ==
    /\ pc[p] = "entering"
    /\ allowNewReads' = NoOne /\ stateLock' = NoOne
    /\ Goto(p, "reading")
    /\ UNCHANGED <<allowNewWrites, readers, locked>>

StopReading(p) ==
    /\ pc[p] = "reading"
    /\ Goto(p, "waitStateAgain")
    /\ UNCHANGED <<mutexes, readers, locked>>

\* Mutant: any reader that leaves reports the lock free.
UncountUnlocked(p) ==
    /\ stateLock = NoOne
    /\ stateLock' = p
    /\ readers' = readers - 1
    /\ locked' = FALSE
    /\ Goto(p, "leaving")
    /\ UNCHANGED <<allowNewReads, allowNewWrites>>

\* if (--readers == 0)
Uncount(p) ==
    /\ stateLock = NoOne
    /\ stateLock' = p
    /\ readers' = readers - 1
    /\ locked' = IF readers' = 0 THEN FALSE ELSE locked
    /\ Goto(p, "leaving")
    /\ UNCHANGED <<allowNewReads, allowNewWrites>>

UncountReader(p) == pc[p] = "waitStateAgain" /\ Uncount(p)

\* Mutant: the last reader forgets the writers.
LeaveLocked(p) ==
    /\ pc[p] = "leaving"
    /\ stateLock' = NoOne
    /\ Goto(p, "idle")
    /\ UNCHANGED <<allowNewReads, allowNewWrites, readers, locked>>

\* the last reader unlocks the writers
Leave(p) ==
    /\ pc[p] = "leaving"
    /\ stateLock' = NoOne
    /\ allowNewWrites' = IF readers = 0 THEN NoOne ELSE allowNewWrites
    /\ Goto(p, "idle")
    /\ UNCHANGED <<allowNewReads, readers, locked>>

-----------------------------------------------------------------------------
(* withWriteLock *)

WantWrite(p) ==
    /\ pc[p] = "idle"
    /\ Goto(p, "waitAllowWrite")
    /\ UNCHANGED <<mutexes, readers, locked>>

\* no new reader from here on
TakeAllowWrite(p) ==
    /\ pc[p] = "waitAllowWrite"
    /\ allowNewReads = NoOne
    /\ allowNewReads' = p
    /\ Goto(p, "waitReaders")
    /\ UNCHANGED <<allowNewWrites, stateLock, readers, locked>>

StartWriting(p) ==
    /\ pc[p] = "waitReaders"
    /\ allowNewWrites = NoOne
    /\ allowNewWrites' = p
    /\ locked' = TRUE
    /\ Goto(p, "writing")
    /\ UNCHANGED <<allowNewReads, stateLock, readers>>

\* Mutant: the writer lets no reader in again.
StopWritingOnly(p) ==
    /\ pc[p] = "writing"
    /\ allowNewWrites' = NoOne
    /\ locked' = FALSE
    /\ Goto(p, "idle")
    /\ UNCHANGED <<allowNewReads, stateLock, readers>>

StopWriting(p) ==
    /\ pc[p] = "writing"
    /\ allowNewReads' = NoOne /\ allowNewWrites' = NoOne
    /\ locked' = FALSE
    /\ Goto(p, "idle")
    /\ UNCHANGED <<stateLock, readers>>

-----------------------------------------------------------------------------
(* Cancellation *)

\* p is not in a lock() that need not wait
CanThrow(p) ==
    /\ pc[p] \in {"waitAllowReads", "waitAllowWrite"} => allowNewReads # NoOne
    /\ pc[p] = "waitState" => stateLock # NoOne
    /\ pc[p] = "waitReaders" => allowNewWrites # NoOne

\* A reader leaves the try block with an exception: the mutexes withLock took
\* are freed, the counter is not looked at.
CancelReader(p) ==
    /\ pc[p] \in CancelPoints
        \cap {"waitAllowReads", "waitState", "entering", "reading"}
    /\ CanThrow(p)
    /\ allowNewReads' = IF allowNewReads = p THEN NoOne ELSE allowNewReads
    /\ stateLock' = IF stateLock = p THEN NoOne ELSE stateLock
    /\ Goto(p, "cancelled")
    /\ UNCHANGED <<allowNewWrites, readers, locked>>

\* its finally block
CancelledUncount(p) == pc[p] = "cancelled" /\ Uncount(p)

\* stateLock.lock() would wait in a cancelled coroutine: it throws
GiveUpUncount(p) ==
    /\ \/ pc[p] = "cancelled"
       \/ pc[p] = "waitStateAgain" /\ pc[p] \in CancelPoints
    /\ stateLock # NoOne
    /\ readers <= LostBound
    /\ Goto(p, "idle")
    /\ UNCHANGED <<mutexes, readers, locked>>

\* Mutant: a writer cancelled while it waits for the readers keeps them out.
CancelWriterLocked(p) ==
    /\ pc[p] \in CancelPoints \cap {"waitAllowWrite", "waitReaders"}
    /\ CanThrow(p)
    /\ Goto(p, "idle")
    /\ UNCHANGED <<mutexes, readers, locked>>

CancelWriter(p) ==
    /\ pc[p] \in CancelPoints \cap {"waitAllowWrite", "waitReaders"}
    /\ CanThrow(p)
    /\ allowNewReads' = IF allowNewReads = p THEN NoOne ELSE allowNewReads
    /\ Goto(p, "idle")
    /\ UNCHANGED <<allowNewWrites, stateLock, readers, locked>>

-----------------------------------------------------------------------------

Reading(p) ==
    \/ TakeAllowReads(p) \/ CountReader(p) \/ LockWritesOut(p)
    \/ StartReading(p) \/ StopReading(p) \/ UncountReader(p) \/ Leave(p)

Writing(p) == TakeAllowWrite(p) \/ StartWriting(p) \/ StopWriting(p)

Cancelling(p) ==
    CancelReader(p) \/ CancelledUncount(p) \/ GiveUpUncount(p) \/ CancelWriter(p)

Next ==
    \E p \in Process :
        WantRead(p) \/ Reading(p) \/ WantWrite(p) \/ Writing(p) \/ Cancelling(p)

Spec == Init /\ [][Next]_vars

\* Every coroutine keeps running, its block and its finally block end, and a
\* mutex that is freed again and again is granted to each of those who wait.
Fairness ==
    \A p \in Process :
        /\ SF_vars(Reading(p)) /\ SF_vars(Writing(p))
        /\ SF_vars(CancelledUncount(p))

FairSpec == Spec /\ Fairness

-----------------------------------------------------------------------------
(* Properties *)

\* The mutexes are held by whom the code says, and by one at a time.
TypeOK ==
    /\ pc \in [Process -> Points]
    /\ readers \in Int /\ locked \in BOOLEAN
    /\ allowNewWrites \in Process \cup {NoOne, This}
    /\ \A p \in Process :
          /\ allowNewReads = p <=>
                pc[p] \in {"waitState", "waitNoWriter", "entering",
                          "waitReaders", "writing"}
          /\ stateLock = p <=> pc[p] \in {"waitNoWriter", "entering", "leaving"}
          /\ allowNewWrites = p <=> pc[p] = "writing"

\* the blocks that run under the lock
blocks ==
    [p \in Process |-> IF pc[p] = "reading" THEN "read"
                       ELSE IF pc[p] = "writing" THEN "write" ELSE "none"]

Lock == INSTANCE ReadWriteLock WITH block <- blocks

\* The three mutexes and the counter make a read-write lock.
LockSpec == Lock!Spec

\* While a writer writes no other block runs.
WritersAlone == Lock!WritersAlone

\* state says UNLOCKED only when no block runs: logout waits for that before
\* it drops the storage.
LockedWhileUsed ==
    (\E p \in Process : pc[p] \in {"reading", "writing"}) => locked

\* The readers that incremented the counter and have not decremented it.
CountedPoints ==
    {"waitNoWriter", "entering", "reading", "waitStateAgain", "cancelled"}
Counted == {p \in Process : pc[p] \in CountedPoints}

\* A cancelled reader could not decrement.
DecrementLost == readers > Cardinality(Counted)

\* "we're draining all outstanding readers to admit the writer": when no reader
\* is left the writers are not locked out, unless a decrement was lost.
OnlyLostDecrementsBlock ==
    (Counted = {} /\ \A p \in Process : pc[p] # "leaving")
        /\ allowNewWrites = This
    => DecrementLost

\* Whoever asks to read, reads or is cancelled, and whoever asks to write,
\* writes or is cancelled: until a decrement is lost neither a stream of
\* readers nor one of writers keeps the others out.
ReadersServed ==
    \A p \in Process :
        pc[p] = "waitAllowReads" ~>
            pc[p] \in {"reading", "cancelled"} \/ DecrementLost
WritersServed ==
    \A p \in Process :
        pc[p] = "waitAllowWrite" ~> pc[p] \in {"writing", "idle"} \/ DecrementLost
=============================================================================
