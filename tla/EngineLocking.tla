--------------------------- MODULE EngineLocking ---------------------------
(***************************************************************************)
(* The locks the calls of CryptStorageSuspended and EditStorageSuspended   *)
(* take: one read-write lock per storage file, and two of them for a move. *)
(*                                                                         *)
(* A call is the sequence of its lock requests, outermost first.  The      *)
(* locks are ReadWriteMutex at the grain a caller sees: gate is the holder *)
(* of allowNewReads, which a writer keeps from the moment it waits for the *)
(* readers until it leaves, and the readers are the calls let in.          *)
(* Cancellation is the subject of ReadWriteMutex and left out here.        *)
(***************************************************************************)
EXTENDS Integers, Sequences, FiniteSets

CONSTANTS
    Process,        \* coroutines that call the engine
    File,           \* storage files, each with a lock
    NoOne,          \* a gate is open
    NoteMoves,      \* pairs <<source, target>> the user moves notes between
    FileMoves       \* pairs <<from, to>> the user renames files between

ASSUME NoOneAssumption == NoOne \notin Process
ASSUME MovesAssumption ==
    NoteMoves \subseteq File \X File /\ FileMoves \subseteq File \X File

VARIABLES
    locks,      \* what the call of each process still holds or asks for
    granted,    \* how many of them it has
    gate        \* who holds allowNewReads of each file

vars == <<locks, granted, gate>>

Request == [file : File, mode : {"read", "write"}]
Read(f) == [file |-> f, mode |-> "read"]
Write(f) == [file |-> f, mode |-> "write"]

\* The write lock of the target is taken before the read lock of the source.
MoveNote(source, target) == <<Write(target), Read(source)>>

MoveFile(from, to) ==
    IF from = to THEN <<Write(to)>> ELSE <<Read(from), Write(to)>>

Calls ==
    {<<r>> : r \in Request}
    \cup {MoveNote(m[1], m[2]) : m \in NoteMoves}
    \cup {MoveFile(m[1], m[2]) : m \in FileMoves}

Init ==
    /\ locks = [p \in Process |-> <<>>]
    /\ granted = [p \in Process |-> 0]
    /\ gate = [f \in File |-> NoOne]

Waiting(p) == granted[p] < Len(locks[p])
Wanted(p) == locks[p][granted[p] + 1]

Has(p, request) == \E i \in 1..granted[p] : locks[p][i] = request
Readers(f) == {p \in Process : Has(p, Read(f))}

Call(p) ==
    /\ locks[p] = <<>>
    /\ \E c \in Calls : locks' = [locks EXCEPT ![p] = c]
    /\ UNCHANGED <<granted, gate>>

Grant(p) == granted' = [granted EXCEPT ![p] = granted[p] + 1]

\* Mutant: a reader does not wait for the writer.
EnterReadAnyway(p) ==
    /\ Waiting(p) /\ Wanted(p).mode = "read"
    /\ Grant(p)
    /\ UNCHANGED <<locks, gate>>

EnterRead(p) ==
    /\ Waiting(p) /\ Wanted(p).mode = "read"
    /\ gate[Wanted(p).file] = NoOne
    /\ Grant(p)
    /\ UNCHANGED <<locks, gate>>

\* allowNewReads.withLock: no new reader from here on
TakeGate(p) ==
    /\ Waiting(p) /\ Wanted(p).mode = "write"
    /\ gate[Wanted(p).file] = NoOne
    /\ gate' = [gate EXCEPT ![Wanted(p).file] = p]
    /\ UNCHANGED <<locks, granted>>

\* allowNewWrites.withLock: the readers have left
EnterWrite(p) ==
    /\ Waiting(p) /\ Wanted(p).mode = "write"
    /\ gate[Wanted(p).file] = p
    /\ Readers(Wanted(p).file) = {}
    /\ Grant(p)
    /\ UNCHANGED <<locks, gate>>

\* Mutant: a writer that leaves keeps the readers out.
ReleaseLocked(p) ==
    /\ locks[p] # <<>> /\ granted[p] = Len(locks[p])
    /\ locks' = [locks EXCEPT ![p] = SubSeq(locks[p], 1, granted[p] - 1)]
    /\ granted' = [granted EXCEPT ![p] = granted[p] - 1]
    /\ UNCHANGED gate

\* the innermost block ends
Release(p) ==
    LET last == locks[p][granted[p]]
    IN /\ locks[p] # <<>> /\ granted[p] = Len(locks[p])
       /\ locks' = [locks EXCEPT ![p] = SubSeq(locks[p], 1, granted[p] - 1)]
       /\ granted' = [granted EXCEPT ![p] = granted[p] - 1]
       /\ gate' = IF last.mode = "write"
                  THEN [gate EXCEPT ![last.file] = NoOne]
                  ELSE gate

Step(p) == EnterRead(p) \/ TakeGate(p) \/ EnterWrite(p) \/ Release(p)

Next == \E p \in Process : Call(p) \/ Step(p)

Spec == Init /\ [][Next]_vars

\* A call that can go on goes on, and a lock that is freed again and again is
\* granted to each of those who wait: ReadWriteMutex!ReadersServed and
\* WritersServed, with native calls that return.
Fairness == \A p \in Process : SF_vars(Step(p))

FairSpec == Spec /\ Fairness

-----------------------------------------------------------------------------
(* Properties *)

\* Calls hold what they were granted, and a gate is held by a call that
\* writes the file or waits for its readers.
TypeOK ==
    /\ locks \in [Process -> Seq(Request)]
    /\ granted \in [Process -> 0..2]
    /\ gate \in [File -> Process \cup {NoOne}]
    /\ \A p \in Process : granted[p] <= Len(locks[p]) /\ Len(locks[p]) <= 2
    /\ \A f \in File, p \in Process :
          /\ gate[f] = p =>
                Has(p, Write(f)) \/ (Waiting(p) /\ Wanted(p) = Write(f))
          /\ Has(p, Write(f)) => gate[f] = p

\* Whom p waits for.
Blockers(p) ==
    LET f == Wanted(p).file
    IN IF gate[f] = NoOne THEN {}
       ELSE IF Wanted(p).mode = "write" /\ gate[f] = p THEN Readers(f)
       ELSE {gate[f]}

\* Each of S waits for another one of S: none will ever go on.
CircularWait(S) ==
    /\ S # {}
    /\ \A p \in S : Waiting(p) /\ Blockers(p) \cap S # {}

NoCircularWait == \A S \in SUBSET Process : ~CircularWait(S)

\* A move that holds file f while it waits for file g.
MoveWaits(f, g) ==
    \E p \in Process :
        /\ Waiting(p) /\ granted[p] = 1
        /\ locks[p][1].file = f /\ Wanted(p).file = g

\* A note moved each way between two storages, a note moved onto its own file,
\* a note moved against a file move.
MovesInACircle ==
    \E F \in SUBSET File :
        F # {} /\ \A f \in F : \E g \in F : MoveWaits(f, g)

\* Whatever else is called, calls wait in a circle only when moves in flight
\* form a circle of files.
OnlyMovesInACircleBlock ==
    (\E S \in SUBSET Process : CircularWait(S)) => MovesInACircle

\* The block each process runs under the lock of file f.
BlockOn(f) ==
    [p \in Process |-> IF Has(p, Write(f)) THEN "write"
                       ELSE IF Has(p, Read(f)) THEN "read" ELSE "none"]

FileLock(f) == INSTANCE ReadWriteLock WITH block <- BlockOn(f)

\* Every file's lock is a read-write lock, also for calls that hold two: each
\* step is a step or a stutter of every FileLock(f)!Spec.
EachFileLocked ==
    /\ \A f \in File : FileLock(f)!Init
    /\ [][\A f \in File : [FileLock(f)!Next]_(BlockOn(f))]_vars

\* Every call ends, the moves too, unless moves have come to a circle.
CallsEnd ==
    \A p \in Process : locks[p] # <<>> ~> locks[p] = <<>> \/ MovesInACircle
=============================================================================
