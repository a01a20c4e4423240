------------------------ MODULE EngineLocking_proofs ------------------------
(***************************************************************************)
(* Proofs about EngineLocking: every file's lock is a read-write lock, and *)
(* calls wait in a circle only when moves form a circle of files.          *)
(***************************************************************************)
EXTENDS EngineLocking, WellFoundedInduction, TLAPS

\* What asks for two locks is a whole call: one lock of each mode, and no
\* file locked for reading and then for writing.
WellFormed(c) ==
    Len(c) = 2 =>
        /\ c \in Calls
        /\ c[1].mode # c[2].mode
        /\ c[1].mode = "read" => c[1].file # c[2].file

IInv == TypeOK /\ \A p \in Process : WellFormed(locks[p])

-----------------------------------------------------------------------------

LEMMA CallsAreWellFormed ==
    ASSUME NEW c \in Calls
    PROVE  c \in Seq(Request) /\ Len(c) \in {1, 2} /\ WellFormed(c)
<1>1. CASE \E r \in Request : c = <<r>>
  BY <1>1 DEF WellFormed
<1>2. CASE \E m \in NoteMoves : c = MoveNote(m[1], m[2])
  <2>1. PICK m \in NoteMoves : c = <<Write(m[2]), Read(m[1])>>
    BY <1>2 DEF MoveNote
  <2>2. m[1] \in File /\ m[2] \in File
    BY MovesAssumption
  <2> QED
    BY <2>1, <2>2 DEF WellFormed, Write, Read, Request
<1>3. CASE \E m \in FileMoves : c = MoveFile(m[1], m[2])
  <2>1. PICK m \in FileMoves : c = MoveFile(m[1], m[2])
    BY <1>3
  <2>2. m[1] \in File /\ m[2] \in File
    BY MovesAssumption
  <2>3. CASE m[1] = m[2]
    BY <2>1, <2>2, <2>3 DEF MoveFile, WellFormed, Write, Request
  <2>4. CASE m[1] # m[2]
    BY <2>1, <2>2, <2>4 DEF MoveFile, WellFormed, Write, Read, Request
  <2> QED
    BY <2>3, <2>4
<1> QED
  BY <1>1, <1>2, <1>3 DEF Calls

\* What a release leaves of a call.
LEMMA ShortenedCall ==
    ASSUME NEW c \in Seq(Request), Len(c) \in {1, 2}
    PROVE  LET d == SubSeq(c, 1, Len(c) - 1)
           IN /\ d \in Seq(Request) /\ Len(d) = Len(c) - 1
              /\ \A i \in 1..(Len(c) - 1) : d[i] = c[i]
  OBVIOUS

-----------------------------------------------------------------------------
(* Type correctness *)

LEMMA InitIInv == Init => IInv
<1> SUFFICES ASSUME Init PROVE IInv
  OBVIOUS
<1>1. \A p \in Process : locks[p] = <<>> /\ granted[p] = 0
  BY DEF Init
<1>2. \A p \in Process : Len(locks[p]) = 0
  BY <1>1
<1>3. \A p \in Process : \A r : ~Has(p, r)
  BY <1>1 DEF Has
<1>4. \A p \in Process, f \in File : gate[f] # p
  BY NoOneAssumption DEF Init
<1>5. locks \in [Process -> Seq(Request)] /\ granted \in [Process -> 0..2]
      /\ gate \in [File -> Process \cup {NoOne}]
  BY DEF Init
<1> QED
  BY <1>1, <1>2, <1>3, <1>4, <1>5 DEF IInv, TypeOK, WellFormed

LEMMA CallKeepsIInv ==
    ASSUME IInv, NEW p \in Process, Call(p) PROVE IInv'
<1>1. PICK c \in Calls : locks' = [locks EXCEPT ![p] = c]
  BY DEF Call
<1>2. granted' = granted /\ gate' = gate /\ locks[p] = <<>>
  BY DEF Call
<1>3. granted[p] = 0
  BY <1>2 DEF IInv, TypeOK
<1>4. \A f \in File : gate[f] # p
  BY <1>2, <1>3 DEF IInv, TypeOK, Has, Waiting
<1>5. \A q \in Process \ {p} : locks'[q] = locks[q]
  BY <1>1 DEF IInv, TypeOK
<1>6. locks'[p] = c /\ locks' \in [Process -> Seq(Request)]
  BY <1>1, CallsAreWellFormed DEF IInv, TypeOK
<1>7. \A q \in Process : \A r : Has(q, r)' <=> Has(q, r)
  BY <1>2, <1>3, <1>5 DEF Has
<1>8. \A q \in Process \ {p} :
         (Waiting(q)' <=> Waiting(q)) /\ Wanted(q)' = Wanted(q)
  BY <1>2, <1>5 DEF Waiting, Wanted
<1>9. \A q \in Process :
         /\ granted'[q] <= Len(locks'[q]) /\ Len(locks'[q]) <= 2
         /\ WellFormed(locks'[q])
  <2> TAKE q \in Process
  <2>1. CASE q = p
    <3>1. Len(c) \in {1, 2} /\ WellFormed(c)
      BY CallsAreWellFormed
    <3>2. locks'[q] = c /\ granted'[q] = 0
      BY <2>1, <1>2, <1>3, <1>6
    <3>3. WellFormed(locks'[q])
      BY <3>1, <3>2, Zenon
    <3>4. Len(locks'[q]) \in {1, 2}
      BY <3>1, <3>2, Zenon
    <3>5. granted'[q] = 0
      BY <3>2
    <3>6. granted'[q] <= Len(locks'[q]) /\ Len(locks'[q]) <= 2
      <4> DEFINE n == Len(locks'[q])
      <4>1. n \in {1, 2}
        BY <3>4
      <4> HIDE DEF n
      <4>2. 0 <= n /\ n <= 2
        BY <4>1
      <4> QED
        BY <3>5, <4>2 DEF n
    <3> QED
      BY <3>3, <3>6, Zenon
  <2>2. CASE q # p
    BY <2>2, <1>2, <1>5 DEF IInv, TypeOK
  <2> QED
    BY <2>1, <2>2
<1>10. \A f \in File, q \in Process :
         /\ gate'[f] = q => Has(q, Write(f))'
                            \/ (Waiting(q)' /\ Wanted(q)' = Write(f))
         /\ Has(q, Write(f))' => gate'[f] = q
  BY <1>2, <1>4, <1>7, <1>8 DEF IInv, TypeOK
<1> QED
  BY <1>2, <1>6, <1>9, <1>10 DEF IInv, TypeOK, Write

LEMMA WantedIsRequest ==
    ASSUME IInv, NEW p \in Process, Waiting(p)
    PROVE  /\ Wanted(p) \in Request /\ Wanted(p).file \in File
           /\ granted[p] = 0 \/ (granted[p] = 1 /\ Len(locks[p]) = 2)
<1>1. /\ granted[p] \in 0..2 /\ Len(locks[p]) \in Nat
      /\ granted[p] < Len(locks[p]) /\ Len(locks[p]) <= 2
      /\ locks[p] \in Seq(Request)
  BY DEF IInv, TypeOK, Waiting
<1>2. Wanted(p) \in Request
  BY <1>1 DEF Wanted
<1>3. granted[p] = 0 \/ (granted[p] = 1 /\ Len(locks[p]) = 2)
  <2> DEFINE n == Len(locks[p])
             g == granted[p]
  <2>1. g \in 0..2 /\ n \in Nat /\ g < n /\ n <= 2
    BY <1>1
  <2> HIDE DEF n, g
  <2>2. g = 0 \/ (g = 1 /\ n = 2)
    BY <2>1
  <2> QED
    BY <2>2 DEF n, g
<1>4. Wanted(p).file \in File
  BY <1>2 DEF Request
<1> QED
  BY <1>2, <1>3, <1>4

\* What granting p its next request changes.
LEMMA GrantAddsWanted ==
    ASSUME IInv, NEW p \in Process, Waiting(p), Grant(p), locks' = locks
    PROVE  /\ granted' \in [Process -> 0..2] /\ granted'[p] = granted[p] + 1
           /\ granted'[p] <= Len(locks[p])
           /\ Wanted(p) \in Request
           /\ \A r : Has(p, r)' <=> Has(p, r) \/ r = Wanted(p)
           /\ \A q \in Process \ {p} :
                 /\ granted'[q] = granted[q]
                 /\ \A r : Has(q, r)' <=> Has(q, r)
                 /\ (Waiting(q)' <=> Waiting(q)) /\ Wanted(q)' = Wanted(q)
<1>1. /\ granted[p] \in 0..2 /\ Len(locks[p]) \in Nat
      /\ granted[p] < Len(locks[p]) /\ Len(locks[p]) <= 2
      /\ locks[p] \in Seq(Request)
  BY DEF IInv, TypeOK, Waiting
<1>2. granted[p] \in 0..1
  BY <1>1
<1>3. granted' \in [Process -> 0..2] /\ granted'[p] = granted[p] + 1
  BY <1>2 DEF Grant, IInv, TypeOK
<1>4. \A q \in Process \ {p} : granted'[q] = granted[q]
  BY DEF Grant, IInv, TypeOK
<1>5. Wanted(p) \in Request
  BY <1>1 DEF Wanted
<1>6. ASSUME NEW r PROVE Has(p, r)' <=> Has(p, r) \/ r = Wanted(p)
  <2>1. 1..(granted[p] + 1) = (1..granted[p]) \cup {granted[p] + 1}
    BY <1>2
  <2> QED
    BY <1>3, <2>1 DEF Has, Wanted
<1>7. \A q \in Process \ {p} :
         /\ \A r : Has(q, r)' <=> Has(q, r)
         /\ (Waiting(q)' <=> Waiting(q)) /\ Wanted(q)' = Wanted(q)
  BY <1>4 DEF Has, Waiting, Wanted
<1> QED
  BY <1>1, <1>3, <1>4, <1>5, <1>6, <1>7

LEMMA EnterReadKeepsIInv ==
    ASSUME IInv, NEW p \in Process, EnterRead(p) PROVE IInv'
<1>1. /\ Waiting(p) /\ Grant(p) /\ locks' = locks /\ gate' = gate
      /\ gate[Wanted(p).file] = NoOne /\ Wanted(p).mode = "read"
  BY DEF EnterRead
<1>2. ASSUME NEW f \in File, NEW q \in Process
      PROVE  /\ gate'[f] = q => Has(q, Write(f))'
                                \/ (Waiting(q)' /\ Wanted(q)' = Write(f))
             /\ Has(q, Write(f))' => gate'[f] = q
  <2>1. CASE q = p
    <3>1. Wanted(p) # Write(f)
      BY <1>1 DEF Write
    <3> QED
      BY <1>1, <2>1, <3>1, GrantAddsWanted DEF IInv, TypeOK
  <2>2. CASE q # p
    BY <1>1, <2>2, GrantAddsWanted DEF IInv, TypeOK
  <2> QED
    BY <2>1, <2>2
<1>3. \A q \in Process : granted'[q] <= Len(locks[q])
  BY <1>1, GrantAddsWanted DEF IInv, TypeOK
<1> QED
  BY <1>1, <1>2, <1>3, GrantAddsWanted DEF IInv, TypeOK, Write

LEMMA TakeGateKeepsIInv ==
    ASSUME IInv, NEW p \in Process, TakeGate(p) PROVE IInv'
<1>1. /\ Waiting(p) /\ locks' = locks /\ granted' = granted
      /\ gate[Wanted(p).file] = NoOne /\ Wanted(p).mode = "write"
      /\ gate' = [gate EXCEPT ![Wanted(p).file] = p]
  BY DEF TakeGate
<1>2. Wanted(p) \in Request
  BY <1>1 DEF IInv, TypeOK, Waiting, Wanted
<1>3. gate' \in [File -> Process \cup {NoOne}]
  BY <1>1 DEF IInv, TypeOK
<1>4. \A q \in Process :
         /\ \A r : Has(q, r)' <=> Has(q, r)
         /\ (Waiting(q)' <=> Waiting(q)) /\ Wanted(q)' = Wanted(q)
  BY <1>1 DEF Has, Waiting, Wanted
<1>5. ASSUME NEW f \in File, NEW q \in Process
      PROVE  /\ gate'[f] = q => Has(q, Write(f))'
                                \/ (Waiting(q)' /\ Wanted(q)' = Write(f))
             /\ Has(q, Write(f))' => gate'[f] = q
  <2>1. CASE f = Wanted(p).file
    <3>1. Wanted(p) = Write(f)
      BY <1>1, <1>2, <2>1 DEF Write, Request
    <3>2. gate'[f] = p /\ gate[f] = NoOne
      BY <1>1, <2>1 DEF IInv, TypeOK
    <3>3. ~Has(q, Write(f))
      BY <3>2, NoOneAssumption DEF IInv, TypeOK
    <3> QED
      BY <1>1, <1>4, <3>1, <3>2, <3>3
  <2>2. CASE f # Wanted(p).file
    BY <1>1, <1>4, <2>2 DEF IInv, TypeOK
  <2> QED
    BY <2>1, <2>2
<1> QED
  BY <1>1, <1>3, <1>5 DEF IInv, TypeOK, Write

LEMMA EnterWriteKeepsIInv ==
    ASSUME IInv, NEW p \in Process, EnterWrite(p) PROVE IInv'
<1>1. /\ Waiting(p) /\ Grant(p) /\ locks' = locks /\ gate' = gate
      /\ gate[Wanted(p).file] = p /\ Wanted(p).mode = "write"
  BY DEF EnterWrite
<1>2. ASSUME NEW f \in File, NEW q \in Process
      PROVE  /\ gate'[f] = q => Has(q, Write(f))'
                                \/ (Waiting(q)' /\ Wanted(q)' = Write(f))
             /\ Has(q, Write(f))' => gate'[f] = q
  <2>1. CASE q = p
    <3>1. Wanted(p) = Write(f) => Wanted(p).file = f
      BY DEF Write
    <3> QED
      BY <1>1, <2>1, <3>1, GrantAddsWanted DEF IInv, TypeOK
  <2>2. CASE q # p
    BY <1>1, <2>2, GrantAddsWanted DEF IInv, TypeOK
  <2> QED
    BY <2>1, <2>2
<1>3. \A q \in Process : granted'[q] <= Len(locks[q])
  BY <1>1, GrantAddsWanted DEF IInv, TypeOK
<1> QED
  BY <1>1, <1>2, <1>3, GrantAddsWanted DEF IInv, TypeOK, Write

\* What the end of a block changes.
LEMMA ReleaseDropsLast ==
    ASSUME IInv, NEW p \in Process, Release(p)
    PROVE  LET last == locks[p][granted[p]]
           IN /\ granted[p] \in {1, 2} /\ granted[p] = Len(locks[p])
              /\ last \in Request
              /\ Has(p, last)
              /\ granted' \in [Process -> 0..2]
              /\ locks' \in [Process -> Seq(Request)]
              /\ granted'[p] = granted[p] - 1 /\ Len(locks'[p]) = granted'[p]
              /\ \A r : Has(p, r)' <=> Has(p, r) /\ r # last
              /\ \A q \in Process \ {p} :
                    /\ granted'[q] = granted[q] /\ locks'[q] = locks[q]
                    /\ \A r : Has(q, r)' <=> Has(q, r)
                    /\ (Waiting(q)' <=> Waiting(q)) /\ Wanted(q)' = Wanted(q)
<1> DEFINE c == locks[p]
           last == c[granted[p]]
<1>1. /\ c \in Seq(Request) /\ Len(c) \in {1, 2} /\ granted[p] = Len(c)
      /\ WellFormed(c)
  BY DEF Release, IInv, TypeOK
<1>2. last \in Request /\ Has(p, last)
  <2> HIDE DEF c
  <2>0. granted[p] = Len(c) /\ Len(c) \in {1, 2} /\ c \in Seq(Request)
    BY <1>1
  <2>a. granted[p] \in {1, 2}
    BY <2>0
  <2>1. granted[p] \in 1..granted[p] /\ granted[p] \in 1..Len(c)
    <3>1. \A n \in {1, 2} : n \in 1..n
      OBVIOUS
    <3> QED
      BY <2>0, <2>a, <3>1
  <2>2. last \in Request
    BY <2>0, <2>1
  <2> QED
    BY <2>1, <2>2, Zenon DEF Has, c
<1>3. locks' = [locks EXCEPT ![p] = SubSeq(c, 1, Len(c) - 1)]
      /\ granted' = [granted EXCEPT ![p] = granted[p] - 1]
  BY <1>1 DEF Release
<1>4. /\ locks'[p] \in Seq(Request) /\ Len(locks'[p]) = Len(c) - 1
      /\ \A i \in 1..(Len(c) - 1) : locks'[p][i] = c[i]
  BY <1>1, <1>3, ShortenedCall DEF IInv, TypeOK
<1>5. granted'[p] = granted[p] - 1
  BY <1>3 DEF IInv, TypeOK
<1>6. granted' \in [Process -> 0..2]
  BY <1>1, <1>3 DEF IInv, TypeOK
<1>7. locks' \in [Process -> Seq(Request)]
  BY <1>3, <1>4 DEF IInv, TypeOK
<1>8. \A q \in Process \ {p} : granted'[q] = granted[q] /\ locks'[q] = locks[q]
  BY <1>3 DEF IInv, TypeOK
<1>9. ASSUME NEW r PROVE Has(p, r)' <=> Has(p, r) /\ r # last
  <2>1. CASE Len(c) = 1
    BY <2>1, <1>1, <1>4, <1>5 DEF Has
  <2>2. CASE Len(c) = 2
    <3>1. c[1] # c[2]
      BY <1>1, <2>2 DEF WellFormed
    <3>2. Has(p, r)' <=> r = c[1]
      BY <1>1, <1>4, <1>5, <2>2 DEF Has
    <3>3. Has(p, r) <=> r = c[1] \/ r = c[2]
      BY <1>1, <2>2 DEF Has
    <3> QED
      BY <3>1, <3>2, <3>3, <1>1, <2>2
  <2> QED
    BY <1>1, <2>1, <2>2
<1>10. \A q \in Process \ {p} :
         /\ \A r : Has(q, r)' <=> Has(q, r)
         /\ (Waiting(q)' <=> Waiting(q)) /\ Wanted(q)' = Wanted(q)
  BY <1>8 DEF Has, Waiting, Wanted
<1> QED
  BY <1>1, <1>2, <1>4, <1>5, <1>6, <1>7, <1>8, <1>9, <1>10

LEMMA ReleaseKeepsIInv ==
    ASSUME IInv, NEW p \in Process, Release(p) PROVE IInv'
<1> DEFINE last == locks[p][granted[p]]
<1>1. gate' = IF last.mode = "write" THEN [gate EXCEPT ![last.file] = NoOne]
              ELSE gate
  BY DEF Release
<1>2. gate' \in [File -> Process \cup {NoOne}]
  BY <1>1 DEF IInv, TypeOK
<1>3. last \in Request /\ Has(p, last) /\ ~Waiting(p)
  BY ReleaseDropsLast DEF Waiting
<1>4. ASSUME NEW f \in File, NEW q \in Process
      PROVE  /\ gate'[f] = q => Has(q, Write(f))'
                                \/ (Waiting(q)' /\ Wanted(q)' = Write(f))
             /\ Has(q, Write(f))' => gate'[f] = q
  <2>1. CASE last = Write(f)
    <3>1. gate'[f] = NoOne /\ gate[f] = p
      BY <1>1, <1>3, <2>1 DEF IInv, TypeOK, Write
    <3>2. ~Has(q, Write(f))'
      <4>1. q # p => ~Has(q, Write(f))
        BY <3>1 DEF IInv, TypeOK
      <4> QED
        BY <2>1, <4>1, ReleaseDropsLast
    <3> QED
      BY <3>1, <3>2, NoOneAssumption
  <2>2. CASE last # Write(f)
    <3>1. gate'[f] = gate[f]
      BY <1>1, <1>3, <2>2 DEF IInv, TypeOK, Write, Request
    <3>2. Has(q, Write(f))' <=> Has(q, Write(f))
      BY <2>2, ReleaseDropsLast
    <3> QED
      BY <1>3, <3>1, <3>2, ReleaseDropsLast DEF IInv, TypeOK
  <2> QED
    BY <2>1, <2>2
<1>5. \A q \in Process :
         /\ granted'[q] <= Len(locks'[q]) /\ Len(locks'[q]) <= 2
         /\ WellFormed(locks'[q])
  <2> TAKE q \in Process
  <2>1. CASE q = p
    <3>1. granted'[p] \in {0, 1} /\ Len(locks'[p]) = granted'[p]
      <4>1. granted[p] \in {1, 2} /\ granted'[p] = granted[p] - 1
        BY ReleaseDropsLast
      <4>2. Len(locks'[p]) = granted'[p]
        BY ReleaseDropsLast
      <4> QED
        BY <4>1, <4>2
    <3> QED
      BY <2>1, <3>1 DEF WellFormed
  <2>2. CASE q # p
    BY <2>2, ReleaseDropsLast DEF IInv, TypeOK
  <2> QED
    BY <2>1, <2>2
<1> QED
  BY <1>2, <1>4, <1>5, ReleaseDropsLast DEF IInv, TypeOK, Write

LEMMA NextIInv == IInv /\ [Next]_vars => IInv'
<1> SUFFICES ASSUME IInv, [Next]_vars PROVE IInv'
  OBVIOUS
<1>1. CASE UNCHANGED vars
  BY <1>1 DEF vars, IInv, TypeOK, WellFormed, Has, Waiting, Wanted, Write
<1>2. CASE Next
  BY <1>2, CallKeepsIInv, EnterReadKeepsIInv, TakeGateKeepsIInv,
     EnterWriteKeepsIInv, ReleaseKeepsIInv DEF Next, Step
<1> QED
  BY <1>1, <1>2

LEMMA AlwaysIInv == Spec => []IInv
BY InitIInv, NextIInv, PTL DEF Spec

\* Calls hold what they were granted, and a file's gate belongs to the call
\* that writes it or waits to.
THEOREM TypeCorrect == Spec => []TypeOK
BY AlwaysIInv, PTL DEF IInv

-----------------------------------------------------------------------------
(* Circular waits *)

\* Whoever q is that p waits for, if q waits too it is a move that holds the
\* file p wants, or q waits for the readers of that very file.
LEMMA BlockerHolds ==
    ASSUME IInv, NEW p \in Process, NEW q \in Blockers(p), Waiting(p), Waiting(q)
    PROVE  /\ q \in Process /\ Wanted(q).file \in File
           /\ \/ MoveWaits(Wanted(p).file, Wanted(q).file)
              \/ /\ Wanted(q) = Write(Wanted(p).file)
                 /\ gate[Wanted(p).file] = q /\ q # p
<1> DEFINE f == Wanted(p).file
<1>1. Wanted(p) \in Request /\ f \in File
  BY WantedIsRequest
<1>2. q \in Process
  BY <1>1 DEF Blockers, Readers, IInv, TypeOK
<1>3. Wanted(q) \in Request /\ Wanted(q).file \in File
  BY <1>2, WantedIsRequest
<1>4. ASSUME NEW r \in Request, Has(q, r), r.file = f
      PROVE  MoveWaits(f, Wanted(q).file)
  <2>1. PICK i \in 1..granted[q] : locks[q][i] = r
    BY <1>4 DEF Has
  <2>2. granted[q] = 1 /\ i = 1
    BY <1>2, <2>1 DEF IInv, TypeOK, Waiting
  <2> QED
    BY <1>2, <1>4, <2>1, <2>2 DEF MoveWaits
<1>5. CASE Wanted(p).mode = "write" /\ gate[f] = p
  <2>1. Has(q, Read(f))
    BY <1>1, <1>5, NoOneAssumption DEF Blockers, Readers
  <2> QED
    BY <1>1, <1>2, <1>3, <1>4, <2>1 DEF Read, Request
<1>6. CASE ~(Wanted(p).mode = "write" /\ gate[f] = p)
  <2>1. gate[f] = q
    BY <1>1, <1>6 DEF Blockers
  <2>2. CASE Has(q, Write(f))
    BY <1>1, <1>2, <1>3, <1>4, <2>2 DEF Write, Request
  <2>3. CASE Wanted(q) = Write(f)
    BY <1>2, <1>3, <1>6, <2>1, <2>3 DEF Write
  <2> QED
    BY <1>1, <1>2, <2>1, <2>2, <2>3 DEF IInv, TypeOK
<1> QED
  BY <1>2, <1>3, <1>5, <1>6

\* The files the members of a circle wait for are a circle of moves.
LEMMA CircleOfFiles ==
    ASSUME IInv, NEW S \in SUBSET Process, CircularWait(S)
    PROVE  LET F == {Wanted(p).file : p \in S}
           IN  /\ F # {} /\ F \in SUBSET File
               /\ \A f \in F : \E g \in F : MoveWaits(f, g)
<1> DEFINE F == {Wanted(p).file : p \in S}
<1>1. F # {}
  BY DEF CircularWait
<1>2. F \in SUBSET File
  BY WantedIsRequest DEF CircularWait
<1>3. ASSUME NEW p \in S PROVE \E g \in F : MoveWaits(Wanted(p).file, g)
  <2>1. PICK q \in S : q \in Blockers(p)
    BY DEF CircularWait
  <2>2. Waiting(p) /\ Waiting(q) /\ p \in Process /\ q \in Process
    BY DEF CircularWait
  <2>3. CASE MoveWaits(Wanted(p).file, Wanted(q).file)
    BY <2>3
  <2>4. CASE /\ Wanted(q) = Write(Wanted(p).file)
             /\ gate[Wanted(p).file] = q /\ q # p
    <3>1. Wanted(q).file = Wanted(p).file /\ Wanted(q).mode = "write"
      BY <2>4 DEF Write
    <3>2. PICK r \in S : r \in Blockers(q)
      BY DEF CircularWait
    <3>3. r \in Process /\ Waiting(r)
      BY DEF CircularWait
    <3>4. Blockers(q) = Readers(Wanted(q).file)
      BY <2>2, <2>4, <3>1, NoOneAssumption DEF Blockers
    <3>5. r # q
      <4>1. SUFFICES ASSUME r = q PROVE FALSE
        OBVIOUS
      <4>2. Has(q, Read(Wanted(q).file)) /\ Wanted(q) = Write(Wanted(q).file)
        BY <2>4, <3>1, <3>2, <3>4, <4>1 DEF Readers
      <4>3. /\ Len(locks[q]) = 2 /\ granted[q] = 1
            /\ locks[q][1] = Read(Wanted(q).file)
            /\ locks[q][2] = Wanted(q)
        <5>1. granted[q] # 0
          BY <4>2 DEF Has
        <5>2. Len(locks[q]) = 2 /\ granted[q] = 1
          BY <2>2, <5>1, WantedIsRequest
        <5> QED
          BY <4>2, <5>2 DEF Has, Wanted
      <4>4. locks[q][1].mode = "read" /\ locks[q][1].file = locks[q][2].file
        BY <4>3 DEF Read
      <4> QED
        BY <2>2, <4>3, <4>4 DEF IInv, WellFormed
    <3>6. MoveWaits(Wanted(q).file, Wanted(r).file)
      BY <2>2, <3>2, <3>3, <3>4, <3>5, BlockerHolds, NoOneAssumption, <2>4, <3>1
    <3> QED
      BY <3>1, <3>6
  <2> QED
    BY <2>1, <2>2, <2>3, <2>4, BlockerHolds
<1> QED
  BY <1>1, <1>2, <1>3

\* Whatever calls are made, in any number and on any files, they wait in a
\* circle only when moves in flight form a circle of files.
THEOREM OnlyMovesBlock == Spec => []OnlyMovesInACircleBlock
<1>1. IInv => OnlyMovesInACircleBlock
  BY CircleOfFiles DEF OnlyMovesInACircleBlock, MovesInACircle
<1> QED
  BY <1>1, AlwaysIInv, PTL

\* The moves respect an order of the files in which no file is below itself:
\* a note moves upwards, a file is renamed downwards.
OrderedMoves(R) ==
    /\ IsWellFoundedOn(R, File)
    /\ \A m \in NoteMoves : <<m[1], m[2]>> \in R
    /\ \A m \in FileMoves : m[1] # m[2] => <<m[2], m[1]>> \in R

\* Then whatever else is called, no calls ever wait in a circle.
THEOREM OrderedMovesNeverBlock ==
    ASSUME NEW R, OrderedMoves(R)
    PROVE  Spec => []NoCircularWait
<1>1. ASSUME IInv, NEW f \in File, NEW g \in File, MoveWaits(f, g)
      PROVE  <<g, f>> \in R
  <2>1. PICK p \in Process : /\ Waiting(p) /\ granted[p] = 1
                             /\ locks[p][1].file = f /\ locks[p][2].file = g
    BY <1>1 DEF MoveWaits, Wanted
  <2>2. Len(locks[p]) = 2 /\ locks[p] \in Calls
    BY <1>1, <2>1, WantedIsRequest DEF IInv, WellFormed
  <2>3. CASE \E r \in Request : locks[p] = <<r>>
    BY <2>2, <2>3
  <2>4. CASE \E m \in NoteMoves : locks[p] = MoveNote(m[1], m[2])
    <3>1. PICK m \in NoteMoves : locks[p] = <<Write(m[2]), Read(m[1])>>
      BY <2>4 DEF MoveNote
    <3>2. m[2] = f /\ m[1] = g
      BY <2>1, <3>1 DEF Read, Write
    <3> QED
      BY <3>2 DEF OrderedMoves
  <2>5. CASE \E m \in FileMoves : locks[p] = MoveFile(m[1], m[2])
    <3>1. PICK m \in FileMoves : locks[p] = MoveFile(m[1], m[2])
      BY <2>5
    <3>2. m[1] # m[2]
      BY <2>2, <3>1 DEF MoveFile
    <3>3. locks[p] = <<Read(m[1]), Write(m[2])>>
      BY <3>1, <3>2 DEF MoveFile
    <3>4. m[1] = f /\ m[2] = g
      BY <2>1, <3>3 DEF Read, Write
    <3> QED
      BY <3>2, <3>4 DEF OrderedMoves
  <2> QED
    BY <2>2, <2>3, <2>4, <2>5 DEF Calls
<1>2. ASSUME IInv PROVE NoCircularWait
  <2> SUFFICES ASSUME NEW S \in SUBSET Process, CircularWait(S) PROVE FALSE
    BY DEF NoCircularWait
  <2> DEFINE F == {Wanted(p).file : p \in S}
  <2>1. /\ F # {} /\ F \in SUBSET File
        /\ \A f \in F : \E g \in F : MoveWaits(f, g)
    BY <1>2, CircleOfFiles
  <2> HIDE DEF F
  <2>2. PICK f \in F : \A g \in F : ~ (<<g, f>> \in R)
    BY <2>1, WFMin DEF OrderedMoves
  <2> QED
    BY <1>1, <1>2, <2>1, <2>2
<1> QED
  BY <1>2, AlwaysIInv, PTL

-----------------------------------------------------------------------------
(* The lock of each file *)

LEMMA BlockedInside ==
    ASSUME IInv, NEW f \in File, NEW p \in Process
    PROVE  /\ BlockOn(f)[p] = "write" <=> Has(p, Write(f))
           /\ BlockOn(f)[p] = "read" <=> Has(p, Read(f)) /\ ~Has(p, Write(f))
           /\ BlockOn(f)[p] \in {"none", "read", "write"}
           /\ BlockOn(f)[p] = "write" => gate[f] = p
BY DEF BlockOn, IInv, TypeOK

\* A block on f begins or ends for p and for nobody else.
LEMMA OthersKeepBlocks ==
    ASSUME NEW f \in File, NEW p \in Process, NEW b,
           \A q \in Process \ {p} : \A r : Has(q, r)' <=> Has(q, r),
           BlockOn(f)'[p] = b
    PROVE  BlockOn(f)' = [BlockOn(f) EXCEPT ![p] = b]
<1>1. \A q \in Process \ {p} : BlockOn(f)'[q] = BlockOn(f)[q]
  BY DEF BlockOn
<1>2. DOMAIN BlockOn(f)' = Process /\ DOMAIN BlockOn(f) = Process
  BY DEF BlockOn
<1> QED
  BY <1>1, <1>2 DEF BlockOn

LEMMA SameBlocks ==
    ASSUME NEW f \in File,
           \A q \in Process : \A r \in {Read(f), Write(f)} :
              Has(q, r)' <=> Has(q, r)
    PROVE  BlockOn(f)' = BlockOn(f)
BY DEF BlockOn

LEMMA EnterReadBlocks ==
    ASSUME IInv, NEW p \in Process, EnterRead(p), NEW f \in File
    PROVE  [FileLock(f)!Next]_(BlockOn(f))
<1>1. /\ Waiting(p) /\ Grant(p) /\ locks' = locks /\ gate' = gate
      /\ gate[Wanted(p).file] = NoOne /\ Wanted(p).mode = "read"
  BY DEF EnterRead
<1>2. CASE Wanted(p).file = f
  <2>1. Wanted(p) = Read(f)
    BY <1>1, <1>2, GrantAddsWanted DEF Read, Request
  <2>2. \A q \in Process : BlockOn(f)[q] # "write"
    BY <1>1, <1>2, BlockedInside, NoOneAssumption
  <2>3. BlockOn(f)[p] = "none"
    <3>1. ~Has(p, Read(f))
      <4> SUFFICES ASSUME Has(p, Read(f)) PROVE FALSE
        OBVIOUS
      <4>1. granted[p] = 1 /\ Len(locks[p]) = 2
        BY <1>1, WantedIsRequest DEF Has
      <4>2. locks[p][1].mode = "read" /\ locks[p][2].mode = "read"
        BY <1>1, <4>1 DEF Has, Wanted, Read
      <4> QED
        BY <4>1, <4>2 DEF IInv, WellFormed
    <3> QED
      BY <2>2, <3>1, BlockedInside
  <2>4. BlockOn(f)' = [BlockOn(f) EXCEPT ![p] = "read"]
    <3>1. Has(p, Read(f))' /\ ~Has(p, Write(f))'
      BY <1>1, <2>1, <2>2, BlockedInside, GrantAddsWanted DEF Read, Write
    <3>2. BlockOn(f)'[p] = "read"
      BY <3>1 DEF BlockOn
    <3> QED
      BY <1>1, <3>2, GrantAddsWanted, OthersKeepBlocks
  <2> QED
    BY <2>2, <2>3, <2>4 DEF FileLock!Next, FileLock!EnterRead
<1>3. CASE Wanted(p).file # f
  <2>1. Wanted(p) # Read(f) /\ Wanted(p) # Write(f)
    BY <1>3 DEF Read, Write
  <2>2. \A q \in Process : \A r \in {Read(f), Write(f)} :
           Has(q, r)' <=> Has(q, r)
    BY <1>1, <2>1, GrantAddsWanted
  <2>3. BlockOn(f)' = BlockOn(f)
    BY <2>2, SameBlocks
  <2> QED
    BY <2>3
<1> QED
  BY <1>2, <1>3

LEMMA EnterWriteBlocks ==
    ASSUME IInv, NEW p \in Process, EnterWrite(p), NEW f \in File
    PROVE  [FileLock(f)!Next]_(BlockOn(f))
<1>1. /\ Waiting(p) /\ Grant(p) /\ locks' = locks /\ gate' = gate
      /\ gate[Wanted(p).file] = p /\ Wanted(p).mode = "write"
      /\ Readers(Wanted(p).file) = {}
  BY DEF EnterWrite
<1>2. CASE Wanted(p).file = f
  <2>1. Wanted(p) = Write(f)
    BY <1>1, <1>2, GrantAddsWanted DEF Write, Request
  <2>2. ~Has(p, Write(f))
    <3> SUFFICES ASSUME Has(p, Write(f)) PROVE FALSE
      OBVIOUS
    <3>1. granted[p] = 1 /\ Len(locks[p]) = 2
      BY <1>1, WantedIsRequest DEF Has
    <3>2. locks[p][1].mode = "write" /\ locks[p][2].mode = "write"
      BY <1>1, <3>1 DEF Has, Wanted, Write
    <3> QED
      BY <3>1, <3>2 DEF IInv, WellFormed
  <2>3. \A q \in Process : BlockOn(f)[q] = "none"
    <3> TAKE q \in Process
    <3>1. ~Has(q, Read(f))
      BY <1>1, <1>2 DEF Readers
    <3>2. ~Has(q, Write(f))
      BY <1>1, <1>2, <2>2 DEF IInv, TypeOK
    <3> QED
      BY <3>1, <3>2, BlockedInside
  <2>4. BlockOn(f)' = [BlockOn(f) EXCEPT ![p] = "write"]
    <3>1. BlockOn(f)'[p] = "write"
      BY <1>1, <2>1, GrantAddsWanted DEF BlockOn
    <3> QED
      BY <1>1, <3>1, GrantAddsWanted, OthersKeepBlocks
  <2> QED
    BY <2>3, <2>4 DEF FileLock!Next, FileLock!EnterWrite
<1>3. CASE Wanted(p).file # f
  <2>1. Wanted(p) # Read(f) /\ Wanted(p) # Write(f)
    BY <1>3 DEF Read, Write
  <2>2. \A q \in Process : \A r \in {Read(f), Write(f)} :
           Has(q, r)' <=> Has(q, r)
    BY <1>1, <2>1, GrantAddsWanted
  <2>3. BlockOn(f)' = BlockOn(f)
    BY <2>2, SameBlocks
  <2> QED
    BY <2>3
<1> QED
  BY <1>2, <1>3

LEMMA ReleaseBlocks ==
    ASSUME IInv, NEW p \in Process, Release(p), NEW f \in File
    PROVE  [FileLock(f)!Next]_(BlockOn(f))
<1> DEFINE last == locks[p][granted[p]]
<1>1. last \in Request /\ Has(p, last)
  BY ReleaseDropsLast
<1>2. CASE last = Read(f) \/ last = Write(f)
  <2>1. BlockOn(f)[p] # "none"
    BY <1>1, <1>2 DEF BlockOn
  <2>2. CASE Has(p, Write(f)) /\ last = Read(f)
    <3>1. Has(p, Write(f))'
      BY <2>2, ReleaseDropsLast DEF Read, Write
    <3>2. BlockOn(f)'[p] = BlockOn(f)[p]
      BY <2>2, <3>1 DEF BlockOn
    <3>3. BlockOn(f)' = [BlockOn(f) EXCEPT ![p] = BlockOn(f)[p]]
      BY <3>2, ReleaseDropsLast, OthersKeepBlocks
    <3> QED
      BY <3>3 DEF BlockOn
  <2>3. CASE ~(Has(p, Write(f)) /\ last = Read(f))
    <3>1. ~Has(p, Write(f))'
      BY <1>2, <2>3, ReleaseDropsLast
    <3>2. ~Has(p, Read(f))'
      <4> SUFFICES ASSUME Has(p, Read(f))' PROVE FALSE
        OBVIOUS
      <4>1. Has(p, Read(f)) /\ last # Read(f) /\ last = Write(f)
        BY <1>2, ReleaseDropsLast
      <4>2. granted[p] = 2 /\ Len(locks[p]) = 2 /\ locks[p][1] = Read(f)
        <5>1. granted[p] = 1 => (Has(p, Read(f)) <=> Read(f) = last)
          BY DEF Has
        <5>2. granted[p] = 2 => (Has(p, Read(f)) <=>
                                   Read(f) = locks[p][1] \/ Read(f) = last)
          BY DEF Has
        <5>3. granted[p] \in {1, 2} /\ granted[p] = Len(locks[p])
          BY ReleaseDropsLast
        <5> QED
          BY <4>1, <5>1, <5>2, <5>3
      <4>3. locks[p][1].mode = "read" /\ locks[p][1].file = locks[p][2].file
        BY <4>1, <4>2 DEF Read, Write
      <4> QED
        BY <4>2, <4>3 DEF IInv, WellFormed
    <3>3. BlockOn(f)'[p] = "none"
      BY <3>1, <3>2 DEF BlockOn
    <3>4. BlockOn(f)' = [BlockOn(f) EXCEPT ![p] = "none"]
      BY <3>3, ReleaseDropsLast, OthersKeepBlocks
    <3> QED
      BY <2>1, <3>4 DEF FileLock!Next, FileLock!Exit
  <2> QED
    BY <2>2, <2>3
<1>3. CASE last # Read(f) /\ last # Write(f)
  BY <1>3, ReleaseDropsLast, SameBlocks
<1> QED
  BY <1>2, <1>3

\* For any files, processes and moves, the calls see one read-write lock per
\* file, those that hold two included.
THEOREM FilesAreLocked == Spec => EachFileLocked
<1>1. Init => \A f \in File : FileLock(f)!Init
  BY DEF Init, FileLock!Init, BlockOn, Has
<1>2. IInv /\ [Next]_vars => \A f \in File : [FileLock(f)!Next]_(BlockOn(f))
  <2> SUFFICES ASSUME IInv, [Next]_vars, NEW f \in File
               PROVE  [FileLock(f)!Next]_(BlockOn(f))
    OBVIOUS
  <2>1. CASE UNCHANGED vars
    BY <2>1 DEF vars, BlockOn, Has
  <2>2. ASSUME NEW p \in Process, Call(p)
        PROVE  [FileLock(f)!Next]_(BlockOn(f))
    <3>1. \A q \in Process : \A r : Has(q, r)' <=> Has(q, r)
      <4> TAKE q \in Process
      <4>1. granted' = granted
        BY <2>2 DEF Call
      <4>2. CASE q = p
        <5>1. granted[q] = 0
          BY <2>2, <4>2 DEF Call, IInv, TypeOK
        <5> QED
          BY <4>1, <5>1 DEF Has
      <4>3. CASE q # p
        <5>1. locks'[q] = locks[q]
          BY <2>2, <4>3 DEF Call, IInv, TypeOK
        <5> QED
          BY <4>1, <5>1 DEF Has
      <4> QED
        BY <4>2, <4>3
    <3> QED
      BY <3>1, SameBlocks
  <2>3. ASSUME NEW p \in Process, TakeGate(p)
        PROVE  [FileLock(f)!Next]_(BlockOn(f))
    BY <2>3, SameBlocks DEF TakeGate, Has
  <2> QED
    BY <2>1, <2>2, <2>3, EnterReadBlocks, EnterWriteBlocks, ReleaseBlocks
    DEF Next, Step
<1> QED
  BY <1>1, <1>2, AlwaysIInv, PTL DEF Spec, EachFileLocked
=============================================================================
