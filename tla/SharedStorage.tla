---------------------------- MODULE SharedStorage ----------------------------
(***************************************************************************)
(* One KeyStorageV2 used by several threads: the native calls that edit a  *)
(* storage although the app makes them under the READ lock of its file     *)
(* (removeHist, lastGeneratedPassw, otpNote, the source side of moveNote   *)
(* and moveOtpNote).                                                       *)
(*                                                                         *)
(* The snapshot is a record of shared pointers to lists.  An edit copies   *)
(* the snapshot and the lists it changes, works on the copies and installs *)
(* them; editMutex, a recursive mutex, is held by most edits from the copy *)
(* to the end, and by snapshot() for a moment.  A list is never changed    *)
(* once it is installed, but for the counter of a HOTP note, which otpNote *)
(* advances in place: field otpNotes of a snapshot is here the address of  *)
(* a list, and heap holds the lists.                                       *)
(*                                                                         *)
(* save() takes the snapshot anew for each of the two files.  Two saves of *)
(* one file write through two descriptors, each at its own offset.         *)
(* StorageSave has the errors and deaths within a save, left out here.     *)
(***************************************************************************)
EXTENDS KeyStorage2

CONSTANTS
    Thread,
    NoOne,          \* editMutex is free
    Start,          \* the unlocked storages the calls may find
    Hole,           \* bytes of the file that nobody wrote
    NoSnapshot,     \* a call has copied none
    CallBound       \* bound: how many calls are made

ASSUME NoOneAssumption == NoOne \notin Thread
ASSUME CallBoundAssumption == CallBound \in Nat
ASSUME StartAssumption == Start \subseteq DataSnapshot

VARIABLES
    memory,     \* _dataSnapshot
    heap,       \* the lists of otp notes
    editMutex,  \* who holds it
    main,       \* the storage file, cell by cell
    copy,       \* there is a file tempStoragePath
    pc, arg,    \* where each call is, its id, the counter it has read
    data,       \* the snapshot each call has copied
    cells,      \* what each save() has still to write, and where
    saveRaced,  \* the last save that began found another one at work
    made,       \* how many calls have been made
    codeRaced   \* a code was taken beside another one, or its list was copied
                \* or replaced meanwhile

edits == <<memory, heap, editMutex>>
files == <<main, copy, saveRaced>>
calls == <<pc, arg, data, cells>>
vars == <<edits, files, calls, codeRaced, made>>

-----------------------------------------------------------------------------
(* The file *)

\* the snapshot with its lists; counters are left out, they are read late
Contents(d, lists) ==
    FileOf([d EXCEPT !.otpNotes =
        [k \in DOMAIN lists[d.otpNotes] |->
            [lists[d.otpNotes][k] EXCEPT !.counter = 0]]])

\* A section is a cell: where sections differ in length the bytes that two
\* saves leave are worse than the cells.
Cells(d, lists) ==
    LET f == Contents(d, lists)
    IN  [k \in DOMAIN f.notes |-> [kind |-> "note", content |-> f.notes[k]]]
        \o <<[kind |-> "gens", content |-> f.generatedPassws],
             [kind |-> "otps", content |-> f.otpNotes]>>

Put(f, at, cell) ==
    [k \in 1 .. Max({Len(f), at}) |->
        IF k = at THEN cell ELSE IF k <= Len(f) THEN f[k] ELSE Hole]

-----------------------------------------------------------------------------

NoArg == [id |-> 0, counter |-> 0]

Init ==
    /\ \E d \in Start :
          /\ memory = [d EXCEPT !.otpNotes = 1]
          /\ heap = <<d.otpNotes>>
    /\ editMutex = NoOne
    /\ main = Cells(memory, heap) /\ copy = FALSE
    /\ pc = [t \in Thread |-> "idle"] /\ arg = [t \in Thread |-> NoArg]
    /\ data = [t \in Thread |-> NoSnapshot]
    /\ cells = [t \in Thread |-> [left |-> <<>>, at |-> 1]]
    /\ saveRaced = FALSE /\ codeRaced = FALSE /\ made = 0

Goto(t, point) == pc' = [pc EXCEPT ![t] = point]

About(t, id, counter) ==
    arg' = [arg EXCEPT ![t] = [id |-> id, counter |-> counter]]

\* what is left of a call is its save, or nothing
Done(t, point) ==
    /\ Goto(t, point)
    /\ arg' = [arg EXCEPT ![t] = NoArg]
    /\ data' = [data EXCEPT ![t] = NoSnapshot]

\* snapshot(), and the guard of a snapshot that is installed
CanLock(t) == editMutex \in {NoOne, t}
Copied(t) == data' = [data EXCEPT ![t] = memory]

OtpList == heap[memory.otpNotes]

-----------------------------------------------------------------------------
(* removeHist: removePasswHistory has no guard of its own, so that it may  *)
(* put back a list of otp notes that was replaced since it was copied.     *)

\* otpNote has read a counter and is about to store the next one
ReadingCode(t) == pc[t] = "counterRead"

HistIds == Ids(memory.generatedPassws) \cup HistoryIds(memory.notes)

RemoveHist(t, id) ==
    /\ pc[t] = "idle" /\ CanLock(t)
    /\ Copied(t)
    /\ About(t, id, 0)
    /\ Goto(t, "histCopied")
    /\ UNCHANGED <<edits, files, cells, codeRaced>>

InstallHist(t) ==
    /\ pc[t] = "histCopied" /\ CanLock(t)
    /\ LET d == RemovePasswHistory(data[t], arg[t].id)
       IN  memory' = IF d = data[t] THEN memory ELSE d
    /\ codeRaced' = (codeRaced \/
                      /\ memory'.otpNotes # memory.otpNotes
                      /\ \E u \in Thread : ReadingCode(u))
    /\ Done(t, "save")
    /\ UNCHANGED <<heap, editMutex, files, cells>>

-----------------------------------------------------------------------------
(* lastGeneratedPassw *)

LastGeneratedPassw(t) ==
    LET gens == memory.generatedPassws
    IN  /\ pc[t] = "idle" /\ CanLock(t)
        /\ IF gens = <<>>
           THEN Goto(t, "generate") /\ UNCHANGED arg
           ELSE /\ About(t, gens[Len(gens)].id, 0)
                /\ Goto(t, "look")
        /\ UNCHANGED <<edits, files, data, cells, codeRaced>>

\* the last id may be gone by now
Look(t) ==
    /\ pc[t] = "look" /\ CanLock(t)
    /\ Done(t, IF arg[t].id \in HistIds THEN "idle" ELSE "generate")
    /\ UNCHANGED <<edits, files, cells, codeRaced>>

\* Mutant: no guard.
GenerateUnguarded(t) ==
    /\ pc[t] = "generate" /\ CanLock(t)
    /\ Copied(t)
    /\ Goto(t, "generating")
    /\ UNCHANGED <<edits, files, arg, cells, codeRaced>>

\* genPassword
Generate(t) ==
    /\ pc[t] = "generate" /\ editMutex = NoOne
    /\ editMutex' = t
    /\ Copied(t)
    /\ Goto(t, "generating")
    /\ UNCHANGED <<memory, heap, files, arg, cells, codeRaced>>

InstallGenerated(t) ==
    /\ pc[t] = "generating" /\ CanLock(t)
    /\ \E passw \in Passws : memory' = GenPassword(data[t], passw, 0)
    /\ editMutex' = NoOne
    /\ Done(t, "save")
    /\ UNCHANGED <<heap, files, cells, codeRaced>>

-----------------------------------------------------------------------------
(* moveNote: the note is read, created in the target, and removed here.    *)
(* removeNote saves under its guard, moveNote once more.                   *)

MoveNote(t, id) ==
    /\ pc[t] = "idle" /\ CanLock(t)
    /\ About(t, id, 0)
    /\ Goto(t, "removeNote")
    /\ UNCHANGED <<edits, files, data, cells, codeRaced>>

CopyNotes(t) ==
    /\ pc[t] = "removeNote" /\ editMutex = NoOne
    /\ IF HasId(memory.notes, arg[t].id)
       THEN editMutex' = t /\ Copied(t) /\ Goto(t, "removingNote")
            /\ UNCHANGED arg
       ELSE Done(t, "save") /\ UNCHANGED editMutex
    /\ UNCHANGED <<memory, heap, files, cells, codeRaced>>

\* the guard is kept for the save
InstallNotes(t) ==
    /\ pc[t] = "removingNote" /\ CanLock(t)
    /\ memory' = RemoveNote(data[t], arg[t].id)
    /\ Done(t, "save")
    /\ UNCHANGED <<heap, editMutex, files, cells, codeRaced>>

-----------------------------------------------------------------------------
(* moveOtpNote *)

MoveOtpNote(t, id) ==
    /\ pc[t] = "idle" /\ CanLock(t)
    /\ About(t, id, 0)
    /\ Goto(t, "removeOtp")
    /\ UNCHANGED <<edits, files, data, cells, codeRaced>>

\* the list is copied with the counters it has now
CopyOtpNotes(t) ==
    /\ pc[t] = "removeOtp" /\ editMutex = NoOne
    /\ IF HasId(OtpList, arg[t].id)
       THEN /\ editMutex' = t
            /\ data' = [data EXCEPT ![t] =
                           [memory EXCEPT !.otpNotes = Len(heap) + 1]]
            /\ heap' = Append(heap, Erase(OtpList, arg[t].id))
            /\ codeRaced' = (codeRaced \/ \E u \in Thread : ReadingCode(u))
            /\ Goto(t, "removingOtp")
            /\ UNCHANGED arg
       ELSE Done(t, "save") /\ UNCHANGED <<editMutex, heap, codeRaced>>
    /\ UNCHANGED <<memory, files, cells>>

InstallOtpNotes(t) ==
    /\ pc[t] = "removingOtp" /\ CanLock(t)
    /\ memory' = data[t]
    /\ editMutex' = NoOne
    /\ Done(t, "save")
    /\ UNCHANGED <<heap, files, cells, codeRaced>>

-----------------------------------------------------------------------------
(* otpNote(increment): counter(counter() + 1) on the installed list *)

OtpNote(t, id) ==
    /\ pc[t] = "idle" /\ CanLock(t)
    /\ OtpList[IndexOf(OtpList, id)].method = "HOTP"
    /\ Copied(t)
    /\ About(t, id, OtpList[IndexOf(OtpList, id)].counter)
    /\ codeRaced' = (\E u \in Thread :
                        ReadingCode(u) \/ pc[u] = "removingOtp")
    /\ Goto(t, "counterRead")
    /\ UNCHANGED <<edits, files, cells>>

\* Mutant: the counter advances only when it was zero.
StoreFirstCounter(t) ==
    LET list == heap[data[t].otpNotes]
    IN  /\ pc[t] = "counterRead"
        /\ heap' = [heap EXCEPT ![data[t].otpNotes] =
              [list EXCEPT ![IndexOf(list, arg[t].id)].counter = 1]]
        /\ Done(t, "idle")
        /\ UNCHANGED <<memory, editMutex, files, cells, codeRaced>>

StoreCounter(t) ==
    LET list == heap[data[t].otpNotes]
    IN  /\ pc[t] = "counterRead"
        /\ heap' = [heap EXCEPT ![data[t].otpNotes] =
              [list EXCEPT ![IndexOf(list, arg[t].id)].counter =
                  arg[t].counter + 1]]
        /\ Done(t, "idle")
        /\ UNCHANGED <<memory, editMutex, files, cells, codeRaced>>

-----------------------------------------------------------------------------
(* save() *)

Saving(t) == pc[t] \in {"copySaved", "opened", "writing"}

\* the whole of save(tempStoragePath): nobody reads that file
SaveCopy(t) ==
    /\ pc[t] = "save" /\ CanLock(t)
    /\ copy' = TRUE
    /\ saveRaced' = (\E u \in Thread : Saving(u))
    /\ Goto(t, "copySaved")
    /\ UNCHANGED <<edits, main, arg, data, cells, codeRaced>>

\* Mutant: the file is not truncated.
OpenMainAsItIs(t) ==
    /\ pc[t] = "copySaved"
    /\ Goto(t, "opened")
    /\ UNCHANGED <<edits, files, arg, data, cells, codeRaced>>

OpenMain(t) ==
    /\ pc[t] = "copySaved"
    /\ main' = <<>>
    /\ Goto(t, "opened")
    /\ UNCHANGED <<edits, copy, saveRaced, arg, data, cells, codeRaced>>

TakeSnapshot(t) ==
    /\ pc[t] = "opened" /\ CanLock(t)
    /\ cells' = [cells EXCEPT ![t] =
                    [left |-> Cells(memory, heap), at |-> 1]]
    /\ Goto(t, "writing")
    /\ UNCHANGED <<edits, files, arg, data, codeRaced>>

Write(t) ==
    /\ pc[t] = "writing" /\ cells[t].left # <<>>
    /\ main' = Put(main, cells[t].at, Head(cells[t].left))
    /\ cells' = [cells EXCEPT ![t] =
                    [left |-> Tail(cells[t].left), at |-> cells[t].at + 1]]
    /\ UNCHANGED <<edits, copy, saveRaced, pc, arg, data, codeRaced>>

\* Mutant: removeNote keeps its guard.
CloseLocked(t) ==
    /\ pc[t] = "writing" /\ cells[t].left = <<>>
    /\ copy' = FALSE
    /\ Goto(t, IF editMutex = t THEN "save" ELSE "idle")
    /\ cells' = [cells EXCEPT ![t] = [left |-> <<>>, at |-> 1]]
    /\ UNCHANGED <<edits, main, saveRaced, arg, data, codeRaced>>

\* The copy is removed.  removeNote gives up its guard, and moveNote saves.
Close(t) ==
    /\ pc[t] = "writing" /\ cells[t].left = <<>>
    /\ copy' = FALSE
    /\ IF editMutex = t
       THEN editMutex' = NoOne /\ Goto(t, "save")
       ELSE UNCHANGED editMutex /\ Goto(t, "idle")
    /\ cells' = [cells EXCEPT ![t] = [left |-> <<>>, at |-> 1]]
    /\ UNCHANGED <<memory, heap, main, saveRaced, arg, data, codeRaced>>

-----------------------------------------------------------------------------

Guarded(t) ==
    \/ Generate(t) \/ InstallGenerated(t)
    \/ CopyNotes(t) \/ InstallNotes(t)
    \/ CopyOtpNotes(t) \/ InstallOtpNotes(t)

Save(t) ==
    SaveCopy(t) \/ OpenMain(t) \/ TakeSnapshot(t) \/ Write(t) \/ Close(t)

Step(t) ==
    /\ \/ InstallHist(t) \/ Look(t) \/ Guarded(t) \/ StoreCounter(t) \/ Save(t)
    /\ UNCHANGED made

Call(t) ==
    /\ made < CallBound /\ made' = made + 1
    /\ \/ LastGeneratedPassw(t)
       \/ \E id \in HistIds : RemoveHist(t, id)
       \/ \E id \in Ids(memory.notes) : MoveNote(t, id)
       \/ \E id \in Ids(OtpList) : MoveOtpNote(t, id) \/ OtpNote(t, id)

Next == \E t \in Thread : Call(t) \/ Step(t)

Spec == Init /\ [][Next]_vars

\* Threads run, and one that waits for editMutex gets it in the end.
Fairness == \A t \in Thread : SF_vars(Step(t))

FairSpec == Spec /\ Fairness

-----------------------------------------------------------------------------
(* Properties *)

\* An edit under editMutex works on the snapshot as it is when the edit is
\* installed: whatever runs beside it, none of them undoes another edit.
\* (removeHist, which holds no guard, does.)
GuardedEditsUndoNothing ==
    [][\A t \in Thread :
        /\ InstallGenerated(t) =>
              \E passw \in Passws : memory' = GenPassword(memory, passw, 0)
        /\ InstallNotes(t) => memory' = RemoveNote(memory, arg[t].id)
        /\ InstallOtpNotes(t) =>
              memory' = [memory EXCEPT !.otpNotes = memory'.otpNotes]]_vars

\* A code advances its counter by one unless another code, the copy of the
\* list for a removal, or an older list that removeHist puts back, comes in
\* between.
LoneCodesAdvance ==
    [][\A t \in Thread : StoreCounter(t) /\ ~ codeRaced =>
        LET id == arg[t].id
        IN  HasId(OtpList, id) =>
              OtpList'[IndexOf(OtpList', id)].counter
                  = OtpList[IndexOf(OtpList, id)].counter + 1]_vars

Quiet == \A t \in Thread : pc[t] = "idle"

\* When all calls have returned the file holds what the memory holds, unless
\* the last save began beside another one or another one began beside it.
LoneSavesAreCurrent == Quiet /\ ~ saveRaced => main = Cells(memory, heap)

\* f can be read to its end
Whole(f) ==
    \E n \in DOMAIN f :
        /\ Len(f) = n + 1 /\ f[n].kind = "gens" /\ f[n + 1].kind = "otps"
        /\ \A k \in 1 .. (n - 1) : f[k].kind = "note"

\* "everything went fine, you can delete the backup file": unless saves
\* raced, the file is whole whenever there is no copy.
LoneSavesKeepACopy == ~ saveRaced /\ ~ copy => Whole(main)

\* Every call returns: nobody waits for editMutex for ever, although
\* removeNote saves while it holds it.
CallsReturn == \A t \in Thread : pc[t] # "idle" ~> pc[t] = "idle"
=============================================================================
