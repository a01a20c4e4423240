---------------------------- MODULE CrypStorageV2 ----------------------------
(***************************************************************************)
(* The native storage engine of the app: app_mobile/src/main/cpp/          *)
(* cryp_storage_v2.cpp.  A map from engine identifiers to unlocked         *)
(* KeyStorageV2 objects; every call finds the object of its storage, edits *)
(* its snapshot and saves it to the file of the storage.                   *)
(*                                                                         *)
(* One action is one native call.  Calls on one storage do not overlap     *)
(* here (the app wraps them in the read-write lock of the file).  save()   *)
(* is one step with two outcomes, of which SaveOutcomes says which ones    *)
(* may happen: the file holds the snapshot, or an error left it as it was. *)
(* Most calls ignore that error, and so do the actions.                    *)
(***************************************************************************)
EXTENDS KeyStorage2

CONSTANTS
    Storages,       \* the storages of the device, a file each
    NoFile,         \* the storage file does not exist
    LoggedOut,      \* no object in the map for the storage
    SaveOutcomes,   \* which results save() may have: TRUE is success
    AnyGroup,       \* groups a caller may name, the storage's or not
    IdBound, GroupIdBound, CounterBound, TimeBound  \* bounds of the model

ASSUME SaveOutcomesAssumption == SaveOutcomes \subseteq BOOLEAN
ASSUME AnyGroupAssumption == AnyGroup \subseteq Int
ASSUME BoundsAssumption ==
    /\ IdBound \in Nat /\ GroupIdBound \in Nat
    /\ CounterBound \in Nat /\ TimeBound \in Nat
ASSUME NoFileAssumption == NoFile \notin FileSections
ASSUME LoggedOutAssumption == LoggedOut \notin DataSnapshot

VARIABLES
    file,       \* the sections of every storage file
    storages,   \* the snapshot of every unlocked storage
    now,        \* time(NULL)
    strays      \* groups a caller named while the storage did not have them

vars == <<file, storages, now, strays>>

Init ==
    /\ file = [s \in Storages |-> NoFile]
    /\ storages = [s \in Storages |-> LoggedOut]
    /\ now = 0
    /\ strays = [s \in Storages |-> {}]

LoggedIn(s) == storages[s] # LoggedOut

\* ids a caller may hold: any, live or stale
AnyId == ID_COUNTER_START .. (IdBound - 1)

InBounds(d) ==
    /\ d.idCounter <= IdBound
    /\ d.colorGroupIdCounter <= GroupIdBound

\* the call put snapshot d in the storage and saved it
Installed(s, d) ==
    /\ InBounds(d)
    /\ storages' = [storages EXCEPT ![s] = d]
    /\ \E ok \in SaveOutcomes :
          file' = IF ok THEN [file EXCEPT ![s] = FileOf(d)] ELSE file
    /\ UNCHANGED now

Saved(s, d) == Installed(s, d) /\ UNCHANGED strays

GroupsOf(x) == {0} \cup Ids(x.colorGroups)

\* so did a call that names group g
SavedInGroup(s, d, g) ==
    /\ Installed(s, d)
    /\ strays' = [strays EXCEPT ![s] = @ \cup ({g} \ GroupsOf(storages[s]))]

-----------------------------------------------------------------------------
(* Sessions *)

\* An old object of the storage is dropped first.  A missing file is created.
Login(s) ==
    /\ \/ /\ file[s] # NoFile
          /\ storages' = [storages EXCEPT ![s] = ReadAll(file[s])]
          /\ UNCHANGED file
       \/ /\ file[s] = NoFile
          /\ file' = [file EXCEPT ![s] = EmptyFile]
          /\ storages' = [storages EXCEPT ![s] = ReadAll(EmptyFile)]
    /\ UNCHANGED <<now, strays>>

Unlogin(s) ==
    /\ storages' = [storages EXCEPT ![s] = LoggedOut]
    /\ UNCHANGED <<file, now, strays>>

\* logoutAll(), and the end of the process
LogoutAll ==
    /\ storages' = [s \in Storages |-> LoggedOut]
    /\ UNCHANGED <<file, now, strays>>

-----------------------------------------------------------------------------
(* Colour groups *)

\* id 0 asks for a new group
SaveColorGroup(s, id, color) ==
    /\ LoggedIn(s)
    /\ Saved(s, IF id = 0 THEN CreateColorGroup(storages[s], color)
                          ELSE SetColorGroup(storages[s], id, color))

RemoveGroup(s, groupId) ==
    /\ LoggedIn(s)
    /\ Saved(s, RemoveColorGroup(storages[s], groupId))

\* setNote and setOtpNote with no flag, for each id that is found
Regroup(list, ids, groupId) ==
    [k \in 1 .. Len(list) |->
        IF list[k].id \in ids
        THEN [list[k] EXCEPT !.colorGroupId = groupId]
        ELSE list[k]]

SetNotesGroup(s, ids, groupId) ==
    /\ LoggedIn(s)
    /\ SavedInGroup(s, [storages[s] EXCEPT !.notes = Regroup(@, ids, groupId)],
                    groupId)

SetOtpNotesGroup(s, ids, groupId) ==
    /\ LoggedIn(s)
    /\ SavedInGroup(s, [storages[s] EXCEPT !.otpNotes = Regroup(@, ids, groupId)],
                    groupId)

-----------------------------------------------------------------------------
(* Notes *)

SaveNote(s, id, info, passw, groupId, setAll) ==
    /\ LoggedIn(s)
    /\ LET flags == IF setAll THEN {"INFO", "PASSW", "TRACK_HISTORY"} ELSE {}
           dnote == [id |-> id, info |-> info, passw |-> passw,
                     colorGroupId |-> groupId, history |-> <<>>]
       IN  SavedInGroup(s,
               IF id = 0 THEN CreateNote(storages[s], dnote, flags, now)
                         ELSE SetNote(storages[s], dnote, flags, now),
               groupId)

DeleteNote(s, id) ==
    /\ LoggedIn(s)
    /\ Saved(s, RemoveNote(storages[s], id))

\* The end of a move: the target is saved, the source is saved without the
\* item, and neither error is looked at.  (The app never moves an item to the
\* storage it is in.)
Moved(s, t, source, target) ==
    /\ InBounds(target)
    /\ \E targetOk, sourceOk \in SaveOutcomes :
          file' = [file EXCEPT
             ![t] = IF targetOk THEN FileOf(target) ELSE @,
             ![s] = IF sourceOk THEN FileOf(source) ELSE @]
    /\ storages' = [storages EXCEPT ![t] = target, ![s] = source]
    /\ UNCHANGED <<now, strays>>

\* The process dies in a move after the save of the target.
DiedMoving(t, target) ==
    /\ InBounds(target)
    /\ \E ok \in SaveOutcomes :
          file' = IF ok THEN [file EXCEPT ![t] = FileOf(target)] ELSE file
    /\ storages' = [x \in Storages |-> LoggedOut]
    /\ UNCHANGED <<now, strays>>

CanMove(s, t) == s # t /\ LoggedIn(s) /\ LoggedIn(t)

\* Mutant: the note is read without its history.
NoteCreatedWithoutHistory(s, t, id) ==
    LET note == storages[s].notes[IndexOf(storages[s].notes, id)]
    IN  CreateNote(storages[t],
                   [note EXCEPT !.colorGroupId = 0, !.history = <<>>], {}, now)

\* The note is created in the target without a group and with its history.
NoteCreated(s, t, id) ==
    LET note == storages[s].notes[IndexOf(storages[s].notes, id)]
    IN  CreateNote(storages[t], [note EXCEPT !.colorGroupId = 0], {}, now)

MoveNote(s, t, id) ==
    /\ CanMove(s, t)
    /\ HasId(storages[s].notes, id)
    /\ Moved(s, t, RemoveNote(storages[s], id), NoteCreated(s, t, id))

DieInMoveNote(s, t, id) ==
    /\ CanMove(s, t)
    /\ HasId(storages[s].notes, id)
    /\ DiedMoving(t, NoteCreated(s, t, id))

-----------------------------------------------------------------------------
(* Otp notes *)

\* otpNote(ptr, increment): the advanced counter is not saved
OtpNote(s, id) ==
    /\ LoggedIn(s)
    /\ HasId(storages[s].otpNotes, id)
    /\ LET d == IncrementHotp(storages[s], id)
       IN  /\ \A k \in DOMAIN d.otpNotes :
                 d.otpNotes[k].counter <= CounterBound
           /\ storages' = [storages EXCEPT ![s] = d]
    /\ UNCHANGED <<file, now, strays>>

SaveOtpNote(s, dnote, setAll) ==
    /\ LoggedIn(s)
    /\ LET flags == IF setAll THEN {"INFO", "PASSW"} ELSE {"INFO"}
       IN  SavedInGroup(s,
               IF dnote.id = 0
               THEN CreateOtpNote(storages[s], dnote, flags)
               ELSE SetOtpNote(storages[s], dnote, flags),
               dnote.colorGroupId)

DeleteOtpNote(s, id) ==
    /\ LoggedIn(s)
    /\ Saved(s, RemoveOtpNote(storages[s], id))

OtpNoteCreated(s, t, id) ==
    LET note == storages[s].otpNotes[IndexOf(storages[s].otpNotes, id)]
    IN  CreateOtpNote(storages[t], [note EXCEPT !.colorGroupId = 0], {})

MoveOtpNote(s, t, id) ==
    /\ CanMove(s, t)
    /\ HasId(storages[s].otpNotes, id)
    /\ Moved(s, t, RemoveOtpNote(storages[s], id), OtpNoteCreated(s, t, id))

DieInMoveOtpNote(s, t, id) ==
    /\ CanMove(s, t)
    /\ HasId(storages[s].otpNotes, id)
    /\ DiedMoving(t, OtpNoteCreated(s, t, id))

-----------------------------------------------------------------------------
(* Generated passwords and history *)

GenerateNewPassw(s, passw) ==
    /\ LoggedIn(s)
    /\ Saved(s, GenPassword(storages[s], passw, now))

\* the first call on an empty history generates a password
LastGeneratedPassw(s, passw) ==
    /\ LoggedIn(s)
    /\ storages[s].generatedPassws = <<>>
    /\ Saved(s, GenPassword(storages[s], passw, now))

RemoveHist(s, id) ==
    /\ LoggedIn(s)
    /\ Saved(s, RemovePasswHistory(storages[s], id))

\* The generated passwords are listed, the old ones are removed one by one.
\* Note histories are not listed.
WithoutOld(d, oldest) ==
    LET hist == d.generatedPassws
        left[k \in 0 .. Len(hist)] ==
            IF k = 0 THEN d
            ELSE IF hist[k].genTime < oldest
            THEN RemovePasswHistory(left[k - 1], hist[k].id)
            ELSE left[k - 1]
    IN  left[Len(hist)]

RemoveOldHist(s, oldest) ==
    /\ LoggedIn(s)
    /\ Saved(s, WithoutOld(storages[s], oldest))

Tick ==
    /\ now < TimeBound
    /\ now' = now + 1
    /\ UNCHANGED <<file, storages, strays>>

-----------------------------------------------------------------------------

OtpInputs ==
    [id : {0} \cup AnyId, info : Infos, secret : AnyPassw,
     method : OtpMethods, counter : 0 .. CounterBound,
     colorGroupId : AnyGroup]

SessionStep == (\E s \in Storages : Login(s) \/ Unlogin(s)) \/ LogoutAll

GroupStep(s) ==
    \/ \E color \in Colors :
          \E id \in {0} \cup ID_COUNTER_START .. (GroupIdBound - 1) :
             SaveColorGroup(s, id, color)
    \/ \E id \in ID_COUNTER_START .. (GroupIdBound - 1) : RemoveGroup(s, id)
    \/ \E ids \in SUBSET AnyId, g \in AnyGroup :
          SetNotesGroup(s, ids, g) \/ SetOtpNotesGroup(s, ids, g)

NoteStep(s) ==
    \/ \E id \in {0} \cup AnyId, info \in Infos, passw \in AnyPassw :
          \E g \in AnyGroup, setAll \in BOOLEAN :
             SaveNote(s, id, info, passw, g, setAll)
    \/ \E id \in AnyId : DeleteNote(s, id)
    \/ \E t \in Storages, id \in AnyId :
          MoveNote(s, t, id) \/ DieInMoveNote(s, t, id)

OtpStep(s) ==
    \/ \E id \in AnyId : OtpNote(s, id) \/ DeleteOtpNote(s, id)
    \/ \E dnote \in OtpInputs, setAll \in BOOLEAN :
          SaveOtpNote(s, dnote, setAll)
    \/ \E t \in Storages, id \in AnyId :
          MoveOtpNote(s, t, id) \/ DieInMoveOtpNote(s, t, id)

PasswStep(s) ==
    \/ \E passw \in AnyPassw : GenerateNewPassw(s, passw)
    \/ \E passw \in Passws : LastGeneratedPassw(s, passw)
    \/ \E id \in AnyId : RemoveHist(s, id)
    \/ \E oldest \in 1 .. TimeBound : RemoveOldHist(s, oldest)

Next ==
    \/ SessionStep
    \/ \E s \in Storages :
          GroupStep(s) \/ NoteStep(s) \/ OtpStep(s) \/ PasswStep(s)
    \/ Tick

Spec == Init /\ [][Next]_vars

-----------------------------------------------------------------------------
(* Properties *)

\* Every snapshot and every file has well-formed content; in particular no
\* field of a new note or group keeps its zero-filled value.
TypeOK ==
    /\ file \in [Storages -> FileSections \cup {NoFile}]
    /\ storages \in [Storages -> DataSnapshot \cup {LoggedOut}]
    /\ now \in Nat
    /\ strays \in [Storages -> SUBSET Int]

\* The id counters of an unlocked storage are ahead of every id in it.
CountersAhead == \A s \in Storages : LoggedIn(s) => IdsBelowCounters(storages[s])

\* Notes, history entries, otp notes and generated passwords share one id
\* space (a history id is looked up in two kinds of list), so no two items
\* of an unlocked storage may have the same id, whatever the order of calls,
\* saves, logouts and renumbering logins.
IdsUnique == \A s \in Storages : LoggedIn(s) => NoSharedIds(storages[s])

ResolvedBut(x, others) ==
    LET known == GroupsOf(x) \cup others
    IN  /\ \A k \in DOMAIN x.notes : x.notes[k].colorGroupId \in known
        /\ \A k \in DOMAIN x.otpNotes : x.otpNotes[k].colorGroupId \in known

\* No note or otp note, in memory or in a file, refers to a group that is
\* gone: the id of a removed group may be given to a new group after the next
\* login, which would then adopt the item.  Only a caller who names a group
\* the storage does not have, such as one an open editor still shows, puts an
\* item in there.
GroupsResolved ==
    \A s \in Storages :
        /\ file[s] # NoFile => ResolvedBut(file[s], strays[s])
        /\ LoggedIn(s) => ResolvedBut(storages[s], strays[s])

\* The history of a note is ordered: each entry was replaced no later than
\* the entry before it, and the current password is the newest.
HistoryNewestFirst ==
    \A s \in Storages : LoggedIn(s) =>
        \A k \in DOMAIN storages[s].notes :
            LET note == storages[s].notes[k]
                times == <<note.genTime>> \o
                    [i \in 1 .. Len(note.history) |-> note.history[i].genTime]
            IN  \A i, j \in DOMAIN times : i < j => times[i] >= times[j]

WithoutCounters(f) ==
    [f EXCEPT !.otpNotes =
        [k \in 1 .. Len(@) |-> [@[k] EXCEPT !.counter = 0]]]

\* When no save fails, everything an unlocked storage shows is in its file
\* after each call, except for the HOTP counters otpNote has advanced: a
\* logout or the death of the process loses nothing else.
FileCurrent ==
    \A s \in Storages : LoggedIn(s) =>
        /\ file[s] # NoFile
        /\ WithoutCounters(FileOf(storages[s])) = WithoutCounters(file[s])

KnownPassws(note) ==
    ({note.passw} \cup
     {note.history[i].passw : i \in DOMAIN note.history}) \ {EmptyPassw}

\* Except for removeHist, no call on a live session makes a password of a
\* surviving note unfindable: what a note's password is replaced by, the
\* old one stays in its history.
PasswordsKept ==
    [][\A s \in Storages :
        \/ ~ LoggedIn(s) \/ ~ LoggedIn(s)' \/ Login(s)
        \/ \E id \in AnyId : RemoveHist(s, id)
        \/ \A j \in DOMAIN storages[s].notes :
             \A k \in DOMAIN storages'[s].notes :
                storages[s].notes[j].id = storages'[s].notes[k].id =>
                    KnownPassws(storages[s].notes[j])
                        \subseteq KnownPassws(storages'[s].notes[k])]_vars

\* what a user would miss of the content x of a file or a snapshot
Items(x) ==
    {[info |-> x.notes[k].info, passw |-> x.notes[k].passw,
      history |-> KnownPassws(x.notes[k])] : k \in DOMAIN x.notes}
    \cup {[info |-> x.otpNotes[k].info, secret |-> x.otpNotes[k].secret,
           method |-> x.otpNotes[k].method] : k \in DOMAIN x.otpNotes}

SavedItems == UNION {Items(file[s]) : s \in {x \in Storages : file[x] # NoFile}}

Move ==
    \E s, t \in Storages, id \in AnyId :
        MoveNote(s, t, id) \/ MoveOtpNote(s, t, id)
DieInMove ==
    \E s, t \in Storages, id \in AnyId :
        DieInMoveNote(s, t, id) \/ DieInMoveOtpNote(s, t, id)

\* When no save fails, a move (also one the process dies in) leaves every
\* note and otp note, with its old passwords, in some storage file.
MovesLoseNothing ==
    [][Move \/ DieInMove => SavedItems \subseteq SavedItems']_vars

=============================================================================
