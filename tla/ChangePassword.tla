--------------------------- MODULE ChangePassword ---------------------------
(***************************************************************************)
(* Edits of a whole storage file: change of its password (saveNewPassw,    *)
(* saveNewPasswStrategy), its name (editStorage), beside a session that    *)
(* keeps the storage it opened and saves it over the file at every edit.   *)
(*                                                                         *)
(* A password is never checked.  It makes the keys, every field is sealed  *)
(* with them on its own, and one file may hold notes under several         *)
(* passwords; a field opened with another one is garbled, and stays so     *)
(* when it is sealed anew.                                                 *)
(*                                                                         *)
(* A change holds the write lock of the file from its first step to its    *)
(* last, so nothing comes in between but the death of the process.  A      *)
(* session that was open before is open after it.                          *)
(***************************************************************************)
EXTENDS KeyStorage2

CONSTANTS
    Passwords,      \* what may be typed to open a storage
    Texts,          \* contents of fields: each is written once
    Garbled,        \* a field opened with the wrong password
    NoFile, LoggedOut, NoChange,
    Strategies,     \* the lists of strategies a change may be given
    EditBound,      \* bound: changes, renamings and removed groups
    GroupIdBound    \* bound: ids of colour groups

Sealed == [key : Passwords, text : Texts \cup {Garbled}]

\* StoragePasswMigrateStrategy
Strategy ==
    [currentPassword : Passwords, newPassw : Passwords, isDefault : BOOLEAN,
     noteIds : SUBSET Nat, otpNoteIds : SUBSET Nat]

\* the names the header of a file holds here
Names == {"", "old", "new"}

StorageFile == [name : Names, file : FileSections]
Change ==
    [next : {"save", "save temp", "unlink", "rename"}, before : FileSections,
     after : FileSections, strategies : Seq(Strategy)]

ASSUME SealedAssumption == Infos = Sealed /\ Passws = Sealed
ASSUME GarbledAssumption == Garbled \notin Texts
ASSUME StrategiesAssumption == Strategies \subseteq Seq(Strategy)
ASSUME NothingAssumption == NoFile \notin StorageFile /\ NoChange \notin Change

VARIABLES
    main,       \* the storage file: its name and sections
    temp,       \* the file path-temp.ckey: copy of save(), or of a change
    session,    \* the object of a session: password, name, snapshot
    change,     \* the change in progress: its next step, what it writes
    lossy,      \* why a text may be lost
    renamed,    \* the name editStorage gave last
    written,    \* the texts that were ever saved
    edits       \* how many bounded calls have been made

files == <<main, temp>>
vars == <<main, temp, session, change, lossy, renamed, written, edits>>

-----------------------------------------------------------------------------
(* Fields *)

Decrypt(passw, field) == IF field.key = passw THEN field.text ELSE Garbled
Encrypt(passw, text) == [key |-> passw, text |-> text]

Rekeyed(field, old, new) == Encrypt(new, Decrypt(old, field))
RekeyedHistory(hist, old, new) ==
    [i \in DOMAIN hist |->
        [hist[i] EXCEPT !.passw = Rekeyed(hist[i].passw, old, new)]]

-----------------------------------------------------------------------------
(* What a change copies.  A group gets the next free id, a note keeps the  *)
(* number of its group.                                                    *)

CopyGroups(d, groups) ==
    LET copied[k \in 0 .. Len(groups)] ==
            IF k = 0 THEN d
            ELSE CreateColorGroup(copied[k - 1], groups[k].color)
    IN  copied[Len(groups)]

\* Mutant: the history of a note is left behind.
CopyNoteOnly(d, note, old, new) ==
    CreateNote(d, [info |-> Rekeyed(note.info, old, new),
                   passw |-> Rekeyed(note.passw, old, new),
                   colorGroupId |-> note.colorGroupId,
                   history |-> <<>>], {}, 0)

CopyNote(d, note, old, new) ==
    CreateNote(d, [info |-> Rekeyed(note.info, old, new),
                   passw |-> Rekeyed(note.passw, old, new),
                   colorGroupId |-> note.colorGroupId,
                   history |-> RekeyedHistory(note.history, old, new)], {}, 0)

CopyOtpNote(d, otp, old, new) ==
    CreateOtpNote(d, [info |-> Rekeyed(otp.info, old, new),
                      secret |-> Rekeyed(otp.secret, old, new),
                      method |-> otp.method, counter |-> otp.counter,
                      colorGroupId |-> otp.colorGroupId], {})

CopyNotes(d, notes, ids, old, new) ==
    LET copied[k \in 0 .. Len(notes)] ==
            IF k = 0 THEN d
            ELSE IF notes[k].id \in ids
            THEN CopyNote(copied[k - 1], notes[k], old, new)
            ELSE copied[k - 1]
    IN  copied[Len(notes)]

CopyOtpNotes(d, otps, ids, old, new) ==
    LET copied[k \in 0 .. Len(otps)] ==
            IF k = 0 THEN d
            ELSE IF otps[k].id \in ids
            THEN CopyOtpNote(copied[k - 1], otps[k], old, new)
            ELSE copied[k - 1]
    IN  copied[Len(otps)]

CopyGenerated(d, gens, old, new) ==
    AppendPasswHistory(d, RekeyedHistory(gens, old, new))

\* Mutant: groups are numbered from another start.
NewStorageFromTen ==
    [ReadAll(EmptyFile) EXCEPT !.colorGroupIdCounter = ID_COUNTER_START]

NewStorage == ReadAll(EmptyFile)

\* saveNewPassw
WithNewPassw(src, old, new) ==
    LET groups == CopyGroups(NewStorage, src.colorGroups)
        notes == CopyNotes(groups, src.notes, Ids(src.notes), old, new)
        otps == CopyOtpNotes(notes, src.otpNotes, Ids(src.otpNotes), old, new)
    IN  CopyGenerated(otps, src.generatedPassws, old, new)

\* saveNewPasswStrategy, one strategy: only the default one brings the
\* groups and the generated passwords
WithStrategy(src, s) ==
    LET groups == IF s.isDefault
                  THEN CopyGroups(NewStorage, src.colorGroups)
                  ELSE NewStorage
        notes == CopyNotes(groups, src.notes, s.noteIds,
                           s.currentPassword, s.newPassw)
        otps == CopyOtpNotes(notes, src.otpNotes, s.otpNoteIds,
                             s.currentPassword, s.newPassw)
    IN  IF s.isDefault
        THEN CopyGenerated(otps, src.generatedPassws,
                           s.currentPassword, s.newPassw)
        ELSE otps

\* Mutant: the generated passwords of the last strategy stay.
SplicedLast(f, part) ==
    [colorGroups |-> f.colorGroups \o part.colorGroups,
     notes |-> f.notes \o part.notes,
     otpNotes |-> f.otpNotes \o part.otpNotes,
     generatedPassws |-> part.generatedPassws]

\* list::splice at the end, for each list
Spliced(f, part) ==
    [colorGroups |-> f.colorGroups \o part.colorGroups,
     notes |-> f.notes \o part.notes,
     otpNotes |-> f.otpNotes \o part.otpNotes,
     generatedPassws |-> f.generatedPassws \o part.generatedPassws]

Collected(src, strategies) ==
    LET collected[k \in 0 .. Len(strategies)] ==
            IF k = 0 THEN EmptyFile
            ELSE Spliced(collected[k - 1],
                         FileOf(WithStrategy(src, strategies[k])))
    IN  collected[Len(strategies)]

-----------------------------------------------------------------------------
(* What of a file can still be read, by somebody who has all passwords *)

HistoryFields(list) == {list[k].passw : k \in DOMAIN list}
NoteFields(note) == {note.info, note.passw} \cup HistoryFields(note.history)
OtpFields(otp) == {otp.info, otp.secret}
FieldsOf(f) ==
    (UNION {NoteFields(f.notes[k]) : k \in DOMAIN f.notes})
    \cup (UNION {OtpFields(f.otpNotes[k]) : k \in DOMAIN f.otpNotes})
    \cup HistoryFields(f.generatedPassws)

TextsOf(f) == {field.text : field \in FieldsOf(f)}

Kept(file) == IF file = NoFile THEN {} ELSE TextsOf(file.file) \ {Garbled}

Unused == Texts \ written

\* the passwords that these fields were sealed with
KeysOf(fields) == {field.key : field \in fields}

\* the strategies open every field of the storage with its own password
Complete(d, strategies) ==
    LET all == Range(strategies)
    IN  /\ \A note \in Range(d.notes) : \E s \in all :
              /\ note.id \in s.noteIds
              /\ KeysOf(NoteFields(note)) = {s.currentPassword}
        /\ \A otp \in Range(d.otpNotes) : \E s \in all :
              /\ otp.id \in s.otpNoteIds
              /\ KeysOf(OtpFields(otp)) = {s.currentPassword}
        /\ \A p \in KeysOf(HistoryFields(d.generatedPassws)) : \E s \in all :
              s.isDefault /\ s.currentPassword = p

-----------------------------------------------------------------------------

Init ==
    /\ main = [name |-> "old", file |-> EmptyFile]
    /\ temp = NoFile
    /\ session = LoggedOut /\ change = NoChange
    /\ lossy = {} /\ renamed = "old"
    /\ written = {} /\ edits = 0

Free == change = NoChange
CountEdit == edits < EditBound /\ edits' = edits + 1

Blame(reason, cond) == lossy' = IF cond THEN lossy \cup {reason} ELSE lossy

-----------------------------------------------------------------------------
(* The session *)

\* a storage without a file is created, beside a temp that may hold it
Login(passw) ==
    /\ Free /\ session = LoggedOut
    /\ main' = IF main = NoFile
               THEN [name |-> "", file |-> EmptyFile] ELSE main
    /\ session' = [passw |-> passw, name |-> main'.name,
                   data |-> ReadAll(main'.file)]
    /\ Blame("created beside temp", main = NoFile)
    /\ UNCHANGED <<temp, change, renamed, written, edits>>

Unlogin ==
    /\ Free /\ session # LoggedOut
    /\ session' = LoggedOut
    /\ UNCHANGED <<files, change, lossy, renamed, written, edits>>

\* the file is not what the object read or wrote last
Stale ==
    \/ main = NoFile
    \/ main.file # FileOf(session.data) \/ main.name # session.name

\* the call edits the object, and save() writes header and lists
Edit(d, texts) ==
    /\ Free
    /\ session' = [session EXCEPT !.data = d]
    /\ main' = [name |-> session.name, file |-> FileOf(d)]
    /\ temp' = NoFile
    /\ written' = written \cup texts
    /\ Blame("stale session", Stale)
    /\ UNCHANGED <<change, renamed>>

\* the caller names any group, also one that was removed meanwhile
SaveNote(text) ==
    /\ LET field == Encrypt(session.passw, text)
       IN  \E g \in {0} \cup ID_COUNTER_START + 1 .. GroupIdBound :
             Edit(CreateNote(session.data,
                     [info |-> field, passw |-> field, colorGroupId |-> g,
                      history |-> <<>>], {}, 0), {text})
    /\ UNCHANGED edits

\* the note keeps its other fields; the old password goes to its history
SaveNotePassw(note, text) ==
    /\ Edit(SetNote(session.data,
                [id |-> note.id, info |-> note.info,
                 passw |-> Encrypt(session.passw, text),
                 colorGroupId |-> note.colorGroupId, history |-> <<>>],
                {"PASSW", "TRACK_HISTORY"}, 0), {text})
    /\ UNCHANGED edits

SaveOtpNote(text) ==
    /\ LET field == Encrypt(session.passw, text)
       IN  Edit(CreateOtpNote(session.data,
                   [info |-> field, secret |-> field, method |-> "TOTP",
                    counter |-> 0, colorGroupId |-> 0], {}), {text})
    /\ UNCHANGED edits

GenerateNewPassw(text) ==
    /\ Edit(GenPassword(session.data, Encrypt(session.passw, text), 0), {text})
    /\ UNCHANGED edits

SaveColorGroup(color) ==
    /\ session.data.colorGroupIdCounter <= GroupIdBound
    /\ Edit(CreateColorGroup(session.data, color), {})
    /\ UNCHANGED edits

RemoveGroup(id) ==
    /\ Edit(RemoveColorGroup(session.data, id), {})
    /\ CountEdit

-----------------------------------------------------------------------------
(* Editing the file *)

\* opened with the empty password, which names need not know
EditStorage(name) ==
    /\ Free /\ main # NoFile /\ CountEdit
    /\ main' = [name |-> name, file |-> FileOf(ReadAll(main.file))]
    /\ temp' = NoFile
    /\ renamed' = name
    /\ UNCHANGED <<session, change, lossy, written>>

\* Mutant: a new header, without the name.
WithNewHeader == [name |-> "", file |-> EmptyFile]

\* createStorageWithHeader(path, *fheader)
WithHeader == [name |-> main.name, file |-> EmptyFile]

Everything(d, old, new) ==
    <<[currentPassword |-> old, newPassw |-> new, isDefault |-> TRUE,
       noteIds |-> Ids(d.notes), otpNoteIds |-> Ids(d.otpNotes)]>>

\* saveNewPassw begins by emptying the file it has read
ChangePassw(old, new) ==
    LET d == ReadAll(main.file)
    IN  /\ Free /\ main # NoFile /\ old # new /\ CountEdit
        /\ main' = WithHeader
        /\ change' = [next |-> "save", before |-> main.file,
                      after |-> FileOf(WithNewPassw(d, old, new)),
                      strategies |-> Everything(d, old, new)]
        /\ Blame("other password", ~ Complete(d, Everything(d, old, new)))
        /\ UNCHANGED <<temp, session, renamed, written>>

SaveChanged ==
    /\ change # NoChange /\ change.next = "save"
    /\ main' = [main EXCEPT !.file = change.after]
    /\ temp' = NoFile
    /\ change' = NoChange
    /\ UNCHANGED <<session, lossy, renamed, written, edits>>

\* no space for the copy that save() writes first
SaveChangedFails ==
    /\ change # NoChange /\ change.next = "save"
    /\ temp' = WithHeader
    /\ change' = NoChange
    /\ lossy' = lossy \cup {"unfinished"}
    /\ UNCHANGED <<main, session, renamed, written, edits>>

-----------------------------------------------------------------------------
(* saveNewPasswStrategy collects in temp *)

ChangePasswStrategy(strategies) ==
    LET d == ReadAll(main.file)
    IN  /\ Free /\ main # NoFile /\ CountEdit
        /\ \E s \in Range(strategies) : s.isDefault
        /\ temp' = WithHeader
        /\ change' = [next |-> "save temp", before |-> main.file,
                      after |-> Collected(d, strategies),
                      strategies |-> strategies]
        /\ Blame("not listed", ~ Complete(d, strategies))
        /\ UNCHANGED <<main, session, renamed, written>>

\* the result of save() is returned, and not looked at
SaveCollected ==
    /\ change # NoChange /\ change.next = "save temp"
    /\ \/ /\ temp' = [temp EXCEPT !.file = change.after]
          /\ UNCHANGED lossy
       \/ UNCHANGED temp /\ lossy' = lossy \cup {"save failed"}
    /\ change' = [change EXCEPT !.next = "unlink"]
    /\ UNCHANGED <<main, session, renamed, written, edits>>

Unlink ==
    /\ change # NoChange /\ change.next = "unlink"
    /\ main' = NoFile
    /\ change' = [change EXCEPT !.next = "rename"]
    /\ UNCHANGED <<temp, session, lossy, renamed, written, edits>>

Rename ==
    /\ change # NoChange /\ change.next = "rename"
    /\ main' = temp /\ temp' = NoFile
    /\ change' = NoChange
    /\ UNCHANGED <<session, lossy, renamed, written, edits>>

-----------------------------------------------------------------------------

\* the process dies: what was in memory is gone
Die ==
    /\ session # LoggedOut \/ change # NoChange
    /\ session' = LoggedOut /\ change' = NoChange
    /\ Blame("unfinished", change # NoChange /\ change.next = "save")
    /\ UNCHANGED <<files, renamed, written, edits>>

\* a user edits the notes they can read
Readable ==
    {note \in Range(session.data.notes) :
        KeysOf(NoteFields(note)) = {session.passw}}

EditStep ==
    /\ session # LoggedOut
    /\ \/ \E text \in Unused :
             \/ SaveNote(text) \/ SaveOtpNote(text) \/ GenerateNewPassw(text)
             \/ \E note \in Readable : SaveNotePassw(note, text)
       \/ \E color \in Colors : SaveColorGroup(color)
       \/ \E id \in Ids(session.data.colorGroups) : RemoveGroup(id)

SessionStep == (\E passw \in Passwords : Login(passw)) \/ Unlogin \/ EditStep

ChangeStep ==
    \/ EditStorage("new")
    \/ \E old, new \in Passwords : ChangePassw(old, new)
    \/ SaveChanged \/ SaveChangedFails
    \/ \E strategies \in Strategies : ChangePasswStrategy(strategies)
    \/ SaveCollected \/ Unlink \/ Rename

Next == SessionStep \/ ChangeStep \/ Die

Spec == Init /\ [][Next]_vars

-----------------------------------------------------------------------------
(* Properties *)

\* The texts that were saved can be read in the storage file or in temp at
\* every step of a change and after it, wherever the process dies, but for
\* six reasons: a field under a password the change was not told, an item no
\* strategy lists, a simple change that does not come to its end, a save of
\* the collected parts that fails, a session that opened the storage before,
\* a login between unlink and rename.
NothingElseLoses ==
    lossy = {} =>
        written \subseteq Kept(main) \cup Kept(temp) \cup
            (IF change # NoChange /\ change.next = "save"
             THEN TextsOf(change.before) ELSE {})

\* No change of password takes the name a storage was given; only a session
\* that opened it before, or a file made anew, does.
NameKept ==
    /\ main # NoFile
    /\ lossy \cap {"stale session", "created beside temp"} = {}
    => main.name = renamed

Ends ==
    \/ SaveChanged
    \/ Rename /\ temp.file = change.after

\* what a session under this password shows of these notes
Opened(list, passw) ==
    [i \in DOMAIN list |-> Decrypt(passw, list[i].passw)]
NotesShown(f, passw, ids) ==
    LET notes == ReadAll(f).notes
    IN  {[info |-> Decrypt(passw, notes[k].info),
          passw |-> Decrypt(passw, notes[k].passw),
          history |-> Opened(notes[k].history, passw)] :
            k \in {j \in DOMAIN notes : notes[j].id \in ids}}
GeneratedShown(f, passw) == Opened(f.generatedPassws, passw)

\* A change that came to its end opens, under each new password, the notes it
\* was asked to move with their histories, and the generated passwords.
ChangedPasswordOpens ==
    [][Ends => \A s \in Range(change.strategies) :
        /\ NotesShown(change.before, s.currentPassword, s.noteIds)
             \subseteq NotesShown(main'.file, s.newPassw,
                                  Ids(ReadAll(main'.file).notes))
        /\ s.isDefault =>
             Range(GeneratedShown(change.before, s.currentPassword))
                \subseteq Range(GeneratedShown(main'.file, s.newPassw))]_vars

Dense(groups) ==
    \A k \in DOMAIN groups : groups[k].id = ID_COUNTER_START + k

\* the colours an item is shown in
ColorsOf(f, item) ==
    {group.color : group \in
        {g \in Range(f.colorGroups) : g.id = item.colorGroupId}}
Coloured(f) ==
    {<<item.info.text, ColorsOf(f, item)>> :
        item \in {i \in Range(f.notes) \cup Range(f.otpNotes) :
                     i.info.text # Garbled}}

\* A change leaves notes and otp notes in their groups if the groups were
\* numbered without a gap; with a gap it does not.
GroupsKept ==
    [][Ends /\ Dense(change.before.colorGroups)
        => Coloured(main'.file) \subseteq Coloured(change.before)]_vars
=============================================================================
