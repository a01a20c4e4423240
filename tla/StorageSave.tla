----------------------------- MODULE StorageSave -----------------------------
(***************************************************************************)
(* How a version 2 storage reaches its file: KeyStorageV2::save, readAll   *)
(* and the login of cryp_storage_v2.cpp, at the grain of the writes.       *)
(*                                                                         *)
(* save() writes the whole storage to <name>-temp.ckey, then to the file   *)
(* itself, then removes the first.  Each file is opened with O_TRUNC and   *)
(* written section by section; a write can fail (a full disk) and the      *)
(* process can die between any two.  A section is several writes, so both  *)
(* can leave a torn one.  Whether a file was written is told through       *)
(* keyError, one variable for all threads and storages of the process.     *)
(*                                                                         *)
(* A storage that another app hands over comes as an open descriptor       *)
(* (single-descriptor mode): it has no copy, and a save writes over the    *)
(* file in place.  A descriptor serves one login: it belongs to the object *)
(* and is closed with it.                                                  *)
(*                                                                         *)
(* CrypStorageV2 takes save() as one step; this module is about that step. *)
(* Documents are the contents a storage can have, abstracted to sequences  *)
(* of sections of the kinds the file has.                                  *)
(***************************************************************************)
EXTENDS Naturals, SequencesExt

CONSTANTS
    Items,      \* colour groups, notes, passwords, otp notes
    Documents,  \* the contents a storage may have
    NoFile,     \* the file does not exist
    LoggedOut,  \* there is no object for the storage
    NullLists,  \* an object whose readAll failed: its lists are null
    NoDocument, \* the file held no whole document
    OthersSet   \* what other threads set keyError to meanwhile

ASSUME OthersSetAssumption == OthersSet \subseteq {"ok", "error"}

ASSUME DocumentsAssumption ==
    /\ \A d \in Documents :
          d \in [colorGroups : Seq(Items), notes : Seq(Items),
                generatedPassws : Seq(Items), otpNotes : Seq(Items)]
    /\ NoDocument \notin Documents

EmptyDocument ==
    [colorGroups |-> <<>>, notes |-> <<>>, generatedPassws |-> <<>>,
     otpNotes |-> <<>>]

ASSUME EmptyDocumentAssumption == EmptyDocument \in Documents

VARIABLES
    main,       \* the storage file
    temp,       \* the file next to it
    object,     \* the snapshot of the unlocked storage
    saving,     \* which file save() is writing or has written
    keyError,   \* the result of the last file operation of any thread
    before,     \* the document the file held when the last save began
    target,     \* the document that save was to write
    descriptor, \* of a storage handed over: "open", "used" by the object
    spoiled     \* the file was last written in place, by a save that
                \* stopped or had less to write than the file held

vars ==
    <<main, temp, object, saving, keyError, before, target, descriptor,
      spoiled>>

handedOver == <<descriptor, spoiled>>

-----------------------------------------------------------------------------
(* Files: whole sections, then possibly a part of one. *)

Section(kind, content) == [kind |-> kind, content |-> content]
Header == Section("Header", <<>>)

File(sections, torn) == [sections |-> sections, torn |-> torn]
Opened == File(<<>>, FALSE)

SectionKinds ==
    {"Header", "ColorGroup", "NoteEntry", "GenPasswHistory", "OtpNote"}
Files ==
    [sections : Seq([kind : SectionKinds, content : Items \cup Seq(Items)]),
     torn : BOOLEAN]

ASSUME NoFileAssumption == NoFile \notin Files

\* what save(fd) writes, in its order
Sections(d) ==
    <<Header, Section("ColorGroup", d.colorGroups)>>
    \o [k \in DOMAIN d.notes |-> Section("NoteEntry", d.notes[k])]
    \o <<Section("GenPasswHistory", d.generatedPassws),
         Section("OtpNote", d.otpNotes)>>

Holds(f, d) == f = File(Sections(d), FALSE)

\* f is read as d, and is all of it: createStorage writes the header only
Whole(f, d) ==
    \/ Holds(f, d)
    \/ d = EmptyDocument /\ f = File(<<Header>>, FALSE)

\* what the sections of a kind hold, in their order
Chosen(sections, kind) ==
    LET chosen[k \in 0 .. Len(sections)] ==
            IF k = 0 THEN <<>>
            ELSE IF sections[k].kind = kind
            THEN Append(chosen[k - 1], sections[k].content)
            ELSE chosen[k - 1]
    IN  chosen[Len(sections)]

\* of a kind with one section
Content(sections, kind) ==
    LET found == Chosen(sections, kind)
    IN  IF found = <<>> THEN <<>> ELSE found[1]

\* storageHeader() finds its signature
HasHeader(f) == f # NoFile /\ f.sections # <<>>

\* Mutant: of the notes, one section each, only the first is read.
ReadAllOneNote(f) ==
    IF f.torn THEN NullLists
    ELSE LET notes == Chosen(f.sections, "NoteEntry")
         IN  [colorGroups |-> Content(f.sections, "ColorGroup"),
              notes |-> IF notes = <<>> THEN <<>> ELSE <<notes[1]>>,
              generatedPassws |-> Content(f.sections, "GenPasswHistory"),
              otpNotes |-> Content(f.sections, "OtpNote")]

\* readAll: a file that ends between two sections is read without complaint
ReadAll(f) ==
    IF f.torn THEN NullLists
    ELSE [colorGroups |-> Content(f.sections, "ColorGroup"),
          notes |-> Chosen(f.sections, "NoteEntry"),
          generatedPassws |-> Content(f.sections, "GenPasswHistory"),
          otpNotes |-> Content(f.sections, "OtpNote")]

-----------------------------------------------------------------------------

Init ==
    /\ main = NoFile /\ temp = NoFile
    /\ object = LoggedOut /\ saving = "none" /\ keyError = "ok"
    /\ before = NoDocument /\ target = EmptyDocument
    /\ descriptor = "closed" /\ spoiled = FALSE

\* A file without a header is created anew, over what was there.  createStorage
\* may fail to write the header: storage() then finds none.
CreateAndLogin ==
    /\ saving = "none" /\ descriptor # "used"
    /\ ~ HasHeader(main)
    /\ \/ /\ main' = File(<<Header>>, FALSE)
          /\ object' = ReadAll(main')
       \/ /\ main' \in {Opened, File(<<>>, TRUE), main}
          /\ object' = LoggedOut
    /\ spoiled' = FALSE
    /\ UNCHANGED <<temp, saving, keyError, before, target, descriptor>>

\* the error of readAll is not looked at
Login ==
    /\ saving = "none" /\ descriptor # "used"
    /\ HasHeader(main)
    /\ object' = ReadAll(main)
    /\ UNCHANGED <<main, temp, saving, keyError, before, target, descriptor,
                   spoiled>>

\* the destructor closes the descriptor
AfterErase == IF descriptor = "used" THEN "closed" ELSE descriptor

Unlogin ==
    /\ saving = "none"
    /\ object' = LoggedOut
    /\ descriptor' = AfterErase
    /\ UNCHANGED <<main, temp, saving, keyError, before, target, spoiled>>

\* An edit installs the new snapshot and calls save(), which opens the first
\* file or gives up; the caller goes on either way.
Edit(d) ==
    /\ saving = "none" /\ descriptor # "used"
    /\ object \notin {LoggedOut, NullLists}
    /\ object' = d /\ target' = d
    /\ before' = IF \E x \in Documents : Whole(main, x)
                 THEN CHOOSE x \in Documents : Whole(main, x)
                 ELSE NoDocument
    /\ \/ temp' = Opened /\ saving' = "temp" /\ UNCHANGED keyError
       \/ UNCHANGED temp /\ saving' = "none" /\ keyError' = "error"
    /\ UNCHANGED <<main, descriptor, spoiled>>

\* f with the next section of the snapshot
Longer(f) ==
    File(Append(f.sections, Sections(object)[Len(f.sections) + 1]), FALSE)

\* A section is written, or an error ends the writing.
WriteTemp ==
    /\ saving = "temp"
    /\ ~ Holds(temp, object)
    /\ \/ temp' = Longer(temp) /\ UNCHANGED <<saving, keyError>>
       \/ /\ temp' \in {temp, File(temp.sections, TRUE)}
          /\ saving' = "tempWritten" /\ keyError' = "error"
    /\ UNCHANGED <<main, object, before, target>> /\ UNCHANGED handedOver

CloseTemp ==
    /\ saving = "temp"
    /\ Holds(temp, object)
    /\ saving' = "tempWritten" /\ keyError' = "ok"
    /\ UNCHANGED <<main, temp, object, before, target>> /\ UNCHANGED handedOver

\* Mutant: the result of the first write is not looked at.
OpenMainAnyway ==
    /\ saving = "tempWritten"
    /\ \/ /\ main' = Opened /\ saving' = "main" /\ spoiled' = FALSE
          /\ UNCHANGED keyError
       \/ /\ saving' = "none" /\ keyError' = "error"
          /\ UNCHANGED <<main, spoiled>>
    /\ UNCHANGED <<temp, object, before, target, descriptor>>

\* save(path) returns keyError, which is not the result of its own write any
\* more when another thread has set it.
OpenMain ==
    /\ saving = "tempWritten"
    /\ \/ /\ keyError = "ok"
          /\ main' = Opened /\ saving' = "main" /\ spoiled' = FALSE
          /\ UNCHANGED keyError
       \/ /\ saving' = "none" /\ keyError' = "error"
          /\ UNCHANGED <<main, spoiled>>
    /\ UNCHANGED <<temp, object, before, target, descriptor>>

WriteMain ==
    /\ saving = "main"
    /\ ~ Holds(main, object)
    /\ \/ main' = Longer(main) /\ UNCHANGED <<saving, keyError>>
       \/ /\ main' \in {main, File(main.sections, TRUE)}
          /\ saving' = "mainWritten" /\ keyError' = "error"
    /\ UNCHANGED <<temp, object, before, target>> /\ UNCHANGED handedOver

CloseMain ==
    /\ saving = "main"
    /\ Holds(main, object)
    /\ saving' = "mainWritten" /\ keyError' = "ok"
    /\ UNCHANGED <<main, temp, object, before, target>> /\ UNCHANGED handedOver

\* Mutant: the copy is removed whether or not the file was written.
RemoveTempAnyway ==
    /\ saving = "mainWritten"
    /\ temp' = NoFile /\ saving' = "none"
    /\ UNCHANGED <<main, object, keyError, before, target>> /\ UNCHANGED handedOver

RemoveTemp ==
    /\ saving = "mainWritten"
    /\ temp' = IF keyError = "ok" THEN NoFile ELSE temp
    /\ saving' = "none"
    /\ UNCHANGED <<main, object, keyError, before, target>> /\ UNCHANGED handedOver

\* Another thread sets keyError: to an error when a call does not find its
\* note or file, to ok when it saves another storage.
OtherCall ==
    /\ saving # "none"
    /\ keyError' \in OthersSet
    /\ UNCHANGED <<main, temp, object, saving, before, target>> /\ UNCHANGED handedOver

\* what a death leaves of the file f being written
Cut(f, written) ==
    IF written /\ ~ Holds(f, object)
    THEN {f, File(f.sections, TRUE)} ELSE {f}

\* The process is killed, at any time.
Die ==
    /\ main' \in Cut(main, saving = "main")
    /\ temp' \in Cut(temp, saving = "temp")
    /\ object' = LoggedOut /\ saving' = "none" /\ keyError' = "ok"
    /\ descriptor' = "closed"
    /\ UNCHANGED <<before, target, spoiled>>

-----------------------------------------------------------------------------
(* Single-descriptor mode *)

\* openFileDescriptor, detachFd: another app opens the storage with this one
HandOver ==
    /\ saving = "none" /\ descriptor = "closed" /\ object = LoggedOut
    /\ HasHeader(main)
    /\ descriptor' = "open"
    /\ UNCHANGED <<main, temp, object, saving, keyError, before, target,
                   spoiled>>

\* The object there was is erased first, and closes the descriptor this login
\* is about to read from.
LoginByDescriptor ==
    /\ saving = "none"
    /\ descriptor = "used" \/ object = LoggedOut
    /\ IF AfterErase = "open" /\ HasHeader(main)
       THEN object' = ReadAll(main) /\ descriptor' = "used"
       ELSE object' = LoggedOut /\ descriptor' = "closed"
    /\ UNCHANGED <<main, temp, saving, keyError, before, target, spoiled>>

\* what a section takes in a file, by the items it holds
Shape(section) ==
    <<section.kind,
      IF section.kind = "NoteEntry" THEN 1 ELSE Len(section.content)>>
SameShape(sections, others, k) ==
    \A i \in 1 .. k : Shape(sections[i]) = Shape(others[i])

Kinds == {"colorGroups", "notes", "generatedPassws", "otpNotes"}

\* a document with at least the items of the other, kind by kind
NotShorter(d, other) == \A kind \in Kinds : Len(d[kind]) >= Len(other[kind])

\* whether bytes of the file f are left behind a d that was written over it
Tails(f, d) ==
    IF ~ f.torn /\ NotShorter(d, ReadAll(f)) THEN {FALSE}
    ELSE IF ~ f.torn /\ NotShorter(ReadAll(f), d) THEN {TRUE}
    ELSE BOOLEAN

\* The file f after the first k sections of d were written over it, and
\* possibly a part of the next one.  What is behind them is read only if they
\* end where k sections of f ended.
WrittenOver(f, d, k) ==
    LET all == Sections(d)
        new == SubSeq(all, 1, k)
        rest == SubSeq(f.sections, k + 1, Len(f.sections))
    IN  IF k = Len(all) THEN {File(new, tail) : tail \in Tails(f, d)}
        ELSE IF k > Len(f.sections) \/ ~ SameShape(new, f.sections, k)
        THEN {File(new, TRUE)}
        ELSE IF rest # <<>> /\ Shape(rest[1]) = Shape(all[k + 1])
        THEN {File(new \o rest, f.torn)}
        ELSE {File(new \o rest, f.torn), File(new, TRUE)}

\* An edit in single-descriptor mode: save(fd) writes over the file from its
\* beginning and save() drops the result.  The process may die on the way.
SaveInPlace(d) ==
    /\ saving = "none" /\ descriptor = "used" /\ object # NullLists
    /\ target' = d /\ before' = NoDocument
    /\ \E k \in 0 .. Len(Sections(d)) :
        /\ main' \in WrittenOver(main, d, k)
        /\ spoiled' = (k < Len(Sections(d)) \/ Tails(main, d) # {FALSE})
        /\ \/ /\ object' = d
              /\ keyError' = IF k = Len(Sections(d)) THEN keyError ELSE "error"
              /\ UNCHANGED descriptor
           \/ object' = LoggedOut /\ keyError' = "ok" /\ descriptor' = "closed"
    /\ UNCHANGED <<temp, saving>>

\* Every call on an object with null lists dereferences them.
UseNullLists == object = NullLists /\ Die

Next ==
    \/ CreateAndLogin \/ Login \/ Unlogin \/ HandOver \/ LoginByDescriptor
    \/ \E d \in Documents : Edit(d) \/ SaveInPlace(d)
    \/ WriteTemp \/ CloseTemp \/ OpenMain
    \/ WriteMain \/ CloseMain \/ RemoveTemp
    \/ OtherCall \/ Die \/ UseNullLists

Spec == Init /\ [][Next]_vars

-----------------------------------------------------------------------------
(* Properties *)

\* A save by path that starts from a whole file leaves, wherever an error or
\* the death of the process stops it, the old document or the new one whole
\* in one of the two files, until the next save.
SaveKeepsACopy ==
    before # NoDocument =>
        \E f \in {main, temp}, d \in {before, target} : Whole(f, d)

\* The copy is gone only when the file is whole: a leftover copy is the sign
\* of a save that did not finish.  A save in place makes no copy: it leaves
\* the file whole if it comes to its end and the storage did not get shorter.
NoCopyMeansWhole ==
    temp = NoFile /\ HasHeader(main) /\ ~ spoiled =>
        \E d \in Documents : Whole(main, d)

\* Whoever unlocks the storage finds the document before the last save or
\* the one it was to write, unless the file holds neither; then the copy is
\* there, but no login reads it, or the file was spoiled in place.  Such a
\* session shows a part of the storage, or an empty one created over the
\* rest, or has null lists.
LoginFindsADocument ==
    \/ object \in {LoggedOut, before, target}
    \/ /\ temp # NoFile \/ spoiled
       /\ \A d \in {before, target} \ {NoDocument} : ~ Whole(main, d)
=============================================================================
