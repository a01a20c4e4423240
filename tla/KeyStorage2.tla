----------------------------- MODULE KeyStorage2 -----------------------------
(***************************************************************************)
(* The in-memory engine of a version 2 storage: class KeyStorageV2 of      *)
(* tkcore/storage2/key2.cpp.                                               *)
(*                                                                         *)
(* An unlocked storage holds a DataSnapshot: the lists of colour groups,   *)
(* notes (each with the history of its replaced passwords), otp notes and  *)
(* generated passwords, and the two counters the ids come from.  Every     *)
(* method that edits the storage copies the snapshot, changes the copy     *)
(* and installs it; here a method is an operator from a snapshot to a      *)
(* snapshot.  ReadAll builds a snapshot from the sections of a file and    *)
(* FileOf gives the sections that save() writes.                           *)
(*                                                                         *)
(* Data is abstract: Infos stands for the text fields of a note (site,     *)
(* login, description; issuer, name, digits...), Passws for non-empty      *)
(* passwords and otp secrets.  One key encrypts the whole storage, so a    *)
(* field is written here in the clear; the one trace encryption leaves is  *)
(* that a zero-filled field does not decrypt to the empty string but to    *)
(* whatever the key makes of it (BlankPassw, BlankInfo).                   *)
(***************************************************************************)
EXTENDS Integers, FiniteSets, SequencesExt

CONSTANTS
    Infos,          \* descriptions of notes and otp notes
    Passws,         \* non-empty passwords and secrets
    EmptyPassw,     \* the empty password
    Colors,         \* what a colour group shows: its colour and name
    BlankInfo,      \* what a zero-filled text field decrypts to
    BlankPassw,     \* what a zero-filled password field decrypts to
    BlankColor      \* the colour of a zero-filled group

ASSUME EmptyPasswAssumption == EmptyPassw \notin Passws

\* #define ID_COUNTER_START 10
ID_COUNTER_START == 10

AnyPassw == Passws \cup {EmptyPassw}
OtpMethods == {"HOTP", "TOTP"}

-----------------------------------------------------------------------------
(* The types: the *Flat records are what a file holds, the others what a   *)
(* snapshot holds.  Only colour groups keep their id in the file.          *)

ColorGroup == [id : Nat, color : Colors]
CryptedPassword == [id : Nat, passw : AnyPassw, genTime : Nat]
CryptedPasswordFlat == [passw : AnyPassw, genTime : Nat]

CryptedNote ==
    [id : Nat, info : Infos, passw : AnyPassw, genTime : Nat,
     colorGroupId : Int, history : Seq(CryptedPassword)]
CryptedNoteFlat ==
    [info : Infos, passw : AnyPassw, genTime : Nat,
     colorGroupId : Int, history : Seq(CryptedPasswordFlat)]

CryptedOtpInfo ==
    [id : Nat, info : Infos, secret : AnyPassw, method : OtpMethods,
     counter : Nat, colorGroupId : Int]
CryptedOtpInfoFlat ==
    [info : Infos, secret : AnyPassw, method : OtpMethods,
     counter : Nat, colorGroupId : Int]

DataSnapshot ==
    [idCounter : Nat, colorGroupIdCounter : Nat,
     colorGroups : Seq(ColorGroup), notes : Seq(CryptedNote),
     otpNotes : Seq(CryptedOtpInfo),
     generatedPassws : Seq(CryptedPassword)]
FileSections ==
    [colorGroups : Seq(ColorGroup), notes : Seq(CryptedNoteFlat),
     generatedPassws : Seq(CryptedPasswordFlat),
     otpNotes : Seq(CryptedOtpInfoFlat)]

\* what createStorage writes: a header and no section
EmptyFile ==
    [colorGroups |-> <<>>, notes |-> <<>>,
     generatedPassws |-> <<>>, otpNotes |-> <<>>]

-----------------------------------------------------------------------------
(* findItBy, findPtrBy: an element looked up by id.                        *)

Ids(list) == {list[k].id : k \in DOMAIN list}
HasId(list, id) == \E k \in DOMAIN list : list[k].id = id
IndexOf(list, id) == CHOOSE k \in DOMAIN list : list[k].id = id

Erase(list, id) == RemoveAt(list, IndexOf(list, id))

\* the entries of hist with the fresh ids from, from + 1, ...
Numbered(hist, from) ==
    [i \in 1 .. Len(hist) |->
        [id |-> from + i - 1,
         passw |-> hist[i].passw, genTime |-> hist[i].genTime]]

-----------------------------------------------------------------------------
(* Colour groups *)

SetColorGroup(d, id, color) ==
    IF HasId(d.colorGroups, id)
    THEN [d EXCEPT !.colorGroups =
            [@ EXCEPT ![IndexOf(@, id)] = [id |-> id, color |-> color]]]
    ELSE d

CreateColorGroup(d, color) ==
    LET id == d.colorGroupIdCounter
        blank == [id |-> id, color |-> BlankColor]
    IN  SetColorGroup(
            [d EXCEPT !.colorGroupIdCounter = id + 1,
                      !.colorGroups = Append(@, blank)],
            id, color)

\* every element of the list that is in the group leaves it
Ungroup(list, groupId) ==
    [k \in 1 .. Len(list) |->
        IF list[k].colorGroupId = groupId
        THEN [list[k] EXCEPT !.colorGroupId = 0]
        ELSE list[k]]

\* Mutant: the otp notes of a removed group are forgotten.
RemoveColorGroupOfNotes(d, groupId) ==
    IF HasId(d.colorGroups, groupId)
    THEN [d EXCEPT !.colorGroups = Erase(@, groupId),
                   !.notes = Ungroup(@, groupId)]
    ELSE d

RemoveColorGroup(d, groupId) ==
    IF HasId(d.colorGroups, groupId)
    THEN [d EXCEPT !.colorGroups = Erase(@, groupId),
                   !.notes = Ungroup(@, groupId),
                   !.otpNotes = Ungroup(@, groupId)]
    ELSE d

-----------------------------------------------------------------------------
(* Notes.  dnote carries the caller's values; history only matters with    *)
(* FULL_HISTORY.                                                           *)

SetsPassw(old, dnote, flags) ==
    /\ "PASSW" \in flags
    /\ "FORCE" \in flags \/ old.passw # dnote.passw

\* Mutant: clearing a password does not track it.
TracksNonEmpty(old, dnote, flags) ==
    /\ SetsPassw(old, dnote, flags)
    /\ "TRACK_HISTORY" \in flags
    /\ dnote.passw # EmptyPassw
    /\ old.passw # dnote.passw

\* the old password goes to the history
TracksHistory(old, dnote, flags) ==
    /\ SetsPassw(old, dnote, flags)
    /\ "TRACK_HISTORY" \in flags
    /\ old.passw # EmptyPassw
    /\ old.passw # dnote.passw

\* Mutant: push_back for push_front.
PushedBack(entry, history) == Append(history, entry)

PushedFront(entry, history) == <<entry>> \o history

SetNote(d, dnote, flags, now) ==
    IF ~ HasId(d.notes, dnote.id) THEN d
    ELSE
    LET k == IndexOf(d.notes, dnote.id)
        old == d.notes[k]
        setPassw == SetsPassw(old, dnote, flags)
        tracked == TracksHistory(old, dnote, flags)
        replaced == [id |-> d.idCounter, passw |-> old.passw,
                     genTime |-> old.genTime]
        next == IF tracked THEN d.idCounter + 1 ELSE d.idCounter
        full == "FULL_HISTORY" \in flags
    IN  [d EXCEPT
            !.idCounter = IF full THEN next + Len(dnote.history) ELSE next,
            !.notes = [@ EXCEPT ![k] =
                [id |-> old.id,
                 info |-> IF "INFO" \in flags THEN dnote.info ELSE old.info,
                 passw |-> IF setPassw THEN dnote.passw ELSE old.passw,
                 genTime |-> IF setPassw THEN now ELSE old.genTime,
                 colorGroupId |-> dnote.colorGroupId,
                 history |->
                    IF full THEN Numbered(dnote.history, next)
                    ELSE IF tracked THEN PushedFront(replaced, old.history)
                    ELSE old.history]]]

\* Mutant: only the fields the caller's flags name are filled.
CreateNoteWithCallerFlags(d, dnote, flags, now) ==
    LET id == d.idCounter
        blank == [id |-> id, info |-> BlankInfo, passw |-> BlankPassw,
                  genTime |-> 0, colorGroupId |-> 0, history |-> <<>>]
    IN  SetNote(
            [d EXCEPT !.idCounter = id + 1, !.notes = Append(@, blank)],
            [id |-> id, info |-> dnote.info, passw |-> dnote.passw,
             colorGroupId |-> dnote.colorGroupId,
             history |-> dnote.history],
            flags \cup {"FULL_HISTORY"}, now)

\* push_back of a zero-filled note, then setNote on it
CreateNote(d, dnote, flags, now) ==
    LET id == d.idCounter
        blank == [id |-> id, info |-> BlankInfo, passw |-> BlankPassw,
                  genTime |-> 0, colorGroupId |-> 0, history |-> <<>>]
    IN  SetNote(
            [d EXCEPT !.idCounter = id + 1, !.notes = Append(@, blank)],
            [id |-> id, info |-> dnote.info, passw |-> dnote.passw,
             colorGroupId |-> dnote.colorGroupId,
             history |-> dnote.history],
            flags \cup {"FORCE", "INFO", "PASSW", "FULL_HISTORY"}, now)

RemoveNote(d, id) ==
    IF HasId(d.notes, id) THEN [d EXCEPT !.notes = Erase(@, id)] ELSE d

-----------------------------------------------------------------------------
(* Otp notes *)

SetOtpNote(d, dnote, flags) ==
    IF ~ HasId(d.otpNotes, dnote.id) THEN d
    ELSE
    LET k == IndexOf(d.otpNotes, dnote.id)
        old == d.otpNotes[k]
    IN  [d EXCEPT !.otpNotes = [@ EXCEPT ![k] =
            [id |-> old.id,
             info |-> IF "INFO" \in flags THEN dnote.info ELSE old.info,
             secret |-> IF "PASSW" \in flags
                        THEN dnote.secret ELSE old.secret,
             method |-> dnote.method,
             counter |-> dnote.counter,
             colorGroupId |-> dnote.colorGroupId]]]

CreateOtpNote(d, dnote, flags) ==
    LET id == d.idCounter
        blank == [id |-> id, info |-> BlankInfo, secret |-> BlankPassw,
                  method |-> "TOTP", counter |-> 0, colorGroupId |-> 0]
    IN  SetOtpNote(
            [d EXCEPT !.idCounter = id + 1, !.otpNotes = Append(@, blank)],
            [id |-> id, info |-> dnote.info, secret |-> dnote.secret,
             method |-> dnote.method, counter |-> dnote.counter,
             colorGroupId |-> dnote.colorGroupId],
            flags \cup {"FORCE", "INFO", "PASSW"})

RemoveOtpNote(d, id) ==
    IF HasId(d.otpNotes, id) THEN [d EXCEPT !.otpNotes = Erase(@, id)] ELSE d

\* otpNote(id, ... | TK2_GET_NOTE_INCREMENT_HOTP): reading a code advances
\* the counter of a HOTP note
IncrementHotp(d, id) ==
    LET k == IndexOf(d.otpNotes, id)
        old == d.otpNotes[k]
    IN  IF HasId(d.otpNotes, id) /\ old.method = "HOTP"
        THEN [d EXCEPT !.otpNotes =
                [@ EXCEPT ![k] = [old EXCEPT !.counter = old.counter + 1]]]
        ELSE d

-----------------------------------------------------------------------------
(* Generated passwords and password history *)

AppendPasswHistory(d, hist) ==
    [d EXCEPT !.idCounter = @ + Len(hist),
              !.generatedPassws = @ \o Numbered(hist, d.idCounter)]

\* the empty password stands for a call with len = 0
GenPassword(d, passw, now) ==
    IF passw = EmptyPassw THEN d
    ELSE AppendPasswHistory(d, <<[passw |-> passw, genTime |-> now]>>)

RemovePasswHistory(d, id) ==
    IF HasId(d.generatedPassws, id)
    THEN [d EXCEPT !.generatedPassws = Erase(@, id)]
    ELSE IF \E k \in DOMAIN d.notes : HasId(d.notes[k].history, id)
    THEN LET k == CHOOSE k \in DOMAIN d.notes :
                      HasId(d.notes[k].history, id)
             old == d.notes[k]
         IN  [d EXCEPT !.notes = [@ EXCEPT ![k] =
                [old EXCEPT !.history = Erase(old.history, id)]]]
    ELSE d

-----------------------------------------------------------------------------
(* The file.  readAll numbers what it reads in file order, one id for each *)
(* note, history entry, generated password and otp note; a colour group    *)
(* keeps the id it was saved with.                                         *)

\* <<j, 0>> is note j and <<j, i>> the i-th entry of its history
NoteItems(f, n) ==
    UNION {{j} \X (0 .. Len(f.notes[j].history)) : j \in 1 .. n}

\* Mutant: no ids for the history of a note.
IdAfterNotesOnly(f, n) == ID_COUNTER_START + n

\* the id counter after the first n notes of the file
IdAfterNotes(f, n) == ID_COUNTER_START + Cardinality(NoteItems(f, n))

\* Mutant: the history that follows a note in its section is not read.
ReadNoteOnly(f, k) ==
    [id |-> IdAfterNotes(f, k - 1), info |-> f.notes[k].info,
     passw |-> f.notes[k].passw, genTime |-> f.notes[k].genTime,
     colorGroupId |-> f.notes[k].colorGroupId, history |-> <<>>]

ReadNote(f, k) ==
    LET id == IdAfterNotes(f, k - 1)
    IN  [id |-> id, info |-> f.notes[k].info, passw |-> f.notes[k].passw,
         genTime |-> f.notes[k].genTime,
         colorGroupId |-> f.notes[k].colorGroupId,
         history |-> Numbered(f.notes[k].history, id + 1)]

ReadOtp(otp, id) ==
    [id |-> id, info |-> otp.info, secret |-> otp.secret,
     method |-> otp.method, counter |-> otp.counter,
     colorGroupId |-> otp.colorGroupId]

\* Mutant: the counter is left at the greatest id read.
GreatestGroupId(f) == Max({ID_COUNTER_START} \cup Ids(f.colorGroups))

NextGroupId(f) == Max({ID_COUNTER_START} \cup Ids(f.colorGroups)) + 1

ReadAll(f) ==
    LET gens == IdAfterNotes(f, Len(f.notes))
        otps == gens + Len(f.generatedPassws)
    IN  [idCounter |-> otps + Len(f.otpNotes),
         colorGroupIdCounter |-> NextGroupId(f),
         colorGroups |-> f.colorGroups,
         notes |-> [k \in 1 .. Len(f.notes) |-> ReadNote(f, k)],
         generatedPassws |-> Numbered(f.generatedPassws, gens),
         otpNotes |-> [k \in 1 .. Len(f.otpNotes) |->
                          ReadOtp(f.otpNotes[k], otps + k - 1)]]

FlatHistory(hist) ==
    [i \in 1 .. Len(hist) |->
        [passw |-> hist[i].passw, genTime |-> hist[i].genTime]]

\* the sections save(fd) writes
FileOf(d) ==
    [colorGroups |-> d.colorGroups,
     notes |-> [k \in 1 .. Len(d.notes) |->
        [info |-> d.notes[k].info, passw |-> d.notes[k].passw,
         genTime |-> d.notes[k].genTime,
         colorGroupId |-> d.notes[k].colorGroupId,
         history |-> FlatHistory(d.notes[k].history)]],
     generatedPassws |-> FlatHistory(d.generatedPassws),
     otpNotes |-> [k \in 1 .. Len(d.otpNotes) |->
        [info |-> d.otpNotes[k].info, secret |-> d.otpNotes[k].secret,
         method |-> d.otpNotes[k].method, counter |-> d.otpNotes[k].counter,
         colorGroupId |-> d.otpNotes[k].colorGroupId]]]

-----------------------------------------------------------------------------
(* Ids of a snapshot.  A note and the entries of its history, the otp      *)
(* notes and the generated passwords draw them from one counter.           *)

HistoryIds(notes) == UNION {Ids(notes[k].history) : k \in DOMAIN notes}

Distinct(list) ==
    \A j, k \in DOMAIN list : list[j].id = list[k].id => j = k

DistinctHistories(notes) ==
    \A j, k \in DOMAIN notes :
        /\ Distinct(notes[k].history)
        /\ j # k => Ids(notes[j].history) \cap Ids(notes[k].history) = {}

NoSharedIds(d) ==
    /\ Distinct(d.notes) /\ Distinct(d.otpNotes)
    /\ Distinct(d.generatedPassws) /\ DistinctHistories(d.notes)
    /\ Ids(d.notes) \cap HistoryIds(d.notes) = {}
    /\ Ids(d.notes) \cap Ids(d.otpNotes) = {}
    /\ Ids(d.notes) \cap Ids(d.generatedPassws) = {}
    /\ HistoryIds(d.notes) \cap Ids(d.otpNotes) = {}
    /\ HistoryIds(d.notes) \cap Ids(d.generatedPassws) = {}
    /\ Ids(d.otpNotes) \cap Ids(d.generatedPassws) = {}

\* the next id of either counter is not in use
IdsBelowCounters(d) ==
    /\ \A id \in Ids(d.notes) \cup HistoryIds(d.notes) \cup Ids(d.otpNotes)
                \cup Ids(d.generatedPassws) : id < d.idCounter
    /\ \A id \in Ids(d.colorGroups) : id < d.colorGroupIdCounter

=============================================================================
