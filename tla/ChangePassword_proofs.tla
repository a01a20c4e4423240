----------------------- MODULE ChangePassword_proofs -----------------------
(***************************************************************************)
(* For all passwords, texts, strategies and numbers of edits: a saved text *)
(* is lost for one of the six named reasons only, the name of a storage is *)
(* kept, and a change of the password that came to its end opens what it   *)
(* was asked to move and leaves it in its groups.                          *)
(***************************************************************************)
EXTENDS ChangePassword, KeyStorage2_proofs

SoundSnapshots == {d \in DataSnapshot : Sound(d)}

-----------------------------------------------------------------------------
(* Lists *)

LEMMA AppendHas ==
    ASSUME NEW S, NEW list \in Seq(S), NEW x
    PROVE  /\ DOMAIN list \subseteq DOMAIN Append(list, x)
           /\ \A k \in DOMAIN list : Append(list, x)[k] = list[k]
           /\ Len(list) + 1 \in DOMAIN Append(list, x)
           /\ Append(list, x)[Len(list) + 1] = x
           /\ DOMAIN Append(list, x) = DOMAIN list \cup {Len(list) + 1}
    OBVIOUS

LEMMA ConcatHas ==
    ASSUME NEW S, NEW s \in Seq(S), NEW T, NEW t \in Seq(T)
    PROVE  /\ \A k \in DOMAIN s : k \in DOMAIN (s \o t) /\ (s \o t)[k] = s[k]
           /\ \A k \in DOMAIN t : /\ Len(s) + k \in DOMAIN (s \o t)
                                  /\ (s \o t)[Len(s) + k] = t[k]
           /\ \A k \in DOMAIN (s \o t) :
                 \/ k \in DOMAIN s
                 \/ \E j \in DOMAIN t : k = Len(s) + j
<1>1. /\ Len(s) \in Nat /\ Len(t) \in Nat
      /\ DOMAIN s = 1 .. Len(s) /\ DOMAIN t = 1 .. Len(t)
      /\ DOMAIN (s \o t) = 1 .. Len(s) + Len(t)
      /\ \A k \in 1 .. Len(s) + Len(t) :
            (s \o t)[k] = IF k <= Len(s) THEN s[k] ELSE t[k - Len(s)]
    OBVIOUS
<1>2. ASSUME NEW k \in DOMAIN t
      PROVE  Len(s) + k \in DOMAIN (s \o t) /\ (s \o t)[Len(s) + k] = t[k]
    BY <1>1
<1>3. ASSUME NEW k \in DOMAIN s
      PROVE  k \in DOMAIN (s \o t) /\ (s \o t)[k] = s[k]
    BY <1>1
<1>4. ASSUME NEW k \in DOMAIN (s \o t), k \notin DOMAIN s
      PROVE  \E j \in DOMAIN t : k = Len(s) + j
    <2>1. k - Len(s) \in DOMAIN t /\ k = Len(s) + (k - Len(s))
        BY <1>1, <1>4
    <2> QED BY <2>1
<1> QED BY <1>2, <1>3, <1>4

-----------------------------------------------------------------------------
(* The fields of a snapshot or a file, and what an operator adds to them *)

LEMMA FieldsAre ==
    ASSUME NEW d, NEW x
    PROVE  x \in FieldsOf(d) <=>
              \/ \E k \in DOMAIN d.notes : x \in NoteFields(d.notes[k])
              \/ \E k \in DOMAIN d.otpNotes : x \in OtpFields(d.otpNotes[k])
              \/ x \in HistoryFields(d.generatedPassws)
<1> DEFINE N == {NoteFields(d.notes[k]) : k \in DOMAIN d.notes}
           O == {OtpFields(d.otpNotes[k]) : k \in DOMAIN d.otpNotes}
<1>1. FieldsOf(d) = (UNION N) \cup (UNION O) \cup HistoryFields(d.generatedPassws)
    BY Zenon DEF FieldsOf
<1>2. x \in UNION N <=> \E k \in DOMAIN d.notes : x \in NoteFields(d.notes[k])
    BY Zenon
<1>3. x \in UNION O <=> \E k \in DOMAIN d.otpNotes : x \in OtpFields(d.otpNotes[k])
    BY Zenon
<1> HIDE DEF N, O
<1>4. x \in FieldsOf(d) <=> \/ x \in UNION N \/ x \in UNION O
                           \/ x \in HistoryFields(d.generatedPassws)
    BY <1>1
<1> QED BY <1>2, <1>3, <1>4, Zenon

\* the fields of the entries of a history, whatever else they hold
LEMMA SameHistoryFields ==
    ASSUME NEW list, NEW other, DOMAIN other = DOMAIN list,
           \A k \in DOMAIN list : other[k].passw = list[k].passw
    PROVE  HistoryFields(other) = HistoryFields(list)
    BY DEF HistoryFields

LEMMA FlatFields ==
    ASSUME NEW S, NEW list \in Seq(S)
    PROVE  HistoryFields(FlatHistory(list)) = HistoryFields(list)
<1>1. /\ DOMAIN FlatHistory(list) = DOMAIN list
      /\ \A k \in DOMAIN list : FlatHistory(list)[k].passw = list[k].passw
    BY DEF FlatHistory
<1> QED BY <1>1, SameHistoryFields

LEMMA NumberedFields ==
    ASSUME NEW S, NEW list \in Seq(S), NEW from
    PROVE  HistoryFields(Numbered(list, from)) = HistoryFields(list)
<1>1. /\ DOMAIN Numbered(list, from) = DOMAIN list
      /\ \A k \in DOMAIN list : Numbered(list, from)[k].passw = list[k].passw
    BY DEF Numbered
<1> QED BY <1>1, SameHistoryFields

LEMMA ConcatFields ==
    ASSUME NEW S, NEW s \in Seq(S), NEW T, NEW t \in Seq(T)
    PROVE  HistoryFields(s \o t) = HistoryFields(s) \cup HistoryFields(t)
<1>1. ASSUME NEW x \in HistoryFields(s \o t)
      PROVE  x \in HistoryFields(s) \cup HistoryFields(t)
    <2>1. PICK k \in DOMAIN (s \o t) : x = (s \o t)[k].passw
        BY <1>1 DEF HistoryFields
    <2>2. CASE k \in DOMAIN s
        BY <2>1, <2>2, ConcatHas DEF HistoryFields
    <2>3. CASE \E j \in DOMAIN t : k = Len(s) + j
        <3>1. PICK j \in DOMAIN t : k = Len(s) + j
            BY <2>3
        <3>2. (s \o t)[k] = t[j]
            BY <3>1, ConcatHas
        <3> QED BY <2>1, <3>2 DEF HistoryFields
    <2> QED BY <2>1, <2>2, <2>3, ConcatHas
<1>2. ASSUME NEW x \in HistoryFields(s)
      PROVE  x \in HistoryFields(s \o t)
    <2>1. PICK k \in DOMAIN s : x = s[k].passw
        BY <1>2 DEF HistoryFields
    <2>2. k \in DOMAIN (s \o t) /\ (s \o t)[k] = s[k]
        BY ConcatHas
    <2> QED BY <2>1, <2>2 DEF HistoryFields
<1>3. ASSUME NEW x \in HistoryFields(t)
      PROVE  x \in HistoryFields(s \o t)
    <2>1. PICK k \in DOMAIN t : x = t[k].passw
        BY <1>3 DEF HistoryFields
    <2>2. Len(s) + k \in DOMAIN (s \o t) /\ (s \o t)[Len(s) + k] = t[k]
        BY ConcatHas
    <2> QED BY <2>1, <2>2 DEF HistoryFields
<1> QED BY <1>1, <1>2, <1>3

\* two values with the same fields item by item
LEMMA SameFields ==
    ASSUME NEW d, NEW e,
           DOMAIN e.notes = DOMAIN d.notes,
           \A k \in DOMAIN d.notes :
              NoteFields(e.notes[k]) = NoteFields(d.notes[k]),
           DOMAIN e.otpNotes = DOMAIN d.otpNotes,
           \A k \in DOMAIN d.otpNotes :
              OtpFields(e.otpNotes[k]) = OtpFields(d.otpNotes[k]),
           HistoryFields(e.generatedPassws) = HistoryFields(d.generatedPassws)
    PROVE  FieldsOf(e) = FieldsOf(d)
<1>1. \A x : x \in FieldsOf(e) <=> x \in FieldsOf(d)
    BY FieldsAre
<1> QED BY <1>1

LEMMA FileFields ==
    ASSUME NEW d \in DataSnapshot
    PROVE  FieldsOf(FileOf(d)) = FieldsOf(d)
<1> DEFINE f == FileOf(d)
<1>1. /\ DOMAIN f.notes = DOMAIN d.notes
      /\ DOMAIN f.otpNotes = DOMAIN d.otpNotes
      /\ f.generatedPassws = FlatHistory(d.generatedPassws)
    BY SnapshotParts DEF FileOf
<1>2. ASSUME NEW k \in DOMAIN d.notes
      PROVE  NoteFields(f.notes[k]) = NoteFields(d.notes[k])
    <2>1. /\ f.notes[k].info = d.notes[k].info
          /\ f.notes[k].passw = d.notes[k].passw
          /\ f.notes[k].history = FlatHistory(d.notes[k].history)
        BY SnapshotParts DEF FileOf
    <2>3. d.notes[k] \in CryptedNote
        BY SnapshotParts
    <2>2. d.notes[k].history \in Seq(CryptedPassword)
        BY <2>3 DEF CryptedNote
    <2> QED BY <2>1, <2>2, FlatFields DEF NoteFields
<1>3. ASSUME NEW k \in DOMAIN d.otpNotes
      PROVE  OtpFields(f.otpNotes[k]) = OtpFields(d.otpNotes[k])
    BY SnapshotParts DEF FileOf, OtpFields
<1>4. HistoryFields(f.generatedPassws) = HistoryFields(d.generatedPassws)
    BY <1>1, SnapshotParts, FlatFields
<1> QED BY <1>1, <1>2, <1>3, <1>4, SameFields

LEMMA ReadFields ==
    ASSUME NEW f \in FileSections
    PROVE  FieldsOf(ReadAll(f)) = FieldsOf(f)
<1>1. ReadAll(f) \in DataSnapshot
    BY ReadAllSound DEF Sound
<1> QED BY <1>1, FileFields, ReadAllAndBack

LEMMA CreateNoteFields ==
    ASSUME NEW d, Sound(d), NEW T, NEW dnote, NoteValues(dnote, T),
           NEW flags, NEW now \in Nat
    PROVE  FieldsOf(CreateNote(d, dnote, flags, now))
              = FieldsOf(d) \cup NoteFields(dnote)
<1> DEFINE e == CreateNote(d, dnote, flags, now)
<1>1. PICK next \in Nat : e = WithNote(d, dnote, next, now)
    BY CreatedNote
<1> DEFINE note == [id |-> d.idCounter, info |-> dnote.info,
                    passw |-> dnote.passw, genTime |-> now,
                    colorGroupId |-> dnote.colorGroupId,
                    history |-> Numbered(dnote.history, next)]
<1>2. /\ e.notes = Append(d.notes, note) /\ e.otpNotes = d.otpNotes
      /\ e.generatedPassws = d.generatedPassws
    BY <1>1 DEF WithNote, Sound, DataSnapshot
<1>3. NoteFields(note) = NoteFields(dnote)
    <2>1. dnote.history \in Seq(T)
        BY DEF NoteValues
    <2> QED BY <2>1, NumberedFields DEF NoteFields
<1>4. d.notes \in Seq(CryptedNote)
    BY SnapshotParts DEF Sound
<1> HIDE DEF e, note
<1>5. /\ DOMAIN e.notes = DOMAIN d.notes \cup {Len(d.notes) + 1}
      /\ e.notes[Len(d.notes) + 1] = note
      /\ \A k \in DOMAIN d.notes : e.notes[k] = d.notes[k]
    BY <1>2, <1>4, AppendHas
<1>6. \A x : x \in FieldsOf(e) <=> x \in FieldsOf(d) \/ x \in NoteFields(dnote)
    BY <1>2, <1>3, <1>5, FieldsAre
<1> QED BY <1>6 DEF e

LEMMA CreateOtpNoteFields ==
    ASSUME NEW d, Sound(d), NEW dnote, OtpValues(dnote), NEW flags
    PROVE  FieldsOf(CreateOtpNote(d, dnote, flags))
              = FieldsOf(d) \cup OtpFields(dnote)
<1> DEFINE e == CreateOtpNote(d, dnote, flags)
           otp == [id |-> d.idCounter, info |-> dnote.info,
                   secret |-> dnote.secret, method |-> dnote.method,
                   counter |-> dnote.counter,
                   colorGroupId |-> dnote.colorGroupId]
<1>1. e = [d EXCEPT !.idCounter = d.idCounter + 1,
                    !.otpNotes = Append(d.otpNotes, otp)]
    BY CreatedOtpNote, Zenon
<1>2. /\ e.otpNotes = Append(d.otpNotes, otp) /\ e.notes = d.notes
      /\ e.generatedPassws = d.generatedPassws
    <2> HIDE DEF e, otp
    <2> QED BY <1>1 DEF Sound, DataSnapshot
<1>3. OtpFields(otp) = OtpFields(dnote)
    BY DEF OtpFields
<1>4. d.otpNotes \in Seq(CryptedOtpInfo)
    BY SnapshotParts DEF Sound
<1> HIDE DEF e, otp
<1>5. /\ DOMAIN e.otpNotes = DOMAIN d.otpNotes \cup {Len(d.otpNotes) + 1}
      /\ e.otpNotes[Len(d.otpNotes) + 1] = otp
      /\ \A k \in DOMAIN d.otpNotes : e.otpNotes[k] = d.otpNotes[k]
    BY <1>2, <1>4, AppendHas
<1>6. \A x : x \in FieldsOf(e) <=> x \in FieldsOf(d) \/ x \in OtpFields(dnote)
    BY <1>2, <1>3, <1>5, FieldsAre
<1> QED BY <1>6 DEF e

LEMMA AppendPasswHistoryFields ==
    ASSUME NEW d, Sound(d), NEW T, NEW hist \in Seq(T),
           \A x \in T : x.passw \in AnyPassw /\ x.genTime \in Nat
    PROVE  FieldsOf(AppendPasswHistory(d, hist))
              = FieldsOf(d) \cup HistoryFields(hist)
<1> DEFINE e == AppendPasswHistory(d, hist)
           numbered == Numbered(hist, d.idCounter)
<1>1. /\ e.generatedPassws = d.generatedPassws \o numbered
      /\ e.notes = d.notes /\ e.otpNotes = d.otpNotes
    BY DEF AppendPasswHistory, Sound, DataSnapshot
<1>2. d.generatedPassws \in Seq(CryptedPassword) /\ d.idCounter \in Nat
    BY SnapshotParts DEF Sound
<1>3. numbered \in Seq(CryptedPassword)
    BY <1>2, NumberedProperties
<1> HIDE DEF e, numbered
<1>4. HistoryFields(e.generatedPassws)
        = HistoryFields(d.generatedPassws) \cup HistoryFields(numbered)
    BY <1>1, <1>2, <1>3, ConcatFields
<1>5. HistoryFields(numbered) = HistoryFields(hist)
    BY NumberedFields DEF numbered
<1>6. \A x : x \in FieldsOf(e) <=> x \in FieldsOf(d) \/ x \in HistoryFields(hist)
    BY <1>1, <1>4, <1>5, FieldsAre
<1> QED BY <1>6 DEF e

LEMMA GenPasswordFields ==
    ASSUME NEW d, Sound(d), NEW passw \in Passws, NEW now \in Nat
    PROVE  FieldsOf(GenPassword(d, passw, now)) = FieldsOf(d) \cup {passw}
<1> DEFINE one == <<[passw |-> passw, genTime |-> now]>>
<1>1. /\ one \in Seq(CryptedPasswordFlat)
      /\ \A x \in CryptedPasswordFlat : x.passw \in AnyPassw /\ x.genTime \in Nat
    BY DEF CryptedPasswordFlat, AnyPassw
<1>2. GenPassword(d, passw, now) = AppendPasswHistory(d, one)
    BY EmptyPasswAssumption DEF GenPassword
<1>3. HistoryFields(one) = {passw}
    BY DEF HistoryFields
<1> HIDE DEF one
<1> QED BY <1>1, <1>2, <1>3, AppendPasswHistoryFields

LEMMA CreatedGroup ==
    ASSUME NEW d, Sound(d), NEW color \in Colors
    PROVE  LET group == [id |-> d.colorGroupIdCounter, color |-> color]
               e == CreateColorGroup(d, color)
           IN  /\ group \in ColorGroup
               /\ e.colorGroupIdCounter = d.colorGroupIdCounter + 1
               /\ e.colorGroups = Append(d.colorGroups, group)
               /\ e.notes = d.notes /\ e.otpNotes = d.otpNotes
               /\ e.generatedPassws = d.generatedPassws
<1> DEFINE id == d.colorGroupIdCounter
           blank == [id |-> id, color |-> BlankColor]
           x == [id |-> id, color |-> color]
           groups == d.colorGroups
           a == Append(groups, blank)
<1>1. /\ groups \in Seq(ColorGroup) /\ id \in Nat
      /\ id \notin Ids(groups)
    BY SnapshotParts DEF Sound, IdsBelowCounters
<1>2. /\ HasId(a, id)
      /\ [a EXCEPT ![IndexOf(a, id)] = x] = Append(groups, x)
    <2>1. blank.id = id
        OBVIOUS
    <2> HIDE DEF blank, x, id
    <2> QED BY <1>1, <2>1, AppendAndReplace
<1>3. CreateColorGroup(d, color) =
        [d EXCEPT !.colorGroupIdCounter = id + 1,
                  !.colorGroups = Append(groups, x)]
    BY <1>2 DEF CreateColorGroup, SetColorGroup, Sound, DataSnapshot
<1>4. x \in ColorGroup
    BY <1>1 DEF ColorGroup
<1> QED BY <1>3, <1>4 DEF Sound, DataSnapshot

LEMMA CreateColorGroupFields ==
    ASSUME NEW d, Sound(d), NEW color \in Colors
    PROVE  FieldsOf(CreateColorGroup(d, color)) = FieldsOf(d)
<1> DEFINE e == CreateColorGroup(d, color)
<1>1. /\ e.notes = d.notes /\ e.otpNotes = d.otpNotes
      /\ e.generatedPassws = d.generatedPassws
    BY CreatedGroup
<1> HIDE DEF e
<1>2. FieldsOf(e) = FieldsOf(d)
    BY <1>1, SameFields
<1> QED BY <1>2 DEF e

LEMMA UngroupedFields ==
    ASSUME NEW S, NEW list \in Seq(S), NEW groupId, NEW k \in DOMAIN list
    PROVE  /\ DOMAIN Ungroup(list, groupId) = DOMAIN list
           /\ S = CryptedNote =>
                NoteFields(Ungroup(list, groupId)[k]) = NoteFields(list[k])
           /\ S = CryptedOtpInfo =>
                OtpFields(Ungroup(list, groupId)[k]) = OtpFields(list[k])
<1> DEFINE x == list[k]
           y == Ungroup(list, groupId)[k]
<1>1. /\ DOMAIN Ungroup(list, groupId) = DOMAIN list
      /\ x \in S
      /\ y = x \/ y = [x EXCEPT !.colorGroupId = 0]
    BY DEF Ungroup
<1> HIDE DEF x, y
<1>2. ASSUME S = CryptedNote
      PROVE  y.info = x.info /\ y.passw = x.passw /\ y.history = x.history
    BY <1>1, <1>2 DEF CryptedNote
<1>3. ASSUME S = CryptedOtpInfo
      PROVE  y.info = x.info /\ y.secret = x.secret
    BY <1>1, <1>3 DEF CryptedOtpInfo
<1>4. /\ S = CryptedNote => NoteFields(y) = NoteFields(x)
      /\ S = CryptedOtpInfo => OtpFields(y) = OtpFields(x)
    BY <1>2, <1>3 DEF NoteFields, OtpFields
<1> QED BY <1>1, <1>4 DEF x, y

LEMMA RemoveColorGroupFields ==
    ASSUME NEW d, Sound(d), NEW groupId
    PROVE  FieldsOf(RemoveColorGroup(d, groupId)) = FieldsOf(d)
<1>1. CASE HasId(d.colorGroups, groupId)
    <2> DEFINE e == RemoveColorGroup(d, groupId)
    <2>1. /\ e.notes = Ungroup(d.notes, groupId)
          /\ e.otpNotes = Ungroup(d.otpNotes, groupId)
          /\ e.generatedPassws = d.generatedPassws
        BY <1>1 DEF RemoveColorGroup, Sound, DataSnapshot
    <2>2. d.notes \in Seq(CryptedNote) /\ d.otpNotes \in Seq(CryptedOtpInfo)
        BY SnapshotParts DEF Sound
    <2>3. /\ DOMAIN Ungroup(d.notes, groupId) = DOMAIN d.notes
          /\ DOMAIN Ungroup(d.otpNotes, groupId) = DOMAIN d.otpNotes
        BY <2>2 DEF Ungroup
    <2> HIDE DEF e
    <2>4. /\ \A k \in DOMAIN d.notes :
                NoteFields(e.notes[k]) = NoteFields(d.notes[k])
          /\ \A k \in DOMAIN d.otpNotes :
                OtpFields(e.otpNotes[k]) = OtpFields(d.otpNotes[k])
        BY <2>1, <2>2, UngroupedFields
    <2>5. FieldsOf(e) = FieldsOf(d)
        BY <2>1, <2>3, <2>4, SameFields
    <2> QED BY <2>5 DEF e
<1>2. CASE ~ HasId(d.colorGroups, groupId)
    BY <1>2 DEF RemoveColorGroup
<1> QED BY <1>1, <1>2

\* a new password for a note: the old one is in its history
LEMMA SetPasswFields ==
    ASSUME NEW d, Sound(d), FieldsOf(d) \subseteq Passws,
           NEW dnote, HasId(d.notes, dnote.id), NEW flags,
           flags \cap {"FULL_HISTORY", "INFO", "FORCE"} = {},
           "PASSW" \in flags, "TRACK_HISTORY" \in flags, NEW now \in Nat
    PROVE  FieldsOf(SetNote(d, dnote, flags, now))
              = FieldsOf(d) \cup {dnote.passw}
<1> DEFINE e == SetNote(d, dnote, flags, now)
           k == IndexOf(d.notes, dnote.id)
           old == d.notes[k]
           new == Edited(d, old, dnote, flags, now)
<1>1. e.notes = [d.notes EXCEPT ![k] = new]
    <2>1. d \in DataSnapshot /\ "FULL_HISTORY" \notin flags
        BY DEF Sound
    <2> QED BY <2>1, SetNoteEdits
<1>2. e.otpNotes = d.otpNotes /\ e.generatedPassws = d.generatedPassws
    BY DEF SetNote, Sound, DataSnapshot
<1>3. d.notes \in Seq(CryptedNote) /\ k \in DOMAIN d.notes
    BY SnapshotParts DEF Sound, HasId, IndexOf
<1>4. old \in CryptedNote /\ old.history \in Seq(CryptedPassword)
    <2>1. old \in CryptedNote
        BY <1>3
    <2> QED BY <2>1 DEF CryptedNote
<1>5. old.passw # EmptyPassw
    <2>1. old.passw \in FieldsOf(d)
        BY <1>3, FieldsAre DEF NoteFields
    <2> QED BY <2>1, EmptyPasswAssumption
<1> HIDE DEF e, k
<1>6. NoteFields(new) = NoteFields(old) \cup {dnote.passw}
    <2>1. new.info = old.info
        BY DEF Edited
    <2>2. CASE old.passw = dnote.passw
        <3>1. new.passw = old.passw /\ new.history = old.history
            BY <2>2 DEF Edited, SetsPassw, TracksHistory
        <3> QED BY <2>1, <2>2, <3>1 DEF NoteFields
    <2>3. CASE old.passw # dnote.passw
        <3> DEFINE entry == Replaced(d, old)
        <3>1. /\ new.passw = dnote.passw
              /\ new.history = <<entry>> \o old.history
            BY <1>5, <2>3 DEF Edited, SetsPassw, TracksHistory, PushedFront
        <3>2. HistoryFields(<<entry>>) = {old.passw}
            BY DEF HistoryFields, Replaced
        <3> HIDE DEF entry
        <3>3. <<entry>> \in Seq({entry})
            OBVIOUS
        <3>4. HistoryFields(<<entry>> \o old.history)
                = HistoryFields(<<entry>>) \cup HistoryFields(old.history)
            BY <1>4, <3>3, ConcatFields
        <3>5. HistoryFields(new.history) = {old.passw} \cup HistoryFields(old.history)
            BY <3>1, <3>2, <3>4
        <3> HIDE DEF new, old
        <3> QED BY <2>1, <3>1, <3>5 DEF NoteFields
    <2> QED BY <2>2, <2>3
<1> HIDE DEF old, new
<1>7. /\ DOMAIN e.notes = DOMAIN d.notes /\ e.notes[k] = new
      /\ \A j \in DOMAIN d.notes \ {k} : e.notes[j] = d.notes[j]
    BY <1>1, <1>3
<1>8. \A x : x \in FieldsOf(e) <=> x \in FieldsOf(d) \/ x = dnote.passw
    <2>1. \A x : x \in NoteFields(e.notes[k])
                    <=> x \in NoteFields(d.notes[k]) \/ x = dnote.passw
        BY <1>6, <1>7 DEF old
    <2> QED BY <1>2, <1>3, <1>7, <2>1, FieldsAre
<1> QED BY <1>8 DEF e

-----------------------------------------------------------------------------
(* Copies of items under another password *)

CopiedHistory(m, n, old, new) ==
    /\ DOMAIN m = DOMAIN n
    /\ \A i \in DOMAIN n : m[i].passw = Rekeyed(n[i].passw, old, new)
CopiedNote(m, n, old, new) ==
    /\ m.info = Rekeyed(n.info, old, new)
    /\ m.passw = Rekeyed(n.passw, old, new)
    /\ m.colorGroupId = n.colorGroupId
    /\ CopiedHistory(m.history, n.history, old, new)
CopiedOtp(m, n, old, new) ==
    /\ m.info = Rekeyed(n.info, old, new)
    /\ m.secret = Rekeyed(n.secret, old, new)
    /\ m.colorGroupId = n.colorGroupId

LEMMA SealedTypes == Sealed = Infos /\ Sealed = Passws /\ Sealed \subseteq AnyPassw
    BY SealedAssumption DEF AnyPassw

LEMMA RekeyedType ==
    ASSUME NEW field \in Sealed, NEW old \in Passwords, NEW new \in Passwords
    PROVE  /\ Rekeyed(field, old, new) \in Sealed
           /\ Decrypt(new, Rekeyed(field, old, new)) = Decrypt(old, field)
           /\ field.key = old => Rekeyed(field, old, new).text = field.text
           /\ Rekeyed(field, old, new).text \in {field.text, Garbled}
    BY DEF Sealed, Rekeyed, Encrypt, Decrypt

LEMMA RekeyedHistoryType ==
    ASSUME NEW hist \in Seq(CryptedPassword), HistoryFields(hist) \subseteq Sealed,
           NEW old \in Passwords, NEW new \in Passwords
    PROVE  LET copy == RekeyedHistory(hist, old, new)
           IN  /\ copy \in Seq(CryptedPassword) /\ Len(copy) = Len(hist)
               /\ CopiedHistory(copy, hist, old, new)
               /\ HistoryFields(copy) \subseteq Sealed
<1> DEFINE copy == RekeyedHistory(hist, old, new)
           entry(i) == [hist[i] EXCEPT !.passw = Rekeyed(hist[i].passw, old, new)]
<1>1. ASSUME NEW i \in DOMAIN hist
      PROVE  /\ entry(i) \in CryptedPassword
             /\ entry(i).passw = Rekeyed(hist[i].passw, old, new)
             /\ entry(i).passw \in Sealed
    <2>1. hist[i] \in CryptedPassword /\ hist[i].passw \in Sealed
        BY DEF HistoryFields
    <2>2. Rekeyed(hist[i].passw, old, new) \in Sealed
        BY <2>1, RekeyedType
    <2>3. /\ entry(i).passw = Rekeyed(hist[i].passw, old, new)
          /\ entry(i) = [id |-> hist[i].id,
                         passw |-> Rekeyed(hist[i].passw, old, new),
                         genTime |-> hist[i].genTime]
        BY <2>1 DEF CryptedPassword
    <2> HIDE DEF entry
    <2>4. entry(i) \in CryptedPassword
        BY <2>1, <2>2, <2>3, SealedTypes DEF CryptedPassword
    <2> QED BY <2>2, <2>3, <2>4
<1>2. /\ copy = [i \in DOMAIN hist |-> entry(i)]
      /\ DOMAIN hist = 1 .. Len(hist) /\ Len(hist) \in Nat
    BY DEF RekeyedHistory
<1> HIDE DEF copy, entry
<1>3. /\ copy \in Seq(CryptedPassword) /\ Len(copy) = Len(hist)
      /\ DOMAIN copy = DOMAIN hist
    BY <1>1, <1>2
<1> QED BY <1>1, <1>2, <1>3 DEF CopiedHistory, HistoryFields, copy

LEMMA CopyNoteIs ==
    ASSUME NEW d, Sound(d), NEW note \in CryptedNote,
           NoteFields(note) \subseteq Sealed,
           NEW old \in Passwords, NEW new \in Passwords
    PROVE  LET e == CopyNote(d, note, old, new)
           IN  /\ Sound(e) /\ FieldsOf(e) \subseteq FieldsOf(d) \cup Sealed
               /\ e.colorGroups = d.colorGroups /\ e.otpNotes = d.otpNotes
               /\ e.generatedPassws = d.generatedPassws
               /\ \E m : /\ e.notes = Append(d.notes, m)
                         /\ CopiedNote(m, note, old, new)
<1> DEFINE dnote == [info |-> Rekeyed(note.info, old, new),
                     passw |-> Rekeyed(note.passw, old, new),
                     colorGroupId |-> note.colorGroupId,
                     history |-> RekeyedHistory(note.history, old, new)]
           e == CreateNote(d, dnote, {}, 0)
<1>1. e = CopyNote(d, note, old, new)
    BY DEF CopyNote
<1>2. /\ note.info \in Sealed /\ note.passw \in Sealed
      /\ HistoryFields(note.history) \subseteq Sealed
      /\ note.history \in Seq(CryptedPassword) /\ note.colorGroupId \in Int
    BY DEF NoteFields, CryptedNote
<1>3. /\ dnote.info = Rekeyed(note.info, old, new) /\ dnote.info \in Sealed
      /\ dnote.passw = Rekeyed(note.passw, old, new) /\ dnote.passw \in Sealed
      /\ dnote.colorGroupId = note.colorGroupId
      /\ dnote.history \in Seq(CryptedPassword)
      /\ CopiedHistory(dnote.history, note.history, old, new)
      /\ HistoryFields(dnote.history) \subseteq Sealed
    BY <1>2, RekeyedType, RekeyedHistoryType
<1> HIDE DEF dnote
<1>4. NoteValues(dnote, CryptedPassword)
    BY <1>2, <1>3, SealedTypes DEF NoteValues, CryptedPassword
<1>5. Sound(e) /\ FieldsOf(e) = FieldsOf(d) \cup NoteFields(dnote)
    BY <1>4, CreateNoteSound, CreateNoteFields
<1>6. PICK next \in Nat : e = WithNote(d, dnote, next, 0)
    BY <1>4, CreatedNote
<1> DEFINE m == [id |-> d.idCounter, info |-> dnote.info,
                 passw |-> dnote.passw, genTime |-> 0,
                 colorGroupId |-> dnote.colorGroupId,
                 history |-> Numbered(dnote.history, next)]
<1>7. /\ e.notes = Append(d.notes, m) /\ e.otpNotes = d.otpNotes
      /\ e.generatedPassws = d.generatedPassws /\ e.colorGroups = d.colorGroups
    BY <1>6 DEF WithNote, Sound, DataSnapshot
<1>8. CopiedHistory(m.history, note.history, old, new)
    BY <1>3 DEF CopiedHistory, Numbered
<1>9. CopiedNote(m, note, old, new)
    BY <1>3, <1>8 DEF CopiedNote
<1>10. NoteFields(dnote) \subseteq Sealed
    BY <1>3 DEF NoteFields
<1> HIDE DEF e, m
<1> QED BY <1>1, <1>5, <1>7, <1>9, <1>10

LEMMA CopyOtpNoteIs ==
    ASSUME NEW d, Sound(d), NEW otp \in CryptedOtpInfo,
           OtpFields(otp) \subseteq Sealed,
           NEW old \in Passwords, NEW new \in Passwords
    PROVE  LET e == CopyOtpNote(d, otp, old, new)
           IN  /\ Sound(e) /\ FieldsOf(e) \subseteq FieldsOf(d) \cup Sealed
               /\ e.colorGroups = d.colorGroups /\ e.notes = d.notes
               /\ e.generatedPassws = d.generatedPassws
               /\ \E m : /\ e.otpNotes = Append(d.otpNotes, m)
                         /\ CopiedOtp(m, otp, old, new)
<1> DEFINE dnote == [info |-> Rekeyed(otp.info, old, new),
                     secret |-> Rekeyed(otp.secret, old, new),
                     method |-> otp.method, counter |-> otp.counter,
                     colorGroupId |-> otp.colorGroupId]
           e == CreateOtpNote(d, dnote, {})
           none == {}
<1>1. e = CopyOtpNote(d, otp, old, new)
    BY DEF CopyOtpNote
<1>2. /\ otp.info \in Sealed /\ otp.secret \in Sealed
      /\ otp.colorGroupId \in Int /\ otp.method \in OtpMethods
      /\ otp.counter \in Nat
    BY DEF OtpFields, CryptedOtpInfo
<1>3. /\ dnote.info = Rekeyed(otp.info, old, new) /\ dnote.info \in Sealed
      /\ dnote.secret = Rekeyed(otp.secret, old, new) /\ dnote.secret \in Sealed
      /\ dnote.colorGroupId = otp.colorGroupId
      /\ dnote.method = otp.method /\ dnote.counter = otp.counter
    BY <1>2, RekeyedType
<1> HIDE DEF dnote
<1>4. OtpValues(dnote)
    BY <1>2, <1>3, SealedTypes DEF OtpValues
<1> DEFINE m == [id |-> d.idCounter, info |-> dnote.info,
                 secret |-> dnote.secret, method |-> dnote.method,
                 counter |-> dnote.counter,
                 colorGroupId |-> dnote.colorGroupId]
<1>5. Sound(e) /\ FieldsOf(e) = FieldsOf(d) \cup OtpFields(dnote)
    BY <1>4, CreateOtpNoteSound, CreateOtpNoteFields
<1>6. e = [d EXCEPT !.idCounter = d.idCounter + 1,
                    !.otpNotes = Append(d.otpNotes, m)]
    BY <1>4, CreatedOtpNote
<1>9. CopiedOtp(m, otp, old, new)
    BY <1>3 DEF CopiedOtp
<1>10. OtpFields(dnote) \subseteq Sealed
    BY <1>3 DEF OtpFields
<1> HIDE DEF e, m
<1>7. /\ e.otpNotes = Append(d.otpNotes, m) /\ e.notes = d.notes
      /\ e.generatedPassws = d.generatedPassws /\ e.colorGroups = d.colorGroups
    BY <1>6 DEF Sound, DataSnapshot
<1> QED BY <1>1, <1>5, <1>7, <1>9, <1>10

CopyNoteRun(c, d, notes, ids, old, new) ==
    /\ c[0] = d /\ CopyNotes(d, notes, ids, old, new) = c[Len(notes)]
    /\ \A k \in 1 .. Len(notes) :
          c[k] = IF notes[k].id \in ids
                 THEN CopyNote(c[k - 1], notes[k], old, new)
                 ELSE c[k - 1]

LEMMA CopyNoteLoop ==
    ASSUME NEW d, Sound(d), NEW notes \in Seq(CryptedNote),
           \A k \in DOMAIN notes : NoteFields(notes[k]) \subseteq Sealed,
           NEW ids, NEW old \in Passwords, NEW new \in Passwords
    PROVE  \E c \in [0 .. Len(notes) -> SoundSnapshots] :
              CopyNoteRun(c, d, notes, ids, old, new)
<1> DEFINE n == Len(notes)
           S == SoundSnapshots
           step(e, k) == IF notes[k].id \in ids
                         THEN CopyNote(e, notes[k], old, new) ELSE e
           F == [p \in S \X (1 .. n) |-> step(p[1], p[2])]
           body(f) == [k \in 0 .. n |-> IF k = 0 THEN d
                          ELSE IF notes[k].id \in ids
                          THEN CopyNote(f[k - 1], notes[k], old, new)
                          ELSE f[k - 1]]
           c == CHOOSE f : f = body(f)
<1>1. n \in Nat /\ d \in S
    BY DEF Sound, SoundSnapshots
<1>2. ASSUME NEW e \in S, NEW k \in 1 .. n
      PROVE  step(e, k) \in S
    <2>1. notes[k] \in CryptedNote /\ NoteFields(notes[k]) \subseteq Sealed
        OBVIOUS
    <2>2. Sound(CopyNote(e, notes[k], old, new))
        BY <2>1, CopyNoteIs DEF SoundSnapshots
    <2> QED BY <2>2 DEF Sound, SoundSnapshots
<1>3. F \in [S \X (1 .. n) -> S]
    <2> HIDE DEF step, S, n
    <2> QED BY <1>2
<1>4. PICK g \in [0 .. n -> S] : Loop(g, n, d, F)
    <2> HIDE DEF F, S, n
    <2> QED BY <1>1, <1>3, LoopExists
<1>5. ASSUME NEW k \in 0 .. n
      PROVE  /\ g[k] \in S
             /\ g[k] = IF k = 0 THEN d ELSE step(g[k - 1], k)
    <2>1. CASE k = 0
        BY <1>4, <2>1 DEF Loop
    <2>2. CASE k # 0
        <3>1. k \in 1 .. n /\ k - 1 \in 0 .. n
            BY <1>1, <2>2
        <3>2. g[k] = F[<<g[k - 1], k>>] /\ g[k - 1] \in S
            BY <1>4, <2>2, <3>1 DEF Loop
        <3>3. F[<<g[k - 1], k>>] = step(g[k - 1], k)
            <4> HIDE DEF step, S, n
            <4> QED BY <3>1, <3>2
        <3> QED BY <1>4, <2>2, <3>2, <3>3
    <2> QED BY <2>1, <2>2
<1>6. g = body(g)
    <2>1. \A k \in 0 .. n : g[k] = body(g)[k]
        BY <1>5
    <2>2. body(g) = [k \in 0 .. n |-> body(g)[k]]
        OBVIOUS
    <2>3. g = [k \in 0 .. n |-> g[k]]
        BY <1>4 DEF Loop
    <2> HIDE DEF body
    <2> QED BY <2>1, <2>2, <2>3
<1>7. c = body(c)
    <2> HIDE DEF body
    <2> QED BY <1>6
<1>8. CopyNotes(d, notes, ids, old, new) = c[n]
    BY Zenon DEF CopyNotes
<1> HIDE DEF c
<1>9. /\ DOMAIN c = 0 .. n /\ c = [k \in 0 .. n |-> c[k]]
      /\ \A k \in 0 .. n : c[k] = body(c)[k]
    <2>1. body(c) = [k \in 0 .. n |-> body(c)[k]] /\ DOMAIN body(c) = 0 .. n
        OBVIOUS
    <2> HIDE DEF body
    <2> QED BY <1>7, <2>1
<1>10. c[0] = d /\ \A k \in 1 .. n : c[k] = step(c[k - 1], k)
    <2>1. \A k \in 1 .. n : k \in 0 .. n /\ k # 0
        OBVIOUS
    <2>2. 0 \in 0 .. n
        BY <1>1
    <2> QED BY <1>9, <2>1, <2>2
<1> HIDE DEF step, S, n
<1>11. \A k \in 0 .. n : c[k] \in S
    <2> DEFINE typed == {k \in Nat : k <= n => c[k] \in S}
    <2>1. 0 \in typed
        BY <1>1, <1>10
    <2>2. ASSUME NEW k \in typed PROVE k + 1 \in typed
        <3> SUFFICES ASSUME k + 1 <= n PROVE c[k + 1] \in S
            OBVIOUS
        <3>1. k + 1 \in 1 .. n /\ (k + 1) - 1 = k /\ c[k] \in S
            BY <1>1
        <3> QED BY <1>2, <1>10, <3>1
    <2>3. typed \in SUBSET Nat
        OBVIOUS
    <2> HIDE DEF typed
    <2>4. typed = Nat
        BY <2>1, <2>2, <2>3, SetInduction
    <2> QED BY <1>1, <2>4 DEF typed
<1>12. c \in [0 .. n -> S]
    BY <1>9, <1>11
<1> QED BY <1>8, <1>10, <1>12 DEF n, S, step, CopyNoteRun

CopyOtpNoteRun(c, d, otps, ids, old, new) ==
    /\ c[0] = d /\ CopyOtpNotes(d, otps, ids, old, new) = c[Len(otps)]
    /\ \A k \in 1 .. Len(otps) :
          c[k] = IF otps[k].id \in ids
                 THEN CopyOtpNote(c[k - 1], otps[k], old, new)
                 ELSE c[k - 1]

LEMMA CopyOtpNoteLoop ==
    ASSUME NEW d, Sound(d), NEW otps \in Seq(CryptedOtpInfo),
           \A k \in DOMAIN otps : OtpFields(otps[k]) \subseteq Sealed,
           NEW ids, NEW old \in Passwords, NEW new \in Passwords
    PROVE  \E c \in [0 .. Len(otps) -> SoundSnapshots] :
              CopyOtpNoteRun(c, d, otps, ids, old, new)
<1> DEFINE n == Len(otps)
           S == SoundSnapshots
           step(e, k) == IF otps[k].id \in ids
                         THEN CopyOtpNote(e, otps[k], old, new) ELSE e
           F == [p \in S \X (1 .. n) |-> step(p[1], p[2])]
           body(f) == [k \in 0 .. n |-> IF k = 0 THEN d
                          ELSE IF otps[k].id \in ids
                          THEN CopyOtpNote(f[k - 1], otps[k], old, new)
                          ELSE f[k - 1]]
           c == CHOOSE f : f = body(f)
<1>1. n \in Nat /\ d \in S
    BY DEF Sound, SoundSnapshots
<1>2. ASSUME NEW e \in S, NEW k \in 1 .. n
      PROVE  step(e, k) \in S
    <2>1. otps[k] \in CryptedOtpInfo /\ OtpFields(otps[k]) \subseteq Sealed
        OBVIOUS
    <2>2. Sound(CopyOtpNote(e, otps[k], old, new))
        BY <2>1, CopyOtpNoteIs DEF SoundSnapshots
    <2> QED BY <2>2 DEF Sound, SoundSnapshots
<1>3. F \in [S \X (1 .. n) -> S]
    <2> HIDE DEF step, S, n
    <2> QED BY <1>2
<1>4. PICK g \in [0 .. n -> S] : Loop(g, n, d, F)
    <2> HIDE DEF F, S, n
    <2> QED BY <1>1, <1>3, LoopExists
<1>5. ASSUME NEW k \in 0 .. n
      PROVE  /\ g[k] \in S
             /\ g[k] = IF k = 0 THEN d ELSE step(g[k - 1], k)
    <2>1. CASE k = 0
        BY <1>4, <2>1 DEF Loop
    <2>2. CASE k # 0
        <3>1. k \in 1 .. n /\ k - 1 \in 0 .. n
            BY <1>1, <2>2
        <3>2. g[k] = F[<<g[k - 1], k>>] /\ g[k - 1] \in S
            BY <1>4, <2>2, <3>1 DEF Loop
        <3>3. F[<<g[k - 1], k>>] = step(g[k - 1], k)
            <4> HIDE DEF step, S, n
            <4> QED BY <3>1, <3>2
        <3> QED BY <1>4, <2>2, <3>2, <3>3
    <2> QED BY <2>1, <2>2
<1>6. g = body(g)
    <2>1. \A k \in 0 .. n : g[k] = body(g)[k]
        BY <1>5
    <2>2. body(g) = [k \in 0 .. n |-> body(g)[k]]
        OBVIOUS
    <2>3. g = [k \in 0 .. n |-> g[k]]
        BY <1>4 DEF Loop
    <2> HIDE DEF body
    <2> QED BY <2>1, <2>2, <2>3
<1>7. c = body(c)
    <2> HIDE DEF body
    <2> QED BY <1>6
<1>8. CopyOtpNotes(d, otps, ids, old, new) = c[n]
    BY Zenon DEF CopyOtpNotes
<1> HIDE DEF c
<1>9. /\ DOMAIN c = 0 .. n /\ c = [k \in 0 .. n |-> c[k]]
      /\ \A k \in 0 .. n : c[k] = body(c)[k]
    <2>1. body(c) = [k \in 0 .. n |-> body(c)[k]] /\ DOMAIN body(c) = 0 .. n
        OBVIOUS
    <2> HIDE DEF body
    <2> QED BY <1>7, <2>1
<1>10. c[0] = d /\ \A k \in 1 .. n : c[k] = step(c[k - 1], k)
    <2>1. \A k \in 1 .. n : k \in 0 .. n /\ k # 0
        OBVIOUS
    <2>2. 0 \in 0 .. n
        BY <1>1
    <2> QED BY <1>9, <2>1, <2>2
<1> HIDE DEF step, S, n
<1>11. \A k \in 0 .. n : c[k] \in S
    <2> DEFINE typed == {k \in Nat : k <= n => c[k] \in S}
    <2>1. 0 \in typed
        BY <1>1, <1>10
    <2>2. ASSUME NEW k \in typed PROVE k + 1 \in typed
        <3> SUFFICES ASSUME k + 1 <= n PROVE c[k + 1] \in S
            OBVIOUS
        <3>1. k + 1 \in 1 .. n /\ (k + 1) - 1 = k /\ c[k] \in S
            BY <1>1
        <3> QED BY <1>2, <1>10, <3>1
    <2>3. typed \in SUBSET Nat
        OBVIOUS
    <2> HIDE DEF typed
    <2>4. typed = Nat
        BY <2>1, <2>2, <2>3, SetInduction
    <2> QED BY <1>1, <2>4 DEF typed
<1>12. c \in [0 .. n -> S]
    BY <1>9, <1>11
<1> QED BY <1>8, <1>10, <1>12 DEF n, S, step, CopyOtpNoteRun

CopyGroupsRun(c, d, groups) ==
    /\ c[0] = d /\ CopyGroups(d, groups) = c[Len(groups)]
    /\ \A k \in 1 .. Len(groups) :
          c[k] = CreateColorGroup(c[k - 1], groups[k].color)

LEMMA CopyGroupsLoop ==
    ASSUME NEW d, Sound(d), NEW groups \in Seq(ColorGroup)
    PROVE  \E c \in [0 .. Len(groups) -> SoundSnapshots] :
              CopyGroupsRun(c, d, groups)
<1> DEFINE n == Len(groups)
           S == SoundSnapshots
           step(e, k) == CreateColorGroup(e, groups[k].color)
           F == [p \in S \X (1 .. n) |-> step(p[1], p[2])]
           body(f) == [k \in 0 .. n |-> IF k = 0 THEN d
                          ELSE CreateColorGroup(f[k - 1], groups[k].color)]
           c == CHOOSE f : f = body(f)
<1>1. n \in Nat /\ d \in S
    BY DEF Sound, SoundSnapshots
<1>2. ASSUME NEW e \in S, NEW k \in 1 .. n
      PROVE  step(e, k) \in S
    <2>1. groups[k] \in ColorGroup
        OBVIOUS
    <2>2. groups[k].color \in Colors
        BY <2>1 DEF ColorGroup
    <2>3. Sound(step(e, k))
        BY <2>2, CreateColorGroupSound DEF SoundSnapshots
    <2> QED BY <2>3 DEF Sound, SoundSnapshots
<1>3. F \in [S \X (1 .. n) -> S]
    <2> HIDE DEF step, S, n
    <2> QED BY <1>2
<1>4. PICK g \in [0 .. n -> S] : Loop(g, n, d, F)
    <2> HIDE DEF F, S, n
    <2> QED BY <1>1, <1>3, LoopExists
<1>5. ASSUME NEW k \in 0 .. n
      PROVE  /\ g[k] \in S
             /\ g[k] = IF k = 0 THEN d ELSE step(g[k - 1], k)
    <2>1. CASE k = 0
        BY <1>4, <2>1 DEF Loop
    <2>2. CASE k # 0
        <3>1. k \in 1 .. n /\ k - 1 \in 0 .. n
            BY <1>1, <2>2
        <3>2. g[k] = F[<<g[k - 1], k>>] /\ g[k - 1] \in S
            BY <1>4, <2>2, <3>1 DEF Loop
        <3>3. F[<<g[k - 1], k>>] = step(g[k - 1], k)
            <4> HIDE DEF step, S, n
            <4> QED BY <3>1, <3>2
        <3> QED BY <1>4, <2>2, <3>2, <3>3
    <2> QED BY <2>1, <2>2
<1>6. g = body(g)
    <2>1. \A k \in 0 .. n : g[k] = body(g)[k]
        BY <1>5
    <2>2. body(g) = [k \in 0 .. n |-> body(g)[k]]
        OBVIOUS
    <2>3. g = [k \in 0 .. n |-> g[k]]
        BY <1>4 DEF Loop
    <2> HIDE DEF body
    <2> QED BY <2>1, <2>2, <2>3
<1>7. c = body(c)
    <2> HIDE DEF body
    <2> QED BY <1>6
<1>8. CopyGroups(d, groups) = c[n]
    BY Zenon DEF CopyGroups
<1> HIDE DEF c
<1>9. /\ DOMAIN c = 0 .. n /\ c = [k \in 0 .. n |-> c[k]]
      /\ \A k \in 0 .. n : c[k] = body(c)[k]
    <2>1. body(c) = [k \in 0 .. n |-> body(c)[k]] /\ DOMAIN body(c) = 0 .. n
        OBVIOUS
    <2> HIDE DEF body
    <2> QED BY <1>7, <2>1
<1>10. c[0] = d /\ \A k \in 1 .. n : c[k] = step(c[k - 1], k)
    <2>1. \A k \in 1 .. n : k \in 0 .. n /\ k # 0
        OBVIOUS
    <2>2. 0 \in 0 .. n
        BY <1>1
    <2> QED BY <1>9, <2>1, <2>2
<1> HIDE DEF step, S, n
<1>11. \A k \in 0 .. n : c[k] \in S
    <2> DEFINE typed == {k \in Nat : k <= n => c[k] \in S}
    <2>1. 0 \in typed
        BY <1>1, <1>10
    <2>2. ASSUME NEW k \in typed PROVE k + 1 \in typed
        <3> SUFFICES ASSUME k + 1 <= n PROVE c[k + 1] \in S
            OBVIOUS
        <3>1. k + 1 \in 1 .. n /\ (k + 1) - 1 = k /\ c[k] \in S
            BY <1>1
        <3> QED BY <1>2, <1>10, <3>1
    <2>3. typed \in SUBSET Nat
        OBVIOUS
    <2> HIDE DEF typed
    <2>4. typed = Nat
        BY <2>1, <2>2, <2>3, SetInduction
    <2> QED BY <1>1, <2>4 DEF typed
<1>12. c \in [0 .. n -> S]
    BY <1>9, <1>11
<1> QED BY <1>8, <1>10, <1>12 DEF n, S, step, CopyGroupsRun

LEMMA SplicedType ==
    ASSUME NEW f \in FileSections, NEW part \in FileSections
    PROVE  Spliced(f, part) \in FileSections
<1>1. /\ f.colorGroups \in Seq(ColorGroup) /\ part.colorGroups \in Seq(ColorGroup)
      /\ f.notes \in Seq(CryptedNoteFlat) /\ part.notes \in Seq(CryptedNoteFlat)
      /\ f.otpNotes \in Seq(CryptedOtpInfoFlat)
      /\ part.otpNotes \in Seq(CryptedOtpInfoFlat)
      /\ f.generatedPassws \in Seq(CryptedPasswordFlat)
      /\ part.generatedPassws \in Seq(CryptedPasswordFlat)
    BY DEF FileSections
<1>2. /\ f.colorGroups \o part.colorGroups \in Seq(ColorGroup)
      /\ f.notes \o part.notes \in Seq(CryptedNoteFlat)
      /\ f.otpNotes \o part.otpNotes \in Seq(CryptedOtpInfoFlat)
      /\ f.generatedPassws \o part.generatedPassws \in Seq(CryptedPasswordFlat)
    BY <1>1
<1> QED BY <1>2 DEF Spliced, FileSections

CollectedRun(c, src, strategies) ==
    /\ c[0] = EmptyFile /\ Collected(src, strategies) = c[Len(strategies)]
    /\ \A k \in 1 .. Len(strategies) :
          c[k] = Spliced(c[k - 1], FileOf(WithStrategy(src, strategies[k])))

LEMMA CollectedLoop ==
    ASSUME NEW src, NEW strategies,
           Len(strategies) \in Nat,
           \A k \in 1 .. Len(strategies) :
              FileOf(WithStrategy(src, strategies[k])) \in FileSections
    PROVE  \E c \in [0 .. Len(strategies) -> FileSections] :
              CollectedRun(c, src, strategies)
<1> DEFINE n == Len(strategies)
           S == FileSections
           step(e, k) == Spliced(e, FileOf(WithStrategy(src, strategies[k])))
           F == [p \in S \X (1 .. n) |-> step(p[1], p[2])]
           body(f) == [k \in 0 .. n |-> IF k = 0 THEN EmptyFile
                          ELSE Spliced(f[k - 1],
                                  FileOf(WithStrategy(src, strategies[k])))]
           c == CHOOSE f : f = body(f)
<1>1. n \in Nat /\ EmptyFile \in S
    BY EmptyFileType
<1>2. ASSUME NEW e \in S, NEW k \in 1 .. n
      PROVE  step(e, k) \in S
    <2> DEFINE part == FileOf(WithStrategy(src, strategies[k]))
    <2>1. part \in FileSections
        OBVIOUS
    <2> HIDE DEF part
    <2>2. Spliced(e, part) \in FileSections
        BY <2>1, SplicedType
    <2> QED BY <2>2 DEF part
<1>3. F \in [S \X (1 .. n) -> S]
    <2> HIDE DEF step, S, n
    <2> QED BY <1>2
<1>4. PICK g \in [0 .. n -> S] : Loop(g, n, EmptyFile, F)
    <2> HIDE DEF F, S, n
    <2> QED BY <1>1, <1>3, LoopExists
<1>5. ASSUME NEW k \in 0 .. n
      PROVE  /\ g[k] \in S
             /\ g[k] = IF k = 0 THEN EmptyFile ELSE step(g[k - 1], k)
    <2>1. CASE k = 0
        BY <1>4, <2>1 DEF Loop
    <2>2. CASE k # 0
        <3>1. k \in 1 .. n /\ k - 1 \in 0 .. n
            BY <1>1, <2>2
        <3>2. g[k] = F[<<g[k - 1], k>>] /\ g[k - 1] \in S
            BY <1>4, <2>2, <3>1 DEF Loop
        <3>3. F[<<g[k - 1], k>>] = step(g[k - 1], k)
            <4> HIDE DEF step, S, n
            <4> QED BY <3>1, <3>2
        <3> QED BY <1>4, <2>2, <3>2, <3>3
    <2> QED BY <2>1, <2>2
<1>6. g = body(g)
    <2>1. \A k \in 0 .. n : g[k] = body(g)[k]
        BY <1>5
    <2>2. body(g) = [k \in 0 .. n |-> body(g)[k]]
        OBVIOUS
    <2>3. g = [k \in 0 .. n |-> g[k]]
        BY <1>4 DEF Loop
    <2> HIDE DEF body
    <2> QED BY <2>1, <2>2, <2>3
<1>7. c = body(c)
    <2> HIDE DEF body
    <2> QED BY <1>6
<1>8. Collected(src, strategies) = c[n]
    BY Zenon DEF Collected
<1> HIDE DEF c
<1>9. /\ DOMAIN c = 0 .. n /\ c = [k \in 0 .. n |-> c[k]]
      /\ \A k \in 0 .. n : c[k] = body(c)[k]
    <2>1. body(c) = [k \in 0 .. n |-> body(c)[k]] /\ DOMAIN body(c) = 0 .. n
        OBVIOUS
    <2> HIDE DEF body
    <2> QED BY <1>7, <2>1
<1>10. c[0] = EmptyFile /\ \A k \in 1 .. n : c[k] = step(c[k - 1], k)
    <2>1. \A k \in 1 .. n : k \in 0 .. n /\ k # 0
        OBVIOUS
    <2>2. 0 \in 0 .. n
        BY <1>1
    <2> QED BY <1>9, <2>1, <2>2
<1> HIDE DEF step, S, n
<1>11. \A k \in 0 .. n : c[k] \in S
    <2> DEFINE typed == {k \in Nat : k <= n => c[k] \in S}
    <2>1. 0 \in typed
        BY <1>1, <1>10
    <2>2. ASSUME NEW k \in typed PROVE k + 1 \in typed
        <3> SUFFICES ASSUME k + 1 <= n PROVE c[k + 1] \in S
            OBVIOUS
        <3>1. k + 1 \in 1 .. n /\ (k + 1) - 1 = k /\ c[k] \in S
            BY <1>1
        <3> QED BY <1>2, <1>10, <3>1
    <2>3. typed \in SUBSET Nat
        OBVIOUS
    <2> HIDE DEF typed
    <2>4. typed = Nat
        BY <2>1, <2>2, <2>3, SetInduction
    <2> QED BY <1>1, <2>4 DEF typed
<1>12. c \in [0 .. n -> S]
    BY <1>9, <1>11
<1> QED BY <1>8, <1>10, <1>12 DEF n, S, step, CollectedRun

\* the list holds a copy of each of the n first notes that is asked for, and
\* nothing else
NotesCopied(after, notes, n, ids, old, new) ==
    /\ \A k \in 1 .. n : notes[k].id \in ids =>
          \E j \in DOMAIN after : CopiedNote(after[j], notes[k], old, new)
    /\ \A j \in DOMAIN after : \E k \in 1 .. n :
          CopiedNote(after[j], notes[k], old, new)

SealedNotes(list) == \A k \in DOMAIN list : NoteFields(list[k]) \subseteq Sealed

LEMMA CopyNotesAre ==
    ASSUME NEW d, Sound(d), d.notes = <<>>, NEW list \in Seq(CryptedNote),
           SealedNotes(list),
           NEW ids, NEW old \in Passwords, NEW new \in Passwords
    PROVE  LET e == CopyNotes(d, list, ids, old, new)
           IN  /\ Sound(e) /\ FieldsOf(e) \subseteq FieldsOf(d) \cup Sealed
               /\ e.colorGroups = d.colorGroups /\ e.otpNotes = d.otpNotes
               /\ e.generatedPassws = d.generatedPassws
               /\ NotesCopied(e.notes, list, Len(list), ids, old, new)
<1> DEFINE n == Len(list)
<1>0. PICK c \in [0 .. n -> SoundSnapshots] :
          CopyNoteRun(c, d, list, ids, old, new)
    BY CopyNoteLoop DEF SealedNotes
<1>1. /\ c[0] = d /\ CopyNotes(d, list, ids, old, new) = c[n]
      /\ \A k \in 1 .. n :
            c[k] = IF list[k].id \in ids
                   THEN CopyNote(c[k - 1], list[k], old, new)
                   ELSE c[k - 1]
    BY <1>0 DEF CopyNoteRun
<1> DEFINE Good(e, k) ==
               /\ FieldsOf(e) \subseteq FieldsOf(d) \cup Sealed
               /\ e.colorGroups = d.colorGroups /\ e.otpNotes = d.otpNotes
               /\ e.generatedPassws = d.generatedPassws
               /\ NotesCopied(e.notes, list, k, ids, old, new)
           good == {k \in Nat : k <= n => Good(c[k], k)}
<1>2. n \in Nat
    OBVIOUS
<1>3. 0 \in good
    <2>1. NotesCopied(d.notes, list, 0, ids, old, new)
        BY DEF NotesCopied
    <2> QED BY <1>1, <2>1
<1>4. ASSUME NEW k \in good PROVE k + 1 \in good
    <2> SUFFICES ASSUME k + 1 <= n PROVE Good(c[k + 1], k + 1)
        OBVIOUS
    <2> DEFINE e == c[k]
               x == list[k + 1]
    <2>1. /\ k \in Nat /\ k + 1 \in 1 .. n /\ (k + 1) - 1 = k /\ k \in 0 .. n
          /\ 1 .. k + 1 = (1 .. k) \cup {k + 1}
        BY <1>2
    <2>2. Sound(e) /\ Good(e, k)
        BY <1>1, <2>1 DEF SoundSnapshots
    <2>3. x \in CryptedNote /\ NoteFields(x) \subseteq Sealed
        BY <2>1 DEF SealedNotes
    <2>4. c[k + 1] = IF x.id \in ids THEN CopyNote(e, x, old, new) ELSE e
        BY <1>1, <2>1
    <2> HIDE DEF e
    <2>5. CASE x.id \in ids
        <3> DEFINE f == CopyNote(e, x, old, new)
        <3>1. /\ FieldsOf(f) \subseteq FieldsOf(e) \cup Sealed
              /\ f.colorGroups = e.colorGroups /\ f.otpNotes = e.otpNotes
              /\ f.generatedPassws = e.generatedPassws
              /\ \E m : /\ f.notes = Append(e.notes, m)
                        /\ CopiedNote(m, x, old, new)
            BY <2>2, <2>3, CopyNoteIs, Zenon
        <3> HIDE DEF f
        <3>2. PICK m : f.notes = Append(e.notes, m) /\ CopiedNote(m, x, old, new)
            BY <3>1
        <3>3. e.notes \in Seq(CryptedNote)
            BY <2>2, SnapshotParts DEF Sound
        <3>4. /\ \A j \in DOMAIN e.notes : /\ j \in DOMAIN f.notes
                                         /\ f.notes[j] = e.notes[j]
              /\ Len(e.notes) + 1 \in DOMAIN f.notes
              /\ f.notes[Len(e.notes) + 1] = m
              /\ DOMAIN f.notes = DOMAIN e.notes \cup {Len(e.notes) + 1}
            BY <3>2, <3>3, AppendHas
        <3>5. NotesCopied(f.notes, list, k + 1, ids, old, new)
            <4>1. ASSUME NEW i \in 1 .. k + 1, list[i].id \in ids
                  PROVE  \E j \in DOMAIN f.notes :
                            CopiedNote(f.notes[j], list[i], old, new)
                <5>1. CASE i = k + 1
                    BY <3>2, <3>4, <5>1
                <5>2. CASE i # k + 1
                    <6>1. i \in 1 .. k
                        BY <2>1, <5>2
                    <6>2. PICK j \in DOMAIN e.notes :
                              CopiedNote(e.notes[j], list[i], old, new)
                        BY <2>2, <4>1, <6>1 DEF NotesCopied
                    <6> QED BY <3>4, <6>2
                <5> QED BY <5>1, <5>2
            <4>2. ASSUME NEW j \in DOMAIN f.notes
                  PROVE  \E i \in 1 .. k + 1 :
                            CopiedNote(f.notes[j], list[i], old, new)
                <5>1. CASE j \in DOMAIN e.notes
                    <6>1. PICK i \in 1 .. k :
                              CopiedNote(e.notes[j], list[i], old, new)
                        BY <2>2, <5>1 DEF NotesCopied
                    <6> QED BY <2>1, <3>4, <5>1, <6>1
                <5>2. CASE j = Len(e.notes) + 1
                    BY <2>1, <3>2, <3>4, <5>2
                <5> QED BY <3>4, <5>1, <5>2
            <4> QED BY <4>1, <4>2 DEF NotesCopied
        <3> QED BY <2>2, <2>4, <2>5, <3>1, <3>5 DEF f
    <2>6. CASE x.id \notin ids
        <3>1. NotesCopied(e.notes, list, k + 1, ids, old, new)
            BY <2>1, <2>2, <2>6 DEF NotesCopied
        <3> QED BY <2>2, <2>4, <2>6, <3>1
    <2> QED BY <2>5, <2>6
<1>5. good \in SUBSET Nat
    OBVIOUS
<1>6. Good(c[n], n)
    <2> HIDE DEF good
    <2>1. good = Nat
        BY <1>3, <1>4, <1>5, SetInduction
    <2> QED BY <1>2, <2>1 DEF good
<1>7. Sound(c[n])
    BY <1>1, <1>2 DEF SoundSnapshots
<1> QED BY <1>1, <1>6, <1>7

\* the same for otp notes
OtpsCopied(after, otps, n, ids, old, new) ==
    /\ \A k \in 1 .. n : otps[k].id \in ids =>
          \E j \in DOMAIN after : CopiedOtp(after[j], otps[k], old, new)
    /\ \A j \in DOMAIN after : \E k \in 1 .. n :
          CopiedOtp(after[j], otps[k], old, new)

SealedOtps(list) == \A k \in DOMAIN list : OtpFields(list[k]) \subseteq Sealed

LEMMA CopyOtpNotesAre ==
    ASSUME NEW d, Sound(d), d.otpNotes = <<>>, NEW otps \in Seq(CryptedOtpInfo),
           SealedOtps(otps),
           NEW ids, NEW old \in Passwords, NEW new \in Passwords
    PROVE  LET e == CopyOtpNotes(d, otps, ids, old, new)
           IN  /\ Sound(e) /\ FieldsOf(e) \subseteq FieldsOf(d) \cup Sealed
               /\ e.colorGroups = d.colorGroups /\ e.notes = d.notes
               /\ e.generatedPassws = d.generatedPassws
               /\ OtpsCopied(e.otpNotes, otps, Len(otps), ids, old, new)
<1> DEFINE n == Len(otps)
<1>0. PICK c \in [0 .. n -> SoundSnapshots] :
          CopyOtpNoteRun(c, d, otps, ids, old, new)
    BY CopyOtpNoteLoop DEF SealedOtps
<1>1. /\ c[0] = d /\ CopyOtpNotes(d, otps, ids, old, new) = c[n]
      /\ \A k \in 1 .. n :
            c[k] = IF otps[k].id \in ids
                   THEN CopyOtpNote(c[k - 1], otps[k], old, new)
                   ELSE c[k - 1]
    BY <1>0 DEF CopyOtpNoteRun
<1> DEFINE Good(e, k) ==
               /\ FieldsOf(e) \subseteq FieldsOf(d) \cup Sealed
               /\ e.colorGroups = d.colorGroups /\ e.notes = d.notes
               /\ e.generatedPassws = d.generatedPassws
               /\ OtpsCopied(e.otpNotes, otps, k, ids, old, new)
           good == {k \in Nat : k <= n => Good(c[k], k)}
<1>2. n \in Nat
    OBVIOUS
<1>3. 0 \in good
    <2>1. OtpsCopied(d.otpNotes, otps, 0, ids, old, new)
        BY DEF OtpsCopied
    <2> QED BY <1>1, <2>1
<1>4. ASSUME NEW k \in good PROVE k + 1 \in good
    <2> SUFFICES ASSUME k + 1 <= n PROVE Good(c[k + 1], k + 1)
        OBVIOUS
    <2> DEFINE e == c[k]
               x == otps[k + 1]
    <2>1. /\ k \in Nat /\ k + 1 \in 1 .. n /\ (k + 1) - 1 = k /\ k \in 0 .. n
          /\ 1 .. k + 1 = (1 .. k) \cup {k + 1}
        BY <1>2
    <2>2. Sound(e) /\ Good(e, k)
        BY <1>1, <2>1 DEF SoundSnapshots
    <2>3. x \in CryptedOtpInfo /\ OtpFields(x) \subseteq Sealed
        BY <2>1 DEF SealedOtps
    <2>4. c[k + 1] = IF x.id \in ids THEN CopyOtpNote(e, x, old, new) ELSE e
        BY <1>1, <2>1
    <2> HIDE DEF e
    <2>5. CASE x.id \in ids
        <3> DEFINE f == CopyOtpNote(e, x, old, new)
        <3>1. /\ FieldsOf(f) \subseteq FieldsOf(e) \cup Sealed
              /\ f.colorGroups = e.colorGroups /\ f.notes = e.notes
              /\ f.generatedPassws = e.generatedPassws
              /\ \E m : /\ f.otpNotes = Append(e.otpNotes, m)
                        /\ CopiedOtp(m, x, old, new)
            BY <2>2, <2>3, CopyOtpNoteIs, Zenon
        <3> HIDE DEF f
        <3>2. PICK m : f.otpNotes = Append(e.otpNotes, m) /\ CopiedOtp(m, x, old, new)
            BY <3>1
        <3>3. e.otpNotes \in Seq(CryptedOtpInfo)
            BY <2>2, SnapshotParts DEF Sound
        <3>4. /\ \A j \in DOMAIN e.otpNotes : /\ j \in DOMAIN f.otpNotes
                                         /\ f.otpNotes[j] = e.otpNotes[j]
              /\ Len(e.otpNotes) + 1 \in DOMAIN f.otpNotes
              /\ f.otpNotes[Len(e.otpNotes) + 1] = m
              /\ DOMAIN f.otpNotes = DOMAIN e.otpNotes \cup {Len(e.otpNotes) + 1}
            BY <3>2, <3>3, AppendHas
        <3>5. OtpsCopied(f.otpNotes, otps, k + 1, ids, old, new)
            <4>1. ASSUME NEW i \in 1 .. k + 1, otps[i].id \in ids
                  PROVE  \E j \in DOMAIN f.otpNotes :
                            CopiedOtp(f.otpNotes[j], otps[i], old, new)
                <5>1. CASE i = k + 1
                    BY <3>2, <3>4, <5>1
                <5>2. CASE i # k + 1
                    <6>1. i \in 1 .. k
                        BY <2>1, <5>2
                    <6>2. PICK j \in DOMAIN e.otpNotes :
                              CopiedOtp(e.otpNotes[j], otps[i], old, new)
                        BY <2>2, <4>1, <6>1 DEF OtpsCopied
                    <6> QED BY <3>4, <6>2
                <5> QED BY <5>1, <5>2
            <4>2. ASSUME NEW j \in DOMAIN f.otpNotes
                  PROVE  \E i \in 1 .. k + 1 :
                            CopiedOtp(f.otpNotes[j], otps[i], old, new)
                <5>1. CASE j \in DOMAIN e.otpNotes
                    <6>1. PICK i \in 1 .. k :
                              CopiedOtp(e.otpNotes[j], otps[i], old, new)
                        BY <2>2, <5>1 DEF OtpsCopied
                    <6> QED BY <2>1, <3>4, <5>1, <6>1
                <5>2. CASE j = Len(e.otpNotes) + 1
                    BY <2>1, <3>2, <3>4, <5>2
                <5> QED BY <3>4, <5>1, <5>2
            <4> QED BY <4>1, <4>2 DEF OtpsCopied
        <3> QED BY <2>2, <2>4, <2>5, <3>1, <3>5 DEF f
    <2>6. CASE x.id \notin ids
        <3>1. OtpsCopied(e.otpNotes, otps, k + 1, ids, old, new)
            BY <2>1, <2>2, <2>6 DEF OtpsCopied
        <3> QED BY <2>2, <2>4, <2>6, <3>1
    <2> QED BY <2>5, <2>6
<1>5. good \in SUBSET Nat
    OBVIOUS
<1>6. Good(c[n], n)
    <2> HIDE DEF good
    <2>1. good = Nat
        BY <1>3, <1>4, <1>5, SetInduction
    <2> QED BY <1>2, <2>1 DEF good
<1>7. Sound(c[n])
    BY <1>1, <1>2 DEF SoundSnapshots
<1> QED BY <1>1, <1>6, <1>7

\* the n first groups, numbered anew
GroupsCopied(after, groups, n) ==
    /\ DOMAIN after = 1 .. n
    /\ \A k \in 1 .. n :
          after[k] = [id |-> ID_COUNTER_START + k, color |-> groups[k].color]

LEMMA CopyGroupsAre ==
    ASSUME NEW d, Sound(d), d.colorGroups = <<>>,
           d.colorGroupIdCounter = ID_COUNTER_START + 1,
           NEW groups \in Seq(ColorGroup)
    PROVE  LET e == CopyGroups(d, groups)
           IN  /\ Sound(e) /\ FieldsOf(e) = FieldsOf(d)
               /\ e.notes = d.notes /\ e.otpNotes = d.otpNotes
               /\ e.generatedPassws = d.generatedPassws
               /\ GroupsCopied(e.colorGroups, groups, Len(groups))
<1> DEFINE n == Len(groups)
<1>0. PICK c \in [0 .. n -> SoundSnapshots] : CopyGroupsRun(c, d, groups)
    BY CopyGroupsLoop
<1>1. /\ c[0] = d /\ CopyGroups(d, groups) = c[n]
      /\ \A k \in 1 .. n : c[k] = CreateColorGroup(c[k - 1], groups[k].color)
    BY <1>0 DEF CopyGroupsRun
<1> DEFINE Good(e, k) ==
               /\ FieldsOf(e) = FieldsOf(d)
               /\ e.notes = d.notes /\ e.otpNotes = d.otpNotes
               /\ e.generatedPassws = d.generatedPassws
               /\ e.colorGroupIdCounter = ID_COUNTER_START + k + 1
               /\ GroupsCopied(e.colorGroups, groups, k)
           good == {k \in Nat : k <= n => Good(c[k], k)}
<1>2. n \in Nat
    OBVIOUS
<1>3. 0 \in good
    <2>1. GroupsCopied(d.colorGroups, groups, 0)
        BY DEF GroupsCopied
    <2> QED BY <1>1, <2>1 DEF ID_COUNTER_START
<1>4. ASSUME NEW k \in good PROVE k + 1 \in good
    <2> SUFFICES ASSUME k + 1 <= n PROVE Good(c[k + 1], k + 1)
        OBVIOUS
    <2> DEFINE e == c[k]
               color == groups[k + 1].color
               f == CreateColorGroup(e, color)
               id == e.colorGroupIdCounter
               group == [id |-> id, color |-> color]
    <2>1. /\ k \in Nat /\ k + 1 \in 1 .. n /\ (k + 1) - 1 = k /\ k \in 0 .. n
          /\ 1 .. k + 1 = (1 .. k) \cup {k + 1}
        BY <1>2
    <2>2. Sound(e) /\ Good(e, k)
        BY <1>1, <2>1 DEF SoundSnapshots
    <2>3. color \in Colors
        <3>1. groups[k + 1] \in ColorGroup
            BY <2>1
        <3> QED BY <3>1 DEF ColorGroup
    <2>4. c[k + 1] = f
        BY <1>1, <2>1
    <2> HIDE DEF e, color
    <2>5. /\ f.colorGroupIdCounter = id + 1
          /\ f.colorGroups = Append(e.colorGroups, group)
          /\ f.notes = e.notes /\ f.otpNotes = e.otpNotes
          /\ f.generatedPassws = e.generatedPassws
          /\ FieldsOf(f) = FieldsOf(e)
        BY <2>2, <2>3, CreatedGroup, CreateColorGroupFields
    <2>6. e.colorGroups \in Seq(ColorGroup) /\ DOMAIN e.colorGroups = 1 .. k
        BY <2>2, SnapshotParts DEF Sound, GroupsCopied
    <2>7. Len(e.colorGroups) = k
        BY <2>1, <2>6
    <2> HIDE DEF f, group
    <2>8. GroupsCopied(f.colorGroups, groups, k + 1)
        <3>1. /\ DOMAIN f.colorGroups = 1 .. k + 1
              /\ f.colorGroups[k + 1] = group
              /\ \A j \in 1 .. k : f.colorGroups[j] = e.colorGroups[j]
            BY <2>1, <2>5, <2>6, <2>7, AppendHas
        <3>2. group = [id |-> ID_COUNTER_START + (k + 1),
                       color |-> groups[k + 1].color]
            BY <2>1, <2>2 DEF group, color, ID_COUNTER_START
        <3> QED BY <2>1, <2>2, <3>1, <3>2 DEF GroupsCopied
    <2>9. f.colorGroupIdCounter = ID_COUNTER_START + (k + 1) + 1
        BY <2>1, <2>2, <2>5 DEF ID_COUNTER_START
    <2> QED BY <2>2, <2>4, <2>5, <2>8, <2>9
<1>5. good \in SUBSET Nat
    OBVIOUS
<1>6. Good(c[n], n)
    <2> HIDE DEF good
    <2>1. good = Nat
        BY <1>3, <1>4, <1>5, SetInduction
    <2> QED BY <1>2, <2>1 DEF good
<1>7. Sound(c[n])
    BY <1>1, <1>2 DEF SoundSnapshots
<1> QED BY <1>1, <1>6, <1>7

-----------------------------------------------------------------------------
(* What one strategy makes of a storage *)

LEMMA NewStorageIs ==
    /\ Sound(NewStorage) /\ FieldsOf(NewStorage) = {}
    /\ NewStorage.notes = <<>> /\ NewStorage.otpNotes = <<>>
    /\ NewStorage.colorGroups = <<>> /\ NewStorage.generatedPassws = <<>>
    /\ NewStorage.colorGroupIdCounter = ID_COUNTER_START + 1
<1> DEFINE d == NewStorage
<1>1. Sound(d) /\ FieldsOf(d) = FieldsOf(EmptyFile)
    BY EmptyFileType, ReadAllSound, ReadFields DEF NewStorage
<1>2. /\ EmptyFile.notes = <<>> /\ EmptyFile.otpNotes = <<>>
      /\ EmptyFile.colorGroups = <<>> /\ EmptyFile.generatedPassws = <<>>
    BY DEF EmptyFile
<1>3. FieldsOf(EmptyFile) = {}
    BY <1>2, FieldsAre DEF HistoryFields
<1>4. /\ d.notes = <<>> /\ d.otpNotes = <<>>
      /\ d.colorGroups = <<>> /\ d.generatedPassws = <<>>
    BY <1>2 DEF NewStorage, ReadAll, Numbered
<1>5. d.colorGroupIdCounter = ID_COUNTER_START + 1
    <2>1. {ID_COUNTER_START} \cup Ids(EmptyFile.colorGroups) = {ID_COUNTER_START}
        BY <1>2 DEF Ids
    <2>2. Max({ID_COUNTER_START}) = ID_COUNTER_START
        BY DEF Max, ID_COUNTER_START
    <2>3. d.colorGroupIdCounter = NextGroupId(EmptyFile)
        BY DEF NewStorage, ReadAll
    <2> QED BY <2>1, <2>2, <2>3 DEF NextGroupId
<1> QED BY <1>1, <1>3, <1>4, <1>5

\* a file that holds what a strategy moves, and nothing else
PartOf(part, src, s) ==
    /\ NotesCopied(part.notes, src.notes, Len(src.notes), s.noteIds,
                   s.currentPassword, s.newPassw)
    /\ OtpsCopied(part.otpNotes, src.otpNotes, Len(src.otpNotes),
                  s.otpNoteIds, s.currentPassword, s.newPassw)
    /\ IF s.isDefault
       THEN /\ GroupsCopied(part.colorGroups, src.colorGroups,
                            Len(src.colorGroups))
            /\ CopiedHistory(part.generatedPassws, src.generatedPassws,
                             s.currentPassword, s.newPassw)
       ELSE part.colorGroups = <<>> /\ part.generatedPassws = <<>>

LEMMA NotesInFile ==
    ASSUME NEW d \in DataSnapshot, NEW notes, NEW n, NEW ids, NEW old, NEW new,
           NotesCopied(d.notes, notes, n, ids, old, new)
    PROVE  NotesCopied(FileOf(d).notes, notes, n, ids, old, new)
<1>1. DOMAIN FileOf(d).notes = DOMAIN d.notes
    BY SnapshotParts DEF FileOf
<1>2. ASSUME NEW j \in DOMAIN d.notes, NEW x,
             CopiedNote(d.notes[j], x, old, new)
      PROVE  CopiedNote(FileOf(d).notes[j], x, old, new)
    <2>1. /\ FileOf(d).notes[j].info = d.notes[j].info
          /\ FileOf(d).notes[j].passw = d.notes[j].passw
          /\ FileOf(d).notes[j].colorGroupId = d.notes[j].colorGroupId
          /\ FileOf(d).notes[j].history = FlatHistory(d.notes[j].history)
        BY SnapshotParts DEF FileOf
    <2>2. d.notes[j] \in CryptedNote
        BY SnapshotParts
    <2>3. d.notes[j].history \in Seq(CryptedPassword)
        BY <2>2 DEF CryptedNote
    <2>4. CopiedHistory(FlatHistory(d.notes[j].history), x.history, old, new)
        BY <1>2, <2>3 DEF CopiedNote, CopiedHistory, FlatHistory
    <2> QED BY <1>2, <2>1, <2>4 DEF CopiedNote
<1> QED BY <1>1, <1>2 DEF NotesCopied

LEMMA OtpsInFile ==
    ASSUME NEW d \in DataSnapshot, NEW otps, NEW n, NEW ids, NEW old, NEW new,
           OtpsCopied(d.otpNotes, otps, n, ids, old, new)
    PROVE  OtpsCopied(FileOf(d).otpNotes, otps, n, ids, old, new)
<1>1. DOMAIN FileOf(d).otpNotes = DOMAIN d.otpNotes
    BY SnapshotParts DEF FileOf
<1>2. ASSUME NEW j \in DOMAIN d.otpNotes, NEW x,
             CopiedOtp(d.otpNotes[j], x, old, new)
      PROVE  CopiedOtp(FileOf(d).otpNotes[j], x, old, new)
    <2>1. /\ FileOf(d).otpNotes[j].info = d.otpNotes[j].info
          /\ FileOf(d).otpNotes[j].secret = d.otpNotes[j].secret
          /\ FileOf(d).otpNotes[j].colorGroupId = d.otpNotes[j].colorGroupId
        BY SnapshotParts DEF FileOf
    <2> QED BY <1>2, <2>1 DEF CopiedOtp
<1> QED BY <1>1, <1>2 DEF OtpsCopied

LEMMA CopyGeneratedIs ==
    ASSUME NEW d, Sound(d), d.generatedPassws = <<>>,
           NEW gens \in Seq(CryptedPassword), HistoryFields(gens) \subseteq Sealed,
           NEW old \in Passwords, NEW new \in Passwords
    PROVE  LET e == CopyGenerated(d, gens, old, new)
           IN  /\ Sound(e) /\ FieldsOf(e) \subseteq FieldsOf(d) \cup Sealed
               /\ e.colorGroups = d.colorGroups /\ e.notes = d.notes
               /\ e.otpNotes = d.otpNotes
               /\ CopiedHistory(e.generatedPassws, gens, old, new)
<1> DEFINE copy == RekeyedHistory(gens, old, new)
           e == AppendPasswHistory(d, copy)
<1>1. /\ copy \in Seq(CryptedPassword) /\ CopiedHistory(copy, gens, old, new)
      /\ HistoryFields(copy) \subseteq Sealed
    BY RekeyedHistoryType
<1> HIDE DEF copy
<1>2. \A x \in CryptedPassword : x.passw \in AnyPassw /\ x.genTime \in Nat
    BY DEF CryptedPassword
<1>3. Sound(e) /\ FieldsOf(e) = FieldsOf(d) \cup HistoryFields(copy)
    BY <1>1, <1>2, AppendPasswHistorySound, AppendPasswHistoryFields
<1>4. /\ e.colorGroups = d.colorGroups /\ e.notes = d.notes
      /\ e.otpNotes = d.otpNotes
      /\ e.generatedPassws = <<>> \o Numbered(copy, d.idCounter)
    BY DEF AppendPasswHistory, Sound, DataSnapshot
<1>5. CopiedHistory(Numbered(copy, d.idCounter), gens, old, new)
    BY <1>1 DEF CopiedHistory, Numbered
<1>6. <<>> \o Numbered(copy, d.idCounter) = Numbered(copy, d.idCounter)
    <2>1. d.idCounter \in Nat
        BY SnapshotParts DEF Sound
    <2>2. Numbered(copy, d.idCounter) \in Seq(CryptedPassword)
        BY <1>1, <1>2, <2>1, NumberedProperties
    <2> QED BY <2>2, ConcatEmptySeq
<1>7. e = CopyGenerated(d, gens, old, new)
    BY DEF CopyGenerated, copy
<1> HIDE DEF e
<1> QED BY <1>1, <1>3, <1>4, <1>5, <1>6, <1>7

LEMMA WithStrategyIs ==
    ASSUME NEW src, Sound(src), FieldsOf(src) \subseteq Sealed,
           NEW s \in Strategy
    PROVE  LET part == FileOf(WithStrategy(src, s))
           IN  /\ part \in FileSections /\ FieldsOf(part) \subseteq Sealed
               /\ PartOf(part, src, s)
<1> DEFINE old == s.currentPassword
           new == s.newPassw
           groups == IF s.isDefault
                     THEN CopyGroups(NewStorage, src.colorGroups)
                     ELSE NewStorage
           notes == CopyNotes(groups, src.notes, s.noteIds, old, new)
           otps == CopyOtpNotes(notes, src.otpNotes, s.otpNoteIds, old, new)
           d == IF s.isDefault
                THEN CopyGenerated(otps, src.generatedPassws, old, new)
                ELSE otps
<1>1. /\ old \in Passwords /\ new \in Passwords /\ s.isDefault \in BOOLEAN
      /\ src.notes \in Seq(CryptedNote) /\ src.otpNotes \in Seq(CryptedOtpInfo)
      /\ src.generatedPassws \in Seq(CryptedPassword)
      /\ src.colorGroups \in Seq(ColorGroup)
    BY SnapshotParts DEF Strategy, Sound
<1>2. /\ \A k \in DOMAIN src.notes : NoteFields(src.notes[k]) \subseteq Sealed
      /\ \A k \in DOMAIN src.otpNotes : OtpFields(src.otpNotes[k]) \subseteq Sealed
      /\ HistoryFields(src.generatedPassws) \subseteq Sealed
    BY FieldsAre
<1>3. d = WithStrategy(src, s)
    BY DEF WithStrategy
<1>4. /\ Sound(groups) /\ FieldsOf(groups) = {}
      /\ groups.notes = <<>> /\ groups.otpNotes = <<>>
      /\ groups.generatedPassws = <<>>
      /\ IF s.isDefault
         THEN GroupsCopied(groups.colorGroups, src.colorGroups,
                           Len(src.colorGroups))
         ELSE groups.colorGroups = <<>>
    BY <1>1, NewStorageIs, CopyGroupsAre
<1> HIDE DEF groups
<1>5. /\ Sound(notes) /\ FieldsOf(notes) \subseteq Sealed
      /\ notes.colorGroups = groups.colorGroups
      /\ notes.otpNotes = <<>> /\ notes.generatedPassws = <<>>
      /\ NotesCopied(notes.notes, src.notes, Len(src.notes), s.noteIds, old, new)
    <2> DEFINE ids == s.noteIds
               list == src.notes
               e == CopyNotes(groups, list, ids, old, new)
    <2>3. /\ list \in Seq(CryptedNote) /\ old \in Passwords /\ new \in Passwords
          /\ SealedNotes(list)
        BY <1>1, <1>2 DEF SealedNotes
    <2>4. Sound(groups) /\ groups.notes = <<>>
        BY <1>4
    <2> HIDE DEF old, new, ids, list
    <2>1. /\ Sound(e) /\ FieldsOf(e) \subseteq FieldsOf(groups) \cup Sealed
          /\ e.colorGroups = groups.colorGroups
          /\ e.otpNotes = groups.otpNotes
          /\ e.generatedPassws = groups.generatedPassws
          /\ NotesCopied(e.notes, list, Len(list), ids, old, new)
        BY <2>3, <2>4, CopyNotesAre
    <2>2. e = notes
        BY DEF ids, list
    <2> HIDE DEF e, notes
    <2> QED BY <1>4, <2>1, <2>2 DEF ids, list
<1> HIDE DEF notes
<1>6. /\ Sound(otps) /\ FieldsOf(otps) \subseteq Sealed
      /\ otps.colorGroups = groups.colorGroups /\ otps.notes = notes.notes
      /\ otps.generatedPassws = <<>>
      /\ OtpsCopied(otps.otpNotes, src.otpNotes, Len(src.otpNotes),
                    s.otpNoteIds, old, new)
    <2> DEFINE ids == s.otpNoteIds
               list == src.otpNotes
               e == CopyOtpNotes(notes, list, ids, old, new)
    <2>3. /\ list \in Seq(CryptedOtpInfo) /\ old \in Passwords /\ new \in Passwords
          /\ SealedOtps(list)
        BY <1>1, <1>2 DEF SealedOtps
    <2>4. Sound(notes) /\ notes.otpNotes = <<>>
        BY <1>5
    <2> HIDE DEF old, new, ids, list
    <2>1. /\ Sound(e) /\ FieldsOf(e) \subseteq FieldsOf(notes) \cup Sealed
          /\ e.colorGroups = notes.colorGroups
          /\ e.notes = notes.notes
          /\ e.generatedPassws = notes.generatedPassws
          /\ OtpsCopied(e.otpNotes, list, Len(list), ids, old, new)
        BY <2>3, <2>4, CopyOtpNotesAre
    <2>2. e = otps
        BY DEF ids, list
    <2> HIDE DEF e, otps
    <2> QED BY <1>5, <2>1, <2>2 DEF ids, list
<1> HIDE DEF otps
<1>7. /\ Sound(d) /\ FieldsOf(d) \subseteq Sealed
      /\ d.colorGroups = groups.colorGroups /\ d.notes = notes.notes
      /\ d.otpNotes = otps.otpNotes
      /\ IF s.isDefault
         THEN CopiedHistory(d.generatedPassws, src.generatedPassws, old, new)
         ELSE d.generatedPassws = <<>>
    <2> HIDE DEF old, new
    <2>1. CASE s.isDefault
        <3> DEFINE e == CopyGenerated(otps, src.generatedPassws, old, new)
        <3>1. /\ Sound(e) /\ FieldsOf(e) \subseteq FieldsOf(otps) \cup Sealed
              /\ e.colorGroups = otps.colorGroups /\ e.notes = otps.notes
              /\ e.otpNotes = otps.otpNotes
              /\ CopiedHistory(e.generatedPassws, src.generatedPassws, old, new)
            BY <1>1, <1>2, <1>6, CopyGeneratedIs
        <3> HIDE DEF e
        <3>2. d = e
            BY <2>1 DEF e
        <3> HIDE DEF d
        <3> QED BY <1>6, <2>1, <3>1, <3>2
    <2>2. CASE ~ s.isDefault
        BY <1>6, <2>2
    <2> QED BY <2>1, <2>2
<1> HIDE DEF d
<1> DEFINE part == FileOf(d)
<1>8. d \in DataSnapshot
    BY <1>7 DEF Sound
<1>9. part \in FileSections /\ FieldsOf(part) \subseteq Sealed
    BY <1>7, <1>8, FileOfType, FileFields
<1>10. /\ NotesCopied(part.notes, src.notes, Len(src.notes), s.noteIds, old, new)
       /\ OtpsCopied(part.otpNotes, src.otpNotes, Len(src.otpNotes),
                     s.otpNoteIds, old, new)
    <2> HIDE DEF old, new
    <2> QED BY <1>5, <1>6, <1>7, <1>8, NotesInFile, OtpsInFile
<1>11. /\ part.colorGroups = d.colorGroups
       /\ part.generatedPassws = FlatHistory(d.generatedPassws)
    BY DEF FileOf
<1>12. IF s.isDefault
       THEN CopiedHistory(part.generatedPassws, src.generatedPassws, old, new)
       ELSE part.generatedPassws = <<>>
    <2>1. d.generatedPassws \in Seq(CryptedPassword)
        BY <1>8, SnapshotParts
    <2> HIDE DEF part, old, new
    <2>2. CASE s.isDefault
        BY <1>7, <1>11, <2>1, <2>2 DEF CopiedHistory, FlatHistory
    <2>3. CASE ~ s.isDefault
        BY <1>7, <1>11, <2>3 DEF FlatHistory
    <2> QED BY <2>2, <2>3
<1>13. PartOf(part, src, s)
    <2> HIDE DEF part
    <2> QED BY <1>4, <1>7, <1>10, <1>11, <1>12 DEF PartOf
<1> QED BY <1>3, <1>9, <1>13

-----------------------------------------------------------------------------
(* What the strategies make of it together *)

\* the file has all a strategy moves
Brings(f, src, s) ==
    /\ \A k \in DOMAIN src.notes : src.notes[k].id \in s.noteIds =>
          \E j \in DOMAIN f.notes :
             CopiedNote(f.notes[j], src.notes[k], s.currentPassword, s.newPassw)
    /\ \A k \in DOMAIN src.otpNotes : src.otpNotes[k].id \in s.otpNoteIds =>
          \E j \in DOMAIN f.otpNotes :
             CopiedOtp(f.otpNotes[j], src.otpNotes[k],
                       s.currentPassword, s.newPassw)
    /\ s.isDefault =>
          /\ \A k \in DOMAIN src.generatedPassws :
                \E j \in DOMAIN f.generatedPassws :
                   f.generatedPassws[j].passw
                      = Rekeyed(src.generatedPassws[k].passw,
                                s.currentPassword, s.newPassw)
          /\ \A k \in DOMAIN src.colorGroups :
                \E j \in DOMAIN f.colorGroups :
                   f.colorGroups[j] = [id |-> ID_COUNTER_START + k,
                                       color |-> src.colorGroups[k].color]

\* the file has nothing but what these strategies move
OnlyFrom(f, src, S) ==
    /\ \A j \in DOMAIN f.notes : \E s \in S : \E k \in DOMAIN src.notes :
          CopiedNote(f.notes[j], src.notes[k], s.currentPassword, s.newPassw)
    /\ \A j \in DOMAIN f.otpNotes : \E s \in S : \E k \in DOMAIN src.otpNotes :
          CopiedOtp(f.otpNotes[j], src.otpNotes[k],
                    s.currentPassword, s.newPassw)
    /\ \A j \in DOMAIN f.colorGroups : \E k \in DOMAIN src.colorGroups :
          f.colorGroups[j] = [id |-> ID_COUNTER_START + k,
                              color |-> src.colorGroups[k].color]

LEMMA PartBrings ==
    ASSUME NEW src, Sound(src), NEW s, NEW part, PartOf(part, src, s)
    PROVE  Brings(part, src, s) /\ OnlyFrom(part, src, {s})
<1> USE DEF PartOf
<1>1. /\ DOMAIN src.notes = 1 .. Len(src.notes)
      /\ DOMAIN src.otpNotes = 1 .. Len(src.otpNotes)
      /\ DOMAIN src.colorGroups = 1 .. Len(src.colorGroups)
    BY SnapshotParts DEF Sound
<1>2. \A k \in DOMAIN src.notes : src.notes[k].id \in s.noteIds =>
          \E j \in DOMAIN part.notes :
             CopiedNote(part.notes[j], src.notes[k],
                        s.currentPassword, s.newPassw)
    BY <1>1 DEF NotesCopied
<1>3. \A k \in DOMAIN src.otpNotes : src.otpNotes[k].id \in s.otpNoteIds =>
          \E j \in DOMAIN part.otpNotes :
             CopiedOtp(part.otpNotes[j], src.otpNotes[k],
                       s.currentPassword, s.newPassw)
    BY <1>1 DEF OtpsCopied
<1>4. ASSUME s.isDefault
      PROVE  /\ \A k \in DOMAIN src.generatedPassws :
                   \E j \in DOMAIN part.generatedPassws :
                      part.generatedPassws[j].passw
                         = Rekeyed(src.generatedPassws[k].passw,
                                   s.currentPassword, s.newPassw)
             /\ \A k \in DOMAIN src.colorGroups :
                   \E j \in DOMAIN part.colorGroups :
                      part.colorGroups[j] = [id |-> ID_COUNTER_START + k,
                                             color |-> src.colorGroups[k].color]
    BY <1>1, <1>4 DEF CopiedHistory, GroupsCopied
<1>5. /\ \A j \in DOMAIN part.notes : \E k \in DOMAIN src.notes :
            CopiedNote(part.notes[j], src.notes[k],
                       s.currentPassword, s.newPassw)
      /\ \A j \in DOMAIN part.otpNotes : \E k \in DOMAIN src.otpNotes :
            CopiedOtp(part.otpNotes[j], src.otpNotes[k],
                      s.currentPassword, s.newPassw)
    BY <1>1 DEF NotesCopied, OtpsCopied
<1>6. \A j \in DOMAIN part.colorGroups : \E k \in DOMAIN src.colorGroups :
          part.colorGroups[j] = [id |-> ID_COUNTER_START + k,
                                 color |-> src.colorGroups[k].color]
    BY <1>1 DEF GroupsCopied
<1>7. Brings(part, src, s)
    BY <1>2, <1>3, <1>4 DEF Brings
<1>8. OnlyFrom(part, src, {s})
    BY <1>5, <1>6 DEF OnlyFrom
<1> QED BY <1>7, <1>8

LEMMA SectionsAre ==
    ASSUME NEW f \in FileSections
    PROVE  /\ f.colorGroups \in Seq(ColorGroup)
           /\ f.notes \in Seq(CryptedNoteFlat)
           /\ f.otpNotes \in Seq(CryptedOtpInfoFlat)
           /\ f.generatedPassws \in Seq(CryptedPasswordFlat)
    BY DEF FileSections

\* this list has the elements of two others, and no more
Joins(u, s, t) ==
    /\ \A j \in DOMAIN s : \E i \in DOMAIN u : u[i] = s[j]
    /\ \A j \in DOMAIN t : \E i \in DOMAIN u : u[i] = t[j]
    /\ \A i \in DOMAIN u : \/ \E j \in DOMAIN s : u[i] = s[j]
                           \/ \E j \in DOMAIN t : u[i] = t[j]

LEMMA ConcatJoins ==
    ASSUME NEW S, NEW s \in Seq(S), NEW t \in Seq(S)
    PROVE  Joins(s \o t, s, t)
<1> DEFINE u == s \o t
<1>1. /\ \A k \in DOMAIN s : k \in DOMAIN u /\ u[k] = s[k]
      /\ \A k \in DOMAIN t : /\ Len(s) + k \in DOMAIN u
                             /\ u[Len(s) + k] = t[k]
      /\ \A k \in DOMAIN u : \/ k \in DOMAIN s
                             \/ \E j \in DOMAIN t : k = Len(s) + j
    BY ConcatHas
<1> HIDE DEF u
<1>2. ASSUME NEW i \in DOMAIN u, i \notin DOMAIN s
      PROVE  \E j \in DOMAIN t : u[i] = t[j]
    <2>1. PICK j \in DOMAIN t : i = Len(s) + j
        BY <1>1, <1>2
    <2> QED BY <1>1, <2>1
<1>3. Joins(u, s, t)
    BY <1>1, <1>2 DEF Joins
<1> QED BY <1>3 DEF u

LEMMA SplicedJoins ==
    ASSUME NEW f \in FileSections, NEW part \in FileSections
    PROVE  /\ Joins(Spliced(f, part).notes, f.notes, part.notes)
           /\ Joins(Spliced(f, part).otpNotes, f.otpNotes, part.otpNotes)
           /\ Joins(Spliced(f, part).colorGroups,
                    f.colorGroups, part.colorGroups)
           /\ Joins(Spliced(f, part).generatedPassws,
                    f.generatedPassws, part.generatedPassws)
<1>1. /\ Joins(f.notes \o part.notes, f.notes, part.notes)
      /\ Joins(f.otpNotes \o part.otpNotes, f.otpNotes, part.otpNotes)
      /\ Joins(f.colorGroups \o part.colorGroups,
               f.colorGroups, part.colorGroups)
      /\ Joins(f.generatedPassws \o part.generatedPassws,
               f.generatedPassws, part.generatedPassws)
    BY SectionsAre, ConcatJoins
<1>2. /\ Spliced(f, part).colorGroups = f.colorGroups \o part.colorGroups
      /\ Spliced(f, part).notes = f.notes \o part.notes
      /\ Spliced(f, part).otpNotes = f.otpNotes \o part.otpNotes
      /\ Spliced(f, part).generatedPassws
            = f.generatedPassws \o part.generatedPassws
    BY DEF Spliced
<1> QED BY <1>1, <1>2

LEMMA SplicedBrings ==
    ASSUME NEW f \in FileSections, NEW part \in FileSections,
           NEW src, NEW s, Brings(f, src, s) \/ Brings(part, src, s)
    PROVE  Brings(Spliced(f, part), src, s)
<1> DEFINE g == Spliced(f, part)
<1>1. /\ Joins(g.notes, f.notes, part.notes)
      /\ Joins(g.otpNotes, f.otpNotes, part.otpNotes)
      /\ Joins(g.colorGroups, f.colorGroups, part.colorGroups)
      /\ Joins(g.generatedPassws, f.generatedPassws, part.generatedPassws)
    BY SplicedJoins
<1> HIDE DEF g
<1>2. PICK h \in {f, part} : Brings(h, src, s)
    OBVIOUS
<1>3. /\ \A j \in DOMAIN h.notes :
            \E i \in DOMAIN g.notes : g.notes[i] = h.notes[j]
      /\ \A j \in DOMAIN h.otpNotes :
            \E i \in DOMAIN g.otpNotes : g.otpNotes[i] = h.otpNotes[j]
      /\ \A j \in DOMAIN h.colorGroups :
            \E i \in DOMAIN g.colorGroups : g.colorGroups[i] = h.colorGroups[j]
      /\ \A j \in DOMAIN h.generatedPassws :
            \E i \in DOMAIN g.generatedPassws :
               g.generatedPassws[i] = h.generatedPassws[j]
    BY <1>1 DEF Joins
<1>4. \A k \in DOMAIN src.notes : src.notes[k].id \in s.noteIds =>
         \E j \in DOMAIN g.notes :
            CopiedNote(g.notes[j], src.notes[k], s.currentPassword, s.newPassw)
    BY <1>2, <1>3 DEF Brings
<1>5. \A k \in DOMAIN src.otpNotes : src.otpNotes[k].id \in s.otpNoteIds =>
         \E j \in DOMAIN g.otpNotes :
            CopiedOtp(g.otpNotes[j], src.otpNotes[k],
                      s.currentPassword, s.newPassw)
    BY <1>2, <1>3 DEF Brings
<1>6. ASSUME s.isDefault
      PROVE  /\ \A k \in DOMAIN src.generatedPassws :
                   \E j \in DOMAIN g.generatedPassws :
                      g.generatedPassws[j].passw
                         = Rekeyed(src.generatedPassws[k].passw,
                                   s.currentPassword, s.newPassw)
             /\ \A k \in DOMAIN src.colorGroups :
                   \E j \in DOMAIN g.colorGroups :
                      g.colorGroups[j] = [id |-> ID_COUNTER_START + k,
                                          color |-> src.colorGroups[k].color]
    <2>1. /\ \A k \in DOMAIN src.generatedPassws :
                \E j \in DOMAIN h.generatedPassws :
                   h.generatedPassws[j].passw
                      = Rekeyed(src.generatedPassws[k].passw,
                                s.currentPassword, s.newPassw)
          /\ \A k \in DOMAIN src.colorGroups :
                \E j \in DOMAIN h.colorGroups :
                   h.colorGroups[j] = [id |-> ID_COUNTER_START + k,
                                       color |-> src.colorGroups[k].color]
        BY <1>2, <1>6 DEF Brings
    <2> QED BY <1>3, <2>1
<1>7. Brings(g, src, s)
    BY <1>4, <1>5, <1>6 DEF Brings
<1> QED BY <1>7 DEF g

LEMMA SplicedOnly ==
    ASSUME NEW f \in FileSections, NEW part \in FileSections,
           NEW src, NEW S, OnlyFrom(f, src, S), OnlyFrom(part, src, S)
    PROVE  OnlyFrom(Spliced(f, part), src, S)
<1> DEFINE g == Spliced(f, part)
<1>1. /\ Joins(g.notes, f.notes, part.notes)
      /\ Joins(g.otpNotes, f.otpNotes, part.otpNotes)
      /\ Joins(g.colorGroups, f.colorGroups, part.colorGroups)
    BY SplicedJoins
<1> HIDE DEF g
<1>2. \A j \in DOMAIN g.notes : \E s \in S : \E k \in DOMAIN src.notes :
         CopiedNote(g.notes[j], src.notes[k], s.currentPassword, s.newPassw)
    BY <1>1 DEF Joins, OnlyFrom
<1>3. \A j \in DOMAIN g.otpNotes : \E s \in S : \E k \in DOMAIN src.otpNotes :
         CopiedOtp(g.otpNotes[j], src.otpNotes[k],
                   s.currentPassword, s.newPassw)
    BY <1>1 DEF Joins, OnlyFrom
<1>4. \A j \in DOMAIN g.colorGroups : \E k \in DOMAIN src.colorGroups :
         g.colorGroups[j] = [id |-> ID_COUNTER_START + k,
                             color |-> src.colorGroups[k].color]
    BY <1>1 DEF Joins, OnlyFrom
<1>5. OnlyFrom(g, src, S)
    BY <1>2, <1>3, <1>4 DEF OnlyFrom
<1> QED BY <1>5 DEF g

LEMMA JoinedFields ==
    ASSUME NEW u, NEW s, NEW t, Joins(u, s, t)
    PROVE  HistoryFields(u) = HistoryFields(s) \cup HistoryFields(t)
<1>1. \A x : x \in HistoryFields(u) =>
               x \in HistoryFields(s) \/ x \in HistoryFields(t)
    BY DEF Joins, HistoryFields
<1>2. \A x : x \in HistoryFields(s) \/ x \in HistoryFields(t) =>
               x \in HistoryFields(u)
    BY DEF Joins, HistoryFields
<1> QED BY <1>1, <1>2

LEMMA SplicedFields ==
    ASSUME NEW f \in FileSections, NEW part \in FileSections
    PROVE  FieldsOf(Spliced(f, part)) = FieldsOf(f) \cup FieldsOf(part)
<1> DEFINE g == Spliced(f, part)
<1>1. /\ Joins(g.notes, f.notes, part.notes)
      /\ Joins(g.otpNotes, f.otpNotes, part.otpNotes)
      /\ Joins(g.generatedPassws, f.generatedPassws, part.generatedPassws)
    BY SplicedJoins
<1> HIDE DEF g
<1>2. HistoryFields(g.generatedPassws)
        = HistoryFields(f.generatedPassws) \cup HistoryFields(part.generatedPassws)
    BY <1>1, JoinedFields
<1>3. \A x : (\E k \in DOMAIN g.notes : x \in NoteFields(g.notes[k]))
         <=> \/ \E k \in DOMAIN f.notes : x \in NoteFields(f.notes[k])
             \/ \E k \in DOMAIN part.notes : x \in NoteFields(part.notes[k])
    BY <1>1 DEF Joins
<1>4. \A x : (\E k \in DOMAIN g.otpNotes : x \in OtpFields(g.otpNotes[k]))
         <=> \/ \E k \in DOMAIN f.otpNotes : x \in OtpFields(f.otpNotes[k])
             \/ \E k \in DOMAIN part.otpNotes : x \in OtpFields(part.otpNotes[k])
    BY <1>1 DEF Joins
<1>5. \A x : x \in FieldsOf(g) <=> x \in FieldsOf(f) \/ x \in FieldsOf(part)
    BY <1>2, <1>3, <1>4, FieldsAre
<1>6. FieldsOf(g) = FieldsOf(f) \cup FieldsOf(part)
    BY <1>5
<1> QED BY <1>6 DEF g

\* the parts of all strategies, one after another
LEMMA CollectedIs ==
    ASSUME NEW src, Sound(src), FieldsOf(src) \subseteq Sealed,
           NEW strategies \in Seq(Strategy)
    PROVE  /\ Collected(src, strategies) \in FileSections
           /\ FieldsOf(Collected(src, strategies)) \subseteq Sealed
           /\ \A s \in Range(strategies) :
                 Brings(Collected(src, strategies), src, s)
           /\ OnlyFrom(Collected(src, strategies), src, Range(strategies))
<1> DEFINE n == Len(strategies)
           part(k) == FileOf(WithStrategy(src, strategies[k]))
           S == Range(strategies)
<1>1. /\ n \in Nat /\ DOMAIN strategies = 1 .. n
      /\ \A k \in 1 .. n : strategies[k] \in Strategy /\ strategies[k] \in S
      /\ \A s \in S : \E k \in 1 .. n : s = strategies[k]
    BY DEF Range
<1>2. ASSUME NEW k \in 1 .. n
      PROVE  /\ part(k) \in FileSections /\ FieldsOf(part(k)) \subseteq Sealed
             /\ Brings(part(k), src, strategies[k])
             /\ OnlyFrom(part(k), src, S)
    <2> DEFINE s == strategies[k]
               p == FileOf(WithStrategy(src, s))
    <2>1. s \in Strategy /\ s \in S
        BY <1>1
    <2> HIDE DEF s, S
    <2>2. p \in FileSections /\ FieldsOf(p) \subseteq Sealed /\ PartOf(p, src, s)
        BY <2>1, WithStrategyIs
    <2> HIDE DEF p
    <2>3. Brings(p, src, s) /\ OnlyFrom(p, src, {s})
        BY <2>2, PartBrings
    <2>4. OnlyFrom(p, src, S)
        BY <2>1, <2>3 DEF OnlyFrom
    <2> QED BY <2>2, <2>3, <2>4 DEF s, p
<1>3. PICK c \in [0 .. n -> FileSections] : CollectedRun(c, src, strategies)
    <2>1. \A k \in 1 .. Len(strategies) :
             FileOf(WithStrategy(src, strategies[k])) \in FileSections
        BY <1>2
    <2>2. Len(strategies) \in Nat
        BY <1>1
    <2> QED BY <2>1, <2>2, CollectedLoop
<1>4. /\ c[0] = EmptyFile /\ Collected(src, strategies) = c[n]
      /\ \A k \in 1 .. n : c[k] = Spliced(c[k - 1], part(k))
    BY <1>3 DEF CollectedRun
<1> HIDE DEF n, part, S
<1> DEFINE good(k) == /\ FieldsOf(c[k]) \subseteq Sealed
                      /\ \A j \in 1 .. k : Brings(c[k], src, strategies[j])
                      /\ OnlyFrom(c[k], src, S)
           run == {k \in Nat : k <= n => good(k)}
<1>5. 0 \in run
    <2>1. /\ EmptyFile.notes = <<>> /\ EmptyFile.otpNotes = <<>>
          /\ EmptyFile.colorGroups = <<>> /\ EmptyFile.generatedPassws = <<>>
        BY DEF EmptyFile
    <2>2. FieldsOf(EmptyFile) = {}
        BY <2>1, FieldsAre DEF HistoryFields
    <2>3. OnlyFrom(EmptyFile, src, S)
        BY <2>1 DEF OnlyFrom
    <2> QED BY <1>4, <2>2, <2>3
<1>6. ASSUME NEW k \in run PROVE k + 1 \in run
    <2> SUFFICES ASSUME k + 1 <= n PROVE good(k + 1)
        OBVIOUS
    <2>1. /\ k + 1 \in 1 .. n /\ (k + 1) - 1 = k /\ k \in 0 .. n
          /\ k <= n /\ k \in Nat
        BY <1>1
    <2>2. good(k)
        BY <2>1
    <2>3. c[k + 1] = Spliced(c[k], part(k + 1))
        BY <1>4, <2>1
    <2>4. /\ c[k] \in FileSections /\ part(k + 1) \in FileSections
          /\ FieldsOf(part(k + 1)) \subseteq Sealed
          /\ Brings(part(k + 1), src, strategies[k + 1])
          /\ OnlyFrom(part(k + 1), src, S)
        BY <1>2, <1>3, <2>1
    <2>5. FieldsOf(c[k + 1]) \subseteq Sealed
        BY <2>2, <2>3, <2>4, SplicedFields
    <2>6. ASSUME NEW j \in 1 .. k + 1
          PROVE  Brings(c[k + 1], src, strategies[j])
        <3>1. j \in 1 .. k \/ j = k + 1
            BY <2>1
        <3>2. Brings(c[k], src, strategies[j])
              \/ Brings(part(k + 1), src, strategies[j])
            BY <2>2, <2>4, <3>1
        <3> QED BY <2>3, <2>4, <3>2, SplicedBrings
    <2>7. OnlyFrom(c[k + 1], src, S)
        BY <2>2, <2>3, <2>4, SplicedOnly
    <2> QED BY <2>5, <2>6, <2>7
<1>7. run \in SUBSET Nat
    OBVIOUS
<1>8. good(n)
    <2> HIDE DEF run, good
    <2>1. run = Nat
        BY <1>5, <1>6, <1>7, SetInduction
    <2> QED BY <1>1, <2>1 DEF run
<1> DEFINE f == Collected(src, strategies)
<1>9. f = c[n] /\ c[n] \in FileSections
    BY <1>1, <1>3, <1>4
<1>10. \A s \in S : Brings(c[n], src, s)
    BY <1>1, <1>8
<1> HIDE DEF f
<1>11. f \in FileSections /\ FieldsOf(f) \subseteq Sealed
       /\ (\A s \in S : Brings(f, src, s)) /\ OnlyFrom(f, src, S)
    BY <1>8, <1>9, <1>10
<1> QED BY <1>11 DEF f, S

-----------------------------------------------------------------------------
(* What a change writes *)

SealedFile(f) == f \in FileSections /\ FieldsOf(f) \subseteq Sealed

\* it holds all the change was asked to move, and nothing else
Moves(c) ==
    LET src == ReadAll(c.before)
    IN  /\ c \in Change /\ SealedFile(c.before) /\ SealedFile(c.after)
        /\ \A s \in Range(c.strategies) : Brings(c.after, src, s)
        /\ OnlyFrom(c.after, src, Range(c.strategies))
        /\ \E s \in Range(c.strategies) : s.isDefault

\* saveNewPassw is the one strategy that moves everything
LEMMA WithNewPasswIs ==
    ASSUME NEW src, Sound(src), FieldsOf(src) \subseteq Sealed,
           NEW old \in Passwords, NEW new \in Passwords
    PROVE  LET f == FileOf(WithNewPassw(src, old, new))
               strategies == Everything(src, old, new)
           IN  /\ SealedFile(f) /\ strategies \in Seq(Strategy)
               /\ \A s \in Range(strategies) : Brings(f, src, s)
               /\ OnlyFrom(f, src, Range(strategies))
               /\ \E s \in Range(strategies) : s.isDefault
<1> DEFINE s == [currentPassword |-> old, newPassw |-> new, isDefault |-> TRUE,
                 noteIds |-> Ids(src.notes), otpNoteIds |-> Ids(src.otpNotes)]
           f == FileOf(WithStrategy(src, s))
<1>1. Everything(src, old, new) = <<s>>
    BY DEF Everything
<1>2. WithNewPassw(src, old, new) = WithStrategy(src, s)
    BY DEF WithNewPassw, WithStrategy
<1>3. s \in Strategy /\ s.isDefault
    BY SnapshotIds DEF Sound, Strategy
<1> HIDE DEF s
<1>4. /\ <<s>> \in Seq(Strategy) /\ Range(<<s>>) = {s}
    BY <1>3 DEF Range
<1>5. f \in FileSections /\ FieldsOf(f) \subseteq Sealed /\ PartOf(f, src, s)
    BY <1>3, WithStrategyIs
<1> HIDE DEF f
<1>6. Brings(f, src, s) /\ OnlyFrom(f, src, {s})
    BY <1>5, PartBrings
<1>7. f = FileOf(WithNewPassw(src, old, new))
    BY <1>2 DEF f
<1> QED BY <1>1, <1>3, <1>4, <1>5, <1>6, <1>7 DEF SealedFile

\* the fields of a copy are those of the note, under the other password
LEMMA CopiedNoteFields ==
    ASSUME NEW m, NEW n, NEW old, NEW new, CopiedNote(m, n, old, new),
           NEW x \in NoteFields(n)
    PROVE  Rekeyed(x, old, new) \in NoteFields(m)
<1>1. CASE x = n.info \/ x = n.passw
    BY <1>1 DEF CopiedNote, NoteFields
<1>2. CASE x \in HistoryFields(n.history)
    <2>1. PICK i \in DOMAIN n.history : x = n.history[i].passw
        BY <1>2 DEF HistoryFields
    <2>2. /\ i \in DOMAIN m.history
          /\ m.history[i].passw = Rekeyed(x, old, new)
        BY <2>1 DEF CopiedNote, CopiedHistory
    <2> QED BY <2>2 DEF NoteFields, HistoryFields
<1> QED BY <1>1, <1>2 DEF NoteFields

LEMMA RekeyedText ==
    ASSUME NEW field, NEW new
    PROVE  Rekeyed(field, field.key, new).text = field.text
    BY DEF Rekeyed, Encrypt, Decrypt

\* strategies that open every field with its own password lose none
LEMMA CompleteKeeps ==
    ASSUME NEW f, NEW src, Sound(src), NEW strategies,
           Complete(src, strategies),
           \A s \in Range(strategies) : Brings(f, src, s)
    PROVE  TextsOf(src) \subseteq TextsOf(f)
<1>1. ASSUME NEW x \in FieldsOf(src)
      PROVE  \E y \in FieldsOf(f) : y.text = x.text
    <2>1. ASSUME NEW k \in DOMAIN src.notes, x \in NoteFields(src.notes[k])
          PROVE  \E y \in FieldsOf(f) : y.text = x.text
        <3>1. src.notes[k] \in Range(src.notes)
            BY DEF Range
        <3>2. PICK s \in Range(strategies) :
                 /\ src.notes[k].id \in s.noteIds
                 /\ KeysOf(NoteFields(src.notes[k])) = {s.currentPassword}
            BY <3>1 DEF Complete
        <3>3. x.key = s.currentPassword
            BY <2>1, <3>2 DEF KeysOf
        <3>4. PICK j \in DOMAIN f.notes :
                 CopiedNote(f.notes[j], src.notes[k],
                            s.currentPassword, s.newPassw)
            BY <3>2 DEF Brings
        <3>5. Rekeyed(x, x.key, s.newPassw) \in NoteFields(f.notes[j])
            BY <2>1, <3>3, <3>4, CopiedNoteFields
        <3>6. Rekeyed(x, x.key, s.newPassw) \in FieldsOf(f)
            BY <3>5, FieldsAre
        <3> QED BY <3>6, RekeyedText
    <2>2. ASSUME NEW k \in DOMAIN src.otpNotes, x \in OtpFields(src.otpNotes[k])
          PROVE  \E y \in FieldsOf(f) : y.text = x.text
        <3>1. src.otpNotes[k] \in Range(src.otpNotes)
            BY DEF Range
        <3>2. PICK s \in Range(strategies) :
                 /\ src.otpNotes[k].id \in s.otpNoteIds
                 /\ KeysOf(OtpFields(src.otpNotes[k])) = {s.currentPassword}
            BY <3>1 DEF Complete
        <3>3. x.key = s.currentPassword
            BY <2>2, <3>2 DEF KeysOf
        <3>4. PICK j \in DOMAIN f.otpNotes :
                 CopiedOtp(f.otpNotes[j], src.otpNotes[k],
                           s.currentPassword, s.newPassw)
            BY <3>2 DEF Brings
        <3>5. Rekeyed(x, x.key, s.newPassw) \in OtpFields(f.otpNotes[j])
            BY <2>2, <3>3, <3>4 DEF CopiedOtp, OtpFields
        <3>6. Rekeyed(x, x.key, s.newPassw) \in FieldsOf(f)
            BY <3>5, FieldsAre
        <3> QED BY <3>6, RekeyedText
    <2>3. ASSUME x \in HistoryFields(src.generatedPassws)
          PROVE  \E y \in FieldsOf(f) : y.text = x.text
        <3>1. x.key \in KeysOf(HistoryFields(src.generatedPassws))
            BY <2>3 DEF KeysOf
        <3>2. PICK s \in Range(strategies) :
                 s.isDefault /\ s.currentPassword = x.key
            BY <3>1 DEF Complete
        <3>3. PICK k \in DOMAIN src.generatedPassws :
                 x = src.generatedPassws[k].passw
            BY <2>3 DEF HistoryFields
        <3>4. PICK j \in DOMAIN f.generatedPassws :
                 f.generatedPassws[j].passw
                    = Rekeyed(src.generatedPassws[k].passw,
                              s.currentPassword, s.newPassw)
            BY <3>2 DEF Brings
        <3>5. Rekeyed(x, x.key, s.newPassw) \in HistoryFields(f.generatedPassws)
            BY <3>2, <3>3, <3>4 DEF HistoryFields
        <3>6. Rekeyed(x, x.key, s.newPassw) \in FieldsOf(f)
            BY <3>5, FieldsAre
        <3> QED BY <3>6, RekeyedText
    <2> QED BY <2>1, <2>2, <2>3, FieldsAre
<1> QED BY <1>1 DEF TextsOf

-----------------------------------------------------------------------------
(* The invariant *)

SealedStorage(file) == file \in StorageFile /\ FieldsOf(file.file) \subseteq Sealed

Object == [passw : Passwords, name : Names, data : DataSnapshot]

TypeInv ==
    /\ main # NoFile => SealedStorage(main)
    /\ temp # NoFile => SealedStorage(temp)
    /\ session # LoggedOut =>
          /\ session \in Object /\ Sound(session.data)
          /\ FieldsOf(session.data) \subseteq Sealed
    /\ renamed \in Names
    /\ written \subseteq Texts

\* where the files are at each step of a change
ChangeInv ==
    change # NoChange =>
        /\ Moves(change)
        /\ main = NoFile <=> change.next = "rename"
        /\ change.next # "save" => temp # NoFile
        /\ change.next = "save temp" => main.file = change.before

\* where the texts are
LossInv ==
    lossy = {} =>
        /\ change = NoChange =>
              written \subseteq IF main = NoFile THEN Kept(temp) ELSE Kept(main)
        /\ change # NoChange /\ change.next = "save" =>
              written \subseteq TextsOf(change.before)
        /\ change # NoChange /\ change.next \in {"save temp", "unlink"} =>
              written \subseteq Kept(main)
        /\ change # NoChange /\ change.next \in {"unlink", "rename"} =>
              written \subseteq Kept(temp)
        /\ change # NoChange /\ change.next \in {"save", "save temp"} =>
              Complete(ReadAll(change.before), change.strategies)

\* the name is on the file that is, or will be, the storage
NameInv ==
    lossy \cap {"stale session", "created beside temp"} = {} =>
        /\ main # NoFile => main.name = renamed
        /\ change # NoChange /\ change.next # "save" => temp.name = renamed

IInv == TypeInv /\ ChangeInv /\ LossInv /\ NameInv

LEMMA EmptyFields == EmptyFile \in FileSections /\ FieldsOf(EmptyFile) = {}
<1>1. /\ EmptyFile.notes = <<>> /\ EmptyFile.otpNotes = <<>>
      /\ EmptyFile.generatedPassws = <<>>
    BY DEF EmptyFile
<1> QED BY <1>1, EmptyFileType, FieldsAre DEF HistoryFields

LEMMA ANewStorage ==
    ASSUME NEW name \in Names, NEW f, SealedFile(f)
    PROVE  LET file == [name |-> name, file |-> f]
           IN  SealedStorage(file) /\ file # NoFile
    BY NothingAssumption DEF SealedStorage, SealedFile, StorageFile

LEMMA AnEmptyStorage ==
    ASSUME NEW name \in Names
    PROVE  LET file == [name |-> name, file |-> EmptyFile]
           IN  SealedStorage(file) /\ file # NoFile
    BY EmptyFields, ANewStorage DEF SealedFile

\* a file and the storage it is read into hold the same
LEMMA Opens ==
    ASSUME NEW f, SealedFile(f)
    PROVE  /\ Sound(ReadAll(f)) /\ ReadAll(f) \in DataSnapshot
           /\ FieldsOf(ReadAll(f)) \subseteq Sealed
           /\ TextsOf(ReadAll(f)) = TextsOf(f)
           /\ FileOf(ReadAll(f)) = f
<1>1. Sound(ReadAll(f)) /\ FieldsOf(ReadAll(f)) = FieldsOf(f)
    BY ReadAllSound, ReadFields DEF SealedFile
<1> QED BY <1>1, ReadAllAndBack DEF SealedFile, Sound, TextsOf

LEMMA InitSafe == Init => IInv
<1> SUFFICES ASSUME Init PROVE IInv
    OBVIOUS
<1>1. /\ SealedStorage([name |-> "old", file |-> EmptyFile])
      /\ main = [name |-> "old", file |-> EmptyFile]
    <2> DEFINE name == "old"
    <2>1. name \in Names
        BY DEF Names
    <2> HIDE DEF name
    <2>2. SealedStorage([name |-> name, file |-> EmptyFile])
        BY <2>1, AnEmptyStorage
    <2> QED BY <2>2 DEF Init, name
<1>2. SealedStorage(main) /\ main.name = "old"
    BY <1>1
<1>3. TypeInv
    BY <1>2 DEF Init, TypeInv, Names
<1>4. ChangeInv /\ LossInv /\ NameInv
    BY <1>2 DEF Init, ChangeInv, LossInv, NameInv
<1> QED BY <1>3, <1>4 DEF IInv

LEMMA LoginSafe ==
    ASSUME IInv, NEW passw \in Passwords, Login(passw)
    PROVE  IInv'
<1> USE DEF IInv
<1>1. main' # NoFile /\ SealedStorage(main')
    <2>1. CASE main = NoFile
        <3> DEFINE name == ""
        <3>1. main' = [name |-> name, file |-> EmptyFile] /\ name \in Names
            BY <2>1 DEF Login, Names
        <3> HIDE DEF name
        <3> QED BY <3>1, AnEmptyStorage
    <2>2. CASE main # NoFile
        BY <2>2 DEF Login, TypeInv
    <2> QED BY <2>1, <2>2
<1>2. SealedFile(main'.file) /\ main'.name \in Names
    BY <1>1 DEF SealedStorage, SealedFile, StorageFile
<1>3. TypeInv'
    <2>1. session' \in Object
        BY <1>2, Opens DEF Login, Object
    <2>2. /\ Sound(session'.data)
          /\ FieldsOf(session'.data) \subseteq Sealed
        BY <1>2, Opens DEF Login
    <2> QED BY <1>1, <2>1, <2>2 DEF Login, TypeInv
<1>4. change' = NoChange
    BY DEF Login, Free
<1>5. ChangeInv'
    BY <1>4 DEF ChangeInv
<1>6. lossy' \cap {"stale session", "created beside temp"} = {} \/ lossy' = {} =>
         /\ main # NoFile /\ main' = main /\ lossy' = lossy
    BY DEF Login, Blame
<1>7. LossInv'
    BY <1>1, <1>4, <1>6 DEF LossInv, Login, Free, Kept
<1>8. NameInv'
    BY <1>4, <1>6 DEF NameInv, Login
<1> QED BY <1>3, <1>5, <1>7, <1>8

LEMMA UnloginSafe ==
    ASSUME IInv, Unlogin
    PROVE  IInv'
<1>1. /\ session' = LoggedOut
      /\ UNCHANGED <<main, temp, change, lossy, renamed, written>>
    BY DEF Unlogin, files
<1> QED BY <1>1 DEF IInv, TypeInv, ChangeInv, LossInv, NameInv, Kept

\* a call that leaves the storage all it holds and adds these texts
AddsTo(d, texts) ==
    /\ Sound(d) /\ FieldsOf(d) \subseteq Sealed
    /\ FieldsOf(session.data) \subseteq FieldsOf(d)
    /\ texts \subseteq TextsOf(d) /\ texts \subseteq Texts

LEMMA EditSafe ==
    ASSUME IInv, session # LoggedOut, NEW d, NEW texts, AddsTo(d, texts),
           Edit(d, texts)
    PROVE  IInv'
<1> USE DEF IInv
<1>1. d \in DataSnapshot
    BY DEF AddsTo, Sound
<1>2. /\ FileOf(d) \in FileSections /\ FieldsOf(FileOf(d)) = FieldsOf(d)
      /\ TextsOf(FileOf(d)) = TextsOf(d)
    BY <1>1, FileOfType, FileFields DEF TextsOf
<1>3. session \in Object /\ session.name \in Names
    BY DEF TypeInv, Object
<1>4. main' = [name |-> session.name, file |-> FileOf(d)] /\ temp' = NoFile
    BY DEF Edit
<1>5. main' # NoFile /\ SealedStorage(main')
    BY <1>2, <1>3, <1>4, ANewStorage DEF AddsTo, SealedFile
<1>6. TypeInv'
    <2>1. session' \in Object /\ session'.data = d
        BY <1>1, <1>3 DEF Edit, Object
    <2> QED BY <1>4, <1>5, <2>1 DEF Edit, TypeInv, AddsTo
<1>7. change = NoChange /\ change' = NoChange
    BY DEF Edit, Free
<1>8. ChangeInv'
    BY <1>7 DEF ChangeInv
<1>9. lossy' = {} \/ lossy' \cap {"stale session", "created beside temp"} = {}
         => lossy' = lossy /\ ~ Stale
    BY DEF Edit, Blame
<1>10. LossInv'
    <2> SUFFICES ASSUME lossy' = {}
                 PROVE  written' \subseteq Kept(main')
        BY <1>5, <1>7 DEF LossInv, Kept
    <2>1. /\ lossy = {} /\ main # NoFile
          /\ main.file = FileOf(session.data)
        BY <1>9 DEF Stale
    <2>2. written \subseteq Kept(main)
        BY <1>7, <2>1 DEF LossInv
    <2>3. Kept(main) \subseteq TextsOf(session.data)
        BY <1>3, <2>1, FileFields DEF Kept, TextsOf, Object
    <2>4. TextsOf(session.data) \subseteq TextsOf(d)
        BY DEF AddsTo, TextsOf
    <2>5. Kept(main') = TextsOf(d) \ {Garbled}
        BY <1>2, <1>4, <1>5 DEF Kept
    <2>6. written' \subseteq Texts /\ written' = written \cup texts
        BY DEF Edit, AddsTo, TypeInv
    <2> QED BY <2>2, <2>3, <2>4, <2>5, <2>6, GarbledAssumption DEF AddsTo
<1>11. NameInv'
    <2> SUFFICES ASSUME lossy' \cap {"stale session", "created beside temp"} = {}
                 PROVE  main'.name = renamed'
        BY <1>7 DEF NameInv
    <2>1. /\ main # NoFile /\ main.name = session.name
          /\ lossy' = lossy
        BY <1>9 DEF Stale
    <2>2. main.name = renamed
        BY <2>1 DEF NameInv
    <2>3. renamed' = renamed
        BY DEF Edit
    <2> QED BY <1>4, <2>1, <2>2, <2>3
<1> QED BY <1>6, <1>8, <1>10, <1>11

\* every edit of a session adds its text and takes none away
LEMMA EncryptType ==
    ASSUME NEW passw \in Passwords, NEW text \in Texts
    PROVE  /\ Encrypt(passw, text) \in Sealed
           /\ Encrypt(passw, text).text = text
    BY DEF Encrypt, Sealed

LEMMA AddedField ==
    ASSUME IInv, session # LoggedOut, NEW d, NEW text \in Texts,
           Sound(d),
           FieldsOf(d) = FieldsOf(session.data)
                            \cup {Encrypt(session.passw, text)}
    PROVE  AddsTo(d, {text})
<1>1. session.passw \in Passwords /\ FieldsOf(session.data) \subseteq Sealed
    BY DEF IInv, TypeInv, Object
<1> DEFINE field == Encrypt(session.passw, text)
<1>2. field \in Sealed /\ field.text = text
    BY <1>1, EncryptType
<1> HIDE DEF field
<1>3. FieldsOf(d) = FieldsOf(session.data) \cup {field}
    BY DEF field
<1>4. text \in TextsOf(d)
    BY <1>2, <1>3 DEF TextsOf
<1> QED BY <1>1, <1>2, <1>3, <1>4 DEF AddsTo

LEMMA EditStepSafe ==
    ASSUME IInv, EditStep
    PROVE  IInv'
<1> DEFINE src == session.data
<1>1. /\ session # LoggedOut /\ Sound(src) /\ FieldsOf(src) \subseteq Sealed
      /\ session.passw \in Passwords
    BY DEF EditStep, IInv, TypeInv, Object
<1>2. src \in DataSnapshot
    BY <1>1 DEF Sound
<1>3. Unused \subseteq Texts
    BY DEF Unused
<1>4. ASSUME NEW text \in Unused, SaveNote(text) PROVE IInv'
    <2> DEFINE field == Encrypt(session.passw, text)
    <2>1. PICK g \in {0} \cup ID_COUNTER_START + 1 .. GroupIdBound :
             Edit(CreateNote(src, [info |-> field, passw |-> field,
                                   colorGroupId |-> g, history |-> <<>>],
                             {}, 0), {text})
        BY <1>4 DEF SaveNote
    <2> DEFINE dnote == [info |-> field, passw |-> field,
                         colorGroupId |-> g, history |-> <<>>]
               none == {}
               d == CreateNote(src, dnote, none, 0)
    <2>2. field \in Sealed /\ g \in Int
        BY <1>1, <1>3, EncryptType
    <2> HIDE DEF field, src
    <2>3. NoteValues(dnote, CryptedPassword)
        BY <2>2, SealedTypes DEF NoteValues, CryptedPassword
    <2>4. NoteFields(dnote) = {field}
        BY DEF NoteFields, HistoryFields
    <2> HIDE DEF dnote, none
    <2>5. Sound(d) /\ FieldsOf(d) = FieldsOf(src) \cup {field}
        BY <1>1, <2>3, <2>4, CreateNoteSound, CreateNoteFields
    <2>6. Edit(d, {text})
        BY <2>1 DEF dnote, none
    <2> HIDE DEF d
    <2>7. AddsTo(d, {text})
        BY <1>1, <1>3, <2>5, AddedField DEF field, src
    <2> QED BY <1>1, <2>6, <2>7, EditSafe
<1>5. ASSUME NEW text \in Unused, SaveOtpNote(text) PROVE IInv'
    <2> DEFINE field == Encrypt(session.passw, text)
               dnote == [info |-> field, secret |-> field, method |-> "TOTP",
                         counter |-> 0, colorGroupId |-> 0]
               none == {}
               d == CreateOtpNote(src, dnote, none)
    <2>1. Edit(d, {text})
        BY <1>5 DEF SaveOtpNote
    <2>2. field \in Sealed
        BY <1>1, <1>3, EncryptType
    <2> HIDE DEF field, src
    <2>3. OtpValues(dnote)
        BY <2>2, SealedTypes DEF OtpValues, OtpMethods
    <2>4. OtpFields(dnote) = {field}
        BY DEF OtpFields
    <2> HIDE DEF dnote, none
    <2>5. Sound(d) /\ FieldsOf(d) = FieldsOf(src) \cup {field}
        BY <1>1, <2>3, <2>4, CreateOtpNoteSound, CreateOtpNoteFields
    <2> HIDE DEF d
    <2>6. AddsTo(d, {text})
        BY <1>1, <1>3, <2>5, AddedField DEF field, src
    <2> QED BY <1>1, <2>1, <2>6, EditSafe
<1>6. ASSUME NEW text \in Unused, GenerateNewPassw(text) PROVE IInv'
    <2> DEFINE field == Encrypt(session.passw, text)
               d == GenPassword(src, field, 0)
    <2>1. Edit(d, {text})
        BY <1>6 DEF GenerateNewPassw
    <2>2. field \in Passws /\ field \in AnyPassw
        BY <1>1, <1>3, EncryptType, SealedTypes
    <2> HIDE DEF field, src
    <2>3. Sound(d) /\ FieldsOf(d) = FieldsOf(src) \cup {field}
        BY <1>1, <2>2, GenPasswordSound, GenPasswordFields
    <2> HIDE DEF d
    <2>4. AddsTo(d, {text})
        BY <1>1, <1>3, <2>3, AddedField DEF field, src
    <2> QED BY <1>1, <2>1, <2>4, EditSafe
<1>7. ASSUME NEW text \in Unused, NEW note \in Readable,
             SaveNotePassw(note, text)
      PROVE  IInv'
    <2> DEFINE field == Encrypt(session.passw, text)
               dnote == [id |-> note.id, info |-> note.info, passw |-> field,
                         colorGroupId |-> note.colorGroupId, history |-> <<>>]
               flags == {"PASSW", "TRACK_HISTORY"}
               d == SetNote(src, dnote, flags, 0)
    <2>1. Edit(d, {text})
        BY <1>7 DEF SaveNotePassw
    <2>2. field \in Sealed
        BY <1>1, <1>3, EncryptType
    <2>3. PICK k \in DOMAIN src.notes : note = src.notes[k]
        BY DEF Readable, Range
    <2> HIDE DEF field, src
    <2>4. note \in CryptedNote
        BY <1>2, <2>3, SnapshotParts
    <2>5. NoteValues(dnote, CryptedPassword)
        BY <2>2, <2>4, SealedTypes DEF NoteValues, CryptedPassword, CryptedNote
    <2>6. /\ dnote.passw = field /\ dnote.id = note.id
          /\ HasId(src.notes, dnote.id)
        BY <2>3 DEF HasId
    <2>7. /\ flags \cap {"FULL_HISTORY", "INFO", "FORCE"} = {}
          /\ "PASSW" \in flags /\ "TRACK_HISTORY" \in flags
        OBVIOUS
    <2> HIDE DEF dnote, flags
    <2>8. Sound(d)
        BY <1>1, <2>5, SetNoteSound
    <2>9. FieldsOf(d) = FieldsOf(src) \cup {field}
        BY <1>1, <2>6, <2>7, SetPasswFields, SealedTypes
    <2> HIDE DEF d
    <2>10. AddsTo(d, {text})
        BY <1>1, <1>3, <2>8, <2>9, AddedField DEF field, src
    <2> QED BY <1>1, <2>1, <2>10, EditSafe
<1>8. ASSUME NEW color \in Colors, SaveColorGroup(color) PROVE IInv'
    <2> DEFINE d == CreateColorGroup(src, color)
               none == {}
    <2>1. Edit(d, none)
        BY <1>8 DEF SaveColorGroup
    <2>2. Sound(d) /\ FieldsOf(d) = FieldsOf(src)
        BY <1>1, CreateColorGroupSound, CreateColorGroupFields
    <2> HIDE DEF d
    <2>3. AddsTo(d, none)
        BY <1>1, <2>2 DEF AddsTo
    <2> HIDE DEF none
    <2> QED BY <1>1, <2>1, <2>3, EditSafe
<1>9. ASSUME NEW id \in Ids(src.colorGroups), RemoveGroup(id) PROVE IInv'
    <2> DEFINE d == RemoveColorGroup(src, id)
               none == {}
    <2>1. Edit(d, none)
        BY <1>9 DEF RemoveGroup
    <2>2. Sound(d) /\ FieldsOf(d) = FieldsOf(src)
        BY <1>1, RemoveColorGroupSound, RemoveColorGroupFields
    <2> HIDE DEF d
    <2>3. AddsTo(d, none)
        BY <1>1, <2>2 DEF AddsTo
    <2> HIDE DEF none
    <2> QED BY <1>1, <2>1, <2>3, EditSafe
<1> QED BY <1>4, <1>5, <1>6, <1>7, <1>8, <1>9 DEF EditStep

LEMMA EditStorageSafe ==
    ASSUME IInv, NEW name \in Names, EditStorage(name)
    PROVE  IInv'
<1> USE DEF IInv
<1>1. /\ main # NoFile /\ SealedFile(main.file) /\ change = NoChange
      /\ main' = [name |-> name, file |-> FileOf(ReadAll(main.file))]
      /\ temp' = NoFile /\ renamed' = name
      /\ UNCHANGED <<session, change, lossy, written>>
    BY DEF EditStorage, Free, TypeInv, SealedStorage, SealedFile, StorageFile
<1>2. FileOf(ReadAll(main.file)) = main.file
    BY <1>1, Opens
<1>3. main' # NoFile /\ SealedStorage(main') /\ main'.file = main.file
    BY <1>1, <1>2, ANewStorage
<1>4. TypeInv'
    BY <1>1, <1>3 DEF TypeInv
<1>5. ChangeInv'
    BY <1>1 DEF ChangeInv
<1>6. LossInv'
    BY <1>1, <1>3 DEF LossInv, Kept
<1>7. NameInv'
    BY <1>1 DEF NameInv
<1> QED BY <1>4, <1>5, <1>6, <1>7

\* how a change begins
LEMMA Begins ==
    ASSUME IInv, main # NoFile
    PROVE  LET src == ReadAll(main.file)
           IN  /\ SealedFile(main.file) /\ Sound(src)
               /\ FieldsOf(src) \subseteq Sealed
               /\ SealedStorage(WithHeader) /\ WithHeader # NoFile
               /\ WithHeader.name = main.name
<1>1. SealedFile(main.file) /\ main.name \in Names
    BY DEF IInv, TypeInv, SealedStorage, SealedFile, StorageFile
<1>2. SealedStorage(WithHeader) /\ WithHeader # NoFile
    BY <1>1, AnEmptyStorage DEF WithHeader
<1> QED BY <1>1, <1>2, Opens DEF WithHeader

LEMMA ChangePasswSafe ==
    ASSUME IInv, NEW old \in Passwords, NEW new \in Passwords,
           ChangePassw(old, new)
    PROVE  IInv'
<1> USE DEF IInv
<1> DEFINE src == ReadAll(main.file)
           f == FileOf(WithNewPassw(src, old, new))
           strategies == Everything(src, old, new)
<1>1. /\ main # NoFile /\ change = NoChange /\ main' = WithHeader
      /\ change' = [next |-> "save", before |-> main.file, after |-> f,
                    strategies |-> strategies]
      /\ UNCHANGED <<temp, session, renamed, written>>
    BY DEF ChangePassw, Free
<1>2. lossy' = {} => lossy = {} /\ Complete(src, strategies)
    BY DEF ChangePassw, Blame
<1>3. lossy \subseteq lossy'
    BY DEF ChangePassw, Blame
<1>4. /\ SealedFile(main.file) /\ Sound(src) /\ FieldsOf(src) \subseteq Sealed
      /\ SealedStorage(WithHeader) /\ WithHeader # NoFile
      /\ WithHeader.name = main.name
    BY <1>1, Begins
<1>5. /\ SealedFile(f) /\ strategies \in Seq(Strategy)
      /\ \A s \in Range(strategies) : Brings(f, src, s)
      /\ OnlyFrom(f, src, Range(strategies))
      /\ \E s \in Range(strategies) : s.isDefault
    BY <1>4, WithNewPasswIs
<1> HIDE DEF f, strategies
<1>6. /\ change'.next = "save" /\ change'.before = main.file
      /\ change'.after = f /\ change'.strategies = strategies
    BY <1>1
<1>7. change' \in Change
    BY <1>1, <1>4, <1>5 DEF Change, SealedFile
<1>8. change' # NoChange
    BY <1>7, NothingAssumption
<1>9. Moves(change')
    BY <1>4, <1>5, <1>6, <1>7 DEF Moves
<1>10. TypeInv'
    BY <1>1, <1>4 DEF TypeInv
<1>11. ChangeInv'
    BY <1>1, <1>4, <1>6, <1>9 DEF ChangeInv
<1>12. LossInv'
    <2> SUFFICES ASSUME lossy' = {}
                 PROVE  /\ written' \subseteq TextsOf(change'.before)
                        /\ Complete(ReadAll(change'.before), change'.strategies)
        BY <1>6, <1>8 DEF LossInv
    <2>1. written \subseteq Kept(main)
        BY <1>1, <1>2 DEF LossInv
    <2> QED BY <1>1, <1>2, <1>6, <2>1 DEF Kept
<1>13. NameInv'
    BY <1>1, <1>3, <1>4, <1>6 DEF NameInv
<1> QED BY <1>10, <1>11, <1>12, <1>13

\* what a change writes keeps the texts, if it was told all passwords
LEMMA AfterKeeps ==
    ASSUME NEW c, Moves(c), Complete(ReadAll(c.before), c.strategies)
    PROVE  TextsOf(c.before) \subseteq TextsOf(c.after)
<1> DEFINE src == ReadAll(c.before)
           f == c.after
           strategies == c.strategies
<1>1. /\ Sound(src) /\ TextsOf(src) = TextsOf(c.before)
      /\ Complete(src, strategies)
      /\ \A s \in Range(strategies) : Brings(f, src, s)
    BY Opens DEF Moves
<1> HIDE DEF src, f, strategies
<1>2. TextsOf(src) \subseteq TextsOf(f)
    BY <1>1, CompleteKeeps
<1> QED BY <1>1, <1>2 DEF f

LEMMA WritesAfter ==
    ASSUME NEW file, SealedStorage(file), NEW c, Moves(c)
    PROVE  LET new == [file EXCEPT !.file = c.after]
           IN  /\ SealedStorage(new) /\ new # NoFile
               /\ new.name = file.name /\ new.file = c.after
<1>1. /\ file.name \in Names /\ SealedFile(c.after)
      /\ [file EXCEPT !.file = c.after]
            = [name |-> file.name, file |-> c.after]
    BY DEF SealedStorage, StorageFile, Moves
<1> QED BY <1>1, ANewStorage

LEMMA SaveChangedSafe ==
    ASSUME IInv, SaveChanged
    PROVE  IInv'
<1> USE DEF IInv
<1>1. /\ change # NoChange /\ change.next = "save"
      /\ main' = [main EXCEPT !.file = change.after] /\ temp' = NoFile
      /\ change' = NoChange
      /\ UNCHANGED <<session, lossy, renamed, written>>
    BY DEF SaveChanged
<1>2. main # NoFile /\ SealedStorage(main) /\ Moves(change)
    BY <1>1 DEF ChangeInv, TypeInv
<1>3. /\ SealedStorage(main') /\ main' # NoFile
      /\ main'.name = main.name /\ main'.file = change.after
    BY <1>1, <1>2, WritesAfter
<1>4. TypeInv'
    BY <1>1, <1>3 DEF TypeInv
<1>5. ChangeInv'
    BY <1>1 DEF ChangeInv
<1>6. LossInv'
    <2> SUFFICES ASSUME lossy = {}
                 PROVE  written \subseteq TextsOf(change.after) \ {Garbled}
        BY <1>1, <1>3 DEF LossInv, Kept
    <2>1. /\ written \subseteq TextsOf(change.before)
          /\ Complete(ReadAll(change.before), change.strategies)
        BY <1>1 DEF LossInv
    <2>2. written \subseteq TextsOf(change.after)
        BY <1>2, <2>1, AfterKeeps
    <2> QED BY <2>2, GarbledAssumption DEF TypeInv
<1>7. NameInv'
    BY <1>1, <1>2, <1>3 DEF NameInv
<1> QED BY <1>4, <1>5, <1>6, <1>7

LEMMA SaveChangedFailsSafe ==
    ASSUME IInv, SaveChangedFails
    PROVE  IInv'
<1> USE DEF IInv
<1>1. /\ change # NoChange /\ change.next = "save"
      /\ temp' = WithHeader /\ change' = NoChange
      /\ lossy' = lossy \cup {"unfinished"}
      /\ UNCHANGED <<main, session, renamed, written>>
    BY DEF SaveChangedFails
<1>2. main # NoFile
    BY <1>1 DEF ChangeInv
<1>3. SealedStorage(WithHeader)
    BY <1>2, Begins
<1>4. TypeInv'
    BY <1>1, <1>3 DEF TypeInv
<1>5. ChangeInv' /\ LossInv'
    BY <1>1 DEF ChangeInv, LossInv
<1>6. NameInv'
    BY <1>1 DEF NameInv
<1> QED BY <1>4, <1>5, <1>6

LEMMA ChangePasswStrategySafe ==
    ASSUME IInv, NEW strategies \in Strategies, ChangePasswStrategy(strategies)
    PROVE  IInv'
<1> USE DEF IInv
<1> DEFINE src == ReadAll(main.file)
           f == Collected(src, strategies)
<1>1. /\ main # NoFile /\ change = NoChange /\ temp' = WithHeader
      /\ change' = [next |-> "save temp", before |-> main.file, after |-> f,
                    strategies |-> strategies]
      /\ \E s \in Range(strategies) : s.isDefault
      /\ UNCHANGED <<main, session, renamed, written>>
    BY DEF ChangePasswStrategy, Free
<1>2. lossy' = {} => lossy = {} /\ Complete(src, strategies)
    BY DEF ChangePasswStrategy, Blame
<1>3. lossy \subseteq lossy'
    BY DEF ChangePasswStrategy, Blame
<1>4. /\ SealedFile(main.file) /\ Sound(src) /\ FieldsOf(src) \subseteq Sealed
      /\ SealedStorage(WithHeader) /\ WithHeader # NoFile
      /\ WithHeader.name = main.name
    BY <1>1, Begins
<1>5. strategies \in Seq(Strategy)
    BY StrategiesAssumption
<1>6. /\ SealedFile(f)
      /\ \A s \in Range(strategies) : Brings(f, src, s)
      /\ OnlyFrom(f, src, Range(strategies))
    BY <1>4, <1>5, CollectedIs DEF SealedFile
<1> HIDE DEF f
<1>7. /\ change'.next = "save temp" /\ change'.before = main.file
      /\ change'.after = f /\ change'.strategies = strategies
    BY <1>1
<1>8. change' \in Change
    BY <1>1, <1>4, <1>5, <1>6 DEF Change, SealedFile
<1>9. change' # NoChange
    BY <1>8, NothingAssumption
<1>10. Moves(change')
    BY <1>1, <1>4, <1>6, <1>7, <1>8 DEF Moves
<1>11. TypeInv'
    BY <1>1, <1>4 DEF TypeInv
<1>12. ChangeInv'
    BY <1>1, <1>4, <1>7, <1>10 DEF ChangeInv
<1>13. LossInv'
    <2> SUFFICES ASSUME lossy' = {}
                 PROVE  /\ written' \subseteq Kept(main)'
                        /\ Complete(ReadAll(change'.before), change'.strategies)
        BY <1>7, <1>9 DEF LossInv
    <2>1. written \subseteq Kept(main)
        BY <1>1, <1>2 DEF LossInv
    <2> QED BY <1>1, <1>2, <1>7, <2>1 DEF Kept
<1>14. NameInv'
    BY <1>1, <1>3, <1>4 DEF NameInv
<1> QED BY <1>11, <1>12, <1>13, <1>14

LEMMA SaveCollectedSafe ==
    ASSUME IInv, SaveCollected
    PROVE  IInv'
<1> USE DEF IInv
<1>1. /\ change # NoChange /\ change.next = "save temp"
      /\ change' = [change EXCEPT !.next = "unlink"]
      /\ UNCHANGED <<main, session, renamed, written>>
    BY DEF SaveCollected
<1>2. \/ temp' = [temp EXCEPT !.file = change.after] /\ lossy' = lossy
      \/ temp' = temp /\ lossy' = lossy \cup {"save failed"}
    BY DEF SaveCollected
<1>3. /\ Moves(change) /\ main # NoFile /\ temp # NoFile
      /\ main.file = change.before /\ SealedStorage(temp)
    BY <1>1 DEF ChangeInv, TypeInv
<1>4. LET new == [temp EXCEPT !.file = change.after]
      IN  /\ SealedStorage(new) /\ new # NoFile
          /\ new.name = temp.name /\ new.file = change.after
    BY <1>3, WritesAfter
<1>5. /\ SealedStorage(temp') /\ temp' # NoFile /\ temp'.name = temp.name
      /\ lossy' = {} => lossy = {} /\ temp'.file = change.after
      /\ lossy \subseteq lossy'
    BY <1>2, <1>3, <1>4
<1>6. /\ change' \in Change /\ change'.next = "unlink"
      /\ change'.before = change.before /\ change'.after = change.after
      /\ change'.strategies = change.strategies
    BY <1>1, <1>3 DEF Moves, Change
<1>7. Moves(change')
    BY <1>3, <1>6 DEF Moves
<1>8. TypeInv'
    BY <1>1, <1>5 DEF TypeInv
<1>9. ChangeInv'
    BY <1>1, <1>3, <1>5, <1>6, <1>7 DEF ChangeInv
<1>10. LossInv'
    <2> SUFFICES ASSUME lossy' = {}
                 PROVE  written' \subseteq Kept(main)' /\ written' \subseteq Kept(temp)'
        BY <1>6, <1>7, NothingAssumption DEF LossInv
    <2>1. /\ written \subseteq Kept(main)
          /\ Complete(ReadAll(change.before), change.strategies)
        BY <1>1, <1>5 DEF LossInv
    <2>2. Kept(main) \subseteq TextsOf(change.before)
        BY <1>3 DEF Kept
    <2>3. TextsOf(change.before) \subseteq TextsOf(change.after)
        BY <1>3, <2>1, AfterKeeps
    <2>4. Kept(temp)' = TextsOf(change.after) \ {Garbled}
        BY <1>5 DEF Kept
    <2>5. written \subseteq Kept(temp)'
        BY <2>1, <2>2, <2>3, <2>4, GarbledAssumption DEF TypeInv
    <2> QED BY <1>1, <2>1, <2>5 DEF Kept
<1>11. NameInv'
    BY <1>1, <1>5, <1>6 DEF NameInv
<1> QED BY <1>8, <1>9, <1>10, <1>11

LEMMA UnlinkSafe ==
    ASSUME IInv, Unlink
    PROVE  IInv'
<1> USE DEF IInv
<1>1. /\ change # NoChange /\ change.next = "unlink" /\ main' = NoFile
      /\ change' = [change EXCEPT !.next = "rename"]
      /\ UNCHANGED <<temp, session, lossy, renamed, written>>
    BY DEF Unlink
<1>2. Moves(change) /\ temp # NoFile
    BY <1>1 DEF ChangeInv
<1>3. /\ change' \in Change /\ change'.next = "rename"
      /\ change'.before = change.before /\ change'.after = change.after
      /\ change'.strategies = change.strategies
    BY <1>1, <1>2 DEF Moves, Change
<1>4. Moves(change')
    BY <1>2, <1>3 DEF Moves
<1>5. TypeInv'
    BY <1>1 DEF TypeInv
<1>6. ChangeInv'
    BY <1>1, <1>2, <1>3, <1>4 DEF ChangeInv
<1>7. change' # NoChange
    BY <1>3, NothingAssumption
<1>8. LossInv'
    BY <1>1, <1>3, <1>7 DEF LossInv, Kept
<1>9. NameInv'
    BY <1>1, <1>3 DEF NameInv
<1> QED BY <1>5, <1>6, <1>8, <1>9

LEMMA RenameSafe ==
    ASSUME IInv, Rename
    PROVE  IInv'
<1> USE DEF IInv
<1>1. /\ change # NoChange /\ change.next = "rename" /\ main' = temp
      /\ temp' = NoFile /\ change' = NoChange
      /\ UNCHANGED <<session, lossy, renamed, written>>
    BY DEF Rename
<1>2. temp # NoFile
    BY <1>1 DEF ChangeInv
<1>3. TypeInv'
    BY <1>1 DEF TypeInv
<1>4. ChangeInv'
    BY <1>1 DEF ChangeInv
<1>5. LossInv'
    BY <1>1, <1>2 DEF LossInv, Kept
<1>6. NameInv'
    BY <1>1 DEF NameInv
<1> QED BY <1>3, <1>4, <1>5, <1>6

LEMMA DieSafe ==
    ASSUME IInv, Die
    PROVE  IInv'
<1> USE DEF IInv
<1>1. /\ session' = LoggedOut /\ change' = NoChange
      /\ UNCHANGED <<main, temp, renamed, written>>
    BY DEF Die, files
<1>2. /\ lossy \subseteq lossy'
      /\ lossy' = {} => change = NoChange \/ change.next # "save"
    BY DEF Die, Blame
<1>3. TypeInv'
    BY <1>1 DEF TypeInv
<1>4. ChangeInv'
    BY <1>1 DEF ChangeInv
<1>5. LossInv'
    <2> SUFFICES ASSUME lossy' = {}
                 PROVE  written \subseteq IF main = NoFile THEN Kept(temp)
                                          ELSE Kept(main)
        BY <1>1 DEF LossInv, Kept
    <2>1. CASE change = NoChange
        BY <1>2, <2>1 DEF LossInv
    <2>2. CASE change # NoChange
        <3>1. change.next \in {"save temp", "unlink", "rename"}
            BY <1>2, <2>2 DEF ChangeInv, Moves, Change
        <3> QED BY <1>2, <2>2, <3>1 DEF LossInv, ChangeInv
    <2> QED BY <2>1, <2>2
<1>6. NameInv'
    BY <1>1, <1>2 DEF NameInv
<1> QED BY <1>3, <1>4, <1>5, <1>6

LEMMA NextSafe ==
    ASSUME IInv, [Next]_vars
    PROVE  IInv'
<1>1. CASE SessionStep
    BY <1>1, LoginSafe, UnloginSafe, EditStepSafe DEF SessionStep
<1>2. CASE ChangeStep
    <2>1. ASSUME EditStorage("new") PROVE IInv'
        <3> DEFINE name == "new"
        <3>1. name \in Names /\ EditStorage(name)
            BY <2>1 DEF Names
        <3> HIDE DEF name
        <3> QED BY <3>1, EditStorageSafe
    <2> QED BY <1>2, <2>1, ChangePasswSafe, SaveChangedSafe,
               SaveChangedFailsSafe, ChangePasswStrategySafe,
               SaveCollectedSafe, UnlinkSafe, RenameSafe DEF ChangeStep
<1>3. CASE Die
    BY <1>3, DieSafe
<1>4. CASE UNCHANGED vars
    BY <1>4 DEF vars, IInv, TypeInv, ChangeInv, LossInv, NameInv, Kept
<1> QED BY <1>1, <1>2, <1>3, <1>4 DEF Next

LEMMA Invariant == Spec => []IInv
<1>1. Init => IInv
    BY InitSafe
<1>2. IInv /\ [Next]_vars => IInv'
    BY NextSafe
<1> QED BY <1>1, <1>2, PTL DEF Spec

-----------------------------------------------------------------------------

\* For every number of passwords, texts, strategies, edits and deaths of the
\* process: the texts that were saved can be read in the storage file or its
\* copy at every step of a change and after it, but for the six reasons
\* NothingElseLoses names.
THEOREM TextsAreKept == Spec => []NothingElseLoses
<1>1. IInv => NothingElseLoses
    <2> SUFFICES ASSUME IInv, lossy = {}
                 PROVE  written \subseteq Kept(main) \cup Kept(temp) \cup
                            (IF change # NoChange /\ change.next = "save"
                             THEN TextsOf(change.before) ELSE {})
        BY DEF NothingElseLoses
    <2>1. CASE change = NoChange
        BY <2>1 DEF IInv, LossInv
    <2>2. CASE change # NoChange
        <3>1. change.next \in {"save", "save temp", "unlink", "rename"}
            BY <2>2 DEF IInv, ChangeInv, Moves, Change
        <3> QED BY <2>2, <3>1 DEF IInv, LossInv
    <2> QED BY <2>1, <2>2
<1> QED BY <1>1, Invariant, PTL

\* No change of the password, and no death in the middle of one, takes away
\* the name a storage was given last.
THEOREM TheNameIsKept == Spec => []NameKept
<1>1. IInv => NameKept
    BY DEF IInv, NameInv, NameKept
<1> QED BY <1>1, Invariant, PTL

-----------------------------------------------------------------------------
(* What the end of a change shows *)

LEMMA EndWrites ==
    ASSUME IInv, Ends
    PROVE  /\ Moves(change) /\ main'.file = change.after
<1>1. change # NoChange
    BY DEF Ends, SaveChanged, Rename
<1>2. Moves(change)
    BY <1>1 DEF IInv, ChangeInv
<1>3. CASE SaveChanged
    <2>1. SealedStorage(main) /\ main' = [main EXCEPT !.file = change.after]
        BY <1>3 DEF SaveChanged, IInv, ChangeInv, TypeInv
    <2> QED BY <1>2, <2>1 DEF SealedStorage, StorageFile
<1>4. CASE Rename /\ temp.file = change.after
    BY <1>2, <1>4 DEF Rename
<1> QED BY <1>2, <1>3, <1>4 DEF Ends

LEMMA ReadItems ==
    ASSUME NEW f \in FileSections
    PROVE  LET d == ReadAll(f)
           IN  /\ DOMAIN d.notes = DOMAIN f.notes
               /\ \A k \in DOMAIN f.notes :
                     /\ d.notes[k].info = f.notes[k].info
                     /\ d.notes[k].passw = f.notes[k].passw
                     /\ d.notes[k].colorGroupId = f.notes[k].colorGroupId
                     /\ DOMAIN d.notes[k].history = DOMAIN f.notes[k].history
                     /\ \A i \in DOMAIN f.notes[k].history :
                           d.notes[k].history[i].passw
                              = f.notes[k].history[i].passw
               /\ DOMAIN d.otpNotes = DOMAIN f.otpNotes
               /\ \A k \in DOMAIN f.otpNotes :
                     /\ d.otpNotes[k].info = f.otpNotes[k].info
                     /\ d.otpNotes[k].colorGroupId = f.otpNotes[k].colorGroupId
               /\ DOMAIN d.generatedPassws = DOMAIN f.generatedPassws
               /\ \A k \in DOMAIN f.generatedPassws :
                     d.generatedPassws[k].passw = f.generatedPassws[k].passw
               /\ d.colorGroups = f.colorGroups
<1> DEFINE d == ReadAll(f)
<1>1. /\ f.notes \in Seq(CryptedNoteFlat) /\ f.otpNotes \in Seq(CryptedOtpInfoFlat)
      /\ f.generatedPassws \in Seq(CryptedPasswordFlat)
    BY SectionsAre
<1>2. /\ DOMAIN d.notes = DOMAIN f.notes
      /\ \A k \in DOMAIN f.notes : d.notes[k] = ReadNote(f, k)
    BY <1>1 DEF ReadAll
<1>3. ASSUME NEW k \in DOMAIN f.notes
      PROVE  /\ d.notes[k].info = f.notes[k].info
             /\ d.notes[k].passw = f.notes[k].passw
             /\ d.notes[k].colorGroupId = f.notes[k].colorGroupId
             /\ DOMAIN d.notes[k].history = DOMAIN f.notes[k].history
             /\ \A i \in DOMAIN f.notes[k].history :
                   d.notes[k].history[i].passw = f.notes[k].history[i].passw
    <2> DEFINE hist == f.notes[k].history
               from == IdAfterNotes(f, k - 1) + 1
    <2>1. f.notes[k] \in CryptedNoteFlat
        BY <1>1
    <2>2. hist \in Seq(CryptedPasswordFlat)
        BY <2>1 DEF CryptedNoteFlat
    <2>3. /\ ReadNote(f, k).info = f.notes[k].info
          /\ ReadNote(f, k).passw = f.notes[k].passw
          /\ ReadNote(f, k).colorGroupId = f.notes[k].colorGroupId
          /\ ReadNote(f, k).history = Numbered(hist, from)
        BY DEF ReadNote
    <2> HIDE DEF hist, from, d
    <2>4. /\ DOMAIN Numbered(hist, from) = DOMAIN hist
          /\ \A i \in DOMAIN hist : Numbered(hist, from)[i].passw = hist[i].passw
        BY <2>2 DEF Numbered
    <2> QED BY <1>2, <2>3, <2>4 DEF hist
<1>4. /\ DOMAIN d.otpNotes = DOMAIN f.otpNotes
      /\ \A k \in DOMAIN f.otpNotes :
            /\ d.otpNotes[k].info = f.otpNotes[k].info
            /\ d.otpNotes[k].colorGroupId = f.otpNotes[k].colorGroupId
    BY <1>1 DEF ReadAll, ReadOtp
<1>5. /\ DOMAIN d.generatedPassws = DOMAIN f.generatedPassws
      /\ \A k \in DOMAIN f.generatedPassws :
            d.generatedPassws[k].passw = f.generatedPassws[k].passw
    BY <1>1 DEF ReadAll, Numbered
<1>6. d.colorGroups = f.colorGroups
    BY DEF ReadAll
<1> QED BY <1>2, <1>3, <1>4, <1>5, <1>6

\* a note as it is shown under a password
Shown(note, passw) ==
    [info |-> Decrypt(passw, note.info), passw |-> Decrypt(passw, note.passw),
     history |-> Opened(note.history, passw)]

LEMMA RekeyedOpens ==
    ASSUME NEW field, NEW old, NEW new
    PROVE  /\ Decrypt(new, Rekeyed(field, old, new)) = Decrypt(old, field)
           /\ Rekeyed(field, old, new).text # Garbled =>
                 Rekeyed(field, old, new).text = field.text
    BY DEF Rekeyed, Encrypt, Decrypt

LEMMA CopiedShown ==
    ASSUME NEW m, NEW n, NEW old, NEW new, CopiedNote(m, n, old, new)
    PROVE  Shown(m, new) = Shown(n, old)
<1>1. /\ Decrypt(new, m.info) = Decrypt(old, n.info)
      /\ Decrypt(new, m.passw) = Decrypt(old, n.passw)
    BY RekeyedOpens DEF CopiedNote
<1>2. Opened(m.history, new) = Opened(n.history, old)
    BY RekeyedOpens DEF CopiedNote, CopiedHistory, Opened
<1> QED BY <1>1, <1>2 DEF Shown

LEMMA ReadShown ==
    ASSUME NEW f \in FileSections, NEW j \in DOMAIN f.notes, NEW passw
    PROVE  Shown(ReadAll(f).notes[j], passw) = Shown(f.notes[j], passw)
<1> DEFINE m == ReadAll(f).notes[j]
           n == f.notes[j]
<1>1. /\ m.info = n.info /\ m.passw = n.passw
      /\ DOMAIN m.history = DOMAIN n.history
      /\ \A i \in DOMAIN n.history : m.history[i].passw = n.history[i].passw
    BY ReadItems
<1> HIDE DEF m, n
<1>2. Opened(m.history, passw) = Opened(n.history, passw)
    BY <1>1 DEF Opened
<1>3. Shown(m, passw) = Shown(n, passw)
    BY <1>1, <1>2 DEF Shown
<1> QED BY <1>3 DEF m, n

LEMMA EndOpens ==
    ASSUME NEW c, Moves(c), NEW s \in Range(c.strategies)
    PROVE  /\ NotesShown(c.before, s.currentPassword, s.noteIds)
                \subseteq NotesShown(c.after, s.newPassw,
                                     Ids(ReadAll(c.after).notes))
           /\ s.isDefault =>
                Range(GeneratedShown(c.before, s.currentPassword))
                   \subseteq Range(GeneratedShown(c.after, s.newPassw))
<1> DEFINE src == ReadAll(c.before)
           f == c.after
           read == ReadAll(f)
           old == s.currentPassword
           new == s.newPassw
<1>1. /\ c.before \in FileSections /\ f \in FileSections
      /\ Brings(f, src, s)
    BY DEF Moves, SealedFile
<1>2. /\ \A k \in DOMAIN src.notes : src.notes[k].id \in s.noteIds =>
            \E j \in DOMAIN f.notes :
               CopiedNote(f.notes[j], src.notes[k], old, new)
      /\ s.isDefault =>
            \A k \in DOMAIN src.generatedPassws :
               \E j \in DOMAIN f.generatedPassws :
                  f.generatedPassws[j].passw
                     = Rekeyed(src.generatedPassws[k].passw, old, new)
    BY <1>1 DEF Brings
<1>3. /\ NotesShown(c.before, old, s.noteIds)
            = {Shown(src.notes[k], old) :
                  k \in {j \in DOMAIN src.notes : src.notes[j].id \in s.noteIds}}
      /\ NotesShown(f, new, Ids(read.notes))
            = {Shown(read.notes[k], new) :
                  k \in {j \in DOMAIN read.notes :
                            read.notes[j].id \in Ids(read.notes)}}
    BY DEF NotesShown, Shown
<1>4. DOMAIN read.notes = DOMAIN f.notes
    BY <1>1, ReadItems
<1>5. \A j \in DOMAIN f.notes : Shown(read.notes[j], new) = Shown(f.notes[j], new)
    BY <1>1, ReadShown
<1>6. /\ DOMAIN src.generatedPassws = DOMAIN c.before.generatedPassws
      /\ \A k \in DOMAIN c.before.generatedPassws :
            src.generatedPassws[k].passw = c.before.generatedPassws[k].passw
    BY <1>1, ReadItems
<1> HIDE DEF src, f, read, old, new
<1>7. ASSUME NEW x \in NotesShown(c.before, old, s.noteIds)
      PROVE  x \in NotesShown(f, new, Ids(read.notes))
    <2>1. PICK k \in DOMAIN src.notes :
             src.notes[k].id \in s.noteIds /\ x = Shown(src.notes[k], old)
        BY <1>3
    <2>2. PICK j \in DOMAIN f.notes :
             CopiedNote(f.notes[j], src.notes[k], old, new)
        BY <1>2, <2>1
    <2>3. x = Shown(f.notes[j], new)
        BY <2>1, <2>2, CopiedShown
    <2>4. read.notes[j].id \in Ids(read.notes)
        BY <1>4 DEF Ids
    <2> QED BY <1>3, <1>4, <1>5, <2>3, <2>4
<1>8. ASSUME s.isDefault, NEW x \in Range(GeneratedShown(c.before, old))
      PROVE  x \in Range(GeneratedShown(f, new))
    <2>1. PICK k \in DOMAIN c.before.generatedPassws :
             x = Decrypt(old, c.before.generatedPassws[k].passw)
        BY <1>8 DEF GeneratedShown, Opened, Range
    <2>2. PICK j \in DOMAIN f.generatedPassws :
             f.generatedPassws[j].passw
                = Rekeyed(src.generatedPassws[k].passw, old, new)
        BY <1>2, <1>6, <1>8, <2>1
    <2>3. x = Decrypt(new, f.generatedPassws[j].passw)
        BY <1>6, <2>1, <2>2, RekeyedOpens
    <2> QED BY <2>3 DEF GeneratedShown, Opened, Range
<1> QED BY <1>7, <1>8 DEF f, read, old, new

\* A change that came to its end opens, under each new password, the notes it
\* was asked to move with their histories, and the generated passwords: for
\* every storage and every list of strategies.
THEOREM TheNewPasswordOpens == Spec => ChangedPasswordOpens
<1>1. ASSUME IInv, Ends
      PROVE  \A s \in Range(change.strategies) :
                /\ NotesShown(change.before, s.currentPassword, s.noteIds)
                     \subseteq NotesShown(main'.file, s.newPassw,
                                          Ids(ReadAll(main'.file).notes))
                /\ s.isDefault =>
                     Range(GeneratedShown(change.before, s.currentPassword))
                        \subseteq Range(GeneratedShown(main'.file, s.newPassw))
    <2>1. Moves(change) /\ main'.file = change.after
        BY <1>1, EndWrites
    <2> QED BY <2>1, EndOpens
<1>2. IInv => [Ends => \A s \in Range(change.strategies) :
                /\ NotesShown(change.before, s.currentPassword, s.noteIds)
                     \subseteq NotesShown(main'.file, s.newPassw,
                                          Ids(ReadAll(main'.file).notes))
                /\ s.isDefault =>
                     Range(GeneratedShown(change.before, s.currentPassword))
                        \subseteq Range(GeneratedShown(main'.file,
                                                       s.newPassw))]_vars
    BY <1>1
<1> QED BY <1>2, Invariant, PTL DEF ChangedPasswordOpens

\* groups numbered without a gap are numbered the same by a change
LEMMA SameGroupsAfter ==
    ASSUME NEW c, Moves(c), Dense(c.before.colorGroups)
    PROVE  Range(c.after.colorGroups) = Range(c.before.colorGroups)
<1> DEFINE groups == c.before.colorGroups
           copies == c.after.colorGroups
           src == ReadAll(c.before)
<1>1. /\ groups \in Seq(ColorGroup) /\ src.colorGroups = groups
    BY SectionsAre, ReadItems DEF Moves, SealedFile
<1>2. PICK s \in Range(c.strategies) : s.isDefault /\ Brings(c.after, src, s)
    BY DEF Moves
<1>3. \A k \in DOMAIN groups :
         groups[k] = [id |-> ID_COUNTER_START + k, color |-> groups[k].color]
    <2>1. ASSUME NEW k \in DOMAIN groups
          PROVE  groups[k] \in ColorGroup /\ groups[k].id = ID_COUNTER_START + k
        BY <1>1 DEF Dense
    <2> QED BY <2>1 DEF ColorGroup
<1>4. \A k \in DOMAIN groups : \E j \in DOMAIN copies :
         copies[j] = [id |-> ID_COUNTER_START + k, color |-> groups[k].color]
    BY <1>1, <1>2 DEF Brings
<1>5. \A j \in DOMAIN copies : \E k \in DOMAIN groups :
         copies[j] = [id |-> ID_COUNTER_START + k, color |-> groups[k].color]
    BY <1>1 DEF Moves, OnlyFrom
<1> HIDE DEF groups, copies
<1>6. Range(copies) = Range(groups)
    BY <1>3, <1>4, <1>5 DEF Range
<1> QED BY <1>6 DEF groups, copies

LEMMA EndColours ==
    ASSUME NEW c, Moves(c), Dense(c.before.colorGroups)
    PROVE  Coloured(c.after) \subseteq Coloured(c.before)
<1> DEFINE f == c.after
           g == c.before
           src == ReadAll(g)
<1>1. g \in FileSections /\ OnlyFrom(f, src, Range(c.strategies))
    BY DEF Moves, SealedFile
<1>2. /\ DOMAIN src.notes = DOMAIN g.notes
      /\ \A k \in DOMAIN g.notes :
            /\ src.notes[k].info = g.notes[k].info
            /\ src.notes[k].colorGroupId = g.notes[k].colorGroupId
      /\ DOMAIN src.otpNotes = DOMAIN g.otpNotes
      /\ \A k \in DOMAIN g.otpNotes :
            /\ src.otpNotes[k].info = g.otpNotes[k].info
            /\ src.otpNotes[k].colorGroupId = g.otpNotes[k].colorGroupId
    BY <1>1, ReadItems
<1>3. Range(f.colorGroups) = Range(g.colorGroups)
    BY SameGroupsAfter
<1> HIDE DEF f, g, src
<1>4. ASSUME NEW item \in Range(f.notes) \cup Range(f.otpNotes),
             item.info.text # Garbled
      PROVE  \E i \in Range(g.notes) \cup Range(g.otpNotes) :
                /\ i.info.text = item.info.text
                /\ i.colorGroupId = item.colorGroupId
    <2>1. CASE item \in Range(f.notes)
        <3>1. PICK j \in DOMAIN f.notes : item = f.notes[j]
            BY <2>1 DEF Range
        <3>2. PICK s \in Range(c.strategies), k \in DOMAIN src.notes :
                 CopiedNote(item, src.notes[k], s.currentPassword, s.newPassw)
            BY <1>1, <3>1 DEF OnlyFrom
        <3>3. /\ item.info = Rekeyed(g.notes[k].info,
                                     s.currentPassword, s.newPassw)
              /\ item.colorGroupId = g.notes[k].colorGroupId
            BY <1>2, <3>2 DEF CopiedNote
        <3>4. item.info.text = g.notes[k].info.text
            BY <1>4, <3>3, RekeyedOpens
        <3>5. g.notes[k] \in Range(g.notes)
            BY <1>2, <3>2 DEF Range
        <3> QED BY <3>3, <3>4, <3>5
    <2>2. CASE item \in Range(f.otpNotes)
        <3>1. PICK j \in DOMAIN f.otpNotes : item = f.otpNotes[j]
            BY <2>2 DEF Range
        <3>2. PICK s \in Range(c.strategies), k \in DOMAIN src.otpNotes :
                 CopiedOtp(item, src.otpNotes[k], s.currentPassword, s.newPassw)
            BY <1>1, <3>1 DEF OnlyFrom
        <3>3. /\ item.info = Rekeyed(g.otpNotes[k].info,
                                     s.currentPassword, s.newPassw)
              /\ item.colorGroupId = g.otpNotes[k].colorGroupId
            BY <1>2, <3>2 DEF CopiedOtp
        <3>4. item.info.text = g.otpNotes[k].info.text
            BY <1>4, <3>3, RekeyedOpens
        <3>5. g.otpNotes[k] \in Range(g.otpNotes)
            BY <1>2, <3>2 DEF Range
        <3> QED BY <3>3, <3>4, <3>5
    <2> QED BY <2>1, <2>2
<1>5. ASSUME NEW item, NEW i, i.colorGroupId = item.colorGroupId
      PROVE  ColorsOf(f, item) = ColorsOf(g, i)
    BY <1>3, <1>5 DEF ColorsOf
<1>6. ASSUME NEW x \in Coloured(f) PROVE x \in Coloured(g)
    <2>1. PICK item \in Range(f.notes) \cup Range(f.otpNotes) :
             /\ item.info.text # Garbled
             /\ x = <<item.info.text, ColorsOf(f, item)>>
        BY <1>6 DEF Coloured
    <2>2. PICK i \in Range(g.notes) \cup Range(g.otpNotes) :
             /\ i.info.text = item.info.text
             /\ i.colorGroupId = item.colorGroupId
        BY <1>4, <2>1
    <2>3. x = <<i.info.text, ColorsOf(g, i)>> /\ i.info.text # Garbled
        BY <1>5, <2>1, <2>2
    <2> QED BY <2>3 DEF Coloured
<1> QED BY <1>6 DEF f, g

\* A change leaves what can be read of notes and otp notes in the groups it
\* was in, in every storage whose groups are numbered without a gap.
THEOREM ItemsKeepTheirGroups == Spec => GroupsKept
<1>1. ASSUME IInv, Ends, Dense(change.before.colorGroups)
      PROVE  Coloured(main'.file) \subseteq Coloured(change.before)
    <2>1. Moves(change) /\ main'.file = change.after
        BY <1>1, EndWrites
    <2> QED BY <1>1, <2>1, EndColours
<1>2. IInv => [Ends /\ Dense(change.before.colorGroups)
                 => Coloured(main'.file) \subseteq Coloured(change.before)]_vars
    BY <1>1
<1> QED BY <1>2, Invariant, PTL DEF GroupsKept

=============================================================================
