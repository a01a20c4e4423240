------------------------- MODULE KeyStorage1_proofs -------------------------
(***************************************************************************)
(* Storages of version 1, whatever their number, the length of a history   *)
(* and the entries its shift moves: passwords within the limits come back  *)
(* as they were set, a history that was never full loses no entry, and the *)
(* migration to version 2 keeps what was there.                            *)
(***************************************************************************)
EXTENDS KeyStorage1, SequenceTheorems, TLAPS

-----------------------------------------------------------------------------
(* Texts and notes *)

\* what a user types, and what can come back
Texts ==
    Passws \cup {Noise, EmptyText, Blank} \cup [word : {"cut"}, len : Nat]

\* the lemmas on storages of version 2, whose passwords are such texts
V2 == INSTANCE KeyStorage2_proofs WITH
        Passws <- Texts \ {EmptyText}, EmptyPassw <- EmptyText, Colors <- {},
        BlankInfo <- "blank", BlankPassw <- "blank", BlankColor <- "blank"

Entry == [passw : Texts, genTime : Nat]
Note ==
    [info : Infos, passw : Texts, genTime : Nat,
     hist : [1 .. NOTE_PASSW_HIST_LEN -> Entry],
     histLen : 0 .. NOTE_PASSW_HIST_LEN, given : Passws, past : Seq(Passws)]
Gen == [passw : Texts, genTime : Nat, given : Passws]

\* the texts of a note that can be relied on are those that were given
TrueNote(n) ==
    /\ Reads(n.passw, n.given)
    /\ n.histLen <= Len(n.past)
    /\ \A i \in Reliable(n) : Reads(n.hist[i].passw, n.past[i])

\* only a history that was full can be shorter than it should
LongEnough(n) == n.histLen < Len(n.past) => Len(n.past) >= NOTE_PASSW_HIST_LEN

GoodNote(n) == n \in Note /\ TrueNote(n) /\ LongEnough(n)
GoodGen(g) == g \in Gen /\ Reads(g.passw, g.given)

GoodNotes == {n \in Note : GoodNote(n)}
GoodGens == {g \in Gen : GoodGen(g)}

Sessions == [path : Paths, notes : Seq(GoodNotes), gens : Seq(GoodGens)]
Files1 == [version : {1}, notes : Seq(GoodNotes), gens : Seq(GoodGens)]

\* the clause of MigrationKeepsAll on one storage
Keeps(new, old) ==
    /\ Len(new.notes) = Len(old.notes)
    /\ \A k \in DOMAIN old.notes :
        LET n == old.notes[k]
            m == new.notes[k]
        IN  /\ m.info = n.info /\ Reads(m.passw, n.given)
            /\ Len(m.history) = n.histLen
            /\ \A i \in Reliable(n) : Reads(m.history[i].passw, n.past[i])
    /\ Len(new.generatedPassws) = Len(old.gens)
    /\ \A k \in DOMAIN old.gens :
        Reads(new.generatedPassws[k].passw, old.gens[k].given)

GoodFile(f) ==
    \/ f = NoFile
    \/ f \in Files1
    \/ f.version = 2 /\ Keeps(f.sections, f.from)

\* The inductive invariant: whatever is open or in a file of version 1 is
\* good, and a file of version 2 keeps what it was made of.
IInv ==
    /\ edits \in Nat
    /\ session = Closed \/ session \in Sessions
    /\ files = [p \in Paths |-> files[p]]
    /\ \A p \in Paths : GoodFile(files[p])

LEMMA Lengths == PASSW_LEN = 48 /\ lenRing = 36 /\ EncryptedLen = 33
<1>1. 47 \div 16 = 2
    OBVIOUS
<1> QED BY <1>1 DEF PASSW_LEN, lenRing, EncryptedLen, SaltTextHeader_LEN,
                    TEXT_DECODE_RESERVE_LEN

LEMMA ReadLengthIs ==
    ASSUME NEW len \in Nat
    PROVE  /\ ReadLength(len) \in Nat
           /\ len <= 27 => ReadLength(len) = len
<1>1. CASE len \in PASSW_MIN_LEN .. PASSW_MAX_LEN
    <2>1. len \in 4 .. 16 /\ ReadLength(len) = 4 + ((len - 4) % 13)
        BY <1>1 DEF PASSW_MIN_LEN, PASSW_MAX_LEN, ReadLength
    <2>2. (len - 4) % 13 = len - 4
        BY <2>1
    <2> QED BY <2>1, <2>2
<1>2. CASE len \notin PASSW_MIN_LEN .. PASSW_MAX_LEN
    <2>1. ReadLength(len) = len % 36
        BY <1>2, Lengths DEF ReadLength
    <2>2. len % 36 \in Nat /\ (len <= 27 => len % 36 = len)
        OBVIOUS
    <2> QED BY <2>1, <2>2
<1> QED BY <1>1, <1>2

LEMMA SaltedType ==
    ASSUME NEW t \in Texts
    PROVE  Salted(t) \in Texts
<1>1. t.len \in Nat
    <2>1. CASE t \in Passws
        BY <2>1, PasswsAssumption
    <2>2. CASE t \in {Noise, EmptyText, Blank}
        <3>1. Noise.len = 4 /\ EmptyText.len = 0 /\ Blank.len = 0
            BY DEF Noise, EmptyText, Blank
        <3> QED BY <2>2, <3>1
    <2>3. CASE t \in [word : {"cut"}, len : Nat]
        BY <2>3
    <2> QED BY <2>1, <2>2, <2>3 DEF Texts
<1>2. CASE t.len > lenRing
    BY <1>2 DEF Salted, Texts
<1>3. CASE ReadLength(t.len) = 0
    BY <1>3 DEF Salted, Texts
<1>4. CASE ~ (t.len > lenRing) /\ ReadLength(t.len) # 0
    <2>1. [word |-> "cut", len |-> ReadLength(t.len)] \in Texts
        BY <1>1, ReadLengthIs DEF Texts
    <2> QED BY <1>4, <2>1 DEF Salted
<1> QED BY <1>2, <1>3, <1>4

\* what was given comes back if it fits
LEMMA SaltedIs ==
    ASSUME NEW t \in Passws, Fits(t)
    PROVE  Salted(t) = t
<1>1. t.len \in Nat /\ t.len <= 27 /\ ~ (t.len > lenRing)
    BY PasswsAssumption, Lengths DEF Fits, SaltTextHeader_LEN
<1>2. ReadLength(t.len) = t.len
    BY <1>1, ReadLengthIs
<1> QED BY <1>1, <1>2, PasswsAssumption DEF Salted

LEMMA SaltedReads ==
    ASSUME NEW t \in Passws, NEW text, Reads(text, t)
    PROVE  Reads(Salted(text), t)
BY SaltedIs DEF Reads

-----------------------------------------------------------------------------
(* Edits of a note *)

LEMMA CreatedNoteIsGood ==
    ASSUME NEW info \in Infos, NEW passw \in Passws, NEW now \in Nat
    PROVE  CreatedNote(info, passw, now) \in GoodNotes
<1> DEFINE n == CreatedNote(info, passw, now)
<1>1. Salted(passw) \in Texts /\ Reads(Salted(passw), passw)
    BY SaltedType, SaltedIs DEF Texts, Reads
<1>2. NoHistory \in [1 .. NOTE_PASSW_HIST_LEN -> Entry]
    BY DEF NoHistory, BlankEntry, Entry, Texts
<1>3. n \in Note /\ n.histLen = 0 /\ n.past = <<>>
    BY <1>1, <1>2, HistoryAssumption DEF CreatedNote, Note
<1>4. Reliable(n) = {}
    BY <1>3, HistoryAssumption DEF Reliable, Smaller
<1>5. TrueNote(n) /\ LongEnough(n)
    BY <1>1, <1>3, <1>4 DEF TrueNote, LongEnough, CreatedNote
<1> QED BY <1>3, <1>5 DEF GoodNotes, GoodNote

LEMMA ShiftedIs ==
    ASSUME NEW hist \in [1 .. NOTE_PASSW_HIST_LEN -> Entry]
    PROVE  /\ Shifted(hist) \in [1 .. NOTE_PASSW_HIST_LEN -> Entry]
           /\ \A i \in 2 .. MovedEntries + 1 : Shifted(hist)[i] = hist[i - 1]
<1>1. \A i \in 2 .. MovedEntries + 1 : /\ i \in 1 .. NOTE_PASSW_HIST_LEN
                                     /\ i - 1 \in 1 .. NOTE_PASSW_HIST_LEN
    BY HistoryAssumption
<1>2. ASSUME NEW i \in 1 .. NOTE_PASSW_HIST_LEN
      PROVE  [hist[i] EXCEPT !.passw = Noise] \in Entry
    BY DEF Entry, Texts
<1> QED BY <1>1, <1>2 DEF Shifted

LEMMA ReplacedIsGood ==
    ASSUME NEW n, GoodNote(n), NEW passw \in Passws, NEW now \in Nat
    PROVE  GoodNote(Replaced(n, passw, now))
<1> DEFINE H == NOTE_PASSW_HIST_LEN
           new == [n EXCEPT !.passw = Salted(passw), !.genTime = now,
                            !.given = passw]
           first == [passw |-> Salted(n.passw), genTime |-> n.genTime]
           h == [Shifted(n.hist) EXCEPT ![1] = first]
           past == <<n.given>> \o n.past
           len == Smaller(n.histLen + 1, H)
           m == [new EXCEPT !.histLen = len, !.hist = h, !.past = past]
<1>0. /\ n \in Note /\ TrueNote(n) /\ LongEnough(n) /\ H \in Nat /\ H >= 2
      /\ MovedEntries \in Nat /\ MovedEntries + 2 <= H
    BY HistoryAssumption DEF GoodNote
<1>1. /\ n.passw \in Texts /\ n.genTime \in Nat /\ n.given \in Passws
      /\ n.hist \in [1 .. H -> Entry] /\ n.histLen \in 0 .. H
      /\ n.past \in Seq(Passws)
    BY <1>0 DEF Note
<1>2. Salted(passw) \in Texts /\ Reads(Salted(passw), passw)
    BY SaltedType, SaltedIs DEF Texts, Reads
<1>3. new \in Note
    BY <1>0, <1>1, <1>2 DEF Note
<1>4. CASE n.passw = EmptyText
    <2>1. Replaced(n, passw, now) = new
        BY <1>4 DEF Replaced
    <2>2. /\ new.histLen = n.histLen /\ new.hist = n.hist /\ new.past = n.past
          /\ new.passw = Salted(passw) /\ new.given = passw
        BY <1>0 DEF Note
    <2> HIDE DEF new
    <2>3. GoodNote(new)
        BY <1>0, <1>2, <1>3, <2>2
        DEF GoodNote, TrueNote, LongEnough, Reliable
    <2> QED BY <2>1, <2>3
<1>5. CASE n.passw # EmptyText
    <2>1. Replaced(n, passw, now) = m
        BY <1>0, <1>5 DEF Replaced, Note
    <2>2. first \in Entry /\ Reads(first.passw, n.given)
        BY <1>0, <1>1, SaltedType, SaltedReads DEF Entry, TrueNote
    <2>3. /\ h \in [1 .. H -> Entry] /\ h[1] = first
          /\ \A i \in 2 .. MovedEntries + 1 : h[i] = n.hist[i - 1]
        <3>1. /\ Shifted(n.hist) \in [1 .. H -> Entry]
              /\ \A i \in 2 .. MovedEntries + 1 :
                    Shifted(n.hist)[i] = n.hist[i - 1]
            BY <1>1, ShiftedIs
        <3>2. \A i \in 2 .. MovedEntries + 1 : i # 1 /\ i \in 1 .. H
            BY <1>0
        <3> HIDE DEF first, H
        <3> QED BY <1>0, <2>2, <3>1, <3>2
    <2>4. /\ past \in Seq(Passws) /\ Len(past) = Len(n.past) + 1
          /\ past[1] = n.given
          /\ \A i \in 2 .. Len(n.past) + 1 : past[i] = n.past[i - 1]
        BY <1>1
    <2>5. len \in 0 .. H /\ len <= n.histLen + 1 /\ (len # H => len = n.histLen + 1)
        BY <1>0, <1>1 DEF Smaller
    <2>6. /\ m \in Note /\ m.histLen = len /\ m.hist = h /\ m.past = past
          /\ m.passw = Salted(passw) /\ m.given = passw
        <3> HIDE DEF h, past, len, H
        <3> QED BY <1>0, <1>3, <2>3, <2>4, <2>5 DEF Note, H
    <2> HIDE DEF h, past, len, m, first
    <2>7. ASSUME NEW i \in Reliable(m)
          PROVE  Reads(h[i].passw, past[i])
        <3>1. i \in Nat /\ i >= 1 /\ i <= len /\ i <= MovedEntries + 1
            BY <1>0, <2>5, <2>6 DEF Reliable, Smaller
        <3>2. CASE i = 1
            BY <2>2, <2>3, <2>4, <3>2
        <3>3. CASE i # 1
            <4>1. /\ i \in 2 .. MovedEntries + 1 /\ i \in 2 .. Len(n.past) + 1
                  /\ i - 1 \in Reliable(n)
                BY <1>0, <1>1, <2>5, <3>1, <3>3 DEF TrueNote, Reliable, Smaller
            <4> QED BY <1>0, <2>3, <2>4, <4>1 DEF TrueNote
        <3> QED BY <3>2, <3>3
    <2>8. TrueNote(m)
        BY <1>0, <1>1, <1>2, <2>4, <2>5, <2>6, <2>7 DEF TrueNote
    <2>9. LongEnough(m)
        BY <1>0, <1>1, <2>4, <2>5, <2>6 DEF LongEnough, TrueNote
    <2> QED BY <2>1, <2>6, <2>8, <2>9 DEF GoodNote
<1> QED BY <1>4, <1>5

LEMMA SmallRemainder ==
    ASSUME NEW a \in Nat, NEW b \in Nat, a < b
    PROVE  a % b = a
    OBVIOUS

LEMMA CopiedIsGood ==
    ASSUME NEW n, GoodNote(n)
    PROVE  GoodNote(Copied(n))
<1> DEFINE H == NOTE_PASSW_HIST_LEN
           h == [i \in 1 .. H |->
                    IF i > n.histLen THEN BlankEntry
                    ELSE [passw |-> Salted(n.hist[i].passw),
                          genTime |-> n.hist[i].genTime]]
           len == n.histLen % H
           m == [n EXCEPT !.passw = Salted(n.passw), !.histLen = len, !.hist = h]
<1>0. /\ n \in Note /\ TrueNote(n) /\ LongEnough(n) /\ H \in Nat /\ H >= 2
      /\ MovedEntries \in Nat
    BY HistoryAssumption DEF GoodNote
<1>1. /\ n.passw \in Texts /\ n.given \in Passws
      /\ n.hist \in [1 .. H -> Entry] /\ n.histLen \in 0 .. H
      /\ n.past \in Seq(Passws)
    BY <1>0 DEF Note
<1>2. Copied(n) = m
    <2>1. DOMAIN n.hist = 1 .. H
        BY <1>1
    <2> QED BY <2>1 DEF Copied
<1>3. ASSUME NEW i \in 1 .. H
      PROVE  /\ h[i] \in Entry
             /\ i <= n.histLen => h[i].passw = Salted(n.hist[i].passw)
    <2>1. n.hist[i] \in Entry /\ n.hist[i].passw \in Texts
        BY <1>1 DEF Entry
    <2>2. Salted(n.hist[i].passw) \in Texts
        BY <2>1, SaltedType
    <2>3. BlankEntry \in Entry
        BY DEF BlankEntry, Entry, Texts
    <2> QED BY <1>0, <1>1, <2>1, <2>2, <2>3 DEF Entry
<1>4. h \in [1 .. H -> Entry]
    BY <1>3
<1>5. /\ len \in 0 .. H /\ len <= n.histLen
      /\ (len = n.histLen \/ n.histLen = H)
    <2>1. CASE n.histLen = H
        BY <1>0, <2>1
    <2>2. CASE n.histLen < H
        <3>1. n.histLen % H = n.histLen
            BY <1>0, <1>1, <2>2, SmallRemainder
        <3> QED BY <1>0, <1>1, <3>1
    <2> QED BY <1>0, <1>1, <2>1, <2>2
<1>6. Salted(n.passw) \in Texts /\ Reads(Salted(n.passw), n.given)
    BY <1>0, <1>1, SaltedType, SaltedReads DEF TrueNote
<1>7. /\ m \in Note /\ m.histLen = len /\ m.hist = h /\ m.past = n.past
      /\ m.passw = Salted(n.passw) /\ m.given = n.given
    <2> HIDE DEF h, len, H
    <2> QED BY <1>0, <1>4, <1>5, <1>6 DEF Note, H
<1> HIDE DEF m, h, len
<1>8. ASSUME NEW i \in Reliable(m)
      PROVE  Reads(h[i].passw, n.past[i])
    <2>1. i \in 1 .. H /\ i <= n.histLen /\ i \in Reliable(n) /\ i \in 1 .. Len(n.past)
        BY <1>0, <1>1, <1>5, <1>7 DEF Reliable, Smaller, TrueNote
    <2>2. Reads(n.hist[i].passw, n.past[i]) /\ n.past[i] \in Passws
        BY <1>0, <1>1, <2>1 DEF TrueNote
    <2> QED BY <1>3, <2>1, <2>2, SaltedReads
<1>9. TrueNote(m)
    BY <1>0, <1>1, <1>5, <1>6, <1>7, <1>8 DEF TrueNote
<1>10. LongEnough(m)
    BY <1>0, <1>1, <1>5, <1>7 DEF LongEnough, TrueNote
<1> QED BY <1>2, <1>7, <1>9, <1>10 DEF GoodNote

-----------------------------------------------------------------------------
(* Migration.  The storage of version 2 is made by the operators of        *)
(* KeyStorage2; their lemmas are those of V2.                              *)

LEMMA SameOperators ==
    /\ \A d, note, flags, now :
          K2!CreateNote(d, note, flags, now) = V2!CreateNote(d, note, flags, now)
    /\ \A d, hist :
          K2!AppendPasswHistory(d, hist) = V2!AppendPasswHistory(d, hist)
    /\ \A d : K2!FileOf(d) = V2!FileOf(d)
    /\ K2!ReadAll(K2!EmptyFile) = V2!ReadAll(V2!EmptyFile)
<1>1. ASSUME NEW d, NEW note, NEW flags, NEW now
      PROVE  K2!CreateNote(d, note, flags, now) = V2!CreateNote(d, note, flags, now)
    BY Zenon
    DEF K2!CreateNote, V2!CreateNote, K2!SetNote, V2!SetNote, K2!HasId, V2!HasId,
        K2!IndexOf, V2!IndexOf, K2!Numbered, V2!Numbered, K2!TracksHistory,
        V2!TracksHistory, K2!SetsPassw, V2!SetsPassw, K2!PushedFront,
        V2!PushedFront, EmptyText
<1>2. ASSUME NEW d, NEW hist
      PROVE  K2!AppendPasswHistory(d, hist) = V2!AppendPasswHistory(d, hist)
    BY Zenon
    DEF K2!AppendPasswHistory, V2!AppendPasswHistory, K2!Numbered, V2!Numbered
<1>3. ASSUME NEW d
      PROVE  K2!FileOf(d) = V2!FileOf(d)
    BY Zenon DEF K2!FileOf, V2!FileOf, K2!FlatHistory, V2!FlatHistory
<1>4. K2!ReadAll(K2!EmptyFile) = V2!ReadAll(V2!EmptyFile)
    BY Zenon
    DEF K2!ReadAll, V2!ReadAll, K2!EmptyFile, V2!EmptyFile, K2!IdAfterNotes,
        V2!IdAfterNotes, K2!NoteItems, V2!NoteItems, K2!ReadNote, V2!ReadNote,
        K2!ReadOtp, V2!ReadOtp, K2!NextGroupId, V2!NextGroupId, K2!Numbered,
        V2!Numbered, K2!ID_COUNTER_START, V2!ID_COUNTER_START, K2!Ids, V2!Ids,
        K2!Max, V2!Max, K2!Cardinality, V2!Cardinality
<1> QED BY <1>1, <1>2, <1>3, <1>4

LEMMA TextsOfVersion2 == V2!AnyPassw = Texts
BY DEF V2!AnyPassw, Texts

\* the note m of version 2 has what the note n of version 1 has
SameNote(m, n) ==
    /\ m.info = n.info /\ m.passw = n.passw /\ Len(m.history) = n.histLen
    /\ \A i \in 1 .. n.histLen : m.history[i].passw = n.hist[i].passw

LEMMA MigratedNoteType ==
    ASSUME NEW n \in Note
    PROVE  /\ V2!NoteValues(MigratedNote(n), Entry)
           /\ MigratedNote(n).info = n.info /\ MigratedNote(n).passw = n.passw
           /\ Len(MigratedNote(n).history) = n.histLen
           /\ \A i \in 1 .. n.histLen :
                 MigratedNote(n).history[i].passw = n.hist[i].passw
<1>1. /\ n.info \in Infos /\ n.passw \in Texts /\ n.genTime \in Nat
      /\ n.histLen \in Nat /\ n.histLen <= NOTE_PASSW_HIST_LEN
      /\ n.hist \in [1 .. NOTE_PASSW_HIST_LEN -> Entry]
    BY HistoryAssumption DEF Note
<1>2. \A i \in 1 .. n.histLen :
        [passw |-> n.hist[i].passw, genTime |-> n.genTime] \in Entry
    BY <1>1, HistoryAssumption DEF Entry
<1>3. History(n) \in [1 .. n.histLen -> Entry]
    BY <1>2 DEF History
<1>4. History(n) \in Seq(Entry) /\ Len(History(n)) = n.histLen
    BY <1>1, <1>3
<1>5. \A i \in 1 .. n.histLen : History(n)[i].passw = n.hist[i].passw
    BY DEF History
<1>6. \A x \in Entry : x.passw \in V2!AnyPassw /\ x.genTime \in Nat
    BY TextsOfVersion2 DEF Entry
<1>7. /\ MigratedNote(n).info = n.info /\ MigratedNote(n).passw = n.passw
      /\ MigratedNote(n).colorGroupId = 0 /\ MigratedNote(n).history = History(n)
    BY DEF MigratedNote
<1> QED BY <1>1, <1>4, <1>5, <1>6, <1>7, TextsOfVersion2 DEF V2!NoteValues

\* createNote appends the note, generated passwords stay
LEMMA NoteMigrates ==
    ASSUME NEW d, V2!Sound(d), NEW n \in Note, NEW now \in Nat,
           NEW e, e = K2!CreateNote(d, MigratedNote(n), {}, now)
    PROVE  /\ V2!Sound(e)
           /\ Len(e.notes) = Len(d.notes) + 1
           /\ \A j \in 1 .. Len(d.notes) : e.notes[j] = d.notes[j]
           /\ SameNote(e.notes[Len(d.notes) + 1], n)
           /\ e.generatedPassws = d.generatedPassws
<1> DEFINE m == MigratedNote(n)
<1>1. V2!NoteValues(m, Entry) /\ e = V2!CreateNote(d, m, {}, now)
    BY MigratedNoteType, SameOperators
<1>2. V2!Sound(e)
    BY <1>1, V2!CreateNoteSound
<1>3. PICK next \in Nat : e = V2!WithNote(d, m, next, now)
    BY <1>1, V2!CreatedNote
<1> DEFINE hist == V2!Numbered(m.history, next)
           x == [id |-> d.idCounter, info |-> m.info, passw |-> m.passw,
                 genTime |-> now, colorGroupId |-> m.colorGroupId,
                 history |-> hist]
<1>4. d \in V2!DataSnapshot
    BY DEF V2!Sound
<1>5. d.notes \in Seq(V2!CryptedNote)
    BY <1>4 DEF V2!DataSnapshot
<1>6. e.notes = Append(d.notes, x) /\ e.generatedPassws = d.generatedPassws
    BY <1>3, <1>4 DEF V2!WithNote, V2!DataSnapshot
<1>7. SameNote(x, n)
    <2>1. /\ Len(hist) = Len(m.history)
          /\ \A i \in 1 .. Len(m.history) : hist[i].passw = m.history[i].passw
        <3>1. Len(m.history) \in Nat
            BY <1>1 DEF V2!NoteValues
        <3> HIDE DEF m
        <3> QED BY <3>1 DEF V2!Numbered
    <2> HIDE DEF hist
    <2> QED BY <2>1, MigratedNoteType DEF SameNote
<1> HIDE DEF x
<1> QED BY <1>2, <1>5, <1>6, <1>7

LEMMA GenMigrates ==
    ASSUME NEW d, V2!Sound(d), NEW g \in Gen,
           NEW e, e = K2!AppendPasswHistory(d, <<GenEntry(g)>>)
    PROVE  /\ V2!Sound(e) /\ e.notes = d.notes
           /\ Len(e.generatedPassws) = Len(d.generatedPassws) + 1
           /\ \A j \in 1 .. Len(d.generatedPassws) :
                 e.generatedPassws[j] = d.generatedPassws[j]
           /\ e.generatedPassws[Len(d.generatedPassws) + 1].passw = g.passw
<1> DEFINE hist == <<GenEntry(g)>>
           new == V2!Numbered(hist, d.idCounter)
<1>1. /\ GenEntry(g) \in Entry /\ GenEntry(g).passw = g.passw
      /\ \A x \in Entry : x.passw \in V2!AnyPassw /\ x.genTime \in Nat
    BY TextsOfVersion2 DEF Gen, GenEntry, Entry
<1>2. hist \in Seq(Entry) /\ Len(hist) = 1 /\ hist[1] = GenEntry(g)
    BY <1>1
<1>3. e = V2!AppendPasswHistory(d, hist)
    BY SameOperators
<1> HIDE DEF hist
<1>4. V2!Sound(e)
    BY <1>1, <1>2, <1>3, V2!AppendPasswHistorySound
<1>5. d \in V2!DataSnapshot
    BY DEF V2!Sound
<1>6. d.generatedPassws \in Seq(V2!CryptedPassword) /\ d.idCounter \in Nat
    BY <1>5 DEF V2!DataSnapshot
<1>7. e.notes = d.notes /\ e.generatedPassws = d.generatedPassws \o new
    BY <1>3, <1>5 DEF V2!AppendPasswHistory, V2!DataSnapshot
<1>8. new \in Seq(V2!CryptedPassword) /\ Len(new) = 1
    BY <1>1, <1>2, <1>6, V2!NumberedProperties
<1>9. new[1].passw = g.passw
    BY <1>1, <1>2 DEF V2!Numbered
<1> DEFINE gens == d.generatedPassws
<1>10. gens \in Seq(V2!CryptedPassword)
    BY <1>6
<1> HIDE DEF new, gens
<1>11. /\ Len(gens \o new) = Len(gens) + 1
       /\ \A j \in 1 .. Len(gens) : (gens \o new)[j] = gens[j]
       /\ (gens \o new)[Len(gens) + 1] = new[1]
    BY <1>8, <1>10, ConcatProperties
<1> QED BY <1>4, <1>7, <1>9, <1>11 DEF gens

(* The loops of migrateK1toK2 *)

Snapshots == {d \in V2!DataSnapshot : V2!Sound(d)}

NoteLoop(notes, now) ==
    CHOOSE f : f = [k \in 0 .. Len(notes) |->
        IF k = 0 THEN K2!ReadAll(K2!EmptyFile)
        ELSE K2!CreateNote(f[k - 1], MigratedNote(notes[k]), {}, now)]

GenLoop(d, gens) ==
    CHOOSE f : f = [k \in 0 .. Len(gens) |->
        IF k = 0 THEN d
        ELSE K2!AppendPasswHistory(f[k - 1], <<GenEntry(gens[k])>>)]

LEMMA MigratedIs ==
    ASSUME NEW s
    PROVE  Migrated(s) =
             GenLoop(NoteLoop(s.notes, edits)[Len(s.notes)], s.gens)[Len(s.gens)]
BY Zenon DEF Migrated, NoteLoop, GenLoop

LEMMA EmptyStorage2 ==
    LET d == K2!ReadAll(K2!EmptyFile)
    IN  d \in Snapshots /\ Len(d.notes) = 0 /\ Len(d.generatedPassws) = 0
<1> DEFINE f == V2!EmptyFile
           d == V2!ReadAll(f)
<1>1. V2!Sound(d)
    BY V2!EmptyFileType, V2!ReadAllSound
<1>2. Len(f.notes) = 0 /\ Len(f.generatedPassws) = 0
    BY DEF V2!EmptyFile
<1> HIDE DEF f
<1>3. /\ d.notes = [k \in 1 .. Len(f.notes) |-> V2!ReadNote(f, k)]
      /\ d.generatedPassws = V2!Numbered(f.generatedPassws,
                                         V2!IdAfterNotes(f, Len(f.notes)))
    BY DEF V2!ReadAll
<1>4. Len(d.notes) = 0 /\ Len(d.generatedPassws) = 0
    BY <1>2, <1>3 DEF V2!Numbered
<1>5. d \in V2!DataSnapshot
    BY <1>1 DEF V2!Sound
<1> HIDE DEF d
<1> QED BY <1>1, <1>4, <1>5, SameOperators DEF Snapshots, d, f

LEMMA NoteLoopIs ==
    ASSUME NEW notes \in Seq(Note), NEW now \in Nat
    PROVE  LET c == NoteLoop(notes, now)
               n == Len(notes)
           IN  /\ c[0] = K2!ReadAll(K2!EmptyFile) /\ \A k \in 0 .. n : c[k] \in Snapshots
               /\ \A k \in 1 .. n : c[k] = K2!CreateNote(c[k - 1], MigratedNote(notes[k]), {}, now)
<1> DEFINE n == Len(notes)
           S == Snapshots
           first == K2!ReadAll(K2!EmptyFile)
           step(e, k) == K2!CreateNote(e, MigratedNote(notes[k]), {}, now)
           F == [p \in S \X (1 .. n) |-> step(p[1], p[2])]
           body(f) == [k \in 0 .. n |-> IF k = 0 THEN first
                          ELSE step(f[k - 1], k)]
           c == CHOOSE f : f = body(f)
<1>1. n \in Nat /\ first \in S
    BY EmptyStorage2
<1>2. ASSUME NEW e \in S, NEW k \in 1 .. n
      PROVE  step(e, k) \in S
    <2>1. notes[k] \in Note /\ V2!Sound(e)
        BY DEF Snapshots
    <2>2. V2!Sound(step(e, k))
        BY <2>1, NoteMigrates
    <2> QED BY <2>2 DEF Snapshots, V2!Sound
<1> HIDE DEF first
<1>3. F \in [S \X (1 .. n) -> S]
    <2> HIDE DEF step, S, n
    <2> QED BY <1>2
<1>4. PICK g \in [0 .. n -> S] : V2!Loop(g, n, first, F)
    <2> HIDE DEF F, S, n
    <2> QED BY <1>1, <1>3, V2!LoopExists
<1>5. ASSUME NEW k \in 0 .. n
      PROVE  /\ g[k] \in S
             /\ g[k] = IF k = 0 THEN first ELSE step(g[k - 1], k)
    <2>1. CASE k = 0
        BY <1>4, <2>1 DEF V2!Loop
    <2>2. CASE k # 0
        <3>1. k \in 1 .. n /\ k - 1 \in 0 .. n
            BY <1>1, <2>2
        <3>2. g[k] = F[<<g[k - 1], k>>] /\ g[k - 1] \in S
            BY <1>4, <2>2, <3>1 DEF V2!Loop
        <3>3. F[<<g[k - 1], k>>] = step(g[k - 1], k)
            <4> HIDE DEF step, S, n
            <4> QED BY <3>1, <3>2
        <3> QED BY <1>4, <2>2, <3>2, <3>3
    <2> QED BY <2>1, <2>2
<1>6. g = body(g)
    <2>1. \A k \in 0 .. n : g[k] = body(g)[k]
        BY <1>5
    <2>2. body(g) = [k \in 0 .. n |-> body(g)[k]]
        OBVIOUS
    <2>3. g = [k \in 0 .. n |-> g[k]]
        BY <1>4 DEF V2!Loop
    <2> HIDE DEF body
    <2> QED BY <2>1, <2>2, <2>3
<1>7. c = body(c)
    <2> HIDE DEF body
    <2> QED BY <1>6
<1>8. NoteLoop(notes, now) = c
    BY Zenon DEF NoteLoop, first
<1> HIDE DEF c
<1>9. \A k \in 0 .. n : c[k] = body(c)[k]
    <2> HIDE DEF body
    <2> QED BY <1>7
<1>10. c[0] = first /\ \A k \in 1 .. n : c[k] = step(c[k - 1], k)
    <2>1. \A k \in 1 .. n : k \in 0 .. n /\ k # 0
        OBVIOUS
    <2>2. 0 \in 0 .. n
        BY <1>1
    <2> QED BY <1>9, <2>1, <2>2
<1> HIDE DEF step, S, n
<1>11. \A k \in 0 .. n : c[k] \in S
    <2> DEFINE typed == {k \in Nat : k <= n => c[k] \in S}
    <2>1. 0 \in typed
        BY <1>1, <1>10
    <2>2. ASSUME NEW k \in typed PROVE k + 1 \in typed
        <3> SUFFICES ASSUME k + 1 <= n PROVE c[k + 1] \in S
            OBVIOUS
        <3>1. k + 1 \in 1 .. n /\ (k + 1) - 1 = k /\ c[k] \in S
            BY <1>1
        <3> QED BY <1>2, <1>10, <3>1
    <2>3. typed \in SUBSET Nat
        OBVIOUS
    <2> HIDE DEF typed
    <2>4. typed = Nat
        BY <2>1, <2>2, <2>3, V2!SetInduction
    <2> QED BY <1>1, <2>4 DEF typed
<1> QED BY <1>8, <1>10, <1>11 DEF n, S, step, first

LEMMA GenLoopIs ==
    ASSUME NEW d \in Snapshots, NEW gens \in Seq(Gen)
    PROVE  LET c == GenLoop(d, gens)
               n == Len(gens)
           IN  /\ c[0] = d /\ \A k \in 0 .. n : c[k] \in Snapshots
               /\ \A k \in 1 .. n : c[k] = K2!AppendPasswHistory(c[k - 1], <<GenEntry(gens[k])>>)
<1> DEFINE n == Len(gens)
           S == Snapshots
           first == d
           step(e, k) == K2!AppendPasswHistory(e, <<GenEntry(gens[k])>>)
           F == [p \in S \X (1 .. n) |-> step(p[1], p[2])]
           body(f) == [k \in 0 .. n |-> IF k = 0 THEN first
                          ELSE step(f[k - 1], k)]
           c == CHOOSE f : f = body(f)
<1>1. n \in Nat /\ first \in S
    BY DEF Snapshots
<1>2. ASSUME NEW e \in S, NEW k \in 1 .. n
      PROVE  step(e, k) \in S
    <2>1. gens[k] \in Gen /\ V2!Sound(e)
        BY DEF Snapshots
    <2>2. V2!Sound(step(e, k))
        BY <2>1, GenMigrates
    <2> QED BY <2>2 DEF Snapshots, V2!Sound
<1> HIDE DEF first
<1>3. F \in [S \X (1 .. n) -> S]
    <2> HIDE DEF step, S, n
    <2> QED BY <1>2
<1>4. PICK g \in [0 .. n -> S] : V2!Loop(g, n, first, F)
    <2> HIDE DEF F, S, n
    <2> QED BY <1>1, <1>3, V2!LoopExists
<1>5. ASSUME NEW k \in 0 .. n
      PROVE  /\ g[k] \in S
             /\ g[k] = IF k = 0 THEN first ELSE step(g[k - 1], k)
    <2>1. CASE k = 0
        BY <1>4, <2>1 DEF V2!Loop
    <2>2. CASE k # 0
        <3>1. k \in 1 .. n /\ k - 1 \in 0 .. n
            BY <1>1, <2>2
        <3>2. g[k] = F[<<g[k - 1], k>>] /\ g[k - 1] \in S
            BY <1>4, <2>2, <3>1 DEF V2!Loop
        <3>3. F[<<g[k - 1], k>>] = step(g[k - 1], k)
            <4> HIDE DEF step, S, n
            <4> QED BY <3>1, <3>2
        <3> QED BY <1>4, <2>2, <3>2, <3>3
    <2> QED BY <2>1, <2>2
<1>6. g = body(g)
    <2>1. \A k \in 0 .. n : g[k] = body(g)[k]
        BY <1>5
    <2>2. body(g) = [k \in 0 .. n |-> body(g)[k]]
        OBVIOUS
    <2>3. g = [k \in 0 .. n |-> g[k]]
        BY <1>4 DEF V2!Loop
    <2> HIDE DEF body
    <2> QED BY <2>1, <2>2, <2>3
<1>7. c = body(c)
    <2> HIDE DEF body
    <2> QED BY <1>6
<1>8. GenLoop(d, gens) = c
    BY Zenon DEF GenLoop, first
<1> HIDE DEF c
<1>9. \A k \in 0 .. n : c[k] = body(c)[k]
    <2> HIDE DEF body
    <2> QED BY <1>7
<1>10. c[0] = first /\ \A k \in 1 .. n : c[k] = step(c[k - 1], k)
    <2>1. \A k \in 1 .. n : k \in 0 .. n /\ k # 0
        OBVIOUS
    <2>2. 0 \in 0 .. n
        BY <1>1
    <2> QED BY <1>9, <2>1, <2>2
<1> HIDE DEF step, S, n
<1>11. \A k \in 0 .. n : c[k] \in S
    <2> DEFINE typed == {k \in Nat : k <= n => c[k] \in S}
    <2>1. 0 \in typed
        BY <1>1, <1>10
    <2>2. ASSUME NEW k \in typed PROVE k + 1 \in typed
        <3> SUFFICES ASSUME k + 1 <= n PROVE c[k + 1] \in S
            OBVIOUS
        <3>1. k + 1 \in 1 .. n /\ (k + 1) - 1 = k /\ c[k] \in S
            BY <1>1
        <3> QED BY <1>2, <1>10, <3>1
    <2>3. typed \in SUBSET Nat
        OBVIOUS
    <2> HIDE DEF typed
    <2>4. typed = Nat
        BY <2>1, <2>2, <2>3, V2!SetInduction
    <2> QED BY <1>1, <2>4 DEF typed
<1> QED BY <1>8, <1>10, <1>11 DEF n, S, step, first

(* All notes, then all generated passwords *)

LEMMA NotesMigrate ==
    ASSUME NEW notes \in Seq(Note), NEW now \in Nat
    PROVE  LET d == NoteLoop(notes, now)[Len(notes)]
           IN  /\ d \in Snapshots
               /\ Len(d.notes) = Len(notes) /\ Len(d.generatedPassws) = 0
               /\ \A j \in 1 .. Len(notes) : SameNote(d.notes[j], notes[j])
<1> DEFINE c == NoteLoop(notes, now)
           n == Len(notes)
           Done(k) ==
               /\ Len(c[k].notes) = k /\ Len(c[k].generatedPassws) = 0
               /\ \A j \in 1 .. k : SameNote(c[k].notes[j], notes[j])
           done == {k \in Nat : k <= n => Done(k)}
<1>1. /\ c[0] = K2!ReadAll(K2!EmptyFile) /\ \A k \in 0 .. n : c[k] \in Snapshots
      /\ \A k \in 1 .. n :
            c[k] = K2!CreateNote(c[k - 1], MigratedNote(notes[k]), {}, now)
    BY NoteLoopIs
<1>2. n \in Nat /\ \A k \in 1 .. n : notes[k] \in Note
    OBVIOUS
<1> HIDE DEF c, n
<1>3. 0 \in done
    BY <1>1, EmptyStorage2
<1>4. ASSUME NEW k \in done PROVE k + 1 \in done
    <2> SUFFICES ASSUME k + 1 <= n PROVE Done(k + 1)
        OBVIOUS
    <2>1. /\ k \in Nat /\ k + 1 \in 1 .. n /\ (k + 1) - 1 = k /\ k \in 0 .. n
          /\ Done(k)
        BY <1>2
    <2>2. V2!Sound(c[k]) /\ notes[k + 1] \in Note
        BY <1>1, <1>2, <2>1 DEF Snapshots
    <2>3. c[k + 1] = K2!CreateNote(c[k], MigratedNote(notes[k + 1]), {}, now)
        BY <1>1, <2>1
    <2>4. /\ Len(c[k + 1].notes) = Len(c[k].notes) + 1
          /\ \A j \in 1 .. Len(c[k].notes) : c[k + 1].notes[j] = c[k].notes[j]
          /\ SameNote(c[k + 1].notes[Len(c[k].notes) + 1], notes[k + 1])
          /\ c[k + 1].generatedPassws = c[k].generatedPassws
        BY <2>2, <2>3, NoteMigrates
    <2>5. \A j \in 1 .. k + 1 : j \in 1 .. k \/ j = k + 1
        BY <2>1
    <2> QED BY <2>1, <2>4, <2>5
<1>5. done \in SUBSET Nat
    OBVIOUS
<1> HIDE DEF done
<1>6. done = Nat
    BY <1>3, <1>4, <1>5, V2!SetInduction
<1>7. Done(n) /\ n \in 0 .. n
    BY <1>2, <1>6 DEF done
<1> QED BY <1>1, <1>7 DEF c, n

LEMMA GensMigrate ==
    ASSUME NEW d \in Snapshots, Len(d.generatedPassws) = 0, NEW gens \in Seq(Gen)
    PROVE  LET e == GenLoop(d, gens)[Len(gens)]
           IN  /\ e \in Snapshots /\ e.notes = d.notes
               /\ Len(e.generatedPassws) = Len(gens)
               /\ \A j \in 1 .. Len(gens) :
                     e.generatedPassws[j].passw = gens[j].passw
<1> DEFINE c == GenLoop(d, gens)
           n == Len(gens)
           Done(k) ==
               /\ c[k].notes = d.notes /\ Len(c[k].generatedPassws) = k
               /\ \A j \in 1 .. k :
                     c[k].generatedPassws[j].passw = gens[j].passw
           done == {k \in Nat : k <= n => Done(k)}
<1>1. /\ c[0] = d /\ \A k \in 0 .. n : c[k] \in Snapshots
      /\ \A k \in 1 .. n :
            c[k] = K2!AppendPasswHistory(c[k - 1], <<GenEntry(gens[k])>>)
    BY GenLoopIs
<1>2. n \in Nat /\ \A k \in 1 .. n : gens[k] \in Gen
    OBVIOUS
<1> HIDE DEF c, n
<1>3. 0 \in done
    BY <1>1
<1>4. ASSUME NEW k \in done PROVE k + 1 \in done
    <2> SUFFICES ASSUME k + 1 <= n PROVE Done(k + 1)
        OBVIOUS
    <2>1. /\ k \in Nat /\ k + 1 \in 1 .. n /\ (k + 1) - 1 = k /\ k \in 0 .. n
          /\ Done(k)
        BY <1>2
    <2>2. V2!Sound(c[k]) /\ gens[k + 1] \in Gen
        BY <1>1, <1>2, <2>1 DEF Snapshots
    <2>3. c[k + 1] = K2!AppendPasswHistory(c[k], <<GenEntry(gens[k + 1])>>)
        BY <1>1, <2>1
    <2> HIDE DEF Done
    <2> DEFINE b == c[k]
               e == c[k + 1]
               g == gens[k + 1]
    <2>4. V2!Sound(b) /\ g \in Gen /\ e = K2!AppendPasswHistory(b, <<GenEntry(g)>>)
        BY <2>2, <2>3
    <2> HIDE DEF b, e, g
    <2>5. /\ e.notes = b.notes
          /\ Len(e.generatedPassws) = Len(b.generatedPassws) + 1
          /\ \A j \in 1 .. Len(b.generatedPassws) :
                e.generatedPassws[j] = b.generatedPassws[j]
          /\ e.generatedPassws[Len(b.generatedPassws) + 1].passw = g.passw
        BY <2>4, GenMigrates
    <2>6. /\ c[k + 1].notes = c[k].notes
          /\ Len(c[k + 1].generatedPassws) = Len(c[k].generatedPassws) + 1
          /\ \A j \in 1 .. Len(c[k].generatedPassws) :
                c[k + 1].generatedPassws[j] = c[k].generatedPassws[j]
          /\ c[k + 1].generatedPassws[Len(c[k].generatedPassws) + 1].passw
                = gens[k + 1].passw
        BY <2>5 DEF b, e, g
    <2>7. \A j \in 1 .. k + 1 : j \in 1 .. k \/ j = k + 1
        BY <2>1
    <2> QED BY <2>1, <2>6, <2>7 DEF Done
<1>5. done \in SUBSET Nat
    OBVIOUS
<1> HIDE DEF done
<1>6. done = Nat
    BY <1>3, <1>4, <1>5, V2!SetInduction
<1>7. Done(n) /\ n \in 0 .. n
    BY <1>2, <1>6 DEF done
<1> QED BY <1>1, <1>7 DEF c, n

\* the file of the new storage keeps all there is in a good one
LEMMA MigrationIsComplete ==
    ASSUME edits \in Nat, NEW s, s.notes \in Seq(GoodNotes), s.gens \in Seq(GoodGens)
    PROVE  Keeps(K2!FileOf(Migrated(s)), s)
<1> DEFINE d == NoteLoop(s.notes, edits)[Len(s.notes)]
           e == GenLoop(d, s.gens)[Len(s.gens)]
           new == V2!FileOf(e)
<1>1. s.notes \in Seq(Note) /\ s.gens \in Seq(Gen)
    BY DEF GoodNotes, GoodGens
<1>2. /\ d \in Snapshots /\ Len(d.notes) = Len(s.notes)
      /\ Len(d.generatedPassws) = 0
      /\ \A j \in 1 .. Len(s.notes) : SameNote(d.notes[j], s.notes[j])
    BY <1>1, NotesMigrate
<1> HIDE DEF d
<1>3. /\ e \in Snapshots /\ e.notes = d.notes
      /\ Len(e.generatedPassws) = Len(s.gens)
      /\ \A j \in 1 .. Len(s.gens) :
            e.generatedPassws[j].passw = s.gens[j].passw
    BY <1>1, <1>2, GensMigrate
<1>4. K2!FileOf(Migrated(s)) = new
    BY MigratedIs, SameOperators DEF d
<1> HIDE DEF e
<1>5. /\ e.notes \in Seq(V2!CryptedNote)
      /\ e.generatedPassws \in Seq(V2!CryptedPassword)
    BY <1>3 DEF Snapshots, V2!DataSnapshot
<1>6. /\ Len(new.notes) = Len(s.notes)
      /\ \A k \in 1 .. Len(s.notes) :
            /\ new.notes[k].info = e.notes[k].info
            /\ new.notes[k].passw = e.notes[k].passw
            /\ new.notes[k].history = V2!FlatHistory(e.notes[k].history)
    BY <1>2, <1>3, <1>5 DEF V2!FileOf
<1>7. /\ Len(new.generatedPassws) = Len(s.gens)
      /\ \A k \in 1 .. Len(s.gens) :
            new.generatedPassws[k].passw = s.gens[k].passw
    BY <1>1, <1>3, <1>5 DEF V2!FileOf, V2!FlatHistory
<1> HIDE DEF new
<1>8. ASSUME NEW k \in 1 .. Len(s.notes),
             NEW n, n = s.notes[k], NEW m, m = new.notes[k]
      PROVE  /\ m.info = n.info /\ Reads(m.passw, n.given)
             /\ Len(m.history) = n.histLen
             /\ \A i \in Reliable(n) : Reads(m.history[i].passw, n.past[i])
    <2>1. SameNote(e.notes[k], n) /\ GoodNote(n)
        BY <1>2, <1>3, <1>8 DEF GoodNotes
    <2>2. /\ n.histLen \in Nat /\ MovedEntries \in Nat
          /\ n \in Note
        BY <2>1, HistoryAssumption DEF GoodNote, Note
    <2>3. /\ Len(m.history) = n.histLen
          /\ \A i \in 1 .. n.histLen : m.history[i].passw = n.hist[i].passw
        <3> DEFINE h == e.notes[k].history
        <3>1. /\ m.history = V2!FlatHistory(h) /\ Len(h) = n.histLen
              /\ \A i \in 1 .. n.histLen : h[i].passw = n.hist[i].passw
            BY <1>6, <1>8, <2>1 DEF SameNote
        <3> HIDE DEF h
        <3>2. m.history = [i \in 1 .. n.histLen |->
                             [passw |-> h[i].passw, genTime |-> h[i].genTime]]
            BY <3>1 DEF V2!FlatHistory
        <3> QED BY <2>2, <3>1, <3>2
    <2>4. Reliable(n) \subseteq 1 .. n.histLen
        BY <2>2 DEF Reliable, Smaller
    <2>5. m.info = n.info /\ m.passw = n.passw
        BY <1>6, <1>8, <2>1 DEF SameNote
    <2> QED BY <2>1, <2>3, <2>4, <2>5 DEF GoodNote, TrueNote
<1>9. \A k \in 1 .. Len(s.gens) : Reads(new.generatedPassws[k].passw, s.gens[k].given)
    BY <1>7 DEF GoodGens, GoodGen
<1>10. DOMAIN s.notes = 1 .. Len(s.notes) /\ DOMAIN s.gens = 1 .. Len(s.gens)
    BY <1>1
<1>11. Keeps(new, s)
    BY <1>6, <1>7, <1>8, <1>9, <1>10, Zenon DEF Keeps
<1> QED BY <1>4, <1>11

-----------------------------------------------------------------------------
(* The invariant, action by action *)

LEMMA GoodFile1 ==
    ASSUME NEW notes \in Seq(GoodNotes), NEW gens \in Seq(GoodGens)
    PROVE  GoodFile(File1(notes, gens))
BY DEF GoodFile, File1, Files1

LEMMA FileWritten ==
    ASSUME IInv, NEW p \in Paths, NEW f, GoodFile(f),
           files' = [files EXCEPT ![p] = f]
    PROVE  /\ files' = [q \in Paths |-> files'[q]]
           /\ \A q \in Paths : GoodFile(files'[q])
BY DEF IInv

LEMMA SavedInv ==
    ASSUME IInv, session \in Sessions,
           NEW notes \in Seq(GoodNotes), NEW gens \in Seq(GoodGens),
           Saved(notes, gens)
    PROVE  IInv'
<1>1. edits' \in Nat
    BY DEF IInv, Saved
<1>2. session' \in Sessions
    BY DEF Saved, Sessions
<1>3. session.path \in Paths
    BY DEF Sessions
<1>4. files' = [files EXCEPT ![session.path] = File1(notes, gens)]
    BY DEF Saved
<1>5. /\ files' = [q \in Paths |-> files'[q]]
      /\ \A q \in Paths : GoodFile(files'[q])
    BY <1>3, <1>4, GoodFile1, FileWritten
<1> QED BY <1>1, <1>2, <1>5 DEF IInv

LEMMA Typed ==
    ASSUME IInv, session # Closed
    PROVE  /\ session \in Sessions /\ session.notes \in Seq(GoodNotes)
           /\ session.gens \in Seq(GoodGens)
           /\ \A k \in DOMAIN session.notes : GoodNote(session.notes[k])
<1>1. session \in Sessions
    BY DEF IInv
<1>2. session.notes \in Seq(GoodNotes) /\ session.gens \in Seq(GoodGens)
    BY <1>1 DEF Sessions
<1>3. \A k \in DOMAIN session.notes : session.notes[k] \in GoodNotes
    BY <1>2
<1> QED BY <1>1, <1>2, <1>3 DEF GoodNotes

LEMMA GoodIsMember ==
    ASSUME NEW n, GoodNote(n)
    PROVE  n \in GoodNotes
BY DEF GoodNotes, GoodNote

LEMMA InitInv == Init => IInv
<1> SUFFICES ASSUME Init PROVE IInv
    OBVIOUS
<1>1. PICK p \in Paths :
        files = [q \in Paths |-> IF q = p THEN File1(<<>>, <<>>) ELSE NoFile]
    BY DEF Init
<1>2. <<>> \in Seq(GoodNotes) /\ <<>> \in Seq(GoodGens)
    OBVIOUS
<1>3. GoodFile(File1(<<>>, <<>>)) /\ GoodFile(NoFile)
    BY <1>2, GoodFile1 DEF GoodFile
<1> QED BY <1>1, <1>3 DEF Init, IInv

LEMMA LoginInv ==
    ASSUME IInv, NEW p \in Paths, Login(p)
    PROVE  IInv'
<1>1. files[p] \in Files1
    BY DEF IInv, GoodFile, Login
<1>2. session' \in Sessions
    BY <1>1 DEF Login, Files1, Sessions
<1> QED BY <1>2 DEF IInv, Login

LEMMA CreateNoteInv ==
    ASSUME IInv, NEW info \in Infos, NEW passw \in Passws,
           CreateNote(info, passw)
    PROVE  IInv'
<1> DEFINE n == CreatedNote(info, passw, edits + 1)
<1>1. edits + 1 \in Nat /\ session # Closed
    BY DEF IInv, CreateNote
<1>2. n \in GoodNotes
    BY <1>1, CreatedNoteIsGood
<1>3. Saved(Append(session.notes, n), session.gens)
    BY DEF CreateNote
<1> HIDE DEF n
<1>4. Append(session.notes, n) \in Seq(GoodNotes)
    BY <1>1, <1>2, Typed
<1> QED BY <1>1, <1>3, <1>4, Typed, SavedInv

LEMMA EditInv ==
    ASSUME IInv, NEW k, Edit(k)
    PROVE  IInv'
<1>1. session # Closed /\ k \in DOMAIN session.notes /\ edits + 1 \in Nat
    BY DEF IInv, Edit
<1> DEFINE old == session.notes[k]
<1>2. PICK info \in Infos, passw \in Passws \cup {old.passw} :
        SetNote(k, info, passw)
    BY DEF Edit
<1> DEFINE n == [old EXCEPT !.info = info]
           m == IF passw = n.passw THEN n ELSE Replaced(n, passw, edits + 1)
           notes == [session.notes EXCEPT ![k] = m]
<1>3. GoodNote(old)
    BY <1>1, Typed
<1>4. Saved(notes, session.gens)
    BY <1>2 DEF SetNote
<1> HIDE DEF old
<1>5. /\ n \in Note /\ n.passw = old.passw /\ n.given = old.given
      /\ n.hist = old.hist /\ n.histLen = old.histLen /\ n.past = old.past
    BY <1>3 DEF GoodNote, Note
<1> HIDE DEF n
<1>6. GoodNote(n)
    BY <1>3, <1>5 DEF GoodNote, TrueNote, LongEnough, Reliable
<1>7. GoodNote(m)
    <2>1. CASE passw = n.passw
        BY <1>6, <2>1
    <2>2. CASE passw # n.passw
        <3>1. passw \in Passws
            BY <1>2, <1>5, <2>2
        <3>2. GoodNote(Replaced(n, passw, edits + 1))
            BY <1>1, <1>6, <3>1, ReplacedIsGood
        <3> QED BY <2>2, <3>2
    <2> QED BY <2>1, <2>2
<1> HIDE DEF m
<1>8. notes \in Seq(GoodNotes)
    BY <1>1, <1>7, Typed, GoodIsMember
<1> HIDE DEF notes
<1> QED BY <1>1, <1>4, <1>8, Typed, SavedInv

LEMMA RemoveNoteInv ==
    ASSUME IInv, NEW k, RemoveNote(k)
    PROVE  IInv'
<1>1. /\ session # Closed /\ k \in DOMAIN session.notes
      /\ Saved(RemoveAt(session.notes, k), session.gens)
    BY DEF RemoveNote
<1>2. session.notes \in Seq(GoodNotes) /\ k \in 1 .. Len(session.notes)
    BY <1>1, Typed
<1>3. RemoveAt(session.notes, k) \in Seq(GoodNotes)
    BY <1>2, V2!RemoveAtType DEF RemoveAt, V2!RemoveAt
<1> QED BY <1>1, <1>3, Typed, SavedInv

LEMMA GenPasswInv ==
    ASSUME IInv, NEW passw \in Passws, GenPassw(passw)
    PROVE  IInv'
<1> DEFINE g == [passw |-> Salted(passw), genTime |-> edits + 1, given |-> passw]
<1>1. /\ session # Closed /\ edits + 1 \in Nat
      /\ Saved(session.notes, Append(session.gens, g))
    BY DEF IInv, GenPassw
<1>2. Salted(passw) \in Texts /\ Reads(Salted(passw), passw)
    BY SaltedType, SaltedIs DEF Texts, Reads
<1>3. g \in GoodGens
    BY <1>1, <1>2 DEF GoodGens, GoodGen, Gen
<1> HIDE DEF g
<1>4. Append(session.gens, g) \in Seq(GoodGens)
    BY <1>1, <1>3, Typed
<1> QED BY <1>1, <1>4, Typed, SavedInv

LEMMA SaveNewPasswInv ==
    ASSUME IInv, NEW p \in Paths, SaveNewPassw(p)
    PROVE  IInv'
<1> DEFINE notes == [k \in DOMAIN session.notes |-> Copied(session.notes[k])]
           copied(g) == [g EXCEPT !.passw = Salted(@)]
           gens == [k \in DOMAIN session.gens |-> copied(session.gens[k])]
<1>1. /\ session # Closed
      /\ files' = [files EXCEPT ![p] = File1(notes, gens)]
      /\ UNCHANGED <<session, edits>>
    BY DEF SaveNewPassw
<1>2. notes \in Seq(GoodNotes)
    <2>1. \A k \in DOMAIN session.notes : Copied(session.notes[k]) \in GoodNotes
        BY <1>1, Typed, CopiedIsGood, GoodIsMember
    <2>2. /\ DOMAIN session.notes = 1 .. Len(session.notes)
          /\ Len(session.notes) \in Nat
        BY <1>1, Typed
    <2>3. notes \in [1 .. Len(session.notes) -> GoodNotes]
        BY <2>1, <2>2
    <2> HIDE DEF notes
    <2> QED BY <2>2, <2>3
<1>3. gens \in Seq(GoodGens)
    <2>1. ASSUME NEW g \in GoodGens PROVE copied(g) \in GoodGens
        <3>1. g \in Gen /\ Reads(g.passw, g.given)
            BY DEF GoodGens, GoodGen
        <3>2. g.passw \in Texts /\ g.given \in Passws
            BY <3>1 DEF Gen
        <3>3. Salted(g.passw) \in Texts /\ Reads(Salted(g.passw), g.given)
            BY <3>1, <3>2, SaltedType, SaltedReads
        <3> QED BY <3>1, <3>3 DEF GoodGens, GoodGen, Gen
    <2>2. /\ DOMAIN session.gens = 1 .. Len(session.gens)
          /\ Len(session.gens) \in Nat
          /\ \A k \in DOMAIN session.gens : session.gens[k] \in GoodGens
        BY <1>1, Typed
    <2> HIDE DEF copied
    <2>3. gens \in [1 .. Len(session.gens) -> GoodGens]
        BY <2>1, <2>2
    <2> HIDE DEF gens
    <2> QED BY <2>2, <2>3
<1> HIDE DEF notes, gens
<1>4. /\ files' = [q \in Paths |-> files'[q]]
      /\ \A q \in Paths : GoodFile(files'[q])
    BY <1>1, <1>2, <1>3, GoodFile1, FileWritten
<1> QED BY <1>1, <1>4 DEF IInv

LEMMA MigrateInv ==
    ASSUME IInv, NEW p \in Paths, Migrate(p)
    PROVE  IInv'
<1> DEFINE f == [version |-> 2, sections |-> K2!FileOf(Migrated(session)),
                 from |-> session]
<1>1. /\ session # Closed /\ files' = [files EXCEPT ![p] = f]
      /\ UNCHANGED <<session, edits>>
    BY DEF Migrate
<1>2. Keeps(K2!FileOf(Migrated(session)), session)
    BY <1>1, Typed, MigrationIsComplete DEF IInv
<1>3. GoodFile(f)
    BY <1>2 DEF GoodFile
<1> HIDE DEF f
<1>4. /\ files' = [q \in Paths |-> files'[q]]
      /\ \A q \in Paths : GoodFile(files'[q])
    BY <1>1, <1>3, FileWritten
<1> QED BY <1>1, <1>4 DEF IInv

LEMMA NextInv == IInv /\ [Next]_vars => IInv'
<1> SUFFICES ASSUME IInv, [Next]_vars PROVE IInv'
    OBVIOUS
<1>1. CASE \E p \in Paths : Login(p) \/ SaveNewPassw(p) \/ Migrate(p)
    BY <1>1, LoginInv, SaveNewPasswInv, MigrateInv
<1>2. CASE Logout
    BY <1>2 DEF IInv, Logout
<1>3. CASE \E info \in Infos, passw \in Passws : CreateNote(info, passw)
    BY <1>3, CreateNoteInv
<1>4. CASE \E k \in 1 .. NoteBound : Edit(k) \/ RemoveNote(k)
    BY <1>4, EditInv, RemoveNoteInv
<1>5. CASE \E passw \in Passws : GenPassw(passw)
    BY <1>5, GenPasswInv
<1>6. CASE UNCHANGED vars
    BY <1>6 DEF IInv, vars
<1> QED BY <1>1, <1>2, <1>3, <1>4, <1>5, <1>6 DEF Next

\* All that a session of the command line can do to storages of version 1 keeps
\* the invariant.
THEOREM Invariance == Spec => []IInv
<1> QED BY InitInv, NextInv, PTL DEF Spec

-----------------------------------------------------------------------------
(* What it is for *)

LEMMA GoodContents ==
    ASSUME IInv, NEW c \in Contents
    PROVE  /\ \A n \in Range(c.notes) : GoodNote(n)
           /\ \A g \in Range(c.gens) : GoodGen(g)
<1>1. c.notes \in Seq(GoodNotes) /\ c.gens \in Seq(GoodGens)
    <2>1. CASE \E p \in FirstVersion : c = files[p]
        <3>1. c \in Files1
            BY <2>1 DEF IInv, GoodFile, FirstVersion
        <3> QED BY <3>1 DEF Files1
    <2>2. CASE session # Closed /\ c = session
        BY <2>2, Typed
    <2> QED BY <2>1, <2>2 DEF Contents
<1> QED BY <1>1 DEF Range, GoodNotes, GoodGens

\* A password of at most 27 characters that was typed or generated comes back
\* as it was, from memory and from any file of version 1, after any number of
\* edits, logins and changes of the master password; so does a replaced one
\* while it is among the entries of the history that its shift moves whole
\* (setNote and saveNewPassw of key1.cpp).
THEOREM PasswordsComeBack == Spec => []PasswordsTrue
<1>1. IInv => PasswordsTrue
    BY GoodContents, Zenon DEF PasswordsTrue, GoodNote, TrueNote, GoodGen
<1> QED BY <1>1, Invariance, PTL

\* Only a history that was full once is shorter than the list of passwords
\* its note has had: saveNewPassw takes the length of a history modulo
\* NOTE_PASSW_HIST_LEN, and nothing else shortens one.
THEOREM HistoriesStayLong == Spec => []ShortHistoriesKept
<1>1. IInv => ShortHistoriesKept
    <2> SUFFICES ASSUME IInv, NEW c \in Contents, NEW n \in Range(c.notes),
                        n.histLen < Smaller(Len(n.past), NOTE_PASSW_HIST_LEN)
                 PROVE  Len(n.past) >= NOTE_PASSW_HIST_LEN
        BY DEF ShortHistoriesKept
    <2>1. GoodNote(n)
        BY GoodContents
    <2>2. n.histLen \in Nat /\ Len(n.past) \in Nat /\ NOTE_PASSW_HIST_LEN \in Nat
        BY <2>1, HistoryAssumption DEF GoodNote, Note
    <2>3. n.histLen < Len(n.past)
        BY <2>2 DEF Smaller
    <2> QED BY <2>1, <2>3 DEF GoodNote, LongEnough
<1> QED BY <1>1, Invariance, PTL

\* A storage that migrateK1toK2 made has every note of the old one, in order,
\* with its password and every entry of its history, and every generated
\* password.
THEOREM MigrationIsWhole == Spec => []MigrationKeepsAll
<1>1. IInv => MigrationKeepsAll
    <2> SUFFICES ASSUME IInv, NEW p \in SecondVersion
                 PROVE  Keeps(files[p].sections, files[p].from)
        BY DEF MigrationKeepsAll, Keeps
    <2>1. files[p] # NoFile /\ files[p].version = 2 /\ GoodFile(files[p])
        BY DEF SecondVersion, IInv
    <2>2. files[p] \notin Files1
        BY <2>1 DEF Files1
    <2> QED BY <2>1, <2>2 DEF GoodFile
<1> QED BY <1>1, Invariance, PTL
=============================================================================
