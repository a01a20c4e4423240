------------------------- MODULE StorageSave_proofs -------------------------
(***************************************************************************)
(* A save that starts from a whole file never leaves both files broken,    *)
(* whatever the documents, the errors and the deaths, as long as no other  *)
(* storage is saved at the same time: keyError would then report the other *)
(* save's success for this one's failure.  Under the same condition a file *)
(* that is not whole has its copy next to it, and an object the app opens  *)
(* holds a document some save could have written.                          *)
(***************************************************************************)
EXTENDS StorageSave, SequenceTheorems, WellFoundedInduction, TLAPS

-----------------------------------------------------------------------------
(* The file of a document *)

\* the sections of a document
SectionSet ==
    {Header} \cup {Section("ColorGroup", x) : x \in Seq(Items)}
    \cup {Section("NoteEntry", x) : x \in Items}
    \cup {Section("GenPasswHistory", x) : x \in Seq(Items)}
    \cup {Section("OtpNote", x) : x \in Seq(Items)}

\* what save() writes, section by section
LEMMA SectionsAre ==
    ASSUME NEW d \in Documents
    PROVE  LET s == Sections(d)
               n == Len(d.notes)
           IN  /\ s \in Seq(SectionSet) /\ n \in Nat /\ Len(s) = n + 4
               /\ s[1] = Header /\ s[2] = Section("ColorGroup", d.colorGroups)
               /\ \A k \in 1 .. n : s[k + 2] = Section("NoteEntry", d.notes[k])
               /\ s[n + 3] = Section("GenPasswHistory", d.generatedPassws)
               /\ s[n + 4] = Section("OtpNote", d.otpNotes)
<1> DEFINE notes == [k \in DOMAIN d.notes |-> Section("NoteEntry", d.notes[k])]
           first == <<Header, Section("ColorGroup", d.colorGroups)>>
           last == <<Section("GenPasswHistory", d.generatedPassws),
                     Section("OtpNote", d.otpNotes)>>
           S == SectionSet
           n == Len(d.notes)
<1>1. /\ d.notes \in Seq(Items) /\ d.colorGroups \in Seq(Items)
      /\ d.generatedPassws \in Seq(Items) /\ d.otpNotes \in Seq(Items)
    BY DocumentsAssumption
<1>2. /\ Header \in S
      /\ Section("ColorGroup", d.colorGroups) \in S
      /\ Section("GenPasswHistory", d.generatedPassws) \in S
      /\ Section("OtpNote", d.otpNotes) \in S
      /\ \A x \in Items : Section("NoteEntry", x) \in S
    BY <1>1 DEF SectionSet
<1> HIDE DEF S
<1>3. /\ notes \in Seq(S) /\ Len(notes) = n /\ n \in Nat
      /\ \A k \in 1 .. n : notes[k] = Section("NoteEntry", d.notes[k])
    BY <1>1, <1>2
<1>4. /\ first \in Seq(S) /\ last \in Seq(S) /\ Len(first) = 2 /\ Len(last) = 2
      /\ first[1] = Header /\ first[2] = Section("ColorGroup", d.colorGroups)
      /\ last[1] = Section("GenPasswHistory", d.generatedPassws)
      /\ last[2] = Section("OtpNote", d.otpNotes)
    BY <1>2
<1>5. Sections(d) = first \o notes \o last
    BY DEF Sections
<1> HIDE DEF first, notes, last, n
<1> DEFINE begin == first \o notes
<1>6. /\ begin \in Seq(S) /\ Len(begin) = n + 2
      /\ begin[1] = first[1] /\ begin[2] = first[2]
      /\ \A k \in 1 .. n : begin[k + 2] = notes[k]
    <2>4. /\ begin \in Seq(S) /\ Len(begin) = Len(first) + Len(notes)
          /\ \A i \in 1 .. Len(first) + Len(notes) :
                begin[i] = IF i <= Len(first) THEN first[i]
                           ELSE notes[i - Len(first)]
        BY <1>3, <1>4, ConcatProperties, Zenon
    <2> HIDE DEF begin
    <2>1. /\ begin \in Seq(S) /\ Len(begin) = 2 + n
          /\ \A i \in 1 .. 2 + n :
                begin[i] = IF i <= 2 THEN first[i] ELSE notes[i - 2]
        BY <1>3, <1>4, <2>4
    <2>2. 1 \in 1 .. 2 + n /\ 2 \in 1 .. 2 + n /\ 2 + n = n + 2
        BY <1>3
    <2>3. ASSUME NEW k \in 1 .. n
          PROVE  begin[k + 2] = notes[k]
        <3>1. k + 2 \in 1 .. 2 + n /\ ~ (k + 2 <= 2) /\ (k + 2) - 2 = k
            BY <1>3
        <3>2. begin[k + 2] = notes[(k + 2) - 2]
            BY <2>1, <3>1
        <3> QED BY <3>1, <3>2
    <2> QED BY <2>1, <2>2, <2>3
<1>7. Sections(d) = begin \o last
    BY <1>5
<1> HIDE DEF begin
<1> DEFINE all == begin \o last
<1>8. /\ all \in Seq(S) /\ Len(all) = n + 4
      /\ \A k \in 1 .. n + 2 : all[k] = begin[k]
      /\ all[n + 3] = last[1] /\ all[n + 4] = last[2]
    BY <1>3, <1>4, <1>6, ConcatProperties
<1>9. all = Sections(d)
    BY <1>7
<1> HIDE DEF all
<1>10. 1 \in 1 .. n + 2 /\ 2 \in 1 .. n + 2 /\ \A k \in 1 .. n : k + 2 \in 1 .. n + 2
    BY <1>3
<1> QED BY <1>3, <1>4, <1>6, <1>8, <1>9, <1>10 DEF n, S

LEMMA SectionsType ==
    ASSUME NEW d \in Documents
    PROVE  Sections(d) \in Seq(SectionSet) /\ Len(Sections(d)) # 0
<1> DEFINE s == Sections(d)
           n == Len(d.notes)
<1>1. s \in Seq(SectionSet) /\ n \in Nat /\ Len(s) = n + 4
    BY SectionsAre
<1> HIDE DEF s, n
<1> QED BY <1>1 DEF s

LEMMA FileExists ==
    ASSUME NEW sections \in Seq(SectionSet), NEW torn \in BOOLEAN
    PROVE  File(sections, torn) # NoFile
<1> DEFINE R == [kind : SectionKinds, content : Items \cup Seq(Items)]
<1>1. SectionSet \subseteq R
    <2>1. ASSUME NEW kind \in SectionKinds, NEW x \in Items \cup Seq(Items)
          PROVE  Section(kind, x) \in R
        BY DEF Section
    <2>2. <<>> \in Items \cup Seq(Items)
        OBVIOUS
    <2>3. SectionSet \subseteq
            {Section(kind, x) : kind \in SectionKinds, x \in Items \cup Seq(Items)}
        <3> SUFFICES ASSUME NEW y \in SectionSet
                     PROVE  \E kind \in SectionKinds, x \in Items \cup Seq(Items) :
                                y = Section(kind, x)
            OBVIOUS
        <3>1. \/ y = Header
              \/ \E x \in Seq(Items) : \/ y = Section("ColorGroup", x)
                                     \/ y = Section("GenPasswHistory", x)
                                     \/ y = Section("OtpNote", x)
              \/ \E x \in Items : y = Section("NoteEntry", x)
            BY DEF SectionSet
        <3> QED BY <2>2, <3>1 DEF SectionKinds, Header
    <2> HIDE DEF R
    <2> QED BY <2>1, <2>3
<1> HIDE DEF R
<1>2. sections \in Seq(R)
    BY <1>1
<1>3. File(sections, torn) \in Files
    BY <1>2 DEF File, Files, R
<1> QED BY <1>3, NoFileAssumption

\* a whole file has a header, so no login creates it anew
LEMMA WholeHasHeader ==
    ASSUME NEW d \in Documents, NEW f, Whole(f, d)
    PROVE  HasHeader(f)
<1>1. CASE Holds(f, d)
    <2>1. Sections(d) \in Seq(SectionSet) /\ Sections(d) # <<>>
        BY SectionsType
    <2> QED BY <1>1, <2>1, FileExists DEF HasHeader, Holds, File
<1>2. CASE f = File(<<Header>>, FALSE)
    <2>1. <<Header>> \in Seq(SectionSet)
        BY DEF SectionSet
    <2> QED BY <1>2, <2>1, FileExists DEF HasHeader, File
<1> QED BY <1>1, <1>2 DEF Whole

-----------------------------------------------------------------------------
(* A whole file is always there *)

\* while a file is written the other one is whole, and no error is reported
\* only for a file that is
IInv ==
    /\ saving \in {"none", "temp", "tempWritten", "main", "mainWritten"}
    /\ target \in Documents
    /\ before \in Documents \cup {NoDocument}
    /\ saving # "none" => object = target
    /\ saving \in {"temp", "tempWritten"} /\ before # NoDocument =>
          Whole(main, before)
    /\ saving = "tempWritten" /\ keyError = "ok" => Holds(temp, target)
    /\ saving \in {"main", "mainWritten"} => Holds(temp, target)
    /\ saving = "mainWritten" /\ keyError = "ok" => Holds(main, target)
    /\ SaveKeepsACopy

LEMMA InitIInv == Init => IInv
    BY EmptyDocumentAssumption DEF Init, IInv, SaveKeepsACopy

LEMMA NextIInv == "ok" \notin OthersSet /\ IInv /\ [Next]_vars => IInv'
<1> SUFFICES ASSUME "ok" \notin OthersSet, IInv, [Next]_vars
             PROVE  IInv'
    OBVIOUS
<1> USE DEF IInv
<1>1. CASE CreateAndLogin
    <2>1. ~ HasHeader(main)
        BY <1>1 DEF CreateAndLogin
    <2>2. \A d \in Documents : ~ Whole(main, d)
        BY <2>1, WholeHasHeader
    <2> QED BY <1>1, <2>2 DEF CreateAndLogin, SaveKeepsACopy
<1>2. CASE Login
    BY <1>2 DEF Login, SaveKeepsACopy
<1>3. CASE Unlogin
    BY <1>3 DEF Unlogin, SaveKeepsACopy
<1>4. ASSUME NEW d \in Documents, Edit(d)
      PROVE  IInv'
    <2>1. before' \in Documents \cup {NoDocument}
        BY <1>4 DEF Edit
    <2>2. before' # NoDocument => Whole(main, before')
        BY <1>4 DEF Edit
    <2> QED BY <1>4, <2>1, <2>2 DEF Edit, SaveKeepsACopy
<1>5. CASE WriteTemp \/ CloseTemp
    BY <1>5 DEF WriteTemp, CloseTemp, SaveKeepsACopy
<1>6. CASE OpenMain
    BY <1>6 DEF OpenMain, SaveKeepsACopy, Whole
<1>7. CASE WriteMain \/ CloseMain
    BY <1>7 DEF WriteMain, CloseMain, SaveKeepsACopy, Whole
<1>8. CASE RemoveTemp
    BY <1>8 DEF RemoveTemp, SaveKeepsACopy, Whole
<1>11. CASE OtherCall
    BY <1>11, OthersSetAssumption DEF OtherCall, SaveKeepsACopy
<1>12. CASE HandOver \/ LoginByDescriptor
    BY <1>12 DEF HandOver, LoginByDescriptor, SaveKeepsACopy
<1>13. ASSUME NEW d \in Documents, SaveInPlace(d)
       PROVE  IInv'
    BY <1>13 DEF SaveInPlace, SaveKeepsACopy
<1>9. CASE Die
    <2>1. saving # "main" => main' = main
        BY <1>9 DEF Die, Cut
    <2>2. saving # "temp" => temp' = temp
        BY <1>9 DEF Die, Cut
    <2>3. saving' = "none" /\ target' = target /\ before' = before
        BY <1>9 DEF Die
    <2>4. CASE saving = "none"
        BY <2>1, <2>2, <2>3, <2>4 DEF SaveKeepsACopy
    <2>5. CASE saving \in {"temp", "tempWritten"}
        BY <2>1, <2>3, <2>5 DEF SaveKeepsACopy
    <2>6. CASE saving \in {"main", "mainWritten"}
        BY <2>2, <2>3, <2>6 DEF SaveKeepsACopy, Whole
    <2> QED BY <2>4, <2>5, <2>6
<1>10. CASE UNCHANGED vars
    BY <1>10 DEF vars, SaveKeepsACopy
<1> QED BY <1>1, <1>2, <1>3, <1>4, <1>5, <1>6, <1>7, <1>8, <1>9, <1>10,
       <1>11, <1>12, <1>13
        DEF Next, UseNullLists

\* A save that starts from a whole file leaves the old document or the new
\* one whole in one of the two files, wherever save() is stopped.
THEOREM SaveIsSafe == "ok" \notin OthersSet => (Spec => []SaveKeepsACopy)
<1> SUFFICES ASSUME "ok" \notin OthersSet PROVE Spec => []SaveKeepsACopy
    OBVIOUS
<1>1. IInv => SaveKeepsACopy
    BY DEF IInv
<1>2. IInv /\ [Next]_vars => IInv'
    BY NextIInv
<1> QED BY <1>1, <1>2, InitIInv, PTL DEF Spec

-----------------------------------------------------------------------------

\* the file save() is writing, after k sections
Written(d, k) == File(SubSeq(Sections(d), 1, k), FALSE)

LEMMA OneMoreSection ==
    ASSUME NEW S, NEW s \in Seq(S), NEW k \in 0 .. Len(s), k # Len(s)
    PROVE  Append(SubSeq(s, 1, k), s[Len(SubSeq(s, 1, k)) + 1])
               = SubSeq(s, 1, k + 1)
<1>1. Len(SubSeq(s, 1, k)) = k
    OBVIOUS
<1>2. Append(SubSeq(s, 1, k), s[k + 1]) = SubSeq(s, 1, k + 1)
    OBVIOUS
<1> QED BY <1>1, <1>2

LEMMA WrittenBegins ==
    ASSUME NEW d \in Documents, NEW f, NEW k \in 0 .. Len(Sections(d)),
           f = Written(d, k)
    PROVE  /\ f # NoFile /\ File(f.sections, TRUE) # NoFile
           /\ ~ Holds(f, d) => k # Len(Sections(d))
<1> DEFINE s == Sections(d)
<1>1. s \in Seq(SectionSet)
    BY SectionsType
<1>2. f.sections = SubSeq(s, 1, k)
    BY DEF Written, File
<1>3. SubSeq(s, 1, k) \in Seq(SectionSet)
    <2> HIDE DEF s
    <2> QED BY <1>1 DEF s
<1>4. f # NoFile /\ File(f.sections, TRUE) # NoFile
    BY <1>2, <1>3, FileExists DEF Written
<1> HIDE DEF s
<1>6. SubSeq(s, 1, Len(s)) = s
    BY <1>1
<1>7. k = Len(s) => Holds(f, d)
    BY <1>6 DEF Holds, Written, s
<1> QED BY <1>4, <1>7 DEF s

\* While the copy is written, or kept, there is a copy.
CInv ==
    /\ saving = "temp" =>
          \E k \in 0 .. Len(Sections(target)) : temp = Written(target, k)
    /\ saving # "none" => temp # NoFile
    /\ NoCopyMeansWhole

LEMMA InitCInv == Init => CInv
    BY DEF Init, CInv, NoCopyMeansWhole, HasHeader

\* What WriteTemp leaves in the copy, which it has begun.
LEMMA WriteTempCInv ==
    ASSUME IInv, CInv, WriteTemp
    PROVE  /\ saving' = "temp" =>
                \E k \in 0 .. Len(Sections(target')) : temp' = Written(target', k)
           /\ temp' # NoFile
<1>1. /\ saving = "temp" /\ object = target /\ target \in Documents
      /\ ~ Holds(temp, target) /\ target' = target
    BY DEF WriteTemp, IInv
<1> DEFINE s == Sections(target)
<1>2. PICK k \in 0 .. Len(s) : temp = Written(target, k)
    BY <1>1 DEF CInv
<1>3. k # Len(s) /\ temp # NoFile /\ File(temp.sections, TRUE) # NoFile
    BY <1>1, <1>2, WrittenBegins
<1>4. s \in Seq(SectionSet)
    BY <1>1, SectionsType
<1>5. temp.sections = SubSeq(s, 1, k)
    BY <1>2 DEF Written, File
<1>6. Longer(temp) = Written(target, k + 1)
    <2>1. Append(temp.sections, s[Len(temp.sections) + 1])
            = SubSeq(s, 1, k + 1)
        <3> HIDE DEF s
        <3> QED BY <1>3, <1>4, <1>5, OneMoreSection
    <2> QED BY <1>1, <2>1 DEF Longer, Written
<1>7. k + 1 \in 0 .. Len(s)
    <2> HIDE DEF s
    <2> QED BY <1>3, <1>4
<1>8. CASE temp' = Longer(temp)
    <2>1. temp' = Written(target, k + 1)
        BY <1>6, <1>8
    <2>2. temp' # NoFile
        BY <1>1, <1>7, <2>1, WrittenBegins
    <2> QED BY <1>1, <1>7, <2>1, <2>2
<1>9. CASE temp' \in {temp, File(temp.sections, TRUE)} /\ saving' = "tempWritten"
    BY <1>3, <1>9
<1> QED BY <1>8, <1>9 DEF WriteTemp

\* A save in place that comes to its end and has not less to write than the
\* file held leaves the whole document.
LEMMA InPlaceWhole ==
    ASSUME NEW d \in Documents, SaveInPlace(d), ~ spoiled'
    PROVE  Holds(main', d)
<1> DEFINE s == Sections(d)
<1>1. PICK k \in 0 .. Len(s) :
        /\ main' \in WrittenOver(main, d, k)
        /\ spoiled' = (k < Len(s) \/ Tails(main, d) # {FALSE})
    BY Zenon DEF SaveInPlace
<1>2. s \in Seq(SectionSet)
    BY SectionsType
<1>3. k = Len(s) /\ Tails(main, d) = {FALSE}
    <2>1. ~ (k < Len(s)) /\ Tails(main, d) = {FALSE}
        BY <1>1, Zenon
    <2> HIDE DEF s
    <2> QED BY <1>2, <2>1
<1>4. SubSeq(s, 1, k) = s
    <2> HIDE DEF s
    <2> QED BY <1>2, <1>3
<1>5. WrittenOver(main, d, k) = {File(s, tail) : tail \in {FALSE}}
    BY <1>3, <1>4, Zenon DEF WrittenOver
<1> QED BY <1>1, <1>5, Zenon DEF Holds

LEMMA NextCInv == IInv /\ CInv /\ [Next]_vars => CInv'
<1> SUFFICES ASSUME IInv, CInv, [Next]_vars PROVE CInv'
    OBVIOUS
<1>1. CASE CreateAndLogin
    <2>1. saving = "none" /\ saving' = "none" /\ temp' = temp
        BY <1>1 DEF CreateAndLogin
    <2>2. CASE main' = File(<<Header>>, FALSE)
        BY <2>1, <2>2, EmptyDocumentAssumption DEF CInv, NoCopyMeansWhole, Whole
    <2>3. CASE main' \in {Opened, File(<<>>, TRUE), main}
        <3>1. ~ HasHeader(main')
            BY <1>1, <2>3 DEF CreateAndLogin, HasHeader, Opened, File
        <3> QED BY <2>1, <3>1 DEF CInv, NoCopyMeansWhole
    <2> QED BY <1>1, <2>2, <2>3 DEF CreateAndLogin
<1>2. CASE Login \/ Unlogin \/ HandOver \/ LoginByDescriptor
    BY <1>2 DEF Login, Unlogin, HandOver, LoginByDescriptor, CInv,
                NoCopyMeansWhole, HasHeader
<1>3. ASSUME NEW d \in Documents, Edit(d)
      PROVE  CInv'
    <2>1. CASE temp' = Opened /\ saving' = "temp"
        <3>1. target' = d
            BY <1>3 DEF Edit
        <3>2. Sections(d) \in Seq(SectionSet)
            BY SectionsType
        <3>3. SubSeq(Sections(d), 1, 0) = <<>>
            BY <3>2
        <3>4. temp' = Written(d, 0)
            BY <2>1, <3>3, Zenon DEF Opened, Written
        <3>5. 0 \in 0 .. Len(Sections(d))
            BY <3>2
        <3>6. temp' # NoFile
            BY <3>4, <3>5, WrittenBegins
        <3> QED BY <2>1, <3>1, <3>4, <3>5, <3>6 DEF CInv, NoCopyMeansWhole
    <2>2. CASE UNCHANGED temp /\ saving' = "none"
        BY <1>3, <2>2 DEF Edit, CInv, NoCopyMeansWhole, HasHeader
    <2> QED BY <1>3, <2>1, <2>2 DEF Edit
<1>4. CASE WriteTemp
    <2>1. saving' # "none" /\ temp' # NoFile
        BY <1>4, WriteTempCInv DEF WriteTemp
    <2> QED BY <1>4, <2>1, WriteTempCInv DEF CInv, NoCopyMeansWhole
<1>5. CASE CloseTemp \/ WriteMain \/ CloseMain \/ OtherCall
    BY <1>5 DEF CloseTemp, WriteMain, CloseMain, OtherCall, CInv,
                NoCopyMeansWhole
<1>6. CASE OpenMain
    BY <1>6 DEF OpenMain, CInv, NoCopyMeansWhole
<1>7. CASE RemoveTemp
    <2>1. keyError = "ok" => Holds(main, target) /\ target \in Documents
        BY <1>7 DEF RemoveTemp, IInv
    <2> QED BY <1>7, <2>1 DEF RemoveTemp, CInv, NoCopyMeansWhole, Whole
<1>8. CASE Die
    <2>1. CASE saving = "temp"
        <3>1. PICK k \in 0 .. Len(Sections(target)) : temp = Written(target, k)
            BY <2>1 DEF CInv
        <3>2. temp # NoFile /\ File(temp.sections, TRUE) # NoFile
            BY <2>1, <3>1, WrittenBegins DEF IInv
        <3>3. temp' # NoFile
            BY <1>8, <3>2 DEF Die, Cut
        <3> QED BY <1>8, <3>3 DEF Die, CInv, NoCopyMeansWhole
    <2>2. CASE saving \notin {"temp", "none"}
        <3>1. temp' = temp
            BY <1>8, <2>2 DEF Die, Cut
        <3> QED BY <1>8, <2>2, <3>1 DEF Die, CInv, NoCopyMeansWhole
    <2>3. CASE saving = "none"
        <3>1. temp' = temp /\ main' = main
            BY <1>8, <2>3 DEF Die, Cut
        <3> QED BY <1>8, <2>3, <3>1 DEF Die, CInv, NoCopyMeansWhole, HasHeader
    <2> QED BY <2>1, <2>2, <2>3
<1>9. ASSUME NEW d \in Documents, SaveInPlace(d)
      PROVE  CInv'
    <2>1. saving = "none" /\ saving' = "none" /\ temp' = temp
        BY <1>9 DEF SaveInPlace
    <2>2. ~ spoiled' => Holds(main', d)
        BY <1>9, InPlaceWhole
    <2> QED BY <2>1, <2>2 DEF CInv, NoCopyMeansWhole, Whole
<1>10. CASE UNCHANGED vars
    BY <1>10 DEF vars, CInv, NoCopyMeansWhole, HasHeader
<1> QED BY <1>1, <1>2, <1>3, <1>4, <1>5, <1>6, <1>7, <1>8, <1>9, <1>10
        DEF Next, UseNullLists

\* A storage file that is not whole has its copy next to it, unless it was
\* last written in place.
THEOREM CopyOrWhole == "ok" \notin OthersSet => (Spec => []NoCopyMeansWhole)
<1> SUFFICES ASSUME "ok" \notin OthersSet PROVE Spec => []NoCopyMeansWhole
    OBVIOUS
<1>1. IInv /\ [Next]_vars => IInv'
    BY NextIInv
<1>2. CInv => NoCopyMeansWhole
    BY DEF CInv
<1> QED BY <1>1, <1>2, InitIInv, InitCInv, NextCInv, PTL DEF Spec

-----------------------------------------------------------------------------
(* What readAll makes of the file of a document *)

LEMMA SetInduction ==
    ASSUME NEW S \in SUBSET Nat, 0 \in S, \A n \in S : n + 1 \in S
    PROVE  S = Nat
<1> DEFINE rest == Nat \ S
<1> SUFFICES ASSUME rest # {}
             PROVE  FALSE
    OBVIOUS
<1>1. rest \subseteq Nat
    OBVIOUS
<1> HIDE DEF rest
<1>2. PICK m \in rest : \A y \in rest : ~ (<<y, m>> \in OpToRel(<, Nat))
    BY <1>1, NatLessThanWellFounded, WFMin
<1>3. m \in Nat /\ m \notin S /\ m # 0
    BY DEF rest
<1>4. m - 1 \in Nat /\ m - 1 < m
    BY <1>3
<1>5. <<m - 1, m>> \in OpToRel(<, Nat)
    BY <1>3, <1>4 DEF OpToRel
<1>6. m - 1 \in S
    BY <1>2, <1>4, <1>5 DEF rest
<1>7. (m - 1) + 1 \in S
    BY <1>6
<1> QED BY <1>3, <1>7

\* g has the choice of every beginning of s
Chooses(g, s, kind, n) ==
    /\ g = [k \in 0 .. n |-> g[k]]
    /\ g[0] = <<>>
    /\ \A k \in 1 .. n : g[k] = IF s[k].kind = kind
                             THEN Append(g[k - 1], s[k].content)
                             ELSE g[k - 1]

LEMMA ChosenIs ==
    ASSUME NEW s, NEW kind, NEW n \in Nat, Len(s) = n, NEW g,
           Chooses(g, s, kind, n)
    PROVE  Chosen(s, kind) = g[n]
<1> USE DEF Chooses
<1> DEFINE body(f) == [k \in 0 .. n |->
                          IF k = 0 THEN <<>>
                          ELSE IF s[k].kind = kind
                          THEN Append(f[k - 1], s[k].content)
                          ELSE f[k - 1]]
           chosen == CHOOSE f : f = body(f)
<1>1. Chosen(s, kind) = chosen[n]
    BY Zenon DEF Chosen
<1>2. g = body(g)
    <2>1. ASSUME NEW k \in 0 .. n
          PROVE  g[k] = body(g)[k]
        <3>1. k = 0 \/ (k # 0 /\ k \in 1 .. n)
            OBVIOUS
        <3> QED BY <3>1
    <2>2. body(g) = [k \in 0 .. n |-> body(g)[k]]
        OBVIOUS
    <2> HIDE DEF body
    <2> QED BY <2>1, <2>2
<1>3. chosen = body(chosen)
    <2> HIDE DEF body
    <2> QED BY <1>2
<1> HIDE DEF chosen
<1>4. \A k \in 0 .. n : chosen[k] = body(chosen)[k]
    <2> HIDE DEF body
    <2> QED BY <1>3
<1> DEFINE same == {k \in Nat : k <= n => chosen[k] = g[k]}
<1>5. 0 \in same
    BY <1>4
<1>6. ASSUME NEW k \in same
      PROVE  k + 1 \in same
    <2> SUFFICES ASSUME k + 1 <= n PROVE chosen[k + 1] = g[k + 1]
        OBVIOUS
    <2>1. /\ k + 1 \in 0 .. n /\ k + 1 \in 1 .. n /\ (k + 1) - 1 = k
          /\ k + 1 # 0 /\ chosen[k] = g[k]
        OBVIOUS
    <2>2. chosen[k + 1] = IF s[k + 1].kind = kind
                          THEN Append(chosen[k], s[k + 1].content)
                          ELSE chosen[k]
        BY <1>4, <2>1
    <2> QED BY <2>1, <2>2
<1>7. same \in SUBSET Nat
    OBVIOUS
<1>8. n \in same
    <2> HIDE DEF same
    <2> QED BY <1>5, <1>6, <1>7, SetInduction
<1> QED BY <1>1, <1>8

LEMMA SectionsKinds ==
    ASSUME NEW d \in Documents
    PROVE  LET s == Sections(d)
               n == Len(d.notes)
           IN  /\ n \in Nat /\ Len(s) = n + 4
               /\ s[1].kind = "Header" /\ s[2].kind = "ColorGroup"
               /\ \A k \in 1 .. n : /\ s[k + 2].kind = "NoteEntry"
                                    /\ s[k + 2].content = d.notes[k]
               /\ s[n + 3].kind = "GenPasswHistory"
               /\ s[n + 4].kind = "OtpNote"
               /\ s[2].content = d.colorGroups
               /\ s[n + 3].content = d.generatedPassws
               /\ s[n + 4].content = d.otpNotes
<1> DEFINE s == Sections(d)
           n == Len(d.notes)
<1>1. /\ n \in Nat /\ Len(s) = n + 4
      /\ s[1] = Header /\ s[2] = Section("ColorGroup", d.colorGroups)
      /\ \A k \in 1 .. n : s[k + 2] = Section("NoteEntry", d.notes[k])
      /\ s[n + 3] = Section("GenPasswHistory", d.generatedPassws)
      /\ s[n + 4] = Section("OtpNote", d.otpNotes)
    BY SectionsAre, Zenon
<1>2. \A kind, x : Section(kind, x).kind = kind /\ Section(kind, x).content = x
    BY DEF Section
<1>3. Header.kind = "Header"
    BY DEF Header, Section
<1> HIDE DEF s, n
<1>4. QED
    <2>1. \A k \in 1 .. n : /\ s[k + 2].kind = "NoteEntry"
                            /\ s[k + 2].content = d.notes[k]
        BY <1>1, <1>2
    <2>2. /\ s[1].kind = "Header" /\ s[2].kind = "ColorGroup"
          /\ s[n + 3].kind = "GenPasswHistory"
          /\ s[n + 4].kind = "OtpNote"
          /\ s[2].content = d.colorGroups
          /\ s[n + 3].content = d.generatedPassws
          /\ s[n + 4].content = d.otpNotes
        BY <1>1, <1>2, <1>3
    <2> QED BY <1>1, <2>1, <2>2 DEF s, n

\* a section of its own, after k sections
LEMMA ContentIs ==
    ASSUME NEW s, NEW kind, NEW n \in Nat, Len(s) = n, NEW i \in 1 .. n,
           s[i].kind = kind, \A k \in 1 .. n : s[k].kind = kind => k = i
    PROVE  Content(s, kind) = s[i].content
<1> DEFINE x == s[i].content
           g == [k \in 0 .. n |-> IF k < i THEN <<>> ELSE <<x>>]
<1>1. g[0] = <<>> /\ g[n] = <<x>> /\ g = [k \in 0 .. n |-> g[k]]
    OBVIOUS
<1>2. ASSUME NEW k \in 1 .. n
      PROVE  g[k] = IF s[k].kind = kind
                    THEN Append(g[k - 1], s[k].content) ELSE g[k - 1]
    <2>1. g[k] = (IF k < i THEN <<>> ELSE <<x>>)
          /\ g[k - 1] = IF k - 1 < i THEN <<>> ELSE <<x>>
        OBVIOUS
    <2> HIDE DEF g, x
    <2>2. CASE k = i
        <3>1. g[k] = <<x>> /\ g[k - 1] = <<>>
            BY <2>1, <2>2
        <3> QED BY <2>2, <3>1 DEF x
    <2>3. CASE k # i
        <3>1. s[k].kind # kind
            BY <2>3
        <3> QED BY <2>1, <2>3, <3>1
    <2> QED BY <2>2, <2>3
<1> HIDE DEF g
<1>3. Chooses(g, s, kind, n)
    BY <1>1, <1>2, Zenon DEF Chooses
<1>5. Chosen(s, kind) = g[n]
    BY <1>3, ChosenIs, Zenon
<1>4. Chosen(s, kind) = <<x>>
    BY <1>1, <1>5
<1> QED BY <1>4 DEF Content

LEMMA NotesAre ==
    ASSUME NEW d \in Documents
    PROVE  Chosen(Sections(d), "NoteEntry") = d.notes
<1> DEFINE s == Sections(d)
           n == Len(d.notes)
           g == [k \in 0 .. n + 4 |->
                    IF k < 2 THEN <<>>
                    ELSE IF k <= n + 2 THEN SubSeq(d.notes, 1, k - 2)
                    ELSE d.notes]
<1>1. /\ n \in Nat /\ Len(s) = n + 4
      /\ s[1].kind = "Header" /\ s[2].kind = "ColorGroup"
      /\ \A k \in 1 .. n : /\ s[k + 2].kind = "NoteEntry"
                           /\ s[k + 2].content = d.notes[k]
      /\ s[n + 3].kind = "GenPasswHistory"
      /\ s[n + 4].kind = "OtpNote"
    BY SectionsKinds
<1>2. d.notes \in Seq(Items)
    BY DocumentsAssumption
<1> HIDE DEF s
<1>3. g[0] = <<>> /\ g = [k \in 0 .. n + 4 |-> g[k]] /\ g[n + 4] = d.notes
    BY <1>1
<1>4. ASSUME NEW k \in 1 .. n + 4
      PROVE  g[k] = IF s[k].kind = "NoteEntry"
                    THEN Append(g[k - 1], s[k].content) ELSE g[k - 1]
    <2>0. /\ SubSeq(d.notes, 1, 0) = <<>> /\ SubSeq(d.notes, 1, n) = d.notes
        BY <1>1, <1>2
    <2>1. CASE k = 1
        BY <1>1, <2>1
    <2>2. CASE k = 2
        <3>1. g[1] = <<>>
            BY <1>1
        <3>2. g[2] = SubSeq(d.notes, 1, 0)
            BY <1>1
        <3>3. k - 1 = 1 /\ s[k].kind # "NoteEntry"
            BY <1>1, <2>2
        <3> QED BY <2>0, <2>2, <3>1, <3>2, <3>3
    <2>3. CASE k \in 3 .. n + 2
        <3>1. PICK i \in 1 .. n : k = i + 2
            <4>1. k - 2 \in 1 .. n /\ k = (k - 2) + 2
                BY <1>1, <2>3
            <4> QED BY <4>1
        <3>2. g[k] = SubSeq(d.notes, 1, i)
            BY <1>1, <3>1
        <3>3. g[k - 1] = SubSeq(d.notes, 1, i - 1)
            BY <1>1, <2>0, <3>1
        <3>4. SubSeq(d.notes, 1, i) = Append(SubSeq(d.notes, 1, i - 1), d.notes[i])
            BY <1>1, <1>2, <3>1
        <3>5. s[k].kind = "NoteEntry" /\ s[k].content = d.notes[i]
            BY <1>1, <3>1
        <3> QED BY <3>2, <3>3, <3>4, <3>5
    <2>4. CASE k \in {n + 3, n + 4}
        <3>1. g[k] = d.notes
            BY <1>1, <2>4
        <3>2. g[k - 1] = d.notes
            <4>1. CASE k = n + 4
                <5>1. k - 1 = n + 3 /\ n + 3 \in 0 .. n + 4
                    BY <1>1, <4>1
                <5> QED BY <1>1, <5>1
            <4>2. CASE k = n + 3
                <5>1. k - 1 = n + 2 /\ n + 2 \in 0 .. n + 4 /\ ~ (n + 2 < 2)
                      /\ (n + 2) - 2 = n
                    BY <1>1, <4>2
                <5>2. g[n + 2] = SubSeq(d.notes, 1, n)
                    BY <1>1, <5>1
                <5> QED BY <2>0, <5>1, <5>2
            <4> QED BY <2>4, <4>1, <4>2
        <3>3. s[k].kind # "NoteEntry"
            BY <1>1, <2>4
        <3> QED BY <3>1, <3>2, <3>3
    <2> QED BY <1>1, <2>1, <2>2, <2>3, <2>4
<1> HIDE DEF g, n
<1>5. n + 4 \in Nat /\ Len(s) = n + 4
    BY <1>1
<1>7. Chooses(g, s, "NoteEntry", n + 4)
    BY <1>3, <1>4, Zenon DEF Chooses
<1>6. Chosen(s, "NoteEntry") = g[n + 4]
    BY <1>5, <1>7, ChosenIs
<1> QED BY <1>3, <1>6 DEF s

\* readAll finds in the file of a document that document.
LEMMA ReadBack ==
    ASSUME NEW d \in Documents, NEW f, Whole(f, d)
    PROVE  ReadAll(f) = d
<1>1. CASE Holds(f, d)
    <2> DEFINE s == Sections(d)
               n == Len(d.notes)
    <2>1. ~ f.torn /\ f.sections = s
        BY <1>1 DEF Holds, File
    <2>2. /\ n \in Nat /\ Len(s) = n + 4
          /\ s[1].kind = "Header" /\ s[2].kind = "ColorGroup"
          /\ \A k \in 1 .. n : s[k + 2].kind = "NoteEntry"
          /\ s[n + 3].kind = "GenPasswHistory"
          /\ s[n + 4].kind = "OtpNote"
          /\ s[2].content = d.colorGroups
          /\ s[n + 3].content = d.generatedPassws
          /\ s[n + 4].content = d.otpNotes
        BY SectionsKinds
    <2> HIDE DEF s, n
    <2>3. \A k \in 1 .. n + 4 :
            \/ k = 1 \/ k = 2 \/ k = n + 3 \/ k = n + 4
            \/ s[k].kind = "NoteEntry"
        <3> SUFFICES ASSUME NEW k \in 1 .. n + 4, k \notin {1, 2, n + 3, n + 4}
                     PROVE  s[k].kind = "NoteEntry"
            OBVIOUS
        <3>1. k - 2 \in 1 .. n /\ (k - 2) + 2 = k
            BY <2>2
        <3> QED BY <2>2, <3>1
    <2>4. n + 4 \in Nat /\ {2, n + 3, n + 4} \subseteq 1 .. n + 4
        BY <2>2
    <2>5. Content(s, "ColorGroup") = d.colorGroups
        <3>1. \A k \in 1 .. n + 4 : s[k].kind = "ColorGroup" => k = 2
            BY <2>2, <2>3
        <3> QED BY <2>2, <2>4, <3>1, ContentIs
    <2>6. Content(s, "GenPasswHistory") = d.generatedPassws
        <3>1. \A k \in 1 .. n + 4 : s[k].kind = "GenPasswHistory" => k = n + 3
            BY <2>2, <2>3
        <3> QED BY <2>2, <2>4, <3>1, ContentIs
    <2>7. Content(s, "OtpNote") = d.otpNotes
        <3>1. \A k \in 1 .. n + 4 : s[k].kind = "OtpNote" => k = n + 4
            BY <2>2, <2>3
        <3> QED BY <2>2, <2>4, <3>1, ContentIs
    <2>8. Chosen(s, "NoteEntry") = d.notes
        BY NotesAre DEF s
    <2>9. d \in [colorGroups : Seq(Items), notes : Seq(Items),
                 generatedPassws : Seq(Items), otpNotes : Seq(Items)]
        BY DocumentsAssumption
    <2> QED BY <2>1, <2>5, <2>6, <2>7, <2>8, <2>9 DEF ReadAll
<1>2. CASE d = EmptyDocument /\ f = File(<<Header>>, FALSE)
    <2> DEFINE s == <<Header>>
               g == [k \in 0 .. 1 |-> <<>>]
    <2>1. Len(s) = 1 /\ s[1].kind = "Header" /\ ~ f.torn /\ f.sections = s
        BY <1>2 DEF Header, Section, File
    <2>2. ASSUME NEW kind \in {"ColorGroup", "NoteEntry", "GenPasswHistory",
                               "OtpNote"}
          PROVE  Chosen(s, kind) = <<>>
        <3>1. \A k \in 1 .. 1 : s[k].kind # kind
            BY <2>1
        <3>2. g[0] = <<>> /\ g[1] = <<>> /\ g = [k \in 0 .. 1 |-> g[k]]
              /\ \A k \in 1 .. 1 : g[k] = g[k - 1]
            OBVIOUS
        <3> HIDE DEF g, s
        <3>3. Chooses(g, s, kind, 1)
            BY <3>1, <3>2 DEF Chooses
        <3>4. 1 \in Nat
            OBVIOUS
        <3>5. Chosen(s, kind) = g[1]
            BY <2>1, <3>3, <3>4, ChosenIs, Zenon
        <3> QED BY <3>2, <3>5
    <2> HIDE DEF s
    <2> QED BY <1>2, <2>1, <2>2 DEF ReadAll, Content, EmptyDocument
<1> QED BY <1>1, <1>2 DEF Whole

-----------------------------------------------------------------------------
(* What a login finds *)

\* A file with a header begins with it and goes on with sections.
HeaderFirst(f) ==
    HasHeader(f) =>
        /\ f.sections \in Seq(SectionSet) /\ f.sections[1] = Header
        /\ f.torn \in BOOLEAN

Found == {before, target} \ {NoDocument}

\* A save in place is over a file with a header.  Without a copy, and unless
\* it was spoiled in place, the file is the document before the last save or
\* the one that save was to write; before the first save there is no file, or
\* one without a header, or an empty storage.
LInv ==
    /\ HeaderFirst(main)
    /\ saving = "main" =>
          \E k \in 0 .. Len(Sections(target)) : main = Written(target, k)
    /\ descriptor = "used" => saving = "none" /\ HasHeader(main)
    /\ temp = NoFile /\ HasHeader(main) /\ ~ spoiled =>
          \E d \in Found : Whole(main, d)
    /\ temp = NoFile /\ ~ HasHeader(main) =>
          object = LoggedOut /\ target = EmptyDocument
    /\ LoginFindsADocument

LEMMA InitLInv == Init => LInv
    BY DEF Init, LInv, HeaderFirst, HasHeader, LoginFindsADocument

\* a beginning of the file of a document, whole or torn
LEMMA WrittenHeader ==
    ASSUME NEW d \in Documents, NEW k \in 0 .. Len(Sections(d)),
           NEW torn \in BOOLEAN
    PROVE  HeaderFirst(File(SubSeq(Sections(d), 1, k), torn))
<1> DEFINE s == Sections(d)
<1>1. s \in Seq(SectionSet)
    BY SectionsType
<1>2. s[1] = Header
    BY SectionsAre
<1> HIDE DEF s
<1>3. SubSeq(s, 1, k) \in Seq(SectionSet) /\ Len(SubSeq(s, 1, k)) = k
    BY <1>1 DEF s
<1>4. k # 0 => SubSeq(s, 1, k)[1] = s[1]
    BY <1>1 DEF s
<1>5. k = 0 => SubSeq(s, 1, k) = <<>>
    BY <1>1
<1> QED BY <1>2, <1>3, <1>4, <1>5 DEF HeaderFirst, HasHeader, File, s

\* Whichever way a storage is opened, what is read is a document it should
\* have, or there is a reason it is not.
LEMMA ReadFinds ==
    ASSUME IInv, LInv, HasHeader(main)
    PROVE  \/ ReadAll(main) \in {before, target}
           \/ /\ temp # NoFile \/ spoiled
              /\ \A d \in Found : ~ Whole(main, d)
<1>1. CASE \E d \in Found : Whole(main, d)
    <2>1. PICK d \in Found : Whole(main, d)
        BY <1>1
    <2>2. d \in Documents /\ d \in {before, target}
        BY DEF IInv, Found
    <2> QED BY <2>1, <2>2, ReadBack
<1>2. CASE ~ \E d \in Found : Whole(main, d)
    BY <1>2 DEF LInv
<1> QED BY <1>1, <1>2

LEMMA CreateLInv ==
    ASSUME IInv, LInv, CreateAndLogin
    PROVE  LInv'
<1>1. /\ ~ HasHeader(main) /\ saving = "none" /\ spoiled' = FALSE
      /\ UNCHANGED <<temp, saving, keyError, before, target, descriptor>>
    BY DEF CreateAndLogin
<1>2. CASE main' = File(<<Header>>, FALSE) /\ object' = ReadAll(main')
    <2>1. Whole(main', EmptyDocument)
        BY <1>2 DEF Whole
    <2>2. object' = EmptyDocument
        BY <1>2, <2>1, EmptyDocumentAssumption, ReadBack
    <2>3. HasHeader(main') /\ HeaderFirst(main')
        <3>1. HasHeader(main')
            BY <2>1, EmptyDocumentAssumption, WholeHasHeader
        <3>2. main'.sections = <<Header>> /\ main'.torn \in BOOLEAN
            BY <1>2 DEF File
        <3>3. Header \in SectionSet
            BY DEF SectionSet
        <3> QED BY <3>1, <3>2, <3>3 DEF HeaderFirst
    <2>4. temp = NoFile => target = EmptyDocument
        BY <1>1 DEF LInv
    <2>5. EmptyDocument \in Documents /\ EmptyDocument # NoDocument
        BY EmptyDocumentAssumption, DocumentsAssumption
    <2>6. \A d \in Found : Whole(main', d) => d = EmptyDocument
        <3> SUFFICES ASSUME NEW d \in Found, Whole(main', d)
                     PROVE  d = EmptyDocument
            OBVIOUS
        <3>1. d \in Documents
            BY DEF Found, IInv
        <3>2. ReadAll(main') = d
            BY <3>1, ReadBack
        <3> QED BY <1>2, <2>2, <3>2
    <2>7. LoginFindsADocument'
        <3>1. CASE temp = NoFile
            BY <1>1, <2>2, <2>4, <3>1 DEF LoginFindsADocument
        <3>2. CASE temp # NoFile /\ object' \notin {before, target}
            BY <1>1, <2>2, <2>6, <3>2 DEF LoginFindsADocument, Found
        <3>3. CASE object' \in {before, target}
            BY <1>1, <3>3 DEF LoginFindsADocument
        <3> QED BY <3>1, <3>2, <3>3
    <2>8. temp' = NoFile => \E d \in Found' : Whole(main', d)
        BY <1>1, <2>1, <2>4, <2>5 DEF Found
    <2> QED BY <1>1, <2>3, <2>7, <2>8 DEF LInv
<1>3. CASE main' \in {Opened, File(<<>>, TRUE), main} /\ object' = LoggedOut
    <2>1. ~ HasHeader(main')
        BY <1>1, <1>3 DEF HasHeader, Opened, File
    <2>2. descriptor # "used"
        BY DEF CreateAndLogin
    <2> QED BY <1>1, <1>3, <2>1, <2>2 DEF LInv, HeaderFirst, LoginFindsADocument
<1> QED BY <1>2, <1>3 DEF CreateAndLogin

\* What WriteMain leaves in the file, which it has begun.
LEMMA WriteMainLInv ==
    ASSUME IInv, LInv, WriteMain
    PROVE  /\ HeaderFirst(main')
           /\ saving' = "main" =>
                \E k \in 0 .. Len(Sections(target')) : main' = Written(target', k)
<1>1. /\ saving = "main" /\ object = target /\ target \in Documents
      /\ ~ Holds(main, target) /\ target' = target
    BY DEF WriteMain, IInv
<1> DEFINE s == Sections(target)
<1>2. PICK k \in 0 .. Len(s) : main = Written(target, k)
    BY <1>1 DEF LInv
<1>3. k # Len(s)
    BY <1>1, <1>2, WrittenBegins
<1>4. s \in Seq(SectionSet)
    BY <1>1, SectionsType
<1>5. main.sections = SubSeq(s, 1, k)
    BY <1>2 DEF Written, File
<1>6. Longer(main) = Written(target, k + 1)
    <2>1. Append(main.sections, s[Len(main.sections) + 1])
            = SubSeq(s, 1, k + 1)
        <3> HIDE DEF s
        <3> QED BY <1>3, <1>4, <1>5, OneMoreSection
    <2> QED BY <1>1, <2>1 DEF Longer, Written
<1>7. k + 1 \in 0 .. Len(s)
    <2> HIDE DEF s
    <2> QED BY <1>3, <1>4
<1>8. CASE main' = Longer(main)
    <2>1. main' = Written(target, k + 1)
        BY <1>6, <1>8
    <2>2. HeaderFirst(main')
        BY <1>1, <1>7, <2>1, WrittenHeader DEF Written
    <2> QED BY <1>1, <1>7, <2>1, <2>2
<1>9. CASE main' \in {main, File(main.sections, TRUE)} /\ saving' = "mainWritten"
    <2>1. HeaderFirst(File(main.sections, TRUE))
        BY <1>1, <1>5, WrittenHeader
    <2> QED BY <1>9, <2>1 DEF LInv
<1> QED BY <1>8, <1>9 DEF WriteMain

\* A save in place leaves the header where it was.
LEMMA InPlaceHeader ==
    ASSUME LInv, NEW d \in Documents, SaveInPlace(d)
    PROVE  HasHeader(main') /\ HeaderFirst(main')
<1> DEFINE s == Sections(d)
           old == main.sections
<1>1. PICK k \in 0 .. Len(s) : main' \in WrittenOver(main, d, k)
    BY Zenon DEF SaveInPlace
<1>2. /\ s \in Seq(SectionSet) /\ s[1] = Header /\ Len(s) # 0
    <2>1. Len(d.notes) \in Nat /\ Len(s) = Len(d.notes) + 4 /\ s[1] = Header
        BY SectionsAre
    <2> HIDE DEF s
    <2>2. Len(s) # 0
        BY <2>1
    <2> QED BY <2>1, <2>2, SectionsType DEF s
<1>3. /\ old \in Seq(SectionSet) /\ old[1] = Header /\ old # <<>>
      /\ main.torn \in BOOLEAN
    BY DEF LInv, HeaderFirst, HasHeader, SaveInPlace
<1> DEFINE new == SubSeq(s, 1, k)
           rest == SubSeq(old, k + 1, Len(old))
<1> HIDE DEF old
<1>4. /\ new \in Seq(SectionSet) /\ Len(new) = k
      /\ k # 0 => new[1] = Header
      /\ k = 0 => new = <<>>
    <2> HIDE DEF s
    <2> QED BY <1>2 DEF s
<1>5. rest \in Seq(SectionSet) /\ (k = 0 => rest = old)
    <2> HIDE DEF s
    <2>1. k \in Nat
        BY <1>2 DEF s
    <2> QED BY <1>3, <2>1
<1> HIDE DEF s, new, rest
<1> DEFINE Good(sections) ==
        /\ sections \in Seq(SectionSet) /\ sections # <<>>
        /\ sections[1] = Header
<1>6. k # 0 => Good(new)
    BY <1>4
<1>7. Good(new \o rest)
    <2>1. CASE k = 0
        <3>1. new \o rest = old
            BY <1>3, <1>4, <1>5, <2>1, ConcatEmptySeq
        <3> QED BY <1>3, <3>1
    <2>2. CASE k # 0
        <3>1. /\ new \o rest \in Seq(SectionSet)
              /\ Len(new \o rest) = Len(new) + Len(rest)
              /\ \A i \in 1 .. Len(new) + Len(rest) :
                    (new \o rest)[i] = IF i <= Len(new) THEN new[i]
                                      ELSE rest[i - Len(new)]
            <4>1. new \in Seq(SectionSet) /\ rest \in Seq(SectionSet)
                BY <1>4, <1>5
            <4> QED BY <4>1, ConcatProperties, Zenon
        <3>2. k \in Nat /\ Len(rest) \in Nat
            BY <1>4, <1>5
        <3> DEFINE both == new \o rest
        <3> HIDE DEF both
        <3>4. /\ both \in Seq(SectionSet) /\ Len(both) = Len(new) + Len(rest)
              /\ \A i \in 1 .. Len(new) + Len(rest) :
                    both[i] = IF i <= Len(new) THEN new[i]
                              ELSE rest[i - Len(new)]
            BY <3>1, Zenon DEF both
        <3>3. /\ both \in Seq(SectionSet) /\ Len(both) = k + Len(rest)
              /\ both[1] = new[1]
            BY <1>4, <2>2, <3>2, <3>4
        <3> QED BY <1>4, <2>2, <3>2, <3>3 DEF both
    <2> QED BY <2>1, <2>2
<1>8. \E torn \in BOOLEAN : \E sections :
        main' = File(sections, torn) /\ Good(sections)
    <2>1. CASE k = Len(s)
        <3>1. WrittenOver(main, d, k) = {File(new, tail) : tail \in Tails(main, d)}
            BY <2>1, Zenon DEF WrittenOver, new, s
        <3>2. Tails(main, d) \subseteq BOOLEAN
            BY DEF Tails
        <3> QED BY <1>1, <1>2, <1>6, <2>1, <3>1, <3>2
    <2>2. CASE k # Len(s) /\ k # 0
        <3>1. main' \in {File(new, TRUE), File(new \o rest, main.torn)}
            BY <1>1, <2>2 DEF WrittenOver, new, rest, old, s
        <3> QED BY <1>3, <1>6, <1>7, <2>2, <3>1
    <2>3. CASE k # Len(s) /\ k = 0
        <3>1. /\ ~ (k > Len(old)) /\ SameShape(new, old, k)
              /\ rest # <<>> /\ Shape(rest[1]) = Shape(s[k + 1])
            BY <1>2, <1>3, <1>5, <2>3 DEF SameShape
        <3>2. WrittenOver(main, d, k) = {File(new \o rest, main.torn)}
            BY <2>3, <3>1, Zenon DEF WrittenOver, new, rest, old, s
        <3> QED BY <1>1, <1>3, <1>7, <3>2
    <2> QED BY <2>1, <2>2, <2>3
<1>9. PICK torn \in BOOLEAN :
        \E sections : main' = File(sections, torn) /\ Good(sections)
    BY <1>8
<1>10. PICK sections : main' = File(sections, torn) /\ Good(sections)
    BY <1>9
<1> QED BY <1>10, FileExists DEF HasHeader, HeaderFirst, File

LEMMA NextLInv == IInv /\ CInv /\ LInv /\ [Next]_vars => LInv'
<1> SUFFICES ASSUME IInv, CInv, LInv, [Next]_vars PROVE LInv'
    OBVIOUS
<1>0. ASSUME UNCHANGED main PROVE HeaderFirst(main)' /\ HasHeader(main)' = HasHeader(main)
    BY <1>0 DEF LInv, HeaderFirst, HasHeader
<1>1. CASE CreateAndLogin
    BY <1>1, CreateLInv
<1>2. CASE Login
    <2>1. /\ HasHeader(main) /\ object' = ReadAll(main) /\ descriptor # "used"
          /\ UNCHANGED <<main, temp, saving, before, target, descriptor, spoiled>>
        BY <1>2 DEF Login
    <2>2. LoginFindsADocument'
        BY <2>1, ReadFinds DEF LoginFindsADocument, Found
    <2> QED BY <1>0, <2>1, <2>2 DEF LInv, Found
<1>3. CASE LoginByDescriptor
    <2>1. /\ saving = "none"
          /\ UNCHANGED <<main, temp, saving, before, target, spoiled>>
        BY <1>3 DEF LoginByDescriptor
    <2>2. CASE HasHeader(main) /\ object' = ReadAll(main) /\ descriptor' = "used"
        <3>1. LoginFindsADocument'
            BY <2>1, <2>2, ReadFinds DEF LoginFindsADocument, Found
        <3> QED BY <1>0, <2>1, <2>2, <3>1 DEF LInv, Found
    <2>3. CASE object' = LoggedOut /\ descriptor' = "closed"
        BY <1>0, <2>1, <2>3 DEF LInv, Found, LoginFindsADocument
    <2> QED BY <1>3, <2>2, <2>3 DEF LoginByDescriptor
<1>4. CASE Unlogin \/ HandOver
    <2>1. /\ UNCHANGED <<main, temp, saving, before, target, spoiled>>
          /\ object' \in {object, LoggedOut}
          /\ descriptor' = "used" => descriptor = "used"
        BY <1>4 DEF Unlogin, HandOver, AfterErase
    <2> QED BY <1>0, <2>1 DEF LInv, Found, LoginFindsADocument
<1>5. ASSUME NEW d \in Documents, Edit(d)
      PROVE  LInv'
    <2>1. /\ object' = d /\ target' = d /\ saving = "none" /\ descriptor # "used"
          /\ object # LoggedOut
          /\ UNCHANGED <<main, descriptor, spoiled>>
        BY <1>5 DEF Edit
    <2>2. CASE temp' = Opened /\ saving' = "temp"
        <3>1. temp' # NoFile
            <4>1. <<>> \in Seq(SectionSet)
                OBVIOUS
            <4> QED BY <2>2, <4>1, FileExists DEF Opened
        <3> QED BY <1>0, <2>1, <2>2, <3>1 DEF LInv, LoginFindsADocument
    <2>3. CASE UNCHANGED temp /\ saving' = "none"
        <3>1. temp = NoFile => HasHeader(main)
            BY <2>1 DEF LInv
        <3>2. temp = NoFile /\ HasHeader(main) /\ ~ spoiled =>
                 \E x \in Documents : Whole(main, x)
            BY DEF CInv, NoCopyMeansWhole
        <3>3. (\E x \in Documents : Whole(main, x)) =>
                 before' \in Documents /\ Whole(main, before')
            BY <1>5 DEF Edit
        <3>4. before' \in Documents => before' \in Found'
            BY DocumentsAssumption DEF Found
        <3>5. temp = NoFile /\ ~ spoiled => \E x \in Found' : Whole(main, x)
            BY <3>1, <3>2, <3>3, <3>4
        <3> QED BY <1>0, <2>1, <2>3, <3>1, <3>5 DEF LInv, LoginFindsADocument
    <2> QED BY <1>5, <2>2, <2>3 DEF Edit
<1>6. CASE WriteTemp
    <2>1. temp' # NoFile /\ saving' # "none"
        BY <1>6, WriteTempCInv DEF WriteTemp
    <2>2. /\ saving = "temp" /\ saving' # "main" /\ object' = target'
          /\ UNCHANGED <<main, descriptor>>
        BY <1>6 DEF WriteTemp, handedOver, IInv
    <2> QED BY <1>0, <2>1, <2>2 DEF LInv, LoginFindsADocument
<1>7. CASE CloseTemp \/ OtherCall
    <2>1. /\ saving # "none" /\ saving' # "none" /\ object' = target'
          /\ UNCHANGED <<main, temp, target, descriptor>>
          /\ saving' = "main" => saving = "main"
        BY <1>7 DEF CloseTemp, OtherCall, handedOver, IInv
    <2>2. temp # NoFile
        BY <2>1 DEF CInv
    <2> QED BY <1>0, <2>1, <2>2 DEF LInv, LoginFindsADocument
<1>8. CASE OpenMain
    <2>1. /\ saving # "none" /\ object' = target'
          /\ UNCHANGED <<temp, target, descriptor>>
        BY <1>8 DEF OpenMain, IInv
    <2>2. temp # NoFile /\ descriptor # "used"
        BY <2>1 DEF CInv, LInv
    <2>3. CASE main' = Opened /\ saving' = "main"
        <3>1. ~ HasHeader(main')
            BY <2>3 DEF HasHeader, Opened, File
        <3>2. main' = Written(target', 0) /\ 0 \in 0 .. Len(Sections(target'))
            <4>1. target \in Documents
                BY DEF IInv
            <4>2. Sections(target) \in Seq(SectionSet)
                BY <4>1, SectionsType
            <4>3. SubSeq(Sections(target), 1, 0) = <<>>
                BY <4>2
            <4>4. main' = Written(target, 0)
                BY <2>3, <4>3, Zenon DEF Opened, Written
            <4> QED BY <2>1, <4>2, <4>4
        <3> QED BY <2>1, <2>2, <2>3, <3>1, <3>2 DEF LInv, HeaderFirst, LoginFindsADocument
    <2>4. CASE UNCHANGED main /\ saving' = "none"
        BY <1>0, <2>1, <2>2, <2>4 DEF LInv, LoginFindsADocument
    <2> QED BY <1>8, <2>3, <2>4 DEF OpenMain
<1>9. CASE WriteMain
    <2>1. /\ saving # "none" /\ object' = target'
          /\ UNCHANGED <<temp, target, descriptor>>
        BY <1>9 DEF WriteMain, handedOver, IInv
    <2>2. temp # NoFile /\ descriptor # "used"
        BY <2>1 DEF CInv, LInv
    <2> QED BY <1>9, <2>1, <2>2, WriteMainLInv DEF LInv, LoginFindsADocument
<1>10. CASE CloseMain
    <2>1. /\ saving # "none" /\ saving' = "mainWritten" /\ object' = target'
          /\ UNCHANGED <<main, temp, target, descriptor>>
        BY <1>10 DEF CloseMain, handedOver, IInv
    <2>2. temp # NoFile /\ descriptor # "used"
        BY <2>1 DEF CInv, LInv
    <2> QED BY <1>0, <2>1, <2>2 DEF LInv, LoginFindsADocument
<1>11. CASE RemoveTemp
    <2>1. /\ saving = "mainWritten" /\ saving' = "none" /\ object' = target'
          /\ UNCHANGED <<main, before, target, descriptor>>
          /\ temp' = IF keyError = "ok" THEN NoFile ELSE temp
        BY <1>11 DEF RemoveTemp, handedOver, IInv
    <2>2. temp # NoFile /\ descriptor # "used"
        BY <2>1 DEF CInv, LInv
    <2>3. CASE keyError = "ok"
        <3>1. target \in Documents /\ Whole(main, target)
            BY <2>1, <2>3 DEF IInv, Whole
        <3>2. HasHeader(main) /\ target \in Found'
            BY <2>1, <3>1, WholeHasHeader, DocumentsAssumption DEF Found
        <3> QED BY <1>0, <2>1, <2>2, <3>1, <3>2 DEF LInv, LoginFindsADocument
    <2>4. CASE keyError # "ok"
        BY <1>0, <2>1, <2>2, <2>4 DEF LInv, LoginFindsADocument
    <2> QED BY <2>3, <2>4
<1>12. CASE Die
    <2>1. /\ object' = LoggedOut /\ saving' = "none" /\ descriptor' = "closed"
          /\ UNCHANGED <<before, target, spoiled>>
        BY <1>12 DEF Die
    <2>2. CASE saving = "none"
        <3>1. UNCHANGED <<main, temp>>
            BY <1>12, <2>2 DEF Die, Cut
        <3> QED BY <1>0, <2>1, <3>1 DEF LInv, Found, LoginFindsADocument
    <2>3. CASE saving # "none"
        <3>1. temp' # NoFile
            <4>1. CASE saving = "temp"
                <5>1. PICK k \in 0 .. Len(Sections(target)) : temp = Written(target, k)
                    BY <4>1 DEF CInv
                <5>2. temp # NoFile /\ File(temp.sections, TRUE) # NoFile
                    BY <5>1, WrittenBegins DEF IInv
                <5> QED BY <1>12, <5>2 DEF Die, Cut
            <4>2. CASE saving # "temp"
                BY <1>12, <2>3, <4>2 DEF Die, Cut, CInv
            <4> QED BY <4>1, <4>2
        <3>2. HeaderFirst(main')
            <4>1. CASE saving = "main"
                <5>1. PICK k \in 0 .. Len(Sections(target)) : main = Written(target, k)
                    BY <4>1 DEF LInv
                <5>2. File(main.sections, TRUE) = File(SubSeq(Sections(target), 1, k), TRUE)
                    BY <5>1 DEF Written, File
                <5>3. HeaderFirst(File(main.sections, TRUE))
                    BY <5>2, WrittenHeader DEF IInv
                <5> QED BY <1>12, <5>3 DEF Die, Cut, LInv
            <4>2. CASE saving # "main"
                BY <1>12, <4>2 DEF Die, Cut, LInv
            <4> QED BY <4>1, <4>2
        <3> QED BY <2>1, <3>1, <3>2 DEF LInv, LoginFindsADocument
    <2> QED BY <2>2, <2>3
<1>13. ASSUME NEW d \in Documents, SaveInPlace(d)
       PROVE  LInv'
    <2>1. /\ saving = "none" /\ target' = d /\ object' \in {d, LoggedOut}
          /\ UNCHANGED <<temp, saving>>
        BY <1>13 DEF SaveInPlace
    <2>2. HasHeader(main') /\ HeaderFirst(main')
        BY <1>13, InPlaceHeader
    <2>3. ~ spoiled' => Whole(main', d)
        BY <1>13, InPlaceWhole DEF Whole
    <2>4. d \in Found'
        BY <2>1, DocumentsAssumption DEF Found
    <2> QED BY <2>1, <2>2, <2>3, <2>4 DEF LInv, LoginFindsADocument
<1>14. CASE UNCHANGED vars
    <2>1. UNCHANGED <<main, temp, object, saving, before, target, descriptor, spoiled>>
        BY <1>14 DEF vars
    <2> QED BY <1>0, <2>1 DEF LInv, Found, LoginFindsADocument
<1> QED BY <1>1, <1>2, <1>3, <1>4, <1>5, <1>6, <1>7, <1>8, <1>9, <1>10,
       <1>11, <1>12, <1>13, <1>14
        DEF Next, UseNullLists

\* Whoever unlocks the storage finds the document before the last save or the
\* one it was to write, unless the file holds neither, and then the copy is
\* there or the file was spoiled in place.
THEOREM LoginIsSafe == "ok" \notin OthersSet => (Spec => []LoginFindsADocument)
<1> SUFFICES ASSUME "ok" \notin OthersSet PROVE Spec => []LoginFindsADocument
    OBVIOUS
<1>1. IInv /\ [Next]_vars => IInv'
    BY NextIInv
<1>2. LInv => LoginFindsADocument
    BY DEF LInv
<1> QED BY <1>1, <1>2, InitIInv, InitCInv, InitLInv, NextCInv, NextLInv, PTL
        DEF Spec
=============================================================================
