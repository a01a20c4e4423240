------------------------ MODULE SharedStorage_proofs ------------------------
(***************************************************************************)
(* Theorems about the calls that edit one storage object at the same time, *)
(* for any number of threads, calls, notes and passwords: edits under      *)
(* editMutex undo no other edit, a HOTP code advances its counter unless   *)
(* another call comes in between, and the file is whole and current unless *)
(* two saves overlap.                                                      *)
(***************************************************************************)
EXTENDS SharedStorage, KeyStorage2_proofs

-----------------------------------------------------------------------------
(* Types: a snapshot whose list of otp notes is an address in heap *)

Snapshots ==
    [idCounter : Nat, colorGroupIdCounter : Nat,
     colorGroups : Seq(ColorGroup), notes : Seq(CryptedNote),
     otpNotes : Nat, generatedPassws : Seq(CryptedPassword)]

Cell ==
    [kind : {"note"}, content : CryptedNoteFlat]
    \cup [kind : {"gens"}, content : Seq(CryptedPasswordFlat)]
    \cup [kind : {"otps"}, content : Seq(CryptedOtpInfoFlat)]

Points ==
    {"idle", "histCopied", "look", "generate", "generating", "removeNote",
     "removingNote", "removeOtp", "removingOtp", "counterRead",
     "save", "copySaved", "opened", "writing"}

\* a call at one of these has copied a snapshot
Copies ==
    {"histCopied", "generating", "removingNote", "removingOtp", "counterRead"}

Editing == {"generating", "removingNote", "removingOtp"}

EditsType ==
    /\ heap \in Seq(Seq(CryptedOtpInfo))
    /\ memory \in Snapshots /\ memory.otpNotes \in DOMAIN heap
    /\ editMutex \in Thread \cup {NoOne}

CallsType ==
    /\ pc \in [Thread -> Points]
    /\ arg \in [Thread -> [id : Nat, counter : Nat]]
    /\ data \in [Thread -> Snapshots \cup {NoSnapshot}]
    /\ \A t \in Thread : pc[t] \in Copies =>
          data[t] \in Snapshots /\ data[t].otpNotes \in DOMAIN heap

FilesType ==
    /\ main \in Seq(Cell \cup {Hole}) /\ copy \in BOOLEAN
    /\ saveRaced \in BOOLEAN /\ codeRaced \in BOOLEAN
    /\ cells \in [Thread -> [left : Seq(Cell), at : Nat \ {0}]]

-----------------------------------------------------------------------------
(* The invariant *)

\* editMutex is held from the copy of a snapshot to its installation, by
\* removeNote until its save is over; the copy is up to date
Guards ==
    \A t \in Thread :
        /\ pc[t] \in Editing => editMutex = t
        /\ editMutex = t =>
              pc[t] \in Editing \cup {"save", "copySaved", "opened", "writing"}
        /\ pc[t] \in {"generating", "removingNote"} => data[t] = memory
        /\ pc[t] = "removingOtp" =>
              data[t] = [memory EXCEPT !.otpNotes = data[t].otpNotes]

\* t is alone with the counter it has read
Alone(t) ==
    /\ \A u \in Thread :
          (ReadingCode(u) => u = t) /\ pc[u] # "removingOtp"
    /\ data[t].otpNotes = memory.otpNotes
    /\ HasId(OtpList, arg[t].id)
    /\ OtpList[IndexOf(OtpList, arg[t].id)].counter = arg[t].counter

Codes == ~ codeRaced => \A t \in Thread : ReadingCode(t) => Alone(t)

\* t is the only one that saves, and will leave a whole file
SavesAlone(t) ==
    /\ \A u \in Thread : Saving(u) => u = t
    /\ copy
    /\ pc[t] = "opened" => main = <<>>
    /\ pc[t] = "writing" => /\ cells[t].at = Len(main) + 1
                            /\ Whole(main \o cells[t].left)

\* the memory is in the file, or about to come there
WillBeSaved ==
    \/ \E t \in Thread : pc[t] \in {"save", "copySaved", "opened"}
    \/ \E t \in Thread :
          pc[t] = "writing" /\ main \o cells[t].left = Cells(memory, heap)
    \/ (\A t \in Thread : pc[t] # "writing") /\ main = Cells(memory, heap)

Saves ==
    ~ saveRaced =>
        /\ \A t \in Thread : Saving(t) => SavesAlone(t)
        /\ (\A t \in Thread : ~ Saving(t)) => Whole(main)
        /\ WillBeSaved

TypeInv == EditsType /\ CallsType /\ FilesType

IInv == TypeInv /\ Guards /\ Codes /\ Saves

-----------------------------------------------------------------------------
(* Operators of the engine keep the types, whatever ids are in use. *)

LEMMA SnapshotFields ==
    ASSUME NEW d \in Snapshots
    PROVE  /\ d.notes \in Seq(CryptedNote)
           /\ d.generatedPassws \in Seq(CryptedPassword)
           /\ d.otpNotes \in Nat /\ d.idCounter \in Nat
           /\ d.colorGroups \in Seq(ColorGroup)
           /\ d.colorGroupIdCounter \in Nat
    BY DEF Snapshots

LEMMA GenPasswordType ==
    ASSUME NEW d \in Snapshots, NEW passw \in Passws
    PROVE  /\ GenPassword(d, passw, 0) \in Snapshots
           /\ GenPassword(d, passw, 0).otpNotes = d.otpNotes
<1> DEFINE hist == <<[passw |-> passw, genTime |-> 0]>>
           n == Numbered(hist, d.idCounter)
           gens == d.generatedPassws \o n
           next == d.idCounter + Len(hist)
<1>1. hist \in Seq(CryptedPasswordFlat)
    BY DEF CryptedPasswordFlat, AnyPassw
<1>2. n \in Seq(CryptedPassword)
    <2>1. /\ d.idCounter \in Nat
          /\ \A x \in CryptedPasswordFlat : x.passw \in AnyPassw /\ x.genTime \in Nat
        BY SnapshotFields DEF CryptedPasswordFlat
    <2> HIDE DEF hist
    <2> QED BY <1>1, <2>1, NumberedProperties
<1>3. GenPassword(d, passw, 0) =
        [d EXCEPT !.idCounter = next, !.generatedPassws = gens]
    <2>1. passw # EmptyPassw
        BY EmptyPasswAssumption
    <2> QED BY <2>1 DEF GenPassword, AppendPasswHistory
<1>4. next \in Nat
    BY <1>1, SnapshotFields
<1> HIDE DEF hist, n, next
<1>5. gens \in Seq(CryptedPassword)
    BY <1>2, SnapshotFields
<1> HIDE DEF gens
<1> QED BY <1>3, <1>4, <1>5 DEF Snapshots

LEMMA RemoveNoteType ==
    ASSUME NEW d \in Snapshots, NEW id
    PROVE  /\ RemoveNote(d, id) \in Snapshots
           /\ RemoveNote(d, id).otpNotes = d.otpNotes
<1>1. CASE HasId(d.notes, id)
    <2>1. Erase(d.notes, id) \in Seq(CryptedNote)
        BY <1>1, SnapshotFields, EraseProperties
    <2> QED BY <1>1, <2>1 DEF RemoveNote, Snapshots
<1>2. CASE ~ HasId(d.notes, id)
    BY <1>2 DEF RemoveNote
<1> QED BY <1>1, <1>2

LEMMA RemovePasswHistoryType ==
    ASSUME NEW d \in Snapshots, NEW id
    PROVE  /\ RemovePasswHistory(d, id) \in Snapshots
           /\ RemovePasswHistory(d, id).otpNotes = d.otpNotes
<1> DEFINE holds(k) == HasId(d.notes[k].history, id)
<1>1. CASE HasId(d.generatedPassws, id)
    <2>1. Erase(d.generatedPassws, id) \in Seq(CryptedPassword)
        BY <1>1, SnapshotFields, EraseProperties
    <2> QED BY <1>1, <2>1 DEF RemovePasswHistory, Snapshots
<1>2. CASE /\ ~ HasId(d.generatedPassws, id)
           /\ \E k \in DOMAIN d.notes : holds(k)
    <2> DEFINE k == CHOOSE k \in DOMAIN d.notes : HasId(d.notes[k].history, id)
               old == d.notes[k]
               hist == Erase(old.history, id)
               notes == [d.notes EXCEPT ![k] = [old EXCEPT !.history = hist]]
    <2>1. k \in DOMAIN d.notes /\ HasId(old.history, id)
        BY <1>2
    <2>2. RemovePasswHistory(d, id) = [d EXCEPT !.notes = notes]
        BY <1>2 DEF RemovePasswHistory
    <2> HIDE DEF k
    <2>7. d.notes \in Seq(CryptedNote)
        BY SnapshotFields
    <2>8. old \in CryptedNote
        BY <2>1, <2>7
    <2>3. old \in CryptedNote /\ old.history \in Seq(CryptedPassword)
        BY <2>8 DEF CryptedNote
    <2>4. hist \in Seq(CryptedPassword)
        BY <2>1, <2>3, EraseProperties
    <2> HIDE DEF hist
    <2>5. [old EXCEPT !.history = hist] \in CryptedNote
        BY <2>3, <2>4 DEF CryptedNote
    <2> HIDE DEF old
    <2>6. notes \in Seq(CryptedNote)
        BY <2>1, <2>5, SnapshotFields
    <2> HIDE DEF notes
    <2> QED BY <2>2, <2>6 DEF Snapshots
<1>3. CASE /\ ~ HasId(d.generatedPassws, id)
           /\ ~ \E k \in DOMAIN d.notes : holds(k)
    BY <1>3 DEF RemovePasswHistory
<1> QED BY <1>1, <1>2, <1>3

-----------------------------------------------------------------------------
(* Cells of a file *)

\* the snapshot that is written: the lists in their places, counters zeroed
Unread(d, lists) ==
    [d EXCEPT !.otpNotes =
        [k \in DOMAIN lists[d.otpNotes] |->
            [lists[d.otpNotes][k] EXCEPT !.counter = 0]]]

LEMMA UnreadType ==
    ASSUME NEW d \in Snapshots, NEW lists \in Seq(Seq(CryptedOtpInfo)),
           d.otpNotes \in DOMAIN lists
    PROVE  FileOf(Unread(d, lists)) \in FileSections
<1> DEFINE list == lists[d.otpNotes]
           otps == [k \in DOMAIN list |-> [list[k] EXCEPT !.counter = 0]]
<1>1. list \in Seq(CryptedOtpInfo)
    OBVIOUS
<1>2. Unread(d, lists) = [d EXCEPT !.otpNotes = otps]
    BY DEF Unread
<1>3. Len(list) \in Nat /\ DOMAIN list = 1 .. Len(list)
      /\ \A k \in DOMAIN list : list[k] \in CryptedOtpInfo
    BY <1>1
<1> HIDE DEF list
<1>4. otps \in [1 .. Len(list) -> CryptedOtpInfo]
    BY <1>3 DEF CryptedOtpInfo
<1> HIDE DEF otps
<1>5. otps \in Seq(CryptedOtpInfo)
    BY <1>3, <1>4, TupleIsSeq
<1>6. [d EXCEPT !.otpNotes = otps] \in DataSnapshot
    BY <1>5 DEF Snapshots, DataSnapshot
<1> QED BY <1>2, <1>6, FileOfType

LEMMA CellsAreWhole ==
    ASSUME NEW d \in Snapshots, NEW lists \in Seq(Seq(CryptedOtpInfo)),
           d.otpNotes \in DOMAIN lists
    PROVE  Cells(d, lists) \in Seq(Cell) /\ Whole(Cells(d, lists))
<1> DEFINE f == FileOf(Unread(d, lists))
           notes == [k \in DOMAIN f.notes |->
                        [kind |-> "note", content |-> f.notes[k]]]
           gens == [kind |-> "gens", content |-> f.generatedPassws]
           otps == [kind |-> "otps", content |-> f.otpNotes]
<1>1. Cells(d, lists) = notes \o <<gens, otps>>
    BY DEF Cells, Contents, Unread
<1>2. /\ f.notes \in Seq(CryptedNoteFlat)
      /\ f.generatedPassws \in Seq(CryptedPasswordFlat)
      /\ f.otpNotes \in Seq(CryptedOtpInfoFlat)
    BY UnreadType DEF FileSections
<1> HIDE DEF f
<1>3. gens \in Cell /\ otps \in Cell /\ gens.kind = "gens" /\ otps.kind = "otps"
    BY <1>2 DEF Cell
<1>4. /\ notes \in Seq(Cell) /\ Len(notes) \in Nat
      /\ \A k \in 1 .. Len(notes) : notes[k].kind = "note"
    <2>1. /\ Len(f.notes) \in Nat /\ DOMAIN f.notes = 1 .. Len(f.notes)
          /\ \A k \in DOMAIN f.notes : f.notes[k] \in CryptedNoteFlat
        BY <1>2
    <2>2. notes \in [1 .. Len(f.notes) -> Cell]
        BY <2>1 DEF Cell
    <2>3. \A k \in 1 .. Len(f.notes) : notes[k].kind = "note"
        BY <2>1
    <2> HIDE DEF notes
    <2> QED BY <2>1, <2>2, <2>3, TupleIsSeq
<1> HIDE DEF notes, gens, otps
<1> DEFINE c == notes \o <<gens, otps>>
           n == Len(notes) + 1
<1>5. /\ c \in Seq(Cell) /\ Len(c) = n + 1 /\ n \in DOMAIN c
      /\ c[n] = gens /\ c[n + 1] = otps
      /\ \A k \in 1 .. (n - 1) : c[k] = notes[k]
    BY <1>3, <1>4
<1>6. \A k \in 1 .. (n - 1) : c[k].kind = "note"
    BY <1>4, <1>5
<1> HIDE DEF c, n
<1>7. Whole(c)
    BY <1>3, <1>5, <1>6 DEF Whole
<1> QED BY <1>1, <1>5, <1>7 DEF c

\* the cells do not depend on counters and on lists nobody points to
LEMMA SameCells ==
    ASSUME NEW d, NEW lists, NEW other,
           DOMAIN other[d.otpNotes] = DOMAIN lists[d.otpNotes],
           \A k \in DOMAIN lists[d.otpNotes] :
              [other[d.otpNotes][k] EXCEPT !.counter = 0]
                  = [lists[d.otpNotes][k] EXCEPT !.counter = 0]
    PROVE  Cells(d, other) = Cells(d, lists)
<1>1. [k \in DOMAIN other[d.otpNotes] |->
          [other[d.otpNotes][k] EXCEPT !.counter = 0]]
        = [k \in DOMAIN lists[d.otpNotes] |->
              [lists[d.otpNotes][k] EXCEPT !.counter = 0]]
    OBVIOUS
<1>2. Contents(d, other) = Contents(d, lists)
    BY <1>1 DEF Contents
<1> QED BY <1>2 DEF Cells

LEMMA PutType ==
    ASSUME NEW S, NEW f \in Seq(S), Hole \in S, NEW at \in Nat, at # 0,
           NEW cell \in S
    PROVE  /\ Put(f, at, cell) \in Seq(S)
           /\ at = Len(f) + 1 => Put(f, at, cell) = Append(f, cell)
<1> DEFINE m == Max({Len(f), at})
           p == Put(f, at, cell)
<1>1. Len(f) \in Nat
    OBVIOUS
<1>2. m \in {Len(f), at} /\ m >= at
    <2>1. \E x \in {Len(f), at} : \A y \in {Len(f), at} : x >= y
        BY <1>1
    <2> QED BY <2>1 DEF Max
<1>3. m \in Nat
    BY <1>1, <1>2
<1>4. p = [k \in 1 .. m |->
              IF k = at THEN cell ELSE IF k <= Len(f) THEN f[k] ELSE Hole]
    BY DEF Put
<1> HIDE DEF m
<1>5. p \in [1 .. m -> S]
    BY <1>1, <1>3, <1>4
<1>6. p \in Seq(S) /\ Len(p) = m /\ DOMAIN p = 1 .. m
    BY <1>3, <1>5, TupleIsSeq
<1>7. ASSUME at = Len(f) + 1
      PROVE  p = Append(f, cell)
    <2>1. m = Len(f) + 1
        BY <1>1, <1>2, <1>7
    <2>2. \A k \in 1 .. Len(f) + 1 :
            p[k] = IF k = Len(f) + 1 THEN cell ELSE f[k]
        BY <1>1, <1>4, <1>7, <2>1
    <2> HIDE DEF p
    <2>3. /\ Append(f, cell) \in Seq(S)
          /\ Len(Append(f, cell)) = Len(f) + 1
          /\ \A k \in 1 .. Len(f) + 1 :
                Append(f, cell)[k] = IF k = Len(f) + 1 THEN cell ELSE f[k]
        OBVIOUS
    <2> QED BY <1>6, <2>1, <2>2, <2>3, SeqEqual
<1> QED BY <1>6, <1>7 DEF p

-----------------------------------------------------------------------------
(* Types, and the guards of edits.  Most actions move one call on and     *)
(* leave the snapshot alone.                                               *)

Args == [id : Nat, counter : Nat]

LEMMA CallMoves ==
    ASSUME CallsType, NEW t \in Thread,
           NEW point \in Points, pc' = [pc EXCEPT ![t] = point],
           NEW a \in Args, arg' = [arg EXCEPT ![t] = a],
           NEW d \in Snapshots \cup {NoSnapshot},
           data' = [data EXCEPT ![t] = d],
           point \in Copies => d \in Snapshots /\ d.otpNotes \in DOMAIN heap',
           DOMAIN heap \subseteq DOMAIN heap'
    PROVE  /\ CallsType'
           /\ pc'[t] = point /\ data'[t] = d /\ arg'[t] = a
           /\ \A u \in Thread \ {t} :
                pc'[u] = pc[u] /\ data'[u] = data[u] /\ arg'[u] = arg[u]
<1>1. /\ pc' \in [Thread -> Points] /\ arg' \in [Thread -> Args]
      /\ data' \in [Thread -> Snapshots \cup {NoSnapshot}]
    BY DEF CallsType, Args
<1>2. /\ pc'[t] = point /\ data'[t] = d /\ arg'[t] = a
      /\ \A u \in Thread \ {t} :
            pc'[u] = pc[u] /\ data'[u] = data[u] /\ arg'[u] = arg[u]
    BY DEF CallsType
<1>3. ASSUME NEW u \in Thread, pc'[u] \in Copies
      PROVE  data'[u] \in Snapshots /\ data'[u].otpNotes \in DOMAIN heap'
    <2>1. CASE u = t
        BY <1>2, <1>3, <2>1
    <2>2. CASE u # t
        BY <1>2, <1>3, <2>2 DEF CallsType
    <2> QED BY <2>1, <2>2
<1> QED BY <1>1, <1>2, <1>3 DEF CallsType, Args

LEMMA GuardsStay ==
    ASSUME Guards, NEW t \in Thread, UNCHANGED <<memory, editMutex>>,
           pc'[t] \notin Editing,
           editMutex = t =>
              pc'[t] \in {"save", "copySaved", "opened", "writing"},
           \A u \in Thread \ {t} : pc'[u] = pc[u] /\ data'[u] = data[u]
    PROVE  Guards'
<1> SUFFICES ASSUME NEW u \in Thread
             PROVE  /\ pc'[u] \in Editing => editMutex = u
                    /\ editMutex = u =>
                          pc'[u] \in Editing \cup
                              {"save", "copySaved", "opened", "writing"}
                    /\ pc'[u] \in {"generating", "removingNote"} =>
                          data'[u] = memory
                    /\ pc'[u] = "removingOtp" =>
                          data'[u] = [memory EXCEPT !.otpNotes = data'[u].otpNotes]
    BY DEF Guards
<1>1. CASE u = t
    BY <1>1 DEF Editing
<1>2. CASE u # t
    BY <1>2 DEF Guards
<1> QED BY <1>1, <1>2

\* the call that installs a snapshot, or takes or gives up the mutex, is the
\* only one that may edit
LEMMA GuardsOfOne ==
    ASSUME Guards, NoOne \notin Thread, NEW t \in Thread,
           editMutex \in {NoOne, t}, editMutex' \in {NoOne, t},
           pc'[t] \in Editing => editMutex' = t,
           editMutex' = t =>
              pc'[t] \in Editing \cup {"save", "copySaved", "opened", "writing"},
           pc'[t] \in {"generating", "removingNote"} => data'[t] = memory',
           pc'[t] = "removingOtp" =>
              data'[t] = [memory' EXCEPT !.otpNotes = data'[t].otpNotes],
           \A u \in Thread \ {t} : pc'[u] = pc[u] /\ data'[u] = data[u]
    PROVE  Guards'
<1> SUFFICES ASSUME NEW u \in Thread
             PROVE  /\ pc'[u] \in Editing => editMutex' = u
                    /\ editMutex' = u =>
                          pc'[u] \in Editing \cup
                              {"save", "copySaved", "opened", "writing"}
                    /\ pc'[u] \in {"generating", "removingNote"} =>
                          data'[u] = memory'
                    /\ pc'[u] = "removingOtp" =>
                          data'[u] = [memory' EXCEPT !.otpNotes = data'[u].otpNotes]
    BY DEF Guards
<1>1. CASE u = t
    BY <1>1
<1>2. CASE u # t
    <2>1. editMutex # u /\ editMutex' # u
        BY <1>2
    <2>2. pc[u] \notin Editing
        BY <2>1 DEF Guards
    <2> QED BY <1>2, <2>1, <2>2 DEF Editing
<1> QED BY <1>1, <1>2

LEMMA ReplaceType ==
    ASSUME NEW S, NEW list \in Seq(S), NEW i, NEW x,
           i \in DOMAIN list => x \in S
    PROVE  [list EXCEPT ![i] = x] \in Seq(S)
<1> DEFINE e == [list EXCEPT ![i] = x]
<1>1. list \in [1 .. Len(list) -> S] /\ Len(list) \in Nat
      /\ DOMAIN list = 1 .. Len(list)
    OBVIOUS
<1>2. /\ DOMAIN e = 1 .. Len(list)
      /\ e = [k \in 1 .. Len(list) |-> e[k]]
      /\ \A k \in 1 .. Len(list) : e[k] = IF k = i THEN x ELSE list[k]
    BY <1>1
<1> HIDE DEF e
<1>3. e \in [1 .. Len(list) -> S]
    BY <1>1, <1>2
<1> QED BY <1>1, <1>3, TupleIsSeq DEF e

LEMMA IdTypes ==
    ASSUME EditsType
    PROVE  /\ HistIds \subseteq Nat
           /\ Ids(memory.notes) \subseteq Nat
           /\ Ids(OtpList) \subseteq Nat
           /\ \A k \in DOMAIN memory.generatedPassws :
                memory.generatedPassws[k].id \in Nat
           /\ OtpList \in Seq(CryptedOtpInfo)
<1>1. /\ memory.notes \in Seq(CryptedNote)
      /\ memory.generatedPassws \in Seq(CryptedPassword)
      /\ OtpList \in Seq(CryptedOtpInfo)
    BY SnapshotFields DEF EditsType, OtpList
<1>2. /\ \A k \in DOMAIN memory.notes : memory.notes[k] \in CryptedNote
      /\ \A k \in DOMAIN memory.generatedPassws :
            memory.generatedPassws[k] \in CryptedPassword
      /\ \A k \in DOMAIN OtpList : OtpList[k] \in CryptedOtpInfo
    BY <1>1
<1>3. Ids(memory.notes) \subseteq Nat
    BY <1>2 DEF Ids, CryptedNote
<1>4. Ids(OtpList) \subseteq Nat
    BY <1>2 DEF Ids, CryptedOtpInfo
<1>5. \A k \in DOMAIN memory.generatedPassws :
          memory.generatedPassws[k].id \in Nat
    BY <1>2 DEF CryptedPassword
<1>6. ASSUME NEW k \in DOMAIN memory.notes
      PROVE  Ids(memory.notes[k].history) \subseteq Nat
    <2>1. memory.notes[k].history \in Seq(CryptedPassword)
        BY <1>2 DEF CryptedNote
    <2>2. \A i \in DOMAIN memory.notes[k].history :
              memory.notes[k].history[i] \in CryptedPassword
        BY <2>1
    <2> QED BY <2>2 DEF Ids, CryptedPassword
<1>7. HistoryIds(memory.notes) \subseteq Nat
    BY <1>6 DEF HistoryIds
<1>8. Ids(memory.generatedPassws) \subseteq Nat
    BY <1>5 DEF Ids
<1> QED BY <1>1, <1>3, <1>4, <1>5, <1>7, <1>8 DEF HistIds

LEMMA SnapshotStep ==
    ASSUME EditsType, CallsType, Guards, NEW t \in Thread,
           Call(t) \/ Step(t)
    PROVE  EditsType' /\ CallsType' /\ Guards'
<1> DEFINE after(u) ==
              pc'[u] = pc[u] /\ data'[u] = data[u] /\ arg'[u] = arg[u]
           savePoints == {"save", "copySaved", "opened", "writing"}
<1>0. /\ pc[t] \in Points /\ arg[t] \in Args /\ NoArg \in Args
      /\ data[t] \in Snapshots \cup {NoSnapshot}
      /\ memory \in Snapshots /\ memory.otpNotes \in DOMAIN heap
      /\ DOMAIN heap = 1 .. Len(heap) /\ Len(heap) \in Nat
      /\ NoOne \notin Thread
      /\ arg = [arg EXCEPT ![t] = arg[t]]
      /\ data = [data EXCEPT ![t] = data[t]]
      /\ pc[t] \in Copies => data[t] \in Snapshots
                             /\ data[t].otpNotes \in DOMAIN heap
    BY NoOneAssumption DEF EditsType, CallsType, Args, NoArg
<1>a. \A id \in Nat, c \in Nat : [id |-> id, counter |-> c] \in Args
    BY DEF Args
\* a call that leaves the snapshot, the lists and the mutex alone
<1>b. ASSUME UNCHANGED <<memory, heap, editMutex>>,
             NEW point \in Points \ Editing, pc' = [pc EXCEPT ![t] = point],
             NEW a \in Args, arg' = [arg EXCEPT ![t] = a],
             NEW d \in Snapshots \cup {NoSnapshot},
             data' = [data EXCEPT ![t] = d],
             point \in Copies =>
                d \in Snapshots /\ d.otpNotes \in DOMAIN heap,
             editMutex = t => point \in savePoints
      PROVE  EditsType' /\ CallsType' /\ Guards'
    <2>1. EditsType'
        BY <1>b DEF EditsType
    <2>2. /\ CallsType' /\ pc'[t] = point
          /\ \A u \in Thread \ {t} : after(u)
        BY <1>b, CallMoves
    <2>3. Guards'
        BY <1>b, <2>2, GuardsStay
    <2> QED BY <2>1, <2>2, <2>3
<1>1. ASSUME NEW id \in HistIds, RemoveHist(t, id)
      PROVE  EditsType' /\ CallsType' /\ Guards'
    <2>1. [id |-> id, counter |-> 0] \in Args
        BY <1>a, IdTypes
    <2>2. editMutex # t
        BY <1>1 DEF RemoveHist, Guards, Editing
    <2> QED BY <1>0, <1>1, <1>b, <2>1, <2>2
            DEF RemoveHist, Goto, About, Copied, edits, Points, Editing, Copies
<1>2. ASSUME InstallHist(t)
      PROVE  EditsType' /\ CallsType' /\ Guards'
    <2> DEFINE d == RemovePasswHistory(data[t], arg[t].id)
    <2>1. d \in Snapshots /\ d.otpNotes \in DOMAIN heap
        BY <1>0, <1>2, RemovePasswHistoryType DEF InstallHist, Copies
    <2>2. memory' = memory \/ memory' = d
        BY <1>2 DEF InstallHist
    <2>3. /\ heap' = heap /\ editMutex' = editMutex
          /\ editMutex \in {NoOne, t} /\ pc[t] = "histCopied"
          /\ pc' = [pc EXCEPT ![t] = "save"]
          /\ arg' = [arg EXCEPT ![t] = NoArg]
          /\ data' = [data EXCEPT ![t] = NoSnapshot]
        BY <1>2 DEF InstallHist, Done, Goto, CanLock
    <2> HIDE DEF d
    <2>4. EditsType'
        BY <1>0, <2>1, <2>2, <2>3 DEF EditsType
    <2>5. /\ CallsType' /\ pc'[t] = "save"
          /\ \A u \in Thread \ {t} : after(u)
        BY <1>0, <2>3, CallMoves DEF Points, Copies
    <2>6. Guards'
        BY <1>0, <2>3, <2>5, GuardsOfOne DEF Editing
    <2> QED BY <2>4, <2>5, <2>6
<1>3. ASSUME LastGeneratedPassw(t)
      PROVE  EditsType' /\ CallsType' /\ Guards'
    <2> DEFINE gens == memory.generatedPassws
    <2>1. editMutex # t
        BY <1>3 DEF LastGeneratedPassw, Guards, Editing
    <2>4. /\ UNCHANGED <<memory, heap, editMutex>>
          /\ data' = [data EXCEPT ![t] = data[t]]
        BY <1>0, <1>3 DEF LastGeneratedPassw, edits
    <2>2. CASE gens = <<>>
        <3>1. /\ pc' = [pc EXCEPT ![t] = "generate"]
              /\ arg' = [arg EXCEPT ![t] = arg[t]]
            BY <1>0, <1>3, <2>2 DEF LastGeneratedPassw, Goto
        <3>2. "generate" \in Points \ Editing /\ "generate" \notin Copies
            BY DEF Points, Editing, Copies
        <3> QED BY <1>0, <1>b, <2>1, <2>4, <3>1, <3>2
    <2>3. CASE gens # <<>>
        <3>1. gens \in Seq(CryptedPassword)
            BY <1>0, SnapshotFields
        <3>2. gens[Len(gens)].id \in Nat
            BY <2>3, <3>1, IdTypes
        <3>3. [id |-> gens[Len(gens)].id, counter |-> 0] \in Args
            BY <1>a, <3>2
        <3>4. /\ pc' = [pc EXCEPT ![t] = "look"]
              /\ arg' = [arg EXCEPT ![t] =
                            [id |-> gens[Len(gens)].id, counter |-> 0]]
            BY <1>3, <2>3 DEF LastGeneratedPassw, Goto, About
        <3>5. "look" \in Points \ Editing /\ "look" \notin Copies
            BY DEF Points, Editing, Copies
        <3> QED BY <1>0, <1>b, <2>1, <2>4, <3>3, <3>4, <3>5
    <2> QED BY <2>2, <2>3
<1>4. ASSUME Look(t)
      PROVE  EditsType' /\ CallsType' /\ Guards'
    <2>1. editMutex # t
        BY <1>4 DEF Look, Guards, Editing
    <2>2. PICK point \in {"idle", "generate"} : pc' = [pc EXCEPT ![t] = point]
        BY <1>4 DEF Look, Done, Goto
    <2> QED BY <1>0, <1>4, <1>b, <2>1, <2>2
            DEF Look, Done, edits, Points, Editing, Copies
<1>5. ASSUME Generate(t)
      PROVE  EditsType' /\ CallsType' /\ Guards'
    <2>1. /\ heap' = heap /\ memory' = memory /\ editMutex' = t
          /\ editMutex = NoOne
          /\ pc' = [pc EXCEPT ![t] = "generating"]
          /\ arg' = [arg EXCEPT ![t] = arg[t]]
          /\ data' = [data EXCEPT ![t] = memory]
        BY <1>0, <1>5 DEF Generate, Goto, Copied
    <2>2. EditsType'
        BY <2>1 DEF EditsType
    <2>3. /\ CallsType' /\ pc'[t] = "generating" /\ data'[t] = memory
          /\ \A u \in Thread \ {t} : after(u)
        BY <1>0, <2>1, CallMoves DEF Points
    <2>4. Guards'
        BY <1>0, <2>1, <2>3, GuardsOfOne DEF Editing
    <2> QED BY <2>2, <2>3, <2>4
<1>6. ASSUME InstallGenerated(t)
      PROVE  EditsType' /\ CallsType' /\ Guards'
    <2>1. PICK passw \in Passws : memory' = GenPassword(data[t], passw, 0)
        BY <1>6 DEF InstallGenerated
    <2>2. /\ heap' = heap /\ editMutex \in {NoOne, t} /\ editMutex' = NoOne
          /\ pc' = [pc EXCEPT ![t] = "save"]
          /\ arg' = [arg EXCEPT ![t] = NoArg]
          /\ data' = [data EXCEPT ![t] = NoSnapshot]
          /\ pc[t] = "generating"
        BY <1>6 DEF InstallGenerated, Done, Goto, CanLock
    <2>3. memory' \in Snapshots /\ memory'.otpNotes \in DOMAIN heap
        BY <1>0, <2>1, <2>2, GenPasswordType DEF Copies
    <2>4. EditsType'
        BY <2>2, <2>3 DEF EditsType
    <2>5. /\ CallsType' /\ pc'[t] = "save"
          /\ \A u \in Thread \ {t} : after(u)
        BY <1>0, <2>2, CallMoves DEF Points, Copies
    <2>6. Guards'
        BY <1>0, <2>2, <2>5, GuardsOfOne DEF Editing
    <2> QED BY <2>4, <2>5, <2>6
<1>7. ASSUME NEW id \in Nat, MoveNote(t, id) \/ MoveOtpNote(t, id)
      PROVE  EditsType' /\ CallsType' /\ Guards'
    <2>1. editMutex # t
        BY <1>7 DEF MoveNote, MoveOtpNote, Guards, Editing
    <2>2. PICK point \in {"removeNote", "removeOtp"} :
              pc' = [pc EXCEPT ![t] = point]
        BY <1>7 DEF MoveNote, MoveOtpNote, Goto
    <2> QED BY <1>0, <1>7, <1>a, <1>b, <2>1, <2>2
            DEF MoveNote, MoveOtpNote, About, edits, Points, Editing, Copies
<1>8. ASSUME CopyNotes(t)
      PROVE  EditsType' /\ CallsType' /\ Guards'
    <2>1. CASE HasId(memory.notes, arg[t].id)
        <3>1. /\ heap' = heap /\ memory' = memory /\ editMutex' = t
              /\ editMutex = NoOne
              /\ pc' = [pc EXCEPT ![t] = "removingNote"]
              /\ arg' = [arg EXCEPT ![t] = arg[t]]
              /\ data' = [data EXCEPT ![t] = memory]
            BY <1>0, <1>8, <2>1 DEF CopyNotes, Goto, Copied
        <3>2. EditsType'
            BY <3>1 DEF EditsType
        <3>3. /\ CallsType' /\ pc'[t] = "removingNote" /\ data'[t] = memory
              /\ \A u \in Thread \ {t} : after(u)
            BY <1>0, <3>1, CallMoves DEF Points
        <3>4. Guards'
            BY <1>0, <3>1, <3>3, GuardsOfOne DEF Editing
        <3> QED BY <3>2, <3>3, <3>4
    <2>2. CASE ~ HasId(memory.notes, arg[t].id)
        <3>1. editMutex # t
            BY <1>0, <1>8 DEF CopyNotes
        <3> QED BY <1>0, <1>8, <1>b, <2>2, <3>1
                DEF CopyNotes, Done, Goto, Points, Editing, Copies
    <2> QED BY <2>1, <2>2
<1>9. ASSUME InstallNotes(t)
      PROVE  EditsType' /\ CallsType' /\ Guards'
    <2>1. /\ heap' = heap /\ editMutex \in {NoOne, t} /\ editMutex' = editMutex
          /\ pc' = [pc EXCEPT ![t] = "save"]
          /\ arg' = [arg EXCEPT ![t] = NoArg]
          /\ data' = [data EXCEPT ![t] = NoSnapshot]
          /\ pc[t] = "removingNote" /\ memory' = RemoveNote(data[t], arg[t].id)
        BY <1>9 DEF InstallNotes, Done, Goto, CanLock
    <2>2. memory' \in Snapshots /\ memory'.otpNotes \in DOMAIN heap
        BY <1>0, <2>1, RemoveNoteType DEF Copies
    <2>3. EditsType'
        BY <2>1, <2>2 DEF EditsType
    <2>4. /\ CallsType' /\ pc'[t] = "save"
          /\ \A u \in Thread \ {t} : after(u)
        BY <1>0, <2>1, CallMoves DEF Points, Copies
    <2>5. Guards'
        BY <1>0, <2>1, <2>4, GuardsOfOne DEF Editing
    <2> QED BY <2>3, <2>4, <2>5
<1>10. ASSUME CopyOtpNotes(t)
       PROVE  EditsType' /\ CallsType' /\ Guards'
    <2>1. CASE HasId(OtpList, arg[t].id)
        <3> DEFINE d == [memory EXCEPT !.otpNotes = Len(heap) + 1]
                   e == Erase(OtpList, arg[t].id)
        <3>1. /\ heap' = Append(heap, e) /\ memory' = memory /\ editMutex' = t
              /\ editMutex = NoOne
              /\ pc' = [pc EXCEPT ![t] = "removingOtp"]
              /\ arg' = [arg EXCEPT ![t] = arg[t]]
              /\ data' = [data EXCEPT ![t] = d]
            BY <1>0, <1>10, <2>1 DEF CopyOtpNotes, Goto
        <3>2. e \in Seq(CryptedOtpInfo)
            BY <2>1, IdTypes, EraseProperties
        <3>3. /\ d \in Snapshots /\ d.otpNotes = Len(heap) + 1
              /\ d = [memory EXCEPT !.otpNotes = d.otpNotes]
            BY <1>0 DEF Snapshots
        <3> HIDE DEF d, e
        <3>4. /\ heap' \in Seq(Seq(CryptedOtpInfo))
              /\ DOMAIN heap' = 1 .. Len(heap) + 1
            BY <3>1, <3>2 DEF EditsType
        <3>5. EditsType'
            BY <1>0, <3>1, <3>4 DEF EditsType
        <3>8. /\ DOMAIN heap \subseteq DOMAIN heap'
              /\ d.otpNotes \in DOMAIN heap'
            BY <1>0, <3>3, <3>4
        <3>6. /\ CallsType' /\ pc'[t] = "removingOtp" /\ data'[t] = d
              /\ \A u \in Thread \ {t} : after(u)
            BY <1>0, <3>1, <3>3, <3>8, CallMoves DEF Points
        <3>7. Guards'
            BY <1>0, <3>1, <3>3, <3>6, GuardsOfOne DEF Editing
        <3> QED BY <3>5, <3>6, <3>7
    <2>2. CASE ~ HasId(OtpList, arg[t].id)
        <3>1. editMutex # t
            BY <1>0, <1>10 DEF CopyOtpNotes
        <3> QED BY <1>0, <1>10, <1>b, <2>2, <3>1
                DEF CopyOtpNotes, Done, Goto, Points, Editing, Copies
    <2> QED BY <2>1, <2>2
<1>11. ASSUME InstallOtpNotes(t)
       PROVE  EditsType' /\ CallsType' /\ Guards'
    <2>1. /\ heap' = heap /\ editMutex \in {NoOne, t} /\ editMutex' = NoOne
          /\ pc' = [pc EXCEPT ![t] = "save"]
          /\ arg' = [arg EXCEPT ![t] = NoArg]
          /\ data' = [data EXCEPT ![t] = NoSnapshot]
          /\ pc[t] = "removingOtp" /\ memory' = data[t]
        BY <1>11 DEF InstallOtpNotes, Done, Goto, CanLock
    <2>2. memory' \in Snapshots /\ memory'.otpNotes \in DOMAIN heap
        BY <1>0, <2>1 DEF Copies
    <2>3. EditsType'
        BY <2>1, <2>2 DEF EditsType
    <2>4. /\ CallsType' /\ pc'[t] = "save"
          /\ \A u \in Thread \ {t} : after(u)
        BY <1>0, <2>1, CallMoves DEF Points, Copies
    <2>5. Guards'
        BY <1>0, <2>1, <2>4, GuardsOfOne DEF Editing
    <2> QED BY <2>3, <2>4, <2>5
<1>12. ASSUME NEW id \in Ids(OtpList), OtpNote(t, id)
       PROVE  EditsType' /\ CallsType' /\ Guards'
    <2> DEFINE c == OtpList[IndexOf(OtpList, id)].counter
    <2>1. HasId(OtpList, id)
        BY DEF Ids, HasId
    <2>2. OtpList \in Seq(CryptedOtpInfo) /\ id \in Nat
        BY IdTypes
    <2>3. OtpList[IndexOf(OtpList, id)] \in CryptedOtpInfo
        BY <2>1, <2>2, IndexOfType
    <2>4. [id |-> id, counter |-> c] \in Args
        BY <1>a, <2>2, <2>3 DEF CryptedOtpInfo
    <2>5. editMutex # t
        BY <1>12 DEF OtpNote, Guards, Editing
    <2> HIDE DEF c
    <2>6. arg' = [arg EXCEPT ![t] = [id |-> id, counter |-> c]]
        BY <1>12 DEF OtpNote, About, c
    <2> QED BY <1>0, <1>12, <1>b, <2>4, <2>5, <2>6
            DEF OtpNote, Goto, Copied, edits, Points, Editing, Copies
<1>13. ASSUME StoreCounter(t)
       PROVE  EditsType' /\ CallsType' /\ Guards'
    <2> DEFINE a == data[t].otpNotes
               list == heap[a]
               c == arg[t].counter + 1
               new == [list EXCEPT ![IndexOf(list, arg[t].id)].counter = c]
    <2>1. /\ heap' = [heap EXCEPT ![a] = new]
          /\ memory' = memory /\ editMutex' = editMutex
          /\ pc[t] = "counterRead"
          /\ pc' = [pc EXCEPT ![t] = "idle"]
          /\ arg' = [arg EXCEPT ![t] = NoArg]
          /\ data' = [data EXCEPT ![t] = NoSnapshot]
        BY <1>13 DEF StoreCounter, Done, Goto
    <2>2. a \in DOMAIN heap /\ c \in Nat /\ list \in Seq(CryptedOtpInfo)
        <3>1. a \in DOMAIN heap
            BY <1>0, <2>1 DEF Copies
        <3>2. list \in Seq(CryptedOtpInfo)
            BY <3>1 DEF EditsType
        <3>3. c \in Nat
            BY <1>0 DEF Args
        <3> QED BY <3>1, <3>2, <3>3
    <2>3. new \in Seq(CryptedOtpInfo)
        <3> HIDE DEF c, list
        <3>1. ASSUME NEW k \in DOMAIN list
              PROVE  [list[k] EXCEPT !.counter = c] \in CryptedOtpInfo
            <4>1. list[k] \in CryptedOtpInfo
                BY <2>2
            <4> QED BY <2>2, <4>1 DEF CryptedOtpInfo
        <3>2. new = [list EXCEPT ![IndexOf(list, arg[t].id)] =
                        [list[IndexOf(list, arg[t].id)] EXCEPT !.counter = c]]
            OBVIOUS
        <3> HIDE DEF new
        <3> QED BY <2>2, <3>1, <3>2, ReplaceType
    <2> HIDE DEF new, list, c, a
    <2>4. heap' \in Seq(Seq(CryptedOtpInfo)) /\ DOMAIN heap' = DOMAIN heap
        BY <2>1, <2>2, <2>3 DEF EditsType
    <2>5. EditsType'
        BY <1>0, <2>1, <2>4 DEF EditsType
    <2>6. /\ CallsType' /\ pc'[t] = "idle"
          /\ \A u \in Thread \ {t} : after(u)
        BY <1>0, <2>1, <2>4, CallMoves DEF Points, Copies
    <2>7. editMutex # t
        BY <2>1 DEF Guards, Editing
    <2>8. Guards'
        BY <2>1, <2>6, <2>7, GuardsStay DEF Editing
    <2> QED BY <2>5, <2>6, <2>8
<1>14. ASSUME SaveCopy(t) \/ OpenMain(t) \/ TakeSnapshot(t)
       PROVE  EditsType' /\ CallsType' /\ Guards'
    <2>1. PICK point \in {"copySaved", "opened", "writing"} :
              pc' = [pc EXCEPT ![t] = point]
        BY <1>14 DEF SaveCopy, OpenMain, TakeSnapshot, Goto
    <2>2. UNCHANGED <<memory, heap, editMutex, arg, data>>
        BY <1>14 DEF SaveCopy, OpenMain, TakeSnapshot, edits
    <2> QED BY <1>0, <1>b, <2>1, <2>2 DEF Points, Editing, Copies
<1>15. ASSUME Write(t)
       PROVE  EditsType' /\ CallsType' /\ Guards'
    BY <1>15 DEF Write, edits, EditsType, CallsType, Guards
<1>16. ASSUME Close(t)
       PROVE  EditsType' /\ CallsType' /\ Guards'
    <2>1. CASE editMutex = t
        <3>1. /\ heap' = heap /\ memory' = memory /\ editMutex' = NoOne
              /\ pc' = [pc EXCEPT ![t] = "save"]
              /\ arg' = [arg EXCEPT ![t] = arg[t]]
              /\ data' = [data EXCEPT ![t] = data[t]]
            BY <1>0, <1>16, <2>1 DEF Close, Goto
        <3>2. EditsType'
            BY <3>1 DEF EditsType
        <3>3. /\ CallsType' /\ pc'[t] = "save"
              /\ \A u \in Thread \ {t} : after(u)
            <4>1. "save" \in Points \ Copies
                BY DEF Points, Copies
            <4>2. arg[t] \in Args /\ data[t] \in Snapshots \cup {NoSnapshot}
                BY <1>0 DEF CallsType, Args
            <4> QED BY <1>0, <3>1, <4>1, <4>2, CallMoves
        <3>4. Guards'
            BY <1>0, <2>1, <3>1, <3>3, GuardsOfOne DEF Editing
        <3> QED BY <3>2, <3>3, <3>4
    <2>2. CASE editMutex # t
        <3>1. /\ UNCHANGED <<memory, heap, editMutex, arg, data>>
              /\ pc' = [pc EXCEPT ![t] = "idle"]
            BY <1>16, <2>2 DEF Close, Goto
        <3>2. "idle" \in Points \ Editing /\ "idle" \notin Copies
            BY DEF Points, Editing, Copies
        <3> QED BY <1>0, <1>b, <2>2, <3>1, <3>2
    <2> QED BY <2>1, <2>2
<1> QED BY <1>1, <1>2, <1>3, <1>4, <1>5, <1>6, <1>7, <1>8, <1>9, <1>10,
           <1>11, <1>12, <1>13, <1>14, <1>15, <1>16, IdTypes
        DEF Call, Step, Guarded, Save

\* a step of one call moves no other
LEMMA OthersStay ==
    ASSUME CallsType, NEW t \in Thread, Call(t) \/ Step(t),
           NEW u \in Thread \ {t}
    PROVE  pc'[u] = pc[u] /\ data'[u] = data[u] /\ arg'[u] = arg[u]
<1> DEFINE Same == pc'[u] = pc[u] /\ data'[u] = data[u] /\ arg'[u] = arg[u]
<1> USE DEF CallsType, Goto, Copied, About, Done
<1>1. CASE \E id : RemoveHist(t, id) \/ MoveNote(t, id) \/ MoveOtpNote(t, id)
    BY <1>1 DEF RemoveHist, MoveNote, MoveOtpNote
<1>2. CASE \E id : OtpNote(t, id)
    BY <1>2 DEF OtpNote
<1>3. CASE InstallHist(t)
    BY <1>3 DEF InstallHist
<1>4. CASE LastGeneratedPassw(t) \/ Look(t)
    BY <1>4 DEF LastGeneratedPassw, Look
<1>5. CASE Generate(t) \/ InstallGenerated(t)
    BY <1>5 DEF Generate, InstallGenerated
<1>6. CASE CopyNotes(t) \/ InstallNotes(t)
    BY <1>6 DEF CopyNotes, InstallNotes
<1>7. CASE CopyOtpNotes(t) \/ InstallOtpNotes(t)
    BY <1>7 DEF CopyOtpNotes, InstallOtpNotes
<1>8. CASE StoreCounter(t)
    BY <1>8 DEF StoreCounter
<1>9. CASE Save(t)
    BY <1>9 DEF Save, SaveCopy, OpenMain, TakeSnapshot, Write, Close
<1> QED BY <1>1, <1>2, <1>3, <1>4, <1>5, <1>6, <1>7, <1>8, <1>9
        DEF Call, Step, Guarded

LEMMA FilesStep ==
    ASSUME EditsType, FilesType, NEW t \in Thread, Call(t) \/ Step(t)
    PROVE  FilesType'
<1>1. CASE Write(t)
    <2> DEFINE left == cells[t].left
    <2>1. left \in Seq(Cell) /\ left # <<>> /\ cells[t].at \in Nat \ {0}
        BY <1>1 DEF Write, FilesType
    <2>2. Head(left) \in Cell /\ Tail(left) \in Seq(Cell)
        BY <2>1
    <2>3. main' \in Seq(Cell \cup {Hole})
        BY <1>1, <2>1, <2>2, PutType DEF Write, FilesType
    <2>4. [left |-> Tail(left), at |-> cells[t].at + 1]
              \in [left : Seq(Cell), at : Nat \ {0}]
        BY <2>1, <2>2
    <2> QED BY <1>1, <2>3, <2>4 DEF Write, FilesType
<1>2. CASE TakeSnapshot(t)
    <2>1. Cells(memory, heap) \in Seq(Cell)
        BY CellsAreWhole DEF EditsType
    <2>2. [left |-> Cells(memory, heap), at |-> 1]
              \in [left : Seq(Cell), at : Nat \ {0}]
        BY <2>1
    <2> QED BY <1>2, <2>2 DEF TakeSnapshot, FilesType, files
<1>3. CASE Close(t)
    <2>1. [left |-> <<>>, at |-> 1] \in [left : Seq(Cell), at : Nat \ {0}]
        OBVIOUS
    <2> QED BY <1>3, <2>1 DEF Close, FilesType
<1>4. CASE OpenMain(t)
    BY <1>4 DEF OpenMain, FilesType
<1>13. CASE SaveCopy(t)
    BY <1>13 DEF SaveCopy, FilesType
<1>5. CASE \E id : RemoveHist(t, id) \/ MoveNote(t, id) \/ MoveOtpNote(t, id)
    BY <1>5 DEF RemoveHist, MoveNote, MoveOtpNote, FilesType, files
<1>6. CASE \E id : OtpNote(t, id)
    BY <1>6 DEF OtpNote, FilesType, files
<1>7. CASE InstallHist(t)
    BY <1>7 DEF InstallHist, FilesType, files
<1>8. CASE LastGeneratedPassw(t) \/ Look(t)
    BY <1>8 DEF LastGeneratedPassw, Look, FilesType, files
<1>9. CASE Generate(t) \/ InstallGenerated(t)
    BY <1>9 DEF Generate, InstallGenerated, FilesType, files
<1>10. CASE CopyNotes(t) \/ InstallNotes(t)
    BY <1>10 DEF CopyNotes, InstallNotes, FilesType, files
<1>11. CASE CopyOtpNotes(t) \/ InstallOtpNotes(t)
    BY <1>11 DEF CopyOtpNotes, InstallOtpNotes, FilesType, files
<1>12. CASE StoreCounter(t)
    BY <1>12 DEF StoreCounter, FilesType, files
<1> QED BY <1>1, <1>2, <1>3, <1>4, <1>5, <1>6, <1>7, <1>8, <1>9, <1>10,
           <1>11, <1>12, <1>13 DEF Call, Step, Guarded, Save

-----------------------------------------------------------------------------
(* Codes *)

\* a step of a call that reads no counter and replaces no list
LEMMA CodesStay ==
    ASSUME Codes, NEW t \in Thread, ~ ReadingCode(t),
           pc'[t] \notin {"counterRead", "removingOtp"},
           \A u \in Thread \ {t} :
              pc'[u] = pc[u] /\ data'[u] = data[u] /\ arg'[u] = arg[u],
           codeRaced => codeRaced', heap' = heap,
           memory'.otpNotes = memory.otpNotes
    PROVE  Codes'
<1> SUFFICES ASSUME ~ codeRaced', NEW u \in Thread, ReadingCode(u)'
             PROVE  Alone(u)'
    BY DEF Codes
<1>1. u # t /\ ReadingCode(u) /\ data'[u] = data[u] /\ arg'[u] = arg[u]
    BY DEF ReadingCode
<1>2. Alone(u)
    BY <1>1 DEF Codes
<1>3. OtpList' = OtpList
    BY DEF OtpList
<1>4. ASSUME NEW v \in Thread
      PROVE  (ReadingCode(v)' => v = u) /\ pc'[v] # "removingOtp"
    BY <1>2 DEF Alone, ReadingCode
<1> QED BY <1>1, <1>2, <1>3, <1>4 DEF Alone

LEMMA CodesStep ==
    ASSUME EditsType, CallsType, Guards, Codes, NEW t \in Thread,
           Call(t) \/ Step(t)
    PROVE  Codes'
<1>0. \A u \in Thread \ {t} :
          pc'[u] = pc[u] /\ data'[u] = data[u] /\ arg'[u] = arg[u]
    BY OthersStay
\* nobody reads a counter: there is nothing to show
<1>a. ASSUME ~ codeRaced' => \A u \in Thread : ReadingCode(u) => u = t,
             pc'[t] # "counterRead"
      PROVE  Codes'
    BY <1>0, <1>a DEF Codes, ReadingCode
<1>b. t \in DOMAIN pc
    BY DEF CallsType
<1>1. CASE \E id : RemoveHist(t, id) \/ MoveNote(t, id) \/ MoveOtpNote(t, id)
    BY <1>0, <1>1, <1>b, CodesStay
       DEF RemoveHist, MoveNote, MoveOtpNote, Goto, edits, ReadingCode
<1>2. CASE \E id \in Ids(OtpList) : OtpNote(t, id)
    <2>1. PICK id \in Ids(OtpList) : OtpNote(t, id)
        BY <1>2
    <2>2. HasId(OtpList, id)
        BY DEF Ids, HasId
    <2>3. /\ pc'[t] = "counterRead" /\ data'[t] = memory
          /\ arg'[t].id = id
          /\ arg'[t].counter = OtpList[IndexOf(OtpList, id)].counter
          /\ memory' = memory /\ heap' = heap
          /\ codeRaced' = (\E u \in Thread :
                              ReadingCode(u) \/ pc[u] = "removingOtp")
        BY <2>1 DEF OtpNote, Copied, About, Goto, edits, CallsType
    <2>4. OtpList' = OtpList
        BY <2>3 DEF OtpList
    <2>5. ASSUME ~ codeRaced', NEW u \in Thread
          PROVE  (ReadingCode(u)' => u = t) /\ pc'[u] # "removingOtp"
        BY <1>0, <2>3, <2>5 DEF ReadingCode
    <2>6. ~ codeRaced' => Alone(t)'
        BY <2>2, <2>3, <2>4, <2>5 DEF Alone
    <2> QED BY <2>5, <2>6 DEF Codes
<1>3. CASE InstallHist(t)
    <2>1. pc'[t] = "save" /\ ~ ReadingCode(t) /\ heap' = heap
        BY <1>3, <1>b DEF InstallHist, Done, Goto, ReadingCode
    <2>2. CASE memory'.otpNotes = memory.otpNotes
        BY <1>0, <1>3, <2>1, <2>2, CodesStay DEF InstallHist
    <2>3. CASE memory'.otpNotes # memory.otpNotes
        BY <1>3, <1>a, <2>1, <2>3 DEF InstallHist
    <2> QED BY <2>2, <2>3
<1>4. CASE LastGeneratedPassw(t) \/ Look(t)
    <2>1. pc'[t] \in {"generate", "look", "idle"}
        BY <1>4, <1>b DEF LastGeneratedPassw, Look, Goto, Done
    <2> QED BY <1>0, <1>4, <2>1, CodesStay
            DEF LastGeneratedPassw, Look, edits, ReadingCode
<1>5. CASE Generate(t)
    BY <1>0, <1>5, <1>b, CodesStay DEF Generate, Goto, ReadingCode
<1>6. CASE InstallGenerated(t)
    <2>1. PICK passw \in Passws : memory' = GenPassword(data[t], passw, 0)
        BY <1>6 DEF InstallGenerated
    <2>2. data[t] = memory /\ memory \in Snapshots
        BY <1>6 DEF InstallGenerated, Guards, EditsType
    <2>3. memory'.otpNotes = memory.otpNotes
        BY <2>1, <2>2, GenPasswordType
    <2> QED BY <1>0, <1>6, <1>b, <2>3, CodesStay
            DEF InstallGenerated, Done, Goto, ReadingCode
<1>7. CASE CopyNotes(t)
    <2>1. pc'[t] \in {"removingNote", "save"}
        BY <1>7, <1>b DEF CopyNotes, Done, Goto
    <2> QED BY <1>0, <1>7, <2>1, CodesStay DEF CopyNotes, ReadingCode
<1>8. CASE InstallNotes(t)
    <2>1. data[t] = memory /\ memory \in Snapshots
        BY <1>8 DEF InstallNotes, Guards, EditsType
    <2>2. memory'.otpNotes = memory.otpNotes
        BY <1>8, <2>1, RemoveNoteType DEF InstallNotes
    <2> QED BY <1>0, <1>8, <1>b, <2>2, CodesStay
            DEF InstallNotes, Done, Goto, ReadingCode
<1>9. CASE CopyOtpNotes(t)
    <2>1. CASE HasId(OtpList, arg[t].id)
        <3>1. /\ pc'[t] = "removingOtp"
              /\ codeRaced' = (codeRaced \/ \E u \in Thread : ReadingCode(u))
            BY <1>9, <1>b, <2>1 DEF CopyOtpNotes, Goto
        <3>2. ASSUME ~ codeRaced', NEW u \in Thread
              PROVE  ~ ReadingCode(u)
            BY <3>1, <3>2
        <3> QED BY <1>a, <3>1, <3>2
    <2>2. CASE ~ HasId(OtpList, arg[t].id)
        BY <1>0, <1>9, <1>b, <2>2, CodesStay
           DEF CopyOtpNotes, Done, Goto, ReadingCode
    <2> QED BY <2>1, <2>2
<1>10. CASE InstallOtpNotes(t)
    <2>1. /\ pc[t] = "removingOtp" /\ pc'[t] = "save"
          /\ codeRaced' = codeRaced
        BY <1>10, <1>b DEF InstallOtpNotes, Done, Goto
    <2>2. ~ codeRaced => \A u \in Thread : ~ ReadingCode(u)
        BY <2>1 DEF Codes, Alone
    <2> QED BY <1>a, <2>1, <2>2
<1>11. CASE StoreCounter(t)
    <2>1. /\ ReadingCode(t) /\ pc'[t] = "idle" /\ codeRaced' = codeRaced
        BY <1>11, <1>b DEF StoreCounter, Done, Goto, ReadingCode
    <2>2. ~ codeRaced => \A u \in Thread : ReadingCode(u) => u = t
        BY <2>1 DEF Codes, Alone
    <2> QED BY <1>a, <2>1, <2>2
<1>12. CASE SaveCopy(t) \/ OpenMain(t) \/ TakeSnapshot(t)
    <2>1. pc'[t] \in {"copySaved", "opened", "writing"}
        BY <1>12, <1>b DEF SaveCopy, OpenMain, TakeSnapshot, Goto
    <2>2. UNCHANGED <<memory, heap, codeRaced>> /\ ~ ReadingCode(t)
        BY <1>12 DEF SaveCopy, OpenMain, TakeSnapshot, edits, ReadingCode
    <2> QED BY <1>0, <2>1, <2>2, CodesStay
<1>13. CASE Write(t)
    BY <1>0, <1>13, CodesStay DEF Write, edits, ReadingCode
<1>14. CASE Close(t)
    <2>1. pc'[t] \in {"idle", "save"}
        BY <1>14, <1>b DEF Close, Goto
    <2> QED BY <1>0, <1>14, <2>1, CodesStay DEF Close, ReadingCode
<1> QED BY <1>1, <1>2, <1>3, <1>4, <1>5, <1>6, <1>7, <1>8, <1>9, <1>10,
           <1>11, <1>12, <1>13, <1>14 DEF Call, Step, Guarded, Save

-----------------------------------------------------------------------------
(* Saves *)

\* a step of a call that is not at a save, or about to begin one
LEMMA SavesStay ==
    ASSUME Saves, NEW t \in Thread,
           UNCHANGED <<main, copy, saveRaced, cells>>,
           pc[t] \notin {"save", "copySaved", "opened", "writing"},
           pc'[t] \notin {"copySaved", "opened", "writing"},
           \A u \in Thread \ {t} : pc'[u] = pc[u],
           pc'[t] = "save" \/ Cells(memory, heap)' = Cells(memory, heap)
    PROVE  Saves'
<1>1. \A u \in Thread : /\ Saving(u)' <=> Saving(u)
                        /\ pc'[u] = "opened" <=> pc[u] = "opened"
                        /\ pc'[u] = "writing" <=> pc[u] = "writing"
                        /\ pc[u] \in {"save", "copySaved", "opened"} =>
                              pc'[u] \in {"save", "copySaved", "opened"}
    BY DEF Saving
<1> SUFFICES ASSUME ~ saveRaced
             PROVE  /\ \A u \in Thread : Saving(u)' => SavesAlone(u)'
                    /\ (\A u \in Thread : ~ Saving(u)') => Whole(main)'
                    /\ WillBeSaved'
    BY DEF Saves
<1>2. ASSUME NEW u \in Thread, Saving(u)'
      PROVE  SavesAlone(u)'
    <2>1. SavesAlone(u)
        BY <1>1, <1>2 DEF Saves
    <2> QED BY <1>1, <2>1 DEF SavesAlone, Whole
<1>3. ASSUME \A u \in Thread : ~ Saving(u)'
      PROVE  Whole(main)'
    <2>1. Whole(main)
        BY <1>1, <1>3 DEF Saves
    <2> QED BY <2>1 DEF Whole
<1>4. WillBeSaved'
    <2>1. CASE pc'[t] = "save"
        BY <2>1 DEF WillBeSaved
    <2>2. CASE Cells(memory, heap)' = Cells(memory, heap)
        <3>1. WillBeSaved
            BY DEF Saves
        <3>2. CASE \E u \in Thread : pc[u] \in {"save", "copySaved", "opened"}
            BY <1>1, <3>2 DEF WillBeSaved
        <3>3. CASE \E u \in Thread :
                      /\ pc[u] = "writing"
                      /\ main \o cells[u].left = Cells(memory, heap)
            BY <1>1, <2>2, <3>3 DEF WillBeSaved
        <3>4. CASE /\ \A u \in Thread : pc[u] # "writing"
                   /\ main = Cells(memory, heap)
            BY <1>1, <2>2, <3>4 DEF WillBeSaved
        <3> QED BY <3>1, <3>2, <3>3, <3>4 DEF WillBeSaved
    <2> QED BY <2>1, <2>2
<1> QED BY <1>2, <1>3, <1>4

LEMMA SavesStep ==
    ASSUME TypeInv, Saves, NEW t \in Thread, Call(t) \/ Step(t)
    PROVE  Saves'
<1>0. \A u \in Thread \ {t} : pc'[u] = pc[u]
    BY OthersStay DEF TypeInv
<1>a. t \in DOMAIN pc /\ t \in DOMAIN cells /\ pc[t] \in Points
    BY DEF TypeInv, CallsType, FilesType
<1>b. ASSUME UNCHANGED <<memory, heap>>
      PROVE  Cells(memory, heap)' = Cells(memory, heap)
    BY <1>b
<1>1. CASE \E id : \/ RemoveHist(t, id) \/ MoveNote(t, id)
                   \/ MoveOtpNote(t, id) \/ OtpNote(t, id)
    <2>1. pc'[t] \in {"histCopied", "removeNote", "removeOtp", "counterRead"}
        BY <1>1, <1>a DEF RemoveHist, MoveNote, MoveOtpNote, OtpNote, Goto
    <2>2. /\ UNCHANGED <<main, copy, saveRaced, cells, memory, heap>>
          /\ pc[t] = "idle"
        BY <1>1 DEF RemoveHist, MoveNote, MoveOtpNote, OtpNote, files, edits
    <2> QED BY <1>0, <1>b, <2>1, <2>2, SavesStay
<1>2. CASE LastGeneratedPassw(t) \/ Look(t) \/ Generate(t)
    <2>1. pc'[t] \in {"generate", "look", "idle", "generating"}
        BY <1>2, <1>a DEF LastGeneratedPassw, Look, Generate, Goto, Done
    <2>2. /\ UNCHANGED <<main, copy, saveRaced, cells, memory, heap>>
          /\ pc[t] \in {"idle", "look", "generate"}
        BY <1>2 DEF LastGeneratedPassw, Look, Generate, files, edits
    <2> QED BY <1>0, <1>b, <2>1, <2>2, SavesStay
<1>3. CASE InstallHist(t) \/ InstallGenerated(t) \/ InstallNotes(t)
           \/ InstallOtpNotes(t)
    <2>1. /\ UNCHANGED <<main, copy, saveRaced, cells>>
          /\ pc[t] \in {"histCopied", "generating", "removingNote",
                        "removingOtp"}
          /\ pc'[t] = "save"
        BY <1>3, <1>a DEF InstallHist, InstallGenerated, InstallNotes,
                          InstallOtpNotes, Done, Goto, files
    <2> QED BY <1>0, <2>1, SavesStay
<1>4. CASE CopyNotes(t)
    <2>1. /\ UNCHANGED <<main, copy, saveRaced, cells, memory, heap>>
          /\ pc[t] = "removeNote" /\ pc'[t] \in {"removingNote", "save"}
        BY <1>4, <1>a DEF CopyNotes, Done, Goto, files
    <2> QED BY <1>0, <1>b, <2>1, SavesStay
<1>5. CASE CopyOtpNotes(t)
    <2>1. /\ UNCHANGED <<main, copy, saveRaced, cells, memory>>
          /\ pc[t] = "removeOtp" /\ pc'[t] \in {"removingOtp", "save"}
          /\ \/ heap' = heap
             \/ /\ HasId(OtpList, arg[t].id)
                /\ heap' = Append(heap, Erase(OtpList, arg[t].id))
        BY <1>5, <1>a DEF CopyOtpNotes, Done, Goto, files
    <2>2. heap'[memory.otpNotes] = heap[memory.otpNotes]
        <3> DEFINE e == Erase(OtpList, arg[t].id)
        <3>1. /\ heap \in Seq(Seq(CryptedOtpInfo))
              /\ memory.otpNotes \in 1 .. Len(heap)
            BY DEF TypeInv, EditsType
        <3>2. HasId(OtpList, arg[t].id) => e \in Seq(CryptedOtpInfo)
            BY IdTypes, EraseProperties DEF TypeInv
        <3>3. \/ heap' = heap
              \/ e \in Seq(CryptedOtpInfo) /\ heap' = Append(heap, e)
            BY <2>1, <3>2
        <3> HIDE DEF e
        <3> QED BY <3>1, <3>3
    <2>3. Cells(memory, heap') = Cells(memory, heap)
        BY <2>2, SameCells
    <2> QED BY <1>0, <2>1, <2>3, SavesStay
<1>6. CASE StoreCounter(t)
    <2> DEFINE a == data[t].otpNotes
               list == heap[a]
               i == IndexOf(list, arg[t].id)
               c == arg[t].counter + 1
               o == memory.otpNotes
    <2>1. /\ UNCHANGED <<main, copy, saveRaced, cells, memory>>
          /\ pc[t] = "counterRead" /\ pc'[t] = "idle"
          /\ heap' = [heap EXCEPT ![a] = [list EXCEPT ![i].counter = c]]
        BY <1>6, <1>a DEF StoreCounter, Done, Goto, files
    <2> HIDE DEF i, c
    <2>2. o \in DOMAIN heap /\ heap[o] \in Seq(CryptedOtpInfo)
        BY DEF TypeInv, EditsType
    <2>3. CASE o # a
        <3>1. heap'[o] = heap[o]
            BY <2>1, <2>2, <2>3
        <3>2. Cells(memory, heap') = Cells(memory, heap)
            BY <3>1, SameCells
        <3> QED BY <1>0, <2>1, <3>2, SavesStay
    <2>4. CASE o = a
        <3>1. heap'[o] = [heap[o] EXCEPT ![i].counter = c]
            BY <2>1, <2>2, <2>4
        <3>2. DOMAIN heap'[o] = DOMAIN heap[o]
            BY <3>1
        <3>3. ASSUME NEW k \in DOMAIN heap[o]
              PROVE  [heap'[o][k] EXCEPT !.counter = 0]
                        = [heap[o][k] EXCEPT !.counter = 0]
            <4>1. heap[o][k] \in CryptedOtpInfo
                BY <2>2
            <4>2. \/ heap'[o][k] = heap[o][k]
                  \/ heap'[o][k] = [heap[o][k] EXCEPT !.counter = c]
                BY <3>1
            <4> QED BY <4>1, <4>2 DEF CryptedOtpInfo
        <3>4. Cells(memory, heap') = Cells(memory, heap)
            BY <3>2, <3>3, SameCells
        <3> QED BY <1>0, <2>1, <3>4, SavesStay
    <2> QED BY <2>3, <2>4
<1>7. CASE SaveCopy(t)
    <2>1. /\ pc[t] = "save" /\ pc'[t] = "copySaved" /\ copy' = TRUE
          /\ saveRaced' = (\E u \in Thread : Saving(u))
        BY <1>7, <1>a DEF SaveCopy, Goto
    <2>2. ASSUME ~ saveRaced', NEW u \in Thread
          PROVE  Saving(u)' <=> u = t
        <3>1. ~ Saving(u)
            BY <2>1, <2>2
        <3> QED BY <1>0, <2>1, <3>1 DEF Saving
    <2>3. ~ saveRaced' => SavesAlone(t)'
        BY <2>1, <2>2 DEF SavesAlone
    <2>4. WillBeSaved'
        BY <2>1 DEF WillBeSaved
    <2>5. Saving(t)'
        BY <2>1 DEF Saving
    <2> QED BY <2>2, <2>3, <2>4, <2>5 DEF Saves
<1>c. ASSUME Saving(t), ~ saveRaced
      PROVE  /\ copy /\ \A u \in Thread : Saving(u) => u = t
             /\ pc[t] = "opened" => main = <<>>
             /\ pc[t] = "writing" => /\ cells[t].at = Len(main) + 1
                                     /\ Whole(main \o cells[t].left)
    BY <1>c DEF Saves, SavesAlone
<1>8. CASE OpenMain(t)
    <2>1. /\ pc[t] = "copySaved" /\ pc'[t] = "opened" /\ main' = <<>>
          /\ copy' = copy /\ saveRaced' = saveRaced
        BY <1>8, <1>a DEF OpenMain, Goto
    <2>2. Saving(t) /\ Saving(t)'
        BY <2>1 DEF Saving
    <2>3. ASSUME ~ saveRaced', NEW u \in Thread, Saving(u)'
          PROVE  u = t
        BY <1>0, <1>c, <2>1, <2>2, <2>3 DEF Saving
    <2>4. ~ saveRaced' => SavesAlone(t)'
        BY <1>c, <2>1, <2>2, <2>3 DEF SavesAlone
    <2>5. WillBeSaved'
        BY <2>1 DEF WillBeSaved
    <2> QED BY <2>2, <2>3, <2>4, <2>5 DEF Saves
<1>9. CASE TakeSnapshot(t)
    <2>1. /\ pc[t] = "opened" /\ pc'[t] = "writing"
          /\ cells'[t] = [left |-> Cells(memory, heap), at |-> 1]
          /\ UNCHANGED <<main, copy, saveRaced, memory, heap>>
        BY <1>9, <1>a DEF TakeSnapshot, Goto, edits, files
    <2>2. Saving(t) /\ Saving(t)'
        BY <2>1 DEF Saving
    <2>3. ASSUME ~ saveRaced', NEW u \in Thread, Saving(u)'
          PROVE  u = t
        BY <1>0, <1>c, <2>1, <2>2, <2>3 DEF Saving
    <2>4. Cells(memory, heap) \in Seq(Cell) /\ Whole(Cells(memory, heap))
        BY CellsAreWhole DEF TypeInv, EditsType
    <2>5. ASSUME ~ saveRaced'
          PROVE  /\ main' = <<>> /\ cells'[t].at = Len(main') + 1
                 /\ main' \o cells'[t].left = Cells(memory, heap)
        <3>1. main' = <<>>
            BY <1>c, <2>1, <2>2, <2>5
        <3> HIDE DEF Cell
        <3> QED BY <2>1, <2>4, <3>1
    <2>6. ~ saveRaced' => SavesAlone(t)'
        BY <1>c, <2>1, <2>2, <2>3, <2>4, <2>5 DEF SavesAlone
    <2>7. ~ saveRaced' => WillBeSaved'
        BY <1>b, <2>1, <2>5 DEF WillBeSaved
    <2> QED BY <2>2, <2>3, <2>6, <2>7 DEF Saves
<1>10. CASE Write(t)
    <2> DEFINE left == cells[t].left
    <2>1. /\ pc[t] = "writing" /\ pc' = pc /\ left # <<>>
          /\ main' = Put(main, cells[t].at, Head(left))
          /\ cells' = [cells EXCEPT ![t] =
                          [left |-> Tail(left), at |-> cells[t].at + 1]]
          /\ UNCHANGED <<copy, saveRaced, memory, heap>>
        BY <1>10 DEF Write, edits
    <2>2. Saving(t) /\ \A u \in Thread : Saving(u)' <=> Saving(u)
        BY <2>1 DEF Saving
    <2>3. /\ left \in Seq(Cell) /\ main \in Seq(Cell \cup {Hole})
          /\ left \in Seq(Cell \cup {Hole})
          /\ cells[t].at \in Nat \ {0}
        BY DEF TypeInv, FilesType
    <2>4. Head(left) \in Cell \cup {Hole}
        BY <2>1, <2>3
    <2> HIDE DEF left
    <2>5. ASSUME ~ saveRaced
          PROVE  /\ main' = Append(main, Head(left))
                 /\ cells'[t].at = Len(main') + 1
                 /\ main' \o cells'[t].left = main \o left
        <3>1. cells[t].at = Len(main) + 1
            BY <1>c, <2>1, <2>2, <2>5
        <3>2. main' = Append(main, Head(left))
            <4> DEFINE S == Cell \cup {Hole}
            <4>1. /\ main \in Seq(S) /\ Hole \in S /\ Head(left) \in S
                  /\ cells[t].at \in Nat /\ cells[t].at # 0
                BY <2>3, <2>4
            <4> HIDE DEF S
            <4> QED BY <2>1, <3>1, <4>1, PutType
        <3>3. cells'[t] = [left |-> Tail(left), at |-> cells[t].at + 1]
            BY <1>a, <2>1
        <3>4. Append(main, Head(left)) \o Tail(left) = main \o left
            BY <2>1, <2>3, <2>4
        <3>5. Len(main') = Len(main) + 1 /\ Len(main) \in Nat
            BY <2>3, <2>4, <3>2
        <3>6. cells'[t].at = cells[t].at + 1 /\ cells'[t].left = Tail(left)
            BY <3>3
        <3>7. cells'[t].at = Len(main') + 1
            BY <3>1, <3>5, <3>6
        <3>8. main' \o cells'[t].left = main \o left
            BY <3>2, <3>4, <3>6
        <3> QED BY <3>2, <3>7, <3>8
    <2>6. ~ saveRaced => SavesAlone(t)'
        <3>1. ASSUME ~ saveRaced
              PROVE  /\ copy' /\ \A u \in Thread : Saving(u)' => u = t
                     /\ Whole(main \o left) /\ pc'[t] = "writing"
            BY <1>c, <2>1, <2>2, <3>1 DEF left
        <3> QED BY <2>5, <3>1 DEF SavesAlone
    <2>7. ~ saveRaced => WillBeSaved'
        <3> SUFFICES ASSUME ~ saveRaced
                     PROVE  WillBeSaved'
            OBVIOUS
        <3>1. WillBeSaved
            BY DEF Saves
        <3>2. Cells(memory, heap)' = Cells(memory, heap)
            BY <1>b, <2>1
        <3>3. CASE \E u \in Thread : pc[u] \in {"save", "copySaved", "opened"}
            BY <2>1, <3>3 DEF WillBeSaved
        <3>4. CASE \E u \in Thread :
                      /\ pc[u] = "writing"
                      /\ main \o cells[u].left = Cells(memory, heap)
            <4>1. PICK u \in Thread :
                      /\ pc[u] = "writing"
                      /\ main \o cells[u].left = Cells(memory, heap)
                BY <3>4
            <4>2. u = t
                BY <1>c, <2>2, <4>1 DEF Saving
            <4>3. main' \o cells'[t].left = Cells(memory, heap)
                BY <2>5, <4>1, <4>2 DEF left
            <4> QED BY <2>1, <3>2, <4>3 DEF WillBeSaved
        <3>5. CASE \A u \in Thread : pc[u] # "writing"
            BY <2>1, <3>5
        <3> QED BY <3>1, <3>3, <3>4, <3>5 DEF WillBeSaved
    <2>8. saveRaced' = saveRaced
        BY <2>1
    <2>9. ASSUME ~ saveRaced', NEW u \in Thread, Saving(u)'
          PROVE  SavesAlone(u)'
        BY <1>c, <2>2, <2>6, <2>8, <2>9
    <2> QED BY <2>2, <2>7, <2>8, <2>9 DEF Saves
<1>11. CASE Close(t)
    <2>1. /\ pc[t] = "writing" /\ cells[t].left = <<>>
          /\ UNCHANGED <<main, saveRaced, memory, heap>>
          /\ pc'[t] \in {"idle", "save"}
        BY <1>11, <1>a DEF Close, Goto
    <2>2. Saving(t) /\ ~ Saving(t)'
        BY <2>1 DEF Saving
    <2>3. ASSUME ~ saveRaced', NEW u \in Thread
          PROVE  ~ Saving(u)' /\ pc'[u] # "writing"
        <3>1. CASE u = t
            BY <2>1, <2>2, <3>1
        <3>2. CASE u # t
            BY <1>0, <1>c, <2>1, <2>2, <2>3, <3>2 DEF Saving
        <3> QED BY <3>1, <3>2
    <2>4. main \o cells[t].left = main
        BY <2>1 DEF TypeInv, FilesType
    <2>5. ~ saveRaced' => Whole(main)
        BY <1>c, <2>1, <2>2, <2>4
    <2>6. ~ saveRaced' => WillBeSaved'
        <3> SUFFICES ASSUME ~ saveRaced
                     PROVE  WillBeSaved'
            BY <2>1
        <3>1. WillBeSaved
            BY DEF Saves
        <3>2. Cells(memory, heap)' = Cells(memory, heap)
            BY <1>b, <2>1
        <3>3. CASE \E u \in Thread : pc[u] \in {"save", "copySaved", "opened"}
            <4>1. PICK u \in Thread : pc[u] \in {"save", "copySaved", "opened"}
                BY <3>3
            <4>2. u # t
                BY <2>1, <4>1
            <4> QED BY <1>0, <4>1, <4>2 DEF WillBeSaved
        <3>4. CASE \E u \in Thread :
                      /\ pc[u] = "writing"
                      /\ main \o cells[u].left = Cells(memory, heap)
            <4>1. PICK u \in Thread :
                      /\ pc[u] = "writing"
                      /\ main \o cells[u].left = Cells(memory, heap)
                BY <3>4
            <4>2. u = t
                BY <1>c, <2>2, <4>1 DEF Saving
            <4>3. main = Cells(memory, heap)
                BY <2>4, <4>1, <4>2
            <4> QED BY <2>1, <2>3, <3>2, <4>3 DEF WillBeSaved
        <3>5. CASE \A u \in Thread : pc[u] # "writing"
            BY <2>1, <3>5
        <3> QED BY <3>1, <3>3, <3>4, <3>5 DEF WillBeSaved
    <2>7. ~ saveRaced' => Whole(main)'
        BY <2>1, <2>5
    <2> QED BY <2>3, <2>6, <2>7 DEF Saves
<1> QED BY <1>1, <1>2, <1>3, <1>4, <1>5, <1>6, <1>7, <1>8, <1>9, <1>10, <1>11
        DEF Call, Step, Guarded, Save

-----------------------------------------------------------------------------
(* The invariant, and the theorems *)

LEMMA Initially == Init => IInv
<1> SUFFICES ASSUME Init
             PROVE  IInv
    OBVIOUS
<1>1. PICK d \in DataSnapshot : /\ memory = [d EXCEPT !.otpNotes = 1]
                                /\ heap = <<d.otpNotes>>
    BY StartAssumption DEF Init
<1>2. d.otpNotes \in Seq(CryptedOtpInfo) /\ memory \in Snapshots
      /\ memory.otpNotes = 1
    BY <1>1 DEF DataSnapshot, Snapshots
<1>3. heap \in Seq(Seq(CryptedOtpInfo)) /\ DOMAIN heap = 1 .. 1
    BY <1>1, <1>2
<1>4. EditsType
    BY <1>2, <1>3 DEF EditsType, Init
<1>5. CallsType
    <2>1. NoArg \in Args
        BY DEF NoArg, Args
    <2> QED BY <2>1 DEF CallsType, Init, Points, Copies, Args
<1>6. Cells(memory, heap) \in Seq(Cell) /\ Whole(Cells(memory, heap))
    BY <1>4, CellsAreWhole DEF EditsType
<1>7. FilesType
    <2>1. main \in Seq(Cell \cup {Hole})
        BY <1>6 DEF Init
    <2>2. [left |-> <<>>, at |-> 1] \in [left : Seq(Cell), at : Nat \ {0}]
        OBVIOUS
    <2> QED BY <2>1, <2>2 DEF FilesType, Init
<1>8. \A t \in Thread : pc[t] = "idle"
    BY DEF Init
<1>9. Guards
    BY <1>8, NoOneAssumption DEF Guards, Editing, Init
<1>10. Codes
    BY <1>8 DEF Codes, ReadingCode
<1>11. main = Cells(memory, heap)
    BY DEF Init
<1>12. Saves
    BY <1>6, <1>8, <1>11 DEF Saves, Saving, WillBeSaved
<1> QED BY <1>4, <1>5, <1>7, <1>9, <1>10, <1>12 DEF IInv, TypeInv

LEMMA Inductive == IInv /\ [Next]_vars => IInv'
<1> SUFFICES ASSUME IInv, [Next]_vars
             PROVE  IInv'
    OBVIOUS
<1> USE DEF IInv
<1>1. CASE Next
    <2>1. PICK t \in Thread : Call(t) \/ Step(t)
        BY <1>1 DEF Next
    <2>2. EditsType' /\ CallsType' /\ Guards'
        BY <2>1, SnapshotStep DEF TypeInv
    <2>3. FilesType'
        BY <2>1, FilesStep DEF TypeInv
    <2>4. Codes'
        BY <2>1, CodesStep DEF TypeInv
    <2>5. Saves'
        BY <2>1, SavesStep
    <2> QED BY <2>2, <2>3, <2>4, <2>5 DEF TypeInv
<1>2. CASE UNCHANGED vars
    <2> USE <1>2 DEF vars, edits, files, calls
    <2>1. TypeInv'
        BY DEF TypeInv, EditsType, CallsType, FilesType
    <2>2. Guards'
        BY DEF Guards
    <2>3. Codes'
        BY DEF Codes, Alone, ReadingCode, OtpList
    <2>4. Saves'
        <3>1. Cells(memory, heap)' = Cells(memory, heap)
            OBVIOUS
        <3>2. /\ Whole(main)' <=> Whole(main)
              /\ \A t \in Thread : Saving(t)' <=> Saving(t)
            BY DEF Whole, Saving
        <3>3. ASSUME NEW t \in Thread
              PROVE  SavesAlone(t)' <=> SavesAlone(t)
            <4> DEFINE all == main \o cells[t].left
            <4>1. Whole(all)' <=> Whole(all)
                BY DEF Whole
            <4> HIDE DEF all
            <4>2. all = main \o cells[t].left /\ all' = main' \o cells'[t].left
                BY DEF all
            <4> QED BY <3>2, <4>1, <4>2 DEF SavesAlone
        <3>4. WillBeSaved' <=> WillBeSaved
            BY <3>1 DEF WillBeSaved
        <3> QED BY <3>2, <3>3, <3>4 DEF Saves
    <2> QED BY <2>1, <2>2, <2>3, <2>4
<1> QED BY <1>1, <1>2

THEOREM Invariance == Spec => []IInv
    BY Initially, Inductive, PTL DEF Spec

\* removeNote, genPassword and moveOtpNote, which hold editMutex, work on the
\* snapshot as it is when their edit is installed: no edit in between is
\* undone by them.
THEOREM EditsUndoNothing == Spec => GuardedEditsUndoNothing
<1>1. ASSUME IInv, NEW t \in Thread
      PROVE  /\ InstallGenerated(t) =>
                  \E passw \in Passws : memory' = GenPassword(memory, passw, 0)
             /\ InstallNotes(t) => memory' = RemoveNote(memory, arg[t].id)
             /\ InstallOtpNotes(t) =>
                  memory' = [memory EXCEPT !.otpNotes = memory'.otpNotes]
    <2>1. ASSUME InstallGenerated(t)
          PROVE  \E passw \in Passws : memory' = GenPassword(memory, passw, 0)
        <3>1. data[t] = memory
            BY <1>1, <2>1 DEF IInv, Guards, InstallGenerated
        <3> QED BY <2>1, <3>1 DEF InstallGenerated
    <2>2. ASSUME InstallNotes(t)
          PROVE  memory' = RemoveNote(memory, arg[t].id)
        <3>1. data[t] = memory
            BY <1>1, <2>2 DEF IInv, Guards, InstallNotes
        <3> QED BY <2>2, <3>1 DEF InstallNotes
    <2>3. ASSUME InstallOtpNotes(t)
          PROVE  memory' = [memory EXCEPT !.otpNotes = memory'.otpNotes]
        BY <1>1, <2>3 DEF IInv, Guards, InstallOtpNotes
    <2> QED BY <2>1, <2>2, <2>3
<1>2. IInv => [\A t \in Thread :
        /\ InstallGenerated(t) =>
              \E passw \in Passws : memory' = GenPassword(memory, passw, 0)
        /\ InstallNotes(t) => memory' = RemoveNote(memory, arg[t].id)
        /\ InstallOtpNotes(t) =>
              memory' = [memory EXCEPT !.otpNotes = memory'.otpNotes]]_vars
    BY <1>1
<1> QED BY <1>2, Invariance, PTL DEF GuardedEditsUndoNothing

LEMMA SameIndex ==
    ASSUME NEW list, NEW other, NEW id, DOMAIN other = DOMAIN list,
           \A k \in DOMAIN list : other[k].id = list[k].id
    PROVE  IndexOf(other, id) = IndexOf(list, id)
<1>1. \A k : (k \in DOMAIN other /\ other[k].id = id)
                <=> (k \in DOMAIN list /\ list[k].id = id)
    OBVIOUS
<1> QED BY <1>1 DEF IndexOf

\* otpNote advances the counter of a HOTP note by one, unless another code,
\* a copy of the list or an older list that comes back gets in between.
THEOREM CodesAdvance == Spec => LoneCodesAdvance
<1>1. ASSUME IInv, NEW t \in Thread, StoreCounter(t), ~ codeRaced
      PROVE  LET id == arg[t].id
             IN  HasId(OtpList, id) =>
                    OtpList'[IndexOf(OtpList', id)].counter
                        = OtpList[IndexOf(OtpList, id)].counter + 1
    <2> DEFINE id == arg[t].id
               o == memory.otpNotes
               i == IndexOf(OtpList, id)
               c == arg[t].counter
    <2>1. ReadingCode(t)
        BY <1>1 DEF StoreCounter, ReadingCode
    <2>2. /\ data[t].otpNotes = o /\ HasId(OtpList, id)
          /\ OtpList[i].counter = c
        BY <1>1, <2>1 DEF IInv, Codes, Alone
    <2>3. /\ memory' = memory
          /\ heap' = [heap EXCEPT ![o] = [OtpList EXCEPT ![i].counter = c + 1]]
        BY <1>1, <2>2 DEF StoreCounter, OtpList
    <2>4. o \in DOMAIN heap /\ OtpList \in Seq(CryptedOtpInfo)
        BY <1>1, IdTypes DEF IInv, TypeInv, EditsType
    <2>5. i \in 1 .. Len(OtpList)
        BY <2>2, <2>4, IndexOfType
    <2> HIDE DEF i
    <2>6. OtpList' = [OtpList EXCEPT ![i].counter = c + 1]
        BY <2>3, <2>4 DEF OtpList
    <2>7. \A k \in DOMAIN OtpList : OtpList[k] \in CryptedOtpInfo
        BY <2>4
    <2>8. /\ DOMAIN OtpList' = DOMAIN OtpList
          /\ \A k \in DOMAIN OtpList : OtpList'[k].id = OtpList[k].id
        BY <2>6, <2>7 DEF CryptedOtpInfo
    <2>9. IndexOf(OtpList', id) = i
        BY <2>8, SameIndex DEF i
    <2>10. OtpList'[i].counter = c + 1
        <3>1. OtpList[i] \in CryptedOtpInfo /\ i \in DOMAIN OtpList
            BY <2>4, <2>5
        <3> QED BY <2>6, <3>1 DEF CryptedOtpInfo
    <2> QED BY <2>2, <2>9, <2>10 DEF i
<1>2. IInv => [\A t \in Thread : StoreCounter(t) /\ ~ codeRaced =>
        LET id == arg[t].id
        IN  HasId(OtpList, id) =>
              OtpList'[IndexOf(OtpList', id)].counter
                  = OtpList[IndexOf(OtpList, id)].counter + 1]_vars
    BY <1>1
<1> QED BY <1>2, Invariance, PTL DEF LoneCodesAdvance

\* When all calls have returned and no two saves overlapped, the file holds
\* what the memory holds.
THEOREM SavesAreCurrent == Spec => []LoneSavesAreCurrent
<1>1. IInv => LoneSavesAreCurrent
    <2> SUFFICES ASSUME IInv, Quiet, ~ saveRaced
                 PROVE  main = Cells(memory, heap)
        BY DEF LoneSavesAreCurrent
    <2> QED BY DEF IInv, Saves, WillBeSaved, Quiet
<1> QED BY <1>1, Invariance, PTL

\* While a save writes, the copy is there; without overlapping saves the
\* file is whole as soon as the copy is removed.
THEOREM SavesKeepACopy == Spec => []LoneSavesKeepACopy
<1>1. IInv => LoneSavesKeepACopy
    <2> SUFFICES ASSUME IInv, ~ saveRaced, ~ copy
                 PROVE  Whole(main)
        BY DEF LoneSavesKeepACopy
    <2> QED BY DEF IInv, Saves, SavesAlone
<1> QED BY <1>1, Invariance, PTL
=============================================================================
