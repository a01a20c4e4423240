------------------------ MODULE CrypStorageV2_proofs ------------------------
(***************************************************************************)
(* Theorems about the native engine, for any set of storages and any       *)
(* bounds: every unlocked storage is typed, its id counters are ahead of   *)
(* its ids, no two of its items share an id, no item, in memory or in a    *)
(* file, is in a colour group that is gone unless a caller named that group *)
(* to a storage without it, histories are in order, and no call but        *)
(* removeHist loses a password of a note.  When saves work, the file holds *)
(* what memory holds, and a move loses no item.                            *)
(***************************************************************************)
EXTENDS CrypStorageV2, KeyStorage2_proofs

-----------------------------------------------------------------------------
(* Resolved groups *)

LEMMA ResolvedByGroups ==
    ASSUME NEW x, NEW o
    PROVE  ResolvedBut(x, o) <=>
              /\ Groups(x.notes) \subseteq GroupsOf(x) \cup o
              /\ Groups(x.otpNotes) \subseteq GroupsOf(x) \cup o
    BY DEF ResolvedBut, Groups

LEMMA WithinResolved ==
    ASSUME NEW d, NEW e, NEW g, NEW o, NEW p,
           ResolvedBut(d, o), Within(d, e, g),
           o \cup ({g} \ GroupsOf(d)) \subseteq p
    PROVE  ResolvedBut(e, p)
<1>1. /\ Groups(d.notes) \subseteq GroupsOf(d) \cup o
      /\ Groups(d.otpNotes) \subseteq GroupsOf(d) \cup o
    BY ResolvedByGroups
<1>2. GroupsOf(d) \subseteq GroupsOf(e) /\ 0 \in GroupsOf(e)
    BY DEF Within, GroupsOf
<1>3. GroupsOf(d) \cup o \cup {0, g} \subseteq GroupsOf(e) \cup p
    BY <1>2
<1>4. /\ Groups(e.notes) \subseteq GroupsOf(e) \cup p
      /\ Groups(e.otpNotes) \subseteq GroupsOf(e) \cup p
    BY <1>1, <1>3 DEF Within
<1> QED BY <1>4, ResolvedByGroups

LEMMA FreedResolved ==
    ASSUME NEW d, NEW e, NEW g, NEW o, ResolvedBut(d, o), Freed(d, e, g)
    PROVE  ResolvedBut(e, o)
    BY ResolvedByGroups DEF Freed, GroupsOf

\* naming more groups excuses no less
LEMMA ResolvedStill ==
    ASSUME NEW x, NEW o, NEW p, ResolvedBut(x, o), o \subseteq p
    PROVE  ResolvedBut(x, p)
    BY ResolvedByGroups

LEMMA WithinTwice ==
    ASSUME NEW d, NEW e, NEW f, Within(d, e, 0), Within(e, f, 0)
    PROVE  Within(d, f, 0)
    BY DEF Within

LEMMA FilesResolved ==
    ASSUME NEW o
    PROVE  /\ \A f \in FileSections :
                 ResolvedBut(f, o) => ResolvedBut(ReadAll(f), o)
           /\ \A d \in DataSnapshot :
                 ResolvedBut(d, o) => ResolvedBut(FileOf(d), o)
<1>1. ASSUME NEW f \in FileSections, ResolvedBut(f, o)
      PROVE  ResolvedBut(ReadAll(f), o)
    BY <1>1, ReadAllGroups, ResolvedByGroups DEF GroupsOf
<1>2. ASSUME NEW d \in DataSnapshot, ResolvedBut(d, o)
      PROVE  ResolvedBut(FileOf(d), o)
    BY <1>2, FileOfGroups, ResolvedByGroups DEF GroupsOf
<1> QED BY <1>1, <1>2

-----------------------------------------------------------------------------
(* Snapshots that only this module's actions build *)

LEMMA RegroupNotesSound ==
    ASSUME NEW d, Sound(d), NEW ids, NEW groupId \in Int
    PROVE  /\ Sound([d EXCEPT !.notes = Regroup(@, ids, groupId)])
           /\ Within(d, [d EXCEPT !.notes = Regroup(@, ids, groupId)], groupId)
<1> DEFINE n == d.idCounter
           notes == Regroup(d.notes, ids, groupId)
<1>1. /\ d.notes \in Seq(CryptedNote) /\ n \in Nat
      /\ Distinct(d.notes) /\ DistinctHistories(d.notes)
      /\ Ids(d.notes) \cap HistoryIds(d.notes) = {}
    BY SnapshotParts DEF Sound, NoSharedIds
<1>2. /\ notes \in Seq(CryptedNote) /\ DOMAIN notes = DOMAIN d.notes
      /\ \A k \in DOMAIN d.notes :
            /\ notes[k].id = d.notes[k].id
            /\ notes[k].history = d.notes[k].history
      /\ Groups(notes) \subseteq Groups(d.notes) \cup {0, groupId}
    <2>1. \A x \in CryptedNote :
            /\ [x EXCEPT !.colorGroupId = groupId].colorGroupId = groupId
            /\ [x EXCEPT !.colorGroupId = groupId] \in CryptedNote
            /\ [x EXCEPT !.colorGroupId = groupId].id = x.id
            /\ [x EXCEPT !.colorGroupId = groupId].history = x.history
        BY NoteOutOfGroup
    <2>2. /\ notes = [k \in 1 .. Len(d.notes) |-> notes[k]]
          /\ \A k \in DOMAIN d.notes :
                /\ notes[k] = IF d.notes[k].id \in ids
                              THEN [d.notes[k] EXCEPT !.colorGroupId = groupId]
                              ELSE d.notes[k]
                /\ d.notes[k] \in CryptedNote
        BY <1>1 DEF Regroup
    <2> HIDE DEF notes
    <2>3. \A k \in DOMAIN d.notes :
            /\ notes[k] \in CryptedNote
            /\ notes[k].id = d.notes[k].id
            /\ notes[k].history = d.notes[k].history
        BY <2>1, <2>2
    <2>4. \A k \in DOMAIN d.notes : notes[k] \in CryptedNote
        BY <2>3
    <2>5. notes \in Seq(CryptedNote) /\ DOMAIN notes = DOMAIN d.notes
        BY <1>1, <2>2, <2>4, Relisted
    <2>6. \A k \in DOMAIN d.notes :
            notes[k].colorGroupId \in {d.notes[k].colorGroupId, groupId}
        BY <2>1, <2>2
    <2>7. Groups(notes) \subseteq Groups(d.notes) \cup {0, groupId}
        BY <2>5, <2>6 DEF Groups
    <2> QED BY <2>3, <2>5, <2>7
<1>3. [d EXCEPT !.notes = Regroup(@, ids, groupId)] =
        [d EXCEPT !.idCounter = n, !.notes = notes]
    BY DEF Sound, DataSnapshot
<1> HIDE DEF notes, n
<1>4. /\ Ids(notes) = Ids(d.notes) /\ Distinct(notes)
      /\ HistoryIds(notes) = HistoryIds(d.notes)
      /\ DistinctHistories(notes)
    BY <1>1, <1>2, SameIds, SameHistories
<1>5. /\ Ids(notes) \subseteq Ids(d.notes) \cup (d.idCounter .. (n - 1))
      /\ HistoryIds(notes) \subseteq
            HistoryIds(d.notes) \cup (d.idCounter .. (n - 1))
      /\ Ids(notes) \cap HistoryIds(notes) = {}
    BY <1>1, <1>4
<1>6. d.idCounter <= n
    BY <1>1 DEF n
<1>7. Sound([d EXCEPT !.idCounter = n, !.notes = notes])
    BY <1>1, <1>2, <1>4, <1>5, <1>6, NewNotes
<1>8. Within(d, [d EXCEPT !.idCounter = n, !.notes = notes], groupId)
    BY <1>2, WithinNotes
<1> QED BY <1>3, <1>7, <1>8

LEMMA RegroupOtpNotesSound ==
    ASSUME NEW d, Sound(d), NEW ids, NEW groupId \in Int
    PROVE  /\ Sound([d EXCEPT !.otpNotes = Regroup(@, ids, groupId)])
           /\ Within(d, [d EXCEPT !.otpNotes = Regroup(@, ids, groupId)],
                     groupId)
<1> DEFINE n == d.idCounter
           otps == Regroup(d.otpNotes, ids, groupId)
<1>1. /\ d.otpNotes \in Seq(CryptedOtpInfo) /\ n \in Nat
      /\ Distinct(d.otpNotes)
    BY SnapshotParts DEF Sound, NoSharedIds
<1>2. /\ otps \in Seq(CryptedOtpInfo) /\ DOMAIN otps = DOMAIN d.otpNotes
      /\ \A k \in DOMAIN d.otpNotes : otps[k].id = d.otpNotes[k].id
      /\ Groups(otps) \subseteq Groups(d.otpNotes) \cup {0, groupId}
    <2>1. \A x \in CryptedOtpInfo :
            /\ [x EXCEPT !.colorGroupId = groupId].colorGroupId = groupId
            /\ [x EXCEPT !.colorGroupId = groupId] \in CryptedOtpInfo
            /\ [x EXCEPT !.colorGroupId = groupId].id = x.id
        BY OtpNoteOutOfGroup
    <2>2. /\ otps = [k \in 1 .. Len(d.otpNotes) |-> otps[k]]
          /\ \A k \in DOMAIN d.otpNotes :
                /\ otps[k] = IF d.otpNotes[k].id \in ids
                             THEN [d.otpNotes[k] EXCEPT !.colorGroupId = groupId]
                             ELSE d.otpNotes[k]
                /\ d.otpNotes[k] \in CryptedOtpInfo
        BY <1>1 DEF Regroup
    <2> HIDE DEF otps
    <2>3. \A k \in DOMAIN d.otpNotes :
            otps[k] \in CryptedOtpInfo /\ otps[k].id = d.otpNotes[k].id
        BY <2>1, <2>2
    <2>4. otps \in Seq(CryptedOtpInfo) /\ DOMAIN otps = DOMAIN d.otpNotes
        BY <1>1, <2>2, <2>3, Relisted
    <2>5. \A k \in DOMAIN d.otpNotes :
            otps[k].colorGroupId \in {d.otpNotes[k].colorGroupId, groupId}
        BY <2>1, <2>2
    <2>6. Groups(otps) \subseteq Groups(d.otpNotes) \cup {0, groupId}
        BY <2>4, <2>5 DEF Groups
    <2> QED BY <2>3, <2>4, <2>6
<1>3. [d EXCEPT !.otpNotes = Regroup(@, ids, groupId)] =
        [d EXCEPT !.idCounter = n, !.otpNotes = otps]
    BY DEF Sound, DataSnapshot
<1> HIDE DEF otps, n
<1>4. Ids(otps) = Ids(d.otpNotes) /\ Distinct(otps)
    BY <1>1, <1>2, SameIds
<1>5. d.idCounter <= n
    BY <1>1 DEF n
<1>6. Sound([d EXCEPT !.idCounter = n, !.otpNotes = otps])
    BY <1>1, <1>2, <1>4, <1>5, NewOtpNotes
<1>7. Within(d, [d EXCEPT !.idCounter = n, !.otpNotes = otps], groupId)
    BY <1>2, WithinOtpNotes
<1> QED BY <1>3, <1>6, <1>7

\* the calls of removeOldHist are a fold of RemovePasswHistory
LEMMA WithoutOldSound ==
    ASSUME NEW d, Sound(d), NEW oldest
    PROVE  /\ Sound(WithoutOld(d, oldest))
           /\ Within(d, WithoutOld(d, oldest), 0)
           /\ WithoutOld(d, oldest).notes = d.notes
<1> DEFINE hist == d.generatedPassws
           n == Len(hist)
           Step(k, x) == IF hist[k].genTime < oldest
                         THEN RemovePasswHistory(x, hist[k].id) ELSE x
           Run(g, m) == /\ g = [k \in 0 .. m |-> g[k]]
                        /\ g[0] = d
                        /\ \A k \in 1 .. m : g[k] = Step(k, g[k - 1])
           left == CHOOSE g : g = [k \in 0 .. n |->
                        IF k = 0 THEN d
                        ELSE IF hist[k].genTime < oldest
                        THEN RemovePasswHistory(g[k - 1], hist[k].id)
                        ELSE g[k - 1]]
<1>1. n \in Nat
    BY SnapshotParts DEF Sound
<1>2. WithoutOld(d, oldest) = left[n]
    BY DEF WithoutOld
<1>3. \E g : Run(g, n)
    <2> DEFINE runs == {m \in Nat : \E g : Run(g, m)}
    <2> HIDE DEF Step
    <2>1. 0 \in runs
        <3>1. Run([k \in 0 .. 0 |-> d], 0)
            OBVIOUS
        <3> QED BY <3>1
    <2>2. ASSUME NEW m \in runs
          PROVE  m + 1 \in runs
        <3>1. PICK g : Run(g, m)
            OBVIOUS
        <3>0. /\ m \in Nat /\ m \in 0 .. m /\ (m + 1) - 1 = m
              /\ 0 \in 0 .. m
            OBVIOUS
        <3> HIDE DEF runs
        <3> DEFINE h == [k \in 0 .. m + 1 |->
                            IF k = m + 1 THEN Step(m + 1, g[m]) ELSE g[k]]
        <3>2. /\ h = [k \in 0 .. m + 1 |-> h[k]]
              /\ h[0] = g[0] /\ h[m + 1] = Step(m + 1, g[m])
              /\ \A k \in 0 .. m : h[k] = g[k]
            BY <3>0
        <3> HIDE DEF h
        <3>3. ASSUME NEW k \in 1 .. m + 1
              PROVE  h[k] = Step(k, h[k - 1])
            <4>1. k = m + 1 \/ k \in 1 .. m
                BY <3>0
            <4>2. CASE k = m + 1
                <5>1. k - 1 = m /\ h[m] = g[m]
                    BY <3>0, <3>2, <4>2
                <5> QED BY <3>2, <4>2, <5>1
            <4>3. CASE k \in 1 .. m
                <5>1. k - 1 \in 0 .. m /\ k \in 0 .. m
                    BY <3>0, <4>3
                <5>2. h[k] = g[k] /\ h[k - 1] = g[k - 1]
                    BY <3>2, <5>1
                <5>3. g[k] = Step(k, g[k - 1])
                    BY <3>1, <4>3
                <5> QED BY <5>2, <5>3
            <4> QED BY <4>1, <4>2, <4>3
        <3>4. Run(h, m + 1)
            <4>1. h[0] = d
                BY <3>1, <3>2
            <4>2. \A k \in 1 .. m + 1 : h[k] = Step(k, h[k - 1])
                BY <3>3
            <4>3. h = [k \in 0 .. m + 1 |-> h[k]]
                BY <3>2
            <4> QED BY <4>1, <4>2, <4>3, Zenon
        <3> HIDE DEF Run
        <3> QED BY <3>0, <3>4 DEF runs
    <2>3. runs \in SUBSET Nat
        OBVIOUS
    <2> HIDE DEF runs
    <2>4. runs = Nat
        BY <2>1, <2>2, <2>3, SetInduction
    <2> QED BY <1>1, <2>4 DEF runs
<1>4. /\ left[0] = d
      /\ \A k \in 1 .. n : left[k] = Step(k, left[k - 1])
    <2> DEFINE body(g) == [k \in 0 .. n |->
                        IF k = 0 THEN d
                        ELSE IF hist[k].genTime < oldest
                        THEN RemovePasswHistory(g[k - 1], hist[k].id)
                        ELSE g[k - 1]]
    <2> HIDE DEF hist, n
    <2>1. PICK g : Run(g, n)
        BY <1>3
    <2>2. /\ g = [k \in 0 .. n |-> g[k]]
          /\ g[0] = d
          /\ \A k \in 1 .. n : g[k] = Step(k, g[k - 1])
        BY <2>1
    <2>3. g = body(g)
        <3>1. ASSUME NEW k \in 0 .. n
              PROVE  g[k] = body(g)[k]
            <4>1. k = 0 \/ (k # 0 /\ k \in 1 .. n)
                BY <1>1
            <4> QED BY <2>2, <4>1
        <3>2. body(g) = [k \in 0 .. n |-> body(g)[k]]
            OBVIOUS
        <3> HIDE DEF body
        <3> QED BY <2>2, <3>1, <3>2
    <2>4. left = body(left)
        BY <2>3
    <2> HIDE DEF left
    <2>5. \A k \in 0 .. n : left[k] = body(left)[k]
        BY <2>4
    <2> QED BY <1>1, <2>5
<1> HIDE DEF left, n
<1> DEFINE Fine(x) == /\ Sound(x) /\ Within(d, x, 0)
                      /\ x.notes = d.notes
<1>6. \A k \in 1 .. n : hist[k].id \notin HistoryIds(d.notes)
    <2>1. hist \in Seq(CryptedPassword)
        BY SnapshotParts DEF Sound
    <2>2. \A k \in 1 .. n : hist[k].id \in Ids(hist)
        BY <2>1 DEF Ids, n
    <2> QED BY <2>2 DEF Sound, NoSharedIds
<1>5. n \in {k \in Nat : k <= n => Fine(left[k])}
    <2> DEFINE sound == {k \in Nat : k <= n => Fine(left[k])}
    <2>1. 0 \in sound
        BY <1>4, WithinItself
    <2>2. ASSUME NEW k \in sound
          PROVE  k + 1 \in sound
        <3> SUFFICES ASSUME k + 1 <= n
                     PROVE  Fine(left[k + 1])
            OBVIOUS
        <3>1. /\ Fine(left[k]) /\ k + 1 \in 1 .. n /\ (k + 1) - 1 = k
              /\ k \in Nat
            BY <1>1
        <3>2. left[k + 1] = Step(k + 1, left[k])
            BY <1>4, <3>1
        <3>3. Fine(RemovePasswHistory(left[k], hist[k + 1].id))
            BY <1>6, <3>1, RemovePasswHistorySound, WithinTwice,
               RemovePasswHistoryNotes DEF Sound
        <3> QED BY <3>1, <3>2, <3>3
    <2>3. sound \in SUBSET Nat
        OBVIOUS
    <2> HIDE DEF sound, Fine
    <2>4. sound = Nat
        BY <2>1, <2>2, <2>3, SetInduction
    <2> QED BY <1>1, <2>4 DEF sound
<1> QED BY <1>1, <1>2, <1>5

-----------------------------------------------------------------------------
(* The invariant *)

Good(d, o) == Sound(d) /\ ResolvedBut(d, o)

IInv ==
    /\ TypeOK
    /\ \A s \in Storages :
        /\ LoggedIn(s) => Good(storages[s], strays[s])
        /\ file[s] # NoFile => ResolvedBut(file[s], strays[s])

LEMMA InitIInv == Init => IInv
    BY DEF Init, IInv, TypeOK, LoggedIn

\* what a call that names no group leaves of a good snapshot
LEMMA WithinZeroGood ==
    ASSUME NEW d, NEW o, Good(d, o), NEW e, Sound(e), Within(d, e, 0)
    PROVE  Good(e, o)
<1>1. {0} \ GroupsOf(d) = {}
    BY DEF GroupsOf
<1> QED BY <1>1, WithinResolved DEF Good

\* A call that leaves a good snapshot and saves it.  At most it adds to the
\* groups callers have named.
LEMMA InstalledIInv ==
    ASSUME IInv, NEW s \in Storages, NEW d, Installed(s, d),
           NEW o \in SUBSET Int, Good(d, o), strays[s] \subseteq o,
           strays' = [strays EXCEPT ![s] = o]
    PROVE  IInv'
<1>1. /\ d \in DataSnapshot /\ FileOf(d) \in FileSections
      /\ ResolvedBut(FileOf(d), o)
    BY FileOfType, FilesResolved DEF Good, Sound
<1>2. /\ storages' = [storages EXCEPT ![s] = d] /\ now' = now
      /\ file' = [file EXCEPT ![s] = FileOf(d)] \/ file' = file
    BY DEF Installed
<1>3. TypeOK'
    BY <1>1, <1>2 DEF IInv, TypeOK
<1>4. ASSUME NEW x \in Storages
      PROVE  strays'[x] = IF x = s THEN o ELSE strays[x]
    BY DEF IInv, TypeOK
<1>5. ASSUME NEW x \in Storages, LoggedIn(x)'
      PROVE  Good(storages'[x], strays'[x])
    <2>1. storages'[x] = IF x = s THEN d ELSE storages[x]
        BY <1>2 DEF IInv, TypeOK
    <2>2. CASE x = s
        BY <1>4, <2>1, <2>2
    <2>3. CASE x # s
        BY <1>4, <1>5, <2>1, <2>3 DEF IInv, LoggedIn
    <2> QED BY <2>2, <2>3
<1>6. ASSUME NEW x \in Storages, file'[x] # NoFile
      PROVE  ResolvedBut(file'[x], strays'[x])
    <2>1. file'[x] = file[x] \/ (x = s /\ file'[x] = FileOf(d))
        BY <1>2 DEF IInv, TypeOK
    <2>2. CASE x = s /\ file'[x] = FileOf(d)
        BY <1>1, <1>4, <2>2
    <2>3. CASE file'[x] = file[x]
        <3>1. ResolvedBut(file[x], strays[x])
            BY <1>6, <2>3 DEF IInv
        <3>2. strays[x] \subseteq strays'[x]
            BY <1>4
        <3> QED BY <2>3, <3>1, <3>2, ResolvedStill
    <2> QED BY <2>1, <2>2, <2>3
<1> QED BY <1>3, <1>5, <1>6 DEF IInv

LEMMA SavedIInv ==
    ASSUME IInv, NEW s \in Storages, NEW d, Good(d, strays[s]), Saved(s, d)
    PROVE  IInv'
<1>1. /\ strays[s] \in SUBSET Int
      /\ strays' = [strays EXCEPT ![s] = strays[s]]
    BY DEF Saved, IInv, TypeOK
<1> QED BY <1>1, InstalledIInv DEF Saved

LEMMA SavedWithin ==
    ASSUME IInv, NEW s \in Storages, LoggedIn(s), NEW g \in Int,
           NEW d, Sound(d), Within(storages[s], d, g), SavedInGroup(s, d, g)
    PROVE  IInv'
<1> DEFINE o == strays[s] \cup ({g} \ GroupsOf(storages[s]))
<1>1. /\ o \in SUBSET Int /\ strays[s] \subseteq o
      /\ strays' = [strays EXCEPT ![s] = o]
    BY DEF SavedInGroup, IInv, TypeOK
<1>2. ResolvedBut(storages[s], strays[s])
    BY DEF IInv, Good
<1>3. Good(d, o)
    BY <1>2, WithinResolved DEF Good
<1> HIDE DEF o
<1> QED BY <1>1, <1>3, InstalledIInv DEF SavedInGroup

LEMMA SavedWithinZero ==
    ASSUME IInv, NEW s \in Storages, LoggedIn(s),
           NEW d, Sound(d), Within(storages[s], d, 0), Saved(s, d)
    PROVE  IInv'
<1>1. Good(d, strays[s])
    BY WithinZeroGood DEF IInv
<1> QED BY <1>1, SavedIInv

\* both ends of a move are good
LEMMA MovedIInv ==
    ASSUME IInv, NEW s \in Storages, NEW t \in Storages,
           NEW source, NEW target,
           Good(source, strays[s]), Good(target, strays[t]),
           Moved(s, t, source, target)
    PROVE  IInv'
<1>1. /\ source \in DataSnapshot /\ FileOf(source) \in FileSections
      /\ target \in DataSnapshot /\ FileOf(target) \in FileSections
      /\ ResolvedBut(FileOf(source), strays[s])
      /\ ResolvedBut(FileOf(target), strays[t])
    BY FileOfType, FilesResolved DEF Good, Sound
<1>2. /\ storages' = [storages EXCEPT ![t] = target, ![s] = source]
      /\ now' = now /\ strays' = strays
    BY DEF Moved
<1>3. PICK targetOk \in SaveOutcomes, sourceOk \in SaveOutcomes :
        file' = [file EXCEPT
             ![t] = IF targetOk THEN FileOf(target) ELSE @,
             ![s] = IF sourceOk THEN FileOf(source) ELSE @]
    BY DEF Moved
<1>4. TypeOK'
    <2>1. file' \in [Storages -> FileSections \cup {NoFile}]
        BY <1>1, <1>3 DEF IInv, TypeOK
    <2>2. storages' \in [Storages -> DataSnapshot \cup {LoggedOut}]
        BY <1>1, <1>2 DEF IInv, TypeOK
    <2> QED BY <1>2, <2>1, <2>2 DEF IInv, TypeOK
<1>5. ASSUME NEW x \in Storages, LoggedIn(x)'
      PROVE  Good(storages'[x], strays'[x])
    <2>1. storages'[x] = IF x = s THEN source
                         ELSE IF x = t THEN target ELSE storages[x]
        BY <1>2 DEF IInv, TypeOK
    <2>2. CASE x = s
        BY <1>2, <2>1, <2>2
    <2>3. CASE x # s /\ x = t
        BY <1>2, <2>1, <2>3
    <2>4. CASE x # s /\ x # t
        BY <1>2, <1>5, <2>1, <2>4 DEF IInv, LoggedIn
    <2> QED BY <2>2, <2>3, <2>4
<1>6. ASSUME NEW x \in Storages, file'[x] # NoFile
      PROVE  ResolvedBut(file'[x], strays'[x])
    <2>1. \/ x = s /\ file'[x] = FileOf(source)
          \/ x = t /\ file'[x] = FileOf(target)
          \/ file'[x] = file[x]
        BY <1>3 DEF IInv, TypeOK
    <2> QED BY <1>1, <1>2, <1>6, <2>1 DEF IInv
<1> QED BY <1>4, <1>5, <1>6 DEF IInv

LEMMA DiedMovingIInv ==
    ASSUME IInv, NEW t \in Storages, NEW target, Good(target, strays[t]),
           DiedMoving(t, target)
    PROVE  IInv'
<1>1. /\ FileOf(target) \in FileSections
      /\ ResolvedBut(FileOf(target), strays[t])
    BY FileOfType, FilesResolved DEF Good, Sound
<1>2. /\ storages' = [x \in Storages |-> LoggedOut] /\ now' = now
      /\ file' = [file EXCEPT ![t] = FileOf(target)] \/ file' = file
      /\ strays' = strays
    BY DEF DiedMoving
<1>3. TypeOK' /\ \A x \in Storages : ~ LoggedIn(x)'
    BY <1>1, <1>2 DEF IInv, TypeOK, LoggedIn
<1>4. ASSUME NEW x \in Storages, file'[x] # NoFile
      PROVE  ResolvedBut(file'[x], strays'[x])
    BY <1>1, <1>2, <1>4 DEF IInv, TypeOK
<1> QED BY <1>3, <1>4 DEF IInv

LEMMA SessionIInv == IInv /\ SessionStep => IInv'
<1> SUFFICES ASSUME IInv, SessionStep
             PROVE  IInv'
    OBVIOUS
<1>1. ASSUME NEW s \in Storages, Login(s)
      PROVE  IInv'
    <2>0. \A o : ResolvedBut(EmptyFile, o)
        BY DEF ResolvedBut, EmptyFile
    <2>1. PICK f \in FileSections :
            /\ storages' = [storages EXCEPT ![s] = ReadAll(f)]
            /\ file' = file \/ file' = [file EXCEPT ![s] = EmptyFile]
            /\ now' = now /\ strays' = strays /\ ResolvedBut(f, strays[s])
        BY <1>1, <2>0, EmptyFileType DEF Login, IInv, TypeOK
    <2>2. Good(ReadAll(f), strays[s]) /\ ReadAll(f) \in DataSnapshot
        BY <2>1, ReadAllSound, FilesResolved DEF Good, Sound
    <2>3. TypeOK'
        BY <2>1, <2>2, EmptyFileType DEF IInv, TypeOK
    <2>4. ASSUME NEW x \in Storages, LoggedIn(x)'
          PROVE  Good(storages'[x], strays'[x])
        <3>1. storages'[x] = IF x = s THEN ReadAll(f) ELSE storages[x]
            BY <2>1 DEF IInv, TypeOK
        <3>2. CASE x = s
            BY <2>1, <2>2, <3>1, <3>2
        <3>3. CASE x # s
            BY <2>1, <2>4, <3>1, <3>3 DEF IInv, LoggedIn
        <3> QED BY <3>2, <3>3
    <2>5. ASSUME NEW x \in Storages, file'[x] # NoFile
          PROVE  ResolvedBut(file'[x], strays'[x])
        BY <2>0, <2>1, <2>5 DEF IInv, TypeOK
    <2> QED BY <2>3, <2>4, <2>5 DEF IInv
<1>2. ASSUME NEW s \in Storages, Unlogin(s)
      PROVE  IInv'
    BY <1>2 DEF Unlogin, IInv, TypeOK, LoggedIn
<1>3. CASE LogoutAll
    BY <1>3 DEF LogoutAll, IInv, TypeOK, LoggedIn
<1> QED BY <1>1, <1>2, <1>3 DEF SessionStep

LEMMA GroupIInv ==
    ASSUME IInv, NEW s \in Storages, GroupStep(s)
    PROVE  IInv'
<1>1. LoggedIn(s) => Sound(storages[s])
    BY DEF IInv, Good
<1>2. ASSUME NEW color \in Colors, NEW id, SaveColorGroup(s, id, color)
      PROVE  IInv'
    <2>1. LoggedIn(s) /\ Sound(storages[s])
        BY <1>1, <1>2 DEF SaveColorGroup
    <2>2. CASE id = 0
        <3>1. Saved(s, CreateColorGroup(storages[s], color))
            BY <1>2, <2>2 DEF SaveColorGroup
        <3> QED BY <2>1, <3>1, CreateColorGroupSound, SavedWithinZero
    <2>3. CASE id # 0
        <3>1. Saved(s, SetColorGroup(storages[s], id, color))
            BY <1>2, <2>3 DEF SaveColorGroup
        <3> QED BY <2>1, <3>1, SetColorGroupSound, SavedWithinZero
    <2> QED BY <2>2, <2>3
<1>3. ASSUME NEW id, RemoveGroup(s, id)
      PROVE  IInv'
    <2> DEFINE d == RemoveColorGroup(storages[s], id)
    <2>1. LoggedIn(s) /\ Saved(s, d) /\ Good(storages[s], strays[s])
        BY <1>3 DEF RemoveGroup, IInv
    <2>2. Sound(d) /\ Freed(storages[s], d, id)
        BY <2>1, RemoveColorGroupSound DEF Good
    <2> HIDE DEF d
    <2>3. Good(d, strays[s])
        BY <2>1, <2>2, FreedResolved DEF Good
    <2> QED BY <2>1, <2>3, SavedIInv
<1>4. ASSUME NEW ids, NEW g \in AnyGroup, SetNotesGroup(s, ids, g)
      PROVE  IInv'
    <2> DEFINE d == [storages[s] EXCEPT !.notes = Regroup(@, ids, g)]
    <2>1. LoggedIn(s) /\ Sound(storages[s]) /\ g \in Int
        BY <1>1, <1>4, AnyGroupAssumption DEF SetNotesGroup
    <2>2. SavedInGroup(s, d, g)
        BY <1>4 DEF SetNotesGroup
    <2>3. Sound(d) /\ Within(storages[s], d, g)
        BY <2>1, RegroupNotesSound
    <2> HIDE DEF d
    <2> QED BY <2>1, <2>2, <2>3, SavedWithin
<1>5. ASSUME NEW ids, NEW g \in AnyGroup, SetOtpNotesGroup(s, ids, g)
      PROVE  IInv'
    <2> DEFINE d == [storages[s] EXCEPT !.otpNotes = Regroup(@, ids, g)]
    <2>1. LoggedIn(s) /\ Sound(storages[s]) /\ g \in Int
        BY <1>1, <1>5, AnyGroupAssumption DEF SetOtpNotesGroup
    <2>2. SavedInGroup(s, d, g)
        BY <1>5 DEF SetOtpNotesGroup
    <2>3. Sound(d) /\ Within(storages[s], d, g)
        BY <2>1, RegroupOtpNotesSound
    <2> HIDE DEF d
    <2> QED BY <2>1, <2>2, <2>3, SavedWithin
<1> QED BY <1>2, <1>3, <1>4, <1>5 DEF GroupStep

\* the note a move creates in its target
LEMMA NoteCreatedSound ==
    ASSUME IInv, NEW s \in Storages, NEW t \in Storages, NEW id,
           LoggedIn(s), LoggedIn(t), HasId(storages[s].notes, id)
    PROVE  Good(NoteCreated(s, t, id), strays[t])
<1> DEFINE note == storages[s].notes[IndexOf(storages[s].notes, id)]
           dnote == [note EXCEPT !.colorGroupId = 0]
<1>1. /\ Sound(storages[s]) /\ Good(storages[t], strays[t]) /\ now \in Nat
      /\ Sound(storages[t]) /\ storages[s].notes \in Seq(CryptedNote)
    BY SnapshotParts DEF IInv, TypeOK, Good, Sound
<1>2. note \in CryptedNote
    BY <1>1, IndexOfType
<1>3. NoteCreated(s, t, id) = CreateNote(storages[t], dnote, {}, now)
    BY DEF NoteCreated
<1> HIDE DEF note
<1>4. dnote \in CryptedNote /\ dnote.colorGroupId = 0
    BY <1>2, NoteOutOfGroup
<1> HIDE DEF dnote
<1>5. NoteValues(dnote, CryptedPassword)
    BY <1>4, FlatTypes DEF NoteValues, CryptedNote
<1>6. /\ Sound(NoteCreated(s, t, id))
      /\ Within(storages[t], NoteCreated(s, t, id), dnote.colorGroupId)
    BY <1>1, <1>3, <1>5, CreateNoteSound
<1> QED BY <1>1, <1>4, <1>6, WithinZeroGood

LEMMA NoteIInv ==
    ASSUME IInv, NEW s \in Storages, NoteStep(s)
    PROVE  IInv'
<1>1. /\ LoggedIn(s) => Sound(storages[s])
      /\ now \in Nat
    BY DEF IInv, Good, TypeOK
<1>2. ASSUME NEW id, NEW info \in Infos, NEW passw \in AnyPassw,
             NEW g \in AnyGroup, NEW setAll,
             SaveNote(s, id, info, passw, g, setAll)
      PROVE  IInv'
    <2> DEFINE flags == IF setAll THEN {"INFO", "PASSW", "TRACK_HISTORY"} ELSE {}
               dnote == [id |-> id, info |-> info, passw |-> passw,
                         colorGroupId |-> g, history |-> <<>>]
    <2>1. LoggedIn(s) /\ Sound(storages[s]) /\ g \in Int
        BY <1>1, <1>2, AnyGroupAssumption DEF SaveNote
    <2>2. NoteValues(dnote, CryptedPassword) /\ dnote.colorGroupId = g
        BY <2>1, FlatTypes DEF NoteValues
    <2>3. SavedInGroup(s,
            IF id = 0 THEN CreateNote(storages[s], dnote, flags, now)
                      ELSE SetNote(storages[s], dnote, flags, now), g)
        BY <1>2 DEF SaveNote
    <2> HIDE DEF dnote, flags
    <2>4. CASE id = 0
        <3>1. SavedInGroup(s, CreateNote(storages[s], dnote, flags, now), g)
            BY <2>3, <2>4
        <3>2. /\ Sound(CreateNote(storages[s], dnote, flags, now))
              /\ Within(storages[s],
                        CreateNote(storages[s], dnote, flags, now), g)
            BY <1>1, <2>1, <2>2, CreateNoteSound
        <3> QED BY <2>1, <3>1, <3>2, SavedWithin
    <2>5. CASE id # 0
        <3>1. SavedInGroup(s, SetNote(storages[s], dnote, flags, now), g)
            BY <2>3, <2>5
        <3>2. /\ Sound(SetNote(storages[s], dnote, flags, now))
              /\ Within(storages[s],
                        SetNote(storages[s], dnote, flags, now), g)
            BY <1>1, <2>1, <2>2, SetNoteSound
        <3> QED BY <2>1, <3>1, <3>2, SavedWithin
    <2> QED BY <2>4, <2>5
<1>3. ASSUME NEW id, DeleteNote(s, id)
      PROVE  IInv'
    BY <1>1, <1>3, RemoveNoteSound, SavedWithinZero DEF DeleteNote
<1>4. ASSUME NEW t \in Storages, NEW id, MoveNote(s, t, id)
      PROVE  IInv'
    <2>1. /\ LoggedIn(s) /\ LoggedIn(t) /\ HasId(storages[s].notes, id)
          /\ Moved(s, t, RemoveNote(storages[s], id), NoteCreated(s, t, id))
        BY <1>4 DEF MoveNote, CanMove
    <2>2. Good(RemoveNote(storages[s], id), strays[s])
        BY <2>1, RemoveNoteSound, WithinZeroGood DEF IInv, Good
    <2>3. Good(NoteCreated(s, t, id), strays[t])
        BY <2>1, NoteCreatedSound
    <2> QED BY <2>1, <2>2, <2>3, MovedIInv
<1>5. ASSUME NEW t \in Storages, NEW id, DieInMoveNote(s, t, id)
      PROVE  IInv'
    <2>1. /\ LoggedIn(s) /\ LoggedIn(t) /\ HasId(storages[s].notes, id)
          /\ DiedMoving(t, NoteCreated(s, t, id))
        BY <1>5 DEF DieInMoveNote, CanMove
    <2> QED BY <2>1, NoteCreatedSound, DiedMovingIInv
<1> QED BY <1>2, <1>3, <1>4, <1>5 DEF NoteStep

\* the otp note a move creates in its target
LEMMA OtpNoteCreatedSound ==
    ASSUME IInv, NEW s \in Storages, NEW t \in Storages, NEW id,
           LoggedIn(s), LoggedIn(t), HasId(storages[s].otpNotes, id)
    PROVE  Good(OtpNoteCreated(s, t, id), strays[t])
<1> DEFINE note == storages[s].otpNotes[IndexOf(storages[s].otpNotes, id)]
           dnote == [note EXCEPT !.colorGroupId = 0]
<1>1. /\ Sound(storages[s]) /\ Sound(storages[t])
      /\ Good(storages[t], strays[t])
      /\ storages[s].otpNotes \in Seq(CryptedOtpInfo)
    BY SnapshotParts DEF IInv, Good, Sound
<1>2. note \in CryptedOtpInfo
    BY <1>1, IndexOfType
<1>3. OtpNoteCreated(s, t, id) = CreateOtpNote(storages[t], dnote, {})
    BY DEF OtpNoteCreated
<1> HIDE DEF note
<1>4. dnote \in CryptedOtpInfo /\ dnote.colorGroupId = 0
    BY <1>2, OtpNoteOutOfGroup
<1> HIDE DEF dnote
<1>5. OtpValues(dnote)
    BY <1>4 DEF OtpValues, CryptedOtpInfo
<1>6. /\ Sound(OtpNoteCreated(s, t, id))
      /\ Within(storages[t], OtpNoteCreated(s, t, id), dnote.colorGroupId)
    BY <1>1, <1>3, <1>5, CreateOtpNoteSound
<1> QED BY <1>1, <1>4, <1>6, WithinZeroGood

LEMMA OtpIInv ==
    ASSUME IInv, NEW s \in Storages, OtpStep(s)
    PROVE  IInv'
<1>1. LoggedIn(s) => Sound(storages[s])
    BY DEF IInv, Good
<1>2. ASSUME NEW id, OtpNote(s, id)
      PROVE  IInv'
    <2> DEFINE d == IncrementHotp(storages[s], id)
    <2>1. /\ LoggedIn(s) /\ storages' = [storages EXCEPT ![s] = d]
          /\ file' = file /\ now' = now /\ strays' = strays
        BY <1>2 DEF OtpNote
    <2>2. Good(d, strays[s]) /\ d \in DataSnapshot
        BY <2>1, IncrementHotpSound, WithinZeroGood DEF IInv, Good, Sound
    <2> HIDE DEF d
    <2>3. TypeOK'
        BY <2>1, <2>2 DEF IInv, TypeOK
    <2>4. ASSUME NEW x \in Storages, LoggedIn(x)'
          PROVE  Good(storages'[x], strays'[x])
        <3>1. storages'[x] = IF x = s THEN d ELSE storages[x]
            BY <2>1 DEF IInv, TypeOK
        <3>2. CASE x = s
            BY <2>1, <2>2, <3>1, <3>2
        <3>3. CASE x # s
            BY <2>1, <2>4, <3>1, <3>3 DEF IInv, LoggedIn
        <3> QED BY <3>2, <3>3
    <2>5. \A x \in Storages :
            file'[x] # NoFile => ResolvedBut(file'[x], strays'[x])
        BY <2>1 DEF IInv
    <2> QED BY <2>3, <2>4, <2>5 DEF IInv
<1>3. ASSUME NEW id, DeleteOtpNote(s, id)
      PROVE  IInv'
    <2>1. /\ LoggedIn(s) /\ Sound(storages[s])
          /\ Saved(s, RemoveOtpNote(storages[s], id))
        BY <1>1, <1>3 DEF DeleteOtpNote
    <2>2. /\ Sound(RemoveOtpNote(storages[s], id))
          /\ Within(storages[s], RemoveOtpNote(storages[s], id), 0)
        BY <2>1, RemoveOtpNoteSound
    <2> QED BY <2>1, <2>2, SavedWithinZero
<1>4. ASSUME NEW dnote \in OtpInputs, NEW setAll, SaveOtpNote(s, dnote, setAll)
      PROVE  IInv'
    <2> DEFINE flags == IF setAll THEN {"INFO", "PASSW"} ELSE {"INFO"}
    <2>1. /\ LoggedIn(s) /\ Sound(storages[s])
          /\ SavedInGroup(s, IF dnote.id = 0
                             THEN CreateOtpNote(storages[s], dnote, flags)
                             ELSE SetOtpNote(storages[s], dnote, flags),
                          dnote.colorGroupId)
        BY <1>1, <1>4 DEF SaveOtpNote
    <2> HIDE DEF flags
    <2>2. OtpValues(dnote) /\ dnote.colorGroupId \in Int
        <3>1. /\ dnote.info \in Infos /\ dnote.secret \in AnyPassw
              /\ dnote.method \in OtpMethods
              /\ dnote.counter \in 0 .. CounterBound
              /\ dnote.colorGroupId \in AnyGroup
            BY DEF OtpInputs
        <3>2. dnote.counter \in Nat
            BY <3>1, BoundsAssumption
        <3> QED BY <3>1, <3>2, AnyGroupAssumption DEF OtpValues
    <2>3. CASE dnote.id = 0
        BY <2>1, <2>2, <2>3, CreateOtpNoteSound, SavedWithin
    <2>4. CASE dnote.id # 0
        BY <2>1, <2>2, <2>4, SetOtpNoteSound, SavedWithin
    <2> QED BY <2>3, <2>4
<1>5. ASSUME NEW t \in Storages, NEW id, MoveOtpNote(s, t, id)
      PROVE  IInv'
    <2>1. /\ LoggedIn(s) /\ LoggedIn(t) /\ HasId(storages[s].otpNotes, id)
          /\ Moved(s, t, RemoveOtpNote(storages[s], id),
                   OtpNoteCreated(s, t, id))
        BY <1>5 DEF MoveOtpNote, CanMove
    <2>2. Good(RemoveOtpNote(storages[s], id), strays[s])
        BY <2>1, RemoveOtpNoteSound, WithinZeroGood DEF IInv, Good
    <2>3. Good(OtpNoteCreated(s, t, id), strays[t])
        BY <2>1, OtpNoteCreatedSound
    <2> QED BY <2>1, <2>2, <2>3, MovedIInv
<1>6. ASSUME NEW t \in Storages, NEW id, DieInMoveOtpNote(s, t, id)
      PROVE  IInv'
    <2>1. /\ LoggedIn(s) /\ LoggedIn(t) /\ HasId(storages[s].otpNotes, id)
          /\ DiedMoving(t, OtpNoteCreated(s, t, id))
        BY <1>6 DEF DieInMoveOtpNote, CanMove
    <2> QED BY <2>1, OtpNoteCreatedSound, DiedMovingIInv
<1> QED BY <1>2, <1>3, <1>4, <1>5, <1>6 DEF OtpStep

LEMMA PasswIInv ==
    ASSUME IInv, NEW s \in Storages, PasswStep(s)
    PROVE  IInv'
<1>1. /\ LoggedIn(s) => Sound(storages[s])
      /\ now \in Nat
    BY DEF IInv, Good, TypeOK
<1>2. ASSUME NEW passw \in AnyPassw, GenerateNewPassw(s, passw)
      PROVE  IInv'
    BY <1>1, <1>2, GenPasswordSound, SavedWithinZero DEF GenerateNewPassw
<1>3. ASSUME NEW passw \in Passws, LastGeneratedPassw(s, passw)
      PROVE  IInv'
    <2>1. passw \in AnyPassw
        BY DEF AnyPassw
    <2> QED BY <1>1, <1>3, <2>1, GenPasswordSound, SavedWithinZero DEF LastGeneratedPassw
<1>4. ASSUME NEW id, RemoveHist(s, id)
      PROVE  IInv'
    BY <1>1, <1>4, RemovePasswHistorySound, SavedWithinZero DEF RemoveHist
<1>5. ASSUME NEW oldest, RemoveOldHist(s, oldest)
      PROVE  IInv'
    BY <1>1, <1>5, WithoutOldSound, SavedWithinZero DEF RemoveOldHist
<1> QED BY <1>2, <1>3, <1>4, <1>5 DEF PasswStep

LEMMA NextIInv == IInv /\ [Next]_vars => IInv'
<1> SUFFICES ASSUME IInv, [Next]_vars
             PROVE  IInv'
    OBVIOUS
<1>1. CASE SessionStep
    BY <1>1, SessionIInv
<1>2. ASSUME NEW s \in Storages, GroupStep(s)
      PROVE  IInv'
    BY <1>2, GroupIInv
<1>3. ASSUME NEW s \in Storages, NoteStep(s)
      PROVE  IInv'
    BY <1>3, NoteIInv
<1>4. ASSUME NEW s \in Storages, OtpStep(s)
      PROVE  IInv'
    BY <1>4, OtpIInv
<1>5. ASSUME NEW s \in Storages, PasswStep(s)
      PROVE  IInv'
    BY <1>5, PasswIInv
<1>6. CASE Tick
    BY <1>6 DEF Tick, IInv, TypeOK, LoggedIn
<1>7. CASE UNCHANGED vars
    BY <1>7 DEF vars, IInv, TypeOK, LoggedIn
<1> QED BY <1>1, <1>2, <1>3, <1>4, <1>5, <1>6, <1>7 DEF Next

LEMMA SpecIInv == Spec => []IInv
    BY InitIInv, NextIInv, PTL DEF Spec

-----------------------------------------------------------------------------
(* Theorems *)

\* No sequence of native calls puts a malformed value, such as the
\* zero-filled field of a new note, in a storage or in its file.
THEOREM TypeCorrect == Spec => []TypeOK
<1>1. IInv => TypeOK
    BY DEF IInv
<1> QED BY <1>1, SpecIInv, PTL

\* The counters createNote, genPassword, setNote... take the next id from
\* are ahead of every id of an unlocked storage.
THEOREM CountersAheadOfIds == Spec => []CountersAhead
<1>1. IInv => CountersAhead
    BY DEF IInv, Good, Sound, CountersAhead
<1> QED BY <1>1, SpecIInv, PTL

\* No two items of an unlocked storage have the same id, whatever calls,
\* failing saves, deaths and renumbering logins led to it: removeHist and
\* removeNote never take the wrong item away.
THEOREM IdsAreUnique == Spec => []IdsUnique
<1>1. IInv => IdsUnique
    BY DEF IInv, Good, Sound, IdsUnique
<1> QED BY <1>1, SpecIInv, PTL

\* No note or otp note, in memory or in a file, is in a colour group that is
\* gone, whatever saves failed and whatever was moved, unless a caller named
\* that group while the storage did not have it: without such a call, the group
\* that gets the id of a removed one after a login starts without members.
THEOREM GroupsAreResolved == Spec => []GroupsResolved
<1>1. IInv => GroupsResolved
    BY DEF IInv, Good, GroupsResolved
<1> QED BY <1>1, SpecIInv, PTL

-----------------------------------------------------------------------------
(* Memory and file *)

\* two files that differ in the counters of otp notes only
LEMMA OnlyCounters ==
    ASSUME NEW f \in FileSections, NEW g \in FileSections,
           g.colorGroups = f.colorGroups, g.notes = f.notes,
           g.generatedPassws = f.generatedPassws,
           Len(g.otpNotes) = Len(f.otpNotes),
           \A k \in 1 .. Len(f.otpNotes) :
              [g.otpNotes[k] EXCEPT !.counter = 0]
                 = [f.otpNotes[k] EXCEPT !.counter = 0]
    PROVE  WithoutCounters(g) = WithoutCounters(f)
<1>1. [k \in 1 .. Len(g.otpNotes) |-> [g.otpNotes[k] EXCEPT !.counter = 0]]
        = [k \in 1 .. Len(f.otpNotes) |-> [f.otpNotes[k] EXCEPT !.counter = 0]]
    OBVIOUS
<1> DEFINE fs == [k \in 1 .. Len(f.otpNotes) |->
                    [f.otpNotes[k] EXCEPT !.counter = 0]]
           gs == [k \in 1 .. Len(g.otpNotes) |->
                    [g.otpNotes[k] EXCEPT !.counter = 0]]
<1>2. gs = fs
    BY <1>1
<1>3. /\ WithoutCounters(f) = [f EXCEPT !.otpNotes = fs]
      /\ WithoutCounters(g) = [g EXCEPT !.otpNotes = gs]
    BY DEF WithoutCounters
<1> HIDE DEF fs, gs
<1>4. /\ f = [colorGroups |-> f.colorGroups, notes |-> f.notes,
              generatedPassws |-> f.generatedPassws, otpNotes |-> f.otpNotes]
      /\ g = [colorGroups |-> g.colorGroups, notes |-> g.notes,
              generatedPassws |-> g.generatedPassws, otpNotes |-> g.otpNotes]
    BY DEF FileSections
<1>5. [f EXCEPT !.otpNotes = fs] =
        [colorGroups |-> f.colorGroups, notes |-> f.notes,
         generatedPassws |-> f.generatedPassws, otpNotes |-> fs]
    BY <1>4
<1>6. [g EXCEPT !.otpNotes = gs] =
        [colorGroups |-> g.colorGroups, notes |-> g.notes,
         generatedPassws |-> g.generatedPassws, otpNotes |-> gs]
    BY <1>4
<1> QED BY <1>2, <1>3, <1>5, <1>6

\* a code that was shown
LEMMA CodeShown ==
    ASSUME NEW d \in DataSnapshot, NEW id, IncrementHotp(d, id) \in DataSnapshot
    PROVE  WithoutCounters(FileOf(IncrementHotp(d, id)))
              = WithoutCounters(FileOf(d))
<1> DEFINE k == IndexOf(d.otpNotes, id)
           old == d.otpNotes[k]
           e == IncrementHotp(d, id)
<1>1. CASE HasId(d.otpNotes, id) /\ old.method = "HOTP"
    <2>1. k \in DOMAIN d.otpNotes
        BY <1>1 DEF HasId, IndexOf
    <2> HIDE DEF k
    <2>2. /\ d.otpNotes \in Seq(CryptedOtpInfo)
          /\ old \in CryptedOtpInfo
        BY <2>1 DEF DataSnapshot
    <2>3. e = [d EXCEPT !.otpNotes =
                [@ EXCEPT ![k] = [old EXCEPT !.counter = old.counter + 1]]]
        BY <1>1 DEF IncrementHotp, k
    <2>4. /\ e.colorGroups = d.colorGroups /\ e.notes = d.notes
          /\ e.generatedPassws = d.generatedPassws
          /\ e.otpNotes = [d.otpNotes EXCEPT ![k] =
                              [old EXCEPT !.counter = old.counter + 1]]
        BY <2>3 DEF DataSnapshot
    <2> HIDE DEF e
    <2>5. Len(e.otpNotes) = Len(d.otpNotes)
        BY <2>2, <2>4
    <2>6. ASSUME NEW j \in 1 .. Len(d.otpNotes)
          PROVE  /\ e.otpNotes[j].info = d.otpNotes[j].info
                 /\ e.otpNotes[j].secret = d.otpNotes[j].secret
                 /\ e.otpNotes[j].method = d.otpNotes[j].method
                 /\ e.otpNotes[j].colorGroupId = d.otpNotes[j].colorGroupId
        <3>1. CASE j = k
            <4>1. e.otpNotes[j] = [old EXCEPT !.counter = old.counter + 1]
                BY <2>2, <2>4, <3>1
            <4> QED BY <2>2, <3>1, <4>1 DEF CryptedOtpInfo
        <3>2. CASE j # k
            BY <2>2, <2>4, <3>2
        <3> QED BY <3>1, <3>2
    <2> DEFINE f == FileOf(d)
               g == FileOf(e)
    <2>7. f \in FileSections /\ g \in FileSections
        BY FileOfType DEF e
    <2>8. /\ g.colorGroups = f.colorGroups /\ g.notes = f.notes
          /\ g.generatedPassws = f.generatedPassws
          /\ Len(f.otpNotes) = Len(d.otpNotes)
          /\ Len(g.otpNotes) = Len(d.otpNotes)
        BY <2>2, <2>4, <2>5 DEF FileOf
    <2>9. ASSUME NEW j \in 1 .. Len(f.otpNotes)
          PROVE  [g.otpNotes[j] EXCEPT !.counter = 0]
                    = [f.otpNotes[j] EXCEPT !.counter = 0]
        <3>1. j \in 1 .. Len(d.otpNotes)
            BY <2>8
        <3>2. f.otpNotes[j] =
                [info |-> d.otpNotes[j].info, secret |-> d.otpNotes[j].secret,
                 method |-> d.otpNotes[j].method,
                 counter |-> d.otpNotes[j].counter,
                 colorGroupId |-> d.otpNotes[j].colorGroupId]
            BY <3>1 DEF FileOf
        <3>3. g.otpNotes[j] =
                [info |-> e.otpNotes[j].info, secret |-> e.otpNotes[j].secret,
                 method |-> e.otpNotes[j].method,
                 counter |-> e.otpNotes[j].counter,
                 colorGroupId |-> e.otpNotes[j].colorGroupId]
            BY <2>5, <3>1 DEF FileOf
        <3> HIDE DEF f, g
        <3> QED BY <2>6, <3>1, <3>2, <3>3
    <2> HIDE DEF f, g
    <2>10. WithoutCounters(g) = WithoutCounters(f)
        BY <2>7, <2>8, <2>9, OnlyCounters
    <2> QED BY <2>10 DEF f, g, e
<1>2. CASE ~ (HasId(d.otpNotes, id) /\ old.method = "HOTP")
    BY <1>2 DEF IncrementHotp
<1> QED BY <1>1, <1>2

\* one storage was saved, the others are as they were
LEMMA SavedCurrent ==
    ASSUME IInv, IInv', FileCurrent, SaveOutcomes \subseteq {TRUE},
           NEW s \in Storages, NEW d, Installed(s, d)
    PROVE  FileCurrent'
<1>1. /\ storages' = [storages EXCEPT ![s] = d]
      /\ file' = [file EXCEPT ![s] = FileOf(d)]
    BY DEF Installed
<1> SUFFICES ASSUME NEW x \in Storages, LoggedIn(x)'
             PROVE  /\ file'[x] # NoFile
                    /\ WithoutCounters(FileOf(storages'[x]))
                          = WithoutCounters(file'[x])
    BY DEF FileCurrent
<1>2. CASE x = s
    <2>1. storages'[x] = d /\ file'[x] = FileOf(d)
        BY <1>1, <1>2 DEF IInv, TypeOK
    <2>2. d \in DataSnapshot
        BY <1>2, <2>1 DEF IInv, Good, Sound
    <2> QED BY <2>1, <2>2, FileOfType, NoFileAssumption
<1>3. CASE x # s
    <2>1. storages'[x] = storages[x] /\ file'[x] = file[x]
        BY <1>1, <1>3 DEF IInv, TypeOK
    <2> QED BY <2>1 DEF FileCurrent, LoggedIn
<1> QED BY <1>2, <1>3

\* both ends of a move were saved
LEMMA MovedCurrent ==
    ASSUME IInv, IInv', FileCurrent, SaveOutcomes \subseteq {TRUE},
           NEW s \in Storages, NEW t \in Storages, s # t,
           NEW source, NEW target, Moved(s, t, source, target)
    PROVE  FileCurrent'
<1>1. /\ storages' = [storages EXCEPT ![t] = target, ![s] = source]
      /\ file' = [file EXCEPT ![t] = FileOf(target), ![s] = FileOf(source)]
    BY DEF Moved
<1> SUFFICES ASSUME NEW x \in Storages, LoggedIn(x)'
             PROVE  /\ file'[x] # NoFile
                    /\ WithoutCounters(FileOf(storages'[x]))
                          = WithoutCounters(file'[x])
    BY DEF FileCurrent
<1>2. ASSUME NEW d, storages'[x] = d, file'[x] = FileOf(d)
      PROVE  file'[x] # NoFile
    <2>1. d \in DataSnapshot
        BY <1>2 DEF IInv, Good, Sound
    <2> QED BY <1>2, <2>1, FileOfType, NoFileAssumption
<1>3. CASE x = s
    <2>1. storages'[x] = source /\ file'[x] = FileOf(source)
        BY <1>1, <1>3 DEF IInv, TypeOK
    <2> QED BY <1>2, <2>1
<1>4. CASE x = t
    <2>1. storages'[x] = target /\ file'[x] = FileOf(target)
        BY <1>1, <1>4 DEF IInv, TypeOK
    <2> QED BY <1>2, <2>1
<1>5. CASE x # s /\ x # t
    <2>1. storages'[x] = storages[x] /\ file'[x] = file[x]
        BY <1>1, <1>5 DEF IInv, TypeOK
    <2> QED BY <2>1 DEF FileCurrent, LoggedIn
<1> QED BY <1>3, <1>4, <1>5

LEMMA NextCurrent ==
    ASSUME IInv, IInv', FileCurrent, SaveOutcomes \subseteq {TRUE}, [Next]_vars
    PROVE  FileCurrent'
<1>1. ASSUME NEW s \in Storages, NEW d, Installed(s, d)
      PROVE  FileCurrent'
    BY <1>1, SavedCurrent
<1>2. ASSUME NEW s \in Storages, NEW t \in Storages,
             NEW target, CanMove(s, t),
             DiedMoving(t, target) \/ \E source : Moved(s, t, source, target)
      PROVE  FileCurrent'
    <2>1. CASE DiedMoving(t, target)
        BY <2>1 DEF DiedMoving, FileCurrent, LoggedIn
    <2>2. ASSUME NEW source, Moved(s, t, source, target)
          PROVE  FileCurrent'
        BY <1>2, <2>2, MovedCurrent DEF CanMove
    <2> QED BY <1>2, <2>1, <2>2
<1>3. ASSUME NEW s \in Storages, Login(s)
      PROVE  FileCurrent'
    <2>1. PICK f \in FileSections :
            /\ storages' = [storages EXCEPT ![s] = ReadAll(f)]
            /\ file' = [file EXCEPT ![s] = f]
        BY <1>3, EmptyFileType DEF Login, IInv, TypeOK
    <2>2. FileOf(ReadAll(f)) = f /\ f # NoFile
        BY ReadAllAndBack, NoFileAssumption
    <2>3. ASSUME NEW x \in Storages, LoggedIn(x)'
          PROVE  /\ file'[x] # NoFile
                 /\ WithoutCounters(FileOf(storages'[x]))
                       = WithoutCounters(file'[x])
        <3>1. CASE x = s
            <4>1. storages'[x] = ReadAll(f) /\ file'[x] = f
                BY <2>1, <3>1 DEF IInv, TypeOK
            <4> QED BY <2>2, <4>1
        <3>2. CASE x # s
            <4>1. storages'[x] = storages[x] /\ file'[x] = file[x]
                BY <2>1, <3>2 DEF IInv, TypeOK
            <4> QED BY <2>3, <4>1 DEF FileCurrent, LoggedIn
        <3> QED BY <3>1, <3>2
    <2> QED BY <2>3 DEF FileCurrent
<1>4. ASSUME NEW s \in Storages, NEW id, OtpNote(s, id)
      PROVE  FileCurrent'
    <2> DEFINE d == IncrementHotp(storages[s], id)
    <2>1. /\ LoggedIn(s) /\ storages' = [storages EXCEPT ![s] = d]
          /\ file' = file
        BY <1>4 DEF OtpNote
    <2>2. storages'[s] = d
        BY <2>1 DEF IInv, TypeOK
    <2>3. storages[s] \in DataSnapshot /\ d \in DataSnapshot
        BY <2>1, IncrementHotpSound DEF IInv, Good, Sound
    <2>4. WithoutCounters(FileOf(d)) = WithoutCounters(FileOf(storages[s]))
        BY <2>3, CodeShown
    <2> HIDE DEF d
    <2>5. ASSUME NEW x \in Storages, LoggedIn(x)'
          PROVE  /\ file'[x] # NoFile
                 /\ WithoutCounters(FileOf(storages'[x]))
                       = WithoutCounters(file'[x])
        <3>1. CASE x = s
            BY <2>1, <2>2, <2>4, <3>1 DEF FileCurrent
        <3>2. CASE x # s
            <4>1. storages'[x] = storages[x] /\ file'[x] = file[x]
                BY <2>1, <3>2 DEF IInv, TypeOK
            <4> QED BY <2>5, <4>1 DEF FileCurrent, LoggedIn
        <3> QED BY <3>1, <3>2
    <2> QED BY <2>5 DEF FileCurrent
<1>5. ASSUME NEW s \in Storages, Unlogin(s)
      PROVE  FileCurrent'
    BY <1>5 DEF Unlogin, FileCurrent, LoggedIn, IInv, TypeOK
<1>6. CASE LogoutAll
    BY <1>6 DEF LogoutAll, FileCurrent, LoggedIn
<1>7. CASE UNCHANGED <<file, storages>>
    BY <1>7 DEF FileCurrent, LoggedIn
<1>8. ASSUME NEW s \in Storages, GroupStep(s)
      PROVE  FileCurrent'
    BY <1>1, <1>8 DEF GroupStep, SaveColorGroup, RemoveGroup, SetNotesGroup,
                      SetOtpNotesGroup, Saved, SavedInGroup
<1>9. ASSUME NEW s \in Storages, NoteStep(s)
      PROVE  FileCurrent'
    <2>1. ASSUME NEW t \in Storages, NEW id,
                 MoveNote(s, t, id) \/ DieInMoveNote(s, t, id)
          PROVE  FileCurrent'
        BY <1>2, <2>1 DEF MoveNote, DieInMoveNote
    <2>2. ASSUME NEW id, DeleteNote(s, id)
          PROVE  FileCurrent'
        BY <1>1, <2>2 DEF DeleteNote, Saved
    <2>3. ASSUME NEW id, NEW info, NEW passw, NEW g, NEW setAll,
                 SaveNote(s, id, info, passw, g, setAll)
          PROVE  FileCurrent'
        BY <1>1, <2>3 DEF SaveNote, SavedInGroup
    <2> QED BY <1>9, <2>1, <2>2, <2>3 DEF NoteStep
<1>10. ASSUME NEW s \in Storages, OtpStep(s)
       PROVE  FileCurrent'
    <2>1. ASSUME NEW t \in Storages, NEW id,
                 MoveOtpNote(s, t, id) \/ DieInMoveOtpNote(s, t, id)
          PROVE  FileCurrent'
        BY <1>2, <2>1 DEF MoveOtpNote, DieInMoveOtpNote
    <2>2. ASSUME NEW id, DeleteOtpNote(s, id)
          PROVE  FileCurrent'
        BY <1>1, <2>2 DEF DeleteOtpNote, Saved
    <2>3. ASSUME NEW dnote, NEW setAll, SaveOtpNote(s, dnote, setAll)
          PROVE  FileCurrent'
        BY <1>1, <2>3 DEF SaveOtpNote, SavedInGroup
    <2> QED BY <1>4, <1>10, <2>1, <2>2, <2>3 DEF OtpStep
<1>11. ASSUME NEW s \in Storages, PasswStep(s)
       PROVE  FileCurrent'
    BY <1>1, <1>11 DEF PasswStep, GenerateNewPassw, LastGeneratedPassw,
                       RemoveHist, RemoveOldHist, Saved
<1>12. CASE Tick \/ UNCHANGED vars
    BY <1>7, <1>12 DEF Tick, vars
<1> QED BY <1>3, <1>5, <1>6, <1>8, <1>9, <1>10, <1>11, <1>12
        DEF Next, SessionStep

\* When no save fails, the file of an unlocked storage holds all that memory
\* holds after every call, but for the HOTP counters otpNote has advanced: a
\* save writes, and a login reads back, the whole snapshot.
THEOREM FileIsCurrent == SaveOutcomes \subseteq {TRUE} => (Spec => []FileCurrent)
<1> SUFFICES ASSUME SaveOutcomes \subseteq {TRUE}
             PROVE  Spec => []FileCurrent
    OBVIOUS
<1>1. Init => FileCurrent
    BY DEF Init, FileCurrent, LoggedIn
<1>2. IInv /\ IInv' /\ FileCurrent /\ [Next]_vars => FileCurrent'
    BY NextCurrent
<1> QED BY <1>1, <1>2, SpecIInv, PTL DEF Spec

-----------------------------------------------------------------------------
(* Moves *)

ShownNote(note) ==
    [info |-> note.info, passw |-> note.passw, history |-> KnownPassws(note)]
ShownOtp(otp) ==
    [info |-> otp.info, secret |-> otp.secret, method |-> otp.method]
ShownNotes(notes) == {ShownNote(notes[k]) : k \in DOMAIN notes}
ShownOtps(otps) == {ShownOtp(otps[k]) : k \in DOMAIN otps}

LEMMA ItemsShown ==
    ASSUME NEW x
    PROVE  Items(x) = ShownNotes(x.notes) \cup ShownOtps(x.otpNotes)
    BY DEF Items, ShownNotes, ShownOtps, ShownNote, ShownOtp

\* notes with the same fields and the same passwords in their histories
LEMMA SameNote ==
    ASSUME NEW a, NEW b, a.info = b.info, a.passw = b.passw,
           DOMAIN a.history = DOMAIN b.history,
           \A i \in DOMAIN b.history : a.history[i].passw = b.history[i].passw
    PROVE  ShownNote(a) = ShownNote(b)
<1>1. {a.history[i].passw : i \in DOMAIN a.history}
        = {b.history[i].passw : i \in DOMAIN b.history}
    OBVIOUS
<1>2. KnownPassws(a) = KnownPassws(b)
    BY <1>1 DEF KnownPassws
<1> QED BY <1>2 DEF ShownNote

\* a file shows what memory shows
LEMMA FileShows ==
    ASSUME NEW d \in DataSnapshot
    PROVE  Items(FileOf(d)) = Items(d)
<1> DEFINE f == FileOf(d)
<1>1. d.notes \in Seq(CryptedNote) /\ d.otpNotes \in Seq(CryptedOtpInfo)
    BY SnapshotParts
<1>2. DOMAIN f.notes = DOMAIN d.notes /\ DOMAIN f.otpNotes = DOMAIN d.otpNotes
    BY <1>1 DEF FileOf
<1>3. ASSUME NEW k \in DOMAIN d.notes
      PROVE  ShownNote(f.notes[k]) = ShownNote(d.notes[k])
    <2>4. d.notes[k] \in CryptedNote
        BY <1>1
    <2>1. d.notes[k].history \in Seq(CryptedPassword)
        BY <2>4 DEF CryptedNote
    <2>2. /\ f.notes[k].info = d.notes[k].info
          /\ f.notes[k].passw = d.notes[k].passw
          /\ f.notes[k].history = FlatHistory(d.notes[k].history)
        BY <1>1 DEF FileOf
    <2> HIDE DEF f
    <2>3. /\ DOMAIN f.notes[k].history = DOMAIN d.notes[k].history
          /\ \A i \in DOMAIN d.notes[k].history :
                f.notes[k].history[i].passw = d.notes[k].history[i].passw
        BY <2>1, <2>2 DEF FlatHistory
    <2> QED BY <2>2, <2>3, SameNote
<1>4. ASSUME NEW k \in DOMAIN d.otpNotes
      PROVE  ShownOtp(f.otpNotes[k]) = ShownOtp(d.otpNotes[k])
    BY <1>1 DEF FileOf, ShownOtp
<1> HIDE DEF f
<1>5. ShownNotes(f.notes) = ShownNotes(d.notes)
    BY <1>2, <1>3 DEF ShownNotes
<1>6. ShownOtps(f.otpNotes) = ShownOtps(d.otpNotes)
    BY <1>2, <1>4 DEF ShownOtps
<1> QED BY <1>5, <1>6, ItemsShown DEF f

\* items are shown without HOTP counters
LEMMA CountersNotShown ==
    ASSUME NEW f \in FileSections, NEW g \in FileSections,
           WithoutCounters(g) = WithoutCounters(f)
    PROVE  Items(g) = Items(f)
<1> DEFINE w(x) == [k \in 1 .. Len(x.otpNotes) |->
                      [x.otpNotes[k] EXCEPT !.counter = 0]]
<1>1. ASSUME NEW x \in FileSections
      PROVE  /\ WithoutCounters(x).notes = x.notes
             /\ WithoutCounters(x).otpNotes = w(x)
             /\ x.otpNotes \in Seq(CryptedOtpInfoFlat)
             /\ ShownOtps(w(x)) = ShownOtps(x.otpNotes)
    <2>1. x.otpNotes \in Seq(CryptedOtpInfoFlat)
        BY DEF FileSections
    <2>2. WithoutCounters(x) = [x EXCEPT !.otpNotes = w(x)]
        BY DEF WithoutCounters
    <2>3. DOMAIN w(x) = DOMAIN x.otpNotes
        BY <2>1
    <2>4. ASSUME NEW k \in DOMAIN x.otpNotes
          PROVE  ShownOtp(w(x)[k]) = ShownOtp(x.otpNotes[k])
        <3>1. /\ w(x)[k] = [x.otpNotes[k] EXCEPT !.counter = 0]
              /\ x.otpNotes[k] \in CryptedOtpInfoFlat
            BY <2>1
        <3> HIDE DEF w
        <3> QED BY <3>1 DEF CryptedOtpInfoFlat, ShownOtp
    <2>5. ShownOtps(w(x)) = ShownOtps(x.otpNotes)
        <3> HIDE DEF w
        <3> QED BY <2>3, <2>4 DEF ShownOtps
    <2> HIDE DEF w
    <2> QED BY <2>1, <2>2, <2>5 DEF FileSections
<1> HIDE DEF w
<1> QED BY <1>1, ItemsShown

\* in memory and in the file a user sees the same items
LEMMA FileItems ==
    ASSUME IInv, FileCurrent, NEW s \in Storages, LoggedIn(s)
    PROVE  Items(file[s]) = Items(storages[s])
<1>1. storages[s] \in DataSnapshot
    BY DEF IInv, Good, Sound
<1>2. /\ file[s] \in FileSections
      /\ WithoutCounters(FileOf(storages[s])) = WithoutCounters(file[s])
    BY DEF IInv, TypeOK, FileCurrent
<1>3. FileOf(storages[s]) \in FileSections
    BY <1>1, FileOfType
<1> QED BY <1>1, <1>2, <1>3, CountersNotShown, FileShows

\* all but the erased note, or otp note, is still shown
LEMMA EraseShows ==
    ASSUME NEW S, NEW list \in Seq(S), NEW id, HasId(list, id)
    PROVE  LET x == list[IndexOf(list, id)]
           IN  /\ ShownNotes(list)
                    \subseteq ShownNotes(Erase(list, id)) \cup {ShownNote(x)}
               /\ ShownOtps(list)
                    \subseteq ShownOtps(Erase(list, id)) \cup {ShownOtp(x)}
<1>1. \A j \in DOMAIN list :
        \/ j = IndexOf(list, id)
        \/ \E i \in DOMAIN Erase(list, id) : Erase(list, id)[i] = list[j]
    BY EraseKeepsOthers
<1> QED BY <1>1 DEF ShownNotes, ShownOtps

\* an appended note, or otp note, joins those that were shown
LEMMA AppendShows ==
    ASSUME NEW S, NEW list \in Seq(S), NEW x
    PROVE  /\ ShownNotes(list) \cup {ShownNote(x)}
                  \subseteq ShownNotes(Append(list, x))
           /\ ShownOtps(list) \cup {ShownOtp(x)}
                  \subseteq ShownOtps(Append(list, x))
<1>1. /\ DOMAIN list = 1 .. Len(list)
      /\ DOMAIN Append(list, x) = 1 .. (Len(list) + 1)
      /\ Len(list) \in Nat
      /\ \A j \in 1 .. Len(list) : Append(list, x)[j] = list[j]
      /\ Append(list, x)[Len(list) + 1] = x
    OBVIOUS
<1>2. /\ \A j \in DOMAIN list : /\ j \in DOMAIN Append(list, x)
                                /\ Append(list, x)[j] = list[j]
      /\ Len(list) + 1 \in DOMAIN Append(list, x)
    BY <1>1
<1> QED BY <1>1, <1>2 DEF ShownNotes, ShownOtps

\* a removed note is the only item that is missed
LEMMA RemoveNoteShows ==
    ASSUME NEW d, Sound(d), NEW id, HasId(d.notes, id)
    PROVE  Items(d) \subseteq Items(RemoveNote(d, id))
                    \cup {ShownNote(d.notes[IndexOf(d.notes, id)])}
<1> DEFINE e == RemoveNote(d, id)
<1>1. d \in DataSnapshot /\ d.notes \in Seq(CryptedNote)
    BY SnapshotParts DEF Sound
<1>2. e = [d EXCEPT !.notes = Erase(@, id)]
    BY DEF RemoveNote
<1>3. e.notes = Erase(d.notes, id) /\ e.otpNotes = d.otpNotes
    BY <1>1, <1>2 DEF DataSnapshot
<1> HIDE DEF e
<1>4. Items(d) \subseteq Items(e)
                    \cup {ShownNote(d.notes[IndexOf(d.notes, id)])}
    BY <1>1, <1>3, EraseShows, ItemsShown
<1> QED BY <1>4 DEF e

LEMMA RemoveOtpNoteShows ==
    ASSUME NEW d, Sound(d), NEW id, HasId(d.otpNotes, id)
    PROVE  Items(d) \subseteq Items(RemoveOtpNote(d, id))
                    \cup {ShownOtp(d.otpNotes[IndexOf(d.otpNotes, id)])}
<1> DEFINE e == RemoveOtpNote(d, id)
<1>1. d \in DataSnapshot /\ d.otpNotes \in Seq(CryptedOtpInfo)
    BY SnapshotParts DEF Sound
<1>2. e = [d EXCEPT !.otpNotes = Erase(@, id)]
    BY DEF RemoveOtpNote
<1>3. e.otpNotes = Erase(d.otpNotes, id) /\ e.notes = d.notes
    BY <1>1, <1>2 DEF DataSnapshot
<1> HIDE DEF e
<1>4. Items(d) \subseteq Items(e)
                    \cup {ShownOtp(d.otpNotes[IndexOf(d.otpNotes, id)])}
    BY <1>1, <1>3, EraseShows, ItemsShown
<1> QED BY <1>4 DEF e

\* a created note shows what it was given, and nothing is missed
LEMMA CreateNoteShows ==
    ASSUME NEW d, Sound(d), NEW T, NEW dnote, NoteValues(dnote, T),
           NEW flags, NEW n \in Nat
    PROVE  Items(d) \cup {ShownNote(dnote)}
              \subseteq Items(CreateNote(d, dnote, flags, n))
<1> DEFINE e == CreateNote(d, dnote, flags, n)
<1>1. PICK next \in Nat : e = WithNote(d, dnote, next, n)
    BY CreatedNote
<1> DEFINE x == [id |-> d.idCounter, info |-> dnote.info,
                 passw |-> dnote.passw, genTime |-> n,
                 colorGroupId |-> dnote.colorGroupId,
                 history |-> Numbered(dnote.history, next)]
<1>2. d \in DataSnapshot /\ d.notes \in Seq(CryptedNote)
    BY SnapshotParts DEF Sound
<1>3. /\ x.info = dnote.info /\ x.passw = dnote.passw
      /\ DOMAIN x.history = DOMAIN dnote.history
      /\ \A i \in DOMAIN dnote.history :
            x.history[i].passw = dnote.history[i].passw
    BY DEF NoteValues, Numbered
<1> HIDE DEF e
<1>4. e.notes = Append(d.notes, x) /\ e.otpNotes = d.otpNotes
    BY <1>1, <1>2 DEF WithNote, DataSnapshot
<1> HIDE DEF x
<1>5. ShownNote(x) = ShownNote(dnote)
    BY <1>3, SameNote
<1>6. Items(d) \cup {ShownNote(dnote)} \subseteq Items(e)
    BY <1>2, <1>4, <1>5, AppendShows, ItemsShown
<1> QED BY <1>6 DEF e

LEMMA CreateOtpNoteShows ==
    ASSUME NEW d, Sound(d), NEW dnote, OtpValues(dnote), NEW flags
    PROVE  Items(d) \cup {ShownOtp(dnote)}
              \subseteq Items(CreateOtpNote(d, dnote, flags))
<1> DEFINE e == CreateOtpNote(d, dnote, flags)
           x == [id |-> d.idCounter, info |-> dnote.info,
                 secret |-> dnote.secret, method |-> dnote.method,
                 counter |-> dnote.counter,
                 colorGroupId |-> dnote.colorGroupId]
<1>1. e = [d EXCEPT !.idCounter = d.idCounter + 1,
                    !.otpNotes = Append(d.otpNotes, x)]
    BY CreatedOtpNote
<1>2. d \in DataSnapshot /\ d.otpNotes \in Seq(CryptedOtpInfo)
    BY SnapshotParts DEF Sound
<1>3. ShownOtp(x) = ShownOtp(dnote)
    BY DEF ShownOtp
<1> HIDE DEF e, x
<1>4. e.otpNotes = Append(d.otpNotes, x) /\ e.notes = d.notes
    BY <1>1, <1>2 DEF DataSnapshot
<1>5. Items(d) \cup {ShownOtp(dnote)} \subseteq Items(e)
    BY <1>2, <1>3, <1>4, AppendShows, ItemsShown
<1> QED BY <1>5 DEF e

\* the target of a move shows all it did and the moved item
LEMMA NoteCreatedShows ==
    ASSUME IInv, NEW s \in Storages, NEW t \in Storages, NEW id,
           LoggedIn(s), LoggedIn(t), HasId(storages[s].notes, id)
    PROVE  LET list == storages[s].notes
           IN  Items(storages[t]) \cup {ShownNote(list[IndexOf(list, id)])}
                  \subseteq Items(NoteCreated(s, t, id))
<1> DEFINE note == storages[s].notes[IndexOf(storages[s].notes, id)]
           dnote == [note EXCEPT !.colorGroupId = 0]
<1>1. /\ now \in Nat /\ Sound(storages[t])
      /\ storages[s].notes \in Seq(CryptedNote)
    BY SnapshotParts DEF IInv, TypeOK, Good, Sound
<1>2. note \in CryptedNote
    BY <1>1, IndexOfType
<1>3. NoteCreated(s, t, id) = CreateNote(storages[t], dnote, {}, now)
    BY DEF NoteCreated
<1> HIDE DEF note
<1>4. dnote \in CryptedNote
    BY <1>2, NoteOutOfGroup
<1>5. /\ dnote.info = note.info /\ dnote.passw = note.passw
      /\ dnote.history = note.history
    BY <1>2 DEF CryptedNote
<1> HIDE DEF dnote
<1>6. NoteValues(dnote, CryptedPassword)
    BY <1>4, FlatTypes DEF NoteValues, CryptedNote
<1>7. ShownNote(dnote) = ShownNote(note)
    BY <1>5, SameNote
<1>8. Items(storages[t]) \cup {ShownNote(dnote)}
        \subseteq Items(CreateNote(storages[t], dnote, {}, now))
    BY <1>1, <1>6, CreateNoteShows
<1> QED BY <1>3, <1>7, <1>8 DEF note

LEMMA OtpNoteCreatedShows ==
    ASSUME IInv, NEW s \in Storages, NEW t \in Storages, NEW id,
           LoggedIn(s), LoggedIn(t), HasId(storages[s].otpNotes, id)
    PROVE  LET list == storages[s].otpNotes
           IN  Items(storages[t]) \cup {ShownOtp(list[IndexOf(list, id)])}
                  \subseteq Items(OtpNoteCreated(s, t, id))
<1> DEFINE note == storages[s].otpNotes[IndexOf(storages[s].otpNotes, id)]
           dnote == [note EXCEPT !.colorGroupId = 0]
<1>1. /\ Sound(storages[t])
      /\ storages[s].otpNotes \in Seq(CryptedOtpInfo)
    BY SnapshotParts DEF IInv, Good, Sound
<1>2. note \in CryptedOtpInfo
    BY <1>1, IndexOfType
<1>3. OtpNoteCreated(s, t, id) = CreateOtpNote(storages[t], dnote, {})
    BY DEF OtpNoteCreated
<1> HIDE DEF note
<1>4. dnote \in CryptedOtpInfo
    BY <1>2, OtpNoteOutOfGroup
<1>5. ShownOtp(dnote) = ShownOtp(note)
    BY <1>2 DEF CryptedOtpInfo, ShownOtp
<1> HIDE DEF dnote
<1>6. OtpValues(dnote)
    BY <1>4 DEF OtpValues, CryptedOtpInfo
<1>7. Items(storages[t]) \cup {ShownOtp(dnote)}
        \subseteq Items(CreateOtpNote(storages[t], dnote, {}))
    BY <1>1, <1>6, CreateOtpNoteShows
<1> QED BY <1>3, <1>5, <1>7 DEF note

\* the target of a move was saved and, unless the process died, the source
LEMMA MovedKeeps ==
    ASSUME IInv, FileCurrent, SaveOutcomes \subseteq {TRUE},
           NEW s \in Storages, NEW t \in Storages, CanMove(s, t),
           NEW source \in DataSnapshot, NEW target \in DataSnapshot,
           NEW item, Items(storages[t]) \cup {item} \subseteq Items(target),
           Items(storages[s]) \subseteq Items(source) \cup {item},
           Moved(s, t, source, target) \/ DiedMoving(t, target)
    PROVE  SavedItems \subseteq SavedItems'
<1>1. s # t /\ LoggedIn(s) /\ LoggedIn(t)
    BY DEF CanMove
<1>2. /\ FileOf(target) \in FileSections /\ FileOf(source) \in FileSections
      /\ Items(FileOf(target)) = Items(target)
      /\ Items(FileOf(source)) = Items(source)
    BY FileOfType, FileShows
<1>3. /\ file'[t] = FileOf(target)
      /\ file'[s] = FileOf(source) \/ file'[s] = file[s]
      /\ \A x \in Storages : x # s /\ x # t => file'[x] = file[x]
    <2>1. \/ file' = [file EXCEPT ![t] = FileOf(target), ![s] = FileOf(source)]
          \/ file' = [file EXCEPT ![t] = FileOf(target)]
        BY DEF Moved, DiedMoving
    <2> QED BY <1>1, <2>1 DEF IInv, TypeOK
<1>4. file'[t] # NoFile /\ Items(file'[t]) = Items(target)
    BY <1>2, <1>3, NoFileAssumption
<1>5. Items(target) \subseteq SavedItems'
    BY <1>4 DEF SavedItems
<1>6. ASSUME NEW x \in Storages, file[x] # NoFile
      PROVE  Items(file[x]) \subseteq SavedItems'
    <2>1. CASE x = t
        BY <1>1, <1>5, <2>1, FileItems
    <2>2. CASE x = s
        <3>1. CASE file'[s] = file[s]
            BY <1>6, <2>2, <3>1 DEF SavedItems
        <3>2. CASE file'[s] = FileOf(source)
            <4>1. file'[s] # NoFile /\ Items(file'[s]) = Items(source)
                BY <1>2, <3>2, NoFileAssumption
            <4>2. Items(source) \subseteq SavedItems'
                BY <4>1 DEF SavedItems
            <4>3. Items(file[s]) = Items(storages[s])
                BY <1>1, FileItems
            <4> QED BY <1>5, <2>2, <4>2, <4>3
        <3> QED BY <1>3, <3>1, <3>2
    <2>3. CASE x # s /\ x # t
        BY <1>3, <1>6, <2>3 DEF SavedItems
    <2> QED BY <2>1, <2>2, <2>3
<1> QED BY <1>6 DEF SavedItems

LEMMA MoveKeeps ==
    ASSUME IInv, FileCurrent, SaveOutcomes \subseteq {TRUE}, Move \/ DieInMove
    PROVE  SavedItems \subseteq SavedItems'
<1>1. ASSUME NEW s \in Storages, NEW t \in Storages, NEW id,
             MoveNote(s, t, id) \/ DieInMoveNote(s, t, id)
      PROVE  SavedItems \subseteq SavedItems'
    <2> DEFINE source == RemoveNote(storages[s], id)
               target == NoteCreated(s, t, id)
               list == storages[s].notes
               item == ShownNote(list[IndexOf(list, id)])
    <2>1. /\ CanMove(s, t) /\ HasId(list, id)
          /\ Moved(s, t, source, target) \/ DiedMoving(t, target)
        BY <1>1 DEF MoveNote, DieInMoveNote
    <2>2. LoggedIn(s) /\ LoggedIn(t) /\ Sound(storages[s])
        BY <2>1 DEF CanMove, IInv, Good
    <2>3. source \in DataSnapshot /\ target \in DataSnapshot
        BY <2>1, <2>2, RemoveNoteSound, NoteCreatedSound DEF Good, Sound
    <2>4. Items(storages[t]) \cup {item} \subseteq Items(target)
        BY <2>1, <2>2, NoteCreatedShows
    <2>5. Items(storages[s]) \subseteq Items(source) \cup {item}
        BY <2>1, <2>2, RemoveNoteShows
    <2> HIDE DEF source, target, item
    <2> QED BY <2>1, <2>3, <2>4, <2>5, MovedKeeps
<1>2. ASSUME NEW s \in Storages, NEW t \in Storages, NEW id,
             MoveOtpNote(s, t, id) \/ DieInMoveOtpNote(s, t, id)
      PROVE  SavedItems \subseteq SavedItems'
    <2> DEFINE source == RemoveOtpNote(storages[s], id)
               target == OtpNoteCreated(s, t, id)
               list == storages[s].otpNotes
               item == ShownOtp(list[IndexOf(list, id)])
    <2>1. /\ CanMove(s, t) /\ HasId(list, id)
          /\ Moved(s, t, source, target) \/ DiedMoving(t, target)
        BY <1>2 DEF MoveOtpNote, DieInMoveOtpNote
    <2>2. LoggedIn(s) /\ LoggedIn(t) /\ Sound(storages[s])
        BY <2>1 DEF CanMove, IInv, Good
    <2>3. source \in DataSnapshot /\ target \in DataSnapshot
        BY <2>1, <2>2, RemoveOtpNoteSound, OtpNoteCreatedSound DEF Good, Sound
    <2>4. Items(storages[t]) \cup {item} \subseteq Items(target)
        BY <2>1, <2>2, OtpNoteCreatedShows
    <2>5. Items(storages[s]) \subseteq Items(source) \cup {item}
        BY <2>1, <2>2, RemoveOtpNoteShows
    <2> HIDE DEF source, target, item
    <2> QED BY <2>1, <2>3, <2>4, <2>5, MovedKeeps
<1> QED BY <1>1, <1>2 DEF Move, DieInMove

\* When no save fails, a move to another storage, also one the process dies
\* in, leaves every note and otp note, with its old passwords, in some file:
\* the target is saved before the source gives the item up.
THEOREM NothingLostInMoves ==
    SaveOutcomes \subseteq {TRUE} => (Spec => MovesLoseNothing)
<1> SUFFICES ASSUME SaveOutcomes \subseteq {TRUE}
             PROVE  Spec => MovesLoseNothing
    OBVIOUS
<1>1. IInv /\ FileCurrent
        => [Move \/ DieInMove => SavedItems \subseteq SavedItems']_vars
    BY MoveKeeps
<1>2. Spec => []FileCurrent
    BY FileIsCurrent
<1> QED BY <1>1, <1>2, SpecIInv, PTL DEF MovesLoseNothing

-----------------------------------------------------------------------------
(* Histories *)

\* the histories of memory and of the files are in order, and from the past
HInv ==
    \A s \in Storages :
        /\ LoggedIn(s) => AllNewestFirst(storages[s].notes, now)
        /\ file[s] # NoFile => AllNewestFirst(file[s].notes, now)

LEMMA FileInOrder ==
    ASSUME NEW d \in DataSnapshot, NEW t, AllNewestFirst(d.notes, t)
    PROVE  AllNewestFirst(FileOf(d).notes, t)
<1> DEFINE notes == FileOf(d).notes
<1>1. d.notes \in Seq(CryptedNote)
    BY SnapshotParts
<1>2. DOMAIN notes = DOMAIN d.notes
    BY <1>1 DEF FileOf
<1>3. ASSUME NEW k \in DOMAIN d.notes
      PROVE  NewestFirst(notes[k], t)
    <2>1. d.notes[k] \in CryptedNote
        BY <1>1
    <2>2. d.notes[k].history \in Seq(CryptedPassword)
        BY <2>1 DEF CryptedNote
    <2>3. /\ notes[k].genTime = d.notes[k].genTime
          /\ notes[k].history = FlatHistory(d.notes[k].history)
        BY <1>1 DEF FileOf
    <2> HIDE DEF notes
    <2>4. /\ DOMAIN notes[k].history = DOMAIN d.notes[k].history
          /\ \A i \in DOMAIN d.notes[k].history :
                notes[k].history[i].genTime = d.notes[k].history[i].genTime
        BY <2>2, <2>3 DEF FlatHistory
    <2>5. NewestFirst(d.notes[k], t)
        BY DEF AllNewestFirst
    <2> QED BY <2>3, <2>4, <2>5, SameTimes
<1> HIDE DEF notes
<1> QED BY <1>2, <1>3 DEF AllNewestFirst, notes

LEMMA ReadInOrder ==
    ASSUME NEW f \in FileSections, NEW t, AllNewestFirst(f.notes, t)
    PROVE  AllNewestFirst(ReadAll(f).notes, t)
<1> DEFINE notes == ReadAll(f).notes
           from(k) == IdAfterNotes(f, k - 1) + 1
<1>1. f.notes \in Seq(CryptedNoteFlat)
    BY DEF FileSections
<1>2. /\ DOMAIN notes = DOMAIN f.notes
      /\ \A k \in DOMAIN f.notes : notes[k] = ReadNote(f, k)
    BY <1>1 DEF ReadAll
<1> HIDE DEF notes
<1>3. ASSUME NEW k \in DOMAIN f.notes
      PROVE  NewestFirst(notes[k], t)
    <2>1. f.notes[k] \in CryptedNoteFlat
        BY <1>1
    <2>2. f.notes[k].history \in Seq(CryptedPasswordFlat)
        BY <2>1 DEF CryptedNoteFlat
    <2>3. /\ notes[k].genTime = f.notes[k].genTime
          /\ notes[k].history = Numbered(f.notes[k].history, from(k))
        <3>1. notes[k] = ReadNote(f, k)
            BY <1>2
        <3> QED BY <3>1 DEF ReadNote
    <2>4. /\ DOMAIN notes[k].history = DOMAIN f.notes[k].history
          /\ \A i \in DOMAIN f.notes[k].history :
                notes[k].history[i].genTime = f.notes[k].history[i].genTime
        <3> HIDE DEF from
        <3> QED BY <2>2, <2>3 DEF Numbered
    <2>5. NewestFirst(f.notes[k], t)
        BY DEF AllNewestFirst
    <2> QED BY <2>3, <2>4, <2>5, SameTimes
<1> QED BY <1>2, <1>3 DEF AllNewestFirst, notes

LEMMA RegroupKeepsTheRest ==
    ASSUME NEW notes \in Seq(CryptedNote), NEW ids, NEW groupId
    PROVE  Regrouped(notes, Regroup(notes, ids, groupId))
<1> DEFINE other == Regroup(notes, ids, groupId)
<1>1. /\ DOMAIN other = DOMAIN notes
      /\ \A k \in DOMAIN notes :
            /\ other[k] = IF notes[k].id \in ids
                          THEN [notes[k] EXCEPT !.colorGroupId = groupId]
                          ELSE notes[k]
            /\ notes[k] \in CryptedNote
    BY DEF Regroup
<1> HIDE DEF other
<1>2. ASSUME NEW k \in DOMAIN notes
      PROVE  /\ other[k].id = notes[k].id /\ other[k].passw = notes[k].passw
             /\ other[k].genTime = notes[k].genTime
             /\ other[k].history = notes[k].history
    BY <1>1 DEF CryptedNote
<1>3. Regrouped(notes, other)
    BY <1>1, <1>2 DEF Regrouped
<1> QED BY <1>3 DEF other

LEMMA InitHInv == Init => HInv
    BY DEF Init, HInv, LoggedIn

LEMMA SavedInOrder ==
    ASSUME IInv, HInv, NEW s \in Storages, NEW d \in DataSnapshot,
           AllNewestFirst(d.notes, now), Installed(s, d)
    PROVE  HInv'
<1>1. AllNewestFirst(FileOf(d).notes, now)
    BY FileInOrder
<1>2. /\ storages' = [storages EXCEPT ![s] = d] /\ now' = now
      /\ file' = [file EXCEPT ![s] = FileOf(d)] \/ file' = file
    BY DEF Installed
<1>3. ASSUME NEW x \in Storages, LoggedIn(x)'
      PROVE  AllNewestFirst(storages'[x].notes, now')
    <2>1. storages'[x] = IF x = s THEN d ELSE storages[x]
        BY <1>2 DEF IInv, TypeOK
    <2> QED BY <1>2, <1>3, <2>1 DEF HInv, LoggedIn
<1>4. ASSUME NEW x \in Storages, file'[x] # NoFile
      PROVE  AllNewestFirst(file'[x].notes, now')
    <2>1. file'[x] \in {FileOf(d), file[x]}
        BY <1>2 DEF IInv, TypeOK
    <2> QED BY <1>1, <1>2, <1>4, <2>1 DEF HInv
<1> QED BY <1>3, <1>4 DEF HInv

LEMMA MovedInOrder ==
    ASSUME IInv, HInv, NEW s \in Storages, NEW t \in Storages,
           NEW source \in DataSnapshot, NEW target \in DataSnapshot,
           AllNewestFirst(source.notes, now),
           AllNewestFirst(target.notes, now),
           Moved(s, t, source, target) \/ DiedMoving(t, target)
    PROVE  HInv'
<1>1. /\ AllNewestFirst(FileOf(source).notes, now)
      /\ AllNewestFirst(FileOf(target).notes, now)
    BY FileInOrder
<1>2. now' = now
    BY DEF Moved, DiedMoving
<1>3. ASSUME NEW x \in Storages, LoggedIn(x)'
      PROVE  AllNewestFirst(storages'[x].notes, now')
    <2>1. \/ storages' = [storages EXCEPT ![t] = target, ![s] = source]
          \/ storages' = [y \in Storages |-> LoggedOut]
        BY DEF Moved, DiedMoving
    <2>2. storages'[x] \in {source, target} \/ storages'[x] = storages[x]
        BY <1>3, <2>1 DEF IInv, TypeOK, LoggedIn
    <2> QED BY <1>2, <1>3, <2>2 DEF HInv, LoggedIn
<1>4. ASSUME NEW x \in Storages, file'[x] # NoFile
      PROVE  AllNewestFirst(file'[x].notes, now')
    <2>1. CASE Moved(s, t, source, target)
        <3>1. PICK targetOk \in SaveOutcomes, sourceOk \in SaveOutcomes :
                file' = [file EXCEPT
                     ![t] = IF targetOk THEN FileOf(target) ELSE @,
                     ![s] = IF sourceOk THEN FileOf(source) ELSE @]
            BY <2>1 DEF Moved
        <3>2. file'[x] \in {FileOf(source), FileOf(target), file[x]}
            BY <3>1 DEF IInv, TypeOK
        <3> QED BY <1>1, <1>2, <1>4, <3>2 DEF HInv
    <2>2. CASE DiedMoving(t, target)
        <3>1. file'[x] \in {FileOf(target), file[x]}
            BY <2>2 DEF DiedMoving, IInv, TypeOK
        <3> QED BY <1>1, <1>2, <1>4, <3>1 DEF HInv
    <2> QED BY <2>1, <2>2
<1> QED BY <1>3, <1>4 DEF HInv

\* the two ends of a move
LEMMA MoveInOrder ==
    ASSUME IInv, HInv, NEW s \in Storages, NEW t \in Storages, NEW id,
           \/ MoveNote(s, t, id) \/ DieInMoveNote(s, t, id)
           \/ MoveOtpNote(s, t, id) \/ DieInMoveOtpNote(s, t, id)
    PROVE  HInv'
<1>1. LoggedIn(s) /\ LoggedIn(t)
    BY DEF MoveNote, DieInMoveNote, MoveOtpNote, DieInMoveOtpNote, CanMove
<1>2. /\ Sound(storages[s]) /\ Sound(storages[t]) /\ now \in Nat
      /\ storages[s] \in DataSnapshot /\ storages[t] \in DataSnapshot
      /\ storages[s].notes \in Seq(CryptedNote)
      /\ AllNewestFirst(storages[s].notes, now)
      /\ AllNewestFirst(storages[t].notes, now)
    BY <1>1, SnapshotParts DEF IInv, TypeOK, Good, Sound, HInv
<1>3. CASE MoveNote(s, t, id) \/ DieInMoveNote(s, t, id)
    <2> DEFINE source == RemoveNote(storages[s], id)
               target == NoteCreated(s, t, id)
               note == storages[s].notes[IndexOf(storages[s].notes, id)]
               dnote == [note EXCEPT !.colorGroupId = 0]
    <2>1. /\ HasId(storages[s].notes, id)
          /\ Moved(s, t, source, target) \/ DiedMoving(t, target)
        BY <1>3 DEF MoveNote, DieInMoveNote
    <2>2. source \in DataSnapshot /\ target \in DataSnapshot
        BY <1>1, <1>2, <2>1, RemoveNoteSound, NoteCreatedSound DEF Good, Sound
    <2>3. AllNewestFirst(source.notes, now)
        BY <1>2, RemoveNoteNewestFirst
    <2>4. AllNewestFirst(target.notes, now)
        <3>1. note \in CryptedNote /\ NewestFirst(note, now)
            BY <1>2, <2>1, IndexOfType DEF AllNewestFirst
        <3>2. target = CreateNote(storages[t], dnote, {}, now)
            BY DEF NoteCreated
        <3> HIDE DEF note
        <3>3. dnote \in CryptedNote /\ dnote.history = note.history
            BY <3>1, NoteOutOfGroup
        <3> HIDE DEF dnote, target
        <3>4. NoteValues(dnote, CryptedPassword)
            BY <3>3, FlatTypes DEF NoteValues, CryptedNote
        <3>5. OlderThan(dnote.history, now)
            <4>1. /\ note.genTime \in Nat /\ note.genTime <= now
                  /\ OlderThan(note.history, note.genTime)
                BY <1>2, <3>1 DEF NewestFirst
            <4> QED BY <1>2, <3>3, <4>1, OlderThanLater
        <3> QED BY <1>2, <3>2, <3>4, <3>5, CreateNoteNewestFirst
    <2> HIDE DEF source, target
    <2> QED BY <2>1, <2>2, <2>3, <2>4, MovedInOrder
<1>4. CASE MoveOtpNote(s, t, id) \/ DieInMoveOtpNote(s, t, id)
    <2> DEFINE source == RemoveOtpNote(storages[s], id)
               target == OtpNoteCreated(s, t, id)
    <2>1. /\ HasId(storages[s].otpNotes, id)
          /\ Moved(s, t, source, target) \/ DiedMoving(t, target)
        BY <1>4 DEF MoveOtpNote, DieInMoveOtpNote
    <2>2. source \in DataSnapshot /\ target \in DataSnapshot
        BY <1>1, <1>2, <2>1, RemoveOtpNoteSound, OtpNoteCreatedSound
           DEF Good, Sound
    <2>3. source.notes = storages[s].notes
        BY <1>2 DEF RemoveOtpNote, DataSnapshot
    <2>4. target.notes = storages[t].notes
        BY <1>2 DEF OtpNoteCreated, CreateOtpNote, SetOtpNote, DataSnapshot
    <2> HIDE DEF source, target
    <2> QED BY <1>2, <2>1, <2>2, <2>3, <2>4, MovedInOrder
<1> QED BY <1>3, <1>4

\* the calls that leave the notes of a snapshot alone
LEMMA NotesLeftAlone ==
    ASSUME NEW d \in DataSnapshot
    PROVE  /\ \A id, color : SetColorGroup(d, id, color).notes = d.notes
           /\ \A color : CreateColorGroup(d, color).notes = d.notes
           /\ \A dnote, flags : SetOtpNote(d, dnote, flags).notes = d.notes
           /\ \A dnote, flags : CreateOtpNote(d, dnote, flags).notes = d.notes
           /\ \A id : RemoveOtpNote(d, id).notes = d.notes
           /\ \A id : IncrementHotp(d, id).notes = d.notes
           /\ \A passw, time : GenPassword(d, passw, time).notes = d.notes
<1>1. ASSUME NEW id, NEW color
      PROVE  SetColorGroup(d, id, color).notes = d.notes
    BY DEF SetColorGroup, DataSnapshot
<1>2. ASSUME NEW color
      PROVE  CreateColorGroup(d, color).notes = d.notes
    BY DEF CreateColorGroup, SetColorGroup, DataSnapshot
<1>3. ASSUME NEW dnote, NEW flags
      PROVE  SetOtpNote(d, dnote, flags).notes = d.notes
    BY DEF SetOtpNote, DataSnapshot
<1>4. ASSUME NEW dnote, NEW flags
      PROVE  CreateOtpNote(d, dnote, flags).notes = d.notes
    BY DEF CreateOtpNote, SetOtpNote, DataSnapshot
<1>5. ASSUME NEW id
      PROVE  RemoveOtpNote(d, id).notes = d.notes
    BY DEF RemoveOtpNote, DataSnapshot
<1>6. ASSUME NEW id
      PROVE  IncrementHotp(d, id).notes = d.notes
    BY DEF IncrementHotp, DataSnapshot
<1>7. ASSUME NEW passw, NEW time
      PROVE  GenPassword(d, passw, time).notes = d.notes
    BY DEF GenPassword, AppendPasswHistory, DataSnapshot
<1> QED BY <1>1, <1>2, <1>3, <1>4, <1>5, <1>6, <1>7

LEMMA SessionInOrder ==
    ASSUME IInv, HInv, SessionStep
    PROVE  HInv'
<1>1. ASSUME NEW s \in Storages, Login(s)
      PROVE  HInv'
    <2>0. AllNewestFirst(EmptyFile.notes, now)
        BY DEF AllNewestFirst, EmptyFile
    <2>1. PICK f \in FileSections :
            /\ storages' = [storages EXCEPT ![s] = ReadAll(f)]
            /\ file' = [file EXCEPT ![s] = f]
            /\ now' = now /\ AllNewestFirst(f.notes, now)
        BY <1>1, <2>0, EmptyFileType DEF Login, IInv, TypeOK, HInv
    <2>2. AllNewestFirst(ReadAll(f).notes, now)
        BY <2>1, ReadInOrder
    <2>3. ASSUME NEW x \in Storages, LoggedIn(x)'
          PROVE  AllNewestFirst(storages'[x].notes, now')
        <3>1. storages'[x] = IF x = s THEN ReadAll(f) ELSE storages[x]
            BY <2>1 DEF IInv, TypeOK
        <3> QED BY <2>1, <2>2, <2>3, <3>1 DEF HInv, LoggedIn
    <2>4. ASSUME NEW x \in Storages, file'[x] # NoFile
          PROVE  AllNewestFirst(file'[x].notes, now')
        <3>1. file'[x] \in {f, file[x]}
            BY <2>1 DEF IInv, TypeOK
        <3> QED BY <2>1, <2>4, <3>1 DEF HInv
    <2> QED BY <2>3, <2>4 DEF HInv
<1>2. ASSUME NEW s \in Storages, Unlogin(s)
      PROVE  HInv'
    BY <1>2 DEF Unlogin, HInv, LoggedIn, IInv, TypeOK
<1>3. CASE LogoutAll
    BY <1>3 DEF LogoutAll, HInv, LoggedIn
<1> QED BY <1>1, <1>2, <1>3 DEF SessionStep

LEMMA CallInOrder ==
    ASSUME IInv, HInv, NEW s \in Storages,
           GroupStep(s) \/ NoteStep(s) \/ OtpStep(s) \/ PasswStep(s)
    PROVE  HInv'
<1> DEFINE d == storages[s]
<1>1. LoggedIn(s) => /\ d \in DataSnapshot /\ Sound(d)
                     /\ d.notes \in Seq(CryptedNote)
                     /\ AllNewestFirst(d.notes, now)
    BY SnapshotParts DEF IInv, Good, Sound, HInv
<1>2. now \in Nat
    BY DEF IInv, TypeOK
<1>3. ASSUME NEW t \in Storages, NEW id,
             \/ MoveNote(s, t, id) \/ DieInMoveNote(s, t, id)
             \/ MoveOtpNote(s, t, id) \/ DieInMoveOtpNote(s, t, id)
      PROVE  HInv'
    BY <1>3, MoveInOrder
<1>4. CASE GroupStep(s)
    <2>1. ASSUME NEW color \in Colors, NEW id, SaveColorGroup(s, id, color)
          PROVE  HInv'
        <3>1. /\ LoggedIn(s)
              /\ \/ Installed(s, CreateColorGroup(d, color))
                 \/ Installed(s, SetColorGroup(d, id, color))
            BY <2>1 DEF SaveColorGroup, Saved
        <3>2. /\ CreateColorGroup(d, color) \in DataSnapshot
              /\ SetColorGroup(d, id, color) \in DataSnapshot
              /\ CreateColorGroup(d, color).notes = d.notes
              /\ SetColorGroup(d, id, color).notes = d.notes
            BY <1>1, <3>1, CreateColorGroupSound, SetColorGroupSound,
               NotesLeftAlone DEF Sound
        <3> QED BY <1>1, <3>1, <3>2, SavedInOrder
    <2>2. ASSUME NEW id, RemoveGroup(s, id)
          PROVE  HInv'
        <3>1. LoggedIn(s) /\ Installed(s, RemoveColorGroup(d, id))
            BY <2>2 DEF RemoveGroup, Saved
        <3>2. /\ RemoveColorGroup(d, id) \in DataSnapshot
              /\ AllNewestFirst(RemoveColorGroup(d, id).notes, now)
            BY <1>1, <3>1, RemoveColorGroupSound, RemoveColorGroupNotes,
               RegroupedNewestFirst
               DEF Sound
        <3> QED BY <3>1, <3>2, SavedInOrder
    <2>3. ASSUME NEW ids, NEW g \in AnyGroup, SetNotesGroup(s, ids, g)
          PROVE  HInv'
        <3> DEFINE e == [d EXCEPT !.notes = Regroup(@, ids, g)]
        <3>1. LoggedIn(s) /\ g \in Int /\ Installed(s, e)
            BY <2>3, AnyGroupAssumption DEF SetNotesGroup, SavedInGroup
        <3>2. e \in DataSnapshot
            BY <1>1, <3>1, RegroupNotesSound DEF Sound
        <3>3. e.notes = Regroup(d.notes, ids, g)
            BY <1>1, <3>1 DEF DataSnapshot
        <3> HIDE DEF e
        <3>4. AllNewestFirst(e.notes, now)
            BY <1>1, <3>1, <3>3, RegroupKeepsTheRest,
               RegroupedNewestFirst
        <3> QED BY <3>1, <3>2, <3>4, SavedInOrder
    <2>4. ASSUME NEW ids, NEW g \in AnyGroup, SetOtpNotesGroup(s, ids, g)
          PROVE  HInv'
        <3> DEFINE e == [d EXCEPT !.otpNotes = Regroup(@, ids, g)]
        <3>1. LoggedIn(s) /\ g \in Int /\ Installed(s, e)
            BY <2>4, AnyGroupAssumption DEF SetOtpNotesGroup, SavedInGroup
        <3>2. e \in DataSnapshot
            BY <1>1, <3>1, RegroupOtpNotesSound DEF Sound
        <3>3. e.notes = d.notes
            BY <1>1, <3>1 DEF DataSnapshot
        <3> HIDE DEF e
        <3> QED BY <1>1, <3>1, <3>2, <3>3, SavedInOrder
    <2> QED BY <1>4, <2>1, <2>2, <2>3, <2>4 DEF GroupStep
<1>5. CASE NoteStep(s)
    <2>1. ASSUME NEW id, NEW info \in Infos, NEW passw \in AnyPassw,
                 NEW g \in AnyGroup, NEW setAll,
                 SaveNote(s, id, info, passw, g, setAll)
          PROVE  HInv'
        <3> DEFINE flags == IF setAll
                            THEN {"INFO", "PASSW", "TRACK_HISTORY"} ELSE {}
                   dnote == [id |-> id, info |-> info, passw |-> passw,
                             colorGroupId |-> g, history |-> <<>>]
        <3>1. LoggedIn(s) /\ g \in Int
            BY <2>1, AnyGroupAssumption DEF SaveNote, SavedInGroup
        <3>2. Installed(s, IF id = 0 THEN CreateNote(d, dnote, flags, now)
                                 ELSE SetNote(d, dnote, flags, now))
            BY <2>1 DEF SaveNote, SavedInGroup
        <3>3. /\ NoteValues(dnote, CryptedPassword)
              /\ OlderThan(dnote.history, now)
              /\ "FULL_HISTORY" \notin flags
            BY <3>1, FlatTypes DEF NoteValues, OlderThan
        <3> HIDE DEF dnote, flags
        <3>4. CASE id = 0
            <4>1. /\ CreateNote(d, dnote, flags, now) \in DataSnapshot
                  /\ AllNewestFirst(CreateNote(d, dnote, flags, now).notes, now)
                BY <1>1, <1>2, <3>1, <3>3, CreateNoteSound,
                   CreateNoteNewestFirst DEF Sound
            <4> QED BY <3>2, <3>4, <4>1, SavedInOrder
        <3>5. CASE id # 0
            <4>1. /\ SetNote(d, dnote, flags, now) \in DataSnapshot
                  /\ AllNewestFirst(SetNote(d, dnote, flags, now).notes, now)
                BY <1>1, <1>2, <3>1, <3>3, SetNoteSound,
                   SetNoteNewestFirst DEF Sound
            <4> QED BY <3>2, <3>5, <4>1, SavedInOrder
        <3> QED BY <3>4, <3>5
    <2>2. ASSUME NEW id, DeleteNote(s, id)
          PROVE  HInv'
        <3>1. LoggedIn(s) /\ Installed(s, RemoveNote(d, id))
            BY <2>2 DEF DeleteNote, Saved
        <3>2. /\ RemoveNote(d, id) \in DataSnapshot
              /\ AllNewestFirst(RemoveNote(d, id).notes, now)
            BY <1>1, <3>1, RemoveNoteSound, RemoveNoteNewestFirst DEF Sound
        <3> QED BY <3>1, <3>2, SavedInOrder
    <2> QED BY <1>3, <1>5, <2>1, <2>2 DEF NoteStep
<1>6. CASE OtpStep(s)
    <2>1. ASSUME NEW id, OtpNote(s, id)
          PROVE  HInv'
        <3>1. /\ LoggedIn(s) /\ file' = file /\ now' = now
              /\ storages' = [storages EXCEPT ![s] = IncrementHotp(d, id)]
            BY <2>1 DEF OtpNote
        <3>2. IncrementHotp(d, id).notes = d.notes
            BY <1>1, <3>1, NotesLeftAlone
        <3>3. ASSUME NEW x \in Storages, LoggedIn(x)'
              PROVE  AllNewestFirst(storages'[x].notes, now')
            <4>1. \/ x = s /\ storages'[x].notes = d.notes
                  \/ x # s /\ storages'[x] = storages[x]
                BY <3>1, <3>2 DEF IInv, TypeOK
            <4> QED BY <1>1, <3>1, <3>3, <4>1 DEF HInv, LoggedIn
        <3> QED BY <3>1, <3>3 DEF HInv
    <2>2. ASSUME NEW id, DeleteOtpNote(s, id)
          PROVE  HInv'
        <3>1. LoggedIn(s) /\ Installed(s, RemoveOtpNote(d, id))
            BY <2>2 DEF DeleteOtpNote, Saved
        <3>2. /\ RemoveOtpNote(d, id) \in DataSnapshot
              /\ RemoveOtpNote(d, id).notes = d.notes
            BY <1>1, <3>1, RemoveOtpNoteSound, NotesLeftAlone DEF Sound
        <3> QED BY <1>1, <3>1, <3>2, SavedInOrder
    <2>3. ASSUME NEW dnote \in OtpInputs, NEW setAll,
                 SaveOtpNote(s, dnote, setAll)
          PROVE  HInv'
        <3> DEFINE flags == IF setAll THEN {"INFO", "PASSW"} ELSE {"INFO"}
        <3>1. /\ LoggedIn(s)
              /\ \/ Installed(s, CreateOtpNote(d, dnote, flags))
                 \/ Installed(s, SetOtpNote(d, dnote, flags))
            BY <2>3 DEF SaveOtpNote, SavedInGroup
        <3> HIDE DEF flags
        <3>2. OtpValues(dnote)
            <4>1. /\ dnote.info \in Infos /\ dnote.secret \in AnyPassw
                  /\ dnote.method \in OtpMethods
                  /\ dnote.counter \in 0 .. CounterBound
                  /\ dnote.colorGroupId \in AnyGroup
                BY DEF OtpInputs
            <4>2. dnote.counter \in Nat
                BY <4>1, BoundsAssumption
            <4> QED BY <4>1, <4>2, AnyGroupAssumption DEF OtpValues
        <3>3. /\ CreateOtpNote(d, dnote, flags) \in DataSnapshot
              /\ SetOtpNote(d, dnote, flags) \in DataSnapshot
              /\ CreateOtpNote(d, dnote, flags).notes = d.notes
              /\ SetOtpNote(d, dnote, flags).notes = d.notes
            BY <1>1, <3>1, <3>2, CreateOtpNoteSound, SetOtpNoteSound,
               NotesLeftAlone DEF Sound
        <3> QED BY <1>1, <3>1, <3>3, SavedInOrder
    <2> QED BY <1>3, <1>6, <2>1, <2>2, <2>3 DEF OtpStep
<1>7. CASE PasswStep(s)
    <2>1. ASSUME NEW passw \in AnyPassw, LoggedIn(s),
                 Installed(s, GenPassword(d, passw, now))
          PROVE  HInv'
        <3>1. /\ GenPassword(d, passw, now) \in DataSnapshot
              /\ GenPassword(d, passw, now).notes = d.notes
            BY <1>1, <1>2, <2>1, GenPasswordSound, NotesLeftAlone DEF Sound
        <3> QED BY <1>1, <2>1, <3>1, SavedInOrder
    <2>2. ASSUME NEW id, RemoveHist(s, id)
          PROVE  HInv'
        <3>1. LoggedIn(s) /\ Installed(s, RemovePasswHistory(d, id))
            BY <2>2 DEF RemoveHist, Saved
        <3>2. /\ RemovePasswHistory(d, id) \in DataSnapshot
              /\ AllNewestFirst(RemovePasswHistory(d, id).notes, now)
            BY <1>1, <3>1, RemovePasswHistorySound,
               RemovePasswHistoryNewestFirst DEF Sound
        <3> QED BY <3>1, <3>2, SavedInOrder
    <2>3. ASSUME NEW oldest, RemoveOldHist(s, oldest)
          PROVE  HInv'
        <3>1. LoggedIn(s) /\ Installed(s, WithoutOld(d, oldest))
            BY <2>3 DEF RemoveOldHist, Saved
        <3>2. /\ WithoutOld(d, oldest) \in DataSnapshot
              /\ AllNewestFirst(WithoutOld(d, oldest).notes, now)
            BY <1>1, <3>1, WithoutOldSound DEF Sound
        <3> QED BY <3>1, <3>2, SavedInOrder
    <2>4. Passws \subseteq AnyPassw
        BY DEF AnyPassw
    <2> QED BY <1>7, <2>1, <2>2, <2>3, <2>4
            DEF PasswStep, GenerateNewPassw, LastGeneratedPassw, Saved
<1> QED BY <1>4, <1>5, <1>6, <1>7

LEMMA NextHInv == IInv /\ HInv /\ [Next]_vars => HInv'
<1> SUFFICES ASSUME IInv, HInv, [Next]_vars
             PROVE  HInv'
    OBVIOUS
<1>1. CASE Tick
    <2>1. now \in Nat /\ now' \in Nat /\ now <= now'
          /\ UNCHANGED <<file, storages>>
        BY <1>1 DEF Tick, IInv, TypeOK
    <2> QED BY <2>1, NewestFirstLater DEF HInv, LoggedIn
<1>2. CASE UNCHANGED vars
    BY <1>2 DEF vars, HInv, LoggedIn
<1> QED BY <1>1, <1>2, SessionInOrder, CallInOrder DEF Next

\* the history of a note from its password on
LEMMA TimesInOrder ==
    ASSUME NEW note \in CryptedNote, NEW t, NewestFirst(note, t)
    PROVE  LET times == <<note.genTime>> \o
                  [i \in 1 .. Len(note.history) |-> note.history[i].genTime]
           IN  \A i, j \in DOMAIN times : i < j => times[i] >= times[j]
<1> DEFINE n == Len(note.history)
           hist == [i \in 1 .. n |-> note.history[i].genTime]
           times == <<note.genTime>> \o hist
<1>1. /\ note.history \in Seq(CryptedPassword) /\ n \in Nat
      /\ DOMAIN note.history = 1 .. n
      /\ note.genTime \in Nat
    BY DEF CryptedNote
<1>2. /\ \A i \in 1 .. n : hist[i] \in 0 .. note.genTime
      /\ \A i, j \in 1 .. n : i < j => hist[j] <= hist[i]
    BY <1>1 DEF NewestFirst, OlderThan
<1>3. hist \in Seq(Nat) /\ Len(hist) = n
    <2>1. hist \in [1 .. n -> Nat]
        <3>1. \A i \in 1 .. n : note.history[i].genTime \in Nat
            BY <1>1 DEF NewestFirst, OlderThan
        <3> HIDE DEF n
        <3> QED BY <3>1
    <2> HIDE DEF hist
    <2> QED BY <1>1, <2>1, TupleIsSeq
<1> HIDE DEF hist, n
<1>4. /\ DOMAIN times = 1 .. (n + 1)
      /\ times[1] = note.genTime
      /\ \A i \in 2 .. (n + 1) : times[i] = hist[i - 1]
    BY <1>1, <1>3
<1> HIDE DEF times
<1>5. ASSUME NEW i \in DOMAIN times, NEW j \in DOMAIN times, i < j
      PROVE  times[i] >= times[j]
    <2>1. j \in 2 .. (n + 1) /\ j - 1 \in 1 .. n
        BY <1>1, <1>4, <1>5
    <2>2. CASE i = 1
        BY <1>1, <1>2, <1>4, <2>1, <2>2
    <2>3. CASE i # 1
        <3>1. i \in 2 .. (n + 1) /\ i - 1 \in 1 .. n /\ i - 1 < j - 1
            BY <1>1, <1>4, <1>5, <2>3
        <3>2. /\ times[i] = hist[i - 1] /\ times[j] = hist[j - 1]
              /\ hist[i - 1] \in Nat /\ hist[j - 1] \in Nat
              /\ hist[j - 1] <= hist[i - 1]
            BY <1>1, <1>2, <1>4, <2>1, <3>1
        <3> QED BY <3>2
    <2> QED BY <2>2, <2>3
<1> QED BY <1>5 DEF times, hist, n

\* The history of a note is in order: each password was replaced no later
\* than the one before it in the list, and the current one is the newest,
\* through edits, moves, removals, logins and failed saves.
THEOREM HistoriesAreInOrder == Spec => []HistoryNewestFirst
<1>1. IInv /\ HInv => HistoryNewestFirst
    <2> SUFFICES ASSUME IInv, HInv, NEW s \in Storages, LoggedIn(s),
                        NEW k \in DOMAIN storages[s].notes
                 PROVE  LET note == storages[s].notes[k]
                            times == <<note.genTime>> \o
                                [i \in 1 .. Len(note.history) |->
                                    note.history[i].genTime]
                        IN  \A i, j \in DOMAIN times :
                               i < j => times[i] >= times[j]
        BY DEF HistoryNewestFirst
    <2>1. storages[s].notes \in Seq(CryptedNote)
        BY SnapshotParts DEF IInv, Good, Sound
    <2>2. /\ storages[s].notes[k] \in CryptedNote
          /\ NewestFirst(storages[s].notes[k], now)
        BY <2>1 DEF HInv, AllNewestFirst
    <2> QED BY <2>2, TimesInOrder
<1>2. IInv /\ HInv /\ [Next]_vars => HInv'
    BY NextHInv
<1> QED BY <1>1, <1>2, InitHInv, SpecIInv, PTL DEF Spec

-----------------------------------------------------------------------------
(* Passwords *)

\* a note that is in both lists has in the second all passwords of the first
PasswsKept(notes, other) ==
    \A j \in DOMAIN notes, k \in DOMAIN other :
        notes[j].id = other[k].id =>
            KnownPassws(notes[j]) \subseteq KnownPassws(other[k])

\* each note of the second list is one of the first or is new
LEMMA KeptOneByOne ==
    ASSUME NEW notes, Distinct(notes), NEW other,
           \A k \in DOMAIN other :
              \/ \A j \in DOMAIN notes : notes[j].id # other[k].id
              \/ \E j \in DOMAIN notes :
                    /\ notes[j].id = other[k].id
                    /\ KnownPassws(notes[j]) \subseteq KnownPassws(other[k])
    PROVE  PasswsKept(notes, other)
    BY DEF PasswsKept, Distinct

LEMMA KeptItself ==
    ASSUME NEW notes, Distinct(notes)
    PROVE  PasswsKept(notes, notes)
    BY KeptOneByOne

LEMMA RegroupedKept ==
    ASSUME NEW notes, Distinct(notes), NEW other, Regrouped(notes, other)
    PROVE  PasswsKept(notes, other)
<1>1. ASSUME NEW k \in DOMAIN other
      PROVE  /\ k \in DOMAIN notes /\ notes[k].id = other[k].id
             /\ KnownPassws(notes[k]) = KnownPassws(other[k])
    BY DEF Regrouped, KnownPassws
<1> QED BY <1>1, KeptOneByOne

LEMMA RemoveNoteKept ==
    ASSUME NEW d, Sound(d), NEW id
    PROVE  PasswsKept(d.notes, RemoveNote(d, id).notes)
<1> DEFINE other == RemoveNote(d, id).notes
<1>1. \A k \in DOMAIN other : \E j \in DOMAIN d.notes : other[k] = d.notes[j]
    BY RemoveNoteNotes DEF Sound
<1>2. Distinct(d.notes)
    BY DEF Sound, NoSharedIds
<1> HIDE DEF other
<1>3. PasswsKept(d.notes, other)
    BY <1>1, <1>2, KeptOneByOne
<1> QED BY <1>3 DEF other

\* The password that an edit with history replaces is in the history then.
LEMMA EditKept ==
    ASSUME NEW d \in DataSnapshot, NEW old \in CryptedNote, NEW dnote,
           NEW flags, "PASSW" \in flags => "TRACK_HISTORY" \in flags, NEW n
    PROVE  /\ Edited(d, old, dnote, flags, n).id = old.id
           /\ KnownPassws(old)
                 \subseteq KnownPassws(Edited(d, old, dnote, flags, n))
<1> DEFINE x == Edited(d, old, dnote, flags, n)
           new == PushedFront(Replaced(d, old), old.history)
<1>1. old.history \in Seq(CryptedPassword) /\ d.idCounter \in Nat
    BY DEF CryptedNote, DataSnapshot
<1>2. Replaced(d, old) \in CryptedPassword /\ Replaced(d, old).passw = old.passw
    BY <1>1 DEF Replaced, CryptedNote, CryptedPassword
<1>3. /\ 1 \in DOMAIN new /\ new[1].passw = old.passw
      /\ \A i \in DOMAIN old.history :
            i + 1 \in DOMAIN new /\ new[i + 1] = old.history[i]
    BY <1>1, <1>2 DEF PushedFront
<1>4. /\ x.id = old.id
      /\ x.passw = IF SetsPassw(old, dnote, flags)
                   THEN dnote.passw ELSE old.passw
      /\ x.history = IF TracksHistory(old, dnote, flags)
                     THEN new ELSE old.history
    BY DEF Edited
<1> HIDE DEF x, new
<1>5. CASE TracksHistory(old, dnote, flags)
    BY <1>3, <1>4, <1>5 DEF KnownPassws, x
<1>6. CASE ~ TracksHistory(old, dnote, flags)
    <2>1. \/ ~ SetsPassw(old, dnote, flags)
          \/ old.passw = EmptyPassw \/ old.passw = dnote.passw
        BY <1>6 DEF TracksHistory, SetsPassw
    <2>2. x.history = old.history /\ (x.passw = old.passw \/ old.passw = EmptyPassw)
        BY <1>4, <1>6, <2>1
    <2>3. KnownPassws(old) \subseteq KnownPassws(x)
        BY <2>2 DEF KnownPassws
    <2> QED BY <1>4, <2>3 DEF x
<1> QED BY <1>5, <1>6

LEMMA SetNoteKept ==
    ASSUME NEW d, Sound(d), NEW dnote, NEW flags, "FULL_HISTORY" \notin flags,
           "PASSW" \in flags => "TRACK_HISTORY" \in flags, NEW n
    PROVE  PasswsKept(d.notes, SetNote(d, dnote, flags, n).notes)
<1>1. d \in DataSnapshot /\ d.notes \in Seq(CryptedNote) /\ Distinct(d.notes)
    BY SnapshotParts DEF Sound, NoSharedIds
<1>2. CASE ~ HasId(d.notes, dnote.id)
    BY <1>1, <1>2, KeptItself DEF SetNote
<1>3. CASE HasId(d.notes, dnote.id)
    <2> DEFINE i == IndexOf(d.notes, dnote.id)
               x == Edited(d, d.notes[i], dnote, flags, n)
               other == [d.notes EXCEPT ![i] = x]
    <2>1. i \in DOMAIN d.notes /\ d.notes[i] \in CryptedNote
        BY <1>1, <1>3, IndexOfType
    <2>2. SetNote(d, dnote, flags, n).notes = other
        BY <1>1, <1>3, SetNoteEdits
    <2>3. x.id = d.notes[i].id /\ KnownPassws(d.notes[i]) \subseteq KnownPassws(x)
        BY <1>1, <2>1, EditKept
    <2> HIDE DEF i, x
    <2>4. /\ DOMAIN other = DOMAIN d.notes /\ other[i] = x
          /\ \A k \in DOMAIN d.notes : k # i => other[k] = d.notes[k]
        BY <1>1, <2>1
    <2> HIDE DEF other
    <2>5. \A k \in DOMAIN other :
            /\ k \in DOMAIN d.notes /\ d.notes[k].id = other[k].id
            /\ KnownPassws(d.notes[k]) \subseteq KnownPassws(other[k])
        BY <2>3, <2>4
    <2> QED BY <1>1, <2>2, <2>5, KeptOneByOne
<1> QED BY <1>2, <1>3

LEMMA CreateNoteKept ==
    ASSUME NEW d, Sound(d), NEW T, NEW dnote, NoteValues(dnote, T),
           NEW flags, NEW n \in Nat
    PROVE  PasswsKept(d.notes, CreateNote(d, dnote, flags, n).notes)
<1>1. /\ d.notes \in Seq(CryptedNote) /\ Distinct(d.notes)
      /\ d.idCounter \notin Ids(d.notes)
    BY SnapshotParts, SnapshotIds DEF Sound, NoSharedIds, IdsBelowCounters
<1>2. PICK next \in Nat :
        CreateNote(d, dnote, flags, n) = WithNote(d, dnote, next, n)
    BY CreatedNote
<1> DEFINE x == [id |-> d.idCounter, info |-> dnote.info,
                 passw |-> dnote.passw, genTime |-> n,
                 colorGroupId |-> dnote.colorGroupId,
                 history |-> Numbered(dnote.history, next)]
           other == Append(d.notes, x)
<1>3. CreateNote(d, dnote, flags, n).notes = other
    BY <1>2 DEF WithNote, Sound, DataSnapshot
<1>4. x.id = d.idCounter
    OBVIOUS
<1> HIDE DEF x
<1>5. \A k \in DOMAIN other :
        other[k] = x \/ \E j \in DOMAIN d.notes : other[k] = d.notes[j]
    BY <1>1
<1> HIDE DEF other
<1>6. \A k \in DOMAIN other :
        \/ \A j \in DOMAIN d.notes : d.notes[j].id # other[k].id
        \/ \E j \in DOMAIN d.notes : other[k] = d.notes[j]
    BY <1>1, <1>4, <1>5 DEF Ids
<1> QED BY <1>1, <1>3, <1>6, KeptOneByOne

\* what a step may do to the passwords of the notes
StepKeeps ==
    \A x \in Storages :
        \/ ~ LoggedIn(x) \/ ~ LoggedIn(x)' \/ Login(x)
        \/ \E id \in AnyId : RemoveHist(x, id)
        \/ PasswsKept(storages[x].notes, storages'[x].notes)

LEMMA UnchangedKept ==
    ASSUME IInv, NEW x \in Storages, LoggedIn(x), storages'[x] = storages[x]
    PROVE  PasswsKept(storages[x].notes, storages'[x].notes)
<1>1. Distinct(storages[x].notes)
    BY DEF IInv, Good, Sound, NoSharedIds
<1> QED BY <1>1, KeptItself

LEMMA ChangedKept ==
    ASSUME IInv, NEW s \in Storages, NEW d,
           storages' = [storages EXCEPT ![s] = d],
           LoggedIn(s) => PasswsKept(storages[s].notes, d.notes)
    PROVE  StepKeeps
<1>1. ASSUME NEW x \in Storages, LoggedIn(x)
      PROVE  PasswsKept(storages[x].notes, storages'[x].notes)
    <2>1. storages'[x] = IF x = s THEN d ELSE storages[x]
        BY DEF IInv, TypeOK
    <2> QED BY <1>1, <2>1, UnchangedKept
<1> QED BY <1>1 DEF StepKeeps

LEMMA SavedKept ==
    ASSUME IInv, NEW s \in Storages, NEW d, Installed(s, d),
           PasswsKept(storages[s].notes, d.notes)
    PROVE  StepKeeps
<1>1. storages' = [storages EXCEPT ![s] = d]
    BY DEF Installed
<1> QED BY <1>1, ChangedKept

LEMMA MoveStepKeeps ==
    ASSUME IInv, NEW s \in Storages, NEW t \in Storages, NEW id,
           \/ MoveNote(s, t, id) \/ DieInMoveNote(s, t, id)
           \/ MoveOtpNote(s, t, id) \/ DieInMoveOtpNote(s, t, id)
    PROVE  StepKeeps
<1>1. s # t /\ LoggedIn(s) /\ LoggedIn(t)
    BY DEF MoveNote, DieInMoveNote, MoveOtpNote, DieInMoveOtpNote, CanMove
<1>2. /\ Sound(storages[s]) /\ Sound(storages[t]) /\ now \in Nat
      /\ storages[s] \in DataSnapshot /\ storages[t] \in DataSnapshot
      /\ Distinct(storages[s].notes) /\ Distinct(storages[t].notes)
      /\ storages[s].notes \in Seq(CryptedNote)
    BY <1>1, SnapshotParts DEF IInv, TypeOK, Good, Sound, NoSharedIds
<1>3. ASSUME NEW source, NEW target, Moved(s, t, source, target),
             PasswsKept(storages[s].notes, source.notes),
             PasswsKept(storages[t].notes, target.notes)
      PROVE  StepKeeps
    <2>1. ASSUME NEW x \in Storages, LoggedIn(x)
          PROVE  PasswsKept(storages[x].notes, storages'[x].notes)
        <3>1. storages' = [storages EXCEPT ![t] = target, ![s] = source]
            BY <1>3 DEF Moved
        <3>2. storages'[x] = IF x = s THEN source
                             ELSE IF x = t THEN target ELSE storages[x]
            BY <3>1 DEF IInv, TypeOK
        <3> QED BY <1>3, <2>1, <3>2, UnchangedKept
    <2> QED BY <2>1 DEF StepKeeps
<1>4. ASSUME NEW target, DiedMoving(t, target)
      PROVE  StepKeeps
    BY <1>4 DEF DiedMoving, StepKeeps, LoggedIn
<1>5. CASE MoveNote(s, t, id)
    <2> DEFINE note == storages[s].notes[IndexOf(storages[s].notes, id)]
               dnote == [note EXCEPT !.colorGroupId = 0]
    <2>1. /\ HasId(storages[s].notes, id)
          /\ Moved(s, t, RemoveNote(storages[s], id), NoteCreated(s, t, id))
        BY <1>5 DEF MoveNote
    <2>2. note \in CryptedNote
        BY <1>2, <2>1, IndexOfType
    <2>3. NoteCreated(s, t, id) = CreateNote(storages[t], dnote, {}, now)
        BY DEF NoteCreated
    <2> HIDE DEF note
    <2>4. dnote \in CryptedNote
        BY <2>2, NoteOutOfGroup
    <2> HIDE DEF dnote
    <2>5. NoteValues(dnote, CryptedPassword)
        BY <2>4, FlatTypes DEF NoteValues, CryptedNote
    <2>6. PasswsKept(storages[t].notes, NoteCreated(s, t, id).notes)
        BY <1>2, <2>3, <2>5, CreateNoteKept
    <2>7. PasswsKept(storages[s].notes, RemoveNote(storages[s], id).notes)
        BY <1>2, RemoveNoteKept
    <2> QED BY <1>3, <2>1, <2>6, <2>7
<1>6. CASE MoveOtpNote(s, t, id)
    <2> DEFINE source == RemoveOtpNote(storages[s], id)
               target == OtpNoteCreated(s, t, id)
    <2>1. Moved(s, t, source, target)
        BY <1>6 DEF MoveOtpNote
    <2>2. source.notes = storages[s].notes
        BY <1>2, NotesLeftAlone
    <2>3. target.notes = storages[t].notes
        BY <1>2, NotesLeftAlone DEF OtpNoteCreated
    <2> HIDE DEF source, target
    <2> QED BY <1>2, <1>3, <2>1, <2>2, <2>3, KeptItself
<1>7. CASE DieInMoveNote(s, t, id) \/ DieInMoveOtpNote(s, t, id)
    BY <1>4, <1>7 DEF DieInMoveNote, DieInMoveOtpNote
<1> QED BY <1>5, <1>6, <1>7

LEMMA CallKeeps ==
    ASSUME IInv, NEW s \in Storages,
           GroupStep(s) \/ NoteStep(s) \/ OtpStep(s) \/ PasswStep(s)
    PROVE  StepKeeps
<1> DEFINE d == storages[s]
<1>1. LoggedIn(s) => /\ d \in DataSnapshot /\ Sound(d) /\ Distinct(d.notes)
                     /\ d.notes \in Seq(CryptedNote)
    BY SnapshotParts DEF IInv, Good, Sound, NoSharedIds
<1>2. now \in Nat
    BY DEF IInv, TypeOK
<1>3. ASSUME NEW e, LoggedIn(s), Installed(s, e), e.notes = d.notes
      PROVE  StepKeeps
    <2>1. PasswsKept(d.notes, e.notes)
        BY <1>1, <1>3, KeptItself
    <2> QED BY <1>3, <2>1, SavedKept
<1>4. CASE GroupStep(s)
    <2>1. ASSUME NEW color, NEW id, SaveColorGroup(s, id, color)
          PROVE  StepKeeps
        <3>1. /\ LoggedIn(s)
              /\ \/ Installed(s, CreateColorGroup(d, color))
                 \/ Installed(s, SetColorGroup(d, id, color))
            BY <2>1 DEF SaveColorGroup, Saved
        <3>2. /\ CreateColorGroup(d, color).notes = d.notes
              /\ SetColorGroup(d, id, color).notes = d.notes
            BY <1>1, <3>1, NotesLeftAlone
        <3> QED BY <1>3, <3>1, <3>2
    <2>2. ASSUME NEW id, RemoveGroup(s, id)
          PROVE  StepKeeps
        <3>1. LoggedIn(s) /\ Installed(s, RemoveColorGroup(d, id))
            BY <2>2 DEF RemoveGroup, Saved
        <3>2. PasswsKept(d.notes, RemoveColorGroup(d, id).notes)
            BY <1>1, <3>1, RemoveColorGroupNotes, RegroupedKept
        <3> QED BY <3>1, <3>2, SavedKept
    <2>3. ASSUME NEW ids, NEW g \in AnyGroup, SetNotesGroup(s, ids, g)
          PROVE  StepKeeps
        <3> DEFINE e == [d EXCEPT !.notes = Regroup(@, ids, g)]
        <3>1. LoggedIn(s) /\ Installed(s, e)
            BY <2>3 DEF SetNotesGroup, SavedInGroup
        <3>2. e.notes = Regroup(d.notes, ids, g)
            BY <1>1, <3>1 DEF DataSnapshot
        <3> HIDE DEF e
        <3>3. PasswsKept(d.notes, e.notes)
            BY <1>1, <3>1, <3>2, RegroupKeepsTheRest, RegroupedKept
        <3> QED BY <3>1, <3>3, SavedKept
    <2>4. ASSUME NEW ids, NEW g \in AnyGroup, SetOtpNotesGroup(s, ids, g)
          PROVE  StepKeeps
        <3> DEFINE e == [d EXCEPT !.otpNotes = Regroup(@, ids, g)]
        <3>1. LoggedIn(s) /\ Installed(s, e)
            BY <2>4 DEF SetOtpNotesGroup, SavedInGroup
        <3>2. e.notes = d.notes
            BY <1>1, <3>1 DEF DataSnapshot
        <3> HIDE DEF e
        <3> QED BY <1>3, <3>1, <3>2
    <2> QED BY <1>4, <2>1, <2>2, <2>3, <2>4 DEF GroupStep
<1>5. CASE NoteStep(s)
    <2>1. ASSUME NEW id, NEW info \in Infos, NEW passw \in AnyPassw,
                 NEW g \in AnyGroup, NEW setAll,
                 SaveNote(s, id, info, passw, g, setAll)
          PROVE  StepKeeps
        <3> DEFINE flags == IF setAll
                            THEN {"INFO", "PASSW", "TRACK_HISTORY"} ELSE {}
                   dnote == [id |-> id, info |-> info, passw |-> passw,
                             colorGroupId |-> g, history |-> <<>>]
        <3>1. LoggedIn(s) /\ g \in Int
            BY <2>1, AnyGroupAssumption DEF SaveNote, SavedInGroup
        <3>2. Installed(s, IF id = 0 THEN CreateNote(d, dnote, flags, now)
                                 ELSE SetNote(d, dnote, flags, now))
            BY <2>1 DEF SaveNote, SavedInGroup
        <3>3. /\ NoteValues(dnote, CryptedPassword)
              /\ "FULL_HISTORY" \notin flags
              /\ "PASSW" \in flags => "TRACK_HISTORY" \in flags
            BY <3>1, FlatTypes DEF NoteValues
        <3> HIDE DEF dnote, flags
        <3>4. CASE id = 0
            <4>1. PasswsKept(d.notes, CreateNote(d, dnote, flags, now).notes)
                BY <1>1, <1>2, <3>1, <3>3, CreateNoteKept
            <4> QED BY <3>2, <3>4, <4>1, SavedKept
        <3>5. CASE id # 0
            <4>1. PasswsKept(d.notes, SetNote(d, dnote, flags, now).notes)
                BY <1>1, <3>1, <3>3, SetNoteKept
            <4> QED BY <3>2, <3>5, <4>1, SavedKept
        <3> QED BY <3>4, <3>5
    <2>2. ASSUME NEW id, DeleteNote(s, id)
          PROVE  StepKeeps
        <3>1. LoggedIn(s) /\ Installed(s, RemoveNote(d, id))
            BY <2>2 DEF DeleteNote, Saved
        <3>2. PasswsKept(d.notes, RemoveNote(d, id).notes)
            BY <1>1, <3>1, RemoveNoteKept
        <3> QED BY <3>1, <3>2, SavedKept
    <2> QED BY <1>5, <2>1, <2>2, MoveStepKeeps DEF NoteStep
<1>6. CASE OtpStep(s)
    <2>1. ASSUME NEW id, OtpNote(s, id)
          PROVE  StepKeeps
        <3>1. /\ LoggedIn(s)
              /\ storages' = [storages EXCEPT ![s] = IncrementHotp(d, id)]
            BY <2>1 DEF OtpNote
        <3>2. IncrementHotp(d, id).notes = d.notes
            BY <1>1, <3>1, NotesLeftAlone
        <3>3. PasswsKept(d.notes, IncrementHotp(d, id).notes)
            BY <1>1, <3>1, <3>2, KeptItself
        <3> QED BY <3>1, <3>3, ChangedKept
    <2>2. ASSUME NEW id, DeleteOtpNote(s, id)
          PROVE  StepKeeps
        <3>1. LoggedIn(s) /\ Installed(s, RemoveOtpNote(d, id))
            BY <2>2 DEF DeleteOtpNote, Saved
        <3>2. RemoveOtpNote(d, id).notes = d.notes
            BY <1>1, <3>1, NotesLeftAlone
        <3> QED BY <1>3, <3>1, <3>2
    <2>3. ASSUME NEW dnote, NEW setAll, SaveOtpNote(s, dnote, setAll)
          PROVE  StepKeeps
        <3> DEFINE flags == IF setAll THEN {"INFO", "PASSW"} ELSE {"INFO"}
        <3>1. /\ LoggedIn(s)
              /\ \/ Installed(s, CreateOtpNote(d, dnote, flags))
                 \/ Installed(s, SetOtpNote(d, dnote, flags))
            BY <2>3 DEF SaveOtpNote, SavedInGroup
        <3> HIDE DEF flags
        <3>2. /\ CreateOtpNote(d, dnote, flags).notes = d.notes
              /\ SetOtpNote(d, dnote, flags).notes = d.notes
            BY <1>1, <3>1, NotesLeftAlone
        <3> QED BY <1>3, <3>1, <3>2
    <2> QED BY <1>6, <2>1, <2>2, <2>3, MoveStepKeeps DEF OtpStep
<1>7. CASE PasswStep(s)
    <2>1. ASSUME NEW passw, LoggedIn(s), Installed(s, GenPassword(d, passw, now))
          PROVE  StepKeeps
        <3>1. GenPassword(d, passw, now).notes = d.notes
            BY <1>1, <2>1, NotesLeftAlone
        <3> QED BY <1>3, <2>1, <3>1
    <2>2. ASSUME NEW id \in AnyId, RemoveHist(s, id)
          PROVE  StepKeeps
        <3>1. storages' = [storages EXCEPT ![s] = RemovePasswHistory(d, id)]
            BY <2>2 DEF RemoveHist, Saved, Installed
        <3>2. ASSUME NEW x \in Storages, x # s, LoggedIn(x)
              PROVE  PasswsKept(storages[x].notes, storages'[x].notes)
            <4>1. storages'[x] = storages[x]
                BY <3>1, <3>2 DEF IInv, TypeOK
            <4> QED BY <3>2, <4>1, UnchangedKept
        <3> QED BY <2>2, <3>2 DEF StepKeeps
    <2>3. ASSUME NEW oldest, RemoveOldHist(s, oldest)
          PROVE  StepKeeps
        <3>1. LoggedIn(s) /\ Installed(s, WithoutOld(d, oldest))
            BY <2>3 DEF RemoveOldHist, Saved
        <3>2. WithoutOld(d, oldest).notes = d.notes
            BY <1>1, <3>1, WithoutOldSound
        <3> QED BY <1>3, <3>1, <3>2
    <2> QED BY <1>7, <2>1, <2>2, <2>3
            DEF PasswStep, GenerateNewPassw, LastGeneratedPassw, Saved
<1> QED BY <1>4, <1>5, <1>6, <1>7

LEMMA NextKeeps == IInv /\ [Next]_vars => StepKeeps
<1> SUFFICES ASSUME IInv, [Next]_vars
             PROVE  StepKeeps
    OBVIOUS
<1>1. ASSUME NEW s \in Storages, Login(s)
      PROVE  StepKeeps
    <2>1. PICK d : storages' = [storages EXCEPT ![s] = d]
        BY <1>1 DEF Login
    <2>2. ASSUME NEW x \in Storages, x # s, LoggedIn(x)
          PROVE  PasswsKept(storages[x].notes, storages'[x].notes)
        <3>1. storages'[x] = storages[x]
            BY <2>1, <2>2 DEF IInv, TypeOK
        <3> QED BY <2>2, <3>1, UnchangedKept
    <2> QED BY <1>1, <2>2 DEF StepKeeps
<1>2. ASSUME NEW s \in Storages, Unlogin(s)
      PROVE  StepKeeps
    <2>1. ASSUME NEW x \in Storages, LoggedIn(x)
          PROVE  \/ ~ LoggedIn(x)'
                 \/ PasswsKept(storages[x].notes, storages'[x].notes)
        <3>1. storages'[x] = IF x = s THEN LoggedOut ELSE storages[x]
            BY <1>2 DEF Unlogin, IInv, TypeOK
        <3> QED BY <2>1, <3>1, UnchangedKept DEF LoggedIn
    <2> QED BY <2>1 DEF StepKeeps
<1>3. CASE LogoutAll
    BY <1>3 DEF LogoutAll, StepKeeps, LoggedIn
<1>4. CASE Tick \/ UNCHANGED vars
    BY <1>4, UnchangedKept DEF Tick, vars, StepKeeps
<1> QED BY <1>1, <1>2, <1>3, <1>4, CallKeeps DEF Next, SessionStep

\* Except for removeHist, no call on a live session makes a password of a
\* surviving note unfindable: the old one stays in its history.
THEOREM NoPasswordIsLost == Spec => PasswordsKept
<1>1. IInv /\ [Next]_vars =>
        [\A s \in Storages :
            \/ ~ LoggedIn(s) \/ ~ LoggedIn(s)' \/ Login(s)
            \/ \E id \in AnyId : RemoveHist(s, id)
            \/ \A j \in DOMAIN storages[s].notes :
                 \A k \in DOMAIN storages'[s].notes :
                    storages[s].notes[j].id = storages'[s].notes[k].id =>
                        KnownPassws(storages[s].notes[j])
                            \subseteq KnownPassws(storages'[s].notes[k])]_vars
    BY NextKeeps DEF StepKeeps, PasswsKept
<1> QED BY <1>1, SpecIInv, PTL DEF Spec, PasswordsKept
=============================================================================
