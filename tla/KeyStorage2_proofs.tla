------------------------- MODULE KeyStorage2_proofs -------------------------
(***************************************************************************)
(* Lemmas about the operators of KeyStorage2: each of them maps a sound    *)
(* snapshot to a sound snapshot, where sound means well typed, with ids    *)
(* below the counters and no id held by two items.  They say, too, what an *)
(* operator does to the groups of items and the ages of old passwords.      *)
(* The last part is about ReadAll and FileOf: the file of a typed snapshot *)
(* is typed, and what is read from a typed file is sound, because the      *)
(* renumbering gives every item an id of its own.                          *)
(***************************************************************************)
EXTENDS KeyStorage2, SequenceTheorems, FiniteSetTheorems,
        WellFoundedInduction, TLAPS

Sound(d) == d \in DataSnapshot /\ IdsBelowCounters(d) /\ NoSharedIds(d)

\* the colour groups the elements of a list are in
Groups(list) == {list[k].colorGroupId : k \in DOMAIN list}

\* e has the groups of d, and its items are in groups of items of d, in g, or
\* in none
Within(d, e, g) ==
    /\ Ids(d.colorGroups) \subseteq Ids(e.colorGroups)
    /\ Groups(e.notes) \subseteq Groups(d.notes) \cup {0, g}
    /\ Groups(e.otpNotes) \subseteq Groups(d.otpNotes) \cup {0, g}

\* e has the groups of d but for one, which every item has left
Freed(d, e, groupId) ==
    \/ e = d
    \/ /\ Ids(d.colorGroups) \subseteq Ids(e.colorGroups) \cup {groupId}
       /\ Groups(e.notes) \subseteq (Groups(d.notes) \ {groupId}) \cup {0}
       /\ Groups(e.otpNotes) \subseteq (Groups(d.otpNotes) \ {groupId}) \cup {0}

-----------------------------------------------------------------------------
(* Lists *)

LEMMA TupleIsSeq ==
    ASSUME NEW S, NEW n \in Nat, NEW f \in [1 .. n -> S]
    PROVE  f \in Seq(S) /\ Len(f) = n /\ DOMAIN f = 1 .. n
    OBVIOUS

LEMMA IndexOfType ==
    ASSUME NEW S, NEW list \in Seq(S), NEW id, HasId(list, id)
    PROVE  /\ IndexOf(list, id) \in 1 .. Len(list)
           /\ list[IndexOf(list, id)].id = id
    BY DEF HasId, IndexOf

LEMMA RemoveAtType ==
    ASSUME NEW S, NEW list \in Seq(S), NEW k \in 1 .. Len(list)
    PROVE  /\ RemoveAt(list, k) \in Seq(S)
           /\ Len(RemoveAt(list, k)) = Len(list) - 1
           /\ \A i \in 1 .. Len(list) - 1 :
                RemoveAt(list, k)[i] = list[IF i < k THEN i ELSE i + 1]
<1> DEFINE a == SubSeq(list, 1, k - 1)
           b == SubSeq(list, k + 1, Len(list))
<1>2. /\ a \in Seq(S) /\ Len(a) = k - 1
      /\ \A i \in 1 .. k - 1 : a[i] = list[i]
    OBVIOUS
<1>3. /\ b \in Seq(S) /\ Len(b) = Len(list) - k
      /\ \A i \in 1 .. Len(list) - k : b[i] = list[k + i]
    OBVIOUS
<1> HIDE DEF a, b
<1>4. /\ a \o b \in Seq(S)
      /\ Len(a \o b) = Len(a) + Len(b)
      /\ \A i \in 1 .. Len(a) + Len(b) :
            (a \o b)[i] = IF i <= Len(a) THEN a[i] ELSE b[i - Len(a)]
    BY <1>2, <1>3, ConcatProperties
<1>5. RemoveAt(list, k) = a \o b
    BY DEF RemoveAt, a, b
<1>6. Len(a \o b) = Len(list) - 1
    BY <1>2, <1>3, <1>4
<1>7. ASSUME NEW i \in 1 .. Len(list) - 1
      PROVE  (a \o b)[i] = list[IF i < k THEN i ELSE i + 1]
    <2>1. CASE i < k
        BY <1>2, <1>3, <1>4, <2>1
    <2>2. CASE ~ (i < k)
        <3>1. i - (k - 1) \in 1 .. Len(list) - k /\ k + (i - (k - 1)) = i + 1
            BY <2>2
        <3>2. (a \o b)[i] = b[i - (k - 1)]
            BY <1>2, <1>3, <1>4, <2>2
        <3>3. b[i - (k - 1)] = list[i + 1]
            BY <1>3, <3>1
        <3> QED BY <2>2, <3>2, <3>3
    <2> QED BY <2>1, <2>2
<1> QED BY <1>4, <1>5, <1>6, <1>7

\* nothing but the element of the id is erased
LEMMA EraseKeepsOthers ==
    ASSUME NEW S, NEW list \in Seq(S), NEW id, HasId(list, id),
           NEW j \in DOMAIN list, j # IndexOf(list, id)
    PROVE  \E i \in DOMAIN Erase(list, id) : Erase(list, id)[i] = list[j]
<1> DEFINE e == Erase(list, id)
           k == IndexOf(list, id)
<1>1. k \in 1 .. Len(list) /\ j # k
    BY IndexOfType
<1>2. /\ e \in Seq(S) /\ Len(e) = Len(list) - 1
      /\ \A i \in 1 .. Len(list) - 1 :
            e[i] = list[IF i < k THEN i ELSE i + 1]
    BY <1>1, RemoveAtType DEF Erase
<1> HIDE DEF e, k
<1>3. CASE j < k
    <2>1. j \in DOMAIN e /\ e[j] = list[j]
        BY <1>1, <1>2, <1>3
    <2> QED BY <2>1 DEF e
<1>4. CASE ~ (j < k)
    <2>1. j - 1 \in DOMAIN e /\ ~ (j - 1 < k) /\ (j - 1) + 1 = j
        BY <1>1, <1>2, <1>4
    <2>2. e[j - 1] = list[j]
        BY <1>2, <2>1
    <2> QED BY <2>1, <2>2 DEF e
<1> QED BY <1>3, <1>4

LEMMA EraseProperties ==
    ASSUME NEW S, NEW list \in Seq(S), NEW id, HasId(list, id)
    PROVE  /\ Erase(list, id) \in Seq(S)
           /\ Ids(Erase(list, id)) \subseteq Ids(list)
           /\ Ids(list) \subseteq Ids(Erase(list, id)) \cup {id}
           /\ Groups(Erase(list, id)) \subseteq Groups(list)
           /\ Distinct(list) => Distinct(Erase(list, id))
<1> DEFINE e == Erase(list, id)
           k == IndexOf(list, id)
           from(i) == IF i < k THEN i ELSE i + 1
<1>1. k \in 1 .. Len(list) /\ list[k].id = id
    BY IndexOfType
<1>2. /\ e \in Seq(S) /\ Len(e) = Len(list) - 1
      /\ \A i \in 1 .. Len(list) - 1 : e[i] = list[from(i)]
    BY <1>1, RemoveAtType DEF Erase
<1>6. ASSUME NEW j \in DOMAIN list, j # k
      PROVE  \E i \in DOMAIN e : e[i] = list[j]
    BY <1>6, EraseKeepsOthers
<1> HIDE DEF e, k
<1>3. /\ DOMAIN e = 1 .. Len(list) - 1
      /\ DOMAIN list = 1 .. Len(list)
      /\ \A i \in DOMAIN e : from(i) \in DOMAIN list
      /\ \A i, j \in DOMAIN e : from(i) = from(j) => i = j
    BY <1>1, <1>2
<1> HIDE DEF from
<1>4. /\ Ids(e) \subseteq Ids(list) /\ Groups(e) \subseteq Groups(list)
      /\ Ids(list) \subseteq Ids(e) \cup {id}
    <2>1. Ids(e) \subseteq Ids(list)
        BY <1>2, <1>3 DEF Ids
    <2>2. Groups(e) \subseteq Groups(list)
        BY <1>2, <1>3 DEF Groups
    <2>3. ASSUME NEW j \in DOMAIN list
          PROVE  list[j].id \in Ids(e) \cup {id}
        <3>1. CASE j = k
            BY <1>1, <3>1
        <3>2. CASE j # k
            BY <1>6, <3>2 DEF Ids
        <3> QED BY <3>1, <3>2
    <2>4. Ids(list) \subseteq Ids(e) \cup {id}
        BY <2>3 DEF Ids
    <2> QED BY <2>1, <2>2, <2>4
<1>5. Distinct(list) => Distinct(e)
    BY <1>2, <1>3 DEF Distinct
<1> QED BY <1>2, <1>4, <1>5 DEF e

\* two lists with the same ids at the same places
LEMMA SameIds ==
    ASSUME NEW list, NEW other, DOMAIN other = DOMAIN list,
           \A k \in DOMAIN list : other[k].id = list[k].id
    PROVE  /\ Ids(other) = Ids(list)
           /\ Distinct(list) => Distinct(other)
    BY DEF Ids, Distinct

LEMMA AppendIds ==
    ASSUME NEW S, NEW list \in Seq(S), NEW x \in S
    PROVE  /\ Ids(Append(list, x)) = Ids(list) \cup {x.id}
           /\ Groups(Append(list, x)) = Groups(list) \cup {x.colorGroupId}
           /\ Distinct(list) /\ x.id \notin Ids(list)
                => Distinct(Append(list, x))
<1> DEFINE a == Append(list, x)
<1>1. /\ DOMAIN a = 1 .. Len(list) + 1
      /\ DOMAIN list = 1 .. Len(list)
      /\ \A i \in 1 .. Len(list) : a[i] = list[i]
      /\ a[Len(list) + 1] = x
      /\ Len(list) \in Nat
    OBVIOUS
<1> HIDE DEF a
<1>2. /\ Ids(a) = Ids(list) \cup {x.id}
      /\ Groups(a) = Groups(list) \cup {x.colorGroupId}
    BY <1>1 DEF Ids, Groups
<1>3. Distinct(list) /\ x.id \notin Ids(list) => Distinct(a)
    BY <1>1 DEF Ids, Distinct
<1> QED BY <1>2, <1>3 DEF a

LEMMA ConcatIds ==
    ASSUME NEW S, NEW s \in Seq(S), NEW t \in Seq(S)
    PROVE  /\ Ids(s \o t) = Ids(s) \cup Ids(t)
           /\ Distinct(s) /\ Distinct(t) /\ Ids(s) \cap Ids(t) = {}
                => Distinct(s \o t)
<1> DEFINE a == s \o t
<1>1. /\ DOMAIN a = 1 .. Len(s) + Len(t)
      /\ DOMAIN s = 1 .. Len(s) /\ DOMAIN t = 1 .. Len(t)
      /\ \A i \in 1 .. Len(s) + Len(t) :
            a[i] = IF i <= Len(s) THEN s[i] ELSE t[i - Len(s)]
      /\ Len(s) \in Nat /\ Len(t) \in Nat
    BY ConcatProperties
<1> HIDE DEF a
<1>2. /\ \A i \in DOMAIN s : i \in DOMAIN a /\ a[i] = s[i]
      /\ \A i \in DOMAIN t :
            Len(s) + i \in DOMAIN a /\ a[Len(s) + i] = t[i]
    BY <1>1
<1>3. \A i \in DOMAIN a :
         \/ i \in DOMAIN s /\ a[i] = s[i]
         \/ i - Len(s) \in DOMAIN t /\ a[i] = t[i - Len(s)]
    BY <1>1
<1>4. Ids(a) = Ids(s) \cup Ids(t)
    BY <1>2, <1>3 DEF Ids
<1>5. ASSUME Distinct(s), Distinct(t), Ids(s) \cap Ids(t) = {}
      PROVE  Distinct(a)
    <2> SUFFICES ASSUME NEW j \in DOMAIN a, NEW k \in DOMAIN a,
                        a[j].id = a[k].id
                 PROVE  j = k
        BY DEF Distinct
    <2>1. \A i \in DOMAIN s : s[i].id \in Ids(s)
        BY DEF Ids
    <2>2. \A i \in DOMAIN t : t[i].id \in Ids(t)
        BY DEF Ids
    <2>3. CASE j \in DOMAIN s /\ k \in DOMAIN s
        BY <1>2, <1>5, <2>3 DEF Distinct
    <2>4. CASE j \notin DOMAIN s /\ k \notin DOMAIN s
        <3>1. j - Len(s) = k - Len(s)
            BY <1>3, <1>5, <2>4 DEF Distinct
        <3> QED BY <1>1, <3>1
    <2>5. CASE j \in DOMAIN s /\ k \notin DOMAIN s
        BY <1>2, <1>3, <1>5, <2>1, <2>2, <2>5
    <2>6. CASE j \notin DOMAIN s /\ k \in DOMAIN s
        BY <1>2, <1>3, <1>5, <2>1, <2>2, <2>6
    <2> QED BY <2>3, <2>4, <2>5, <2>6
<1> QED BY <1>4, <1>5 DEF a

LEMMA NumberedProperties ==
    ASSUME NEW S, NEW hist \in Seq(S), NEW from \in Nat,
           \A x \in S : x.passw \in AnyPassw /\ x.genTime \in Nat
    PROVE  /\ Numbered(hist, from) \in Seq(CryptedPassword)
           /\ Len(Numbered(hist, from)) = Len(hist)
           /\ Ids(Numbered(hist, from)) = from .. (from + Len(hist) - 1)
           /\ Distinct(Numbered(hist, from))
<1> DEFINE n == Numbered(hist, from)
<1>1. /\ DOMAIN n = 1 .. Len(hist)
      /\ Len(hist) \in Nat
      /\ \A i \in 1 .. Len(hist) : n[i].id = from + i - 1
    BY DEF Numbered
<1>2. \A i \in 1 .. Len(hist) :
         /\ n[i] = [id |-> from + i - 1, passw |-> hist[i].passw,
                    genTime |-> hist[i].genTime]
         /\ hist[i] \in S
    BY DEF Numbered
<1>3. \A i \in 1 .. Len(hist) : n[i] \in CryptedPassword
    BY <1>1, <1>2 DEF CryptedPassword
<1>7. n = [i \in 1 .. Len(hist) |-> n[i]]
    BY DEF Numbered
<1> HIDE DEF n
<1>8. n \in [1 .. Len(hist) -> CryptedPassword]
    BY <1>3, <1>7
<1>9. n \in Seq(CryptedPassword) /\ Len(n) = Len(hist)
    BY <1>1, <1>8
<1>4. Distinct(n)
    BY <1>1 DEF Distinct
<1>5. ASSUME NEW id \in from .. (from + Len(hist) - 1)
      PROVE  id \in Ids(n)
    <2>1. /\ id - from + 1 \in DOMAIN n
          /\ n[id - from + 1].id = id
        BY <1>1
    <2> QED BY <2>1 DEF Ids
<1>6. \A id \in Ids(n) : id \in from .. (from + Len(hist) - 1)
    BY <1>1 DEF Ids
<1> QED BY <1>4, <1>5, <1>6, <1>9 DEF n

-----------------------------------------------------------------------------
(* The histories of a list of notes *)

LEMMA SameHistories ==
    ASSUME NEW notes, NEW other, DOMAIN other = DOMAIN notes,
           \A k \in DOMAIN notes : other[k].history = notes[k].history
    PROVE  /\ HistoryIds(other) = HistoryIds(notes)
           /\ DistinctHistories(notes) => DistinctHistories(other)
    BY DEF HistoryIds, DistinctHistories

LEMMA EraseHistories ==
    ASSUME NEW S, NEW notes \in Seq(S), NEW id, HasId(notes, id)
    PROVE  /\ HistoryIds(Erase(notes, id)) \subseteq HistoryIds(notes)
           /\ DistinctHistories(notes) => DistinctHistories(Erase(notes, id))
<1> DEFINE e == Erase(notes, id)
           k == IndexOf(notes, id)
           from(i) == IF i < k THEN i ELSE i + 1
<1>1. k \in 1 .. Len(notes)
    BY IndexOfType
<1>2. /\ e \in Seq(S) /\ Len(e) = Len(notes) - 1
      /\ \A i \in 1 .. Len(notes) - 1 : e[i] = notes[from(i)]
    BY <1>1, RemoveAtType DEF Erase
<1> HIDE DEF e, k
<1>3. /\ DOMAIN e = 1 .. Len(notes) - 1
      /\ DOMAIN notes = 1 .. Len(notes)
      /\ \A i \in DOMAIN e : from(i) \in DOMAIN notes
      /\ \A i, j \in DOMAIN e : from(i) = from(j) => i = j
    BY <1>1, <1>2
<1> HIDE DEF from
<1>4. HistoryIds(e) \subseteq HistoryIds(notes)
    BY <1>2, <1>3 DEF HistoryIds
<1>5. DistinctHistories(notes) => DistinctHistories(e)
    BY <1>2, <1>3 DEF DistinctHistories
<1> QED BY <1>4, <1>5 DEF e

LEMMA AppendHistories ==
    ASSUME NEW S, NEW notes \in Seq(S), NEW x \in S
    PROVE  /\ HistoryIds(Append(notes, x)) =
                HistoryIds(notes) \cup Ids(x.history)
           /\ /\ DistinctHistories(notes) /\ Distinct(x.history)
              /\ Ids(x.history) \cap HistoryIds(notes) = {}
              => DistinctHistories(Append(notes, x))
<1> DEFINE a == Append(notes, x)
<1>1. /\ DOMAIN a = 1 .. Len(notes) + 1
      /\ DOMAIN notes = 1 .. Len(notes)
      /\ \A i \in 1 .. Len(notes) : a[i] = notes[i]
      /\ a[Len(notes) + 1] = x
      /\ Len(notes) \in Nat
    OBVIOUS
<1> HIDE DEF a
<1>2. \A i \in DOMAIN a : i \in DOMAIN notes \/ i = Len(notes) + 1
    BY <1>1
<1>3. HistoryIds(a) = HistoryIds(notes) \cup Ids(x.history)
    BY <1>1, <1>2 DEF HistoryIds
<1>4. ASSUME DistinctHistories(notes), Distinct(x.history),
             Ids(x.history) \cap HistoryIds(notes) = {}
      PROVE  DistinctHistories(a)
    <2>1. \A i \in DOMAIN notes :
             Ids(notes[i].history) \cap Ids(x.history) = {}
        BY <1>4 DEF HistoryIds
    <2> QED BY <1>1, <1>2, <1>4, <2>1 DEF DistinctHistories
<1> QED BY <1>3, <1>4 DEF a

\* the history of note k is replaced by one with some of its ids and fresh ones
LEMMA ReplaceHistory ==
    ASSUME NEW S, NEW notes \in Seq(S), NEW k \in 1 .. Len(notes),
           NEW x \in S, NEW F, F \cap HistoryIds(notes) = {},
           Ids(x.history) \subseteq Ids(notes[k].history) \cup F,
           Distinct(x.history), DistinctHistories(notes)
    PROVE  LET other == [notes EXCEPT ![k] = x]
           IN  /\ HistoryIds(other) \subseteq HistoryIds(notes) \cup F
               /\ DistinctHistories(other)
<1> DEFINE other == [notes EXCEPT ![k] = x]
<1>1. /\ DOMAIN other = DOMAIN notes /\ k \in DOMAIN notes
      /\ \A i \in DOMAIN notes : other[i] = IF i = k THEN x ELSE notes[i]
    OBVIOUS
<1> HIDE DEF other
<1>2. \A i \in DOMAIN notes : Ids(notes[i].history) \subseteq HistoryIds(notes)
    BY DEF HistoryIds
<1>3. ASSUME NEW id \in HistoryIds(other)
      PROVE  id \in HistoryIds(notes) \cup F
    <2>1. PICK i \in DOMAIN other : id \in Ids(other[i].history)
        BY DEF HistoryIds
    <2> QED BY <1>1, <1>2, <2>1
<1>4. ASSUME NEW i \in DOMAIN notes, i # k
      PROVE  Ids(notes[i].history) \cap Ids(x.history) = {}
    <2>1. Ids(notes[i].history) \cap Ids(notes[k].history) = {}
        BY <1>1, <1>4 DEF DistinctHistories
    <2> QED BY <1>2, <2>1
<1>5. DistinctHistories(other)
    BY <1>1, <1>4 DEF DistinctHistories
<1> QED BY <1>3, <1>5 DEF other

-----------------------------------------------------------------------------
(* The parts of a snapshot *)

LEMMA SnapshotParts ==
    ASSUME NEW d \in DataSnapshot
    PROVE  /\ d.idCounter \in Nat /\ d.colorGroupIdCounter \in Nat
           /\ d.colorGroups \in Seq(ColorGroup)
           /\ d.notes \in Seq(CryptedNote)
           /\ d.otpNotes \in Seq(CryptedOtpInfo)
           /\ d.generatedPassws \in Seq(CryptedPassword)
    BY DEF DataSnapshot

LEMMA NatIds ==
    ASSUME NEW S, NEW list \in Seq(S), \A x \in S : x.id \in Nat
    PROVE  Ids(list) \subseteq Nat
    BY DEF Ids

LEMMA SnapshotIds ==
    ASSUME NEW d \in DataSnapshot
    PROVE  /\ Ids(d.notes) \subseteq Nat /\ Ids(d.otpNotes) \subseteq Nat
           /\ Ids(d.generatedPassws) \subseteq Nat
           /\ Ids(d.colorGroups) \subseteq Nat
           /\ HistoryIds(d.notes) \subseteq Nat
<1>1. /\ \A x \in CryptedNote :
            x.id \in Nat /\ x.history \in Seq(CryptedPassword)
      /\ \A x \in CryptedOtpInfo : x.id \in Nat
      /\ \A x \in CryptedPassword : x.id \in Nat
      /\ \A x \in ColorGroup : x.id \in Nat
    BY DEF CryptedNote, CryptedOtpInfo, CryptedPassword, ColorGroup
<1>2. \A k \in DOMAIN d.notes : d.notes[k] \in CryptedNote
    BY SnapshotParts
<1>3. \A k \in DOMAIN d.notes : Ids(d.notes[k].history) \subseteq Nat
    BY <1>1, <1>2, NatIds
<1>4. HistoryIds(d.notes) \subseteq Nat
    BY <1>3 DEF HistoryIds
<1> QED BY <1>1, <1>4, SnapshotParts, NatIds

-----------------------------------------------------------------------------
(* A snapshot made from a sound one is sound when each of its ids is       *)
(* either an id of the same kind of item or a fresh one, and no fresh id   *)
(* goes to two kinds.                                                      *)

LEMMA KeepsSound ==
    ASSUME NEW d, Sound(d), NEW e \in DataSnapshot,
           NEW N, NEW H, NEW O, NEW G,
           N \cup H \cup O \cup G \subseteq d.idCounter .. (e.idCounter - 1),
           N \cap H = {}, N \cap O = {}, N \cap G = {},
           H \cap O = {}, H \cap G = {}, O \cap G = {},
           d.idCounter <= e.idCounter,
           d.colorGroupIdCounter <= e.colorGroupIdCounter,
           Ids(e.notes) \subseteq Ids(d.notes) \cup N,
           HistoryIds(e.notes) \subseteq HistoryIds(d.notes) \cup H,
           Ids(e.otpNotes) \subseteq Ids(d.otpNotes) \cup O,
           Ids(e.generatedPassws) \subseteq Ids(d.generatedPassws) \cup G,
           Ids(e.colorGroups) \subseteq Ids(d.colorGroups) \cup
                (d.colorGroupIdCounter .. (e.colorGroupIdCounter - 1)),
           Distinct(e.notes), Distinct(e.otpNotes),
           Distinct(e.generatedPassws), DistinctHistories(e.notes)
    PROVE  Sound(e)
<1>1. /\ d.idCounter \in Nat /\ e.idCounter \in Nat
      /\ d.colorGroupIdCounter \in Nat /\ e.colorGroupIdCounter \in Nat
    BY DEF Sound, DataSnapshot
<1>3. /\ Ids(d.notes) \subseteq Nat /\ Ids(d.otpNotes) \subseteq Nat
      /\ Ids(d.generatedPassws) \subseteq Nat
      /\ Ids(d.colorGroups) \subseteq Nat
      /\ HistoryIds(d.notes) \subseteq Nat
    BY SnapshotIds DEF Sound
<1>5. IdsBelowCounters(e)
    BY <1>1, <1>3 DEF Sound, IdsBelowCounters
<1>6. /\ \A id \in Ids(d.notes) \cup HistoryIds(d.notes) \cup Ids(d.otpNotes)
                \cup Ids(d.generatedPassws) : id \notin N \cup H \cup O \cup G
    BY <1>1, <1>3 DEF Sound, IdsBelowCounters
<1>7. NoSharedIds(e)
    BY <1>6 DEF Sound, NoSharedIds
<1> QED BY <1>5, <1>7 DEF Sound

LEMMA KeepsSoundWithoutFresh ==
    ASSUME NEW d, Sound(d), NEW e \in DataSnapshot,
           d.idCounter <= e.idCounter,
           d.colorGroupIdCounter <= e.colorGroupIdCounter,
           Ids(e.notes) \subseteq Ids(d.notes),
           HistoryIds(e.notes) \subseteq HistoryIds(d.notes),
           Ids(e.otpNotes) \subseteq Ids(d.otpNotes),
           Ids(e.generatedPassws) \subseteq Ids(d.generatedPassws),
           Ids(e.colorGroups) \subseteq Ids(d.colorGroups) \cup
                (d.colorGroupIdCounter .. (e.colorGroupIdCounter - 1)),
           Distinct(e.notes), Distinct(e.otpNotes),
           Distinct(e.generatedPassws), DistinctHistories(e.notes)
    PROVE  Sound(e)
<1> DEFINE none == {}
<1>1. /\ none \cup none \cup none \cup none
            \subseteq d.idCounter .. (e.idCounter - 1)
      /\ none \cap none = {}
      /\ \A S : S \cup none = S
    OBVIOUS
<1> HIDE DEF none
<1> QED BY <1>1, KeepsSound, ZenonT(30)

\* an element with a new id is appended, found by its id and replaced
LEMMA AppendAndReplace ==
    ASSUME NEW S, NEW list \in Seq(S), NEW x, x.id \notin Ids(list), NEW y
    PROVE  LET a == Append(list, x)
               k == IndexOf(a, x.id)
           IN  /\ HasId(a, x.id)
               /\ a[k] = x
               /\ [a EXCEPT ![k] = y] = Append(list, y)
<1> DEFINE a == Append(list, x)
           k == IndexOf(a, x.id)
<1>1. /\ DOMAIN a = 1 .. Len(list) + 1
      /\ DOMAIN list = 1 .. Len(list)
      /\ \A i \in 1 .. Len(list) : a[i] = list[i]
      /\ a[Len(list) + 1] = x
      /\ Len(list) \in Nat
    OBVIOUS
<1>2. \A i \in DOMAIN a : a[i].id = x.id <=> i = Len(list) + 1
    BY <1>1 DEF Ids
<1>3. HasId(a, x.id)
    BY <1>1, <1>2 DEF HasId
<1>4. k = Len(list) + 1
    BY <1>1, <1>2, <1>3 DEF HasId, IndexOf
<1>5. [a EXCEPT ![Len(list) + 1] = y] = Append(list, y)
    <2> DEFINE T == S \cup {x, y}
    <2>1. list \in Seq(T) /\ x \in T /\ y \in T
        BY SeqMonotonic
    <2> HIDE DEF T
    <2>2. /\ a \in Seq(T) /\ Len(a) = Len(list) + 1
          /\ Append(list, y) \in Seq(T)
          /\ Len(Append(list, y)) = Len(list) + 1
          /\ \A i \in 1 .. Len(list) : Append(list, y)[i] = list[i]
          /\ Append(list, y)[Len(list) + 1] = y
        BY <2>1, AppendProperties
    <2> HIDE DEF a
    <2> DEFINE b == [a EXCEPT ![Len(list) + 1] = y]
    <2>3. /\ b \in Seq(T) /\ Len(b) = Len(list) + 1
          /\ \A i \in 1 .. Len(list) + 1 :
                b[i] = IF i = Len(list) + 1 THEN y ELSE a[i]
        BY <1>1, <2>1, <2>2, ExceptSeq
    <2> HIDE DEF b
    <2>4. \A i \in 1 .. Len(b) : b[i] = Append(list, y)[i]
        BY <1>1, <2>2, <2>3
    <2>5. b = Append(list, y)
        BY <2>2, <2>3, <2>4, SeqEqual
    <2> QED BY <2>5 DEF b
<1> QED BY <1>1, <1>3, <1>4, <1>5

-----------------------------------------------------------------------------
(* The groups of what a call leaves *)

LEMMA ReplaceGroups ==
    ASSUME NEW S, NEW list \in Seq(S), NEW k \in DOMAIN list, NEW x
    PROVE  Groups([list EXCEPT ![k] = x])
                \subseteq Groups(list) \cup {x.colorGroupId}
    BY DEF Groups

LEMMA WithinItself ==
    ASSUME NEW d, NEW g
    PROVE  Within(d, d, g)
    BY DEF Within

LEMMA WithinNotes ==
    ASSUME NEW d, Sound(d), NEW n, NEW notes, NEW g,
           Groups(notes) \subseteq Groups(d.notes) \cup {0, g}
    PROVE  Within(d, [d EXCEPT !.idCounter = n, !.notes = notes], g)
<1> DEFINE e == [d EXCEPT !.idCounter = n, !.notes = notes]
<1>1. /\ e.colorGroups = d.colorGroups /\ e.notes = notes
      /\ e.otpNotes = d.otpNotes
    BY DEF Sound, DataSnapshot
<1> HIDE DEF e
<1>2. Within(d, e, g)
    BY <1>1 DEF Within
<1> QED BY <1>2 DEF e

LEMMA WithinOtpNotes ==
    ASSUME NEW d, Sound(d), NEW n, NEW otps, NEW g,
           Groups(otps) \subseteq Groups(d.otpNotes) \cup {0, g}
    PROVE  Within(d, [d EXCEPT !.idCounter = n, !.otpNotes = otps], g)
<1> DEFINE e == [d EXCEPT !.idCounter = n, !.otpNotes = otps]
<1>1. /\ e.colorGroups = d.colorGroups /\ e.notes = d.notes
      /\ e.otpNotes = otps
    BY DEF Sound, DataSnapshot
<1> HIDE DEF e
<1>2. Within(d, e, g)
    BY <1>1 DEF Within
<1> QED BY <1>2 DEF e

LEMMA WithinGeneratedPassws ==
    ASSUME NEW d, Sound(d), NEW n, NEW gens
    PROVE  Within(d, [d EXCEPT !.idCounter = n, !.generatedPassws = gens], 0)
<1> DEFINE e == [d EXCEPT !.idCounter = n, !.generatedPassws = gens]
<1>1. /\ e.colorGroups = d.colorGroups /\ e.notes = d.notes
      /\ e.otpNotes = d.otpNotes
    BY DEF Sound, DataSnapshot
<1> HIDE DEF e
<1>2. Within(d, e, 0)
    BY <1>1 DEF Within
<1> QED BY <1>2 DEF e

LEMMA WithinGroups ==
    ASSUME NEW d, Sound(d), NEW n, NEW groups,
           Ids(d.colorGroups) \subseteq Ids(groups)
    PROVE  Within(d, [d EXCEPT !.colorGroupIdCounter = n,
                               !.colorGroups = groups], 0)
<1> DEFINE e == [d EXCEPT !.colorGroupIdCounter = n, !.colorGroups = groups]
<1>1. /\ e.colorGroups = groups /\ e.notes = d.notes
      /\ e.otpNotes = d.otpNotes
    BY DEF Sound, DataSnapshot
<1> HIDE DEF e
<1>2. Within(d, e, 0)
    BY <1>1 DEF Within
<1> QED BY <1>2 DEF e

-----------------------------------------------------------------------------
(* Colour groups *)

LEMMA NewGroups ==
    ASSUME NEW d, Sound(d), NEW groups \in Seq(ColorGroup),
           NEW n \in Nat, d.colorGroupIdCounter <= n,
           Ids(groups) \subseteq Ids(d.colorGroups) \cup
                (d.colorGroupIdCounter .. (n - 1))
    PROVE  Sound([d EXCEPT !.colorGroupIdCounter = n, !.colorGroups = groups])
<1> DEFINE e == [d EXCEPT !.colorGroupIdCounter = n, !.colorGroups = groups]
<1>1. e \in DataSnapshot
    BY DEF Sound, DataSnapshot
<1>2. /\ e.idCounter = d.idCounter /\ e.colorGroupIdCounter = n
      /\ e.colorGroups = groups /\ e.notes = d.notes
      /\ e.otpNotes = d.otpNotes /\ e.generatedPassws = d.generatedPassws
    BY DEF Sound, DataSnapshot
<1> HIDE DEF e
<1>3. /\ d.idCounter \in Nat
      /\ Distinct(d.notes) /\ Distinct(d.otpNotes)
      /\ Distinct(d.generatedPassws) /\ DistinctHistories(d.notes)
    BY SnapshotParts DEF Sound, NoSharedIds
<1>4. Sound(e)
    BY <1>1, <1>2, <1>3, KeepsSoundWithoutFresh
<1> QED BY <1>4 DEF e

LEMMA SetColorGroupSound ==
    ASSUME NEW d, Sound(d), NEW id, NEW color \in Colors
    PROVE  /\ Sound(SetColorGroup(d, id, color))
           /\ Within(d, SetColorGroup(d, id, color), 0)
<1>1. CASE ~ HasId(d.colorGroups, id)
    BY <1>1, WithinItself DEF SetColorGroup
<1>2. CASE HasId(d.colorGroups, id)
    <2> DEFINE groups == d.colorGroups
               k == IndexOf(groups, id)
               x == [id |-> id, color |-> color]
               new == [groups EXCEPT ![k] = x]
    <2>1. groups \in Seq(ColorGroup)
        BY SnapshotParts DEF Sound
    <2>2. k \in 1 .. Len(groups) /\ groups[k].id = id
        BY <1>2, <2>1, IndexOfType
    <2>3. x \in ColorGroup
        <3>1. groups[k] \in ColorGroup
            BY <2>1, <2>2
        <3> QED BY <2>2, <3>1 DEF ColorGroup
    <2>4. new \in Seq(ColorGroup)
        BY <2>1, <2>2, <2>3
    <2>5. Ids(new) = Ids(groups)
        <3>1. /\ DOMAIN new = DOMAIN groups
              /\ \A i \in DOMAIN groups : new[i].id = groups[i].id
            BY <2>1, <2>2
        <3> QED BY <3>1, SameIds
    <2> DEFINE n == d.colorGroupIdCounter
    <2>6. SetColorGroup(d, id, color) =
            [d EXCEPT !.colorGroupIdCounter = n, !.colorGroups = new]
        BY <1>2 DEF SetColorGroup, Sound, DataSnapshot
    <2> HIDE DEF new
    <2>7. n \in Nat /\ n <= n
        BY SnapshotParts DEF Sound
    <2>8. Ids(new) \subseteq Ids(d.colorGroups) \cup (n .. (n - 1))
        BY <2>5
    <2> HIDE DEF n
    <2>9. Sound([d EXCEPT !.colorGroupIdCounter = n, !.colorGroups = new])
        BY <2>4, <2>7, <2>8, NewGroups DEF n
    <2>10. Within(d, [d EXCEPT !.colorGroupIdCounter = n,
                               !.colorGroups = new], 0)
        BY <2>5, WithinGroups
    <2> QED BY <2>6, <2>9, <2>10
<1> QED BY <1>1, <1>2

LEMMA CreateColorGroupSound ==
    ASSUME NEW d, Sound(d), NEW color \in Colors
    PROVE  /\ Sound(CreateColorGroup(d, color))
           /\ Within(d, CreateColorGroup(d, color), 0)
<1> DEFINE id == d.colorGroupIdCounter
           blank == [id |-> id, color |-> BlankColor]
           x == [id |-> id, color |-> color]
           groups == d.colorGroups
           a == Append(groups, blank)
<1>1. /\ groups \in Seq(ColorGroup) /\ id \in Nat
      /\ id \notin Ids(groups)
    BY SnapshotParts DEF Sound, IdsBelowCounters
<1>2. /\ HasId(a, id)
      /\ [a EXCEPT ![IndexOf(a, id)] = x] = Append(groups, x)
    <2>1. blank.id = id
        OBVIOUS
    <2> HIDE DEF blank, x, id
    <2> QED BY <1>1, <2>1, AppendAndReplace
<1>3. CreateColorGroup(d, color) =
        [d EXCEPT !.colorGroupIdCounter = id + 1,
                  !.colorGroups = Append(groups, x)]
    BY <1>2 DEF CreateColorGroup, SetColorGroup, Sound, DataSnapshot
<1>4. x \in ColorGroup
    BY <1>1 DEF ColorGroup
<1> DEFINE new == Append(groups, x)
           n == id + 1
<1>5. /\ new \in Seq(ColorGroup)
      /\ Ids(new) = Ids(groups) \cup {id}
    BY <1>1, <1>4, AppendIds
<1>6. /\ n \in Nat /\ id <= n
      /\ Ids(new) \subseteq Ids(groups) \cup (id .. (n - 1))
    BY <1>1, <1>5
<1> HIDE DEF new, n
<1>7. Sound([d EXCEPT !.colorGroupIdCounter = n, !.colorGroups = new])
    BY <1>5, <1>6, NewGroups
<1>8. Within(d, [d EXCEPT !.colorGroupIdCounter = n, !.colorGroups = new], 0)
    BY <1>5, WithinGroups
<1> QED BY <1>3, <1>7, <1>8 DEF new, n

\* a list made element by element from another
LEMMA Relisted ==
    ASSUME NEW S, NEW list \in Seq(S), NEW T, NEW u,
           u = [k \in 1 .. Len(list) |-> u[k]],
           \A k \in DOMAIN list : u[k] \in T
    PROVE  u \in Seq(T) /\ Len(u) = Len(list) /\ DOMAIN u = DOMAIN list
<1>1. Len(list) \in Nat /\ DOMAIN list = 1 .. Len(list)
    OBVIOUS
<1>2. u \in [1 .. Len(list) -> T]
    BY <1>1
<1> QED BY <1>1, <1>2

LEMMA NoteOutOfGroup ==
    ASSUME NEW x \in CryptedNote, NEW g \in Int
    PROVE  LET y == [x EXCEPT !.colorGroupId = g]
           IN  /\ y \in CryptedNote /\ y.id = x.id
               /\ y.history = x.history /\ y.colorGroupId = g
    BY DEF CryptedNote

LEMMA OtpNoteOutOfGroup ==
    ASSUME NEW x \in CryptedOtpInfo, NEW g \in Int
    PROVE  LET y == [x EXCEPT !.colorGroupId = g]
           IN  y \in CryptedOtpInfo /\ y.id = x.id /\ y.colorGroupId = g
    BY DEF CryptedOtpInfo

LEMMA RemoveColorGroupSound ==
    ASSUME NEW d, Sound(d), NEW groupId
    PROVE  /\ Sound(RemoveColorGroup(d, groupId))
           /\ Freed(d, RemoveColorGroup(d, groupId), groupId)
<1>1. CASE ~ HasId(d.colorGroups, groupId)
    BY <1>1 DEF RemoveColorGroup, Freed
<1>2. CASE HasId(d.colorGroups, groupId)
    <2> DEFINE groups == Erase(d.colorGroups, groupId)
               notes == Ungroup(d.notes, groupId)
               otps == Ungroup(d.otpNotes, groupId)
               e == [d EXCEPT !.colorGroups = groups, !.notes = notes,
                              !.otpNotes = otps]
    <2>1. /\ groups \in Seq(ColorGroup)
          /\ Ids(groups) \subseteq Ids(d.colorGroups)
          /\ Ids(d.colorGroups) \subseteq Ids(groups) \cup {groupId}
        BY <1>2, SnapshotParts, EraseProperties DEF Sound
    <2>2. /\ d.notes \in Seq(CryptedNote)
          /\ d.otpNotes \in Seq(CryptedOtpInfo)
          /\ d.idCounter \in Nat /\ d.colorGroupIdCounter \in Nat
        BY SnapshotParts DEF Sound
    <2>3. /\ notes \in Seq(CryptedNote) /\ DOMAIN notes = DOMAIN d.notes
          /\ \A k \in DOMAIN d.notes :
                /\ notes[k].id = d.notes[k].id
                /\ notes[k].history = d.notes[k].history
          /\ Groups(notes) \subseteq (Groups(d.notes) \ {groupId}) \cup {0}
        <3>1. \A x \in CryptedNote :
                /\ [x EXCEPT !.colorGroupId = 0].colorGroupId = 0
                /\ [x EXCEPT !.colorGroupId = 0] \in CryptedNote
                /\ [x EXCEPT !.colorGroupId = 0].id = x.id
                /\ [x EXCEPT !.colorGroupId = 0].history = x.history
            BY NoteOutOfGroup
        <3>2. /\ notes = [k \in 1 .. Len(d.notes) |-> notes[k]]
              /\ \A k \in DOMAIN d.notes :
                    /\ notes[k] = IF d.notes[k].colorGroupId = groupId
                                  THEN [d.notes[k] EXCEPT !.colorGroupId = 0]
                                  ELSE d.notes[k]
                    /\ d.notes[k] \in CryptedNote
            BY <2>2 DEF Ungroup
        <3> HIDE DEF notes
        <3>3. \A k \in DOMAIN d.notes :
                /\ notes[k] \in CryptedNote
                /\ notes[k].id = d.notes[k].id
                /\ notes[k].history = d.notes[k].history
            BY <3>1, <3>2
        <3>4. \A k \in DOMAIN d.notes : notes[k] \in CryptedNote
            BY <3>3
        <3>5. notes \in Seq(CryptedNote) /\ DOMAIN notes = DOMAIN d.notes
            BY <2>2, <3>2, <3>4, Relisted
        <3>6. \A k \in DOMAIN d.notes :
                \/ notes[k].colorGroupId = 0
                \/ /\ notes[k].colorGroupId = d.notes[k].colorGroupId
                   /\ d.notes[k].colorGroupId # groupId
            BY <3>1, <3>2
        <3>7. Groups(notes) \subseteq (Groups(d.notes) \ {groupId}) \cup {0}
            BY <3>5, <3>6 DEF Groups
        <3> QED BY <3>3, <3>5, <3>7
    <2>4. /\ otps \in Seq(CryptedOtpInfo) /\ DOMAIN otps = DOMAIN d.otpNotes
          /\ \A k \in DOMAIN d.otpNotes : otps[k].id = d.otpNotes[k].id
          /\ Groups(otps) \subseteq (Groups(d.otpNotes) \ {groupId}) \cup {0}
        <3>1. \A x \in CryptedOtpInfo :
                /\ [x EXCEPT !.colorGroupId = 0].colorGroupId = 0
                /\ [x EXCEPT !.colorGroupId = 0] \in CryptedOtpInfo
                /\ [x EXCEPT !.colorGroupId = 0].id = x.id
            BY OtpNoteOutOfGroup
        <3>2. /\ otps = [k \in 1 .. Len(d.otpNotes) |-> otps[k]]
              /\ \A k \in DOMAIN d.otpNotes :
                    /\ otps[k] = IF d.otpNotes[k].colorGroupId = groupId
                                 THEN [d.otpNotes[k] EXCEPT !.colorGroupId = 0]
                                 ELSE d.otpNotes[k]
                    /\ d.otpNotes[k] \in CryptedOtpInfo
            BY <2>2 DEF Ungroup
        <3> HIDE DEF otps
        <3>3. \A k \in DOMAIN d.otpNotes :
                otps[k] \in CryptedOtpInfo /\ otps[k].id = d.otpNotes[k].id
            BY <3>1, <3>2
        <3>4. otps \in Seq(CryptedOtpInfo) /\ DOMAIN otps = DOMAIN d.otpNotes
            BY <2>2, <3>2, <3>3, Relisted
        <3>6. \A k \in DOMAIN d.otpNotes :
                \/ otps[k].colorGroupId = 0
                \/ /\ otps[k].colorGroupId = d.otpNotes[k].colorGroupId
                   /\ d.otpNotes[k].colorGroupId # groupId
            BY <3>1, <3>2
        <3>7. Groups(otps) \subseteq (Groups(d.otpNotes) \ {groupId}) \cup {0}
            BY <3>4, <3>6 DEF Groups
        <3> QED BY <3>3, <3>4, <3>7
    <2>5. RemoveColorGroup(d, groupId) = e
        BY <1>2 DEF RemoveColorGroup, Sound, DataSnapshot
    <2> HIDE DEF groups, notes, otps
    <2>6. e \in DataSnapshot
        BY <2>1, <2>3, <2>4 DEF Sound, DataSnapshot
    <2>7. /\ e.idCounter = d.idCounter
          /\ e.colorGroupIdCounter = d.colorGroupIdCounter
          /\ e.colorGroups = groups /\ e.notes = notes
          /\ e.otpNotes = otps /\ e.generatedPassws = d.generatedPassws
        BY DEF Sound, DataSnapshot
    <2> HIDE DEF e
    <2>8. /\ Distinct(d.notes) /\ Distinct(d.otpNotes)
          /\ Distinct(d.generatedPassws) /\ DistinctHistories(d.notes)
        BY DEF Sound, NoSharedIds
    <2>9. /\ Ids(notes) = Ids(d.notes) /\ Distinct(notes)
          /\ HistoryIds(notes) = HistoryIds(d.notes)
          /\ DistinctHistories(notes)
        BY <2>3, <2>8, SameIds, SameHistories
    <2>10. Ids(otps) = Ids(d.otpNotes) /\ Distinct(otps)
        BY <2>4, <2>8, SameIds
    <2>11. Sound(e)
        BY <2>1, <2>2, <2>6, <2>7, <2>8, <2>9, <2>10, KeepsSoundWithoutFresh
    <2>12. Freed(d, e, groupId)
        BY <2>1, <2>3, <2>4, <2>7 DEF Freed
    <2> QED BY <2>5, <2>11, <2>12
<1> QED BY <1>1, <1>2

-----------------------------------------------------------------------------
(* Notes *)

LEMMA NewNotes ==
    ASSUME NEW d, Sound(d), NEW notes \in Seq(CryptedNote),
           NEW n \in Nat, d.idCounter <= n,
           Ids(notes) \subseteq Ids(d.notes) \cup (d.idCounter .. (n - 1)),
           HistoryIds(notes) \subseteq
                HistoryIds(d.notes) \cup (d.idCounter .. (n - 1)),
           Ids(notes) \cap HistoryIds(notes) = {},
           Distinct(notes), DistinctHistories(notes)
    PROVE  Sound([d EXCEPT !.idCounter = n, !.notes = notes])
<1> DEFINE e == [d EXCEPT !.idCounter = n, !.notes = notes]
           fresh == d.idCounter .. (n - 1)
           N == Ids(notes) \cap fresh
           H == HistoryIds(notes) \cap fresh
           none == {}
<1>1. e \in DataSnapshot
    BY DEF Sound, DataSnapshot
<1>2. /\ e.idCounter = n /\ e.colorGroupIdCounter = d.colorGroupIdCounter
      /\ e.colorGroups = d.colorGroups /\ e.notes = notes
      /\ e.otpNotes = d.otpNotes /\ e.generatedPassws = d.generatedPassws
    BY DEF Sound, DataSnapshot
<1> HIDE DEF e
<1>3. /\ d.colorGroupIdCounter <= e.colorGroupIdCounter
      /\ Distinct(d.otpNotes) /\ Distinct(d.generatedPassws)
    BY <1>2, SnapshotParts DEF Sound, NoSharedIds
<1>4. /\ N \cup H \cup none \cup none \subseteq d.idCounter .. (e.idCounter - 1)
      /\ N \cap none = {} /\ H \cap none = {} /\ none \cap none = {}
      /\ N \cap H = {}
      /\ Ids(e.notes) \subseteq Ids(d.notes) \cup N
      /\ HistoryIds(e.notes) \subseteq HistoryIds(d.notes) \cup H
      /\ Ids(e.otpNotes) \subseteq Ids(d.otpNotes) \cup none
      /\ Ids(e.generatedPassws) \subseteq Ids(d.generatedPassws) \cup none
      /\ Ids(e.colorGroups) \subseteq Ids(d.colorGroups) \cup
            (d.colorGroupIdCounter .. (e.colorGroupIdCounter - 1))
      /\ d.idCounter <= e.idCounter
      /\ Distinct(e.notes) /\ Distinct(e.otpNotes)
      /\ Distinct(e.generatedPassws) /\ DistinctHistories(e.notes)
    BY <1>2, <1>3
<1> HIDE DEF none, N, H
<1>5. Sound(e)
    BY <1>1, <1>3, <1>4, KeepsSound, ZenonT(30)
<1> QED BY <1>5 DEF e

LEMMA RemoveNoteSound ==
    ASSUME NEW d, Sound(d), NEW id
    PROVE  Sound(RemoveNote(d, id)) /\ Within(d, RemoveNote(d, id), 0)
<1>1. CASE ~ HasId(d.notes, id)
    BY <1>1, WithinItself DEF RemoveNote
<1>2. CASE HasId(d.notes, id)
    <2> DEFINE notes == Erase(d.notes, id)
               n == d.idCounter
    <2>1. /\ d.notes \in Seq(CryptedNote) /\ n \in Nat /\ d.idCounter <= n
          /\ Distinct(d.notes) /\ DistinctHistories(d.notes)
        BY SnapshotParts DEF Sound, NoSharedIds
    <2>2. /\ notes \in Seq(CryptedNote) /\ Ids(notes) \subseteq Ids(d.notes)
          /\ Distinct(notes)
          /\ HistoryIds(notes) \subseteq HistoryIds(d.notes)
          /\ DistinctHistories(notes)
          /\ Groups(notes) \subseteq Groups(d.notes) \cup {0, 0}
        BY <1>2, <2>1, EraseProperties, EraseHistories
    <2>3. RemoveNote(d, id) = [d EXCEPT !.idCounter = n, !.notes = notes]
        BY <1>2 DEF RemoveNote, Sound, DataSnapshot
    <2>4. Ids(notes) \cap HistoryIds(notes) = {}
        BY <2>2 DEF Sound, NoSharedIds
    <2>5. /\ Ids(notes) \subseteq Ids(d.notes) \cup (d.idCounter .. (n - 1))
          /\ HistoryIds(notes) \subseteq
                HistoryIds(d.notes) \cup (d.idCounter .. (n - 1))
        BY <2>2
    <2> HIDE DEF notes, n
    <2>6. Sound([d EXCEPT !.idCounter = n, !.notes = notes])
        BY <2>1, <2>2, <2>4, <2>5, NewNotes
    <2>7. Within(d, [d EXCEPT !.idCounter = n, !.notes = notes], 0)
        BY <2>2, WithinNotes
    <2> QED BY <2>3, <2>6, <2>7
<1> QED BY <1>1, <1>2

\* the values a caller gives for a note; T holds the entries of its history
NoteValues(dnote, T) ==
    /\ dnote.info \in Infos /\ dnote.passw \in AnyPassw
    /\ dnote.colorGroupId \in Int /\ dnote.history \in Seq(T)
    /\ \A x \in T : x.passw \in AnyPassw /\ x.genTime \in Nat

LEMMA SetNoteSound ==
    ASSUME NEW d, Sound(d), NEW T, NEW dnote, NoteValues(dnote, T),
           NEW flags, NEW now \in Nat
    PROVE  /\ Sound(SetNote(d, dnote, flags, now))
           /\ Within(d, SetNote(d, dnote, flags, now), dnote.colorGroupId)
<1>1. CASE ~ HasId(d.notes, dnote.id)
    BY <1>1, WithinItself DEF SetNote
<1>2. CASE HasId(d.notes, dnote.id)
    <2> DEFINE k == IndexOf(d.notes, dnote.id)
               old == d.notes[k]
               setPassw == SetsPassw(old, dnote, flags)
               tracked == TracksHistory(old, dnote, flags)
               replaced == [id |-> d.idCounter, passw |-> old.passw,
                            genTime |-> old.genTime]
               next == IF tracked THEN d.idCounter + 1 ELSE d.idCounter
               full == "FULL_HISTORY" \in flags
               n == IF full THEN next + Len(dnote.history) ELSE next
               hist == IF full THEN Numbered(dnote.history, next)
                       ELSE IF tracked THEN PushedFront(replaced, old.history)
                       ELSE old.history
               x == [id |-> old.id,
                     info |-> IF "INFO" \in flags
                              THEN dnote.info ELSE old.info,
                     passw |-> IF setPassw THEN dnote.passw ELSE old.passw,
                     genTime |-> IF setPassw THEN now ELSE old.genTime,
                     colorGroupId |-> dnote.colorGroupId,
                     history |-> hist]
               notes == [d.notes EXCEPT ![k] = x]
               H == d.idCounter .. (n - 1)
    <2>1. /\ d.notes \in Seq(CryptedNote) /\ d.idCounter \in Nat
          /\ Distinct(d.notes) /\ DistinctHistories(d.notes)
        BY SnapshotParts DEF Sound, NoSharedIds
    <2>2. k \in 1 .. Len(d.notes) /\ old \in CryptedNote
        BY <1>2, <2>1, IndexOfType
    <2>3. SetNote(d, dnote, flags, now) =
            [d EXCEPT !.idCounter = n, !.notes = notes]
        BY <1>2 DEF SetNote
    <2> HIDE DEF k, tracked, setPassw, full
    <2>4. /\ next \in Nat /\ d.idCounter <= next
          /\ Len(dnote.history) \in Nat
        BY <2>1 DEF NoteValues
    <2>5. n \in Nat /\ d.idCounter <= n /\ next <= n
        BY <2>1, <2>4
    <2>6. /\ old.history \in Seq(CryptedPassword)
          /\ old.id \in Nat /\ old.info \in Infos
          /\ old.passw \in AnyPassw /\ old.genTime \in Nat
        BY <2>2 DEF CryptedNote
    <2>7. Distinct(old.history)
        BY <2>1, <2>2 DEF DistinctHistories
    <2>8. H \cap HistoryIds(d.notes) = {} /\ H \cap Ids(d.notes) = {}
        BY <2>1, <2>5, SnapshotIds DEF Sound, IdsBelowCounters
    <2>9. /\ hist \in Seq(CryptedPassword) /\ Distinct(hist)
          /\ Ids(hist) \subseteq Ids(old.history) \cup H
        <3>1. CASE full
            <4>1. /\ Numbered(dnote.history, next) \in Seq(CryptedPassword)
                  /\ Ids(Numbered(dnote.history, next)) =
                        next .. (next + Len(dnote.history) - 1)
                  /\ Distinct(Numbered(dnote.history, next))
                BY <2>4, NumberedProperties DEF NoteValues
            <4>2. next .. (next + Len(dnote.history) - 1) \subseteq H
                BY <2>1, <2>4, <3>1
            <4> QED BY <3>1, <4>1, <4>2
        <3>2. CASE ~ full /\ tracked
            <4> DEFINE one == <<replaced>>
            <4>1. one \in Seq(CryptedPassword)
                BY <2>1, <2>6 DEF CryptedPassword
            <4>2. Ids(one) = {d.idCounter} /\ Distinct(one)
                BY DEF Ids, Distinct
            <4>3. d.idCounter \in H
                BY <2>1, <3>2
            <4>4. Ids(old.history) \subseteq HistoryIds(d.notes)
                BY <2>1, <2>2 DEF HistoryIds
            <4> HIDE DEF one, H
            <4>5. Ids(one) \cap Ids(old.history) = {}
                BY <2>8, <4>2, <4>3, <4>4
            <4>6. /\ one \o old.history \in Seq(CryptedPassword)
                  /\ Ids(one \o old.history) = Ids(one) \cup Ids(old.history)
                  /\ Distinct(one \o old.history)
                BY <2>6, <2>7, <4>1, <4>2, <4>5, ConcatIds, ConcatProperties
            <4>7. hist = one \o old.history
                BY <3>2 DEF one, PushedFront
            <4> QED BY <4>2, <4>3, <4>6, <4>7
        <3>3. CASE ~ full /\ ~ tracked
            BY <2>6, <2>7, <3>3
        <3> QED BY <3>1, <3>2, <3>3
    <2> HIDE DEF hist
    <2>10. /\ x \in CryptedNote /\ x.id = old.id /\ x.history = hist
           /\ x.colorGroupId = dnote.colorGroupId
        BY <2>6, <2>9 DEF NoteValues, CryptedNote
    <2> HIDE DEF x, n, old
    <2>11. /\ notes \in Seq(CryptedNote) /\ DOMAIN notes = DOMAIN d.notes
           /\ \A i \in DOMAIN d.notes : notes[i].id = d.notes[i].id
        BY <2>1, <2>2, <2>10 DEF old
    <2>16. Groups(notes) \subseteq Groups(d.notes) \cup {0, dnote.colorGroupId}
        BY <2>1, <2>2, <2>10, ReplaceGroups
    <2>12. Ids(notes) = Ids(d.notes) /\ Distinct(notes)
        BY <2>1, <2>11, SameIds
    <2> HIDE DEF H
    <2>13. /\ HistoryIds(notes) \subseteq HistoryIds(d.notes) \cup H
           /\ DistinctHistories(notes)
        <3>1. /\ Ids(x.history) \subseteq Ids(d.notes[k].history) \cup H
              /\ Distinct(x.history)
            BY <2>9, <2>10 DEF old
        <3> QED BY <2>1, <2>2, <2>8, <2>10, <3>1, ReplaceHistory
    <2>14. /\ Ids(notes) \cap HistoryIds(notes) = {}
           /\ Ids(notes) \subseteq Ids(d.notes) \cup H
        BY <2>8, <2>12, <2>13 DEF Sound, NoSharedIds
    <2> HIDE DEF notes
    <2>15. Sound([d EXCEPT !.idCounter = n, !.notes = notes])
        BY <2>5, <2>11, <2>12, <2>13, <2>14, NewNotes DEF H
    <2>17. Within(d, [d EXCEPT !.idCounter = n, !.notes = notes],
                  dnote.colorGroupId)
        BY <2>16, WithinNotes
    <2> QED BY <2>3, <2>15, <2>17
<1> QED BY <1>1, <1>2

\* snapshot d with the note of dnote, its history numbered from next on
WithNote(d, dnote, next, now) ==
    [d EXCEPT
       !.idCounter = next + Len(dnote.history),
       !.notes = Append(d.notes,
          [id |-> d.idCounter, info |-> dnote.info, passw |-> dnote.passw,
           genTime |-> now, colorGroupId |-> dnote.colorGroupId,
           history |-> Numbered(dnote.history, next)])]

\* createNote appends one note, with the values it was given
LEMMA CreatedNote ==
    ASSUME NEW d, Sound(d), NEW T, NEW dnote, NoteValues(dnote, T),
           NEW flags, NEW now \in Nat
    PROVE  \E next \in Nat :
              /\ d.idCounter < next
              /\ CreateNote(d, dnote, flags, now) = WithNote(d, dnote, next, now)
<1> DEFINE id == d.idCounter
           blank == [id |-> id, info |-> BlankInfo, passw |-> BlankPassw,
                     genTime |-> 0, colorGroupId |-> 0, history |-> <<>>]
           given == [id |-> id, info |-> dnote.info, passw |-> dnote.passw,
                     colorGroupId |-> dnote.colorGroupId,
                     history |-> dnote.history]
           all == flags \cup {"FORCE", "INFO", "PASSW", "FULL_HISTORY"}
           next == IF TracksHistory(blank, given, all) THEN id + 2 ELSE id + 1
           n == next + Len(dnote.history)
           hist == Numbered(dnote.history, next)
           x == [id |-> id, info |-> dnote.info, passw |-> dnote.passw,
                 genTime |-> now, colorGroupId |-> dnote.colorGroupId,
                 history |-> hist]
           a == Append(d.notes, blank)
           notes == Append(d.notes, x)
<1>1. /\ d.notes \in Seq(CryptedNote) /\ id \in Nat
      /\ Distinct(d.notes) /\ DistinctHistories(d.notes)
    BY SnapshotParts DEF Sound, NoSharedIds
<1>2. /\ \A i \in Ids(d.notes) \cup HistoryIds(d.notes) : i \in Nat /\ i < id
      /\ id \notin Ids(d.notes)
    BY <1>1, SnapshotIds DEF Sound, IdsBelowCounters
<1>3. /\ HasId(a, id)
      /\ a[IndexOf(a, id)] = blank
      /\ [a EXCEPT ![IndexOf(a, id)] = x] = notes
    <2>1. blank.id = id
        OBVIOUS
    <2> HIDE DEF blank, x, id
    <2> QED BY <1>1, <1>2, <2>1, AppendAndReplace
<1>4. CreateNote(d, dnote, flags, now) =
        [d EXCEPT !.idCounter = n, !.notes = notes]
    <2> DEFINE d1 == [d EXCEPT !.idCounter = id + 1, !.notes = a]
    <2>1. /\ d1.idCounter = id + 1 /\ d1.notes = a
          /\ \A m, q : [d1 EXCEPT !.idCounter = m, !.notes = q] =
                       [d EXCEPT !.idCounter = m, !.notes = q]
        BY DEF Sound, DataSnapshot
    <2>2. CreateNote(d, dnote, flags, now) = SetNote(d1, given, all, now)
        BY DEF CreateNote
    <2>3. /\ given.id = id /\ given.info = dnote.info
          /\ given.passw = dnote.passw /\ given.history = dnote.history
          /\ given.colorGroupId = dnote.colorGroupId
          /\ blank.id = id
          /\ {"FORCE", "INFO", "PASSW", "FULL_HISTORY"} \subseteq all
        OBVIOUS
    <2> HIDE DEF d1, given, all, blank, a
    <2>4. SetsPassw(blank, given, all)
        BY <2>3 DEF SetsPassw
    <2>5. /\ TracksHistory(blank, given, all) => next = d1.idCounter + 1
          /\ ~ TracksHistory(blank, given, all) => next = d1.idCounter
        <3>1. (id + 1) + 1 = id + 2
            BY <1>1
        <3> QED BY <2>1, <3>1
    <2> HIDE DEF notes, id
    <2>6. SetNote(d1, given, all, now) =
            [d1 EXCEPT !.idCounter = n,
                       !.notes = [a EXCEPT ![IndexOf(a, id)] = x]]
        <3>1. HasId(d1.notes, given.id)
              /\ IndexOf(a, id) = IndexOf(d1.notes, given.id)
              /\ blank = d1.notes[IndexOf(a, id)]
            BY <1>3, <2>1, <2>3
        <3>2. SetNote(d1, given, all, now) =
                [d1 EXCEPT !.idCounter = next + Len(given.history),
                   !.notes = [d1.notes EXCEPT ![IndexOf(a, id)] =
                       [id |-> blank.id, info |-> given.info,
                        passw |-> given.passw, genTime |-> now,
                        colorGroupId |-> given.colorGroupId,
                        history |-> Numbered(given.history, next)]]]
            <4>1. {"INFO", "FULL_HISTORY"} \subseteq all
                BY <2>3
            <4>2. "INFO" \in all /\ "FULL_HISTORY" \in all
                BY <4>1
            <4>3. CASE TracksHistory(blank, given, all)
                <5>1. next = d1.idCounter + 1
                    BY <2>5, <4>3
                <5> HIDE DEF next
                <5> QED BY <2>4, <3>1, <4>2, <4>3, <5>1 DEF SetNote
            <4>4. CASE ~ TracksHistory(blank, given, all)
                <5>1. next = d1.idCounter
                    BY <2>5, <4>4
                <5> HIDE DEF next
                <5> QED BY <2>4, <3>1, <4>2, <4>4, <5>1 DEF SetNote
            <4> QED BY <4>3, <4>4
        <3>3. [d1.notes EXCEPT ![IndexOf(a, id)] =
                  [id |-> blank.id, info |-> given.info,
                   passw |-> given.passw, genTime |-> now,
                   colorGroupId |-> given.colorGroupId,
                   history |-> Numbered(given.history, next)]] =
              [a EXCEPT ![IndexOf(a, id)] = x]
            <4> HIDE DEF next
            <4> QED BY <2>1, <2>3
        <3>4. next + Len(given.history) = n
            <4> HIDE DEF next
            <4> QED BY <2>3
        <3> QED BY <3>2, <3>3, <3>4, Zenon
    <2> HIDE DEF x, n
    <2>7. SetNote(d1, given, all, now) =
            [d1 EXCEPT !.idCounter = n, !.notes = notes]
        BY <1>3, <2>6, Zenon
    <2> QED BY <2>1, <2>2, <2>7, Zenon
<1>5. next \in Nat /\ id < next
    BY <1>1
<1> HIDE DEF next
<1>6. CreateNote(d, dnote, flags, now) = WithNote(d, dnote, next, now)
    BY <1>4 DEF WithNote
<1> HIDE DEF blank, given, all
<1> QED BY <1>5, <1>6

LEMMA CreateNoteSound ==
    ASSUME NEW d, Sound(d), NEW T, NEW dnote, NoteValues(dnote, T),
           NEW flags, NEW now \in Nat
    PROVE  /\ Sound(CreateNote(d, dnote, flags, now))
           /\ Within(d, CreateNote(d, dnote, flags, now), dnote.colorGroupId)
<1>3. PICK next \in Nat :
        /\ d.idCounter < next
        /\ CreateNote(d, dnote, flags, now) = WithNote(d, dnote, next, now)
    BY CreatedNote
<1> DEFINE id == d.idCounter
           n == next + Len(dnote.history)
           hist == Numbered(dnote.history, next)
           x == [id |-> id, info |-> dnote.info, passw |-> dnote.passw,
                 genTime |-> now, colorGroupId |-> dnote.colorGroupId,
                 history |-> hist]
           notes == Append(d.notes, x)
<1>1. /\ d.notes \in Seq(CryptedNote) /\ id \in Nat
      /\ Distinct(d.notes) /\ DistinctHistories(d.notes)
    BY SnapshotParts DEF Sound, NoSharedIds
<1>2. /\ \A i \in Ids(d.notes) \cup HistoryIds(d.notes) : i \in Nat /\ i < id
      /\ id \notin Ids(d.notes)
    BY <1>1, SnapshotIds DEF Sound, IdsBelowCounters
<1>4. CreateNote(d, dnote, flags, now) =
        [d EXCEPT !.idCounter = n, !.notes = notes]
    BY <1>3 DEF WithNote
<1>5. next \in Nat /\ id < next /\ Len(dnote.history) \in Nat
    BY <1>3 DEF NoteValues
<1>6. n \in Nat /\ id < n /\ next <= n
    BY <1>1, <1>5
<1>7. /\ hist \in Seq(CryptedPassword) /\ Distinct(hist)
      /\ Ids(hist) = next .. (n - 1)
    BY <1>5, NumberedProperties DEF NoteValues
<1> HIDE DEF hist
<1>8. /\ x \in CryptedNote /\ x.id = id /\ x.history = hist
      /\ x.colorGroupId = dnote.colorGroupId
    BY <1>1, <1>7 DEF NoteValues, CryptedNote
<1> HIDE DEF x
<1>9. /\ notes \in Seq(CryptedNote) /\ Distinct(notes)
      /\ Ids(notes) = Ids(d.notes) \cup {id}
      /\ Groups(notes) = Groups(d.notes) \cup {dnote.colorGroupId}
    BY <1>1, <1>2, <1>8, AppendIds, AppendProperties
<1>10. /\ Ids(x.history) \cap HistoryIds(d.notes) = {}
       /\ Distinct(x.history)
    BY <1>1, <1>2, <1>5, <1>7, <1>8
<1>11. /\ HistoryIds(notes) = HistoryIds(d.notes) \cup Ids(hist)
       /\ DistinctHistories(notes)
    <2>1. /\ HistoryIds(notes) = HistoryIds(d.notes) \cup Ids(x.history)
          /\ DistinctHistories(notes)
        BY <1>1, <1>8, <1>10, AppendHistories
    <2> QED BY <1>8, <2>1
<1> HIDE DEF notes, n
<1>12. /\ Ids(notes) \subseteq Ids(d.notes) \cup (d.idCounter .. (n - 1))
       /\ HistoryIds(notes) \subseteq
            HistoryIds(d.notes) \cup (d.idCounter .. (n - 1))
    BY <1>1, <1>5, <1>6, <1>7, <1>9, <1>11
<1>13. Ids(notes) \cap HistoryIds(notes) = {}
    <2>1. Ids(d.notes) \cap HistoryIds(d.notes) = {}
        BY DEF Sound, NoSharedIds
    <2> QED BY <1>1, <1>2, <1>5, <1>7, <1>9, <1>11, <2>1
<1>14. d.idCounter <= n
    BY <1>1, <1>6
<1>15. Sound([d EXCEPT !.idCounter = n, !.notes = notes])
    BY <1>6, <1>9, <1>11, <1>12, <1>13, <1>14, NewNotes
<1>16. Within(d, [d EXCEPT !.idCounter = n, !.notes = notes],
              dnote.colorGroupId)
    BY <1>9, WithinNotes
<1> QED BY <1>4, <1>15, <1>16

-----------------------------------------------------------------------------
(* Otp notes *)

LEMMA NewOtpNotes ==
    ASSUME NEW d, Sound(d), NEW otps \in Seq(CryptedOtpInfo),
           NEW n \in Nat, d.idCounter <= n,
           Ids(otps) \subseteq Ids(d.otpNotes) \cup (d.idCounter .. (n - 1)),
           Distinct(otps)
    PROVE  Sound([d EXCEPT !.idCounter = n, !.otpNotes = otps])
<1> DEFINE e == [d EXCEPT !.idCounter = n, !.otpNotes = otps]
           O == d.idCounter .. (n - 1)
           none == {}
<1>1. e \in DataSnapshot
    BY DEF Sound, DataSnapshot
<1>2. /\ e.idCounter = n /\ e.colorGroupIdCounter = d.colorGroupIdCounter
      /\ e.colorGroups = d.colorGroups /\ e.notes = d.notes
      /\ e.otpNotes = otps /\ e.generatedPassws = d.generatedPassws
    BY DEF Sound, DataSnapshot
<1> HIDE DEF e
<1>3. /\ d.colorGroupIdCounter <= e.colorGroupIdCounter
      /\ Distinct(d.notes) /\ Distinct(d.generatedPassws)
      /\ DistinctHistories(d.notes)
    BY <1>2, SnapshotParts DEF Sound, NoSharedIds
<1>4. /\ none \cup none \cup O \cup none \subseteq d.idCounter .. (e.idCounter - 1)
      /\ none \cap none = {} /\ none \cap O = {} /\ O \cap none = {}
      /\ Ids(e.notes) \subseteq Ids(d.notes) \cup none
      /\ HistoryIds(e.notes) \subseteq HistoryIds(d.notes) \cup none
      /\ Ids(e.otpNotes) \subseteq Ids(d.otpNotes) \cup O
      /\ Ids(e.generatedPassws) \subseteq Ids(d.generatedPassws) \cup none
      /\ Ids(e.colorGroups) \subseteq Ids(d.colorGroups) \cup
            (d.colorGroupIdCounter .. (e.colorGroupIdCounter - 1))
      /\ d.idCounter <= e.idCounter
      /\ Distinct(e.notes) /\ Distinct(e.otpNotes)
      /\ Distinct(e.generatedPassws) /\ DistinctHistories(e.notes)
    BY <1>2, <1>3
<1> HIDE DEF none, O
<1>5. Sound(e)
    BY <1>1, <1>3, <1>4, KeepsSound, ZenonT(30)
<1> QED BY <1>5 DEF e

LEMMA RemoveOtpNoteSound ==
    ASSUME NEW d, Sound(d), NEW id
    PROVE  Sound(RemoveOtpNote(d, id)) /\ Within(d, RemoveOtpNote(d, id), 0)
<1>1. CASE ~ HasId(d.otpNotes, id)
    BY <1>1, WithinItself DEF RemoveOtpNote
<1>2. CASE HasId(d.otpNotes, id)
    <2> DEFINE otps == Erase(d.otpNotes, id)
               n == d.idCounter
    <2>1. /\ d.otpNotes \in Seq(CryptedOtpInfo) /\ n \in Nat
          /\ d.idCounter <= n /\ Distinct(d.otpNotes)
        BY SnapshotParts DEF Sound, NoSharedIds
    <2>2. /\ otps \in Seq(CryptedOtpInfo) /\ Distinct(otps)
          /\ Ids(otps) \subseteq Ids(d.otpNotes) \cup (d.idCounter .. (n - 1))
          /\ Groups(otps) \subseteq Groups(d.otpNotes) \cup {0, 0}
        BY <1>2, <2>1, EraseProperties
    <2>3. RemoveOtpNote(d, id) = [d EXCEPT !.idCounter = n, !.otpNotes = otps]
        BY <1>2 DEF RemoveOtpNote, Sound, DataSnapshot
    <2> HIDE DEF otps, n
    <2>4. Sound([d EXCEPT !.idCounter = n, !.otpNotes = otps])
        BY <2>1, <2>2, NewOtpNotes
    <2>5. Within(d, [d EXCEPT !.idCounter = n, !.otpNotes = otps], 0)
        BY <2>2, WithinOtpNotes
    <2> QED BY <2>3, <2>4, <2>5
<1> QED BY <1>1, <1>2

\* one otp note is replaced by another with its id
LEMMA ReplaceOtpNoteSound ==
    ASSUME NEW d, Sound(d), NEW k \in 1 .. Len(d.otpNotes),
           NEW x \in CryptedOtpInfo, x.id = d.otpNotes[k].id
    PROVE  /\ Sound([d EXCEPT !.otpNotes = [@ EXCEPT ![k] = x]])
           /\ Within(d, [d EXCEPT !.otpNotes = [@ EXCEPT ![k] = x]],
                     x.colorGroupId)
<1> DEFINE otps == [d.otpNotes EXCEPT ![k] = x]
           n == d.idCounter
<1>1. /\ d.otpNotes \in Seq(CryptedOtpInfo) /\ n \in Nat
      /\ d.idCounter <= n /\ Distinct(d.otpNotes)
    BY SnapshotParts DEF Sound, NoSharedIds
<1>2. /\ otps \in Seq(CryptedOtpInfo) /\ DOMAIN otps = DOMAIN d.otpNotes
      /\ \A i \in DOMAIN d.otpNotes : otps[i].id = d.otpNotes[i].id
    BY <1>1
<1>6. Groups(otps) \subseteq Groups(d.otpNotes) \cup {0, x.colorGroupId}
    BY <1>1, ReplaceGroups
<1>3. [d EXCEPT !.otpNotes = [@ EXCEPT ![k] = x]] =
        [d EXCEPT !.idCounter = n, !.otpNotes = otps]
    BY DEF Sound, DataSnapshot
<1> HIDE DEF otps
<1>4. /\ Distinct(otps)
      /\ Ids(otps) \subseteq Ids(d.otpNotes) \cup (d.idCounter .. (n - 1))
    BY <1>1, <1>2, SameIds
<1> HIDE DEF n
<1>5. Sound([d EXCEPT !.idCounter = n, !.otpNotes = otps])
    BY <1>1, <1>2, <1>4, NewOtpNotes
<1>7. Within(d, [d EXCEPT !.idCounter = n, !.otpNotes = otps], x.colorGroupId)
    BY <1>6, WithinOtpNotes
<1> QED BY <1>3, <1>5, <1>7

\* the values a caller gives for an otp note
OtpValues(dnote) ==
    /\ dnote.info \in Infos /\ dnote.secret \in AnyPassw
    /\ dnote.method \in OtpMethods /\ dnote.counter \in Nat
    /\ dnote.colorGroupId \in Int

LEMMA SetOtpNoteSound ==
    ASSUME NEW d, Sound(d), NEW dnote, OtpValues(dnote), NEW flags
    PROVE  /\ Sound(SetOtpNote(d, dnote, flags))
           /\ Within(d, SetOtpNote(d, dnote, flags), dnote.colorGroupId)
<1>1. CASE ~ HasId(d.otpNotes, dnote.id)
    BY <1>1, WithinItself DEF SetOtpNote
<1>2. CASE HasId(d.otpNotes, dnote.id)
    <2> DEFINE k == IndexOf(d.otpNotes, dnote.id)
               old == d.otpNotes[k]
               x == [id |-> old.id,
                     info |-> IF "INFO" \in flags THEN dnote.info ELSE old.info,
                     secret |-> IF "PASSW" \in flags
                                THEN dnote.secret ELSE old.secret,
                     method |-> dnote.method,
                     counter |-> dnote.counter,
                     colorGroupId |-> dnote.colorGroupId]
    <2>1. d.otpNotes \in Seq(CryptedOtpInfo)
        BY SnapshotParts DEF Sound
    <2>2. k \in 1 .. Len(d.otpNotes) /\ old \in CryptedOtpInfo
        BY <1>2, <2>1, IndexOfType
    <2>3. SetOtpNote(d, dnote, flags) =
            [d EXCEPT !.otpNotes = [@ EXCEPT ![k] = x]]
        BY <1>2 DEF SetOtpNote
    <2> HIDE DEF k
    <2>4. /\ x \in CryptedOtpInfo /\ x.id = d.otpNotes[k].id
          /\ x.colorGroupId = dnote.colorGroupId
        BY <2>2 DEF OtpValues, CryptedOtpInfo
    <2> HIDE DEF x
    <2>5. /\ Sound([d EXCEPT !.otpNotes = [@ EXCEPT ![k] = x]])
          /\ Within(d, [d EXCEPT !.otpNotes = [@ EXCEPT ![k] = x]],
                    dnote.colorGroupId)
        BY <2>2, <2>4, ReplaceOtpNoteSound
    <2> QED BY <2>3, <2>5
<1> QED BY <1>1, <1>2

LEMMA IncrementHotpSound ==
    ASSUME NEW d, Sound(d), NEW id
    PROVE  Sound(IncrementHotp(d, id)) /\ Within(d, IncrementHotp(d, id), 0)
<1> DEFINE k == IndexOf(d.otpNotes, id)
           x == [d.otpNotes[k] EXCEPT !.counter = d.otpNotes[k].counter + 1]
<1>1. CASE ~ (HasId(d.otpNotes, id) /\ d.otpNotes[k].method = "HOTP")
    BY <1>1, WithinItself DEF IncrementHotp
<1>2. CASE HasId(d.otpNotes, id) /\ d.otpNotes[k].method = "HOTP"
    <2>1. d.otpNotes \in Seq(CryptedOtpInfo)
        BY SnapshotParts DEF Sound
    <2>2. k \in 1 .. Len(d.otpNotes) /\ d.otpNotes[k] \in CryptedOtpInfo
        BY <1>2, <2>1, IndexOfType
    <2>3. IncrementHotp(d, id) = [d EXCEPT !.otpNotes = [@ EXCEPT ![k] = x]]
        BY <1>2, <2>1, <2>2 DEF IncrementHotp, Sound, DataSnapshot
    <2> HIDE DEF k
    <2>4. /\ x \in CryptedOtpInfo /\ x.id = d.otpNotes[k].id
          /\ x.colorGroupId = d.otpNotes[k].colorGroupId
        BY <2>2 DEF CryptedOtpInfo
    <2> HIDE DEF x
    <2> DEFINE e == [d EXCEPT !.otpNotes = [@ EXCEPT ![k] = x]]
    <2>5. Sound(e) /\ Within(d, e, x.colorGroupId)
        BY <2>2, <2>4, ReplaceOtpNoteSound
    <2> HIDE DEF e
    <2>6. x.colorGroupId \in Groups(d.otpNotes)
        BY <2>1, <2>2, <2>4 DEF Groups
    <2>7. Groups(e.notes) = Groups(d.notes)
        <3>1. e.notes = d.notes
            BY DEF e, Sound, DataSnapshot
        <3> QED BY <3>1
    <2>8. Within(d, e, 0)
        BY <2>5, <2>6, <2>7 DEF Within
    <2> QED BY <2>3, <2>5, <2>8 DEF e
<1> QED BY <1>1, <1>2

\* createOtpNote appends one otp note, with the values it was given
LEMMA CreatedOtpNote ==
    ASSUME NEW d, Sound(d), NEW dnote, OtpValues(dnote), NEW flags
    PROVE  CreateOtpNote(d, dnote, flags) =
              [d EXCEPT
                 !.idCounter = d.idCounter + 1,
                 !.otpNotes = Append(d.otpNotes,
                    [id |-> d.idCounter, info |-> dnote.info,
                     secret |-> dnote.secret, method |-> dnote.method,
                     counter |-> dnote.counter,
                     colorGroupId |-> dnote.colorGroupId])]
<1> DEFINE id == d.idCounter
           blank == [id |-> id, info |-> BlankInfo, secret |-> BlankPassw,
                     method |-> "TOTP", counter |-> 0, colorGroupId |-> 0]
           given == [id |-> id, info |-> dnote.info, secret |-> dnote.secret,
                     method |-> dnote.method, counter |-> dnote.counter,
                     colorGroupId |-> dnote.colorGroupId]
           all == flags \cup {"FORCE", "INFO", "PASSW"}
           n == id + 1
           a == Append(d.otpNotes, blank)
           otps == Append(d.otpNotes, given)
<1>1. /\ d.otpNotes \in Seq(CryptedOtpInfo) /\ id \in Nat
      /\ Distinct(d.otpNotes)
    BY SnapshotParts DEF Sound, NoSharedIds
<1>2. id \notin Ids(d.otpNotes)
    BY <1>1 DEF Sound, IdsBelowCounters
<1>3. /\ HasId(a, id)
      /\ a[IndexOf(a, id)] = blank
      /\ [a EXCEPT ![IndexOf(a, id)] = given] = otps
    <2>1. blank.id = id
        OBVIOUS
    <2> HIDE DEF blank, given, id
    <2> QED BY <1>1, <1>2, <2>1, AppendAndReplace
<1>4. CreateOtpNote(d, dnote, flags) =
        [d EXCEPT !.idCounter = n, !.otpNotes = otps]
    <2> DEFINE d1 == [d EXCEPT !.idCounter = n, !.otpNotes = a]
    <2>1. /\ d1.otpNotes = a
          /\ \A q : [d1 EXCEPT !.otpNotes = q] =
                    [d EXCEPT !.idCounter = n, !.otpNotes = q]
        BY DEF Sound, DataSnapshot
    <2>2. CreateOtpNote(d, dnote, flags) = SetOtpNote(d1, given, all)
        BY DEF CreateOtpNote
    <2>3. /\ given.id = id /\ blank.id = id
          /\ given = [id |-> blank.id, info |-> given.info,
                      secret |-> given.secret, method |-> given.method,
                      counter |-> given.counter,
                      colorGroupId |-> given.colorGroupId]
          /\ {"INFO", "PASSW"} \subseteq all
        OBVIOUS
    <2> HIDE DEF d1, given, all, blank, a, otps, id
    <2>4. SetOtpNote(d1, given, all) =
            [d1 EXCEPT !.otpNotes = [a EXCEPT ![IndexOf(a, id)] = given]]
        BY <1>3, <2>1, <2>3 DEF SetOtpNote
    <2> QED BY <1>3, <2>1, <2>2, <2>4
<1> QED BY <1>4

LEMMA CreateOtpNoteSound ==
    ASSUME NEW d, Sound(d), NEW dnote, OtpValues(dnote), NEW flags
    PROVE  /\ Sound(CreateOtpNote(d, dnote, flags))
           /\ Within(d, CreateOtpNote(d, dnote, flags), dnote.colorGroupId)
<1> DEFINE id == d.idCounter
           given == [id |-> id, info |-> dnote.info, secret |-> dnote.secret,
                     method |-> dnote.method, counter |-> dnote.counter,
                     colorGroupId |-> dnote.colorGroupId]
           n == id + 1
           otps == Append(d.otpNotes, given)
<1>1. /\ d.otpNotes \in Seq(CryptedOtpInfo) /\ id \in Nat
      /\ Distinct(d.otpNotes)
    BY SnapshotParts DEF Sound, NoSharedIds
<1>2. id \notin Ids(d.otpNotes)
    BY <1>1 DEF Sound, IdsBelowCounters
<1>4. CreateOtpNote(d, dnote, flags) =
        [d EXCEPT !.idCounter = n, !.otpNotes = otps]
    BY CreatedOtpNote
<1>5. /\ given \in CryptedOtpInfo /\ given.id = id
      /\ given.colorGroupId = dnote.colorGroupId
    BY <1>1 DEF OtpValues, CryptedOtpInfo
<1> HIDE DEF given
<1>6. /\ otps \in Seq(CryptedOtpInfo) /\ Distinct(otps)
      /\ Ids(otps) = Ids(d.otpNotes) \cup {id}
      /\ Groups(otps) = Groups(d.otpNotes) \cup {dnote.colorGroupId}
    BY <1>1, <1>2, <1>5, AppendIds, AppendProperties
<1> HIDE DEF otps
<1>7. /\ n \in Nat /\ d.idCounter <= n
      /\ Ids(otps) \subseteq Ids(d.otpNotes) \cup (d.idCounter .. (n - 1))
    BY <1>1, <1>6
<1> HIDE DEF n
<1>8. Sound([d EXCEPT !.idCounter = n, !.otpNotes = otps])
    BY <1>6, <1>7, NewOtpNotes
<1>9. Within(d, [d EXCEPT !.idCounter = n, !.otpNotes = otps],
             dnote.colorGroupId)
    BY <1>6, WithinOtpNotes
<1> QED BY <1>4, <1>8, <1>9

-----------------------------------------------------------------------------
(* Generated passwords and history *)

LEMMA NewGeneratedPassws ==
    ASSUME NEW d, Sound(d), NEW gens \in Seq(CryptedPassword),
           NEW n \in Nat, d.idCounter <= n,
           Ids(gens) \subseteq
                Ids(d.generatedPassws) \cup (d.idCounter .. (n - 1)),
           Distinct(gens)
    PROVE  Sound([d EXCEPT !.idCounter = n, !.generatedPassws = gens])
<1> DEFINE e == [d EXCEPT !.idCounter = n, !.generatedPassws = gens]
           G == d.idCounter .. (n - 1)
           none == {}
<1>1. e \in DataSnapshot
    BY DEF Sound, DataSnapshot
<1>2. /\ e.idCounter = n /\ e.colorGroupIdCounter = d.colorGroupIdCounter
      /\ e.colorGroups = d.colorGroups /\ e.notes = d.notes
      /\ e.otpNotes = d.otpNotes /\ e.generatedPassws = gens
    BY DEF Sound, DataSnapshot
<1> HIDE DEF e
<1>3. /\ d.colorGroupIdCounter <= e.colorGroupIdCounter
      /\ Distinct(d.notes) /\ Distinct(d.otpNotes)
      /\ DistinctHistories(d.notes)
    BY <1>2, SnapshotParts DEF Sound, NoSharedIds
<1>4. /\ none \cup none \cup none \cup G \subseteq d.idCounter .. (e.idCounter - 1)
      /\ none \cap none = {} /\ none \cap G = {}
      /\ Ids(e.notes) \subseteq Ids(d.notes) \cup none
      /\ HistoryIds(e.notes) \subseteq HistoryIds(d.notes) \cup none
      /\ Ids(e.otpNotes) \subseteq Ids(d.otpNotes) \cup none
      /\ Ids(e.generatedPassws) \subseteq Ids(d.generatedPassws) \cup G
      /\ Ids(e.colorGroups) \subseteq Ids(d.colorGroups) \cup
            (d.colorGroupIdCounter .. (e.colorGroupIdCounter - 1))
      /\ d.idCounter <= e.idCounter
      /\ Distinct(e.notes) /\ Distinct(e.otpNotes)
      /\ Distinct(e.generatedPassws) /\ DistinctHistories(e.notes)
    BY <1>2, <1>3
<1> HIDE DEF none, G
<1>5. Sound(e)
    BY <1>1, <1>3, <1>4, KeepsSound, ZenonT(30)
<1> QED BY <1>5 DEF e

LEMMA AppendPasswHistorySound ==
    ASSUME NEW d, Sound(d), NEW T, NEW hist \in Seq(T),
           \A x \in T : x.passw \in AnyPassw /\ x.genTime \in Nat
    PROVE  /\ Sound(AppendPasswHistory(d, hist))
           /\ Within(d, AppendPasswHistory(d, hist), 0)
<1> DEFINE new == Numbered(hist, d.idCounter)
           gens == d.generatedPassws \o new
           n == d.idCounter + Len(hist)
<1>1. /\ d.generatedPassws \in Seq(CryptedPassword) /\ d.idCounter \in Nat
      /\ Distinct(d.generatedPassws)
    BY SnapshotParts DEF Sound, NoSharedIds
<1>2. /\ new \in Seq(CryptedPassword) /\ Distinct(new)
      /\ Ids(new) = d.idCounter .. (n - 1)
    BY <1>1, NumberedProperties
<1>3. n \in Nat /\ d.idCounter <= n
    BY <1>1
<1>4. AppendPasswHistory(d, hist) =
        [d EXCEPT !.idCounter = n, !.generatedPassws = gens]
    BY DEF AppendPasswHistory
<1> HIDE DEF new, n
<1>5. Ids(d.generatedPassws) \cap Ids(new) = {}
    BY <1>1, <1>2, <1>3, SnapshotIds DEF Sound, IdsBelowCounters
<1>6. /\ gens \in Seq(CryptedPassword) /\ Distinct(gens)
      /\ Ids(gens) \subseteq
            Ids(d.generatedPassws) \cup (d.idCounter .. (n - 1))
    <2> DEFINE old == d.generatedPassws
    <2>1. /\ old \in Seq(CryptedPassword) /\ new \in Seq(CryptedPassword)
          /\ Distinct(old) /\ Distinct(new) /\ Ids(old) \cap Ids(new) = {}
        BY <1>1, <1>2, <1>5
    <2> HIDE DEF old
    <2>2. /\ Ids(old \o new) = Ids(old) \cup Ids(new)
          /\ Distinct(old \o new)
        BY <2>1, ConcatIds
    <2>3. old \o new \in Seq(CryptedPassword)
        BY <2>1
    <2> QED BY <1>2, <2>2, <2>3 DEF old
<1> HIDE DEF gens
<1>7. Sound([d EXCEPT !.idCounter = n, !.generatedPassws = gens])
    BY <1>3, <1>6, NewGeneratedPassws
<1>8. Within(d, [d EXCEPT !.idCounter = n, !.generatedPassws = gens], 0)
    BY WithinGeneratedPassws
<1> QED BY <1>4, <1>7, <1>8

LEMMA GenPasswordSound ==
    ASSUME NEW d, Sound(d), NEW passw \in AnyPassw, NEW now \in Nat
    PROVE  /\ Sound(GenPassword(d, passw, now))
           /\ Within(d, GenPassword(d, passw, now), 0)
<1> DEFINE one == <<[passw |-> passw, genTime |-> now]>>
<1>1. CASE passw = EmptyPassw
    BY <1>1, WithinItself DEF GenPassword
<1>2. CASE passw # EmptyPassw
    <2>1. one \in Seq(CryptedPasswordFlat)
        BY DEF CryptedPasswordFlat
    <2>2. \A x \in CryptedPasswordFlat : x.passw \in AnyPassw /\ x.genTime \in Nat
        BY DEF CryptedPasswordFlat
    <2>3. GenPassword(d, passw, now) = AppendPasswHistory(d, one)
        BY <1>2 DEF GenPassword
    <2> HIDE DEF one
    <2> QED BY <2>1, <2>2, <2>3, AppendPasswHistorySound
<1> QED BY <1>1, <1>2

LEMMA RemovePasswHistorySound ==
    ASSUME NEW d, Sound(d), NEW id
    PROVE  /\ Sound(RemovePasswHistory(d, id))
           /\ Within(d, RemovePasswHistory(d, id), 0)
<1> DEFINE n == d.idCounter
           holds(k) == HasId(d.notes[k].history, id)
<1>1. /\ d.generatedPassws \in Seq(CryptedPassword)
      /\ d.notes \in Seq(CryptedNote) /\ n \in Nat /\ d.idCounter <= n
      /\ Distinct(d.generatedPassws) /\ Distinct(d.notes)
      /\ DistinctHistories(d.notes)
      /\ Ids(d.notes) \cap HistoryIds(d.notes) = {}
    BY SnapshotParts DEF Sound, NoSharedIds
<1>2. CASE HasId(d.generatedPassws, id)
    <2> DEFINE gens == Erase(d.generatedPassws, id)
    <2>1. /\ gens \in Seq(CryptedPassword) /\ Distinct(gens)
          /\ Ids(gens) \subseteq
                Ids(d.generatedPassws) \cup (d.idCounter .. (n - 1))
        BY <1>1, <1>2, EraseProperties
    <2>2. RemovePasswHistory(d, id) =
            [d EXCEPT !.idCounter = n, !.generatedPassws = gens]
        BY <1>2 DEF RemovePasswHistory, Sound, DataSnapshot
    <2> HIDE DEF gens, n
    <2>3. Sound([d EXCEPT !.idCounter = n, !.generatedPassws = gens])
        BY <1>1, <2>1, NewGeneratedPassws
    <2>4. Within(d, [d EXCEPT !.idCounter = n, !.generatedPassws = gens], 0)
        BY WithinGeneratedPassws
    <2> QED BY <2>2, <2>3, <2>4
<1>3. CASE /\ ~ HasId(d.generatedPassws, id)
           /\ \E k \in DOMAIN d.notes : holds(k)
    <2> DEFINE k == CHOOSE k \in DOMAIN d.notes : HasId(d.notes[k].history, id)
               old == d.notes[k]
               hist == Erase(old.history, id)
               x == [old EXCEPT !.history = hist]
               notes == [d.notes EXCEPT ![k] = x]
               F == {}
    <2>1. k \in 1 .. Len(d.notes) /\ HasId(old.history, id)
        BY <1>1, <1>3
    <2>2. RemovePasswHistory(d, id) =
            [d EXCEPT !.idCounter = n, !.notes = notes]
        <3>1. RemovePasswHistory(d, id) = [d EXCEPT !.notes = notes]
            BY <1>3 DEF RemovePasswHistory
        <3> HIDE DEF notes
        <3> QED BY <3>1 DEF Sound, DataSnapshot
    <2> HIDE DEF k
    <2>3. old \in CryptedNote
        BY <1>1, <2>1
    <2>4. old.history \in Seq(CryptedPassword) /\ Distinct(old.history)
        <3>1. k \in DOMAIN d.notes
            BY <1>1, <2>1
        <3>2. Distinct(d.notes[k].history)
            BY <1>1, <3>1 DEF DistinctHistories
        <3> QED BY <2>3, <3>2 DEF CryptedNote
    <2>5. /\ hist \in Seq(CryptedPassword) /\ Distinct(hist)
          /\ Ids(hist) \subseteq Ids(old.history)
        BY <2>1, <2>4, EraseProperties
    <2> HIDE DEF hist
    <2>6. /\ x \in CryptedNote /\ x.id = old.id /\ x.history = hist
          /\ x.colorGroupId = old.colorGroupId
        BY <2>3, <2>5 DEF CryptedNote
    <2> HIDE DEF x
    <2>7. /\ notes \in Seq(CryptedNote) /\ DOMAIN notes = DOMAIN d.notes
          /\ \A i \in DOMAIN d.notes : notes[i].id = d.notes[i].id
        BY <1>1, <2>1, <2>6
    <2>13. Groups(notes) \subseteq Groups(d.notes) \cup {0, 0}
        <3>1. k \in DOMAIN d.notes
            BY <1>1, <2>1
        <3>2. x.colorGroupId \in Groups(d.notes)
            BY <2>6, <3>1 DEF Groups
        <3>3. Groups(notes) \subseteq Groups(d.notes) \cup {x.colorGroupId}
            BY <1>1, <3>1, ReplaceGroups
        <3> QED BY <3>2, <3>3
    <2>8. Ids(notes) = Ids(d.notes) /\ Distinct(notes)
        BY <1>1, <2>7, SameIds
    <2>9. /\ F \cap HistoryIds(d.notes) = {}
          /\ Ids(x.history) \subseteq Ids(d.notes[k].history) \cup F
          /\ Distinct(x.history)
        BY <2>5, <2>6
    <2> HIDE DEF F, old
    <2>10. /\ HistoryIds(notes) \subseteq HistoryIds(d.notes) \cup F
           /\ DistinctHistories(notes)
        BY <1>1, <2>1, <2>6, <2>9, ReplaceHistory
    <2>11. /\ Ids(notes) \subseteq Ids(d.notes) \cup (d.idCounter .. (n - 1))
           /\ HistoryIds(notes) \subseteq
                HistoryIds(d.notes) \cup (d.idCounter .. (n - 1))
           /\ Ids(notes) \cap HistoryIds(notes) = {}
        BY <1>1, <2>8, <2>10 DEF F
    <2> HIDE DEF notes, n
    <2>12. Sound([d EXCEPT !.idCounter = n, !.notes = notes])
        BY <1>1, <2>7, <2>8, <2>10, <2>11, NewNotes
    <2>14. Within(d, [d EXCEPT !.idCounter = n, !.notes = notes], 0)
        BY <2>13, WithinNotes
    <2> QED BY <2>2, <2>12, <2>14
<1>4. CASE /\ ~ HasId(d.generatedPassws, id)
           /\ ~ \E k \in DOMAIN d.notes : holds(k)
    BY <1>4, WithinItself DEF RemovePasswHistory
<1> QED BY <1>2, <1>3, <1>4

-----------------------------------------------------------------------------
(* What some calls make of the notes *)

\* the notes of other are those of notes, in other groups
Regrouped(notes, other) ==
    /\ DOMAIN other = DOMAIN notes
    /\ \A k \in DOMAIN notes :
          /\ other[k].id = notes[k].id /\ other[k].passw = notes[k].passw
          /\ other[k].genTime = notes[k].genTime
          /\ other[k].history = notes[k].history

LEMMA RemoveColorGroupNotes ==
    ASSUME NEW d \in DataSnapshot, NEW groupId
    PROVE  Regrouped(d.notes, RemoveColorGroup(d, groupId).notes)
<1>1. CASE HasId(d.colorGroups, groupId)
    <2> DEFINE notes == Ungroup(d.notes, groupId)
    <2>1. d.notes \in Seq(CryptedNote)
        BY SnapshotParts
    <2>2. RemoveColorGroup(d, groupId).notes = notes
        BY <1>1 DEF RemoveColorGroup, DataSnapshot
    <2>3. /\ DOMAIN notes = DOMAIN d.notes
          /\ \A k \in DOMAIN d.notes :
                /\ notes[k] = IF d.notes[k].colorGroupId = groupId
                              THEN [d.notes[k] EXCEPT !.colorGroupId = 0]
                              ELSE d.notes[k]
                /\ d.notes[k] \in CryptedNote
        BY <2>1 DEF Ungroup
    <2> HIDE DEF notes
    <2>4. ASSUME NEW k \in DOMAIN d.notes
          PROVE  /\ notes[k].id = d.notes[k].id
                 /\ notes[k].passw = d.notes[k].passw
                 /\ notes[k].genTime = d.notes[k].genTime
                 /\ notes[k].history = d.notes[k].history
        BY <2>3 DEF CryptedNote
    <2> QED BY <2>2, <2>3, <2>4 DEF Regrouped
<1>2. CASE ~ HasId(d.colorGroups, groupId)
    BY <1>2 DEF RemoveColorGroup, Regrouped
<1> QED BY <1>1, <1>2

\* the notes left are notes there were
LEMMA RemoveNoteNotes ==
    ASSUME NEW d \in DataSnapshot, NEW id,
           NEW k \in DOMAIN RemoveNote(d, id).notes
    PROVE  \E j \in DOMAIN d.notes : RemoveNote(d, id).notes[k] = d.notes[j]
<1> DEFINE e == RemoveNote(d, id).notes
           i == IndexOf(d.notes, id)
<1>1. CASE HasId(d.notes, id)
    <2>1. d.notes \in Seq(CryptedNote)
        BY SnapshotParts
    <2>2. e = RemoveAt(d.notes, i)
        BY <1>1 DEF RemoveNote, Erase, DataSnapshot
    <2>3. i \in 1 .. Len(d.notes)
        BY <1>1, <2>1, IndexOfType
    <2> HIDE DEF i, e
    <2>4. /\ e \in Seq(CryptedNote) /\ Len(e) = Len(d.notes) - 1
          /\ \A j \in 1 .. Len(d.notes) - 1 :
                e[j] = d.notes[IF j < i THEN j ELSE j + 1]
        BY <2>1, <2>2, <2>3, RemoveAtType
    <2>5. k \in 1 .. Len(d.notes) - 1
        BY <2>1, <2>4 DEF e
    <2>6. (IF k < i THEN k ELSE k + 1) \in DOMAIN d.notes
        BY <2>1, <2>3, <2>5
    <2>7. e[k] = d.notes[IF k < i THEN k ELSE k + 1]
        BY <2>4, <2>5
    <2> QED BY <2>6, <2>7 DEF e
<1>2. CASE ~ HasId(d.notes, id)
    BY <1>2 DEF RemoveNote
<1> QED BY <1>1, <1>2

Replaced(d, old) ==
    [id |-> d.idCounter, passw |-> old.passw, genTime |-> old.genTime]

\* the note old of d, edited
Edited(d, old, dnote, flags, now) ==
    [id |-> old.id,
     info |-> IF "INFO" \in flags THEN dnote.info ELSE old.info,
     passw |-> IF SetsPassw(old, dnote, flags)
               THEN dnote.passw ELSE old.passw,
     genTime |-> IF SetsPassw(old, dnote, flags) THEN now ELSE old.genTime,
     colorGroupId |-> dnote.colorGroupId,
     history |-> IF TracksHistory(old, dnote, flags)
                 THEN PushedFront(Replaced(d, old), old.history)
                 ELSE old.history]

LEMMA SetNoteEdits ==
    ASSUME NEW d \in DataSnapshot, NEW dnote, NEW flags,
           "FULL_HISTORY" \notin flags, NEW now, HasId(d.notes, dnote.id)
    PROVE  LET k == IndexOf(d.notes, dnote.id)
           IN  SetNote(d, dnote, flags, now).notes =
                  [d.notes EXCEPT ![k] =
                      Edited(d, d.notes[k], dnote, flags, now)]
<1> DEFINE k == IndexOf(d.notes, dnote.id)
           old == d.notes[k]
           x == [id |-> old.id,
                 info |-> IF "INFO" \in flags THEN dnote.info ELSE old.info,
                 passw |-> IF SetsPassw(old, dnote, flags)
                           THEN dnote.passw ELSE old.passw,
                 genTime |-> IF SetsPassw(old, dnote, flags)
                             THEN now ELSE old.genTime,
                 colorGroupId |-> dnote.colorGroupId,
                 history |-> IF TracksHistory(old, dnote, flags)
                             THEN PushedFront(Replaced(d, old), old.history)
                             ELSE old.history]
<1>1. SetNote(d, dnote, flags, now).notes = [d.notes EXCEPT ![k] = x]
    BY DEF SetNote, DataSnapshot, Replaced
<1>2. x = Edited(d, old, dnote, flags, now)
    BY Zenon DEF Edited
<1> QED BY <1>1, <1>2, Zenon

\* an id that is not in a history is not removed from one
LEMMA RemovePasswHistoryNotes ==
    ASSUME NEW d \in DataSnapshot, NEW id, id \notin HistoryIds(d.notes)
    PROVE  RemovePasswHistory(d, id).notes = d.notes
<1>1. ~ \E k \in DOMAIN d.notes : HasId(d.notes[k].history, id)
    BY DEF HistoryIds, HasId, Ids
<1>2. CASE HasId(d.generatedPassws, id)
    BY <1>2 DEF RemovePasswHistory, DataSnapshot
<1>3. CASE ~ HasId(d.generatedPassws, id)
    BY <1>1, <1>3 DEF RemovePasswHistory
<1> QED BY <1>2, <1>3

-----------------------------------------------------------------------------
(* Ages: a note got its password at time t or before, and the entries of    *)
(* its history got theirs before that, each before the one in front of it.  *)

OlderThan(hist, t) ==
    /\ \A i \in DOMAIN hist : hist[i].genTime \in 0 .. t
    /\ \A i, j \in DOMAIN hist : i < j => hist[j].genTime <= hist[i].genTime

NewestFirst(note, t) ==
    note.genTime \in 0 .. t /\ OlderThan(note.history, note.genTime)

AllNewestFirst(notes, t) == \A k \in DOMAIN notes : NewestFirst(notes[k], t)

\* notes with the same times
LEMMA SameTimes ==
    ASSUME NEW a, NEW b, NEW t, NewestFirst(b, t), a.genTime = b.genTime,
           DOMAIN a.history = DOMAIN b.history,
           \A i \in DOMAIN b.history :
              a.history[i].genTime = b.history[i].genTime
    PROVE  NewestFirst(a, t)
    BY DEF NewestFirst, OlderThan

LEMMA OlderThanLater ==
    ASSUME NEW hist, NEW g \in Nat, NEW t \in Nat, g <= t, OlderThan(hist, g)
    PROVE  OlderThan(hist, t)
    BY DEF OlderThan

LEMMA NewestFirstLater ==
    ASSUME NEW notes, NEW t \in Nat, NEW u \in Nat, t <= u,
           AllNewestFirst(notes, t)
    PROVE  AllNewestFirst(notes, u)
    BY DEF AllNewestFirst, NewestFirst

\* the password a note had until now is the newest of its history
LEMMA PushedFrontOlder ==
    ASSUME NEW hist \in Seq(CryptedPassword), NEW entry \in CryptedPassword,
           OlderThan(hist, entry.genTime)
    PROVE  OlderThan(PushedFront(entry, hist), entry.genTime)
<1> DEFINE g == entry.genTime
           new == PushedFront(entry, hist)
<1>1. g \in Nat
    BY DEF CryptedPassword
<1>2. /\ DOMAIN hist = 1 .. Len(hist) /\ Len(hist) \in Nat
      /\ DOMAIN new = 1 .. (Len(hist) + 1)
      /\ new[1] = entry
      /\ \A i \in 2 .. (Len(hist) + 1) : new[i] = hist[i - 1]
    BY DEF PushedFront
<1> HIDE DEF new
<1>3. ASSUME NEW i \in DOMAIN new
      PROVE  new[i].genTime \in 0 .. g
    <2>1. CASE i = 1
        BY <1>1, <1>2, <2>1
    <2>2. CASE i # 1
        <3>1. i \in 2 .. (Len(hist) + 1) /\ i - 1 \in DOMAIN hist
            BY <1>2, <2>2
        <3> QED BY <1>2, <3>1 DEF OlderThan
    <2> QED BY <2>1, <2>2
<1>4. ASSUME NEW i \in DOMAIN new, NEW j \in DOMAIN new, i < j
      PROVE  new[j].genTime <= new[i].genTime
    <2>1. j \in 2 .. (Len(hist) + 1) /\ j - 1 \in DOMAIN hist
        BY <1>2, <1>4
    <2>2. CASE i = 1
        <3>1. new[j].genTime \in 0 .. g
            BY <1>3
        <3> QED BY <1>1, <1>2, <2>2, <3>1
    <2>3. CASE i # 1
        <3>1. /\ i \in 2 .. (Len(hist) + 1) /\ i - 1 \in DOMAIN hist
              /\ i - 1 < j - 1
            BY <1>2, <1>4, <2>3
        <3> QED BY <1>2, <2>1, <3>1 DEF OlderThan
    <2> QED BY <2>2, <2>3
<1> QED BY <1>3, <1>4 DEF OlderThan, new

LEMMA EraseOlder ==
    ASSUME NEW hist \in Seq(CryptedPassword), NEW id, HasId(hist, id), NEW t,
           OlderThan(hist, t)
    PROVE  OlderThan(Erase(hist, id), t)
<1> DEFINE e == Erase(hist, id)
           k == IndexOf(hist, id)
           from(i) == IF i < k THEN i ELSE i + 1
<1>1. k \in 1 .. Len(hist)
    BY IndexOfType
<1>2. /\ e \in Seq(CryptedPassword) /\ Len(e) = Len(hist) - 1
      /\ \A i \in 1 .. Len(hist) - 1 : e[i] = hist[from(i)]
    BY <1>1, RemoveAtType DEF Erase
<1> HIDE DEF e, k
<1>3. /\ DOMAIN e = 1 .. Len(hist) - 1
      /\ \A i \in DOMAIN e : from(i) \in DOMAIN hist
      /\ \A i, j \in DOMAIN e : i < j => from(i) < from(j)
    BY <1>1, <1>2
<1> HIDE DEF from
<1> QED BY <1>2, <1>3 DEF OlderThan, e

LEMMA EraseNewestFirst ==
    ASSUME NEW notes \in Seq(CryptedNote), NEW id, HasId(notes, id), NEW t,
           AllNewestFirst(notes, t)
    PROVE  AllNewestFirst(Erase(notes, id), t)
<1> DEFINE e == Erase(notes, id)
           k == IndexOf(notes, id)
<1>1. k \in 1 .. Len(notes)
    BY IndexOfType
<1>2. /\ e \in Seq(CryptedNote) /\ Len(e) = Len(notes) - 1
      /\ \A i \in 1 .. Len(notes) - 1 :
            e[i] = notes[IF i < k THEN i ELSE i + 1]
    BY <1>1, RemoveAtType DEF Erase
<1> HIDE DEF e, k
<1>3. ASSUME NEW i \in DOMAIN e
      PROVE  \E j \in DOMAIN notes : e[i] = notes[j]
    BY <1>1, <1>2
<1> QED BY <1>3 DEF AllNewestFirst, e

LEMMA ReplaceNewestFirst ==
    ASSUME NEW notes \in Seq(CryptedNote), NEW t, AllNewestFirst(notes, t),
           NEW k \in DOMAIN notes, NEW x, NewestFirst(x, t)
    PROVE  AllNewestFirst([notes EXCEPT ![k] = x], t)
    BY DEF AllNewestFirst

LEMMA AppendNewestFirst ==
    ASSUME NEW notes \in Seq(CryptedNote), NEW t, AllNewestFirst(notes, t),
           NEW x, NewestFirst(x, t)
    PROVE  AllNewestFirst(Append(notes, x), t)
<1>1. ASSUME NEW k \in DOMAIN Append(notes, x)
      PROVE  Append(notes, x)[k] = x \/ \E j \in DOMAIN notes :
                Append(notes, x)[k] = notes[j]
    OBVIOUS
<1> QED BY <1>1 DEF AllNewestFirst

LEMMA RemoveNoteNewestFirst ==
    ASSUME NEW d \in DataSnapshot, NEW id, NEW t, AllNewestFirst(d.notes, t)
    PROVE  AllNewestFirst(RemoveNote(d, id).notes, t)
<1>1. CASE HasId(d.notes, id)
    <2>1. d.notes \in Seq(CryptedNote)
        BY SnapshotParts
    <2>2. RemoveNote(d, id).notes = Erase(d.notes, id)
        BY <1>1 DEF RemoveNote, DataSnapshot
    <2> QED BY <1>1, <2>1, <2>2, EraseNewestFirst
<1>2. CASE ~ HasId(d.notes, id)
    BY <1>2 DEF RemoveNote
<1> QED BY <1>1, <1>2

LEMMA RegroupedNewestFirst ==
    ASSUME NEW notes \in Seq(CryptedNote), NEW t, AllNewestFirst(notes, t),
           NEW other, Regrouped(notes, other)
    PROVE  AllNewestFirst(other, t)
    BY DEF AllNewestFirst, NewestFirst, Regrouped

\* an edit of a note, with a password from now or the one it had
LEMMA SetNoteNewestFirst ==
    ASSUME NEW d \in DataSnapshot, NEW dnote, NEW flags,
           "FULL_HISTORY" \notin flags,
           NEW now \in Nat, AllNewestFirst(d.notes, now)
    PROVE  AllNewestFirst(SetNote(d, dnote, flags, now).notes, now)
<1>1. CASE ~ HasId(d.notes, dnote.id)
    BY <1>1 DEF SetNote
<1>2. CASE HasId(d.notes, dnote.id)
    <2> DEFINE k == IndexOf(d.notes, dnote.id)
               old == d.notes[k]
               setPassw == SetsPassw(old, dnote, flags)
               tracked == TracksHistory(old, dnote, flags)
               replaced == Replaced(d, old)
               g == IF setPassw THEN now ELSE old.genTime
               hist == IF tracked THEN PushedFront(replaced, old.history)
                       ELSE old.history
               x == Edited(d, old, dnote, flags, now)
    <2>1. d.notes \in Seq(CryptedNote) /\ d.idCounter \in Nat
        BY SnapshotParts
    <2>2. k \in DOMAIN d.notes /\ old \in CryptedNote
        BY <1>2, <2>1, IndexOfType
    <2>3. SetNote(d, dnote, flags, now).notes = [d.notes EXCEPT ![k] = x]
        BY <1>2, SetNoteEdits
    <2>4. x.genTime = g /\ x.history = hist
        BY DEF Edited
    <2>5. NewestFirst(old, now)
        BY <2>2 DEF AllNewestFirst
    <2> HIDE DEF k, setPassw, tracked, x
    <2>6. /\ old.history \in Seq(CryptedPassword)
          /\ old.genTime \in Nat /\ old.genTime <= now
          /\ replaced \in CryptedPassword /\ replaced.genTime = old.genTime
          /\ OlderThan(old.history, old.genTime)
        BY <2>1, <2>2, <2>5
           DEF CryptedNote, CryptedPassword, NewestFirst, Replaced
    <2> HIDE DEF old, replaced
    <2>7. OlderThan(hist, old.genTime)
        BY <2>6, PushedFrontOlder
    <2> HIDE DEF hist
    <2>8. OlderThan(hist, g) /\ g \in 0 .. now
        BY <2>6, <2>7, OlderThanLater
    <2> HIDE DEF g
    <2>9. NewestFirst(x, now)
        BY <2>4, <2>8 DEF NewestFirst
    <2> QED BY <2>1, <2>2, <2>3, <2>9, ReplaceNewestFirst
<1> QED BY <1>1, <1>2

\* a note created now, with a history from before
LEMMA CreateNoteNewestFirst ==
    ASSUME NEW d, Sound(d), NEW T, NEW dnote, NoteValues(dnote, T),
           NEW flags, NEW now \in Nat, AllNewestFirst(d.notes, now),
           OlderThan(dnote.history, now)
    PROVE  AllNewestFirst(CreateNote(d, dnote, flags, now).notes, now)
<1>1. PICK next \in Nat :
        CreateNote(d, dnote, flags, now) = WithNote(d, dnote, next, now)
    BY CreatedNote
<1> DEFINE hist == Numbered(dnote.history, next)
           x == [id |-> d.idCounter, info |-> dnote.info,
                 passw |-> dnote.passw, genTime |-> now,
                 colorGroupId |-> dnote.colorGroupId, history |-> hist]
<1>2. /\ DOMAIN hist = DOMAIN dnote.history
      /\ \A i \in DOMAIN dnote.history :
            hist[i].genTime = dnote.history[i].genTime
    BY DEF NoteValues, Numbered
<1>3. WithNote(d, dnote, next, now).notes = Append(d.notes, x)
    BY DEF WithNote, Sound, DataSnapshot
<1> HIDE DEF hist
<1>4. NewestFirst(x, now)
    BY <1>2 DEF NewestFirst, OlderThan
<1> HIDE DEF x
<1>5. d.notes \in Seq(CryptedNote)
    BY SnapshotParts DEF Sound
<1> QED BY <1>1, <1>3, <1>4, <1>5, AppendNewestFirst

LEMMA RemovePasswHistoryNewestFirst ==
    ASSUME NEW d \in DataSnapshot, NEW id, NEW t, AllNewestFirst(d.notes, t)
    PROVE  AllNewestFirst(RemovePasswHistory(d, id).notes, t)
<1> DEFINE holds(k) == HasId(d.notes[k].history, id)
<1>1. CASE HasId(d.generatedPassws, id)
    BY <1>1 DEF RemovePasswHistory, DataSnapshot
<1>2. CASE /\ ~ HasId(d.generatedPassws, id)
           /\ \E k \in DOMAIN d.notes : holds(k)
    <2> DEFINE k == CHOOSE k \in DOMAIN d.notes : HasId(d.notes[k].history, id)
               old == d.notes[k]
               hist == Erase(old.history, id)
               x == [old EXCEPT !.history = hist]
    <2>1. k \in DOMAIN d.notes /\ HasId(old.history, id)
        BY <1>2
    <2>2. RemovePasswHistory(d, id).notes = [d.notes EXCEPT ![k] = x]
        BY <1>2 DEF RemovePasswHistory, DataSnapshot
    <2>3. d.notes \in Seq(CryptedNote)
        BY SnapshotParts
    <2> HIDE DEF k
    <2>4. old \in CryptedNote /\ NewestFirst(old, t)
        BY <2>1, <2>3 DEF AllNewestFirst
    <2>5. OlderThan(hist, old.genTime)
        BY <2>1, <2>4, EraseOlder DEF CryptedNote, NewestFirst
    <2> HIDE DEF hist, old
    <2>6. NewestFirst(x, t)
        BY <2>4, <2>5 DEF NewestFirst, CryptedNote
    <2> HIDE DEF x
    <2> QED BY <2>1, <2>2, <2>3, <2>6, ReplaceNewestFirst
<1>3. CASE /\ ~ HasId(d.generatedPassws, id)
           /\ ~ \E k \in DOMAIN d.notes : holds(k)
    BY <1>3 DEF RemovePasswHistory
<1> QED BY <1>1, <1>2, <1>3

-----------------------------------------------------------------------------
(* Induction on the natural numbers, for sets. *)

LEMMA SetInduction ==
    ASSUME NEW S \in SUBSET Nat, 0 \in S, \A n \in S : n + 1 \in S
    PROVE  S = Nat
<1> DEFINE rest == Nat \ S
<1> SUFFICES ASSUME rest # {}
             PROVE  FALSE
    OBVIOUS
<1>1. rest \subseteq Nat
    OBVIOUS
<1> HIDE DEF rest
<1>2. PICK m \in rest : \A y \in rest : ~ (<<y, m>> \in OpToRel(<, Nat))
    BY <1>1, NatLessThanWellFounded, WFMin
<1>3. m \in Nat /\ m \notin S /\ m # 0
    BY DEF rest
<1>4. m - 1 \in Nat /\ m - 1 < m
    BY <1>3
<1>5. <<m - 1, m>> \in OpToRel(<, Nat)
    BY <1>3, <1>4 DEF OpToRel
<1>6. m - 1 \in S
    BY <1>2, <1>4, <1>5 DEF rest
<1>7. (m - 1) + 1 \in S
    BY <1>6
<1> QED BY <1>3, <1>7

(* A loop that makes a new value from the last one, n times.  It is        *)
(* written as a recursive function, and there is one.                      *)

Loop(g, n, first, F) ==
    g = [k \in 0 .. n |-> IF k = 0 THEN first ELSE F[<<g[k - 1], k>>]]

LEMMA LoopExists ==
    ASSUME NEW S, NEW n \in Nat, NEW first \in S, NEW F \in [S \X (1 .. n) -> S]
    PROVE  \E g \in [0 .. n -> S] : Loop(g, n, first, F)
<1> DEFINE Runs(g, m) == /\ g[0] = first
                         /\ \A k \in 1 .. m : g[k] = F[<<g[k - 1], k>>]
           runs == {m \in Nat : m <= n => \E g \in [0 .. m -> S] : Runs(g, m)}
<1>1. 0 \in runs
    <2>1. [k \in 0 .. 0 |-> first] \in [0 .. 0 -> S]
          /\ Runs([k \in 0 .. 0 |-> first], 0)
        OBVIOUS
    <2> QED BY <2>1
<1>2. ASSUME NEW m \in runs PROVE m + 1 \in runs
    <2> SUFFICES ASSUME m + 1 <= n
                 PROVE  \E h \in [0 .. m + 1 -> S] : Runs(h, m + 1)
        OBVIOUS
    <2>1. m \in Nat /\ m + 1 \in 1 .. n
        OBVIOUS
    <2>2. PICK g \in [0 .. m -> S] : Runs(g, m)
        BY <2>1
    <2> DEFINE h == [k \in 0 .. m + 1 |->
                        IF k = m + 1 THEN F[<<g[m], m + 1>>] ELSE g[k]]
    <2>3. F[<<g[m], m + 1>>] \in S
        BY <2>1
    <2>4. h \in [0 .. m + 1 -> S]
        BY <2>1, <2>3
    <2>5. ASSUME NEW k \in 1 .. m + 1
          PROVE  h[k] = F[<<h[k - 1], k>>]
        <3>1. CASE k = m + 1
            <4>1. (m + 1) - 1 = m /\ m \in 0 .. m + 1 /\ m # m + 1
                BY <2>1
            <4>2. h[m] = g[m] /\ h[m + 1] = F[<<g[m], m + 1>>]
                BY <2>1, <4>1
            <4> HIDE DEF h
            <4> QED BY <3>1, <4>1, <4>2
        <3>2. CASE k # m + 1
            <4>1. /\ k \in 1 .. m /\ k - 1 \in 0 .. m /\ k \in 0 .. m + 1
                  /\ k - 1 \in 0 .. m + 1 /\ k - 1 # m + 1
                BY <2>1, <3>2
            <4>2. h[k] = g[k] /\ h[k - 1] = g[k - 1]
                BY <3>2, <4>1
            <4>3. g[k] = F[<<g[k - 1], k>>]
                BY <2>2, <4>1
            <4> HIDE DEF h
            <4> QED BY <4>2, <4>3
        <3> QED BY <3>1, <3>2
    <2>6. h[0] = first
        BY <2>1, <2>2
    <2> HIDE DEF h
    <2> QED BY <2>4, <2>5, <2>6
<1>3. runs \in SUBSET Nat
    OBVIOUS
<1>4. n \in runs
    <2> HIDE DEF runs
    <2> QED BY <1>1, <1>2, <1>3, SetInduction
<1>5. PICK g \in [0 .. n -> S] : Runs(g, n)
    BY <1>4
<1>6. ASSUME NEW k \in 0 .. n
      PROVE  g[k] = IF k = 0 THEN first ELSE F[<<g[k - 1], k>>]
    <2>1. k = 0 \/ (k # 0 /\ k \in 1 .. n)
        OBVIOUS
    <2> QED BY <1>5, <2>1
<1> QED BY <1>6 DEF Loop

\* the next group id is above the ids read
LEMMA MaxOfIds ==
    ASSUME NEW S, NEW list \in Seq(S), \A x \in S : x.id \in Nat
    PROVE  LET m == Max({ID_COUNTER_START} \cup Ids(list))
           IN  m \in Nat /\ \A id \in Ids(list) : id <= m
<1> DEFINE prefix(n) == {ID_COUNTER_START} \cup {list[k].id : k \in 1 .. n}
           good == {n \in Nat : n <= Len(list) =>
                        \E x \in prefix(n) : \A y \in prefix(n) : x >= y}
<1>0. ID_COUNTER_START \in Nat
    BY DEF ID_COUNTER_START
<1>1. \A k \in 1 .. Len(list) : list[k].id \in Nat
    OBVIOUS
<1>2. 0 \in good
    BY <1>0
<1>3. ASSUME NEW n \in good
      PROVE  n + 1 \in good
    <2> SUFFICES ASSUME n + 1 <= Len(list)
                 PROVE  \E x \in prefix(n + 1) : \A y \in prefix(n + 1) : x >= y
        OBVIOUS
    <2>1. PICK x \in prefix(n) : \A y \in prefix(n) : x >= y
        OBVIOUS
    <2> DEFINE z == list[n + 1].id
    <2>2. prefix(n + 1) = prefix(n) \cup {z}
        OBVIOUS
    <2>3. z \in Nat /\ prefix(n) \subseteq Nat
        BY <1>0, <1>1
    <2> HIDE DEF prefix, z
    <2>4. CASE x >= z
        BY <2>1, <2>2, <2>4
    <2>5. CASE ~ (x >= z)
        BY <2>1, <2>2, <2>3, <2>5
    <2> QED BY <2>4, <2>5
<1>4. good = Nat
    <2>1. good \in SUBSET Nat
        OBVIOUS
    <2> HIDE DEF good
    <2> QED BY <1>2, <1>3, <2>1, SetInduction
<1> DEFINE all == {ID_COUNTER_START} \cup Ids(list)
<1>5. prefix(Len(list)) = all /\ Len(list) \in Nat
    BY DEF Ids
<1>6. \E x \in prefix(Len(list)) : \A y \in prefix(Len(list)) : x >= y
    <2> HIDE DEF prefix
    <2>1. Len(list) \in good
        BY <1>4, <1>5
    <2>2. Len(list) <= Len(list)
        BY <1>5
    <2> QED BY <2>1, <2>2
<1>7. all \subseteq Nat
    BY <1>0, NatIds
<1>8. \E x \in all : \A y \in all : x >= y
    BY <1>5, <1>6
<1>9. Ids(list) \subseteq all
    OBVIOUS
<1> HIDE DEF all, prefix
<1>10. Max(all) \in all /\ \A y \in all : Max(all) >= y
    BY <1>8 DEF Max
<1> QED BY <1>7, <1>9, <1>10 DEF all

-----------------------------------------------------------------------------
(* The ids readAll gives out *)

\* the items of note n follow those of the notes before it
LEMMA NoteItemsStep ==
    ASSUME NEW f, NEW n \in Nat, Len(f.notes[n + 1].history) \in Nat,
           IsFiniteSet(NoteItems(f, n))
    PROVE  /\ IsFiniteSet(NoteItems(f, n + 1))
           /\ Cardinality(NoteItems(f, n + 1)) =
                Cardinality(NoteItems(f, n)) + 1
                    + Len(f.notes[n + 1].history)
<1> DEFINE L == Len(f.notes[n + 1].history)
           own == {n + 1} \X (0 .. L)
           before == NoteItems(f, n)
<1>1. IsFiniteSet({n + 1}) /\ Cardinality({n + 1}) = 1
    BY FS_Singleton, Zenon
<1>2. IsFiniteSet(0 .. L) /\ Cardinality(0 .. L) = L + 1
    <2>1. 0 \in Int /\ L \in Int /\ ~ (0 > L) /\ L - 0 + 1 = L + 1
        OBVIOUS
    <2> HIDE DEF L
    <2> QED BY <2>1, FS_Interval
<1>3. IsFiniteSet(own) /\ Cardinality(own) = L + 1
    <2> DEFINE last == {n + 1}
               places == 0 .. L
    <2>1. /\ IsFiniteSet(last) /\ Cardinality(last) = 1
          /\ IsFiniteSet(places) /\ Cardinality(places) = L + 1
          /\ 1 * (L + 1) = L + 1
        BY <1>1, <1>2
    <2> HIDE DEF last, places
    <2>2. /\ IsFiniteSet(last \X places)
          /\ Cardinality(last \X places) = Cardinality(last) * Cardinality(places)
        BY <2>1, FS_Product
    <2> QED BY <2>1, <2>2 DEF last, places
<1>4. NoteItems(f, n + 1) = before \cup own
    <2>1. ASSUME NEW e
          PROVE  e \in NoteItems(f, n + 1) <=> e \in before \/ e \in own
        <3>1. e \in NoteItems(f, n + 1) <=>
                \E j \in 1 .. n + 1 : e \in {j} \X (0 .. Len(f.notes[j].history))
            BY DEF NoteItems
        <3>2. e \in before <=>
                \E j \in 1 .. n : e \in {j} \X (0 .. Len(f.notes[j].history))
            BY DEF NoteItems
        <3>3. 1 .. n + 1 = (1 .. n) \cup {n + 1}
            OBVIOUS
        <3> QED BY <3>1, <3>2, <3>3
    <2> QED BY <2>1
<1>5. before \cap own = {}
    <2>1. \A e \in own : e[1] = n + 1
        OBVIOUS
    <2>2. \A e \in before : \E j \in 1 .. n : e[1] = j
        BY DEF NoteItems
    <2>3. n + 1 \notin 1 .. n
        OBVIOUS
    <2> HIDE DEF own, before
    <2> QED BY <2>1, <2>2, <2>3, Zenon
<1> HIDE DEF before, own
<1>6. /\ IsFiniteSet(before \cup own)
      /\ Cardinality(before \cup own) =
            Cardinality(before) + Cardinality(own) - Cardinality(before \cap own)
    BY <1>3, FS_Union DEF before
<1>7. Cardinality(before \cap own) = 0 /\ Cardinality(before) \in Nat
    BY <1>5, FS_EmptySet, FS_CardinalityType DEF before
<1> DEFINE c == Cardinality(before \cup own)
<1>8. c = Cardinality(before) + 1 + L
    <2>1. L \in Nat
        OBVIOUS
    <2> HIDE DEF L
    <2> QED BY <1>3, <1>6, <1>7, <2>1
<1> QED BY <1>4, <1>6, <1>8 DEF before

LEMMA IdsAfterNotes ==
    ASSUME NEW f \in FileSections
    PROVE  LET N == Len(f.notes)
           IN  /\ \A n \in 0 .. N : IdAfterNotes(f, n) \in Nat
               /\ \A n \in 1 .. N :
                    IdAfterNotes(f, n) = IdAfterNotes(f, n - 1) + 1
                                            + Len(f.notes[n].history)
               /\ \A j, k \in 0 .. N :
                    j <= k => IdAfterNotes(f, j) <= IdAfterNotes(f, k)
<1> DEFINE N == Len(f.notes)
           L(n) == Len(f.notes[n].history)
           fin == {n \in Nat : n <= N => IsFiniteSet(NoteItems(f, n))}
<1>1. /\ f.notes \in Seq(CryptedNoteFlat) /\ N \in Nat
      /\ \A n \in 1 .. N : L(n) \in Nat
    <2>1. f.notes \in Seq(CryptedNoteFlat)
        BY DEF FileSections
    <2>2. N \in Nat
        BY <2>1
    <2>3. ASSUME NEW n \in 1 .. N
          PROVE  L(n) \in Nat
        <3>1. f.notes[n] \in CryptedNoteFlat
            BY <2>1
        <3>2. f.notes[n].history \in Seq(CryptedPasswordFlat)
            BY <3>1 DEF CryptedNoteFlat
        <3> QED BY <3>2
    <2> QED BY <2>1, <2>2, <2>3
<1>2. 0 \in fin
    <2>1. 1 .. 0 = {}
        OBVIOUS
    <2>2. NoteItems(f, 0) = {}
        BY <2>1 DEF NoteItems
    <2> QED BY <2>2, FS_EmptySet
<1>3. ASSUME NEW n \in fin
      PROVE  n + 1 \in fin
    <2> HIDE DEF N
    <2>1. CASE n + 1 <= N
        <3>1. n \in Nat /\ n <= N /\ n + 1 \in 1 .. N
            BY <1>1, <2>1
        <3>2. IsFiniteSet(NoteItems(f, n)) /\ L(n + 1) \in Nat
            BY <1>1, <3>1
        <3> QED BY <3>1, <3>2, NoteItemsStep
    <2>2. CASE ~ (n + 1 <= N)
        BY <2>2
    <2> QED BY <2>1, <2>2
<1>4. \A n \in 0 .. N : IsFiniteSet(NoteItems(f, n))
    <2>1. fin \in SUBSET Nat
        OBVIOUS
    <2> HIDE DEF fin, N
    <2>2. fin = Nat
        BY <1>2, <1>3, <2>1, SetInduction
    <2> QED BY <2>2, <1>1 DEF fin
<1> HIDE DEF N, fin
<1>5. ASSUME NEW n \in 0 .. N
      PROVE  IdAfterNotes(f, n) \in Nat
    BY <1>4, FS_CardinalityType DEF IdAfterNotes, ID_COUNTER_START
<1>6. ASSUME NEW n \in 1 .. N
      PROVE  IdAfterNotes(f, n) = IdAfterNotes(f, n - 1) + 1 + L(n)
    <2>1. /\ n - 1 \in 0 .. N /\ n - 1 \in Nat /\ (n - 1) + 1 = n
          /\ L(n) \in Nat
        BY <1>1
    <2>2. Cardinality(NoteItems(f, n)) =
            Cardinality(NoteItems(f, n - 1)) + 1 + L(n)
        <3> DEFINE m == n - 1
        <3>1. /\ m \in Nat /\ m + 1 = n /\ IsFiniteSet(NoteItems(f, m))
              /\ Len(f.notes[m + 1].history) \in Nat
            BY <1>4, <2>1
        <3> HIDE DEF m
        <3>2. Cardinality(NoteItems(f, m + 1)) =
                Cardinality(NoteItems(f, m)) + 1
                    + Len(f.notes[m + 1].history)
            BY <3>1, NoteItemsStep
        <3> QED BY <3>1, <3>2 DEF m
    <2>3. Cardinality(NoteItems(f, n - 1)) \in Nat
        BY <1>4, <2>1, FS_CardinalityType
    <2> DEFINE before == Cardinality(NoteItems(f, n - 1))
               l == L(n)
    <2>4. /\ IdAfterNotes(f, n - 1) = ID_COUNTER_START + before
          /\ IdAfterNotes(f, n) = ID_COUNTER_START + (before + 1 + l)
        BY <2>2 DEF IdAfterNotes
    <2>5. before \in Nat /\ l \in Nat /\ ID_COUNTER_START \in Nat
        BY <2>1, <2>3 DEF ID_COUNTER_START
    <2>6. IdAfterNotes(f, n) = IdAfterNotes(f, n - 1) + 1 + l
        <3> HIDE DEF before, l
        <3> QED BY <2>4, <2>5
    <2> QED BY <2>6
<1>7. ASSUME NEW j \in 0 .. N, NEW k \in 0 .. N, j <= k
      PROVE  IdAfterNotes(f, j) <= IdAfterNotes(f, k)
    <2>1. 1 .. j \subseteq 1 .. k
        BY <1>7
    <2>2. NoteItems(f, j) \subseteq NoteItems(f, k)
        BY <2>1 DEF NoteItems
    <2>3. IsFiniteSet(NoteItems(f, k)) /\ IsFiniteSet(NoteItems(f, j))
        BY <1>4
    <2>4. Cardinality(NoteItems(f, j)) <= Cardinality(NoteItems(f, k))
        BY <2>2, <2>3, FS_Subset
    <2>5. /\ Cardinality(NoteItems(f, j)) \in Nat
          /\ Cardinality(NoteItems(f, k)) \in Nat
        BY <2>3, FS_CardinalityType
    <2> QED BY <2>4, <2>5 DEF IdAfterNotes, ID_COUNTER_START
<1> QED BY <1>5, <1>6, <1>7 DEF N

LEMMA FlatTypes ==
    /\ \A x \in CryptedPasswordFlat : x.passw \in AnyPassw /\ x.genTime \in Nat
    /\ \A x \in CryptedPassword : x.passw \in AnyPassw /\ x.genTime \in Nat
    BY DEF CryptedPasswordFlat, CryptedPassword

\* the notes readAll builds
LEMMA ReadNotes ==
    ASSUME NEW f \in FileSections
    PROVE  LET notes == ReadAll(f).notes
               last == IdAfterNotes(f, Len(f.notes))
           IN  /\ notes \in Seq(CryptedNote) /\ last \in Nat
               /\ Distinct(notes) /\ DistinctHistories(notes)
               /\ Ids(notes) \cap HistoryIds(notes) = {}
               /\ Ids(notes) \subseteq 0 .. (last - 1)
               /\ HistoryIds(notes) \subseteq 0 .. (last - 1)
<1> DEFINE N == Len(f.notes)
           A(k) == IdAfterNotes(f, k)
           notes == [k \in 1 .. N |-> ReadNote(f, k)]
           L(k) == Len(f.notes[k].history)
<1>1. /\ f.notes \in Seq(CryptedNoteFlat) /\ N \in Nat
      /\ \A k \in 1 .. N : f.notes[k] \in CryptedNoteFlat
    BY DEF FileSections
<1>2. /\ \A k \in 0 .. N : A(k) \in Nat
      /\ \A k \in 1 .. N : A(k) = A(k - 1) + 1 + L(k)
      /\ \A j, k \in 0 .. N : j <= k => A(j) <= A(k)
    BY IdsAfterNotes
<1> HIDE DEF A, N
<1>3. ASSUME NEW k \in 1 .. N
      PROVE  /\ k - 1 \in 0 .. N /\ A(k - 1) \in Nat /\ A(k) \in Nat
             /\ A(k) <= A(N) /\ A(k - 1) < A(k)
             /\ L(k) \in Nat
             /\ f.notes[k].history \in Seq(CryptedPasswordFlat)
    <2>1. k - 1 \in 0 .. N /\ k \in 0 .. N /\ N \in 0 .. N /\ k <= N
        BY <1>1
    <2>2. L(k) \in Nat /\ f.notes[k].history \in Seq(CryptedPasswordFlat)
        BY <1>1 DEF CryptedNoteFlat
    <2> QED BY <1>2, <2>1, <2>2
<1>4. ASSUME NEW k \in 1 .. N
      PROVE  /\ notes[k] \in CryptedNote
             /\ notes[k].id = A(k - 1)
             /\ Ids(notes[k].history) = A(k - 1) + 1 .. A(k) - 1
             /\ Distinct(notes[k].history)
    <2> DEFINE hist == f.notes[k].history
               id == A(k - 1)
               new == Numbered(hist, id + 1)
    <2>1. /\ hist \in Seq(CryptedPasswordFlat) /\ id + 1 \in Nat
          /\ (id + 1) + Len(hist) - 1 = A(k) - 1
        BY <1>2, <1>3
    <2> HIDE DEF hist
    <2>2. /\ new \in Seq(CryptedPassword)
          /\ Ids(new) = (id + 1) .. ((id + 1) + Len(hist) - 1)
          /\ Distinct(new)
        BY <2>1, FlatTypes, NumberedProperties
    <2> HIDE DEF new
    <2>3. notes[k] = [id |-> id, info |-> f.notes[k].info,
                      passw |-> f.notes[k].passw,
                      genTime |-> f.notes[k].genTime,
                      colorGroupId |-> f.notes[k].colorGroupId,
                      history |-> new]
        BY DEF ReadNote, new, hist, A
    <2> HIDE DEF notes
    <2>4. notes[k] \in CryptedNote
        BY <1>1, <1>3, <2>2, <2>3 DEF CryptedNote, CryptedNoteFlat
    <2>5. notes[k].id = id /\ notes[k].history = new
        BY <2>3
    <2> QED BY <2>1, <2>2, <2>4, <2>5
<1>5. DOMAIN notes = 1 .. N
    OBVIOUS
<1>6. notes \in Seq(CryptedNote)
    <2>1. notes = [k \in 1 .. N |-> notes[k]]
        OBVIOUS
    <2> HIDE DEF notes
    <2>2. notes \in [1 .. N -> CryptedNote]
        BY <1>4, <2>1
    <2> QED BY <1>1, <2>2, TupleIsSeq
<1>7. ReadAll(f).notes = notes
    BY DEF ReadAll, N
<1> HIDE DEF notes
<1>8. ASSUME NEW j \in 1 .. N, NEW k \in 1 .. N, j < k
      PROVE  A(j) <= A(k - 1)
    <2>1. j \in 0 .. N /\ k - 1 \in 0 .. N /\ j <= k - 1
        BY <1>1, <1>8
    <2> QED BY <1>2, <2>1
<1>9. ASSUME NEW j \in 1 .. N, NEW k \in 1 .. N, j # k
      PROVE  /\ notes[j].id # notes[k].id
             /\ Ids(notes[j].history) \cap Ids(notes[k].history) = {}
             /\ notes[j].id \notin Ids(notes[k].history)
    <2>1. j < k \/ k < j
        BY <1>9
    <2>2. A(j) <= A(k - 1) \/ A(k) <= A(j - 1)
        BY <1>8, <2>1
    <2> QED BY <1>3, <1>4, <2>2
<1>10. Distinct(notes)
    BY <1>5, <1>9 DEF Distinct
<1>11. DistinctHistories(notes)
    BY <1>4, <1>5, <1>9 DEF DistinctHistories
<1>12. Ids(notes) \cap HistoryIds(notes) = {}
    <2>1. \A k \in 1 .. N : notes[k].id \notin Ids(notes[k].history)
        BY <1>3, <1>4
    <2> QED BY <1>5, <1>9, <2>1 DEF Ids, HistoryIds
<1>13. A(N) \in Nat
    BY <1>1, <1>2
<1>14. Ids(notes) \subseteq 0 .. (A(N) - 1)
    BY <1>3, <1>4, <1>5, <1>13 DEF Ids
<1>15. HistoryIds(notes) \subseteq 0 .. (A(N) - 1)
    <2>1. \A k \in 1 .. N : Ids(notes[k].history) \subseteq 0 .. (A(N) - 1)
        BY <1>3, <1>4, <1>13
    <2> QED BY <1>5, <2>1 DEF HistoryIds
<1> QED BY <1>6, <1>7, <1>10, <1>11, <1>12, <1>13, <1>14, <1>15 DEF A, N

\* the otp notes readAll builds
LEMMA ReadOtps ==
    ASSUME NEW otps \in Seq(CryptedOtpInfoFlat), NEW from \in Nat
    PROVE  LET list == [k \in 1 .. Len(otps) |-> ReadOtp(otps[k], from + k - 1)]
           IN  /\ list \in Seq(CryptedOtpInfo) /\ Distinct(list)
               /\ Ids(list) \subseteq from .. (from + Len(otps) - 1)
<1> DEFINE list == [k \in 1 .. Len(otps) |-> ReadOtp(otps[k], from + k - 1)]
<1>1. ASSUME NEW k \in 1 .. Len(otps)
      PROVE  list[k] \in CryptedOtpInfo /\ list[k].id = from + k - 1
    <2>1. otps[k] \in CryptedOtpInfoFlat /\ from + k - 1 \in Nat
        OBVIOUS
    <2>2. list[k] = ReadOtp(otps[k], from + k - 1)
        OBVIOUS
    <2> HIDE DEF list
    <2> QED BY <2>1, <2>2 DEF ReadOtp, CryptedOtpInfo, CryptedOtpInfoFlat
<1>2. list = [k \in 1 .. Len(otps) |-> list[k]]
    OBVIOUS
<1> HIDE DEF list
<1>3. list \in [1 .. Len(otps) -> CryptedOtpInfo]
    BY <1>1, <1>2
<1>4. list \in Seq(CryptedOtpInfo) /\ DOMAIN list = 1 .. Len(otps)
    BY <1>3, TupleIsSeq
<1>5. Distinct(list)
    BY <1>1, <1>4 DEF Distinct
<1>6. Len(otps) \in Nat /\ Ids(list) \subseteq from .. (from + Len(otps) - 1)
    BY <1>1, <1>4 DEF Ids
<1> QED BY <1>4, <1>5, <1>6 DEF list

LEMMA ReadAllSound ==
    ASSUME NEW f \in FileSections
    PROVE  Sound(ReadAll(f))
<1> DEFINE d == ReadAll(f)
           N == Len(f.notes)
           gens == IdAfterNotes(f, N)
           otps == gens + Len(f.generatedPassws)
           last == otps + Len(f.otpNotes)
           most == Max({ID_COUNTER_START} \cup Ids(f.colorGroups))
           notes == d.notes
           genList == Numbered(f.generatedPassws, gens)
           otpList == [k \in 1 .. Len(f.otpNotes) |->
                          ReadOtp(f.otpNotes[k], otps + k - 1)]
<1>1. /\ f.generatedPassws \in Seq(CryptedPasswordFlat)
      /\ f.otpNotes \in Seq(CryptedOtpInfoFlat)
      /\ f.colorGroups \in Seq(ColorGroup)
      /\ Len(f.generatedPassws) \in Nat /\ Len(f.otpNotes) \in Nat
    BY DEF FileSections
<1>2. /\ notes \in Seq(CryptedNote) /\ gens \in Nat
      /\ Distinct(notes) /\ DistinctHistories(notes)
      /\ Ids(notes) \cap HistoryIds(notes) = {}
      /\ Ids(notes) \subseteq 0 .. (gens - 1)
      /\ HistoryIds(notes) \subseteq 0 .. (gens - 1)
    BY ReadNotes
<1>3. /\ d.idCounter = last /\ d.colorGroupIdCounter = most + 1
      /\ d.colorGroups = f.colorGroups
      /\ d.generatedPassws = genList /\ d.otpNotes = otpList
      /\ d = [idCounter |-> d.idCounter,
              colorGroupIdCounter |-> d.colorGroupIdCounter,
              colorGroups |-> d.colorGroups, notes |-> notes,
              generatedPassws |-> d.generatedPassws,
              otpNotes |-> d.otpNotes]
    BY DEF ReadAll, NextGroupId
<1> HIDE DEF d, notes, gens
<1>4. /\ genList \in Seq(CryptedPassword) /\ Distinct(genList)
      /\ Ids(genList) = gens .. (gens + Len(f.generatedPassws) - 1)
    BY <1>1, <1>2, FlatTypes, NumberedProperties
<1>5. /\ otps \in Nat /\ gens <= otps /\ last \in Nat /\ otps <= last
      /\ gens + Len(f.generatedPassws) - 1 = otps - 1
      /\ otps + Len(f.otpNotes) - 1 = last - 1
    <2> DEFINE p == Len(f.generatedPassws)
               q == Len(f.otpNotes)
    <2>1. gens \in Nat /\ p \in Nat /\ q \in Nat
        BY <1>1, <1>2
    <2>2. /\ otps = gens + p /\ last = otps + q
          /\ Len(f.generatedPassws) = p /\ Len(f.otpNotes) = q
        OBVIOUS
    <2> HIDE DEF p, q, otps, last
    <2> QED BY <2>1, <2>2
<1>6. Ids(genList) = gens .. (otps - 1)
    BY <1>4, <1>5
<1>7. /\ otpList \in Seq(CryptedOtpInfo) /\ Distinct(otpList)
      /\ Ids(otpList) \subseteq otps .. (otps + Len(f.otpNotes) - 1)
    <2> HIDE DEF otps
    <2> QED BY <1>1, <1>5, ReadOtps
<1>8. Ids(otpList) \subseteq otps .. (last - 1)
    BY <1>5, <1>7
<1>9. most \in Nat /\ \A id \in Ids(f.colorGroups) : id <= most
    <2>1. \A x \in ColorGroup : x.id \in Nat
        BY DEF ColorGroup
    <2> QED BY <1>1, <2>1, MaxOfIds
<1> HIDE DEF genList, otpList, otps, last, most
<1>10. d \in DataSnapshot
    <2>1. d.idCounter \in Nat /\ d.colorGroupIdCounter \in Nat
        BY <1>3, <1>5, <1>9
    <2>2. d.colorGroups \in Seq(ColorGroup) /\ notes \in Seq(CryptedNote)
        BY <1>1, <1>2, <1>3
    <2>3. /\ d.generatedPassws \in Seq(CryptedPassword)
          /\ d.otpNotes \in Seq(CryptedOtpInfo)
        BY <1>3, <1>4, <1>7
    <2> QED BY <1>3, <2>1, <2>2, <2>3 DEF DataSnapshot
<1>11. IdsBelowCounters(d)
    <2>1. \A id \in Ids(notes) \cup HistoryIds(notes) \cup Ids(otpList)
                    \cup Ids(genList) : id < last
        BY <1>2, <1>5, <1>6, <1>8
    <2>2. Ids(f.colorGroups) \subseteq Nat
        BY <1>3, <1>10, SnapshotIds
    <2>3. \A id \in Ids(f.colorGroups) : id < most + 1
        BY <1>9, <2>2
    <2> QED BY <1>3, <2>1, <2>3 DEF IdsBelowCounters, notes
<1>12. NoSharedIds(d)
    <2>1. /\ Ids(notes) \cap Ids(otpList) = {}
          /\ Ids(notes) \cap Ids(genList) = {}
          /\ HistoryIds(notes) \cap Ids(otpList) = {}
          /\ HistoryIds(notes) \cap Ids(genList) = {}
          /\ Ids(otpList) \cap Ids(genList) = {}
        BY <1>2, <1>5, <1>6, <1>8
    <2> QED BY <1>2, <1>3, <1>4, <1>7, <2>1 DEF NoSharedIds, notes
<1> QED BY <1>10, <1>11, <1>12 DEF Sound, d

-----------------------------------------------------------------------------
(* The file of a snapshot *)

LEMMA EmptyFileType == EmptyFile \in FileSections
    BY DEF EmptyFile, FileSections

LEMMA FlatHistoryType ==
    ASSUME NEW hist \in Seq(CryptedPassword)
    PROVE  FlatHistory(hist) \in Seq(CryptedPasswordFlat)
<1> DEFINE flat == [i \in 1 .. Len(hist) |->
                [passw |-> hist[i].passw, genTime |-> hist[i].genTime]]
<1>1. \A i \in 1 .. Len(hist) : hist[i] \in CryptedPassword
    OBVIOUS
<1>2. flat \in [1 .. Len(hist) -> CryptedPasswordFlat]
    BY <1>1 DEF CryptedPassword, CryptedPasswordFlat
<1> HIDE DEF flat
<1>3. flat \in Seq(CryptedPasswordFlat)
    BY <1>2, TupleIsSeq
<1> QED BY <1>3 DEF FlatHistory, flat

LEMMA FileOfType ==
    ASSUME NEW d \in DataSnapshot
    PROVE  FileOf(d) \in FileSections
<1> DEFINE notes == [k \in 1 .. Len(d.notes) |->
                [info |-> d.notes[k].info, passw |-> d.notes[k].passw,
                 genTime |-> d.notes[k].genTime,
                 colorGroupId |-> d.notes[k].colorGroupId,
                 history |-> FlatHistory(d.notes[k].history)]]
           otps == [k \in 1 .. Len(d.otpNotes) |->
                [info |-> d.otpNotes[k].info, secret |-> d.otpNotes[k].secret,
                 method |-> d.otpNotes[k].method,
                 counter |-> d.otpNotes[k].counter,
                 colorGroupId |-> d.otpNotes[k].colorGroupId]]
<1>1. /\ d.colorGroups \in Seq(ColorGroup)
      /\ d.notes \in Seq(CryptedNote) /\ d.otpNotes \in Seq(CryptedOtpInfo)
      /\ d.generatedPassws \in Seq(CryptedPassword)
    BY SnapshotParts
<1>2. \A k \in 1 .. Len(d.notes) : d.notes[k] \in CryptedNote
    BY <1>1
<1>3. \A k \in 1 .. Len(d.notes) :
        FlatHistory(d.notes[k].history) \in Seq(CryptedPasswordFlat)
    BY <1>2, FlatHistoryType DEF CryptedNote
<1>4. notes \in [1 .. Len(d.notes) -> CryptedNoteFlat]
    BY <1>2, <1>3 DEF CryptedNote, CryptedNoteFlat
<1>5. otps \in [1 .. Len(d.otpNotes) -> CryptedOtpInfoFlat]
    <2>1. \A k \in 1 .. Len(d.otpNotes) : d.otpNotes[k] \in CryptedOtpInfo
        BY <1>1
    <2> QED BY <2>1 DEF CryptedOtpInfo, CryptedOtpInfoFlat
<1>6. FileOf(d) =
        [colorGroups |-> d.colorGroups, notes |-> notes,
         generatedPassws |-> FlatHistory(d.generatedPassws),
         otpNotes |-> otps]
    BY DEF FileOf
<1> HIDE DEF notes, otps
<1>7. notes \in Seq(CryptedNoteFlat) /\ otps \in Seq(CryptedOtpInfoFlat)
    <2>1. Len(d.notes) \in Nat /\ Len(d.otpNotes) \in Nat
        BY <1>1
    <2> QED BY <1>4, <1>5, <2>1, TupleIsSeq
<1> QED BY <1>1, <1>6, <1>7, FlatHistoryType DEF FileSections

-----------------------------------------------------------------------------
(* Neither a save nor a login moves an item to another group. *)

LEMMA SameGroups ==
    ASSUME NEW list, NEW other, DOMAIN other = DOMAIN list,
           \A k \in DOMAIN list : other[k].colorGroupId = list[k].colorGroupId
    PROVE  Groups(other) = Groups(list)
    BY DEF Groups

LEMMA ReadAllGroups ==
    ASSUME NEW f \in FileSections
    PROVE  /\ ReadAll(f).colorGroups = f.colorGroups
           /\ Groups(ReadAll(f).notes) = Groups(f.notes)
           /\ Groups(ReadAll(f).otpNotes) = Groups(f.otpNotes)
<1> DEFINE d == ReadAll(f)
           notes == d.notes
           otps == d.otpNotes
<1>1. /\ f.notes \in Seq(CryptedNoteFlat)
      /\ f.otpNotes \in Seq(CryptedOtpInfoFlat)
      /\ DOMAIN f.notes = 1 .. Len(f.notes)
      /\ DOMAIN f.otpNotes = 1 .. Len(f.otpNotes)
    BY DEF FileSections
<1>2. /\ d.colorGroups = f.colorGroups
      /\ DOMAIN notes = 1 .. Len(f.notes)
      /\ \A k \in 1 .. Len(f.notes) : notes[k] = ReadNote(f, k)
      /\ DOMAIN otps = 1 .. Len(f.otpNotes)
    BY DEF ReadAll
<1>3. \A k \in 1 .. Len(f.otpNotes) :
        otps[k].colorGroupId = f.otpNotes[k].colorGroupId
    BY DEF ReadAll, ReadOtp
<1> HIDE DEF notes, otps, d
<1>4. ASSUME NEW k \in 1 .. Len(f.notes)
      PROVE  notes[k].colorGroupId = f.notes[k].colorGroupId
    <2>1. ReadNote(f, k).colorGroupId = f.notes[k].colorGroupId
        BY DEF ReadNote
    <2> QED BY <1>2, <2>1
<1>5. Groups(notes) = Groups(f.notes)
    BY <1>1, <1>2, <1>4, SameGroups
<1>6. Groups(otps) = Groups(f.otpNotes)
    BY <1>1, <1>2, <1>3, SameGroups
<1> QED BY <1>2, <1>5, <1>6 DEF notes, otps, d

LEMMA FileOfGroups ==
    ASSUME NEW d \in DataSnapshot
    PROVE  /\ FileOf(d).colorGroups = d.colorGroups
           /\ Groups(FileOf(d).notes) = Groups(d.notes)
           /\ Groups(FileOf(d).otpNotes) = Groups(d.otpNotes)
<1> DEFINE f == FileOf(d)
           notes == f.notes
           otps == f.otpNotes
<1>1. /\ d.notes \in Seq(CryptedNote) /\ d.otpNotes \in Seq(CryptedOtpInfo)
      /\ DOMAIN d.notes = 1 .. Len(d.notes)
      /\ DOMAIN d.otpNotes = 1 .. Len(d.otpNotes)
    BY DEF DataSnapshot
<1>2. /\ f.colorGroups = d.colorGroups
      /\ DOMAIN notes = 1 .. Len(d.notes)
      /\ DOMAIN otps = 1 .. Len(d.otpNotes)
    BY DEF FileOf
<1>3. \A k \in 1 .. Len(d.notes) :
        notes[k].colorGroupId = d.notes[k].colorGroupId
    BY DEF FileOf
<1>4. \A k \in 1 .. Len(d.otpNotes) :
        otps[k].colorGroupId = d.otpNotes[k].colorGroupId
    BY DEF FileOf
<1> HIDE DEF notes, otps, f
<1>5. Groups(notes) = Groups(d.notes)
    BY <1>1, <1>2, <1>3, SameGroups
<1>6. Groups(otps) = Groups(d.otpNotes)
    BY <1>1, <1>2, <1>4, SameGroups
<1> QED BY <1>2, <1>5, <1>6 DEF notes, otps, f

-----------------------------------------------------------------------------
(* What readAll builds from a file is saved as that file. *)

LEMMA SameList ==
    ASSUME NEW S, NEW list \in Seq(S), NEW other,
           other = [k \in 1 .. Len(list) |-> other[k]],
           \A k \in 1 .. Len(list) : other[k] = list[k]
    PROVE  other = list
    OBVIOUS

LEMMA NumberedAndBack ==
    ASSUME NEW hist \in Seq(CryptedPasswordFlat), NEW from
    PROVE  FlatHistory(Numbered(hist, from)) = hist
<1> DEFINE n == Numbered(hist, from)
           flat == FlatHistory(n)
<1>1. Len(n) = Len(hist)
    BY DEF Numbered
<1>2. ASSUME NEW i \in 1 .. Len(hist)
      PROVE  n[i].passw = hist[i].passw /\ n[i].genTime = hist[i].genTime
    BY DEF Numbered
<1>3. \A i \in 1 .. Len(hist) :
        hist[i] = [passw |-> hist[i].passw, genTime |-> hist[i].genTime]
    <2>1. \A i \in 1 .. Len(hist) : hist[i] \in CryptedPasswordFlat
        OBVIOUS
    <2> QED BY <2>1 DEF CryptedPasswordFlat
<1> HIDE DEF n
<1>4. /\ flat = [i \in 1 .. Len(hist) |-> flat[i]]
      /\ \A i \in 1 .. Len(hist) :
            flat[i] = [passw |-> n[i].passw, genTime |-> n[i].genTime]
    BY <1>1 DEF FlatHistory
<1>5. \A i \in 1 .. Len(hist) : flat[i] = hist[i]
    BY <1>2, <1>3, <1>4
<1> HIDE DEF flat
<1>6. flat = hist
    BY <1>4, <1>5, SameList
<1> QED BY <1>6 DEF flat, n

LEMMA ReadAllAndBack ==
    ASSUME NEW f \in FileSections
    PROVE  FileOf(ReadAll(f)) = f
<1> DEFINE d == ReadAll(f)
           g == FileOf(d)
           from(k) == IdAfterNotes(f, k - 1) + 1
           otps == IdAfterNotes(f, Len(f.notes)) + Len(f.generatedPassws)
<1>1. /\ f.notes \in Seq(CryptedNoteFlat)
      /\ f.generatedPassws \in Seq(CryptedPasswordFlat)
      /\ f.otpNotes \in Seq(CryptedOtpInfoFlat)
      /\ f = [colorGroups |-> f.colorGroups, notes |-> f.notes,
              generatedPassws |-> f.generatedPassws, otpNotes |-> f.otpNotes]
    BY DEF FileSections
<1>2. /\ d.colorGroups = f.colorGroups
      /\ d.notes = [k \in 1 .. Len(f.notes) |-> ReadNote(f, k)]
      /\ d.generatedPassws =
            Numbered(f.generatedPassws, IdAfterNotes(f, Len(f.notes)))
      /\ d.otpNotes = [k \in 1 .. Len(f.otpNotes) |->
                          ReadOtp(f.otpNotes[k], otps + k - 1)]
    BY DEF ReadAll
<1>3. Len(d.notes) = Len(f.notes) /\ Len(d.otpNotes) = Len(f.otpNotes)
    BY <1>2
<1> HIDE DEF otps, d
<1>4. g = [colorGroups |-> d.colorGroups, notes |-> g.notes,
           generatedPassws |-> g.generatedPassws, otpNotes |-> g.otpNotes]
    BY DEF FileOf
<1>5. g.notes = f.notes
    <2>1. ASSUME NEW k \in 1 .. Len(f.notes)
          PROVE  g.notes[k] = f.notes[k]
        <3>1. d.notes[k] = ReadNote(f, k)
            BY <1>2
        <3>2. /\ d.notes[k].info = f.notes[k].info
              /\ d.notes[k].passw = f.notes[k].passw
              /\ d.notes[k].genTime = f.notes[k].genTime
              /\ d.notes[k].colorGroupId = f.notes[k].colorGroupId
              /\ d.notes[k].history = Numbered(f.notes[k].history, from(k))
            BY <3>1 DEF ReadNote
        <3>3. f.notes[k] \in CryptedNoteFlat
            BY <1>1
        <3>4. FlatHistory(d.notes[k].history) = f.notes[k].history
            BY <3>2, <3>3, NumberedAndBack DEF CryptedNoteFlat
        <3>5. g.notes[k] =
                [info |-> d.notes[k].info, passw |-> d.notes[k].passw,
                 genTime |-> d.notes[k].genTime,
                 colorGroupId |-> d.notes[k].colorGroupId,
                 history |-> FlatHistory(d.notes[k].history)]
            BY <1>3 DEF FileOf
        <3>6. f.notes[k] =
                [info |-> f.notes[k].info, passw |-> f.notes[k].passw,
                 genTime |-> f.notes[k].genTime,
                 colorGroupId |-> f.notes[k].colorGroupId,
                 history |-> f.notes[k].history]
            BY <3>3 DEF CryptedNoteFlat
        <3> HIDE DEF g
        <3> QED BY <3>2, <3>4, <3>5, <3>6
    <2>2. g.notes = [k \in 1 .. Len(f.notes) |-> g.notes[k]]
        BY <1>3 DEF FileOf
    <2> HIDE DEF g
    <2> QED BY <1>1, <2>1, <2>2, SameList
<1>6. g.otpNotes = f.otpNotes
    <2>1. ASSUME NEW k \in 1 .. Len(f.otpNotes)
          PROVE  g.otpNotes[k] = f.otpNotes[k]
        <3>1. d.otpNotes[k] = ReadOtp(f.otpNotes[k], otps + k - 1)
            BY <1>2
        <3>2. f.otpNotes[k] \in CryptedOtpInfoFlat
            BY <1>1
        <3>3. g.otpNotes[k] =
                [info |-> d.otpNotes[k].info, secret |-> d.otpNotes[k].secret,
                 method |-> d.otpNotes[k].method,
                 counter |-> d.otpNotes[k].counter,
                 colorGroupId |-> d.otpNotes[k].colorGroupId]
            BY <1>3 DEF FileOf
        <3> HIDE DEF g
        <3> QED BY <3>1, <3>2, <3>3 DEF ReadOtp, CryptedOtpInfoFlat
    <2>2. g.otpNotes = [k \in 1 .. Len(f.otpNotes) |-> g.otpNotes[k]]
        BY <1>3 DEF FileOf
    <2> HIDE DEF g
    <2> QED BY <1>1, <2>1, <2>2, SameList
<1>7. g.generatedPassws = f.generatedPassws
    <2>1. g.generatedPassws = FlatHistory(d.generatedPassws)
        BY DEF FileOf
    <2> HIDE DEF g
    <2> QED BY <1>1, <1>2, <2>1, NumberedAndBack
<1> HIDE DEF g
<1>8. g = f
    BY <1>1, <1>2, <1>4, <1>5, <1>6, <1>7
<1> QED BY <1>8 DEF g, d
=============================================================================
