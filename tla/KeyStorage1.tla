----------------------------- MODULE KeyStorage1 -----------------------------
(***************************************************************************)
(* Storages of version 1: class KeyStorageV1 of tkcore/storage1/key1.cpp,  *)
(* the session of the command line on one of them (term/k1/termk1.cpp) and *)
(* the migration to version 2 (migrate/k1tok2).                            *)
(*                                                                         *)
(* Everything in a version 1 storage has a fixed size: a password takes    *)
(* PASSW_LEN bytes, salted and encrypted, and a note has room for          *)
(* NOTE_PASSW_HIST_LEN replaced passwords.  A password is a word with its  *)
(* length, and Salted(t) is what comes back when t was written; other      *)
(* texts are far from their limits and stand for themselves.  The master   *)
(* password is left out: the session has the one its file was written      *)
(* with, and a change of it writes the same texts under other keys.        *)
(*                                                                         *)
(* Notes carry two fields the code does not have: given, the password its  *)
(* user last set, and past, those it replaced, newest first.               *)
(***************************************************************************)
EXTENDS Integers, SequencesExt

CONSTANTS
    Paths,                  \* paths of storage files
    Infos,                  \* site, login and description of a note
    Passws,                 \* passwords: [word, len]
    NoFile,
    Closed,                 \* no session is open
    NOTE_PASSW_HIST_LEN,    \* 20
    MovedEntries,           \* entries of a history its shift moves whole
    NoteBound,              \* notes in a storage, for TLC
    EditBound               \* edits in a behaviour, for TLC

\* memmove(hist + 1, hist, 19 * sizeof(DecryptedPassw)): an entry of the
\* history has 56 bytes, a DecryptedPassw 48 (40 with libc++), so the shift
\* moves 16 (13) entries whole and stops within the next one.
ASSUME HistoryAssumption ==
    /\ NOTE_PASSW_HIST_LEN \in Nat /\ MovedEntries \in Nat
    /\ MovedEntries + 2 <= NOTE_PASSW_HIST_LEN

VARIABLES
    files,      \* the storage files
    session,    \* the open storage: its path, notes and generated passwords
    edits       \* edits so far; also the clock

vars == <<files, session, edits>>

K2 == INSTANCE KeyStorage2 WITH
        EmptyPassw <- [word |-> "", len |-> 0], Colors <- {},
        BlankInfo <- "blank", BlankPassw <- "blank", BlankColor <- "blank"

-----------------------------------------------------------------------------
(* Texts.  salt_text puts a header before the text, encode encrypts all    *)
(* but the first byte by whole blocks of 16 bytes and has no room for the  *)
(* rest, and the length in the header is read in a ring.                   *)

PASSW_LEN == 48
SaltTextHeader_LEN == 6
TEXT_DECODE_RESERVE_LEN == 6
PASSW_MIN_LEN == 4
PASSW_MAX_LEN == 16

lenRing == PASSW_LEN - SaltTextHeader_LEN - TEXT_DECODE_RESERVE_LEN
EncryptedLen == 1 + 16 * ((PASSW_LEN - 1) \div 16)

EmptyText == [word |-> "", len |-> 0]
Blank == [word |-> "blank", len |-> 0]      \* zero bytes
Noise == [word |-> "noise", len |-> 4]      \* random bytes

ASSUME PasswsAssumption ==
    \A t \in Passws : t.len \in Nat /\ (t.len = 0 => t = EmptyText)

Fits(t) == t.len <= EncryptedLen - SaltTextHeader_LEN

\* saltHeader, desaltgHeader: the length that is read for a text of len
ReadLength(len) ==
    IF len \in PASSW_MIN_LEN .. PASSW_MAX_LEN
    THEN PASSW_MIN_LEN
            + ((len - PASSW_MIN_LEN) % (PASSW_MAX_LEN - PASSW_MIN_LEN + 1))
    ELSE len % lenRing

\* The text that decode gives for what encode made of t: too long a text is
\* not written at all, the length is read in its ring, and the part that was
\* not encrypted is lost.
Salted(t) ==
    IF t.len > lenRing THEN Noise
    ELSE IF ReadLength(t.len) = 0 THEN EmptyText
    ELSE IF ReadLength(t.len) = t.len /\ Fits(t) THEN t
    ELSE [word |-> "cut", len |-> ReadLength(t.len)]

-----------------------------------------------------------------------------
(* The history of a note: an array of which histLen entries are in use.    *)

BlankEntry == [passw |-> Blank, genTime |-> 0]
NoHistory == [i \in 1 .. NOTE_PASSW_HIST_LEN |-> BlankEntry]

\* Mutant: the shift moves one entry less.
ShiftedLess(hist) ==
    [i \in DOMAIN hist |->
        IF i \in 2 .. MovedEntries THEN hist[i - 1] ELSE hist[i]]

\* The entry the shift stops in gets the beginning of its neighbour.
Shifted(hist) ==
    [i \in DOMAIN hist |->
        IF i \in 2 .. MovedEntries + 1 THEN hist[i - 1]
        ELSE IF i = MovedEntries + 2 /\ hist[i - 1] # BlankEntry
        THEN [hist[i] EXCEPT !.passw = Noise]
        ELSE hist[i]]

Smaller(a, b) == IF a < b THEN a ELSE b

\* setNote, for a password that differs from the old one
Replaced(n, passw, now) ==
    LET new == [n EXCEPT !.passw = Salted(passw), !.genTime = now,
                         !.given = passw]
    IN  IF n.passw = EmptyText THEN new
        ELSE [new EXCEPT
                !.histLen = Smaller(n.histLen + 1, NOTE_PASSW_HIST_LEN),
                !.hist = [Shifted(@) EXCEPT ![1] =
                    [passw |-> Salted(n.passw), genTime |-> n.genTime]],
                !.past = <<n.given>> \o @]

CreatedNote(info, passw, now) ==
    [info |-> info, passw |-> Salted(passw), genTime |-> now,
     hist |-> NoHistory, histLen |-> 0, given |-> passw, past |-> <<>>]

-----------------------------------------------------------------------------
(* Sessions.  Each edit saves the whole storage to the file of the         *)
(* session.                                                                *)

File1(notes, gens) == [version |-> 1, notes |-> notes, gens |-> gens]

Init ==
    /\ \E p \in Paths :
        files = [q \in Paths |-> IF q = p THEN File1(<<>>, <<>>) ELSE NoFile]
    /\ session = Closed
    /\ edits = 0

\* storage(), readAll(): only files with the header of version 1
Login(p) ==
    /\ session = Closed
    /\ files[p] # NoFile /\ files[p].version = 1
    /\ session' = [path |-> p, notes |-> files[p].notes,
                   gens |-> files[p].gens]
    /\ UNCHANGED <<files, edits>>

Logout ==
    /\ session # Closed
    /\ session' = Closed
    /\ UNCHANGED <<files, edits>>

Saved(notes, gens) ==
    /\ edits < EditBound
    /\ edits' = edits + 1
    /\ session' = [session EXCEPT !.notes = notes, !.gens = gens]
    /\ files' = [files EXCEPT ![session.path] = File1(notes, gens)]

CreateNote(info, passw) ==
    /\ session # Closed
    /\ Len(session.notes) < NoteBound
    /\ Saved(Append(session.notes, CreatedNote(info, passw, edits + 1)),
             session.gens)

\* setNote compares each field with the one it reads
SetNote(k, info, passw) ==
    LET n == [session.notes[k] EXCEPT !.info = info]
    IN  Saved([session.notes EXCEPT ![k] =
                IF passw = n.passw THEN n
                ELSE Replaced(n, passw, edits + 1)],
              session.gens)

\* "edit": the user changes some fields of the note as it was read
Edit(k) ==
    /\ session # Closed
    /\ k \in DOMAIN session.notes
    /\ \E info \in Infos, passw \in Passws \cup {session.notes[k].passw} :
        SetNote(k, info, passw)

RemoveNote(k) ==
    /\ session # Closed
    /\ k \in DOMAIN session.notes
    /\ Saved(RemoveAt(session.notes, k), session.gens)

GenPassw(passw) ==
    /\ session # Closed
    /\ Len(session.gens) < NoteBound
    /\ Saved(session.notes,
             Append(session.gens,
                    [passw |-> Salted(passw), genTime |-> edits + 1,
                     given |-> passw]))

-----------------------------------------------------------------------------
(* Change of the master password: a new storage at a path of the user's    *)
(* choice.  The session stays on its own path.                             *)

\* Mutant: the copy forgets the length of a history.
CopiedWithoutLength(n) ==
    [n EXCEPT !.histLen = 0]

Copied(n) ==
    [n EXCEPT
        !.passw = Salted(@),
        !.histLen = @ % NOTE_PASSW_HIST_LEN,
        !.hist = [i \in DOMAIN n.hist |->
            IF i > n.histLen THEN BlankEntry
            ELSE [passw |-> Salted(n.hist[i].passw),
                  genTime |-> n.hist[i].genTime]]]

SaveNewPassw(p) ==
    /\ session # Closed
    /\ files' = [files EXCEPT ![p] =
            File1([k \in DOMAIN session.notes |-> Copied(session.notes[k])],
                  [k \in DOMAIN session.gens |->
                    [session.gens[k] EXCEPT !.passw = Salted(@)]])]
    /\ UNCHANGED <<session, edits>>

-----------------------------------------------------------------------------
(* Migration.  note() gives every entry of a history the time of the note. *)

History(n) ==
    [i \in 1 .. n.histLen |->
        [passw |-> n.hist[i].passw, genTime |-> n.genTime]]

\* Mutant: the newest entry of the history is skipped.
MigratedNoteWithoutNewest(n) ==
    [info |-> n.info, passw |-> n.passw, colorGroupId |-> 0,
     history |-> IF n.histLen = 0 THEN <<>> ELSE Tail(History(n))]

MigratedNote(n) ==
    [info |-> n.info, passw |-> n.passw, colorGroupId |-> 0,
     history |-> History(n)]

GenEntry(g) == [passw |-> g.passw, genTime |-> g.genTime]

\* migrateK1toK2: a new storage of version 2, unlocked and filled
Migrated(s) ==
    LET empty == K2!ReadAll(K2!EmptyFile)
        withNotes[k \in 0 .. Len(s.notes)] ==
            IF k = 0 THEN empty
            ELSE K2!CreateNote(withNotes[k - 1], MigratedNote(s.notes[k]), {},
                               edits)
        withGens[k \in 0 .. Len(s.gens)] ==
            IF k = 0 THEN withNotes[Len(s.notes)]
            ELSE K2!AppendPasswHistory(withGens[k - 1], <<GenEntry(s.gens[k])>>)
    IN  withGens[Len(s.gens)]

\* from is not in the file: it is the storage the file was made of
Migrate(p) ==
    /\ session # Closed
    /\ files' = [files EXCEPT ![p] =
            [version |-> 2, sections |-> K2!FileOf(Migrated(session)),
             from |-> session]]
    /\ UNCHANGED <<session, edits>>

Next ==
    \/ \E p \in Paths : Login(p) \/ SaveNewPassw(p) \/ Migrate(p)
    \/ Logout
    \/ \E info \in Infos, passw \in Passws : CreateNote(info, passw)
    \/ \E k \in 1 .. NoteBound : Edit(k) \/ RemoveNote(k)
    \/ \E passw \in Passws : GenPassw(passw)

Spec == Init /\ [][Next]_vars

-----------------------------------------------------------------------------
(* Properties *)

FirstVersion == {p \in Paths : files[p] # NoFile /\ files[p].version = 1}
SecondVersion == {p \in Paths : files[p] # NoFile /\ files[p].version = 2}

Contents ==
    {files[p] : p \in FirstVersion}
        \cup (IF session = Closed THEN {} ELSE {session})

\* the old passwords of a note that the shift of its history keeps
Reliable(n) == 1 .. Smaller(n.histLen, MovedEntries + 1)

Reads(text, given) == Fits(given) => text = given

\* What a user typed or was shown comes back, from memory and from the file,
\* after any edits, logins and changes of the master password, if it is of
\* at most 27 characters and, when it was replaced, among the newest
\* MovedEntries + 1 of the history.  (The header allows 48 characters and
\* 20 entries: Salted and Shifted say what happens to the others.)
PasswordsTrue ==
    \A c \in Contents :
        /\ \A n \in Range(c.notes) :
            /\ Reads(n.passw, n.given)
            /\ \A i \in Reliable(n) : Reads(n.hist[i].passw, n.past[i])
        /\ \A g \in Range(c.gens) : Reads(g.passw, g.given)

\* A history is as long as the passwords that were replaced, unless it was
\* full once: a change of the master password takes a full history for an
\* empty one, and no other history loses an entry.
ShortHistoriesKept ==
    \A c \in Contents : \A n \in Range(c.notes) :
        n.histLen < Smaller(Len(n.past), NOTE_PASSW_HIST_LEN)
            => Len(n.past) >= NOTE_PASSW_HIST_LEN

\* migrateK1toK2: the storage of version 2 has the notes of the old one in
\* their order, with their passwords, all entries of their histories, newest
\* first, and the generated passwords.  (Passwords only: an entry of a
\* history comes out with the time of its note.)
MigrationKeepsAll ==
    \A p \in SecondVersion :
        LET new == files[p].sections
            old == files[p].from
        IN  /\ Len(new.notes) = Len(old.notes)
            /\ \A k \in DOMAIN old.notes :
                LET n == old.notes[k]
                    m == new.notes[k]
                IN  /\ m.info = n.info /\ Reads(m.passw, n.given)
                    /\ Len(m.history) = n.histLen
                    /\ \A i \in Reliable(n) :
                        Reads(m.history[i].passw, n.past[i])
            /\ Len(new.generatedPassws) = Len(old.gens)
            /\ \A k \in DOMAIN old.gens :
                Reads(new.generatedPassws[k].passw, old.gens[k].given)
=============================================================================
