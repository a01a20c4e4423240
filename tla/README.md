# A verification project for TheKey

TheKey is a password manager: a C++ engine (`src/tkcore`) that keeps notes, one-time-password
notes and generated passwords in encrypted storage files, a JNI layer and an Android app over it
(`src/app_mobile`, `src/core`), and a command line (`src/tkcore/term`). This directory holds TLA+
models of the parts whose behaviour is hard to test, the TLC configurations that check them, and
proofs for TLAPS. Paths below are relative to `src/`; `JNI` stands for
`app_mobile/src/main/cpp`, `APP` for `app_mobile/src/main/kotlin/com/github/klee0kai/thekey/app`
and `CORE` for `core/src/main/kotlin/com/github/klee0kai/thekey/core`.

## 1. Inventory

| component | state | operations | talks to |
|---|---|---|---|
| engine v2, `tkcore/storage2/key2.cpp` | a `DataSnapshot`: colour groups, notes with password histories, otp notes, generated passwords, two id counters | create / set / remove for each kind of item, password history, `readAll`, `save`, `saveNewPassw(Strategy)` | the storage file |
| native calls, `JNI/cryp_storage_v2.cpp`, `edit_storage.cpp` | a map from storage identifiers to unlocked engine objects | `login`, `unlogin`, `logoutAll`, one call per edit, moves between storages, change of password | engine v2, files |
| read-write lock, `CORE/utils/common/ReadWriteMutex.kt` | three coroutine mutexes, a counter, a published state | `withReadLock`, `withWriteLock`, `stateFlow` | one per file |
| suspended engines, `APP/engine/storage`, `APP/engine/editstorage` | which locks a call holds | each native call under a read or a write lock of its file, on a pool of 20 threads | lock, native calls |
| sessions, `APP/domain/LoginInteractor.kt`, `AppAppLifeCycleInteractor.kt` | the list of authorised storages, the timer of the automatic logout | login, logout, logout of all | lock, engines, repositories |
| repositories, `APP/data/repositories`, `CORE/utils/coroutine` | lazily loaded copies of the engine's lists | load, touch, clear, optimistic updates | engines |
| engine v1 and migration, `tkcore/storage1`, `tkcore/migrate` | a list of notes with a ring of 20 old passwords | as v2, without otp notes and groups | file |
| salting, schemes, otp, base32: `tkcore/storage2/salt_text`, `tkcore/otpauth` | none | pure functions | engine |
| search for storages, command line, user interface | - | - | engine |

What is hard in this code:

* **crashes and failed writes**: a storage is rewritten as a whole, twice, on every edit; the
  results of most saves are ignored; a move is two saves;
* **shared state between threads**: the error of a file operation is a global variable, two
  storages are saved at once, some methods edit lists that other threads read;
* **renumbering**: ids are handed out anew at each login from one counter that notes, history
  entries, otp notes and generated passwords share, and the callers keep ids;
* **cancellation**: the lock of a file is made of suspension points, and the screens cancel their
  coroutines at any of them;
* **lock order**: a move takes two locks, file moves take them in the opposite order;
* **edits of files that are open**: a change of password or name works on the file beside a session
  that will save its own copy over it;
* **races of the screens**: two load jobs of one list run at once, an edit updates the list before
  and after the engine, and a logout erases what a late call still uses;
* **fixed sizes** (version 1): a password has 48 bytes and a history 20 entries, cut in several
  places by different amounts.

What makes each component correct: ids are unique and fresh, the engine leaves no item in a group that
is gone, no password gets lost by an edit (engine); memory and file agree after each call, a move
loses nothing (native calls); some file holds a whole document at any time (save); many readers or
one writer, and everyone is served (lock); no call is cut off by a logout, no caller waits for
ever (suspended engines, sessions); a screen shows what the engine has (repositories).

## 2. The modules

| module | models | extends / composes |
|---|---|---|
| `KeyStorage2` | `KeyStorageV2`: every edit as an operator from snapshot to snapshot; `ReadAll` and `FileOf` for the file | - |
| `CrypStorageV2` | `JvmStorage2`: one action per native call over a set of storages, each with its file | `KeyStorage2` |
| `SharedStorage` | the calls that edit one object under the *read* lock, by several threads: mutex, copy, installation, write by write | `KeyStorage2` |
| `ChangePassword` | `saveNewPassw`, `saveNewPasswStrategy`, `editStorage` step by step, beside a session on the file | `KeyStorage2` |
| `StorageSave` | `save()`, `readAll`, `createStorage` and `login` at the grain of the writes, with failing writes, deaths, the shared `keyError` and descriptors handed over | takes the step `Installed` of `CrypStorageV2` apart |
| `ReadWriteMutex` | `withReadLock` and `withWriteLock`, one step per suspension point, with cancellation | implements `ReadWriteLock` |
| `ReadWriteLock` | the abstract lock: blocks that run, many readers or one writer | - |
| `EngineLocking` | the locks each call of `CryptStorageSuspended` and `EditStorageSuspended` takes, two for a move | every file's lock implements `ReadWriteLock` |
| `Session` | `LoginInteractor` and `AppAppLifeCycleInteractor`: login, logout, eviction, logout of all, against calls in flight | - |
| `LazyStateFlow` | `lazyStateFlow` and the lists of notes, otp notes and generated passwords that repositories keep with it | - |
| `KeyStorage1` | `KeyStorageV1`, the session of the command line on it, and its migration | result is a storage of `KeyStorage2` |
| `MC*` | symmetry, document sets, cancellation points and other values for TLC | the module they are named after |
| `Coroutines_proofs` | the theorems on `Session`, `LazyStateFlow` and `ReadWriteMutex`, whose names are disjoint for it | these three |
| other `*_proofs` | the theorems of section 5 | the module they are named after; `CrypStorageV2_proofs`, `SharedStorage_proofs` and `ChangePassword_proofs` also extend `KeyStorage2_proofs`, and `KeyStorage1_proofs` instantiates it |

The parts meet at these seams. `CrypStorageV2` takes a native call and a save as one step each:
`StorageSave` is what a save is made of, `SharedStorage` what calls are made of that overlap, and
`EngineLocking` says which calls overlap. `EngineLocking` takes a lock as one with a gate and
readers, `ReadWriteMutex` is what such a lock is made of, and both are shown to implement
`ReadWriteLock`. `Session` has the lifetime of the objects the calls of the other modules use.

### How state and actions correspond to the code

**KeyStorage2.** A snapshot is the record of `key2.h:126`. A method copies the snapshot, edits the
copy and installs it: it is an operator `SetNote(d, ...)` that returns the new snapshot. Flags are
sets (`{"PASSW", "TRACK_HISTORY"}` for `TK2_SET_NOTE_*`). `createNote` pushes a zero-filled entry
and then runs `setNote` on it, and so does `CreateNote`: the fields of the zero-filled entry have
values (`BlankInfo`, `BlankPassw`) outside the types, so that `TypeOK` fails if one survives.
`ReadAll` assigns ids in file order, as the section loop does; `IdAfterNotes` is the counter after
the first n notes, counted as the set of the items read so far, which keeps the module free of
recursion. Text fields are members of a small set `Infos`; encryption is left out where one key
encrypts a whole storage, and is back in `ChangePassword`, where that is not so.

**CrypStorageV2.** `file[s]` is the content of the storage file, `storages[s]` the object in the
map, `now` the clock. Each JNI function is an action: look the object up, edit, save. Ids come from
`AnyId`, so callers use live and stale ids alike. Colour groups come from `AnyGroup`: no call asks
whether the storage has the group, and the screens do not either (an editor saves a choice it
offered some time ago, the menu of a note offers the predefined groups too). `strays` remembers
which groups were named while the storage did not have them, for `GroupsResolved` only.
`save()` is one step with a result from `SaveOutcomes` (`Installed`); most calls drop the result,
and so does the model. A move has one action for the call and one
(`DieInMove...`) for a process that dies between its two saves.

**SharedStorage.** `editMutex` is recursive and free or held; `memory` is `_dataSnapshot`, a record
of pointers. Lists are never changed once installed, with one exception, the counter of a HOTP note,
so `heap` has the lists of otp notes by address and the other lists stand for themselves. An edit
is: take the mutex (or not: `removePasswHistory`), copy, install, free, save. A save takes the
snapshot anew for each of its files, truncates it and writes it cell by cell at its own offset; what
two saves of one file leave is in `main`. `saveRaced` and `codeRaced` remember that two of them
overlapped.

**ChangePassword.** A field is sealed with a key, and opening it with another gives `Garbled`:
nothing in the code checks a password. The file may hold fields under several. `change.next` is the
step a change is at: `saveNewPassw` empties the storage, collects and saves; a change by strategies
collects into a second storage, saves it, unlinks the first and renames. The session is the object
of a login; it saves over the file whatever happened to it. `lossy` names what happened that may
lose a text. A note of the session is created in any group, live or removed.

**StorageSave.** A file is a sequence of whole sections and a flag for a torn one at its end. A
save opens the copy, writes it section by section, stores its result in `keyError`, looks at
`keyError`, and does the same with the main file; then the copy is removed. Every write may fail,
the process may die before any, and other threads set `keyError` (`OtherCall`): to an error when a
lookup fails, and, if `"ok" \in OthersSet`, to success when another storage is saved. `readAll`
accepts a file that ends between two sections; a login on a file without a header creates it anew;
an object whose `readAll` failed has null lists and the next call kills the process. A storage
another app hands over comes as a `descriptor`, which serves one login and is closed with the
object; its saves write over the file in place, and a shorter storage leaves the end of the longer
one (`spoiled`). `before` and `target` remember which documents the last save was between.

**ReadWriteMutex.** `pc` is the suspension point a coroutine is at. `withLock` frees its mutex when
the coroutine is cancelled; the `finally` block of `withReadLock` then runs, and its
`stateLock.withLock` succeeds only if it need not wait (a cancelled coroutine does not wait).
`CancelPoints` says where cancellation happens. A mutex that is free is taken without a look at
cancellation, so only a coroutine that has to wait for one can be cancelled there (`CanThrow`). `Counted` are the readers that incremented the
counter and have not decremented it; a counter above their number has lost a decrement. Listeners
are left out; they add a suspension point inside the state lock, which is why a reader can be
cancelled at `entering`.

**EngineLocking.** A call is the list of its lock requests, outermost first: one for most calls,
two for a move of a note (write the target, read the source) and of a file (read the old path,
write the new one). `gate[f]` is who holds `allowNewReads` of file f: a writer keeps it from the
moment it waits for the readers, so a call that reads cannot pass it.

**Session.** `open` are the objects of the engine, `auth` the list the app shows. The engines of the
two versions keep their objects in maps of their own, and `logoutAll` is called on the engine of
`newStorageVersion()` alone, so `Clear` leaves the objects of `OldStorage` (version 1) where they
are; `kept` remembers them. `login`,
`logouts` and `logoutAll` are coroutines with the suspension points of the code: waiting until the
file was unlocked for a while, the call of the engine, the update of the list. A call is cut
(`early`) when the object it uses is erased although it began before the logout had seen the file
unlocked. The timer runs from the moment the app is left and may be overtaken by the user coming
back.

**LazyStateFlow.** A job is at one of the points of the load block between which other coroutines
run. A restart is three steps: the count (or the argument of `touch`) with the launch, `getAndSet`,
and the cancellation of what was swapped out; a departure is the count, `getAndSet(null)` and the
cancellation. Any of them may cross. The launch is one step with the count before it because a
job that nobody has scheduled yet does nothing. A cancelled job goes on until it enters or leaves a
call of the engine. An editor updates the list first, then
the engine, then touches, in the order of the repositories. `excused` remembers the races that
lose a touch or the job somebody waits for.

**KeyStorage1.** A password is a word and a length; `Salted` is what salting, encryption by whole
blocks and the ring of lengths make of it. A history is an array with a length; a shift moves
`MovedEntries` of it whole, which is the arithmetic of `memmove` with the size of another struct
(16 of 19). Each note also carries what the user set (`given`, `past`), for the properties only.

## 3. The runs

| run | question | result |
|---|---|---|
| `engine_calls` | any calls, logins and logouts on one storage | `TypeOK`, `CountersAhead`, `FileCurrent`, `GroupsResolved` hold |
| `engine_history` | notes edited over time and across logins | `HistoryNewestFirst`, `IdsUnique`, `PasswordsKept` hold |
| `engine_moves` | moves between two storages, death in the middle | `MovesLoseNothing` holds |
| `save_faults` | one storage, any fault, by path or by descriptor | `SaveKeepsACopy`, `NoCopyMeansWhole`, `LoginFindsADocument` hold |
| `shared_storage` | two threads that edit one object under the read lock | `LoneSavesAreCurrent`, `LoneSavesKeepACopy`, `GuardedEditsUndoNothing`, `LoneCodesAdvance`, `CallsReturn` hold |
| `rwmutex_lock` | three coroutines, cancelled anywhere but before `readers++` | the lock implements `ReadWriteLock` (`LockSpec`); `TypeOK`, `LockedWhileUsed`, `OnlyLostDecrementsBlock`, `ReadersServed`, `WritersServed` hold |
| `rwmutex_cancel_waiting` | readers cancelled before `readers++` | `WritersAlone` is **violated**: a writer and a reader run together |
| `locking` | calls on two files, moves in all directions | `TypeOK`, `OnlyMovesInACircleBlock`, `EachFileLocked`, `CallsEnd` hold |
| `change_password` | a storage edited, renamed, re-encrypted under two passwords | `NothingElseLoses`, `NameKept`, `ChangedPasswordOpens`, `GroupsKept` hold |
| `session` | logins, logouts, evictions, the app left, calls in flight | `OnlyLateCallsAreCut`, `ListedMeansOpen`, `LimitKept`, `LeftMeansClosed` hold |
| `lazy_list` | collectors, edits and touches of one list | `OneJobGoesOn`, `SettledListIsCurrent`, `CollectorsServed` hold |
| `version_1` | version 1 edited, given new passwords, migrated | `PasswordsTrue`, `ShortHistoriesKept`, `MigrationKeepsAll` hold |

Some properties hold with an exception that they name: the code does not do all a reader would
expect, and the exception is as small as the checks allow. These are among the `findings` of
PROJECT.json, each with the line of the repository it contradicts:

* `FileCurrent` leaves out HOTP counters: `otpNote` advances one and never saves;
* `LoginFindsADocument` allows a session on a part of a storage, or on an empty one created over the
  rest, while the copy next to it is whole: nothing ever reads the copy;
* `NoCopyMeansWhole` is checked, and proved, without another storage being saved at the same time:
  the result of a write is a global, and the success of one save hides the failure of another;
* `OnlyLostDecrementsBlock`, `ReadersServed` and `WritersServed` except lost decrements: the
  `finally` block of a cancelled reader that would have to wait throws;
* `LoneSavesAreCurrent` and `LoneSavesKeepACopy` except saves that overlap, which the read lock
  allows; `LoneCodesAdvance` two codes at once; `GuardedEditsUndoNothing` is about the edits that
  hold `editMutex`, which `removePasswHistory` does not, and which puts an older list of otp notes
  back: `LoneCodesAdvance` excepts that too (it takes two HOTP notes to see it);
* `GroupsKept` is about groups without a gap in their ids: `saveNewPassw` numbers them anew and
  leaves the notes their old numbers;
* `NothingElseLoses` lists the six ways a change of password loses a text;
* `GroupsResolved` is about the calls themselves: a caller who names a group the storage does not
  have (`strays`) puts the item in there, and after the next login a new group may get that id;
* `SettledListIsCurrent` and `CollectorsServed` except a touch whose argument another job resets or
  uses up, a job cancelled by a restart or a departure that had begun before it, and the other
  races named above the property. The second is the worst: a collector that comes between the count
  and the `getAndSet(null)` of the one that leaves loses its job, and no touch need follow;
* `ListedMeansOpen` and `LeftMeansClosed` except the storages of version 1, which `logoutAll` takes
  from the list and leaves open;
* `OnlyLateCallsAreCut` allows a call that begins after a logout has seen the file unlocked;
* `PasswordsTrue` is about passwords of up to 27 of the 48 announced characters, and about the
  entries of a history its shift moves whole; `ShortHistoriesKept` is about histories that were never full.

`rwmutex_cancel_waiting` is the one run that ends in a violation.

### Bounds

* `IdBound`: ids start at 10, so `IdBound` 12 is two items in a storage (14, in `engine_history`: a
  note with up to three old passwords). Two items of different kinds are enough for a clash of ids,
  for a stale id that names another item after a login, and for renumbering; a file of one note
  with one history entry already separates the right numbering from one that is off by one.
* `GroupIdBound` 12: a group is created, removed, and its id is handed out again after a login. 11
  where the run is not about groups. `AnyGroup` is no group, the first group a storage can have (live,
  not yet created, or removed) and the predefined -203; no group alone where the run is not about groups.
* `CounterBound`, `TimeBound`: one step of a counter or of the clock shows that it moved; histories
  get three different times.
* `SaveOutcomes`: `{TRUE}`, because `FileCurrent`, `PasswordsKept` and `MovesLoseNothing` are about
  saves that succeed. The theorems on ids and groups hold for any `SaveOutcomes`.
* `MCDocuments`: two notes, or a note and an otp note, so that a cut file can look like another
  document and a document can shrink. `OthersSet = {"error"}`: other threads fail lookups.
* `shared_storage`: two threads make three calls in all, so an edit can fall into the middle of
  another and a third can find what they left; to start with a note with a history entry, and either
  a HOTP note and a generated password, or two HOTP notes, so that an older list of them can come back.
* `LostBound` 2: decrements are lost only while `readers <= LostBound`, else the counter would grow
  for ever. The bound stops the loss, not the readers, so it blocks nobody. Three coroutines make two
  readers and a writer, and two writers and a reader.
* `locking`: three calls on two files, with moves between all pairs, a file onto itself included: a
  circle of moves, and a call that waits behind it.
* `change_password`: two texts, two passwords, `EditBound` 2 changes, renamings or removed groups:
  a second change reads what a first one that died has left. The strategies are one for all items,
  or a default one and another.
* `session`: two storages with a limit of one, so each login evicts the other, one of version 2 and
  one of version 1; one call, one logout of a storage and the logout of all at once.
* `lazy_list`: two jobs, the one of a first collector and the one that a second collector or a touch
  launches; two collectors, one that leaves while the other comes; one editor, `EditBound` 1 edit of one
  note, which crosses the load of a collector. The steps between count, swap and cancellation leave
  no room for a second edit; `OneJob` and `ListSettles` are proved for any number of jobs, callers and edits.
* `version_1`: a history of 3 entries of which the shift moves 1 whole stands for 20 and 16;
  passwords of length 16, 27, 28 and 36, on both sides of each limit; `EditBound` 5 edits fill a
  history, overflow it and change the master password.
* Symmetry is used for infos, passwords, notes, texts and storages, which are compared for equality
  only, and never in a run with liveness.
* The deadlock check is off where the system really stops: the engine runs at their bounds, `locking`
  because moves in a circle do deadlock (which is what the property is about), `shared_storage`
  because its calls come to an end, `version_1` because a session whose only file was migrated
  cannot be opened again.

### Fairness

* `ReadWriteMutex`: strong fairness of each coroutine that asks or leaves. kotlinx `Mutex` serves its
  waiters in order of arrival, the dispatchers run every runnable coroutine, and the blocks under
  the lock are finite native calls. Nothing is assumed about coroutines asking for the lock, or
  being cancelled.
* `EngineLocking`: strong fairness of each call in flight. It rests on `ReadersServed` and
  `WritersServed` of the lock, and on native calls that return.
* `SharedStorage`: strong fairness of each thread: `std::recursive_mutex` promises no order, but a
  thread that finds it free again and again gets it, and holders do only finite work.
* `LazyStateFlow`: weak fairness of jobs, of the swap and the cancellation of a restart or a departure
  that has begun, and of editors once they began; nobody has to collect or edit.
* `Session`: weak fairness of coroutines, calls and delays, strong fairness of the waits for an
  unlocked file, which `debounce` turns into waiting for a pause: without pauses a logout never
  comes, and the code has no timeout for it.

## 4. What cannot go wrong, and what can

* Ids are unique and fresh through every login and failed save. This rests on `CountersAhead`
  and on `readAll` numbering notes, histories, passwords and otp notes with one counter.
* The group counter restarts above the greatest group id of the *file*, so an id can be reused.
  `removeColorGroup` clears the id in notes and otp notes, so the engine by itself leaves no item in
  a group that is gone (`GroupsResolved`). But the calls take any group: an editor that was opened
  before the removal puts its note back into the group, and a group created after the next login
  gets the id and, with it, the note.
* A move can duplicate an item (death between the saves) but not lose it, when saves succeed. With
  a failed save of the target it can be lost on disk.
* A single interrupted save leaves a whole document in one of the files. It may be the copy, which
  no code reads, and which the next save overwrites. In single-descriptor mode there is no copy.
* The lock is a read-write lock if no reader is cancelled before it is counted, and it serves
  everyone until a decrement is lost.
* Engine calls deadlock only by moves in a circle; moves that agree on an order of the files never
  do. A note moved within one storage waits for itself.
* Edits that hold `editMutex` undo nothing; the file may be behind them, or a mixture, when two are
  saved at once.
* A change of password that runs to its end beside no session opens everything it was asked to
  move. One that dies, or runs beside a session, may not.
* Storages of version 2 get closed after the app is left; a call that starts late is cut off by it.
  Storages of version 1 leave the list and stay open, keys included, until somebody logs them in
  and out again.
* One job at most goes on loading a list. It may be none: a collector that comes while the last one
  leaves may see its job cancelled, and an old list until the next touch.

## 5. What is proved

Proved by TLAPS for all values of the constants, from the named assumptions of the modules:

| theorem | statement |
|---|---|
| `CrypStorageV2_proofs!TypeCorrect` | `Spec => []TypeOK` |
| `CrypStorageV2_proofs!CountersAheadOfIds` | `Spec => []CountersAhead` |
| `CrypStorageV2_proofs!IdsAreUnique` | `Spec => []IdsUnique` |
| `CrypStorageV2_proofs!GroupsAreResolved` | `Spec => []GroupsResolved` |
| `CrypStorageV2_proofs!HistoriesAreInOrder` | `Spec => []HistoryNewestFirst` |
| `CrypStorageV2_proofs!NoPasswordIsLost` | `Spec => PasswordsKept` |
| `CrypStorageV2_proofs!FileIsCurrent` | `SaveOutcomes \subseteq {TRUE} => (Spec => []FileCurrent)` |
| `CrypStorageV2_proofs!NothingLostInMoves` | `SaveOutcomes \subseteq {TRUE} => (Spec => MovesLoseNothing)` |
| `StorageSave_proofs!SaveIsSafe` | `"ok" \notin OthersSet => (Spec => []SaveKeepsACopy)` |
| `StorageSave_proofs!CopyOrWhole` | `"ok" \notin OthersSet => (Spec => []NoCopyMeansWhole)` |
| `StorageSave_proofs!LoginIsSafe` | `"ok" \notin OthersSet => (Spec => []LoginFindsADocument)` |
| `SharedStorage_proofs!EditsUndoNothing` | `Spec => GuardedEditsUndoNothing` |
| `SharedStorage_proofs!CodesAdvance` | `Spec => LoneCodesAdvance` |
| `SharedStorage_proofs!SavesAreCurrent` | `Spec => []LoneSavesAreCurrent` |
| `SharedStorage_proofs!SavesKeepACopy` | `Spec => []LoneSavesKeepACopy` |
| `ChangePassword_proofs!TextsAreKept` | `Spec => []NothingElseLoses` |
| `ChangePassword_proofs!TheNameIsKept` | `Spec => []NameKept` |
| `ChangePassword_proofs!TheNewPasswordOpens` | `Spec => ChangedPasswordOpens` |
| `ChangePassword_proofs!ItemsKeepTheirGroups` | `Spec => GroupsKept` |
| `KeyStorage1_proofs!PasswordsComeBack` | `Spec => []PasswordsTrue` |
| `KeyStorage1_proofs!HistoriesStayLong` | `Spec => []ShortHistoriesKept` |
| `KeyStorage1_proofs!MigrationIsWhole` | `Spec => []MigrationKeepsAll` |
| `Coroutines_proofs!MutexesHeld` | `CancelledOnceCounted => (Spec => []TypeOK)` |
| `Coroutines_proofs!StateIsLocked` | `CancelledOnceCounted => (Spec => []LockedWhileUsed)` |
| `Coroutines_proofs!IsAReadWriteLock` | `CancelledOnceCounted => (Spec => LockSpec)` |
| `Coroutines_proofs!BlockedByLostDecrements` | `CancelledOnceCounted => (Spec => []OnlyLostDecrementsBlock)` |
| `EngineLocking_proofs!TypeCorrect` | `Spec => []TypeOK` |
| `EngineLocking_proofs!OnlyMovesBlock` | `Spec => []OnlyMovesInACircleBlock` |
| `EngineLocking_proofs!OrderedMovesNeverBlock` | with moves that follow an order of the files, no set of calls ever waits in a circle |
| `EngineLocking_proofs!FilesAreLocked` | `Spec => EachFileLocked` |
| `Coroutines_proofs!OneJob` | `FlowSpec => []OneJobGoesOn` |
| `Coroutines_proofs!ListSettles` | `FlowSpec => []SettledListIsCurrent` |
| `Coroutines_proofs!LateCallsOnly` | `SessionSpec => []OnlyLateCallsAreCut` |
| `Coroutines_proofs!LimitIsKept` | `SessionSpec => []LimitKept` |
| `Coroutines_proofs!ListedAreOpen` | `SessionSpec => []ListedMeansOpen` |

**Ids and groups.** Uniqueness alone is not inductive: a fresh id is new only if the counter is
above all others. `IInv` is type correctness together with `Sound` (no shared ids, ids below the
counters) of every unlocked storage, and `ResolvedBut` of every unlocked storage and every file, which
excuses the groups in `strays`.
`KeyStorage2_proofs` shows for each operator of the engine that it preserves soundness, and which
groups its result may name more or less than before (`Within`, `Freed`);
Its last part shows that `ReadAll` makes any file sound, where the number of the items
before note k has to be related to the ids handed out so far (by induction over a set of naturals,
`SetInduction`), and that reading and writing leave the groups as they are. `CrypStorageV2_proofs`
puts one step per call on top: a call that names a group adds it to `strays` unless the storage
has it (`SavedWithin`), and the file, which a failed save leaves behind, is excused no less than
before (`ResolvedStill`). No assumption is made on `SaveOutcomes`: saves may fail. None on `AnyGroup`
but that groups are integers.

**Histories and passwords.** `HInv` adds that the history of every note, in memory and in a file, is
in order and holds nothing from later than `now`, so that a password pushed now goes in front. An
edit that replaces the password of a note pushes the old one (`EditKept`). Since no two items share
an id, the id of a generated password is in no note's history, and removing old generated passwords
leaves the notes alone (`WithoutOldSound`).

**Memory and file.** What is read from a file and saved again gives the same file
(`ReadAllAndBack`), a successful save installs the sections of the snapshot, and a one-time code
changes counters only, which `FileCurrent` leaves out. With saves that fail the property is false:
the code edits memory first.

**Moves.** What is created in the target shows what it was given (`CreateNoteShows`), erasing in the
source misses only the item moved (`EraseShows`), and the target is saved before the source; so a
death between the two leaves the item twice, never nowhere. Again only when saves succeed.

**Save.** While the copy is written the main file is whole (if it was when the save began); while
the main file is written the copy holds the new document; and a result `ok` in `keyError` means
that the file just written is whole. The last part is what another storage's save breaks, hence
the condition. For `LoginIsSafe`, `ReadBack` computes what the loop of `readAll` makes of the file of
a document, section by section; and `LInv` says which document a file without a copy can hold: the one
before the last save or the one that save was to write, or none before the first save. A file that
is written in place keeps its header, so no login creates it anew.

**Threads on one object.** Only the thread that has `editMutex` may change what it copied:
`IInv` of `SharedStorage_proofs` relates the copy each guarded edit holds to `memory` (`Guards`), the
list a code reads to the one in memory while nobody else takes a code (`Codes`), and, as long as no
two saves overlapped, the cells written so far to the snapshot that is being saved (`Saves`). What is
not saved yet is about to be: some thread between its edit and its save has it (`WillBeSaved`). That
proof brought up an exception the property had missed: `removeHist`, without the mutex, puts back a
list of otp notes from before a code.

**Change of password.** The copies are loops over the lists of the storage, written as recursive
functions; `LoopExists` of `KeyStorage2_proofs` says that such a function exists, and `CopyNoteLoop` to `CopyGroupsLoop` that
each turn of it gives a snapshot. `CollectedIs` describes the file that a list of strategies makes: the
items of every part, opened with its old and sealed with its new password, and nothing else. `IInv` of
`ChangePassword_proofs` (checked by TLC on the instance of `change_password` before it was proved) has
four parts: types (`TypeInv`), where the two files are at each step of a change (`ChangeInv`), where the
texts are (`LossInv`: while nothing was lost they are in the storage, or before its first save in what
was read of it, or in the temporary file, and the strategies cover every item, `Complete`), and which
file has the name (`NameInv`). `CompleteKeeps` is the step in which the copy takes over: a text under a
password the change was told, in an item some strategy lists, is in the file collected. Two assumptions
concern values of the model only: `NothingAssumption` (the values for no file and no change are neither)
and `StrategiesAssumption` (a change is given a list of strategies). `Names` are the names a header can
have in the model.

**Version 1 and migration.** No property of `KeyStorage1` is inductive: the shift of a history moves what
was there before, so the entries it moves must be right already. `IInv` (checked by TLC on the
instance of `version_1` first) says of every note, in memory and in the files of version 1, that the
entries the shift moves whole are what was given (`TrueNote`), that a history is never longer than the
passwords its note has had, and that one shorter was full once (`LongEnough`). `ReadLengthIs` and
`SaltedIs` compute the limit of 27 characters from the sizes of the code. `HistoryAssumption` (the
shift stops before the last entry) and `PasswsAssumption` (a password has a length, and only the empty
one has none) are all it needs. For `MigrationIsWhole`, the storage that is filled has the passwords of
version 1, cut ones and noise included: `V2` takes the lemmas of `KeyStorage2_proofs` for those, so that
each `CreateNote` and `AppendPasswHistory` is known to append one item (`NoteMigrates`,
`GenMigrates`), and `NotesMigrate` and `GensMigrate` run along the two lists.

**Lock.** The counter is at least the number of readers counted: a lost decrement only makes it too
large. While it is positive and the first reader is not still waiting for the writers,
`allowNewWrites` is held by the readers and `state` says so; the last reader still holds it when it
unlocks it. The refinement maps `pc` to the block each coroutine runs; a block begins at
`StartReading` and `StartWriting` and ends where `reading` or `writing` is left. For
`BlockedByLostDecrements` the invariant also says who has locked the writers out.

**Lock order.** What a call waits for and what it holds are related by the shape of its list
(`WellFormed`): a call of one request holds nothing while it waits, so every edge of a circle of
waiting calls is the edge of a move between two files.

**Job and calls.** `OneJobGoesOn` needs that a caller that rests holds no job, and that an editor
finishes one restart before its next (`CallersWait`): then a job that is swapped out is with the one
who will cancel it. `SettledListIsCurrent` rests on `Settling`, which holds between edits while
nothing was lost: the job launched last has read what the engine holds, and either the list is that,
or a forced job is still to load it, or `restartArg` waits for a job that can still take it.
`OnlyLateCallsAreCut` needs that a logout which has seen the file unlocked is
known to each call that began later (`LateKnown`).

**Sessions and the list.** `ListInv` is about the list of storages: it has no storage twice, so that
removing the first entry of a storage removes the storage, and a storage is on the list or not as
the step of each login and logout under way says; a storage of version 1 that `Clear` leaves open is
in `kept` until it is logged in or out again (`LeastIndex`, `RemoveFromList` and `PutFirst` are the
lemmas on lists).

**Induction.** The induction theorems of the library take an operator as parameter, which the provers
cannot instantiate. Where a proof runs along a list (`ReadAll`, `WithoutOld`, the sections of
`StorageSave`), the set of the lengths for which the claim holds is shown to be `Nat` (`SetInduction`,
from well-foundedness), and the model has a recursive function over `0 .. n` for the loop of the code.

**Model-checked only.** Liveness (`ReadersServed`, `WritersServed`, `CallsEnd`, `CallsReturn`,
`CollectorsServed`, `LeftMeansClosed`): the prover has no rules for fairness. And the violation.

## 6. What could come next

In this order: that one uninterrupted save of `StorageSave` is the step `Installed` of `CrypStorageV2`, as
a refinement; `moveStorage` over an existing file in `ChangePassword`, with a second file.

## 7. Not modelled

* Loss of power: `save` never syncs, and what is on the disk afterwards is up to the file system.
* A failing save of the target of a move, and the counter `saveOtpNote` writes back: the models have
  both steps, but no line of the repository says what should hold.
* A storage renamed over another one: only `createStorage` looks whether a file is there.
* One-time passwords, base32, the parsing of otp URIs, password schemes and the twins of a password:
  pure functions over strings, numbers and hashes; a model would repeat them, and the tests of the
  repository check the values. `createOtpNotes(uri)` is called by no part of the app.
* Encryption (OpenSSL) and the layout of fields in the file, beyond what `KeyStorage1` and
  `ChangePassword` need of them. `pin` and the creation time of an otp note are part of `Infos`.
* The calls of the app on version 1 (`JNI/cryp_storage_v1.cpp`): the methods of `KeyStorage1`
  with addresses as ids.
* Search for storage files, the prompts of the command line, screens, navigation, billing, autofill,
  the QR scanner: they keep no state the storages depend on. The lists of storages and of groups use the
  same flow as the lists of `LazyStateFlow`.
* Vendored and generated code. The headers of OpenSSL under `prebuild/openssl/include` alone have
  about 32000 lines, several times those of the engine.
