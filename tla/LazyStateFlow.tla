---------------------------- MODULE LazyStateFlow ----------------------------
(***************************************************************************)
(* The list of notes a repository shows (NotesRepository, OtpNotes-        *)
(* Repository, GenPasswRepository): a lazyStateFlow that is loaded from    *)
(* the engine for the first collector, and anew whenever it is touched.    *)
(*                                                                         *)
(* A restart launches a job, swaps it in and cancels the one it swapped    *)
(* out; a departure swaps in none.  Counting, swapping and cancelling are  *)
(* steps of their own, and restarts, departures and jobs run on several    *)
(* threads.  A job takes restartArg and resets it.  Without force it       *)
(* leaves a list that is not empty alone.  It learns that it is cancelled  *)
(* only where it enters or leaves a call of the engine.                    *)
(*                                                                         *)
(* Reads of the engine are atomic, by the read-write lock of the file.     *)
(* Ids and fields of notes are left out.                                   *)
(***************************************************************************)
EXTENDS Naturals, FiniteSets

CONSTANTS
    Notes,
    Job,            \* jobs that may be alive at once
    Collectors,     \* those who may collect the list
    Editor,         \* coroutines that edit the storage
    None,           \* no job
    EditBound       \* bound: edits, and times the cache is cleared

ASSUME NoneAssumption == None \notin Job
ASSUME ActorsAssumption == Collectors \cap Editor = {}

VARIABLES
    stored,         \* the notes of the engine
    value,          \* stateFlowMirror: the notes shown
    collecting,     \* who collects
    restartArg,     \* the argument of the next job: force
    job,            \* the last job
    jobs,           \* every job: where it is, what it loads and has read
    caller,         \* where each restart or departure is, and its job
    editor,         \* where each edit is, and the note it is about
    edits,          \* how many bounded calls were made
    newest,         \* the job launched last
    excused         \* since the last touch, the list may be out of date

flow == <<value, collecting, restartArg, job, jobs, caller, newest>>
flowVars == <<flow, stored, editor, edits, excused>>

Callers == Collectors \cup Editor

NoJob == [at |-> "free", force |-> FALSE, titles |-> FALSE, seen |-> {},
          cancelled |-> FALSE]
Resting == [at |-> "idle", job |-> None]
NoEdit == [at |-> "idle", with |-> {}, without |-> {}]

FlowInit ==
    /\ stored \in SUBSET Notes
    /\ value = {} /\ collecting = {} /\ restartArg = FALSE
    /\ job = None /\ jobs = [j \in Job |-> NoJob]
    /\ caller = [c \in Callers |-> Resting]
    /\ editor = [e \in Editor |-> NoEdit]
    /\ newest = None /\ edits = 0 /\ excused = FALSE

-----------------------------------------------------------------------------
(* restart *)

\* jobs not alive, that nobody is about to swap in or to cancel
FreeJobs ==
    {j \in Job : /\ jobs[j].at = "free"
                 /\ j # job /\ \A d \in Callers : caller[d].job # j}

\* scope.launch, where the restart begins: a job that nobody has scheduled
\* does nothing.  Which free name it gets makes no difference.
Launch(c) ==
    /\ FreeJobs # {}
    /\ LET j == CHOOSE k \in FreeJobs : TRUE
       IN  /\ jobs' = [jobs EXCEPT ![j] = [NoJob EXCEPT !.at = "started"]]
           /\ caller' = [caller EXCEPT ![c] = [at |-> "swaps", job |-> j]]
           /\ newest' = j

Alive(j) == j # None /\ jobs[j].at # "free"

\* job.getAndSet
Swap(c) ==
    /\ caller[c].at = "swaps"
    /\ job' = caller[c].job
    /\ caller' = [caller EXCEPT
          ![c] = IF Alive(job) THEN [at |-> "cancels", job |-> job] ELSE Resting]
    /\ UNCHANGED <<value, collecting, restartArg, jobs, newest, stored>>
    /\ UNCHANGED <<editor, edits, excused>>

\* some job that is not cancelled will still read the notes
ForceLeft(j) ==
    \/ restartArg
    \/ \E k \in Job \ {j} :
          /\ jobs[k].force /\ ~ jobs[k].cancelled
          /\ jobs[k].titles \/ jobs[k].at \notin {"read", "has"}

Cancelled(j) ==
    IF Alive(j) THEN [jobs EXCEPT ![j].cancelled = TRUE] ELSE jobs

Excuse(cond) == excused' = (excused \/ cond)

LosesForce(j) == Alive(j) /\ jobs[j].force /\ ~ ForceLeft(j)

\* somebody collects, and no job comes after j
Awaited(j) == Alive(j) /\ j = newest /\ collecting # {}

\* Mutant: the job before is not cancelled.
CancelNone(c) ==
    /\ caller[c].at = "cancels"
    /\ caller' = [caller EXCEPT ![c] = Resting]
    /\ Excuse(Awaited(caller[c].job))
    /\ UNCHANGED <<value, collecting, restartArg, job, jobs, newest, stored>>
    /\ UNCHANGED <<editor, edits>>

\* cancel: what a restart or a departure swapped out may be the job of a
\* restart that began after it
CancelJob(c) ==
    /\ caller[c].at = "cancels"
    /\ jobs' = Cancelled(caller[c].job)
    /\ caller' = [caller EXCEPT ![c] = Resting]
    /\ Excuse(LosesForce(caller[c].job) \/ Awaited(caller[c].job))
    /\ UNCHANGED <<value, collecting, restartArg, job, newest, stored, editor>>
    /\ UNCHANGED edits

CallerStep(c) == Swap(c) \/ CancelJob(c)

-----------------------------------------------------------------------------
(* Collectors *)

\* getAndIncrement: the first one restarts
Collect(c) ==
    /\ c \notin collecting /\ caller[c].at = "idle"
    /\ collecting' = collecting \cup {c}
    /\ IF collecting = {} THEN Launch(c) ELSE UNCHANGED <<jobs, caller, newest>>
    /\ UNCHANGED <<value, restartArg, job, stored, editor, edits>>
    /\ UNCHANGED excused

\* awaitClose, decrementAndGet: the last one swaps in no job
StopCollecting(c) ==
    /\ c \in collecting /\ caller[c].at = "idle"
    /\ collecting' = collecting \ {c}
    /\ caller' = IF collecting # {c} THEN caller
                 ELSE [caller EXCEPT ![c].at = "swaps"]
    /\ UNCHANGED <<value, restartArg, job, jobs, newest, stored, editor, edits>>
    /\ UNCHANGED excused

-----------------------------------------------------------------------------
(* A job *)

GoTo(j, at) == jobs' = [jobs EXCEPT ![j].at = at]
End(j) == jobs' = [jobs EXCEPT ![j] = NoJob]

\* no collectors: the argument is left for the next job
CheckConsumers(j) ==
    /\ jobs[j].at = "started"
    /\ IF jobs[j].cancelled \/ collecting = {} THEN End(j) ELSE GoTo(j, "asks")
    /\ UNCHANGED <<value, collecting, restartArg, job, caller, newest>>
    /\ UNCHANGED <<stored, editor, edits, excused>>

TakeArg(j) ==
    /\ jobs[j].at = "asks"
    /\ jobs' = [jobs EXCEPT ![j].at = "taken", ![j].force = restartArg]
    /\ UNCHANGED <<value, collecting, restartArg, job, caller, newest>>
    /\ UNCHANGED <<stored, editor, edits, excused>>

\* Mutant: the list that is shown is not loaded again.
BeginUnforced(j) ==
    /\ jobs[j].at = "taken"
    /\ restartArg' = FALSE
    /\ IF value # {} THEN End(j)
       ELSE jobs' = [jobs EXCEPT ![j].at = "wants", ![j].titles = TRUE]
    /\ UNCHANGED <<value, collecting, job, caller, newest>>
    /\ UNCHANGED <<stored, editor, edits, excused>>

\* The argument is reset; a touch in between is overwritten, and the argument
\* is used up even by a job that is cancelled by now.  A list that is empty is
\* loaded twice, titles first.
Begin(j) ==
    /\ jobs[j].at = "taken"
    /\ restartArg' = FALSE
    /\ IF value # {} /\ ~ jobs[j].force THEN End(j)
       ELSE jobs' = [jobs EXCEPT ![j].at = "wants", ![j].titles = (value = {})]
    /\ Excuse(IF jobs[j].force THEN jobs[j].cancelled ELSE restartArg)
    /\ UNCHANGED <<value, collecting, job, caller, newest>>
    /\ UNCHANGED <<stored, editor, edits>>

Read(j) ==
    /\ jobs[j].at = "wants"
    /\ IF jobs[j].cancelled THEN End(j)
       ELSE jobs' = [jobs EXCEPT ![j].at = "read", ![j].seen = stored]
    /\ UNCHANGED <<value, collecting, restartArg, job, caller, newest>>
    /\ UNCHANGED <<stored, editor, edits, excused>>

\* back from the engine; the last place where a job learns that it is cancelled
Resume(j) ==
    /\ jobs[j].at = "read"
    /\ IF jobs[j].cancelled THEN End(j) ELSE GoTo(j, "has")
    /\ UNCHANGED <<value, collecting, restartArg, job, caller, newest>>
    /\ UNCHANGED <<stored, editor, edits, excused>>

Assign(j) ==
    /\ jobs[j].at = "has"
    /\ value' = jobs[j].seen
    /\ IF jobs[j].titles
       THEN jobs' = [jobs EXCEPT ![j].at = "wants", ![j].titles = FALSE, ![j].seen = {}]
       ELSE End(j)
    /\ Excuse(j # newest)
    /\ UNCHANGED <<collecting, restartArg, job, caller, newest>>
    /\ UNCHANGED <<stored, editor, edits>>

JobStep(j) ==
    \/ CheckConsumers(j) \/ TakeArg(j) \/ Begin(j) \/ Read(j)
    \/ Resume(j) \/ Assign(j)

-----------------------------------------------------------------------------
(* Edits: the list is updated at once, then the engine, then it is touched *)

CountEdit == edits < EditBound /\ edits' = edits + 1

FastUpdate(e, with, without) ==
    /\ editor[e].at = "idle" /\ caller[e].at = "idle" /\ CountEdit
    /\ value' = (value \cup with) \ without
    /\ editor' = [editor EXCEPT ![e] =
                     [at |-> "update", with |-> with, without |-> without]]
    /\ UNCHANGED <<collecting, restartArg, job, jobs, caller, newest>>
    /\ UNCHANGED <<stored, excused>>

EditStorage(e) ==
    /\ editor[e].at = "update"
    /\ stored' = (stored \cup editor[e].with) \ editor[e].without
    /\ editor' = [editor EXCEPT ![e] = [NoEdit EXCEPT !.at = "touch"]]
    /\ UNCHANGED <<flow, edits, excused>>

\* Mutant: touched without an argument.
TouchUnforced(e) ==
    /\ editor[e].at = "touch"
    /\ Launch(e)
    /\ editor' = [editor EXCEPT ![e] = NoEdit]
    /\ excused' = FALSE
    /\ UNCHANGED <<value, collecting, restartArg, job, stored, edits>>

\* touch(true): what was lost before is made good
Touch(e) ==
    /\ editor[e].at = "touch"
    /\ restartArg' = TRUE
    /\ Launch(e)
    /\ editor' = [editor EXCEPT ![e] = NoEdit]
    /\ excused' = FALSE
    /\ UNCHANGED <<value, collecting, job, stored, edits>>

\* An otp note moved in from another storage, a password generated by
\* lastGeneratedPassw: nobody touches the list.
EditUntouched(note) ==
    /\ CountEdit
    /\ stored' = stored \cup {note}
    /\ Excuse(TRUE)
    /\ UNCHANGED <<flow, editor>>

\* clearCache, launched by a login or a logout that does not wait for it
ClearCache ==
    /\ CountEdit
    /\ value' = {}
    /\ Excuse(TRUE)
    /\ UNCHANGED <<collecting, restartArg, job, jobs, caller, newest>>
    /\ UNCHANGED <<stored, editor>>

EditorStep(e) == EditStorage(e) \/ Touch(e)

FlowNext ==
    \/ \E c \in Collectors : Collect(c) \/ StopCollecting(c)
    \/ \E c \in Callers : CallerStep(c)
    \/ \E j \in Job : JobStep(j)
    \/ \E e \in Editor :
          \/ EditorStep(e)
          \/ \E n \in Notes : FastUpdate(e, {n}, {}) \/ FastUpdate(e, {}, {n})
    \/ \E n \in Notes : EditUntouched(n)
    \/ ClearCache

FlowSpec == FlowInit /\ [][FlowNext]_flowVars

\* coroutines that can go on do
FlowFairness ==
    /\ \A j \in Job : WF_flowVars(JobStep(j))
    /\ \A c \in Callers : WF_flowVars(CallerStep(c))
    /\ \A e \in Editor : WF_flowVars(EditorStep(e))

FairFlowSpec == FlowSpec /\ FlowFairness

-----------------------------------------------------------------------------
(* Properties *)

JobPoints == {"free", "started", "asks", "taken", "wants", "read", "has"}

\* Every variable has its type.
FlowTypes ==
    /\ stored \subseteq Notes /\ value \subseteq Notes
    /\ collecting \subseteq Collectors /\ restartArg \in BOOLEAN
    /\ job \in Job \cup {None} /\ newest \in Job \cup {None}
    /\ jobs \in [Job -> [at : JobPoints, force : BOOLEAN, titles : BOOLEAN,
                         seen : SUBSET Notes, cancelled : BOOLEAN]]
    /\ caller \in [Callers -> [at : {"idle", "swaps", "cancels"},
                               job : Job \cup {None}]]
    /\ editor \in [Editor -> [at : {"idle", "update", "touch"},
                              with : SUBSET Notes, without : SUBSET Notes]]
    /\ edits \in Nat /\ excused \in BOOLEAN

\* Whatever restarts and departures cross, one job at most goes on: any
\* other is cancelled, or somebody is about to swap it in, or to cancel it.  A
\* job that getAndSet never saw would read, and assign, for ever after.
OneJobGoesOn ==
    \A j \in Job :
        Alive(j) /\ ~ jobs[j].cancelled =>
            j = job \/ \E c \in Callers : caller[c].job = j

Quiet ==
    /\ \A j \in Job : ~ Alive(j)
    /\ \A c \in Callers : caller[c].at = "idle"
    /\ \A e \in Editor : editor[e].at = "idle"

\* When nothing runs, the list that somebody collects is the list of the
\* engine: the touch of the last edit outlives the reads it crosses.  Unless,
\* since then, the force was lost with a job that was cancelled, or reset by
\* the job before; the job that somebody waits for was cancelled by a restart
\* or a departure that had begun before; a job assigned after a newer one was
\* launched; or the notes were edited, or the cache cleared, without a touch.
SettledListIsCurrent ==
    Quiet /\ collecting # {} /\ ~ excused => value = stored

\* As long as somebody collects, the list of the engine gets shown, or one of
\* these things happens.
CollectorsServed ==
    collecting # {} ~> collecting = {} \/ excused \/ value = stored
=============================================================================
