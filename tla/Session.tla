------------------------------- MODULE Session -------------------------------
(***************************************************************************)
(* The sessions of the app: LoginInteractor logs storages in and out,      *)
(* AppAppLifeCycleInteractor logs all of them out some time after the app  *)
(* was left, and other coroutines call the engine meanwhile.               *)
(*                                                                         *)
(* The engine keeps the objects of the storages that are open; a call      *)
(* holds a bare pointer to one of them.  Logins and logouts call the       *)
(* engine under the READ lock of the file, so they exclude calls that      *)
(* write but not calls that read; that nobody reads is only waited for     *)
(* beforehand.  Engine().logoutAll locks the file of an empty path, which  *)
(* excludes nothing, and it is the engine of new storages that is called:  *)
(* the engine of version 1 keeps its objects in a map of its own.          *)
(***************************************************************************)
EXTENDS Naturals, Sequences, SequencesExt

CONSTANTS
    Storage,        \* storages, each in a file of its own
    OldStorage,     \* those of version 1
    Limit,          \* PAID_AUTHORIZED_STORAGE_LIMITS
    Call,           \* calls of the engine that may run at once
    Logout,         \* logouts of one storage that may run at once
    All,            \* the logout of all storages
    NoStorage       \* no storage

ASSUME SessionAssumption ==
    /\ Limit \in Nat \ {0} /\ OldStorage \subseteq Storage
    /\ NoStorage \notin Storage /\ All \notin Logout

VARIABLES
    open,           \* the storages the engine has an object of
    auth,           \* authorizedStorages, the last login first
    unlimited,      \* UNLIMITED_AUTHORIZED_STORAGES was bought
    login,          \* the login that has the mutex of its scope
    logouts,        \* each logout of one storage
    logoutAll,      \* the logout of all
    calls,          \* each call of the engine
    away,           \* the app was minimized
    timer,          \* the delay of unloginJob runs
    loose,          \* storages whose login failed, or met a logout
    kept,           \* storages a logout of all has left open
    left            \* a login ended when all had been logged out

session == <<open, auth, unlimited, loose, kept>>
app == <<away, timer, left>>
sessionVars == <<session, app, login, logouts, logoutAll, calls>>

NoLogin == [at |-> "idle", of |-> NoStorage, evict |-> <<>>, joins |-> {}]
NoLogout == [at |-> "idle", of |-> NoStorage]
NoLogoutAll == [at |-> "idle", waitsFor |-> {}]
NoCall == [at |-> "idle", of |-> NoStorage, late |-> {}, early |-> FALSE]

SessionInit ==
    /\ open = {} /\ auth = <<>> /\ loose = {} /\ kept = {}
    /\ unlimited \in BOOLEAN
    /\ away = FALSE /\ timer = FALSE /\ left = FALSE
    /\ login = NoLogin /\ logoutAll = NoLogoutAll
    /\ logouts = [u \in Logout |-> NoLogout]
    /\ calls = [c \in Call |-> NoCall]

-----------------------------------------------------------------------------
(* The lock of a file: who holds it *)

Users(s) == {c \in Call : calls[c].of = s}
Written(s) == \E c \in Users(s) : calls[c].at \in {"writes", "write cut"}

Unlocked(s) == Users(s) = {} /\ ~ (login.at = "derives" /\ login.of = s)

-----------------------------------------------------------------------------
(* Calls of the engine *)

\* who waited for the file of s, and saw it unlocked, before this call began
HaveWaited(s) ==
    {u \in Logout : logouts[u].at = "waited" /\ logouts[u].of = s}
      \cup (IF logoutAll.at = "waited" /\ s \in logoutAll.waitsFor
            THEN {All} ELSE {})

BeginCall(c, s, at) ==
    /\ calls[c].at = "idle" /\ s \in open
    /\ calls' = [calls EXCEPT ![c] =
                    [at |-> at, of |-> s, late |-> HaveWaited(s),
                     early |-> FALSE]]
    /\ UNCHANGED <<session, app, login, logouts, logoutAll>>

BeginRead(c, s) == ~ Written(s) /\ BeginCall(c, s, "reads")
BeginWrite(c, s) == Unlocked(s) /\ BeginCall(c, s, "writes")

EndCall(c) ==
    /\ calls[c].at # "idle"
    /\ calls' = [calls EXCEPT ![c] = NoCall]
    /\ UNCHANGED <<session, app, login, logouts, logoutAll>>

\* The objects of some storages are erased, by one who had waited for some
\* of the files: a call that runs on one of the objects goes on with a pointer to
\* nothing.
Erase(gone, who, watched) ==
    /\ open' = open \ gone
    /\ calls' = [c \in Call |->
          IF calls[c].at \in {"reads", "writes"} /\ calls[c].of \in gone
          THEN [calls[c] EXCEPT
                   !.at = IF @ = "reads" THEN "read cut" ELSE "write cut",
                   !.late = {},
                   !.early = calls[c].of \in watched /\ who \notin calls[c].late]
          ELSE calls[c]]

-----------------------------------------------------------------------------
(* login *)

\* Mutant: one storage too many stays.
TooManyByOne(list) == SubSeq(list, Limit + 1, Len(list))

\* filterIndexed { index + 1 >= limit }
TooMany(list) == SubSeq(list, Limit, Len(list))

LoggingIn(s) == login.of = s /\ login.at \in {"derives", "logged in"}
LoggingOut(s) ==
    \/ \E u \in Logout : logouts[u].at = "unlogged" /\ logouts[u].of = s
    \/ logoutAll.at = "cleared"

StartLogin(s) ==
    /\ login.at = "idle" /\ ~ away
    /\ login' = [NoLogin EXCEPT
          !.at = "evicts", !.of = s,
          !.evict = IF unlimited THEN <<>> ELSE TooMany(auth)]
    /\ UNCHANGED <<session, app, logouts, logoutAll, calls>>

\* logout(it), for the storages over the limit, one after the other
Evict(u) ==
    /\ login.at = "evicts" /\ login.joins = {} /\ login.evict # <<>>
    /\ logouts[u].at = "idle"
    /\ logouts' = [logouts EXCEPT ![u] =
                      [at |-> "waits", of |-> Head(login.evict)]]
    /\ login' = [login EXCEPT !.evict = Tail(@), !.joins = {u}]
    /\ UNCHANGED <<session, app, logoutAll, calls>>

\* engine().login: the old object is erased first
EngineLogin ==
    /\ login.at = "evicts" /\ login.evict = <<>> /\ login.joins = {}
    /\ ~ Written(login.of)
    /\ login' = [login EXCEPT !.at = "derives"]
    /\ loose' = loose \ {login.of} /\ kept' = kept \ {login.of}
    /\ Erase({login.of}, NoStorage, {})
    /\ UNCHANGED <<auth, unlimited, app, logouts, logoutAll>>

\* some logout of all has still to come to the engine
WillClear == timer \/ logoutAll.at \in {"starts", "waits", "waited"}

Opened ==
    /\ login.at = "derives"
    /\ login' = [login EXCEPT !.at = "logged in"]
    /\ open' = open \cup {login.of}
    /\ loose' = IF LoggingOut(login.of) THEN loose \cup {login.of} ELSE loose
    /\ left' = (left \/ (away /\ ~ WillClear))
    /\ UNCHANGED <<auth, unlimited, kept, away, timer, logouts, logoutAll, calls>>

\* the file cannot be opened: nobody is told
NotOpened ==
    /\ login.at = "derives"
    /\ login' = [login EXCEPT !.at = "logged in"]
    /\ loose' = loose \cup {login.of}
    /\ UNCHANGED <<open, auth, unlimited, kept, app, logouts, logoutAll, calls>>

\* rep().auth
Authorize ==
    LET s == login.of IN
    /\ login.at = "logged in"
    /\ login' = NoLogin
    /\ auth' = <<s>> \o RemoveFirst(auth, s)
    /\ loose' = IF LoggingOut(s) THEN loose \cup {s} ELSE loose
    /\ UNCHANGED <<open, unlimited, kept, app, logouts, logoutAll, calls>>

LoginStep ==
    (\E u \in Logout : Evict(u)) \/ EngineLogin \/ Opened \/ NotOpened
      \/ Authorize

-----------------------------------------------------------------------------
(* logout *)

StartLogout(u, s) ==
    /\ logouts[u].at = "idle" /\ ~ away
    /\ logouts' = [logouts EXCEPT ![u] = [at |-> "waits", of |-> s]]
    /\ UNCHANGED <<session, app, login, logoutAll, calls>>

\* Mutant: waits until nobody writes.
WaitedForWriters(u) ==
    /\ logouts[u].at = "waits" /\ ~ Written(logouts[u].of)
    /\ logouts' = [logouts EXCEPT ![u].at = "waited"]
    /\ UNCHANGED <<session, app, login, logoutAll, calls>>

\* stateFlow().debounce(100).firstOrNull { UNLOCKED }
Waited(u) ==
    /\ logouts[u].at = "waits" /\ Unlocked(logouts[u].of)
    /\ logouts' = [logouts EXCEPT ![u].at = "waited"]
    /\ UNCHANGED <<session, app, login, logoutAll, calls>>

\* engine().unlogin, under the read lock
Unlogin(u) ==
    LET s == logouts[u].of IN
    /\ logouts[u].at = "waited" /\ ~ Written(s)
    /\ logouts' = [logouts EXCEPT ![u].at = "unlogged"]
    /\ Erase({s}, u, {s}) /\ kept' = kept \ {s}
    /\ loose' = IF LoggingIn(s) THEN loose \cup {s} ELSE loose
    /\ UNCHANGED <<auth, unlimited, app, login, logoutAll>>

\* rep().logout; whoever waits for this logout goes on
Unauthorize(u) ==
    LET s == logouts[u].of IN
    /\ logouts[u].at = "unlogged"
    /\ logouts' = [logouts EXCEPT ![u] = NoLogout]
    /\ auth' = RemoveFirst(auth, s)
    /\ login' = [login EXCEPT !.joins = @ \ {u}]
    /\ loose' = IF LoggingIn(s) THEN loose \cup {s} ELSE loose
    /\ UNCHANGED <<open, unlimited, kept, app, logoutAll, calls>>

LogoutStep(u) == Unlogin(u) \/ Unauthorize(u)

-----------------------------------------------------------------------------
(* The app is left, and comes back; logoutAll *)

Minimize ==
    /\ ~ away
    /\ away' = TRUE /\ timer' = TRUE /\ UNCHANGED left
    /\ UNCHANGED <<session, login, logouts, logoutAll, calls>>

\* cancels the delay, or the join; a logout of all that has begun goes on
ComeBack ==
    /\ away
    /\ away' = FALSE /\ timer' = FALSE /\ left' = FALSE
    /\ UNCHANGED <<session, login, logouts, logoutAll, calls>>

Timeout ==
    /\ timer /\ logoutAll.at = "idle"
    /\ timer' = FALSE
    /\ logoutAll' = [NoLogoutAll EXCEPT !.at = "starts"]
    /\ UNCHANGED <<session, away, left, login, logouts, calls>>

\* the storages to wait for are those authorized now
StartWaiting ==
    /\ logoutAll.at = "starts"
    /\ logoutAll' = [at |-> "waits",
                     waitsFor |-> ToSet(auth)]
    /\ UNCHANGED <<session, app, login, logouts, calls>>

AllWaited ==
    /\ logoutAll.at = "waits"
    /\ \A s \in logoutAll.waitsFor : Unlocked(s)
    /\ logoutAll' = [logoutAll EXCEPT !.at = "waited"]
    /\ UNCHANGED <<session, app, login, logouts, calls>>

\* Mutant: only what was authorized is removed.
ClearAuthorized ==
    /\ logoutAll.at = "waited"
    /\ logoutAll' = [at |-> "cleared", waitsFor |-> {}]
    /\ Erase({s \in open \ OldStorage : Contains(auth, s)}, All,
             logoutAll.waitsFor)
    /\ kept' = kept \cup (open \cap OldStorage)
    /\ loose' = loose \cup {s \in Storage : LoggingIn(s)}
    /\ UNCHANGED <<auth, unlimited, app, login, logouts>>

\* storages.clear(), under the lock of no storage and of the map of version 2
Clear ==
    /\ logoutAll.at = "waited"
    /\ logoutAll' = [at |-> "cleared", waitsFor |-> {}]
    /\ Erase(open \ OldStorage, All, logoutAll.waitsFor)
    /\ kept' = kept \cup (open \cap OldStorage)
    /\ loose' = loose \cup {s \in Storage : LoggingIn(s)}
    /\ UNCHANGED <<auth, unlimited, app, login, logouts>>

\* Mutant: rep().logoutAll is forgotten.
UnauthorizeNone ==
    /\ logoutAll.at = "cleared"
    /\ logoutAll' = NoLogoutAll
    /\ loose' = loose \cup {s \in Storage : LoggingIn(s)}
    /\ UNCHANGED <<auth, open, unlimited, kept, app, login, logouts, calls>>

UnauthorizeAll ==
    /\ logoutAll.at = "cleared"
    /\ logoutAll' = NoLogoutAll
    /\ auth' = <<>>
    /\ loose' = loose \cup {s \in Storage : LoggingIn(s)}
    /\ UNCHANGED <<open, unlimited, kept, app, login, logouts, calls>>

LogoutAllStep == StartWaiting \/ Clear \/ UnauthorizeAll

SessionNext ==
    \/ \E c \in Call :
          \/ EndCall(c)
          \/ \E s \in Storage : BeginRead(c, s) \/ BeginWrite(c, s)
    \/ LoginStep \/ LogoutAllStep \/ AllWaited
    \/ \E s \in Storage :
          StartLogin(s) \/ \E u \in Logout : StartLogout(u, s)
    \/ \E u \in Logout : Waited(u) \/ LogoutStep(u)
    \/ Minimize \/ ComeBack \/ Timeout

SessionSpec == SessionInit /\ [][SessionNext]_sessionVars

\* Coroutines that can go on do, calls end, delays end.  The waits for an
\* unlocked file are strongly fair: between two calls there is a pause, time
\* and again, that is long enough for debounce.
SessionFairness ==
    /\ \A c \in Call : WF_sessionVars(EndCall(c))
    /\ WF_sessionVars(LoginStep) /\ WF_sessionVars(LogoutAllStep)
    /\ WF_sessionVars(Timeout)
    /\ \A u \in Logout :
          WF_sessionVars(LogoutStep(u)) /\ SF_sessionVars(Waited(u))
    /\ SF_sessionVars(AllWaited)

FairSessionSpec == SessionSpec /\ SessionFairness

-----------------------------------------------------------------------------
(* Properties *)

\* "wait no one use the storage": a logout that waited for the file of a
\* storage takes the object only from calls that began after it had seen the
\* file unlocked.  (Also cut, by a design that does not wait for them: calls
\* on a storage that is logged in again, or that logoutAll did not find
\* authorized when it began.)
OnlyLateCallsAreCut == \A c \in Call : ~ calls[c].early

AllEnded ==
    /\ login.at = "idle" /\ logoutAll.at = "idle"
    /\ \A u \in Logout : logouts[u].at = "idle"

\* When no login and no logout is under way, the storages that are open are
\* those the app lists, and those of version 1 that a logout of all took from
\* the list and did not close, unless a login of the storage met a logout of
\* it, or failed.
ListedMeansOpen ==
    AllEnded => \A s \in Storage \ loose :
                 s \in open <=> Contains(auth, s) \/ s \in kept

\* Without the paid feature there are never more storages in the list than
\* the limit, whatever logouts cross the login.
LimitKept == unlimited \/ Len(auth) <= Limit

\* Once the app is left, all storages of version 2 get closed, unless the user
\* comes back or a login ends after all were logged out.  Those of version 1
\* stay open.
LeftMeansClosed == away ~> open \subseteq OldStorage \/ ~ away \/ left
=============================================================================
