-------------------------- MODULE Coroutines_proofs --------------------------
(***************************************************************************)
(* What the coroutines of the app keep, whatever their number and however  *)
(* their steps interleave: Session, LazyStateFlow and ReadWriteMutex, one  *)
(* after the other.                                                        *)
(***************************************************************************)
EXTENDS Session, LazyStateFlow, ReadWriteMutex, SequenceTheorems,
        FiniteSetTheorems, WellFoundedInduction, TLAPS

-----------------------------------------------------------------------------
(***************************************************************************)
(* Session: whatever storages, calls and logouts there are, a logout that  *)
(* waited for the file of a storage takes its object only from late calls; *)
(* when nobody is logging in or out, the listed storages are the open      *)
(* ones and those of version 1 that a logout of all kept, but for the ones *)
(* a login left loose; the list never holds more than the limit.           *)
(***************************************************************************)

Calls == [at : {"idle", "reads", "writes", "read cut", "write cut"},
          of : Storage \cup {NoStorage}, late : SUBSET (Logout \cup {All}),
          early : BOOLEAN]

\* f gives every logout a place and a storage
Logouts(f) ==
    f = [u \in Logout |-> [at |-> f[u].at, of |-> f[u].of]]

Types == calls \in [Call -> Calls] /\ Logouts(logouts)

Runs(c) == calls[c].at \in {"reads", "writes"}

\* Of the storage of a call that runs, whoever has waited had done so
\* before the call began.
LateKnown ==
    \A c \in Call : Runs(c) =>
        /\ calls[c].of \in Storage
        /\ \A u \in Logout :
              logouts[u].at = "waited" /\ logouts[u].of = calls[c].of
                  => u \in calls[c].late
        /\ logoutAll.at = "waited" /\ calls[c].of \in logoutAll.waitsFor
              => All \in calls[c].late

SessionInv == Types /\ LateKnown /\ OnlyLateCallsAreCut

\* A call that was cut runs no more; the others go on as they were.
LEMMA EraseCuts ==
  ASSUME Types, NEW gone, NEW who, NEW watched,
         Erase(gone, who, watched), OnlyLateCallsAreCut,
         \A c \in Call : Runs(c) /\ calls[c].of \in gone
                           /\ calls[c].of \in watched => who \in calls[c].late
  PROVE  /\ calls' \in [Call -> Calls]
         /\ \A c \in Call : Runs(c)' => Runs(c) /\ calls'[c] = calls[c]
         /\ OnlyLateCallsAreCut'
  <1>1. ASSUME NEW c \in Call
        PROVE  /\ calls'[c] \in Calls
               /\ Runs(c)' => Runs(c) /\ calls'[c] = calls[c]
               /\ ~ calls'[c].early
    <2>1. calls[c] \in Calls /\ ~ calls[c].early
      BY DEF Types, OnlyLateCallsAreCut
    <2>2. CASE Runs(c) /\ calls[c].of \in gone
      <3>1. ~ (calls[c].of \in watched /\ who \notin calls[c].late)
        BY <2>2
      <3>2. calls'[c] = [calls[c] EXCEPT
               !.at = IF calls[c].at = "reads" THEN "read cut" ELSE "write cut",
               !.late = {},
               !.early = calls[c].of \in watched /\ who \notin calls[c].late]
        BY <2>2 DEF Erase, Runs
      <3>3. PICK end \in {"read cut", "write cut"} :
               calls'[c] = [calls[c] EXCEPT !.at = end, !.late = {},
                                            !.early = FALSE]
        BY <3>1, <3>2
      <3>5. calls'[c].at \notin {"reads", "writes"} /\ ~ calls'[c].early
        BY <2>1, <3>3 DEF Calls
      <3>6. calls'[c] \in Calls
        BY <2>1, <3>3 DEF Calls
      <3> QED  BY <3>5, <3>6 DEF Runs
    <2>3. CASE ~ (Runs(c) /\ calls[c].of \in gone)
      <3>1. calls'[c] = calls[c]  BY <2>3 DEF Erase, Runs
      <3> QED  BY <2>1, <3>1 DEF Runs
    <2> QED  BY <2>2, <2>3
  <1>2. calls' = [c \in Call |-> calls'[c]]  BY DEF Erase
  <1> QED  BY <1>1, <1>2 DEF OnlyLateCallsAreCut

\* Nobody who starts or goes on to anything but the wait comes to have waited.
LEMMA NobodyMoreWaited ==
  ASSUME SessionInv,
         \A c \in Call : Runs(c)' => Runs(c) /\ calls'[c] = calls[c],
         \A u \in Logout : logouts'[u].at = "waited" => logouts'[u] = logouts[u],
         logoutAll'.at = "waited" => logoutAll' = logoutAll
  PROVE  LateKnown'
  BY DEF SessionInv, LateKnown

LEMMA NextLate == SessionInv /\ [SessionNext]_sessionVars => SessionInv'
  <1> SUFFICES ASSUME SessionInv, [SessionNext]_sessionVars PROVE SessionInv'
    OBVIOUS
  <1> USE DEF SessionInv
  <1>1. ASSUME NEW c \in Call, NEW s \in Storage,
               BeginRead(c, s) \/ BeginWrite(c, s)
        PROVE  SessionInv'
    <2>1. PICK at \in {"reads", "writes"} : BeginCall(c, s, at)
      BY <1>1 DEF BeginRead, BeginWrite
    <2>2. HaveWaited(s) \in SUBSET (Logout \cup {All})
      BY DEF HaveWaited
    <2>3. /\ calls' = [calls EXCEPT ![c] = [at |-> at, of |-> s,
                              late |-> HaveWaited(s), early |-> FALSE]]
          /\ logouts' = logouts /\ logoutAll' = logoutAll
      BY <2>1 DEF BeginCall
    <2>4. Types'  BY <2>2, <2>3 DEF Types, Calls
    <2>5. LateKnown'
      <3> SUFFICES ASSUME NEW d \in Call, Runs(d)'
                   PROVE  /\ calls'[d].of \in Storage
                          /\ \A u \in Logout :
                                logouts[u].at = "waited"
                                  /\ logouts[u].of = calls'[d].of
                                  => u \in calls'[d].late
                          /\ logoutAll.at = "waited"
                               /\ calls'[d].of \in logoutAll.waitsFor
                               => All \in calls'[d].late
        BY <2>3 DEF LateKnown
      <3>1. CASE d = c
        <4>1. calls'[d] = [at |-> at, of |-> s, late |-> HaveWaited(s),
                           early |-> FALSE]
          BY <2>3, <3>1 DEF Types
        <4> QED  BY <4>1 DEF HaveWaited
      <3>2. CASE d # c
        BY <2>3, <3>2 DEF LateKnown, Runs, Types
      <3> QED  BY <3>1, <3>2
    <2>6. OnlyLateCallsAreCut'
      BY <2>3 DEF OnlyLateCallsAreCut, Types
    <2> QED  BY <2>4, <2>5, <2>6
  <1>2. ASSUME NEW c \in Call, EndCall(c) PROVE SessionInv'
    <2>1. /\ calls' = [calls EXCEPT ![c] = NoCall]
          /\ logouts' = logouts /\ logoutAll' = logoutAll
      BY <1>2 DEF EndCall
    <2>2. NoCall \in Calls  BY DEF NoCall, Calls
    <2>3. Types'  BY <2>1, <2>2 DEF Types
    <2>4. \A d \in Call : Runs(d)' => Runs(d) /\ calls'[d] = calls[d]
      BY <2>1 DEF Runs, NoCall, Types
    <2>5. OnlyLateCallsAreCut'
      BY <2>1 DEF OnlyLateCallsAreCut, NoCall, Types
    <2> QED  BY <2>1, <2>3, <2>4, <2>5, NobodyMoreWaited
  <1>3. CASE EngineLogin
    <2>1. /\ Erase({login.of}, NoStorage, {})
          /\ logouts' = logouts /\ logoutAll' = logoutAll
      BY <1>3 DEF EngineLogin
    <2>2. /\ calls' \in [Call -> Calls]
          /\ \A c \in Call : Runs(c)' => Runs(c) /\ calls'[c] = calls[c]
          /\ OnlyLateCallsAreCut'
      BY <2>1, EraseCuts
    <2> QED  BY <2>1, <2>2, NobodyMoreWaited DEF Types
  <1>4. ASSUME NEW u \in Logout, Unlogin(u) PROVE SessionInv'
    <2>1. /\ logouts[u].at = "waited"
          /\ logouts' = [logouts EXCEPT ![u].at = "unlogged"]
          /\ Erase({logouts[u].of}, u, {logouts[u].of})
          /\ logoutAll' = logoutAll
      BY <1>4 DEF Unlogin
    <2>2. \A c \in Call : Runs(c) /\ calls[c].of \in {logouts[u].of}
                          => u \in calls[c].late
      BY <2>1 DEF LateKnown
    <2>3. /\ calls' \in [Call -> Calls]
          /\ \A c \in Call : Runs(c)' => Runs(c) /\ calls'[c] = calls[c]
          /\ OnlyLateCallsAreCut'
      BY <2>1, <2>2, EraseCuts
    <2>4. /\ Logouts(logouts')
          /\ \A v \in Logout : logouts'[v].at = "waited"
                                 => logouts'[v] = logouts[v]
      BY <2>1 DEF Types, Logouts
    <2> QED  BY <2>1, <2>3, <2>4, NobodyMoreWaited DEF Types
  <1>5. CASE Clear
    <2>1. /\ logoutAll.at = "waited"
          /\ logoutAll' = [at |-> "cleared", waitsFor |-> {}]
          /\ Erase(open \ OldStorage, All, logoutAll.waitsFor)
          /\ logouts' = logouts
      BY <1>5 DEF Clear
    <2>2. \A c \in Call : Runs(c) /\ calls[c].of \in logoutAll.waitsFor
                          => All \in calls[c].late
      BY <2>1 DEF LateKnown
    <2>3. /\ calls' \in [Call -> Calls]
          /\ \A c \in Call : Runs(c)' => Runs(c) /\ calls'[c] = calls[c]
          /\ OnlyLateCallsAreCut'
      BY <2>1, <2>2, EraseCuts
    <2>4. logoutAll'.at # "waited"  BY <2>1
    <2> QED  BY <2>1, <2>3, <2>4, NobodyMoreWaited DEF Types
  <1>6. ASSUME NEW u \in Logout, Waited(u) PROVE SessionInv'
    <2>1. /\ logouts[u].at = "waits"
          /\ \A c \in Call : calls[c].of # logouts[u].of
          /\ logouts' = [logouts EXCEPT ![u].at = "waited"]
          /\ calls' = calls /\ logoutAll' = logoutAll
      BY <1>6 DEF Waited, Unlocked, Users
    <2>2. Types'  BY <2>1 DEF Types, Logouts
    <2>3. \A v \in Logout : /\ logouts'[v].of = logouts[v].of
                            /\ v # u => logouts'[v].at = logouts[v].at
      BY <2>1 DEF Types, Logouts
    <2>4. LateKnown'  BY <2>1, <2>3 DEF LateKnown, Runs
    <2> QED  BY <2>1, <2>2, <2>4 DEF OnlyLateCallsAreCut
  <1>7. CASE AllWaited
    <2>1. /\ \A c \in Call : calls[c].of \notin logoutAll.waitsFor
          /\ logoutAll' = [logoutAll EXCEPT !.at = "waited"]
          /\ calls' = calls /\ logouts' = logouts
      BY <1>7 DEF AllWaited, Unlocked, Users
    <2>2. logoutAll'.waitsFor = logoutAll.waitsFor
      BY <2>1
    <2>3. LateKnown'  BY <2>1, <2>2 DEF LateKnown, Runs
    <2> QED  BY <2>1, <2>3 DEF OnlyLateCallsAreCut, Types
  <1>8. ASSUME calls' = calls,
               Logouts(logouts'),
               \A u \in Logout : logouts'[u].at = "waited"
                                   => logouts'[u] = logouts[u],
               logoutAll'.at = "waited" => logoutAll' = logoutAll
        PROVE  SessionInv'
    <2>1. \A c \in Call : Runs(c)' => Runs(c) /\ calls'[c] = calls[c]
      BY <1>8 DEF Runs
    <2> QED  BY <1>8, <2>1, NobodyMoreWaited DEF Types, OnlyLateCallsAreCut
  <1>9. ASSUME NEW u \in Logout, Evict(u) PROVE SessionInv'
    <2>1. logouts' = [logouts EXCEPT ![u] =
                         [at |-> "waits", of |-> Head(login.evict)]]
          /\ calls' = calls /\ logoutAll' = logoutAll
      BY <1>9 DEF Evict
    <2>2. /\ Logouts(logouts')
          /\ \A v \in Logout : logouts'[v].at = "waited"
                                 => logouts'[v] = logouts[v]
      BY <2>1 DEF Types, Logouts
    <2> QED  BY <2>1, <2>2, <1>8
  <1>10. ASSUME NEW u \in Logout, NEW s \in Storage, StartLogout(u, s)
         PROVE  SessionInv'
    <2>1. logouts' = [logouts EXCEPT ![u] = [at |-> "waits", of |-> s]]
          /\ calls' = calls /\ logoutAll' = logoutAll
      BY <1>10 DEF StartLogout
    <2>2. /\ Logouts(logouts')
          /\ \A v \in Logout : logouts'[v].at = "waited"
                                 => logouts'[v] = logouts[v]
      BY <2>1 DEF Types, Logouts
    <2> QED  BY <2>1, <2>2, <1>8
  <1>11. ASSUME NEW u \in Logout, Unauthorize(u) PROVE SessionInv'
    <2>1. logouts' = [logouts EXCEPT ![u] = NoLogout]
          /\ calls' = calls /\ logoutAll' = logoutAll
      BY <1>11 DEF Unauthorize
    <2>2. /\ Logouts(logouts')
          /\ \A v \in Logout : logouts'[v].at = "waited"
                                 => logouts'[v] = logouts[v]
      BY <2>1 DEF Types, Logouts, NoLogout
    <2> QED  BY <2>1, <2>2, <1>8
  <1>12. CASE StartWaiting \/ UnauthorizeAll \/ Timeout
    <2>1. calls' = calls /\ logouts' = logouts /\ logoutAll'.at # "waited"
      BY <1>12 DEF StartWaiting, UnauthorizeAll, Timeout, NoLogoutAll
    <2> QED  BY <2>1, <1>8 DEF Types
  <1>13. CASE UNCHANGED <<calls, logouts, logoutAll>>
    BY <1>13, <1>8 DEF Types
  <1>14. CASE Opened \/ NotOpened \/ Authorize \/ Minimize \/ ComeBack
                \/ (\E s \in Storage : StartLogin(s))
    BY <1>14, <1>13
    DEF Opened, NotOpened, Authorize, Minimize, ComeBack, StartLogin
  <1> QED
    BY <1>1, <1>2, <1>3, <1>4, <1>5, <1>6, <1>7, <1>9, <1>10, <1>11, <1>12,
       <1>13, <1>14
    DEF SessionNext, LoginStep, LogoutAllStep, LogoutStep, sessionVars

\* "wait no one use the storage": of the calls on a storage that a logout
\* has waited for, only those that began after the wait lose the object.
THEOREM LateCallsOnly == SessionSpec => []OnlyLateCallsAreCut
  <1>1. SessionInit => SessionInv
    BY DEF SessionInit, SessionInv, Types, LateKnown, OnlyLateCallsAreCut, Calls, Logouts,
           Runs, NoCall, NoLogout
  <1>2. SessionInv => OnlyLateCallsAreCut  BY DEF SessionInv
  <1> QED  BY <1>1, <1>2, NextLate, PTL DEF SessionSpec

-----------------------------------------------------------------------------
(* The list of authorized storages *)

\* the list of a set: nothing is in it twice
Once(list) == \A i, j \in DOMAIN list : list[i] = list[j] => i = j

LEMMA LeastIndex ==
  ASSUME NEW I \in SUBSET Nat, I # {}
  PROVE  Min(I) \in I
  <1>1. PICK m \in I : \A y \in I : ~ (<<y, m>> \in OpToRel(<, Nat))
    BY NatLessThanWellFounded, WFMin
  <1>2. ASSUME NEW y \in I
        PROVE  m <= y
    <2>1. ASSUME y < m PROVE FALSE
      <3>1. <<y, m>> \in OpToRel(<, Nat)  BY <2>1 DEF OpToRel
      <3> QED  BY <1>1, <3>1
    <2> QED  BY <2>1
  <1> QED  BY <1>2 DEF Min

\* Removing a storage from the list takes it out, and no other.
LEMMA RemoveFromList ==
  ASSUME NEW list \in Seq(Storage), Once(list), NEW s
  PROVE  /\ RemoveFirst(list, s) \in Seq(Storage)
         /\ Once(RemoveFirst(list, s))
         /\ \A x : Contains(RemoveFirst(list, s), x)
                      <=> Contains(list, x) /\ x # s
         /\ ~ Contains(list, s) => RemoveFirst(list, s) = list
         /\ Contains(list, s) => Len(RemoveFirst(list, s)) = Len(list) - 1
  <1> DEFINE I == {i \in 1 .. Len(list) : list[i] = s}
             r == RemoveFirst(list, s)
  <1>0. Len(list) \in Nat /\ DOMAIN list = 1 .. Len(list)
    OBVIOUS
  <1>1. CASE I = {}
    <2>1. ~ Contains(list, s)  BY <1>1 DEF Contains
    <2>2. r = list  BY <1>1 DEF RemoveFirst
    <2> QED  BY <2>1, <2>2
  <1>2. CASE I # {}
    <2> DEFINE k == Min(I)
    <2>0. I \in SUBSET Nat  BY <1>0
    <2>1. k \in 1 .. Len(list) /\ list[k] = s
      <3> HIDE DEF I
      <3>1. k \in I  BY <1>2, <2>0, LeastIndex
      <3> QED  BY <3>1 DEF I
    <2>2. r = SubSeq(list, 1, k - 1) \o SubSeq(list, k + 1, Len(list))
      BY <1>2 DEF RemoveFirst, SelectInSeq, RemoveAt
    <2> HIDE DEF k, r, I
    <2> DEFINE a == SubSeq(list, 1, k - 1)
               b == SubSeq(list, k + 1, Len(list))
    <2>3. /\ a \in Seq(Storage) /\ Len(a) = k - 1
          /\ \A i \in 1 .. k - 1 : a[i] = list[i]
      BY <2>1
    <2>4. /\ b \in Seq(Storage) /\ Len(b) = Len(list) - k
          /\ \A i \in 1 .. Len(list) - k : b[i] = list[k + i]
      BY <2>1
    <2>5. r = a \o b  BY <2>2
    <2> HIDE DEF a, b
    <2>12. /\ a \o b \in Seq(Storage)
           /\ Len(a \o b) = Len(a) + Len(b)
           /\ \A i \in 1 .. Len(a) + Len(b) :
                 (a \o b)[i] = IF i <= Len(a) THEN a[i] ELSE b[i - Len(a)]
      BY <2>3, <2>4, ConcatProperties
    <2>6. r \in Seq(Storage) /\ Len(r) = Len(list) - 1
      BY <1>0, <2>1, <2>3, <2>4, <2>5, <2>12
    <2>7. \A i \in 1 .. Len(list) - 1 :
             r[i] = list[IF i < k THEN i ELSE i + 1]
      <3> SUFFICES ASSUME NEW i \in 1 .. Len(list) - 1
                   PROVE  r[i] = list[IF i < k THEN i ELSE i + 1]
        OBVIOUS
      <3>1. CASE i < k
        BY <1>0, <2>1, <2>3, <2>4, <2>5, <2>12, <3>1
      <3>2. CASE ~ (i < k)
        <4>1. i - (k - 1) \in 1 .. Len(list) - k /\ k + (i - (k - 1)) = i + 1
          BY <1>0, <2>1, <3>2
        <4>2. r[i] = b[i - (k - 1)]
          BY <1>0, <2>1, <2>3, <2>4, <2>5, <2>12, <3>2
        <4>3. b[i - (k - 1)] = list[i + 1]
          BY <2>4, <4>1
        <4> QED  BY <3>2, <4>2, <4>3
      <3> QED  BY <3>1, <3>2
    <2>8. Once(r)
      <3>1. DOMAIN r = 1 .. Len(list) - 1  BY <2>6
      <3> QED  BY <1>0, <2>1, <2>7, <3>1 DEF Once
    <2>9. ASSUME NEW x, Contains(r, x)
          PROVE  Contains(list, x) /\ x # s
      <3>1. PICK i \in 1 .. Len(list) - 1 : r[i] = x
        BY <2>6, <2>9 DEF Contains
      <3>2. PICK j \in 1 .. Len(list) : j # k /\ list[j] = x
        BY <1>0, <2>1, <2>7, <3>1
      <3> QED  BY <1>0, <2>1, <3>2 DEF Contains, Once
    <2>10. ASSUME NEW x, Contains(list, x), x # s
           PROVE  Contains(r, x)
      <3>1. PICK j \in 1 .. Len(list) : list[j] = x
        BY <2>10 DEF Contains
      <3>2. j # k  BY <2>1, <2>10, <3>1
      <3>3. CASE j < k
        <4>1. j \in 1 .. Len(list) - 1 /\ r[j] = x
          BY <1>0, <2>1, <2>7, <3>1, <3>3
        <4> QED  BY <2>6, <4>1 DEF Contains
      <3>4. CASE j > k
        <4>1. j - 1 \in 1 .. Len(list) - 1 /\ ~ (j - 1 < k)
              /\ (j - 1) + 1 = j
          BY <1>0, <2>1, <3>4
        <4>2. r[j - 1] = x  BY <2>7, <3>1, <4>1
        <4> QED  BY <2>6, <4>1, <4>2 DEF Contains
      <3> QED  BY <1>0, <2>1, <3>2, <3>3, <3>4
    <2>11. Contains(list, s)  BY <1>0, <2>1 DEF Contains
    <2> QED  BY <2>6, <2>8, <2>9, <2>10, <2>11 DEF r
  <1> QED  BY <1>1, <1>2

LEMMA PutFirst ==
  ASSUME NEW list \in Seq(Storage), Once(list), NEW s \in Storage
  PROVE  LET new == <<s>> \o RemoveFirst(list, s)
         IN  /\ new \in Seq(Storage) /\ Once(new)
             /\ \A x : Contains(new, x) <=> Contains(list, x) \/ x = s
             /\ Len(new) <= Len(list) + 1
  <1> DEFINE r == RemoveFirst(list, s)
             new == <<s>> \o r
  <1>1. /\ r \in Seq(Storage) /\ Once(r)
        /\ \A x : Contains(r, x) <=> Contains(list, x) /\ x # s
        /\ Len(r) <= Len(list)
    BY RemoveFromList
  <1> HIDE DEF r
  <1>2. /\ new \in Seq(Storage) /\ Len(new) = Len(r) + 1
        /\ DOMAIN new = 1 .. Len(r) + 1 /\ DOMAIN r = 1 .. Len(r)
        /\ Len(r) \in Nat /\ Len(list) \in Nat
        /\ new[1] = s
        /\ \A i \in 2 .. Len(r) + 1 : new[i] = r[i - 1]
    BY <1>1
  <1> HIDE DEF new
  <1>3. \A i \in 1 .. Len(r) : r[i] # s
    BY <1>1 DEF Contains
  <1>4. ASSUME NEW i \in DOMAIN new, NEW j \in DOMAIN new, new[i] = new[j]
        PROVE  i = j
    <2>1. \A n \in DOMAIN new \ {1} :
             n - 1 \in DOMAIN r /\ new[n] = r[n - 1] /\ new[n] # s
      BY <1>2, <1>3
    <2>2. CASE i = 1 \/ j = 1
      BY <1>2, <1>4, <2>1, <2>2
    <2>3. CASE i # 1 /\ j # 1
      <3>1. i - 1 = j - 1
        BY <1>1, <1>4, <2>1, <2>3 DEF Once
      <3> QED  BY <1>2, <3>1
    <2> QED  BY <2>2, <2>3
  <1>5. ASSUME NEW x
        PROVE  Contains(new, x) <=> Contains(r, x) \/ x = s
    <2>1. ASSUME Contains(new, x), x # s
          PROVE  Contains(r, x)
      <3>1. PICK i \in 1 .. Len(r) + 1 : new[i] = x
        BY <1>2, <2>1 DEF Contains
      <3>2. i # 1  BY <1>2, <2>1, <3>1
      <3>3. i - 1 \in 1 .. Len(r) /\ r[i - 1] = x
        BY <1>2, <3>1, <3>2
      <3> QED  BY <3>3 DEF Contains
    <2>2. ASSUME Contains(r, x)
          PROVE  Contains(new, x)
      <3>1. PICK i \in 1 .. Len(r) : r[i] = x  BY <2>2 DEF Contains
      <3>2. i + 1 \in 1 .. Len(new) /\ new[i + 1] = x
        BY <1>2, <3>1
      <3> QED  BY <3>2 DEF Contains
    <2>3. Contains(new, s)
      <3>1. 1 \in 1 .. Len(new)  BY <1>2
      <3> QED  BY <1>2, <3>1 DEF Contains
    <2> QED  BY <2>1, <2>2, <2>3
  <1>6. Once(new)  BY <1>4 DEF Once
  <1>7. \A x : Contains(new, x) <=> Contains(list, x) \/ x = s
    BY <1>1, <1>5
  <1> QED  BY <1>1, <1>2, <1>6, <1>7 DEF new, r

-----------------------------------------------------------------------------
(* The invariant of the list *)

Logins ==
  [at : {"idle", "evicts", "derives", "logged in"},
   of : Storage \cup {NoStorage}, evict : Seq(Storage), joins : SUBSET Logout]
OneLogout ==
  [at : {"idle", "waits", "waited", "unlogged"}, of : Storage \cup {NoStorage}]
OneLogoutAll ==
  [at : {"idle", "starts", "waits", "waited", "cleared"},
   waitsFor : SUBSET Storage]

ListTypes ==
  /\ auth \in Seq(Storage) /\ Once(auth) /\ kept \subseteq OldStorage
  /\ login \in Logins /\ logouts \in [Logout -> OneLogout]
  /\ logoutAll \in OneLogoutAll
  /\ login.at # "idle" => login.of \in Storage
  /\ \A u \in Logout : logouts[u].at # "idle" => logouts[u].of \in Storage

\* the login that found the list full has still to log out the last storage,
\* or waits for its logout
MakesRoom ==
  /\ login.at = "evicts"
  /\ \/ login.evict = <<auth[Limit]>> /\ login.joins = {}
     \/ \E u \in login.joins :
           logouts[u].at # "idle" /\ logouts[u].of = auth[Limit]

RoomLeft ==
  ~ unlimited =>
    /\ Len(auth) <= Limit
    /\ login.at # "idle" /\ Len(auth) = Limit => MakesRoom

\* a storage whose login met no logout is open exactly when it is listed, or
\* kept open by a logout of all, but for its own login and logout
ListedIsOpen ==
  \A s \in Storage \ loose :
    /\ ~ LoggingIn(s) /\ ~ LoggingOut(s) =>
          (s \in open <=> Contains(auth, s) \/ s \in kept)
    /\ ~ LoggingIn(s) /\ LoggingOut(s) => (s \in open <=> s \in kept)
    /\ login.of = s /\ login.at = "logged in" => s \in open /\ ~ LoggingOut(s)

ListInv == ListTypes /\ RoomLeft /\ ListedIsOpen

\* Whatever leaves the list, the login and the logouts that are under way
\* alone.
LEMMA ListStays ==
  ASSUME ListInv, UNCHANGED <<session, login>>,
         logouts' \in [Logout -> OneLogout], logoutAll' \in OneLogoutAll,
         \A u \in Logout : logouts'[u].at # "idle" => logouts'[u].of \in Storage,
         \A u \in Logout : logouts[u].at # "idle" =>
            logouts'[u].at # "idle" /\ logouts'[u].of = logouts[u].of,
         \A s \in Storage : LoggingOut(s)' <=> LoggingOut(s)
  PROVE  ListInv'
  <1> USE DEF ListInv, session
  <1>1. ListTypes'  BY DEF ListTypes
  <1>2. RoomLeft'
    <2>1. ASSUME MakesRoom PROVE MakesRoom'
      BY <2>1 DEF MakesRoom, ListTypes, Logins
    <2> QED  BY <2>1 DEF RoomLeft
  <1>3. ListedIsOpen'
    <2>1. \A s \in Storage : LoggingIn(s)' <=> LoggingIn(s)
      BY DEF LoggingIn
    <2> QED  BY <2>1 DEF ListedIsOpen, Contains
  <1> QED  BY <1>1, <1>2, <1>3

\* Every step keeps the invariant of the list.
LEMMA ListInductive == ListInv /\ [SessionNext]_sessionVars => ListInv'
  <1> SUFFICES ASSUME ListInv, [SessionNext]_sessionVars
               PROVE  ListInv'
    OBVIOUS
  <1> USE DEF ListInv
  <1>0. /\ auth \in Seq(Storage) /\ Once(auth) /\ login \in Logins
        /\ logouts \in [Logout -> OneLogout] /\ logoutAll \in OneLogoutAll
        /\ Limit \in Nat \ {0} /\ Len(auth) \in Nat
    BY SessionAssumption DEF ListTypes
  <1>1. CASE UNCHANGED <<session, login, logouts, logoutAll>>
    BY <1>1, ListStays DEF ListTypes, LoggingOut
  <1>2. ASSUME NEW c \in Call,
               EndCall(c) \/ \E s \in Storage : BeginRead(c, s) \/ BeginWrite(c, s)
        PROVE  ListInv'
    BY <1>1, <1>2 DEF EndCall, BeginRead, BeginWrite, BeginCall
  <1>3. CASE Minimize \/ ComeBack
    BY <1>1, <1>3 DEF Minimize, ComeBack
  <1>4. CASE Timeout \/ StartWaiting \/ AllWaited
    <2>1. UNCHANGED <<session, login, logouts>> /\ logoutAll.at # "cleared"
      BY <1>4 DEF Timeout, StartWaiting, AllWaited
    <2>2. logoutAll' \in OneLogoutAll /\ logoutAll'.at # "cleared"
      <3>1. CASE Timeout
        BY <3>1 DEF Timeout, NoLogoutAll, OneLogoutAll
      <3>2. CASE StartWaiting
        <4>1. ToSet(auth) \subseteq Storage  BY <1>0 DEF ToSet
        <4> QED  BY <3>2, <4>1 DEF StartWaiting, OneLogoutAll
      <3>3. CASE AllWaited
        BY <1>0, <3>3 DEF AllWaited, OneLogoutAll
      <3> QED  BY <1>4, <3>1, <3>2, <3>3
    <2> QED  BY <1>0, <2>1, <2>2, ListStays DEF ListTypes, LoggingOut
  <1>5. ASSUME NEW u \in Logout, NEW s \in Storage, StartLogout(u, s)
        PROVE  ListInv'
    <2>1. /\ logouts[u].at = "idle" /\ UNCHANGED <<session, login, logoutAll>>
          /\ logouts' = [logouts EXCEPT ![u] = [at |-> "waits", of |-> s]]
      BY <1>5 DEF StartLogout
    <2>2. /\ logouts' \in [Logout -> OneLogout]
          /\ logouts'[u] = [at |-> "waits", of |-> s]
          /\ \A v \in Logout \ {u} : logouts'[v] = logouts[v]
      BY <1>0, <2>1 DEF OneLogout
    <2>3. \A x \in Storage : LoggingOut(x)' <=> LoggingOut(x)
      BY <2>1, <2>2 DEF LoggingOut
    <2> QED  BY <2>1, <2>2, <2>3, ListStays DEF ListTypes
  <1>6. ASSUME NEW u \in Logout, Waited(u)
        PROVE  ListInv'
    <2>1. /\ logouts[u].at = "waits" /\ UNCHANGED <<session, login, logoutAll>>
          /\ logouts' = [logouts EXCEPT ![u].at = "waited"]
      BY <1>6 DEF Waited
    <2>2. /\ logouts' \in [Logout -> OneLogout]
          /\ logouts'[u].at = "waited" /\ logouts'[u].of = logouts[u].of
          /\ \A v \in Logout \ {u} : logouts'[v] = logouts[v]
      BY <1>0, <2>1 DEF OneLogout
    <2>3. \A x \in Storage : LoggingOut(x)' <=> LoggingOut(x)
      BY <2>1, <2>2 DEF LoggingOut
    <2> QED  BY <2>1, <2>2, <2>3, ListStays DEF ListTypes
  <1>7. ASSUME NEW s \in Storage, StartLogin(s)
        PROVE  ListInv'
    <2> DEFINE evict == IF unlimited THEN <<>> ELSE TooMany(auth)
    <2>1. /\ login.at = "idle" /\ UNCHANGED <<session, logouts, logoutAll>>
          /\ login' = [at |-> "evicts", of |-> s, evict |-> evict,
                       joins |-> {}]
      BY <1>7 DEF StartLogin, NoLogin
    <2>2. TooMany(auth) \in Seq(Storage) /\ evict \in Seq(Storage)
      BY <1>0 DEF TooMany
    <2>4. ASSUME Len(auth) = Limit
          PROVE  TooMany(auth) = <<auth[Limit]>>
      <3>1. auth[Limit] \in Storage  BY <1>0, <2>4
      <3>2. /\ Len(TooMany(auth)) = 1 /\ TooMany(auth)[1] = auth[Limit]
        BY <1>0, <2>4 DEF TooMany
      <3> HIDE DEF TooMany
      <3> QED  BY <2>2, <3>1, <3>2
    <2> HIDE DEF evict
    <2>3. ListTypes'
      <3>1. login' \in Logins /\ login'.of = s
        BY <2>1, <2>2 DEF Logins
      <3> QED  BY <2>1, <3>1 DEF ListTypes, session
    <2>5. RoomLeft'
      <3>1. ASSUME ~ unlimited, Len(auth) = Limit
            PROVE  MakesRoom'
        BY <2>1, <2>4, <3>1 DEF MakesRoom, evict, session
      <3> QED  BY <2>1, <3>1 DEF RoomLeft, session
    <2>6. \A x \in Storage : /\ LoggingIn(x)' <=> LoggingIn(x)
                             /\ LoggingOut(x)' <=> LoggingOut(x)
      BY <2>1 DEF LoggingIn, LoggingOut
    <2>7. ListedIsOpen'
      BY <2>1, <2>6 DEF ListedIsOpen, Contains, session
    <2> QED  BY <2>3, <2>5, <2>7
  <1>8. ASSUME NEW u \in Logout, Evict(u)
        PROVE  ListInv'
    <2> DEFINE s == Head(login.evict)
    <2>1. /\ login.at = "evicts" /\ login.joins = {} /\ login.evict # <<>>
          /\ logouts[u].at = "idle" /\ UNCHANGED <<session, logoutAll>>
          /\ logouts' = [logouts EXCEPT ![u] = [at |-> "waits", of |-> s]]
          /\ login' = [login EXCEPT !.evict = Tail(@), !.joins = {u}]
      BY <1>8 DEF Evict
    <2>2. login.evict \in Seq(Storage)  BY <1>0 DEF Logins
    <2>3. s \in Storage /\ Tail(login.evict) \in Seq(Storage)
      BY <2>1, <2>2
    <2>4. login.evict = <<auth[Limit]>> => s = auth[Limit]
      OBVIOUS
    <2> HIDE DEF s
    <2>5. /\ logouts' \in [Logout -> OneLogout]
          /\ logouts'[u] = [at |-> "waits", of |-> s]
          /\ \A v \in Logout \ {u} : logouts'[v] = logouts[v]
      BY <1>0, <2>1, <2>3 DEF OneLogout
    <2>6. /\ login' \in Logins /\ login'.at = "evicts"
          /\ login'.of = login.of /\ login'.joins = {u}
      BY <1>0, <2>1, <2>3 DEF Logins
    <2>7. ListTypes'
      BY <2>1, <2>3, <2>5, <2>6 DEF ListTypes, session
    <2>8. RoomLeft'
      <3>1. ASSUME MakesRoom PROVE MakesRoom'
        BY <2>1, <2>4, <2>5, <2>6, <3>1 DEF MakesRoom, session
      <3> QED  BY <2>1, <2>6, <3>1 DEF RoomLeft, session
    <2>9. \A x \in Storage : /\ LoggingIn(x)' <=> LoggingIn(x)
                             /\ LoggingOut(x)' <=> LoggingOut(x)
      BY <2>1, <2>5, <2>6 DEF LoggingIn, LoggingOut
    <2>10. ListedIsOpen'
      BY <2>1, <2>6, <2>9 DEF ListedIsOpen, Contains, session
    <2> QED  BY <2>7, <2>8, <2>10
  <1>9. CASE EngineLogin
    <2>1. /\ login.at = "evicts" /\ login.evict = <<>> /\ login.joins = {}
          /\ login' = [login EXCEPT !.at = "derives"]
          /\ loose' = loose \ {login.of} /\ open' = open \ {login.of}
          /\ kept' = kept \ {login.of}
          /\ UNCHANGED <<auth, unlimited, logouts, logoutAll>>
      BY <1>9 DEF EngineLogin, Erase
    <2>2. /\ login' \in Logins /\ login'.at = "derives" /\ login'.of = login.of
      BY <1>0, <2>1 DEF Logins
    <2>3. ListTypes'  BY <2>1, <2>2 DEF ListTypes
    <2>4. ~ MakesRoom  BY <2>1 DEF MakesRoom
    <2>5. RoomLeft'  BY <2>1, <2>4 DEF RoomLeft
    <2>6. \A x \in Storage : LoggingOut(x)' <=> LoggingOut(x)
      BY <2>1 DEF LoggingOut
    <2>7. \A x \in Storage \ {login.of} : ~ LoggingIn(x)' /\ ~ LoggingIn(x)
      BY <2>2 DEF LoggingIn
    <2>8. LoggingIn(login.of)'  BY <2>2 DEF LoggingIn
    <2>9. ListedIsOpen'
      BY <2>1, <2>2, <2>6, <2>7, <2>8 DEF ListedIsOpen, Contains
    <2> QED  BY <2>3, <2>5, <2>9
  <1>10. CASE Opened \/ NotOpened
    <2> DEFINE s == login.of
    <2>1. /\ login.at = "derives"
          /\ login' = [login EXCEPT !.at = "logged in"]
          /\ UNCHANGED <<auth, unlimited, kept, logouts, logoutAll>>
      BY <1>10 DEF Opened, NotOpened
    <2>2. \/ open' = open \cup {s} /\ loose' = IF LoggingOut(s) THEN loose \cup {s} ELSE loose
          \/ open' = open /\ loose' = loose \cup {s}
      BY <1>10 DEF Opened, NotOpened
    <2>3. /\ login' \in Logins /\ login'.at = "logged in" /\ login'.of = s
      BY <1>0, <2>1 DEF Logins
    <2>4. ListTypes'  BY <2>1, <2>3 DEF ListTypes
    <2>5. RoomLeft'  BY <2>1, <2>3 DEF RoomLeft, MakesRoom
    <2>6. \A x \in Storage : LoggingOut(x)' <=> LoggingOut(x)
      BY <2>1 DEF LoggingOut
    <2>7. \A x \in Storage \ {s} : ~ LoggingIn(x)' /\ ~ LoggingIn(x)
      BY <2>3 DEF LoggingIn
    <2>8. LoggingIn(s)'  BY <2>3 DEF LoggingIn
    <2>9. \A x \in Storage \ {s} : /\ x \in loose' <=> x \in loose
                                   /\ x \in open' <=> x \in open
      BY <2>2
    <2>10. s \notin loose' => s \in open' /\ ~ LoggingOut(s)
      BY <2>2
    <2>11. ListedIsOpen'
      BY <2>1, <2>3, <2>6, <2>7, <2>8, <2>9, <2>10 DEF ListedIsOpen, Contains
    <2> QED  BY <2>4, <2>5, <2>11
  <1>11. CASE Authorize
    <2> DEFINE s == login.of
    <2>1. /\ login.at = "logged in" /\ login' = NoLogin
          /\ auth' = <<s>> \o RemoveFirst(auth, s)
          /\ loose' = IF LoggingOut(s) THEN loose \cup {s} ELSE loose
          /\ UNCHANGED <<open, unlimited, kept, logouts, logoutAll>>
      BY <1>11 DEF Authorize
    <2>2. s \in Storage  BY <2>1 DEF ListTypes
    <2>3. /\ auth' \in Seq(Storage) /\ Once(auth')
          /\ \A x : Contains(auth', x) <=> Contains(auth, x) \/ x = s
          /\ Len(auth') <= Len(auth) + 1
      BY <1>0, <2>1, <2>2, PutFirst
    <2>14. NoLogin \in Logins /\ NoLogin.at = "idle"
      BY DEF Logins, NoLogin
    <2>4. login' \in Logins /\ login'.at = "idle"
      BY <2>1, <2>14
    <2>5. ListTypes'  BY <2>1, <2>3, <2>4 DEF ListTypes
    <2>6. ~ MakesRoom  BY <2>1 DEF MakesRoom
    <2>7. RoomLeft'
      <3>1. Len(auth') \in Nat  BY <2>3
      <3>2. ~ unlimited => Len(auth) < Limit
        <4>1. ~ unlimited => Len(auth) <= Limit /\ Len(auth) # Limit
          BY <2>1, <2>6 DEF RoomLeft
        <4> QED  BY <1>0, <4>1
      <3>3. ~ unlimited => Len(auth') <= Limit
        BY <1>0, <2>3, <3>1, <3>2
      <3> QED  BY <2>1, <2>4, <3>3 DEF RoomLeft
    <2>8. \A x \in Storage : LoggingOut(x)' <=> LoggingOut(x)
      BY <2>1 DEF LoggingOut
    <2>9. \A x \in Storage : ~ LoggingIn(x)'
      BY <2>4 DEF LoggingIn
    <2>10. \A x \in Storage \ {s} : ~ LoggingIn(x)
      BY DEF LoggingIn
    <2>11. s \notin loose' => s \in open /\ ~ LoggingOut(s)
      BY <2>1, <2>2 DEF ListedIsOpen
    <2>12. \A x \in Storage \ {s} : x \in loose' <=> x \in loose
      BY <2>1
    <2>13. ListedIsOpen'
      BY <2>1, <2>3, <2>4, <2>8, <2>9, <2>10, <2>11, <2>12 DEF ListedIsOpen
    <2> QED  BY <2>5, <2>7, <2>13
  <1>12. ASSUME NEW u \in Logout, Unlogin(u)
         PROVE  ListInv'
    <2> DEFINE s == logouts[u].of
    <2>1. /\ logouts[u].at = "waited"
          /\ logouts' = [logouts EXCEPT ![u].at = "unlogged"]
          /\ open' = open \ {s} /\ kept' = kept \ {s}
          /\ loose' = IF LoggingIn(s) THEN loose \cup {s} ELSE loose
          /\ UNCHANGED <<auth, unlimited, login, logoutAll>>
      BY <1>12 DEF Unlogin, Erase
    <2>2. /\ logouts' \in [Logout -> OneLogout]
          /\ logouts'[u].at = "unlogged" /\ logouts'[u].of = logouts[u].of
          /\ \A v \in Logout \ {u} : logouts'[v] = logouts[v]
      BY <1>0, <2>1 DEF OneLogout
    <2>3. ListTypes'  BY <2>1, <2>2 DEF ListTypes
    <2>4. RoomLeft'
      <3>1. ASSUME MakesRoom PROVE MakesRoom'
        BY <1>0, <2>1, <2>2, <3>1 DEF MakesRoom, Logins
      <3> QED  BY <2>1, <3>1 DEF RoomLeft
    <2>5. /\ \A x \in Storage : LoggingIn(x)' <=> LoggingIn(x)
          /\ \A x \in Storage \ {s} : LoggingOut(x)' <=> LoggingOut(x)
          /\ LoggingOut(s)'
      BY <2>1, <2>2 DEF LoggingIn, LoggingOut
    <2>6. /\ s \notin open' /\ s \notin kept'
          /\ s \notin loose' => ~ LoggingIn(s)
      BY <2>1
    <2>7. \A x \in Storage \ {s} : /\ x \in loose' <=> x \in loose
                                   /\ x \in open' <=> x \in open
                                   /\ x \in kept' <=> x \in kept
      BY <2>1
    <2>8. ASSUME NEW x \in Storage \ loose'
          PROVE  /\ ~ LoggingIn(x)' /\ ~ LoggingOut(x)' =>
                      (x \in open' <=> Contains(auth', x) \/ x \in kept')
                 /\ ~ LoggingIn(x)' /\ LoggingOut(x)' =>
                      (x \in open' <=> x \in kept')
                 /\ login'.of = x /\ login'.at = "logged in" =>
                      x \in open' /\ ~ LoggingOut(x)'
      <3>1. CASE x = s
        <4>1. ~ LoggingIn(x) /\ x \notin open' /\ x \notin kept'
          BY <2>6, <3>1
        <4>2. LoggingOut(x)'
          BY <2>2, <3>1 DEF LoggingOut
        <4>3. ~ LoggingIn(x)' /\ login' = login
          BY <2>1, <4>1 DEF LoggingIn
        <4> QED  BY <4>1, <4>2, <4>3 DEF LoggingIn
      <3>2. CASE x # s
        <4>1. /\ x \in Storage \ loose
              /\ x \in open' <=> x \in open
              /\ x \in kept' <=> x \in kept
              /\ LoggingIn(x)' <=> LoggingIn(x)
              /\ LoggingOut(x)' <=> LoggingOut(x)
          BY <2>5, <2>7, <3>2
        <4>2. auth' = auth /\ login' = login  BY <2>1
        <4> QED  BY <4>1, <4>2 DEF ListedIsOpen
      <3> QED  BY <3>1, <3>2
    <2>9. ListedIsOpen'  BY <2>8 DEF ListedIsOpen, Contains
    <2> QED  BY <2>3, <2>4, <2>9
  <1>13. ASSUME NEW u \in Logout, Unauthorize(u)
         PROVE  ListInv'
    <2> DEFINE s == logouts[u].of
    <2>1. /\ logouts[u].at = "unlogged"
          /\ logouts' = [logouts EXCEPT ![u] = NoLogout]
          /\ auth' = RemoveFirst(auth, s)
          /\ login' = [login EXCEPT !.joins = @ \ {u}]
          /\ loose' = IF LoggingIn(s) THEN loose \cup {s} ELSE loose
          /\ UNCHANGED <<open, unlimited, kept, logoutAll>>
      BY <1>13 DEF Unauthorize
    <2>2. /\ logouts' \in [Logout -> OneLogout]
          /\ logouts'[u].at = "idle"
          /\ \A v \in Logout \ {u} : logouts'[v] = logouts[v]
      BY <1>0, <2>1 DEF OneLogout, NoLogout
    <2>3. /\ login' \in Logins /\ login'.at = login.at
          /\ login'.of = login.of /\ login'.evict = login.evict
          /\ login'.joins = login.joins \ {u}
      BY <1>0, <2>1 DEF Logins
    <2>4. /\ auth' \in Seq(Storage) /\ Once(auth')
          /\ \A x : Contains(auth', x) <=> Contains(auth, x) /\ x # s
          /\ ~ Contains(auth, s) => auth' = auth
          /\ Contains(auth, s) => Len(auth') = Len(auth) - 1
      BY <1>0, <2>1, RemoveFromList
    <2>5. ListTypes'  BY <1>0, <2>1, <2>2, <2>3, <2>4 DEF ListTypes
    <2>6. RoomLeft'
      <3>1. CASE Contains(auth, s)
        BY <1>0, <2>1, <2>4, <3>1 DEF RoomLeft
      <3>2. CASE ~ Contains(auth, s)
        <4>1. ASSUME Len(auth) = Limit, MakesRoom
              PROVE  MakesRoom'
          <5>1. auth[Limit] # s
            BY <1>0, <3>2, <4>1 DEF Contains
          <5> QED
            BY <1>0, <2>2, <2>3, <2>4, <3>2, <4>1, <5>1 DEF MakesRoom, Logins
        <4> QED  BY <2>1, <2>3, <2>4, <3>2, <4>1 DEF RoomLeft
      <3> QED  BY <3>1, <3>2
    <2>7. /\ \A x \in Storage : LoggingIn(x)' <=> LoggingIn(x)
          /\ \A x \in Storage \ {s} : LoggingOut(x)' <=> LoggingOut(x)
          /\ LoggingOut(s)
      BY <2>1, <2>2, <2>3 DEF LoggingIn, LoggingOut
    <2>8. \A x \in Storage \ {s} : x \in loose' <=> x \in loose
      BY <2>1
    <2>9. ASSUME NEW x \in Storage \ loose'
          PROVE  /\ ~ LoggingIn(x)' /\ ~ LoggingOut(x)' =>
                      (x \in open' <=> Contains(auth', x) \/ x \in kept')
                 /\ ~ LoggingIn(x)' /\ LoggingOut(x)' =>
                      (x \in open' <=> x \in kept')
                 /\ login'.of = x /\ login'.at = "logged in" =>
                      x \in open' /\ ~ LoggingOut(x)'
      <3>1. CASE x = s
        <4>1. ~ LoggingIn(s) /\ s \notin loose
          BY <2>1, <3>1
        <4>2. s \in open <=> s \in kept
          BY <2>7, <3>1, <4>1 DEF ListedIsOpen
        <4> QED  BY <2>1, <2>3, <2>4, <2>7, <3>1, <4>1, <4>2 DEF LoggingIn
      <3>2. CASE x # s
        BY <2>1, <2>3, <2>4, <2>7, <2>8, <3>2 DEF ListedIsOpen
      <3> QED  BY <3>1, <3>2
    <2>10. ListedIsOpen'  BY <2>9 DEF ListedIsOpen, Contains
    <2> QED  BY <2>5, <2>6, <2>10
  <1>14. CASE Clear \/ UnauthorizeAll
    <2>1. /\ UNCHANGED <<unlimited, login, logouts>>
          /\ loose' = loose \cup {s \in Storage : LoggingIn(s)}
      BY <1>14 DEF Clear, UnauthorizeAll
    <2>2. \/ /\ open' = open \ (open \ OldStorage)
             /\ kept' = kept \cup (open \cap OldStorage)
             /\ auth' = auth /\ logoutAll'.at = "cleared"
          \/ /\ open' = open /\ kept' = kept
             /\ auth' = <<>> /\ logoutAll.at = "cleared"
      <3>1. CASE Clear
        BY <3>1 DEF Clear, Erase
      <3>2. CASE UnauthorizeAll
        BY <3>2 DEF UnauthorizeAll
      <3> QED  BY <1>14, <3>1, <3>2
    <2>3. <<>> \in Seq(Storage) /\ Once(<<>>) /\ Len(<<>>) = 0
      BY DEF Once
    <2>10. logoutAll' \in OneLogoutAll
      BY <1>14 DEF Clear, UnauthorizeAll, NoLogoutAll, OneLogoutAll
    <2>4. ListTypes'  BY <1>0, <2>1, <2>2, <2>3, <2>10 DEF ListTypes
    <2>5. RoomLeft'
      <3>1. CASE auth' = auth
        BY <1>0, <2>1, <3>1 DEF RoomLeft, MakesRoom
      <3>2. CASE auth' = <<>>
        BY <1>0, <2>3, <3>2 DEF RoomLeft
      <3> QED  BY <2>2, <3>1, <3>2
    <2>6. \A x \in Storage \ loose' : ~ LoggingIn(x)' /\ ~ LoggingIn(x) /\ x \notin loose
      BY <2>1 DEF LoggingIn
    <2>7. ASSUME NEW x \in Storage \ loose'
          PROVE  x \in open' <=> x \in kept'
      <3>1. x \in Storage \ loose /\ ~ LoggingIn(x)
        BY <2>6
      <3>2. CASE logoutAll.at = "cleared" /\ open' = open /\ kept' = kept
        BY <3>1, <3>2 DEF ListedIsOpen, LoggingOut
      <3>3. x \in kept => x \in open /\ x \in OldStorage
        BY <3>1 DEF ListedIsOpen, ListTypes
      <3> QED  BY <2>2, <3>2, <3>3
    <2>8. \A x \in Storage : LoggingOut(x)' \/ ~ Contains(auth', x)
      BY <2>2, <2>3 DEF LoggingOut, Contains
    <2>9. ListedIsOpen'
      BY <2>6, <2>7, <2>8 DEF ListedIsOpen, LoggingIn, Contains
    <2> QED  BY <2>4, <2>5, <2>9
  <1> QED
    BY <1>1, <1>2, <1>3, <1>4, <1>5, <1>6, <1>7, <1>8, <1>9, <1>10, <1>11,
       <1>12, <1>13, <1>14
    DEF SessionNext, LoginStep, LogoutAllStep, LogoutStep, sessionVars

THEOREM ListInvariant == SessionSpec => []ListInv
  <1>1. SessionInit => ListInv
    <2> SUFFICES ASSUME SessionInit PROVE ListInv
      OBVIOUS
    <2>1. <<>> \in Seq(Storage) /\ Once(<<>>) /\ Len(<<>>) = 0
      BY DEF Once
    <2>2. ListTypes
      <3>1. /\ NoLogin \in Logins /\ NoLogin.at = "idle"
            /\ NoLogout \in OneLogout /\ NoLogout.at = "idle"
            /\ NoLogoutAll \in OneLogoutAll
        BY DEF NoLogin, NoLogout, NoLogoutAll, Logins, OneLogout, OneLogoutAll
      <3> QED  BY <2>1, <3>1 DEF SessionInit, ListTypes
    <2>3. RoomLeft
      BY <2>1, SessionAssumption DEF SessionInit, RoomLeft, NoLogin
    <2>4. \A s \in Storage : ~ Contains(<<>>, s)
      BY <2>1 DEF Contains
    <2>5. ListedIsOpen
      BY <2>4 DEF SessionInit, ListedIsOpen, LoggingOut, NoLogin, NoLogout, NoLogoutAll
    <2> QED  BY <2>2, <2>3, <2>5 DEF ListInv
  <1> QED  BY <1>1, ListInductive, PTL DEF SessionSpec

\* A user who did not buy more never has more storages in the list than the
\* limit, whatever logouts cross the login that makes room.
THEOREM LimitIsKept == SessionSpec => []LimitKept
  <1>1. ListInv => LimitKept  BY DEF ListInv, RoomLeft, LimitKept
  <1> QED  BY <1>1, ListInvariant, PTL

\* When no login and no logout is under way, the storages that are open are
\* those the list shows and those of version 1 that a logout of all kept, but
\* for the storages whose login failed or met a logout.
THEOREM ListedAreOpen == SessionSpec => []ListedMeansOpen
  <1>1. ListInv => ListedMeansOpen
    BY DEF ListInv, ListedIsOpen, ListedMeansOpen, AllEnded, LoggingIn, LoggingOut
  <1> QED  BY <1>1, ListInvariant, PTL

-----------------------------------------------------------------------------
(***************************************************************************)
(* LazyStateFlow: whatever number of collectors, editors and jobs, one job *)
(* at most of a lazyStateFlow goes on, and when nothing runs any more the  *)
(* list shown is the list of the engine, unless a force was lost.          *)
(***************************************************************************)

\* A caller of restart swaps in what it launched, and cancels what it swapped
\* out, before it does anything else: an edit that is under way restarts
\* nothing, and a caller that rests holds no job.
CallersWait ==
    /\ \A e \in Editor : editor[e].at # "idle" => caller[e].at = "idle"
    /\ \A c \in Callers : caller[c].at = "idle" => caller[c].job = None

FlowInv == FlowTypes /\ CallersWait /\ OneJobGoesOn

Jobs == [at : JobPoints, force : BOOLEAN, titles : BOOLEAN, seen : SUBSET Notes,
         cancelled : BOOLEAN]

Restarts == [at : {"idle", "swaps", "cancels"}, job : Job \cup {None}]

LEMMA NoJobType == NoJob \in Jobs
  BY DEF NoJob, Jobs, JobPoints

LEMMA InitTypes == FlowInit => FlowTypes
  <1> SUFFICES ASSUME FlowInit PROVE FlowTypes
    OBVIOUS
  <1>1. jobs \in [Job -> Jobs]
    BY NoJobType DEF FlowInit
  <1>2. editor \in [Editor -> [at : {"idle", "update", "touch"},
                              with : SUBSET Notes, without : SUBSET Notes]]
    BY DEF FlowInit, NoEdit
  <1>3. caller \in [Callers -> Restarts]
    BY DEF FlowInit, Resting, Restarts
  <1> QED  BY <1>1, <1>2, <1>3 DEF FlowInit, FlowTypes, Jobs, Restarts

\* What a launch leaves behind.
LEMMA LaunchTypes ==
  ASSUME FlowTypes, NEW c \in Callers, Launch(c)
  PROVE  /\ jobs' \in [Job -> Jobs]
         /\ caller' \in [Callers -> Restarts]
         /\ newest' \in Job \cup {None}
  <1> DEFINE j == CHOOSE k \in FreeJobs : TRUE
  <1>1. j \in FreeJobs  BY DEF Launch
  <1>2. j \in Job  BY <1>1 DEF FreeJobs
  <1>3. /\ jobs' = [jobs EXCEPT ![j] = [NoJob EXCEPT !.at = "started"]]
        /\ caller' = [caller EXCEPT ![c] = [at |-> "swaps", job |-> j]]
        /\ newest' = j
    BY DEF Launch
  <1> HIDE DEF j
  <1> QED  BY <1>2, <1>3 DEF FlowTypes, Jobs, NoJob, JobPoints, Restarts

LEMMA CancelledTypes ==
  ASSUME FlowTypes, NEW j \in Job \cup {None}
  PROVE  Cancelled(j) \in [Job -> Jobs]
  <1>1. jobs \in [Job -> Jobs]  BY DEF FlowTypes, Jobs
  <1>2. CASE Alive(j)
    <2>1. j \in Job /\ jobs[j] \in Jobs  BY <1>1, <1>2 DEF Alive
    <2>2. [jobs[j] EXCEPT !.cancelled = TRUE] \in Jobs  BY <2>1 DEF Jobs
    <2>3. Cancelled(j) = [jobs EXCEPT ![j] = [jobs[j] EXCEPT !.cancelled = TRUE]]
      BY <1>2 DEF Cancelled
    <2> QED  BY <1>1, <2>2, <2>3
  <1>3. CASE ~ Alive(j)
    BY <1>1, <1>3 DEF Cancelled
  <1> QED  BY <1>2, <1>3

LEMMA NextTypes == FlowTypes /\ [FlowNext]_flowVars => FlowTypes'
  <1> SUFFICES ASSUME FlowTypes, [FlowNext]_flowVars PROVE FlowTypes'
    OBVIOUS
  <1>0. caller \in [Callers -> Restarts] /\ Resting \in Restarts
    BY DEF FlowTypes, Restarts, Resting
  <1>1. ASSUME NEW c \in Collectors, Collect(c) PROVE FlowTypes'
    BY <1>1, LaunchTypes DEF Collect, FlowTypes, Jobs, Callers, Restarts
  <1>2. ASSUME NEW c \in Collectors, StopCollecting(c) PROVE FlowTypes'
    BY <1>2 DEF StopCollecting, FlowTypes
  <1>3. ASSUME NEW c \in Callers, CallerStep(c) PROVE FlowTypes'
    <2>1. CASE Swap(c)
      <3>1. job \in Job \cup {None} /\ caller[c].job \in Job \cup {None}
        BY DEF FlowTypes
      <3>2. caller' \in [Callers -> Restarts]
        BY <1>0, <2>1, <3>1 DEF Swap, Restarts
      <3> QED  BY <2>1, <3>1, <3>2 DEF Swap, FlowTypes, Restarts
    <2>2. CASE CancelJob(c)
      <3>1. caller[c].job \in Job \cup {None}
        BY DEF FlowTypes
      <3>2. caller' \in [Callers -> Restarts]
        BY <1>0, <2>2 DEF CancelJob
      <3>3. jobs' \in [Job -> Jobs]
        BY <2>2, <3>1, CancelledTypes DEF CancelJob
      <3> QED  BY <2>2, <3>2, <3>3 DEF CancelJob, FlowTypes, Restarts, Jobs, Excuse
    <2> QED  BY <1>3, <2>1, <2>2 DEF CallerStep
  <1>4. ASSUME NEW j \in Job, JobStep(j) PROVE FlowTypes'
    <2>1. jobs' \in [Job -> Jobs]
      <3>1. /\ jobs \in [Job -> Jobs] /\ NoJob \in Jobs
            /\ restartArg \in BOOLEAN /\ stored \in SUBSET Notes
        BY NoJobType DEF FlowTypes, Jobs
      <3>2. CASE CheckConsumers(j)
        BY <3>1, <3>2 DEF CheckConsumers, End, GoTo, Jobs, JobPoints
      <3>3. CASE TakeArg(j)
        BY <3>1, <3>3 DEF TakeArg, Jobs, JobPoints
      <3>4. CASE Begin(j)
        BY <3>1, <3>4 DEF Begin, End, Jobs, JobPoints
      <3>5. CASE Read(j)
        BY <3>1, <3>5 DEF Read, End, Jobs, JobPoints
      <3>6. CASE Resume(j)
        BY <3>1, <3>6 DEF Resume, End, GoTo, Jobs, JobPoints
      <3>7. CASE Assign(j)
        BY <3>1, <3>7 DEF Assign, End, Jobs, JobPoints
      <3> QED  BY <1>4, <3>2, <3>3, <3>4, <3>5, <3>6, <3>7 DEF JobStep
    <2>2. value' \subseteq Notes
      <3>1. value \subseteq Notes /\ jobs[j].seen \subseteq Notes
        BY DEF FlowTypes
      <3> QED
        BY <3>1, <1>4
        DEF JobStep, CheckConsumers, TakeArg, Begin, Read, Resume, Assign
    <2>3. restartArg' \in BOOLEAN /\ excused' \in BOOLEAN
      BY <1>4
      DEF JobStep, CheckConsumers, TakeArg, Begin, Read, Resume, Assign, Excuse,
          FlowTypes
    <2>4. UNCHANGED <<collecting, job, caller, newest, stored, editor, edits>>
      BY <1>4
      DEF JobStep, CheckConsumers, TakeArg, Begin, Read, Resume, Assign, End, GoTo
    <2> QED  BY <2>1, <2>2, <2>3, <2>4 DEF FlowTypes, Jobs
  <1>5. ASSUME NEW e \in Editor, EditStorage(e) PROVE FlowTypes'
    BY <1>5 DEF EditStorage, FlowTypes, flow, NoEdit
  <1>6. ASSUME NEW e \in Editor, Touch(e) PROVE FlowTypes'
    BY <1>6, LaunchTypes DEF Touch, FlowTypes, Jobs, Callers, NoEdit, Restarts
  <1>7. ASSUME NEW e \in Editor, NEW n \in Notes,
               FastUpdate(e, {n}, {}) \/ FastUpdate(e, {}, {n})
        PROVE  FlowTypes'
    <2>1. PICK with, without \in SUBSET Notes : FastUpdate(e, with, without)
      BY <1>7
    <2>2. [at |-> "update", with |-> with, without |-> without]
            \in [at : {"idle", "update", "touch"},
                 with : SUBSET Notes, without : SUBSET Notes]
      OBVIOUS
    <2> QED  BY <2>1, <2>2 DEF FastUpdate, FlowTypes, CountEdit
  <1>8. ASSUME NEW n \in Notes, EditUntouched(n) PROVE FlowTypes'
    BY <1>8 DEF EditUntouched, FlowTypes, flow, CountEdit, Excuse
  <1>9. CASE ClearCache
    BY <1>9 DEF ClearCache, FlowTypes, CountEdit, Excuse
  <1>10. CASE UNCHANGED flowVars
    BY <1>10 DEF flowVars, flow, FlowTypes
  <1> QED
    BY <1>1, <1>2, <1>3, <1>4, <1>5, <1>6, <1>7, <1>8, <1>9, <1>10
    DEF FlowNext, EditorStep

\* A launch hides no job that is alive: its caller had none to swap in.
LEMMA LaunchHidesNone ==
  ASSUME FlowInv, NEW c \in Callers, Launch(c), caller[c].job = None,
         job' = job
  PROVE  OneJobGoesOn'
  <1> DEFINE j == CHOOSE k \in FreeJobs : TRUE
  <1>1. j \in FreeJobs  BY DEF Launch
  <1>2. j \in Job  BY <1>1 DEF FreeJobs
  <1>3. /\ jobs' = [jobs EXCEPT ![j] = [NoJob EXCEPT !.at = "started"]]
        /\ caller' = [caller EXCEPT ![c] = [at |-> "swaps", job |-> j]]
    BY DEF Launch
  <1> HIDE DEF j
  <1> SUFFICES ASSUME NEW k \in Job, Alive(k)', ~ jobs'[k].cancelled,
                      k # job
               PROVE  \E d \in Callers : caller'[d].job = k
    BY DEF OneJobGoesOn
  <1>4. CASE k = j
    <2>1. caller'[c].job = k
      BY <1>2, <1>3, <1>4 DEF FlowInv, FlowTypes
    <2> QED  BY <2>1
  <1>5. CASE k # j
    <2>1. jobs'[k] = jobs[k]  BY <1>3, <1>5 DEF FlowInv, FlowTypes
    <2>2. PICK d \in Callers : caller[d].job = k
      BY <2>1 DEF FlowInv, OneJobGoesOn, Alive
    <2>3. d # c  BY <2>2, NoneAssumption
    <2> QED  BY <2>2, <2>3, <1>3 DEF FlowInv, FlowTypes
  <1> QED  BY <1>4, <1>5

\* A job that moves on without leaving its place among the others.
LEMMA JobMoves ==
  ASSUME FlowInv, NEW j \in Job, jobs[j].at # "free", job' = job,
         caller' = caller,
         \A k \in Job \ {j} : jobs'[k] = jobs[k],
         jobs'[j].at = "free" \/ jobs'[j].cancelled = jobs[j].cancelled
  PROVE  OneJobGoesOn'
  BY DEF FlowInv, OneJobGoesOn, Alive, FlowTypes

\* What is swapped out is about to be cancelled.
LEMMA SwapsOne ==
  ASSUME FlowInv, NEW c \in Callers, Swap(c)
  PROVE  OneJobGoesOn'
  <1> SUFFICES ASSUME NEW k \in Job, Alive(k)', ~ jobs'[k].cancelled,
                      k # job'
               PROVE  \E d \in Callers : caller'[d].job = k
    BY DEF OneJobGoesOn
  <1>1. jobs' = jobs /\ job' = caller[c].job
    BY DEF Swap
  <1>2. CASE k = job
    <2>1. caller'[c].job = k
      BY <1>1, <1>2 DEF Swap, Alive, FlowInv, FlowTypes
    <2> QED  BY <2>1
  <1>3. CASE k # job
    <2>1. PICK d \in Callers : caller[d].job = k
      BY <1>1, <1>3 DEF FlowInv, OneJobGoesOn, Alive
    <2>2. d # c  BY <1>1, <2>1
    <2> QED  BY <2>1, <2>2 DEF Swap, FlowInv, FlowTypes
  <1> QED  BY <1>2, <1>3

\* Whoever is about to cancel a job does it.
LEMMA CancelsOne ==
  ASSUME FlowInv, NEW c \in Callers, CancelJob(c)
  PROVE  OneJobGoesOn'
  <1> SUFFICES ASSUME NEW k \in Job, Alive(k)', ~ jobs'[k].cancelled,
                      k # job'
               PROVE  \E d \in Callers : caller'[d].job = k
    BY DEF OneJobGoesOn
  <1>1. jobs' = Cancelled(caller[c].job) /\ job' = job
    BY DEF CancelJob
  <1>2. k # caller[c].job
    BY <1>1 DEF Cancelled, Alive, FlowInv, FlowTypes
  <1>3. jobs'[k] = jobs[k]
    BY <1>1, <1>2 DEF Cancelled, Alive, FlowInv, FlowTypes
  <1>4. PICK d \in Callers : caller[d].job = k
    BY <1>1, <1>3 DEF FlowInv, OneJobGoesOn, Alive
  <1>5. d # c  BY <1>2, <1>4
  <1> QED  BY <1>4, <1>5 DEF CancelJob, FlowInv, FlowTypes

LEMMA NextOneJob == FlowInv /\ [FlowNext]_flowVars => OneJobGoesOn'
  <1> SUFFICES ASSUME FlowInv, [FlowNext]_flowVars PROVE OneJobGoesOn'
    OBVIOUS
  <1>1. ASSUME NEW c \in Collectors, Collect(c) PROVE OneJobGoesOn'
    <2>1. CASE collecting = {}
      <3>1. c \in Callers /\ caller[c].job = None
        BY <1>1 DEF Collect, Callers, FlowInv, CallersWait
      <3> QED  BY <1>1, <2>1, <3>1, LaunchHidesNone DEF Collect
    <2>2. CASE collecting # {}
      BY <1>1, <2>2 DEF Collect, FlowInv, OneJobGoesOn, Alive
    <2> QED  BY <2>1, <2>2
  <1>2. ASSUME NEW c \in Collectors, StopCollecting(c) PROVE OneJobGoesOn'
    <2>1. UNCHANGED <<job, jobs>>  BY <1>2 DEF StopCollecting
    <2>2. \A d \in Callers : caller'[d].job = caller[d].job
      BY <1>2 DEF StopCollecting, FlowInv, FlowTypes
    <2> QED  BY <2>1, <2>2 DEF FlowInv, OneJobGoesOn, Alive
  <1>3. ASSUME NEW c \in Callers, CallerStep(c) PROVE OneJobGoesOn'
    BY <1>3, SwapsOne, CancelsOne DEF CallerStep
  <1>4. ASSUME NEW j \in Job, JobStep(j) PROVE OneJobGoesOn'
    <2> USE DEF GoTo, End, NoJob, Jobs
    <2>0. jobs \in [Job -> Jobs]
      BY DEF FlowInv, FlowTypes, Jobs
    <2> DEFINE Moves ==
          /\ jobs[j].at # "free"
          /\ \A k \in Job \ {j} : jobs'[k] = jobs[k]
          /\ jobs'[j].at = "free" \/ jobs'[j].cancelled = jobs[j].cancelled
    <2>1. Moves
      <3>0. CASE CheckConsumers(j)  BY <2>0, <3>0 DEF CheckConsumers
      <3>1. CASE TakeArg(j)  BY <2>0, <3>1 DEF TakeArg
      <3>2. CASE Begin(j)  BY <2>0, <3>2 DEF Begin
      <3>3. CASE Read(j)  BY <2>0, <3>3 DEF Read
      <3>4. CASE Resume(j)  BY <2>0, <3>4 DEF Resume
      <3>5. CASE Assign(j)  BY <2>0, <3>5 DEF Assign
      <3> QED  BY <1>4, <3>0, <3>1, <3>2, <3>3, <3>4, <3>5 DEF JobStep
    <2>2. job' = job /\ caller' = caller
      BY <1>4
      DEF JobStep, CheckConsumers, TakeArg, Begin, Read, Resume, Assign
    <2> QED  BY <2>1, <2>2, JobMoves
  <1>5. ASSUME NEW e \in Editor, Touch(e) PROVE OneJobGoesOn'
    <2>1. e \in Callers /\ caller[e].job = None
      BY <1>5 DEF Touch, FlowInv, CallersWait, Callers
    <2> QED  BY <1>5, <2>1, LaunchHidesNone DEF Touch
  <1>6. CASE UNCHANGED <<job, jobs, caller>>
    BY <1>6 DEF FlowInv, OneJobGoesOn, Alive
  <1> QED
    BY <1>1, <1>2, <1>3, <1>4, <1>5, <1>6
    DEF FlowNext, EditorStep, EditStorage, FastUpdate, EditUntouched, ClearCache,
        flow, flowVars

\* An actor that restarts is no editor under way, and its job is its own.
LEMMA CallerMoves ==
  ASSUME FlowInv, NEW c \in Callers, NEW r \in Restarts,
         caller' = [caller EXCEPT ![c] = r],
         r.at = "idle" => r.job = None,
         \A e \in Editor : editor'[e].at # "idle" =>
             e # c /\ editor[e].at # "idle"
  PROVE  CallersWait'
  BY DEF FlowInv, CallersWait, FlowTypes, Callers, Restarts

LEMMA NextCallersWait == FlowInv /\ [FlowNext]_flowVars => CallersWait'
  <1> SUFFICES ASSUME FlowInv, [FlowNext]_flowVars PROVE CallersWait'
    OBVIOUS
  <1>0. ASSUME NEW c \in Callers, Launch(c)
        PROVE  \E r \in Restarts : /\ r.at # "idle"
                                   /\ caller' = [caller EXCEPT ![c] = r]
    <2> DEFINE j == CHOOSE k \in FreeJobs : TRUE
    <2>1. j \in FreeJobs  BY <1>0 DEF Launch
    <2>2. [at |-> "swaps", job |-> j] \in Restarts  BY <2>1 DEF FreeJobs, Restarts
    <2>3. caller' = [caller EXCEPT ![c] = [at |-> "swaps", job |-> j]]
      BY <1>0 DEF Launch
    <2> HIDE DEF j
    <2> QED  BY <2>2, <2>3
  <1>1. ASSUME NEW c \in Collectors, Collect(c) \/ StopCollecting(c)
        PROVE  CallersWait'
    <2>1. c \in Callers /\ c \notin Editor /\ editor' = editor
      BY <1>1, ActorsAssumption DEF Callers, Collect, StopCollecting
    <2>2. CASE caller' = caller
      BY <2>1, <2>2 DEF FlowInv, CallersWait
    <2>3. CASE caller' # caller
      <3>1. PICK r \in Restarts : /\ r.at # "idle"
                                  /\ caller' = [caller EXCEPT ![c] = r]
        <4>1. CASE Collect(c)
          BY <1>0, <2>1, <2>3, <4>1 DEF Collect
        <4>2. CASE StopCollecting(c)
          <5> DEFINE r == [caller[c] EXCEPT !.at = "swaps"]
          <5>1. r \in Restarts /\ r.at = "swaps"
            BY <2>1 DEF FlowInv, FlowTypes, Restarts
          <5>2. caller' = [caller EXCEPT ![c] = r]
            BY <2>1, <2>3, <4>2 DEF StopCollecting, FlowInv, FlowTypes
          <5> QED  BY <5>1, <5>2
        <4> QED  BY <1>1, <4>1, <4>2
      <3> QED  BY <2>1, <3>1, CallerMoves
    <2> QED  BY <2>2, <2>3
  <1>2. ASSUME NEW c \in Callers, CallerStep(c) PROVE CallersWait'
    <2>1. editor' = editor /\ caller[c].at # "idle"
      BY <1>2 DEF CallerStep, Swap, CancelJob
    <2>2. \A e \in Editor : editor'[e].at # "idle" =>
             e # c /\ editor[e].at # "idle"
      BY <2>1 DEF FlowInv, CallersWait
    <2>3. Resting \in Restarts /\ Resting.job = None
      BY DEF Resting, Restarts
    <2>4. [at |-> "cancels", job |-> job] \in Restarts
      BY DEF Restarts, FlowInv, FlowTypes
    <2>5. CASE Swap(c)
      <3>1. PICK r \in {Resting, [at |-> "cancels", job |-> job]} :
               caller' = [caller EXCEPT ![c] = r]
        BY <2>5 DEF Swap
      <3> QED  BY <2>2, <2>3, <2>4, <3>1, CallerMoves
    <2>6. CASE CancelJob(c)
      BY <2>2, <2>3, <2>6, CallerMoves DEF CancelJob
    <2> QED  BY <1>2, <2>5, <2>6 DEF CallerStep
  <1>3. ASSUME NEW e \in Editor, EditorStep(e) PROVE CallersWait'
    <2>1. CASE EditStorage(e)
      BY <2>1 DEF EditStorage, flow, FlowInv, CallersWait, FlowTypes, NoEdit
    <2>2. CASE Touch(e)
      <3>1. \A f \in Editor : editor'[f].at # "idle" =>
               f # e /\ editor[f].at # "idle"
        BY <2>2 DEF Touch, NoEdit, FlowInv, FlowTypes
      <3>2. e \in Callers /\ Launch(e)  BY <2>2 DEF Touch, Callers
      <3> QED  BY <1>0, <3>1, <3>2, CallerMoves
    <2> QED  BY <1>3, <2>1, <2>2 DEF EditorStep
  <1>4. ASSUME NEW e \in Editor, NEW n \in Notes,
               FastUpdate(e, {n}, {}) \/ FastUpdate(e, {}, {n})
        PROVE  CallersWait'
    BY <1>4 DEF FastUpdate, FlowInv, CallersWait, FlowTypes
  <1>5. CASE UNCHANGED <<caller, editor>>
    BY <1>5 DEF FlowInv, CallersWait
  <1> QED
    BY <1>1, <1>2, <1>3, <1>4, <1>5
    DEF FlowNext, JobStep, CheckConsumers, TakeArg, Begin, Read, Resume, Assign,
        EditUntouched, ClearCache, flow, flowVars

-----------------------------------------------------------------------------
(* The list that is shown *)

Idle == \A e \in Editor : editor[e].at = "idle"

Uncancelled(j) == Alive(j) /\ ~ jobs[j].cancelled

\* the job launched last has not used up restartArg
Expects == Uncancelled(newest) /\ jobs[newest].at \in {"started", "asks", "taken"}

\* a forced job goes on to load the list, and shows it if it was launched last
Reloads == \E j \in Job : /\ Uncancelled(j) /\ jobs[j].force
                          /\ jobs[j].at \notin {"started", "asks"}

Empty == value = {} /\ (collecting = {} \/ Uncancelled(newest))

\* between edits the job launched last has read what the engine holds, and
\* what is shown is that, or somebody who collects gets it
Settling ==
    /\ newest # None /\ jobs[newest].at \in {"read", "has"} =>
          jobs[newest].seen = stored
    /\ restartArg => collecting = {} \/ Expects
    /\ restartArg \/ Reloads \/ Empty \/ value = stored

\* a job has the force of a touch only once it has taken the argument
ForceTaken ==
    \A j \in Job : jobs[j].at \in {"free", "started", "asks"} => ~ jobs[j].force

SInv == ForceTaken /\ (Idle /\ ~ excused => Settling)

\* A launch: the new job is the last one, and it has only been started; the
\* others are what they were, but for a free one.
LEMMA LaunchLast ==
  ASSUME FlowTypes, NEW c \in Callers, Launch(c)
  PROVE  /\ newest' \in Job /\ jobs[newest'].at = "free"
         /\ jobs'[newest'] = [NoJob EXCEPT !.at = "started"]
         /\ \A k \in Job \ {newest'} : jobs'[k] = jobs[k]
  <1> DEFINE j == CHOOSE k \in FreeJobs : TRUE
  <1>1. j \in FreeJobs  BY DEF Launch
  <1>2. j \in Job /\ jobs[j].at = "free"  BY <1>1 DEF FreeJobs
  <1>3. /\ jobs' = [jobs EXCEPT ![j] = [NoJob EXCEPT !.at = "started"]]
        /\ newest' = j
    BY DEF Launch
  <1> HIDE DEF j
  <1> QED  BY <1>2, <1>3 DEF FlowTypes

LEMMA LaunchedExpects ==
  ASSUME FlowTypes, NEW c \in Callers, Launch(c)
  PROVE  /\ Expects' /\ Uncancelled(newest)'
         /\ newest' # None /\ jobs'[newest'].at = "started"
         /\ Reloads => Reloads'
  <1>1. Expects' /\ Uncancelled(newest)' /\ jobs'[newest'].at = "started"
    BY LaunchLast, NoneAssumption DEF Expects, Uncancelled, Alive, NoJob
  <1>2. ASSUME Reloads PROVE Reloads'
    <2>1. PICK j \in Job : /\ Uncancelled(j) /\ jobs[j].force
                           /\ jobs[j].at \notin {"started", "asks"}
      BY <1>2 DEF Reloads
    <2>2. jobs'[j] = jobs[j]
      BY <2>1, LaunchLast DEF Uncancelled, Alive
    <2> QED  BY <2>1, <2>2 DEF Reloads, Uncancelled, Alive
  <1> QED  BY <1>1, <1>2, LaunchLast, NoneAssumption

\* A job is cancelled, and with it no force that the list needs.
LEMMA CancelledReloads ==
  ASSUME FlowTypes, ForceTaken, NEW l \in Job \cup {None},
         jobs' = Cancelled(l), ~ LosesForce(l), ~ restartArg, Reloads
  PROVE  Reloads'
  <1>0. jobs \in [Job -> Jobs]  BY DEF FlowTypes, Jobs
  <1>1. PICK j \in Job : /\ Uncancelled(j) /\ jobs[j].force
                         /\ jobs[j].at \notin {"started", "asks"}
    BY DEF Reloads
  <1>2. ASSUME NEW k \in Job, k # l
        PROVE  jobs'[k] = jobs[k]
    BY <1>0, <1>2 DEF Cancelled, Alive
  <1>3. CASE j # l
    BY <1>1, <1>2, <1>3 DEF Reloads, Uncancelled, Alive
  <1>4. CASE j = l
    <2>1. ForceLeft(j)
      BY <1>1, <1>4 DEF LosesForce, Uncancelled
    <2>2. PICK k \in Job \ {j} :
             /\ jobs[k].force /\ ~ jobs[k].cancelled
             /\ jobs[k].titles \/ jobs[k].at \notin {"read", "has"}
      BY <2>1 DEF ForceLeft
    <2>3. jobs[k].at \notin {"free", "started", "asks"}
      BY <2>2 DEF ForceTaken
    <2>4. k # None  BY NoneAssumption
    <2> QED  BY <1>2, <1>4, <2>2, <2>3, <2>4 DEF Reloads, Uncancelled, Alive
  <1> QED  BY <1>3, <1>4

LEMMA InitSInv == FlowInit => SInv
  BY DEF FlowInit, SInv, ForceTaken, Settling, Empty, NoJob

LEMMA NextForceTaken == FlowTypes /\ ForceTaken /\ [FlowNext]_flowVars => ForceTaken'
  <1> SUFFICES ASSUME FlowTypes, ForceTaken, [FlowNext]_flowVars PROVE ForceTaken'
    OBVIOUS
  <1>0. jobs \in [Job -> Jobs]  BY DEF FlowTypes, Jobs
  <1>1. ASSUME NEW c \in Callers, Launch(c) PROVE ForceTaken'
    BY <1>1, LaunchLast DEF ForceTaken, NoJob
  <1>2. ASSUME NEW j \in Job \cup {None}, jobs' = Cancelled(j) PROVE ForceTaken'
    BY <1>0, <1>2 DEF ForceTaken, Cancelled, Alive
  <1>3. ASSUME NEW c \in Collectors, Collect(c) \/ StopCollecting(c) PROVE ForceTaken'
    <2>1. c \in Callers  BY DEF Callers
    <2> QED  BY <1>1, <1>3, <2>1 DEF Collect, StopCollecting, ForceTaken
  <1>4. ASSUME NEW c \in Callers, CallerStep(c) PROVE ForceTaken'
    <2>1. caller[c].job \in Job \cup {None}  BY DEF FlowTypes
    <2> QED  BY <1>2, <1>4, <2>1 DEF CallerStep, Swap, CancelJob, ForceTaken
  <1>5. ASSUME NEW j \in Job, JobStep(j) PROVE ForceTaken'
    <2> USE <1>0 DEF ForceTaken, End, GoTo, NoJob, Jobs
    <2>0. CASE CheckConsumers(j)  BY <2>0 DEF CheckConsumers
    <2>1. CASE TakeArg(j)  BY <2>1 DEF TakeArg
    <2>2. CASE Begin(j)  BY <2>2 DEF Begin
    <2>3. CASE Read(j)  BY <2>3 DEF Read
    <2>4. CASE Resume(j)  BY <2>4 DEF Resume
    <2>5. CASE Assign(j)  BY <2>5 DEF Assign
    <2> QED  BY <1>5, <2>0, <2>1, <2>2, <2>3, <2>4, <2>5 DEF JobStep
  <1>6. ASSUME NEW e \in Editor, Touch(e) PROVE ForceTaken'
    <2>1. e \in Callers  BY DEF Callers
    <2> QED  BY <1>1, <1>6, <2>1 DEF Touch
  <1>7. CASE UNCHANGED jobs
    BY <1>7 DEF ForceTaken
  <1> QED
    BY <1>3, <1>4, <1>5, <1>6, <1>7
    DEF FlowNext, EditorStep, EditStorage, FastUpdate, EditUntouched, ClearCache,
        flow, flowVars

\* A step of a job, between edits.
LEMMA JobStepSettles ==
  ASSUME FlowInv, ForceTaken, Settling, NEW j \in Job, JobStep(j), ~ excused'
  PROVE  Settling'
  <1>0. jobs \in [Job -> Jobs] /\ j # None
    BY NoneAssumption DEF FlowInv, FlowTypes, Jobs
  <1> USE <1>0 DEF End, GoTo, NoJob, Jobs
  <1>1. UNCHANGED <<newest, stored, collecting>>
    BY DEF JobStep, CheckConsumers, TakeArg, Begin, Read, Resume, Assign
  <1>2. newest \in Job \cup {None}  BY DEF FlowInv, FlowTypes
  <1> DEFINE Others == \A k \in Job \ {j} : jobs'[k] = jobs[k]
  <1>3. ASSUME NEW k \in Job, Uncancelled(k), jobs[k].force,
               jobs[k].at \notin {"started", "asks"}, k # j, Others
        PROVE  Reloads'
    BY <1>3 DEF Reloads, Uncancelled, Alive
  <1>4. CASE CheckConsumers(j) \/ TakeArg(j)
    <2>1. Others /\ UNCHANGED <<value, restartArg>>
      BY <1>4 DEF CheckConsumers, TakeArg
    <2>2. Reloads => Reloads'
      BY <1>3, <1>4, <2>1 DEF Reloads, CheckConsumers, TakeArg
    <2>3. Expects /\ collecting # {} => Expects'
      BY <1>1, <1>2, <1>4 DEF Expects, Uncancelled, Alive, CheckConsumers, TakeArg
    <2>4. Empty => Empty'
      BY <1>1, <1>2, <1>4 DEF Empty, Uncancelled, Alive, CheckConsumers, TakeArg
    <2>5. newest # None /\ jobs'[newest].at \in {"read", "has"} =>
            jobs'[newest].seen = stored
      BY <1>2, <1>4 DEF Settling, CheckConsumers, TakeArg
    <2> QED  BY <1>1, <2>1, <2>2, <2>3, <2>4, <2>5 DEF Settling
  <1>5. CASE Begin(j)
    <2>1. Others /\ restartArg' = FALSE /\ value' = value
      BY <1>5 DEF Begin
    <2>2. jobs[j].force => Reloads'
      BY <1>5 DEF Begin, Excuse, Reloads, Uncancelled, Alive
    <2>3. restartArg => Reloads'
      BY <1>5, <2>2 DEF Begin, Excuse
    <2>4. Reloads => Reloads'
      BY <1>3, <2>1, <2>2 DEF Reloads
    <2>5. Empty => Empty'
      BY <1>1, <1>2, <1>5 DEF Empty, Uncancelled, Alive, Begin
    <2>6. newest # None /\ jobs'[newest].at \in {"read", "has"} =>
            jobs'[newest].seen = stored
      BY <1>2, <1>5 DEF Settling, Begin
    <2> QED  BY <1>1, <2>1, <2>3, <2>4, <2>5, <2>6 DEF Settling
  <1>6. CASE Read(j) \/ Resume(j)
    <2>1. Others /\ UNCHANGED <<value, restartArg>>
      BY <1>6 DEF Read, Resume
    <2>2. Reloads => Reloads'
      <3>1. ASSUME Uncancelled(j), jobs[j].force PROVE Reloads'
        BY <1>6, <3>1 DEF Read, Resume, Reloads, Uncancelled, Alive
      <3> QED  BY <1>3, <2>1, <3>1 DEF Reloads
    <2>3. Expects => Expects'
      BY <1>1, <1>2, <1>6 DEF Expects, Uncancelled, Alive, Read, Resume
    <2>4. Empty => Empty'
      BY <1>1, <1>2, <1>6 DEF Empty, Uncancelled, Alive, Read, Resume
    <2>5. newest # None /\ jobs'[newest].at \in {"read", "has"} =>
            jobs'[newest].seen = stored
      BY <1>2, <1>6 DEF Settling, Read, Resume
    <2> QED  BY <1>1, <2>1, <2>2, <2>3, <2>4, <2>5 DEF Settling
  <1>7. CASE Assign(j)
    <2>1. j = newest
      BY <1>7 DEF Assign, Excuse
    <2>2. value' = stored /\ restartArg' = restartArg
      BY <1>7, <2>1 DEF Assign, Settling
    <2>3. jobs'[j].at \notin {"read", "has"}
      BY <1>7 DEF Assign
    <2>4. restartArg => collecting = {}
      BY <1>7, <2>1 DEF Assign, Settling, Expects
    <2> QED  BY <1>1, <2>1, <2>2, <2>3, <2>4 DEF Settling
  <1> QED  BY <1>4, <1>5, <1>6, <1>7 DEF JobStep

\* A restart or a departure that cancels the job it swapped out.
LEMMA CancelSettles ==
  ASSUME FlowInv, ForceTaken, Settling, NEW l \in Job \cup {None},
         jobs' = Cancelled(l), ~ LosesForce(l), ~ Awaited(l),
         UNCHANGED <<value, stored, restartArg, newest, collecting>>
  PROVE  Settling'
  <1>0. jobs \in [Job -> Jobs] /\ FlowTypes /\ newest \in Job \cup {None}
    BY DEF FlowInv, FlowTypes, Jobs
  <1>1. newest # None /\ jobs'[newest].at \in {"read", "has"} =>
          jobs'[newest].seen = stored
    BY <1>0 DEF Settling, Cancelled, Alive
  <1>2. collecting # {} /\ Uncancelled(newest) =>
          Uncancelled(newest)' /\ jobs'[newest] = jobs[newest]
    BY <1>0 DEF Uncancelled, Cancelled, Alive, Awaited
  <1>3. restartArg => collecting = {} \/ Expects'
    BY <1>2 DEF Settling, Expects
  <1>4. Empty => Empty'
    BY <1>2 DEF Empty
  <1>5. Reloads => restartArg \/ Reloads'
    BY <1>0, CancelledReloads
  <1> QED  BY <1>1, <1>3, <1>4, <1>5 DEF Settling

LEMMA NextSInv == FlowInv /\ SInv /\ [FlowNext]_flowVars => SInv'
  <1> SUFFICES ASSUME FlowInv, SInv, [FlowNext]_flowVars PROVE SInv'
    OBVIOUS
  <1>0. FlowTypes /\ ForceTaken /\ ForceTaken'
    BY NextForceTaken DEF FlowInv, SInv
  <1> SUFFICES ASSUME Idle', ~ excused' PROVE Settling'
    BY <1>0 DEF SInv
  <1>2. ASSUME NEW c \in Collectors, Collect(c) PROVE Settling'
    <2>1. Settling /\ UNCHANGED <<value, stored, restartArg>>
      BY <1>2 DEF Collect, SInv, Idle
    <2>2. CASE collecting = {}
      <3>1. c \in Callers  BY DEF Callers
      <3>2. Launch(c)  BY <1>2, <2>2 DEF Collect
      <3>3. value = {} => Empty'
        BY <1>0, <2>1, <3>1, <3>2, LaunchedExpects DEF Empty
      <3> QED
        BY <1>0, <2>1, <3>1, <3>2, <3>3, LaunchedExpects DEF Settling, Empty
    <2>3. CASE collecting # {}
      <3>1. UNCHANGED <<jobs, newest>> /\ collecting' # {}
        BY <1>2, <2>3 DEF Collect
      <3> QED
        BY <2>1, <2>3, <3>1
        DEF Settling, Expects, Reloads, Empty, Uncancelled, Alive
    <2> QED  BY <2>2, <2>3
  <1>3. ASSUME NEW c \in Collectors, StopCollecting(c) PROVE Settling'
    <2>1. Settling /\ UNCHANGED <<value, stored, restartArg, newest, jobs>>
      BY <1>3 DEF StopCollecting, SInv, Idle
    <2>2. collecting = {} => collecting' = {}
      BY <1>3 DEF StopCollecting
    <2> QED
      BY <2>1, <2>2 DEF Settling, Expects, Reloads, Empty, Uncancelled, Alive
  <1>4. ASSUME NEW c \in Callers, CallerStep(c) PROVE Settling'
    <2>1. /\ Settling
          /\ UNCHANGED <<value, stored, restartArg, newest, collecting>>
      BY <1>4 DEF CallerStep, Swap, CancelJob, Excuse, SInv, Idle
    <2>2. CASE jobs' = jobs
      BY <2>1, <2>2 DEF Settling, Expects, Reloads, Empty, Uncancelled, Alive
    <2>3. CASE CancelJob(c)
      <3>1. caller[c].job \in Job \cup {None}  BY DEF FlowInv, FlowTypes
      <3> QED  BY <1>0, <2>1, <2>3, <3>1, CancelSettles DEF CancelJob, Excuse
    <2> QED  BY <1>4, <2>2, <2>3 DEF CallerStep, Swap
  <1>5. ASSUME NEW j \in Job, JobStep(j) PROVE Settling'
    <2>1. Settling
      BY <1>5 DEF JobStep, CheckConsumers, TakeArg, Begin, Read, Resume, Assign,
                  Excuse, SInv, Idle
    <2> QED  BY <1>0, <1>5, <2>1, JobStepSettles
  <1>6. ASSUME NEW e \in Editor, Touch(e) PROVE Settling'
    <2>1. Launch(e) /\ e \in Callers /\ restartArg' = TRUE
      BY <1>6 DEF Touch, Callers
    <2> QED  BY <1>0, <2>1, LaunchedExpects DEF Settling
  <1>7. ASSUME NEW e \in Editor, EditStorage(e) PROVE FALSE
    BY <1>7 DEF EditStorage, Idle, FlowInv, FlowTypes
  <1>8. ASSUME NEW e \in Editor, NEW n \in Notes,
               FastUpdate(e, {n}, {}) \/ FastUpdate(e, {}, {n})
        PROVE  FALSE
    BY <1>8 DEF FastUpdate, Idle, FlowInv, FlowTypes
  <1>9. ASSUME (\E n \in Notes : EditUntouched(n)) \/ ClearCache
        PROVE  FALSE
    BY <1>9 DEF EditUntouched, ClearCache, Excuse
  <1>10. CASE UNCHANGED flowVars
    BY <1>10 DEF flowVars, flow, SInv, Idle, Settling, Expects, Reloads, Empty,
                 Uncancelled, Alive
  <1> QED
    BY <1>2, <1>3, <1>4, <1>5, <1>6, <1>7, <1>8, <1>9, <1>10
    DEF FlowNext, EditorStep

\* Every variable of the flow keeps its type.
THEOREM TypesKept == FlowSpec => []FlowTypes
  <1> QED  BY InitTypes, NextTypes, PTL DEF FlowSpec

\* lazyStateFlow never leaves two jobs alive for good: one that is not
\* cancelled is the last job, or is about to be swapped in.
THEOREM OneJob == FlowSpec => []OneJobGoesOn
  <1>1. FlowInit => FlowInv
    BY InitTypes DEF FlowInit, FlowInv, CallersWait, OneJobGoesOn, Alive, NoJob, NoEdit,
       Resting
  <1>2. FlowInv /\ [FlowNext]_flowVars => FlowInv'
    BY NextTypes, NextOneJob, NextCallersWait DEF FlowInv
  <1>3. FlowInv => OneJobGoesOn  BY DEF FlowInv
  <1> QED  BY <1>1, <1>2, <1>3, PTL DEF FlowSpec

\* When everything has come to rest, the list somebody collects is what the
\* engine holds, unless a force was lost on the way: the touch of the last
\* edit reaches a job that reads after it and assigns last.
THEOREM ListSettles == FlowSpec => []SettledListIsCurrent
  <1>1. FlowInit => FlowInv /\ SInv
    BY InitTypes, InitSInv
    DEF FlowInit, FlowInv, CallersWait, OneJobGoesOn, Alive, NoJob, NoEdit,
       Resting
  <1>2. FlowInv /\ SInv /\ [FlowNext]_flowVars => FlowInv' /\ SInv'
    BY NextTypes, NextOneJob, NextCallersWait, NextSInv DEF FlowInv
  <1>3. FlowInv /\ SInv => SettledListIsCurrent
    <2> SUFFICES ASSUME FlowInv, SInv, Quiet, collecting # {}, ~ excused
                 PROVE  value = stored
      BY DEF SettledListIsCurrent
    <2>1. Settling  BY DEF SInv, Idle, Quiet
    <2>2. ~ Reloads /\ ~ Uncancelled(newest)
      BY DEF Reloads, Uncancelled, Alive, Quiet, FlowInv, FlowTypes
    <2> QED  BY <2>1, <2>2 DEF Settling, Expects, Empty
  <1> QED  BY <1>1, <1>2, <1>3, PTL DEF FlowSpec

-----------------------------------------------------------------------------
(***************************************************************************)
(* ReadWriteMutex: for every set of coroutines and whatever becomes of     *)
(* their decrements, it is a read-write lock as long as no reader is       *)
(* cancelled before it has been counted (the run rwmutex_cancel_waiting    *)
(* shows that this condition is needed).                                   *)
(***************************************************************************)

\* Readers are cancelled after readers++ only.
CancelledOnceCounted == CancelPoints \cap {"waitAllowReads", "waitState"} = {}

\* the first reader has been counted and waits for the writers
FirstWaits == \E p \in Process : pc[p] = "waitNoWriter"

\* the last reader unlocks what the first one locked
LastUnlocks ==
    \A p \in Process :
        pc[p] = "leaving" /\ readers = 0 => allowNewWrites = This

\* nobody reads before the first reader has locked the writers out
FirstAlone ==
    \A p, q \in Process : pc[p] = "waitNoWriter" => pc[q] # "reading"

\* A lost decrement only makes the counter too large, and while it is not zero
\* the writers are locked out and the state says so.
IInv ==
    /\ TypeOK
    /\ readers >= Cardinality(Counted)
    /\ readers > 0 /\ ~FirstWaits => allowNewWrites = This /\ locked
    /\ LastUnlocks /\ FirstAlone
    /\ \A p \in Process : pc[p] = "writing" => locked

-----------------------------------------------------------------------------

USE DEF Points, ReadPoints, WritePoints

\* TypeOK, action by action: each mutex is held at the points where the code
\* holds it.
LEMMA TypeStep == TypeOK /\ LastUnlocks /\ [Next]_vars => TypeOK'
<1> SUFFICES ASSUME TypeOK, LastUnlocks, [Next]_vars PROVE TypeOK'
    OBVIOUS
<1> USE OwnersAssumption DEF TypeOK, Goto, mutexes
<1>1. ASSUME NEW p \in Process, WantRead(p) PROVE TypeOK'
    BY <1>1 DEF WantRead
<1>2. ASSUME NEW p \in Process, TakeAllowReads(p) PROVE TypeOK'
    BY <1>2 DEF TakeAllowReads
<1>3. ASSUME NEW p \in Process, CountReader(p) PROVE TypeOK'
    BY <1>3 DEF CountReader
<1>4. ASSUME NEW p \in Process, LockWritesOut(p) PROVE TypeOK'
    BY <1>4 DEF LockWritesOut
<1>5. ASSUME NEW p \in Process, StartReading(p) PROVE TypeOK'
    BY <1>5 DEF StartReading
<1>6. ASSUME NEW p \in Process, StopReading(p) PROVE TypeOK'
    BY <1>6 DEF StopReading
<1>7. ASSUME NEW p \in Process, UncountReader(p) PROVE TypeOK'
  <2>1. /\ stateLock = NoOne /\ stateLock' = p /\ readers' = readers - 1
        /\ pc[p] \in {"waitStateAgain", "cancelled"}
        /\ pc' = [pc EXCEPT ![p] = "leaving"]
        /\ UNCHANGED <<allowNewReads, allowNewWrites>>
        /\ locked' \in BOOLEAN
    BY <1>7, Zenon DEF UncountReader, Uncount
  <2> QED
    BY <2>1
<1>8. ASSUME NEW p \in Process, Leave(p) PROVE TypeOK'
    BY <1>8 DEF Leave, LastUnlocks
<1>9. ASSUME NEW p \in Process, WantWrite(p) PROVE TypeOK'
    BY <1>9 DEF WantWrite
<1>10. ASSUME NEW p \in Process, TakeAllowWrite(p) PROVE TypeOK'
    BY <1>10 DEF TakeAllowWrite
<1>11. ASSUME NEW p \in Process, StartWriting(p) PROVE TypeOK'
    BY <1>11 DEF StartWriting
<1>12. ASSUME NEW p \in Process, StopWriting(p) PROVE TypeOK'
    BY <1>12 DEF StopWriting
<1>13. ASSUME NEW p \in Process, CancelReader(p) PROVE TypeOK'
    BY <1>13 DEF CancelReader
<1>14. ASSUME NEW p \in Process, CancelledUncount(p) PROVE TypeOK'
  <2>1. /\ stateLock = NoOne /\ stateLock' = p /\ readers' = readers - 1
        /\ pc[p] \in {"waitStateAgain", "cancelled"}
        /\ pc' = [pc EXCEPT ![p] = "leaving"]
        /\ UNCHANGED <<allowNewReads, allowNewWrites>>
        /\ locked' \in BOOLEAN
    BY <1>14, Zenon DEF CancelledUncount, Uncount
  <2> QED
    BY <2>1
<1>15. ASSUME NEW p \in Process, GiveUpUncount(p) PROVE TypeOK'
    BY <1>15 DEF GiveUpUncount
<1>16. ASSUME NEW p \in Process, CancelWriter(p) PROVE TypeOK'
    BY <1>16 DEF CancelWriter
<1>17. CASE UNCHANGED vars
    BY <1>17 DEF vars
<1> QED
    BY <1>1, <1>2, <1>3, <1>4, <1>5, <1>6, <1>7, <1>8, <1>9, <1>10, <1>11,
       <1>12, <1>13, <1>14, <1>15, <1>16, <1>17
    DEF Next, Reading, Writing, Cancelling

-----------------------------------------------------------------------------
(* The counter *)

LEMMA CountedFinite ==
    /\ IsFiniteSet(Counted) /\ Cardinality(Counted) \in Nat
    /\ IsFiniteSet(Counted') /\ Cardinality(Counted') \in Nat
    /\ \A p \in Counted : Cardinality(Counted) > 0
<1>1. IsFiniteSet(Counted) /\ IsFiniteSet(Counted')
    BY ProcessAssumption, FS_Subset DEF Counted
<1>2. Cardinality(Counted) \in Nat /\ Cardinality(Counted') \in Nat
    BY <1>1, FS_CardinalityType
<1>3. ASSUME NEW p \in Counted PROVE Cardinality(Counted) # 0
    BY <1>1, FS_EmptySet
<1> QED
    BY <1>1, <1>2, <1>3

\* One coroutine moves: how the number of counted ones follows.
LEMMA CountedMoves ==
    ASSUME NEW p \in Process, NEW here \in Points, pc \in [Process -> Points],
           pc' = [pc EXCEPT ![p] = here]
    PROVE  /\ (pc[p] \in CountedPoints <=> here \in CountedPoints) =>
                  Cardinality(Counted') = Cardinality(Counted)
           /\ pc[p] \notin CountedPoints /\ here \in CountedPoints =>
                  Cardinality(Counted') = Cardinality(Counted) + 1
           /\ pc[p] \in CountedPoints /\ here \notin CountedPoints =>
                  Cardinality(Counted') = Cardinality(Counted) - 1
<1>1. CASE pc[p] \in CountedPoints <=> here \in CountedPoints
    <2>1. Counted' = Counted
        BY <1>1 DEF Counted
    <2> QED
        BY <2>1, <1>1
<1>2. CASE pc[p] \notin CountedPoints /\ here \in CountedPoints
    <2>1. Counted' = Counted \cup {p} /\ p \notin Counted
        BY <1>2 DEF Counted
    <2> QED
        BY <2>1, <1>2, CountedFinite, FS_AddElement
<1>3. CASE pc[p] \in CountedPoints /\ here \notin CountedPoints
    <2>1. Counted' = Counted \ {p} /\ p \in Counted
        BY <1>3 DEF Counted
    <2> QED
        BY <2>1, <1>3, CountedFinite, FS_RemoveElement
<1> QED
    BY <1>1, <1>2, <1>3

\* The inductive step: LastUnlocks and what the counter says of the writers.
LEMMA CounterStep ==
    ASSUME CancelledOnceCounted, IInv, [Next]_vars
    PROVE  /\ readers' >= Cardinality(Counted')
           /\ (readers > 0 /\ ~FirstWaits => allowNewWrites = This /\ locked)'
           /\ LastUnlocks' /\ FirstAlone'
           /\ \A q \in Process : pc'[q] = "writing" => locked'
<1> DEFINE Goal == /\ readers' >= Cardinality(Counted')
                   /\ (readers > 0 /\ ~FirstWaits =>
                          allowNewWrites = This /\ locked)'
                   /\ LastUnlocks' /\ FirstAlone'
                   /\ \A q \in Process : pc'[q] = "writing" => locked'
<1>0. /\ pc \in [Process -> Points] /\ readers \in Int
      /\ Cardinality(Counted) \in Nat /\ Cardinality(Counted') \in Nat
      /\ \A p \in Counted : Cardinality(Counted) > 0
      /\ readers >= Cardinality(Counted)
    BY CountedFinite DEF IInv, TypeOK
<1> USE OwnersAssumption DEF Goto, mutexes
<1>1. ASSUME NEW p \in Process, WantRead(p) PROVE Goal
    <2>1. /\ pc' = [pc EXCEPT ![p] = "waitAllowReads"] /\ pc[p] \notin CountedPoints
          /\ "waitAllowReads" \in Points /\ "waitAllowReads" \notin CountedPoints
        BY <1>1 DEF WantRead, CountedPoints
    <2>2. Cardinality(Counted') = Cardinality(Counted)
        BY <1>0, <2>1, CountedMoves
    <2> QED
        BY <1>0, <1>1, <2>2
        DEF WantRead, IInv, TypeOK, FirstWaits, LastUnlocks, FirstAlone
<1>2. ASSUME NEW p \in Process, TakeAllowReads(p) PROVE Goal
    <2>1. /\ pc' = [pc EXCEPT ![p] = "waitState"] /\ pc[p] \notin CountedPoints
          /\ "waitState" \in Points /\ "waitState" \notin CountedPoints
        BY <1>2 DEF TakeAllowReads, CountedPoints
    <2>2. Cardinality(Counted') = Cardinality(Counted)
        BY <1>0, <2>1, CountedMoves
    <2> QED
        BY <1>0, <1>2, <2>2
        DEF TakeAllowReads, IInv, TypeOK, FirstWaits, LastUnlocks, FirstAlone
<1>3. ASSUME NEW p \in Process, CountReader(p) PROVE Goal
    <2>1. CASE readers = 0
        <3>1. Cardinality(Counted') = Cardinality(Counted) + 1
            BY <1>0, <1>3, <2>1, CountedMoves DEF CountReader, CountedPoints
        <3> QED
            BY <1>0, <1>3, <2>1, <3>1
            DEF CountReader, IInv, TypeOK, FirstWaits, LastUnlocks, FirstAlone,
                Counted, CountedPoints
    <2>2. CASE readers # 0
        <3>1. Cardinality(Counted') = Cardinality(Counted) + 1
            BY <1>0, <1>3, <2>2, CountedMoves DEF CountReader, CountedPoints
        <3> QED
            BY <1>0, <1>3, <2>2, <3>1
            DEF CountReader, IInv, TypeOK, FirstWaits, LastUnlocks, FirstAlone,
                Counted, CountedPoints
    <2> QED
        BY <2>1, <2>2
<1>4. ASSUME NEW p \in Process, LockWritesOut(p) PROVE Goal
    <2>1. /\ pc' = [pc EXCEPT ![p] = "entering"] /\ pc[p] \in CountedPoints
          /\ "entering" \in Points /\ "entering" \in CountedPoints
        BY <1>4 DEF LockWritesOut, CountedPoints
    <2>2. Cardinality(Counted') = Cardinality(Counted)
        BY <1>0, <2>1, CountedMoves
    <2> QED
        BY <1>0, <1>4, <2>2
        DEF LockWritesOut, IInv, TypeOK, FirstWaits, LastUnlocks, FirstAlone
<1>5. ASSUME NEW p \in Process, StartReading(p) PROVE Goal
    <2>1. /\ pc' = [pc EXCEPT ![p] = "reading"] /\ pc[p] \in CountedPoints
          /\ "reading" \in Points /\ "reading" \in CountedPoints
        BY <1>5 DEF StartReading, CountedPoints
    <2>2. Cardinality(Counted') = Cardinality(Counted)
        BY <1>0, <2>1, CountedMoves
    <2> QED
        BY <1>0, <1>5, <2>2
        DEF StartReading, IInv, TypeOK, FirstWaits, LastUnlocks, FirstAlone
<1>6. ASSUME NEW p \in Process, StopReading(p) PROVE Goal
    <2>1. /\ pc' = [pc EXCEPT ![p] = "waitStateAgain"] /\ pc[p] \in CountedPoints
          /\ "waitStateAgain" \in Points /\ "waitStateAgain" \in CountedPoints
        BY <1>6 DEF StopReading, CountedPoints
    <2>2. Cardinality(Counted') = Cardinality(Counted)
        BY <1>0, <2>1, CountedMoves
    <2> QED
        BY <1>0, <1>6, <2>2
        DEF StopReading, IInv, TypeOK, FirstWaits, LastUnlocks, FirstAlone
<1>7. ASSUME NEW p \in Process, UncountReader(p) PROVE Goal
    <2>1. /\ pc' = [pc EXCEPT ![p] = "leaving"] /\ pc[p] \in CountedPoints
          /\ "leaving" \in Points /\ "leaving" \notin CountedPoints
        BY <1>7 DEF UncountReader, Uncount, CountedPoints
    <2>2. Cardinality(Counted') = Cardinality(Counted) - 1
        BY <1>0, <2>1, CountedMoves
    <2> QED
        BY <1>0, <1>7, <2>2
        DEF UncountReader, Uncount, IInv, TypeOK, FirstWaits, LastUnlocks, FirstAlone, Counted, CountedPoints
<1>8. ASSUME NEW p \in Process, Leave(p) PROVE Goal
    <2>1. /\ pc' = [pc EXCEPT ![p] = "idle"] /\ pc[p] \notin CountedPoints
          /\ "idle" \in Points /\ "idle" \notin CountedPoints
        BY <1>8 DEF Leave, CountedPoints
    <2>2. Cardinality(Counted') = Cardinality(Counted)
        BY <1>0, <2>1, CountedMoves
    <2> QED
        BY <1>0, <1>8, <2>2
        DEF Leave, IInv, TypeOK, FirstWaits, LastUnlocks, FirstAlone
<1>9. ASSUME NEW p \in Process, WantWrite(p) PROVE Goal
    <2>1. /\ pc' = [pc EXCEPT ![p] = "waitAllowWrite"] /\ pc[p] \notin CountedPoints
          /\ "waitAllowWrite" \in Points /\ "waitAllowWrite" \notin CountedPoints
        BY <1>9 DEF WantWrite, CountedPoints
    <2>2. Cardinality(Counted') = Cardinality(Counted)
        BY <1>0, <2>1, CountedMoves
    <2> QED
        BY <1>0, <1>9, <2>2
        DEF WantWrite, IInv, TypeOK, FirstWaits, LastUnlocks, FirstAlone
<1>10. ASSUME NEW p \in Process, TakeAllowWrite(p) PROVE Goal
    <2>1. /\ pc' = [pc EXCEPT ![p] = "waitReaders"] /\ pc[p] \notin CountedPoints
          /\ "waitReaders" \in Points /\ "waitReaders" \notin CountedPoints
        BY <1>10 DEF TakeAllowWrite, CountedPoints
    <2>2. Cardinality(Counted') = Cardinality(Counted)
        BY <1>0, <2>1, CountedMoves
    <2> QED
        BY <1>0, <1>10, <2>2
        DEF TakeAllowWrite, IInv, TypeOK, FirstWaits, LastUnlocks, FirstAlone
<1>11. ASSUME NEW p \in Process, StartWriting(p) PROVE Goal
    <2>1. /\ pc' = [pc EXCEPT ![p] = "writing"] /\ pc[p] \notin CountedPoints
          /\ "writing" \in Points /\ "writing" \notin CountedPoints
        BY <1>11 DEF StartWriting, CountedPoints
    <2>2. Cardinality(Counted') = Cardinality(Counted)
        BY <1>0, <2>1, CountedMoves
    <2> QED
        BY <1>0, <1>11, <2>2
        DEF StartWriting, IInv, TypeOK, FirstWaits, LastUnlocks, FirstAlone
<1>12. ASSUME NEW p \in Process, StopWriting(p) PROVE Goal
    <2>1. /\ pc' = [pc EXCEPT ![p] = "idle"] /\ pc[p] \notin CountedPoints
          /\ "idle" \in Points /\ "idle" \notin CountedPoints
        BY <1>12 DEF StopWriting, CountedPoints
    <2>2. Cardinality(Counted') = Cardinality(Counted)
        BY <1>0, <2>1, CountedMoves
    <2> QED
        BY <1>0, <1>12, <2>2
        DEF StopWriting, IInv, TypeOK, FirstWaits, LastUnlocks, FirstAlone
<1>13. ASSUME NEW p \in Process, CancelReader(p) PROVE Goal
    <2>1. /\ pc' = [pc EXCEPT ![p] = "cancelled"] /\ pc[p] \in CountedPoints
          /\ "cancelled" \in Points /\ "cancelled" \in CountedPoints
        BY <1>13 DEF CancelReader, CountedPoints, CancelledOnceCounted
    <2>2. Cardinality(Counted') = Cardinality(Counted)
        BY <1>0, <2>1, CountedMoves
    <2> QED
        BY <1>0, <1>13, <2>2
        DEF CancelReader, IInv, TypeOK, FirstWaits, LastUnlocks, FirstAlone
<1>14. ASSUME NEW p \in Process, CancelledUncount(p) PROVE Goal
    <2>1. /\ pc' = [pc EXCEPT ![p] = "leaving"] /\ pc[p] \in CountedPoints
          /\ "leaving" \in Points /\ "leaving" \notin CountedPoints
        BY <1>14 DEF CancelledUncount, Uncount, CountedPoints
    <2>2. Cardinality(Counted') = Cardinality(Counted) - 1
        BY <1>0, <2>1, CountedMoves
    <2> QED
        BY <1>0, <1>14, <2>2
        DEF CancelledUncount, Uncount, IInv, TypeOK, FirstWaits, LastUnlocks, FirstAlone, Counted, CountedPoints
<1>15. ASSUME NEW p \in Process, GiveUpUncount(p) PROVE Goal
    <2>1. /\ pc' = [pc EXCEPT ![p] = "idle"] /\ pc[p] \in CountedPoints
          /\ "idle" \in Points /\ "idle" \notin CountedPoints
        BY <1>15 DEF GiveUpUncount, CountedPoints
    <2>2. Cardinality(Counted') = Cardinality(Counted) - 1
        BY <1>0, <2>1, CountedMoves
    <2> QED
        BY <1>0, <1>15, <2>2
        DEF GiveUpUncount, IInv, TypeOK, FirstWaits, LastUnlocks, FirstAlone, Counted, CountedPoints
<1>16. ASSUME NEW p \in Process, CancelWriter(p) PROVE Goal
    <2>1. /\ pc' = [pc EXCEPT ![p] = "idle"] /\ pc[p] \notin CountedPoints
          /\ "idle" \in Points /\ "idle" \notin CountedPoints
        BY <1>16 DEF CancelWriter, CountedPoints
    <2>2. Cardinality(Counted') = Cardinality(Counted)
        BY <1>0, <2>1, CountedMoves
    <2> QED
        BY <1>0, <1>16, <2>2
        DEF CancelWriter, IInv, TypeOK, FirstWaits, LastUnlocks, FirstAlone
<1>17. CASE UNCHANGED vars
    <2>1. Counted' = Counted
        BY <1>17 DEF vars, Counted
    <2> QED
        BY <1>0, <1>17, <2>1 DEF vars, IInv, FirstWaits, LastUnlocks, FirstAlone
<1> QED
    BY <1>1, <1>2, <1>3, <1>4, <1>5, <1>6, <1>7, <1>8, <1>9,
       <1>10, <1>11, <1>12, <1>13, <1>14, <1>15, <1>16, <1>17
    DEF Next, Reading, Writing, Cancelling

-----------------------------------------------------------------------------
(* The theorems *)

LEMMA InitIInv == Init => IInv
<1> SUFFICES ASSUME Init PROVE IInv
    OBVIOUS
<1>1. Counted = {}
    BY DEF Init, Counted, CountedPoints
<1>2. Cardinality(Counted) = 0
    BY <1>1, FS_EmptySet
<1>3. TypeOK
    <2>1. /\ pc \in [Process -> Points] /\ readers \in Int
          /\ allowNewWrites \in Process \cup {NoOne, This}
        BY DEF Init
    <2>3. locked \in BOOLEAN
        BY Zenon DEF Init
    <2>2. \A p \in Process : /\ pc[p] = "idle" /\ allowNewReads # p
                             /\ stateLock # p /\ allowNewWrites # p
        BY OwnersAssumption DEF Init
    <2> QED
        BY <2>1, <2>2, <2>3 DEF TypeOK
<1>4. readers = 0 /\ \A p \in Process : pc[p] = "idle"
    BY DEF Init
<1> QED
    BY <1>2, <1>3, <1>4 DEF IInv, FirstWaits, LastUnlocks, FirstAlone

LEMMA StepIInv == CancelledOnceCounted /\ IInv /\ [Next]_vars => IInv'
<1> SUFFICES ASSUME CancelledOnceCounted, IInv, [Next]_vars PROVE IInv'
    OBVIOUS
<1>1. TypeOK'
    BY TypeStep DEF IInv
<1>2. /\ readers' >= Cardinality(Counted')
      /\ (readers > 0 /\ ~FirstWaits => allowNewWrites = This /\ locked)'
      /\ LastUnlocks' /\ FirstAlone'
      /\ \A q \in Process : pc'[q] = "writing" => locked'
    BY CounterStep
<1> QED
    BY <1>1, <1>2 DEF IInv

\* A reader that runs its block is counted, so the writers are locked out.
LEMMA ReadingLocksOut ==
    ASSUME IInv, NEW p \in Process, pc[p] = "reading"
    PROVE  allowNewWrites = This /\ locked
<1>1. p \in Counted /\ ~FirstWaits
    BY DEF IInv, FirstAlone, FirstWaits, Counted, CountedPoints
<1>2. readers > 0
    BY <1>1, CountedFinite DEF IInv, TypeOK
<1> QED
    BY <1>1, <1>2 DEF IInv

LEMMA Invariant == CancelledOnceCounted => (Spec => []IInv)
<1> SUFFICES ASSUME CancelledOnceCounted PROVE Spec => []IInv
    OBVIOUS
<1>1. IInv /\ [Next]_vars => IInv'
    BY StepIInv
<1> QED
    BY <1>1, InitIInv, PTL DEF Spec

\* withReadLock and withWriteLock: each of the three mutexes is held by one
\* coroutine at a time, at the points of the code between its lock and unlock.
THEOREM MutexesHeld == CancelledOnceCounted => (Spec => []TypeOK)
<1>1. IInv => TypeOK
    BY DEF IInv
<1> QED
    BY <1>1, Invariant, PTL

\* state is UNLOCKED only while no block runs under the lock.
THEOREM StateIsLocked == CancelledOnceCounted => (Spec => []LockedWhileUsed)
<1>1. IInv => LockedWhileUsed
    BY ReadingLocksOut DEF IInv, LockedWhileUsed
<1> QED
    BY <1>1, Invariant, PTL

-----------------------------------------------------------------------------
(* Nobody locks the writers out for nothing *)

\* The writers are locked out while the counter is not zero, and from there
\* until the last reader has left.
WritersOut ==
    allowNewWrites = This =>
        readers > 0 \/ \E p \in Process : pc[p] = "leaving"

LEMMA WritersOutStep == IInv /\ WritersOut /\ [Next]_vars => WritersOut'
<1> SUFFICES ASSUME IInv, WritersOut, [Next]_vars PROVE WritersOut'
    OBVIOUS
<1>0. /\ readers \in Int /\ readers >= 0
      /\ pc \in [Process -> Points]
      /\ \A p \in Counted : readers > 0
    BY CountedFinite DEF IInv, TypeOK
<1> USE OwnersAssumption DEF WritersOut, Goto, mutexes
<1>1. ASSUME NEW p \in Process,
             \/ WantRead(p) \/ TakeAllowReads(p) \/ StartReading(p)
             \/ StopReading(p) \/ WantWrite(p) \/ TakeAllowWrite(p)
      PROVE  WritersOut'
    BY <1>0, <1>1 DEF WantRead, TakeAllowReads, StartReading, StopReading,
                      WantWrite, TakeAllowWrite
<1>2. ASSUME NEW p \in Process, CountReader(p) PROVE WritersOut'
    BY <1>0, <1>2 DEF CountReader
<1>3. ASSUME NEW p \in Process, LockWritesOut(p) PROVE WritersOut'
    BY <1>0, <1>3 DEF LockWritesOut, Counted, CountedPoints
<1>4. ASSUME NEW p \in Process, UncountReader(p) \/ CancelledUncount(p)
      PROVE  WritersOut'
    <2>1. pc'[p] = "leaving"
        BY <1>0, <1>4 DEF UncountReader, CancelledUncount, Uncount
    <2> QED BY <2>1
<1>5. ASSUME NEW p \in Process, Leave(p) PROVE WritersOut'
    BY <1>0, <1>5 DEF Leave
<1>6. ASSUME NEW p \in Process, StartWriting(p) \/ StopWriting(p)
      PROVE  WritersOut'
    BY <1>0, <1>6 DEF StartWriting, StopWriting
<1>7. ASSUME NEW p \in Process,
             CancelReader(p) \/ GiveUpUncount(p) \/ CancelWriter(p)
      PROVE  WritersOut'
    BY <1>0, <1>7 DEF CancelReader, GiveUpUncount, CancelWriter
<1>8. CASE UNCHANGED vars
    BY <1>8 DEF vars
<1> QED
    BY <1>1, <1>2, <1>3, <1>4, <1>5, <1>6, <1>7, <1>8
    DEF Next, Reading, Writing, Cancelling

\* "we're draining all outstanding readers to admit the writer": while no
\* reader is left the writers are not locked out, unless a cancelled reader
\* could not decrement the counter.
THEOREM BlockedByLostDecrements ==
    CancelledOnceCounted => (Spec => []OnlyLostDecrementsBlock)
<1> SUFFICES ASSUME CancelledOnceCounted PROVE Spec => []OnlyLostDecrementsBlock
    OBVIOUS
<1>1. Init => WritersOut
    BY OwnersAssumption DEF Init, WritersOut
<1>2. WritersOut => OnlyLostDecrementsBlock
    <2>1. Cardinality({}) = 0
        BY FS_EmptySet
    <2> QED BY <2>1 DEF WritersOut, OnlyLostDecrementsBlock, DecrementLost
<1> QED BY <1>1, <1>2, Invariant, WritersOutStep, PTL DEF Spec

-----------------------------------------------------------------------------
(* Refinement *)

\* A block begins or ends at four steps; all others leave the blocks alone.
LEMMA BlockStep == IInv /\ [Next]_vars => [Lock!Next]_blocks
<1> SUFFICES ASSUME IInv, [Next]_vars PROVE Lock!Next \/ UNCHANGED blocks
    OBVIOUS
<1> DEFINE Moves(p, here) == pc' = [pc EXCEPT ![p] = here]
<1>0. pc \in [Process -> Points]
    BY DEF IInv, TypeOK
\* a step that neither begins nor ends a block
<1>1. ASSUME NEW p \in Process, NEW here \in Points, Moves(p, here),
             here \notin {"reading", "writing"},
             pc[p] \notin {"reading", "writing"}
      PROVE  UNCHANGED blocks
    <2>1. \A q \in Process : /\ pc'[q] = "reading" <=> pc[q] = "reading"
                             /\ pc'[q] = "writing" <=> pc[q] = "writing"
        BY <1>0, <1>1
    <2> QED
        BY <2>1 DEF blocks
\* a block ends
<1>2. ASSUME NEW p \in Process, NEW here \in Points, Moves(p, here),
             here \notin {"reading", "writing"},
             pc[p] \in {"reading", "writing"}
      PROVE  Lock!Exit(p)
    <2>1. blocks[p] # "none"
        BY <1>2 DEF blocks
    <2>2. blocks' = [blocks EXCEPT ![p] = "none"]
        BY <1>0, <1>2 DEF blocks
    <2> QED
        BY <2>1, <2>2 DEF Lock!Exit
<1>3. ASSUME NEW p \in Process, StartReading(p)
      PROVE  Lock!EnterRead(p)
    <2>1. pc[p] = "entering" /\ Moves(p, "reading") /\ allowNewReads = p
        BY <1>3 DEF StartReading, Goto, IInv, TypeOK
    <2>2. \A q \in Process : pc[q] # "writing"
        BY <2>1 DEF IInv, TypeOK
    <2>3. \A q \in Process : blocks[q] # "write"
        BY <2>2 DEF blocks
    <2>4. blocks[p] = "none"
        BY <2>1 DEF blocks
    <2>5. blocks' = [blocks EXCEPT ![p] = "read"]
        BY <1>0, <2>1 DEF blocks
    <2> QED
        BY <2>3, <2>4, <2>5 DEF Lock!EnterRead
<1>4. ASSUME NEW p \in Process, StartWriting(p)
      PROVE  Lock!EnterWrite(p)
    <2>1. /\ pc[p] = "waitReaders" /\ Moves(p, "writing")
          /\ allowNewReads = p /\ allowNewWrites = NoOne
        BY <1>4 DEF StartWriting, Goto, IInv, TypeOK
    <2>2. \A q \in Process : pc[q] # "writing"
        BY <2>1 DEF IInv, TypeOK
    <2>3. \A q \in Process : pc[q] # "reading"
        BY <2>1, ReadingLocksOut, OwnersAssumption
    <2>4. \A q \in Process : blocks[q] = "none"
        BY <2>2, <2>3 DEF blocks
    <2>5. blocks' = [blocks EXCEPT ![p] = "write"]
        BY <1>0, <2>1 DEF blocks
    <2> QED
        BY <2>4, <2>5 DEF Lock!EnterWrite
\* where the other steps lead
<1>5. ASSUME NEW p \in Process,
             \/ WantRead(p) \/ TakeAllowReads(p) \/ CountReader(p)
             \/ LockWritesOut(p) \/ StopReading(p) \/ UncountReader(p)
             \/ Leave(p) \/ WantWrite(p) \/ TakeAllowWrite(p)
             \/ StopWriting(p) \/ Cancelling(p)
      PROVE  \E here \in Points \ {"reading", "writing"} : Moves(p, here)
    <2>1. \/ Moves(p, "idle") \/ Moves(p, "waitAllowReads")
          \/ Moves(p, "waitState") \/ Moves(p, "waitNoWriter")
          \/ Moves(p, "entering") \/ Moves(p, "waitStateAgain")
          \/ Moves(p, "leaving") \/ Moves(p, "waitAllowWrite")
          \/ Moves(p, "waitReaders") \/ Moves(p, "cancelled")
        BY <1>5
        DEF WantRead, TakeAllowReads, CountReader, LockWritesOut, StopReading,
            UncountReader, Uncount, Leave, WantWrite, TakeAllowWrite,
            StopWriting, Cancelling, CancelReader, CancelledUncount,
            GiveUpUncount, CancelWriter, Goto
    <2> QED
        BY <2>1
<1>6. CASE UNCHANGED vars
    BY <1>6 DEF vars, blocks
<1>7. CASE Next
    <2>1. PICK p \in Process :
              WantRead(p) \/ Reading(p) \/ WantWrite(p) \/ Writing(p)
              \/ Cancelling(p)
        BY <1>7 DEF Next
    <2>2. CASE StartReading(p)
        BY <2>2, <1>3 DEF Lock!Next
    <2>3. CASE StartWriting(p)
        BY <2>3, <1>4 DEF Lock!Next
    <2>4. CASE ~StartReading(p) /\ ~StartWriting(p)
        <3>1. PICK here \in Points \ {"reading", "writing"} : Moves(p, here)
            BY <2>1, <2>4, <1>5 DEF Reading, Writing
        <3>2. CASE pc[p] \in {"reading", "writing"}
            <4>1. Lock!Exit(p)
                BY <3>1, <3>2, <1>2
            <4> QED
                BY <4>1 DEF Lock!Next
        <3>3. CASE pc[p] \notin {"reading", "writing"}
            BY <3>1, <3>3, <1>1
        <3> QED
            BY <3>2, <3>3
    <2> QED
        BY <2>2, <2>3, <2>4
<1> QED
    BY <1>6, <1>7

\* withReadLock and withWriteLock implement a read-write lock.
THEOREM IsAReadWriteLock == CancelledOnceCounted => (Spec => LockSpec)
<1>1. Init => Lock!Init
    BY DEF Init, Lock!Init, blocks
<1> QED
    BY <1>1, BlockStep, Invariant, PTL DEF Spec, LockSpec, Lock!Spec
=============================================================================
