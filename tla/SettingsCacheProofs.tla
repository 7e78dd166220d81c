-------------------------- MODULE SettingsCacheProofs --------------------------
(***************************************************************************)
(* Proofs about SettingsCache: types, and that what an utterance uses was  *)
(* in the file while it asked, or had been there under the time stamp the  *)
(* file bore when it began to ask.                                         *)
(***************************************************************************)
EXTENDS SettingsCache, SequenceTheorems, TLAPS

\* The step of one thread inside current().
Step(t) == Hit(t) \/ Miss(t) \/ ReadKey(t) \/ Reload(t)

USE DEF fileVars, uiVars, cacheVars, threadVars, histVars

LEMMA TypeInit == ASSUME Init PROVE TypeOK
BY SettingsAssumption DEF Init, TypeOK, Defaults

LEMMA TypeStep == ASSUME TypeOK, [Next]_vars PROVE TypeOK'
<1> USE SettingsAssumption DEF TypeOK, Defaults
<1>1. ASSUME Open PROVE TypeOK'
  BY <1>1 DEF Open
<1>2. ASSUME Edit PROVE TypeOK'
  <2>1. /\ shown' \in [1..Keys -> Nat] /\ saves' \in Nat /\ ui' = "saving"
        /\ UNCHANGED <<fileVars, at, cacheVars, threadVars, histVars>>
    BY <1>2 DEF Edit
  <2> QED BY <2>1
<1>3. ASSUME Close PROVE TypeOK'
  BY <1>3 DEF Close
<1>4. ASSUME WriteKey PROVE TypeOK'
  <2>1. at \in 1..Keys /\ shown[at] \in Nat
    BY <1>4 DEF WriteKey
  <2>2. file' \in [1..Keys -> Nat]
    BY <1>4, <2>1 DEF WriteKey
  <2>3. seen' \in [Threads -> [1..Keys -> SUBSET Nat]]
    BY <1>4, <2>1 DEF WriteKey
  <2>4. stamp' \in Nat /\ clock' \in Nat /\ at' \in 1..Keys + 1
    BY <1>4 DEF WriteKey
  <2>5. recent' \in [1..Keys -> SUBSET Nat]
    BY <1>4, <2>1, <2>2 DEF WriteKey
  <2> QED BY <1>4, <2>2, <2>3, <2>4, <2>5 DEF WriteKey
<1>5. ASSUME Saved PROVE TypeOK'
  BY <1>5 DEF Saved
<1>6. ASSUME Kill PROVE TypeOK'
  <2>1. Defaults \in [1..Keys -> Nat] /\ 1 \in 1..Keys + 1
    OBVIOUS
  <2> QED BY <1>6, <2>1 DEF Kill
<1>7. ASSUME NEW t \in Threads, Call(t) PROVE TypeOK'
  <2>1. [k \in 1..Keys |-> {file[k]}] \in [1..Keys -> SUBSET Nat]
    OBVIOUS
  <2>2. /\ seen' \in [Threads -> [1..Keys -> SUBSET Nat]]
        /\ before' \in [Threads -> [1..Keys -> SUBSET Nat]]
    BY <1>7, <2>1 DEF Call
  <2>3. /\ calls' \in [Threads -> Nat]
        /\ pc' \in [Threads -> {"idle", "wait", "load"}]
    BY <1>7 DEF Call
  <2> QED BY <1>7, <2>2, <2>3 DEF Call
<1>8. ASSUME NEW t \in Threads, Hit(t) PROVE TypeOK'
  <2>1. cache[ProcessOf[t]] \in [1..Keys -> Nat]
    OBVIOUS
  <2> QED BY <1>8, <2>1 DEF Hit
<1>9. ASSUME NEW t \in Threads, Miss(t) PROVE TypeOK'
  <2>1. /\ owner' \in [Processes -> Threads \cup {None}]
        /\ ft' \in [Threads -> Nat]
        /\ pc' \in [Threads -> {"idle", "wait", "load"}]
    BY <1>9 DEF Miss
  <2>2. s' \in [Threads -> Seq(Nat)] /\ \A u \in Threads : Len(s'[u]) <= Keys
    BY <1>9 DEF Miss
  <2> QED BY <1>9, <2>1, <2>2 DEF Miss
<1>10. ASSUME NEW t \in Threads, ReadKey(t) PROVE TypeOK'
  <2>1. file[Len(s[t]) + 1] \in Nat
    BY <1>10 DEF ReadKey
  <2>2. s' \in [Threads -> Seq(Nat)]
    BY <1>10, <2>1 DEF ReadKey
  <2>3. \A u \in Threads : Len(s'[u]) <= Keys
    BY <1>10, <2>1 DEF ReadKey
  <2> QED BY <1>10, <2>2, <2>3 DEF ReadKey
<1>11. ASSUME NEW t \in Threads, Reload(t) PROVE TypeOK'
  <2>1. s[t] \in Seq(Nat) /\ Len(s[t]) = Keys
    BY <1>11 DEF Reload
  <2>2. s[t] \in [1..Keys -> Nat]
    BY <2>1, LenProperties
  <2>3. /\ cache' \in [Processes -> [1..Keys -> Nat]]
        /\ cachedTime' \in [Processes -> Nat]
        /\ valid' \in [Processes -> BOOLEAN]
        /\ owner' \in [Processes -> Threads \cup {None}]
    BY <1>11, <2>2 DEF Reload
  <2>4. /\ snapshot' \in [Threads -> [1..Keys -> Nat]]
        /\ pc' \in [Threads -> {"idle", "wait", "load"}]
        /\ ft' \in [Threads -> Nat]
    BY <1>11, <2>2 DEF Reload
  <2>5. s' \in [Threads -> Seq(Nat)] /\ \A u \in Threads : Len(s'[u]) <= Keys
    BY <1>11 DEF Reload
  <2>6. UNCHANGED <<fileVars, uiVars, calls, histVars>>
    BY <1>11 DEF Reload
  <2> QED BY <2>3, <2>4, <2>5, <2>6
<1>12. ASSUME UNCHANGED vars PROVE TypeOK'
  BY <1>12 DEF vars
<1> QED BY <1>1, <1>2, <1>3, <1>4, <1>5, <1>6, <1>7, <1>8, <1>9, <1>10, <1>11,
           <1>12 DEF Next

\* The types of SettingsCache's state, after any number of saves and calls.
THEOREM TypeCorrect == Spec => []TypeOK
<1>1. Init => TypeOK
  BY TypeInit
<1>2. TypeOK /\ [Next]_vars => TypeOK'
  BY TypeStep
<1> QED BY <1>1, <1>2, PTL DEF Spec

-----------------------------------------------------------------------------
(* The inductive invariant                                                 *)

\* One thread of a process loads at a time.
LoaderOwnsLock == \A t \in Threads : pc[t] = "load" => owner[ProcessOf[t]] = t

\* No date is later than the file's.
DatesAreOld ==
  /\ stamp <= clock
  /\ \A p \in Processes : cachedTime[p] <= stamp
  /\ \A t \in Threads : pc[t] = "load" => ft[t] <= stamp

\* What the file holds it holds under its present stamp, and what a load that
\* no new stamp has overtaken has read, too.  A load that found no file leaves
\* the cache without a date.
LoadIsDated ==
  /\ \A k \in 1..Keys : file[k] \in recent[k]
  /\ \A t \in Threads : pc[t] = "load" =>
       /\ ft[t] = stamp => \A i \in 1..Len(s[t]) : s[t][i] \in recent[i]
       /\ ft[t] = 0 => cachedTime[ProcessOf[t]] = 0

\* What a load has read was in the file during the call, as is what the file
\* holds now; what the file has held under its present stamp it held during the
\* call or under the stamp it had at its beginning.
SeenByCall ==
  \A t \in Threads : pc[t] # "idle" =>
    /\ \A k \in 1..Keys : file[k] \in seen[t][k]
    /\ \A k \in 1..Keys : recent[k] \subseteq seen[t][k] \cup before[t][k]
    /\ pc[t] = "load" => \A i \in 1..Len(s[t]) : s[t][i] \in seen[t][i]

IInv == /\ TypeOK /\ LoaderOwnsLock /\ DatesAreOld /\ LoadIsDated /\ SeenByCall
        /\ DatedCacheIsRecent /\ StaleByOneTick

LEMMA InitInv == ASSUME Init PROVE IInv
<1>1. TypeOK
  BY TypeInit
<1>2. LoaderOwnsLock /\ LoadIsDated /\ SeenByCall
  BY DEF Init, LoaderOwnsLock, LoadIsDated, SeenByCall, Defaults
<1>3. DatesAreOld
  BY DEF Init, DatesAreOld
<1>4. DatedCacheIsRecent /\ StaleByOneTick
  BY DEF Init, DatedCacheIsRecent, StaleByOneTick
<1> QED BY <1>1, <1>2, <1>3, <1>4 DEF IInv

\* What the utility does without writing.
LEMMA UtilityStep ==
  ASSUME IInv, TypeOK', UNCHANGED <<fileVars, cacheVars, threadVars, histVars>>
  PROVE  IInv'
BY DEF IInv, LoaderOwnsLock, DatesAreOld, LoadIsDated, SeenByCall,
       DatedCacheIsRecent, StaleByOneTick

\* A write either leaves the stamp, and adds to the values it stands for, or
\* dates the file later than every cache and every load in progress.
LEMMA WriteStep ==
  ASSUME IInv, TypeOK', WriteKey
  PROVE  IInv'
<1> USE SettingsAssumption
<1>0. /\ TypeOK /\ LoaderOwnsLock /\ DatesAreOld /\ LoadIsDated /\ SeenByCall
      /\ DatedCacheIsRecent /\ StaleByOneTick
  BY DEF IInv
<1>1. /\ clock' = stamp' /\ stamp <= stamp'
      /\ at \in 1..Keys
      /\ file' = [file EXCEPT ![at] = shown[at]]
      /\ UNCHANGED <<cacheVars, threadVars, before>>
  BY <1>0 DEF WriteKey, TypeOK, DatesAreOld
<1>2. stamp' = stamp =>
        /\ \A k \in 1..Keys : recent[k] \subseteq recent'[k]
        /\ shown[at] \in recent'[at]
        /\ \A k \in 1..Keys \ {at} : recent'[k] = recent[k]
        /\ recent'[at] = recent[at] \cup {shown[at]}
  BY <1>0, <1>1 DEF WriteKey, TypeOK
<1>3. ASSUME stamp' # stamp
      PROVE  /\ \A k \in 1..Keys : recent'[k] = {file'[k]}
             /\ \A p \in Processes : cachedTime'[p] # stamp'
             /\ \A t \in Threads : pc[t] = "load" => ft'[t] # stamp'
  <2>1. \A k \in 1..Keys : recent'[k] = {file'[k]}
    BY <1>3 DEF WriteKey
  <2>2. stamp' > stamp /\ stamp \in Nat /\ stamp' \in Nat
    BY <1>0, <1>1, <1>3 DEF TypeOK
  <2>3. ASSUME NEW p \in Processes PROVE cachedTime'[p] # stamp'
    BY <2>2, <1>0, <1>1 DEF DatesAreOld, TypeOK
  <2>4. ASSUME NEW t \in Threads, pc[t] = "load" PROVE ft'[t] # stamp'
    BY <2>2, <2>4, <1>0, <1>1 DEF DatesAreOld, TypeOK
  <2> QED BY <2>1, <2>3, <2>4
<1>4. LoaderOwnsLock'
  BY <1>0, <1>1 DEF LoaderOwnsLock
<1>5. DatesAreOld'
  <2>1. stamp \in Nat /\ stamp' \in Nat /\ clock' = stamp' /\ stamp <= stamp'
    BY <1>0, <1>1 DEF TypeOK
  <2>2. ASSUME NEW p \in Processes PROVE cachedTime'[p] <= stamp'
    BY <2>1, <1>0, <1>1 DEF DatesAreOld, TypeOK
  <2>3. ASSUME NEW t \in Threads, pc'[t] = "load" PROVE ft'[t] <= stamp'
    BY <2>1, <2>3, <1>0, <1>1 DEF DatesAreOld, TypeOK
  <2> QED BY <2>1, <2>2, <2>3 DEF DatesAreOld
<1>6. DatedCacheIsRecent'
  BY <1>0, <1>1, <1>2, <1>3 DEF DatedCacheIsRecent
<1>8. \A t \in Threads : \A i \in 1..Len(s[t]) : i \in 1..Keys
  BY <1>0 DEF TypeOK
<1>9. \A k \in 1..Keys : file'[k] \in recent'[k]
  BY <1>0, <1>1, <1>2, <1>3 DEF LoadIsDated, TypeOK
<1>10. LoadIsDated'
  BY <1>0, <1>1, <1>2, <1>3, <1>8, <1>9 DEF LoadIsDated
<1>11. SeenByCall'
  <2> SUFFICES ASSUME NEW t \in Threads, pc'[t] # "idle"
               PROVE  /\ \A k \in 1..Keys : file'[k] \in seen'[t][k]
                      /\ \A k \in 1..Keys : recent'[k] \subseteq seen'[t][k] \cup before'[t][k]
                      /\ pc'[t] = "load" =>
                           \A i \in 1..Len(s'[t]) : s'[t][i] \in seen'[t][i]
    BY DEF SeenByCall
  <2>1. seen'[t] = [seen[t] EXCEPT ![at] = @ \cup {shown[at]}]
    BY <1>1 DEF WriteKey
  <2>2. \A k \in 1..Keys : seen[t][k] \subseteq seen'[t][k]
    BY <2>1, <1>0 DEF TypeOK
  <2>3. shown[at] \in seen'[t][at]
    BY <2>1, <1>0, <1>1 DEF TypeOK
  <2>4. \A k \in 1..Keys : file'[k] \in seen'[t][k]
    BY <2>2, <2>3, <1>0, <1>1 DEF SeenByCall, TypeOK
  <2>5. \A k \in 1..Keys : recent[k] \subseteq seen'[t][k] \cup before'[t][k]
    BY <2>2, <1>0, <1>1 DEF SeenByCall
  <2>6. \A k \in 1..Keys : recent'[k] \subseteq seen'[t][k] \cup before'[t][k]
    BY <2>3, <2>4, <2>5, <1>1, <1>2, <1>3
  <2> QED BY <2>2, <2>4, <2>6, <1>8, <1>0, <1>1 DEF SeenByCall
<1>12. StaleByOneTick'
  BY <1>0, <1>1 DEF StaleByOneTick, WriteKey, TypeOK
<1> QED BY <1>4, <1>5, <1>6, <1>10, <1>11, <1>12 DEF IInv

\* current() is called, or served from the cache.
LEMMA CallStep ==
  ASSUME IInv, TypeOK', NEW t \in Threads, Call(t)
  PROVE  IInv'
<1> USE SettingsAssumption DEF Call
<1>0. /\ TypeOK /\ LoaderOwnsLock /\ DatesAreOld /\ LoadIsDated /\ SeenByCall
      /\ DatedCacheIsRecent /\ StaleByOneTick
  BY DEF IInv
<1>1. LoaderOwnsLock' /\ DatesAreOld' /\ LoadIsDated' /\ DatedCacheIsRecent'
  BY <1>0 DEF TypeOK, LoaderOwnsLock, DatesAreOld, LoadIsDated, DatedCacheIsRecent
<1>2. SeenByCall'
  BY <1>0 DEF TypeOK, SeenByCall
<1>3. StaleByOneTick'
  BY <1>0 DEF TypeOK, StaleByOneTick
<1> QED BY <1>1, <1>2, <1>3 DEF IInv

LEMMA HitStep ==
  ASSUME IInv, TypeOK', NEW t \in Threads, Hit(t)
  PROVE  IInv'
<1> USE SettingsAssumption DEF Hit
<1>0. /\ TypeOK /\ LoaderOwnsLock /\ DatesAreOld /\ LoadIsDated /\ SeenByCall
      /\ DatedCacheIsRecent /\ StaleByOneTick
  BY DEF IInv
<1>1. LoaderOwnsLock' /\ DatesAreOld' /\ LoadIsDated' /\ DatedCacheIsRecent'
  BY <1>0 DEF TypeOK, LoaderOwnsLock, DatesAreOld, LoadIsDated, DatedCacheIsRecent
<1>2. SeenByCall'
  BY <1>0 DEF TypeOK, SeenByCall
<1>3. cachedTime[ProcessOf[t]] = stamp /\ valid[ProcessOf[t]]
  BY <1>0 DEF TypeOK, DatesAreOld, Changed
<1>4. \A k \in 1..Keys : snapshot'[t][k] \in recent[k]
  BY <1>0, <1>3 DEF TypeOK, DatedCacheIsRecent
<1>5. StaleByOneTick'
  BY <1>0, <1>4 DEF TypeOK, StaleByOneTick, SeenByCall
<1> QED BY <1>1, <1>2, <1>5 DEF IInv

LEMMA MissStep ==
  ASSUME IInv, TypeOK', NEW t \in Threads, Miss(t)
  PROVE  IInv'
<1> USE SettingsAssumption DEF Miss
<1>0. /\ TypeOK /\ LoaderOwnsLock /\ DatesAreOld /\ LoadIsDated /\ SeenByCall
      /\ DatedCacheIsRecent /\ StaleByOneTick
  BY DEF IInv
<1>1. LoaderOwnsLock' /\ DatesAreOld'
  BY <1>0 DEF TypeOK, LoaderOwnsLock, DatesAreOld
<1>2. DatedCacheIsRecent' /\ StaleByOneTick'
  BY <1>0 DEF TypeOK, DatedCacheIsRecent, StaleByOneTick
<1>3. s'[t] = <<>> /\ ft'[t] = stamp
  BY <1>0 DEF TypeOK
<1>4. LoadIsDated'
  BY <1>0, <1>3 DEF TypeOK, DatesAreOld, LoadIsDated
<1>5. SeenByCall'
  BY <1>0, <1>3 DEF TypeOK, SeenByCall
<1> QED BY <1>1, <1>2, <1>4, <1>5 DEF IInv

LEMMA ReadStep ==
  ASSUME IInv, TypeOK', NEW t \in Threads, ReadKey(t)
  PROVE  IInv'
<1> USE SettingsAssumption DEF ReadKey
<1>0. /\ TypeOK /\ LoaderOwnsLock /\ DatesAreOld /\ LoadIsDated /\ SeenByCall
      /\ DatedCacheIsRecent /\ StaleByOneTick
  BY DEF IInv
<1> DEFINE n == Len(s[t]) + 1
<1>1. /\ s[t] \in Seq(Nat) /\ n \in 1..Keys /\ file[n] \in Nat
      /\ s'[t] = Append(s[t], file[n])
      /\ \A u \in Threads \ {t} : s'[u] = s[u]
  BY <1>0 DEF TypeOK
<1>2. /\ Len(s'[t]) = n /\ s'[t][n] = file[n]
      /\ \A i \in 1..Len(s[t]) : s'[t][i] = s[t][i]
      /\ \A i \in 1..n : i = n \/ i \in 1..Len(s[t])
  BY <1>1
<1>3. LoaderOwnsLock' /\ DatesAreOld' /\ DatedCacheIsRecent' /\ StaleByOneTick'
  BY <1>0 DEF TypeOK, LoaderOwnsLock, DatesAreOld, DatedCacheIsRecent, StaleByOneTick
<1>4. LoadIsDated'
  BY <1>0, <1>1, <1>2 DEF LoadIsDated
<1>5. SeenByCall'
  BY <1>0, <1>1, <1>2 DEF SeenByCall
<1> QED BY <1>3, <1>4, <1>5 DEF IInv

LEMMA ReloadStep ==
  ASSUME IInv, TypeOK', NEW t \in Threads, Reload(t)
  PROVE  IInv'
<1> USE SettingsAssumption DEF Reload
<1> DEFINE p == ProcessOf[t]
<1>0. /\ TypeOK /\ LoaderOwnsLock /\ DatesAreOld /\ LoadIsDated /\ SeenByCall
      /\ DatedCacheIsRecent /\ StaleByOneTick
  BY DEF IInv
<1>1. \A u \in Threads \ {t} : pc'[u] = "load" => ProcessOf[u] # p
  BY <1>0 DEF TypeOK, LoaderOwnsLock
<1>2. pc'[t] = "idle" /\ \A u \in Threads \ {t} : /\ pc'[u] = pc[u]
                                                 /\ ft'[u] = ft[u] /\ s'[u] = s[u]
  BY <1>0 DEF TypeOK
<1>3. LoaderOwnsLock'
  BY <1>0, <1>1, <1>2 DEF TypeOK, LoaderOwnsLock
<1>4. cachedTime'[p] = IF ft[t] # 0 THEN ft[t] ELSE cachedTime[p]
  BY <1>0 DEF TypeOK
<1>5. cachedTime'[p] = ft[t]
  BY <1>0, <1>4 DEF LoadIsDated
<1>6. \A q \in Processes \ {p} : cachedTime'[q] = cachedTime[q] /\ cache'[q] = cache[q]
                                 /\ valid'[q] = valid[q]
  BY <1>0 DEF TypeOK
<1>7. DatesAreOld'
  BY <1>0, <1>2, <1>5, <1>6 DEF DatesAreOld
<1>8. LoadIsDated'
  BY <1>0, <1>1, <1>2, <1>6 DEF LoadIsDated
<1>9. SeenByCall'
  BY <1>0, <1>2 DEF SeenByCall
<1>10. DatedCacheIsRecent'
  <2>1. Len(s[t]) = Keys /\ cache'[p] = s[t]
    BY <1>0 DEF TypeOK
  <2>2. ASSUME ft[t] = stamp PROVE \A k \in 1..Keys : s[t][k] \in recent[k]
    BY <1>0, <2>1, <2>2 DEF LoadIsDated
  <2> QED BY <1>0, <1>5, <1>6, <2>1, <2>2 DEF DatedCacheIsRecent
<1>11. StaleByOneTick'
  <2>1. /\ snapshot' = [snapshot EXCEPT ![t] = s[t]] /\ Len(s[t]) = Keys
        /\ pc' = [pc EXCEPT ![t] = "idle"] /\ UNCHANGED <<seen, before, calls>>
        /\ pc[t] = "load"
    BY <1>0 DEF histVars
  <2>2. \A k \in 1..Keys : s[t][k] \in seen[t][k]
    BY <1>0, <2>1 DEF SeenByCall
  <2>3. snapshot \in [Threads -> [1..Keys -> Nat]] /\ pc \in [Threads -> {"idle", "wait", "load"}]
    BY <1>0 DEF TypeOK
  <2>4. snapshot'[t] = s[t]
    BY <2>1, <2>3
  <2>5. ASSUME NEW u \in Threads, u # t
        PROVE  snapshot'[u] = snapshot[u] /\ pc'[u] = pc[u]
    BY <2>1, <2>3, <2>5
  <2>6. ASSUME NEW u \in Threads, pc'[u] = "idle", calls'[u] > 0, NEW k \in 1..Keys
        PROVE  snapshot'[u][k] \in seen'[u][k] \cup before'[u][k]
    <3>1. CASE u = t
      BY <2>1, <2>2, <2>4, <3>1
    <3>2. CASE u # t
      BY <1>0, <2>1, <2>5, <2>6, <3>2 DEF StaleByOneTick
    <3> QED BY <3>1, <3>2
  <2> QED BY <2>6 DEF StaleByOneTick
<1> QED BY <1>3, <1>7, <1>8, <1>9, <1>10, <1>11 DEF IInv

LEMMA InvStep == ASSUME IInv, [Next]_vars PROVE IInv'
<1>0. TypeOK'
  BY TypeStep DEF IInv
<1>1. ASSUME Open \/ Edit \/ Close \/ Saved \/ Kill \/ UNCHANGED vars PROVE IInv'
  <2>1. UNCHANGED <<fileVars, cacheVars, threadVars, histVars>>
    BY <1>1 DEF Open, Edit, Close, Saved, Kill, vars
  <2> QED BY <1>0, <2>1, UtilityStep
<1>2. ASSUME WriteKey PROVE IInv'
  BY <1>0, <1>2, WriteStep
<1>3. ASSUME NEW t \in Threads, Call(t) \/ Step(t) PROVE IInv'
  BY <1>0, <1>3, CallStep, HitStep, MissStep, ReadStep, ReloadStep DEF Step
<1> QED BY <1>1, <1>2, <1>3 DEF Next, Step

\* However saves, reloads and utterances overlap, and whether or not writes
\* share a time stamp: a setting an utterance uses was in the file while it
\* asked, or before that under the stamp the file bore when it began to ask.
THEOREM SettingsAreRecent == Spec => []StaleByOneTick
<1>1. Init => IInv
  BY InitInv
<1>2. IInv /\ [Next]_vars => IInv'
  BY InvStep
<1>3. IInv => StaleByOneTick
  BY DEF IInv
<1> QED BY <1>1, <1>2, <1>3, PTL DEF Spec

\* A process's cache that is dated like the file holds values the file had
\* under that date, even one filled while somebody was writing.
THEOREM CachesAreRecent == Spec => []DatedCacheIsRecent
<1>1. Init => IInv
  BY InitInv
<1>2. IInv /\ [Next]_vars => IInv'
  BY InvStep
<1>3. IInv => DatedCacheIsRecent
  BY DEF IInv
<1> QED BY <1>1, <1>2, <1>3, PTL DEF Spec
=============================================================================
