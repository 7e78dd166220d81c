----------------------------- MODULE SettingsCache -----------------------------
(***************************************************************************)
(* settings.ini between the configuration utility, which rewrites it key   *)
(* by key on every change, and the SAPI DLLs, which cache it and look at   *)
(* its time stamp before each utterance (src/settings.cpp).                *)
(*                                                                         *)
(* Abstracted: the value of a key is the number of the save that brought   *)
(* it, 0 for the default (clamping and codes are left out); a file that    *)
(* does not exist reads as defaults, as GetPrivateProfileInt makes it.     *)
(* External: the file system.  One key is written, or read, at a time and  *)
(* each write stamps the file with the current time, which need not have   *)
(* moved since the write before: a save makes sixteen.  The clock is not   *)
(* set back, nobody deletes the file, and one utility runs at a time.      *)
(***************************************************************************)
EXTENDS Naturals, Sequences

CONSTANTS
  Keys,       \* number of keys
  Processes,  \* processes with a SAPI DLL, each with one cache
  Threads,
  ProcessOf,
  None,       \* no thread
  MaxSaves,   \* bound: saves of the utility
  MaxCalls    \* bound: utterances of each thread

ASSUME SettingsAssumption ==
  /\ Keys \in Nat
  /\ ProcessOf \in [Threads -> Processes]
  /\ None \notin Threads
  /\ MaxSaves \in Nat
  /\ MaxCalls \in Nat

VARIABLES
  file,        \* the values in settings.ini
  stamp,       \* its ftLastWriteTime, 0 when there is no file
  clock,       \* the time
  ui,          \* OutloudConfig: "closed", "open", "saving" or "closing"
  shown,       \* its g_settings
  at,          \* the key save() writes next
  saves,       \* number of saves begun
  cache,       \* each process's g_cached
  cachedTime,  \* g_cachedTime
  valid,       \* g_cacheValid
  owner,       \* of g_cacheLock
  pc,          \* each thread: "idle", "wait" or "load"
  ft,          \* the time stamp current() has read
  s,           \* the values load() has read so far
  snapshot,    \* what the last current() returned
  calls,
  recent,      \* history: the values each key had while the file bore its stamp
  before,      \* what recent was when current() was called
  seen         \* history: the values each key had while current() ran

fileVars   == <<file, stamp, clock>>
uiVars     == <<ui, shown, at, saves>>
cacheVars  == <<cache, cachedTime, valid, owner>>
threadVars == <<pc, ft, s, snapshot, calls>>
histVars   == <<recent, before, seen>>
vars == <<fileVars, uiVars, cacheVars, threadVars, histVars>>

Defaults == [k \in 1..Keys |-> 0]

Init ==
  /\ file = Defaults
  /\ stamp \in {0, 1}
  /\ clock = 2
  /\ ui = "closed" /\ shown = Defaults /\ at = 1 /\ saves = 0
  /\ cache = [p \in Processes |-> Defaults]
  /\ cachedTime = [p \in Processes |-> 0]
  /\ valid = [p \in Processes |-> FALSE]
  /\ owner = [p \in Processes |-> None]
  /\ pc = [t \in Threads |-> "idle"]
  /\ ft = [t \in Threads |-> 0]
  /\ s = [t \in Threads |-> <<>>]
  /\ snapshot = [t \in Threads |-> Defaults]
  /\ calls = [t \in Threads |-> 0]
  /\ recent = [k \in 1..Keys |-> {0}]
  /\ before = [t \in Threads |-> [k \in 1..Keys |-> {}]]
  /\ seen = [t \in Threads |-> [k \in 1..Keys |-> {}]]

-----------------------------------------------------------------------------
(* The configuration utility                                               *)

\* Mutant of Open: save() starts one key before the first.
OpenOneEarly ==
  /\ ui = "closed"
  /\ ui' = "open"
  /\ shown' = file
  /\ at' = 0
  /\ UNCHANGED <<fileVars, saves, cacheVars, threadVars, histVars>>

\* wWinMain: g_settings = SettingsStore::load().
Open ==
  /\ ui = "closed"
  /\ ui' = "open"
  /\ shown' = file
  /\ at' = 1
  /\ UNCHANGED <<fileVars, saves, cacheVars, threadVars, histVars>>

\* A control changes one setting, the variant or "defaults" several; all of
\* them are saved.
Edit ==
  /\ ui = "open"
  /\ saves < MaxSaves
  /\ saves' = saves + 1
  /\ \E K \in SUBSET (1..Keys) :
       shown' = [k \in 1..Keys |-> IF k \in K THEN saves' ELSE shown[k]]
  /\ ui' = "saving"
  /\ UNCHANGED <<fileVars, at, cacheVars, threadVars, histVars>>

\* OK, Cancel and WM_CLOSE save once more.
Close ==
  /\ ui = "open"
  /\ saves < MaxSaves
  /\ saves' = saves + 1
  /\ ui' = "closing"
  /\ UNCHANGED <<fileVars, shown, at, cacheVars, threadVars, histVars>>

\* One WritePrivateProfileString of save().
WriteKey ==
  /\ ui \in {"saving", "closing"}
  /\ at <= Keys
  /\ file' = [file EXCEPT ![at] = shown[at]]
  /\ stamp' \in {clock, clock + 1}
  /\ clock' = stamp'
  /\ at' = at + 1
  /\ seen' = [t \in Threads |->
       IF pc[t] = "idle" THEN seen[t]
       ELSE [seen[t] EXCEPT ![at] = @ \cup {shown[at]}]]
  /\ recent' = IF stamp' = stamp
               THEN [recent EXCEPT ![at] = @ \cup {shown[at]}]
               ELSE [k \in 1..Keys |-> {file'[k]}]
  /\ UNCHANGED <<ui, shown, saves, cacheVars, threadVars, before>>

Saved ==
  /\ ui \in {"saving", "closing"}
  /\ at > Keys
  /\ IF ui = "saving"
     THEN ui' = "open" /\ UNCHANGED shown
     ELSE ui' = "closed" /\ shown' = Defaults
  /\ at' = 1
  /\ UNCHANGED <<fileVars, saves, cacheVars, threadVars, histVars>>

\* The utility is killed, possibly in the middle of a save.
Kill ==
  /\ ui # "closed"
  /\ ui' = "closed"
  /\ shown' = Defaults
  /\ at' = 1
  /\ UNCHANGED <<fileVars, saves, cacheVars, threadVars, histVars>>

-----------------------------------------------------------------------------
(* SettingsStore::current()                                                *)

Call(t) ==
  /\ pc[t] = "idle"
  /\ calls[t] < MaxCalls
  /\ pc' = [pc EXCEPT ![t] = "wait"]
  /\ calls' = [calls EXCEPT ![t] = @ + 1]
  /\ seen' = [seen EXCEPT ![t] = [k \in 1..Keys |-> {file[k]}]]
  /\ before' = [before EXCEPT ![t] = recent]
  /\ UNCHANGED <<fileVars, uiVars, cacheVars, ft, s, snapshot, recent>>

\* Mutant of Changed: a file that appears after the first load is missed.
ChangedOnceLoaded(p) ==
  ~valid[p] \/ (stamp # 0 /\ cachedTime[p] # 0 /\ stamp # cachedTime[p])

Changed(p) == ~valid[p] \/ (stamp # 0 /\ stamp # cachedTime[p])

\* EnterCriticalSection, file_time; the cache serves if it is as new.
Hit(t) ==
  LET p == ProcessOf[t] IN
  /\ pc[t] = "wait" /\ owner[p] = None
  /\ ~Changed(p)
  /\ snapshot' = [snapshot EXCEPT ![t] = cache[p]]
  /\ pc' = [pc EXCEPT ![t] = "idle"]
  /\ UNCHANGED <<fileVars, uiVars, cacheVars, ft, s, calls, histVars>>

Miss(t) ==
  LET p == ProcessOf[t] IN
  /\ pc[t] = "wait" /\ owner[p] = None
  /\ Changed(p)
  /\ owner' = [owner EXCEPT ![p] = t]
  /\ ft' = [ft EXCEPT ![t] = stamp]
  /\ s' = [s EXCEPT ![t] = <<>>]
  /\ pc' = [pc EXCEPT ![t] = "load"]
  /\ UNCHANGED <<fileVars, uiVars, cache, cachedTime, valid, snapshot, calls, histVars>>

\* One GetPrivateProfileInt of load().
ReadKey(t) ==
  /\ pc[t] = "load"
  /\ Len(s[t]) < Keys
  /\ s' = [s EXCEPT ![t] = Append(@, file[Len(@) + 1])]
  /\ UNCHANGED <<fileVars, uiVars, cacheVars, pc, ft, snapshot, calls, histVars>>

\* Mutant of Reload: the time stamp is read after the values.
ReloadThenStamp(t) ==
  LET p == ProcessOf[t] IN
  /\ pc[t] = "load"
  /\ Len(s[t]) = Keys
  /\ cache' = [cache EXCEPT ![p] = s[t]]
  /\ cachedTime' = [cachedTime EXCEPT ![p] = stamp]
  /\ valid' = [valid EXCEPT ![p] = TRUE]
  /\ snapshot' = [snapshot EXCEPT ![t] = s[t]]
  /\ owner' = [owner EXCEPT ![p] = None]
  /\ pc' = [pc EXCEPT ![t] = "idle"]
  /\ ft' = [ft EXCEPT ![t] = 0]
  /\ s' = [s EXCEPT ![t] = <<>>]
  /\ UNCHANGED <<fileVars, uiVars, calls, histVars>>

\* The loaded settings replace the cache, dated with the stamp read before.
Reload(t) ==
  LET p == ProcessOf[t] IN
  /\ pc[t] = "load"
  /\ Len(s[t]) = Keys
  /\ cache' = [cache EXCEPT ![p] = s[t]]
  /\ cachedTime' = [cachedTime EXCEPT ![p] = IF ft[t] # 0 THEN ft[t] ELSE @]
  /\ valid' = [valid EXCEPT ![p] = TRUE]
  /\ snapshot' = [snapshot EXCEPT ![t] = s[t]]
  /\ owner' = [owner EXCEPT ![p] = None]
  /\ pc' = [pc EXCEPT ![t] = "idle"]
  /\ ft' = [ft EXCEPT ![t] = 0]
  /\ s' = [s EXCEPT ![t] = <<>>]
  /\ UNCHANGED <<fileVars, uiVars, calls, histVars>>

Next ==
  \/ Open \/ Edit \/ Close \/ WriteKey \/ Saved \/ Kill
  \/ \E t \in Threads : Call(t) \/ Hit(t) \/ Miss(t) \/ ReadKey(t) \/ Reload(t)

Spec == Init /\ [][Next]_vars

-----------------------------------------------------------------------------
(* Properties                                                              *)

TypeOK ==
  /\ file \in [1..Keys -> Nat]
  /\ stamp \in Nat
  /\ clock \in Nat
  /\ ui \in {"closed", "open", "saving", "closing"}
  /\ shown \in [1..Keys -> Nat]
  /\ at \in 1..Keys + 1
  /\ saves \in Nat
  /\ cache \in [Processes -> [1..Keys -> Nat]]
  /\ cachedTime \in [Processes -> Nat]
  /\ valid \in [Processes -> BOOLEAN]
  /\ owner \in [Processes -> Threads \cup {None}]
  /\ pc \in [Threads -> {"idle", "wait", "load"}]
  /\ ft \in [Threads -> Nat]
  /\ s \in [Threads -> Seq(Nat)]
  /\ \A t \in Threads : Len(s[t]) <= Keys
  /\ snapshot \in [Threads -> [1..Keys -> Nat]]
  /\ calls \in [Threads -> Nat]
  /\ recent \in [1..Keys -> SUBSET Nat]
  /\ before \in [Threads -> [1..Keys -> SUBSET Nat]]
  /\ seen \in [Threads -> [1..Keys -> SUBSET Nat]]

\* "The SAPI DLLs reload the file whenever its timestamp changes, so changes
\* made in the configuration utility take effect on the very next utterance"
\* (src/settings.h:6): each setting an utterance uses was in the file while the
\* utterance was asking for it.  False: a write after a reload (settings.cpp:149)
\* that falls into the same tick leaves the date as it was.
NextUtterance ==
  \A t \in Threads : pc[t] = "idle" /\ calls[t] > 0 =>
    \A k \in 1..Keys : snapshot[t][k] \in seen[t][k]

\* What holds of it however reloads, saves, deaths of the utility and utterances
\* of other threads overlap: a setting that was no longer in the file is one
\* that it held under the very time stamp it bore when the utterance asked.
StaleByOneTick ==
  \A t \in Threads : pc[t] = "idle" /\ calls[t] > 0 =>
    \A k \in 1..Keys : snapshot[t][k] \in seen[t][k] \cup before[t][k]

\* A cache with the date of the file holds values the file had under that date:
\* no save that overlaps a reload leaves a process with older ones for good.
DatedCacheIsRecent ==
  \A p \in Processes : valid[p] /\ cachedTime[p] = stamp =>
    \A k \in 1..Keys : cache[p][k] \in recent[k]
=============================================================================
