------------------------------ MODULE ComServer ------------------------------
(***************************************************************************)
(* The DLL as a COM server: the life of its objects (src/com.hpp,          *)
(* src/com.cpp), the two entry points COM calls and the registration by    *)
(* regsvr32 (src/sapi_main.cpp).                                           *)
(*                                                                         *)
(* Each place that may hold a counted reference is a member of Places: the *)
(* application's interface pointers, the impl_ of com::object and the ptr_ *)
(* of com::interface_ptr in a running call, and the token an engine keeps. *)
(* Threads step one atomic operation at a time, and any thread may call    *)
(* through any pointer of the application.                                 *)
(*                                                                         *)
(* What COM and the application promise: no pointer is released while a    *)
(* call goes through it or is to fill it, LockServer(FALSE) undoes a       *)
(* LockServer(TRUE), and an engine is given one token.  One regsvr32 runs  *)
(* at a time.  Left out: null arguments, aggregation, the unloading itself, *)
(* which COM delays after DllCanUnloadNow has said yes, and the --shutdown  *)
(* that begins an unregistration (SpeechPipe has it).                      *)
(***************************************************************************)
EXTENDS Integers, FiniteSets, Sequences

CONSTANTS
  Threads,   \* threads of the process
  Objects,   \* where an object may lie
  Pointers,  \* interface pointers of the application
  MaxLocks,  \* bound: LockServer(TRUE) calls that are not undone
  None       \* no object, no pointer

Kinds == {"factory", "list", "engine", "key"}

ASSUME ComAssumption ==
  /\ IsFiniteSet(Threads) /\ IsFiniteSet(Objects) /\ IsFiniteSet(Pointers)
  /\ MaxLocks \in Nat
  /\ None \notin Objects \cup Pointers \cup Kinds

App(p)   == <<"app", p>>
Impl(t)  == <<"impl", t>>
Local(t) == <<"local", t>>
Token(o) == <<"token", o>>

Places == {App(p) : p \in Pointers} \cup {Impl(t) : t \in Threads}
            \cup {Local(t) : t \in Threads} \cup {Token(o) : o \in Objects}

VARIABLES
  status,    \* of each place in memory: "free", "made" but not counted,
             \* "live", or "dying" after it was uncounted
  kind,      \* the class of the object there, or None
  refs,      \* ref_count_
  points,    \* the object each place points to, or None
  count,     \* object_counter::count_
  locks,     \* LockServer(TRUE) calls not undone
  pc,        \* where each thread is
  call,      \* its call: what is made, how it is handed out, through and into
             \* which pointers
  dying,     \* the objects it destroys, the innermost first
  registry,  \* keys and values of the registration that exist
  regsvr,    \* the running DllRegisterServer or DllUnregisterServer
  stuck      \* was the removal of the enumerator refused?

objects  == <<status, kind, refs, points, count, locks>>
threads  == <<pc, call, dying>>
registering == <<registry, regsvr, stuck>>
vars == <<objects, threads, registering>>

Calls == [makes : Kinds, by : {"query", "pointer"},
          through : Pointers \cup {None}, to : Pointers \cup {None}]

NoCall == [makes |-> "key", by |-> "query", through |-> None, to |-> None]

-----------------------------------------------------------------------------
(* Registration: the entries in the order they are written and deleted     *)

ClassEntries(c) == <<<<c, "key">>, <<c, "server">>, <<c, "path">>, <<c, "model">>>>

EnumeratorEntries == <<<<"enumerator", "key">>, <<"enumerator", "name">>,
                       <<"enumerator", "clsid">>>>

\* Mutant of Writes: the enumerator is announced first.
WritesEnumeratorFirst == EnumeratorEntries \o ClassEntries("list") \o ClassEntries("engine")

Writes == ClassEntries("list") \o ClassEntries("engine") \o EnumeratorEntries

Deletions == <<<<"enumerator", "key">>, <<"list", "server">>, <<"list", "key">>,
               <<"engine", "server">>, <<"engine", "key">>>>

\* What goes with a key: its values.
With(e) ==
  CASE e[1] = "enumerator" -> {EnumeratorEntries[k] : k \in 1..3}
    [] e[2] = "server"     -> {<<e[1], "server">>, <<e[1], "path">>, <<e[1], "model">>}
    [] OTHER               -> {e}

Usable(c) == <<c, "path">> \in registry

Listed == <<"enumerator", "clsid">> \in registry

Idle == [runs |-> "none", step |-> 1]

Begin(what) ==
  /\ regsvr = Idle
  /\ regsvr' = [runs |-> what, step |-> 1]
  /\ UNCHANGED <<objects, threads, registry, stuck>>

Write ==
  /\ regsvr.runs = "register"
  /\ registry' = registry \cup {Writes[regsvr.step]}
  /\ IF regsvr.step < Len(Writes)
     THEN regsvr' = [regsvr EXCEPT !.step = @ + 1] /\ UNCHANGED stuck
     ELSE regsvr' = Idle /\ stuck' = FALSE
  /\ UNCHANGED <<objects, threads>>

Delete ==
  /\ regsvr.runs = "unregister"
  /\ Deletions[regsvr.step] \in registry
  /\ registry' = registry \ With(Deletions[regsvr.step])
  /\ regsvr' = IF regsvr.step < Len(Deletions) THEN [regsvr EXCEPT !.step = @ + 1] ELSE Idle
  /\ UNCHANGED <<objects, threads, stuck>>

\* unregister_token_enumerator goes on when the key is missing or stays.
DeleteSwallowed ==
  /\ regsvr.runs = "unregister"
  /\ regsvr.step = 1
  /\ stuck' = (stuck \/ Deletions[1] \in registry)
  /\ regsvr' = [regsvr EXCEPT !.step = 2]
  /\ UNCHANGED <<objects, threads, registry>>

\* Any other operation that fails ends the call; regsvr32 may also be killed.
Break ==
  /\ regsvr # Idle
  /\ regsvr' = Idle
  /\ UNCHANGED <<objects, threads, registry, stuck>>

Register == Begin("register") \/ Begin("unregister") \/ Write \/ Delete
              \/ DeleteSwallowed \/ Break

-----------------------------------------------------------------------------
(* Counted references                                                      *)

Init ==
  /\ status = [o \in Objects |-> "free"]
  /\ kind = [o \in Objects |-> None]
  /\ refs = [o \in Objects |-> 0]
  /\ points = [v \in Places |-> None]
  /\ count = 0 /\ locks = 0
  /\ pc = [t \in Threads |-> "idle"]
  /\ call = [t \in Threads |-> NoCall]
  /\ dying = [t \in Threads |-> <<>>]
  /\ registry = {} /\ regsvr = Idle /\ stuck = FALSE

\* AddRef, and the pointer it is for.
Refer(v, o) ==
  /\ points' = [points EXCEPT ![v] = o]
  /\ refs' = [refs EXCEPT ![o] = @ + 1]

\* The thread goes on in its call, or returns from it.
Go(t, next) ==
  /\ pc' = [pc EXCEPT ![t] = next]
  /\ call' = IF next = "idle" THEN [call EXCEPT ![t] = NoCall] ELSE call

\* Release through the pointer in v; the last one destroys the object, and
\* otherwise the thread goes on to next.
Drop(t, v, next) ==
  LET o == points[v] IN
  /\ points' = [points EXCEPT ![v] = None]
  /\ refs' = [refs EXCEPT ![o] = @ - 1]
  /\ IF refs[o] = 1
     THEN Go(t, "uncount") /\ dying' = [dying EXCEPT ![t] = <<o>> \o @]
     ELSE Go(t, next) /\ UNCHANGED dying

Through(p) == \E t \in Threads : pc[t] # "idle" /\ call[t].through = p
To(p)      == \E t \in Threads : pc[t] # "idle" /\ call[t].to = p

Holds(p, k) == points[App(p)] # None /\ ~To(p) /\ kind[points[App(p)]] \in k
Empty(p) == points[App(p)] = None /\ ~To(p)

-----------------------------------------------------------------------------
(* Calls that make an object                                               *)

Start(t, makes, by, through, to) ==
  /\ pc[t] = "idle"
  /\ Empty(to)
  /\ pc' = [pc EXCEPT ![t] = "new"]
  /\ call' = [call EXCEPT ![t] = [makes |-> makes, by |-> by, through |-> through, to |-> to]]
  /\ UNCHANGED <<objects, dying, registering>>

\* DllGetClassObject, when COM finds the class.
GetClassObject(t, q) ==
  /\ \E c \in {"list", "engine"} : Usable(c)
  /\ Start(t, "factory", "query", None, q)

CreateInstance(t, p, q) ==
  /\ Holds(p, {"factory"})
  /\ \E k \in {"list", "engine"} : Start(t, k, "query", p, q)

\* Clone; create_token of Next and Item, whose token holds the key; OpenKey.
Make(t, p, q) ==
  \/ Holds(p, {"list"}) /\ \E k \in {"list", "key"} : Start(t, k, "pointer", p, q)
  \/ Holds(p, {"key"}) /\ Start(t, "key", "pointer", p, q)

\* Mutant of NewFails: the destructor of an object never made uncounts it.
NewFailsUncounts(t) ==
  /\ pc[t] = "new"
  /\ Go(t, "idle")
  /\ count' = count - 1
  /\ UNCHANGED <<status, kind, refs, points, locks, dying, registering>>

\* Memory is short or the constructor throws.
NewFails(t) ==
  /\ pc[t] = "new"
  /\ Go(t, "idle")
  /\ UNCHANGED <<objects, dying, registering>>

New(t) ==
  /\ pc[t] = "new"
  /\ \E o \in Objects :
       /\ status[o] = "free"
       /\ status' = [status EXCEPT ![o] = "made"]
       /\ kind' = [kind EXCEPT ![o] = call[t].makes]
       /\ refs' = [refs EXCEPT ![o] = 1]
       /\ points' = [points EXCEPT ![Impl(t)] = o]
  /\ Go(t, "count")
  /\ UNCHANGED <<count, locks, dying, registering>>

\* Mutant of Increment: what a factory makes is not counted.
IncrementFactories(t) ==
  /\ pc[t] = "count"
  /\ count' = IF call[t].makes = "factory" THEN count + 1 ELSE count
  /\ status' = [status EXCEPT ![points[Impl(t)]] = "live"]
  /\ Go(t, "give")
  /\ UNCHANGED <<kind, refs, points, locks, dying, registering>>

\* The body of com::object's constructor.
Increment(t) ==
  /\ pc[t] = "count"
  /\ count' = count + 1
  /\ status' = [status EXCEPT ![points[Impl(t)]] = "live"]
  /\ Go(t, "give")
  /\ UNCHANGED <<kind, refs, points, locks, dying, registering>>

\* QueryInterface for the caller, into the caller's pointer.
Query(t) ==
  /\ pc[t] = "give" /\ call[t].by = "query"
  /\ Refer(App(call[t].to), points[Impl(t)])
  /\ Go(t, "dropImpl")
  /\ UNCHANGED <<status, kind, count, locks, dying, registering>>

\* interface_ptr(obj), once the object has its contents.
Fill(t) ==
  /\ pc[t] = "give" /\ call[t].by = "pointer"
  /\ Refer(Local(t), points[Impl(t)])
  /\ Go(t, "hand")
  /\ UNCHANGED <<status, kind, count, locks, dying, registering>>

\* E_NOINTERFACE, or the contents cannot be copied.
GiveFails(t) ==
  /\ pc[t] = "give"
  /\ Go(t, "dropImpl")
  /\ UNCHANGED <<objects, dying, registering>>

\* Mutant of Hand: get(false), as for the token's key.
HandUnreferred(t) ==
  /\ pc[t] = "hand"
  /\ points' = [points EXCEPT ![App(call[t].to)] = points[Local(t)]]
  /\ Go(t, "dropLocal")
  /\ UNCHANGED <<status, kind, refs, count, locks, dying, registering>>

\* int_ptr.get(), or the token that takes a reference to its key.
Hand(t) ==
  /\ pc[t] = "hand"
  /\ Refer(App(call[t].to), points[Local(t)])
  /\ Go(t, "dropLocal")
  /\ UNCHANGED <<status, kind, count, locks, dying, registering>>

\* create_token: SAPI's token cannot be made.
HandFails(t) ==
  /\ pc[t] = "hand"
  /\ call[t].makes = "key" /\ kind[points[App(call[t].through)]] = "list"
  /\ Go(t, "dropLocal")
  /\ UNCHANGED <<objects, dying, registering>>

\* ~interface_ptr, then ~object.
DropLocal(t) ==
  /\ pc[t] = "dropLocal"
  /\ Drop(t, Local(t), "dropImpl")
  /\ UNCHANGED <<status, kind, count, locks, registering>>

DropImpl(t) ==
  /\ pc[t] = "dropImpl"
  /\ Drop(t, Impl(t), "idle")
  /\ UNCHANGED <<status, kind, count, locks, registering>>

-----------------------------------------------------------------------------
(* Calls through a pointer                                                 *)

\* AddRef, or QueryInterface that succeeds.
AddRef(t, p, q) ==
  /\ pc[t] = "idle"
  /\ Holds(p, Kinds) /\ Empty(q)
  /\ Refer(App(q), points[App(p)])
  /\ UNCHANGED <<status, kind, count, locks, threads, registering>>

Release(t, p) ==
  /\ pc[t] = "idle"
  /\ Holds(p, Kinds) /\ ~Through(p)
  /\ Drop(t, App(p), "idle")
  /\ UNCHANGED <<status, kind, count, locks, registering>>

SetObjectToken(t, p, q) ==
  /\ pc[t] = "idle"
  /\ Holds(p, {"engine"}) /\ Holds(q, {"key"})
  /\ LET e == points[App(p)] IN
     /\ points[Token(e)] = None
     /\ Refer(Token(e), points[App(q)])
  /\ UNCHANGED <<status, kind, count, locks, threads, registering>>

GetObjectToken(t, p, q) ==
  /\ pc[t] = "idle"
  /\ Holds(p, {"engine"}) /\ Empty(q)
  /\ LET e == points[App(p)] IN
     /\ points[Token(e)] # None
     /\ Refer(App(q), points[Token(e)])
  /\ UNCHANGED <<status, kind, count, locks, threads, registering>>

LockServer(t, p) ==
  /\ pc[t] = "idle"
  /\ Holds(p, {"factory"})
  /\ \/ locks < MaxLocks /\ count' = count + 1 /\ locks' = locks + 1
     \/ locks > 0 /\ count' = count - 1 /\ locks' = locks - 1
  /\ UNCHANGED <<status, kind, refs, points, threads, registering>>

-----------------------------------------------------------------------------
(* delete this                                                             *)

\* The body of ~IUnknownImpl.
Uncount(t) ==
  /\ pc[t] = "uncount"
  /\ count' = count - 1
  /\ status' = [status EXCEPT ![Head(dying[t])] = "dying"]
  /\ Go(t, "destroy")
  /\ UNCHANGED <<kind, refs, points, locks, dying, registering>>

\* ~T: an engine lets go of its token, the last to hold a key releases it.
DropToken(t) ==
  /\ pc[t] = "destroy"
  /\ points[Token(Head(dying[t]))] # None
  /\ Drop(t, Token(Head(dying[t])), "destroy")
  /\ UNCHANGED <<status, kind, count, locks, registering>>

Free(t) ==
  /\ pc[t] = "destroy"
  /\ points[Token(Head(dying[t]))] = None
  /\ status' = [status EXCEPT ![Head(dying[t])] = "free"]
  /\ dying' = [dying EXCEPT ![t] = Tail(@)]
  /\ kind' = [kind EXCEPT ![Head(dying[t])] = None]
  /\ Go(t, IF Len(dying[t]) = 1 THEN "idle" ELSE "destroy")
  /\ UNCHANGED <<refs, points, count, locks, registering>>

Step(t) ==
  \/ NewFails(t) \/ New(t) \/ Increment(t) \/ Query(t) \/ Fill(t) \/ GiveFails(t)
  \/ Hand(t) \/ HandFails(t) \/ DropLocal(t) \/ DropImpl(t)
  \/ Uncount(t) \/ DropToken(t) \/ Free(t)
  \/ \E p \in Pointers :
       \/ GetClassObject(t, p) \/ Release(t, p) \/ LockServer(t, p)
       \/ \E q \in Pointers :
            \/ CreateInstance(t, p, q) \/ Make(t, p, q) \/ AddRef(t, p, q)
            \/ SetObjectToken(t, p, q) \/ GetObjectToken(t, p, q)

Next == Register \/ \E t \in Threads : Step(t)

Spec == Init /\ [][Next]_vars

-----------------------------------------------------------------------------
(* Properties                                                              *)

TypeOK ==
  /\ status \in [Objects -> {"free", "made", "live", "dying"}]
  /\ kind \in [Objects -> Kinds \cup {None}]
  /\ refs \in [Objects -> Nat]
  /\ points \in [Places -> Objects \cup {None}]
  /\ count \in Nat
  /\ locks \in 0..MaxLocks
  /\ pc \in [Threads -> {"idle", "new", "count", "give", "hand", "dropLocal",
                         "dropImpl", "uncount", "destroy"}]
  /\ call \in [Threads -> Calls]
  /\ dying \in [Threads -> Seq(Objects)]
  /\ registry \subseteq {Writes[k] : k \in 1..Len(Writes)}
  /\ regsvr \in [runs : {"none", "register", "unregister"}, step : 1..Len(Writes)]
  /\ stuck \in BOOLEAN

PointersTo(o) == {v \in Places : points[v] = o}

Destroys(t, o) == \E k \in 1..Len(dying[t]) : dying[t][k] = o

\* Every pointer anywhere, of the application or of a call that fails
\* half-way, is counted in the object it points to, so that no object is
\* destroyed under a pointer; and an object nobody points to is on its way out
\* in exactly one thread, so that none is left or destroyed twice.
ReferencesCounted ==
  \A o \in Objects :
    /\ status[o] \in {"made", "live"} => refs[o] = Cardinality(PointersTo(o))
    /\ status[o] \in {"free", "dying"} => PointersTo(o) = {}
    /\ status[o] # "free" /\ PointersTo(o) = {} <=>
         \E t \in Threads : Destroys(t, o)
    /\ \A t, u \in Threads : Destroys(t, o) /\ Destroys(u, o) => t = u

\* DllCanUnloadNow says yes (src/sapi_main.cpp:73) only when the application
\* has no pointer and no lock: all that may still run in the DLL is a
\* DllGetClassObject that has handed out nothing yet, and the end of a
\* destructor (src/com.hpp:87).
UnloadableMeansUnused ==
  count = 0 =>
    /\ locks = 0
    /\ \A p \in Pointers : points[App(p)] = None
    /\ \A t \in Threads :
         \/ pc[t] \in {"idle", "destroy"}
         \/ call[t].makes = "factory" /\ pc[t] \in {"new", "count"}

\* SAPI finds the enumerator only where COM finds both classes, whatever
\* registration or removal failed or was cut short, unless the removal of the
\* enumerator itself was refused, which DllUnregisterServer passes over
\* (src/sapi_main.cpp:44).
ListedMeansUsable == Listed /\ ~stuck => Usable("list") /\ Usable("engine")
=============================================================================
