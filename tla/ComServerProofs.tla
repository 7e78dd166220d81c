---------------------------- MODULE ComServerProofs ----------------------------
(* The counts of ComServer for any number of threads, objects and pointers. *)
EXTENDS ComServer, FiniteSetTheorems, SequenceTheorems, TLAPS

\* What the object counter counts.
Counted == count = Cardinality({o \in Objects : status[o] = "live"}) + locks

HasImpl == {"count", "give", "hand", "dropLocal", "dropImpl"}

\* What the pointers of a running call are.
Frames ==
  \A t \in Threads :
    /\ points[Impl(t)] # None <=> pc[t] \in HasImpl
    /\ points[Local(t)] # None <=> pc[t] \in {"hand", "dropLocal"}
    /\ pc[t] \in {"hand", "dropLocal"} => points[Local(t)] = points[Impl(t)]
    /\ pc[t] = "count" => status[points[Impl(t)]] = "made"
    /\ pc[t] \in HasImpl \ {"count"} => status[points[Impl(t)]] = "live"
    /\ \A u \in Threads : pc[t] = "count" /\ points[Impl(u)] = points[Impl(t)] => u = t

\* The application's pointers and the tokens engines keep are to live objects.
Pointed ==
  /\ \A p \in Pointers : points[App(p)] # None => status[points[App(p)]] = "live"
  /\ \A o \in Objects : points[Token(o)] # None =>
       status[points[Token(o)]] = "live" /\ status[o] \in {"live", "dying"}

\* A call has its target for itself, and the pointer it goes through stays.
Targets ==
  \A t \in Threads :
    /\ pc[t] = "idle" => call[t] = NoCall
    /\ pc[t] \in {"new", "count", "give", "hand"} =>
         /\ call[t].to \in Pointers /\ points[App(call[t].to)] = None
         /\ call[t].through = None => call[t].makes = "factory"
    /\ call[t].through # None => points[App(call[t].through)] # None
    /\ \A u \in Threads : call[t].to = call[u].to /\ call[t].to # None => t = u

\* What a thread destroys: all of it is uncounted but the innermost, before
\* its destructor has run.
Deaths ==
  \A t \in Threads :
    /\ dying[t] = <<>> <=> pc[t] \notin {"uncount", "destroy"}
    /\ \A k \in 1..Len(dying[t]) :
         /\ status[dying[t][k]] = IF k = 1 /\ pc[t] = "uncount" THEN "live" ELSE "dying"
         /\ \A j \in 1..Len(dying[t]) : dying[t][j] = dying[t][k] => j = k

Inv == TypeOK /\ ReferencesCounted /\ Counted /\ Frames /\ Pointed /\ Targets /\ Deaths

-----------------------------------------------------------------------------
(* Places and counts                                                       *)

LEMMA PlaceFacts ==
  /\ \A p \in Pointers : App(p) \in Places
  /\ \A t \in Threads : Impl(t) \in Places /\ Local(t) \in Places
  /\ \A o \in Objects : Token(o) \in Places
  /\ \A p, q : App(p) = App(q) => p = q
  /\ \A t, u : Impl(t) = Impl(u) => t = u
  /\ \A t, u : Local(t) = Local(u) => t = u
  /\ \A o, k : Token(o) = Token(k) => o = k
  /\ \A p, q : App(p) # Impl(q) /\ App(p) # Local(q) /\ App(p) # Token(q)
  /\ \A p, q : Impl(p) # Local(q) /\ Impl(p) # Token(q) /\ Local(p) # Token(q)
BY DEF Places, App, Impl, Local, Token

LEMMA FiniteImage ==
  ASSUME NEW S, NEW T, IsFiniteSet(S), NEW f \in [S -> T],
         \A y \in T : \E x \in S : f[x] = y
  PROVE  IsFiniteSet(T)
<1>1. f \in Surjection(S, T)
  BY DEF Surjection
<1>2. QED
  BY <1>1, FS_Surjection

LEMMA FinitePlaces == IsFiniteSet(Places)
<1>1. IsFiniteSet({App(p) : p \in Pointers})
  <2> DEFINE T == {App(p) : p \in Pointers}
             f == [p \in Pointers |-> App(p)]
  <2>1. f \in [Pointers -> T] /\ \A y \in T : \E p \in Pointers : f[p] = y
    OBVIOUS
  <2>2. IsFiniteSet(Pointers)
    BY ComAssumption
  <2> HIDE DEF T, f
  <2>3. IsFiniteSet(T)
    BY <2>1, <2>2, FiniteImage
  <2>4. QED
    BY <2>3 DEF T
<1>2. IsFiniteSet({Impl(t) : t \in Threads})
  <2> DEFINE T == {Impl(t) : t \in Threads}
             f == [t \in Threads |-> Impl(t)]
  <2>1. f \in [Threads -> T] /\ \A y \in T : \E t \in Threads : f[t] = y
    OBVIOUS
  <2>2. IsFiniteSet(Threads)
    BY ComAssumption
  <2> HIDE DEF T, f
  <2>3. IsFiniteSet(T)
    BY <2>1, <2>2, FiniteImage
  <2>4. QED
    BY <2>3 DEF T
<1>3. IsFiniteSet({Local(t) : t \in Threads})
  <2> DEFINE T == {Local(t) : t \in Threads}
             f == [t \in Threads |-> Local(t)]
  <2>1. f \in [Threads -> T] /\ \A y \in T : \E t \in Threads : f[t] = y
    OBVIOUS
  <2>2. IsFiniteSet(Threads)
    BY ComAssumption
  <2> HIDE DEF T, f
  <2>3. IsFiniteSet(T)
    BY <2>1, <2>2, FiniteImage
  <2>4. QED
    BY <2>3 DEF T
<1>4. IsFiniteSet({Token(o) : o \in Objects})
  <2> DEFINE T == {Token(o) : o \in Objects}
             f == [o \in Objects |-> Token(o)]
  <2>1. f \in [Objects -> T] /\ \A y \in T : \E o \in Objects : f[o] = y
    OBVIOUS
  <2>2. IsFiniteSet(Objects)
    BY ComAssumption
  <2> HIDE DEF T, f
  <2>3. IsFiniteSet(T)
    BY <2>1, <2>2, FiniteImage
  <2>4. QED
    BY <2>3 DEF T
<1>5. QED
  BY <1>1, <1>2, <1>3, <1>4, FS_Union DEF Places

LEMMA FinitePointers ==
  \A o : IsFiniteSet(PointersTo(o)) /\ Cardinality(PointersTo(o)) \in Nat
           /\ (Cardinality(PointersTo(o)) = 0 <=> PointersTo(o) = {})
<1> TAKE o
<1>1. PointersTo(o) \in SUBSET Places
  BY DEF PointersTo
<1>2. IsFiniteSet(PointersTo(o))
  BY <1>1, FinitePlaces, FS_Subset
<1>3. QED
  BY <1>2, FS_CardinalityType, FS_EmptySet

\* One more pointer to o, in an empty place.
LEMMA Referred ==
  ASSUME TypeOK, ReferencesCounted,
         NEW v \in Places, NEW o \in Objects, points[v] = None,
         status[o] = "live", PointersTo(o) # {},
         Refer(v, o), UNCHANGED <<status, dying>>
  PROVE  /\ ReferencesCounted'
         /\ refs' \in [Objects -> Nat] /\ points' \in [Places -> Objects \cup {None}]
<1>0. o # None /\ points \in [Places -> Objects \cup {None}] /\ refs \in [Objects -> Nat]
  BY ComAssumption DEF TypeOK
<1>1. PointersTo(o)' = PointersTo(o) \cup {v} /\ v \notin PointersTo(o)
  BY <1>0 DEF Refer, PointersTo
<1>2. \A x \in Objects \ {o} : PointersTo(x)' = PointersTo(x) /\ refs'[x] = refs[x]
  <2> TAKE x \in Objects \ {o}
  <2>1. x # None
    BY ComAssumption
  <2>2. QED
    BY <1>0, <2>1 DEF Refer, PointersTo
<1>3. Cardinality(PointersTo(o)') = Cardinality(PointersTo(o)) + 1
  BY <1>1, FinitePointers, FS_AddElement
<1>4. refs'[o] = refs[o] + 1
  BY <1>0 DEF Refer
<1>5. \A t \in Threads, x \in Objects : Destroys(t, x)' <=> Destroys(t, x)
  BY DEF Destroys
<1>6. PointersTo(o)' # {}
  BY <1>1
<1>7. ASSUME NEW x \in Objects
      PROVE  /\ status[x] \in {"made", "live"} => refs'[x] = Cardinality(PointersTo(x)')
             /\ status[x] \in {"free", "dying"} => PointersTo(x)' = {}
             /\ status[x] # "free" /\ PointersTo(x)' = {} <=> \E t \in Threads : Destroys(t, x)
             /\ \A t, u \in Threads : Destroys(t, x) /\ Destroys(u, x) => t = u
  <2>1. CASE x = o
    BY <2>1, <1>3, <1>4, <1>6 DEF ReferencesCounted
  <2>2. CASE x # o
    BY <2>2, <1>2 DEF ReferencesCounted
  <2>3. QED
    BY <2>1, <2>2
<1>8. ReferencesCounted'
  BY <1>5, <1>7 DEF ReferencesCounted
<1>9. QED
  BY <1>0, <1>8 DEF Refer

-----------------------------------------------------------------------------
(* What a thread destroys, as a sequence                                   *)

LEMMA Pushed ==
  ASSUME NEW s \in Seq(Objects), NEW o \in Objects
  PROVE  /\ <<o>> \o s \in Seq(Objects) /\ Len(<<o>> \o s) = Len(s) + 1
         /\ (<<o>> \o s)[1] = o
         /\ \A k \in 1..Len(s) : (<<o>> \o s)[k + 1] = s[k]
         /\ \A k \in 1..(Len(s) + 1) : k # 1 => (<<o>> \o s)[k] = s[k - 1] /\ k - 1 \in 1..Len(s)
<1>1. <<o>> \in Seq(Objects) /\ Len(<<o>>) = 1 /\ <<o>>[1] = o
  OBVIOUS
<1>2. QED
  BY <1>1, ConcatProperties

LEMMA Popped ==
  ASSUME NEW s \in Seq(Objects), s # <<>>
  PROVE  /\ Head(s) = s[1] /\ Head(s) \in Objects /\ Len(s) \in Nat /\ Len(s) >= 1
         /\ Tail(s) \in Seq(Objects) /\ Len(Tail(s)) = Len(s) - 1
         /\ \A k \in 1..Len(Tail(s)) : Tail(s)[k] = s[k + 1] /\ k + 1 \in 1..Len(s)
         /\ \A k \in 1..Len(s) : k # 1 => s[k] = Tail(s)[k - 1] /\ k - 1 \in 1..Len(Tail(s))
         /\ Tail(s) = <<>> <=> Len(s) = 1
<1>1. Tail(s) \in Seq(Objects) /\ Len(Tail(s)) = Len(s) - 1 /\ Head(s) = s[1]
        /\ \A k \in 1..Len(Tail(s)) : Tail(s)[k] = s[k + 1]
  BY HeadTailProperties
<1>2. Tail(s) = <<>> <=> Len(Tail(s)) = 0
  BY <1>1, EmptySeq
<1>3. Len(s) \in Nat /\ Len(s) >= 1
  BY EmptySeq
<1>4. QED
  BY <1>1, <1>2, <1>3

-----------------------------------------------------------------------------
(* Release                                                                 *)

\* What Drop does to the thread and to what it destroys.
LEMMA DropCases ==
  ASSUME TypeOK, NEW t \in Threads, NEW v, NEW next, Drop(t, v, next)
  PROVE  \/ /\ refs[points[v]] # 1 /\ Go(t, next) /\ UNCHANGED dying
         \/ /\ refs[points[v]] = 1 /\ Go(t, "uncount")
            /\ dying' = [dying EXCEPT ![t] = <<points[v]>> \o @]
BY DEF Drop

\* One pointer to o less; the last one sends o to its destructor.
LEMMA Dropped ==
  ASSUME TypeOK, ReferencesCounted, Deaths,
         NEW t \in Threads, NEW v \in Places, NEW o \in Objects, NEW next, points[v] = o,
         status[o] = "live", pc[t] # "uncount", next \notin {"uncount", "destroy"} <=> dying[t] = <<>>,
         next # "uncount",
         Drop(t, v, next), UNCHANGED status
  PROVE  /\ ReferencesCounted'
         /\ Deaths'
         /\ refs' \in [Objects -> Nat] /\ points' \in [Places -> Objects \cup {None}]
         /\ dying' \in [Threads -> Seq(Objects)]
<1>0. /\ o # None /\ points \in [Places -> Objects \cup {None}] /\ refs \in [Objects -> Nat]
      /\ dying \in [Threads -> Seq(Objects)] /\ pc \in [Threads -> {"idle", "new", "count", "give", "hand", "dropLocal", "dropImpl", "uncount", "destroy"}]
  BY ComAssumption DEF TypeOK
<1>1. PointersTo(o)' = PointersTo(o) \ {v} /\ v \in PointersTo(o)
  BY <1>0 DEF Drop, PointersTo
<1>2. \A x \in Objects \ {o} : PointersTo(x)' = PointersTo(x) /\ refs'[x] = refs[x]
  <2> TAKE x \in Objects \ {o}
  <2>1. x # None
    BY ComAssumption
  <2>2. QED
    BY <1>0, <2>1 DEF Drop, PointersTo
<1>3. Cardinality(PointersTo(o)') = Cardinality(PointersTo(o)) - 1
  BY <1>1, FinitePointers, FS_RemoveElement
<1>4. refs[o] = Cardinality(PointersTo(o)) /\ refs'[o] = refs[o] - 1 /\ refs[o] >= 1
  BY <1>0, <1>1, FinitePointers DEF Drop, ReferencesCounted
<1>5. refs'[o] = Cardinality(PointersTo(o)') /\ (PointersTo(o)' = {} <=> refs[o] = 1)
  <2>1. IsFiniteSet(PointersTo(o)')
    BY <1>1, FinitePointers, FS_RemoveElement
  <2>2. QED
    BY <2>1, <1>3, <1>4, FinitePointers, FS_EmptySet
<1>6. \A u \in Threads : ~Destroys(u, o)
  BY <1>1 DEF ReferencesCounted
<1>7. CASE refs[o] # 1
  <2>1. Go(t, next) /\ dying' = dying
    BY <1>7 DEF Drop
  <2>2. \A u \in Threads, x \in Objects : Destroys(u, x)' <=> Destroys(u, x)
    BY <2>1 DEF Destroys
  <2>3. ReferencesCounted'
    <3> SUFFICES ASSUME NEW x \in Objects
                 PROVE  /\ status'[x] \in {"made", "live"} => refs'[x] = Cardinality(PointersTo(x)')
                        /\ status'[x] \in {"free", "dying"} => PointersTo(x)' = {}
                        /\ status'[x] # "free" /\ PointersTo(x)' = {} <=> \E u \in Threads : Destroys(u, x)
                        /\ \A u, w \in Threads : Destroys(u, x) /\ Destroys(w, x) => u = w
      BY <2>2 DEF ReferencesCounted
    <3>1. CASE x = o
      BY <3>1, <1>5, <1>6, <1>7
    <3>2. CASE x # o
      BY <3>2, <1>2 DEF ReferencesCounted
    <3>3. QED
      BY <3>1, <3>2
  <2>4. Deaths'
    BY <2>1, <1>0 DEF Deaths, Go
  <2>5. QED
    BY <1>0, <1>4, <2>1, <2>3, <2>4 DEF Drop
<1>8. CASE refs[o] = 1
  <2>1. Go(t, "uncount") /\ dying' = [dying EXCEPT ![t] = <<o>> \o @]
    BY <1>8 DEF Drop
  <2> DEFINE s == <<o>> \o dying[t]
  <2>2. dying'[t] = s /\ dying[t] \in Seq(Objects)
    BY <1>0, <2>1
  <2>3. /\ s \in Seq(Objects) /\ Len(s) = Len(dying[t]) + 1 /\ s[1] = o
        /\ \A k \in 1..Len(dying[t]) : s[k + 1] = dying[t][k]
        /\ \A k \in 1..(Len(dying[t]) + 1) : k # 1 => s[k] = dying[t][k - 1] /\ k - 1 \in 1..Len(dying[t])
    BY <2>2, Pushed
  <2>4. Len(dying[t]) \in Nat
    BY <2>2, LenProperties
  <2> HIDE DEF s
  <2>5. \A u \in Threads \ {t} : dying'[u] = dying[u]
    BY <1>0, <2>1
  <2>6. \A u \in Threads, x \in Objects : Destroys(u, x)' <=> Destroys(u, x) \/ (u = t /\ x = o)
    <3> TAKE u \in Threads, x \in Objects
    <3>1. CASE u # t
      BY <2>5, <3>1 DEF Destroys
    <3>2. CASE u = t
      <4>1. Destroys(t, x)' <=> \E k \in 1..Len(s) : s[k] = x
        BY <2>2 DEF Destroys
      <4>2. ASSUME NEW k \in 1..Len(s), s[k] = x PROVE Destroys(t, x) \/ x = o
        BY <4>2, <2>3, <2>4 DEF Destroys
      <4>3. ASSUME Destroys(t, x) PROVE \E k \in 1..Len(s) : s[k] = x
        <5>1. PICK k \in 1..Len(dying[t]) : dying[t][k] = x
          BY <4>3 DEF Destroys
        <5>2. k + 1 \in 1..Len(s) /\ s[k + 1] = x
          BY <5>1, <2>3, <2>4
        <5>3. QED
          BY <5>2
      <4>4. ASSUME x = o PROVE \E k \in 1..Len(s) : s[k] = x
        <5>1. 1 \in 1..Len(s)
          BY <2>3, <2>4
        <5>2. QED
          BY <5>1, <2>3, <4>4
      <4>5. QED
        BY <3>2, <4>1, <4>2, <4>3, <4>4
    <3>3. QED
      BY <3>1, <3>2
  <2>7. ReferencesCounted'
    <3> SUFFICES ASSUME NEW x \in Objects
                 PROVE  /\ status'[x] \in {"made", "live"} => refs'[x] = Cardinality(PointersTo(x)')
                        /\ status'[x] \in {"free", "dying"} => PointersTo(x)' = {}
                        /\ status'[x] # "free" /\ PointersTo(x)' = {} <=> \E u \in Threads : Destroys(u, x)'
                        /\ \A u, w \in Threads : Destroys(u, x)' /\ Destroys(w, x)' => u = w
      BY DEF ReferencesCounted
    <3>1. CASE x = o
      BY <3>1, <1>5, <1>6, <1>8, <2>6
    <3>2. CASE x # o
      BY <3>2, <1>2, <2>6 DEF ReferencesCounted
    <3>3. QED
      BY <3>1, <3>2
  <2>8. Deaths'
    <3> SUFFICES ASSUME NEW u \in Threads
                 PROVE  /\ dying'[u] = <<>> <=> pc'[u] \notin {"uncount", "destroy"}
                        /\ \A k \in 1..Len(dying'[u]) :
                             /\ status'[dying'[u][k]] = IF k = 1 /\ pc'[u] = "uncount" THEN "live" ELSE "dying"
                             /\ \A j \in 1..Len(dying'[u]) : dying'[u][j] = dying'[u][k] => j = k
      BY DEF Deaths
    <3>1. CASE u # t
      <4>1. dying'[u] = dying[u] /\ pc'[u] = pc[u]
        BY <1>0, <2>1, <2>5, <3>1 DEF Go
      <4>2. QED
        BY <4>1 DEF Deaths
    <3>2. CASE u = t
      <4>1. pc'[t] = "uncount" /\ dying'[t] = s
        BY <1>0, <2>1, <2>2 DEF Go
      <4>2. s # <<>>
        BY <2>3, <2>4, EmptySeq
      <4>3. \A k \in 1..Len(dying[t]) : status[dying[t][k]] = "dying" /\ dying[t][k] # o
        BY <1>6 DEF Deaths, Destroys
      <4>4. ASSUME NEW k \in 1..Len(s)
            PROVE  status[s[k]] = IF k = 1 THEN "live" ELSE "dying"
        BY <4>3, <2>3, <2>4
      <4>5. ASSUME NEW k \in 1..Len(s), NEW j \in 1..Len(s), s[j] = s[k] PROVE j = k
        <5>0. ASSUME NEW i \in 1..Len(s), i # 1 PROVE s[i] # o
          <6>1. s[i] = dying[t][i - 1] /\ i - 1 \in 1..Len(dying[t])
            BY <5>0, <2>3
          <6>2. dying[t][i - 1] # o
            BY <6>1, <4>3
          <6>3. QED
            BY <6>1, <6>2
        <5>1. CASE j = 1
          BY <5>1, <5>0, <4>5, <2>3
        <5>2. CASE k = 1
          BY <5>2, <5>0, <4>5, <2>3
        <5>3. CASE j # 1 /\ k # 1
          <6>1. /\ j - 1 \in 1..Len(dying[t]) /\ k - 1 \in 1..Len(dying[t])
                /\ dying[t][j - 1] = dying[t][k - 1]
            BY <5>3, <4>5, <2>3
          <6>2. j - 1 = k - 1
            BY <6>1 DEF Deaths
          <6>3. QED
            BY <6>2, <2>3, <2>4
        <5>4. QED
          BY <5>1, <5>2, <5>3
      <4>6. QED
        BY <3>2, <4>1, <4>2, <4>4, <4>5
    <3>3. QED
      BY <3>1, <3>2
  <2>9. dying' \in [Threads -> Seq(Objects)]
    BY <1>0, <2>1, <2>2, <2>3 DEF s
  <2>10. QED
    BY <1>0, <1>4, <2>7, <2>8, <2>9 DEF Drop
<1>9. QED
  BY <1>7, <1>8

-----------------------------------------------------------------------------
(* The steps of a call that move no pointer                                *)

LEMMA Unmoved ==
  ASSUME ReferencesCounted, Counted, Pointed, UNCHANGED <<objects, dying>>
  PROVE  ReferencesCounted' /\ Counted' /\ Pointed'
<1>1. UNCHANGED <<status, kind, refs, points, count, locks, dying>>
  BY DEF objects
<1>2. \A o \in Objects : PointersTo(o)' = PointersTo(o)
  BY <1>1 DEF PointersTo
<1>3. \A t \in Threads, o \in Objects : Destroys(t, o)' <=> Destroys(t, o)
  BY <1>1 DEF Destroys
<1>4. ReferencesCounted'
  BY <1>1, <1>2, <1>3 DEF ReferencesCounted
<1>5. Counted' /\ Pointed'
  BY <1>1 DEF Counted, Pointed
<1>6. QED
  BY <1>4, <1>5

LEMMA CallTypes ==
  ASSUME TypeOK, UNCHANGED <<objects, registering>>,
         pc' \in [Threads -> {"idle", "new", "count", "give", "hand", "dropLocal",
                              "dropImpl", "uncount", "destroy"}],
         call' \in [Threads -> Calls], dying' \in [Threads -> Seq(Objects)]
  PROVE  TypeOK'
BY DEF TypeOK, objects, registering

LEMMA NoCallType == NoCall \in Calls /\ NoCall.to = None /\ NoCall.through = None
BY DEF NoCall, Calls, Kinds

LEMMA StartKeeps ==
  ASSUME Inv, NEW t \in Threads, NEW makes \in Kinds, NEW by \in {"query", "pointer"},
         NEW through \in Pointers \cup {None}, NEW to \in Pointers,
         through = None => makes = "factory",
         through # None => points[App(through)] # None,
         Start(t, makes, by, through, to)
  PROVE  Inv'
<1> USE DEF Inv
<1>1. ReferencesCounted' /\ Counted' /\ Pointed'
  BY Unmoved DEF Start
<1>2. /\ pc[t] = "idle" /\ UNCHANGED <<objects, dying, registering>>
      /\ pc' = [pc EXCEPT ![t] = "new"] /\ points[App(to)] = None
      /\ \A u \in Threads : pc[u] # "idle" => call[u].to # to
      /\ call' = [call EXCEPT ![t] = [makes |-> makes, by |-> by, through |-> through, to |-> to]]
  BY DEF Start, Empty, To
<1>3. TypeOK'
  BY <1>2, CallTypes DEF TypeOK, Calls
<1>4. Frames'
  BY <1>2 DEF Frames, TypeOK, objects, HasImpl
<1>5. to # None
  BY ComAssumption
<1>6. \A u \in Threads : call[u].to # to
  BY <1>2, <1>5, NoCallType DEF Targets
<1>7. Targets'
  BY <1>2, <1>6 DEF Targets, TypeOK, objects
<1>8. Deaths'
  BY <1>2 DEF Deaths, TypeOK, objects
<1>9. QED
  BY <1>1, <1>3, <1>4, <1>7, <1>8

LEMMA FailKeeps ==
  ASSUME Inv, NEW t \in Threads, NewFails(t) \/ GiveFails(t) \/ HandFails(t)
  PROVE  Inv'
<1> USE DEF Inv
<1>1. UNCHANGED <<objects, dying, registering>>
  BY DEF NewFails, GiveFails, HandFails
<1>2. ReferencesCounted' /\ Counted' /\ Pointed'
  BY <1>1, Unmoved
<1>3. PICK next \in {"idle", "dropImpl", "dropLocal"} :
        /\ Go(t, next)
        /\ \/ next = "idle" /\ pc[t] = "new"
           \/ next = "dropImpl" /\ pc[t] = "give"
           \/ next = "dropLocal" /\ pc[t] = "hand"
  <2>1. CASE NewFails(t)
    <3>1. Go(t, "idle") /\ pc[t] = "new"
      BY <2>1 DEF NewFails
    <3>2. QED
      BY <3>1
  <2>2. CASE GiveFails(t)
    <3>1. Go(t, "dropImpl") /\ pc[t] = "give"
      BY <2>2 DEF GiveFails
    <3>2. QED
      BY <3>1
  <2>3. CASE HandFails(t)
    <3>1. Go(t, "dropLocal") /\ pc[t] = "hand"
      BY <2>3 DEF HandFails
    <3>2. QED
      BY <3>1
  <2>4. QED
    BY <2>1, <2>2, <2>3
<1>4. pc' = [pc EXCEPT ![t] = next] /\ call' \in [Threads -> Calls]
        /\ \A u \in Threads : call'[u] = IF u = t /\ next = "idle" THEN NoCall ELSE call[u]
  <2>1. CASE next = "idle"
    BY <1>3, <2>1, NoCallType DEF Go, TypeOK
  <2>2. CASE next # "idle"
    BY <1>3, <2>2 DEF Go, TypeOK
  <2>3. QED
    BY <2>1, <2>2
<1>5. TypeOK'
  BY <1>1, <1>4, CallTypes DEF TypeOK
<1>6. Frames'
  BY <1>1, <1>3, <1>4 DEF Frames, TypeOK, objects, HasImpl
<1>7. Targets'
  BY <1>1, <1>3, <1>4, NoCallType DEF Targets, TypeOK, objects
<1>8. Deaths'
  BY <1>1, <1>3, <1>4 DEF Deaths, TypeOK, objects
<1>9. QED
  BY <1>2, <1>5, <1>6, <1>7, <1>8

-----------------------------------------------------------------------------
(* The steps that add a reference                                          *)

LEMMA ReferTypes ==
  ASSUME TypeOK, UNCHANGED <<status, kind, count, locks, dying, registering>>,
         refs' \in [Objects -> Nat], points' \in [Places -> Objects \cup {None}],
         pc' \in [Threads -> {"idle", "new", "count", "give", "hand", "dropLocal",
                              "dropImpl", "uncount", "destroy"}],
         call' \in [Threads -> Calls]
  PROVE  TypeOK'
BY DEF TypeOK, registering

LEMMA PlacePoints ==
  ASSUME TypeOK, NEW v \in Places, NEW o, Refer(v, o)
  PROVE  points'[v] = o /\ \A w \in Places \ {v} : points'[w] = points[w]
BY DEF TypeOK, Refer

LEMMA HandOut ==
  ASSUME Inv, NEW t \in Threads,
         \/ pc[t] = "give" /\ Refer(App(call[t].to), points[Impl(t)]) /\ Go(t, "dropImpl")
         \/ pc[t] = "hand" /\ Refer(App(call[t].to), points[Local(t)]) /\ Go(t, "dropLocal"),
         UNCHANGED <<status, kind, count, locks, dying, registering>>
  PROVE  Inv'
<1> USE DEF Inv
<1> DEFINE v == App(call[t].to)
           o == points[Impl(t)]
<1>1. /\ v \in Places /\ points[v] = None /\ call[t].to \in Pointers
      /\ o \in Objects /\ status[o] = "live" /\ Impl(t) \in Places
      /\ pc[t] = "hand" => points[Local(t)] = o
  BY PlaceFacts DEF Frames, Targets, TypeOK, HasImpl
<1>2. PICK next \in {"dropImpl", "dropLocal"} :
        /\ Go(t, next) /\ (next = "dropImpl" <=> pc[t] = "give")
        /\ pc[t] \in {"give", "hand"}
  OBVIOUS
<1>3. Refer(v, o)
  BY <1>1
<1>4. PointersTo(o) # {}
  BY <1>1 DEF PointersTo
<1>5. points'[v] = o /\ \A w \in Places \ {v} : points'[w] = points[w]
  BY <1>1, <1>3, PlacePoints
<1>6. pc' = [pc EXCEPT ![t] = next] /\ call' = call
  BY <1>2 DEF Go
<1>7. /\ ReferencesCounted'
      /\ refs' \in [Objects -> Nat] /\ points' \in [Places -> Objects \cup {None}]
  BY <1>1, <1>3, <1>4, Referred
<1>8. TypeOK'
  BY <1>2, <1>6, <1>7, ReferTypes DEF TypeOK
<1>9. \A u \in Threads : points'[Impl(u)] = points[Impl(u)] /\ points'[Local(u)] = points[Local(u)]
  BY <1>5, PlaceFacts
<1>10. \A p \in Pointers : points'[App(p)] = IF p = call[t].to THEN o ELSE points[App(p)]
  BY <1>1, <1>5, PlaceFacts
<1>11. \A x \in Objects : points'[Token(x)] = points[Token(x)]
  BY <1>5, PlaceFacts
<1>12. o # None
  BY <1>1, ComAssumption
<1> HIDE DEF v, o
<1>13. Frames'
  <2>1. \A u \in Threads \ {t} : pc'[u] = pc[u]
    BY <1>6 DEF TypeOK
  <2>2. pc'[t] = next /\ pc[t] \in HasImpl \ {"count"} /\ pc'[t] \in HasImpl \ {"count"}
          /\ (pc'[t] \in {"hand", "dropLocal"} <=> pc[t] \in {"hand", "dropLocal"})
    BY <1>2, <1>6 DEF TypeOK, HasImpl
  <2>3. \A u \in Threads :
          /\ pc'[u] \in HasImpl <=> pc[u] \in HasImpl
          /\ pc'[u] \in {"hand", "dropLocal"} <=> pc[u] \in {"hand", "dropLocal"}
          /\ pc'[u] = "count" <=> pc[u] = "count"
    BY <2>1, <2>2
  <2>4. QED
    BY <2>3, <1>9 DEF Frames
<1>14. Pointed'
  BY <1>1, <1>10, <1>11 DEF Pointed
<1>15. Targets'
  <2>1. \A u \in Threads : call[u] \in Calls
    BY DEF TypeOK
  <2>2. \A u \in Threads : call[u].through # None => call[u].through \in Pointers
    BY <2>1 DEF Calls
  <2>3. \A u \in Threads : call[u].through # None => points'[App(call[u].through)] # None
    BY <2>2, <1>10, <1>12 DEF Targets
  <2>4. \A u \in Threads \ {t} : call[u].to # call[t].to
    BY <1>1, ComAssumption DEF Targets
  <2>5. \A u \in Threads : pc'[u] \in {"new", "count", "give", "hand"} =>
          u # t /\ pc[u] = pc'[u]
    BY <1>2, <1>6 DEF TypeOK
  <2>6. \A u \in Threads : pc'[u] \in {"new", "count", "give", "hand"} =>
          points'[App(call[u].to)] = None
    BY <2>4, <2>5, <1>10 DEF Targets
  <2>7. \A u \in Threads : pc'[u] = "idle" => pc[u] = "idle"
    BY <1>2, <1>6 DEF TypeOK
  <2>8. QED
    BY <1>6, <2>3, <2>5, <2>6, <2>7 DEF Targets
<1>16. Deaths'
  BY <1>2, <1>6 DEF Deaths, TypeOK
<1>17. Counted'
  BY DEF Counted
<1>18. QED
  BY <1>7, <1>8, <1>13, <1>14, <1>15, <1>16, <1>17

LEMMA FillKeeps ==
  ASSUME Inv, NEW t \in Threads, Fill(t)
  PROVE  Inv'
<1> USE DEF Inv
<1> DEFINE o == points[Impl(t)]
<1>1. /\ Local(t) \in Places /\ points[Local(t)] = None /\ pc[t] = "give"
      /\ o \in Objects /\ status[o] = "live" /\ Impl(t) \in Places
  <2>1. pc[t] = "give" /\ pc[t] \in HasImpl \ {"count"} /\ pc[t] \notin {"hand", "dropLocal"}
    BY DEF Fill, HasImpl
  <2>2. points \in [Places -> Objects \cup {None}]
    BY DEF TypeOK
  <2>3. QED
    BY <2>1, <2>2, PlaceFacts DEF Frames
<1>2. Refer(Local(t), o) /\ UNCHANGED <<status, kind, count, locks, dying, registering>>
        /\ pc' = [pc EXCEPT ![t] = "hand"] /\ call' = call
  BY DEF Fill, Go
<1>3. PointersTo(o) # {}
  BY <1>1 DEF PointersTo
<1>4. points'[Local(t)] = o /\ \A w \in Places \ {Local(t)} : points'[w] = points[w]
  BY <1>1, <1>2, PlacePoints
<1>5. /\ ReferencesCounted'
      /\ refs' \in [Objects -> Nat] /\ points' \in [Places -> Objects \cup {None}]
  BY <1>1, <1>2, <1>3, Referred
<1>6. TypeOK'
  BY <1>2, <1>5, ReferTypes DEF TypeOK
<1>7. /\ \A u \in Threads : points'[Impl(u)] = points[Impl(u)]
      /\ \A u \in Threads : points'[Local(u)] = IF u = t THEN o ELSE points[Local(u)]
  BY <1>4, PlaceFacts
<1>8. /\ \A p \in Pointers : points'[App(p)] = points[App(p)]
      /\ \A x \in Objects : points'[Token(x)] = points[Token(x)]
  BY <1>4, PlaceFacts
<1>9. o # None
  BY <1>1, ComAssumption
<1>10. Frames'
  <2> SUFFICES ASSUME NEW u \in Threads
               PROVE  /\ points'[Impl(u)] # None <=> pc'[u] \in HasImpl
                      /\ points'[Local(u)] # None <=> pc'[u] \in {"hand", "dropLocal"}
                      /\ pc'[u] \in {"hand", "dropLocal"} => points'[Local(u)] = points'[Impl(u)]
                      /\ pc'[u] = "count" => status'[points'[Impl(u)]] = "made"
                      /\ pc'[u] \in HasImpl \ {"count"} => status'[points'[Impl(u)]] = "live"
                      /\ \A w \in Threads :
                           pc'[u] = "count" /\ points'[Impl(w)] = points'[Impl(u)] => w = u
    BY DEF Frames
  <2>1. CASE u = t
    BY <2>1, <1>1, <1>2, <1>7, <1>9 DEF TypeOK, HasImpl
  <2>2. CASE u # t
    <3>1. pc'[u] = pc[u] /\ points'[Local(u)] = points[Local(u)] /\ status' = status
      BY <2>2, <1>2, <1>7 DEF TypeOK
    <3>2. QED
      BY <3>1, <1>7 DEF Frames
  <2>3. QED
    BY <2>1, <2>2
<1>11. Pointed'
  BY <1>2, <1>8 DEF Pointed
<1>12. Targets'
  <2>1. \A u \in Threads : call[u].through # None => call[u].through \in Pointers
    BY DEF TypeOK, Calls
  <2>2. \A u \in Threads : call[u].through # None => points'[App(call[u].through)] # None
    BY <2>1, <1>8 DEF Targets
  <2>3. \A u \in Threads : /\ pc'[u] = "idle" => pc[u] = "idle"
                           /\ pc'[u] \in {"new", "count", "give", "hand"} =>
                                pc[u] \in {"new", "count", "give", "hand"}
    BY <1>1, <1>2 DEF TypeOK
  <2>4. QED
    BY <1>2, <1>8, <2>2, <2>3 DEF Targets
<1>13. Deaths'
  BY <1>1, <1>2 DEF Deaths, TypeOK
<1>14. Counted'
  BY <1>2 DEF Counted
<1>15. QED
  BY <1>5, <1>6, <1>10, <1>11, <1>12, <1>13, <1>14

\* AddRef and GetObjectToken: a pointer of the application is filled.
LEMMA Copied ==
  ASSUME Inv, NEW q \in Pointers, Empty(q), NEW o \in Objects, status[o] = "live",
         PointersTo(o) # {}, Refer(App(q), o),
         UNCHANGED <<status, kind, count, locks, threads, registering>>
  PROVE  Inv'
<1> USE DEF Inv
<1>1. App(q) \in Places /\ points[App(q)] = None
  BY PlaceFacts DEF Empty
<1>2. points'[App(q)] = o /\ \A w \in Places \ {App(q)} : points'[w] = points[w]
  BY <1>1, PlacePoints
<1>3. /\ UNCHANGED <<pc, call, dying>> /\ ReferencesCounted'
      /\ refs' \in [Objects -> Nat] /\ points' \in [Places -> Objects \cup {None}]
  BY <1>1, Referred DEF threads
<1>4. TypeOK'
  BY <1>3, ReferTypes DEF TypeOK
<1>5. /\ \A u \in Threads : points'[Impl(u)] = points[Impl(u)] /\ points'[Local(u)] = points[Local(u)]
      /\ \A x \in Objects : points'[Token(x)] = points[Token(x)]
      /\ \A p \in Pointers : points'[App(p)] = IF p = q THEN o ELSE points[App(p)]
  BY <1>2, PlaceFacts
<1>6. Frames'
  BY <1>3, <1>5 DEF Frames
<1>7. Pointed'
  BY <1>5 DEF Pointed
<1>8. Targets'
  <2>1. \A u \in Threads : call[u].through # None => call[u].through \in Pointers
    BY DEF TypeOK, Calls
  <2>2. \A u \in Threads : call[u].through # None => points'[App(call[u].through)] # None
    BY <2>1, <1>5, ComAssumption DEF Targets
  <2>3. \A u \in Threads : pc[u] # "idle" => call[u].to # q
    BY DEF Empty, To
  <2>4. QED
    BY <1>3, <1>5, <2>2, <2>3 DEF Targets
<1>9. Deaths' /\ Counted'
  BY <1>3 DEF Deaths, Counted
<1>10. QED
  BY <1>3, <1>4, <1>6, <1>7, <1>8, <1>9

LEMMA AddRefKeeps ==
  ASSUME Inv, NEW t \in Threads, NEW p \in Pointers, NEW q \in Pointers, AddRef(t, p, q)
  PROVE  Inv'
<1> DEFINE o == points[App(p)]
<1>1. o \in Objects /\ status[o] = "live" /\ App(p) \in Places
  BY PlaceFacts DEF Inv, TypeOK, Pointed, AddRef, Holds
<1>2. PointersTo(o) # {}
  BY <1>1 DEF PointersTo
<1>3. /\ Empty(q) /\ Refer(App(q), o)
      /\ UNCHANGED <<status, kind, count, locks, threads, registering>>
  BY DEF AddRef
<1>4. QED
  BY <1>1, <1>2, <1>3, Copied

LEMMA GetObjectTokenKeeps ==
  ASSUME Inv, NEW t \in Threads, NEW p \in Pointers, NEW q \in Pointers, GetObjectToken(t, p, q)
  PROVE  Inv'
<1> DEFINE e == points[App(p)]
           o == points[Token(e)]
<1>1. e \in Objects
  BY PlaceFacts DEF Inv, TypeOK, GetObjectToken, Holds
<1>2. o # None /\ Token(e) \in Places
  BY <1>1, PlaceFacts DEF GetObjectToken
<1>3. o \in Objects /\ status[o] = "live"
  BY <1>1, <1>2 DEF Inv, TypeOK, Pointed
<1>4. PointersTo(o) # {}
  BY <1>2 DEF PointersTo
<1>5. /\ Empty(q) /\ Refer(App(q), o)
      /\ UNCHANGED <<status, kind, count, locks, threads, registering>>
  BY DEF GetObjectToken
<1>6. QED
  BY <1>3, <1>4, <1>5, Copied

LEMMA SetObjectTokenKeeps ==
  ASSUME Inv, NEW t \in Threads, NEW p \in Pointers, NEW q \in Pointers, SetObjectToken(t, p, q)
  PROVE  Inv'
<1> USE DEF Inv
<1> DEFINE e == points[App(p)]
           o == points[App(q)]
<1>1. /\ e \in Objects /\ status[e] = "live" /\ o \in Objects /\ status[o] = "live"
      /\ App(q) \in Places
  BY PlaceFacts DEF TypeOK, Pointed, SetObjectToken, Holds
<1>2. Token(e) \in Places /\ points[Token(e)] = None /\ Refer(Token(e), o) /\ PointersTo(o) # {}
  BY <1>1, PlaceFacts DEF SetObjectToken, PointersTo
<1>3. points'[Token(e)] = o /\ \A w \in Places \ {Token(e)} : points'[w] = points[w]
  BY <1>2, PlacePoints
<1>4. /\ UNCHANGED <<status, kind, count, locks, pc, call, dying, registering>>
  BY DEF SetObjectToken, threads
<1>5. /\ ReferencesCounted'
      /\ refs' \in [Objects -> Nat] /\ points' \in [Places -> Objects \cup {None}]
  BY <1>1, <1>2, <1>4, Referred
<1>6. TypeOK'
  BY <1>4, <1>5, ReferTypes DEF TypeOK
<1>7. /\ \A u \in Threads : points'[Impl(u)] = points[Impl(u)] /\ points'[Local(u)] = points[Local(u)]
      /\ \A x \in Objects : points'[Token(x)] = IF x = e THEN o ELSE points[Token(x)]
      /\ \A r \in Pointers : points'[App(r)] = points[App(r)]
  BY <1>3, PlaceFacts
<1> HIDE DEF e, o
<1>8. Frames'
  BY <1>4, <1>7 DEF Frames
<1>9. Pointed'
  BY <1>1, <1>4, <1>7 DEF Pointed
<1>10. Targets'
  <2>1. \A u \in Threads : call[u].through # None => call[u].through \in Pointers
    BY DEF TypeOK, Calls
  <2>2. QED
    BY <1>4, <1>7, <2>1 DEF Targets
<1>11. Deaths' /\ Counted'
  BY <1>4 DEF Deaths, Counted
<1>12. QED
  BY <1>5, <1>6, <1>8, <1>9, <1>10, <1>11

-----------------------------------------------------------------------------
(* The steps that release one                                              *)

LEMMA ReleaseKeeps ==
  ASSUME Inv, NEW t \in Threads, NEW p \in Pointers, Release(t, p)
  PROVE  Inv'
<1> USE DEF Inv
<1> DEFINE o == points[App(p)]
<1>1. /\ o \in Objects /\ status[o] = "live" /\ App(p) \in Places
      /\ pc[t] = "idle" /\ Drop(t, App(p), "idle") /\ dying[t] = <<>>
      /\ UNCHANGED <<status, kind, count, locks, registering>>
  BY PlaceFacts DEF TypeOK, Pointed, Release, Holds, Deaths
<1>2. /\ ReferencesCounted' /\ Deaths'
      /\ refs' \in [Objects -> Nat] /\ points' \in [Places -> Objects \cup {None}]
      /\ dying' \in [Threads -> Seq(Objects)]
  BY <1>1, Dropped
<1>3. points' = [points EXCEPT ![App(p)] = None]
  BY <1>1 DEF Drop
<1>4. PICK next \in {"idle", "uncount"} : Go(t, next)
  BY <1>1 DEF Drop
<1>5. pc' = [pc EXCEPT ![t] = next] /\ call' = call
  <2>1. call[t] = NoCall
    BY <1>1 DEF Targets
  <2>2. [call EXCEPT ![t] = NoCall] = call
    BY <2>1 DEF TypeOK
  <2>3. QED
    BY <1>4, <2>2 DEF Go
<1>6. TypeOK'
  BY <1>1, <1>2, <1>5 DEF TypeOK, registering
<1>7. /\ \A u \in Threads : points'[Impl(u)] = points[Impl(u)] /\ points'[Local(u)] = points[Local(u)]
      /\ \A x \in Objects : points'[Token(x)] = points[Token(x)]
      /\ \A q \in Pointers : points'[App(q)] = IF q = p THEN None ELSE points[App(q)]
  BY <1>1, <1>3, PlaceFacts DEF TypeOK
<1>8. \A u \in Threads : pc'[u] = pc[u] \/ (u = t /\ pc[u] = "idle" /\ pc'[u] \in {"idle", "uncount"})
  BY <1>1, <1>5 DEF TypeOK
<1>9. Frames'
  BY <1>1, <1>7, <1>8 DEF Frames, HasImpl
<1>10. Pointed'
  BY <1>1, <1>7 DEF Pointed
<1>11. Targets'
  <2>1. \A u \in Threads : call[u].through # None => call[u].through \in Pointers
    BY DEF TypeOK, Calls
  <2>2. \A u \in Threads : pc[u] # "idle" => call[u].through # p
    BY DEF Release, Through
  <2>3. \A u \in Threads : call[u].through # p
    BY <2>2, NoCallType, ComAssumption DEF Targets
  <2>4. \A u \in Threads : call[u].through # None => points'[App(call[u].through)] # None
    BY <2>1, <2>3, <1>7 DEF Targets
  <2>5. \A u \in Threads : /\ pc'[u] = "idle" => pc[u] = "idle"
                           /\ pc'[u] \in {"new", "count", "give", "hand"} => pc'[u] = pc[u]
    BY <1>8
  <2>6. QED
    BY <1>5, <1>7, <2>4, <2>5 DEF Targets
<1>12. Counted'
  BY <1>1 DEF Counted
<1>13. QED
  BY <1>2, <1>6, <1>9, <1>10, <1>11, <1>12

LEMMA DropLocalKeeps ==
  ASSUME Inv, NEW t \in Threads, DropLocal(t)
  PROVE  Inv'
<1> USE DEF Inv
<1> DEFINE o == points[Local(t)]
<1>0. pc[t] = "dropLocal" /\ Drop(t, Local(t), "dropImpl")
        /\ UNCHANGED <<status, kind, count, locks, registering>>
  BY DEF DropLocal
<1>1. /\ o # None /\ o = points[Impl(t)] /\ status[o] = "live"
      /\ Local(t) \in Places /\ Impl(t) \in Places /\ Local(t) # Impl(t)
      /\ dying[t] = <<>>
  BY <1>0, PlaceFacts DEF Frames, HasImpl, Deaths
<1>2. o \in Objects
  BY <1>1 DEF TypeOK
<1>3. refs[o] # 1
  <2>1. Local(t) \in PointersTo(o) /\ Impl(t) \in PointersTo(o)
    BY <1>1 DEF PointersTo
  <2>2. Cardinality(PointersTo(o)) # 1
    BY <2>1, <1>1, FinitePointers, FS_Singleton
  <2>3. QED
    BY <1>1, <1>2, <2>2 DEF ReferencesCounted
<1>4. /\ ReferencesCounted' /\ Deaths'
      /\ refs' \in [Objects -> Nat] /\ points' \in [Places -> Objects \cup {None}]
      /\ dying' \in [Threads -> Seq(Objects)]
  BY <1>0, <1>1, <1>2, Dropped
<1>5. points' = [points EXCEPT ![Local(t)] = None] /\ Go(t, "dropImpl")
  BY <1>0, <1>3 DEF Drop
<1>6. pc' = [pc EXCEPT ![t] = "dropImpl"] /\ call' = call
  BY <1>5 DEF Go
<1>7. TypeOK'
  BY <1>0, <1>4, <1>6 DEF TypeOK, registering
<1>8. /\ \A u \in Threads : points'[Impl(u)] = points[Impl(u)]
      /\ \A u \in Threads : points'[Local(u)] = IF u = t THEN None ELSE points[Local(u)]
      /\ \A x \in Objects : points'[Token(x)] = points[Token(x)]
      /\ \A q \in Pointers : points'[App(q)] = points[App(q)]
  BY <1>1, <1>5, PlaceFacts DEF TypeOK
<1> HIDE DEF o
<1>9. /\ \A u \in Threads \ {t} : pc'[u] = pc[u]
      /\ pc'[t] = "dropImpl"
  BY <1>6 DEF TypeOK
<1>10. Frames'
  <2> SUFFICES ASSUME NEW u \in Threads
               PROVE  /\ points'[Impl(u)] # None <=> pc'[u] \in HasImpl
                      /\ points'[Local(u)] # None <=> pc'[u] \in {"hand", "dropLocal"}
                      /\ pc'[u] \in {"hand", "dropLocal"} => points'[Local(u)] = points'[Impl(u)]
                      /\ pc'[u] = "count" => status'[points'[Impl(u)]] = "made"
                      /\ pc'[u] \in HasImpl \ {"count"} => status'[points'[Impl(u)]] = "live"
                      /\ \A w \in Threads :
                           pc'[u] = "count" /\ points'[Impl(w)] = points'[Impl(u)] => w = u
    BY DEF Frames
  <2>1. CASE u = t
    BY <2>1, <1>0, <1>1, <1>8, <1>9 DEF HasImpl
  <2>2. CASE u # t
    BY <2>2, <1>0, <1>8, <1>9 DEF Frames
  <2>3. QED
    BY <2>1, <2>2
<1>11. Pointed'
  BY <1>0, <1>8 DEF Pointed
<1>12. Targets'
  <2>1. \A u \in Threads : call[u].through # None => call[u].through \in Pointers
    BY DEF TypeOK, Calls
  <2>2. \A u \in Threads : /\ pc'[u] = "idle" => pc[u] = "idle"
                           /\ pc'[u] \in {"new", "count", "give", "hand"} => pc'[u] = pc[u]
    BY <1>9
  <2>3. QED
    BY <1>6, <1>8, <2>1, <2>2 DEF Targets
<1>13. Counted'
  BY <1>0 DEF Counted
<1>14. QED
  BY <1>4, <1>7, <1>10, <1>11, <1>12, <1>13

LEMMA DropImplKeeps ==
  ASSUME Inv, NEW t \in Threads, DropImpl(t)
  PROVE  Inv'
<1> USE DEF Inv
<1> DEFINE o == points[Impl(t)]
<1>0. pc[t] = "dropImpl" /\ Drop(t, Impl(t), "idle")
        /\ UNCHANGED <<status, kind, count, locks, registering>>
  BY DEF DropImpl
<1>1. o # None /\ status[o] = "live" /\ Impl(t) \in Places /\ dying[t] = <<>> /\ points[Local(t)] = None
  BY <1>0, PlaceFacts DEF Frames, HasImpl, Deaths
<1>2. o \in Objects
  BY <1>1 DEF TypeOK
<1>3. /\ ReferencesCounted' /\ Deaths'
      /\ refs' \in [Objects -> Nat] /\ points' \in [Places -> Objects \cup {None}]
      /\ dying' \in [Threads -> Seq(Objects)]
  BY <1>0, <1>1, <1>2, Dropped
<1>4. points' = [points EXCEPT ![Impl(t)] = None]
  BY <1>0 DEF Drop
<1>5. PICK next \in {"idle", "uncount"} : Go(t, next)
  BY <1>0 DEF Drop
<1>6. /\ pc' = [pc EXCEPT ![t] = next] /\ call' \in [Threads -> Calls]
      /\ \A u \in Threads : call'[u] = IF u = t /\ next = "idle" THEN NoCall ELSE call[u]
  <2>1. CASE next = "idle"
    BY <1>5, <2>1, NoCallType DEF Go, TypeOK
  <2>2. CASE next # "idle"
    BY <1>5, <2>2 DEF Go, TypeOK
  <2>3. QED
    BY <2>1, <2>2
<1>7. TypeOK'
  BY <1>0, <1>3, <1>6 DEF TypeOK, registering
<1>8. /\ \A u \in Threads : points'[Impl(u)] = IF u = t THEN None ELSE points[Impl(u)]
      /\ \A u \in Threads : points'[Local(u)] = points[Local(u)]
      /\ \A x \in Objects : points'[Token(x)] = points[Token(x)]
      /\ \A q \in Pointers : points'[App(q)] = points[App(q)]
  BY <1>1, <1>4, PlaceFacts DEF TypeOK
<1> HIDE DEF o
<1>9. /\ \A u \in Threads \ {t} : pc'[u] = pc[u]
      /\ pc'[t] = next
  BY <1>6 DEF TypeOK
<1>10. Frames'
  <2> SUFFICES ASSUME NEW u \in Threads
               PROVE  /\ points'[Impl(u)] # None <=> pc'[u] \in HasImpl
                      /\ points'[Local(u)] # None <=> pc'[u] \in {"hand", "dropLocal"}
                      /\ pc'[u] \in {"hand", "dropLocal"} => points'[Local(u)] = points'[Impl(u)]
                      /\ pc'[u] = "count" => status'[points'[Impl(u)]] = "made"
                      /\ pc'[u] \in HasImpl \ {"count"} => status'[points'[Impl(u)]] = "live"
                      /\ \A w \in Threads :
                           pc'[u] = "count" /\ points'[Impl(w)] = points'[Impl(u)] => w = u
    BY DEF Frames
  <2>1. CASE u = t
    BY <2>1, <1>1, <1>8, <1>9 DEF HasImpl
  <2>2. CASE u # t
    <3>1. pc'[u] = pc[u] /\ points'[Impl(u)] = points[Impl(u)] /\ status' = status
      BY <2>2, <1>0, <1>8, <1>9
    <3>2. pc[u] = "count" => points[Impl(u)] # None
      BY DEF Frames, HasImpl
    <3>3. ASSUME NEW w \in Threads, pc'[u] = "count", points'[Impl(w)] = points'[Impl(u)]
          PROVE  w = u
      <4>1. w # t
        BY <3>1, <3>2, <3>3, <1>8
      <4>2. points[Impl(w)] = points[Impl(u)] /\ pc[u] = "count"
        BY <3>1, <3>3, <4>1, <1>8
      <4>3. QED
        BY <4>2 DEF Frames
    <3>4. QED
      BY <3>1, <3>3, <1>8 DEF Frames
  <2>3. QED
    BY <2>1, <2>2
<1>11. Pointed'
  BY <1>0, <1>8 DEF Pointed
<1>12. Targets'
  <2>1. \A u \in Threads : call'[u].through # None => call'[u] = call[u] /\ call[u].through \in Pointers
    BY <1>6, NoCallType DEF TypeOK, Calls
  <2>2. \A u \in Threads : /\ pc'[u] = "idle" => pc[u] = "idle" \/ (u = t /\ next = "idle")
                           /\ pc'[u] \in {"new", "count", "give", "hand"} => pc'[u] = pc[u] /\ u # t
    BY <1>9
  <2>3. \A u \in Threads : call'[u].to # None => call'[u] = call[u]
    BY <1>6, NoCallType
  <2>4. \A u, w \in Threads : call'[u].to = call'[w].to /\ call'[u].to # None => u = w
    BY <2>3 DEF Targets
  <2>5. QED
    BY <1>6, <1>8, <2>1, <2>2, <2>4 DEF Targets
<1>13. Counted'
  BY <1>0 DEF Counted
<1>14. QED
  BY <1>3, <1>7, <1>10, <1>11, <1>12, <1>13

LEMMA DropTokenKeeps ==
  ASSUME Inv, NEW t \in Threads, DropToken(t)
  PROVE  Inv'
<1> USE DEF Inv
<1> DEFINE e == Head(dying[t])
           o == points[Token(e)]
<1>0. pc[t] = "destroy" /\ o # None /\ Drop(t, Token(e), "destroy")
        /\ UNCHANGED <<status, kind, count, locks, registering>>
  BY DEF DropToken
<1>1. e \in Objects /\ dying[t] # <<>>
  <2>1. dying[t] # <<>> /\ dying[t] \in Seq(Objects)
    BY <1>0 DEF Deaths, TypeOK
  <2>2. QED
    BY <2>1, Popped
<1>2. Token(e) \in Places /\ o \in Objects /\ status[o] = "live"
  BY <1>0, <1>1, PlaceFacts DEF TypeOK, Pointed
<1>3. /\ ReferencesCounted' /\ Deaths'
      /\ refs' \in [Objects -> Nat] /\ points' \in [Places -> Objects \cup {None}]
      /\ dying' \in [Threads -> Seq(Objects)]
  BY <1>0, <1>1, <1>2, Dropped
<1>4. points' = [points EXCEPT ![Token(e)] = None]
  BY <1>0 DEF Drop
<1>5. PICK next \in {"destroy", "uncount"} : Go(t, next)
  BY <1>0 DEF Drop
<1>6. pc' = [pc EXCEPT ![t] = next] /\ call' = call
  BY <1>5 DEF Go
<1>7. TypeOK'
  BY <1>0, <1>3, <1>6 DEF TypeOK, registering
<1>8. /\ \A u \in Threads : points'[Impl(u)] = points[Impl(u)] /\ points'[Local(u)] = points[Local(u)]
      /\ \A x \in Objects : points'[Token(x)] = IF x = e THEN None ELSE points[Token(x)]
      /\ \A q \in Pointers : points'[App(q)] = points[App(q)]
  BY <1>2, <1>4, PlaceFacts DEF TypeOK
<1> HIDE DEF e, o
<1>9. \A u \in Threads : \/ pc'[u] = pc[u]
                         \/ u = t /\ pc[u] = "destroy" /\ pc'[u] \in {"destroy", "uncount"}
  BY <1>0, <1>6 DEF TypeOK
<1>10. Frames'
  BY <1>0, <1>8, <1>9 DEF Frames, HasImpl
<1>11. Pointed'
  BY <1>0, <1>8 DEF Pointed
<1>12. Targets'
  <2>1. \A u \in Threads : call[u].through # None => call[u].through \in Pointers
    BY DEF TypeOK, Calls
  <2>2. \A u \in Threads : /\ pc'[u] = "idle" => pc[u] = "idle"
                           /\ pc'[u] \in {"new", "count", "give", "hand"} => pc'[u] = pc[u]
    BY <1>9
  <2>3. QED
    BY <1>6, <1>8, <2>1, <2>2 DEF Targets
<1>13. Counted'
  BY <1>0 DEF Counted
<1>14. QED
  BY <1>3, <1>7, <1>10, <1>11, <1>12, <1>13

-----------------------------------------------------------------------------
(* The steps that change an object                                         *)

\* The objects counted, and their number.
LEMMA LiveFacts ==
  LET Live == {o \in Objects : status[o] = "live"} IN
  IsFiniteSet(Live) /\ Cardinality(Live) \in Nat
<1> DEFINE Live == {o \in Objects : status[o] = "live"}
<1>1. Live \in SUBSET Objects /\ IsFiniteSet(Objects)
  BY ComAssumption
<1>2. IsFiniteSet(Live)
  BY <1>1, FS_Subset
<1>3. QED
  BY <1>2, FS_CardinalityType

LEMMA GoCall ==
  ASSUME TypeOK, NEW t \in Threads, NEW next \in {"count", "give", "destroy"}, Go(t, next)
  PROVE  /\ pc' = [pc EXCEPT ![t] = next] /\ call' = call
         /\ pc'[t] = next /\ \A u \in Threads \ {t} : pc'[u] = pc[u]
BY DEF Go, TypeOK

LEMMA NewKeeps ==
  ASSUME Inv, NEW t \in Threads, New(t)
  PROVE  Inv'
<1> USE DEF Inv
<1>1. PICK o \in Objects :
        /\ status[o] = "free" /\ status' = [status EXCEPT ![o] = "made"]
        /\ kind' = [kind EXCEPT ![o] = call[t].makes] /\ refs' = [refs EXCEPT ![o] = 1]
        /\ points' = [points EXCEPT ![Impl(t)] = o]
  BY DEF New
<1>2. pc[t] = "new" /\ Go(t, "count") /\ UNCHANGED <<count, locks, dying, registering>>
  BY DEF New
<1>3. /\ pc' = [pc EXCEPT ![t] = "count"] /\ call' = call
      /\ pc'[t] = "count" /\ \A u \in Threads \ {t} : pc'[u] = pc[u]
  BY <1>2, GoCall
<1>4. /\ Impl(t) \in Places /\ o # None /\ points[Impl(t)] = None /\ points[Local(t)] = None
      /\ PointersTo(o) = {} /\ \A u \in Threads : ~Destroys(u, o)
  BY <1>1, <1>2, PlaceFacts, ComAssumption DEF Frames, HasImpl, ReferencesCounted
<1>5. \A v \in Places : points'[v] = IF v = Impl(t) THEN o ELSE points[v]
  BY <1>1 DEF TypeOK
<1>6. \A x \in Objects : /\ status'[x] = IF x = o THEN "made" ELSE status[x]
                         /\ refs'[x] = IF x = o THEN 1 ELSE refs[x]
  BY <1>1 DEF TypeOK
<1>7. TypeOK'
  BY <1>1, <1>2, <1>3 DEF TypeOK, Calls, registering
<1>8. ReferencesCounted'
  <2>1. \A u \in Threads, x \in Objects : Destroys(u, x)' <=> Destroys(u, x)
    BY <1>2 DEF Destroys
  <2>2. PointersTo(o)' = {Impl(t)} /\ Cardinality({Impl(t)}) = 1
    BY <1>4, <1>5, FS_Singleton DEF PointersTo
  <2>3. \A x \in Objects \ {o} : PointersTo(x)' = PointersTo(x)
    <3> TAKE x \in Objects \ {o}
    <3>1. x # None
      BY ComAssumption
    <3>2. QED
      BY <3>1, <1>4, <1>5 DEF PointersTo
  <2>4. ASSUME NEW x \in Objects
        PROVE  /\ status'[x] \in {"made", "live"} => refs'[x] = Cardinality(PointersTo(x)')
               /\ status'[x] \in {"free", "dying"} => PointersTo(x)' = {}
               /\ status'[x] # "free" /\ PointersTo(x)' = {} <=> \E u \in Threads : Destroys(u, x)
               /\ \A u, w \in Threads : Destroys(u, x) /\ Destroys(w, x) => u = w
    <3>1. CASE x = o
      BY <3>1, <1>4, <1>6, <2>2
    <3>2. CASE x # o
      BY <3>2, <1>6, <2>3 DEF ReferencesCounted
    <3>3. QED
      BY <3>1, <3>2
  <2>5. QED
    BY <2>1, <2>4 DEF ReferencesCounted
<1>9. Counted'
  <2>1. {x \in Objects : status'[x] = "live"} = {x \in Objects : status[x] = "live"}
    BY <1>1, <1>6
  <2>2. QED
    BY <1>2, <2>1 DEF Counted
<1>10. /\ \A u \in Threads : points'[Impl(u)] = IF u = t THEN o ELSE points[Impl(u)]
       /\ \A u \in Threads : points'[Local(u)] = points[Local(u)]
       /\ \A x \in Objects : points'[Token(x)] = points[Token(x)]
       /\ \A q \in Pointers : points'[App(q)] = points[App(q)]
  BY <1>4, <1>5, PlaceFacts
<1>11. \A v \in Places : points[v] # o /\ (points[v] # None => status'[points[v]] = status[points[v]])
  <2> TAKE v \in Places
  <2>1. points[v] # o
    BY <1>4 DEF PointersTo
  <2>2. points[v] # None => points[v] \in Objects
    BY DEF TypeOK
  <2>3. QED
    BY <2>1, <2>2, <1>6
<1>12. Frames'
  <2> SUFFICES ASSUME NEW u \in Threads
               PROVE  /\ points'[Impl(u)] # None <=> pc'[u] \in HasImpl
                      /\ points'[Local(u)] # None <=> pc'[u] \in {"hand", "dropLocal"}
                      /\ pc'[u] \in {"hand", "dropLocal"} => points'[Local(u)] = points'[Impl(u)]
                      /\ pc'[u] = "count" => status'[points'[Impl(u)]] = "made"
                      /\ pc'[u] \in HasImpl \ {"count"} => status'[points'[Impl(u)]] = "live"
                      /\ \A w \in Threads :
                           pc'[u] = "count" /\ points'[Impl(w)] = points'[Impl(u)] => w = u
    BY DEF Frames
  <2>0. \A w \in Threads : Impl(w) \in Places
    BY PlaceFacts
  <2>1. CASE u = t
    BY <2>0, <2>1, <1>3, <1>4, <1>6, <1>10, <1>11 DEF HasImpl
  <2>2. CASE u # t
    <3>1. pc'[u] = pc[u] /\ points'[Impl(u)] = points[Impl(u)] /\ points[Impl(u)] # o
      BY <2>0, <2>2, <1>3, <1>10, <1>11
    <3>2. pc[u] \in HasImpl => status'[points[Impl(u)]] = status[points[Impl(u)]]
      BY <2>0, <1>11 DEF Frames
    <3>3. ASSUME NEW w \in Threads, pc'[u] = "count", points'[Impl(w)] = points'[Impl(u)]
          PROVE  w = u
      <4>1. w # t
        BY <3>1, <3>3, <1>10
      <4>2. points[Impl(w)] = points[Impl(u)] /\ pc[u] = "count"
        BY <3>1, <3>3, <4>1, <1>10
      <4>3. QED
        BY <4>2 DEF Frames
    <3>4. QED
      BY <3>1, <3>2, <3>3, <1>10 DEF Frames, HasImpl
  <2>3. QED
    BY <2>1, <2>2
<1>13. Pointed'
  <2>1. \A p \in Pointers : App(p) \in Places
    BY PlaceFacts
  <2>2. \A x \in Objects : Token(x) \in Places
    BY PlaceFacts
  <2>3. \A x \in Objects : status[x] \in {"live", "dying"} => status'[x] = status[x]
    BY <1>1, <1>6
  <2>4. QED
    BY <2>1, <2>2, <2>3, <1>10, <1>11 DEF Pointed
<1>14. Targets'
  <2>1. \A u \in Threads : call[u].through # None => call[u].through \in Pointers
    BY DEF TypeOK, Calls
  <2>2. \A u \in Threads : /\ pc'[u] = "idle" => pc[u] = "idle"
                           /\ pc'[u] \in {"new", "count", "give", "hand"} =>
                                pc[u] \in {"new", "count", "give", "hand"}
    BY <1>2, <1>3
  <2>3. QED
    BY <1>3, <1>10, <2>1, <2>2 DEF Targets
<1>15. Deaths'
  <2> SUFFICES ASSUME NEW u \in Threads
               PROVE  /\ dying'[u] = <<>> <=> pc'[u] \notin {"uncount", "destroy"}
                      /\ \A k \in 1..Len(dying'[u]) :
                           /\ status'[dying'[u][k]] = IF k = 1 /\ pc'[u] = "uncount" THEN "live" ELSE "dying"
                           /\ \A j \in 1..Len(dying'[u]) : dying'[u][j] = dying'[u][k] => j = k
    BY DEF Deaths
  <2>1. dying' = dying /\ (pc'[u] = pc[u] \/ (pc[u] = "new" /\ pc'[u] = "count"))
    BY <1>2, <1>3
  <2>2. \A k \in 1..Len(dying[u]) : dying[u][k] \in Objects /\ dying[u][k] # o
    <3> TAKE k \in 1..Len(dying[u])
    <3>1. dying[u] \in Seq(Objects)
      BY DEF TypeOK
    <3>2. dying[u][k] \in Objects
      BY <3>1, ElementOfSeq
    <3>3. QED
      BY <3>2, <1>4 DEF Destroys
  <2>3. \A k \in 1..Len(dying[u]) : status'[dying[u][k]] = status[dying[u][k]]
    BY <2>2, <1>6
  <2>4. QED
    BY <2>1, <2>3 DEF Deaths
<1>16. QED
  BY <1>7, <1>8, <1>9, <1>12, <1>13, <1>14, <1>15

LEMMA IncrementKeeps ==
  ASSUME Inv, NEW t \in Threads, Increment(t)
  PROVE  Inv'
<1> USE DEF Inv
<1> DEFINE o == points[Impl(t)]
<1>1. /\ pc[t] = "count" /\ count' = count + 1 /\ status' = [status EXCEPT ![o] = "live"]
      /\ Go(t, "give") /\ UNCHANGED <<kind, refs, points, locks, dying, registering>>
  BY DEF Increment
<1>2. /\ pc' = [pc EXCEPT ![t] = "give"] /\ call' = call
      /\ pc'[t] = "give" /\ \A u \in Threads \ {t} : pc'[u] = pc[u]
  BY <1>1, GoCall
<1>3. Impl(t) \in Places /\ o # None /\ status[o] = "made" /\ points[Local(t)] = None
  BY <1>1, PlaceFacts DEF Frames, HasImpl
<1>4. o \in Objects
  BY <1>3 DEF TypeOK
<1>5. \A u \in Threads : ~Destroys(u, o)
  <2>1. PointersTo(o) # {}
    BY <1>3 DEF PointersTo
  <2>2. QED
    BY <1>4, <2>1 DEF ReferencesCounted
<1> HIDE DEF o
<1>6. \A x \in Objects : status'[x] = IF x = o THEN "live" ELSE status[x]
  BY <1>1, <1>4 DEF TypeOK
<1>7. TypeOK'
  BY <1>1, <1>2, <1>4 DEF TypeOK, registering
<1>8. ReferencesCounted'
  <2>1. \A u \in Threads, x \in Objects : Destroys(u, x)' <=> Destroys(u, x)
    BY <1>1 DEF Destroys
  <2>2. \A x \in Objects : PointersTo(x)' = PointersTo(x) /\ refs'[x] = refs[x]
    BY <1>1 DEF PointersTo
  <2>3. \A x \in Objects :
          /\ status'[x] \in {"made", "live"} <=> status[x] \in {"made", "live"}
          /\ status'[x] \in {"free", "dying"} <=> status[x] \in {"free", "dying"}
          /\ status'[x] = "free" <=> status[x] = "free"
    BY <1>3, <1>6
  <2>4. QED
    BY <2>1, <2>2, <2>3 DEF ReferencesCounted
<1>9. Counted'
  <2> DEFINE Live == {x \in Objects : status[x] = "live"}
  <2>1. {x \in Objects : status'[x] = "live"} = Live \cup {o} /\ o \notin Live
    BY <1>3, <1>4, <1>6
  <2>2. Cardinality(Live \cup {o}) = Cardinality(Live) + 1 /\ Cardinality(Live) \in Nat
    BY <2>1, LiveFacts, FS_AddElement
  <2>3. locks' = locks /\ locks \in Nat
    BY <1>1, ComAssumption DEF TypeOK
  <2>4. count = Cardinality(Live) + locks
    BY DEF Counted
  <2> HIDE DEF Live
  <2>5. count' = Cardinality(Live \cup {o}) + locks'
    BY <1>1, <2>2, <2>3, <2>4
  <2>6. QED
    BY <2>1, <2>5 DEF Counted
<1>10. \A u \in Threads \ {t} : pc[u] = "count" => points[Impl(u)] # o
  BY <1>1 DEF Frames, o
<1>11. \A u \in Threads : points[Impl(u)] # None => points[Impl(u)] \in Objects
  BY PlaceFacts DEF TypeOK
<1>12. Frames'
  <2> SUFFICES ASSUME NEW u \in Threads
               PROVE  /\ points[Impl(u)] # None <=> pc'[u] \in HasImpl
                      /\ points[Local(u)] # None <=> pc'[u] \in {"hand", "dropLocal"}
                      /\ pc'[u] \in {"hand", "dropLocal"} => points[Local(u)] = points[Impl(u)]
                      /\ pc'[u] = "count" => status'[points[Impl(u)]] = "made"
                      /\ pc'[u] \in HasImpl \ {"count"} => status'[points[Impl(u)]] = "live"
                      /\ \A w \in Threads :
                           pc'[u] = "count" /\ points[Impl(w)] = points[Impl(u)] => w = u
    BY <1>1 DEF Frames
  <2>1. CASE u = t
    BY <2>1, <1>2, <1>3, <1>4, <1>6 DEF HasImpl, o
  <2>2. CASE u # t
    <3>1. pc'[u] = pc[u] /\ (pc[u] = "count" => points[Impl(u)] # o)
      BY <2>2, <1>2, <1>10
    <3>2. pc[u] \in HasImpl => points[Impl(u)] \in Objects
      BY <1>11 DEF Frames
    <3>3. pc[u] = "count" => status'[points[Impl(u)]] = "made"
      BY <3>1, <3>2, <1>6 DEF Frames, HasImpl
    <3>4. pc[u] \in HasImpl \ {"count"} => status'[points[Impl(u)]] = "live"
      BY <3>2, <1>6 DEF Frames
    <3>5. QED
      BY <3>1, <3>3, <3>4 DEF Frames
  <2>3. QED
    BY <2>1, <2>2
<1>13. Pointed'
  <2>1. \A x \in Objects : /\ status[x] = "live" => status'[x] = "live"
                           /\ status[x] = "dying" => status'[x] = "dying"
    BY <1>3, <1>6
  <2>2. \A v \in Places : points[v] # None => points[v] \in Objects
    BY DEF TypeOK
  <2>3. \A p \in Pointers : App(p) \in Places
    BY PlaceFacts
  <2>4. \A x \in Objects : Token(x) \in Places
    BY PlaceFacts
  <2>5. QED
    BY <1>1, <2>1, <2>2, <2>3, <2>4 DEF Pointed
<1>14. Targets'
  <2>1. \A u \in Threads : /\ pc'[u] = "idle" => pc[u] = "idle"
                           /\ pc'[u] \in {"new", "count", "give", "hand"} =>
                                pc[u] \in {"new", "count", "give", "hand"}
    BY <1>1, <1>2
  <2>2. QED
    BY <1>1, <1>2, <2>1 DEF Targets
<1>15. Deaths'
  <2> SUFFICES ASSUME NEW u \in Threads
               PROVE  /\ dying'[u] = <<>> <=> pc'[u] \notin {"uncount", "destroy"}
                      /\ \A k \in 1..Len(dying'[u]) :
                           /\ status'[dying'[u][k]] = IF k = 1 /\ pc'[u] = "uncount" THEN "live" ELSE "dying"
                           /\ \A j \in 1..Len(dying'[u]) : dying'[u][j] = dying'[u][k] => j = k
    BY DEF Deaths
  <2>1. dying' = dying /\ (pc'[u] = pc[u] \/ (pc[u] = "count" /\ pc'[u] = "give"))
    BY <1>1, <1>2
  <2>2. \A k \in 1..Len(dying[u]) : dying[u][k] \in Objects /\ dying[u][k] # o
    <3> TAKE k \in 1..Len(dying[u])
    <3>1. dying[u] \in Seq(Objects)
      BY DEF TypeOK
    <3>2. dying[u][k] \in Objects
      BY <3>1, ElementOfSeq
    <3>3. QED
      BY <3>2, <1>5 DEF Destroys, o
  <2>3. \A k \in 1..Len(dying[u]) : status'[dying[u][k]] = status[dying[u][k]]
    BY <2>2, <1>6
  <2>4. QED
    BY <2>1, <2>3 DEF Deaths
<1>16. QED
  BY <1>7, <1>8, <1>9, <1>12, <1>13, <1>14, <1>15

LEMMA UncountKeeps ==
  ASSUME Inv, NEW t \in Threads, Uncount(t)
  PROVE  Inv'
<1> USE DEF Inv
<1> DEFINE o == Head(dying[t])
           s == dying[t]
<1>1. /\ pc[t] = "uncount" /\ count' = count - 1 /\ status' = [status EXCEPT ![o] = "dying"]
      /\ Go(t, "destroy") /\ UNCHANGED <<kind, refs, points, locks, dying, registering>>
  BY DEF Uncount
<1>2. /\ pc' = [pc EXCEPT ![t] = "destroy"] /\ call' = call
      /\ pc'[t] = "destroy" /\ \A u \in Threads \ {t} : pc'[u] = pc[u]
  BY <1>1, GoCall
<1>3. s # <<>> /\ s \in Seq(Objects)
  BY <1>1 DEF Deaths, TypeOK
<1>4. o \in Objects /\ o = s[1] /\ 1 \in 1..Len(s)
  BY <1>3, Popped
<1>5. status[o] = "live" /\ Destroys(t, o) /\ PointersTo(o) = {}
  BY <1>1, <1>4 DEF Deaths, Destroys, ReferencesCounted
<1>6. \A u \in Threads \ {t} : ~Destroys(u, o)
  BY <1>4, <1>5 DEF ReferencesCounted
<1> HIDE DEF o, s
<1>7. \A x \in Objects : status'[x] = IF x = o THEN "dying" ELSE status[x]
  BY <1>1, <1>4 DEF TypeOK
<1>8. ReferencesCounted'
  <2>1. \A u \in Threads, x \in Objects : Destroys(u, x)' <=> Destroys(u, x)
    BY <1>1 DEF Destroys
  <2>2. \A x \in Objects : PointersTo(x)' = PointersTo(x) /\ refs'[x] = refs[x]
    BY <1>1 DEF PointersTo
  <2>3. ASSUME NEW x \in Objects
        PROVE  /\ status'[x] \in {"made", "live"} => refs[x] = Cardinality(PointersTo(x))
               /\ status'[x] \in {"free", "dying"} => PointersTo(x) = {}
               /\ status'[x] # "free" /\ PointersTo(x) = {} <=> \E u \in Threads : Destroys(u, x)
               /\ \A u, w \in Threads : Destroys(u, x) /\ Destroys(w, x) => u = w
    <3>1. CASE x = o
      BY <3>1, <1>5, <1>6, <1>7
    <3>2. CASE x # o
      BY <3>2, <1>7 DEF ReferencesCounted
    <3>3. QED
      BY <3>1, <3>2
  <2>4. QED
    BY <2>1, <2>2, <2>3 DEF ReferencesCounted
<1>9. Counted' /\ count' \in Nat
  <2> DEFINE Live == {x \in Objects : status[x] = "live"}
  <2>1. {x \in Objects : status'[x] = "live"} = Live \ {o} /\ o \in Live
    BY <1>4, <1>5, <1>7
  <2>2. Cardinality(Live \ {o}) = Cardinality(Live) - 1 /\ Cardinality(Live) \in Nat
    BY <2>1, LiveFacts, FS_RemoveElement
  <2>3. locks' = locks /\ locks \in Nat
    BY <1>1, ComAssumption DEF TypeOK
  <2>4. count = Cardinality(Live) + locks
    BY DEF Counted
  <2>5. Cardinality(Live \ {o}) \in Nat
    BY LiveFacts, FS_Subset, FS_CardinalityType
  <2> HIDE DEF Live
  <2>6. count' = Cardinality(Live \ {o}) + locks' /\ count' \in Nat
    BY <1>1, <2>2, <2>3, <2>4, <2>5
  <2>7. QED
    BY <2>1, <2>6 DEF Counted
<1>10. TypeOK'
  BY <1>1, <1>2, <1>4, <1>9 DEF TypeOK, registering
<1>11. \A v \in Places : points[v] # None => points[v] \in Objects /\ status'[points[v]] = status[points[v]]
  <2> TAKE v \in Places
  <2>1. points[v] # o
    BY <1>5 DEF PointersTo
  <2>2. points[v] # None => points[v] \in Objects
    BY DEF TypeOK
  <2>3. QED
    BY <2>1, <2>2, <1>7
<1>12. Frames'
  <2>1. \A u \in Threads : Impl(u) \in Places
    BY PlaceFacts
  <2>2. \A u \in Threads : pc[u] \in HasImpl => status'[points[Impl(u)]] = status[points[Impl(u)]]
    BY <2>1, <1>11 DEF Frames
  <2>3. \A u \in Threads : pc'[u] = pc[u] \/ (pc[u] = "uncount" /\ pc'[u] = "destroy")
    BY <1>1, <1>2
  <2>4. QED
    BY <1>1, <2>2, <2>3 DEF Frames, HasImpl
<1>13. Pointed'
  <2>1. \A p \in Pointers : App(p) \in Places
    BY PlaceFacts
  <2>2. \A x \in Objects : Token(x) \in Places
    BY PlaceFacts
  <2>3. \A x \in Objects : status[x] \in {"live", "dying"} => status'[x] \in {"live", "dying"}
    BY <1>7
  <2>4. QED
    BY <1>1, <2>1, <2>2, <2>3, <1>11 DEF Pointed
<1>14. Targets'
  <2>1. \A u \in Threads : /\ pc'[u] = "idle" => pc[u] = "idle"
                           /\ pc'[u] \in {"new", "count", "give", "hand"} => pc'[u] = pc[u]
    BY <1>1, <1>2
  <2>2. QED
    BY <1>1, <1>2, <2>1 DEF Targets
<1>15. Deaths'
  <2> SUFFICES ASSUME NEW u \in Threads
               PROVE  /\ dying[u] = <<>> <=> pc'[u] \notin {"uncount", "destroy"}
                      /\ \A k \in 1..Len(dying[u]) :
                           /\ status'[dying[u][k]] = IF k = 1 /\ pc'[u] = "uncount" THEN "live" ELSE "dying"
                           /\ \A j \in 1..Len(dying[u]) : dying[u][j] = dying[u][k] => j = k
    BY <1>1 DEF Deaths
  <2>1. dying[u] \in Seq(Objects)
    BY DEF TypeOK
  <2>2. \A k \in 1..Len(dying[u]) : dying[u][k] \in Objects
    BY <2>1, ElementOfSeq
  <2>3. CASE u # t
    <3>1. pc'[u] = pc[u] /\ \A k \in 1..Len(dying[u]) : dying[u][k] # o
      BY <2>3, <1>2, <1>6 DEF Destroys
    <3>2. \A k \in 1..Len(dying[u]) : status'[dying[u][k]] = status[dying[u][k]]
      BY <2>2, <3>1, <1>7
    <3>3. QED
      BY <3>1, <3>2 DEF Deaths
  <2>4. CASE u = t
    <3>1. \A k \in 1..Len(s) : status'[s[k]] = "dying"
      <4> TAKE k \in 1..Len(s)
      <4>1. CASE k = 1
        BY <4>1, <1>4, <1>7
      <4>2. CASE k # 1
        <5>1. status[s[k]] = "dying" /\ s[k] \in Objects
          BY <4>2, <2>2, <2>4 DEF Deaths, s
        <5>2. QED
          BY <5>1, <1>7
      <4>3. QED
        BY <4>1, <4>2
    <3>2. QED
      BY <2>4, <3>1, <1>2, <1>3 DEF Deaths, s
  <2>5. QED
    BY <2>3, <2>4
<1>16. QED
  BY <1>8, <1>9, <1>10, <1>12, <1>13, <1>14, <1>15

LEMMA FreeKeeps ==
  ASSUME Inv, NEW t \in Threads, Free(t)
  PROVE  Inv'
<1> USE DEF Inv
<1> DEFINE o == Head(dying[t])
           s == dying[t]
<1>1. /\ pc[t] = "destroy" /\ points[Token(o)] = None /\ status' = [status EXCEPT ![o] = "free"]
      /\ dying' = [dying EXCEPT ![t] = Tail(s)] /\ kind' = [kind EXCEPT ![o] = None]
      /\ Go(t, IF Len(s) = 1 THEN "idle" ELSE "destroy")
      /\ UNCHANGED <<refs, points, count, locks, registering>>
  BY DEF Free
<1>2. s # <<>> /\ s \in Seq(Objects)
  BY <1>1 DEF Deaths, TypeOK
<1>3. /\ o \in Objects /\ o = s[1] /\ 1 \in 1..Len(s)
      /\ Tail(s) \in Seq(Objects) /\ Len(Tail(s)) = Len(s) - 1
      /\ \A k \in 1..Len(Tail(s)) : Tail(s)[k] = s[k + 1] /\ k + 1 \in 1..Len(s)
      /\ \A k \in 1..Len(s) : k # 1 => s[k] = Tail(s)[k - 1] /\ k - 1 \in 1..Len(Tail(s))
      /\ Tail(s) = <<>> <=> Len(s) = 1
  BY <1>2, Popped
<1>4. status[o] = "dying" /\ Destroys(t, o) /\ PointersTo(o) = {}
  BY <1>1, <1>3 DEF Deaths, Destroys, ReferencesCounted
<1>5. \A u \in Threads \ {t} : ~Destroys(u, o)
  BY <1>3, <1>4 DEF ReferencesCounted
<1>6. PICK next \in {"idle", "destroy"} : Go(t, next) /\ (next = "idle" <=> Tail(s) = <<>>)
  BY <1>1, <1>3
<1>7. dying'[t] = Tail(s) /\ \A u \in Threads \ {t} : dying'[u] = dying[u]
  BY <1>1 DEF TypeOK
<1> DEFINE rest == Tail(s)
<1> HIDE DEF o, s, rest
<1>8. \A x \in Objects : status'[x] = IF x = o THEN "free" ELSE status[x]
  BY <1>1, <1>3 DEF TypeOK
<1>9. /\ pc' = [pc EXCEPT ![t] = next] /\ call' \in [Threads -> Calls]
      /\ \A u \in Threads : call'[u] = IF u = t /\ next = "idle" THEN NoCall ELSE call[u]
  <2>1. CASE next = "idle"
    BY <1>6, <2>1, NoCallType DEF Go, TypeOK
  <2>2. CASE next # "idle"
    BY <1>6, <2>2 DEF Go, TypeOK
  <2>3. QED
    BY <2>1, <2>2
<1>10. TypeOK'
  <2>1. dying' \in [Threads -> Seq(Objects)]
    BY <1>1, <1>3 DEF TypeOK
  <2>2. QED
    BY <1>1, <1>3, <1>9, <2>1 DEF TypeOK, registering
<1>11. \A x \in Objects : Destroys(t, x)' <=> Destroys(t, x) /\ x # o
  <2> TAKE x \in Objects
  <2>1. Destroys(t, x)' <=> \E k \in 1..Len(Tail(s)) : Tail(s)[k] = x
    BY <1>7 DEF Destroys
  <2>2. Destroys(t, x) <=> \E k \in 1..Len(s) : s[k] = x
    BY DEF Destroys, s
  <2>3. \A k \in 1..Len(s) : k # 1 => s[k] # o
    BY <1>3 DEF Deaths, s
  <2>4. ASSUME NEW k \in 1..Len(Tail(s)), Tail(s)[k] = x
        PROVE  x # o /\ \E j \in 1..Len(s) : s[j] = x
    <3>1. k + 1 \in 1..Len(s) /\ s[k + 1] = x /\ k + 1 # 1
      BY <1>3, <2>4
    <3>2. QED
      BY <3>1, <2>3
  <2>5. ASSUME x # o, NEW k \in 1..Len(s), s[k] = x
        PROVE  \E j \in 1..Len(Tail(s)) : Tail(s)[j] = x
    <3>1. k # 1
      BY <1>3, <2>5
    <3>2. k - 1 \in 1..Len(Tail(s)) /\ Tail(s)[k - 1] = x
      BY <1>3, <2>5, <3>1
    <3>3. QED
      BY <3>2
  <2>6. QED
    BY <2>1, <2>2, <2>4, <2>5
<1>12. \A u \in Threads, x \in Objects : Destroys(u, x)' <=> Destroys(u, x) /\ x # o
  <2>1. \A u \in Threads \ {t}, x \in Objects : Destroys(u, x)' <=> Destroys(u, x)
    BY <1>7 DEF Destroys
  <2>2. QED
    BY <2>1, <1>5, <1>11
<1>13. ReferencesCounted'
  <2>1. \A x \in Objects : PointersTo(x)' = PointersTo(x) /\ refs'[x] = refs[x]
    BY <1>1 DEF PointersTo
  <2>2. ASSUME NEW x \in Objects
        PROVE  /\ status'[x] \in {"made", "live"} => refs[x] = Cardinality(PointersTo(x))
               /\ status'[x] \in {"free", "dying"} => PointersTo(x) = {}
               /\ status'[x] # "free" /\ PointersTo(x) = {} <=> \E u \in Threads : Destroys(u, x)'
               /\ \A u, w \in Threads : Destroys(u, x)' /\ Destroys(w, x)' => u = w
    <3>1. CASE x = o
      BY <3>1, <1>4, <1>8, <1>12
    <3>2. CASE x # o
      BY <3>2, <1>8, <1>12 DEF ReferencesCounted
    <3>3. QED
      BY <3>1, <3>2
  <2>3. QED
    BY <2>1, <2>2 DEF ReferencesCounted
<1>14. Counted'
  <2>1. {x \in Objects : status'[x] = "live"} = {x \in Objects : status[x] = "live"}
    BY <1>4, <1>8
  <2>2. QED
    BY <1>1, <2>1 DEF Counted
<1>15. \A v \in Places : points[v] # None => points[v] \in Objects /\ status'[points[v]] = status[points[v]]
  <2> TAKE v \in Places
  <2>1. points[v] # o
    BY <1>4 DEF PointersTo
  <2>2. points[v] # None => points[v] \in Objects
    BY DEF TypeOK
  <2>3. QED
    BY <2>1, <2>2, <1>8
<1>16. \A u \in Threads : \/ u # t /\ pc'[u] = pc[u]
                          \/ u = t /\ pc[u] = "destroy" /\ pc'[u] = next
  BY <1>1, <1>9 DEF TypeOK
<1>17. Frames'
  <2>1. \A u \in Threads : Impl(u) \in Places
    BY PlaceFacts
  <2>2. \A u \in Threads : pc[u] \in HasImpl => status'[points[Impl(u)]] = status[points[Impl(u)]]
    BY <2>1, <1>15 DEF Frames
  <2>3. \A u \in Threads :
          /\ pc'[u] \in HasImpl <=> pc[u] \in HasImpl
          /\ pc'[u] \in {"hand", "dropLocal"} <=> pc[u] \in {"hand", "dropLocal"}
          /\ pc'[u] = "count" <=> pc[u] = "count"
    BY <1>16 DEF HasImpl
  <2>4. QED
    BY <1>1, <2>2, <2>3 DEF Frames, HasImpl
<1>18. Pointed'
  <2>1. \A p \in Pointers : App(p) \in Places
    BY PlaceFacts
  <2>2. \A x \in Objects : Token(x) \in Places
    BY PlaceFacts
  <2>3. \A x \in Objects : x # o => status'[x] = status[x]
    BY <1>8
  <2>4. QED
    BY <1>1, <2>1, <2>2, <2>3, <1>15 DEF Pointed
<1>19. Targets'
  <2>1. \A u \in Threads : call'[u].through # None => call'[u] = call[u] /\ call[u].through \in Pointers
    BY <1>9, NoCallType DEF TypeOK, Calls
  <2>2. \A u \in Threads : /\ pc'[u] = "idle" => pc[u] = "idle" \/ (u = t /\ next = "idle")
                           /\ pc'[u] \in {"new", "count", "give", "hand"} => pc'[u] = pc[u] /\ u # t
    BY <1>16
  <2>3. \A u \in Threads : call'[u].to # None => call'[u] = call[u]
    BY <1>9, NoCallType
  <2>4. \A u, w \in Threads : call'[u].to = call'[w].to /\ call'[u].to # None => u = w
    BY <2>3 DEF Targets
  <2>5. QED
    BY <1>1, <1>9, <2>1, <2>2, <2>4 DEF Targets
<1>20. Deaths'
  <2> SUFFICES ASSUME NEW u \in Threads
               PROVE  /\ dying'[u] = <<>> <=> pc'[u] \notin {"uncount", "destroy"}
                      /\ \A k \in 1..Len(dying'[u]) :
                           /\ status'[dying'[u][k]] = IF k = 1 /\ pc'[u] = "uncount" THEN "live" ELSE "dying"
                           /\ \A j \in 1..Len(dying'[u]) : dying'[u][j] = dying'[u][k] => j = k
    BY DEF Deaths
  <2>1. dying[u] \in Seq(Objects)
    BY DEF TypeOK
  <2>2. \A k \in 1..Len(dying[u]) : dying[u][k] \in Objects
    BY <2>1, ElementOfSeq
  <2>3. CASE u # t
    <3>1. pc'[u] = pc[u] /\ dying'[u] = dying[u] /\ \A k \in 1..Len(dying[u]) : dying[u][k] # o
      BY <2>3, <1>16, <1>7, <1>5 DEF Destroys
    <3>2. \A k \in 1..Len(dying[u]) : status'[dying[u][k]] = status[dying[u][k]]
      BY <2>2, <3>1, <1>8
    <3>3. QED
      BY <3>1, <3>2 DEF Deaths
  <2>4. CASE u = t
    <3>1. pc'[u] = next /\ dying'[u] = rest
      BY <2>4, <1>16, <1>7 DEF rest
    <3>2. \A k \in 1..Len(s) : status[s[k]] = "dying" /\ s[k] \in Objects
      BY <1>1, <2>2, <2>4 DEF Deaths, s
    <3>3. ASSUME NEW k \in 1..Len(rest)
          PROVE  k + 1 \in 1..Len(s) /\ rest[k] = s[k + 1] /\ s[k + 1] # o
      <4>1. k + 1 \in 1..Len(s) /\ rest[k] = s[k + 1] /\ k + 1 # 1
        BY <1>3 DEF rest
      <4>2. QED
        BY <4>1, <1>3 DEF Deaths, s
    <3>4. \A k \in 1..Len(rest) : status'[rest[k]] = "dying"
      BY <3>2, <3>3, <1>8
    <3>5. ASSUME NEW k \in 1..Len(rest), NEW j \in 1..Len(rest), rest[j] = rest[k]
          PROVE  j = k
      <4>1. s[j + 1] = s[k + 1] /\ j + 1 \in 1..Len(s) /\ k + 1 \in 1..Len(s)
        BY <3>3, <3>5
      <4>2. j + 1 = k + 1
        BY <4>1 DEF Deaths, s
      <4>3. Len(rest) \in Nat
        BY <1>3, LenProperties DEF rest
      <4>4. QED
        BY <4>2, <4>3
    <3>6. next # "uncount" /\ (next = "destroy" <=> rest # <<>>)
      BY <1>6 DEF rest
    <3>7. QED
      BY <3>1, <3>4, <3>5, <3>6
  <2>5. QED
    BY <2>3, <2>4
<1>21. QED
  BY <1>10, <1>13, <1>14, <1>17, <1>18, <1>19, <1>20

LEMMA LockServerKeeps ==
  ASSUME Inv, NEW t \in Threads, NEW p \in Pointers, LockServer(t, p)
  PROVE  Inv'
<1> USE DEF Inv
<1>1. UNCHANGED <<status, kind, refs, points, threads, registering>>
  BY DEF LockServer
<1>2. UNCHANGED <<pc, call, dying>>
  BY <1>1 DEF threads
<1>3. Counted' /\ count' \in Nat /\ locks' \in 0..MaxLocks
  <2> DEFINE Live == {x \in Objects : status[x] = "live"}
  <2>1. Cardinality(Live) \in Nat /\ count = Cardinality(Live) + locks
    BY LiveFacts DEF Counted
  <2>2. Counted' <=> count' = Cardinality(Live) + locks'
    BY <1>1 DEF Counted
  <2> HIDE DEF Live
  <2>3. QED
    BY <2>1, <2>2, ComAssumption DEF LockServer, TypeOK
<1>4. TypeOK'
  BY <1>1, <1>2, <1>3 DEF TypeOK, registering
<1>5. ReferencesCounted'
  <2>1. \A u \in Threads, x \in Objects : Destroys(u, x)' <=> Destroys(u, x)
    BY <1>2 DEF Destroys
  <2>2. \A x \in Objects : PointersTo(x)' = PointersTo(x)
    BY <1>1 DEF PointersTo
  <2>3. QED
    BY <1>1, <2>1, <2>2 DEF ReferencesCounted
<1>6. Frames' /\ Pointed' /\ Targets' /\ Deaths'
  BY <1>1, <1>2 DEF Frames, Pointed, Targets, Deaths
<1>7. QED
  BY <1>3, <1>4, <1>5, <1>6

-----------------------------------------------------------------------------
(* Registration                                                            *)

\* A registration has written its first entries, a removal past its first key
\* has hidden the enumerator or found it stuck, and the enumerator's class is
\* never there without its key.
Registration ==
  /\ regsvr.runs = "register" =>
       \A k \in 1..Len(Writes) : k < regsvr.step => Writes[k] \in registry
  /\ regsvr.runs = "unregister" /\ regsvr.step # 1 => ~Listed \/ stuck
  /\ regsvr.runs = "unregister" => regsvr.step \in 1..5
  /\ Listed => <<"enumerator", "key">> \in registry
  /\ ListedMeansUsable

LEMMA Entries ==
  /\ Len(Writes) = 11 /\ Len(Deletions) = 5 /\ Deletions[1] = <<"enumerator", "key">>
  /\ Writes[3] = <<"list", "path">> /\ Writes[7] = <<"engine", "path">>
  /\ Writes[9] = <<"enumerator", "key">> /\ Writes[11] = <<"enumerator", "clsid">>
  /\ \A k \in 1..10 : Writes[k] # <<"enumerator", "clsid">>
  /\ <<"enumerator", "clsid">> \in With(Deletions[1])
  /\ \A k \in 2..5 : <<"enumerator", "key">> \notin With(Deletions[k])
BY DEF Writes, Deletions, ClassEntries, EnumeratorEntries, With

LEMMA RegisterTypes ==
  ASSUME TypeOK, Register
  PROVE  TypeOK' /\ UNCHANGED <<objects, threads>>
<1>1. /\ registry \subseteq {Writes[k] : k \in 1..Len(Writes)}
      /\ regsvr \in [runs : {"none", "register", "unregister"}, step : 1..Len(Writes)]
      /\ stuck \in BOOLEAN
  BY DEF TypeOK
<1>2. /\ registry' \subseteq {Writes[k] : k \in 1..Len(Writes)}
      /\ regsvr' \in [runs : {"none", "register", "unregister"}, step : 1..Len(Writes)]
      /\ stuck' \in BOOLEAN
      /\ UNCHANGED <<objects, threads>>
  <2>0. Idle \in [runs : {"none", "register", "unregister"}, step : 1..Len(Writes)]
    BY Entries DEF Idle
  <2>1. CASE Begin("register") \/ Begin("unregister")
    BY <1>1, <2>1, Entries DEF Begin
  <2>2. CASE Write
    <3>1. registry' = registry \cup {Writes[regsvr.step]} /\ UNCHANGED <<objects, threads>>
      BY <2>2 DEF Write
    <3>2. \/ regsvr.step < 11 /\ regsvr' = [regsvr EXCEPT !.step = @ + 1] /\ stuck' = stuck
          \/ regsvr' = Idle /\ stuck' = FALSE
      BY <2>2, Entries DEF Write
    <3>3. regsvr' \in [runs : {"none", "register", "unregister"}, step : 1..Len(Writes)]
      BY <1>1, <2>0, <3>2, Entries
    <3>4. QED
      BY <1>1, <3>1, <3>2, <3>3
  <2>3. CASE Delete
    BY <1>1, <2>0, <2>3, Entries DEF Delete
  <2>4. CASE DeleteSwallowed
    BY <1>1, <2>4, Entries DEF DeleteSwallowed
  <2>5. CASE Break
    BY <1>1, <2>0, <2>5 DEF Break
  <2>6. QED
    BY <2>1, <2>2, <2>3, <2>4, <2>5 DEF Register
<1>3. QED
  BY <1>2 DEF TypeOK, objects, threads

LEMMA RegisterKeeps == Inv /\ Register => Inv'
<1> SUFFICES ASSUME Inv, Register PROVE Inv'
  OBVIOUS
<1> USE DEF Inv
<1>1. TypeOK' /\ UNCHANGED <<objects, threads>>
  BY RegisterTypes
<1>2. UNCHANGED <<pc, call, dying>>
  BY <1>1 DEF threads
<1>3. ReferencesCounted' /\ Counted' /\ Pointed'
  BY <1>1, <1>2, Unmoved
<1>4. Frames' /\ Targets' /\ Deaths'
  BY <1>1, <1>2 DEF objects, Frames, Targets, Deaths
<1>5. QED
  BY <1>1, <1>3, <1>4

LEMMA RegistrationKept ==
  ASSUME TypeOK, Registration, [Next]_vars
  PROVE  Registration'
<1> USE DEF Listed, Usable, ListedMeansUsable
<1>0. /\ registry \subseteq {Writes[k] : k \in 1..Len(Writes)}
      /\ regsvr \in [runs : {"none", "register", "unregister"}, step : 1..Len(Writes)]
      /\ stuck \in BOOLEAN
  BY DEF TypeOK
<1>1. CASE UNCHANGED registering
  BY <1>1 DEF registering, Registration
<1>2. CASE Begin("register") \/ Begin("unregister")
  BY <1>0, <1>2 DEF Begin, Registration
<1>3. CASE Write
  <2>1. registry' = registry \cup {Writes[regsvr.step]} /\ regsvr.runs = "register"
    BY <1>3 DEF Write
  <2>2. \/ regsvr.step < 11 /\ regsvr' = [regsvr EXCEPT !.step = @ + 1] /\ stuck' = stuck
        \/ regsvr.step = 11 /\ regsvr' = Idle /\ stuck' = FALSE
    BY <1>0, <1>3, Entries DEF Write
  <2>3. Writes[regsvr.step] = <<"enumerator", "clsid">> <=> regsvr.step = 11
    BY <1>0, Entries
  <2>4. \A k \in 1..11 : k < regsvr.step => Writes[k] \in registry
    BY Entries, <2>1 DEF Registration
  <2>5. regsvr.step = 11 =>
          Writes[3] \in registry /\ Writes[7] \in registry /\ Writes[9] \in registry
    BY <2>4
  <2>6. CASE regsvr.step < 11
    BY <1>0, <2>1, <2>2, <2>3, <2>4, <2>6, Entries DEF Registration
  <2>7. CASE regsvr.step = 11
    BY <1>0, <2>1, <2>2, <2>5, <2>7, Entries DEF Registration, Idle
  <2>8. QED
    BY <1>0, <2>6, <2>7, <2>2
<1>4. CASE Delete
  <2>1. /\ regsvr.runs = "unregister" /\ registry' = registry \ With(Deletions[regsvr.step])
        /\ regsvr'.runs # "register" /\ stuck' = stuck
    BY <1>4 DEF Delete, Idle
  <2>2. ~Listed' \/ stuck'
    BY <1>0, <2>1, Entries DEF Registration
  <2>3. Listed' => <<"enumerator", "key">> \in registry'
    <3>1. CASE regsvr.step = 1
      BY <2>1, <3>1, Entries
    <3>2. CASE regsvr.step # 1
      <4>1. <<"enumerator", "key">> \notin With(Deletions[regsvr.step])
        BY <2>1, <3>2, Entries DEF Registration
      <4>2. QED
        BY <2>1, <4>1 DEF Registration
    <3>3. QED
      BY <3>1, <3>2
  <2>4. regsvr'.runs = "unregister" => regsvr'.step \in 1..5
    BY <1>0, <1>4, Entries DEF Delete, Idle, Registration
  <2>5. QED
    BY <2>1, <2>2, <2>3, <2>4 DEF Registration
<1>5. CASE DeleteSwallowed
  <2>1. /\ regsvr.runs = "unregister" /\ registry' = registry
        /\ stuck' = (stuck \/ Deletions[1] \in registry)
        /\ regsvr'.runs = "unregister" /\ regsvr'.step = 2
    BY <1>0, <1>5 DEF DeleteSwallowed
  <2>2. CASE Deletions[1] \in registry
    <3>1. stuck' = TRUE
      <4>1. (stuck \/ Deletions[1] \in registry) = TRUE
        BY <2>2
      <4>2. QED
        BY <2>1, <4>1
    <3>2. Listed' => <<"enumerator", "key">> \in registry'
      BY <2>1 DEF Registration
    <3>3. QED
      BY <2>1, <3>1, <3>2 DEF Registration
  <2>3. CASE Deletions[1] \notin registry
    <3>1. ~Listed /\ ~Listed'
      BY <2>1, <2>3, Entries DEF Registration
    <3>2. QED
      BY <2>1, <3>1 DEF Registration
  <2>4. QED
    BY <2>2, <2>3
<1>6. CASE Break
  BY <1>0, <1>6 DEF Break, Registration, Idle
<1>7. QED
  <2>1. Register => Registration'
    BY <1>2, <1>3, <1>4, <1>5, <1>6 DEF Register
  <2>2. ASSUME NEW t \in Threads, Step(t) PROVE UNCHANGED registering
    BY <2>2 DEF Step, NewFails, New, Increment, Query, Fill, GiveFails, Hand, HandFails,
       DropLocal, DropImpl, Uncount, DropToken, Free, GetClassObject, Release, LockServer,
       CreateInstance, Make, AddRef, SetObjectToken, GetObjectToken, Start
  <2>3. QED
    BY <1>1, <2>1, <2>2 DEF Next, vars

-----------------------------------------------------------------------------
(* The theorems                                                            *)

LEMMA InitHolds == Init => Inv /\ Registration
<1> SUFFICES ASSUME Init PROVE Inv /\ Registration
  OBVIOUS
<1>1. /\ \A o \in Objects : status[o] = "free" /\ kind[o] = None /\ refs[o] = 0
      /\ \A v \in Places : points[v] = None
      /\ \A t \in Threads : pc[t] = "idle" /\ call[t] = NoCall /\ dying[t] = <<>>
      /\ count = 0 /\ locks = 0
  BY DEF Init
<1>2. TypeOK
  <2>1. Idle \in [runs : {"none", "register", "unregister"}, step : 1..Len(Writes)]
    BY Entries DEF Idle
  <2>2. \A o \in Objects : refs[o] \in Nat
    BY <1>1
  <2>3. <<>> \in Seq(Objects)
    OBVIOUS
  <2>4. locks \in 0..MaxLocks
    BY <1>1, ComAssumption
  <2>5. QED
    BY <2>1, <2>3, <2>4, NoCallType DEF Init, TypeOK
<1>3. \A o \in Objects : PointersTo(o) = {}
  BY <1>1, ComAssumption DEF PointersTo
<1>4. \A t \in Threads, o \in Objects : ~Destroys(t, o)
  <2>1. Len(<<>>) = 0
    OBVIOUS
  <2>2. QED
    BY <1>1, <2>1 DEF Destroys
<1>5. ReferencesCounted
  BY <1>1, <1>3, <1>4 DEF ReferencesCounted
<1>6. Counted
  <2>1. {o \in Objects : status[o] = "live"} = {}
    BY <1>1
  <2>2. QED
    BY <1>1, <2>1, FS_EmptySet DEF Counted
<1>7. Frames
  BY <1>1, PlaceFacts DEF Frames, HasImpl
<1>8. Pointed
  BY <1>1, PlaceFacts DEF Pointed
<1>9. Targets
  BY <1>1, NoCallType DEF Targets
<1>10. Deaths
  <2>1. Len(<<>>) = 0
    OBVIOUS
  <2>2. QED
    BY <1>1, <2>1 DEF Deaths
<1>11. Registration
  BY Entries DEF Init, Registration, Idle, Listed, ListedMeansUsable
<1>12. QED
  BY <1>2, <1>5, <1>6, <1>7, <1>8, <1>9, <1>10, <1>11 DEF Inv

LEMMA StepKeeps ==
  ASSUME Inv, NEW t \in Threads, Step(t)
  PROVE  Inv'
<1>1. CASE NewFails(t) \/ GiveFails(t) \/ HandFails(t)
  BY <1>1, FailKeeps
<1>2. CASE New(t)
  BY <1>2, NewKeeps
<1>3. CASE Increment(t)
  BY <1>3, IncrementKeeps
<1>4. CASE Query(t)
  BY <1>4, HandOut DEF Query
<1>5. CASE Fill(t)
  BY <1>5, FillKeeps
<1>6. CASE Hand(t)
  BY <1>6, HandOut DEF Hand
<1>7. CASE DropLocal(t)
  BY <1>7, DropLocalKeeps
<1>8. CASE DropImpl(t)
  BY <1>8, DropImplKeeps
<1>9. CASE Uncount(t)
  BY <1>9, UncountKeeps
<1>10. CASE DropToken(t)
  BY <1>10, DropTokenKeeps
<1>11. CASE Free(t)
  BY <1>11, FreeKeeps
<1>12. ASSUME NEW p \in Pointers, GetClassObject(t, p)
       PROVE  Inv'
  <2>1. Start(t, "factory", "query", None, p)
    BY <1>12 DEF GetClassObject
  <2>2. QED
    BY <2>1, StartKeeps DEF Kinds
<1>13. ASSUME NEW p \in Pointers, Release(t, p)
       PROVE  Inv'
  BY <1>13, ReleaseKeeps
<1>14. ASSUME NEW p \in Pointers, LockServer(t, p)
       PROVE  Inv'
  BY <1>14, LockServerKeeps
<1>15. ASSUME NEW p \in Pointers, NEW q \in Pointers, CreateInstance(t, p, q) \/ Make(t, p, q)
       PROVE  Inv'
  <2>1. PICK makes \in Kinds, by \in {"query", "pointer"} : Start(t, makes, by, p, q)
    BY <1>15 DEF CreateInstance, Make, Kinds
  <2>2. points[App(p)] # None /\ p # None
    BY <1>15, ComAssumption DEF CreateInstance, Make, Holds
  <2>3. QED
    BY <2>1, <2>2, StartKeeps
<1>16. ASSUME NEW p \in Pointers, NEW q \in Pointers, AddRef(t, p, q)
       PROVE  Inv'
  BY <1>16, AddRefKeeps
<1>17. ASSUME NEW p \in Pointers, NEW q \in Pointers, SetObjectToken(t, p, q)
       PROVE  Inv'
  BY <1>17, SetObjectTokenKeeps
<1>18. ASSUME NEW p \in Pointers, NEW q \in Pointers, GetObjectToken(t, p, q)
       PROVE  Inv'
  BY <1>18, GetObjectTokenKeeps
<1>19. QED
  BY <1>1, <1>2, <1>3, <1>4, <1>5, <1>6, <1>7, <1>8, <1>9, <1>10, <1>11, <1>12, <1>13,
     <1>14, <1>15, <1>16, <1>17, <1>18 DEF Step

LEMMA NextKeeps == Inv /\ [Next]_vars => Inv'
<1> SUFFICES ASSUME Inv, [Next]_vars PROVE Inv'
  OBVIOUS
<1>1. CASE Register
  BY <1>1, RegisterKeeps
<1>2. ASSUME NEW t \in Threads, Step(t) PROVE Inv'
  BY <1>2, StepKeeps
<1>3. CASE UNCHANGED vars
  <2>1. UNCHANGED <<objects, threads, registering>>
    BY <1>3 DEF vars
  <2>2. UNCHANGED <<pc, call, dying>>
    BY <2>1 DEF threads
  <2>3. ReferencesCounted' /\ Counted' /\ Pointed'
    BY <2>1, <2>2, Unmoved DEF Inv
  <2>4. TypeOK'
    BY <2>1, <2>2 DEF Inv, TypeOK, objects, registering
  <2>5. Frames' /\ Targets' /\ Deaths'
    BY <2>1, <2>2 DEF Inv, objects, Frames, Targets, Deaths
  <2>6. QED
    BY <2>3, <2>4, <2>5 DEF Inv
<1>4. QED
  BY <1>1, <1>2, <1>3 DEF Next

LEMMA Invariance == Spec => [](Inv /\ Registration)
<1>1. Inv /\ Registration /\ [Next]_vars => (Inv /\ Registration)'
  BY NextKeeps, RegistrationKept DEF Inv
<1>2. QED
  BY InitHolds, <1>1, PTL DEF Spec

\* Every variable of the model stays in its type.
THEOREM TypeCorrect == Spec => []TypeOK
BY Invariance, PTL DEF Inv

\* Reference counts: no object of the DLL is destroyed under a pointer, left
\* behind or destroyed twice, with any number of threads and objects.
THEOREM ReferencesHold == Spec => []ReferencesCounted
BY Invariance, PTL DEF Inv

\* The object counter behind DllCanUnloadNow.
THEOREM UnloadableHolds == Spec => []UnloadableMeansUnused
<1>1. Inv => UnloadableMeansUnused
  <2> SUFFICES ASSUME Inv, count = 0
               PROVE  /\ locks = 0
                      /\ \A p \in Pointers : points[App(p)] = None
                      /\ \A t \in Threads :
                           \/ pc[t] \in {"idle", "destroy"}
                           \/ call[t].makes = "factory" /\ pc[t] \in {"new", "count"}
    BY DEF UnloadableMeansUnused
  <2> DEFINE Live == {o \in Objects : status[o] = "live"}
  <2>1. Cardinality(Live) \in Nat /\ IsFiniteSet(Live) /\ 0 = Cardinality(Live) + locks
    BY LiveFacts DEF Inv, Counted
  <2>2. locks \in Nat
    BY ComAssumption DEF Inv, TypeOK
  <2> HIDE DEF Live
  <2>3. locks = 0 /\ Live = {}
    BY <2>1, <2>2, FS_EmptySet
  <2>4. \A o \in Objects : status[o] # "live"
    BY <2>3 DEF Live
  <2>5. \A v \in Places : points[v] # None => points[v] \in Objects
    BY DEF Inv, TypeOK
  <2>6. \A p \in Pointers : points[App(p)] = None
    BY <2>4, <2>5, PlaceFacts DEF Inv, Pointed
  <2>7. ASSUME NEW t \in Threads
        PROVE  \/ pc[t] \in {"idle", "destroy"}
               \/ call[t].makes = "factory" /\ pc[t] \in {"new", "count"}
    <3>1. pc[t] \notin HasImpl \ {"count"}
      BY <2>4, <2>5, PlaceFacts DEF Inv, Frames
    <3>2. pc[t] # "uncount"
      <4>1. SUFFICES ASSUME pc[t] = "uncount" PROVE FALSE
        OBVIOUS
      <4>2. dying[t] # <<>> /\ dying[t] \in Seq(Objects)
        BY <4>1 DEF Inv, Deaths, TypeOK
      <4>3. dying[t][1] \in Objects /\ 1 \in 1..Len(dying[t])
        BY <4>2, Popped
      <4>4. status[dying[t][1]] = "live"
        BY <4>1, <4>3 DEF Inv, Deaths
      <4>5. QED
        BY <2>4, <4>3, <4>4
    <3>3. pc[t] \in {"new", "count"} => call[t].makes = "factory"
      <4>1. call[t].through # None => call[t].through \in Pointers
        BY DEF Inv, TypeOK, Calls
      <4>2. call[t].through = None
        BY <4>1, <2>6 DEF Inv, Targets
      <4>3. QED
        BY <4>2 DEF Inv, Targets
    <3>4. pc[t] \in {"idle", "new", "count", "give", "hand", "dropLocal", "dropImpl",
                     "uncount", "destroy"}
      BY DEF Inv, TypeOK
    <3>5. QED
      BY <3>1, <3>2, <3>3, <3>4 DEF HasImpl
  <2>8. QED
    BY <2>3, <2>6, <2>7
<1>2. QED
  BY Invariance, <1>1, PTL

\* What SAPI finds of the registration is usable.
THEOREM ListedHolds == Spec => []ListedMeansUsable
BY Invariance, PTL DEF Registration
=============================================================================
