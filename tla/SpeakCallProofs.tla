-------------------------- MODULE SpeakCallProofs --------------------------
(***************************************************************************)
(* Proofs about SpeakCall, for lists of fragments of every length, with    *)
(* any numbers of words.  The list of segments is described by where its   *)
(* markers and texts lie (Layout), by what is in effect at each text       *)
(* (Effects), and by what the loop's variables say is in effect at its end *)
(* (Remembered).  First come the lemmas about one fragment's contribution, *)
(* then the invariant, a lemma per action, and the theorems.               *)
(***************************************************************************)
EXTENDS SpeakCall, TLAPS, SequenceTheorems

-----------------------------------------------------------------------------
(* The segments and what is in effect                                      *)

Params == {"lang", "rate", "volume", "pitch", "spell"}

Values == {ScaledRate[a] : a \in DOMAIN ScaledRate}
            \cup {ScaledVolume[v] : v \in DOMAIN ScaledVolume}
            \cup {ShiftedPitch[a] : a \in DOMAIN ShiftedPitch}
            \cup {SettingsPitch, PresetPitch}

ValuesOf(q) == IF q = "lang" THEN Languages ELSE IF q = "spell" THEN BOOLEAN ELSE Values

TextSegments  == [kind : {"text"}, frag : Nat, word : Nat]
IndexSegments == [kind : {"index"}, id : Nat]
SetSegments   == UNION {[kind : {"set"}, param : {q}, value : ValuesOf(q)] : q \in Params}

Segments == TextSegments \cup IndexSegments \cup SetSegments
MarkerRecords == [kind : {"word", "sentence", "bookmark"}, frag : Nat, word : Nat]

IsText(s)  == s.kind = "text"
IsIndex(s) == s.kind = "index"
Sets(s, q) == s.kind = "set" /\ s.param = q
OnlySets(T) == \A k \in 1..Len(T) : T[k].kind = "set"
NoSets(T) == \A k \in 1..Len(T) : T[k].kind # "set"

\* After the first p segments parameter q has the value v: the last of them
\* that sets q sets it so, or none does and the request's voice has it.
InEffect(S, q, v, p) ==
  \/ \E j \in 1..p : /\ Sets(S[j], q) /\ S[j].value = v
                     /\ \A l \in j + 1..p : ~Sets(S[l], q)
  \/ v = RequestVoice[q] /\ \A l \in 1..p : ~Sets(S[l], q)

LEMMA Joined ==
  ASSUME NEW X, NEW S \in Seq(X), NEW T \in Seq(X)
  PROVE  /\ S \o T \in Seq(X)
         /\ Len(S) \in Nat /\ Len(T) \in Nat
         /\ Len(S \o T) = Len(S) + Len(T)
         /\ \A p \in 1..Len(S) : (S \o T)[p] = S[p]
         /\ \A k \in 1..Len(T) : (S \o T)[Len(S) + k] = T[k]
         /\ \A p \in 1..Len(S) + Len(T) :
              p \notin 1..Len(S) => p - Len(S) \in 1..Len(T) /\ (S \o T)[p] = T[p - Len(S)]
OBVIOUS

LEMMA EffectUnique ==
  ASSUME NEW S, NEW q, NEW v, NEW w, NEW p \in Nat,
         InEffect(S, q, v, p), InEffect(S, q, w, p)
  PROVE  v = w
BY DEF InEffect

LEMMA EffectCarries ==
  ASSUME NEW S, NEW q, NEW v, NEW p \in Nat, NEW r \in Nat, p <= r,
         InEffect(S, q, v, p), \A l \in p + 1..r : ~Sets(S[l], q)
  PROVE  InEffect(S, q, v, r)
<1>1. \A j \in 1..p : j \in 1..r
  OBVIOUS
<1>2. \A j \in 0..p : \A l \in j + 1..r : l \in j + 1..p \/ l \in p + 1..r
  OBVIOUS
<1> QED BY <1>1, <1>2 DEF InEffect

\* Only the segments up to p matter.
LEMMA EffectLocal ==
  ASSUME NEW S, NEW T, NEW q, NEW v, NEW p \in Nat,
         \A j \in 1..p : S[j] = T[j], InEffect(S, q, v, p)
  PROVE  InEffect(T, q, v, p)
<1>1. \A j \in 1..p : \A l \in j + 1..p : l \in 1..p
  OBVIOUS
<1> QED BY <1>1 DEF InEffect

LEMMA EffectKept ==
  ASSUME NEW S \in Seq(Segments), NEW T \in Seq(Segments), NEW q, NEW v, NEW p \in 0..Len(S),
         InEffect(S, q, v, p)
  PROVE  InEffect(S \o T, q, v, p)
<1>1. p \in Nat /\ \A j \in 1..p : (S \o T)[j] = S[j]
  BY Joined
<1> QED BY <1>1, EffectLocal

\* An annotation where its condition holds.
LEMMA WhenAnnotated ==
  ASSUME NEW S \in Seq(Segments), NEW c \in BOOLEAN,
         NEW q \in Params, NEW w, c => w \in ValuesOf(q)
  PROVE  LET T == When(c, Annotate(q, w)) IN
         /\ T \in Seq(Segments) /\ OnlySets(T)
         /\ S \o T \in Seq(Segments)
         /\ c => InEffect(S \o T, q, w, Len(S \o T))
         /\ \A r, v : r # q \/ ~c => (InEffect(S, r, v, Len(S)) => InEffect(S \o T, r, v, Len(S \o T)))
<1> DEFINE T == When(c, Annotate(q, w))
           U == S \o T
<1>1. CASE ~c
  <2>1. T = <<>> /\ U = S
    BY <1>1 DEF When
  <2> QED BY <1>1, <2>1 DEF OnlySets
<1>2. CASE c
  <2>1. Annotate(q, w) \in Segments
    BY <1>2 DEF Annotate, Segments, SetSegments
  <2>2. T \in Seq(Segments) /\ Len(T) = 1 /\ T[1] = Annotate(q, w)
    BY <1>2, <2>1 DEF When
  <2>3. /\ U \in Seq(Segments) /\ Len(S) \in Nat /\ Len(U) = Len(S) + 1
        /\ U[Len(S) + 1] = Annotate(q, w)
    <3> HIDE DEF T
    <3>1. 1 \in 1..Len(T)
      BY <2>2
    <3> QED BY <2>2, <3>1, Joined
  <2>4. OnlySets(T)
    BY <2>2 DEF OnlySets, Annotate
  <2>5. Sets(U[Len(S) + 1], q) /\ U[Len(S) + 1].value = w
    BY <2>3 DEF Sets, Annotate
  <2> HIDE DEF T, U
  <2>6. InEffect(U, q, w, Len(U))
    <3>1. Len(U) \in 1..Len(U) /\ \A l \in Len(U) + 1..Len(U) : FALSE
      BY <2>3
    <3> QED BY <2>3, <2>5, <3>1 DEF InEffect
  <2>7. ASSUME NEW r, NEW v, r # q, InEffect(S, r, v, Len(S))
        PROVE  InEffect(U, r, v, Len(U))
    <3>1. InEffect(U, r, v, Len(S))
      BY <2>2, <2>3, <2>7, EffectKept DEF U
    <3>2. \A l \in Len(S) + 1..Len(U) : ~Sets(U[l], r)
      <4>1. \A l \in Len(S) + 1..Len(U) : l = Len(S) + 1
        BY <2>3
      <4> QED BY <2>5, <2>7, <4>1 DEF Sets
    <3> QED BY <2>3, <3>1, <3>2, EffectCarries
  <2> QED BY <1>2, <2>2, <2>3, <2>4, <2>6, <2>7 DEF T, U
<1> QED BY <1>1, <1>2

\* Segments that set nothing leave everything in effect.
LEMMA EffectThrough ==
  ASSUME NEW S \in Seq(Segments), NEW T \in Seq(Segments), NoSets(T),
         NEW p \in Len(S)..Len(S \o T), NEW q, NEW v, InEffect(S, q, v, Len(S))
  PROVE  InEffect(S \o T, q, v, p)
<1>1. Len(S) \in Nat /\ Len(T) \in Nat /\ p \in Nat /\ Len(S) <= p /\ p <= Len(S) + Len(T)
  BY Joined
<1>2. InEffect(S \o T, q, v, Len(S))
  BY <1>1, EffectKept
<1>3. \A l \in Len(S) + 1..p : ~Sets((S \o T)[l], q)
  <2> SUFFICES ASSUME NEW l \in Len(S) + 1..p PROVE ~Sets((S \o T)[l], q)
    OBVIOUS
  <2>1. l - Len(S) \in 1..Len(T) /\ (S \o T)[l] = T[l - Len(S)]
    <3>1. l \in 1..Len(S) + Len(T) /\ l \notin 1..Len(S)
      BY <1>1
    <3> QED BY <3>1, Joined
  <2> QED BY <2>1 DEF NoSets, Sets
<1> QED BY <1>1, <1>2, <1>3, EffectCarries

-----------------------------------------------------------------------------
(* How the segments of the first n fragments lie                           *)

Speaks(i) == frags[i].action \in {"speak", "spell"}

\* The markers' numbers come in order, and all of them come.
IndexRange(S, M) == \A p \in 1..Len(S) : IsIndex(S[p]) => S[p].id \in 1..Len(M)
IndexOrder(S) ==
  \A p, r \in 1..Len(S) : p < r /\ IsIndex(S[p]) /\ IsIndex(S[r]) => S[p].id < S[r].id
IndexAll(S, M) == \A m \in 1..Len(M) : \E p \in 1..Len(S) : IsIndex(S[p]) /\ S[p].id = m

\* So do the texts.
TextRange(S, n) ==
  \A p \in 1..Len(S) : IsText(S[p]) =>
    S[p].frag \in 1..n /\ Speaks(S[p].frag) /\ S[p].word \in Texts(S[p].frag)
TextOrder(S) ==
  \A p, r \in 1..Len(S) : p < r /\ IsText(S[p]) /\ IsText(S[r]) => Precedes(S[p], S[r])
TextAll(S, n) ==
  \A i \in 1..n : Speaks(i) => \A w \in Texts(i) :
    \E p \in 1..Len(S) : IsText(S[p]) /\ S[p].frag = i /\ S[p].word = w

\* A marker stands behind the texts of the fragments before its own, at the
\* word it is for, or before the first text of its sentence.
WordNext(S, p, m) == p < Len(S) /\ S[p + 1] = Text(m.frag, m.word)
SentenceNext(S, p, m) ==
  \E r \in p + 1..Len(S) :
    IsText(S[r]) /\ S[r].frag = m.frag /\ \A x \in p + 1..r - 1 : ~IsText(S[x])
MarkerPlace(S, M, n, p) ==
  LET m == M[S[p].id] IN
  /\ m.frag \in 1..n
  /\ \A r \in 1..p - 1 : IsText(S[r]) => S[r].frag <= m.frag
  /\ m.kind = "word" => WordNext(S, p, m)
  /\ m.kind = "sentence" => SentenceNext(S, p, m)
MarkerPlaces(S, M, n) ==
  \A p \in 1..Len(S) : IsIndex(S[p]) => MarkerPlace(S, M, n, p)
Bookmarks(M, n) ==
  \A i \in 1..n : frags[i].action = "bookmark" =>
    \E m \in 1..Len(M) : M[m] = Marker("bookmark", i, 0)

Layout(S, M, n) ==
  /\ IndexRange(S, M) /\ IndexOrder(S) /\ IndexAll(S, M)
  /\ TextRange(S, n) /\ TextOrder(S) /\ TextAll(S, n)
  /\ MarkerPlaces(S, M, n) /\ Bookmarks(M, n)

\* Annotations behind them change nothing of this.
LEMMA LayoutAnnotated ==
  ASSUME NEW S \in Seq(Segments), NEW T \in Seq(Segments), OnlySets(T),
         NEW M \in Seq(MarkerRecords), NEW n \in Nat, Layout(S, M, n)
  PROVE  Layout(S \o T, M, n)
<1> DEFINE U == S \o T
<1>1. Len(S) \in Nat /\ Len(U) \in Nat /\ Len(S) <= Len(U) /\ \A p \in 1..Len(S) : U[p] = S[p] /\ p \in 1..Len(U)
  BY Joined
<1>2. \A p \in 1..Len(U) : IsText(U[p]) \/ IsIndex(U[p]) => p \in 1..Len(S)
  <2> SUFFICES ASSUME NEW p \in 1..Len(U), p \notin 1..Len(S)
               PROVE  U[p].kind = "set"
    BY DEF IsText, IsIndex
  <2> QED BY Joined DEF OnlySets
<1> HIDE DEF U
<1>3. IndexRange(U, M) /\ IndexOrder(U)
  BY <1>1, <1>2 DEF Layout, IndexRange, IndexOrder
<1>4. IndexAll(U, M)
  BY <1>1 DEF Layout, IndexAll
<1>5. TextRange(U, n) /\ TextOrder(U)
  BY <1>1, <1>2 DEF Layout, TextRange, TextOrder
<1>6. TextAll(U, n)
  BY <1>1 DEF Layout, TextAll
<1>7. MarkerPlaces(U, M, n)
  <2> SUFFICES ASSUME NEW p \in 1..Len(U), IsIndex(U[p]) PROVE MarkerPlace(U, M, n, p)
    BY DEF MarkerPlaces
  <2>1. p \in 1..Len(S) /\ U[p] = S[p] /\ MarkerPlace(S, M, n, p)
    BY <1>1, <1>2 DEF Layout, MarkerPlaces
  <2> DEFINE m == M[S[p].id]
  <2>2. \A r \in 1..p - 1 : IsText(U[r]) => U[r].frag <= m.frag
    BY <1>1, <2>1 DEF MarkerPlace
  <2> HIDE DEF m
  <2>3. WordNext(S, p, m) => WordNext(U, p, m)
    <3>1. p < Len(S) => p + 1 \in 1..Len(S) /\ p < Len(U)
      BY <1>1, <2>1
    <3> QED BY <1>1, <3>1 DEF WordNext
  <2>4. SentenceNext(S, p, m) => SentenceNext(U, p, m)
    <3> SUFFICES ASSUME SentenceNext(S, p, m) PROVE SentenceNext(U, p, m)
      OBVIOUS
    <3>1. PICK r \in p + 1..Len(S) :
            IsText(S[r]) /\ S[r].frag = m.frag /\ \A x \in p + 1..r - 1 : ~IsText(S[x])
      BY DEF SentenceNext
    <3>2. r \in 1..Len(S) /\ r \in p + 1..Len(U) /\ \A x \in p + 1..r - 1 : x \in 1..Len(S)
      BY <1>1, <2>1
    <3> QED BY <1>1, <3>1, <3>2 DEF SentenceNext
  <2> QED BY <2>1, <2>2, <2>3, <2>4 DEF MarkerPlace, m
<1> QED BY <1>3, <1>4, <1>5, <1>6, <1>7 DEF Layout, U

\* The segments a spoken fragment adds, but for its annotations: the sentence
\* marker (s is 1 if there is one), then markers of words and texts; a markers
\* come before.
Block(T, i, a, s, m) ==
  /\ NoSets(T) /\ Len(T) \in Nat
  /\ \A k \in 1..Len(T) : IsIndex(T[k]) => T[k].id \in a + 1..a + s + m
  /\ \A k, l \in 1..Len(T) : k < l /\ IsIndex(T[k]) /\ IsIndex(T[l]) => T[k].id < T[l].id
  /\ \A x \in a + 1..a + s + m : \E k \in 1..Len(T) : IsIndex(T[k]) /\ T[k].id = x
  /\ \A k \in 1..Len(T) : IsText(T[k]) => T[k].frag = i /\ T[k].word \in Texts(i)
  /\ \A k, l \in 1..Len(T) : k < l /\ IsText(T[k]) /\ IsText(T[l]) => T[k].word < T[l].word
  /\ \A w \in Texts(i) : \E k \in 1..Len(T) : IsText(T[k]) /\ T[k].word = w
  /\ \A k \in 1..Len(T) : IsIndex(T[k]) /\ T[k].id > a + s =>
       k < Len(T) /\ T[k + 1] = Text(i, T[k].id - a - s)
  /\ \A k \in 1..Len(T) : IsIndex(T[k]) /\ T[k].id <= a + s =>
       \E l \in k + 1..Len(T) : IsText(T[l]) /\ \A x \in k + 1..l - 1 : ~IsText(T[x])

\* The markers of M with its own.
MarkersAdded(K, M, i, s, m) ==
  /\ Len(M) \in Nat /\ Len(K) = Len(M) + s + m
  /\ \A x \in 1..Len(M) : K[x] = M[x] /\ x \in 1..Len(K)
  /\ \A x \in 1..s : K[Len(M) + x] = Marker("sentence", i, 0)
  /\ \A w \in 1..m : K[Len(M) + s + w] = Marker("word", i, w)

LEMMA LayoutBlock ==
  ASSUME NEW S \in Seq(Segments), NEW T \in Seq(Segments),
         NEW M, NEW K, NEW n \in Nat, NEW s \in Nat, NEW m \in Nat,
         Layout(S, M, n), Speaks(n + 1),
         Block(T, n + 1, Len(M), s, m), MarkersAdded(K, M, n + 1, s, m)
  PROVE  Layout(S \o T, K, n + 1)
<1> DEFINE U == S \o T
           i == n + 1
<1>1. /\ Len(S) \in Nat /\ Len(T) \in Nat /\ Len(U) = Len(S) + Len(T)
      /\ \A p \in 1..Len(S) : U[p] = S[p] /\ p \in 1..Len(U)
      /\ \A k \in 1..Len(T) : U[Len(S) + k] = T[k] /\ Len(S) + k \in 1..Len(U)
      /\ \A p \in 1..Len(U) : p \in 1..Len(S) \/ \E k \in 1..Len(T) : p = Len(S) + k
  <2>1. \A p \in 1..Len(U) : p \notin 1..Len(S) => p - Len(S) \in 1..Len(T) /\ p = Len(S) + (p - Len(S))
    BY Joined
  <2> QED BY <2>1, Joined
<1>2. /\ Len(M) \in Nat /\ Len(K) = Len(M) + s + m
      /\ \A x \in 1..Len(M) : K[x] = M[x] /\ x \in 1..Len(K)
      /\ \A x \in 1..s : K[Len(M) + x] = Marker("sentence", i, 0)
      /\ \A w \in 1..m : K[Len(M) + s + w] = Marker("word", i, w)
  BY DEF MarkersAdded
<1> HIDE DEF U
<1>3. IndexRange(U, K)
  <2> SUFFICES ASSUME NEW p \in 1..Len(U), IsIndex(U[p]) PROVE U[p].id \in 1..Len(K)
    BY DEF IndexRange
  <2>1. CASE p \in 1..Len(S)
    BY <1>1, <1>2, <2>1 DEF Layout, IndexRange
  <2>2. ASSUME NEW k \in 1..Len(T), p = Len(S) + k PROVE U[p].id \in 1..Len(K)
    <3>1. T[k].id \in Len(M) + 1..Len(M) + s + m
      BY <1>1, <2>2 DEF Block
    <3> QED BY <1>1, <1>2, <2>2, <3>1
  <2> QED BY <1>1, <2>1, <2>2
<1>4. IndexOrder(U)
  <2> SUFFICES ASSUME NEW p \in 1..Len(U), NEW r \in 1..Len(U), p < r, IsIndex(U[p]), IsIndex(U[r])
               PROVE  U[p].id < U[r].id
    BY DEF IndexOrder
  <2>1. CASE r \in 1..Len(S)
    <3>1. p \in 1..Len(S)
      BY <1>1, <2>1
    <3> QED BY <1>1, <2>1, <3>1 DEF Layout, IndexOrder
  <2>2. CASE r \notin 1..Len(S)
    <3>1. PICK l \in 1..Len(T) : r = Len(S) + l
      BY <1>1, <2>2
    <3>2. U[r] = T[l] /\ T[l].id \in Len(M) + 1..Len(M) + s + m
      BY <1>1, <3>1 DEF Block
    <3>3. CASE p \in 1..Len(S)
      <4>1. U[p].id \in 1..Len(M)
        BY <1>1, <3>3 DEF Layout, IndexRange
      <4>2. \A a \in Nat : \A x \in 1..a : \A y \in a + 1..a + s + m : x < y
        OBVIOUS
      <4> QED BY <1>2, <3>2, <4>1, <4>2
    <3>4. CASE p \notin 1..Len(S)
      <4>1. PICK k \in 1..Len(T) : p = Len(S) + k
        BY <1>1, <3>4
      <4>2. k < l /\ U[p] = T[k]
        <5>1. Len(S) \in Nat /\ U[Len(S) + k] = T[k]
          BY <1>1
        <5> QED BY <3>1, <4>1, <5>1
      <4> QED BY <3>2, <4>2 DEF Block
    <3> QED BY <3>3, <3>4
  <2> QED BY <2>1, <2>2
<1>5. IndexAll(U, K)
  <2> SUFFICES ASSUME NEW x \in 1..Len(K)
               PROVE  \E p \in 1..Len(U) : IsIndex(U[p]) /\ U[p].id = x
    BY DEF IndexAll
  <2>1. CASE x \in 1..Len(M)
    BY <1>1, <2>1 DEF Layout, IndexAll
  <2>2. CASE x \notin 1..Len(M)
    <3>1. x \in Len(M) + 1..Len(M) + s + m
      BY <1>2, <2>2
    <3>2. PICK k \in 1..Len(T) : IsIndex(T[k]) /\ T[k].id = x
      BY <3>1 DEF Block
    <3> QED BY <1>1, <3>2
  <2> QED BY <2>1, <2>2
<1>6. TextRange(U, i)
  <2> SUFFICES ASSUME NEW p \in 1..Len(U), IsText(U[p])
               PROVE  U[p].frag \in 1..i /\ Speaks(U[p].frag) /\ U[p].word \in Texts(U[p].frag)
    BY DEF TextRange
  <2>1. CASE p \in 1..Len(S)
    BY <1>1, <2>1 DEF Layout, TextRange
  <2>2. CASE p \notin 1..Len(S)
    <3>1. PICK k \in 1..Len(T) : p = Len(S) + k
      BY <1>1, <2>2
    <3>2. U[p] = T[k] /\ T[k].frag = i /\ T[k].word \in Texts(i)
      BY <1>1, <3>1 DEF Block
    <3>3. i \in 1..i
      OBVIOUS
    <3> QED BY <3>2, <3>3
  <2> QED BY <2>1, <2>2
<1>7. TextOrder(U)
  <2> SUFFICES ASSUME NEW p \in 1..Len(U), NEW r \in 1..Len(U), p < r, IsText(U[p]), IsText(U[r])
               PROVE  Precedes(U[p], U[r])
    BY DEF TextOrder
  <2>1. CASE r \in 1..Len(S)
    <3>1. p \in 1..Len(S)
      BY <1>1, <2>1
    <3> QED BY <1>1, <2>1, <3>1 DEF Layout, TextOrder
  <2>2. CASE r \notin 1..Len(S)
    <3>1. PICK l \in 1..Len(T) : r = Len(S) + l
      BY <1>1, <2>2
    <3>2. U[r] = T[l] /\ T[l].frag = n + 1
      BY <1>1, <3>1 DEF Block
    <3>3. CASE p \in 1..Len(S)
      <4>1. U[p].frag \in 1..n
        BY <1>1, <3>3 DEF Layout, TextRange
      <4>2. U[p].frag < U[r].frag
        BY <3>2, <4>1
      <4> QED BY <4>2 DEF Precedes
    <3>4. CASE p \notin 1..Len(S)
      <4>1. PICK k \in 1..Len(T) : p = Len(S) + k
        BY <1>1, <3>4
      <4>2. k < l /\ U[p] = T[k]
        <5>1. Len(S) \in Nat /\ U[Len(S) + k] = T[k]
          BY <1>1
        <5> QED BY <3>1, <4>1, <5>1
      <4>3. T[k].frag = T[l].frag /\ T[k].word < T[l].word
        BY <3>2, <4>2 DEF Block
      <4> QED BY <3>2, <4>2, <4>3 DEF Precedes
    <3> QED BY <3>3, <3>4
  <2> QED BY <2>1, <2>2
<1>8. TextAll(U, i)
  <2> SUFFICES ASSUME NEW j \in 1..i, Speaks(j), NEW w \in Texts(j)
               PROVE  \E p \in 1..Len(U) : IsText(U[p]) /\ U[p].frag = j /\ U[p].word = w
    BY DEF TextAll
  <2>1. CASE j \in 1..n
    <3>1. PICK p \in 1..Len(S) : IsText(S[p]) /\ S[p].frag = j /\ S[p].word = w
      BY <2>1 DEF Layout, TextAll
    <3> QED BY <1>1, <3>1
  <2>2. CASE j \notin 1..n
    <3>1. j = n + 1
      BY <2>2
    <3>2. PICK k \in 1..Len(T) : IsText(T[k]) /\ T[k].word = w
      BY <3>1 DEF Block
    <3>3. T[k].frag = j
      BY <3>1, <3>2 DEF Block
    <3> QED BY <1>1, <3>2, <3>3
  <2> QED BY <2>1, <2>2
<1>9. MarkerPlaces(U, K, i)
  <2> SUFFICES ASSUME NEW p \in 1..Len(U), IsIndex(U[p]) PROVE MarkerPlace(U, K, i, p)
    BY DEF MarkerPlaces
  <2>1. CASE p \in 1..Len(S)
    <3> DEFINE d == M[S[p].id]
    <3>1. /\ U[p] = S[p] /\ MarkerPlace(S, M, n, p) /\ K[S[p].id] = d
          /\ d.frag \in 1..n
      BY <1>1, <1>2, <2>1 DEF Layout, MarkerPlaces, MarkerPlace, IndexRange
    <3>2. \A r \in 1..p - 1 : IsText(U[r]) => U[r].frag <= d.frag
      <4>1. \A r \in 1..p - 1 : r \in 1..Len(S)
        <5>1. \A a \in Nat : \A x \in 1..a : \A r \in 1..x - 1 : r \in 1..a
          OBVIOUS
        <5> QED BY <1>1, <2>1, <5>1
      <4>2. \A r \in 1..p - 1 : IsText(S[r]) => S[r].frag <= d.frag
        BY <3>1 DEF MarkerPlace
      <4> HIDE DEF d
      <4> QED BY <1>1, <4>1, <4>2
    <3>3. (d.kind = "word" => WordNext(S, p, d)) /\ (d.kind = "sentence" => SentenceNext(S, p, d))
      BY <3>1 DEF MarkerPlace
    <3> HIDE DEF d
    <3>4. WordNext(S, p, d) => WordNext(U, p, d)
      <4>1. p < Len(S) => p + 1 \in 1..Len(S) /\ p < Len(U)
        BY <1>1, <2>1
      <4> QED BY <1>1, <4>1 DEF WordNext
    <3>5. SentenceNext(S, p, d) => SentenceNext(U, p, d)
      <4> SUFFICES ASSUME SentenceNext(S, p, d) PROVE SentenceNext(U, p, d)
        OBVIOUS
      <4>1. PICK r \in p + 1..Len(S) :
              IsText(S[r]) /\ S[r].frag = d.frag /\ \A x \in p + 1..r - 1 : ~IsText(S[x])
        BY DEF SentenceNext
      <4>2. r \in 1..Len(S) /\ r \in p + 1..Len(U) /\ \A x \in p + 1..r - 1 : x \in 1..Len(S)
        BY <1>1, <2>1
      <4> QED BY <1>1, <4>1, <4>2 DEF SentenceNext
    <3>6. d.frag \in 1..i
      BY <3>1
    <3> QED BY <3>1, <3>2, <3>3, <3>4, <3>5, <3>6 DEF MarkerPlace
  <2>2. CASE p \notin 1..Len(S)
    <3>1. PICK k \in 1..Len(T) : p = Len(S) + k
      BY <1>1, <2>2
    <3> DEFINE id == T[k].id
    <3>2. U[p] = T[k] /\ id \in Len(M) + 1..Len(M) + s + m
      BY <1>1, <3>1 DEF Block
    <3>3. \A r \in 1..p - 1 : IsText(U[r]) => U[r].frag <= i
      <4>1. \A r \in 1..p - 1 : r \in 1..Len(U)
        BY <1>1
      <4> QED BY <1>6, <4>1 DEF TextRange
    <3>4. CASE id > Len(M) + s
      <4> DEFINE w == id - Len(M) - s
      <4>1. w \in 1..m /\ id = Len(M) + s + w
        <5>1. \A a \in Nat : \A x \in a + 1..a + s + m :
                x > a + s => x - a - s \in 1..m /\ x = a + s + (x - a - s)
          OBVIOUS
        <5> HIDE DEF id
        <5> QED BY <1>2, <3>2, <3>4, <5>1
      <4>2. K[id] = Marker("word", i, w)
        BY <1>2, <4>1
      <4>3. k < Len(T) /\ T[k + 1] = Text(i, w)
        BY <1>1, <3>1, <3>2, <3>4 DEF Block
      <4>4. k + 1 \in 1..Len(T) /\ Len(S) + (k + 1) = p + 1 /\ p < Len(U)
        <5>1. \A a, b \in Nat : \A x \in 1..b :
                x < b => x + 1 \in 1..b /\ a + (x + 1) = a + x + 1 /\ a + x < a + b
          OBVIOUS
        <5>2. Len(S) \in Nat /\ Len(T) \in Nat /\ Len(U) = Len(S) + Len(T) /\ k < Len(T)
          BY <1>1, <4>3
        <5> QED BY <3>1, <5>1, <5>2
      <4>5. U[p + 1] = Text(i, w)
        BY <1>1, <4>3, <4>4
      <4>6. i \in 1..i
        OBVIOUS
      <4> HIDE DEF w, i
      <4> QED BY <3>2, <3>3, <4>2, <4>4, <4>5, <4>6 DEF MarkerPlace, WordNext, Marker
    <3>5. CASE ~(id > Len(M) + s)
      <4>1. id - Len(M) \in 1..s /\ id = Len(M) + (id - Len(M)) /\ id <= Len(M) + s
        <5>1. \A a \in Nat : \A x \in a + 1..a + s + m :
                ~(x > a + s) => x - a \in 1..s /\ x = a + (x - a) /\ x <= a + s
          OBVIOUS
        <5> HIDE DEF id
        <5> QED BY <1>2, <3>2, <3>5, <5>1
      <4>2. K[id] = Marker("sentence", i, 0)
        BY <1>2, <4>1
      <4>3. PICK l \in k + 1..Len(T) : IsText(T[l]) /\ \A x \in k + 1..l - 1 : ~IsText(T[x])
        <5>1. IsIndex(T[k])
          BY <3>2
        <5> QED BY <4>1, <5>1 DEF Block
      <4> DEFINE r == Len(S) + l
      <4>4. l \in 1..Len(T) /\ r \in p + 1..Len(U) /\ U[r] = T[l]
        BY <1>1, <3>1, <4>3
      <4>5. \A x \in p + 1..r - 1 : ~IsText(U[x])
        <5> SUFFICES ASSUME NEW x \in p + 1..r - 1 PROVE ~IsText(U[x])
          OBVIOUS
        <5>1. x - Len(S) \in k + 1..l - 1 /\ x - Len(S) \in 1..Len(T) /\ Len(S) + (x - Len(S)) = x
          <6>1. Len(S) \in Nat /\ Len(T) \in Nat
            BY <1>1
          <6>2. x \in Len(S) + k + 1..Len(S) + l - 1
            BY <3>1
          <6>3. l \in 1..Len(T)
            BY <4>4
          <6> HIDE DEF r, i, id
          <6> QED BY <6>1, <6>2, <6>3
        <5> QED BY <1>1, <4>3, <5>1
      <4>6. T[l].frag = i
        BY <4>3, <4>4 DEF Block
      <4>7. i \in 1..i
        OBVIOUS
      <4> HIDE DEF r, i
      <4>8. SentenceNext(U, p, K[id])
        <5>1. K[id].frag = i
          BY <4>2 DEF Marker
        <5> HIDE DEF id
        <5> QED BY <4>3, <4>4, <4>5, <4>6, <5>1 DEF SentenceNext
      <4> QED BY <3>2, <3>3, <4>2, <4>7, <4>8 DEF MarkerPlace, Marker
    <3> QED BY <3>4, <3>5
  <2> QED BY <2>1, <2>2
<1>10. Bookmarks(K, i)
  <2> SUFFICES ASSUME NEW j \in 1..i, frags[j].action = "bookmark"
               PROVE  \E x \in 1..Len(K) : K[x] = Marker("bookmark", j, 0)
    BY DEF Bookmarks
  <2>1. j \in 1..n
    BY DEF Speaks
  <2>2. PICK x \in 1..Len(M) : M[x] = Marker("bookmark", j, 0)
    BY <2>1 DEF Layout, Bookmarks
  <2> QED BY <1>2, <2>2
<1> QED
  BY <1>3, <1>4, <1>5, <1>6, <1>7, <1>8, <1>9, <1>10 DEF Layout, U, i

\* A bookmark is one marker.
LEMMA LayoutBookmark ==
  ASSUME NEW S \in Seq(Segments), NEW M \in Seq(MarkerRecords), NEW n \in Nat,
         Layout(S, M, n), frags[n + 1].action = "bookmark"
  PROVE  Layout(Append(S, Index(Len(M) + 1)), Append(M, Marker("bookmark", n + 1, 0)), n + 1)
<1> DEFINE U == Append(S, Index(Len(M) + 1))
           K == Append(M, Marker("bookmark", n + 1, 0))
           i == n + 1
<1>1. /\ Len(S) \in Nat /\ Len(M) \in Nat
      /\ Index(Len(M) + 1) \in Segments /\ Marker("bookmark", i, 0) \in MarkerRecords
  BY DEF Segments, IndexSegments, Index, MarkerRecords, Marker
<1>2. /\ Len(U) = Len(S) + 1 /\ U[Len(S) + 1] = Index(Len(M) + 1)
      /\ \A p \in 1..Len(S) : U[p] = S[p] /\ p \in 1..Len(U)
      /\ \A p \in 1..Len(U) : p \in 1..Len(S) \/ p = Len(S) + 1
  BY <1>1
<1>3. /\ Len(K) = Len(M) + 1 /\ K[Len(M) + 1] = Marker("bookmark", i, 0)
      /\ \A x \in 1..Len(M) : K[x] = M[x] /\ x \in 1..Len(K)
      /\ \A x \in 1..Len(K) : x \in 1..Len(M) \/ x = Len(M) + 1
  BY <1>1
<1>4. ~IsText(U[Len(S) + 1]) /\ IsIndex(U[Len(S) + 1]) /\ U[Len(S) + 1].id = Len(M) + 1
  BY <1>2 DEF IsText, IsIndex, Index
<1>5. \A a \in Nat : a + 1 \in 1..a + 1 /\ \A x \in 1..a : x < a + 1 /\ x \in 1..a + 1
  OBVIOUS
<1>6. \A p \in 1..Len(U) : \A r \in 1..Len(U) : p < r => p \in 1..Len(S)
  BY <1>1, <1>2
<1> HIDE DEF U, K
<1>7. IndexRange(U, K)
  BY <1>1, <1>2, <1>3, <1>4, <1>5 DEF Layout, IndexRange
<1>8. IndexOrder(U)
  <2> SUFFICES ASSUME NEW p \in 1..Len(U), NEW r \in 1..Len(U), p < r, IsIndex(U[p]), IsIndex(U[r])
               PROVE  U[p].id < U[r].id
    BY DEF IndexOrder
  <2>1. p \in 1..Len(S) /\ U[p] = S[p] /\ U[p].id \in 1..Len(M)
    BY <1>2, <1>6 DEF Layout, IndexRange
  <2>2. CASE r \in 1..Len(S)
    BY <1>2, <2>1, <2>2 DEF Layout, IndexOrder
  <2>3. CASE r = Len(S) + 1
    BY <1>1, <1>4, <1>5, <2>1, <2>3
  <2> QED BY <1>2, <2>2, <2>3
<1>9. IndexAll(U, K)
  <2>1. Len(S) + 1 \in 1..Len(U)
    BY <1>1, <1>2, <1>5
  <2> QED BY <1>2, <1>3, <1>4, <2>1 DEF Layout, IndexAll
<1>10. TextRange(U, i)
  <2>1. \A j \in 1..n : j \in 1..i
    OBVIOUS
  <2> QED BY <1>2, <1>4, <2>1 DEF Layout, TextRange
<1>11. TextOrder(U)
  BY <1>2, <1>4, <1>6 DEF Layout, TextOrder
<1>12. TextAll(U, i)
  <2>1. \A j \in 1..i : Speaks(j) => j \in 1..n
    BY DEF Speaks
  <2> QED BY <1>2, <2>1 DEF Layout, TextAll
<1>13. MarkerPlaces(U, K, i)
  <2> SUFFICES ASSUME NEW p \in 1..Len(U), IsIndex(U[p]) PROVE MarkerPlace(U, K, i, p)
    BY DEF MarkerPlaces
  <2>0. \A r \in 1..p - 1 : r \in 1..Len(S)
    BY <1>1, <1>2
  <2>1. CASE p \in 1..Len(S)
    <3> DEFINE d == M[S[p].id]
    <3>1. /\ U[p] = S[p] /\ MarkerPlace(S, M, n, p) /\ K[S[p].id] = d
          /\ d.frag \in 1..n
      BY <1>2, <1>3, <2>1 DEF Layout, MarkerPlaces, MarkerPlace, IndexRange
    <3>2. \A r \in 1..p - 1 : IsText(U[r]) => U[r].frag <= d.frag
      BY <1>2, <2>0, <3>1 DEF MarkerPlace
    <3>3. (d.kind = "word" => WordNext(S, p, d)) /\ (d.kind = "sentence" => SentenceNext(S, p, d))
      BY <3>1 DEF MarkerPlace
    <3> HIDE DEF d
    <3>4. WordNext(S, p, d) => WordNext(U, p, d)
      <4>1. p < Len(S) => p + 1 \in 1..Len(S) /\ p < Len(U)
        BY <1>1, <1>2, <2>1
      <4> QED BY <1>2, <4>1 DEF WordNext
    <3>5. SentenceNext(S, p, d) => SentenceNext(U, p, d)
      <4> SUFFICES ASSUME SentenceNext(S, p, d) PROVE SentenceNext(U, p, d)
        OBVIOUS
      <4>1. PICK r \in p + 1..Len(S) :
              IsText(S[r]) /\ S[r].frag = d.frag /\ \A x \in p + 1..r - 1 : ~IsText(S[x])
        BY DEF SentenceNext
      <4>2. r \in 1..Len(S) /\ r \in p + 1..Len(U) /\ \A x \in p + 1..r - 1 : x \in 1..Len(S)
        BY <1>1, <1>2, <2>1
      <4> QED BY <1>2, <4>1, <4>2 DEF SentenceNext
    <3>6. d.frag \in 1..i
      BY <3>1
    <3> QED BY <3>1, <3>2, <3>3, <3>4, <3>5, <3>6 DEF MarkerPlace
  <2>2. CASE p = Len(S) + 1
    <3>1. K[U[p].id] = Marker("bookmark", i, 0)
      BY <1>3, <1>4, <2>2
    <3>2. \A r \in 1..p - 1 : IsText(U[r]) => U[r].frag \in 1..n /\ U[r].frag <= i
      BY <1>2, <2>0 DEF Layout, TextRange
    <3>3. i \in 1..i
      OBVIOUS
    <3> HIDE DEF i
    <3> QED BY <3>1, <3>2, <3>3 DEF MarkerPlace, Marker
  <2> QED BY <1>2, <2>1, <2>2
<1>14. Bookmarks(K, i)
  <2>1. \A j \in 1..i : j \in 1..n \/ j = i
    OBVIOUS
  <2>2. Len(M) + 1 \in 1..Len(K)
    BY <1>1, <1>3, <1>5
  <2>3. ASSUME NEW j \in 1..i, frags[j].action = "bookmark"
        PROVE  \E x \in 1..Len(K) : K[x] = Marker("bookmark", j, 0)
    <3>1. CASE j \in 1..n
      <4>1. PICK x \in 1..Len(M) : M[x] = Marker("bookmark", j, 0)
        BY <2>3, <3>1 DEF Layout, Bookmarks
      <4> QED BY <1>3, <4>1
    <3>2. CASE j = i
      BY <1>3, <2>2, <3>2
    <3> QED BY <2>1, <3>1, <3>2
  <2> QED BY <2>3 DEF Bookmarks
<1> QED
  BY <1>7, <1>8, <1>9, <1>10, <1>11, <1>12, <1>13, <1>14 DEF Layout, U, K, i

\* A silence is nothing.
LEMMA LayoutSilence ==
  ASSUME NEW S, NEW M, NEW n \in Nat, Layout(S, M, n), frags[n + 1].action = "silence"
  PROVE  Layout(S, M, n + 1)
<1>1. \A j \in 1..n : j \in 1..n + 1
  OBVIOUS
<1>2. \A j \in 1..n + 1 : Speaks(j) \/ frags[j].action = "bookmark" => j \in 1..n
  BY DEF Speaks
<1>3. TextRange(S, n + 1) /\ TextAll(S, n + 1)
  BY <1>1, <1>2 DEF Layout, TextRange, TextAll
<1>4. MarkerPlaces(S, M, n + 1)
  BY <1>1 DEF Layout, MarkerPlaces, MarkerPlace
<1>5. Bookmarks(M, n + 1)
  BY <1>2 DEF Layout, Bookmarks
<1> QED BY <1>3, <1>4, <1>5 DEF Layout

-----------------------------------------------------------------------------
(* The text of a fragment                                                  *)

\* Where Words puts text w and, for the first of them, their markers.
LEMMA WordsShape ==
  ASSUME NEW i, NEW id, frags[i].spoken \in Nat, frags[i].words \in Nat
  PROVE  LET T == Words(i, id)
             n == frags[i].spoken
             m == Marked(frags[i])
         IN
         /\ m \in 0..n /\ T = [k \in 1..n + m |-> T[k]]
         /\ \A w \in 1..m : /\ T[2 * w - 1] = Index(id + w - 1)
                            /\ T[2 * w] = Text(i, w)
         /\ \A w \in m + 1..n : T[m + w] = Text(i, w)
         /\ \A k \in 1..n + m : \/ \E w \in 1..m : k = 2 * w - 1
                                \/ \E w \in 1..m : k = 2 * w
                                \/ \E w \in m + 1..n : k = m + w
<1> DEFINE n == frags[i].spoken
           m == Marked(frags[i])
           T == Words(i, id)
<1>1. n \in Nat /\ m \in 0..n
  BY DEF Marked
<1>2. T = [k \in 1..n + m |->
             IF k > 2 * m THEN Text(i, k - m)
             ELSE IF k % 2 = 1 THEN Index(id + k \div 2) ELSE Text(i, k \div 2)]
  BY DEF Words
<1> HIDE DEF n, m, T
<1>3. ASSUME NEW w \in 1..m
      PROVE  T[2 * w - 1] = Index(id + w - 1) /\ T[2 * w] = Text(i, w)
  <2>1. /\ 2 * w - 1 \in 1..n + m /\ ~(2 * w - 1 > 2 * m)
        /\ (2 * w - 1) % 2 = 1 /\ (2 * w - 1) \div 2 = w - 1
    BY <1>1
  <2>2. 2 * w \in 1..n + m /\ ~(2 * w > 2 * m) /\ (2 * w) % 2 = 0 /\ (2 * w) \div 2 = w
    BY <1>1
  <2>3. T[2 * w - 1] = Index(id + (w - 1))
    BY <1>2, <2>1
  <2>4. T[2 * w] = Text(i, w)
    BY <1>2, <2>2
  <2> QED BY <2>3, <2>4
<1>4. ASSUME NEW w \in m + 1..n PROVE T[m + w] = Text(i, w)
  <2>1. m + w \in 1..n + m /\ m + w > 2 * m /\ (m + w) - m = w
    BY <1>1
  <2> QED BY <1>2, <2>1
<1>5. ASSUME NEW k \in 1..n + m
      PROVE  \/ \E w \in 1..m : k = 2 * w - 1
             \/ \E w \in 1..m : k = 2 * w
             \/ \E w \in m + 1..n : k = m + w
  <2>1. CASE k > 2 * m
    <3>1. k - m \in m + 1..n /\ k = m + (k - m)
      BY <1>1, <2>1
    <3> QED BY <3>1
  <2>2. CASE ~(k > 2 * m) /\ k % 2 = 0
    <3>1. k \div 2 \in 1..m /\ k = 2 * (k \div 2)
      BY <1>1, <2>2
    <3> QED BY <3>1
  <2>3. CASE ~(k > 2 * m) /\ k % 2 # 0
    <3>1. k \div 2 + 1 \in 1..m /\ k = 2 * (k \div 2 + 1) - 1
      BY <1>1, <2>3
    <3> QED BY <3>1
  <2> QED BY <2>1, <2>2, <2>3
<1>6. T = [k \in 1..n + m |-> T[k]]
  BY <1>2
<1> QED
  BY <1>1, <1>3, <1>4, <1>5, <1>6 DEF n, m, T

FirstText(T) == \E l \in 1..Len(T) : IsText(T[l]) /\ \A x \in 1..l - 1 : ~IsText(T[x])

LEMMA TextIs ==
  ASSUME NEW i \in Nat, NEW w \in Nat
  PROVE  /\ Text(i, w) \in Segments
         /\ IsText(Text(i, w)) /\ ~IsIndex(Text(i, w))
         /\ Text(i, w).frag = i /\ Text(i, w).word = w /\ Text(i, w).kind = "text"
BY DEF Text, Segments, TextSegments, IsText, IsIndex

LEMMA IndexIs ==
  ASSUME NEW id \in Nat
  PROVE  /\ Index(id) \in Segments
         /\ IsIndex(Index(id)) /\ ~IsText(Index(id))
         /\ Index(id).id = id /\ Index(id).kind = "index"
BY DEF Index, Segments, IndexSegments, IsText, IsIndex

\* A fragment spoken word by word, after a markers.
LEMMA WordsBlock ==
  ASSUME NEW i \in Nat, NEW a \in Nat, frags[i].spoken \in Nat, frags[i].words \in Nat,
         WordByWord(frags[i])
  PROVE  LET T == Words(i, a + 1) IN
         /\ T \in Seq(Segments)
         /\ Block(T, i, a, 0, Marked(frags[i]))
         /\ frags[i].spoken > 0 => FirstText(T)
<1> DEFINE n == frags[i].spoken
           m == Marked(frags[i])
           T == Words(i, a + 1)
<1>1. /\ n \in Nat /\ m \in 0..n /\ T = [k \in 1..n + m |-> T[k]]
      /\ \A w \in 1..m : T[2 * w - 1] = Index(a + 1 + w - 1) /\ T[2 * w] = Text(i, w)
      /\ \A w \in m + 1..n : T[m + w] = Text(i, w)
      /\ \A k \in 1..n + m : \/ \E w \in 1..m : k = 2 * w - 1
                             \/ \E w \in 1..m : k = 2 * w
                             \/ \E w \in m + 1..n : k = m + w
  BY WordsShape
<1>20. Texts(i) = 1..n
  BY DEF Texts
<1> HIDE DEF n, m, T
<1>2. /\ m \in Nat
      /\ \A w \in 1..m : /\ w \in Nat /\ w \in 1..n /\ a + 1 + w - 1 = a + w /\ a + w \in Nat
                         /\ 2 * w - 1 \in 1..n + m /\ 2 * w \in 1..n + m
      /\ \A w \in m + 1..n : w \in Nat /\ w \in 1..n /\ m + w \in 1..n + m
  <2>1. n \in Nat /\ m \in Nat /\ m <= n
    BY <1>1
  <2>2. ASSUME NEW w \in 1..m
        PROVE  /\ w \in Nat /\ w \in 1..n /\ a + 1 + w - 1 = a + w /\ a + w \in Nat
               /\ 2 * w - 1 \in 1..n + m /\ 2 * w \in 1..n + m
    BY <2>1
  <2>3. ASSUME NEW w \in m + 1..n
        PROVE  w \in Nat /\ w \in 1..n /\ m + w \in 1..n + m
    BY <2>1
  <2> QED BY <2>1, <2>2, <2>3
<1>3. \A w \in 1..m : /\ IsIndex(T[2 * w - 1]) /\ ~IsText(T[2 * w - 1])
                      /\ T[2 * w - 1].id = a + w /\ T[2 * w - 1].kind = "index"
                      /\ T[2 * w - 1] \in Segments
  <2> TAKE w \in 1..m
  <2>1. T[2 * w - 1] = Index(a + w) /\ a + w \in Nat
    BY <1>1, <1>2
  <2> QED BY <2>1, IndexIs
<1>4. \A w \in 1..m : /\ IsText(T[2 * w]) /\ ~IsIndex(T[2 * w]) /\ T[2 * w] = Text(i, w)
                      /\ T[2 * w].word = w /\ T[2 * w].frag = i /\ T[2 * w].kind = "text"
                      /\ T[2 * w] \in Segments
  <2> TAKE w \in 1..m
  <2>1. T[2 * w] = Text(i, w) /\ w \in Nat
    BY <1>1, <1>2
  <2> QED BY <2>1, TextIs
<1>5. \A w \in m + 1..n : /\ IsText(T[m + w]) /\ ~IsIndex(T[m + w])
                          /\ T[m + w].word = w /\ T[m + w].frag = i /\ T[m + w].kind = "text"
                          /\ T[m + w] \in Segments
  <2> TAKE w \in m + 1..n
  <2>1. T[m + w] = Text(i, w) /\ w \in Nat
    BY <1>1, <1>2
  <2> QED BY <2>1, TextIs
<1>19. \A k \in 1..n + m : T[k] \in Segments /\ T[k].kind # "set"
  <2> TAKE k \in 1..n + m
  <2>1. CASE \E w \in 1..m : k = 2 * w - 1
    BY <1>3, <2>1
  <2>2. CASE \E w \in 1..m : k = 2 * w
    BY <1>4, <2>2
  <2>3. CASE \E w \in m + 1..n : k = m + w
    BY <1>5, <2>3
  <2> QED BY <1>1, <2>1, <2>2, <2>3
<1>6. T \in Seq(Segments) /\ Len(T) = n + m
  <2>1. n + m \in Nat
    BY <1>1
  <2>2. DOMAIN T = 1..n + m /\ T \in [1..n + m -> Segments]
    BY <1>1, <1>19
  <2> QED BY <2>1, <2>2
\* Of which word a place of the block is, and where a word is.
<1>7. \A k \in 1..Len(T) : IsIndex(T[k]) => \E w \in 1..m : k = 2 * w - 1
  BY <1>1, <1>4, <1>5, <1>6
<1>8. \A k \in 1..Len(T) : IsText(T[k]) =>
        \E w \in 1..n : T[k].word = w /\ T[k].frag = i /\ k = IF w <= m THEN 2 * w ELSE m + w
  <2> SUFFICES ASSUME NEW k \in 1..n + m, IsText(T[k])
               PROVE  \E w \in 1..n : T[k].word = w /\ T[k].frag = i /\ k = IF w <= m THEN 2 * w ELSE m + w
    BY <1>6
  <2>1. CASE \E w \in 1..m : k = 2 * w
    <3>1. PICK w \in 1..m : k = 2 * w
      BY <2>1
    <3>2. w <= m
      BY <1>2
    <3> QED BY <1>2, <1>4, <3>1, <3>2
  <2>2. CASE \E w \in m + 1..n : k = m + w
    <3>1. PICK w \in m + 1..n : k = m + w
      BY <2>2
    <3>2. ~(w <= m)
      BY <1>2
    <3> QED BY <1>2, <1>5, <3>1, <3>2
  <2> QED BY <1>1, <1>3, <2>1, <2>2
<1>9. \A w \in 1..n : \E k \in 1..Len(T) : IsText(T[k]) /\ T[k].word = w
  <2> SUFFICES ASSUME NEW w \in 1..n PROVE \E k \in 1..n + m : IsText(T[k]) /\ T[k].word = w
    BY <1>6
  <2>1. w \in 1..m \/ w \in m + 1..n
    BY <1>1
  <2> QED BY <1>2, <1>4, <1>5, <2>1
<1>10. \A k \in 1..Len(T) : T[k].kind # "set"
  BY <1>19, <1>6
<1>11. \A k \in 1..Len(T) : IsIndex(T[k]) => T[k].id \in a + 1..a + 0 + m
  <2>1. \A w \in 1..m : a + w \in a + 1..a + 0 + m
    BY <1>2
  <2> QED BY <1>3, <1>7, <2>1
<1>12. ASSUME NEW k \in 1..Len(T), NEW l \in 1..Len(T), k < l, IsIndex(T[k]), IsIndex(T[l])
       PROVE  T[k].id < T[l].id
  <2>1. PICK v \in 1..m, w \in 1..m : k = 2 * v - 1 /\ l = 2 * w - 1
    BY <1>7, <1>12
  <2>2. v < w /\ a + v < a + w
    BY <1>2, <1>12, <2>1
  <2> QED BY <1>3, <2>1, <2>2
<1>13. ASSUME NEW x \in a + 1..a + 0 + m PROVE \E k \in 1..Len(T) : IsIndex(T[k]) /\ T[k].id = x
  <2>1. x - a \in 1..m /\ a + (x - a) = x
    BY <1>2
  <2> QED BY <1>2, <1>3, <1>6, <2>1
<1>14. ASSUME NEW k \in 1..Len(T), NEW l \in 1..Len(T), k < l, IsText(T[k]), IsText(T[l])
       PROVE  T[k].word < T[l].word
  <2>1. PICK v \in 1..n : T[k].word = v /\ k = IF v <= m THEN 2 * v ELSE m + v
    BY <1>8, <1>14
  <2>2. PICK w \in 1..n : T[l].word = w /\ l = IF w <= m THEN 2 * w ELSE m + w
    BY <1>8, <1>14
  <2>3. v < w
    BY <1>1, <1>14, <2>1, <2>2
  <2> QED BY <2>1, <2>2, <2>3
<1>15. ASSUME NEW k \in 1..Len(T), IsIndex(T[k])
       PROVE  k < Len(T) /\ T[k + 1] = Text(i, T[k].id - a - 0) /\ ~(T[k].id <= a + 0)
  <2>1. PICK w \in 1..m : k = 2 * w - 1
    BY <1>7, <1>15
  <2>2. k + 1 = 2 * w /\ k < Len(T)
    BY <1>1, <1>6, <2>1
  <2>3. (a + w) - a - 0 = w /\ ~(a + w <= a + 0)
    BY <1>1
  <2> QED BY <1>3, <1>4, <2>1, <2>2, <2>3
<1>16. ASSUME n > 0 PROVE FirstText(T)
  <2>1. CASE m = 0
    <3>1. 1 \in m + 1..n /\ m + 1 = 1 /\ 1 \in 1..Len(T) /\ \A x \in 1..1 - 1 : FALSE
      BY <1>1, <1>6, <1>16, <2>1
    <3>2. IsText(T[1])
      BY <1>5, <3>1
    <3> QED BY <3>1, <3>2 DEF FirstText
  <2>2. CASE m # 0
    <3>1. 1 \in 1..m /\ 2 * 1 = 2 /\ 2 * 1 - 1 = 1 /\ 2 \in 1..Len(T) /\ \A x \in 1..2 - 1 : x = 1
      BY <1>1, <1>6, <2>2
    <3>2. IsText(T[2]) /\ ~IsText(T[1])
      BY <1>3, <1>4, <3>1
    <3> QED BY <3>1, <3>2 DEF FirstText
  <2> QED BY <2>1, <2>2
<1>17. Len(T) \in Nat
  BY <1>6
<1>18. Block(T, i, a, 0, m)
  BY <1>20, <1>8, <1>9, <1>10, <1>11, <1>12, <1>13, <1>14, <1>15, <1>17 DEF Block, NoSets
<1> QED BY <1>6, <1>16, <1>18 DEF n, m, T

\* A fragment spoken as one text.
LEMMA WholeBlock ==
  ASSUME NEW i \in Nat, NEW a \in Nat, frags[i].spoken \in Nat, ~WordByWord(frags[i])
  PROVE  LET T == Whole(frags[i], i) IN
         /\ T \in Seq(Segments)
         /\ Block(T, i, a, 0, 0)
         /\ frags[i].spoken > 0 => FirstText(T)
<1> DEFINE T == Whole(frags[i], i)
<1>0. \A x \in a + 1..a + 0 + 0 : FALSE
  OBVIOUS
<1>1. CASE frags[i].spoken > 0
  <2>1. Texts(i) = {0}
    BY <1>1 DEF Texts
  <2>2. T = <<Text(i, 0)>>
    BY <1>1 DEF Whole, When
  <2>3. T \in Seq(Segments) /\ Len(T) = 1 /\ T[1] = Text(i, 0)
    BY <2>2, TextIs
  <2>4. \A k \in 1..Len(T) : /\ k = 1 /\ IsText(T[k]) /\ ~IsIndex(T[k])
                             /\ T[k].frag = i /\ T[k].word = 0 /\ T[k].kind = "text"
    BY <2>3, TextIs
  <2> HIDE DEF T
  <2>5. 1 \in 1..Len(T) /\ \A x \in 1..1 - 1 : FALSE
    BY <2>3
  <2>6. \A k, l \in 1..Len(T) : ~(k < l)
    BY <2>3
  <2>7. Block(T, i, a, 0, 0)
    BY <1>0, <2>1, <2>3, <2>4, <2>5, <2>6 DEF Block, NoSets
  <2>8. FirstText(T)
    BY <2>4, <2>5 DEF FirstText
  <2> QED BY <2>3, <2>7, <2>8 DEF T
<1>2. CASE ~(frags[i].spoken > 0)
  <2>1. Texts(i) = {} /\ T = <<>>
    BY <1>2 DEF Texts, Whole, When
  <2>2. Block(<<>>, i, a, 0, 0)
    BY <1>0, <2>1 DEF Block, NoSets
  <2> QED BY <1>2, <2>1, <2>2
<1> QED BY <1>1, <1>2

LEMMA Prefixed ==
  ASSUME NEW X, NEW x \in X, NEW Y \in Seq(X)
  PROVE  LET T == <<x>> \o Y IN
         /\ Len(Y) \in Nat /\ Len(T) = Len(Y) + 1 /\ T[1] = x
         /\ \A k \in 1..Len(Y) : T[k + 1] = Y[k] /\ k + 1 \in 1..Len(T)
         /\ \A k \in 1..Len(T) : k = 1 \/ (k # 1 /\ k - 1 \in 1..Len(Y) /\ T[k] = Y[k - 1] /\ k = (k - 1) + 1)
OBVIOUS

\* The sentence marker goes before them.
LEMMA SentenceBlock ==
  ASSUME NEW i \in Nat, NEW a \in Nat, NEW m \in Nat, NEW Y \in Seq(Segments),
         Block(Y, i, a + 1, 0, m), FirstText(Y)
  PROVE  Block(<<Index(a + 1)>> \o Y, i, a, 1, m)
<1> DEFINE X == <<Index(a + 1)>>
           T == X \o Y
<1>1. X \in Seq(Segments) /\ Len(X) = 1 /\ X[1] = Index(a + 1)
  BY IndexIs
<1>2. /\ Len(Y) \in Nat /\ Len(T) = Len(Y) + 1 /\ T[1] = Index(a + 1)
      /\ \A k \in 1..Len(Y) : T[k + 1] = Y[k] /\ k + 1 \in 1..Len(T)
      /\ \A k \in 1..Len(T) : k = 1 \/ (k # 1 /\ k - 1 \in 1..Len(Y) /\ T[k] = Y[k - 1] /\ k = (k - 1) + 1)
  BY Prefixed, IndexIs
<1>3. IsIndex(T[1]) /\ ~IsText(T[1]) /\ T[1].id = a + 1 /\ T[1].kind = "index"
  BY <1>2, IndexIs
<1> HIDE DEF T, X
<1>4. /\ a + 1 + 0 = a + 1 /\ a + 1 + 0 + m = a + 1 + m
      /\ \A x \in a + 1..a + 1 + m : x = a + 1 \/ x \in a + 1 + 1..a + 1 + m
      /\ \A x \in a + 1 + 1..a + 1 + m : x \in a + 1..a + 1 + m /\ a + 1 < x /\ x > a + 1 /\ ~(x <= a + 1)
      /\ \A x \in Int : x - (a + 1) - 0 = x - a - 1
      /\ a + 1 \in a + 1..a + 1 + m /\ ~(a + 1 > a + 1)
  OBVIOUS
<1>5. \A k \in 1..Len(Y) : IsIndex(Y[k]) => Y[k].id \in a + 1 + 1..a + 1 + m
  BY <1>4 DEF Block
<1>6. \A k \in 1..Len(T) : T[k].kind # "set"
  <2>1. \A k \in 1..Len(Y) : Y[k].kind # "set"
    BY DEF Block, NoSets
  <2> HIDE DEF T
  <2> QED BY <1>2, <1>3, <2>1
<1>7. \A k \in 1..Len(T) : IsIndex(T[k]) => T[k].id \in a + 1..a + 1 + m
  BY <1>2, <1>3, <1>4, <1>5
<1>8. ASSUME NEW k \in 1..Len(T), NEW l \in 1..Len(T), k < l
      PROVE  /\ IsIndex(T[k]) /\ IsIndex(T[l]) => T[k].id < T[l].id
             /\ IsText(T[k]) /\ IsText(T[l]) => T[k].word < T[l].word
  <2>1. l # 1 /\ l - 1 \in 1..Len(Y) /\ T[l] = Y[l - 1]
    BY <1>2, <1>8
  <2>2. CASE k = 1
    BY <1>3, <1>4, <1>5, <2>1, <2>2
  <2>3. CASE k # 1
    <3>1. k - 1 \in 1..Len(Y) /\ T[k] = Y[k - 1] /\ k - 1 < l - 1
      BY <1>2, <1>8, <2>3
    <3>2. /\ \A y, z \in 1..Len(Y) : y < z /\ IsIndex(Y[y]) /\ IsIndex(Y[z]) => Y[y].id < Y[z].id
          /\ \A y, z \in 1..Len(Y) : y < z /\ IsText(Y[y]) /\ IsText(Y[z]) => Y[y].word < Y[z].word
      BY DEF Block
    <3> QED BY <2>1, <3>1, <3>2
  <2> QED BY <2>2, <2>3
<1>9. ASSUME NEW x \in a + 1..a + 1 + m
      PROVE  \E k \in 1..Len(T) : IsIndex(T[k]) /\ T[k].id = x
  <2>1. CASE x = a + 1
    <3>1. 1 \in 1..Len(T)
      BY <1>2
    <3> QED BY <1>3, <2>1, <3>1
  <2>2. CASE x \in a + 1 + 1..a + 1 + m
    <3>1. PICK k \in 1..Len(Y) : IsIndex(Y[k]) /\ Y[k].id = x
      BY <1>4, <2>2 DEF Block
    <3> QED BY <1>2, <3>1
  <2> QED BY <1>4, <2>1, <2>2
<1>10. \A k \in 1..Len(T) : IsText(T[k]) => T[k].frag = i /\ T[k].word \in Texts(i)
  <2>1. \A k \in 1..Len(Y) : IsText(Y[k]) => Y[k].frag = i /\ Y[k].word \in Texts(i)
    BY DEF Block
  <2> TAKE k \in 1..Len(T)
  <2>2. CASE k = 1
    BY <1>3, <2>2
  <2>3. CASE k # 1
    <3>1. k - 1 \in 1..Len(Y) /\ T[k] = Y[k - 1]
      BY <1>2, <2>3
    <3> QED BY <2>1, <3>1
  <2> QED BY <2>2, <2>3
<1>11. \A w \in Texts(i) : \E k \in 1..Len(T) : IsText(T[k]) /\ T[k].word = w
  <2> SUFFICES ASSUME NEW w \in Texts(i) PROVE \E k \in 1..Len(T) : IsText(T[k]) /\ T[k].word = w
    OBVIOUS
  <2>1. PICK k \in 1..Len(Y) : IsText(Y[k]) /\ Y[k].word = w
    BY DEF Block
  <2> QED BY <1>2, <2>1
<1>12. ASSUME NEW k \in 1..Len(T), IsIndex(T[k]), T[k].id > a + 1
       PROVE  k < Len(T) /\ T[k + 1] = Text(i, T[k].id - a - 1)
  <2>1. k # 1 /\ k - 1 \in 1..Len(Y) /\ T[k] = Y[k - 1] /\ (k - 1) + 1 = k
    BY <1>2, <1>3, <1>4, <1>12
  <2>2. k - 1 < Len(Y) /\ Y[(k - 1) + 1] = Text(i, T[k].id - (a + 1) - 0)
    BY <1>4, <1>12, <2>1 DEF Block
  <2>3. k \in 1..Len(Y) /\ k < Len(T)
    BY <1>2, <2>1, <2>2
  <2>4. T[k].id \in Int
    BY <1>7, <1>12
  <2> QED BY <1>2, <1>4, <2>1, <2>2, <2>3, <2>4
<1>13. ASSUME NEW k \in 1..Len(T), IsIndex(T[k]), T[k].id <= a + 1
       PROVE  \E l \in k + 1..Len(T) : IsText(T[l]) /\ \A x \in k + 1..l - 1 : ~IsText(T[x])
  <2>1. k = 1
    BY <1>2, <1>4, <1>5, <1>13
  <2>2. PICK l \in 1..Len(Y) : IsText(Y[l]) /\ \A x \in 1..l - 1 : ~IsText(Y[x])
    BY DEF FirstText
  <2>3. l + 1 \in k + 1..Len(T) /\ T[l + 1] = Y[l]
    BY <1>2, <2>1
  <2>4. \A x \in k + 1..(l + 1) - 1 : ~IsText(T[x])
    <3> SUFFICES ASSUME NEW x \in k + 1..(l + 1) - 1 PROVE ~IsText(T[x])
      OBVIOUS
    <3>1. x \in 1..Len(T) /\ x # 1 /\ x - 1 \in 1..l - 1
      BY <1>2, <2>1
    <3> QED BY <1>2, <2>2, <3>1
  <2> QED BY <2>2, <2>3, <2>4
<1>14. Len(T) \in Nat
  BY <1>2
<1> QED
  BY <1>6, <1>7, <1>8, <1>9, <1>10, <1>11, <1>12, <1>13, <1>14 DEF Block, NoSets, T, X

FragmentOK(f) ==
  /\ f.lang \in Languages \cup {None}
  /\ f.rate \in DOMAIN ScaledRate
  /\ f.volume \in DOMAIN ScaledVolume
  /\ f.pitch \in DOMAIN ShiftedPitch
  /\ f.words \in Nat /\ f.spoken \in Nat

\* The markers of one iteration of the loop, and the texts and markers.
SentenceMarker(i) == When(want.sentences /\ frags[i].spoken > 0, Marker("sentence", i, 0))
SentenceCount(i) == IF want.sentences /\ frags[i].spoken > 0 THEN 1 ELSE 0
WordCount(i) == IF WordByWord(frags[i]) THEN Marked(frags[i]) ELSE 0
MarkersOf(M, i) ==
  IF WordByWord(frags[i]) THEN (M \o SentenceMarker(i)) \o WordMarkers(i)
  ELSE M \o SentenceMarker(i)
TextOf(M, i) ==
  LET marked == M \o SentenceMarker(i) IN
  [s \in 1..Len(SentenceMarker(i)) |-> Index(Len(marked))]
    \o (IF WordByWord(frags[i]) THEN Words(i, Len(marked) + 1) ELSE Whole(frags[i], i))

LEMMA SpeechMarkers ==
  ASSUME NEW M \in Seq(MarkerRecords), NEW i \in Nat, FragmentOK(frags[i])
  PROVE  /\ MarkersOf(M, i) \in Seq(MarkerRecords)
         /\ MarkersAdded(MarkersOf(M, i), M, i, SentenceCount(i), WordCount(i))
         /\ Len(M \o SentenceMarker(i)) = Len(M) + SentenceCount(i)
         /\ Len(SentenceMarker(i)) = SentenceCount(i)
         /\ SentenceCount(i) \in Nat /\ WordCount(i) \in Nat
<1> DEFINE s == SentenceCount(i)
           m == WordCount(i)
           N == SentenceMarker(i)
           W == WordMarkers(i)
           K == M \o N
<1>1. s \in {0, 1} /\ Len(M) \in Nat /\ Marked(frags[i]) \in Nat /\ m \in Nat
  BY DEF SentenceCount, WordCount, Marked, FragmentOK
<1>2. /\ N \in Seq(MarkerRecords) /\ Len(N) = s
      /\ \A x \in 1..s : N[x] = Marker("sentence", i, 0)
  <2>1. Marker("sentence", i, 0) \in MarkerRecords
    BY DEF Marker, MarkerRecords
  <2>2. CASE want.sentences /\ frags[i].spoken > 0
    <3>1. N = <<Marker("sentence", i, 0)>> /\ s = 1
      BY <2>2 DEF SentenceMarker, SentenceCount, When
    <3> QED BY <2>1, <3>1
  <2>3. CASE ~(want.sentences /\ frags[i].spoken > 0)
    <3>1. N = <<>> /\ s = 0
      BY <2>3 DEF SentenceMarker, SentenceCount, When
    <3> QED BY <3>1
  <2> QED BY <2>2, <2>3
<1>3. /\ W \in Seq(MarkerRecords) /\ Len(W) = Marked(frags[i])
      /\ \A w \in 1..Marked(frags[i]) : W[w] = Marker("word", i, w)
  <2>1. \A w \in 1..Marked(frags[i]) : Marker("word", i, w) \in MarkerRecords
    BY <1>1 DEF Marker, MarkerRecords
  <2> QED BY <1>1, <2>1 DEF WordMarkers
<1> HIDE DEF s, m, N, W
<1>4. /\ K \in Seq(MarkerRecords) /\ Len(K) = Len(M) + s
      /\ \A x \in 1..Len(M) : K[x] = M[x] /\ x \in 1..Len(K)
      /\ \A x \in 1..s : K[Len(M) + x] = Marker("sentence", i, 0) /\ Len(M) + x \in 1..Len(K)
  BY <1>1, <1>2
<1> HIDE DEF K
<1>5. CASE WordByWord(frags[i])
  <2> DEFINE L == K \o W
  <2>1. m = Len(W)
    BY <1>3, <1>5 DEF WordCount, m
  <2>2. /\ L \in Seq(MarkerRecords) /\ Len(L) = Len(K) + Len(W)
        /\ \A x \in 1..Len(K) : L[x] = K[x] /\ x \in 1..Len(L)
        /\ \A w \in 1..Len(W) : L[Len(K) + w] = W[w]
    BY <1>1, <1>3, <1>4
  <2> HIDE DEF L
  <2>3. Len(L) = Len(M) + s + m
    BY <1>4, <2>1, <2>2
  <2>4. \A x \in 1..Len(M) : L[x] = M[x] /\ x \in 1..Len(L)
    BY <1>4, <2>2
  <2>5. \A x \in 1..s : L[Len(M) + x] = Marker("sentence", i, 0)
    BY <1>4, <2>2
  <2>6. \A w \in 1..m : L[Len(M) + s + w] = Marker("word", i, w)
    BY <1>3, <1>4, <2>1, <2>2
  <2>7. MarkersOf(M, i) = L
    BY <1>5 DEF MarkersOf, L, K, N, W
  <2> QED BY <1>1, <1>2, <1>4, <2>2, <2>3, <2>4, <2>5, <2>6, <2>7 DEF MarkersAdded, s, m, N, K
<1>6. CASE ~WordByWord(frags[i])
  <2>1. m = 0
    BY <1>6 DEF WordCount, m
  <2>2. MarkersOf(M, i) = K
    BY <1>6 DEF MarkersOf, K, N
  <2>3. Len(K) = Len(M) + s + m /\ \A w \in 1..m : FALSE
    BY <1>1, <1>4, <2>1
  <2>4. MarkersAdded(K, M, i, s, m)
    BY <1>1, <1>4, <2>3 DEF MarkersAdded
  <2> QED BY <1>1, <1>2, <1>4, <2>2, <2>4 DEF s, m, N, K
<1> QED BY <1>5, <1>6

LEMMA SpeechBlock ==
  ASSUME NEW M \in Seq(MarkerRecords), NEW i \in Nat, FragmentOK(frags[i])
  PROVE  /\ TextOf(M, i) \in Seq(Segments)
         /\ Block(TextOf(M, i), i, Len(M), SentenceCount(i), WordCount(i))
<1> DEFINE s == SentenceCount(i)
           m == WordCount(i)
           a == Len(M)
           X == [q \in 1..Len(SentenceMarker(i)) |-> Index(a + s)]
           Y == IF WordByWord(frags[i]) THEN Words(i, a + s + 1) ELSE Whole(frags[i], i)
<1>1. a \in Nat /\ s \in {0, 1} /\ m \in Nat /\ a + s \in Nat
  BY SpeechMarkers DEF SentenceCount
<1>2. TextOf(M, i) = X \o Y
  BY SpeechMarkers DEF TextOf
<1>3. X = [q \in 1..s |-> Index(a + s)]
  BY SpeechMarkers
<1>4. Y \in Seq(Segments) /\ Block(Y, i, a + s, 0, m) /\ (frags[i].spoken > 0 => FirstText(Y))
  <2>1. frags[i].spoken \in Nat /\ frags[i].words \in Nat
    BY DEF FragmentOK
  <2>2. CASE WordByWord(frags[i])
    <3>1. Y = Words(i, a + s + 1) /\ m = Marked(frags[i])
      BY <2>2 DEF WordCount
    <3> HIDE DEF a, s, m, Y
    <3> QED BY <1>1, <2>1, <2>2, <3>1, WordsBlock
  <2>3. CASE ~WordByWord(frags[i])
    <3>1. Y = Whole(frags[i], i) /\ m = 0
      BY <2>3 DEF WordCount
    <3> HIDE DEF a, s, m, Y
    <3> QED BY <1>1, <2>1, <2>3, <3>1, WholeBlock
  <2> QED BY <2>2, <2>3
<1>5. CASE s = 0
  <2> HIDE DEF a, s, m, Y
  <2>1. X = <<>>
    BY <1>3, <1>5
  <2>2. X \o Y = Y /\ a + s = a
    BY <1>1, <1>4, <1>5, <2>1
  <2> QED BY <1>2, <1>4, <1>5, <2>2 DEF s, a, m
<1>6. CASE s = 1
  <2>1. frags[i].spoken > 0
    BY <1>6 DEF SentenceCount
  <2> HIDE DEF a, s, m, Y
  <2>2. X = <<Index(a + 1)>> /\ Index(a + 1) \in Segments
    BY <1>1, <1>3, <1>6, IndexIs
  <2>3. X \o Y \in Seq(Segments)
    BY <1>4, <2>2
  <2>4. Block(<<Index(a + 1)>> \o Y, i, a, 1, m)
    BY <1>1, <1>4, <1>6, <2>1, SentenceBlock
  <2> HIDE DEF X
  <2> QED BY <1>2, <1>6, <2>2, <2>3, <2>4 DEF s, a, m
<1> QED BY <1>1, <1>5, <1>6

-----------------------------------------------------------------------------
(* What is in effect at a text                                             *)

\* After p segments the engine speaks as fragment f asks.
Asked(S, f, p) ==
  /\ InEffect(S, "rate", ScaledRate[f.rate], p)
  /\ InEffect(S, "volume", ScaledVolume[f.volume], p)
  /\ InEffect(S, "spell", f.action = "spell", p)
  /\ \E l \in Installed : InEffect(S, "lang", l, p) /\ (f.lang \in Installed => l = f.lang)
  /\ f.pitch # 0 => InEffect(S, "pitch", ShiftedPitch[f.pitch], p)
  /\ f.pitch = 0 /\ Configured => InEffect(S, "pitch", SettingsPitch, p)

Effects(S) == \A p \in 1..Len(S) : IsText(S[p]) => Asked(S, frags[S[p].frag], p)

\* After all of S the engine speaks as c says and spells if sp says so.
Remembered(S, c, sp) ==
  /\ c.lang \in Installed
  /\ InEffect(S, "lang", c.lang, Len(S))
  /\ InEffect(S, "rate", c.rate, Len(S))
  /\ InEffect(S, "volume", c.volume, Len(S))
  /\ c.pitch # None => InEffect(S, "pitch", c.pitch, Len(S))
  /\ c.pitch = None /\ Configured => InEffect(S, "pitch", SettingsPitch, Len(S))
  /\ InEffect(S, "spell", sp, Len(S))

\* cur after a spoken fragment.
CurAfter(f) ==
  [lang |-> NewLanguage(f), rate |-> ScaledRate[f.rate],
   volume |-> ScaledVolume[f.volume],
   pitch |-> IF f.pitch # 0 THEN ShiftedPitch[f.pitch] ELSE None]

LEMMA AskedLocal ==
  ASSUME NEW S, NEW T, NEW f, NEW p \in Nat, \A j \in 1..p : S[j] = T[j], Asked(S, f, p)
  PROVE  Asked(T, f, p)
<1>1. \A q, v : InEffect(S, q, v, p) => InEffect(T, q, v, p)
  BY EffectLocal
<1> QED BY <1>1 DEF Asked

LEMMA EffectsKept ==
  ASSUME NEW S \in Seq(Segments), NEW T \in Seq(Segments), Effects(S),
         \A k \in 1..Len(T) : ~IsText(T[k])
  PROVE  Effects(S \o T)
<1> DEFINE U == S \o T
<1> SUFFICES ASSUME NEW p \in 1..Len(U), IsText(U[p]) PROVE Asked(U, frags[U[p].frag], p)
  BY DEF Effects
<1>1. /\ Len(S) \in Nat /\ Len(T) \in Nat
      /\ \A j \in 1..Len(S) : S[j] = U[j]
      /\ \A j \in 1..Len(U) : j \notin 1..Len(S) => ~IsText(U[j])
  BY Joined
<1> HIDE DEF U
<1>2. p \in 1..Len(S) /\ p \in Nat /\ Asked(S, frags[U[p].frag], p) /\ \A j \in 1..p : S[j] = U[j]
  BY <1>1 DEF Effects
<1> QED BY <1>2, AskedLocal

\* What the fragment is to be spoken with is what the loop remembers.
LEMMA RememberedIsAsked ==
  ASSUME NEW S, NEW f, FragmentOK(f), Remembered(S, CurAfter(f), f.action = "spell")
  PROVE  Asked(S, f, Len(S))
<1>1. f.pitch # 0 => ShiftedPitch[f.pitch] # None
  BY SpeakAssumption DEF FragmentOK
<1>2. f.lang \in Installed => NewLanguage(f) = f.lang
  BY SpeakAssumption DEF NewLanguage
<1> QED BY <1>1, <1>2 DEF Asked, Remembered, CurAfter

LEMMA EffectsBlock ==
  ASSUME NEW S \in Seq(Segments), NEW T \in Seq(Segments), Effects(S), NoSets(T),
         NEW f, FragmentOK(f), Remembered(S, CurAfter(f), f.action = "spell"),
         \A k \in 1..Len(T) : IsText(T[k]) => frags[T[k].frag] = f
  PROVE  /\ Effects(S \o T)
         /\ Remembered(S \o T, CurAfter(f), f.action = "spell")
<1> DEFINE U == S \o T
<1>1. /\ Len(S) \in Nat /\ Len(T) \in Nat /\ Len(U) = Len(S) + Len(T)
      /\ \A j \in 1..Len(S) : S[j] = U[j]
      /\ \A j \in 1..Len(U) : j \notin 1..Len(S) => j - Len(S) \in 1..Len(T) /\ U[j] = T[j - Len(S)]
  BY Joined
<1>2. \A p \in Len(S)..Len(U) : \A q, v : InEffect(S, q, v, Len(S)) => InEffect(U, q, v, p)
  BY EffectThrough
<1>3. Asked(S, f, Len(S))
  BY RememberedIsAsked
<1> HIDE DEF U
<1>4. Effects(U)
  <2> SUFFICES ASSUME NEW p \in 1..Len(U), IsText(U[p]) PROVE Asked(U, frags[U[p].frag], p)
    BY DEF Effects
  <2>1. CASE p \in 1..Len(S)
    <3>1. p \in Nat /\ Asked(S, frags[U[p].frag], p) /\ \A j \in 1..p : S[j] = U[j]
      BY <1>1, <2>1 DEF Effects
    <3> QED BY <3>1, AskedLocal
  <2>2. CASE p \notin 1..Len(S)
    <3>1. frags[U[p].frag] = f /\ p \in Len(S)..Len(U)
      BY <1>1, <2>2
    <3>2. \A q, v : InEffect(S, q, v, Len(S)) => InEffect(U, q, v, p)
      BY <1>2, <3>1
    <3> QED BY <1>3, <3>1, <3>2 DEF Asked
  <2> QED BY <2>1, <2>2
<1>5. Remembered(U, CurAfter(f), f.action = "spell")
  <2>1. Len(U) \in Len(S)..Len(U)
    BY <1>1
  <2>2. \A q, v : InEffect(S, q, v, Len(S)) => InEffect(U, q, v, Len(U))
    BY <1>2, <2>1
  <2> QED BY <2>2 DEF Remembered
<1> QED BY <1>4, <1>5 DEF U

LEMMA SetsJoin ==
  ASSUME NEW A \in Seq(Segments), NEW B \in Seq(Segments), OnlySets(A), OnlySets(B)
  PROVE  A \o B \in Seq(Segments) /\ OnlySets(A \o B)
<1>1. /\ A \o B \in Seq(Segments) /\ Len(A) \in Nat
      /\ \A p \in 1..Len(A) : (A \o B)[p] = A[p]
      /\ \A p \in 1..Len(A \o B) : p \notin 1..Len(A) => p - Len(A) \in 1..Len(B) /\ (A \o B)[p] = B[p - Len(A)]
  BY Joined
<1> QED BY <1>1 DEF OnlySets

\* The pitch annotation.
LEMMA PitchAnnotated ==
  ASSUME NEW S \in Seq(Segments), NEW f, FragmentOK(f),
         cur.pitch # None => InEffect(S, "pitch", cur.pitch, Len(S)),
         cur.pitch = None /\ Configured => InEffect(S, "pitch", SettingsPitch, Len(S))
  PROVE  LET T == PitchAnnotation(f)
             U == S \o T
             new == CurAfter(f).pitch
         IN
         /\ T \in Seq(Segments) /\ OnlySets(T) /\ U \in Seq(Segments)
         /\ new # None => InEffect(U, "pitch", new, Len(U))
         /\ new = None /\ Configured => InEffect(U, "pitch", SettingsPitch, Len(U))
         /\ \A r, v : r # "pitch" => (InEffect(S, r, v, Len(S)) => InEffect(U, r, v, Len(U)))
<1>1. "pitch" \in Params /\ ValuesOf("pitch") = Values /\ SettingsPitch \in Values
  BY DEF Params, ValuesOf, Values
<1>2. CASE f.pitch # 0
  <2> DEFINE c == ShiftedPitch[f.pitch] # cur.pitch
             w == ShiftedPitch[f.pitch]
  <2>1. w \in Values /\ w # None /\ CurAfter(f).pitch = w
    BY <1>2, SpeakAssumption DEF FragmentOK, Values, CurAfter
  <2>2. PitchAnnotation(f) = When(c, Annotate("pitch", w))
    BY <1>2 DEF PitchAnnotation
  <2>3. ~c => InEffect(S, "pitch", w, Len(S))
    BY <2>1
  <2>4. c \in BOOLEAN
    OBVIOUS
  <2> HIDE DEF c, w
  <2> QED BY <1>1, <2>1, <2>2, <2>3, <2>4, WhenAnnotated
<1>3. CASE f.pitch = 0
  <2> DEFINE c == cur.pitch # None
  <2>1. CurAfter(f).pitch = None
    BY <1>3 DEF CurAfter
  <2>2. PitchAnnotation(f) = When(c, Annotate("pitch", SettingsPitch))
    BY <1>3 DEF PitchAnnotation, BasePitch
  <2>3. ~c /\ Configured => InEffect(S, "pitch", SettingsPitch, Len(S))
    OBVIOUS
  <2>4. c \in BOOLEAN
    OBVIOUS
  <2> HIDE DEF c
  <2> QED BY <1>1, <2>1, <2>2, <2>3, <2>4, WhenAnnotated
<1> QED BY <1>2, <1>3

LEMMA SegmentsAssociate ==
  \A s, t, u \in Seq(Segments) : (s \o t) \o u = s \o (t \o u)
BY ConcatAssociative

\* The annotations of a fragment change what differs, and no more.
LEMMA ProsodyAnnotated ==
  ASSUME NEW S \in Seq(Segments), NEW f, FragmentOK(f), Remembered(S, cur, FALSE)
  PROVE  LET T == Prosody(f) IN
         /\ T \in Seq(Segments) /\ OnlySets(T)
         /\ Remembered(S \o T, CurAfter(f), f.action = "spell")
<1> DEFINE A == When(NewLanguage(f) # cur.lang, Annotate("lang", NewLanguage(f)))
           B == When(ScaledRate[f.rate] # cur.rate, Annotate("rate", ScaledRate[f.rate]))
           C == When(ScaledVolume[f.volume] # cur.volume, Annotate("volume", ScaledVolume[f.volume]))
           D == PitchAnnotation(f)
           E == When(f.action = "spell", Annotate("spell", TRUE))
           S1 == S \o A
           S2 == S1 \o B
           S3 == S2 \o C
           S4 == S3 \o D
           S5 == S4 \o E
           new == CurAfter(f)
<1>1. /\ {"lang", "rate", "volume", "pitch", "spell"} \subseteq Params
      /\ ValuesOf("lang") = Languages /\ ValuesOf("spell") = BOOLEAN
      /\ ValuesOf("rate") = Values /\ ValuesOf("volume") = Values
  BY DEF Params, ValuesOf
<1>2. /\ NewLanguage(f) \in Installed /\ NewLanguage(f) \in Languages
      /\ ScaledRate[f.rate] \in Values /\ ScaledVolume[f.volume] \in Values
  BY SpeakAssumption DEF Remembered, NewLanguage, FragmentOK, Values
<1>3. /\ new.lang = NewLanguage(f) /\ new.rate = ScaledRate[f.rate]
      /\ new.volume = ScaledVolume[f.volume]
  BY DEF CurAfter
<1>4. /\ A \in Seq(Segments) /\ OnlySets(A) /\ S1 \in Seq(Segments)
      /\ InEffect(S1, "lang", new.lang, Len(S1))
      /\ \A r, v : r # "lang" => (InEffect(S, r, v, Len(S)) => InEffect(S1, r, v, Len(S1)))
  <2> DEFINE c == NewLanguage(f) # cur.lang
  <2>1. ~c => InEffect(S, "lang", NewLanguage(f), Len(S))
    BY DEF Remembered
  <2>2. c \in BOOLEAN /\ A = When(c, Annotate("lang", NewLanguage(f)))
    OBVIOUS
  <2> HIDE DEF c, A, new
  <2> QED BY <1>1, <1>2, <1>3, <2>1, <2>2, WhenAnnotated
<1>5. /\ B \in Seq(Segments) /\ OnlySets(B) /\ S2 \in Seq(Segments)
      /\ InEffect(S2, "rate", new.rate, Len(S2))
      /\ \A r, v : r # "rate" => (InEffect(S1, r, v, Len(S1)) => InEffect(S2, r, v, Len(S2)))
  <2> DEFINE c == ScaledRate[f.rate] # cur.rate
  <2>1. ~c => InEffect(S1, "rate", ScaledRate[f.rate], Len(S1))
    BY <1>4 DEF Remembered
  <2>2. c \in BOOLEAN /\ B = When(c, Annotate("rate", ScaledRate[f.rate]))
    OBVIOUS
  <2> HIDE DEF c, A, S1, B, new
  <2> QED BY <1>1, <1>2, <1>3, <1>4, <2>1, <2>2, WhenAnnotated
<1>6. /\ C \in Seq(Segments) /\ OnlySets(C) /\ S3 \in Seq(Segments)
      /\ InEffect(S3, "volume", new.volume, Len(S3))
      /\ \A r, v : r # "volume" => (InEffect(S2, r, v, Len(S2)) => InEffect(S3, r, v, Len(S3)))
  <2> DEFINE c == ScaledVolume[f.volume] # cur.volume
  <2>1. ~c => InEffect(S2, "volume", ScaledVolume[f.volume], Len(S2))
    BY <1>4, <1>5 DEF Remembered
  <2>2. c \in BOOLEAN /\ C = When(c, Annotate("volume", ScaledVolume[f.volume]))
    OBVIOUS
  <2> HIDE DEF c, S2, C, new
  <2> QED BY <1>1, <1>2, <1>3, <1>5, <2>1, <2>2, WhenAnnotated
<1>7. /\ D \in Seq(Segments) /\ OnlySets(D) /\ S4 \in Seq(Segments)
      /\ new.pitch # None => InEffect(S4, "pitch", new.pitch, Len(S4))
      /\ new.pitch = None /\ Configured => InEffect(S4, "pitch", SettingsPitch, Len(S4))
      /\ \A r, v : r # "pitch" => (InEffect(S3, r, v, Len(S3)) => InEffect(S4, r, v, Len(S4)))
  <2>1. /\ cur.pitch # None => InEffect(S3, "pitch", cur.pitch, Len(S3))
        /\ cur.pitch = None /\ Configured => InEffect(S3, "pitch", SettingsPitch, Len(S3))
    <3> HIDE DEF S1, S2, S3
    <3> QED BY <1>4, <1>5, <1>6 DEF Remembered
  <2> HIDE DEF S3
  <2> QED BY <1>6, <2>1, PitchAnnotated
<1>8. /\ E \in Seq(Segments) /\ OnlySets(E) /\ S5 \in Seq(Segments)
      /\ InEffect(S5, "spell", f.action = "spell", Len(S5))
      /\ \A r, v : r # "spell" => (InEffect(S4, r, v, Len(S4)) => InEffect(S5, r, v, Len(S5)))
  <2> DEFINE c == f.action = "spell"
  <2>1. ~c => InEffect(S4, "spell", FALSE, Len(S4))
    <3> HIDE DEF S1, S2, S3, S4
    <3> QED BY <1>4, <1>5, <1>6, <1>7 DEF Remembered
  <2>2. c \in BOOLEAN /\ E = When(c, Annotate("spell", TRUE)) /\ TRUE \in BOOLEAN
    OBVIOUS
  <2> HIDE DEF c, S4, E
  <2>3. /\ E \in Seq(Segments) /\ OnlySets(E) /\ S5 \in Seq(Segments)
        /\ c => InEffect(S5, "spell", TRUE, Len(S5))
        /\ \A r, v : r # "spell" \/ ~c => (InEffect(S4, r, v, Len(S4)) => InEffect(S5, r, v, Len(S5)))
    BY <1>1, <1>7, <2>2, WhenAnnotated
  <2>4. CASE c
    <3>1. c = TRUE
      BY <2>2, <2>4
    <3> QED BY <2>3, <2>4, <3>1 DEF c
  <2>5. CASE ~c
    <3>1. c = FALSE
      BY <2>2, <2>5
    <3> QED BY <2>1, <2>3, <2>5, <3>1 DEF c
  <2> QED BY <2>4, <2>5
<1> HIDE DEF A, B, C, D, E, new
<1>9. Prosody(f) \in Seq(Segments) /\ OnlySets(Prosody(f)) /\ S \o Prosody(f) = S5
  <2>1. Prosody(f) = (((A \o B) \o C) \o D) \o E
    BY DEF Prosody, A, B, C, D, E
  <2>2. /\ A \o B \in Seq(Segments) /\ OnlySets(A \o B)
        /\ (A \o B) \o C \in Seq(Segments) /\ OnlySets((A \o B) \o C)
        /\ ((A \o B) \o C) \o D \in Seq(Segments) /\ OnlySets(((A \o B) \o C) \o D)
        /\ (((A \o B) \o C) \o D) \o E \in Seq(Segments) /\ OnlySets((((A \o B) \o C) \o D) \o E)
        /\ C \in Seq(Segments) /\ D \in Seq(Segments) /\ E \in Seq(Segments)
    BY <1>4, <1>5, <1>6, <1>7, <1>8, SetsJoin
  <2>3. S \o (A \o B) = S2
    BY <1>4, <1>5, ConcatAssociative
  <2>4. S \o ((A \o B) \o C) = S3
    <3> DEFINE P == A \o B
    <3>1. P \in Seq(Segments) /\ C \in Seq(Segments)
      BY <2>2
    <3>2. S \o P = S2
      BY <2>3
    <3> HIDE DEF P, S2
    <3>3. (S \o P) \o C = S \o (P \o C)
      BY <3>1, SegmentsAssociate
    <3>4. S \o (P \o C) = S3
      BY <3>2, <3>3
    <3> QED BY <3>4 DEF P
  <2>5. S \o (((A \o B) \o C) \o D) = S4
    <3> DEFINE P == (A \o B) \o C
    <3>1. P \in Seq(Segments) /\ D \in Seq(Segments)
      BY <2>2
    <3>2. S \o P = S3
      BY <2>4
    <3> HIDE DEF P, S3
    <3>3. (S \o P) \o D = S \o (P \o D)
      BY <3>1, SegmentsAssociate
    <3>4. S \o (P \o D) = S4
      BY <3>2, <3>3
    <3> QED BY <3>4 DEF P
  <2>6. S \o ((((A \o B) \o C) \o D) \o E) = S5
    <3> DEFINE P == ((A \o B) \o C) \o D
    <3>1. P \in Seq(Segments) /\ E \in Seq(Segments)
      BY <2>2
    <3>2. S \o P = S4
      BY <2>5
    <3> HIDE DEF P, S4
    <3>3. (S \o P) \o E = S \o (P \o E)
      BY <3>1, SegmentsAssociate
    <3>4. S \o (P \o E) = S5
      BY <3>2, <3>3
    <3> QED BY <3>4 DEF P
  <2> QED BY <2>1, <2>2, <2>6
<1> HIDE DEF S1, S2, S3, S4, S5
<1>10. Remembered(S5, new, f.action = "spell")
  <2>1. new.lang \in Installed
    BY <1>2, <1>3
  <2> QED BY <1>4, <1>5, <1>6, <1>7, <1>8, <2>1 DEF Remembered
<1> QED BY <1>9, <1>10 DEF new

-----------------------------------------------------------------------------
(* The invariant                                                           *)

AllValues == Languages \cup BOOLEAN \cup Values
Sounds == [frag : Nat, word : Nat, voice : [Params -> AllValues]]

Typed ==
  /\ phase \in {"idle", "build", "stream"}
  /\ result \in Results \cup {None}
  /\ frags \in Seq(Fragments)
  /\ at \in 1..Len(frags) + 1
  /\ segments \in Seq(Segments) /\ markers \in Seq(MarkerRecords)
  /\ pos \in 0..Len(segments)
  /\ voice \in [Params -> AllValues] /\ \A q \in Params : voice[q] \in ValuesOf(q)
  /\ said \in Seq(Sounds)
  /\ events \in Seq([id : Nat, offset : Nat])
  /\ skips \in {0, 1}
  /\ status \in {"none", "ok", "broken"}

\* A behaviour is one call, and a call builds before it streams.
OneCall ==
  /\ phase # "stream" /\ result = None =>
       pos = 0 /\ said = <<>> /\ events = <<>> /\ voice = RequestVoice
  /\ phase = "idle" /\ result = None => at = 1 /\ segments = <<>> /\ markers = <<>>
  /\ phase = "stream" => at = Len(frags) + 1
  /\ status = "ok" => result = "ok" /\ pos = Len(segments) /\ at = Len(frags) + 1
  /\ result # None => phase = "idle"
  /\ result = None => skips = 0 /\ status = "none"

Built ==
  /\ Layout(segments, markers, at - 1)
  /\ Effects(segments)
  /\ Remembered(segments, cur, FALSE)

\* The sound number k is that of the text at place p.
SoundOf(k, p) ==
  /\ IsText(segments[p])
  /\ segments[p].frag = said[k].frag /\ segments[p].word = said[k].word

\* The engine obeys all annotations so far, and each sound has the voice of its
\* place.
VoiceObeys == \A q \in Params : InEffect(segments, q, voice[q], pos)
SoundsObey ==
  \A k \in 1..Len(said) : \E p \in 1..pos :
    SoundOf(k, p) /\ \A q \in Params : InEffect(segments, q, said[k].voice[q], p)

\* Every text so far is a sound, in their order.
SoundsAll == \A p \in 1..pos : IsText(segments[p]) => \E k \in 1..Len(said) : SoundOf(k, p)
SoundsOrder ==
  \A k, l \in 1..Len(said) : \A p, r \in 1..pos :
    k < l /\ SoundOf(k, p) /\ SoundOf(l, r) => p < r

\* The events are those of the markers so far, and the offset of each is where
\* the texts before it end.
EventsAll ==
  \A p \in 1..Len(segments) : IsIndex(segments[p]) =>
    (p <= pos <=> segments[p].id <= Len(events))
EventOffset(e) ==
  \A j \in 1..pos : IsIndex(segments[j]) /\ segments[j].id = e =>
    \A k \in 1..Len(said), p \in 1..pos :
      SoundOf(k, p) => (k <= events[e].offset <=> p < j)
EventsPlaced ==
  \A e \in 1..Len(events) :
    /\ events[e].id = e /\ e <= Len(markers)
    /\ events[e].offset \in 0..Len(said) /\ EventOffset(e)

Streamed ==
  /\ VoiceObeys /\ SoundsObey /\ SoundsAll /\ SoundsOrder
  /\ EventsAll /\ EventsPlaced

IInv == Typed /\ OneCall /\ Built /\ Streamed

-----------------------------------------------------------------------------
(* Every step keeps it                                                     *)

LEMMA RequestVoiceTyped ==
  /\ RequestVoice \in [Params -> AllValues]
  /\ \A q \in Params : RequestVoice[q] \in ValuesOf(q)
<1>1. /\ VoiceLanguage \in Languages /\ ScaledRate[0] \in Values /\ ScaledVolume[100] \in Values
      /\ (IF Configured THEN SettingsPitch ELSE PresetPitch) \in Values
  BY SpeakAssumption DEF Values
<1>2. RequestVoice \in [lang : Languages, rate : Values, volume : Values, pitch : Values, spell : BOOLEAN]
  BY <1>1 DEF RequestVoice
<1>3. DOMAIN RequestVoice = Params
  BY DEF RequestVoice, Params
<1>4. \A q \in Params : RequestVoice[q] \in ValuesOf(q) /\ RequestVoice[q] \in AllValues
  BY <1>2 DEF Params, ValuesOf, AllValues
<1>5. RequestVoice = [q \in Params |-> RequestVoice[q]]
  BY <1>3 DEF RequestVoice
<1> QED BY <1>4, <1>5

LEMMA NothingStreamed ==
  ASSUME pos = 0, said = <<>>, events = <<>>, voice = RequestVoice,
         segments \in Seq(Segments), IndexRange(segments, markers)
  PROVE  Streamed
<1>1. /\ Len(said) = 0 /\ Len(events) = 0 /\ \A k \in 1..0 : FALSE
      /\ \A p \in 1..Len(segments) : IsIndex(segments[p]) => ~(segments[p].id <= 0) /\ ~(p <= 0)
  BY DEF IndexRange
<1>2. VoiceObeys
  BY <1>1 DEF VoiceObeys, InEffect
<1>3. SoundsObey /\ SoundsAll /\ SoundsOrder
  BY <1>1 DEF SoundsObey, SoundsAll, SoundsOrder
<1>4. EventsAll /\ EventsPlaced
  BY <1>1 DEF EventsAll, EventsPlaced
<1> QED BY <1>2, <1>3, <1>4 DEF Streamed

LEMMA NothingStreamedNext ==
  ASSUME (pos = 0 /\ said = <<>> /\ events = <<>> /\ voice = RequestVoice)',
         (segments \in Seq(Segments) /\ IndexRange(segments, markers))'
  PROVE  Streamed'
<1>1. /\ Len(said') = 0 /\ Len(events') = 0 /\ \A k \in 1..0 : FALSE
      /\ \A p \in 1..Len(segments') : IsIndex(segments'[p]) => ~(segments'[p].id <= 0) /\ ~(p <= 0)
  BY DEF IndexRange, IsIndex
<1>2. VoiceObeys'
  BY <1>1 DEF VoiceObeys, InEffect, RequestVoice
<1>3. SoundsObey' /\ SoundsAll' /\ SoundsOrder'
  BY <1>1 DEF SoundsObey, SoundsAll, SoundsOrder
<1>4. EventsAll' /\ EventsPlaced'
  BY <1>1 DEF EventsAll, EventsPlaced, IsIndex
<1> QED BY <1>2, <1>3, <1>4 DEF Streamed

LEMMA IInvInit == Init => IInv
<1> SUFFICES ASSUME Init PROVE IInv
  OBVIOUS
<1>1. /\ Len(<<>>) = 0 /\ \A p \in 1..0 : FALSE /\ 1 - 1 = 0
  OBVIOUS
<1>2. Typed
  BY RequestVoiceTyped DEF Init, Typed
<1>3. OneCall
  BY SpeakAssumption DEF Init, OneCall
<1>4. Layout(segments, markers, at - 1)
  BY <1>1 DEF Init, Layout, IndexRange, IndexOrder, IndexAll, TextRange, TextOrder, TextAll,
     MarkerPlaces, Bookmarks
<1>5. Effects(segments)
  BY <1>1 DEF Init, Effects
<1>6. \A q : InEffect(segments, q, RequestVoice[q], Len(segments))
  BY <1>1 DEF Init, InEffect
<1>7. Remembered(segments, cur, FALSE)
  <2>1. /\ RequestVoice.lang = cur.lang /\ RequestVoice.rate = cur.rate
        /\ RequestVoice.volume = cur.volume /\ RequestVoice.spell = FALSE
        /\ cur.pitch = None /\ (Configured => RequestVoice.pitch = SettingsPitch)
        /\ cur.lang \in Installed
    BY SpeakAssumption DEF Init, RequestVoice
  <2> QED BY <1>6, <2>1 DEF Remembered
<1>8. Streamed
  BY <1>2, <1>4, NothingStreamed DEF Init, Layout, Typed
<1> QED BY <1>2, <1>3, <1>4, <1>5, <1>7, <1>8 DEF IInv, Built

\* The layout depends on the fragments and on the interest, and on nothing
\* else of the state.
LEMMA LayoutNext ==
  ASSUME UNCHANGED <<frags, want>>, Layout(segments', markers', at' - 1)
  PROVE  Layout(segments, markers, at - 1)'
BY DEF Layout, IndexRange, IndexOrder, IndexAll, TextRange, TextOrder, TextAll,
   MarkerPlaces, MarkerPlace, WordNext, SentenceNext, Bookmarks, Speaks, Texts,
   WordByWord, IsText, IsIndex, Text, Marker, Precedes

LEMMA EffectsNext ==
  ASSUME UNCHANGED frags, Effects(segments')
  PROVE  Effects(segments)'
<1>1. \A q, v, p : InEffect(segments', q, v, p) => InEffect(segments, q, v, p)'
  BY DEF InEffect, Sets, RequestVoice
<1>2. \A f, p : Asked(segments', f, p) => Asked(segments, f, p)'
  BY <1>1 DEF Asked
<1> QED BY <1>2 DEF Effects, IsText

LEMMA RememberedNext ==
  ASSUME Remembered(segments', cur', FALSE)
  PROVE  Remembered(segments, cur, FALSE)'
BY DEF Remembered, InEffect, RequestVoice, Sets

LEMMA BuiltStays ==
  ASSUME Built, UNCHANGED buildVars
  PROVE  Built'
<1>1. UNCHANGED <<frags, want, segments, markers, at, cur>>
  BY DEF buildVars
<1>2. Layout(segments', markers', at' - 1) /\ Effects(segments') /\ Remembered(segments', cur', FALSE)
  BY <1>1 DEF Built
<1> QED BY <1>1, <1>2, LayoutNext, EffectsNext, RememberedNext DEF Built

LEMMA StreamedStays ==
  ASSUME Streamed, UNCHANGED <<segments, markers, streamVars>>
  PROVE  Streamed'
<1>1. UNCHANGED <<segments, markers, pos, voice, said, events>>
  BY DEF streamVars
<1>2. \A k, p : SoundOf(k, p)' <=> SoundOf(k, p)
  BY <1>1 DEF SoundOf, IsText
<1>3. \A q, v, p : InEffect(segments, q, v, p)' <=> InEffect(segments, q, v, p)
  BY <1>1 DEF InEffect, Sets, RequestVoice
<1>4. VoiceObeys' /\ SoundsObey'
  BY <1>1, <1>2, <1>3 DEF Streamed, VoiceObeys, SoundsObey
<1>5. SoundsAll' /\ SoundsOrder'
  BY <1>1, <1>2 DEF Streamed, SoundsAll, SoundsOrder, IsText
<1>6. EventsAll' /\ EventsPlaced'
  BY <1>1, <1>2 DEF Streamed, EventsAll, EventsPlaced, EventOffset, IsIndex
<1> QED BY <1>4, <1>5, <1>6 DEF Streamed

LEMMA FragmentAt ==
  ASSUME Typed, NEW i \in 1..Len(frags)
  PROVE  /\ frags[i] \in Fragments /\ FragmentOK(frags[i])
         /\ frags[i].action \in Actions /\ i \in Nat
<1>1. frags[i] \in Fragments
  BY DEF Typed
<1> QED BY <1>1, SpeakAssumption DEF FragmentOK

LEMMA SpeakKeeps == IInv /\ Speak => IInv'
<1> SUFFICES ASSUME IInv, Speak PROVE IInv'
  OBVIOUS
<1>1. /\ at = 1 /\ segments = <<>> /\ markers = <<>> /\ skips = 0
      /\ pos = 0 /\ said = <<>> /\ events = <<>> /\ voice = RequestVoice /\ status = "none"
  BY DEF IInv, OneCall, Speak
<1>2. frags' \in Seq(Fragments)
  BY DEF Speak
<1>3. /\ UNCHANGED <<at, cur, segments, markers, pos, voice, said, events, skips, result, status>>
      /\ phase' = "build" /\ result = None
  BY DEF Speak, streamVars
<1>4. Typed'
  BY <1>1, <1>2, <1>3 DEF IInv, Typed
<1>5. OneCall'
  BY <1>1, <1>3, SpeakAssumption DEF OneCall, RequestVoice, Results
<1>6. Built'
  <2>1. /\ Len(<<>>) = 0 /\ \A p \in 1..0 : FALSE /\ 1 - 1 = 0
    OBVIOUS
  <2>2. Layout(segments, markers, at - 1)'
    BY <1>1, <1>3, <2>1 DEF Layout, IndexRange, IndexOrder, IndexAll, TextRange, TextOrder,
       TextAll, MarkerPlaces, Bookmarks
  <2>3. Effects(segments)'
    BY <1>1, <1>3, <2>1 DEF Effects
  <2>4. Remembered(segments, cur, FALSE)'
    BY <1>3, RememberedNext DEF IInv, Built
  <2> QED BY <2>2, <2>3, <2>4 DEF Built
<1>7. Streamed'
  BY <1>3, StreamedStays DEF IInv, streamVars
<1> QED BY <1>4, <1>5, <1>6, <1>7 DEF IInv

\* An iteration of the loop.
LEMMA BuildStep ==
  ASSUME IInv, phase = "build", at <= Len(frags), at' = at + 1,
         UNCHANGED <<phase, frags, want, streamVars, skips, result, status>>,
         segments' \in Seq(Segments), markers' \in Seq(MarkerRecords),
         Layout(segments', markers', at), Effects(segments'),
         Remembered(segments', cur', FALSE)
  PROVE  IInv'
<1>1. /\ UNCHANGED <<pos, voice, said, events>>
      /\ at \in Nat /\ at' - 1 = at /\ Len(frags) \in Nat /\ at' \in 1..Len(frags) + 1
  BY DEF streamVars, IInv, Typed
<1>2. /\ result = None /\ skips = 0 /\ status = "none"
      /\ pos = 0 /\ said = <<>> /\ events = <<>> /\ voice = RequestVoice
  BY DEF IInv, OneCall
<1>3. Typed'
  <2>1. 0 \in 0..Len(segments')
    OBVIOUS
  <2> QED BY <1>1, <1>2, <2>1 DEF IInv, Typed
<1>4. OneCall'
  BY <1>1, <1>2 DEF IInv, OneCall, RequestVoice
<1>5. Built'
  <2>1. Layout(segments, markers, at - 1)'
    BY <1>1, LayoutNext
  <2> QED BY <2>1, EffectsNext, RememberedNext DEF Built
<1>6. Streamed'
  <2>1. IndexRange(segments, markers)'
    BY <1>5 DEF Built, Layout
  <2>2. (pos = 0 /\ said = <<>> /\ events = <<>> /\ voice = RequestVoice)'
    BY <1>1, <1>2 DEF RequestVoice
  <2> QED BY <2>1, <2>2, NothingStreamedNext
<1> QED BY <1>3, <1>4, <1>5, <1>6 DEF IInv

LEMMA SilenceKeeps == IInv /\ Silence => IInv'
<1> SUFFICES ASSUME IInv, Silence PROVE IInv'
  OBVIOUS
<1>1. /\ UNCHANGED <<cur, segments, markers>> /\ at \in Nat /\ at - 1 \in Nat /\ at - 1 + 1 = at
      /\ segments \in Seq(Segments) /\ markers \in Seq(MarkerRecords)
  BY DEF Silence, IInv, Typed
<1>2. Layout(segments, markers, at)
  <2>1. frags[at - 1 + 1].action = "silence" /\ Layout(segments, markers, at - 1)
    BY <1>1 DEF Silence, IInv, Built
  <2>2. Layout(segments, markers, at - 1 + 1)
    BY <1>1, <2>1, LayoutSilence
  <2> QED BY <1>1, <2>2
<1>3. Effects(segments) /\ Remembered(segments, cur, FALSE)
  BY DEF IInv, Built
<1>4. Layout(segments', markers', at) /\ Effects(segments') /\ Remembered(segments', cur', FALSE)
  BY <1>1, <1>2, <1>3
<1> QED BY <1>1, <1>4, BuildStep DEF Silence

LEMMA BookmarkKeeps == IInv /\ Bookmark => IInv'
<1> SUFFICES ASSUME IInv, Bookmark PROVE IInv'
  OBVIOUS
<1> DEFINE T == <<Index(Len(markers) + 1)>>
<1>1. /\ at \in Nat /\ at - 1 \in Nat /\ at - 1 + 1 = at
      /\ segments \in Seq(Segments) /\ markers \in Seq(MarkerRecords)
      /\ Len(markers) \in Nat /\ Len(markers) + 1 \in Nat
  BY DEF Bookmark, IInv, Typed
<1>2. /\ Index(Len(markers) + 1) \in Segments /\ Marker("bookmark", at, 0) \in MarkerRecords
      /\ Index(Len(markers) + 1).kind = "index"
  BY <1>1 DEF Segments, IndexSegments, Index, MarkerRecords, Marker
<1>3. /\ T \in Seq(Segments) /\ NoSets(T) /\ \A k \in 1..Len(T) : ~IsText(T[k])
      /\ segments \o T = Append(segments, Index(Len(markers) + 1))
  BY <1>1, <1>2 DEF NoSets, IsText
<1>4. /\ markers' = Append(markers, Marker("bookmark", at, 0))
      /\ segments' = Append(segments, Index(Len(markers) + 1))
  <2>1. markers' = Append(markers, Marker("bookmark", at, 0)) /\ segments' = Append(segments, Index(Len(markers')))
    BY DEF Bookmark
  <2>2. Len(markers') = Len(markers) + 1
    BY <1>1, <1>2, <2>1
  <2> QED BY <2>1, <2>2
<1>5. segments' \in Seq(Segments) /\ markers' \in Seq(MarkerRecords)
  BY <1>1, <1>2, <1>4
<1>6. Layout(segments', markers', at)
  <2>1. frags[at - 1 + 1].action = "bookmark" /\ Layout(segments, markers, at - 1)
    BY <1>1 DEF Bookmark, IInv, Built
  <2>2. Layout(Append(segments, Index(Len(markers) + 1)),
               Append(markers, Marker("bookmark", at - 1 + 1, 0)), at - 1 + 1)
    BY <1>1, <2>1, LayoutBookmark
  <2> QED BY <1>1, <1>4, <2>2
<1>7. segments' = segments \o T
  BY <1>3, <1>4
<1> HIDE DEF T
<1>8. Effects(segments \o T)
  BY <1>1, <1>3, EffectsKept DEF IInv, Built
<1>9. Remembered(segments \o T, cur, FALSE)
  <2>1. Len(segments \o T) \in Len(segments)..Len(segments \o T)
    BY <1>1, <1>3, Joined
  <2>2. \A q, v : InEffect(segments, q, v, Len(segments))
                    => InEffect(segments \o T, q, v, Len(segments \o T))
    BY <1>1, <1>3, <2>1, EffectThrough
  <2> QED BY <2>2 DEF IInv, Built, Remembered
<1>10. cur' = cur
  BY DEF Bookmark
<1> QED BY <1>5, <1>6, <1>7, <1>8, <1>9, <1>10, BuildStep DEF Bookmark

\* A text or a spelling: annotations, markers and texts, the end of spelling.
LEMMA SpeechKeeps == IInv /\ Speech => IInv'
<1> SUFFICES ASSUME IInv, Speech PROVE IInv'
  OBVIOUS
<1> DEFINE f == frags[at]
           A == Prosody(f)
           T == TextOf(markers, at)
           E == When(f.action = "spell", Annotate("spell", FALSE))
           S1 == segments \o A
           S2 == S1 \o T
           S3 == S2 \o E
           K == MarkersOf(markers, at)
           new == CurAfter(f)
<1>1. /\ at \in Nat /\ at - 1 \in Nat /\ at - 1 + 1 = at /\ at \in 1..Len(frags)
      /\ segments \in Seq(Segments) /\ markers \in Seq(MarkerRecords)
  BY DEF Speech, IInv, Typed
<1>2. FragmentOK(f) /\ Speaks(at)
  BY <1>1, FragmentAt DEF IInv, Speaks, Speech
<1>3. Layout(segments, markers, at - 1) /\ Effects(segments) /\ Remembered(segments, cur, FALSE)
  BY DEF IInv, Built
<1>4. /\ A \in Seq(Segments) /\ OnlySets(A) /\ S1 \in Seq(Segments)
      /\ Remembered(S1, new, f.action = "spell")
  <2>1. A \in Seq(Segments) /\ OnlySets(A) /\ Remembered(S1, new, f.action = "spell")
    BY <1>1, <1>2, <1>3, ProsodyAnnotated
  <2> HIDE DEF A, new
  <2> QED BY <1>1, <2>1, Joined
<1>5. /\ T \in Seq(Segments)
      /\ Block(T, at, Len(markers), SentenceCount(at), WordCount(at))
      /\ K \in Seq(MarkerRecords)
      /\ MarkersAdded(K, markers, at, SentenceCount(at), WordCount(at))
      /\ SentenceCount(at) \in Nat /\ WordCount(at) \in Nat
      /\ S2 \in Seq(Segments)
  <2>1. T \in Seq(Segments) /\ Block(T, at, Len(markers), SentenceCount(at), WordCount(at))
    BY <1>1, <1>2, SpeechBlock
  <2>2. /\ K \in Seq(MarkerRecords)
        /\ MarkersAdded(K, markers, at, SentenceCount(at), WordCount(at))
        /\ SentenceCount(at) \in Nat /\ WordCount(at) \in Nat
    BY <1>1, <1>2, SpeechMarkers
  <2> HIDE DEF T, K, S1
  <2> QED BY <1>4, <2>1, <2>2, Joined
<1>6. /\ E \in Seq(Segments) /\ OnlySets(E) /\ S3 \in Seq(Segments)
      /\ f.action = "spell" => InEffect(S3, "spell", FALSE, Len(S3))
      /\ \A r, v : r # "spell" \/ f.action # "spell" =>
           (InEffect(S2, r, v, Len(S2)) => InEffect(S3, r, v, Len(S3)))
  <2> DEFINE c == f.action = "spell"
  <2>1. c \in BOOLEAN /\ E = When(c, Annotate("spell", FALSE))
    OBVIOUS
  <2>2. "spell" \in Params /\ FALSE \in ValuesOf("spell")
    BY DEF Params, ValuesOf
  <2> HIDE DEF c, S2, E
  <2>3. /\ E \in Seq(Segments) /\ OnlySets(E) /\ S3 \in Seq(Segments)
        /\ c => InEffect(S3, "spell", FALSE, Len(S3))
        /\ \A r, v : r # "spell" \/ ~c => (InEffect(S2, r, v, Len(S2)) => InEffect(S3, r, v, Len(S3)))
    BY <1>5, <2>1, <2>2, WhenAnnotated
  <2> QED BY <2>3 DEF c
<1>7. segments' = S3 /\ markers' = K /\ cur' = new
  <2> DEFINE sentence == SentenceMarker(at)
             marked == markers \o sentence
             X == [s \in 1..Len(sentence) |-> Index(Len(marked))]
             Y == IF WordByWord(f) THEN Words(at, Len(marked) + 1) ELSE Whole(f, at)
  <2>1. /\ markers' = IF WordByWord(f) THEN marked \o WordMarkers(at) ELSE marked
        /\ segments' = segments \o A \o X \o Y \o E
    BY DEF Speech, SentenceMarker
  <2>2. cur' = new
    BY DEF Speech, CurAfter
  <2>3. markers' = K /\ T = X \o Y
    BY <2>1 DEF MarkersOf, TextOf
  <2>4. X \in Seq(Segments) /\ Y \in Seq(Segments)
    <3>1. Len(marked) = Len(markers) + SentenceCount(at) /\ Len(sentence) = SentenceCount(at)
      BY <1>1, <1>2, SpeechMarkers
    <3>2. Len(marked) \in Nat /\ Len(sentence) \in Nat /\ Len(markers) \in Nat
      BY <1>1, <1>5, <3>1
    <3>3. X \in Seq(Segments)
      <4>1. Index(Len(marked)) \in Segments
        BY <3>2, IndexIs
      <4> HIDE DEF marked, sentence
      <4> QED BY <3>2, <4>1
    <3>4. Y \in Seq(Segments)
      <4>1. f.spoken \in Nat /\ f.words \in Nat
        BY <1>2 DEF FragmentOK
      <4>2. WordByWord(f) => Words(at, Len(marked) + 1) \in Seq(Segments)
        BY <1>1, <3>2, <4>1, WordsBlock
      <4>3. ~WordByWord(f) => Whole(f, at) \in Seq(Segments)
        <5>1. 0 \in Nat
          OBVIOUS
        <5> QED BY <1>1, <4>1, <5>1, WholeBlock
      <4> QED BY <4>2, <4>3
    <3> QED BY <3>3, <3>4
  <2> HIDE DEF X, Y, A, E, T
  <2>5. (segments \o A \o X) \o Y = (segments \o A) \o (X \o Y)
    BY <1>4, <2>4, SegmentsAssociate
  <2> QED BY <2>1, <2>2, <2>3, <2>5
<1> HIDE DEF A, T, E, new, K
<1>8. Layout(S3, K, at)
  <2>1. Layout(S1, markers, at - 1)
    BY <1>1, <1>3, <1>4, LayoutAnnotated
  <2> HIDE DEF S1
  <2>2. Layout(S2, K, at - 1 + 1)
    <3>1. /\ Speaks(at - 1 + 1)
          /\ Block(T, at - 1 + 1, Len(markers), SentenceCount(at), WordCount(at))
          /\ MarkersAdded(K, markers, at - 1 + 1, SentenceCount(at), WordCount(at))
      BY <1>1, <1>2, <1>5
    <3> QED BY <1>1, <1>4, <1>5, <2>1, <3>1, LayoutBlock
  <2>3. Layout(S2, K, at)
    BY <1>1, <2>2
  <2> HIDE DEF S2
  <2> QED BY <1>1, <1>5, <1>6, <2>3, LayoutAnnotated
<1>9. Effects(S2) /\ Remembered(S2, new, f.action = "spell")
  <2>1. Effects(S1)
    <3>1. \A k \in 1..Len(A) : ~IsText(A[k])
      BY <1>4 DEF OnlySets, IsText
    <3> QED BY <1>1, <1>3, <1>4, <3>1, EffectsKept
  <2> HIDE DEF S1
  <2>2. NoSets(T) /\ \A k \in 1..Len(T) : IsText(T[k]) => frags[T[k].frag] = f
    BY <1>5 DEF Block
  <2> QED BY <1>2, <1>4, <1>5, <2>1, <2>2, EffectsBlock DEF new
<1> HIDE DEF S2
<1>10. Effects(S3)
  <2>1. \A k \in 1..Len(E) : ~IsText(E[k])
    BY <1>6 DEF OnlySets, IsText
  <2> QED BY <1>5, <1>6, <1>9, <2>1, EffectsKept
<1> HIDE DEF S1, S3, f
<1>11. Remembered(S3, new, FALSE)
  <2>1. CASE f.action = "spell"
    BY <1>6, <1>9, <2>1 DEF Remembered
  <2>2. CASE f.action # "spell"
    <3>1. (f.action = "spell") = FALSE
      BY <2>2
    <3>2. Remembered(S2, new, FALSE)
      BY <1>9, <3>1
    <3>3. \A r, v : InEffect(S2, r, v, Len(S2)) => InEffect(S3, r, v, Len(S3))
      BY <1>6, <2>2
    <3> QED BY <3>2, <3>3 DEF Remembered
  <2> QED BY <2>1, <2>2
<1>12. segments' \in Seq(Segments) /\ markers' \in Seq(MarkerRecords)
  BY <1>5, <1>6, <1>7
<1>13. /\ Layout(segments', markers', at) /\ Effects(segments')
       /\ Remembered(segments', cur', FALSE)
  BY <1>7, <1>8, <1>10, <1>11
<1> QED BY <1>12, <1>13, BuildStep DEF Speech

-----------------------------------------------------------------------------
(* Streaming                                                               *)

\* What ends the call leaves all but the result alone.
LEMMA ReturnStep ==
  ASSUME IInv, UNCHANGED <<buildVars, streamVars>>, phase # "idle", phase' = "idle",
         result' \in Results, skips' \in {0, 1},
         status' \in {"none", "ok", "broken"},
         status' = "ok" => result' = "ok" /\ pos = Len(segments) /\ at = Len(frags) + 1
  PROVE  IInv'
<1>1. /\ UNCHANGED <<frags, at, want, cur, segments, markers, pos, voice, said, events>>
      /\ result' # None
  BY SpeakAssumption DEF buildVars, streamVars
<1>2. Typed'
  BY <1>1 DEF IInv, Typed
<1>3. OneCall'
  BY <1>1 DEF OneCall
<1>4. Built'
  BY BuiltStays DEF IInv
<1>5. Streamed'
  BY <1>1, StreamedStays DEF IInv, streamVars
<1> QED BY <1>2, <1>3, <1>4, <1>5 DEF IInv

LEMMA Returns ==
  IInv /\ (AbortBuild \/ SkipBuild \/ NothingToDo \/ AbortStream \/ SkipStream
             \/ Done \/ BrokenOff \/ TransportFailed) => IInv'
<1> SUFFICES ASSUME IInv,
                    AbortBuild \/ SkipBuild \/ NothingToDo \/ AbortStream \/ SkipStream
                      \/ Done \/ BrokenOff \/ TransportFailed
             PROVE  IInv'
  OBVIOUS
<1>1. UNCHANGED <<buildVars, streamVars>> /\ phase \in {"build", "stream"} /\ phase' = "idle"
  BY DEF AbortBuild, SkipBuild, NothingToDo, AbortStream, SkipStream, Done, BrokenOff,
     TransportFailed, Return, Reaches
<1>2. skips' \in {0, 1}
  <2>1. skips = 0
    BY <1>1 DEF IInv, OneCall
  <2> QED BY <2>1 DEF AbortBuild, SkipBuild, NothingToDo, AbortStream, SkipStream, Done,
         BrokenOff, TransportFailed
<1>3. result' \in Results
  BY DEF AbortBuild, SkipBuild, NothingToDo, AbortStream, SkipStream, Done, BrokenOff,
     TransportFailed, Return, Results
<1>5. /\ status' \in {"none", "ok", "broken"}
      /\ status' = "ok" => Done /\ result' = "ok"
  <2>1. status = "none"
    BY <1>1 DEF IInv, OneCall
  <2> QED BY <2>1 DEF AbortBuild, SkipBuild, NothingToDo, AbortStream, SkipStream, Done,
         BrokenOff, TransportFailed, Return
<1>4. Done => pos = Len(segments) /\ at = Len(frags) + 1
  BY DEF Done, IInv, OneCall
<1> QED BY <1>1, <1>2, <1>3, <1>4, <1>5, ReturnStep

LEMMA SubmitKeeps == IInv /\ Submit => IInv'
<1> SUFFICES ASSUME IInv, Submit PROVE IInv'
  OBVIOUS
<1>1. /\ UNCHANGED <<frags, at, want, cur, segments, markers, pos, said, events, skips, result,
                       status>>
      /\ UNCHANGED buildVars /\ phase' = "stream" /\ voice' = RequestVoice
  BY DEF Submit, buildVars
<1>2. at = Len(frags) + 1 /\ result = None /\ skips = 0 /\ status = "none"
  <2>1. at \in 1..Len(frags) + 1 /\ at > Len(frags) /\ Len(frags) \in Nat
    BY DEF IInv, Typed, Submit
  <2> QED BY <2>1 DEF IInv, OneCall, Submit
<1>3. voice' = voice
  BY <1>1, <1>2 DEF IInv, OneCall, Submit
<1>4. Typed'
  BY <1>1, <1>3 DEF IInv, Typed
<1>5. OneCall'
  BY <1>1, <1>2, <1>3, SpeakAssumption DEF IInv, OneCall, Results
<1>6. Built'
  BY <1>1, BuiltStays DEF IInv
<1>7. Streamed'
  BY <1>1, <1>3, StreamedStays DEF IInv, streamVars
<1> QED BY <1>4, <1>5, <1>6, <1>7 DEF IInv

\* A text comes once.
LEMMA TextOnce ==
  ASSUME Typed, Built,
         NEW p \in 1..Len(segments), NEW r \in 1..Len(segments),
         IsText(segments[p]), IsText(segments[r]),
         segments[p].frag = segments[r].frag, segments[p].word = segments[r].word
  PROVE  p = r
<1>1. TextOrder(segments)
  BY DEF Built, Layout
<1>2. segments[p].frag \in Nat /\ segments[p].word \in Nat
  <2>1. segments[p] \in Segments
    BY DEF Typed
  <2> QED BY <2>1 DEF IsText, Segments, TextSegments, IndexSegments, SetSegments
<1>3. ~Precedes(segments[p], segments[r]) /\ ~Precedes(segments[r], segments[p])
  BY <1>2 DEF Precedes
<1>4. p \in Nat /\ r \in Nat /\ ~(p < r) /\ ~(r < p)
  BY <1>1, <1>3 DEF TextOrder
<1> QED BY <1>4

\* The segment reached has no sound yet.
LEMMA NotYetSaid ==
  ASSUME IInv, pos < Len(segments), NEW k \in 1..Len(said)
  PROVE  ~SoundOf(k, pos + 1)
<1> SUFFICES ASSUME SoundOf(k, pos + 1) PROVE FALSE
  OBVIOUS
<1>1. pos \in Nat /\ Len(segments) \in Nat /\ pos + 1 \in 1..Len(segments)
  BY DEF IInv, Typed
<1>2. PICK p \in 1..pos : SoundOf(k, p)
  BY DEF IInv, Streamed, SoundsObey
<1>3. p \in 1..Len(segments) /\ p # pos + 1
  BY <1>1
<1> QED BY <1>1, <1>2, <1>3, TextOnce DEF IInv, SoundOf

\* A step to the next segment.
Advances ==
  /\ phase = "stream" /\ pos < Len(segments) /\ pos' = pos + 1
  /\ UNCHANGED <<phase, buildVars, skips, result, status>>

LEMMA AdvanceFacts ==
  ASSUME IInv, Advances
  PROVE  /\ UNCHANGED <<frags, at, want, cur, segments, markers>>
         /\ pos \in Nat /\ pos' \in 1..Len(segments) /\ Len(segments) \in Nat
         /\ segments[pos'] \in Segments /\ segments \in Seq(Segments)
         /\ result = None /\ result' = None /\ at = Len(frags) + 1
         /\ 1..pos' = 1..pos \cup {pos'} /\ pos' \notin 1..pos
         /\ OneCall' /\ Built'
<1>1. UNCHANGED <<frags, at, want, cur, segments, markers>>
  BY DEF Advances, buildVars
<1>2. pos \in Nat /\ Len(segments) \in Nat /\ pos' \in 1..Len(segments) /\ segments \in Seq(Segments)
  BY DEF IInv, Typed, Advances
<1>3. segments[pos'] \in Segments
  BY <1>2
<1>4. result = None /\ at = Len(frags) + 1 /\ skips = 0 /\ status = "none"
  BY DEF IInv, OneCall, Advances
<1>5. 1..pos' = 1..pos \cup {pos'} /\ pos' \notin 1..pos
  BY <1>2 DEF Advances
<1>6. OneCall'
  BY <1>1, <1>4, SpeakAssumption DEF OneCall, Advances, Results
<1>7. Built'
  BY BuiltStays DEF IInv, Advances
<1> QED BY <1>1, <1>2, <1>3, <1>4, <1>5, <1>6, <1>7 DEF Advances

\* The sounds and the places so far mean what they did.
LEMMA AdvanceMeans ==
  ASSUME UNCHANGED segments
  PROVE  /\ \A p : IsText(segments[p])' <=> IsText(segments[p])
         /\ \A p : IsIndex(segments[p])' <=> IsIndex(segments[p])
         /\ \A q, v, p : InEffect(segments, q, v, p)' <=> InEffect(segments, q, v, p)
         /\ \A k, p : said'[k] = said[k] => (SoundOf(k, p)' <=> SoundOf(k, p))
BY DEF IsText, IsIndex, InEffect, Sets, RequestVoice, SoundOf

\* A segment that is neither a text nor an index changes no sound and no event.
LEMMA ObeyKeeps == IInv /\ Obey => IInv'
<1> SUFFICES ASSUME IInv, Obey PROVE IInv'
  OBVIOUS
<1> DEFINE s == segments[pos']
<1>1. Advances /\ s.kind = "set" /\ UNCHANGED <<said, events>>
      /\ voice' = [voice EXCEPT ![s.param] = s.value]
  BY DEF Obey, Reaches, Segment, Advances
<1>2. /\ UNCHANGED <<frags, segments, markers, at>> /\ OneCall' /\ Built'
      /\ pos \in Nat /\ pos' = pos + 1 /\ pos' \in 1..Len(segments) /\ Len(segments) \in Nat
      /\ 1..pos' = 1..pos \cup {pos'} /\ pos' \notin 1..pos /\ s \in Segments
      /\ result' = None /\ phase' = "stream" /\ UNCHANGED <<skips, status>>
  BY <1>1, AdvanceFacts DEF Advances
<1>3. s.param \in Params /\ s.value \in ValuesOf(s.param) /\ s.value \in AllValues
  <2>1. s \in SetSegments
    BY <1>1, <1>2 DEF Segments, TextSegments, IndexSegments
  <2>2. s.param \in Params /\ s.value \in ValuesOf(s.param)
    BY <2>1 DEF SetSegments
  <2> QED BY <2>2 DEF ValuesOf, AllValues
<1>4. ~IsText(s) /\ ~IsIndex(s)
  BY <1>1 DEF IsText, IsIndex
<1> HIDE DEF s
<1>5. Typed'
  <2>1. voice' \in [Params -> AllValues] /\ \A q \in Params : voice'[q] \in ValuesOf(q)
    BY <1>1, <1>3 DEF IInv, Typed
  <2>2. pos' \in 0..Len(segments)
    BY <1>2
  <2> QED BY <1>1, <1>2, <2>1, <2>2 DEF IInv, Typed
<1>6. /\ \A p : IsText(segments[p])' <=> IsText(segments[p])
      /\ \A p : IsIndex(segments[p])' <=> IsIndex(segments[p])
      /\ \A q, v, p : InEffect(segments, q, v, p)' <=> InEffect(segments, q, v, p)
      /\ \A k, p : SoundOf(k, p)' <=> SoundOf(k, p)
  BY <1>1, <1>2, AdvanceMeans
<1>7. VoiceObeys'
  <2> SUFFICES ASSUME NEW q \in Params PROVE InEffect(segments, q, voice'[q], pos')
    BY <1>6 DEF VoiceObeys
  <2>1. CASE q = s.param
    <3>1. voice'[q] = s.value /\ Sets(segments[pos'], q)
      BY <1>1, <1>3, <2>1 DEF IInv, Typed, Sets, s
    <3>2. pos' \in 1..pos' /\ \A l \in pos' + 1..pos' : FALSE
      BY <1>2
    <3> QED BY <3>1, <3>2 DEF InEffect, s
  <2>2. CASE q # s.param
    <3>1. voice'[q] = voice[q] /\ ~Sets(segments[pos'], q)
      BY <1>1, <1>3, <2>2 DEF IInv, Typed, Sets, s
    <3>2. InEffect(segments, q, voice[q], pos)
      BY DEF IInv, Streamed, VoiceObeys
    <3>3. pos' \in Nat /\ pos <= pos' /\ \A l \in pos + 1..pos' : l = pos'
      BY <1>2
    <3> QED BY <1>2, <3>1, <3>2, <3>3, EffectCarries
  <2> QED BY <2>1, <2>2
<1>8. SoundsObey'
  BY <1>1, <1>2, <1>6 DEF IInv, Streamed, SoundsObey
<1>9. SoundsAll'
  BY <1>1, <1>2, <1>4, <1>6 DEF IInv, Streamed, SoundsAll, s
<1>10. SoundsOrder'
  <2>1. \A k : ~SoundOf(k, pos')
    BY <1>4 DEF SoundOf, s
  <2> QED BY <1>1, <1>2, <1>6, <2>1 DEF IInv, Streamed, SoundsOrder
<1>11. EventsAll'
  <2>1. \A p \in 1..Len(segments) : p # pos' => (p <= pos' <=> p <= pos)
    BY <1>2
  <2> QED BY <1>1, <1>2, <1>4, <1>6, <2>1 DEF IInv, Streamed, EventsAll, s
<1>12. EventsPlaced'
  <2>1. \A k : ~SoundOf(k, pos')
    BY <1>4 DEF SoundOf, s
  <2>2. \A e : EventOffset(e) => EventOffset(e)'
    BY <1>1, <1>2, <1>4, <1>6, <2>1 DEF EventOffset, s
  <2> QED BY <1>1, <1>2, <2>2 DEF IInv, Streamed, EventsPlaced
<1> QED BY <1>2, <1>5, <1>7, <1>8, <1>9, <1>10, <1>11, <1>12 DEF IInv, Streamed

\* What a text or an index does not change.
LEMMA VoiceStays ==
  ASSUME IInv, Advances, UNCHANGED voice, segments[pos'].kind # "set"
  PROVE  \A q \in Params : InEffect(segments, q, voice[q], pos')
<1> SUFFICES ASSUME NEW q \in Params PROVE InEffect(segments, q, voice[q], pos')
  OBVIOUS
<1>1. pos \in Nat /\ pos' = pos + 1 /\ pos' \in 1..Len(segments)
  BY AdvanceFacts DEF Advances
<1>2. pos' \in Nat /\ pos <= pos' /\ \A l \in pos + 1..pos' : l = pos'
  BY <1>1
<1>3. InEffect(segments, q, voice[q], pos) /\ ~Sets(segments[pos'], q)
  BY DEF IInv, Streamed, VoiceObeys, Sets
<1> QED BY <1>1, <1>2, <1>3, EffectCarries

\* A text's audio is written: one more sound, with the voice reached.
LEMMA OnAudioKeeps == IInv /\ OnAudio => IInv'
<1> SUFFICES ASSUME IInv, OnAudio PROVE IInv'
  OBVIOUS
<1> DEFINE s == segments[pos']
           n == Len(said)
           After(k, p) == /\ IsText(segments[p])
                          /\ segments[p].frag = said'[k].frag /\ segments[p].word = said'[k].word
           sound == [frag |-> s.frag, word |-> s.word, voice |-> voice]
<1>1. Advances /\ s.kind = "text" /\ UNCHANGED <<voice, events>> /\ said' = Append(said, sound)
  BY DEF OnAudio, Reaches, Segment, Advances
<1>2. /\ UNCHANGED <<frags, segments, markers, at>> /\ OneCall' /\ Built'
      /\ pos \in Nat /\ pos' = pos + 1 /\ pos' \in 1..Len(segments) /\ Len(segments) \in Nat
      /\ 1..pos' = 1..pos \cup {pos'} /\ pos' \notin 1..pos /\ s \in Segments
      /\ result' = None /\ phase' = "stream" /\ UNCHANGED <<skips, status>>
  BY <1>1, AdvanceFacts DEF Advances
<1>3. IsText(s) /\ ~IsIndex(s) /\ s.frag \in Nat /\ s.word \in Nat
  <2>1. s \in TextSegments
    BY <1>1, <1>2 DEF Segments, SetSegments, IndexSegments
  <2> QED BY <1>1, <2>1 DEF IsText, IsIndex, TextSegments
<1>4. /\ sound \in Sounds /\ said \in Seq(Sounds) /\ n \in Nat
      /\ sound.frag = s.frag /\ sound.word = s.word /\ sound.voice = voice
  <2>1. voice \in [Params -> AllValues] /\ said \in Seq(Sounds)
    BY DEF IInv, Typed
  <2> QED BY <1>3, <2>1 DEF Sounds
<1> HIDE DEF sound
<1>5. /\ Len(said') = n + 1 /\ said'[n + 1] = sound /\ said' \in Seq(Sounds)
      /\ \A k \in 1..n : said'[k] = said[k]
      /\ \A k \in 1..Len(said') : k \in 1..n \/ k = n + 1
  BY <1>1, <1>4
<1>6. Typed'
  <2>1. pos' \in 0..Len(segments)
    BY <1>2
  <2> QED BY <1>1, <1>2, <1>5, <2>1 DEF IInv, Typed
<1>7. /\ \A p : IsText(segments[p])' <=> IsText(segments[p])
      /\ \A p : IsIndex(segments[p])' <=> IsIndex(segments[p])
      /\ \A q, v, p : InEffect(segments, q, v, p)' <=> InEffect(segments, q, v, p)
      /\ \A k, p : SoundOf(k, p)' <=> After(k, p)
      /\ \A k \in 1..n : \A p : After(k, p) <=> SoundOf(k, p)
  <2>1. \A k, p : SoundOf(k, p)' <=> After(k, p)
    BY <1>2 DEF SoundOf, IsText
  <2>2. \A k \in 1..n : \A p : After(k, p) <=> SoundOf(k, p)
    BY <1>5 DEF SoundOf
  <2> HIDE DEF After, n, s
  <2> QED BY <1>1, <1>2, <2>1, <2>2, AdvanceMeans
<1>8. After(n + 1, pos')
  BY <1>3, <1>4, <1>5
<1>9. \A k \in 1..n : ~SoundOf(k, pos')
  BY <1>1, <1>2, NotYetSaid DEF Advances
<1>10. \A p \in 1..pos' : After(n + 1, p) => p = pos'
  <2> SUFFICES ASSUME NEW p \in 1..pos', After(n + 1, p) PROVE p = pos'
    OBVIOUS
  <2>1. /\ p \in 1..Len(segments) /\ IsText(segments[p]) /\ IsText(segments[pos'])
        /\ segments[p].frag = segments[pos'].frag /\ segments[p].word = segments[pos'].word
    BY <1>2, <1>8
  <2> QED BY <1>2, <2>1, TextOnce DEF IInv
<1>11. \A q \in Params : InEffect(segments, q, voice[q], pos')
  BY <1>1, VoiceStays DEF s
<1> HIDE DEF n, s, After
<1>12. VoiceObeys'
  BY <1>1, <1>7, <1>11 DEF VoiceObeys
<1>13. SoundsObey'
  <2> SUFFICES ASSUME NEW k \in 1..Len(said')
               PROVE  \E p \in 1..pos' :
                        After(k, p) /\ \A q \in Params : InEffect(segments, q, said'[k].voice[q], p)
    BY <1>7 DEF SoundsObey
  <2>1. CASE k \in 1..n
    BY <1>2, <1>5, <1>7, <2>1 DEF IInv, Streamed, SoundsObey, n
  <2>2. CASE k = n + 1
    BY <1>2, <1>4, <1>5, <1>8, <1>11, <2>2
  <2> QED BY <1>5, <2>1, <2>2
<1>14. SoundsAll'
  <2>1. n + 1 \in 1..Len(said') /\ \A k \in 1..n : k \in 1..Len(said')
    BY <1>4, <1>5
  <2>2. \A p \in 1..pos : IsText(segments[p]) => \E k \in 1..Len(said') : After(k, p)
    BY <1>7, <2>1 DEF IInv, Streamed, SoundsAll, n
  <2> QED BY <1>2, <1>7, <1>8, <2>1, <2>2 DEF SoundsAll
<1>15. SoundsOrder'
  <2> SUFFICES ASSUME NEW k \in 1..Len(said'), NEW l \in 1..Len(said'),
                      NEW p \in 1..pos', NEW r \in 1..pos',
                      k < l, After(k, p), After(l, r)
               PROVE  p < r
    BY <1>7 DEF SoundsOrder
  <2>1. k \in 1..n
    BY <1>4, <1>5
  <2>2. SoundOf(k, p) /\ p \in 1..pos
    BY <1>2, <1>7, <1>9, <2>1
  <2>3. CASE l \in 1..n
    <3>1. SoundOf(l, r) /\ r \in 1..pos
      BY <1>2, <1>7, <1>9, <2>3
    <3> QED BY <2>1, <2>2, <2>3, <3>1 DEF IInv, Streamed, SoundsOrder, n
  <2>4. CASE l = n + 1
    BY <1>2, <1>10, <2>2, <2>4
  <2> QED BY <1>5, <2>3, <2>4
<1>16. EventsAll'
  <2>1. \A p \in 1..Len(segments) : p # pos' => (p <= pos' <=> p <= pos)
    BY <1>2
  <2> QED BY <1>1, <1>2, <1>3, <1>7, <2>1 DEF IInv, Streamed, EventsAll, s
<1>17. EventsPlaced'
  <2> SUFFICES ASSUME NEW e \in 1..Len(events)
               PROVE  /\ events[e].id = e /\ e <= Len(markers)
                      /\ events[e].offset \in 0..Len(said') /\ EventOffset(e)'
    BY <1>1, <1>2 DEF EventsPlaced
  <2>1. /\ events[e].id = e /\ e <= Len(markers)
        /\ events[e].offset \in 0..n /\ EventOffset(e)
    BY DEF IInv, Streamed, EventsPlaced, n
  <2>2. events[e].offset \in 0..Len(said')
    BY <1>4, <1>5, <2>1
  <2> SUFFICES ASSUME NEW j \in 1..pos', IsIndex(segments[j]), segments[j].id = e,
                      NEW k \in 1..Len(said'), NEW p \in 1..pos', After(k, p)
               PROVE  k <= events[e].offset <=> p < j
    BY <1>1, <1>2, <1>7, <2>1, <2>2 DEF EventOffset
  <2>3. j \in 1..pos
    BY <1>2, <1>3 DEF s
  <2>4. CASE k \in 1..n
    <3>1. SoundOf(k, p) /\ p \in 1..pos
      BY <1>2, <1>7, <1>9, <2>4
    <3> QED BY <2>1, <2>3, <2>4, <3>1 DEF EventOffset, n
  <2>5. CASE k = n + 1
    <3>1. p = pos'
      BY <1>10, <2>5
    <3>2. ~(k <= events[e].offset)
      BY <1>4, <2>1, <2>5
    <3> QED BY <1>2, <2>3, <3>1, <3>2
  <2> QED BY <1>5, <2>4, <2>5
<1> QED BY <1>2, <1>6, <1>12, <1>13, <1>14, <1>15, <1>16, <1>17 DEF IInv, Streamed

\* The next index is that of the marker after those whose events are there.
LEMMA IndexReached ==
  ASSUME IInv, Advances, IsIndex(segments[pos'])
  PROVE  /\ segments[pos'].id = Len(events) + 1 /\ segments[pos'].id \in 1..Len(markers)
         /\ \A p \in 1..Len(segments) : IsIndex(segments[p]) =>
              /\ p <= pos' <=> segments[p].id <= Len(events) + 1
              /\ segments[p].id = Len(events) + 1 => p = pos'
<1> DEFINE n == Len(events)
           id == segments[pos'].id
<1>1. /\ pos \in Nat /\ pos' = pos + 1 /\ pos' \in 1..Len(segments) /\ Len(segments) \in Nat
      /\ n \in Nat /\ Len(markers) \in Nat
  BY AdvanceFacts DEF Advances, IInv, Typed
<1>2. /\ IndexRange(segments, markers) /\ IndexOrder(segments) /\ IndexAll(segments, markers)
  BY DEF IInv, Built, Layout
<1>3. \A p \in 1..Len(segments) : IsIndex(segments[p]) =>
        segments[p].id \in 1..Len(markers) /\ (p <= pos <=> segments[p].id <= n)
  BY <1>2 DEF IInv, Streamed, EventsAll, IndexRange
<1> HIDE DEF n
<1>4. id \in 1..Len(markers) /\ id > n
  <2>1. ~(pos' <= pos)
    BY <1>1
  <2>2. id \in 1..Len(markers) /\ ~(id <= n)
    BY <1>1, <1>3, <2>1
  <2> QED BY <1>1, <2>2
<1>5. \A p \in 1..Len(segments) : IsIndex(segments[p]) =>
        /\ p < pos' => segments[p].id < id
        /\ p > pos' => segments[p].id > id
  BY <1>1, <1>2 DEF IndexOrder
<1> HIDE DEF id
<1>6. id = n + 1
  <2> SUFFICES ASSUME id > n + 1 PROVE FALSE
    BY <1>1, <1>4
  <2>1. n + 1 \in 1..Len(markers) /\ n + 1 \in Nat
    BY <1>1, <1>4
  <2>2. PICK p \in 1..Len(segments) : IsIndex(segments[p]) /\ segments[p].id = n + 1
    BY <1>2, <2>1 DEF IndexAll
  <2>3. ~(p <= pos)
    BY <1>1, <1>3, <2>2
  <2>4. p # pos'
    BY <2>2, <1>4 DEF id
  <2>5. p > pos' /\ segments[p].id > id
    BY <1>1, <1>5, <2>2, <2>3, <2>4
  <2> QED BY <1>1, <1>4, <2>2, <2>5
<1>7. ASSUME NEW p \in 1..Len(segments), IsIndex(segments[p])
      PROVE  (p <= pos' <=> segments[p].id <= n + 1) /\ (segments[p].id = n + 1 => p = pos')
  <2>1. segments[p].id \in Nat /\ p \in Nat
    BY <1>3, <1>7
  <2>2. /\ p < pos' => segments[p].id < id
        /\ p > pos' => segments[p].id > id
        /\ p = pos' => segments[p].id = id
    BY <1>5, <1>7 DEF id
  <2> QED BY <1>1, <1>6, <2>1, <2>2
<1> QED BY <1>4, <1>6, <1>7 DEF n, id

\* A marker's index arrives: its event, at the offset reached.
LEMMA OnIndexKeeps == IInv /\ OnIndex => IInv'
<1> SUFFICES ASSUME IInv, OnIndex PROVE IInv'
  OBVIOUS
<1> DEFINE s == segments[pos']
           n == Len(events)
           event == [id |-> s.id, offset |-> Len(said)]
<1>1. /\ Advances /\ IsIndex(s) /\ UNCHANGED <<voice, said>>
      /\ events' = IF s.id \in 1..Len(markers) THEN Append(events, event) ELSE events
  BY DEF OnIndex, Reaches, Segment, Advances, IsIndex
<1>2. /\ UNCHANGED <<frags, segments, markers, at>> /\ OneCall' /\ Built'
      /\ pos \in Nat /\ pos' = pos + 1 /\ pos' \in 1..Len(segments) /\ Len(segments) \in Nat
      /\ 1..pos' = 1..pos \cup {pos'} /\ pos' \notin 1..pos
      /\ result' = None /\ phase' = "stream" /\ UNCHANGED <<skips, status>>
  BY <1>1, AdvanceFacts DEF Advances
<1>3. /\ s.id = n + 1 /\ s.id \in 1..Len(markers)
      /\ \A p \in 1..Len(segments) : IsIndex(segments[p]) =>
           /\ p <= pos' <=> segments[p].id <= n + 1
           /\ segments[p].id = n + 1 => p = pos'
  BY <1>1, IndexReached
<1>4. /\ n \in Nat /\ Len(said) \in Nat /\ events \in Seq([id : Nat, offset : Nat])
      /\ event \in [id : Nat, offset : Nat] /\ event.id = n + 1 /\ event.offset = Len(said)
  <2>1. /\ n \in Nat /\ Len(said) \in Nat /\ events \in Seq([id : Nat, offset : Nat])
    BY DEF IInv, Typed
  <2> QED BY <1>3, <2>1
<1>5. events' = Append(events, event)
  BY <1>1, <1>3
<1> HIDE DEF event
<1>6. /\ Len(events') = n + 1 /\ events'[n + 1] = event
      /\ events' \in Seq([id : Nat, offset : Nat])
      /\ \A e \in 1..n : events'[e] = events[e]
      /\ \A e \in 1..Len(events') : e \in 1..n \/ e = n + 1
  BY <1>4, <1>5
<1>7. Typed'
  <2>1. pos' \in 0..Len(segments)
    BY <1>2
  <2> QED BY <1>1, <1>2, <1>6, <2>1 DEF IInv, Typed
<1>8. /\ \A p : IsText(segments[p])' <=> IsText(segments[p])
      /\ \A p : IsIndex(segments[p])' <=> IsIndex(segments[p])
      /\ \A q, v, p : InEffect(segments, q, v, p)' <=> InEffect(segments, q, v, p)
      /\ \A k, p : SoundOf(k, p)' <=> SoundOf(k, p)
  BY <1>1, <1>2, AdvanceMeans
<1>9. ~IsText(s) /\ s.kind # "set"
  BY <1>1 DEF IsText, IsIndex
<1>10. \A k : ~SoundOf(k, pos')
  BY <1>9 DEF SoundOf
<1>11. \A q \in Params : InEffect(segments, q, voice[q], pos')
  BY <1>1, <1>9, VoiceStays
<1> HIDE DEF n, s
<1>12. VoiceObeys'
  BY <1>1, <1>8, <1>11 DEF VoiceObeys
<1>13. SoundsObey'
  BY <1>1, <1>2, <1>8 DEF IInv, Streamed, SoundsObey
<1>14. SoundsAll'
  BY <1>1, <1>2, <1>8, <1>9 DEF IInv, Streamed, SoundsAll, s
<1>15. SoundsOrder'
  BY <1>1, <1>2, <1>8, <1>10 DEF IInv, Streamed, SoundsOrder
<1>16. EventsAll'
  BY <1>2, <1>3, <1>6, <1>8 DEF EventsAll
<1>17. EventsPlaced'
  <2> SUFFICES ASSUME NEW e \in 1..Len(events')
               PROVE  /\ events'[e].id = e /\ e <= Len(markers)
                      /\ events'[e].offset \in 0..Len(said)
                      /\ \A j \in 1..pos' : IsIndex(segments[j]) /\ segments[j].id = e =>
                           \A k \in 1..Len(said), p \in 1..pos' :
                             SoundOf(k, p) => (k <= events'[e].offset <=> p < j)
    BY <1>1, <1>2, <1>8 DEF EventsPlaced, EventOffset
  <2>1. CASE e \in 1..n
    <3>1. events'[e] = events[e] /\ e # n + 1
      BY <1>4, <1>6, <2>1
    <3>2. /\ events[e].id = e /\ e <= Len(markers)
          /\ events[e].offset \in 0..Len(said) /\ EventOffset(e)
      BY <2>1 DEF IInv, Streamed, EventsPlaced, n
    <3>3. \A j \in 1..pos' : segments[j].id = e => j \in 1..pos
      BY <1>2, <1>3, <3>1 DEF s
    <3> QED BY <1>2, <1>10, <3>1, <3>2, <3>3 DEF EventOffset
  <2>2. CASE e = n + 1
    <3>1. /\ events'[e].id = e /\ events'[e].offset = Len(said) /\ Len(said) \in 0..Len(said)
          /\ e <= Len(markers)
      BY <1>3, <1>4, <1>6, <2>2
    <3> SUFFICES ASSUME NEW j \in 1..pos', IsIndex(segments[j]), segments[j].id = e,
                        NEW k \in 1..Len(said), NEW p \in 1..pos', SoundOf(k, p)
                 PROVE  k <= Len(said) /\ p < j
      BY <3>1
    <3>2. j = pos' /\ p \in 1..pos
      BY <1>2, <1>3, <1>10, <2>2
    <3> QED BY <1>2, <1>4, <3>2
  <2> QED BY <1>6, <2>1, <2>2
<1> QED BY <1>2, <1>7, <1>12, <1>13, <1>14, <1>15, <1>16, <1>17 DEF IInv, Streamed

LEMMA IInvNext == IInv /\ [Next]_vars => IInv'
<1> SUFFICES ASSUME IInv, [Next]_vars PROVE IInv'
  OBVIOUS
<1>1. CASE Speak
  BY <1>1, SpeakKeeps
<1>2. CASE Bookmark
  BY <1>2, BookmarkKeeps
<1>3. CASE Silence
  BY <1>3, SilenceKeeps
<1>4. CASE Speech
  BY <1>4, SpeechKeeps
<1>5. CASE Submit
  BY <1>5, SubmitKeeps
<1>6. CASE Obey
  BY <1>6, ObeyKeeps
<1>7. CASE OnAudio
  BY <1>7, OnAudioKeeps
<1>8. CASE OnIndex
  BY <1>8, OnIndexKeeps
<1>9. CASE AbortBuild \/ SkipBuild \/ NothingToDo \/ AbortStream \/ SkipStream \/ Done
             \/ BrokenOff \/ TransportFailed
  BY <1>9, Returns
<1>10. CASE UNCHANGED vars
  <2>1. /\ UNCHANGED <<phase, skips, result, status, buildVars, streamVars>>
        /\ UNCHANGED <<frags, at, want, cur, segments, markers, pos, voice, said, events>>
    BY <1>10 DEF vars, buildVars, streamVars
  <2>2. Typed' /\ OneCall'
    BY <2>1 DEF IInv, Typed, OneCall, RequestVoice
  <2>3. Built' /\ Streamed'
    BY <2>1, BuiltStays, StreamedStays DEF IInv
  <2> QED BY <2>2, <2>3 DEF IInv
<1> QED BY <1>1, <1>2, <1>3, <1>4, <1>5, <1>6, <1>7, <1>8, <1>9, <1>10 DEF Next

-----------------------------------------------------------------------------
(* The theorems                                                            *)

\* The strengthened invariant holds in every reachable state, for lists of
\* fragments of every length.
THEOREM Invariance == Spec => []IInv
<1>1. IInv /\ [Next]_vars => IInv'
  BY IInvNext
<1> QED BY <1>1, IInvInit, PTL DEF Spec

\* The types of the call's state; the voice the engine speaks with always has
\* a language of the table.
THEOREM TypeCorrect == Spec => []TypeOK
<1>1. IInv => TypeOK
  <2> SUFFICES ASSUME IInv PROVE TypeOK
    OBVIOUS
  <2>1. voice.lang \in Languages /\ voice.spell \in BOOLEAN
    <3>1. /\ "lang" \in Params /\ "spell" \in Params
          /\ ValuesOf("lang") = Languages /\ ValuesOf("spell") = BOOLEAN
      BY DEF Params, ValuesOf
    <3> QED BY <3>1 DEF IInv, Typed
  <2> QED BY <2>1 DEF IInv, Typed, TypeOK
<1> QED BY <1>1, Invariance, PTL

\* A sound is the text of some place, with what is in effect there.
LEMMA SoundPlace ==
  ASSUME IInv, NEW k \in 1..Len(said)
  PROVE  \E p \in 1..pos :
           /\ p \in 1..Len(segments) /\ p \in Nat /\ SoundOf(k, p)
           /\ Asked(segments, frags[said[k].frag], p)
           /\ \A q \in Params : InEffect(segments, q, said[k].voice[q], p)
<1>1. PICK p \in 1..pos :
        SoundOf(k, p) /\ \A q \in Params : InEffect(segments, q, said[k].voice[q], p)
  BY DEF IInv, Streamed, SoundsObey
<1>2. p \in 1..Len(segments) /\ p \in Nat
  BY DEF IInv, Typed
<1>3. Asked(segments, frags[said[k].frag], p)
  BY <1>1, <1>2 DEF IInv, Built, Effects, SoundOf
<1> QED BY <1>1, <1>2, <1>3

\* Every text is spoken as its own fragment asks: sending annotations only
\* where something changes never leaves the engine with the settings of a
\* fragment before.
THEOREM SpokenHolds == Spec => []SpokenAsAsked
<1>1. IInv => SpokenAsAsked
  <2> SUFFICES ASSUME IInv, NEW k \in 1..Len(said)
               PROVE  LET f == frags[said[k].frag]
                          v == said[k].voice
                      IN /\ v.rate = ScaledRate[f.rate]
                         /\ v.volume = ScaledVolume[f.volume]
                         /\ v.spell = (f.action = "spell")
                         /\ v.lang \in Installed
                         /\ f.lang \in Installed => v.lang = f.lang
                         /\ f.pitch # 0 => v.pitch = ShiftedPitch[f.pitch]
    BY DEF SpokenAsAsked
  <2> DEFINE f == frags[said[k].frag]
             v == said[k].voice
  <2>1. PICK p \in Nat : /\ Asked(segments, f, p)
                         /\ \A q \in Params : InEffect(segments, q, v[q], p)
    BY SoundPlace
  <2> HIDE DEF f, v
  <2>2. /\ InEffect(segments, "rate", v.rate, p) /\ InEffect(segments, "volume", v.volume, p)
        /\ InEffect(segments, "spell", v.spell, p) /\ InEffect(segments, "lang", v.lang, p)
        /\ InEffect(segments, "pitch", v.pitch, p)
    BY <2>1 DEF Params
  <2>3. PICK l \in Installed : InEffect(segments, "lang", l, p) /\ (f.lang \in Installed => l = f.lang)
    BY <2>1 DEF Asked
  <2>4. v.lang = l
    BY <2>2, <2>3, EffectUnique
  <2>5. v.rate = ScaledRate[f.rate] /\ v.volume = ScaledVolume[f.volume]
    BY <2>1, <2>2, EffectUnique DEF Asked
  <2>6. v.spell = (f.action = "spell")
    BY <2>1, <2>2, EffectUnique DEF Asked
  <2>7. f.pitch # 0 => v.pitch = ShiftedPitch[f.pitch]
    BY <2>1, <2>2, EffectUnique DEF Asked
  <2> QED BY <2>3, <2>4, <2>5, <2>6, <2>7 DEF f, v
<1> QED BY <1>1, Invariance, PTL

\* With the Configured Voice a fragment without a pitch adjustment is spoken at
\* the pitch of the settings, which is that voice's own: the code sets the pitch
\* back to them.
THEOREM OwnPitchHolds ==
  ASSUME Configured
  PROVE  Spec => []OwnPitch
<1>1. IInv => OwnPitch
  <2> SUFFICES ASSUME IInv, NEW k \in 1..Len(said), frags[said[k].frag].pitch = 0
               PROVE  said[k].voice.pitch = RequestVoice.pitch
    BY DEF OwnPitch
  <2> DEFINE f == frags[said[k].frag]
             v == said[k].voice
  <2>1. PICK p \in Nat : /\ Asked(segments, f, p)
                         /\ \A q \in Params : InEffect(segments, q, v[q], p)
    BY SoundPlace
  <2> HIDE DEF v
  <2>2. InEffect(segments, "pitch", v.pitch, p)
    BY <2>1 DEF Params
  <2>3. InEffect(segments, "pitch", SettingsPitch, p)
    BY <2>1 DEF Asked
  <2>4. v.pitch = SettingsPitch
    BY <2>2, <2>3, EffectUnique
  <2> QED BY <2>4 DEF RequestVoice, v
<1>2. []IInv => []OwnPitch
  BY <1>1, PTL
<1> QED BY <1>2, Invariance, PTL

\* Where the index of an event stands.
LEMMA EventPlace ==
  ASSUME IInv, NEW e \in 1..Len(events)
  PROVE  \E j \in 1..pos :
           /\ j \in 1..Len(segments) /\ IsIndex(segments[j]) /\ segments[j].id = e
           /\ MarkerPlace(segments, markers, at - 1, j)
           /\ events[e].id = e /\ events[e].offset \in 0..Len(said)
           /\ \A k \in 1..Len(said), p \in 1..pos :
                SoundOf(k, p) => (k <= events[e].offset <=> p < j)
<1>1. /\ events[e].id = e /\ e <= Len(markers)
      /\ events[e].offset \in 0..Len(said) /\ EventOffset(e)
  BY DEF IInv, Streamed, EventsPlaced
<1>2. e \in 1..Len(markers) /\ pos \in 0..Len(segments) /\ Len(segments) \in Nat /\ Len(events) \in Nat
  BY <1>1 DEF IInv, Typed
<1>3. PICK j \in 1..Len(segments) : IsIndex(segments[j]) /\ segments[j].id = e
  BY <1>2 DEF IInv, Built, Layout, IndexAll
<1>4. e <= Len(events) /\ j <= pos
  BY <1>2, <1>3 DEF IInv, Streamed, EventsAll
<1>5. j \in 1..pos
  BY <1>2, <1>4
<1>6. MarkerPlace(segments, markers, at - 1, j)
  BY <1>3 DEF IInv, Built, Layout, MarkerPlaces
<1>7. \A k \in 1..Len(said), p \in 1..pos : SoundOf(k, p) => (k <= events[e].offset <=> p < j)
  BY <1>1, <1>3, <1>5 DEF EventOffset
<1> QED BY <1>1, <1>3, <1>5, <1>6, <1>7

\* The first text behind a place is the first sound after those before it.
LEMMA FirstSound ==
  ASSUME IInv, NEW o \in Nat, o < Len(said), NEW j \in 1..pos, ~IsText(segments[j]),
         \A k \in 1..Len(said), p \in 1..pos : SoundOf(k, p) => (k <= o <=> p < j),
         NEW r \in j + 1..Len(segments), IsText(segments[r]),
         \A x \in j + 1..r - 1 : ~IsText(segments[x])
  PROVE  SoundOf(o + 1, r)
<1>1. o + 1 \in 1..Len(said) /\ Len(said) \in Nat /\ pos \in Nat /\ Len(segments) \in Nat
  BY DEF IInv, Typed
<1>2. PICK p \in 1..pos : SoundOf(o + 1, p)
  BY <1>1, SoundPlace
<1>3. ~(p < j) /\ IsText(segments[p])
  <2>1. ~(o + 1 <= o)
    OBVIOUS
  <2> QED BY <1>1, <1>2, <2>1 DEF SoundOf
<1>4. p >= r
  <2>1. p # j
    BY <1>3
  <2>2. p \in j + 1..Len(segments) /\ p \notin j + 1..r - 1
    BY <1>1, <1>3, <2>1 DEF IInv, Typed
  <2> QED BY <1>1, <2>2
<1>5. r \in 1..pos /\ ~(r < j)
  BY <1>1, <1>4
<1>6. PICK k \in 1..Len(said) : SoundOf(k, r)
  BY <1>5 DEF IInv, Streamed, SoundsAll
<1>7. ~(k <= o)
  BY <1>5, <1>6
<1>8. ~(o + 1 < k)
  <2> SUFFICES ASSUME o + 1 < k PROVE FALSE
    OBVIOUS
  <2>1. p < r
    BY <1>1, <1>2, <1>5, <1>6 DEF IInv, Streamed, SoundsOrder
  <2> QED BY <1>1, <1>4, <2>1
<1>9. k = o + 1
  BY <1>1, <1>7, <1>8
<1> QED BY <1>6, <1>9

\* Events come in the order of their markers, and the audio at an event's
\* offset is that of the word or the sentence it announces.
THEOREM EventsHold == Spec => []EventsFollowAudio
<1>1. IInv => EventsFollowAudio
  <2> SUFFICES ASSUME IInv, NEW e \in 1..Len(events)
               PROVE  LET m == markers[events[e].id]
                          o == events[e].offset
                      IN /\ events[e].id = e
                         /\ m.kind = "word" /\ o < Len(said) =>
                              said[o + 1].frag = m.frag /\ said[o + 1].word = m.word
                         /\ m.kind = "sentence" /\ o < Len(said) => said[o + 1].frag = m.frag
                         /\ \A x \in 1..o : said[x].frag <= m.frag
    BY DEF EventsFollowAudio
  <2> DEFINE m == markers[e]
             o == events[e].offset
  <2>1. PICK j \in 1..pos :
           /\ j \in 1..Len(segments) /\ IsIndex(segments[j]) /\ segments[j].id = e
           /\ MarkerPlace(segments, markers, at - 1, j)
           /\ events[e].id = e /\ o \in 0..Len(said)
           /\ \A k \in 1..Len(said), p \in 1..pos : SoundOf(k, p) => (k <= o <=> p < j)
    BY EventPlace
  <2>2. /\ \A r \in 1..j - 1 : IsText(segments[r]) => segments[r].frag <= m.frag
        /\ m.kind = "word" => WordNext(segments, j, m)
        /\ m.kind = "sentence" => SentenceNext(segments, j, m)
    BY <2>1 DEF MarkerPlace
  <2>3. o \in Nat /\ ~IsText(segments[j]) /\ Len(segments) \in Nat /\ Len(said) \in Nat /\ pos \in Nat
    <3>1. ~IsText(segments[j])
      BY <2>1 DEF IsText, IsIndex
    <3>2. Len(segments) \in Nat /\ Len(said) \in Nat /\ pos \in Nat
      BY DEF IInv, Typed
    <3> HIDE DEF o
    <3> QED BY <2>1, <3>1, <3>2
  <2> HIDE DEF m, o
  <2>4. m.kind = "word" /\ o < Len(said) => said[o + 1].frag = m.frag /\ said[o + 1].word = m.word
    <3> SUFFICES ASSUME m.kind = "word", o < Len(said)
                 PROVE  said[o + 1].frag = m.frag /\ said[o + 1].word = m.word
      OBVIOUS
    <3>1. j < Len(segments) /\ segments[j + 1] = Text(m.frag, m.word)
      BY <2>2 DEF WordNext
    <3> DEFINE r == j + 1
    <3>2. r \in j + 1..Len(segments) /\ \A x \in j + 1..r - 1 : ~IsText(segments[x])
      BY <2>3, <3>1
    <3>3. IsText(segments[r]) /\ segments[r].frag = m.frag /\ segments[r].word = m.word
      BY <3>1 DEF Text, IsText
    <3> HIDE DEF r
    <3>4. SoundOf(o + 1, r)
      BY <2>1, <2>3, <3>2, <3>3, FirstSound
    <3> QED BY <3>3, <3>4 DEF SoundOf
  <2>5. m.kind = "sentence" /\ o < Len(said) => said[o + 1].frag = m.frag
    <3> SUFFICES ASSUME m.kind = "sentence", o < Len(said)
                 PROVE  said[o + 1].frag = m.frag
      OBVIOUS
    <3>1. PICK r \in j + 1..Len(segments) :
            IsText(segments[r]) /\ segments[r].frag = m.frag /\ \A x \in j + 1..r - 1 : ~IsText(segments[x])
      BY <2>2 DEF SentenceNext
    <3>2. SoundOf(o + 1, r)
      BY <2>1, <2>3, <3>1, FirstSound
    <3> QED BY <3>1, <3>2 DEF SoundOf
  <2>6. \A x \in 1..o : said[x].frag <= m.frag
    <3> SUFFICES ASSUME NEW x \in 1..o PROVE said[x].frag <= m.frag
      OBVIOUS
    <3>1. x \in 1..Len(said) /\ x <= o
      BY <2>1, <2>3
    <3>2. PICK p \in 1..pos : SoundOf(x, p)
      BY <3>1, SoundPlace
    <3>3. p \in 1..j - 1
      BY <2>1, <3>1, <3>2
    <3> QED BY <2>2, <3>2, <3>3 DEF SoundOf
  <2> QED BY <2>1, <2>4, <2>5, <2>6 DEF m, o
<1> QED BY <1>1, Invariance, PTL

\* Of two sounds the earlier one is of the earlier text.
LEMMA SoundsPrecede ==
  ASSUME IInv, NEW k \in 1..Len(said), NEW l \in 1..Len(said), k < l
  PROVE  Precedes(said[k], said[l])
<1>1. PICK p \in 1..pos : p \in 1..Len(segments) /\ SoundOf(k, p)
  BY SoundPlace
<1>2. PICK r \in 1..pos : r \in 1..Len(segments) /\ SoundOf(l, r)
  BY SoundPlace
<1>3. p < r
  BY <1>1, <1>2 DEF IInv, Streamed, SoundsOrder
<1>4. Precedes(segments[p], segments[r])
  BY <1>1, <1>2, <1>3 DEF IInv, Built, Layout, TextOrder, SoundOf
<1> QED BY <1>1, <1>2, <1>4 DEF SoundOf, Precedes

\* A text that comes before one that was spoken was spoken before it.
LEMMA SpokenBefore ==
  ASSUME IInv, NEW k \in 1..Len(said), NEW i \in 1..Len(frags), Speaks(i), NEW w \in Texts(i),
         Precedes([frag |-> i, word |-> w], said[k])
  PROVE  \E l \in 1..k - 1 : said[l].frag = i /\ said[l].word = w
<1>1. PICK p \in 1..pos : p \in 1..Len(segments) /\ SoundOf(k, p)
  BY SoundPlace
<1>2. /\ Len(segments) \in Nat /\ Len(said) \in Nat /\ pos \in Nat /\ pos <= Len(segments)
      /\ at \in Nat /\ Len(frags) \in Nat
  BY DEF IInv, Typed
<1>3. /\ segments[p].frag = said[k].frag /\ segments[p].word = said[k].word
      /\ said[k].frag \in 1..at - 1 /\ said[k].frag \in Nat /\ said[k].word \in Nat
  <2>1. said[k] \in Sounds
    BY DEF IInv, Typed
  <2>2. segments[p].frag \in 1..at - 1
    BY <1>1 DEF IInv, Built, Layout, TextRange, SoundOf
  <2> QED BY <1>1, <2>1, <2>2 DEF SoundOf, Sounds
<1>4. i \in 1..at - 1
  BY <1>2, <1>3 DEF Precedes
<1>5. PICK q \in 1..Len(segments) :
        IsText(segments[q]) /\ segments[q].frag = i /\ segments[q].word = w
  BY <1>4 DEF IInv, Built, Layout, TextAll
<1>6. w \in Nat
  <2>1. segments[q] \in Segments
    BY <1>5 DEF IInv, Typed
  <2> QED BY <1>5, <2>1 DEF IsText, Segments, TextSegments, IndexSegments, SetSegments
<1>7. ~Precedes(segments[p], segments[q]) /\ p # q
  BY <1>2, <1>3, <1>5, <1>6 DEF Precedes
<1>8. q < p
  <2>1. ~(p < q)
    BY <1>1, <1>5, <1>7 DEF IInv, Built, Layout, TextOrder, SoundOf
  <2> QED BY <1>2, <1>7, <2>1
<1>9. q \in 1..pos
  BY <1>2, <1>8
<1>10. PICK l \in 1..Len(said) : SoundOf(l, q)
  BY <1>5, <1>9 DEF IInv, Streamed, SoundsAll
<1>11. ~(k < l) /\ k # l
  <2>1. ~(k < l)
    BY <1>1, <1>2, <1>8, <1>9, <1>10 DEF IInv, Streamed, SoundsOrder
  <2>2. k # l
    <3>1. k = l => segments[p].frag = segments[q].frag /\ segments[p].word = segments[q].word
      BY <1>1, <1>10 DEF SoundOf
    <3> QED BY <1>3, <1>5, <1>6, <3>1 DEF Precedes
  <2> QED BY <2>1, <2>2
<1>12. l \in 1..k - 1
  BY <1>2, <1>11
<1> QED BY <1>5, <1>10, <1>12 DEF SoundOf

\* However a call ends, what was spoken comes in order, each text once and
\* none left out before it; and once the host's END has status 0, every word
\* of every fragment has been spoken and every word, sentence and bookmark
\* event has fired.
THEOREM CompleteHolds == Spec => []CompleteMeansAll
<1>1. IInv => NoGaps
  <2> SUFFICES ASSUME IInv, NEW k \in 1..Len(said)
               PROVE  /\ said[k].word \in Texts(said[k].frag)
                      /\ \A l \in 1..k - 1 : Precedes(said[l], said[k])
                      /\ \A i \in 1..Len(frags) : frags[i].action \in {"speak", "spell"} =>
                           \A w \in Texts(i) : Precedes([frag |-> i, word |-> w], said[k]) =>
                             \E l \in 1..k - 1 : said[l].frag = i /\ said[l].word = w
    BY DEF NoGaps
  <2>1. said[k].word \in Texts(said[k].frag)
    <3>1. PICK p \in 1..Len(segments) : SoundOf(k, p)
      BY SoundPlace
    <3>2. segments[p].word \in Texts(segments[p].frag)
      BY <3>1 DEF IInv, Built, Layout, TextRange, SoundOf
    <3> QED BY <3>1, <3>2 DEF SoundOf
  <2>2. ASSUME NEW l \in 1..k - 1 PROVE Precedes(said[l], said[k])
    <3>1. l \in 1..Len(said) /\ l < k
      BY DEF IInv, Typed
    <3> QED BY <3>1, SoundsPrecede
  <2>3. ASSUME NEW i \in 1..Len(frags), frags[i].action \in {"speak", "spell"}, NEW w \in Texts(i),
               Precedes([frag |-> i, word |-> w], said[k])
        PROVE  \E l \in 1..k - 1 : said[l].frag = i /\ said[l].word = w
    BY <2>3, SpokenBefore DEF Speaks
  <2> QED BY <2>1, <2>2, <2>3
<1>2. IInv => (status = "ok" => result = "ok" /\ Everything)
  <2> SUFFICES ASSUME IInv, status = "ok"
               PROVE  /\ Len(events) = Len(markers)
                      /\ \A i \in 1..Len(frags) :
                           /\ frags[i].action = "bookmark" =>
                                \E e \in 1..Len(events) :
                                  markers[events[e].id] = Marker("bookmark", i, 0)
                           /\ frags[i].action \in {"speak", "spell"} =>
                                \A w \in Texts(i) : \E k \in 1..Len(said) :
                                  said[k].frag = i /\ said[k].word = w
    BY DEF Everything, IInv, OneCall
  <2>1. /\ pos = Len(segments) /\ at - 1 = Len(frags)
        /\ Len(segments) \in Nat /\ Len(markers) \in Nat /\ Len(events) \in Nat /\ Len(said) \in Nat
    BY DEF IInv, OneCall, Typed
  <2>2. Layout(segments, markers, Len(frags))
    BY <2>1 DEF IInv, Built
  <2>3. \A e \in 1..Len(events) : events[e].id = e /\ e <= Len(markers)
    BY DEF IInv, Streamed, EventsPlaced
  <2>4. Len(events) = Len(markers)
    <3>1. Len(events) <= Len(markers)
      <4>1. Len(events) > 0 => Len(events) \in 1..Len(events)
        BY <2>1
      <4> QED BY <2>1, <2>3, <4>1
    <3>2. Len(markers) <= Len(events)
      <4> SUFFICES ASSUME Len(markers) > 0 PROVE Len(markers) <= Len(events)
        BY <2>1
      <4>1. Len(markers) \in 1..Len(markers)
        BY <2>1
      <4>2. PICK p \in 1..Len(segments) : IsIndex(segments[p]) /\ segments[p].id = Len(markers)
        BY <2>2, <4>1 DEF Layout, IndexAll
      <4>3. p <= pos
        BY <2>1
      <4> QED BY <4>2, <4>3 DEF IInv, Streamed, EventsAll
    <3> QED BY <2>1, <3>1, <3>2
  <2>5. ASSUME NEW i \in 1..Len(frags), frags[i].action = "bookmark"
        PROVE  \E e \in 1..Len(events) : markers[events[e].id] = Marker("bookmark", i, 0)
    <3>1. PICK x \in 1..Len(markers) : markers[x] = Marker("bookmark", i, 0)
      BY <2>2, <2>5 DEF Layout, Bookmarks
    <3>2. x \in 1..Len(events) /\ events[x].id = x
      BY <2>3, <2>4
    <3> QED BY <3>1, <3>2
  <2>6. ASSUME NEW i \in 1..Len(frags), frags[i].action \in {"speak", "spell"}, NEW w \in Texts(i)
        PROVE  \E k \in 1..Len(said) : said[k].frag = i /\ said[k].word = w
    <3>1. PICK p \in 1..Len(segments) :
            IsText(segments[p]) /\ segments[p].frag = i /\ segments[p].word = w
      BY <2>2, <2>6 DEF Layout, TextAll, Speaks
    <3>2. PICK k \in 1..Len(said) : SoundOf(k, p)
      BY <2>1, <3>1 DEF IInv, Streamed, SoundsAll
    <3> QED BY <3>1, <3>2 DEF SoundOf
  <2> QED BY <2>4, <2>5, <2>6
<1>3. IInv => CompleteMeansAll
  BY <1>1, <1>2 DEF CompleteMeansAll
<1> QED BY <1>3, Invariance, PTL
=============================================================================
