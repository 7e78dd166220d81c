--------------------------- MODULE VoiceTokensProofs ---------------------------
(* The numbering of voice tokens, the list of an enumerator, and what becomes *)
(* of an offered voice, for any number of languages, variants, enumerators    *)
(* and counts.                                                                *)
EXTENDS VoiceTokens, TLAPS, SequenceTheorems, FiniteSetTheorems

\* Integer division and remainder put a number together again.
LEMMA Division ==
  ASSUME NEW n \in Nat, NEW d \in Nat \ {0}
  PROVE  /\ n \div d \in Nat
         /\ n % d \in 0..d - 1
         /\ n = d * (n \div d) + (n % d)
OBVIOUS

\* voice_attributes: every token but the Configured Voice has a language and a
\* variant of the tables, and the two determine its number.
THEOREM Numbering ==
  ASSUME NEW i \in TokenIndices, i # 0
  PROVE  /\ LanguageOf(i) \in LanguageIndices
         /\ VariantOf(i) \in VariantIndices
         /\ i = Variants * LanguageOf(i) + VariantOf(i) + 1
<1> USE VoiceAssumption
<1> DEFINE q == (i - 1) \div Variants
           r == (i - 1) % Variants
<1>1. i \in Int /\ i - 1 \in Nat /\ i - 1 < Languages * Variants
  BY DEF TokenIndices
<1>2. q \in Nat /\ r \in 0..Variants - 1 /\ i - 1 = Variants * q + r
  BY <1>1, Division
<1>3. q < Languages
  <2> HIDE DEF q, r
  <2>1. Variants * q < Variants * Languages
    BY <1>1, <1>2
  <2> QED BY <1>2, <2>1
<1> QED
  BY <1>1, <1>2, <1>3 DEF LanguageOf, VariantOf, LanguageIndices, VariantIndices

\* get_name: no two tokens have the same name.
LEMMA NamesDiffer ==
  ASSUME NEW i \in TokenIndices, NEW k \in TokenIndices, NameOf(i) = NameOf(k)
  PROVE  i = k
<1>1. CASE i = 0 \/ k = 0
  BY <1>1 DEF NameOf
<1>2. CASE i # 0 /\ k # 0
  <2>1. VariantOf(i) = VariantOf(k) /\ LanguageOf(i) = LanguageOf(k)
    BY <1>2 DEF NameOf
  <2> QED BY <1>2, <2>1, Numbering
<1> QED BY <1>1, <1>2

\* SetObjectToken's search by name finds the very token it was given: the way
\* that does without the TokenIndex value loses nothing.
THEOREM NameGivesToken ==
  ASSUME NEW i \in TokenIndices
  PROVE  IndexOfName(NameOf(i)) = i
<1> DEFINE Found(k) == /\ k \in TokenIndices
                       /\ NameOf(k) = NameOf(i)
                       /\ \A j \in TokenIndices : NameOf(j) = NameOf(i) => k <= j
<1>1. i \in Int
  BY VoiceAssumption DEF TokenIndices
<1>2. \A k : Found(k) => k = i
  BY NamesDiffer
<1>3. Found(i)
  BY <1>1, NamesDiffer
<1>4. (CHOOSE k : Found(k)) = i
  <2> HIDE DEF Found
  <2> QED BY <1>2, <1>3
<1> QED
  BY <1>4 DEF IndexOfName

-----------------------------------------------------------------------------
(* The list of an enumerator                                               *)

\* A set that has 0, and n + 1 with every n, has every number: were m missing,
\* the numbers missing up to m would go, each to the one before it, into a set
\* with one element less.
LEMMA Induction ==
  ASSUME NEW S, 0 \in S, \A n \in Nat : n \in S => n + 1 \in S
  PROVE  Nat \subseteq S
<1> SUFFICES ASSUME NEW m \in Nat, m \notin S
             PROVE  FALSE
  OBVIOUS
<1> DEFINE U == {k \in 0..m : k \notin S}
           V == U \ {m}
           f == [k \in U |-> k - 1]
<1>1. IsFiniteSet(U) /\ Cardinality(U) \in Nat
  <2>1. IsFiniteSet(0..m) /\ U \in SUBSET (0..m)
    BY FS_Interval
  <2> QED BY <2>1, FS_Subset, FS_CardinalityType
<1>2. m \in U
  OBVIOUS
<1>3. IsFiniteSet(V) /\ Cardinality(V) = Cardinality(U) - 1
  BY <1>1, <1>2, FS_RemoveElement
<1>4. f \in [U -> V]
  <2> SUFFICES ASSUME NEW k \in U PROVE k - 1 \in V
    OBVIOUS
  <2>1. k # 0 /\ k - 1 \in Nat /\ (k - 1) + 1 = k
    OBVIOUS
  <2> QED BY <2>1
<1>5. \E x, y \in U : x # y /\ f[x] = f[y]
  <2> HIDE DEF U, V, f
  <2>1. Cardinality(V) < Cardinality(U)
    BY <1>1, <1>3
  <2> QED BY <1>1, <1>3, <1>4, <2>1, FS_PigeonHole
<1> QED BY <1>5

LEMMA Tokens == Languages * Variants \in Nat /\ TokenIndices = 0..Languages * Variants
BY VoiceAssumption DEF TokenIndices

\* What the constructor's loop has in its list after token n.
ListUpTo(m, n, s) ==
  /\ s \in Seq(TokenIndices)
  /\ \A k \in 1..Len(s) : s[k] <= n /\ Offers(m, s[k])
  /\ \A k, l \in 1..Len(s) : k < l => s[k] < s[l]
  /\ \A i \in 0..n : Offers(m, i) => \E k \in 1..Len(s) : s[k] = i

LEMMA ListStarts == ASSUME NEW m PROVE ListUpTo(m, 0, <<0>>)
<1>1. 0 \in TokenIndices
  BY Tokens
<1>2. <<0>> \in Seq(TokenIndices) /\ Len(<<0>>) = 1 /\ <<0>>[1] = 0
  BY <1>1
<1> QED BY <1>2 DEF ListUpTo, Offers

\* One turn of the loop.
LEMMA ListGrows ==
  ASSUME NEW m, NEW n \in Nat, n + 1 \in TokenIndices, NEW s, ListUpTo(m, n, s)
  PROVE  ListUpTo(m, n + 1, IF Offers(m, n + 1) THEN Append(s, n + 1) ELSE s)
<1> DEFINE t == Append(s, n + 1)
<1>1. /\ s \in Seq(TokenIndices) /\ Len(s) \in Nat
      /\ \A k \in 1..Len(s) : s[k] \in Nat
  BY Tokens DEF ListUpTo
<1>2. CASE ~Offers(m, n + 1)
  <2>1. \A k \in 1..Len(s) : s[k] <= n + 1
    BY <1>1 DEF ListUpTo
  <2>2. \A i \in 0..n + 1 : Offers(m, i) => i \in 0..n
    BY <1>2
  <2> QED BY <1>2, <2>1, <2>2 DEF ListUpTo
<1>3. CASE Offers(m, n + 1)
  <2>1. /\ t \in Seq(TokenIndices) /\ Len(t) = Len(s) + 1
        /\ \A k \in 1..Len(s) : t[k] = s[k]
        /\ t[Len(s) + 1] = n + 1
    BY <1>1
  <2>2. \A k \in 1..Len(t) : k \in 1..Len(s) \/ k = Len(s) + 1
    BY <1>1, <2>1
  <2> HIDE DEF t
  <2>3. \A k \in 1..Len(t) : t[k] <= n + 1 /\ Offers(m, t[k])
    BY <1>1, <1>3, <2>1, <2>2 DEF ListUpTo
  <2>4. \A k, l \in 1..Len(t) : k < l => t[k] < t[l]
    BY <1>1, <2>1, <2>2 DEF ListUpTo
  <2>5. \A i \in 0..n + 1 : Offers(m, i) => \E k \in 1..Len(t) : t[k] = i
    <3>1. \A i \in 0..n + 1 : i \in 0..n \/ i = n + 1
      OBVIOUS
    <3>2. Len(s) + 1 \in 1..Len(t) /\ 1..Len(s) \subseteq 1..Len(t)
      BY <1>1, <2>1
    <3> QED BY <2>1, <3>1, <3>2 DEF ListUpTo
  <2> QED BY <1>3, <2>1, <2>3, <2>4, <2>5 DEF ListUpTo, t
<1> QED BY <1>2, <1>3

\* The list of a manifest: ascending, and just the tokens it offers.
THEOREM OfferedInOrder ==
  ASSUME NEW m
  PROVE  ListUpTo(m, Languages * Variants, Offered(m))
<1> DEFINE N == Languages * Variants
           Turn(g, i) == IF i = 0 THEN <<0>>
                         ELSE IF Offers(m, i) THEN Append(g[i - 1], i) ELSE g[i - 1]
           Loop(n, g) == g = [i \in 0..n |-> Turn(g, i)]
<1>1. \A n \in Nat : \E g : Loop(n, g)
  <2> DEFINE S == {n \in Nat : \E g : Loop(n, g)}
  <2>1. 0 \in S
    <3> DEFINE g == [i \in 0..0 |-> <<0>>]
    <3>1. Loop(0, g)
      OBVIOUS
    <3> QED BY <3>1
  <2>2. ASSUME NEW n \in Nat, n \in S PROVE n + 1 \in S
    <3>1. PICK g : Loop(n, g)
      BY <2>2
    <3> HIDE DEF Turn
    <3>4. \A i \in 0..n : g[i] = Turn(g, i)
      BY <3>1
    <3> USE DEF Turn
    <3> DEFINE h == [i \in 0..n + 1 |-> IF i = n + 1 THEN Turn(g, n + 1) ELSE g[i]]
    <3>2. \A i \in 0..n + 1 : h[i] = Turn(h, i)
      <4> SUFFICES ASSUME NEW i \in 0..n + 1 PROVE h[i] = Turn(h, i)
        OBVIOUS
      <4>1. CASE i = n + 1
        <5>1. i # 0 /\ i - 1 = n /\ h[n] = g[n]
          BY <4>1
        <5> QED BY <4>1, <5>1
      <4>2. CASE i # n + 1
        <5>1. i \in 0..n /\ h[i] = g[i] /\ g[i] = Turn(g, i)
          BY <3>4, <4>2
        <5>2. i # 0 => i - 1 \in 0..n + 1 /\ i - 1 # n + 1
          BY <5>1
        <5>3. i # 0 => h[i - 1] = g[i - 1]
          BY <5>2
        <5> QED BY <5>1, <5>3
      <4> QED BY <4>1, <4>2
    <3>3. Loop(n + 1, h)
      <4>1. h = [i \in 0..n + 1 |-> h[i]]
        OBVIOUS
      <4> HIDE DEF Turn, h
      <4> QED BY <3>2, <4>1
    <3> HIDE DEF Loop, h
    <3> QED BY <3>3
  <2> HIDE DEF S
  <2>3. Nat \subseteq S
    BY <2>1, <2>2, Induction
  <2> QED BY <2>3 DEF S
<1> DEFINE list == CHOOSE g : Loop(N, g)
<1>2. Offered(m) = list[N]
  BY Tokens DEF Offered
<1>3. Loop(N, list)
  <2> HIDE DEF Loop
  <2> QED BY <1>1, Tokens
<1>4. \A n \in Nat : n <= N => ListUpTo(m, n, list[n])
  <2> DEFINE S == {n \in Nat : n <= N => ListUpTo(m, n, list[n])}
  <2> HIDE DEF list
  <2>1. 0 \in S
    BY <1>3, ListStarts, Tokens
  <2>2. ASSUME NEW n \in Nat, n \in S PROVE n + 1 \in S
    <3>1. SUFFICES ASSUME n + 1 <= N PROVE ListUpTo(m, n + 1, list[n + 1])
      OBVIOUS
    <3>2. n <= N /\ n + 1 \in 0..N /\ n + 1 # 0 /\ (n + 1) - 1 = n
      BY <3>1, Tokens
    <3>3. list[n + 1] = IF Offers(m, n + 1) THEN Append(list[n], n + 1) ELSE list[n]
      BY <1>3, <3>2
    <3>4. ListUpTo(m, n, list[n])
      BY <2>2, <3>2
    <3> QED BY <3>2, <3>3, <3>4, ListGrows, Tokens
  <2> HIDE DEF S
  <2>3. Nat \subseteq S
    BY <2>1, <2>2, Induction
  <2> QED BY <2>3 DEF S
<1> QED
  <2> HIDE DEF list
  <2> QED BY <1>2, <1>4, Tokens

-----------------------------------------------------------------------------
(* The invariant                                                           *)

\* A process that has offered, kept or taken a voice has read its manifest.
Manifested ==
  /\ manifest \in Manifests \cup {None}
  /\ manifest # None => manifest.languages # {}

ListsAreOffers ==
  \A e \in Enums : Live(e) =>
    /\ manifest # None
    /\ voices[e] = Offered(manifest)
    /\ index[e] \in 0..Len(voices[e])
    /\ passed[e] = SubSeq(voices[e], 1, index[e])

OfferedToken(i) == manifest # None /\ i \in TokenIndices /\ Offers(manifest, i)

HeldIsOffered == held # None => OfferedToken(held)

EngineHasOffer ==
  /\ token # None => OfferedToken(chosen) /\ token \in {chosen, 0}
  /\ token = None => chosen = None
  /\ spoke # None =>
       /\ token # None
       /\ spoke \in [language : LanguageIndices, variant : VariantIndices]
       /\ token # 0 => spoke.language = LanguageOf(token) /\ spoke.variant = VariantOf(token)

Simple ==
  /\ ini \in Files \cup {None}
  /\ answer \in {"ok", "short", "failed", "noMore"}
  /\ DOMAIN voices = Enums /\ DOMAIN index = Enums /\ DOMAIN passed = Enums

IInv == Simple /\ Manifested /\ ListsAreOffers /\ HeldIsOffered /\ EngineHasOffer

LEMMA OfferedIsList ==
  ASSUME NEW m
  PROVE  /\ Offered(m) \in Seq(TokenIndices)
         /\ Len(Offered(m)) \in Nat
         /\ \A k \in 1..Len(Offered(m)) : Offered(m)[k] \in TokenIndices /\ Offers(m, Offered(m)[k])
BY OfferedInOrder DEF ListUpTo

\* What voices.ini, or nothing, makes of the manifest.
LEMMA Loaded ==
  ASSUME Simple
  PROVE  LoadManifest \in Manifests /\ LoadManifest.languages # {}
<1>1. LanguageIndices # {} /\ VariantIndices # {}
  <2>1. 0 \in LanguageIndices /\ 0 \in VariantIndices
    BY VoiceAssumption DEF LanguageIndices, VariantIndices
  <2> QED BY <2>1
<1>2. CASE ini = None
  BY <1>1, <1>2 DEF LoadManifest, Everything, Manifests
<1>3. CASE ini \in Files
  <2>1. ini \in Manifests /\ ini # None
    BY <1>3, VoiceAssumption
  <2> QED BY <1>1, <2>1 DEF LoadManifest, OrAll, Manifests
<1> QED BY <1>2, <1>3 DEF Simple

\* The first use and every later one give the same manifest.
LEMMA ManifestKnown ==
  ASSUME Simple, Manifested
  PROVE  /\ Manifest \in Manifests /\ Manifest # None /\ Manifest.languages # {}
         /\ manifest # None => Manifest = manifest
BY Loaded, VoiceAssumption DEF Manifest, Manifested

\* A nonempty set of numbers has a smallest one.
LEMMA FirstLanguageIsOne ==
  ASSUME NEW m \in Manifests, m.languages # {}
  PROVE  FirstLanguage(m) \in m.languages
<1> DEFINE L == m.languages
           S == {n \in Nat : \A l \in L : n <= l}
<1>1. L \subseteq Nat
  BY VoiceAssumption DEF Manifests, LanguageIndices
<1>2. PICK n \in Nat : n \in S /\ n + 1 \notin S
  <2> HIDE DEF L
  <2> SUFFICES ASSUME \A n \in Nat : n \in S => n + 1 \in S
               PROVE  FALSE
    OBVIOUS
  <2>1. 0 \in S
    BY <1>1
  <2> HIDE DEF S
  <2>2. Nat \subseteq S
    BY <2>1, Induction
  <2>3. PICK l \in L : TRUE
    BY DEF L
  <2>4. l + 1 \in S
    BY <1>1, <2>2
  <2> QED BY <1>1, <2>4 DEF S
<1>3. PICK l \in L : n <= l /\ ~(n + 1 <= l)
  BY <1>2
<1>4. l = n
  BY <1>1, <1>3
<1>5. \A k \in L : l <= k
  BY <1>2, <1>4
<1>6. \E f \in m.languages : \A k \in m.languages : f <= k
  BY <1>5
<1> QED BY <1>6 DEF FirstLanguage

\* Between two Resets the cursor and what has passed move together.
LEMMA Passing ==
  ASSUME IInv, NEW e \in Enums, Live(e), NEW n \in Nat, Advance(e, n)
  PROVE  /\ index'[e] \in index[e]..Len(voices[e])
         /\ passed'[e] = SubSeq(voices[e], 1, index'[e])
         /\ \A f \in Enums : f # e => index'[f] = index[f] /\ passed'[f] = passed[f]
         /\ DOMAIN index' = Enums /\ DOMAIN passed' = Enums
         /\ answer' \in {"ok", "short"}
<1> DEFINE v == voices[e]
           k == index[e]
           to == Smaller(k + n, Len(v))
<1>1. /\ v \in Seq(TokenIndices) /\ Len(v) \in Nat
      /\ k \in 0..Len(v) /\ passed[e] = SubSeq(v, 1, k)
  BY OfferedIsList DEF IInv, ListsAreOffers
<1>2. to \in k..Len(v) /\ to \in Int
  BY <1>1 DEF Smaller
<1>3. index'[e] = to /\ passed'[e] = passed[e] \o SubSeq(v, k + 1, to)
  BY DEF Advance, IInv, Simple
<1>4. SubSeq(v, 1, k) \o SubSeq(v, k + 1, to) = SubSeq(v, 1, to)
  <2> HIDE DEF v, k, to
  <2>1. 1 \in 1..Len(v) + 1 /\ k \in 1 - 1..Len(v) /\ to \in k..Len(v)
    BY <1>1, <1>2
  <2> QED BY <1>1, <2>1, ConcatAdjacentSubSeq
<1>5. /\ \A f \in Enums : f # e => index'[f] = index[f] /\ passed'[f] = passed[f]
      /\ DOMAIN index' = Enums /\ DOMAIN passed' = Enums
      /\ answer' \in {"ok", "short"}
  BY DEF Advance, IInv, Simple
<1> HIDE DEF v, k, to
<1> QED
  BY <1>1, <1>2, <1>3, <1>4, <1>5 DEF v, k

\* Steps that leave the enumerators as they are, and the manifest or nothing read.
LEMMA ListsStay ==
  ASSUME IInv, UNCHANGED enumVars, manifest # None => manifest' = manifest
  PROVE  ListsAreOffers' /\ DOMAIN voices' = Enums /\ DOMAIN index' = Enums /\ DOMAIN passed' = Enums
BY DEF IInv, Simple, ListsAreOffers, Live, enumVars

LEMMA EngineStays ==
  ASSUME IInv, UNCHANGED engineVars, manifest # None => manifest' = manifest
  PROVE  EngineHasOffer'
BY DEF IInv, EngineHasOffer, OfferedToken, engineVars

LEMMA HeldStays ==
  ASSUME IInv, UNCHANGED held, manifest # None => manifest' = manifest
  PROVE  HeldIsOffered'
BY DEF IInv, HeldIsOffered, OfferedToken

LEMMA ManifestStays ==
  ASSUME IInv, UNCHANGED manifest
  PROVE  Manifested'
BY DEF IInv, Manifested

\* What an enumerator holds is offered.
LEMMA ElementOffered ==
  ASSUME IInv, NEW e \in Enums, Live(e), NEW i \in 1..Len(voices[e])
  PROVE  OfferedToken(voices[e][i])
BY OfferedIsList DEF IInv, ListsAreOffers, OfferedToken

LEMMA CreateStep ==
  ASSUME IInv, NEW e \in Enums, Create(e)
  PROVE  IInv'
<1>1. /\ Manifest \in Manifests /\ Manifest # None /\ Manifest.languages # {}
      /\ manifest # None => Manifest = manifest
  BY ManifestKnown DEF IInv
<1>2. manifest' = Manifest
  BY DEF Create
<1>3. Simple' /\ Manifested'
  BY <1>1, <1>2 DEF Create, IInv, Simple, Manifested
<1>4. ListsAreOffers'
  <2> SUFFICES ASSUME NEW f \in Enums, Live(f)'
               PROVE  /\ voices'[f] = Offered(manifest')
                      /\ index'[f] \in 0..Len(voices'[f])
                      /\ passed'[f] = SubSeq(voices'[f], 1, index'[f])
    BY <1>1, <1>2 DEF ListsAreOffers
  <2>1. CASE f = e
    <3>1. voices'[f] = Offered(manifest') /\ index'[f] = 0 /\ passed'[f] = <<>>
      BY <1>2, <2>1 DEF Create, IInv, Simple
    <3>2. SubSeq(voices'[f], 1, 0) = <<>>
      BY SubSeqEmpty
    <3>3. Len(voices'[f]) \in Nat
      BY <3>1, OfferedIsList
    <3> QED BY <3>1, <3>2, <3>3
  <2>2. CASE f # e
    <3>1. voices'[f] = voices[f] /\ index'[f] = index[f] /\ passed'[f] = passed[f]
      BY <2>2 DEF Create, IInv, Simple
    <3>2. Live(f)
      BY <3>1 DEF Live
    <3> QED BY <1>1, <1>2, <3>1, <3>2 DEF IInv, ListsAreOffers
  <2> QED BY <2>1, <2>2
<1>5. HeldIsOffered' /\ EngineHasOffer'
  BY <1>1, <1>2, HeldStays, EngineStays DEF Create
<1> QED BY <1>3, <1>4, <1>5 DEF IInv

LEMMA ReleaseStep ==
  ASSUME IInv, NEW e \in Enums, Release(e)
  PROVE  IInv'
<1>1. Simple'
  BY DEF Release, IInv, Simple
<1>2. ListsAreOffers'
  BY DEF Release, IInv, Simple, ListsAreOffers, Live
<1> QED
  BY <1>1, <1>2, ManifestStays, HeldStays, EngineStays DEF Release, IInv

\* An Advance that leaves the lists and the manifest.
LEMMA AdvanceStep ==
  ASSUME IInv, NEW e \in Enums, Live(e), NEW n \in Nat, Advance(e, n),
         UNCHANGED <<ini, manifest, voices, engineVars>>
  PROVE  Simple' /\ Manifested' /\ ListsAreOffers' /\ EngineHasOffer'
<1>1. Simple'
  BY Passing DEF IInv, Simple
<1>2. ListsAreOffers'
  <2> SUFFICES ASSUME NEW f \in Enums, Live(f)
               PROVE  /\ index'[f] \in 0..Len(voices[f])
                      /\ passed'[f] = SubSeq(voices[f], 1, index'[f])
    BY DEF ListsAreOffers, Live, IInv
  <2>1. CASE f = e
    <3>1. index[e] \in 0..Len(voices[e]) /\ Len(voices[e]) \in Nat
      BY OfferedIsList DEF IInv, ListsAreOffers
    <3> QED BY <2>1, <3>1, Passing
  <2>2. CASE f # e
    BY <2>2, Passing DEF IInv, ListsAreOffers
  <2> QED BY <2>1, <2>2
<1> QED BY <1>1, <1>2, ManifestStays, EngineStays

LEMMA DeliverStep ==
  ASSUME IInv, NEW e \in Enums, NEW n \in Counts, Deliver(e, n)
  PROVE  IInv'
<1>1. n \in Nat /\ Live(e) /\ Advance(e, n)
  BY VoiceAssumption DEF Deliver
<1>2. \A i \in index[e] + 1..index'[e] : i \in 1..Len(voices[e])
  <2>1. index[e] \in 0..Len(voices[e]) /\ Len(voices[e]) \in Nat
    BY <1>1, OfferedIsList DEF IInv, ListsAreOffers
  <2>2. index'[e] \in index[e]..Len(voices[e])
    BY <1>1, Passing
  <2> QED BY <2>1, <2>2
<1>3. held' # held => OfferedToken(held')
  BY <1>1, <1>2, ElementOffered DEF Deliver
<1>4. HeldIsOffered'
  BY <1>3 DEF IInv, HeldIsOffered, OfferedToken, Deliver
<1> QED
  BY <1>1, <1>4, AdvanceStep DEF Deliver, IInv

LEMMA ResetStep ==
  ASSUME IInv, NEW e \in Enums, Reset(e)
  PROVE  IInv'
<1>1. Simple'
  BY DEF Reset, IInv, Simple
<1>2. ListsAreOffers'
  <2> SUFFICES ASSUME NEW f \in Enums, Live(f)
               PROVE  /\ index'[f] \in 0..Len(voices[f])
                      /\ passed'[f] = SubSeq(voices[f], 1, index'[f])
    BY DEF ListsAreOffers, Live, IInv, Reset
  <2>1. CASE f = e
    <3>1. index'[f] = 0 /\ passed'[f] = <<>>
      BY <2>1 DEF Reset, IInv, Simple
    <3>2. Len(voices[f]) \in Nat
      BY OfferedIsList DEF IInv, ListsAreOffers
    <3> QED BY <3>1, <3>2, SubSeqEmpty
  <2>2. CASE f # e
    BY <2>2 DEF IInv, Simple, ListsAreOffers, Reset
  <2> QED BY <2>1, <2>2
<1> QED
  BY <1>1, <1>2, ManifestStays, HeldStays, EngineStays DEF Reset, IInv

LEMMA ItemStep ==
  ASSUME IInv, NEW e \in Enums, NEW i \in Counts, Item(e, i)
  PROVE  IInv'
<1>1. i \in Nat /\ Live(e) /\ Len(voices[e]) \in Nat
  BY VoiceAssumption, OfferedIsList DEF Item, IInv, ListsAreOffers
<1>2. Simple'
  BY DEF Item, IInv, Simple, enumVars
<1>3. held' # held => OfferedToken(held')
  <2> SUFFICES ASSUME held' # held PROVE OfferedToken(held')
    OBVIOUS
  <2>1. i < Len(voices[e]) /\ held' = voices[e][i + 1]
    BY DEF Item
  <2>2. i + 1 \in 1..Len(voices[e])
    BY <1>1, <2>1
  <2> QED BY <1>1, <2>1, <2>2, ElementOffered
<1>4. HeldIsOffered'
  BY <1>3 DEF IInv, HeldIsOffered, OfferedToken, Item
<1> QED
  BY <1>2, <1>4, ManifestStays, ListsStay, EngineStays DEF Item, IInv

LEMMA CloneStep ==
  ASSUME IInv, NEW e \in Enums, NEW f \in Enums, Clone(e, f)
  PROVE  IInv'
<1>1. Simple'
  BY DEF Clone, IInv, Simple
<1>2. ListsAreOffers'
  <2> SUFFICES ASSUME NEW g \in Enums, Live(g)'
               PROVE  /\ manifest # None
                      /\ voices'[g] = Offered(manifest)
                      /\ index'[g] \in 0..Len(voices'[g])
                      /\ passed'[g] = SubSeq(voices'[g], 1, index'[g])
    BY DEF ListsAreOffers, Clone
  <2>1. PICK h \in Enums : /\ voices'[g] = voices[h] /\ index'[g] = index[h]
                           /\ passed'[g] = passed[h]
    <3>1. CASE g = f
      BY <3>1 DEF Clone, IInv, Simple
    <3>2. CASE g # f
      BY <3>2 DEF Clone, IInv, Simple
    <3> QED BY <3>1, <3>2
  <2>2. Live(h)
    BY <2>1 DEF Live
  <2> QED BY <2>1, <2>2 DEF IInv, ListsAreOffers
<1> QED
  BY <1>1, <1>2, ManifestStays, HeldStays, EngineStays DEF Clone, IInv

LEMMA TokenStep ==
  ASSUME IInv, SetObjectToken
  PROVE  IInv'
<1>1. OfferedToken(held) /\ held # None
  BY DEF SetObjectToken, IInv, HeldIsOffered
<1>2. token' \in {held, 0} /\ chosen' = held
  BY <1>1, NameGivesToken DEF SetObjectToken, OfferedToken
<1>3. token' # None /\ chosen' # None
  BY <1>1, <1>2, Tokens, VoiceAssumption
<1>4. EngineHasOffer'
  BY <1>1, <1>2, <1>3 DEF SetObjectToken, EngineHasOffer, OfferedToken
<1>5. Simple'
  BY DEF SetObjectToken, IInv, Simple, enumVars
<1> QED
  BY <1>4, <1>5, ManifestStays, ListsStay, HeldStays DEF SetObjectToken, IInv

LEMMA SpeakStep ==
  ASSUME IInv, Speak
  PROVE  IInv'
<1>1. /\ OfferedToken(chosen) /\ token \in {chosen, 0} /\ token # None
      /\ Manifest = manifest /\ manifest' = manifest
  BY ManifestKnown DEF Speak, IInv, EngineHasOffer, OfferedToken
<1>2. /\ manifest \in Manifests /\ manifest # None /\ manifest.languages # {}
      /\ manifest.languages \subseteq LanguageIndices
  BY <1>1 DEF IInv, Manifested, OfferedToken, Manifests
<1>3. PICK c \in LanguageIndices \X VariantIndices :
        LET l == IF token = 0 THEN c[1] ELSE LanguageOf(token)
            v == IF token = 0 THEN c[2] ELSE VariantOf(token)
        IN  spoke' = [language |-> IF l \in manifest.languages THEN l
                                   ELSE FirstLanguage(manifest),
                      variant |-> v]
  BY <1>1 DEF Speak
<1>4. FirstLanguage(manifest) \in LanguageIndices
  BY <1>2, FirstLanguageIsOne
<1>5. /\ token = 0 \/ (spoke'.language = LanguageOf(token) /\ spoke'.variant = VariantOf(token))
      /\ spoke' \in [language : LanguageIndices, variant : VariantIndices]
  <2>1. CASE token = 0
    BY <1>1, <1>2, <1>3, <1>4, <2>1
  <2>2. CASE token # 0
    <3>1. /\ token \in TokenIndices /\ Offers(manifest, token)
          /\ LanguageOf(token) \in manifest.languages
      BY <1>1, <2>2 DEF OfferedToken, Offers
    <3>2. VariantOf(token) \in VariantIndices
      BY <2>2, <3>1, Numbering
    <3>3. spoke' = [language |-> LanguageOf(token), variant |-> VariantOf(token)]
      BY <1>3, <2>2, <3>1
    <3> QED BY <1>2, <3>1, <3>2, <3>3
  <2> QED BY <2>1, <2>2
<1>6. EngineHasOffer'
  BY <1>1, <1>5 DEF Speak, EngineHasOffer, OfferedToken
<1>7. Simple'
  BY DEF Speak, IInv, Simple, enumVars
<1> QED
  BY <1>1, <1>6, <1>7, ManifestStays, ListsStay, HeldStays DEF Speak, IInv

LEMMA ExitStep ==
  ASSUME IInv, Exit
  PROVE  IInv'
<1>1. \A e \in Enums : ~Live(e)'
  BY DEF Exit, Live
<1> QED
  BY <1>1 DEF Exit, IInv, Simple, Manifested, ListsAreOffers, HeldIsOffered, EngineHasOffer

LEMMA IInvInit == Init => IInv
<1> SUFFICES ASSUME Init PROVE IInv
  OBVIOUS
<1>1. \A e \in Enums : ~Live(e)
  BY DEF Init, Live
<1> QED
  BY <1>1 DEF Init, IInv, Simple, Manifested, ListsAreOffers, HeldIsOffered, EngineHasOffer

LEMMA IInvStep == IInv /\ [Next]_vars => IInv'
<1> SUFFICES ASSUME IInv, [Next]_vars PROVE IInv'
  OBVIOUS
<1>1. CASE Setup
  <2>1. Simple'
    BY <1>1 DEF Setup, IInv, Simple, enumVars
  <2> QED BY <1>1, <2>1, ManifestStays, ListsStay, HeldStays, EngineStays DEF Setup, IInv
<1>2. CASE \E e \in Enums, n \in Counts : DeliverFails(e, n)
  <2>1. Simple'
    BY <1>2 DEF DeliverFails, IInv, Simple, enumVars
  <2> QED BY <1>2, <2>1, ManifestStays, ListsStay, HeldStays, EngineStays DEF DeliverFails, IInv
<1>3. CASE \E e \in Enums, n \in Counts : Skip(e, n)
  <2>1. PICK e \in Enums, n \in Counts : Skip(e, n)
    BY <1>3
  <2>2. n \in Nat
    BY VoiceAssumption
  <2> QED BY <2>1, <2>2, AdvanceStep, HeldStays DEF Skip, IInv
<1>4. CASE UNCHANGED vars
  <2>1. Simple'
    BY <1>4 DEF vars, IInv, Simple, enumVars
  <2> QED BY <1>4, <2>1, ManifestStays, ListsStay, HeldStays, EngineStays DEF vars, IInv
<1> QED
  BY <1>1, <1>2, <1>3, <1>4, CreateStep, ReleaseStep, DeliverStep, ResetStep, ItemStep,
     CloneStep, TokenStep, SpeakStep, ExitStep DEF Next

LEMMA IInvHolds == Spec => []IInv
<1>1. IInv /\ [Next]_vars => IInv'
  BY IInvStep
<1> QED BY <1>1, IInvInit, PTL DEF Spec

-----------------------------------------------------------------------------
(* Theorems                                                                *)

\* The cursor of an enumerator never leaves its list, and manifest, held and
\* token are what their names say.
THEOREM TypeCorrect == Spec => []TypeOK
<1>1. IInv => TypeOK
  <2> SUFFICES ASSUME IInv PROVE TypeOK
    OBVIOUS
  <2>1. ASSUME NEW e \in Enums, Live(e)
        PROVE  /\ voices[e] \in Seq(TokenIndices)
               /\ passed[e] \in Seq(TokenIndices)
               /\ index[e] \in 0..Len(voices[e])
    <3>1. /\ voices[e] \in Seq(TokenIndices) /\ Len(voices[e]) \in Nat
          /\ index[e] \in 0..Len(voices[e]) /\ passed[e] = SubSeq(voices[e], 1, index[e])
      BY <2>1, OfferedIsList DEF IInv, ListsAreOffers
    <3>2. \A i \in 1..index[e] : voices[e][i] \in TokenIndices
      BY <3>1
    <3>3. SubSeq(voices[e], 1, index[e]) \in Seq(TokenIndices)
      BY <3>1, <3>2, SubSeqProperties
    <3> QED BY <3>1, <3>3
  <2>2. token \in TokenIndices \cup {None} /\ chosen \in TokenIndices \cup {None}
    BY Tokens DEF IInv, EngineHasOffer, OfferedToken
  <2>3. held \in TokenIndices \cup {None}
    BY DEF IInv, HeldIsOffered, OfferedToken
  <2>4. spoke \in [language : LanguageIndices, variant : VariantIndices] \cup {None}
    BY DEF IInv, EngineHasOffer
  <2> QED BY <2>1, <2>2, <2>3, <2>4 DEF TypeOK, IInv, Simple, Manifested
<1> QED BY <1>1, IInvHolds, PTL

\* Between two Resets an enumerator passes its voices once and in order, for
\* any length of list, any counts and any failures.
THEOREM EachVoiceHolds == Spec => []EachVoiceOnce
<1>1. IInv => EachVoiceOnce
  BY DEF IInv, ListsAreOffers, EachVoiceOnce
<1> QED BY <1>1, IInvHolds, PTL

\* A voice that was offered speaks in its own language and variant.
THEOREM OfferedVoiceHolds == Spec => []OfferedVoiceIsItself
<1>1. IInv => OfferedVoiceIsItself
  <2> SUFFICES ASSUME IInv, spoke # None, token # 0
               PROVE  chosen = Variants * spoke.language + spoke.variant + 1
    BY DEF OfferedVoiceIsItself
  <2>1. /\ token = chosen /\ token \in TokenIndices
        /\ spoke.language = LanguageOf(token) /\ spoke.variant = VariantOf(token)
    BY DEF IInv, EngineHasOffer, OfferedToken
  <2> QED BY <2>1, Numbering
<1> QED BY <1>1, IInvHolds, PTL
================================================================================
