-------------------------- MODULE WordMarkersProofs --------------------------
(***************************************************************************)
(* What WordMarkers hands to the engine, for texts of any length: the      *)
(* whole text once, no annotation cut, and each marker at its own word.    *)
(*                                                                         *)
(* The first two need to know only where the split stands (Position) and   *)
(* that it leaves every annotation (Clear).  The markers need the whole    *)
(* way of a word: the split reads the words of the text it is given        *)
(* (Reading), those of the original are kept in order (Listed); up to the  *)
(* first join or split the fixes drop nothing but spaces (Cleaning, the    *)
(* lemmas from Front on); the pauses insert nothing but themselves         *)
(* (Shortening, Placed).  So as long as nothing has changed the number of  *)
(* words (Intact), those that begin in the rewritten text are those of the *)
(* original, and counting pairs them (Paired).                             *)
(***************************************************************************)
EXTENDS WordMarkers, SequenceTheorems, TLAPS

\* Where the split stands: nothing is made before the second one, and what is
\* flushed ends before the token that is being read.
Position ==
  /\ phase \notin {"processed", "done"} =>
       flushed = 0 /\ segments = <<>> /\ markers = <<>>
  /\ kind # "none" => Splitting /\ start \in 1..i
  /\ phase = "processed" => flushed <= i /\ (kind # "none" => flushed < start)

-----------------------------------------------------------------------------
LEMMA InitTyped == Init => TypeOK /\ Position /\ TextOnce
<1> SUFFICES ASSUME Init PROVE TypeOK /\ Position /\ TextOnce
  OBVIOUS
<1>1. original \in Seq(Classes) /\ Len(original) \in Nat
  BY TextAssumption DEF Init
<1>2. \A k \in 1..Len(original) : Shown(k) \in Classes
  BY <1>1, ElementOfSeq DEF Shown, Classes
<1>3. text \in [1..Len(original) -> Chars]
  BY <1>2, <1>1 DEF Init, Chars
<1>4. text \in Seq(Chars)
  BY <1>1, <1>3, SeqDef
<1>5. TypeOK
  BY <1>4 DEF Init, TypeOK, Splitting
<1>6. QED
  BY <1>5 DEF Init, Position, TextOnce

\* The scan of the first rewriting stays within the original.
LEMMA OriginalTyped ==
  ASSUME TypeOK
  PROVE  original \in Seq(Classes) /\ \A k \in 1..Len(original) : Shown(k) \in Classes
<1>1. original \in Seq(Classes)
  BY TextAssumption DEF TypeOK
<1>2. \A k \in 1..Len(original) : original[k] \in Classes
  BY <1>1, ElementOfSeq
<1>3. QED
  BY <1>1, <1>2 DEF Shown, Classes

LEMMA FlushTyped ==
  ASSUME TypeOK, NEW last \in Nat, Flush(last)
  PROVE  segments' \in Seq(Segments)
<1>1. CASE flushed < last
  <2> DEFINE new == [first |-> flushed + 1, last |-> last]
  <2>1. new \in Segments /\ segments \in Seq(Segments)
    BY DEF TypeOK, Segments
  <2>2. segments' = Append(segments, new)
    BY <1>1 DEF Flush
  <2> HIDE DEF new
  <2>3. QED
    BY <2>1, <2>2, AppendProperties
<1>2. CASE ~(flushed < last)
  BY <1>2 DEF Flush, TypeOK
<1>3. QED
  BY <1>1, <1>2

\* What the language fixes insert.
LEMMA InsertsTyped ==
  ASSUME NEW k, NEW s \in Inserts(k)
  PROVE  s \in Seq(Chars) /\ \A p \in 1..Len(s) : s[p].from = 0
<1>1. /\ Space \in Chars /\ Backquote \in Chars /\ Digit \in Chars
      /\ Space.from = 0 /\ Backquote.from = 0 /\ Digit.from = 0
  BY DEF Space, Backquote, Digit, Chars, Classes
<1>2. s = <<Space>> \/ s = <<Space, Backquote, Digit, Space>>
  BY DEF Inserts
<1>3. CASE s = <<Space>>
  BY <1>1, <1>3
<1>4. CASE s = <<Space, Backquote, Digit, Space>>
  BY <1>1, <1>4
<1>5. QED
  BY <1>2, <1>3, <1>4

\* Every action keeps the types.
LEMMA Typed == TypeOK /\ Position /\ [Next]_vars => TypeOK'
<1> SUFFICES ASSUME TypeOK, Position, [Next]_vars PROVE TypeOK'
  OBVIOUS
<1> USE DEF inputs, fixed, token, output
<1>1. CASE StartToken
  <2>1. kind' \in {"annotation", "word", "other"}
    BY <1>1 DEF StartToken, KindOf
  <2>2. QED
    BY <1>1, <2>1 DEF StartToken, TypeOK, Splitting
<1>2. CASE Extend
  BY <1>2 DEF Extend, TypeOK, Splitting
<1>3. CASE OriginalWord
  <2>1. i + 1 - start \in Nat
    BY <1>3 DEF OriginalWord, TokenEnds, Position, TypeOK
  <2>2. words' \in Seq([off : Nat, len : Nat])
    BY <1>3, <2>1, AppendProperties DEF OriginalWord, TypeOK
  <2>3. QED
    BY <1>3, <2>2 DEF OriginalWord, TypeOK, Splitting
<1>4. CASE SpokenWord
  <2>1. start - 1 \in Nat
    BY <1>4 DEF SpokenWord, TokenEnds, Position, TypeOK
  <2>2. segments' \in Seq(Segments)
    BY <1>4, <2>1, FlushTyped DEF SpokenWord
  <2>3. markers' \in Seq([word : Nat, at : Nat])
    <3>1. [word |-> wordNum + 1, at |-> start] \in [word : Nat, at : Nat]
      BY DEF TypeOK
    <3>2. QED
      BY <1>4, <3>1, AppendProperties DEF SpokenWord, TypeOK
  <2>4. QED
    BY <1>4, <2>1, <2>2, <2>3 DEF SpokenWord, TypeOK, Splitting
<1>5. CASE NoWord
  BY <1>5 DEF NoWord, TypeOK, Splitting
<1>6. CASE Preprocess
  BY <1>6 DEF Preprocess, TypeOK, Splitting
<1>7. CASE Clean
  <2>1. i + 1 \in 1..Len(original)
    <3>1. \E j \in (i + 1)..Len(original) : TRUE
      BY <1>7 DEF Clean, Trailing
    <3>2. Len(original) \in Nat /\ i \in Nat
      BY OriginalTyped DEF TypeOK
    <3>3. QED
      BY <3>1, <3>2
  <2>2. source' \in Seq(Chars) /\ changed' \subseteq Nat
    <3>1. /\ Char(i + 1) \in Chars /\ source \in Seq(Chars)
          /\ changed \subseteq Nat /\ i \in Nat
      BY <2>1, OriginalTyped DEF Char, Chars, TypeOK
    <3>2. Append(source, Char(i + 1)) \in Seq(Chars)
      BY <3>1, AppendProperties
    <3>3. CASE Keep
      BY <3>1, <3>2, <3>3 DEF Keep
    <3>4. CASE KeepAndInsert
      <4>1. PICK s \in Inserts(i + 1) :
              /\ source' = Append(source, Char(i + 1)) \o s
              /\ changed' = changed \cup {i + 1}
        BY <3>4 DEF KeepAndInsert
      <4>2. s \in Seq(Chars)
        BY InsertsTyped
      <4>3. QED
        BY <3>1, <3>2, <4>1, <4>2, ConcatProperties
    <3>5. CASE Drop \/ Join
      BY <3>1, <3>5 DEF Drop, Join
    <3>6. QED
      BY <1>7, <3>3, <3>4, <3>5 DEF Clean
  <2>3. QED
    BY <1>7, <2>2 DEF Clean, TypeOK, Splitting
<1>8. CASE Cleaned
  <2>1. text' \in Seq(Chars) /\ phase' \in {"pause", "processed"} /\ i' = 0
    BY <1>8 DEF Cleaned, TypeOK
  <2>2. QED
    BY <1>8, <2>1 DEF Cleaned, TypeOK, Splitting
<1>9. CASE Copy
  <2>1. text' \in Seq(Chars)
    BY <1>9 DEF Copy, TypeOK
  <2>2. QED
    BY <1>9, <2>1 DEF Copy, TypeOK, Splitting
<1>10. CASE Shorten
  <2>1. PICK e \in (i + 2)..Len(source) :
          LET to == IF e < Len(source) THEN e + 1 ELSE e IN
          /\ text' = text \o <<source[i + 1], Space, Backquote, Digit, Digit>>
                          \o SubSeq(source, i + 2, to)
          /\ i' = to
    BY <1>10 DEF Shorten
  <2> DEFINE to == IF e < Len(source) THEN e + 1 ELSE e
  <2>2. Len(source) \in Nat /\ i \in Nat /\ e \in Nat /\ e <= Len(source) /\ i + 2 <= e
    BY <2>1 DEF TypeOK
  <2>3. to \in Nat /\ to <= Len(source) /\ i + 1 \in 1..Len(source)
    BY <2>2
  <2>4. source[i + 1] \in Chars /\ \A j \in (i + 2)..to : source[j] \in Chars
    BY <2>2, <2>3, ElementOfSeq DEF TypeOK
  <2>5. SubSeq(source, i + 2, to) \in Seq(Chars)
    BY <2>2, <2>3, <2>4, SubSeqProperties
  <2>6. <<source[i + 1], Space, Backquote, Digit, Digit>> \in Seq(Chars)
    <3>1. Space \in Chars /\ Backquote \in Chars /\ Digit \in Chars
      BY DEF Space, Backquote, Digit, Chars, Classes
    <3>2. QED
      BY <2>4, <3>1
  <2>7. text' \in Seq(Chars)
    BY <2>1, <2>5, <2>6, ConcatProperties DEF TypeOK
  <2>8. QED
    BY <1>10, <2>1, <2>3, <2>7 DEF Shorten, TypeOK, Splitting
<1>11. CASE Shortened
  BY <1>11 DEF Shortened, TypeOK, Splitting
<1>12. CASE Finish
  <2>1. Len(text) \in Nat
    BY DEF TypeOK
  <2>2. segments' \in Seq(Segments)
    BY <1>12, <2>1, FlushTyped DEF Finish
  <2>3. QED
    BY <1>12, <2>1, <2>2 DEF Finish, TypeOK, Splitting
<1>13. CASE UNCHANGED vars
  BY <1>13 DEF vars, TypeOK, Splitting
<1>14. QED
  BY <1>1, <1>2, <1>3, <1>4, <1>5, <1>6, <1>7, <1>8, <1>9, <1>10, <1>11, <1>12, <1>13
  DEF Next

\* The split goes forward, one token after the other.
LEMMA Positioned == TypeOK /\ Position /\ [Next]_vars => Position'
<1> SUFFICES ASSUME TypeOK, Position, [Next]_vars PROVE Position'
  OBVIOUS
<1> USE DEF inputs, token, output
<1>1. CASE StartToken
  BY <1>1 DEF StartToken, Position, TypeOK, Splitting
<1>2. CASE Extend
  BY <1>2 DEF Extend, Position, TypeOK, Splitting
<1>3. CASE OriginalWord \/ NoWord
  BY <1>3 DEF OriginalWord, NoWord, Position, TypeOK, Splitting
<1>4. CASE SpokenWord
  BY <1>4 DEF SpokenWord, TokenEnds, Position, TypeOK
<1>5. CASE Preprocess \/ Clean \/ Copy
  BY <1>5 DEF Preprocess, AtEnd, Clean, Copy, Position, TypeOK, Splitting
<1>6. CASE Cleaned \/ Shortened
  BY <1>6 DEF Cleaned, Shortened, Position, TypeOK, Splitting
<1>7. CASE Shorten
  BY <1>7 DEF Shorten, Position, TypeOK, Splitting
<1>8. CASE Finish
  BY <1>8 DEF Finish, AtEnd, Position, TypeOK, Splitting
<1>9. CASE UNCHANGED vars
  BY <1>9 DEF vars, Position, Splitting
<1>10. QED
  BY <1>1, <1>2, <1>3, <1>4, <1>5, <1>6, <1>7, <1>8, <1>9 DEF Next

\* For texts of every length: the split stays within the text it splits.
THEOREM TypeCorrect == Spec => []TypeOK
<1>1. TypeOK /\ Position /\ [Next]_vars => (TypeOK /\ Position)'
  BY Typed, Positioned
<1>2. QED
  BY InitTyped, <1>1, PTL DEF Spec

-----------------------------------------------------------------------------
\* A flush appends what lies between the last segment and its own end.
LEMMA Flushed ==
  ASSUME TypeOK, TextOnce, NEW last \in Nat, flushed <= last, Flush(last)
  PROVE  /\ \A k \in 1..Len(segments') :
              /\ segments'[k].first = IF k = 1 THEN 1 ELSE segments'[k - 1].last + 1
              /\ segments'[k].first <= segments'[k].last
         /\ last = IF segments' = <<>> THEN 0 ELSE segments'[Len(segments')].last
<1> DEFINE new == [first |-> flushed + 1, last |-> last]
<1>1. CASE flushed = last
  BY <1>1 DEF Flush, TextOnce
<1>2. CASE flushed < last
  <2>1. segments \in Seq(Segments) /\ new \in Segments /\ segments' = Append(segments, new)
    BY <1>2 DEF Flush, TypeOK, Segments
  <2>2. /\ Len(segments') = Len(segments) + 1 /\ Len(segments) \in Nat
        /\ segments'[Len(segments')] = new
        /\ \A k \in 1..Len(segments) : segments'[k] = segments[k]
    BY <2>1
  <2>3. segments' # <<>>
    BY <2>2
  <2>4. last = IF segments' = <<>> THEN 0 ELSE segments'[Len(segments')].last
    BY <2>2, <2>3
  <2>5. ASSUME NEW k \in 1..Len(segments')
        PROVE  /\ segments'[k].first = IF k = 1 THEN 1 ELSE segments'[k - 1].last + 1
               /\ segments'[k].first <= segments'[k].last
    <3>1. CASE k <= Len(segments)
      <4>1. segments'[k] = segments[k] /\ (k > 1 => segments'[k - 1] = segments[k - 1])
        BY <2>2, <3>1
      <4>2. QED
        BY <2>2, <3>1, <4>1 DEF TextOnce
    <3>2. CASE k = Len(segments) + 1
      <4>1. segments'[k] = new
        BY <2>2, <3>2
      <4>2. CASE k = 1
        BY <1>2, <2>2, <3>2, <4>1, <4>2 DEF TextOnce, TypeOK
      <4>3. CASE k # 1
        <5>1. segments'[k - 1] = segments[Len(segments)] /\ segments # <<>>
          BY <2>2, <3>2, <4>3
        <5>2. QED
          BY <1>2, <4>1, <4>3, <5>1 DEF TextOnce, TypeOK
      <4>4. QED
        BY <4>2, <4>3
    <3>3. QED
      BY <2>2, <3>1, <3>2
  <2>6. QED
    BY <2>4, <2>5
<1>3. flushed \in Nat
  BY DEF TypeOK
<1>4. QED
  BY <1>1, <1>2, <1>3

LEMMA TextOnceStep == TypeOK /\ Position /\ TextOnce /\ [Next]_vars => TextOnce'
<1> SUFFICES ASSUME TypeOK, Position, TextOnce, [Next]_vars PROVE TextOnce'
  OBVIOUS
<1>1. CASE SpokenWord
  <2>1. start - 1 \in Nat /\ flushed <= start - 1 /\ phase' = "processed"
    BY <1>1 DEF SpokenWord, TokenEnds, Position, TypeOK
  <2>2. Flush(start - 1) /\ flushed' = start - 1
    BY <1>1 DEF SpokenWord
  <2>3. QED
    BY <2>1, <2>2, Flushed DEF TextOnce
<1>2. CASE Finish
  <2>1. Len(text) \in Nat /\ flushed <= Len(text)
    BY <1>2 DEF Finish, AtEnd, Position, TypeOK
  <2>2. Flush(Len(text)) /\ flushed' = Len(text) /\ text' = text
    BY <1>2 DEF Finish
  <2>3. QED
    BY <2>1, <2>2, Flushed DEF TextOnce
<1>3. CASE ~SpokenWord /\ ~Finish
  <2>1. UNCHANGED <<flushed, segments>> /\ (phase' = "done" => UNCHANGED <<phase, text>>)
    BY <1>3 DEF Next, StartToken, Extend, OriginalWord, NoWord, Preprocess, Clean, Cleaned,
       Copy, Shorten, Shortened, vars, inputs, token, output, Splitting, Position
  <2>2. QED
    BY <2>1 DEF TextOnce
<1>4. QED
  BY <1>1, <1>2, <1>3

\* For every text and setting: the segments are the rewritten text, once.
THEOREM TextHolds == Spec => []TextOnce
<1>1. TypeOK /\ Position /\ TextOnce /\ [Next]_vars => (TypeOK /\ Position /\ TextOnce)'
  BY Typed, Positioned, TextOnceStep
<1>2. QED
  BY InitTyped, <1>1, PTL DEF Spec


-----------------------------------------------------------------------------
(* Annotations                                                             *)

\* Between tokens no annotation goes on; within a token that is none, it began
\* outside of every annotation and holds no backquote.
Clear ==
  phase = "processed" =>
    /\ kind = "none" /\ i < Len(text) => ~InAnnotation(i)
    /\ kind \in {"word", "other"} =>
         /\ ~InAnnotation(start - 1)
         /\ \A k \in start..i : text[k].class # "bq"

\* Reading a token up to its end leaves every annotation.
LEMMA TokenEndsClear ==
  ASSUME TypeOK, Position, Clear, phase = "processed", TokenEnds, i < Len(text)
  PROVE  ~InAnnotation(i)
<1> SUFFICES ASSUME NEW b \in 1..i, text[b].class = "bq",
                    \A j \in (b + 1)..(i + 1) : text[j].class \in Body
             PROVE  FALSE
  BY DEF InAnnotation
<1>1. i \in Nat /\ start \in 1..i /\ b \in Nat /\ b + 1 <= i + 1
  BY DEF TypeOK, Position, TokenEnds
<1>2. text[i + 1].class \in Body
  BY <1>1
<1>3. CASE kind = "annotation"
  BY <1>2, <1>3 DEF TokenEnds, Continues
<1>4. CASE kind \in {"word", "other"}
  <2>1. b < start
    BY <1>1, <1>4 DEF Clear
  <2>2. \A j \in (b + 1)..((start - 1) + 1) : text[j].class \in Body
    BY <1>1
  <2>3. InAnnotation(start - 1)
    BY <1>1, <2>1, <2>2 DEF InAnnotation
  <2>4. QED
    BY <1>4, <2>3 DEF Clear
<1>5. QED
  BY <1>3, <1>4 DEF TypeOK, TokenEnds

LEMMA ClearStep == TypeOK /\ Position /\ Clear /\ [Next]_vars => Clear'
<1> SUFFICES ASSUME TypeOK, Position, Clear, [Next]_vars, phase' = "processed" PROVE Clear'
  BY DEF Clear
<1> USE DEF inputs, token, output
<1>0. i \in Nat
  BY DEF TypeOK
<1>1. CASE StartToken
  <2>1. /\ phase = "processed" /\ kind = "none" /\ i < Len(text) /\ text' = text
        /\ kind' = KindOf(text[i + 1].class) /\ start' = i + 1 /\ i' = i + 1
    BY <1>1 DEF StartToken
  <2>2. ~InAnnotation(i) /\ (i + 1) - 1 = i
    BY <1>0, <2>1 DEF Clear
  <2>3. kind' \in {"word", "other"} => text[i + 1].class # "bq"
    BY <2>1 DEF KindOf
  <2>4. kind' # "none"
    BY <2>1 DEF KindOf
  <2>5. start' - 1 = i /\ \A k \in start'..i' : k = i + 1
    BY <1>0, <2>1
  <2>6. ~InAnnotation(start - 1)'
    BY <2>1, <2>2, <2>5 DEF InAnnotation
  <2>7. kind' \in {"word", "other"} => \A k \in start'..i' : text'[k].class # "bq"
    BY <2>1, <2>3, <2>5
  <2>8. QED
    BY <2>4, <2>6, <2>7 DEF Clear
<1>2. CASE Extend
  <2>1. /\ phase = "processed" /\ kind # "none" /\ Continues(text[i + 1].class)
        /\ UNCHANGED <<text, kind, start>> /\ i' = i + 1
    BY <1>2 DEF Extend
  <2>2. kind \in {"word", "other"} => text[i + 1].class # "bq"
    BY <2>1 DEF Continues, Word
  <2>3. ASSUME kind \in {"word", "other"}
        PROVE  /\ ~InAnnotation(start - 1)
               /\ \A k \in start..(i + 1) : text[k].class # "bq"
    <3>1. ~InAnnotation(start - 1) /\ \A k \in start..i : text[k].class # "bq"
      BY <2>1, <2>3 DEF Clear
    <3>2. start \in Nat
      BY DEF TypeOK
    <3>3. QED
      BY <1>0, <2>2, <2>3, <3>1, <3>2
  <2>4. QED
    BY <2>1, <2>3 DEF Clear, InAnnotation
<1>3. CASE SpokenWord \/ NoWord
  <2>1. phase = "processed" /\ TokenEnds /\ kind' = "none" /\ UNCHANGED <<text, i>>
    BY <1>3 DEF SpokenWord, NoWord
  <2>2. i < Len(text) => ~InAnnotation(i)
    BY <2>1, TokenEndsClear
  <2>3. QED
    BY <2>1, <2>2 DEF Clear, InAnnotation
<1>4. CASE Cleaned \/ Shortened
  <2>1. kind' = "none" /\ i' = 0
    BY <1>4 DEF Cleaned, Shortened, Position, Splitting
  <2>2. QED
    BY <2>1 DEF Clear, InAnnotation
<1>5. CASE UNCHANGED vars
  BY <1>5 DEF vars, Clear, InAnnotation
<1>6. QED
  BY <1>1, <1>2, <1>3, <1>4, <1>5 DEF Next, OriginalWord, Preprocess, Clean, Copy,
     Shorten, Finish

LEMMA WholeStep ==
  TypeOK /\ Position /\ Clear /\ AnnotationsWhole /\ [Next]_vars => AnnotationsWhole'
<1> SUFFICES ASSUME TypeOK, Position, Clear, AnnotationsWhole, [Next]_vars
             PROVE  AnnotationsWhole'
  OBVIOUS
<1>1. CASE SpokenWord
  <2>1. /\ phase = "processed" /\ kind = "word" /\ text' = text
        /\ start \in Nat /\ start - 1 \in Nat
    BY <1>1 DEF SpokenWord, TokenEnds, Position, TypeOK
  <2>2. ~InAnnotation(start - 1)
    BY <2>1 DEF Clear
  <2>3. \A k \in 1..Len(segments') : \/ segments'[k].last = start - 1
                                     \/ k <= Len(segments) /\ segments'[k] = segments[k]
    <3>1. CASE UNCHANGED segments
      BY <3>1 DEF TypeOK
    <3>2. CASE segments' = Append(segments, [first |-> flushed + 1, last |-> start - 1])
      BY <2>1, <3>2 DEF TypeOK
    <3>3. QED
      BY <1>1, <3>1, <3>2 DEF SpokenWord, Flush
  <2>4. \A k \in 1..Len(markers') : \/ markers'[k].at = start
                                    \/ k <= Len(markers) /\ markers'[k] = markers[k]
    <3>1. CASE UNCHANGED markers
      BY <3>1 DEF TypeOK
    <3>2. CASE markers' = Append(markers, [word |-> wordNum + 1, at |-> start])
      <4> DEFINE new == [word |-> wordNum + 1, at |-> start]
      <4>1. /\ new \in [word : Nat, at : Nat] /\ new.at = start
            /\ markers \in Seq([word : Nat, at : Nat]) /\ markers' = Append(markers, new)
        BY <2>1, <3>2 DEF TypeOK
      <4> HIDE DEF new
      <4>2. QED
        BY <4>1
    <3>3. QED
      BY <1>1, <3>1, <3>2 DEF SpokenWord
  <2>5. Len(segments) \in Nat /\ Len(markers) \in Nat
    BY DEF TypeOK
  <2>6. ASSUME NEW k \in 1..Len(segments'), segments'[k].last < Len(text)
        PROVE  ~InAnnotation(segments'[k].last)
    BY <2>2, <2>3, <2>5, <2>6 DEF AnnotationsWhole
  <2>7. ASSUME NEW k \in 1..Len(markers')
        PROVE  ~InAnnotation(markers'[k].at - 1)
    BY <2>2, <2>4, <2>5, <2>7 DEF AnnotationsWhole
  <2>8. QED
    BY <2>1, <2>6, <2>7 DEF AnnotationsWhole, InAnnotation
<1>2. CASE Finish
  <2>1. /\ text' = text /\ markers' = markers /\ Len(text) \in Nat
        /\ Flush(Len(text))
    BY <1>2 DEF Finish, TypeOK
  <2>2. \A k \in 1..Len(segments') : \/ segments'[k].last = Len(text)
                                     \/ k <= Len(segments) /\ segments'[k] = segments[k]
    <3>1. CASE UNCHANGED segments
      BY <3>1 DEF TypeOK
    <3>2. CASE segments' = Append(segments, [first |-> flushed + 1, last |-> Len(text)])
      <4> DEFINE new == [first |-> flushed + 1, last |-> Len(text)]
      <4>1. /\ new \in Segments /\ new.last = Len(text)
            /\ segments \in Seq(Segments) /\ segments' = Append(segments, new)
        BY <2>1, <3>2 DEF TypeOK, Segments
      <4> HIDE DEF new
      <4>2. QED
        BY <4>1
    <3>3. QED
      BY <2>1, <3>1, <3>2 DEF Flush
  <2>3. Len(segments) \in Nat
    BY DEF TypeOK
  <2>4. ASSUME NEW k \in 1..Len(segments'), segments'[k].last < Len(text)
        PROVE  ~InAnnotation(segments'[k].last)
    BY <2>1, <2>2, <2>3, <2>4 DEF AnnotationsWhole
  <2>5. QED
    BY <2>1, <2>4 DEF AnnotationsWhole, InAnnotation
<1>3. CASE ~SpokenWord /\ ~Finish
  <2>1. UNCHANGED <<segments, markers>>
    BY <1>3 DEF Next, StartToken, Extend, OriginalWord, NoWord, Preprocess, Clean, Cleaned,
       Copy, Shorten, Shortened, vars, inputs, token, output
  <2>2. CASE UNCHANGED text
    BY <2>1, <2>2 DEF AnnotationsWhole, InAnnotation
  <2>3. CASE text' # text
    <3>1. phase \in {"original", "clean", "pause"}
      BY <1>3, <2>3 DEF Next, StartToken, Extend, OriginalWord, NoWord, Preprocess, Clean,
         Cleaned, Copy, Shorten, Shortened, vars, inputs
    <3>2. segments = <<>> /\ markers = <<>>
      BY <3>1 DEF Position
    <3>3. QED
      BY <2>1, <3>2 DEF AnnotationsWhole
  <2>4. QED
    BY <2>2, <2>3
<1>4. QED
  BY <1>1, <1>2, <1>3

\* For every text, with the user's own annotations or with inserted pauses: no
\* segment boundary and no marker falls into an annotation.
THEOREM AnnotationsHold == Spec => []AnnotationsWhole
<1>1. Init => Clear /\ AnnotationsWhole
  BY DEF Init, Clear, AnnotationsWhole
<1>2. /\ TypeOK /\ Position /\ Clear /\ AnnotationsWhole
      /\ [Next]_vars
      => (TypeOK /\ Position /\ Clear /\ AnnotationsWhole)'
  BY Typed, Positioned, ClearStep, WholeStep
<1>3. QED
  BY InitTyped, <1>1, <1>2, PTL DEF Spec

-----------------------------------------------------------------------------
(* Words and their markers                                                 *)

\* The character at p belongs to an annotation; to a word; begins a word.
Chain(s, p) ==
  \E b \in 1..(p - 1) : s[b].class = "bq" /\ \A x \in (b + 1)..p : s[x].class \in Body
Spoken(s, p) == s[p].class \in Word /\ ~Chain(s, p)
Starts(s, p) == Spoken(s, p) /\ ~(p > 1 /\ Spoken(s, p - 1))

\* The text that is split first.
Given == [k \in 1..Len(original) |-> [class |-> Shown(k), from |-> k]]

\* The token being read is what its kind says; between tokens no annotation
\* and no word goes on.
Reading ==
  Splitting =>
    /\ kind = "none" /\ i < Len(text) =>
         ~Chain(text, i + 1) /\ ~(i > 0 /\ Spoken(text, i) /\ Spoken(text, i + 1))
    /\ kind = "word" => Starts(text, start) /\ \A x \in start..i : Spoken(text, x)
    /\ kind = "annotation" =>
         text[start].class = "bq" /\ \A x \in (start + 1)..i : text[x].class \in Body
    /\ kind = "other" =>
         /\ ~Chain(text, start)
         /\ \A x \in start..i : text[x].class # "bq" /\ text[x].class \notin Word

\* All words that begin up to here have been read.
Read == IF kind = "word" THEN start - 1 ELSE i

\* words are those of the original that begin up to h, in order.
WordsAre(h) ==
  /\ \A n \in 1..Len(words) : words[n].off \in 1..h /\ Starts(Given, words[n].off)
  /\ \A k \in 1..h : Starts(Given, k) => \E n \in 1..Len(words) : words[n].off = k

Listed ==
  /\ \A m, n \in 1..Len(words) : m < n => words[m].off < words[n].off
  /\ phase = "original" => text = Given /\ WordsAre(Read)
  /\ phase # "original" => WordsAre(Len(original))

\* source has the first h characters, in order, but for dropped spaces and, after
\* the first place that has changed, for what was joined; what was inserted stands
\* after such a place.
Dropped(k) == Removable(k) \/ Trailing(k)

SourceKept(h) ==
  /\ \A c \in changed : c <= h
  /\ \A j \in 1..Len(source) : source[j].from # 0 =>
       source[j].from \in 1..h /\ source[j].class = Shown(source[j].from)
         /\ ~Trailing(source[j].from)
  /\ \A j, l \in 1..Len(source) :
       j < l /\ source[j].from # 0 /\ source[l].from # 0 => source[j].from < source[l].from
  /\ \A k \in 1..h : (\A c \in changed : k <= c) =>
       Dropped(k) \/ \E j \in 1..Len(source) : source[j].from = k
  /\ \A j \in 1..Len(source) : source[j].from = 0 =>
       \E c \in changed : \A l \in j..Len(source) : source[l].from # 0 => c < source[l].from

Cleaning ==
  /\ phase = "original" => source = <<>> /\ changed = {}
  /\ phase = "clean" => i <= Len(original) /\ SourceKept(i)
  /\ phase \in {"pause", "processed", "done"} => SourceKept(Len(original))

\* A pause stands before q, which begins the punctuation at j.
PausedAt(q, j) ==
  /\ q > 4
  /\ text[q - 4] = Space /\ text[q - 3] = Backquote
  /\ text[q - 2] = Digit /\ text[q - 1] = Digit
  /\ pauses /\ \E e \in j..Len(source) : Pauses(j - 1, e)

\* text has the first h characters of source, in order, and pauses: character j
\* stands at place[j].
Placed(place, h) ==
  /\ \A j, l \in 1..h : j < l => place[j] < place[l]
  /\ \A j \in 1..h : place[j] \in 1..Len(text) /\ text[place[j]] = source[j]
  /\ \A p \in 1..Len(text) :
       \/ \E j \in 1..h : p = place[j]
       \/ \E j \in 2..h : /\ place[j - 1] < p /\ p < place[j] /\ place[j] = place[j - 1] + 5
                          /\ PausedAt(place[j], j)

TextKept(h) == \E place \in [1..h -> Nat] : Placed(place, h)

Shortening ==
  /\ phase = "clean" => text = <<>>
  /\ phase = "pause" => i <= Len(source) /\ TextKept(i) /\ pauses
  /\ phase \in {"processed", "done"} => TextKept(Len(source))

\* A word before which nothing has changed the number of words is counted when
\* it is read, and not before.
Paired ==
  /\ phase \notin {"processed", "done"} => wordNum = 0 /\ markers = <<>>
  /\ phase = "processed" => \A n \in 1..Len(words) : Intact(words[n].off) =>
       (n <= wordNum <=> \E p \in 1..Read : Starts(text, p) /\ text[p].from = words[n].off)
  /\ MarkersFit

\* An annotation goes on as long as letters, digits and full stops follow.
LEMMA ChainNext ==
  ASSUME NEW s, NEW p \in Nat
  PROVE  Chain(s, p + 1) <=> /\ p > 0 /\ s[p + 1].class \in Body
                             /\ Chain(s, p) \/ s[p].class = "bq"
<1>1. ASSUME Chain(s, p + 1)
      PROVE  p > 0 /\ s[p + 1].class \in Body /\ (Chain(s, p) \/ s[p].class = "bq")
  <2>1. PICK b \in 1..p : s[b].class = "bq" /\ \A x \in (b + 1)..(p + 1) : s[x].class \in Body
    BY <1>1 DEF Chain
  <2>2. p > 0 /\ s[p + 1].class \in Body
    BY <2>1
  <2>3. CASE b = p
    BY <2>1, <2>2, <2>3
  <2>4. CASE b # p
    BY <2>1, <2>2, <2>4 DEF Chain
  <2>5. QED
    BY <2>2, <2>3, <2>4
<1>2. ASSUME p > 0, s[p + 1].class \in Body, Chain(s, p)
      PROVE  Chain(s, p + 1)
  <2>1. PICK b \in 1..(p - 1) : s[b].class = "bq" /\ \A x \in (b + 1)..p : s[x].class \in Body
    BY <1>2 DEF Chain
  <2>2. \A x \in (b + 1)..(p + 1) : x \in (b + 1)..p \/ x = p + 1
    OBVIOUS
  <2>3. b \in 1..((p + 1) - 1) /\ \A x \in (b + 1)..(p + 1) : s[x].class \in Body
    BY <1>2, <2>1, <2>2
  <2>4. QED
    BY <2>1, <2>3 DEF Chain
<1>3. ASSUME p > 0, s[p + 1].class \in Body, s[p].class = "bq"
      PROVE  Chain(s, p + 1)
  <2>1. p \in 1..((p + 1) - 1) /\ \A x \in (p + 1)..(p + 1) : x = p + 1
    BY <1>3
  <2>2. QED
    BY <1>3, <2>1 DEF Chain
<1>4. QED
  BY <1>1, <1>2, <1>3

\* The classes of a word, of the body of an annotation, and the others.
LEMMA WordIsNoMark ==
  /\ \A c \in Word : c # "bq" /\ c # "_" /\ c # "." /\ c # ","
  /\ \A c \in Body : c # "bq" /\ c # "_"
  BY DEF Word, Body

\* A token begins where the one before it has ended.
LEMMA ReadingStart ==
  ASSUME TypeOK, Position, Reading, StartToken PROVE Reading'
<1>1. /\ Splitting /\ kind = "none" /\ i < Len(text) /\ i \in Nat
      /\ kind' = KindOf(text[i + 1].class) /\ start' = i + 1 /\ i' = i + 1 /\ text' = text
  BY DEF StartToken, TypeOK
<1>2. ~Chain(text, i + 1) /\ ~(i > 0 /\ Spoken(text, i) /\ Spoken(text, i + 1))
  BY <1>1 DEF Reading
<1>3. kind' = "word" => Starts(text, i + 1)
  BY <1>1, <1>2 DEF KindOf, Starts, Spoken
<1>4. kind' = "annotation" => text[i + 1].class = "bq"
  BY <1>1 DEF KindOf
<1>5. kind' = "other" => text[i + 1].class # "bq" /\ text[i + 1].class \notin Word
  BY <1>1 DEF KindOf
<1>6. kind' # "none"
  BY <1>1 DEF KindOf
<1>7. \A x \in start'..i' : x = i + 1
  BY <1>1
<1>8. \A x \in (start' + 1)..i' : FALSE
  BY <1>1
<1>9. kind' = "word" => Starts(text', start') /\ \A x \in start'..i' : Spoken(text', x)
  BY <1>1, <1>3, <1>7 DEF Starts
<1>10. QED
  BY <1>1, <1>2, <1>4, <1>5, <1>6, <1>7, <1>8, <1>9 DEF Reading

LEMMA ReadingExtend ==
  ASSUME TypeOK, Position, Reading, Extend PROVE Reading'
<1>1. /\ Splitting /\ kind # "none" /\ start \in 1..i /\ i \in Nat /\ start \in Nat
      /\ Continues(text[i + 1].class)
      /\ i' = i + 1 /\ kind' = kind /\ start' = start /\ text' = text
  BY DEF Extend, TypeOK, Position, token
<1>2. \A x \in start'..i' : x \in start..i \/ x = i + 1
  BY <1>1
<1>3. \A x \in (start' + 1)..i' : x \in (start + 1)..i \/ x = i + 1
  BY <1>1
<1>4. CASE kind = "word"
  <2>1. Starts(text, start) /\ \A x \in start..i : Spoken(text, x)
    BY <1>1, <1>4 DEF Reading
  <2>2. Spoken(text, i) /\ text[i + 1].class \in Word
    BY <1>1, <1>4, <2>1 DEF Continues
  <2>3. Spoken(text, i + 1)
    BY <1>1, <2>2, ChainNext, WordIsNoMark DEF Spoken
  <2>4. QED
    BY <1>1, <1>2, <1>4, <2>1, <2>3 DEF Reading
<1>5. CASE kind = "annotation"
  BY <1>1, <1>3, <1>5 DEF Reading, Continues
<1>6. CASE kind = "other"
  BY <1>1, <1>2, <1>6 DEF Reading, Continues
<1>7. QED
  BY <1>1, <1>4, <1>5, <1>6 DEF TypeOK

\* No annotation and no word goes on where a token has ended.
LEMMA TokenEndsRead ==
  ASSUME TypeOK, Position, Reading, Splitting, TokenEnds, i < Len(text)
  PROVE  ~Chain(text, i + 1) /\ ~(Spoken(text, i) /\ Spoken(text, i + 1))
<1>1. i \in Nat /\ i > 0 /\ start \in 1..i /\ start \in Nat /\ kind # "none"
      /\ ~Continues(text[i + 1].class)
  BY DEF TypeOK, Position, TokenEnds
<1>2. CASE kind = "word"
  <2>1. Spoken(text, i) /\ text[i + 1].class \notin Word
    BY <1>1, <1>2 DEF Reading, Continues
  <2>2. QED
    BY <1>1, <2>1, ChainNext, WordIsNoMark DEF Spoken
<1>3. CASE kind = "annotation"
  <2>1. /\ text[start].class = "bq" /\ \A x \in (start + 1)..i : text[x].class \in Body
        /\ text[i + 1].class \notin Body
    BY <1>1, <1>3 DEF Reading, Continues
  <2>2. ~Chain(text, i + 1)
    BY <1>1, <2>1, ChainNext
  <2>3. CASE i = start
    BY <2>1, <2>2, <2>3, WordIsNoMark DEF Spoken
  <2>4. CASE i # start
    BY <1>1, <2>1, <2>2, <2>4 DEF Chain, Spoken
  <2>5. QED
    BY <2>3, <2>4
<1>4. CASE kind = "other"
  <2>1. /\ ~Chain(text, start)
        /\ \A x \in start..i : text[x].class # "bq" /\ text[x].class \notin Word
    BY <1>1, <1>4 DEF Reading
  <2>2. ASSUME Chain(text, i + 1) PROVE FALSE
    <3>1. PICK b \in 1..((i + 1) - 1) :
            /\ text[b].class = "bq"
            /\ \A x \in (b + 1)..(i + 1) : text[x].class \in Body
      BY <2>2 DEF Chain
    <3>2. b < start
      BY <1>1, <2>1, <3>1
    <3>3. b \in 1..(start - 1) /\ \A x \in (b + 1)..start : text[x].class \in Body
      BY <1>1, <3>1, <3>2
    <3>4. QED
      BY <2>1, <3>1, <3>3 DEF Chain
  <2>3. QED
    BY <1>1, <2>1, <2>2 DEF Spoken
<1>5. QED
  BY <1>1, <1>2, <1>3, <1>4 DEF TypeOK

LEMMA ReadingStep == TypeOK /\ Position /\ Reading /\ [Next]_vars => Reading'
<1> SUFFICES ASSUME TypeOK, Position, Reading, [Next]_vars PROVE Reading'
  OBVIOUS
<1>1. CASE OriginalWord \/ SpokenWord \/ NoWord
  <2>1. /\ Splitting /\ TokenEnds /\ kind' = "none" /\ text' = text /\ i' = i /\ phase' = phase
    BY <1>1 DEF OriginalWord, SpokenWord, NoWord, Splitting
  <2>2. i < Len(text) =>
          ~Chain(text, i + 1) /\ ~(Spoken(text, i) /\ Spoken(text, i + 1))
    BY <2>1, TokenEndsRead
  <2>3. QED
    BY <2>1, <2>2 DEF Reading
<1>2. CASE Cleaned \/ Shortened
  <2>1. kind' = "none" /\ i' = 0
    BY <1>2 DEF Cleaned, Shortened, Position, Splitting, output, token
  <2>2. ~Chain(text', 0 + 1)
    BY DEF Chain
  <2>3. QED
    BY <2>1, <2>2 DEF Reading
<1>3. CASE Preprocess \/ Clean \/ Copy \/ Shorten \/ Finish
  BY <1>3 DEF Preprocess, Clean, Copy, Shorten, Finish, Reading, Splitting
<1>4. CASE UNCHANGED vars
  BY <1>4 DEF vars, token, Reading, Splitting
<1>5. QED
  BY <1>1, <1>2, <1>3, <1>4, ReadingStart, ReadingExtend DEF Next

\* Reading on within a token, or past one that is no word, passes no beginning
\* of a word.
LEMMA ReadOn ==
  ASSUME TypeOK, Position, Reading, StartToken \/ Extend \/ NoWord
  PROVE  /\ Read \in Nat /\ Read' \in Nat /\ Read <= Read'
         /\ \A x \in (Read + 1)..Read' : ~Starts(text, x)
<1>0. i \in Nat /\ start \in Nat /\ (kind # "none" => start \in 1..i)
  BY DEF TypeOK, Position
<1>1. CASE StartToken
  <2>1. kind = "none" /\ kind' = KindOf(text[i + 1].class) /\ start' = i + 1 /\ i' = i + 1
    BY <1>1 DEF StartToken
  <2>2. Read = i /\ Read' = IF kind' = "word" THEN i ELSE i + 1
    BY <1>0, <2>1 DEF Read
  <2>3. kind' # "word" => ~Starts(text, i + 1)
    BY <2>1, WordIsNoMark DEF KindOf, Starts, Spoken
  <2>4. QED
    BY <1>0, <2>2, <2>3
<1>2. CASE Extend
  <2>1. /\ Splitting /\ kind # "none" /\ Continues(text[i + 1].class)
        /\ i' = i + 1 /\ kind' = kind /\ start' = start
    BY <1>2 DEF Extend, token, Position
  <2>2. /\ Read = IF kind = "word" THEN start - 1 ELSE i
        /\ Read' = IF kind = "word" THEN start - 1 ELSE i + 1
    BY <2>1 DEF Read
  <2>3. CASE kind = "word"
    BY <1>0, <2>1, <2>2, <2>3
  <2>4. CASE kind = "annotation"
    <3>1. /\ text[start].class = "bq" /\ \A x \in (start + 1)..i : text[x].class \in Body
          /\ text[i + 1].class \in Body
      BY <2>1, <2>4 DEF Reading, Continues
    <3>2. \A x \in (start + 1)..(i + 1) : text[x].class \in Body
      BY <1>0, <3>1
    <3>3. start \in 1..((i + 1) - 1)
      BY <1>0, <2>1
    <3>4. Chain(text, i + 1)
      BY <3>1, <3>2, <3>3 DEF Chain
    <3>5. \A x \in (Read + 1)..Read' : x = i + 1
      BY <1>0, <2>2, <2>4
    <3>6. Read = i /\ Read' = i + 1
      BY <2>2, <2>4
    <3>7. QED
      BY <1>0, <3>4, <3>5, <3>6 DEF Starts, Spoken
  <2>5. CASE kind = "other"
    <3>1. text[i + 1].class \notin Word
      BY <2>1, <2>5 DEF Continues
    <3>2. Read = i /\ Read' = i + 1
      BY <2>2, <2>5
    <3>3. \A x \in (Read + 1)..Read' : x = i + 1
      BY <1>0, <3>2
    <3>4. QED
      BY <1>0, <3>1, <3>2, <3>3 DEF Starts, Spoken
  <2>6. QED
    BY <2>1, <2>3, <2>4, <2>5 DEF TypeOK
<1>3. CASE NoWord
  <2>1. kind # "word" /\ kind' = "none" /\ i' = i
    BY <1>3 DEF NoWord
  <2>2. Read = i /\ Read' = i
    BY <2>1 DEF Read
  <2>3. QED
    BY <1>0, <2>2
<1>4. QED
  BY <1>1, <1>2, <1>3

\* A word that has been read passes one beginning of a word, its own.
LEMMA WordRead ==
  ASSUME TypeOK, Position, Reading, OriginalWord \/ SpokenWord
  PROVE  /\ start \in 1..i /\ i \in Nat /\ Read = start - 1 /\ Read' = i
         /\ Starts(text, start) /\ \A x \in (start + 1)..i : ~Starts(text, x)
<1>1. Splitting /\ kind = "word" /\ kind' = "none" /\ i' = i
  BY DEF OriginalWord, SpokenWord, Splitting
<1>2. start \in 1..i /\ i \in Nat /\ start \in Nat
  BY <1>1 DEF TypeOK, Position
<1>3. Starts(text, start) /\ \A x \in start..i : Spoken(text, x)
  BY <1>1 DEF Reading
<1>4. ASSUME NEW x \in (start + 1)..i PROVE ~Starts(text, x)
  <2>1. x > 1 /\ x - 1 \in start..i
    BY <1>2
  <2>2. QED
    BY <1>3, <2>1 DEF Starts
<1>5. QED
  BY <1>1, <1>2, <1>3, <1>4 DEF Read

-----------------------------------------------------------------------------
\* The words of the original, in the order of their first characters.
LEMMA ListedStep ==
  TypeOK /\ Position /\ Reading /\ Listed /\ [Next]_vars => Listed'
<1> SUFFICES ASSUME TypeOK, Position, Reading, Listed, [Next]_vars PROVE Listed'
  OBVIOUS
<1>0. /\ original' = original /\ Given' = Given
      /\ \A k : Starts(Given, k)' <=> Starts(Given, k)
  <2>1. original' = original /\ tags' = tags
    BY DEF Next, StartToken, Extend, OriginalWord, SpokenWord, NoWord, Preprocess, Clean,
       Cleaned, Copy, Shorten, Shortened, Finish, vars, inputs
  <2>2. Given' = Given
    BY <2>1 DEF Given, Shown
  <2>3. QED
    BY <2>1, <2>2 DEF Starts, Spoken, Chain
<1>1. CASE phase = "original" /\ (StartToken \/ Extend \/ NoWord)
  <2>1. phase' = "original" /\ text' = text /\ words' = words
    BY <1>1 DEF StartToken, Extend, NoWord, output
  <2>2. text = Given /\ WordsAre(Read)
    BY <1>1 DEF Listed
  <2>3. /\ Read \in Nat /\ Read' \in Nat /\ Read <= Read'
        /\ \A x \in (Read + 1)..Read' : ~Starts(text, x)
    BY <1>1, ReadOn
  <2>4. WordsAre(Read)'
    <3>1. \A n \in 1..Len(words) : words[n].off \in 1..Read /\ Starts(Given, words[n].off)
      BY <2>2 DEF WordsAre
    <3>2. ASSUME NEW k \in 1..Read', Starts(Given, k)
          PROVE  \E n \in 1..Len(words) : words[n].off = k
      <4>1. k \in 1..Read
        BY <2>2, <2>3, <3>2
      <4>2. QED
        BY <2>2, <3>2, <4>1 DEF WordsAre
    <3>3. \A k \in 1..Read : k \in 1..Read'
      BY <2>3
    <3>4. QED
      BY <1>0, <2>1, <3>1, <3>2, <3>3 DEF WordsAre
  <2>5. QED
    BY <1>0, <2>1, <2>2, <2>4 DEF Listed
<1>2. CASE OriginalWord
  <2>1. phase = "original" /\ phase' = "original" /\ text' = text
        /\ words' = Append(words, [off |-> start, len |-> i + 1 - start])
    BY <1>2 DEF OriginalWord
  <2>2. text = Given /\ WordsAre(Read)
    BY <2>1 DEF Listed
  <2>3. /\ start \in 1..i /\ i \in Nat /\ Read = start - 1 /\ Read' = i
        /\ Starts(text, start) /\ \A x \in (start + 1)..i : ~Starts(text, x)
    BY <1>2, WordRead
  <2>4. /\ Len(words) \in Nat /\ Len(words') = Len(words) + 1
        /\ \A n \in 1..Len(words) : words'[n] = words[n]
        /\ words'[Len(words) + 1].off = start
    BY <2>1 DEF TypeOK
  <2>5. \A n \in 1..Len(words) :
          words[n].off \in 1..(start - 1) /\ Starts(Given, words[n].off)
    BY <2>2, <2>3 DEF WordsAre
  <2>6. \A n \in 1..Len(words') : n \in 1..Len(words) \/ n = Len(words) + 1
    BY <2>4
  <2>7. \A n \in 1..Len(words') : words'[n].off \in 1..i /\ Starts(Given, words'[n].off)
    BY <2>2, <2>3, <2>4, <2>5, <2>6
  <2>8. ASSUME NEW k \in 1..i, Starts(Given, k)
        PROVE  \E n \in 1..Len(words') : words'[n].off = k
    <3>1. CASE k < start
      <4>1. k \in 1..(start - 1)
        BY <2>3, <3>1
      <4>2. PICK n \in 1..Len(words) : words[n].off = k
        BY <2>2, <2>3, <2>8, <4>1 DEF WordsAre
      <4>3. QED
        BY <2>4, <4>2
    <3>2. CASE k = start
      BY <2>4, <3>2
    <3>3. CASE k > start
      BY <2>2, <2>3, <2>8, <3>3
    <3>4. QED
      BY <2>3, <3>1, <3>2, <3>3
  <2>9. WordsAre(Read)'
    BY <1>0, <2>3, <2>7, <2>8 DEF WordsAre
  <2>10. \A m, n \in 1..Len(words') : m < n => words'[m].off < words'[n].off
    <3>1. SUFFICES ASSUME NEW m \in 1..Len(words'), NEW n \in 1..Len(words'), m < n
                   PROVE  words'[m].off < words'[n].off
      OBVIOUS
    <3>2. m \in 1..Len(words)
      BY <2>4, <3>1
    <3>3. CASE n \in 1..Len(words)
      BY <2>4, <3>1, <3>2, <3>3 DEF Listed
    <3>4. CASE n = Len(words) + 1
      BY <2>3, <2>4, <2>5, <3>2, <3>4
    <3>5. QED
      BY <2>6, <3>3, <3>4
  <2>11. QED
    BY <1>0, <2>1, <2>2, <2>9, <2>10 DEF Listed
<1>3. CASE Preprocess
  <2>1. /\ phase = "original" /\ phase' = "clean" /\ words' = words
        /\ kind = "none" /\ i = Len(text) /\ Len(original) \in Nat
    BY <1>3, OriginalTyped DEF Preprocess, AtEnd, output
  <2>2. text = Given /\ WordsAre(Read) /\ Read = i
    BY <2>1 DEF Listed, Read
  <2>3. Len(text) = Len(original)
    BY <2>1, <2>2 DEF Given
  <2>4. WordsAre(Len(original))'
    BY <1>0, <2>1, <2>2, <2>3 DEF WordsAre
  <2>5. QED
    BY <2>1, <2>4 DEF Listed
<1>4. CASE phase # "original" /\ ~(OriginalWord \/ Preprocess)
  <2>1. phase' # "original" /\ words' = words
    BY <1>4 DEF Next, StartToken, Extend, SpokenWord, NoWord, Clean,
       Cleaned, Copy, Shorten, Shortened, Finish, vars, output, inputs
  <2>2. WordsAre(Len(original))'
    BY <1>0, <1>4, <2>1 DEF WordsAre, Listed
  <2>3. QED
    BY <2>1, <2>2, <1>4 DEF Listed
<1>5. CASE UNCHANGED vars
  <2>1. words' = words /\ text' = text /\ phase' = phase /\ Read' = Read
    BY <1>5 DEF vars, output, token, Read
  <2>2. QED
    BY <1>0, <2>1 DEF Listed, WordsAre
<1>6. CASE SpokenWord \/ Clean \/ Cleaned \/ Copy \/ Shorten \/ Shortened \/ Finish
  <2>1. phase # "original"
    BY <1>6 DEF SpokenWord, Clean, Cleaned, Copy, Shorten, Shortened, Finish
  <2>2. ~(OriginalWord \/ Preprocess)
    BY <2>1 DEF OriginalWord, Preprocess
  <2>3. QED
    BY <1>4, <2>1, <2>2
<1>7. CASE StartToken \/ Extend \/ NoWord
  <2>1. phase = "original" \/ ~(OriginalWord \/ Preprocess)
    BY DEF OriginalWord, Preprocess
  <2>2. QED
    BY <1>1, <1>4, <1>7, <2>1
<1>8. QED
  BY <1>2, <1>3, <1>5, <1>6, <1>7 DEF Next

-----------------------------------------------------------------------------
\* What the fixes may take away is a matter of the original alone.
LEMMA SameOriginal ==
  ASSUME original' = original, tags' = tags
  PROVE  \A k : /\ Shown(k)' = Shown(k)
                /\ (Trailing(k)' <=> Trailing(k)) /\ (Removable(k)' <=> Removable(k))
                /\ (Dropped(k)' <=> Dropped(k))
  BY DEF Shown, Trailing, Dropped, Removable

\* A character that is kept comes behind those that are there, with what the
\* fixes insert behind it.
LEMMA CharKept ==
  ASSUME TypeOK, SourceKept(i), ~Trailing(i + 1), i + 1 <= Len(original),
         original' = original, tags' = tags, i' = i + 1,
         Len(source') \in Nat, Len(source) + 1 <= Len(source'),
         \A j \in 1..Len(source) : source'[j] = source[j],
         source'[Len(source) + 1] = Char(i + 1),
         \A j \in (Len(source) + 2)..Len(source') : source'[j].from = 0,
         \/ changed' = changed \cup {i + 1}
         \/ changed' = changed /\ Len(source') = Len(source) + 1
  PROVE  SourceKept(i)'
<1> DEFINE n == Len(source)
<1>0. /\ i \in Nat /\ n \in Nat /\ changed \subseteq Nat
      /\ \A j \in 1..n : source[j].from \in Nat
  <2>1. \A j \in 1..n : source[j] \in Chars
    BY ElementOfSeq DEF TypeOK
  <2>2. QED
    BY <2>1 DEF TypeOK, Chars
<1>1. \A k : /\ Shown(k)' = Shown(k)
             /\ (Trailing(k)' <=> Trailing(k)) /\ (Dropped(k)' <=> Dropped(k))
  BY SameOriginal
<1>2. /\ source'[n + 1].from = i + 1 /\ source'[n + 1].class = Shown(i + 1)
  BY DEF Char
<1>3. \A j \in 1..Len(source') : j \in 1..n \/ j = n + 1 \/ j \in (n + 2)..Len(source')
  BY <1>0
<1>4. \A c \in changed' : c <= i + 1
  <2>1. \A c \in changed : c <= i
    BY DEF SourceKept
  <2>2. ASSUME NEW c \in changed' PROVE c <= i + 1
    <3>1. c \in changed \/ c = i + 1
      OBVIOUS
    <3>2. c \in changed => c \in Nat /\ c <= i
      BY <1>0, <2>1
    <3>3. QED
      BY <1>0, <3>1, <3>2
  <2>3. QED
    BY <2>2
<1>5. ASSUME NEW j \in 1..Len(source'), source'[j].from # 0
      PROVE  source'[j].from \in 1..(i + 1) /\ source'[j].class = Shown(source'[j].from)
               /\ ~Trailing(source'[j].from)
  <2>1. CASE j \in 1..n
    <3>1. /\ source[j].from \in 1..i /\ source[j].class = Shown(source[j].from)
          /\ ~Trailing(source[j].from)
      BY <1>5, <2>1 DEF SourceKept
    <3>2. QED
      BY <1>0, <2>1, <3>1
  <2>2. CASE j = n + 1
    BY <1>0, <1>2, <2>2
  <2>3. QED
    BY <1>3, <1>5, <2>1, <2>2
<1>6. ASSUME NEW j \in 1..Len(source'), NEW l \in 1..Len(source'), j < l,
             source'[j].from # 0, source'[l].from # 0
      PROVE  source'[j].from < source'[l].from
  <2>1. l \in 1..n \/ l = n + 1
    BY <1>3, <1>6
  <2>2. j \in 1..n
    BY <1>0, <1>6, <2>1
  <2>3. CASE l \in 1..n
    BY <1>6, <2>2, <2>3 DEF SourceKept
  <2>4. CASE l = n + 1
    <3>1. source[j].from \in 1..i
      BY <1>6, <2>2 DEF SourceKept
    <3>2. QED
      BY <1>0, <1>2, <2>2, <2>4, <3>1
  <2>5. QED
    BY <2>1, <2>3, <2>4
<1>7. ASSUME NEW k \in 1..(i + 1), \A c \in changed' : k <= c
      PROVE  Dropped(k) \/ \E j \in 1..Len(source') : source'[j].from = k
  <2>1. CASE k \in 1..i
    <3>1. \A c \in changed : k <= c
      BY <1>7
    <3>2. Dropped(k) \/ \E j \in 1..n : source[j].from = k
      BY <2>1, <3>1 DEF SourceKept
    <3>3. \A j \in 1..n : j \in 1..Len(source')
      BY <1>0
    <3>4. QED
      BY <3>2, <3>3
  <2>2. CASE k = i + 1
    <3>1. n + 1 \in 1..Len(source')
      BY <1>0
    <3>2. QED
      BY <1>2, <2>2, <3>1
  <2>3. QED
    BY <1>0, <2>1, <2>2
<1>8. ASSUME NEW j \in 1..Len(source'), source'[j].from = 0
      PROVE  \E c \in changed' : \A l \in j..Len(source') : source'[l].from # 0 =>
               c < source'[l].from
  <2>1. CASE j \in 1..n
    <3>1. PICK c \in changed : \A l \in j..n : source[l].from # 0 => c < source[l].from
      BY <1>8, <2>1 DEF SourceKept
    <3>2. c \in changed' /\ c <= i /\ c \in Nat
      BY <1>0 DEF SourceKept
    <3>3. ASSUME NEW l \in j..Len(source'), source'[l].from # 0
          PROVE  c < source'[l].from
      <4>1. (l \in 1..n /\ l \in j..n) \/ l = n + 1
        <5>1. l \in 1..Len(source')
          BY <2>1
        <5>2. l \in 1..n \/ l = n + 1
          BY <1>3, <3>3, <5>1
        <5>3. QED
          BY <5>2
      <4>2. QED
        BY <1>0, <1>2, <3>1, <3>2, <3>3, <4>1
    <3>4. QED
      BY <3>2, <3>3
  <2>2. CASE j \in (n + 2)..Len(source')
    <3>1. i + 1 \in changed'
      BY <1>0, <2>2
    <3>2. \A l \in j..Len(source') : source'[l].from = 0
      BY <1>0, <2>2
    <3>3. QED
      BY <3>1, <3>2
  <2>3. QED
    BY <1>0, <1>2, <1>3, <1>8, <2>1, <2>2
<1>9. QED
  BY <1>1, <1>4, <1>5, <1>6, <1>7, <1>8 DEF SourceKept

\* Cleaning keeps all characters but spaces before punctuation, the trailing
\* ones, and what the language fixes take away.
LEMMA CleaningStep ==
  TypeOK /\ Position /\ Cleaning /\ [Next]_vars => Cleaning'
<1> SUFFICES ASSUME TypeOK, Position, Cleaning, [Next]_vars PROVE Cleaning'
  OBVIOUS
<1>i. original' = original /\ tags' = tags
  BY DEF Next, StartToken, Extend, OriginalWord, SpokenWord, NoWord, Preprocess, Clean,
     Cleaned, Copy, Shorten, Shortened, Finish, vars, inputs
<1>0. \A k : /\ Shown(k)' = Shown(k)
             /\ (Trailing(k)' <=> Trailing(k)) /\ (Dropped(k)' <=> Dropped(k))
  BY <1>i, SameOriginal
<1>00. /\ Len(original) \in Nat /\ i \in Nat /\ Len(source) \in Nat /\ changed \subseteq Nat
       /\ \A j \in 1..Len(source) : source[j].from \in Nat
  <2>1. \A j \in 1..Len(source) : source[j] \in Chars
    BY ElementOfSeq DEF TypeOK
  <2>2. QED
    BY <2>1, OriginalTyped DEF TypeOK, Chars
<1>1. CASE Preprocess
  <2>1. /\ source = <<>> /\ source' = source /\ changed = {} /\ changed' = changed
        /\ phase' = "clean" /\ i' = 0
    BY <1>1 DEF Preprocess, Cleaning, fixed
  <2>2. SourceKept(i)'
    BY <2>1 DEF SourceKept
  <2>3. QED
    BY <1>i, <1>00, <2>1, <2>2 DEF Cleaning
<1>2. CASE Clean
  <2>1. /\ phase = "clean" /\ phase' = "clean" /\ ~Trailing(i + 1) /\ i' = i + 1
        /\ Keep \/ KeepAndInsert \/ Drop \/ Join
    BY <1>2 DEF Clean
  <2>2. i <= Len(original) /\ SourceKept(i)
    BY <2>1 DEF Cleaning
  <2>3. i + 1 <= Len(original) /\ i + 1 \in 1..Len(original)
    <3>1. \E j \in (i + 1)..Len(original) : TRUE
      BY <2>1 DEF Trailing
    <3>2. QED
      BY <1>00, <3>1
  <2>4. SUFFICES SourceKept(i)'
    BY <1>i, <1>00, <2>1, <2>3 DEF Cleaning
  <2> DEFINE longer == Append(source, Char(i + 1))
             n == Len(source)
  <2>5. /\ longer \in Seq(Chars) /\ Len(longer) = n + 1 /\ longer[n + 1] = Char(i + 1)
        /\ \A j \in 1..n : longer[j] = source[j]
    <3>1. Char(i + 1) \in Chars /\ source \in Seq(Chars)
      BY <2>3, OriginalTyped DEF Char, Chars, TypeOK
    <3>2. QED
      BY <3>1, AppendProperties
  <2> HIDE DEF longer
  <2>6. CASE Keep
    <3>1. source' = longer /\ changed' = changed
      BY <2>6 DEF Keep, longer
    <3>2. \A j \in (n + 2)..Len(source') : source'[j].from = 0
      BY <1>00, <2>5, <3>1
    <3>3. Len(source') \in Nat /\ n + 1 <= Len(source')
      BY <1>00, <2>5, <3>1
    <3>4. QED
      BY <1>i, <2>1, <2>2, <2>3, <2>5, <3>1, <3>2, <3>3, CharKept
  <2>7. CASE KeepAndInsert
    <3>1. PICK s \in Inserts(i + 1) : /\ source' = longer \o s
                                      /\ changed' = changed \cup {i + 1}
      BY <2>7 DEF KeepAndInsert, longer
    <3>2. s \in Seq(Chars) /\ \A p \in 1..Len(s) : s[p].from = 0
      BY InsertsTyped
    <3>3. /\ Len(s) \in Nat /\ Len(source') = n + 1 + Len(s)
          /\ \A p \in 1..(n + 1 + Len(s)) :
               source'[p] = IF p <= n + 1 THEN longer[p] ELSE s[p - (n + 1)]
      <4>1. /\ Len(longer \o s) = Len(longer) + Len(s)
            /\ \A p \in 1..(Len(longer) + Len(s)) :
                 (longer \o s)[p] = IF p <= Len(longer) THEN longer[p] ELSE s[p - Len(longer)]
        BY <2>5, <3>2, ConcatProperties
      <4>2. Len(s) \in Nat /\ source' = longer \o s /\ Len(longer) = n + 1
        BY <2>5, <3>1, <3>2
      <4>3. QED
        BY <4>1, <4>2
    <3>4. Len(source') \in Nat /\ n + 1 <= Len(source')
      BY <1>00, <3>3
    <3>5. \A j \in 1..n : source'[j] = source[j]
      BY <1>00, <2>5, <3>3
    <3>6. source'[n + 1] = Char(i + 1)
      <4>1. n + 1 \in 1..(n + 1 + Len(s)) /\ n + 1 <= n + 1
        BY <1>00, <3>3
      <4>2. QED
        BY <2>5, <3>3, <4>1
    <3>7. ASSUME NEW j \in (n + 2)..Len(source') PROVE source'[j].from = 0
      <4>1. j - (n + 1) \in 1..Len(s) /\ j \in 1..(n + 1 + Len(s)) /\ ~(j <= n + 1)
        BY <1>00, <3>3
      <4>2. source'[j] = s[j - (n + 1)]
        BY <3>3, <4>1
      <4>3. QED
        BY <3>2, <4>1, <4>2
    <3>8. QED
      BY <1>i, <2>1, <2>2, <2>3, <3>1, <3>4, <3>5, <3>6, <3>7, CharKept
  <2>8. CASE Drop \/ Join
    <3>1. /\ source' = source /\ \A c \in changed : c \in changed'
          /\ \A c \in changed' : c \in changed \/ c = i
          /\ Removable(i + 1) \/ i \in changed'
      BY <2>8 DEF Drop, Join, fixed
    <3>2. \A c \in changed' : c <= i + 1
      <4>1. \A c \in changed : c <= i
        BY <2>2 DEF SourceKept
      <4>2. ASSUME NEW c \in changed' PROVE c <= i + 1
        <5>1. c \in changed => c \in Nat /\ c <= i
          BY <1>00, <4>1
        <5>2. QED
          BY <1>00, <3>1, <5>1
      <4>3. QED
        BY <4>2
    <3>3. ASSUME NEW j \in 1..n, source[j].from # 0
          PROVE  source[j].from \in 1..(i + 1) /\ source[j].class = Shown(source[j].from)
                   /\ ~Trailing(source[j].from)
      <4>1. /\ source[j].from \in 1..i /\ source[j].class = Shown(source[j].from)
            /\ ~Trailing(source[j].from)
        BY <2>2, <3>3 DEF SourceKept
      <4>2. QED
        BY <1>00, <4>1
    <3>4. ASSUME NEW k \in 1..(i + 1), \A c \in changed' : k <= c
          PROVE  Dropped(k) \/ \E j \in 1..n : source[j].from = k
      <4>1. CASE k \in 1..i
        <5>1. \A c \in changed : k <= c
          BY <3>1, <3>4
        <5>2. QED
          BY <2>2, <4>1, <5>1 DEF SourceKept
      <4>2. CASE k = i + 1
        <5>1. i \notin changed'
          BY <1>00, <3>4, <4>2
        <5>2. QED
          BY <3>1, <4>2, <5>1 DEF Dropped
      <4>3. QED
        BY <1>00, <4>1, <4>2
    <3>5. ASSUME NEW j \in 1..n, source[j].from = 0
          PROVE  \E c \in changed' : \A l \in j..n : source[l].from # 0 => c < source[l].from
      BY <2>2, <3>1, <3>5 DEF SourceKept
    <3>6. \A j, l \in 1..n :
            j < l /\ source[j].from # 0 /\ source[l].from # 0 => source[j].from < source[l].from
      BY <2>2 DEF SourceKept
    <3>7. QED
      BY <1>0, <2>1, <3>1, <3>2, <3>3, <3>4, <3>5, <3>6 DEF SourceKept
  <2>9. QED
    BY <2>1, <2>6, <2>7, <2>8
<1>3. CASE Cleaned
  <2>1. /\ phase = "clean" /\ phase' \in {"pause", "processed"} /\ Trailing(i + 1)
        /\ source' = source /\ changed' = changed
    BY <1>3 DEF Cleaned, fixed
  <2>2. i <= Len(original) /\ SourceKept(i)
    BY <2>1 DEF Cleaning
  <2>3. ASSUME NEW k \in 1..Len(original), ~(k \in 1..i)
        PROVE  Dropped(k)
    <3>1. k \in (i + 1)..Len(original)
      BY <1>00, <2>3
    <3>2. \A j \in k..Len(original) : j \in (i + 1)..Len(original)
      BY <1>00, <3>1
    <3>3. QED
      BY <2>1, <3>2 DEF Trailing, Dropped
  <2>4. \A k \in 1..i : k \in 1..Len(original)
    BY <1>00, <2>2
  <2>5. \A c \in changed : c <= Len(original)
    BY <1>00, <2>2 DEF SourceKept
  <2>6. SourceKept(Len(original))'
    BY <1>i, <1>0, <2>1, <2>2, <2>3, <2>4, <2>5 DEF SourceKept
  <2>7. QED
    BY <2>1, <2>6 DEF Cleaning
<1>4. CASE ~Preprocess /\ ~Clean /\ ~Cleaned
  <2>1. /\ source' = source /\ changed' = changed /\ (phase' = "original" <=> phase = "original")
        /\ (phase' = "clean" => phase = "clean" /\ i' = i)
        /\ (phase' \in {"pause", "processed", "done"} =>
              phase \in {"pause", "processed", "done"})
    BY <1>4 DEF Next, StartToken, Extend, OriginalWord, SpokenWord, NoWord,
       Copy, Shorten, Shortened, Finish, vars, fixed, Position, Splitting
  <2>3. CASE phase' = "clean"
    <3>1. SourceKept(i)'
      BY <1>0, <2>1, <2>3 DEF SourceKept, Cleaning
    <3>2. QED
      BY <1>i, <2>1, <2>3, <3>1 DEF Cleaning
  <2>4. CASE phase' \in {"pause", "processed", "done"}
    <3>1. SourceKept(Len(original))'
      BY <1>i, <1>0, <2>1, <2>4 DEF SourceKept, Cleaning
    <3>2. QED
      BY <2>1, <2>4, <3>1 DEF Cleaning
  <2>5. CASE phase' \notin {"clean", "pause", "processed", "done"}
    BY <2>1, <2>5 DEF Cleaning
  <2>6. QED
    BY <2>3, <2>4, <2>5
<1>5. QED
  BY <1>1, <1>2, <1>3, <1>4

\* Up to a character which the original has at place h, and before which nothing
\* has changed the number of words, source has what the original has, but for
\* dropped spaces.
Front(m, h) == m \in 1..Len(source) /\ source[m].from = h /\ h # 0 /\ Intact(h)

LEMMA FrontTyped ==
  ASSUME TypeOK, SourceKept(Len(original)), NEW m, NEW h, Front(m, h)
  PROVE  /\ Len(original) \in Nat /\ Len(source) \in Nat
         /\ m \in 1..Len(source) /\ m \in Nat /\ m > 0
         /\ h \in 1..Len(original) /\ h \in Nat /\ source[m].from = h
         /\ \A c \in changed : c \in Nat /\ h <= c
         /\ \A j \in 1..m :
              /\ source[j].from \in 1..h /\ source[j].from \in Nat
              /\ source[j].class = Shown(source[j].from)
              /\ Given[source[j].from].class = source[j].class
              /\ ~Trailing(source[j].from)
         /\ \A j, l \in 1..m : source[j].from < source[l].from <=> j < l
<1>1. /\ Len(original) \in Nat /\ Len(source) \in Nat /\ m \in 1..Len(source) /\ m \in Nat
      /\ source[m].from = h /\ h # 0 /\ \A c \in changed : c \in Nat /\ h <= c
  BY OriginalTyped DEF TypeOK, Front, Intact
<1>2. \A j \in 1..Len(source) : source[j].from \in Nat
  <2>1. \A j \in 1..Len(source) : source[j] \in Chars
    BY ElementOfSeq DEF TypeOK
  <2>2. QED
    BY <2>1 DEF Chars
<1>3. ASSUME NEW j \in 1..m PROVE source[j].from # 0 /\ j \in 1..Len(source)
  <2>1. j \in 1..Len(source) /\ m \in j..Len(source)
    BY <1>1
  <2>2. ASSUME source[j].from = 0 PROVE FALSE
    <3>1. PICK c \in changed : \A l \in j..Len(source) : source[l].from # 0 => c < source[l].from
      BY <2>1, <2>2 DEF SourceKept
    <3>2. c < source[m].from /\ h <= c /\ c \in Nat
      BY <1>1, <2>1, <3>1
    <3>3. QED
      BY <1>1, <1>2, <3>2
  <2>3. QED
    BY <2>1, <2>2
<1>4. ASSUME NEW j \in 1..m, NEW l \in 1..m, j < l
      PROVE  source[j].from < source[l].from
  BY <1>3, <1>4 DEF SourceKept
<1>5. ASSUME NEW j \in 1..m, NEW l \in 1..m
      PROVE  source[j].from < source[l].from <=> j < l
  <2>1. /\ j < l => source[j].from < source[l].from
        /\ l < j => source[l].from < source[j].from
    BY <1>4
  <2>2. source[j].from \in Nat /\ source[l].from \in Nat /\ j \in Nat /\ l \in Nat
    BY <1>2, <1>3
  <2>3. QED
    BY <2>1, <2>2
<1>6. ASSUME NEW j \in 1..m
      PROVE  /\ source[j].from \in 1..h /\ source[j].from \in Nat
             /\ source[j].class = Shown(source[j].from)
             /\ Given[source[j].from].class = source[j].class
             /\ ~Trailing(source[j].from)
  <2>1. /\ source[j].from \in 1..Len(original) /\ source[j].class = Shown(source[j].from)
        /\ ~Trailing(source[j].from)
    BY <1>3 DEF SourceKept
  <2>2. Given[source[j].from].class = Shown(source[j].from)
    BY <2>1 DEF Given
  <2>3. source[j].from = source[m].from \/ source[j].from < source[m].from
    <3>1. m \in 1..m /\ (j = m \/ j < m)
      BY <1>1
    <3>2. QED
      BY <1>4, <3>1
  <2>4. source[j].from \in Nat /\ source[m].from \in Nat /\ source[j].from > 0
    BY <1>1, <1>2, <2>1
  <2>5. source[j].from \in 1..h
    BY <1>1, <2>3, <2>4
  <2>6. QED
    BY <2>1, <2>2, <2>4, <2>5
<1>7. h \in 1..Len(original) /\ h \in Nat
  <2>1. source[m].from \in 1..Len(original)
    BY <1>1 DEF SourceKept
  <2>2. QED
    BY <1>1, <2>1
<1>8. QED
  BY <1>1, <1>5, <1>6, <1>7

\* Nothing but spaces is missing there.
LEMMA SourceHas ==
  ASSUME TypeOK, SourceKept(Len(original)), NEW k \in 1..Len(original),
         \A c \in changed : k <= c
  PROVE  Shown(k) # "_" => \E j \in 1..Len(source) : source[j].from = k
<1>0. Len(original) \in Nat
  BY OriginalTyped
<1>1. k \in k..Len(original)
  BY <1>0
<1> SUFFICES ASSUME Shown(k) # "_"
             PROVE  \E j \in 1..Len(source) : source[j].from = k
  OBVIOUS
<1>2. ~Removable(k)
  BY DEF Removable
<1>3. ~Trailing(k)
  <2>1. original[k] # "_"
    BY DEF Shown
  <2>2. QED
    BY <1>1, <2>1 DEF Trailing
<1>4. QED
  BY <1>2, <1>3 DEF SourceKept, Dropped

\* No character up to there stands behind it.
LEMMA FrontEnds ==
  ASSUME TypeOK, SourceKept(Len(original)), NEW m, NEW h, Front(m, h),
         NEW j \in 1..Len(source), source[j].from \in 1..h
  PROVE  j \in 1..m
<1>1. Len(source) \in Nat /\ m \in 1..Len(source) /\ m \in Nat /\ h \in Nat /\ source[m].from = h
      /\ h # 0
  BY FrontTyped DEF Front
<1>2. ASSUME m < j PROVE FALSE
  <2>1. source[m].from < source[j].from
    <3>1. source[m].from # 0 /\ source[j].from # 0
      BY <1>1
    <3>2. QED
      BY <1>1, <1>2, <3>1 DEF SourceKept
  <2>2. PICK f \in 1..h : source[j].from = f
    OBVIOUS
  <2>3. h < f
    BY <1>1, <2>1, <2>2
  <2>4. QED
    BY <1>1, <2>3
<1>3. QED
  BY <1>1, <1>2

LEMMA FrontHas ==
  ASSUME TypeOK, SourceKept(Len(original)), NEW m, NEW h, Front(m, h),
         NEW k \in 1..h
  PROVE  Shown(k) # "_" => \E j \in 1..m : source[j].from = k
<1>1. /\ Len(original) \in Nat /\ h \in 1..Len(original) /\ h \in Nat
      /\ \A c \in changed : c \in Nat /\ h <= c
  BY FrontTyped
<1>2. k \in 1..Len(original) /\ k \in Nat /\ k <= h
  BY <1>1
<1>3. ASSUME NEW c \in changed PROVE k <= c
  BY <1>1, <1>2
<1> SUFFICES ASSUME Shown(k) # "_" PROVE \E j \in 1..m : source[j].from = k
  OBVIOUS
<1>4. PICK j \in 1..Len(source) : source[j].from = k
  BY <1>2, <1>3, SourceHas
<1>5. j \in 1..m
  BY <1>4, FrontEnds
<1>6. QED
  BY <1>4, <1>5

\* What lies between two neighbours in source has been dropped there.
LEMMA FrontGap ==
  ASSUME TypeOK, SourceKept(Len(original)), NEW m, NEW h, Front(m, h),
         NEW j \in 1..m, NEW k \in 1..Len(original), k < source[j].from,
         \A l \in 1..m : source[l].from # k
  PROVE  Removable(k)
<1>1. /\ Len(original) \in Nat /\ h \in Nat
      /\ \A c \in changed : c \in Nat /\ h <= c
      /\ source[j].from \in 1..h /\ source[j].from \in Nat
      /\ ~Trailing(source[j].from)
  BY FrontTyped
<1> PICK f \in 1..h : f = source[j].from
  BY <1>1
<1>2. k \in Nat /\ k < f /\ k \in 1..h
  BY <1>1
<1>3. PICK x \in f..Len(original) : original[x] # "_"
  BY <1>1 DEF Trailing
<1>4. x \in k..Len(original)
  BY <1>1, <1>2
<1>5. ~Trailing(k)
  BY <1>3, <1>4 DEF Trailing
<1>6. ASSUME NEW l \in 1..Len(source), source[l].from = k PROVE FALSE
  <2>1. l \in 1..m
    BY <1>2, <1>6, FrontEnds
  <2>2. QED
    BY <1>6, <2>1
<1>7. ASSUME NEW c \in changed PROVE k <= c
  BY <1>1, <1>2
<1>8. QED
  BY <1>5, <1>6, <1>7 DEF SourceKept, Dropped

\* Before a character of a word no space has been dropped.
LEMMA SpaceStays ==
  ASSUME TypeOK, NEW k \in 1..Len(original), NEW h \in Nat, h + 1 = k, Shown(k) \in Word
  PROVE  ~Removable(h)
<1> SUFFICES ASSUME Removable(h) PROVE FALSE
  OBVIOUS
<1>1. PICK e \in (h + 1)..Len(original) :
        (\A x \in h..(e - 1) : Shown(x) = "_") /\ Shown(e) \in {".", ","}
  BY DEF Removable
<1>2. Len(original) \in Nat
  BY OriginalTyped
<1>3. e # k
  BY <1>1, WordIsNoMark
<1>4. k \in h..(e - 1)
  BY <1>2, <1>3
<1>5. QED
  BY <1>1, <1>4, WordIsNoMark

\* The characters of words are those of the original; so are the first ones.
LEMMA SourceSpoken ==
  ASSUME TypeOK, SourceKept(Len(original)), NEW m, NEW h, Front(m, h), NEW j \in 1..m
  PROVE  Spoken(source, j) <=> Spoken(Given, source[j].from)
<1> DEFINE f(x) == source[x].from
<1>1. /\ Len(original) \in Nat /\ m \in Nat /\ h \in Nat /\ h <= Len(original)
      /\ \A x \in 1..m :
           /\ f(x) \in 1..h /\ f(x) \in Nat
           /\ Given[f(x)].class = source[x].class
           /\ source[x].class = Shown(f(x))
      /\ \A x, y \in 1..m : f(x) < f(y) <=> x < y
  BY FrontTyped
<1>k. \A k \in 1..h : Shown(k) # "_" => \E x \in 1..m : f(x) = k
  BY FrontHas
<1>2. ASSUME NEW k \in 1..Len(original), k < f(j), \A l \in 1..m : f(l) # k
      PROVE  Removable(k)
  BY <1>2, FrontGap
<1>3. \A k \in 1..Len(original) : Given[k].class = Shown(k)
  BY DEF Given
<1> HIDE DEF f
<1>4. ASSUME Chain(Given, f(j)) PROVE Chain(source, j)
  <2>1. PICK B \in 1..(f(j) - 1) : /\ Given[B].class = "bq"
                                   /\ \A x \in (B + 1)..f(j) : Given[x].class \in Body
    BY <1>4 DEF Chain
  <2>2. PICK b \in 1..m : f(b) = B
    <3>1. B \in 1..Len(original) /\ B \in 1..h /\ Shown(B) # "_"
      <4>1. f(j) <= h /\ f(j) \in Nat
        BY <1>1
      <4>2. B \in 1..Len(original) /\ B \in 1..h
        BY <1>1, <4>1
      <4>3. QED
        BY <1>3, <2>1, <4>2
    <3>2. QED
      BY <1>k, <3>1
  <2>3. b \in 1..(j - 1) /\ source[b].class = "bq"
    <3>1. f(b) < f(j)
      BY <1>1, <2>2
    <3>2. QED
      BY <1>1, <2>1, <2>2, <3>1
  <2>4. ASSUME NEW x \in (b + 1)..j PROVE source[x].class \in Body
    <3>1. x \in 1..m /\ b < x /\ (x < j \/ x = j)
      BY <1>1
    <3>2. f(b) < f(x) /\ (f(x) < f(j) \/ f(x) = f(j))
      BY <1>1, <3>1
    <3>3. f(x) \in (B + 1)..f(j)
      BY <1>1, <2>2, <3>1, <3>2
    <3>4. QED
      BY <1>1, <2>1, <3>1, <3>3
  <2>5. QED
    BY <2>3, <2>4 DEF Chain
<1>5. ASSUME Chain(source, j), source[j].class = "a" PROVE Chain(Given, f(j))
  <2>1. PICK b \in 1..(j - 1) : /\ source[b].class = "bq"
                                /\ \A x \in (b + 1)..j : source[x].class \in Body
    BY <1>5 DEF Chain
  <2>2. b \in 1..m /\ f(b) < f(j)
    BY <1>1
  <2>3. f(b) \in 1..(f(j) - 1) /\ Given[f(b)].class = "bq"
    BY <1>1, <2>1, <2>2
  <2>4. ASSUME NEW k \in (f(b) + 1)..f(j)
        PROVE  Given[k].class \in Body \/ (k \in (f(b) + 1)..(f(j) - 1) /\ Removable(k))
    <3>1. k \in 1..Len(original) /\ f(b) < k /\ k <= f(j)
      BY <1>1, <2>2
    <3>2. CASE \E x \in 1..m : f(x) = k
      <4>1. PICK x \in 1..m : f(x) = k
        BY <3>2
      <4>2. b < x
        BY <1>1, <2>2, <3>1, <4>1
      <4>3. x \in (b + 1)..j
        <5>1. ~(j < x)
          BY <1>1, <3>1, <4>1
        <5>2. QED
          BY <1>1, <4>2, <5>1
      <4>4. QED
        BY <1>1, <2>1, <4>1, <4>3
    <3>3. CASE ~\E x \in 1..m : f(x) = k
      <4>1. k < f(j)
        BY <1>1, <3>1, <3>3
      <4>2. Removable(k)
        BY <1>2, <3>1, <3>3, <4>1
      <4>3. QED
        BY <1>1, <2>2, <3>1, <4>1, <4>2
    <3>4. QED
      BY <3>2, <3>3
  <2>5. CASE \A k \in (f(b) + 1)..f(j) : Given[k].class \in Body
    BY <2>3, <2>5 DEF Chain
  <2>6. CASE \E k \in (f(b) + 1)..f(j) : Given[k].class \notin Body
    <3>1. /\ \A k \in (f(b) + 1)..(f(j) - 1) : Shown(k) \in Body \/ Removable(k)
          /\ \E k \in (f(b) + 1)..(f(j) - 1) : Removable(k)
      <4>1. \A k \in (f(b) + 1)..(f(j) - 1) : k \in (f(b) + 1)..f(j) /\ k \in 1..Len(original)
        BY <1>1, <2>2
      <4>2. QED
        BY <1>3, <2>4, <2>6, <4>1
    <3>2. Shown(f(b)) = "bq" /\ Shown(f(j)) = "a"
      BY <1>1, <1>5, <2>1, <2>2
    <3>3. f(b) \in 1..h /\ f(j) \in 1..h
      BY <1>1, <2>2
    <3>4. AnnotationGrows(h)
      BY <3>1, <3>2, <3>3 DEF AnnotationGrows
    <3>5. QED
      BY <3>4 DEF Front, Intact
  <2>7. QED
    BY <2>5, <2>6
<1>6. source[j].class \in Word /\ source[j].class # "a" => ~Chain(source, j)
  <2>1. \A c \in Word : c # "a" => c \notin Body
    BY DEF Word, Body
  <2>2. Chain(source, j) => source[j].class \in Body
    BY DEF Chain
  <2>3. QED
    BY <2>1, <2>2
<1>7. Given[f(j)].class = source[j].class
  BY <1>1
<1>8. Spoken(source, j) <=> Spoken(Given, f(j))
  BY <1>4, <1>5, <1>6, <1>7 DEF Spoken
<1>9. QED
  BY <1>8 DEF f

LEMMA SourceStarts ==
  ASSUME TypeOK, SourceKept(Len(original)), NEW m, NEW h, Front(m, h), NEW j \in 1..m
  PROVE  Starts(source, j) <=> Starts(Given, source[j].from)
<1> DEFINE f(x) == source[x].from
<1>1. /\ Len(original) \in Nat /\ m \in Nat /\ h \in Nat /\ h <= Len(original)
      /\ \A x \in 1..m :
           /\ f(x) \in 1..h /\ f(x) \in Nat /\ source[x].class = Shown(f(x))
      /\ \A x, y \in 1..m : f(x) < f(y) <=> x < y
  BY FrontTyped
<1>k. \A k \in 1..h : Shown(k) # "_" => \E x \in 1..m : f(x) = k
  BY FrontHas
<1>2. \A x \in 1..m : Spoken(source, x) <=> Spoken(Given, f(x))
  BY SourceSpoken
<1>3. ASSUME NEW k \in 1..Len(original), k < f(j), \A l \in 1..m : f(l) # k
      PROVE  Removable(k)
  BY <1>3, FrontGap
<1> HIDE DEF f
<1>4. SUFFICES ASSUME Spoken(source, j)
               PROVE  (j > 1 /\ Spoken(source, j - 1)) <=> (f(j) > 1 /\ Spoken(Given, f(j) - 1))
  <2>1. f(j) = source[j].from
    BY DEF f
  <2>2. QED
    BY <1>2, <2>1 DEF Starts
<1>5. ASSUME j > 1, Spoken(source, j - 1)
      PROVE  f(j) > 1 /\ Spoken(Given, f(j) - 1)
  <2>1. j - 1 \in 1..m /\ f(j - 1) < f(j)
    BY <1>1, <1>5
  <2>2. Spoken(Given, f(j - 1))
    BY <1>2, <1>5, <2>1
  <2>3. CASE f(j - 1) = f(j) - 1
    BY <1>1, <2>1, <2>2, <2>3
  <2>4. CASE f(j - 1) # f(j) - 1
    <3>1. f(j) - 1 \in 1..Len(original) /\ f(j - 1) < f(j) - 1 /\ f(j) - 1 < f(j)
      BY <1>1, <2>1, <2>4
    <3>2. ASSUME NEW l \in 1..m PROVE f(l) # f(j) - 1
      <4>1. ~(j - 1 < l /\ l < j)
        BY <1>1
      <4>2. ~(f(j - 1) < f(l) /\ f(l) < f(j))
        BY <1>1, <2>1, <4>1
      <4>3. QED
        BY <3>1, <4>2
    <3>3. Removable(f(j) - 1)
      BY <1>3, <3>1, <3>2
    <3>4. Shown(f(j)) \in Word
      BY <1>1, <1>4 DEF Spoken
    <3>5. f(j) - 1 \in Nat /\ (f(j) - 1) + 1 = f(j) /\ f(j) \in 1..Len(original)
      BY <1>1, <3>1
    <3>6. QED
      BY <3>3, <3>4, <3>5, SpaceStays
  <2>5. QED
    BY <2>3, <2>4
<1>6. ASSUME f(j) > 1, Spoken(Given, f(j) - 1)
      PROVE  j > 1 /\ Spoken(source, j - 1)
  <2>1. f(j) - 1 \in 1..h /\ Shown(f(j) - 1) # "_"
    <3>1. f(j) - 1 \in 1..Len(original) /\ f(j) - 1 \in 1..h
      BY <1>1, <1>6
    <3>2. Shown(f(j) - 1) \in Word
      BY <1>6, <3>1 DEF Spoken, Given
    <3>3. QED
      BY <3>1, <3>2, WordIsNoMark
  <2>2. PICK x \in 1..m : f(x) = f(j) - 1
    BY <1>k, <2>1
  <2>3. x < j
    <3>1. f(x) < f(j)
      BY <1>1, <2>2
    <3>2. QED
      BY <1>1, <3>1
  <2>4. x = j - 1
    <3>1. SUFFICES ASSUME x # j - 1 PROVE FALSE
      OBVIOUS
    <3>2. j - 1 \in 1..m /\ x < j - 1 /\ j - 1 < j
      BY <1>1, <2>3, <3>1
    <3>3. f(x) < f(j - 1) /\ f(j - 1) < f(j)
      BY <1>1, <3>2
    <3>4. f(j - 1) \in Nat /\ f(j) \in Nat
      BY <1>1, <3>2
    <3>5. QED
      BY <2>2, <3>3, <3>4
  <2>5. QED
    BY <1>1, <1>2, <1>6, <2>2, <2>3, <2>4
<1>7. QED
  BY <1>5, <1>6

-----------------------------------------------------------------------------
\* Inserting pauses keeps all characters of source in their order.
LEMMA PausesStay ==
  ASSUME Len(text) \in Nat, source' = source, pauses' = pauses,
         \A p \in 1..Len(text) : text'[p] = text[p],
         NEW q \in 1..Len(text), NEW j, PausedAt(q, j)
  PROVE  PausedAt(q, j)'
<1>1. q > 4 /\ q \in Nat
  BY DEF PausedAt
<1>2. q - 4 \in 1..Len(text) /\ q - 3 \in 1..Len(text) /\ q - 2 \in 1..Len(text)
      /\ q - 1 \in 1..Len(text)
  BY <1>1
<1>3. /\ text'[q - 4] = text[q - 4] /\ text'[q - 3] = text[q - 3]
      /\ text'[q - 2] = text[q - 2] /\ text'[q - 1] = text[q - 1]
  BY <1>2
<1>4. \A k, e : Pauses(k, e)' <=> Pauses(k, e)
  BY DEF Pauses
<1>5. QED
  BY <1>3, <1>4 DEF PausedAt, Space, Backquote, Digit

LEMMA CopyKeeps ==
  ASSUME TypeOK, Shortening, Copy
  PROVE  Shortening'
<1>1. /\ phase = "pause" /\ phase' = "pause" /\ i < Len(source) /\ i' = i + 1
      /\ text' = Append(text, source[i + 1]) /\ source' = source /\ pauses' = pauses
  BY DEF Copy, inputs, fixed
<1>2. /\ i <= Len(source) /\ TextKept(i) /\ pauses /\ i \in Nat /\ Len(text) \in Nat
      /\ i + 1 \in 1..Len(source)
  BY <1>1 DEF Shortening, TypeOK
<1> DEFINE n == Len(text)
<1>3. /\ Len(text') = n + 1 /\ text'[n + 1] = source[i + 1] /\ n \in Nat
      /\ \A p \in 1..n : text'[p] = text[p]
  BY <1>1 DEF TypeOK
<1>4. PICK place \in [1..i -> Nat] : Placed(place, i)
  BY <1>2 DEF TextKept
<1> PICK h \in Nat : h = i + 1
  BY <1>2
<1>f. PICK further \in [1..h -> Nat] :
        further = [j \in 1..h |-> IF j <= i THEN place[j] ELSE n + 1]
  <2>1. \A j \in 1..h : (IF j <= i THEN place[j] ELSE n + 1) \in Nat
    BY <1>2, <1>3, <1>4
  <2>2. QED
    BY <2>1
<1>5. /\ \A j, l \in 1..i : j < l => place[j] < place[l]
      /\ \A j \in 1..i : place[j] \in 1..n /\ text[place[j]] = source[j]
      /\ \A p \in 1..n :
           \/ \E j \in 1..i : p = place[j]
           \/ \E j \in 2..i : /\ place[j - 1] < p /\ p < place[j]
                              /\ place[j] = place[j - 1] + 5 /\ PausedAt(place[j], j)
  BY <1>4 DEF Placed
<1>6. \A j \in 1..i : PausedAt(place[j], j) => PausedAt(place[j], j)'
  BY <1>1, <1>2, <1>3, <1>5, PausesStay
<1> HIDE DEF n
<1>7. /\ \A j \in 1..i : further[j] = place[j]
      /\ further[h] = n + 1
  BY <1>2, <1>3, <1>f
<1>8. /\ \A j \in 1..h : j \in 1..i \/ j = h
      /\ \A j \in 1..i : j \in 1..h
      /\ \A j \in 2..i : j \in 2..h /\ j \in 1..i
      /\ \A p \in 1..(n + 1) : p \in 1..n \/ p = n + 1
      /\ \A p \in 1..n : p \in 1..(n + 1)
      /\ h \in 1..h /\ n + 1 \in 1..(n + 1)
  BY <1>2, <1>3
<1>9. ASSUME NEW j \in 1..h, NEW l \in 1..h, j < l
      PROVE  further[j] < further[l]
  <2>1. j \in 1..i
    BY <1>2, <1>9
  <2>2. CASE l \in 1..i
    BY <1>5, <1>7, <1>9, <2>1, <2>2
  <2>3. CASE l = h
    BY <1>3, <1>5, <1>7, <2>1, <2>3
  <2>4. QED
    BY <1>8, <2>2, <2>3
<1>10. ASSUME NEW j \in 1..h
       PROVE  further[j] \in 1..(n + 1) /\ text'[further[j]] = source[j]
  BY <1>3, <1>5, <1>7, <1>8
<1>11. ASSUME NEW p \in 1..(n + 1)
       PROVE  \/ \E j \in 1..h : p = further[j]
              \/ \E j \in 2..h : /\ further[j - 1] < p /\ p < further[j]
                                 /\ further[j] = further[j - 1] + 5 /\ PausedAt(further[j], j)'
  <2>1. CASE p = n + 1
    BY <1>7, <1>8, <2>1
  <2>2. CASE p \in 1..n /\ \E j \in 1..i : p = place[j]
    BY <1>7, <1>8, <2>2
  <2>3. CASE p \in 1..n /\ ~\E j \in 1..i : p = place[j]
    <3>1. PICK j \in 2..i : /\ place[j - 1] < p /\ p < place[j]
                            /\ place[j] = place[j - 1] + 5 /\ PausedAt(place[j], j)
      BY <1>5, <2>3
    <3>2. further[j] = place[j] /\ further[j - 1] = place[j - 1] /\ j \in 2..h
      <4>1. j - 1 \in 1..i
        BY <1>2
      <4>2. QED
        BY <1>7, <1>8, <4>1
    <3>3. PausedAt(place[j], j)'
      BY <1>6, <1>8, <3>1
    <3>4. PausedAt(further[j], j)'
      BY <3>2, <3>3 DEF PausedAt
    <3>5. QED
      BY <3>1, <3>2, <3>4
  <2>4. QED
    BY <1>8, <2>1, <2>2, <2>3
<1>12. Placed(further, h)'
  BY <1>1, <1>3, <1>9, <1>10, <1>11 DEF Placed
<1>13. TextKept(i)'
  BY <1>1, <1>12 DEF TextKept
<1>14. QED
  BY <1>1, <1>2, <1>13 DEF Shortening

\* What stands where when sequences are joined.
LEMMA Chained ==
  ASSUME NEW s \in Seq(Chars), NEW m \in Seq(Chars), NEW r \in Seq(Chars)
  PROVE  /\ Len((s \o m) \o r) = Len(s) + Len(m) + Len(r)
         /\ Len(s) \in Nat /\ Len(m) \in Nat /\ Len(r) \in Nat
         /\ \A p \in 1..Len(s) : ((s \o m) \o r)[p] = s[p]
         /\ \A p \in 1..Len(m) : ((s \o m) \o r)[Len(s) + p] = m[p]
         /\ \A p \in 1..Len(r) : ((s \o m) \o r)[Len(s) + Len(m) + p] = r[p]
<1> DEFINE u == s \o m
           t == u \o r
<1>1. Len(s) \in Nat /\ Len(m) \in Nat /\ Len(r) \in Nat
  OBVIOUS
<1>2. /\ u \in Seq(Chars) /\ Len(u) = Len(s) + Len(m)
      /\ \A p \in 1..Len(s) + Len(m) : u[p] = IF p <= Len(s) THEN s[p] ELSE m[p - Len(s)]
  BY ConcatProperties
<1>3. u \in Seq(Chars)
  BY <1>2
<1> HIDE DEF u
<1>4. /\ Len(t) = Len(u) + Len(r)
      /\ \A p \in 1..Len(u) + Len(r) : t[p] = IF p <= Len(u) THEN u[p] ELSE r[p - Len(u)]
  BY <1>3, ConcatProperties
<1> HIDE DEF t
<1>5. Len(t) = Len(s) + Len(m) + Len(r)
  BY <1>1, <1>2, <1>4
<1>6. ASSUME NEW p \in 1..Len(s) PROVE t[p] = s[p]
  BY <1>1, <1>2, <1>4
<1>7. ASSUME NEW p \in 1..Len(m) PROVE t[Len(s) + p] = m[p]
  <2>1. /\ Len(s) + p \in 1..Len(s) + Len(m) /\ Len(s) + p \in 1..Len(u) + Len(r)
        /\ ~(Len(s) + p <= Len(s)) /\ (Len(s) + p) - Len(s) = p /\ Len(s) + p <= Len(u)
    BY <1>1, <1>2
  <2>2. QED
    BY <1>2, <1>4, <2>1
<1>8. ASSUME NEW p \in 1..Len(r) PROVE t[Len(s) + Len(m) + p] = r[p]
  <2>1. /\ Len(s) + Len(m) + p \in 1..Len(u) + Len(r)
        /\ ~(Len(s) + Len(m) + p <= Len(u)) /\ (Len(s) + Len(m) + p) - Len(u) = p
    BY <1>1, <1>2
  <2>2. QED
    BY <1>4, <2>1
<1>9. t = (s \o m) \o r
  BY DEF t, u
<1>10. QED
  BY <1>1, <1>5, <1>6, <1>7, <1>8, <1>9

LEMMA ShortenKeeps ==
  ASSUME TypeOK, Shortening, Shorten
  PROVE  Shortening'
<1>1. /\ phase = "pause" /\ phase' = "pause" /\ source' = source /\ pauses' = pauses
  BY DEF Shorten, inputs, fixed
<1>2. PICK e \in (i + 2)..Len(source) :
        /\ Pauses(i + 1, e)
        /\ LET to == IF e < Len(source) THEN e + 1 ELSE e IN
           /\ text' = text \o <<source[i + 1], Space, Backquote, Digit, Digit>>
                           \o SubSeq(source, i + 2, to)
           /\ i' = to
  BY DEF Shorten
<1> DEFINE to == IF e < Len(source) THEN e + 1 ELSE e
           n == Len(text)
           r == SubSeq(source, i + 2, to)
<1>3. /\ TextKept(i) /\ pauses /\ i \in Nat /\ n \in Nat /\ Len(source) \in Nat
      /\ e \in Nat /\ i + 2 <= e /\ e <= Len(source)
  BY <1>1, <1>2 DEF Shortening, TypeOK
<1>4. to \in Nat /\ i + 2 <= to /\ to <= Len(source)
  BY <1>3
<1>5. /\ text' = text \o <<source[i + 1], Space, Backquote, Digit, Digit>> \o r
      /\ i' = to
  BY <1>2
<1> HIDE DEF to
<1>6. /\ r \in Seq(Chars) /\ Len(r) = to - i - 1 /\ source[i + 1] \in Chars
      /\ \A m \in 1..(to - i - 1) : r[m] = source[i + 1 + m]
  <2>1. \A j \in (i + 2)..to : source[j] \in Chars
    BY <1>3, <1>4, ElementOfSeq DEF TypeOK
  <2>2. /\ r \in Seq(Chars) /\ Len(r) = to - (i + 2) + 1
        /\ \A m \in 1..(to - (i + 2) + 1) : r[m] = source[i + 2 + m - 1]
    BY <1>3, <1>4, <2>1, SubSeqProperties DEF TypeOK
  <2>3. source[i + 1] \in Chars
    BY <1>3, ElementOfSeq DEF TypeOK
  <2> HIDE DEF r
  <2>4. to - (i + 2) + 1 = to - i - 1
    BY <1>3, <1>4
  <2>5. ASSUME NEW m \in 1..(to - i - 1) PROVE r[m] = source[i + 1 + m]
    <3>1. i + 2 + m - 1 = i + 1 + m
      BY <1>3
    <3>2. QED
      BY <2>2, <2>4, <3>1
  <2>6. QED
    BY <2>2, <2>3, <2>4, <2>5
<1> HIDE DEF r
<1>7. /\ Len(text') = n + 4 + to - i
      /\ \A p \in 1..n : text'[p] = text[p]
      /\ text'[n + 1] = source[i + 1] /\ text'[n + 2] = Space /\ text'[n + 3] = Backquote
      /\ text'[n + 4] = Digit /\ text'[n + 5] = Digit
      /\ \A m \in 1..(to - i - 1) : text'[n + 5 + m] = source[i + 1 + m]
  <2>1. /\ Len(text') = n + 5 + Len(r) /\ Len(r) \in Nat
        /\ \A p \in 1..n : text'[p] = text[p]
        /\ text'[n + 1] = source[i + 1] /\ text'[n + 2] = Space /\ text'[n + 3] = Backquote
        /\ text'[n + 4] = Digit /\ text'[n + 5] = Digit
        /\ \A m \in 1..Len(r) : text'[n + 5 + m] = r[m]
    <3> DEFINE five == <<source[i + 1], Space, Backquote, Digit, Digit>>
    <3>1. Space \in Chars /\ Backquote \in Chars /\ Digit \in Chars
      BY DEF Space, Backquote, Digit, Chars, Classes
    <3>2. /\ Len(five) = 5 /\ five[1] = source[i + 1] /\ five[2] = Space
          /\ five[3] = Backquote /\ five[4] = Digit /\ five[5] = Digit
      OBVIOUS
    <3>3. five \in Seq(Chars)
      BY <1>6, <3>1
    <3>4. text' = (text \o five) \o r
      BY <1>5
    <3> HIDE DEF five
    <3>5. /\ Len((text \o five) \o r) = n + Len(five) + Len(r)
          /\ n \in Nat /\ Len(five) \in Nat /\ Len(r) \in Nat
          /\ \A p \in 1..n : ((text \o five) \o r)[p] = text[p]
          /\ \A p \in 1..Len(five) : ((text \o five) \o r)[n + p] = five[p]
          /\ \A p \in 1..Len(r) : ((text \o five) \o r)[n + Len(five) + p] = r[p]
      BY <1>6, <3>3, Chained DEF TypeOK
    <3> HIDE DEF n
    <3>6. /\ Len(text') = n + 5 + Len(r)
          /\ \A p \in 1..n : text'[p] = text[p]
          /\ \A p \in 1..5 : text'[n + p] = five[p]
          /\ \A m \in 1..Len(r) : text'[n + 5 + m] = r[m]
      BY <3>2, <3>4, <3>5
    <3>7. QED
      BY <3>2, <3>5, <3>6
  <2>2. n + 5 + (to - i - 1) = n + 4 + to - i
    BY <1>3, <1>4
  <2>3. QED
    BY <1>6, <2>1, <2>2
<1>8. PICK place \in [1..i -> Nat] : Placed(place, i)
  BY <1>3 DEF TextKept
<1>9. /\ \A j, l \in 1..i : j < l => place[j] < place[l]
      /\ \A j \in 1..i : place[j] \in 1..n /\ text[place[j]] = source[j]
      /\ \A p \in 1..n :
           \/ \E j \in 1..i : p = place[j]
           \/ \E j \in 2..i : /\ place[j - 1] < p /\ p < place[j]
                              /\ place[j] = place[j - 1] + 5 /\ PausedAt(place[j], j)
  BY <1>8 DEF Placed
<1>10. \A j \in 1..i : PausedAt(place[j], j) => PausedAt(place[j], j)'
  BY <1>1, <1>3, <1>7, <1>9, PausesStay
<1> HIDE DEF n
<1> PICK N \in Nat : N = n + 4 + to - i
  BY <1>3, <1>4
<1> PICK h \in Nat : h = to
  BY <1>4
<1>f. PICK further \in [1..h -> Nat] :
        further = [j \in 1..h |-> IF j <= i THEN place[j]
                                  ELSE IF j = i + 1 THEN n + 1 ELSE n + 4 + j - i]
  <2>1. \A j \in 1..h : (IF j <= i THEN place[j]
                         ELSE IF j = i + 1 THEN n + 1 ELSE n + 4 + j - i) \in Nat
    BY <1>3, <1>4, <1>8
  <2>2. QED
    BY <2>1
<1>11. /\ \A j \in 1..i : further[j] = place[j]
       /\ further[i + 1] = n + 1
       /\ \A j \in (i + 2)..to : further[j] = n + 4 + j - i
  BY <1>3, <1>4, <1>f
<1>12. /\ \A j \in 1..to : j \in 1..i \/ j = i + 1 \/ j \in (i + 2)..to
       /\ \A j \in 1..i : j \in 1..to
       /\ \A j \in (i + 2)..to : j \in 1..to
       /\ \A j \in 2..i : j \in 2..to /\ j \in 1..i
       /\ i + 1 \in 1..to /\ i + 2 \in 2..to /\ i + 2 \in (i + 2)..to
       /\ N \in Nat /\ n + 1 \in 1..N /\ \A p \in 1..n : p \in 1..N
  BY <1>3, <1>4
<1>13. ASSUME NEW j \in 1..h, NEW l \in 1..h, j < l
       PROVE  further[j] < further[l]
  <2>1. CASE l \in 1..i
    <3>1. j \in 1..i
      BY <1>3, <1>13, <2>1
    <3>2. QED
      BY <1>9, <1>11, <1>13, <2>1, <3>1
  <2>2. CASE l = i + 1
    <3>1. j \in 1..i
      BY <1>3, <1>13, <2>2
    <3>2. QED
      BY <1>3, <1>9, <1>11, <2>2, <3>1
  <2>3. CASE l \in (i + 2)..to
    <3>1. CASE j \in 1..i
      <4>1. further[j] \in 1..n /\ further[l] = n + 4 + l - i
        BY <1>9, <1>11, <2>3, <3>1
      <4>2. QED
        BY <1>3, <1>4, <2>3, <4>1
    <3>2. CASE j = i + 1
      BY <1>3, <1>4, <1>11, <2>3, <3>2
    <3>3. CASE j \in (i + 2)..to
      BY <1>3, <1>4, <1>11, <1>13, <2>3, <3>3
    <3>4. QED
      BY <1>12, <3>1, <3>2, <3>3
  <2>4. QED
    BY <1>12, <2>1, <2>2, <2>3
<1>14. ASSUME NEW j \in 1..h
       PROVE  further[j] \in 1..N /\ text'[further[j]] = source[j]
  <2>1. CASE j \in 1..i
    <3>1. further[j] = place[j] /\ place[j] \in 1..n /\ text[place[j]] = source[j]
      BY <1>9, <1>11, <2>1
    <3>2. place[j] \in 1..N /\ text'[place[j]] = text[place[j]]
      BY <1>7, <1>12, <3>1
    <3>3. QED
      BY <3>1, <3>2
  <2>2. CASE j = i + 1
    BY <1>7, <1>11, <1>12, <2>2
  <2>3. CASE j \in (i + 2)..to
    <3> DEFINE m == j - i - 1
    <3>1. m \in 1..(to - i - 1) /\ i + 1 + m = j /\ n + 5 + m = n + 4 + j - i
          /\ n + 5 + m \in 1..N
      BY <1>3, <1>4, <2>3
    <3>2. text'[n + 5 + m] = source[i + 1 + m]
      BY <1>7, <3>1
    <3>3. QED
      BY <1>11, <2>3, <3>1, <3>2
  <2>4. QED
    BY <1>12, <2>1, <2>2, <2>3
<1> PICK q \in Nat : q = n + 6
  BY <1>3
<1> PICK j \in Nat : j = i + 2
  BY <1>3
<1>15. PausedAt(q, j)'
  <2>1. /\ q > 4 /\ q - 4 = n + 2 /\ q - 3 = n + 3 /\ q - 2 = n + 4 /\ q - 1 = n + 5
        /\ j - 1 = i + 1
    BY <1>3
  <2>2. \A k, y : Pauses(k, y)' <=> Pauses(k, y)
    BY <1>1 DEF Pauses
  <2>3. \E y \in j..Len(source) : Pauses(j - 1, y)
    BY <1>2, <2>1
  <2>4. /\ text'[q - 4] = Space /\ text'[q - 3] = Backquote /\ text'[q - 2] = Digit
        /\ text'[q - 1] = Digit
    BY <1>7, <2>1
  <2>5. Space' = Space /\ Backquote' = Backquote /\ Digit' = Digit
    BY DEF Space, Backquote, Digit
  <2>6. QED
    BY <1>1, <1>3, <2>1, <2>2, <2>3, <2>4, <2>5 DEF PausedAt
<1>16. ASSUME NEW p \in 1..N
       PROVE  \/ \E l \in 1..h : p = further[l]
              \/ \E l \in 2..h : /\ further[l - 1] < p /\ p < further[l]
                                 /\ further[l] = further[l - 1] + 5 /\ PausedAt(further[l], l)'
  <2>1. CASE p \in 1..n /\ \E l \in 1..i : p = place[l]
    BY <1>11, <1>12, <2>1
  <2>2. CASE p \in 1..n /\ ~\E l \in 1..i : p = place[l]
    <3>1. PICK l \in 2..i : /\ place[l - 1] < p /\ p < place[l]
                            /\ place[l] = place[l - 1] + 5 /\ PausedAt(place[l], l)
      BY <1>9, <2>2
    <3>2. further[l] = place[l] /\ further[l - 1] = place[l - 1] /\ l \in 2..to
      <4>1. l - 1 \in 1..i
        BY <1>3
      <4>2. QED
        BY <1>11, <1>12, <4>1
    <3>3. PausedAt(place[l], l)'
      BY <1>10, <1>12, <3>1
    <3>4. PausedAt(further[l], l)'
      BY <3>2, <3>3 DEF PausedAt
    <3>5. QED
      BY <3>1, <3>2, <3>4
  <2>3. CASE p = n + 1
    BY <1>11, <1>12, <2>3
  <2>4. CASE p \in {n + 2, n + 3, n + 4, n + 5}
    <3>1. further[j] = q /\ j \in 2..to
      <4>1. j \in (i + 2)..to /\ n + 4 + j - i = q
        BY <1>3, <1>12
      <4>2. QED
        BY <1>11, <1>12, <4>1
    <3>2. j - 1 = i + 1 /\ further[j - 1] = n + 1 /\ n + 1 < p /\ p < q /\ q = n + 1 + 5
      BY <1>3, <1>11, <2>4
    <3>3. PausedAt(further[j], j)'
      BY <1>15, <3>1 DEF PausedAt
    <3>4. QED
      BY <3>1, <3>2, <3>3
  <2>5. CASE p > n + 5
    <3>1. PICK l \in (i + 2)..to : p = n + 4 + l - i
      <4>1. p - n - 4 + i \in (i + 2)..to /\ p = n + 4 + (p - n - 4 + i) - i
        BY <1>3, <1>4, <2>5
      <4>2. QED
        BY <4>1
    <3>2. QED
      BY <1>11, <1>12, <3>1
  <2>6. QED
    BY <1>3, <1>4, <2>1, <2>2, <2>3, <2>4, <2>5
<1>17. Placed(further, h)'
  <2>1. Len(text') = N
    BY <1>7
  <2>2. QED
    BY <1>1, <2>1, <1>13, <1>14, <1>16 DEF Placed
<1>18. TextKept(i)'
  BY <1>1, <1>5, <1>17 DEF TextKept
<1>19. QED
  BY <1>1, <1>3, <1>4, <1>5, <1>18 DEF Shortening

LEMMA ShorteningStep ==
  TypeOK /\ Position /\ Shortening /\ [Next]_vars => Shortening'
<1> SUFFICES ASSUME TypeOK, Position, Shortening, [Next]_vars PROVE Shortening'
  OBVIOUS
<1>1. CASE Preprocess
  BY <1>1 DEF Preprocess, Shortening
<1>2. CASE Clean
  BY <1>2 DEF Clean, Shortening
<1>3. CASE Cleaned
  <2>1. /\ phase = "clean" /\ source' = source /\ pauses' = pauses
        /\ i' = 0 /\ text = <<>>
        /\ IF pauses
           THEN phase' = "pause" /\ text' = text
           ELSE phase' = "processed" /\ text' = source
    BY <1>3 DEF Cleaned, inputs, fixed, Shortening
  <2>2. Len(source) \in Nat
    BY DEF TypeOK
  <2>3. CASE pauses
    <3>1. PICK place \in [1..0 -> Nat] : place = [j \in 1..0 |-> 0]
      OBVIOUS
    <3>2. \A j \in 1..0 : FALSE
      OBVIOUS
    <3>3. \A p \in 1..Len(text') : FALSE
      BY <2>1, <2>3
    <3>4. Placed(place, 0)'
      BY <3>2, <3>3 DEF Placed
    <3>5. TextKept(i)'
      BY <2>1, <3>4 DEF TextKept
    <3>6. QED
      BY <2>1, <2>2, <2>3, <3>5 DEF Shortening
  <2>4. CASE ~pauses
    <3>1. PICK n \in Nat : n = Len(source)
      BY <2>2
    <3>2. PICK place \in [1..n -> Nat] : place = [j \in 1..n |-> j]
      <4>1. [j \in 1..n |-> j] \in [1..n -> Nat]
        OBVIOUS
      <4>2. QED
        BY <4>1
    <3>3. \A j \in 1..n : place[j] = j
      BY <3>2
    <3>4. text' = source /\ source' = source /\ Len(text') = n
      BY <2>1, <2>4, <3>1
    <3>5. /\ \A j, l \in 1..n : j < l => place[j] < place[l]
          /\ \A j \in 1..n : place[j] \in 1..n /\ text'[place[j]] = source'[j]
          /\ \A p \in 1..n : \E j \in 1..n : p = place[j]
      BY <3>3, <3>4
    <3>i. Placed(place, n)'
      BY <3>4, <3>5 DEF Placed
    <3>6. TextKept(Len(source))'
      BY <2>1, <3>1, <3>i DEF TextKept
    <3>7. QED
      BY <2>1, <2>4, <3>6 DEF Shortening
  <2>5. QED
    BY <2>3, <2>4
<1>4. CASE Shortened
  <2>1. /\ phase = "pause" /\ phase' = "processed" /\ i = Len(source) /\ source' = source
        /\ pauses' = pauses /\ text' = text /\ TextKept(i)
    BY <1>4 DEF Shortened, inputs, fixed, Shortening
  <2>2. \A q, j : PausedAt(q, j)' <=> PausedAt(q, j)
    BY <2>1 DEF PausedAt, Pauses
  <2>3. TextKept(Len(source))'
    BY <2>1, <2>2 DEF TextKept, Placed
  <2>4. QED
    BY <2>1, <2>3 DEF Shortening
<1>5. CASE StartToken \/ Extend \/ OriginalWord \/ SpokenWord \/ NoWord \/ Finish \/ UNCHANGED vars
  <2>1. /\ source' = source /\ pauses' = pauses /\ text' = text
        /\ (phase' = "clean" => phase = "clean")
        /\ (phase' = "pause" => phase = "pause" /\ i' = i)
        /\ (phase' \in {"processed", "done"} => phase \in {"processed", "done"})
    BY <1>5 DEF StartToken, Extend, OriginalWord, SpokenWord, NoWord, Finish, vars, inputs,
       fixed, Position, Splitting
  <2>2. \A q, j : PausedAt(q, j)' <=> PausedAt(q, j)
    BY <2>1 DEF PausedAt, Pauses
  <2>3. phase' = "clean" => text' = <<>>
    BY <2>1 DEF Shortening
  <2>4. ASSUME phase' = "pause" PROVE (i <= Len(source) /\ TextKept(i) /\ pauses)'
    <3>1. i <= Len(source) /\ TextKept(i) /\ pauses /\ i' = i
      BY <2>1, <2>4 DEF Shortening
    <3>2. TextKept(i)'
      BY <2>1, <2>2, <3>1 DEF TextKept, Placed
    <3>3. QED
      BY <2>1, <3>1, <3>2
  <2>5. ASSUME phase' \in {"processed", "done"} PROVE TextKept(Len(source))'
    <3>1. TextKept(Len(source))
      BY <2>1, <2>5 DEF Shortening
    <3>2. QED
      BY <2>1, <2>2, <3>1 DEF TextKept, Placed
  <2>6. QED
    BY <2>3, <2>4, <2>5 DEF Shortening
<1>6. QED
  BY <1>1, <1>2, <1>3, <1>4, <1>5, CopyKeeps, ShortenKeeps DEF Next

-----------------------------------------------------------------------------
\* In text the characters of source have kept their order.
LEMMA PlaceOrder ==
  ASSUME TypeOK, NEW place, Placed(place, Len(source))
  PROVE  /\ Len(text) \in Nat /\ Len(source) \in Nat
         /\ \A j \in 1..Len(source) :
              place[j] \in 1..Len(text) /\ place[j] \in Nat /\ text[place[j]] = source[j]
         /\ \A j, l \in 1..Len(source) : place[j] < place[l] <=> j < l
<1>1. Len(text) \in Nat /\ Len(source) \in Nat
  BY DEF TypeOK
<1>2. ASSUME NEW j \in 1..Len(source)
      PROVE  place[j] \in 1..Len(text) /\ place[j] \in Nat /\ text[place[j]] = source[j]
  BY <1>1 DEF Placed
<1>3. ASSUME NEW j \in 1..Len(source), NEW l \in 1..Len(source)
      PROVE  place[j] < place[l] <=> j < l
  <2>1. (j < l => place[j] < place[l]) /\ (l < j => place[l] < place[j])
    BY DEF Placed
  <2>2. place[j] \in Nat /\ place[l] \in Nat /\ j \in Nat /\ l \in Nat
    BY <1>2
  <2>3. QED
    BY <2>1, <2>2
<1>4. QED
  BY <1>1, <1>2, <1>3

\* What was inserted is a pause, an annotation: no word is spoken there.
LEMMA InsertedSilent ==
  ASSUME TypeOK, NEW place, Placed(place, Len(source)),
         NEW p \in 1..Len(text), \A j \in 1..Len(source) : p # place[j]
  PROVE  ~Spoken(text, p)
<1>1. PICK j \in 2..Len(source) : /\ place[j - 1] < p /\ p < place[j]
                                  /\ place[j] = place[j - 1] + 5 /\ PausedAt(place[j], j)
  BY DEF Placed
<1>2. PICK q \in Nat, r \in Nat : q = place[j] /\ r = place[j - 1]
  <2>1. j \in 1..Len(source) /\ j - 1 \in 1..Len(source)
    BY PlaceOrder
  <2>2. QED
    BY <2>1, PlaceOrder
<1>3. /\ q > 4
      /\ text[q - 4] = Space /\ text[q - 3] = Backquote
      /\ text[q - 2] = Digit /\ text[q - 1] = Digit
  BY <1>1, <1>2 DEF PausedAt
<1>4. /\ text[q - 4].class = "_" /\ text[q - 3].class = "bq"
      /\ text[q - 2].class = "a" /\ text[q - 1].class = "a"
  <2>1. Space.class = "_" /\ Backquote.class = "bq" /\ Digit.class = "a"
    BY DEF Space, Backquote, Digit
  <2>2. QED
    BY <1>3, <2>1
<1>5. p \in Nat /\ p \in {q - 4, q - 3, q - 2, q - 1}
  <2>1. p \in Nat /\ r < p /\ p < q /\ q = r + 5
    BY <1>1, <1>2
  <2>2. p = r + 1 \/ p = r + 2 \/ p = r + 3 \/ p = r + 4
    BY <2>1
  <2>3. q - 4 = r + 1 /\ q - 3 = r + 2 /\ q - 2 = r + 3 /\ q - 1 = r + 4
    BY <2>1
  <2>4. QED
    BY <2>1, <2>2, <2>3
<1>6. CASE p \in {q - 4, q - 3}
  BY <1>4, <1>6, WordIsNoMark DEF Spoken
<1>7. CASE p \in {q - 2, q - 1}
  <2>1. /\ q - 3 \in 1..(p - 1)
        /\ \A x \in ((q - 3) + 1)..p : x \in {q - 2, q - 1}
    BY <1>3, <1>5, <1>7
  <2>2. \A x \in ((q - 3) + 1)..p : text[x].class \in Body
    BY <1>4, <2>1 DEF Body
  <2>3. Chain(text, p)
    BY <1>4, <2>1, <2>2 DEF Chain
  <2>4. QED
    BY <2>3 DEF Spoken
<1>8. QED
  BY <1>5, <1>6, <1>7

\* No letter follows a pause without a space, or other punctuation than in an
\* annotation, between them.
LEMMA PauseBreaks ==
  ASSUME NEW q, NEW j \in 2..Len(source), NEW l \in 1..Len(source), Len(source) \in Nat,
         PausedAt(q, j), j <= l, source[l].class = "a"
  PROVE  \E x \in j..l : source[x].class \notin Body
<1>1. PICK e \in j..Len(source) : Pauses(j - 1, e)
  BY DEF PausedAt
<1>2. (j - 1) + 1 = j
  OBVIOUS
<1>3. /\ source[j].class \in Pausing
      /\ \A x \in j..e : source[x].class = source[j].class
      /\ e < Len(source) => source[e + 1].class = "_"
  BY <1>1, <1>2 DEF Pauses
<1>4. source[j].class # "a"
  BY <1>3 DEF Pausing
<1>5. l \in j..e => source[l].class = source[j].class
  BY <1>3
<1>6. l \notin j..e
  BY <1>4, <1>5
<1>7. e < Len(source) /\ e + 1 \in j..l
  BY <1>6
<1>8. source[e + 1].class = "_"
  BY <1>3, <1>7
<1>9. QED
  BY <1>7, <1>8, WordIsNoMark

\* A pause between two characters that have kept their places stands behind the
\* first one and before the other.
LEMMA PauseBetween ==
  ASSUME TypeOK, NEW place, Placed(place, Len(source)),
         NEW y \in 1..Len(source), NEW j \in 1..Len(source), NEW l \in 2..Len(source), NEW p \in Nat,
         place[y] < p, p < place[j], place[l - 1] < p, p < place[l]
  PROVE  y < l /\ l <= j
<1>1. /\ \A x \in 1..Len(source) : place[x] \in Nat
      /\ \A x, z \in 1..Len(source) : place[x] < place[z] <=> x < z
      /\ Len(source) \in Nat
  BY PlaceOrder
<1>2. l \in 1..Len(source) /\ l - 1 \in 1..Len(source)
  BY <1>1
<1>3. place[y] < place[l]
  BY <1>1, <1>2
<1>4. place[l - 1] < place[j]
  BY <1>1, <1>2
<1>5. QED
  BY <1>1, <1>2, <1>3, <1>4

\* Pauses neither join words to annotations nor part them from those.
LEMMA TextSpoken ==
  ASSUME TypeOK, NEW place, Placed(place, Len(source)), NEW j \in 1..Len(source)
  PROVE  Spoken(text, place[j]) <=> Spoken(source, j)
<1>1. /\ Len(text) \in Nat /\ Len(source) \in Nat
      /\ \A x \in 1..Len(source) :
           place[x] \in 1..Len(text) /\ place[x] \in Nat /\ text[place[x]] = source[x]
      /\ \A x, z \in 1..Len(source) : place[x] < place[z] <=> x < z
  BY PlaceOrder
<1>2. ASSUME NEW p \in 1..Len(text), \A x \in 1..Len(source) : p # place[x]
      PROVE  \E l \in 2..Len(source) : /\ place[l - 1] < p /\ p < place[l]
                                       /\ PausedAt(place[l], l)
  BY <1>2 DEF Placed
<1>3. ASSUME Chain(text, place[j]), source[j].class = "a" PROVE Chain(source, j)
  <2>1. PICK b \in 1..(place[j] - 1) :
          text[b].class = "bq" /\ \A x \in (b + 1)..place[j] : text[x].class \in Body
    BY <1>3 DEF Chain
  <2>2. b \in 1..Len(text) /\ b < place[j] /\ b \in Nat
    BY <1>1
  <2>3. CASE \E y \in 1..Len(source) : b = place[y]
    <3>1. PICK y \in 1..Len(source) : b = place[y]
      BY <2>3
    <3>2. y \in 1..(j - 1) /\ source[y].class = "bq"
      <4>1. y < j
        BY <1>1, <2>2, <3>1
      <4>2. QED
        BY <1>1, <2>1, <3>1, <4>1
    <3>3. ASSUME NEW x \in (y + 1)..j PROVE source[x].class \in Body
      <4>1. x \in 1..Len(source) /\ y < x /\ ~(j < x)
        BY <1>1
      <4>2. place[y] < place[x] /\ ~(place[j] < place[x])
        BY <1>1, <4>1
      <4>3. place[x] \in (b + 1)..place[j]
        BY <1>1, <3>1, <4>1, <4>2
      <4>4. QED
        BY <1>1, <2>1, <4>1, <4>3
    <3>4. QED
      BY <3>2, <3>3 DEF Chain
  <2>4. CASE ~\E y \in 1..Len(source) : b = place[y]
    <3>1. PICK l \in 2..Len(source) : /\ place[l - 1] < b /\ b < place[l]
                                      /\ PausedAt(place[l], l)
      BY <1>2, <2>2, <2>4
    <3>2. l \in 1..Len(source) /\ l - 1 \in 1..Len(source)
      BY <1>1
    <3>3. l <= j
      <4>1. place[l - 1] < place[j]
        BY <1>1, <2>2, <3>1, <3>2
      <4>2. l - 1 < j
        BY <1>1, <3>2, <4>1
      <4>3. QED
        BY <4>2
    <3>4. PICK x \in l..j : source[x].class \notin Body
      BY <1>1, <1>3, <3>1, <3>3, PauseBreaks
    <3>5. x \in 1..Len(source) /\ ~(x < l) /\ ~(j < x)
      BY <1>1, <3>2, <3>3
    <3>6. ~(place[x] < place[l]) /\ ~(place[j] < place[x])
      BY <1>1, <3>2, <3>5
    <3>7. place[x] \in (b + 1)..place[j]
      BY <1>1, <2>2, <3>1, <3>2, <3>5, <3>6
    <3>8. QED
      BY <1>1, <2>1, <3>4, <3>5, <3>7
  <2>5. QED
    BY <2>3, <2>4
<1>4. ASSUME Chain(source, j), source[j].class = "a" PROVE Chain(text, place[j])
  <2>1. PICK y \in 1..(j - 1) : /\ source[y].class = "bq"
                                /\ \A x \in (y + 1)..j : source[x].class \in Body
    BY <1>4 DEF Chain
  <2>2. y \in 1..Len(source) /\ y < j
    BY <1>1
  <2>3. place[y] < place[j] /\ text[place[y]].class = "bq" /\ place[y] \in 1..(place[j] - 1)
    BY <1>1, <2>1, <2>2
  <2>4. ASSUME NEW x \in (place[y] + 1)..place[j] PROVE text[x].class \in Body
    <3>1. x \in 1..Len(text) /\ x \in Nat /\ place[y] < x /\ ~(place[j] < x)
      BY <1>1, <2>2
    <3>2. CASE \E l \in 1..Len(source) : x = place[l]
      <4>1. PICK l \in 1..Len(source) : x = place[l]
        BY <3>2
      <4>2. y < l /\ ~(j < l)
        BY <1>1, <2>2, <3>1, <4>1
      <4>3. l \in (y + 1)..j
        BY <1>1, <2>2, <4>2
      <4>4. QED
        BY <1>1, <2>1, <4>1, <4>3
    <3>3. CASE ~\E l \in 1..Len(source) : x = place[l]
      <4>1. PICK l \in 2..Len(source) : /\ place[l - 1] < x /\ x < place[l]
                                        /\ PausedAt(place[l], l)
        BY <1>2, <3>1, <3>3
      <4>2. x < place[j]
        BY <1>1, <3>1, <3>3
      <4>3. y < l /\ l <= j
        BY <2>2, <3>1, <4>1, <4>2, PauseBetween
      <4>4. PICK z \in l..j : source[z].class \notin Body
        BY <1>1, <1>4, <4>1, <4>3, PauseBreaks
      <4>5. z \in (y + 1)..j
        BY <1>1, <2>2, <4>3
      <4>6. QED
        BY <2>1, <4>4, <4>5
    <3>4. QED
      BY <3>2, <3>3
  <2>5. QED
    BY <2>3, <2>4 DEF Chain
<1>5. \A c \in Word : c # "a" => c \notin Body
  BY DEF Word, Body
<1>6. /\ Chain(source, j) => source[j].class \in Body
      /\ Chain(text, place[j]) => text[place[j]].class \in Body
  <2>1. Chain(source, j) => source[j].class \in Body
    BY DEF Chain
  <2>2. place[j] \in Nat
    BY <1>1
  <2>3. Chain(text, place[j]) => text[place[j]].class \in Body
    BY <2>2 DEF Chain
  <2>4. QED
    BY <2>1, <2>3
<1>7. text[place[j]] = source[j]
  BY <1>1
<1>8. QED
  BY <1>3, <1>4, <1>5, <1>6, <1>7 DEF Spoken

\* Words begin in text where they begin in source, unless a pause goes before
\* the hyphen that ends a word.
LEMMA TextStarts ==
  ASSUME TypeOK, SourceKept(Len(original)), NEW place, Placed(place, Len(source)),
         NEW m, NEW h, Front(m, h), NEW j \in 1..m
  PROVE  Starts(text, place[j]) <=> Starts(source, j)
<1>1. /\ Len(text) \in Nat /\ Len(source) \in Nat
      /\ \A x \in 1..Len(source) :
           place[x] \in 1..Len(text) /\ place[x] \in Nat /\ text[place[x]] = source[x]
      /\ \A x, z \in 1..Len(source) : place[x] < place[z] <=> x < z
  BY PlaceOrder
<1>2. /\ m \in 1..Len(source) /\ m \in Nat /\ j \in 1..Len(source) /\ j \in Nat /\ h \in Nat
      /\ \A x \in 1..m : source[x].from \in 1..h
      /\ \A x, y \in 1..m : source[x].from < source[y].from <=> x < y
  BY FrontTyped
<1>3. SUFFICES ASSUME Spoken(source, j)
               PROVE  (place[j] > 1 /\ Spoken(text, place[j] - 1)) <=>
                      (j > 1 /\ Spoken(source, j - 1))
  BY <1>2, TextSpoken DEF Starts
<1>4. ASSUME place[j] > 1, Spoken(text, place[j] - 1) PROVE j > 1 /\ Spoken(source, j - 1)
  <2>1. place[j] - 1 \in 1..Len(text)
    BY <1>1, <1>2, <1>4
  <2>2. PICK l \in 1..Len(source) : place[j] - 1 = place[l]
    BY <1>4, <2>1, InsertedSilent
  <2>3. l < j
    BY <1>1, <1>2, <2>2
  <2>4. l = j - 1
    <3>1. SUFFICES ASSUME l # j - 1 PROVE FALSE
      OBVIOUS
    <3>2. j - 1 \in 1..Len(source) /\ l < j - 1 /\ j - 1 < j
      BY <1>1, <1>2, <2>3, <3>1
    <3>3. place[l] < place[j - 1] /\ place[j - 1] < place[j]
      BY <1>1, <1>2, <3>2
    <3>4. place[j - 1] \in Nat /\ place[l] \in Nat /\ place[j] \in Nat
      BY <1>1, <1>2, <3>2
    <3>5. QED
      BY <2>2, <3>3, <3>4
  <2>5. Spoken(source, l)
    BY <1>4, <2>2, TextSpoken
  <2>6. QED
    BY <1>2, <2>3, <2>4, <2>5
<1>5. ASSUME j > 1, Spoken(source, j - 1) PROVE place[j] > 1 /\ Spoken(text, place[j] - 1)
  <2>1. j - 1 \in 1..Len(source) /\ j - 1 \in 1..m /\ j - 1 < j
    BY <1>2, <1>5
  <2>2. place[j - 1] < place[j] /\ place[j - 1] \in Nat /\ place[j] \in Nat /\ place[j - 1] > 0
    BY <1>1, <1>2, <2>1
  <2>3. place[j - 1] = place[j] - 1
    <3>1. SUFFICES ASSUME place[j - 1] < place[j] - 1 PROVE FALSE
      BY <2>2
    <3>2. PICK p \in Nat : p = place[j] - 1
      BY <2>2
    <3>3. p \in 1..Len(text) /\ place[j - 1] < p /\ p < place[j]
      BY <1>1, <1>2, <2>2, <3>1, <3>2
    <3>4. ASSUME NEW l \in 1..Len(source), p = place[l] PROVE FALSE
      <4>1. j - 1 < l /\ l < j
        BY <1>1, <1>2, <2>1, <3>3, <3>4
      <4>2. QED
        BY <1>2, <4>1
    <3>5. PICK l \in 2..Len(source) : /\ place[l - 1] < p /\ p < place[l]
                                      /\ PausedAt(place[l], l)
      BY <3>3, <3>4 DEF Placed
    <3>6. j - 1 < l /\ l <= j
      BY <1>2, <2>1, <3>3, <3>5, PauseBetween
    <3>7. l = j
      BY <1>2, <3>6
    <3>8. PausedAt(place[j], j)
      BY <3>5, <3>7
    <3>9. PICK e \in j..Len(source) : Pauses(j - 1, e)
      BY <3>8 DEF PausedAt
    <3>10. (j - 1) + 1 = j
      BY <1>2
    <3>11. source[j - 1].class \in {"a", "_"} /\ source[j].class \in Pausing
      BY <3>9, <3>10 DEF Pauses
    <3>12. source[j - 1].class = "a" /\ source[j].class = "-"
      BY <1>3, <1>5, <3>11 DEF Spoken, Word, Pausing
    <3>13. pauses
      BY <3>8 DEF PausedAt
    <3>14. source[j - 1].from < h
      <4>1. source[j - 1].from < source[j].from
        BY <1>2, <2>1
      <4>2. source[j - 1].from \in 1..h /\ source[j].from \in 1..h
        BY <1>2, <2>1
      <4>3. QED
        BY <1>2, <4>1, <4>2
    <3>15. HyphenPauses(h)
      <4>1. e \in ((j - 1) + 1)..Len(source) /\ source[(j - 1) + 1].class = "-"
        BY <3>10, <3>12
      <4>2. QED
        BY <2>1, <3>9, <3>12, <3>14, <4>1 DEF HyphenPauses
    <3>16. QED
      BY <3>13, <3>15 DEF Front, Intact
  <2>4. Spoken(text, place[j - 1])
    BY <1>5, <2>1, TextSpoken
  <2>5. QED
    BY <2>2, <2>3, <2>4
<1>6. QED
  BY <1>4, <1>5

-----------------------------------------------------------------------------
\* What leaves a word intact leaves those before it intact, and is a matter of
\* the texts alone.
LEMMA IntactBelow ==
  ASSUME TypeOK, NEW h \in Nat, NEW k \in Nat, k <= h, Intact(h)
  PROVE  Intact(k)
<1>1. ASSUME NEW c \in changed PROVE k <= c
  <2>1. c \in Nat /\ h <= c
    BY DEF TypeOK, Intact
  <2>2. QED
    BY <2>1
<1>2. AnnotationGrows(k) => AnnotationGrows(h)
  <2>1. \A b \in 1..k : b \in 1..h
    OBVIOUS
  <2>2. QED
    BY <2>1 DEF AnnotationGrows
<1>3. HyphenPauses(k) => HyphenPauses(h)
  <2>1. \A j \in 1..Len(source) : source[j].from \in Nat
    <3>1. \A j \in 1..Len(source) : source[j] \in Chars
      BY ElementOfSeq DEF TypeOK
    <3>2. QED
      BY <3>1 DEF Chars
  <2>2. \A j \in 1..Len(source) : source[j].from < k => source[j].from < h
    BY <2>1
  <2>3. QED
    BY <2>2 DEF HyphenPauses
<1>4. QED
  BY <1>1, <1>2, <1>3 DEF Intact

LEMMA SameIntact ==
  ASSUME original' = original, tags' = tags, pauses' = pauses, source' = source,
         changed' = changed
  PROVE  \A n : Intact(n)' <=> Intact(n)
<1>1. \A k : Shown(k)' = Shown(k) /\ (Removable(k)' <=> Removable(k))
  BY SameOriginal
<1>2. \A k, e : Pauses(k, e)' <=> Pauses(k, e)
  BY DEF Pauses
<1>3. \A n : AnnotationGrows(n)' <=> AnnotationGrows(n)
  BY <1>1 DEF AnnotationGrows
<1>4. \A n : HyphenPauses(n)' <=> HyphenPauses(n)
  BY <1>2 DEF HyphenPauses
<1>5. QED
  BY <1>3, <1>4 DEF Intact

\* An intact word begins in text, and only words before it begin before it.
LEMMA SameWords ==
  ASSUME TypeOK, Listed, Cleaning, Shortening, phase = "processed",
         NEW n \in 1..Len(words), Intact(words[n].off)
  PROVE  \E p \in 1..Len(text) :
           /\ Starts(text, p) /\ text[p].from = words[n].off
           /\ \A r \in 1..(p - 1) : Starts(text, r) =>
                \E k \in 1..Len(words) :
                  words[k].off = text[r].from /\ words[k].off < words[n].off
<1>1. SourceKept(Len(original)) /\ TextKept(Len(source)) /\ WordsAre(Len(original))
  BY DEF Listed, Cleaning, Shortening
<1>2. PICK place : Placed(place, Len(source))
  BY <1>1 DEF TextKept
<1>3. words[n].off \in 1..Len(original) /\ Starts(Given, words[n].off)
  BY <1>1 DEF WordsAre
<1>4. PICK h \in 1..Len(original) : h = words[n].off
  BY <1>3
<1>5. Shown(h) # "_"
  BY <1>3, <1>4, WordIsNoMark DEF Starts, Spoken, Given
<1>6. PICK m \in 1..Len(source) : source[m].from = h
  <2>1. \A c \in changed : h <= c
    BY <1>4 DEF Intact
  <2>2. QED
    BY <1>1, <1>5, <2>1, SourceHas
<1>7. Front(m, h)
  <2>1. h # 0
    BY OriginalTyped
  <2>2. QED
    BY <1>4, <1>6, <2>1 DEF Front
<1>8. /\ Len(original) \in Nat /\ m \in 1..m /\ h \in Nat /\ m \in Nat
      /\ \A j \in 1..m : source[j].from \in 1..h
      /\ \A j, l \in 1..m : source[j].from < source[l].from <=> j < l
  BY <1>1, <1>7, FrontTyped
<1>9. /\ Len(text) \in Nat
      /\ \A x \in 1..Len(source) :
           place[x] \in 1..Len(text) /\ place[x] \in Nat /\ text[place[x]] = source[x]
      /\ \A x, z \in 1..Len(source) : place[x] < place[z] <=> x < z
  BY <1>2, PlaceOrder
<1>10. Starts(text, place[m])
  <2>1. Starts(source, m)
    BY <1>1, <1>3, <1>4, <1>6, <1>7, <1>8, SourceStarts
  <2>2. QED
    BY <1>1, <1>2, <1>7, <1>8, <2>1, TextStarts
<1>11. ASSUME NEW r \in 1..(place[m] - 1), Starts(text, r)
       PROVE  \E k \in 1..Len(words) :
                words[k].off = text[r].from /\ words[k].off < words[n].off
  <2>1. r \in 1..Len(text) /\ r < place[m]
    BY <1>9
  <2>2. PICK j \in 1..Len(source) : r = place[j]
    BY <1>2, <1>11, <2>1, InsertedSilent DEF Starts
  <2>3. j < m
    BY <1>9, <2>1, <2>2
  <2>4. j \in 1..m
    BY <1>8, <2>3
  <2>5. Starts(source, j)
    BY <1>1, <1>2, <1>7, <1>11, <2>2, <2>4, TextStarts
  <2>6. Starts(Given, source[j].from)
    BY <1>1, <1>7, <2>4, <2>5, SourceStarts
  <2>7. source[j].from < h /\ source[j].from \in 1..h
    BY <1>6, <1>8, <2>3, <2>4
  <2>8. source[j].from \in 1..Len(original)
    BY <1>8, <2>7
  <2>9. PICK k \in 1..Len(words) : words[k].off = source[j].from
    BY <1>1, <2>6, <2>8 DEF WordsAre
  <2>10. text[r] = source[j]
    BY <1>9, <2>2
  <2>11. QED
    BY <1>4, <2>7, <2>9, <2>10
<1>12. place[m] \in 1..Len(text) /\ text[place[m]].from = words[n].off
  BY <1>4, <1>6, <1>9
<1>13. QED
  BY <1>10, <1>11, <1>12

\* In text, words stand in the order they have in the original.
LEMMA TextOrder ==
  ASSUME TypeOK, Cleaning, Shortening, phase = "processed",
         NEW p \in 1..Len(text), NEW r \in 1..Len(text), p < r,
         Starts(text, p), Starts(text, r), text[p].from # 0, text[r].from # 0
  PROVE  text[p].from < text[r].from
<1>1. SourceKept(Len(original)) /\ TextKept(Len(source))
  BY DEF Cleaning, Shortening
<1>2. PICK place : Placed(place, Len(source))
  BY <1>1 DEF TextKept
<1>3. /\ \A x \in 1..Len(source) : text[place[x]] = source[x]
      /\ \A x, z \in 1..Len(source) : place[x] < place[z] <=> x < z
  BY <1>2, PlaceOrder
<1>4. PICK j \in 1..Len(source) : p = place[j]
  BY <1>2, InsertedSilent DEF Starts
<1>5. PICK l \in 1..Len(source) : r = place[l]
  BY <1>2, InsertedSilent DEF Starts
<1>6. j < l
  BY <1>3, <1>4, <1>5
<1>7. text[p] = source[j] /\ text[r] = source[l]
  BY <1>3, <1>4, <1>5
<1>8. QED
  BY <1>1, <1>6, <1>7 DEF SourceKept

\* A word that is spoken is counted as the next one, if that one is intact; no
\* later intact word begins there.
LEMMA NextWord ==
  ASSUME TypeOK, Position, Reading, Listed, Cleaning, Shortening, Paired, SpokenWord,
         NEW n \in 1..Len(words), n > wordNum, Intact(words[n].off)
  PROVE  text[start].from = words[n].off <=> n = wordNum + 1
<1>1. /\ phase = "processed" /\ start \in 1..i /\ i \in Nat /\ Read = start - 1
      /\ Starts(text, start)
  BY WordRead DEF SpokenWord
<1>2. /\ start \in 1..Len(text) /\ wordNum \in Nat /\ Len(words) \in Nat /\ Len(text) \in Nat
      /\ start \in Nat
  BY <1>1 DEF TypeOK, Splitting
<1>3. \A k \in 1..Len(words) : words[k].off \in Nat /\ words[k].off # 0
  <2>1. WordsAre(Len(original)) /\ Len(original) \in Nat
    BY <1>1, OriginalTyped DEF Listed
  <2>2. QED
    BY <2>1 DEF WordsAre
<1>4. \A k \in 1..Len(words) : Intact(words[k].off) =>
        (k <= wordNum <=>
           \E p \in 1..(start - 1) : Starts(text, p) /\ text[p].from = words[k].off)
  BY <1>1 DEF Paired
<1>5. \A k, l \in 1..Len(words) : k < l => words[k].off < words[l].off
  BY DEF Listed
<1>6. ASSUME NEW k \in 1..Len(words), words[k].off < words[n].off
      PROVE  k < n /\ Intact(words[k].off)
  <2>1. Intact(words[k].off)
    BY <1>3, <1>6, IntactBelow
  <2>2. k < n
    <3>1. ~(n < k) /\ n # k
      BY <1>3, <1>5, <1>6
    <3>2. QED
      BY <1>2, <3>1
  <2>3. QED
    BY <2>1, <2>2
<1>7. ASSUME NEW p \in 1..Len(text), Starts(text, p), text[p].from = text[start].from,
             text[start].from # 0
      PROVE  ~(p < start)
  <2>1. SUFFICES ASSUME p < start PROVE FALSE
    OBVIOUS
  <2>2. text[p].from < text[start].from
    BY <1>1, <1>2, <1>7, <2>1, TextOrder
  <2>3. text[start] \in Chars
    BY <1>2, ElementOfSeq DEF TypeOK
  <2>4. text[start].from \in Nat
    BY <2>3 DEF Chars
  <2>5. QED
    BY <1>7, <2>2, <2>4
<1>8. ASSUME n = wordNum + 1 PROVE text[start].from = words[n].off
  <2>1. PICK p \in 1..Len(text) :
          /\ Starts(text, p) /\ text[p].from = words[n].off
          /\ \A r \in 1..(p - 1) : Starts(text, r) =>
               \E k \in 1..Len(words) :
                 words[k].off = text[r].from /\ words[k].off < words[n].off
    BY <1>1, SameWords
  <2>2. ~(p < start)
    <3>1. SUFFICES ASSUME p < start PROVE FALSE
      OBVIOUS
    <3>2. p \in 1..(start - 1)
      BY <1>2, <3>1
    <3>3. n <= wordNum
      BY <1>4, <2>1, <3>2
    <3>4. QED
      BY <1>2, <1>8, <3>3
  <2>3. CASE p = start
    BY <2>1, <2>3
  <2>4. CASE start < p
    <3>1. start \in 1..(p - 1)
      BY <1>2, <2>4
    <3>2. PICK k \in 1..Len(words) :
            words[k].off = text[start].from /\ words[k].off < words[n].off
      BY <1>1, <2>1, <3>1
    <3>3. k <= wordNum /\ Intact(words[k].off)
      BY <1>2, <1>6, <1>8, <3>2
    <3>4. PICK r \in 1..(start - 1) : Starts(text, r) /\ text[r].from = words[k].off
      BY <1>4, <3>3
    <3>5. r \in 1..Len(text) /\ r < start
      BY <1>2
    <3>6. text[start].from # 0
      BY <1>3, <3>2
    <3>7. QED
      BY <1>7, <3>2, <3>4, <3>5, <3>6
  <2>5. QED
    BY <1>2, <2>2, <2>3, <2>4
<1>9. ASSUME text[start].from = words[n].off, n # wordNum + 1 PROVE FALSE
  <2>1. PICK m \in 1..Len(words) : m = wordNum + 1 /\ m < n
    BY <1>2, <1>9
  <2>2. words[m].off < words[n].off /\ Intact(words[m].off)
    <3>1. words[m].off < words[n].off
      BY <1>5, <2>1
    <3>2. QED
      BY <1>6, <3>1
  <2>3. PICK p \in 1..Len(text) : Starts(text, p) /\ text[p].from = words[m].off
    BY <1>1, <2>2, SameWords
  <2>4. text[p].from # 0 /\ text[start].from # 0 /\ p # start /\ ~(text[start].from < text[p].from)
    BY <1>3, <1>9, <2>2, <2>3
  <2>5. p < start
    <3>1. ~(start < p)
      BY <1>1, <1>2, <2>3, <2>4, TextOrder
    <3>2. QED
      BY <1>2, <2>4, <3>1
  <2>6. p \in 1..(start - 1)
    BY <1>2, <2>5
  <2>7. m <= wordNum
    BY <1>4, <2>2, <2>3, <2>6
  <2>8. QED
    BY <1>2, <2>1, <2>7
<1>10. QED
  BY <1>8, <1>9

LEMMA PairedStep ==
  /\ TypeOK /\ Position /\ Reading /\ Listed /\ Cleaning /\ Shortening /\ Paired
  /\ [Next]_vars
  => Paired'
<1> SUFFICES ASSUME TypeOK, Position, Reading, Listed, Cleaning, Shortening, Paired,
                    [Next]_vars
             PROVE  Paired'
  OBVIOUS
<1>1. CASE SpokenWord
  <2>1. /\ phase = "processed" /\ phase' = "processed" /\ text' = text /\ words' = words
        /\ wordNum' = wordNum + 1
        /\ markers' = IF wordNum < Len(words)
                      THEN Append(markers, [word |-> wordNum + 1, at |-> start]) ELSE markers
    BY <1>1 DEF SpokenWord
  <2>2. \A n : Intact(n)' <=> Intact(n)
    BY <1>1, SameIntact DEF SpokenWord, inputs, fixed
  <2>3. \A p : Starts(text, p)' <=> Starts(text, p)
    BY <2>1 DEF Starts, Spoken, Chain
  <2>4. /\ start \in 1..i /\ i \in Nat /\ Read = start - 1 /\ Read' = i
        /\ Starts(text, start) /\ \A x \in (start + 1)..i : ~Starts(text, x)
    BY <1>1, WordRead
  <2>5. wordNum \in Nat /\ Len(words) \in Nat /\ start \in Nat
    BY DEF TypeOK
  <2>6. ASSUME NEW n \in 1..Len(words), Intact(words[n].off)
        PROVE  n <= wordNum + 1 <=>
                 \E p \in 1..i : Starts(text, p) /\ text[p].from = words[n].off
    <3>1. n <= wordNum <=> \E p \in 1..(start - 1) :
                             Starts(text, p) /\ text[p].from = words[n].off
      BY <2>1, <2>4, <2>6 DEF Paired
    <3>2. CASE n <= wordNum
      <4>1. PICK p \in 1..(start - 1) : Starts(text, p) /\ text[p].from = words[n].off
        BY <3>1, <3>2
      <4>2. p \in 1..i
        BY <2>4, <2>5
      <4>3. QED
        BY <2>5, <3>2, <4>1, <4>2
    <3>3. CASE n > wordNum
      <4>1. text[start].from = words[n].off <=> n = wordNum + 1
        BY <1>1, <2>6, <3>3, NextWord
      <4>2. ASSUME NEW p \in 1..i, Starts(text, p), text[p].from = words[n].off
            PROVE  p = start
        <5>1. ~(p \in (start + 1)..i)
          BY <2>4, <4>2
        <5>2. ~(p \in 1..(start - 1))
          BY <2>5, <3>1, <3>3, <4>2
        <5>3. QED
          BY <2>4, <2>5, <5>1, <5>2
      <4>3. n <= wordNum + 1 <=> n = wordNum + 1
        BY <2>5, <3>3
      <4>4. QED
        BY <2>4, <4>1, <4>2, <4>3
    <3>4. QED
      BY <2>5, <3>2, <3>3
  <2>7. MarkersFit'
    <3>1. CASE wordNum < Len(words)
      <4> DEFINE new == [word |-> wordNum + 1, at |-> start]
      <4>1. /\ markers \in Seq([word : Nat, at : Nat]) /\ new \in [word : Nat, at : Nat]
            /\ markers' = Append(markers, new) /\ new.word = wordNum + 1 /\ new.at = start
        BY <2>1, <2>5, <3>1 DEF TypeOK
      <4> HIDE DEF new
      <4>2. \A m \in 1..Len(markers') : \/ m \in 1..Len(markers) /\ markers'[m] = markers[m]
                                        \/ markers'[m] = new
        BY <4>1
      <4>3. Intact(words[new.word].off) => text[new.at].from = words[new.word].off
        <5>1. PICK n \in 1..Len(words) : n = wordNum + 1 /\ n > wordNum
          BY <2>5, <3>1
        <5>2. QED
          BY <1>1, <4>1, <5>1, NextWord
      <4>4. QED
        BY <2>1, <2>2, <4>2, <4>3 DEF Paired, MarkersFit
    <3>2. CASE ~(wordNum < Len(words))
      BY <2>1, <2>2, <3>2 DEF Paired, MarkersFit
    <3>3. QED
      BY <3>1, <3>2
  <2>8. QED
    BY <2>1, <2>2, <2>3, <2>4, <2>6, <2>7 DEF Paired
<1>2. CASE phase = "processed" /\ (StartToken \/ Extend \/ NoWord)
  <2>1. /\ phase' = "processed" /\ text' = text /\ words' = words
        /\ wordNum' = wordNum /\ markers' = markers
    BY <1>2 DEF StartToken, Extend, NoWord, output
  <2>2. \A n : Intact(n)' <=> Intact(n)
    BY <1>2, SameIntact DEF StartToken, Extend, NoWord, inputs, fixed
  <2>3. /\ Read \in Nat /\ Read' \in Nat /\ Read <= Read'
        /\ \A x \in (Read + 1)..Read' : ~Starts(text, x)
    BY <1>2, ReadOn
  <2>4. \A p : Starts(text, p)' <=> Starts(text, p)
    BY <2>1 DEF Starts, Spoken, Chain
  <2>5. MarkersFit'
    BY <2>1, <2>2 DEF Paired, MarkersFit
  <2>6. ASSUME NEW n \in 1..Len(words)
        PROVE  (\E p \in 1..Read : Starts(text, p) /\ text[p].from = words[n].off) <=>
               (\E p \in 1..Read' : Starts(text, p) /\ text[p].from = words[n].off)
    <3>1. \A p \in 1..Read : p \in 1..Read'
      BY <2>3
    <3>2. \A p \in 1..Read' : p \in 1..Read \/ p \in (Read + 1)..Read'
      BY <2>3
    <3>3. QED
      BY <2>3, <3>1, <3>2
  <2>7. ASSUME NEW n \in 1..Len(words), Intact(words[n].off)
        PROVE  n <= wordNum <=>
                 \E p \in 1..Read' : Starts(text, p) /\ text[p].from = words[n].off
    BY <1>2, <2>6, <2>7 DEF Paired
  <2>8. QED
    BY <2>1, <2>2, <2>4, <2>5, <2>7 DEF Paired
<1>3. CASE Cleaned \/ Shortened
  <2>1. /\ phase \in {"clean", "pause"} /\ i' = 0 /\ kind' = kind /\ wordNum' = wordNum
        /\ markers' = markers /\ words' = words
    BY <1>3 DEF Cleaned, Shortened, token, output
  <2>2. wordNum = 0 /\ markers = <<>> /\ kind = "none"
    BY <2>1 DEF Paired, Position, Splitting
  <2>3. Read' = 0
    BY <2>1, <2>2 DEF Read
  <2>4. \A n \in 1..Len(words) : ~(n <= wordNum')
    BY <2>1, <2>2
  <2>5. \A p \in 1..Read' : FALSE
    BY <2>3
  <2>6. MarkersFit'
    BY <2>1, <2>2 DEF MarkersFit
  <2>7. QED
    BY <2>1, <2>2, <2>4, <2>5, <2>6 DEF Paired
<1>4. CASE \/ phase = "original" /\ (StartToken \/ Extend \/ NoWord)
           \/ OriginalWord \/ Preprocess \/ Clean \/ Copy \/ Shorten
  <2>1. /\ phase \notin {"processed", "done"} /\ phase' \notin {"processed", "done"}
        /\ wordNum' = wordNum /\ markers' = markers
    BY <1>4 DEF StartToken, Extend, NoWord, OriginalWord, Preprocess, Clean, Copy, Shorten,
       output
  <2>2. MarkersFit'
    BY <2>1 DEF Paired, MarkersFit
  <2>3. QED
    BY <2>1, <2>2 DEF Paired
<1>5. CASE Finish \/ UNCHANGED vars
  <2>1. /\ text' = text /\ words' = words /\ markers' = markers
        /\ phase' \in {phase, "done"} /\ (phase' = "done" => phase \in {"processed", "done"})
        /\ (phase' = phase => wordNum' = wordNum /\ Read' = Read)
    BY <1>5 DEF Finish, vars, token, output, Read
  <2>2. \A n : Intact(n)' <=> Intact(n)
    BY <1>5, SameIntact DEF Finish, vars, inputs, fixed
  <2>3. \A p : Starts(text, p)' <=> Starts(text, p)
    BY <2>1 DEF Starts, Spoken, Chain
  <2>4. MarkersFit'
    BY <2>1, <2>2 DEF Paired, MarkersFit
  <2>5. QED
    BY <2>1, <2>2, <2>3, <2>4 DEF Paired
<1>6. CASE StartToken \/ Extend \/ NoWord
  <2>1. phase \in {"original", "processed"}
    BY <1>6 DEF StartToken, Extend, NoWord, Splitting, Position
  <2>2. QED
    BY <1>2, <1>4, <1>6, <2>1
<1>7. QED
  BY <1>1, <1>3, <1>4, <1>5, <1>6 DEF Next

\* For every text, with whatever the fixes join, split and delete and with the
\* pauses: a word marker that is given to the engine stands before the rewritten
\* form of its own word as long as nothing before that word has changed the number
\* of words.
THEOREM MarkersFitHolds == Spec => []MarkersFit
<1> DEFINE IInv == /\ TypeOK /\ Position /\ Reading /\ Listed
                   /\ Cleaning /\ Shortening /\ Paired
<1>1. Init => IInv
  <2>1. SUFFICES ASSUME Init PROVE Reading /\ Listed /\ Cleaning /\ Shortening /\ Paired
    BY InitTyped
  <2>2. /\ phase = "original" /\ source = <<>> /\ changed = {} /\ text = Given /\ i = 0
        /\ kind = "none" /\ words = <<>> /\ wordNum = 0 /\ markers = <<>>
    BY <2>1 DEF Init, Given
  <2>3. ~Chain(text, 0 + 1)
    BY DEF Chain
  <2>4. Reading
    BY <2>2, <2>3 DEF Reading
  <2>5. Listed
    BY <2>2 DEF Listed, WordsAre, Read
  <2>6. Cleaning /\ Shortening
    BY <2>2 DEF Cleaning, Shortening
  <2>7. Paired
    BY <2>2 DEF Paired, MarkersFit
  <2>8. QED
    BY <2>4, <2>5, <2>6, <2>7
<1>2. IInv /\ [Next]_vars => IInv'
  BY Typed, Positioned, ReadingStep, ListedStep, CleaningStep, ShorteningStep, PairedStep
<1>3. IInv => MarkersFit
  BY DEF Paired
<1>4. QED
  BY <1>1, <1>2, <1>3, PTL DEF Spec
=============================================================================
