------------------------------ MODULE WordMarkers ------------------------------
(***************************************************************************)
(* From the text of one fragment to segments and word markers              *)
(* (src/ISpTTSEngineImpl.cpp, split_words and the block around it;         *)
(* src/text_preprocess.cpp): the original is split into words, the text is *)
(* rewritten, and the rewritten text is split and paired with the words.   *)
(*                                                                         *)
(* A character is one of these classes:                                    *)
(*   "a"  a letter or digit of ASCII                                       *)
(*   "w"  any other character of a word (an apostrophe, an accented        *)
(*        letter, CJK)                                                     *)
(*   "-"  the hyphen, which is of a word and may pause                     *)
(*   "."  the full stop, which pauses and may be of an annotation          *)
(*   ","  other punctuation that pauses                                    *)
(*   "_"  white space                                                      *)
(*   "bq" the backquote, which begins an engine annotation                 *)
(* and is kept together with its place in the original, 0 if it was        *)
(* inserted.                                                               *)
(*                                                                         *)
(* The fixes are some thirty patterns over words and numbers, of which the *)
(* classes show only what they do to the words.  Those for all languages   *)
(* move only spaces, and delete a space before punctuation.  Those for     *)
(* single languages also join words and split them, and may do so here     *)
(* wherever the characters at hand allow it; `changed' remembers where.    *)
(* Fixes that only change letters, or put a space next to a space, are     *)
(* left out.                                                               *)
(***************************************************************************)
EXTENDS Naturals, Sequences

CONSTANT Texts   \* texts of a fragment

Classes == {"a", "w", "-", ".", ",", "_", "bq"}
Word == {"a", "w", "-"}
Body == {"a", "."}
Pausing == {"-", ".", ","}

ASSUME TextAssumption == Texts \subseteq Seq(Classes)

VARIABLES
  original,  \* the fragment's text
  tags,      \* the setting backquoteVoiceTags
  pauses,    \* is pauseMode 2?
  fixes,     \* has the language fixes of its own?
  phase,     \* "original", "clean", "pause", "processed", "done"
  source,    \* the text after the fixes
  changed,   \* how many characters stand before each join or split
  text,      \* the text being split, or made
  i,         \* the characters of the text read so far
  kind,      \* the kind of the token being read, or "none"
  start,     \* its first character
  words,     \* originalWords
  wordNum,
  flushed,   \* characters before pending, which is flushed + 1 .. i
  segments,  \* text segments: their first and last character
  markers    \* word markers: the number of the word, the character before
             \* which they stand

inputs == <<original, tags, pauses, fixes>>
token == <<kind, start>>
output == <<words, wordNum, flushed, segments, markers>>
fixed == <<source, changed>>
vars == <<inputs, phase, fixed, text, i, token, output>>

Chars == [class : Classes, from : Nat]

Backquote == [class |-> "bq", from |-> 0]
Space == [class |-> "_", from |-> 0]
Digit == [class |-> "a", from |-> 0]

\* strip_backquotes, unless the user may write annotations.
Shown(k) == IF original[k] = "bq" /\ ~tags THEN "_" ELSE original[k]

\* Mutant of Init: the original keeps its backquotes.
InitUnstripped ==
  /\ original \in Texts
  /\ tags \in BOOLEAN /\ pauses \in BOOLEAN /\ fixes \in BOOLEAN
  /\ phase = "original"
  /\ source = <<>> /\ changed = {}
  /\ text = [k \in 1..Len(original) |-> [class |-> original[k], from |-> k]]
  /\ i = 0
  /\ kind = "none" /\ start = 0
  /\ words = <<>> /\ wordNum = 0 /\ flushed = 0
  /\ segments = <<>> /\ markers = <<>>

Init ==
  /\ original \in Texts
  /\ tags \in BOOLEAN /\ pauses \in BOOLEAN /\ fixes \in BOOLEAN
  /\ phase = "original"
  /\ source = <<>> /\ changed = {}
  /\ text = [k \in 1..Len(original) |-> [class |-> Shown(k), from |-> k]]
  /\ i = 0
  /\ kind = "none" /\ start = 0
  /\ words = <<>> /\ wordNum = 0 /\ flushed = 0
  /\ segments = <<>> /\ markers = <<>>

-----------------------------------------------------------------------------
(* split_words                                                             *)

KindOf(c) == IF c = "bq" THEN "annotation" ELSE IF c \in Word THEN "word" ELSE "other"

\* Mutant of Continues: the body of an annotation has no full stop.
ContinuesToStop(c) ==
  CASE kind = "annotation" -> c = "a"
    [] kind = "word"       -> c \in Word
    [] OTHER               -> c # "bq" /\ c \notin Word

Continues(c) ==
  CASE kind = "annotation" -> c \in Body
    [] kind = "word"       -> c \in Word
    [] OTHER               -> c # "bq" /\ c \notin Word

Splitting == phase \in {"original", "processed"}

StartToken ==
  /\ Splitting
  /\ kind = "none"
  /\ i < Len(text)
  /\ kind' = KindOf(text[i + 1].class)
  /\ start' = i + 1
  /\ i' = i + 1
  /\ UNCHANGED <<inputs, phase, fixed, text, output>>

Extend ==
  /\ kind # "none"
  /\ i < Len(text)
  /\ Continues(text[i + 1].class)
  /\ i' = i + 1
  /\ UNCHANGED <<inputs, phase, fixed, text, token, output>>

TokenEnds == kind # "none" /\ (i < Len(text) => ~Continues(text[i + 1].class))

\* add_text of the pending characters up to last, if there are any.
Flush(last) ==
  IF flushed < last
  THEN segments' = Append(segments, [first |-> flushed + 1, last |-> last])
  ELSE UNCHANGED segments

\* onWord for the original.
OriginalWord ==
  /\ phase = "original"
  /\ TokenEnds /\ kind = "word"
  /\ words' = Append(words, [off |-> start, len |-> i + 1 - start])
  /\ kind' = "none"
  /\ UNCHANGED <<inputs, phase, fixed, text, i, start, wordNum, flushed, segments, markers>>

\* Mutant of SpokenWord: pending is not cleared.
SpokenWordKeepsPending ==
  /\ phase = "processed"
  /\ TokenEnds /\ kind = "word"
  /\ Flush(start - 1)
  /\ markers' = IF wordNum < Len(words)
                THEN Append(markers, [word |-> wordNum + 1, at |-> start]) ELSE markers
  /\ wordNum' = wordNum + 1
  /\ kind' = "none"
  /\ UNCHANGED <<inputs, phase, fixed, text, i, start, words, flushed>>

\* onWord for the rewritten text: what is pending, a marker, then the word.
SpokenWord ==
  /\ phase = "processed"
  /\ TokenEnds /\ kind = "word"
  /\ Flush(start - 1)
  /\ flushed' = start - 1
  /\ markers' = IF wordNum < Len(words)
                THEN Append(markers, [word |-> wordNum + 1, at |-> start]) ELSE markers
  /\ wordNum' = wordNum + 1
  /\ kind' = "none"
  /\ UNCHANGED <<inputs, phase, fixed, text, i, start, words>>

\* onOther, for both.
NoWord ==
  /\ Splitting
  /\ TokenEnds /\ kind # "word"
  /\ kind' = "none"
  /\ UNCHANGED <<inputs, phase, fixed, text, i, start, output>>

AtEnd == kind = "none" /\ i = Len(text)

-----------------------------------------------------------------------------
(* preprocess                                                              *)

\* Trailing white space goes, before backquotes become white space.
Trailing(k) == \A j \in k..Len(original) : original[j] = "_"

Preprocess ==
  /\ phase = "original"
  /\ AtEnd
  /\ phase' = "clean"
  /\ text' = <<>>
  /\ i' = 0
  /\ UNCHANGED <<inputs, fixed, token, output>>

\* A space before punctuation which no letter or digit follows.
Removable(k) ==
  /\ Shown(k) = "_" /\ k > 1
  /\ \E e \in (k + 1)..Len(original) :
       /\ \A j \in k..(e - 1) : Shown(j) = "_"
       /\ Shown(e) \in {".", ","}
       /\ e < Len(original) => Shown(e + 1) # "a"

\* What lies between two words may go ("Mc Donald", "1,000,5", "5 - 3,00"), and
\* so may an apostrophe or a hyphen within one ("you're", "dane-ben").
Joins(k) ==
  /\ fixes /\ Shown(k) # "a"
  /\ \E b \in 1..(k - 1) : \E e \in (k + 1)..Len(original) :
       /\ Shown(b) = "a" /\ Shown(e) \in {"a", "-"}
       /\ \A j \in (b + 1)..(e - 1) : Shown(j) # "a"

\* What may be put before a word or into one ("abbey hesitate", "dane `0 ben").
Inserts(k) ==
  IF fixes /\ k < Len(original) /\ Shown(k + 1) \in Word
  THEN {<<Space>>, <<Space, Backquote, Digit, Space>>} ELSE {}

Char(k) == [class |-> Shown(k), from |-> k]

Keep ==
  /\ source' = Append(source, Char(i + 1))
  /\ UNCHANGED changed

KeepAndInsert ==
  \E s \in Inserts(i + 1) :
    /\ source' = Append(source, Char(i + 1)) \o s
    /\ changed' = changed \cup {i + 1}

Drop ==
  /\ Removable(i + 1)
  /\ UNCHANGED fixed

Join ==
  /\ Joins(i + 1)
  /\ changed' = changed \cup {i}
  /\ UNCHANGED source

Clean ==
  /\ phase = "clean"
  /\ ~Trailing(i + 1)
  /\ Keep \/ KeepAndInsert \/ Drop \/ Join
  /\ i' = i + 1
  /\ UNCHANGED <<inputs, phase, text, token, output>>

\* Mutant of Cleaned: the split begins where the fixes ended.
CleanedGoesOn ==
  /\ phase = "clean"
  /\ Trailing(i + 1)
  /\ ~pauses
  /\ phase' = "processed" /\ text' = source
  /\ UNCHANGED <<inputs, fixed, i, token, output>>

Cleaned ==
  /\ phase = "clean"
  /\ Trailing(i + 1)
  /\ IF pauses
     THEN phase' = "pause" /\ UNCHANGED text
     ELSE phase' = "processed" /\ text' = source
  /\ i' = 0
  /\ UNCHANGED <<inputs, fixed, token, output>>

\* The pause pattern matches at k: a letter, digit or space, the same
\* punctuation from k + 1 to e, and white space or the end after it.
Pauses(k, e) ==
  /\ source[k].class \in {"a", "_"}
  /\ source[k + 1].class \in Pausing
  /\ \A j \in (k + 1)..e : source[j].class = source[k + 1].class
  /\ e < Len(source) => source[e + 1].class = "_"

Matches(k) == \E e \in (k + 1)..Len(source) : Pauses(k, e)

Copy ==
  /\ phase = "pause"
  /\ i < Len(source)
  /\ ~Matches(i + 1)
  /\ text' = Append(text, source[i + 1])
  /\ i' = i + 1
  /\ UNCHANGED <<inputs, phase, fixed, token, output>>

\* "$1 `p1$2$3$4": the match is consumed with the space that ends it.
Shorten ==
  /\ phase = "pause"
  /\ \E e \in (i + 2)..Len(source) :
       /\ Pauses(i + 1, e)
       /\ LET to == IF e < Len(source) THEN e + 1 ELSE e IN
          /\ text' = text \o <<source[i + 1], Space, Backquote, Digit, Digit>>
                          \o SubSeq(source, i + 2, to)
          /\ i' = to
  /\ UNCHANGED <<inputs, phase, fixed, token, output>>

Shortened ==
  /\ phase = "pause"
  /\ i = Len(source)
  /\ phase' = "processed"
  /\ i' = 0
  /\ UNCHANGED <<inputs, fixed, text, token, output>>

\* The last add_text.
Finish ==
  /\ phase = "processed"
  /\ AtEnd
  /\ Flush(Len(text))
  /\ flushed' = Len(text)
  /\ phase' = "done"
  /\ UNCHANGED <<inputs, fixed, text, i, token, words, wordNum, markers>>

Next ==
  \/ StartToken \/ Extend \/ OriginalWord \/ SpokenWord \/ NoWord
  \/ Preprocess \/ Clean \/ Cleaned \/ Copy \/ Shorten \/ Shortened
  \/ Finish

Spec == Init /\ [][Next]_vars

-----------------------------------------------------------------------------
(* Properties                                                              *)

Segments == [first : Nat, last : Nat]

TypeOK ==
  /\ original \in Texts
  /\ tags \in BOOLEAN /\ pauses \in BOOLEAN /\ fixes \in BOOLEAN
  /\ phase \in {"original", "clean", "pause", "processed", "done"}
  /\ source \in Seq(Chars) /\ changed \subseteq Nat /\ text \in Seq(Chars)
  /\ i \in Nat
  /\ Splitting => i <= Len(text)
  /\ kind \in {"none", "annotation", "word", "other"}
  /\ start \in Nat
  /\ words \in Seq([off : Nat, len : Nat]) /\ wordNum \in Nat /\ flushed \in Nat
  /\ segments \in Seq(Segments) /\ markers \in Seq([word : Nat, at : Nat])

\* What the engine is given is the rewritten text: the segments follow each
\* other from the first character to the last, none is empty, and nothing is
\* left out or spoken twice.
TextOnce ==
  /\ \A k \in 1..Len(segments) :
       /\ segments[k].first = IF k = 1 THEN 1 ELSE segments[k - 1].last + 1
       /\ segments[k].first <= segments[k].last
  /\ flushed = IF segments = <<>> THEN 0 ELSE segments[Len(segments)].last
  /\ phase = "done" => flushed = Len(text)

\* The character after place k belongs to an annotation begun at or before k.
InAnnotation(k) ==
  \E b \in 1..k :
    text[b].class = "bq" /\ \A j \in (b + 1)..(k + 1) : text[j].class \in Body

\* "Engine annotations are treated as atomic tokens so they can never be split
\* (and spoken) by segment boundaries" (README.md:27): no segment ends, and no
\* marker stands, within an annotation, the user's own or an inserted one.
AnnotationsWhole ==
  /\ \A k \in 1..Len(segments) :
       segments[k].last < Len(text) => ~InAnnotation(segments[k].last)
  /\ \A m \in 1..Len(markers) : ~InAnnotation(markers[m].at - 1)

\* A pause is put between a word and the hyphen it ends with, before place n of
\* the original.
HyphenPauses(n) ==
  \E k \in 1..Len(source) : \E e \in (k + 1)..Len(source) :
    /\ source[k].class = "a" /\ source[k + 1].class = "-" /\ Pauses(k, e)
    /\ source[k].from < n

\* Deleted spaces make a letter or digit up to place n part of a user's
\* annotation.
AnnotationGrows(n) ==
  \E b, k \in 1..n :
    /\ Shown(b) = "bq" /\ Shown(k) = "a"
    /\ \A j \in (b + 1)..(k - 1) : Shown(j) \in Body \/ Removable(j)
    /\ \E j \in (b + 1)..(k - 1) : Removable(j)

\* Nothing happens before place n that changes the number of words.
Intact(n) ==
  /\ \A c \in changed : n <= c
  /\ ~AnnotationGrows(n)
  /\ ~(pauses /\ HyphenPauses(n))

\* "split into the same number of word runs whenever possible and paired up in
\* order" (src/ISpTTSEngineImpl.cpp:520): a marker stands at its own word as long
\* as no word before it was joined, split or swallowed by a user's annotation,
\* and no pause went before a word's last hyphen.
MarkersFit ==
  \A m \in 1..Len(markers) :
    Intact(words[markers[m].word].off)
      => text[markers[m].at].from = words[markers[m].word].off

\* "Accurate word boundaries" (README.md:27), with the defaults (pauseMode 2, no
\* tags of the user) and in a language without fixes of its own.  False: the
\* pause before the hyphen of a word such as "re-" makes two words of it, and
\* the markers of all later words stand one word too early.
AccurateBoundaries ==
  pauses /\ ~tags /\ ~fixes =>
    \A m \in 1..Len(markers) : text[markers[m].at].from = words[markers[m].word].off
=============================================================================
