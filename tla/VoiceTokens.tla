------------------------------ MODULE VoiceTokens ------------------------------
(***************************************************************************)
(* The voices a process offers to SAPI and what becomes of the one that is *)
(* chosen: voices.ini, read once per process (src/installed_voices.cpp),   *)
(* the enumerators SAPI walks and clones                                   *)
(* (src/IEnumSpObjectTokensImpl.cpp), the numbering of the tokens          *)
(* (src/voice_data.hpp) and the engine that takes a token back and speaks  *)
(* (src/ISpTTSEngineImpl.cpp).                                             *)
(*                                                                         *)
(* One process is modelled: processes share nothing but the file.          *)
(* Abstracted: a name is the pair of names it is built from; a token is    *)
(* its number; creating a token may fail.  Left out: null arguments, the   *)
(* text of the attributes, more than one engine object.                    *)
(***************************************************************************)
EXTENDS Integers, Sequences

CONSTANTS
  Languages,   \* voices::language_count
  Variants,    \* voices::variant_count
  Enums,       \* enumerator objects an application may hold
  Files,       \* contents voices.ini may have
  Counts,      \* values of celt, and of Item's Index
  Reservable,  \* the most elements std::vector::reserve grants
  None         \* no file, no manifest, no object, no token

LanguageIndices == 0..Languages - 1
VariantIndices  == 0..Variants - 1
TokenIndices    == 0..Languages * Variants

Manifests == [languages : SUBSET LanguageIndices, variants : SUBSET VariantIndices]

ASSUME VoiceAssumption ==
  /\ Languages \in Nat \ {0}
  /\ Variants \in Nat \ {0}
  /\ Files \subseteq Manifests
  /\ Counts \subseteq Nat
  /\ Reservable \in Nat
  /\ None \notin Manifests
  /\ None \notin Int

VARIABLES
  ini,        \* what voices.ini says, None when there is no such file
  manifest,   \* the process's manifest(), None before its first use
  voices,     \* each enumerator's sapi_voices_, None without an object
  index,      \* its index_
  passed,     \* the tokens it has delivered or skipped since its Reset
  answer,     \* what the last call returned
  held,       \* the token the application keeps
  token,      \* token_index_ of the engine, None without an object
  chosen,     \* the token it was made for
  spoke       \* language and variant of its last request

enumVars   == <<voices, index, passed>>
engineVars == <<token, chosen, spoke>>
vars == <<ini, manifest, enumVars, answer, held, engineVars>>

-----------------------------------------------------------------------------
(* Numbering                                                               *)

\* Token 0 is the Configured Voice; the others are language x variant.
LanguageOf(i) == IF i = 0 THEN 0 ELSE (i - 1) \div Variants

VariantOf(i) == IF i = 0 THEN 0 ELSE (i - 1) % Variants

\* get_name(): no two tokens have the same.
NameOf(i) == IF i = 0 THEN <<>> ELSE <<VariantOf(i), LanguageOf(i)>>

-----------------------------------------------------------------------------
(* The manifest                                                            *)

OrAll(selected, all) == IF selected = {} THEN all ELSE selected

Everything == [languages |-> LanguageIndices, variants |-> VariantIndices]

LoadManifest ==
  IF ini = None THEN Everything
  ELSE [languages |-> OrAll(ini.languages, LanguageIndices),
        variants  |-> OrAll(ini.variants, VariantIndices)]

\* Mutant of Manifest: read again whenever it is asked for.
ManifestReread == LoadManifest

\* A function-local static: loaded by the first call.
Manifest == IF manifest = None THEN LoadManifest ELSE manifest

\* The Configured Voice, and what the manifest names.
Offers(m, i) == i = 0 \/ (LanguageOf(i) \in m.languages /\ VariantOf(i) \in m.variants)

\* The constructor's list, after it has looked at the tokens up to i.
Offered(m) ==
  LET list[i \in TokenIndices] ==
        IF i = 0 THEN <<0>>
        ELSE IF Offers(m, i) THEN Append(list[i - 1], i) ELSE list[i - 1]
  IN  list[Languages * Variants]

FirstLanguage(m) == CHOOSE l \in m.languages : \A k \in m.languages : l <= k

Init ==
  /\ ini \in Files \cup {None}
  /\ manifest = None
  /\ voices = [e \in Enums |-> None]
  /\ index = [e \in Enums |-> 0]
  /\ passed = [e \in Enums |-> <<>>]
  /\ answer = "ok"
  /\ held = None
  /\ token = None /\ chosen = None /\ spoke = None

\* Setup deletes or rewrites voices.ini, whatever runs.
Setup ==
  /\ ini' \in Files \cup {None}
  /\ UNCHANGED <<manifest, enumVars, answer, held, engineVars>>

-----------------------------------------------------------------------------
(* IEnumSpObjectTokensImpl                                                 *)

Live(e) == voices[e] # None

Smaller(a, b) == IF a < b THEN a ELSE b

Create(e) ==
  /\ ~Live(e)
  /\ manifest' = Manifest
  /\ voices' = [voices EXCEPT ![e] = Offered(Manifest)]
  /\ index' = [index EXCEPT ![e] = 0]
  /\ passed' = [passed EXCEPT ![e] = <<>>]
  /\ answer' = "ok"
  /\ UNCHANGED <<ini, held, engineVars>>

Release(e) ==
  /\ Live(e)
  /\ voices' = [voices EXCEPT ![e] = None]
  /\ UNCHANGED <<ini, manifest, index, passed, answer, held, engineVars>>

\* Mutant of Advance: the cursor is not held at the end.
AdvanceBeyond(e, n) ==
  LET to == Smaller(index[e] + n, Len(voices[e])) IN
  /\ passed' = [passed EXCEPT ![e] = @ \o SubSeq(voices[e], index[e] + 1, to)]
  /\ index' = [index EXCEPT ![e] = @ + n]
  /\ answer' = IF to - index[e] = n THEN "ok" ELSE "short"

\* The cursor moves over n tokens, or as many as there are.
Advance(e, n) ==
  LET to == Smaller(index[e] + n, Len(voices[e])) IN
  /\ passed' = [passed EXCEPT ![e] = @ \o SubSeq(voices[e], index[e] + 1, to)]
  /\ index' = [index EXCEPT ![e] = to]
  /\ answer' = IF to - index[e] = n THEN "ok" ELSE "short"

\* All tokens exist before any is delivered; one of them may be kept.
Deliver(e, n) ==
  /\ Live(e)
  /\ n \in 1..Reservable
  /\ Advance(e, n)
  /\ held' \in {held} \cup {voices[e][i] : i \in index[e] + 1..index'[e]}
  /\ UNCHANGED <<ini, manifest, voices, engineVars>>

\* Mutant of DeliverFails: index_ moves with each token that is made.
FailsHalfWay(e, n) ==
  /\ Live(e)
  /\ n > 0
  /\ index' = [index EXCEPT ![e] = Smaller(@ + 1, Len(voices[e]))]
  /\ answer' = "failed"
  /\ UNCHANGED <<ini, manifest, voices, passed, held, engineVars>>

\* reserve throws, or a token cannot be made: nothing has changed.
DeliverFails(e, n) ==
  /\ Live(e)
  /\ n > 0
  /\ answer' = "failed"
  /\ UNCHANGED <<ini, manifest, enumVars, held, engineVars>>

Skip(e, n) ==
  /\ Live(e)
  /\ Advance(e, n)
  /\ UNCHANGED <<ini, manifest, voices, held, engineVars>>

Reset(e) ==
  /\ Live(e)
  /\ index' = [index EXCEPT ![e] = 0]
  /\ passed' = [passed EXCEPT ![e] = <<>>]
  /\ answer' = "ok"
  /\ UNCHANGED <<ini, manifest, voices, held, engineVars>>

\* Item counts from 0 and leaves the cursor alone.
Item(e, i) ==
  /\ Live(e)
  /\ \/ /\ i < Len(voices[e])
        /\ held' \in {held, voices[e][i + 1]}
        /\ answer' = "ok"
     \/ /\ i < Len(voices[e])
        /\ answer' = "failed" /\ UNCHANGED held
     \/ /\ i >= Len(voices[e])
        /\ answer' = "noMore" /\ UNCHANGED held
  /\ UNCHANGED <<ini, manifest, enumVars, engineVars>>

\* The clone has the list and the place of its original.
Clone(e, f) ==
  /\ Live(e) /\ ~Live(f)
  /\ voices' = [voices EXCEPT ![f] = voices[e]]
  /\ index' = [index EXCEPT ![f] = index[e]]
  /\ passed' = [passed EXCEPT ![f] = passed[e]]
  /\ answer' = "ok"
  /\ UNCHANGED <<ini, manifest, held, engineVars>>

-----------------------------------------------------------------------------
(* ISpTTSEngineImpl                                                        *)

\* The number a token with this name attribute has; 0 when there is none.
IndexOfName(n) ==
  IF \E i \in TokenIndices : NameOf(i) = n
  THEN CHOOSE i \in TokenIndices :
         NameOf(i) = n /\ \A k \in TokenIndices : NameOf(k) = n => i <= k
  ELSE 0

\* By the TokenIndex value, or by name when that cannot be read; when neither
\* can be, or the call fails, the engine is the Configured Voice.
SetObjectToken ==
  /\ held # None
  /\ token' \in {held, IndexOfName(NameOf(held)), 0}
  /\ chosen' = held
  /\ spoke' = None
  /\ UNCHANGED <<ini, manifest, enumVars, answer, held>>

\* The language and the variant of Speak's request.  The Configured Voice
\* follows settings.ini, which may name anything the program knows.
Speak ==
  /\ token # None
  /\ manifest' = Manifest
  /\ \E configured \in LanguageIndices \X VariantIndices :
       LET l == IF token = 0 THEN configured[1] ELSE LanguageOf(token)
           v == IF token = 0 THEN configured[2] ELSE VariantOf(token)
       IN
       spoke' = [language |-> IF l \in Manifest.languages THEN l
                              ELSE FirstLanguage(Manifest),
                 variant |-> v]
  /\ UNCHANGED <<ini, enumVars, answer, held, token, chosen>>

\* The process ends.
Exit ==
  /\ manifest' = None
  /\ voices' = [e \in Enums |-> None]
  /\ index' = [e \in Enums |-> 0]
  /\ passed' = [e \in Enums |-> <<>>]
  /\ answer' = "ok"
  /\ held' = None
  /\ token' = None /\ chosen' = None /\ spoke' = None
  /\ UNCHANGED ini

Next ==
  \/ Setup \/ SetObjectToken \/ Speak \/ Exit
  \/ \E e \in Enums :
       \/ Create(e) \/ Release(e) \/ Reset(e)
       \/ \E n \in Counts : Deliver(e, n) \/ DeliverFails(e, n) \/ Skip(e, n) \/ Item(e, n)
       \/ \E f \in Enums : Clone(e, f)

Spec == Init /\ [][Next]_vars

-----------------------------------------------------------------------------
(* Properties                                                              *)

TypeOK ==
  /\ ini \in Files \cup {None}
  /\ manifest \in Manifests \cup {None}
  /\ \A e \in Enums : Live(e) =>
       /\ voices[e] \in Seq(TokenIndices)
       /\ passed[e] \in Seq(TokenIndices)
       /\ index[e] \in 0..Len(voices[e])
  /\ answer \in {"ok", "short", "failed", "noMore"}
  /\ held \in TokenIndices \cup {None}
  /\ token \in TokenIndices \cup {None}
  /\ chosen \in TokenIndices \cup {None}
  /\ spoke \in [language : LanguageIndices, variant : VariantIndices] \cup {None}

\* Between two Resets an enumerator passes each of its voices once and in
\* order: a call that fails half-way, a clone made half-way and a Skip beyond
\* the end neither lose a voice nor repeat one.
EachVoiceOnce ==
  \A e \in Enums : Live(e) => passed[e] = SubSeq(voices[e], 1, index[e])

\* A voice that was offered speaks in its own language and variant, however
\* often setup rewrites voices.ini meanwhile, and whichever way the engine
\* recovered the token's number: the manifest a process offers from is the one
\* its Speak consults, so the fallback to the first language never befalls an
\* offered voice.  (An engine that could not tell its token follows the
\* configuration utility.)
OfferedVoiceIsItself ==
  spoke # None /\ token # 0 =>
    chosen = Variants * spoke.language + spoke.variant + 1
=============================================================================
