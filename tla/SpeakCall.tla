------------------------------ MODULE SpeakCall ------------------------------
(***************************************************************************)
(* One ISpTTSEngine::Speak call: the fragment list SAPI passes is turned   *)
(* into segments (texts, engine annotations, index markers), the segments  *)
(* are spoken in order, and what comes back is written to the site as      *)
(* audio and as events (src/ISpTTSEngineImpl.cpp).                         *)
(*                                                                         *)
(* Abstracted: a text is a fragment's number and the number of a word in   *)
(* it, and its sound is one chunk of audio; the preprocessed text of a     *)
(* fragment is the number of its words, which need not be the number the   *)
(* original had; an annotation is the parameter it sets and the value.     *)
(* Annotations that only shape phrasing (`pp, `p) and spaces are left out, *)
(* punctuation belongs to the word before it.                              *)
(* The pipe and the host in between are module SpeechPipe: here a call     *)
(* either streams, fails at any point, or is broken off by the engine.     *)
(* The engine is external: it takes each text, obeys annotations in order  *)
(* and replies to an index once the text before it is spoken.  That it     *)
(* starts with the voice and in the language of the request is assumed:    *)
(* NothingLeftOver of EngineHandle says so, and is false.                  *)
(***************************************************************************)
EXTENDS Integers, Sequences

CONSTANTS
  Languages,      \* indices of voices::languages
  Installed,      \* those whose data is installed
  VoiceLanguage,  \* the language of the voice: langIndex
  Configured,     \* the "Outloud Configured Voice" token
  SettingsPitch,  \* s.pitch
  PresetPitch,    \* the variant's own pitch, known to the engine only
  ScaledRate,     \* scaled_rate, by rate adjustment
  ScaledVolume,   \* scaled_volume, by fragment volume
  ShiftedPitch,   \* clampi(basePitch + pitchAdj * 3, 0, 100), by adjustment
  Fragments,      \* the SPVTEXTFRAGs that may be passed
  MaxFragments,   \* bound: length of the list
  None            \* no locale (LangID 0), no annotation, no result

Actions == {"speak", "spell", "bookmark", "silence"}
Results == {"ok", "aborted", "skipped", "failed", "empty"}

ASSUME SpeakAssumption ==
  /\ Installed \subseteq Languages
  /\ VoiceLanguage \in Installed
  /\ Configured \in BOOLEAN
  /\ None \notin Languages \cup Results
  /\ \A a \in DOMAIN ShiftedPitch : ShiftedPitch[a] # None
  /\ \A f \in Fragments :
       /\ f.action \in Actions
       /\ f.lang \in Languages \cup {None}
       /\ f.rate \in DOMAIN ScaledRate
       /\ f.volume \in DOMAIN ScaledVolume
       /\ f.pitch \in DOMAIN ShiftedPitch
       /\ f.words \in Nat /\ f.spoken \in Nat
  /\ 0 \in DOMAIN ScaledRate /\ 100 \in DOMAIN ScaledVolume

VARIABLES
  phase,    \* "idle", "build" (the loop over fragments) or "stream"
  frags,    \* pTextFragList
  at,       \* the fragment the loop is at
  want,     \* GetEventInterest: words, sentences
  cur,      \* curLangIndex, curRate, curVolume, curPitch
  segments,
  markers,
  pos,      \* segments the engine has dealt with
  voice,    \* the voice the engine speaks with
  said,     \* audio written to the site: what, and with which voice
  events,   \* events added: the marker and the audio offset
  skips,    \* calls of CompleteSkip
  result,   \* what Speak returned, and why: "ok" is S_OK after an END
  status    \* of the END: "none" before one, "ok" (0) or "broken" (1)

buildVars  == <<frags, at, want, cur, segments, markers>>
streamVars == <<pos, voice, said, events>>
vars == <<phase, buildVars, streamVars, skips, result, status>>

\* The voice the host establishes for the request before it feeds the text:
\* eciCopyVoice of the variant, then the overrides that are not -1.
RequestVoice ==
  [lang |-> VoiceLanguage, rate |-> ScaledRate[0], volume |-> ScaledVolume[100],
   pitch |-> IF Configured THEN SettingsPitch ELSE PresetPitch, spell |-> FALSE]

Init ==
  /\ phase = "idle"
  /\ frags = <<>> /\ at = 1
  /\ want = [words |-> FALSE, sentences |-> FALSE]
  /\ cur = [lang |-> VoiceLanguage, rate |-> ScaledRate[0],
            volume |-> ScaledVolume[100], pitch |-> None]
  /\ segments = <<>> /\ markers = <<>>
  /\ pos = 0 /\ voice = RequestVoice /\ said = <<>> /\ events = <<>>
  /\ skips = 0 /\ result = None /\ status = "none"

\* Speak is called: everything but the list and the interest is local.
Speak ==
  /\ phase = "idle" /\ result = None
  /\ \E n \in 1..MaxFragments : frags' \in [1..n -> Fragments]
  /\ want' \in [words : BOOLEAN, sentences : BOOLEAN]
  /\ phase' = "build"
  /\ UNCHANGED <<at, cur, segments, markers, streamVars, skips, result, status>>

Return(r) == phase' = "idle" /\ result' = r

-----------------------------------------------------------------------------
(* Building the segments                                                   *)

Text(f, w)      == [kind |-> "text", frag |-> f, word |-> w]
Annotate(p, v)  == [kind |-> "set", param |-> p, value |-> v]
Index(id)       == [kind |-> "index", id |-> id]
Marker(k, f, w) == [kind |-> k, frag |-> f, word |-> w]

\* An annotation only where its condition holds.
When(c, s) == IF c THEN <<s>> ELSE <<>>

\* `l: a switch to the language of the fragment's locale, when installed.
NewLanguage(f) ==
  IF f.lang # None /\ f.lang \in Installed THEN f.lang ELSE cur.lang

\* The pitch annotation of a fragment: <<>> when there is none.
BasePitch == SettingsPitch    \* req.pitch, when it is not -1, is s.pitch too
\* Mutant of PitchAnnotation: the pitch is never set back.
PitchNeverBack(f) ==
  When(f.pitch # 0 /\ ShiftedPitch[f.pitch] # cur.pitch,
       Annotate("pitch", ShiftedPitch[f.pitch]))

PitchAnnotation(f) ==
  IF f.pitch # 0
  THEN When(ShiftedPitch[f.pitch] # cur.pitch,
            Annotate("pitch", ShiftedPitch[f.pitch]))
  ELSE When(cur.pitch # None, Annotate("pitch", BasePitch))

\* Mutant of Prosody: compares with the base of the request, not with what the
\* annotations before have made of it.
ProsodyFromBase(f) ==
  When(NewLanguage(f) # cur.lang, Annotate("lang", NewLanguage(f)))
    \o When(ScaledRate[f.rate] # ScaledRate[0],
            Annotate("rate", ScaledRate[f.rate]))
    \o When(ScaledVolume[f.volume] # ScaledVolume[100],
            Annotate("volume", ScaledVolume[f.volume]))
    \o PitchAnnotation(f)
    \o When(f.action = "spell", Annotate("spell", TRUE))

Prosody(f) ==
  When(NewLanguage(f) # cur.lang, Annotate("lang", NewLanguage(f)))
    \o When(ScaledRate[f.rate] # cur.rate, Annotate("rate", ScaledRate[f.rate]))
    \o When(ScaledVolume[f.volume] # cur.volume,
            Annotate("volume", ScaledVolume[f.volume]))
    \o PitchAnnotation(f)
    \o When(f.action = "spell", Annotate("spell", TRUE))

\* Words that get a marker: as many as the original text has.
Marked(f) == IF f.spoken < f.words THEN f.spoken ELSE f.words

\* Mutant of Words: the marker behind the word.
MarkerBehindWord(i, id) ==
  LET marked == Marked(frags[i]) IN
  [k \in 1..frags[i].spoken + marked |->
     IF k > 2 * marked THEN Text(i, k - marked)
     ELSE IF k % 2 = 1 THEN Text(i, k \div 2 + 1) ELSE Index(id + k \div 2 - 1)]

\* The text of fragment number i word by word: a marker before each marked
\* word, the first of them numbered id, and the words beyond those.
Words(i, id) ==
  LET marked == Marked(frags[i]) IN
  [k \in 1..frags[i].spoken + marked |->
     IF k > 2 * marked THEN Text(i, k - marked)
     ELSE IF k % 2 = 1 THEN Index(id + k \div 2) ELSE Text(i, k \div 2)]
WordMarkers(i) == [w \in 1..Marked(frags[i]) |-> Marker("word", i, w)]

WordByWord(f) == want.words /\ f.action # "spell"
Whole(f, i)   == When(f.spoken > 0, Text(i, 0))

\* One iteration of the loop for a bookmark.
Bookmark ==
  /\ phase = "build" /\ at <= Len(frags)
  /\ frags[at].action = "bookmark"
  /\ markers' = Append(markers, Marker("bookmark", at, 0))
  /\ segments' = Append(segments, Index(Len(markers')))
  /\ at' = at + 1
  /\ UNCHANGED <<phase, frags, want, cur, streamVars, skips, result, status>>

\* For a silence, whose annotation is left out.
Silence ==
  /\ phase = "build" /\ at <= Len(frags)
  /\ frags[at].action = "silence"
  /\ at' = at + 1
  /\ UNCHANGED <<phase, frags, want, cur, segments, markers, streamVars,
                 skips, result, status>>

\* For a text: annotations, the sentence marker, the words, the end of
\* spelling.
Speech ==
  /\ phase = "build" /\ at <= Len(frags)
  /\ frags[at].action \in {"speak", "spell"}
  /\ LET f == frags[at]
         sentence == When(want.sentences /\ f.spoken > 0,
                          Marker("sentence", at, 0))
         marked == markers \o sentence
     IN
     /\ markers' = IF WordByWord(f) THEN marked \o WordMarkers(at) ELSE marked
     /\ segments' = segments \o Prosody(f)
          \o [s \in 1..Len(sentence) |-> Index(Len(marked))]
          \o (IF WordByWord(f) THEN Words(at, Len(marked) + 1)
                               ELSE Whole(f, at))
          \o When(f.action = "spell", Annotate("spell", FALSE))
     /\ cur' = [lang |-> NewLanguage(f), rate |-> ScaledRate[f.rate],
                volume |-> ScaledVolume[f.volume],
                pitch |-> IF f.pitch # 0 THEN ShiftedPitch[f.pitch] ELSE None]
  /\ at' = at + 1
  /\ UNCHANGED <<phase, frags, want, streamVars, skips, result, status>>

\* GetActions, at the head of each iteration.
AbortBuild ==
  /\ phase = "build" /\ at <= Len(frags)
  /\ Return("aborted")
  /\ UNCHANGED <<buildVars, streamVars, skips, status>>

\* Mutant of SkipBuild: the loop goes on.
SkipBuildGoesOn ==
  /\ phase = "build" /\ at <= Len(frags)
  /\ skips' = skips + 1
  /\ at' = at + 1
  /\ UNCHANGED <<phase, frags, want, cur, segments, markers, streamVars, result,
                 status>>

SkipBuild ==
  /\ phase = "build" /\ at <= Len(frags)
  /\ skips' = skips + 1
  /\ Return("skipped")
  /\ UNCHANGED <<buildVars, streamVars, status>>

AnyText == \E i \in 1..Len(frags) :
             frags[i].action \in {"speak", "spell"} /\ frags[i].spoken > 0

\* Nothing to speak and nothing to report.
NothingToDo ==
  /\ phase = "build" /\ at > Len(frags)
  /\ ~AnyText /\ markers = <<>>
  /\ Return("empty")
  /\ UNCHANGED <<buildVars, streamVars, skips, status>>

\* client().speak(req, segments, on_audio, on_index, ...).
Submit ==
  /\ phase = "build" /\ at > Len(frags)
  /\ AnyText \/ markers # <<>>
  /\ phase' = "stream"
  /\ voice' = RequestVoice
  /\ UNCHANGED <<buildVars, pos, said, events, skips, result, status>>

-----------------------------------------------------------------------------
(* Streaming                                                               *)

Segment == segments[pos + 1]
Reaches(k) == phase = "stream" /\ pos < Len(segments) /\ Segment.kind = k

\* The engine obeys an annotation.
Obey ==
  /\ Reaches("set")
  /\ voice' = [voice EXCEPT ![Segment.param] = Segment.value]
  /\ pos' = pos + 1
  /\ UNCHANGED <<phase, buildVars, said, events, skips, result, status>>

\* on_audio: the site wants it and takes it.
OnAudio ==
  /\ Reaches("text")
  /\ said' = Append(said, [frag |-> Segment.frag, word |-> Segment.word,
                           voice |-> voice])
  /\ pos' = pos + 1
  /\ UNCHANGED <<phase, buildVars, voice, events, skips, result, status>>

\* on_audio: GetActions says abort, or Write fails.
AbortStream ==
  /\ Reaches("text")
  /\ Return("aborted")
  /\ UNCHANGED <<buildVars, streamVars, skips, status>>

SkipStream ==
  /\ Reaches("text")
  /\ skips' = skips + 1
  /\ Return("skipped")
  /\ UNCHANGED <<buildVars, streamVars, status>>

\* Mutant of OnIndex: the bound check is off by one.
OnIndexButLast ==
  /\ Reaches("index")
  /\ events' = IF Segment.id < Len(markers)
               THEN Append(events, [id |-> Segment.id, offset |-> Len(said)])
               ELSE events
  /\ pos' = pos + 1
  /\ UNCHANGED <<phase, buildVars, voice, said, skips, result, status>>

\* on_index: an event at the audio offset reached, for a known marker.
OnIndex ==
  /\ Reaches("index")
  /\ events' = IF Segment.id \in 1..Len(markers)
               THEN Append(events, [id |-> Segment.id, offset |-> Len(said)])
               ELSE events
  /\ pos' = pos + 1
  /\ UNCHANGED <<phase, buildVars, voice, said, skips, result, status>>

\* END with status 0: every segment is dealt with.
Done ==
  /\ phase = "stream" /\ pos = Len(segments)
  /\ Return("ok")
  /\ status' = "ok"
  /\ UNCHANGED <<buildVars, streamVars, skips>>

\* END with status 1: eciSynthesize or eciSynchronize failed, before anything
\* was spoken or in the middle.  The client does not look at the status.
BrokenOff ==
  /\ phase = "stream"
  /\ Return("ok")
  /\ status' = "broken"
  /\ UNCHANGED <<buildVars, streamVars, skips>>

\* client().speak returned false.
TransportFailed ==
  /\ phase = "stream"
  /\ Return("failed")
  /\ UNCHANGED <<buildVars, streamVars, skips, status>>

Next ==
  \/ Speak \/ Bookmark \/ Silence \/ Speech \/ AbortBuild \/ SkipBuild
  \/ NothingToDo \/ Submit
  \/ Obey \/ OnAudio \/ AbortStream \/ SkipStream \/ OnIndex \/ Done
  \/ BrokenOff \/ TransportFailed

Spec == Init /\ [][Next]_vars

-----------------------------------------------------------------------------
(* Properties                                                              *)

TypeOK ==
  /\ phase \in {"idle", "build", "stream"}
  /\ at \in 1..Len(frags) + 1
  /\ pos \in 0..Len(segments)
  /\ voice.lang \in Languages
  /\ voice.spell \in BOOLEAN
  /\ skips \in {0, 1}
  /\ result \in Results \cup {None}
  /\ status \in {"none", "ok", "broken"}

\* Every text is spoken at the rate, the volume and in the spelling mode of its
\* own fragment, and in its own language when that is installed: annotations
\* are sent only on a change (curRate, curVolume, curLangIndex), and what the
\* code remembers never differs from what the engine was told.
SpokenAsAsked ==
  \A i \in 1..Len(said) :
    LET f == frags[said[i].frag]
        v == said[i].voice
    IN
    /\ v.rate = ScaledRate[f.rate]
    /\ v.volume = ScaledVolume[f.volume]
    /\ v.spell = (f.action = "spell")
    /\ v.lang \in Installed
    /\ f.lang \in Installed => v.lang = f.lang
    /\ f.pitch # 0 => v.pitch = ShiftedPitch[f.pitch]

\* Events come in the order of their markers, each once, and a word's event is
\* at the offset at which that very word's audio begins ("sample-synchronized
\* with the audio stream", README.md:27).
EventsFollowAudio ==
  \A i \in 1..Len(events) :
    LET m == markers[events[i].id]
        o == events[i].offset
    IN
    /\ events[i].id = i
    /\ m.kind = "word" /\ o < Len(said) =>
         said[o + 1].frag = m.frag /\ said[o + 1].word = m.word
    /\ m.kind = "sentence" /\ o < Len(said) => said[o + 1].frag = m.frag
    /\ \A j \in 1..o : said[j].frag <= m.frag

\* The texts a fragment is to be spoken in, and their order.
Texts(i) ==
  IF WordByWord(frags[i]) THEN 1..frags[i].spoken
  ELSE IF frags[i].spoken > 0 THEN {0} ELSE {}

Precedes(s, t) == s.frag < t.frag \/ (s.frag = t.frag /\ s.word < t.word)

\* Everything there was to speak and to report.
Everything ==
  /\ Len(events) = Len(markers)
  /\ \A i \in 1..Len(frags) :
       /\ frags[i].action = "bookmark" =>
            \E e \in 1..Len(events) :
              markers[events[e].id] = Marker("bookmark", i, 0)
       /\ frags[i].action \in {"speak", "spell"} =>
            \A w \in Texts(i) : \E k \in 1..Len(said) :
              said[k].frag = i /\ said[k].word = w

\* What is spoken comes in order, and nothing before it is left out.
NoGaps ==
  \A k \in 1..Len(said) :
    /\ said[k].word \in Texts(said[k].frag)
    /\ \A l \in 1..k - 1 : Precedes(said[l], said[k])
    /\ \A i \in 1..Len(frags) : frags[i].action \in {"speak", "spell"} =>
         \A w \in Texts(i) : Precedes([frag |-> i, word |-> w], said[k]) =>
           \E l \in 1..k - 1 : said[l].frag = i /\ said[l].word = w

\* However a call ends, what was spoken is a first part of the texts, each once
\* and in order; and when the host's END has status 0 it is all of them and
\* every marker has fired: a bookmark is not lost because no text follows it,
\* nor a word because preprocessing changed the number of words.
CompleteMeansAll ==
  /\ NoGaps
  /\ status = "ok" => result = "ok" /\ Everything

\* "OL_RESP_END = 3, // payload: int32 status (0 = ok)"
\* (src/outloud_protocol.h:23): Speak returns S_OK after an END only for an
\* utterance that is ok, that is, spoken to the end.  False: the client takes
\* every END for success (src/engine_client.cpp:279), and S_OK covers an
\* utterance that the engine broke off or refused.
OkMeansAll == result = "ok" => Everything

\* "Variant voices keep their engine-defined personalities" (README.md:26): a
\* fragment without a pitch adjustment is spoken with the voice's own pitch.
OwnPitch ==
  \A i \in 1..Len(said) :
    frags[said[i].frag].pitch = 0 => said[i].voice.pitch = RequestVoice.pitch

\* "Automatic language switching from per-fragment SAPI locale information -
\* mixed-language documents just work" (README.md:28), and variant voices with
\* a personality of their own: what a fragment does not name is the voice's,
\* whatever the fragments before it named.
PlainMeansOwnVoice ==
  /\ OwnPitch
  /\ \A i \in 1..Len(said) :
       frags[said[i].frag].lang = None => said[i].voice.lang = VoiceLanguage
=============================================================================
