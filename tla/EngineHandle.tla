------------------------------ MODULE EngineHandle ------------------------------
(***************************************************************************)
(* The host's engine handle and what the host remembers of it from one     *)
(* request to the next: dialect, sample rate and dictionary handles        *)
(* (src/outloud_host.cpp, create_engine_handle to handle_speak).           *)
(*                                                                         *)
(* External: the engine.  A handle speaks one dialect, at the rate set     *)
(* before its first use (a later change is ignored), with one active       *)
(* dictionary, and copies a preset voice on demand; making a handle or a   *)
(* dictionary and switching the dialect may fail; the handle's             *)
(* dictionaries die with it.  Annotations in a text (`l, `ts, `v) change   *)
(* language, spelling and voice of the handle that speaks it, until a call *)
(* or another annotation does.  A voice parameter stands for all of them.  *)
(* Requests come from the SAPI DLLs and the configuration utility: rates   *)
(* are never negative and variants are presets.                            *)
(***************************************************************************)
EXTENDS Integers

CONSTANTS
  Dialects,   \* ECILanguageDialect values
  WithFiles,  \* dialects with a user dictionary in the engine directory
  Rates,      \* sampleRate of a request or of the settings
  Honoured,   \* rates the engine can render; any other becomes Fallback
  Fallback,
  Variants,   \* preset voices
  Overrides,  \* values of a voice parameter
  MaxHandles  \* bound: handles created

None == -1

ASSUME EngineAssumption ==
  /\ None \notin Dialects
  /\ WithFiles \subseteq Dialects
  /\ Rates \subseteq Nat
  /\ Honoured \subseteq Nat
  /\ Fallback \in Honoured
  /\ MaxHandles \in Nat

VARIABLES
  pc,       \* "off", "idle", or the step of handle_speak that is next
  req,      \* the request in service
  handle,   \* g_handle: the number of the live handle, 0 when null
  dialect,  \* g_currentDialect
  rate,     \* g_currentSampleRate
  dicts,    \* g_dictHandles: the handle each dictionary belongs to, 0 for none
  engine,   \* the live handle in the engine: what calls set, and the language
            \* and spelling in force, which annotations change too
  handles   \* number of handles ever created

vars == <<pc, req, handle, dialect, rate, dicts, engine, handles>>

Requests == [dialect : Dialects, rate : Rates, variant : Variants,
             param : Overrides \cup {None}]

NoDicts == [d \in Dialects |-> 0]

\* A handle fresh from eciNewEx.
Fresh(d) == [dialect |-> d, language |-> d, spell |-> FALSE,
             rate |-> Fallback, dict |-> None, dictOf |-> 0,
             variant |-> None, param |-> None]

Init ==
  /\ pc = "off"
  /\ req \in Requests   \* not read before a request is received
  /\ handle = 0
  /\ dialect = None
  /\ rate = None
  /\ dicts = NoDicts
  /\ engine = Fresh(None)
  /\ handles = 0

-----------------------------------------------------------------------------
\* apply_language_dictionaries on handle h in state e: the cached dictionary,
\* no change without files or when eciNewDict fails, or a new dictionary.
Activate(e, d, h) == [e EXCEPT !.dict = d, !.dictOf = h]

\* Mutant of ApplyDictionaries: a cached dictionary is not activated again.
LoadDictionariesOnce(e, d, h, ds) ==
  IF ds[d] # 0
  THEN engine' = e /\ dicts' = ds
  ELSE \/ engine' = e /\ dicts' = ds
       \/ /\ d \in WithFiles
          /\ engine' = Activate(e, d, h)
          /\ dicts' = [ds EXCEPT ![d] = h]

ApplyDictionaries(e, d, h, ds) ==
  IF ds[d] # 0
  THEN engine' = Activate(e, d, ds[d]) /\ dicts' = ds
  ELSE \/ engine' = e /\ dicts' = ds
       \/ /\ d \in WithFiles
          /\ engine' = Activate(e, d, h)
          /\ dicts' = [ds EXCEPT ![d] = h]

\* Mutants of CreateHandle: g_dictHandles is not cleared; the rate is the one
\* asked for.
CreateKeepsDictionaries(d, r) ==
  /\ handles < MaxHandles
  /\ handles' = handles + 1
  /\ handle' = handles + 1
  /\ dialect' = d
  /\ rate' = IF r \in Honoured THEN r ELSE Fallback
  /\ ApplyDictionaries([Fresh(d) EXCEPT !.rate = rate'], d, handles + 1, dicts)

CreateTrustsRate(d, r) ==
  /\ handles < MaxHandles
  /\ handles' = handles + 1
  /\ handle' = handles + 1
  /\ dialect' = d
  /\ rate' = r
  /\ ApplyDictionaries([Fresh(d) EXCEPT !.rate = IF r \in Honoured THEN r ELSE Fallback],
                       d, handles + 1, NoDicts)

\* create_engine_handle, when eciNewEx succeeds.  The rate is read back.
CreateHandle(d, r) ==
  /\ handles < MaxHandles
  /\ handles' = handles + 1
  /\ handle' = handles + 1
  /\ dialect' = d
  /\ rate' = IF r \in Honoured THEN r ELSE Fallback
  /\ ApplyDictionaries([Fresh(d) EXCEPT !.rate = rate'], d, handles + 1, NoDicts)

\* Mutant of CreateFails: the host does not forget what the lost handle was.
CreateFailsQuietly ==
  /\ handle' = 0
  /\ dicts' = NoDicts
  /\ engine' = Fresh(None)
  /\ UNCHANGED <<dialect, rate, handles>>

\* create_engine_handle, when it fails: the old handle is gone all the same.
CreateFails ==
  /\ handle' = 0
  /\ dialect' = None
  /\ rate' = None
  /\ dicts' = NoDicts
  /\ engine' = Fresh(None)
  /\ UNCHANGED handles

\* init_engine: any language may be the first one available.
InitEngine ==
  /\ pc = "off"
  /\ \E d \in Dialects, r \in Rates : CreateHandle(d, r)
  /\ pc' = "idle"
  /\ UNCHANGED req

Receive ==
  /\ pc = "idle"
  /\ req' \in Requests
  /\ pc' = "rate"
  /\ UNCHANGED <<handle, dialect, rate, dicts, engine, handles>>

KeepRate ==
  /\ pc = "rate"
  /\ req.rate = rate
  /\ pc' = "language"
  /\ UNCHANGED <<req, handle, dialect, rate, dicts, engine, handles>>

ChangeRate ==
  /\ pc = "rate"
  /\ req.rate # rate
  /\ CreateHandle(req.dialect, req.rate)
  /\ pc' = "language"
  /\ UNCHANGED req

\* "engine reinitialization failed"
ChangeRateFails ==
  /\ pc = "rate"
  /\ req.rate # rate
  /\ CreateFails
  /\ pc' = "idle"
  /\ UNCHANGED req

KeepLanguage ==
  /\ pc = "language"
  /\ req.dialect = dialect
  /\ pc' = "voice"
  /\ UNCHANGED <<req, handle, dialect, rate, dicts, engine, handles>>

SwitchLanguage ==
  /\ pc = "language"
  /\ req.dialect # dialect
  /\ dialect' = req.dialect
  /\ ApplyDictionaries([engine EXCEPT !.dialect = req.dialect,
                                     !.language = req.dialect],
                       req.dialect, handle, dicts)
  /\ pc' = "voice"
  /\ UNCHANGED <<req, handle, rate, handles>>

\* "language not available"
SwitchFails ==
  /\ pc = "language"
  /\ req.dialect # dialect
  /\ pc' = "idle"
  /\ UNCHANGED <<req, handle, dialect, rate, dicts, engine, handles>>

\* Mutant of SetVoice: sets what the request names and does not copy the
\* preset first.
SetVoiceOverridesOnly ==
  /\ pc = "voice"
  /\ engine' = [engine EXCEPT !.variant = req.variant,
                              !.param = IF req.param = None THEN @ ELSE req.param]
  /\ pc' = "synthesize"
  /\ UNCHANGED <<req, handle, dialect, rate, dicts, handles>>

\* eciCopyVoice brings the preset's parameters, then the overrides.
SetVoice ==
  /\ pc = "voice"
  /\ engine' = [engine EXCEPT !.variant = req.variant, !.param = req.param]
  /\ pc' = "synthesize"
  /\ UNCHANGED <<req, handle, dialect, rate, dicts, handles>>

\* Segments are fed and synthesized, with whatever result.  Their annotations
\* (Speak's own, and with backquoteVoiceTags the user's) leave the handle in
\* any language, spelling, voice and parameter; a stop may come before the
\* annotation that would have taken one back.
Synthesize ==
  /\ pc = "synthesize"
  /\ \E l \in Dialects, sp \in BOOLEAN, v \in Variants, p \in Overrides \cup {None} :
       engine' = [engine EXCEPT !.language = l, !.spell = sp,
                                !.variant = v, !.param = p]
  /\ pc' = "idle"
  /\ UNCHANGED <<req, handle, dialect, rate, dicts, handles>>

Next ==
  \/ InitEngine \/ Receive \/ KeepRate \/ ChangeRate \/ ChangeRateFails
  \/ KeepLanguage \/ SwitchLanguage \/ SwitchFails \/ SetVoice \/ Synthesize

Spec == Init /\ [][Next]_vars

-----------------------------------------------------------------------------
(* Properties                                                              *)

Handled == {"language", "voice", "synthesize"}

EngineStates == [dialect : Dialects \cup {None}, language : Dialects \cup {None},
                 spell : BOOLEAN, rate : Honoured,
                 dict : Dialects \cup {None}, dictOf : Nat,
                 variant : Variants \cup {None}, param : Overrides \cup {None}]

TypeOK ==
  /\ pc \in {"off", "idle", "rate"} \cup Handled
  /\ req \in Requests
  /\ handle \in Nat
  /\ dialect \in Dialects \cup {None}
  /\ rate \in Honoured \cup {None}
  /\ dicts \in [Dialects -> Nat]
  /\ engine \in EngineStates
  /\ handles \in Nat

\* What the host remembers of a live handle, to skip calls that change nothing
\* (src/outloud_host.cpp:91), is what its calls last set there, whatever failed
\* before, and of a lost handle it remembers nothing.
MemoryIsTrue ==
  IF handle = 0
  THEN dialect = None /\ rate = None
  ELSE dialect = engine.dialect /\ rate = engine.rate

\* The engine is never called with a null handle: after a failed recreation
\* every later request makes a handle before it goes on.
HandleWhenUsed == pc \in Handled => handle # 0

\* "Dictionary handles died with the engine handle"
\* (src/outloud_host.cpp:275): no dictionary of an older handle is cached, and
\* none is active on the live one.
NoDeadDictionary ==
  /\ \A d \in Dialects : dicts[d] \in {0, handle}
  /\ engine.dictOf \in {0, handle}

\* The dictionary loaded for a language is the active one whenever that
\* language is the one set, after any sequence of switches and recreations.
LoadedMeansActive ==
  handle # 0 /\ dicts[dialect] # 0 => engine.dict = dialect

\* By the time an utterance is synthesized the host has set what its request
\* names - the dialect, the voice with all its parameters and (if the engine
\* can render it) the rate - whatever earlier requests set, failed to set or
\* changed by the annotations in their texts.
RequestDecides ==
  pc = "synthesize" =>
    /\ engine.dialect = req.dialect
    /\ engine.variant = req.variant
    /\ engine.param = req.param
    /\ req.rate \in Honoured => engine.rate = req.rate

\* "Engine state that persists between requests to avoid redundant switches"
\* (src/outloud_host.cpp:91): where a switch is left out the engine is what the
\* switch would have made it, so a text begins in the language of its request,
\* and not in spelling mode.  False: the host remembers the language it set
\* (src/outloud_host.cpp:411), not the one an annotation has brought since, and
\* it never sets the spelling.
NothingLeftOver ==
  pc = "synthesize" => engine.language = req.dialect /\ ~engine.spell
=============================================================================
