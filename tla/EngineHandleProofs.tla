--------------------------- MODULE EngineHandleProofs ---------------------------
(* The invariants of EngineHandle, for every set of dialects, rates, voices *)
(* and dictionaries and any number of handles.                              *)
EXTENDS EngineHandle, TLAPS

\* The steps between receiving a request and synthesizing it establish, one
\* after the other, what RequestDecides says; without this it is not
\* inductive.
Progress ==
  /\ pc \in Handled /\ req.rate \in Honoured => rate = req.rate
  /\ pc \in {"voice", "synthesize"} => dialect = req.dialect
  /\ pc = "synthesize" => engine.variant = req.variant /\ engine.param = req.param

\* A live handle has a known dialect.
Known == handle # 0 => dialect \in Dialects

IInv ==
  /\ TypeOK
  /\ MemoryIsTrue
  /\ HandleWhenUsed
  /\ NoDeadDictionary
  /\ LoadedMeansActive
  /\ Progress
  /\ Known

-----------------------------------------------------------------------------
\* None is no dialect and no rate.
LEMMA NoneApart == None \notin Dialects /\ None \notin Rates /\ None \in Int
BY EngineAssumption DEF None

\* What apply_language_dictionaries leaves alone, and what it may change: the
\* active dictionary becomes that of d, or nothing is loaded for d.
LEMMA DictionariesApplied ==
  ASSUME NEW e \in EngineStates, NEW d \in Dialects, NEW h \in Nat,
         NEW ds \in [Dialects -> Nat], \A x \in Dialects : ds[x] \in {0, h},
         e.dictOf \in {0, h}, ApplyDictionaries(e, d, h, ds)
  PROVE  /\ engine' \in EngineStates
         /\ dicts' \in [Dialects -> Nat]
         /\ \A x \in Dialects : dicts'[x] \in {0, h}
         /\ engine'.dictOf \in {0, h}
         /\ engine'.dialect = e.dialect /\ engine'.rate = e.rate
         /\ dicts'[d] # 0 => engine'.dict = d
<1>1. CASE ds[d] # 0
  BY <1>1 DEF ApplyDictionaries, Activate, EngineStates
<1>2. CASE ds[d] = 0 /\ engine' = e /\ dicts' = ds
  BY <1>2
<1>3. CASE engine' = Activate(e, d, h) /\ dicts' = [ds EXCEPT ![d] = h]
  BY <1>3 DEF Activate, EngineStates
<1>4. QED
  BY <1>1, <1>2, <1>3 DEF ApplyDictionaries

\* A new handle: the state around it is consistent whatever was before.
LEMMA HandleCreated ==
  ASSUME IInv, NEW d \in Dialects, NEW r \in Rates, CreateHandle(d, r)
  PROVE  /\ handles' \in Nat /\ handle' \in Nat /\ handle' # 0
         /\ dialect' = d /\ rate' \in Honoured /\ (r \in Honoured => rate' = r)
         /\ engine' \in EngineStates
         /\ engine'.dialect = d /\ engine'.rate = rate'
         /\ NoDeadDictionary' /\ LoadedMeansActive' /\ dicts' \in [Dialects -> Nat]
<1> DEFINE e == [Fresh(d) EXCEPT !.rate = rate']
<1>1. /\ handles \in Nat /\ handle' = handles + 1 /\ handles' = handles + 1
      /\ dialect' = d /\ rate' = IF r \in Honoured THEN r ELSE Fallback
      /\ ApplyDictionaries(e, d, handles + 1, NoDicts)
  BY DEF CreateHandle, IInv, TypeOK
<1>2. rate' \in Honoured
  BY <1>1, EngineAssumption
<1>3. e \in EngineStates /\ e.dictOf = 0 /\ e.dialect = d /\ e.rate = rate'
  BY <1>2, NoneApart DEF Fresh, EngineStates
<1>4. /\ NoDicts \in [Dialects -> Nat]
      /\ \A x \in Dialects : NoDicts[x] \in {0, handles + 1}
  BY DEF NoDicts
<1>5. handles + 1 \in Nat /\ handles + 1 # 0
  BY <1>1
<1> HIDE DEF e
<1>6. /\ engine' \in EngineStates
      /\ dicts' \in [Dialects -> Nat]
      /\ \A x \in Dialects : dicts'[x] \in {0, handles + 1}
      /\ engine'.dictOf \in {0, handles + 1}
      /\ engine'.dialect = e.dialect /\ engine'.rate = e.rate
      /\ dicts'[d] # 0 => engine'.dict = d
  BY <1>1, <1>3, <1>4, <1>5, DictionariesApplied
<1>7. QED
  BY <1>1, <1>2, <1>3, <1>5, <1>6 DEF NoDeadDictionary, LoadedMeansActive

\* No handle is left: nothing is remembered of it.
LEMMA HandleLost ==
  ASSUME IInv, CreateFails
  PROVE  /\ handle' = 0 /\ dialect' = None /\ rate' = None /\ handles' \in Nat
         /\ engine' \in EngineStates /\ dicts' \in [Dialects -> Nat]
         /\ NoDeadDictionary'
BY EngineAssumption
DEF CreateFails, IInv, TypeOK, NoDicts, Fresh, EngineStates, NoDeadDictionary

-----------------------------------------------------------------------------
LEMMA InitInv == Init => IInv
<1> SUFFICES ASSUME Init PROVE IInv
  OBVIOUS
<1>1. engine \in EngineStates
  BY EngineAssumption DEF Init, Fresh, EngineStates
<1>2. TypeOK
  BY <1>1 DEF Init, TypeOK, NoDicts
<1>3. QED
  BY <1>2
  DEF Init, IInv, MemoryIsTrue, HandleWhenUsed, NoDeadDictionary, NoDicts,
      LoadedMeansActive, Progress, Known, Fresh, Handled

\* Every step keeps the invariant.
LEMMA StepInv == IInv /\ [Next]_vars => IInv'
<1> SUFFICES ASSUME IInv, [Next]_vars PROVE IInv'
  OBVIOUS
<1>0. /\ TypeOK /\ MemoryIsTrue /\ HandleWhenUsed /\ NoDeadDictionary
      /\ LoadedMeansActive /\ Progress /\ Known
  BY DEF IInv
<1>1. CASE InitEngine
  <2>1. PICK d \in Dialects, r \in Rates : CreateHandle(d, r)
    BY <1>1 DEF InitEngine
  <2>2. pc' = "idle" /\ req' = req
    BY <1>1 DEF InitEngine
  <2>3. QED
    BY <1>0, <2>1, <2>2, HandleCreated
    DEF IInv, TypeOK, MemoryIsTrue, HandleWhenUsed, Progress, Known, Handled
<1>2. CASE Receive
  BY <1>0, <1>2
  DEF Receive, IInv, TypeOK, MemoryIsTrue, HandleWhenUsed, NoDeadDictionary,
      LoadedMeansActive, Progress, Known, Handled
<1>3. CASE KeepRate
  <2>1. rate # None
    BY <1>0, <1>3, NoneApart DEF KeepRate, TypeOK, Requests
  <2>2. handle # 0
    BY <1>0, <2>1 DEF MemoryIsTrue
  <2>3. QED
    BY <1>0, <1>3, <2>2
    DEF KeepRate, IInv, TypeOK, MemoryIsTrue, HandleWhenUsed,
        NoDeadDictionary, LoadedMeansActive, Progress, Known, Handled
<1>4. CASE ChangeRate
  <2>1. /\ req.dialect \in Dialects /\ req.rate \in Rates
        /\ CreateHandle(req.dialect, req.rate) /\ pc' = "language" /\ req' = req
    BY <1>0, <1>4 DEF ChangeRate, TypeOK, Requests
  <2>2. QED
    BY <1>0, <2>1, HandleCreated
    DEF IInv, TypeOK, MemoryIsTrue, HandleWhenUsed, Progress, Known, Handled
<1>5. CASE ChangeRateFails
  <2>1. CreateFails /\ pc' = "idle" /\ req' = req
    BY <1>5 DEF ChangeRateFails
  <2>2. QED
    BY <1>0, <2>1, HandleLost
    DEF IInv, TypeOK, MemoryIsTrue, HandleWhenUsed, LoadedMeansActive,
        Progress, Known, Handled
<1>6. CASE KeepLanguage
  BY <1>0, <1>6
  DEF KeepLanguage, IInv, TypeOK, MemoryIsTrue, HandleWhenUsed,
      NoDeadDictionary, LoadedMeansActive, Progress, Known, Handled
<1>7. CASE SwitchLanguage
  <2> DEFINE e == [engine EXCEPT !.dialect = req.dialect, !.language = req.dialect]
  <2>1. /\ pc = "language" /\ pc' = "voice" /\ dialect' = req.dialect
        /\ UNCHANGED <<req, handle, rate, handles>>
        /\ ApplyDictionaries(e, req.dialect, handle, dicts)
    BY <1>7 DEF SwitchLanguage
  <2>2. req.dialect \in Dialects /\ handle # 0 /\ handle \in Nat
    BY <1>0, <2>1 DEF TypeOK, Requests, HandleWhenUsed, Handled
  <2>3. /\ e \in EngineStates /\ e.dictOf \in {0, handle}
        /\ e.dialect = req.dialect /\ e.rate = engine.rate
    BY <1>0, <2>2 DEF TypeOK, EngineStates, NoDeadDictionary
  <2>4. dicts \in [Dialects -> Nat] /\ \A x \in Dialects : dicts[x] \in {0, handle}
    BY <1>0 DEF TypeOK, NoDeadDictionary
  <2> HIDE DEF e
  <2>5. /\ engine' \in EngineStates
        /\ dicts' \in [Dialects -> Nat]
        /\ \A x \in Dialects : dicts'[x] \in {0, handle}
        /\ engine'.dictOf \in {0, handle}
        /\ engine'.dialect = e.dialect /\ engine'.rate = e.rate
        /\ dicts'[req.dialect] # 0 => engine'.dict = req.dialect
    BY <2>1, <2>2, <2>3, <2>4, DictionariesApplied
  <2>6. QED
    BY <1>0, <2>1, <2>2, <2>3, <2>5
    DEF IInv, TypeOK, MemoryIsTrue, HandleWhenUsed, NoDeadDictionary,
        LoadedMeansActive, Progress, Known, Handled
<1>8. CASE SwitchFails
  BY <1>0, <1>8
  DEF SwitchFails, IInv, TypeOK, MemoryIsTrue, HandleWhenUsed,
      NoDeadDictionary, LoadedMeansActive, Progress, Known, Handled
<1>9. CASE SetVoice
  <2>1. /\ pc = "voice" /\ pc' = "synthesize"
        /\ UNCHANGED <<req, handle, dialect, rate, dicts, handles>>
        /\ engine' = [engine EXCEPT !.variant = req.variant, !.param = req.param]
    BY <1>9 DEF SetVoice
  <2>2. /\ engine' \in EngineStates
        /\ engine'.variant = req.variant /\ engine'.param = req.param
        /\ engine'.dialect = engine.dialect /\ engine'.rate = engine.rate
        /\ engine'.dict = engine.dict /\ engine'.dictOf = engine.dictOf
    BY <1>0, <2>1 DEF TypeOK, EngineStates, Requests
  <2>3. QED
    BY <1>0, <2>1, <2>2
    DEF IInv, TypeOK, MemoryIsTrue, HandleWhenUsed, NoDeadDictionary,
        LoadedMeansActive, Progress, Known, Handled
<1>10. CASE Synthesize
  <2>1. PICK l \in Dialects, sp \in BOOLEAN, v \in Variants, p \in Overrides \cup {None} :
          engine' = [engine EXCEPT !.language = l, !.spell = sp,
                                   !.variant = v, !.param = p]
    BY <1>10 DEF Synthesize
  <2>2. pc' = "idle" /\ UNCHANGED <<req, handle, dialect, rate, dicts, handles>>
    BY <1>10 DEF Synthesize
  <2>3. /\ engine' \in EngineStates
        /\ engine'.dialect = engine.dialect /\ engine'.rate = engine.rate
        /\ engine'.dict = engine.dict /\ engine'.dictOf = engine.dictOf
    BY <1>0, <2>1 DEF TypeOK, EngineStates
  <2>4. QED
    BY <1>0, <2>2, <2>3
    DEF IInv, TypeOK, MemoryIsTrue, HandleWhenUsed, NoDeadDictionary,
        LoadedMeansActive, Progress, Known, Handled
<1>11. CASE UNCHANGED vars
  BY <1>0, <1>11
  DEF vars, IInv, TypeOK, MemoryIsTrue, HandleWhenUsed, NoDeadDictionary,
      LoadedMeansActive, Progress, Known, Handled
<1>12. QED
  BY <1>1, <1>2, <1>3, <1>4, <1>5, <1>6, <1>7, <1>8, <1>9, <1>10, <1>11 DEF Next

LEMMA Invariant == Spec => []IInv
BY InitInv, StepInv, PTL DEF Spec

-----------------------------------------------------------------------------
\* The engine host's variables have their types in every reachable state.
THEOREM TypeCorrect == Spec => []TypeOK
<1>1. IInv => TypeOK
  BY DEF IInv
<1>2. QED
  BY <1>1, Invariant, PTL

\* What the host remembers of the engine handle is always so, and a request
\* is never served with a null handle.
THEOREM MemoryHolds == Spec => [](MemoryIsTrue /\ HandleWhenUsed)
<1>1. IInv => MemoryIsTrue /\ HandleWhenUsed
  BY DEF IInv
<1>2. QED
  BY <1>1, Invariant, PTL

\* No dictionary outlives the handle it was made on: load_dictionary never
\* deletes or activates one of a handle that is gone.
THEOREM DictionariesHold == Spec => []NoDeadDictionary
<1>1. IInv => NoDeadDictionary
  BY DEF IInv
<1>2. QED
  BY <1>1, Invariant, PTL

\* When the current language's dictionary is loaded it is the active one.
THEOREM LoadedActive == Spec => []LoadedMeansActive
<1>1. IInv => LoadedMeansActive
  BY DEF IInv
<1>2. QED
  BY <1>1, Invariant, PTL

\* Whatever requests were served, refused or failed before, and whatever their
\* texts did to the handle, the host sets what a request asks for before its
\* utterance is synthesized.
THEOREM RequestsDecide == Spec => []RequestDecides
<1>1. IInv => RequestDecides
  <2> SUFFICES ASSUME IInv, pc = "synthesize"
               PROVE  /\ engine.dialect = req.dialect
                      /\ engine.variant = req.variant
                      /\ engine.param = req.param
                      /\ req.rate \in Honoured => engine.rate = req.rate
    BY DEF RequestDecides
  <2>1. handle # 0
    BY DEF IInv, HandleWhenUsed, Handled
  <2>2. QED
    BY <2>1 DEF IInv, MemoryIsTrue, Progress, Handled
<1>2. QED
  BY <1>1, Invariant, PTL
=============================================================================
