# outloud-sapi5 in TLA+

A verification project for `outloud-sapi5`, a SAPI5 wrapper of the IBM ViaVoice
Outloud speech engine. It models the parts of the program whose correctness
depends on the order of things: the conversation between SAPI applications and
the shared engine host, how hosts are launched, the host's engine handle, one
`Speak` call and the word markers in its texts, the settings file, the voices
offered to SAPI, and the DLL as a COM server. TLC checks each module on small
instances; TLAPS proves the invariants, the action properties and the steps of
the refinements for every value of the constants. Paths below are relative to the repository (`src/...` is its source
directory).

## 1. The system

| Part | Source | State it keeps | Operations |
|---|---|---|---|
| Speech client | `src/engine_client.cpp` | one pipe handle and one critical section per process | `speak`, `ping`, `shutdownServer`; connect, launch the host, retry |
| Pipe server of the host | `src/outloud_host.cpp`, `main`, `handle_client`, `request_shutdown` | one pipe instance, `g_stream`, `g_shutdownRequested` | accept, read a command, answer, stream, hang up |
| Engine handle of the host | `src/outloud_host.cpp`, `create_engine_handle` … `handle_speak` | `g_handle`, `g_currentDialect`, `g_currentSampleRate`, `g_dictHandles` | create, change rate, switch language, load dictionaries, set the voice |
| SAPI engine | `src/ISpTTSEngineImpl.cpp` | the token; within `Speak` segments, markers, current prosody | `Speak`, `on_audio`, `on_index`, `GetOutputFormat`, `SetObjectToken` |
| Settings store | `src/settings.cpp` | `settings.ini`; a cache, its date and a lock per process | `load`, `save`, `current` |
| Configuration utility | `src/config/OutloudConfig.cpp` | `g_settings` | load, save on each change, preview |
| Text preprocessing | `src/text_preprocess.cpp` | none | rewrite a text by regular expressions |
| Voice catalogue | `src/voice_data.hpp`, `installed_voices.cpp`, `IEnumSpObjectTokensImpl.cpp`, `voice_token.cpp`, `ISpDataKeyImpl.cpp` | the manifest (read once), an enumerator's cursor | enumerate, describe and clone voice tokens |
| COM server | `src/com.hpp`, `com.cpp`, `sapi_main.cpp`, `registry.cpp` | object counter, reference counts, registry keys | create and release objects, register, unregister |
| Virtual registry | `src/outloud_host.cpp`, `build_virtual_registry` | a volatile key | copy `eci.ini` once |
| Engine | `bin/engine` (proprietary) | handles | external |
| Installer | `installer/outloud.iss`, `stage.ps1` | files | copies files, runs `--shutdown` |

How they interact. SAPI calls `Speak` on any thread of any application. `Speak`
reads the settings, turns SAPI's fragments into segments and hands them to the
process's `EngineClient`, which sends one request over a named pipe and reads
responses until END, calling `on_audio` and `on_index` for each; an `on_audio`
that returns false makes the client close the pipe. The host is one thread: it
serves the client that holds its only pipe instance until that client closes
its end, then offers an instance to the next. The engine calls back into the
host from `eciSynchronize`, and the callback writes the responses. The
configuration utility writes `settings.ini` and, for a preview, is one more
client. Setup runs `outloud_host.exe --shutdown`, which is one more peer of the
pipe.

What is hard here, and what makes each part correct:

* *The pipe.* Responses carry no call number, a connection outlives calls, and
  threads, processes and crashes interleave. Correct means: what a thread
  hears is its own utterance in order, nothing missing or twice; no request is
  spoken twice or for nobody; every call returns; a dead connection is
  released; a shutdown completes.
* *The engine handle.* What the host remembers saves engine calls and is only
  right if it follows each failure; the texts it feeds change the handle too.
  Correct means: the memory is true, no null handle or dead dictionary is used,
  and what an earlier request left behind does not decide what is spoken.
* *Speak.* Annotations are sent on change only and events are placed by the
  bytes written so far. Correct means: every text is spoken as its own fragment
  asks, events sit where their word begins, none is lost.
* *Settings.* A file written key by key is read key by key by others, with a
  time stamp in place of a comparison. Correct means: no utterance uses a
  setting the file did not have while it was asking, as far as stamps can tell.
* *Launching.* Any client may find no host and start one, any client or host may
  die, and two mutexes and a registry key are all that coordinates them. Correct
  means: one host at a time in a session, which serves from the registry data it
  wrote itself; every call to connect ends.
* *Word markers.* The words of the original are paired with the words of a
  rewritten text. Correct means: the whole rewritten text is spoken once, no
  engine annotation is cut, a marker stands at its own word.
* *COM.* Objects are shared by threads, handed out half-made and destroyed inside
  each other. Correct means: counted pointers and pointers are the same
  number, the DLL says that it can go only when nothing of it is held, and what
  SAPI finds registered is usable.
* *Voices.* What is enumerated comes from a manifest read once, and a token is
  only a number that another object turns back into a voice. Correct means: an
  enumerator passes each voice once, whatever fails; a voice that was offered
  speaks as itself.

`PROJECT.json` lists the hazards line by line, with the properties that cover
each.

## 2. Modules

| Module | Models | Theorems |
|---|---|---|
| `SpeechService` | what `src/engine_client.h` promises the callers: no pipe, no host, no lock | |
| `SpeechPipe` | client, pipe, host and `--shutdown` together; implements `SpeechService` | `SpeechPipeProofs` |
| `EngineHandle` | the host's handle and memory, one engine call after the other | `EngineHandleProofs` |
| `SpeakCall` | one `ISpTTSEngine::Speak` | `SpeakCallProofs` |
| `SettingsCache` | file, utility and the caches of the SAPI DLLs | `SettingsCacheProofs` |
| `VoiceTokens` | the manifest, the token enumerators, and the engine that takes a token back | `VoiceTokensProofs` |
| `HostSlot` | what starting `outloud_host.exe` promises: one host at a time, which does not stay half-way | |
| `HostLaunch` | `ensureConnected` with `launchServer`, and the host process from its start to its end; implements `HostSlot` | `HostLaunchProofs` |
| `WordMarkers` | one fragment's text: splitting, rewriting, segments, markers | `WordMarkersProofs` |
| `ComServer` | reference counts, the object counter, registration | `ComServerProofs` |
| `MCSpeechPipe`, `MCSpeakCall`, `MCSettingsCache`, `MCVoiceTokens`, `MCHostLaunch`, `MCWordMarkers`, `MCComServer` | constants of the small instances | |

`SpeechPipe` and `HostLaunch` meet in `ensureConnected`: the pipe module takes
launching as one step that succeeds or fails, the launch module takes a
connection as something that is there or is not. `SpeakCall` takes of a text
only how many words it has before and after rewriting; `WordMarkers` is where
those numbers come from.

Definitions commented "Mutant of …" are not part of a specification. Each is a
plausible slip in the code (a reset forgotten, a guard dropped, an order
swapped) that was put in place of the definition it names to see that the
property it is aimed at notices.

### SpeechPipe

The composition of the client and the host, because neither means anything
alone. A thread's `pc` is where it stands in `EngineClient`:

| `pc` | code |
|---|---|
| `enter` | waiting for `cs_` at the head of `speak`, `ping`, `shutdownServer` |
| `connect` | in `ensureConnected` (`tries` is its loop counter) |
| `send` | before `sendMessage` |
| `read` | in the loop around `readMessage` |

`host` is where the host's only thread stands: `starting` (before the engine is
ready), `create` (before `CreateNamedPipe`), `accept` (`ConnectNamedPipe`),
`serve` (`ReadFile` in `handle_client`), `stream` (`eciSynchronize`), `hangup`
(`FlushFileBuffers` and after), `closing`. `inst` is the pipe instance:
`dropped` means that the client closed its end and the host has not noticed.
A client may connect to an instance before the host calls `ConnectNamedPipe`,
as Windows allows (`ERROR_PIPE_CONNECTED`). `fromHost` is per peer because a
client can read what a host wrote before it crashed.

Each action is one blocking call with what follows it up to the next blocking
call. The retry of `speak` is in `RetryOrFail`; an `on_audio` that refuses is
`AbortSpeak`, whose disconnection the host finds out about at its next write
(`EmitFailed`) or read (`PeerLeft`).

Messages are records that also say whose call they belong to. The bytes do not
carry that; it is there for the properties to compare with.

### EngineHandle

`engine` is the true state of the live handle, kept by the engine; `dialect`,
`rate` and `dicts` are the host's memory of it. Of `engine`, `dialect` is what
calls set; `language` and `spell` are what is in force, which annotations change
too. `pc` walks through `handle_speak`: `rate` → `language` → `voice` →
`synthesize`. Each engine call that may fail has an action for success and one
for failure. `Synthesize` leaves the handle in any language, spelling, voice and
parameter: texts carry Speak's annotations and the user's, and a stop may come
between any two. A rate the engine
cannot render becomes its fallback, and `create_engine_handle` then remembers
the rate it read back.

### SpeakCall

`phase = "build"` is the loop over `pTextFragList`, one action per kind of
fragment, with the abort and skip checks at its head; `phase = "stream"` is
what comes back from the host, segment by segment. It ends with an END of
status 0 (`Done`), one of status 1 (`BrokenOff`: the engine failed, at any
point), an abort, a skip, or a failed transport; `result` is what `Speak`
returns, `status` what the host knows of it. A text is a fragment and a word number. `f.words` is the number of words in the original, `f.spoken` in
the preprocessed text: they differ where preprocessing adds or removes words,
and `Marked` is the pairing's limit. The engine is external: it obeys each
annotation, speaks each text and replies to each index in order.

### SettingsCache

A key's value is the number of the save that brought it. `WriteKey` is one
`WritePrivateProfileString`, `ReadKey` one `GetPrivateProfileInt`; `Miss` is the
time stamp taken under the lock, `Reload` the assignment of cache and date.
A write stamps the file with the time, which may or may not have moved since
the one before. `seen`, `recent` and `before` are history variables: the values
each key had while a call of `current` ran, while the file bore its present
stamp, and up to the call under the stamp of that moment. The utility may be
killed in the middle of a save.

### VoiceTokens

One process and the file `voices.ini`, which setup deletes and rewrites at any
time. `manifest` is the function-local static of `manifest()`, loaded by
whatever asks first: an enumerator's constructor (`Create`) or `Speak`.
`voices[e]` and `index[e]` are an enumerator's `sapi_voices_` and `index_`;
`passed[e]` is a history variable, the tokens delivered or skipped since its
`Reset`. `Deliver` and `DeliverFails` are the two outcomes of `Next`: all
tokens are made before one is delivered, and `reserve` refuses counts above
`Reservable`. `SetObjectToken` recovers a number from the token by one of three
ways, the last being to give up and follow the configuration utility. A name is
modelled as the pair it is put together from.

### HostLaunch

A client's `at` walks through `ensureConnected` and, in it, `launchServer`:
`open` → `first` (the probe before the launch mutex) → `wait` …, `Locked` being
the steps between `WaitForSingleObject` and `ReleaseMutex`. A probe
(`isServerRunning`) is two steps, because the handle it opens keeps the host's
mutex alive until it is closed. A host's `host` is its place in `main`:
`started` → `clear` and `fill` (`build_virtual_registry`) → `engine` → the loop;
`surplus` has found the mutex taken. `registry` is the set of hosts whose data
lies in the scratch keys. Clients and hosts may die at any step, time-outs may
expire at any moment, and hosts may be started by hand. `HostSlot` has the one
place that hosts compete for; `Slot` maps it to the process past the mutex test.

### WordMarkers

One step per token of a split, per character of the rewriting, with the phases
in the code's order: the original is split into `words`, the fixes (`clean`),
the pauses (`pause`), the split of the result. The fixes for all languages delete
spaces (`Drop`). Those for single languages (input `fixes`) may join words
(`Join`) and split them (`KeepAndInsert`) wherever the characters allow it, which
is more than the patterns do: what holds of the model holds of them, and `changed`
remembers where they did. A character is one of seven
classes together with its place in the original, which is how the properties
know the rewritten form of a word.

### ComServer

Every place that may hold a counted reference is a member of `Places`, so that
"counted" can be compared with "there": the application's pointers, the `impl_`
of `com::object` and the `ptr_` of `com::interface_ptr` on a thread's stack, and
the token of an engine. A call that makes an object is `Start`, `New`
(allocation), `Increment` (the counter), `Query` or `Fill` and `Hand` (handing
out), `DropLocal` and `DropImpl` (the destructors of the two smart pointers); it
may fail at each. The last `Release` leads to `Uncount`, `DropToken` (an engine
destroys the token it was the last to hold) and `Free`; `dying` is the stack of
objects a thread destroys. Registration is a list of entries, written and
deleted one by one and cut short anywhere.

## 3. What TLC checks

| Run | Instance | What it shows |
|---|---|---|
| `PipeSafety` | 2 processes, 3 threads (two share a client), 1 `--shutdown`, engine may fail, `p2` may die, 1 crash of the host, 1 call each | `Conversation`, `OwnChunksInOrder`, `NoStaleSynthesis` |
| `PipeService` | same threads, sound engine, no `--shutdown` process (one thread calls `shutdownServer`), fairness | implements `SpeechService`; `SuccessMeansComplete`; the three liveness properties |
| `SpeakCall` | 9 kinds of fragment, lists of up to 3, Configured Voice | `SpokenAsAsked`, `EventsFollowAudio`, `CompleteMeansAll`, `OwnPitch` |
| `EngineHandle` | 3 dialects (2 with dictionaries), 3 rates (1 not renderable), 2 variants, 3 handles | `MemoryIsTrue`, `NoDeadDictionary`, `LoadedMeansActive`, `RequestDecides` |
| `SettingsCache` | 2 threads of a process, 2 keys, 2 saves, 2 calls each, any writes in one tick | `StaleByOneTick`, `DatedCacheIsRecent` |
| `VoiceTokens` | 2 languages × 2 variants, 2 enumerators, 3 manifests or none, counts 0, 1, 2 and 7 | `EachVoiceOnce`, `OfferedVoiceIsItself` |
| `HostLaunch` | 2 clients and 2 host processes of one session, each of which may die and be started again; fairness | `OneHost`, `OwnRegistry`, `LaunchExclusive`; every call to connect ends (`CallsReturn`); implements `HostSlot` |
| `WordMarkers` | all 2801 texts of up to 4 characters and 5 longer ones, 2 × 2 settings, with and without fixes of the language | `TextOnce`, `AnnotationsWhole`, `MarkersFit` |
| `ComServer` | 2 threads, room for 4 objects, 3 pointers, 1 lock | `ReferencesCounted`, `UnloadableMeansUnused`, `ListedMeansUsable` |

Three runs have one property each, which a document or comment states and the
code does not keep (`PROJECT.json`, "findings", quotes them):

* `PipeBusy` – `IdlePeerMakesRoom`: a client keeps its connection between
  calls, and the host has one instance. While one application that has spoken
  is running, another cannot speak and the utility cannot preview. The run uses
  the code's eight attempts and full fairness: it is not a matter of waiting.
* `PipeNotRunning` – `NotRunningMeansNotServing`: `--shutdown` takes a busy pipe
  for a host that is not running.
* `SpeakPlain` – `PlainMeansOwnVoice`: a fragment that names no locale is spoken
  in the language an earlier one brought; for a named voice, the pitch after an
  adjustment is the utility's and not the voice's own. Either half of the
  property is violated by itself. `OwnPitch` holds for the Configured Voice.

Five more properties are stated in the modules because a document or comment
says so, and are false too. Each has a configuration of its own beside those of
the runs, with which TLC gives a counterexample
(`tlc -config PipeStaleAbort.cfg MCSpeechPipe`):

| Configuration | Module | Property | The text | What the code does |
|---|---|---|---|---|
| `PipeStaleAbort` | `MCSpeechPipe` | `HangsUpOnDeadConnections` | "connection is dead" (`src/outloud_host.cpp:541`) | `handle_client` reads `g_stream.aborted` (line 540) even when `handle_speak` returned before it cleared the flag (line 472). After an aborted utterance, a request that the host rejects makes it hang up on a client that is there. |
| `EngineLeftover` | `EngineHandle` | `NothingLeftOver` | "Engine state that persists between requests to avoid redundant switches." (`src/outloud_host.cpp:91`) | A language that an annotation brought (`src/ISpTTSEngineImpl.cpp:445`) is still in force when the next request comes, which skips the switch because `g_currentDialect` has not changed (line 411); spelling mode the host never sets. What its calls do set they set in time (`RequestDecides`). |
| `SettingsSameTick` | `MCSettingsCache` | `NextUtterance` | "changes … take effect on the very next utterance" (`src/settings.h:7`, and `README.md:30`) | Of two writes with the same time stamp a reload between them hides the second (`src/settings.cpp:149`), and a save makes sixteen writes in a row. `StaleByOneTick` says what is left of the promise. |
| `SpeakBroken` | `MCSpeakCall` | `OkMeansAll` | "payload: int32 status (0 = ok)" (`src/outloud_protocol.h:23`) | The client takes every END for success (`src/engine_client.cpp:279`), also that of an utterance the engine broke off or refused, and `Speak` returns `S_OK`. With status 0 all was spoken (`CompleteMeansAll`). |
| `MarkersDefault` | `MCWordMarkers` | `AccurateBoundaries` | "Accurate word boundaries" (`README.md:27`) | With the default `pauseMode` 2 (`src/settings.h:28`) `re- a` becomes ``re `p1- a``, three words for two (`src/text_preprocess.cpp:179`); the markers behind stand one word early. `MarkersFit` says up to which word markers are right. |

That the engine keeps what an annotation set until something else is set, which
`EngineLeftover` needs, is what `Speak` itself relies on from one segment to the
next.

Assumptions that passing runs make, and what TLC shows without them:

* *The engine does its work* (`SuccessMeansComplete` and the service it is part
  of, in `PipeService`). The client ignores the status of an END, so with
  `EngineMayFail = TRUE` success says nothing of the whole: see `SpeakBroken`
  above.
* *One session* (`HostLaunch`). With `Session <- TwoSessions` `OwnRegistry` is
  violated: mutexes are per session, the registry keys are per user, and the
  second session's host deletes the keys of the first.
* *Nothing before the marker changes the number of words* (`WordMarkers`,
  `Intact`). Three things do: a fix that joins or splits words; a pause before a
  word's last hyphen; and a user's annotation that grows (`AnnotationGrows`): the
  text `` ` ..a-`` loses its space before the dots (`text_preprocess.cpp:30`), so
  that the backquote and `..a` become one annotation and the word `a` is none any
  more. With any of the three left out of `Intact`, TLC finds a marker
  displaced; a marker before the first such place is right.
* *The enumerator's removal is not refused* (`ComServer`).
  `DllUnregisterServer` passes over a refusal and removes the classes; without
  `~stuck`, `ListedMeansUsable` is violated.

Two more observations, true of the code and of the models, that no property
forbids. A probe that has the host's mutex open at the moment a host starts
makes that host exit as surplus, although none runs; the launch then fails and
the next call launches again. And an unregistration cut short between a class's
deletions cannot be finished by a second one, which stops at the missing key;
registering again repairs it.

### Bounds, and why they are enough

* `MaxCalls`, `MaxCrashes`, `MaxSaves`, `MaxHandles`, `MaxFragments` bound
  counters only; no property mentions them. One call per thread and two threads
  on a client give two calls on one connection, one after an abort, an error or
  a retry of the other.
* `MaxTries` is 8 in the code; `PipeSafety` uses 2, the least that lets an attempt
  be repeated, and `PipeService` 1 to keep its liveness graph small. `PipeBusy`
  uses 8.
* `BufCap = 1` makes every second response block until the client reads, which is the hard
  case; an utterance has one audio chunk and one index reply.
* Three fragments are a change, a fragment that changes back or inherits, and
  one more; two keys are the least with a half-done save; three handles are a
  first, a recreation and another after a failure.
* `VoiceTokens` needs no bound on its behaviours. Two languages and two variants
  are the least for which division and remainder differ; five voices are passed
  by steps of 1 and 2 to the end and beyond, and 7 is more than `Reservable`.
* `HostLaunch` takes 3 attempts and 2 polls for the code's 8 and 50, the least
  with one that is neither the first nor the last. Two clients and two hosts
  are the least for which a mutex matters on either side; that a third changes
  nothing is what the proofs say.
* `WordMarkers`: four characters hold an annotation with a body and what follows it, two
  words with a separator, and punctuation that pauses at the end of the text or
  before a space. Five longer texts (`LongerTexts`) are those in which several
  fixes meet, an annotation grows, or a join leaves words behind it. All other lengths are left to the proofs,
  which cover every property of the run.
* `ComServer`: three pointers are a factory, what it makes and a token of it;
  four objects let two threads make one each beside them. The constraint
  `OneAtATime` (`MCComServer`) keeps the registry still while objects live: the
  two halves share only the guard of `GetClassObject`. The proofs need neither.
* Symmetry is used in `ComServer` (threads, objects and pointers) and in the two
  runs of `SettingsCache` (threads), where they are alike and all properties are
  invariants. Elsewhere runs check liveness, or the threads have different
  operations.
* Deadlock is checked in `VoiceTokens`, `HostLaunch` and `ComServer`. The others
  say `CHECK_DEADLOCK FALSE`: with the bounds used up, or the text at its end,
  everybody is done.

### Fairness

`FairSpec` assumes that a thread inside `EngineClient` keeps running, that the
host process keeps running (it is one thread that blocks only where its action's
guard says), and that a `--shutdown` whose answer is there reads it. Nobody has
to call, abort, exit, crash or start a `--shutdown`. Fairness is weak: the
actions of one thread stay enabled until one of them is taken, except connecting to a busy pipe,
where `PipeBusy` bounds the attempts. With `MaxTries = 1` a host that serves
somebody else makes a call fail rather than wait, which `EveryCallReturns`
allows, as the code does.

`HostLaunch!FairSpec` assumes the same of its processes: a client inside
`ensureConnected` and a host process keep running, and `CreateNamedPipe`
succeeds in the end. Nobody has to call, disconnect, start by hand, shut down or
die. A wait for the launch mutex ends because the code's time-out may expire.

## 4. What TLAPS proves

All for arbitrary constants that satisfy the modules' assumptions.

| Theorem | States | Argument |
|---|---|---|
| `SpeechPipeProofs!TypeCorrect` | `[]TypeOK` | inductive; lemmas for the shared operators (`Disconnect`, `BreakPipe`, `Reply`, `Receive`, `Return`, `RetryOrFail`), then one step per action |
| `SpeechPipeProofs!ConversationHolds` | `[]Conversation` | below |
| `SpeechPipeProofs!OwnChunks` | `[]OwnChunksInOrder` | a thread that reads is the one that waits, so the next response is its next chunk |
| `SpeechPipeProofs!NoStale` | `NoStaleSynthesis` | a request the host reads is that of a waiting call that has heard nothing |
| `SpeechPipeProofs!SuccessHolds` | `[]SuccessMeansComplete` | `Answered` below |
| `SpeechPipeProofs!ServiceImplemented` | `ServiceSpec`: the pipe implements `SpeechService` | initial states and every action map to a step or a stutter, from `Conversation` and `Answered` |
| `EngineHandleProofs!MemoryHolds` | `[](MemoryIsTrue /\ HandleWhenUsed)`: the memory is true, and no request goes on without a handle | `IInv` below |
| `EngineHandleProofs!TypeCorrect` | `[]TypeOK` | `IInv` |
| `EngineHandleProofs!DictionariesHold`, `LoadedActive` | `[]NoDeadDictionary`; `[]LoadedMeansActive` | `IInv` |
| `EngineHandleProofs!RequestsDecide` | `[]RequestDecides`, whatever annotations did to the handle before | `IInv` |
| `SettingsCacheProofs!TypeCorrect` | `[]TypeOK` | inductive |
| `SettingsCacheProofs!SettingsAreRecent`, `CachesAreRecent` | `[]StaleByOneTick` and `[]DatedCacheIsRecent`, with any writes in one tick | `IInv` below |
| `SpeakCallProofs!TypeCorrect`, `SpokenHolds` | `[]TypeOK`; `[]SpokenAsAsked`, for lists of fragments of every length | `IInv` below |
| `SpeakCallProofs!OwnPitchHolds` | `Configured => []OwnPitch`: with a named voice it is false, see `SpeakPlain` | `IInv` |
| `SpeakCallProofs!EventsHold`, `CompleteHolds` | `[]EventsFollowAudio`; `[]CompleteMeansAll`, however the call ends | `IInv` |
| `VoiceTokensProofs!Numbering` | every token but 0 has a language and a variant of the tables and is `Variants * language + variant + 1` | division with remainder |
| `VoiceTokensProofs!NameGivesToken` | `IndexOfName(NameOf(i)) = i`: the search by name finds the same token | names differ, by `Numbering` |
| `VoiceTokensProofs!OfferedInOrder` | the list the constructor builds is ascending and has the tokens the manifest offers, each once | below |
| `VoiceTokensProofs!TypeCorrect`, `EachVoiceHolds` | `[]TypeOK`; `[]EachVoiceOnce`, for any counts and failures | `IInv`: what was passed is the list up to the cursor, and the list is ascending |
| `VoiceTokensProofs!OfferedVoiceHolds` | `[]OfferedVoiceIsItself` | `IInv`: an engine has the token it was given or 0, by `NameGivesToken` |
| `HostLaunchProofs!TypeCorrect`, `LaunchHolds` | `[]TypeOK`; `[](LaunchExclusive /\ ProbesEnd)`: the launch mutex is owned by the client inside, and no probe's handle outlives the probe | inductive together |
| `HostLaunchProofs!OneHostHolds` | `[]OneHost`, for any number of sessions | inductive: `CreateMutex` finds the handle of any host past the test |
| `HostLaunchProofs!RegistryHolds` | in one session `[]OwnRegistry` | from `OneHost`, and that a host which fills the keys found them empty (`FilledAlone`) |
| `HostLaunchProofs!SlotImplemented` | in one session initial states and steps are those of `HostSlot` | from `OneHost`: the process that `Slot` chooses is the only one |
| `WordMarkersProofs!TypeCorrect`, `TextHolds` | `[]TypeOK`, `[]TextOnce` for texts of any length | with `Position`: what is flushed ends before the token being read |
| `WordMarkersProofs!AnnotationsHold` | `[]AnnotationsWhole` for texts of any length | below |
| `WordMarkersProofs!MarkersFitHolds` | `[]MarkersFit` for texts of any length: each marker up to the first change in the number of words | below |
| `ComServerProofs!TypeCorrect`, `ReferencesHold` | `[]TypeOK`, `[]ReferencesCounted` for any numbers of threads, objects and pointers | below |
| `ComServerProofs!UnloadableHolds` | `[]UnloadableMeansUnused` | `Counted`: the counter is the number of live objects and locks |
| `ComServerProofs!ListedHolds` | `[]ListedMeansUsable` | `Registration`: what has been written before, and a removal past its first key has hidden the enumerator |

**The conversation.** `OwnChunksInOrder` speaks of what was heard; to be
inductive it needs to know about what is still on its way. `Conversation` is
that strengthening, in five parts: the critical section is held by the thread
inside (`LockHeld`); handle and instance agree (`OneInstance`); unread responses
continue what the waiting thread has heard (`AnswersBelong`); an unread request
is the only one and nothing of its answer exists (`RequestsBelong`); the host's
stream is the rest of that answer (`StreamBelongs`). Each part has a lemma that
every action keeps it, which uses the parts before it. `TypeOK` and
`Conversation` together are inductive.

**What an answer means.** `Answered` adds what the end of a call tells:
a call under way has no outcome yet (`OutcomeOpen`), an unread command is what
its caller does (`CommandIsOp`), no response goes beyond its utterance
(`ChunksFit`), and an END follows the last chunk unless the engine may fail
(`EndsComplete`). With it
each action is a step of the abstract service: a delivery there is a response
read here, a return there is `Return` here, all else a stutter.

**The engine handle.** The host's memory is true only because every failure path
forgets. `RequestDecides` needs `Progress`, which says what each step of
`handle_speak` has already established, and `Known`, that a live handle has a
dialect. Annotations change what no memory is kept of, so that each request must
set it anew: the voice is, the language in force and the spelling are not
(`EngineLeftover`).

**The settings.** `DatedCacheIsRecent` needs to know that a date is never later
than the file's (`DatesAreOld`) and that a load which no new stamp has overtaken
has read values the file had under that stamp (`LoadIsDated`); `StaleByOneTick`
needs that a load in progress has read only values of its own call, and that
what the file has held under its stamp it held during the call or under the
stamp at its beginning (`SeenByCall`), and that one thread of a process loads at
a time (`LoaderOwnsLock`). Nothing is assumed of the time between two writes.

**One Speak.** Nothing is said before all is built, so the invariant describes
the list of segments (`Built`) and how far it has been played (`Streamed`). Of
the list it says where markers and texts lie (`Layout`: a word's marker is
followed by that word, texts and markers are in the order of their fragments);
what is in effect at each text (`Effects`: the last segment that sets a parameter
sets it as the fragment asks); and that the loop's variables are what the
engine will have heard by the end (`Remembered`), which is why a setting that
has not changed may be left out. One fragment's segments are joined to a list
that has all this by one lemma for each part. Played so far are the list's
texts and indices up to `pos`, in order and each once; the rest is counting.

**The voices.** That the list is built in order is an induction over the tables,
for which the library's theorems cannot be used (they take a predicate as
a parameter). The lemma `Induction` replaces them: a set of numbers that has 0
and the successor of each of its members has all of them. Were `m` missing,
subtracting 1 would map the missing numbers up to `m` one to one into those
before `m`, which are one fewer: no function does (pigeonhole).

**The launch.** All of it rests on who holds a handle of which mutex. With any
number of sessions the mutexes work per session; that the registry does not is
why `RegistryHolds` assumes `IsOneSession`.

**The text.** A cut annotation would need a boundary just after a backquote or
its body. Boundaries are ends of tokens, so the invariant says that what lies
before the token being read is not in the middle of an annotation, and that an
annotation token runs until the first character its body cannot have.

**The markers.** Each phase is described by the words that begin in its text:
the split lists the words of what it reads, in order (`Reading`, `Listed`). Up to
the first join or split, the fixes drop spaces before punctuation and at the end
only, so that up to there no two words become one (`Cleaning`, and the lemmas
from `Front` on). A pause is put before punctuation that ends at a space or the
end of the text, hence not within a word, but for the last hyphen of one
(`Shortening`, `Placed`). So as long as the text is `Intact` before a word, the
rewritten text has the words of the original before it, in the same order and
no others, and the k-th pairs with the k-th (`Paired`).

**The counts.** `ReferencesCounted` compares a number with a set of places; to be
inductive it needs to know which places a running call uses (`Frames`), that
the application's pointers and the engines' tokens are to live objects
(`Pointed`), that a call's target stays empty until it is filled (`Targets`),
and what the objects under destruction look like (`Deaths`). The lemmas
`Referred` and `Dropped` show once that a reference more or less keeps the
counts; each action then has a lemma of its own. Finite cardinalities come from
the library's theorems.

### Model-checked only

Liveness: `EveryCallReturns`, `DroppedConnectionIsReleased`, `ShutdownCompletes`
and `CallsReturn`, and the fairness that `SlotSpec` asks of `HostLaunch`. They
rest on weak fairness, hence on `ENABLED`, which the prover does not reason
about; `SlotImplemented` has the safety half of `SlotSpec`, stated as
initial states and steps. Every other property of a passing run is a theorem above.
The eight properties of section 3 that a text states and the code does not keep
are false, and TLC's counterexamples say why.

The hypotheses that theorems or their properties have (`~EngineMayFail` in
`SuccessMeansComplete`, `Configured`, `IsOneSession`) are those of the runs, and
section 3 says what happens without each.

## 5. What is left out

* *Client and host.* A message is read and written whole; sleeps and time-outs
  may end at any moment; payloads over 32 MB and running out of memory in the
  middle of a message; `OL_CMD_GET_LANGUAGES`, which no client sends. Of the
  voice parameters one stands for seven. Processes of `HostLaunch` run as one
  user: for another user's host `CreateFile` is refused, which is a failure like any
  other to the client. How `eci.ini` is copied into the registry, and the second
  scratch key, `VirtCU`: it is deleted and created next to `VirtLM` and stays empty.
* *Speak and texts.* `GetOutputFormat` (planned); in `SpeakCall` the text itself,
  the phrasing annotations and spaces, a text that `eciAddText` refuses, and the
  dictionary in force for a fragment in another language; in `WordMarkers` which
  words the fixes of a language touch (they may join and split anywhere), fixes
  that only change letters, or move or add a single space, spell mode, and what a
  `/` does after a pause.
* *Settings and voices.* Clamping, deletion of the file and reads that fail while
  another process writes; a second utility; the text of a token's attributes
  and the data key that holds them.
* *COM.* `DllMain`, which fills a list once, null arguments, aggregation, copies
  of `interface_ptr`, which nothing makes, string conversions, and the unloading
  after `DllCanUnloadNow` has said yes, which COM delays.
* *Parts without a module.* Logging, the dialog, the installer and the test
  programs: input and output without interleaving. The engine is proprietary
  and appears only as what the code expects of it.

## 6. Plan

Done, in this order: `SpeechService`, `SpeechPipe` and its proofs;
`EngineHandle` and its proofs; `SpeakCall`; `SettingsCache` and its proofs;
`VoiceTokens` and the proofs of its numbering; `HostSlot`, `HostLaunch` and their
proofs; `WordMarkers` and its proofs; `ComServer` and its proofs. Then the
proofs that had been left: the refinement of `SpeechService`, `SpeakCall`, the
enumerators, and the markers.

Next:

1. `GetOutputFormat` against `Speak` over `SettingsCache`, with what SAPI is
   known to ask and when.
2. The dictionary of a language that is followed by one without, or by a
   fragment in another language.
3. Liveness by hand-made ranking: that each step of a call lowers a measure can
   be proved without fairness, and leaves only the fairness argument to TLC.
