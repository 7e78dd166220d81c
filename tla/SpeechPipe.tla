------------------------------ MODULE SpeechPipe ------------------------------
(***************************************************************************)
(* The conversation between the speech clients and the engine host.        *)
(*                                                                         *)
(* Each client process (a SAPI application, OutloudConfig.exe, regsvr32)   *)
(* owns one EngineClient: one pipe handle and one critical section shared  *)
(* by the process's threads (src/engine_client.cpp).  The host             *)
(* (src/outloud_host.cpp) is single-threaded, creates ONE pipe instance at *)
(* a time and serves whoever opened it until that client closes its end.   *)
(* `outloud_host.exe --shutdown', run by setup, is a third kind of actor.  *)
(*                                                                         *)
(* Abstracted: a message is one record, although the code writes header    *)
(* and payload separately (a cut message only ever makes the reader fail,  *)
(* which a break before the message does too); the audio of an utterance   *)
(* is a sequence of numbered chunks; sleeps and the time-out of            *)
(* WaitNamedPipe are steps that may happen at any moment; launching the    *)
(* host (the two mutexes, CreateProcess, polling) is one step.  Left out:  *)
(* errors of CreateFile other than the two the code tells apart, the       *)
(* refusal of payloads over 32 MB, CreateNamedPipe failing, and            *)
(* OL_CMD_GET_LANGUAGES, which no client sends.                            *)
(***************************************************************************)
EXTENDS Naturals, Sequences, FiniteSets

CONSTANTS
  Processes,      \* client processes, each with one EngineClient
  Threads,        \* threads that call into the clients
  ProcessOf,      \* the process of each thread
  Ops,            \* which EngineClient operations each thread calls
  Installers,     \* runs of `outloud_host.exe --shutdown'
  Length,         \* number of chunks in the utterances of each thread
  IndexAt,        \* the chunk numbers that are index replies, not audio
  None,           \* no thread, no process
  MaxTries,       \* attempts of one ensureConnected: 8 in the code
  BufCap,         \* responses the pipe holds before a write blocks
  MayExit,        \* processes that may be killed or exit at any moment
  EngineMayFail,  \* the engine may fail to start, switch or synthesize
  MaxCalls,       \* bound: calls begun by each thread
  MaxCrashes      \* bound: crashes of the host

Peers == Processes \cup Installers

ASSUME PipeAssumption ==
  /\ ProcessOf \in [Threads -> Processes]
  /\ Ops \in [Threads -> SUBSET {"speak", "ping", "shutdown"}]
  /\ Processes \cap Installers = {}
  /\ Threads \cap Installers = {}
  /\ None \notin Threads \cup Peers
  /\ Length \in [Threads -> Nat]
  /\ IndexAt \subseteq Nat
  /\ MaxTries \in Nat \ {0}
  /\ BufCap \in Nat \ {0}
  /\ MayExit \subseteq Processes
  /\ EngineMayFail \in BOOLEAN
  /\ MaxCalls \in Nat
  /\ MaxCrashes \in Nat

VARIABLES
  pc,        \* where each thread is inside EngineClient
  op,        \* the operation it runs
  tries,     \* attempts of the current ensureConnected
  retried,   \* speak() is in its second connection
  calls,     \* number of calls each thread has begun
  heard,     \* chunks handed to the callbacks of the current call
  outcome,   \* how its last call returned
  lock,      \* owner of each process's critical section cs_
  pipe,      \* each peer's handle: pipe_
  inst,      \* the host's pipe instance
  peer,      \* who opened it
  toHost,    \* bytes written by the peer and not read by the host
  fromHost,  \* bytes written by the host and not read by each peer
  host,      \* where the host process is
  job,       \* the utterance in synthesis: g_stream
  sent,      \* chunks of it written
  aborted,   \* g_stream.aborted
  stopping,  \* g_shutdownRequested
  setup,     \* where each `--shutdown' run is
  crashes    \* bound

clientVars == <<pc, op, tries, retried, calls, heard, outcome, lock>>
wireVars   == <<pipe, inst, peer, toHost, fromHost>>
hostVars   == <<host, job, sent, aborted, stopping>>
vars == <<clientVars, wireVars, hostVars, setup, crashes>>

-----------------------------------------------------------------------------
(* Messages.  `by' and `call' say whose call a message belongs to.  They   *)
(* are not in the bytes: the client cannot tell, which is why the          *)
(* properties below have to.                                               *)

Request(t)     == [kind |-> op[t], by |-> t, call |-> calls[t]]
StopRequest(i) == [kind |-> "shutdown", by |-> i, call |-> 0]

ChunkKind(n) == IF n \in IndexAt THEN "index" ELSE "audio"

\* n numbers a chunk; of an END it is the status.
Response(k, req, n) == [kind |-> k, by |-> req.by, call |-> req.call, n |-> n]

IsChunk(m) == m.kind \in {"audio", "index"}

Requests == [kind : {"speak", "ping", "shutdown"},
             by : Threads \cup Installers, call : Nat]
Responses == [kind : {"audio", "index", "end", "error", "pong"},
              by : Threads \cup Installers, call : Nat, n : Nat]

ClientTypes ==
  /\ pc \in [Threads -> {"idle", "enter", "connect", "send", "read", "gone"}]
  /\ op \in [Threads -> {"speak", "ping", "shutdown"}]
  /\ tries \in [Threads -> 0..MaxTries]
  /\ retried \in [Threads -> BOOLEAN]
  /\ calls \in [Threads -> Nat]
  /\ heard \in [Threads -> Seq(Responses)]
  /\ outcome \in [Threads -> {"none", "ok", "aborted", "failed"}]
  /\ lock \in [Processes -> Threads \cup {None}]

WireTypes ==
  /\ pipe \in [Peers -> {"closed", "open", "broken"}]
  /\ inst \in {"none", "listening", "connected", "dropped"}
  /\ peer \in Peers \cup {None}
  /\ toHost \in Seq(Requests)
  /\ fromHost \in [Peers -> Seq(Responses)]

HostTypes ==
  /\ host \in {"down", "starting", "create", "accept", "serve", "stream",
               "hangup", "closing"}
  /\ job \in Requests \cup {None}
  /\ host = "stream" => job \in Requests
  /\ sent \in Nat
  /\ aborted \in BOOLEAN
  /\ stopping \in BOOLEAN

TypeOK ==
  /\ ClientTypes
  /\ WireTypes
  /\ HostTypes
  /\ setup \in [Installers -> {"idle", "asked", "notRunning", "done"}]
  /\ crashes \in Nat

Init ==
  /\ pc = [t \in Threads |-> "idle"]
  /\ op = [t \in Threads |-> "speak"]
  /\ tries = [t \in Threads |-> 0]
  /\ retried = [t \in Threads |-> FALSE]
  /\ calls = [t \in Threads |-> 0]
  /\ heard = [t \in Threads |-> <<>>]
  /\ outcome = [t \in Threads |-> "none"]
  /\ lock = [c \in Processes |-> None]
  /\ pipe = [c \in Peers |-> "closed"]
  /\ inst = "none"
  /\ peer = None
  /\ toHost = <<>>
  /\ fromHost = [c \in Peers |-> <<>>]
  /\ host = "down"
  /\ job = None
  /\ sent = 0
  /\ aborted = FALSE
  /\ stopping = FALSE
  /\ setup = [i \in Installers |-> "idle"]
  /\ crashes = 0

-----------------------------------------------------------------------------
(* The client: EngineClient                                                *)

\* A thread calls speak(), ping() or shutdownServer().
Begin(t) ==
  /\ pc[t] = "idle"
  /\ calls[t] < MaxCalls
  /\ \E o \in Ops[t] : op' = [op EXCEPT ![t] = o]
  /\ pc' = [pc EXCEPT ![t] = "enter"]
  /\ calls' = [calls EXCEPT ![t] = @ + 1]
  /\ heard' = [heard EXCEPT ![t] = <<>>]
  /\ outcome' = [outcome EXCEPT ![t] = "none"]
  /\ UNCHANGED <<tries, retried, lock, wireVars, hostVars, setup, crashes>>

\* Leave the operation, and with it the critical section and the locals.
Return(t, o) ==
  /\ pc' = [pc EXCEPT ![t] = "idle"]
  /\ lock' = [lock EXCEPT ![ProcessOf[t]] = None]
  /\ outcome' = [outcome EXCEPT ![t] = o]
  /\ tries' = [tries EXCEPT ![t] = 0]
  /\ retried' = [retried EXCEPT ![t] = FALSE]

\* Mutant of Enter: without the critical section.
EnterUnlocked(t) ==
  /\ pc[t] = "enter"
  /\ IF op[t] = "shutdown" /\ host = "down"
     THEN Return(t, "ok")
     ELSE /\ pc' = [pc EXCEPT ![t] = "connect"]
          /\ lock' = [lock EXCEPT ![ProcessOf[t]] = t]
          /\ UNCHANGED <<outcome, tries, retried>>
  /\ UNCHANGED <<op, calls, heard, wireVars, hostVars, setup, crashes>>

\* Lock lock(&cs_), then the first ensureConnected.  shutdownServer asks
\* isServerRunning first.
Enter(t) ==
  /\ pc[t] = "enter"
  /\ lock[ProcessOf[t]] = None
  /\ IF op[t] = "shutdown" /\ host = "down"
     THEN Return(t, "ok")
     ELSE /\ pc' = [pc EXCEPT ![t] = "connect"]
          /\ lock' = [lock EXCEPT ![ProcessOf[t]] = t]
          /\ UNCHANGED <<outcome, tries, retried>>
  /\ UNCHANGED <<op, calls, heard, wireVars, hostVars, setup, crashes>>

\* disconnect(): close the handle.  The host keeps what it has not read yet.
Disconnect(c) ==
  /\ pipe' = [pipe EXCEPT ![c] = "closed"]
  /\ fromHost' = [fromHost EXCEPT ![c] = <<>>]
  /\ inst' = IF pipe[c] = "open" THEN "dropped" ELSE inst
  /\ UNCHANGED <<peer, toHost>>

\* speak() tries one more connection; the other operations give up.
RetryOrFail(t) ==
  IF op[t] = "speak" /\ ~retried[t]
  THEN /\ retried' = [retried EXCEPT ![t] = TRUE]
       /\ tries' = [tries EXCEPT ![t] = 0]
       /\ pc' = [pc EXCEPT ![t] = "connect"]
       /\ UNCHANGED <<lock, outcome>>
  ELSE Return(t, "failed")

\* ensureConnected with a handle, or with a CreateFile that succeeds.
Connect(t) ==
  LET c == ProcessOf[t] IN
  /\ pc[t] = "connect"
  /\ \/ pipe[c] # "closed" /\ UNCHANGED wireVars
     \/ /\ pipe[c] = "closed"
        /\ tries[t] < MaxTries
        /\ inst = "listening"
        /\ inst' = "connected"
        /\ peer' = c
        /\ pipe' = [pipe EXCEPT ![c] = "open"]
        /\ UNCHANGED <<toHost, fromHost>>
  /\ pc' = [pc EXCEPT ![t] = "send"]
  /\ tries' = [tries EXCEPT ![t] = 0]
  /\ UNCHANGED <<op, retried, calls, heard, outcome, lock,
                 hostVars, setup, crashes>>

\* Mutant of NotFound: one attempt too many.
NotFoundOnceMore(t) ==
  /\ pc[t] = "connect"
  /\ pipe[ProcessOf[t]] = "closed"
  /\ tries[t] <= MaxTries
  /\ inst = "none"
  /\ tries' = [tries EXCEPT ![t] = @ + 1]
  /\ host' = IF tries[t] = 0 /\ host = "down" THEN "starting" ELSE host
  /\ UNCHANGED <<pc, op, retried, calls, heard, outcome, lock, wireVars,
                 job, sent, aborted, stopping, setup, crashes>>

\* ERROR_FILE_NOT_FOUND: only the first attempt launches a host.  "Running"
\* is the existence of the host's mutex, not of its pipe.
NotFound(t) ==
  /\ pc[t] = "connect"
  /\ pipe[ProcessOf[t]] = "closed"
  /\ tries[t] < MaxTries
  /\ inst = "none"
  /\ tries' = [tries EXCEPT ![t] = @ + 1]
  /\ host' = IF tries[t] = 0 /\ host = "down" THEN "starting" ELSE host
  /\ UNCHANGED <<pc, op, retried, calls, heard, outcome, lock, wireVars,
                 job, sent, aborted, stopping, setup, crashes>>

\* launchServer returned false: no process, or it did not come up in time.
LaunchFailed(t) ==
  /\ pc[t] = "connect"
  /\ pipe[ProcessOf[t]] = "closed"
  /\ tries[t] = 0
  /\ inst = "none"
  /\ host = "down"
  /\ host' \in {"down", "starting"}
  /\ RetryOrFail(t)
  /\ UNCHANGED <<op, calls, heard, wireVars, job, sent, aborted, stopping,
                 setup, crashes>>

\* Mutant of PipeBusy: waiting does not use up an attempt.
PipeBusyForever(t) ==
  /\ pc[t] = "connect"
  /\ pipe[ProcessOf[t]] = "closed"
  /\ tries[t] < MaxTries
  /\ inst \in {"connected", "dropped"}
  /\ UNCHANGED vars

\* ERROR_PIPE_BUSY, and WaitNamedPipe timed out or lost the race.
PipeBusy(t) ==
  /\ pc[t] = "connect"
  /\ pipe[ProcessOf[t]] = "closed"
  /\ tries[t] < MaxTries
  /\ inst \in {"connected", "dropped"}
  /\ tries' = [tries EXCEPT ![t] = @ + 1]
  /\ UNCHANGED <<pc, op, retried, calls, heard, outcome, lock, wireVars,
                 hostVars, setup, crashes>>

\* Every attempt is used up.
ConnectFailed(t) ==
  /\ pc[t] = "connect"
  /\ pipe[ProcessOf[t]] = "closed"
  /\ tries[t] = MaxTries
  /\ RetryOrFail(t)
  /\ UNCHANGED <<op, calls, heard, wireVars, hostVars, setup, crashes>>

\* sendMessage on a connection the host still holds.
Send(t) ==
  /\ pc[t] = "send"
  /\ pipe[ProcessOf[t]] = "open"
  /\ toHost' = Append(toHost, Request(t))
  /\ pc' = [pc EXCEPT ![t] = "read"]
  /\ UNCHANGED <<op, tries, retried, calls, heard, outcome, lock,
                 pipe, inst, peer, fromHost, hostVars, setup, crashes>>

\* sendMessage on a connection that broke meanwhile.  shutdownServer does
\* not look at the result and goes on to read.
SendFailed(t) ==
  /\ pc[t] = "send"
  /\ pipe[ProcessOf[t]] = "broken"
  /\ IF op[t] = "shutdown"
     THEN /\ pc' = [pc EXCEPT ![t] = "read"]
          /\ UNCHANGED <<tries, retried, lock, outcome, wireVars>>
     ELSE Disconnect(ProcessOf[t]) /\ RetryOrFail(t)
  /\ UNCHANGED <<op, calls, heard, hostVars, setup, crashes>>

-----------------------------------------------------------------------------
(* readMessage and what each operation does with the message               *)

Receive(c) ==
  /\ fromHost[c] # <<>>
  /\ fromHost' = [fromHost EXCEPT ![c] = Tail(@)]
  /\ UNCHANGED <<pipe, inst, peer, toHost>>

Reading(t, o) == pc[t] = "read" /\ op[t] = o /\ fromHost[ProcessOf[t]] # <<>>

Incoming(t) == Head(fromHost[ProcessOf[t]])

\* OL_RESP_AUDIO or OL_RESP_INDEX, handed to its callback.
Deliver(t) ==
  /\ Reading(t, "speak")
  /\ IsChunk(Incoming(t))
  /\ Receive(ProcessOf[t])
  /\ heard' = [heard EXCEPT ![t] = Append(@, Incoming(t))]
  /\ UNCHANGED <<pc, op, tries, retried, calls, outcome, lock,
                 hostVars, setup, crashes>>

\* Mutant of AbortSpeak: the connection is kept.
AbortKeepsConnection(t) ==
  /\ Reading(t, "speak")
  /\ Incoming(t).kind = "audio"
  /\ heard' = [heard EXCEPT ![t] = Append(@, Incoming(t))]
  /\ Receive(ProcessOf[t])
  /\ Return(t, "aborted")
  /\ UNCHANGED <<op, calls, hostVars, setup, crashes>>

\* OL_RESP_AUDIO, and the callback asks to abort: the connection is dropped.
AbortSpeak(t) ==
  /\ Reading(t, "speak")
  /\ Incoming(t).kind = "audio"
  /\ heard' = [heard EXCEPT ![t] = Append(@, Incoming(t))]
  /\ Disconnect(ProcessOf[t])
  /\ Return(t, "aborted")
  /\ UNCHANGED <<op, calls, hostVars, setup, crashes>>

\* OL_RESP_END, whatever its status, is success; OL_RESP_ERROR is failure.
\* The connection stays open in both cases.
EndSpeak(t) ==
  /\ Reading(t, "speak")
  /\ Incoming(t).kind \in {"end", "error"}
  /\ Receive(ProcessOf[t])
  /\ Return(t, IF Incoming(t).kind = "end" THEN "ok" ELSE "failed")
  /\ UNCHANGED <<op, calls, heard, hostVars, setup, crashes>>

ReadPing(t) ==
  /\ Reading(t, "ping")
  /\ IF Incoming(t).kind = "pong"
     THEN Receive(ProcessOf[t]) /\ Return(t, "ok")
     ELSE Disconnect(ProcessOf[t]) /\ Return(t, "failed")
  /\ UNCHANGED <<op, calls, heard, hostVars, setup, crashes>>

\* shutdownServer reads one message, any message, and drops the connection.
ReadShutdown(t) ==
  /\ Reading(t, "shutdown")
  /\ Disconnect(ProcessOf[t])
  /\ Return(t, "ok")
  /\ UNCHANGED <<op, calls, heard, hostVars, setup, crashes>>

\* Mutant of ReadFailed: speak() tries again after a failed read too.
RetryAfterReading(t) ==
  /\ pc[t] = "read"
  /\ pipe[ProcessOf[t]] = "broken"
  /\ fromHost[ProcessOf[t]] = <<>>
  /\ Disconnect(ProcessOf[t])
  /\ RetryOrFail(t)
  /\ UNCHANGED <<op, calls, heard, hostVars, setup, crashes>>

\* ReadFile fails: the host's end is gone and nothing is left to read.
ReadFailed(t) ==
  /\ pc[t] = "read"
  /\ pipe[ProcessOf[t]] = "broken"
  /\ fromHost[ProcessOf[t]] = <<>>
  /\ Disconnect(ProcessOf[t])
  /\ Return(t, IF op[t] = "shutdown" THEN "ok" ELSE "failed")
  /\ UNCHANGED <<op, calls, heard, hostVars, setup, crashes>>

\* The process ends: its handle is closed and its threads are no more.
Exit(c) ==
  /\ c \in MayExit
  /\ \E t \in Threads : ProcessOf[t] = c /\ pc[t] # "gone"
  /\ pc' = [t \in Threads |-> IF ProcessOf[t] = c THEN "gone" ELSE pc[t]]
  /\ lock' = [lock EXCEPT ![c] = None]
  /\ Disconnect(c)
  /\ UNCHANGED <<op, tries, retried, calls, heard, outcome, hostVars,
                 setup, crashes>>

-----------------------------------------------------------------------------
(* `outloud_host.exe --shutdown': request_shutdown                         *)

\* CreateFile succeeds, and the command is written at once.
AskShutdown(i) ==
  /\ setup[i] = "idle"
  /\ inst = "listening"
  /\ inst' = "connected"
  /\ peer' = i
  /\ pipe' = [pipe EXCEPT ![i] = "open"]
  /\ toHost' = <<StopRequest(i)>>
  /\ setup' = [setup EXCEPT ![i] = "asked"]
  /\ UNCHANGED <<clientVars, fromHost, hostVars, crashes>>

\* CreateFile fails, for whatever reason: "not running".
ReportNotRunning(i) ==
  /\ setup[i] = "idle"
  /\ inst # "listening"
  /\ setup' = [setup EXCEPT ![i] = "notRunning"]
  /\ UNCHANGED <<clientVars, wireVars, hostVars, crashes>>

\* ReadFile returns, with the answer or with an error; the handle is closed.
ShutdownAnswered(i) ==
  /\ setup[i] = "asked"
  /\ fromHost[i] # <<>> \/ pipe[i] = "broken"
  /\ Disconnect(i)
  /\ setup' = [setup EXCEPT ![i] = "done"]
  /\ UNCHANGED <<clientVars, hostVars, crashes>>

-----------------------------------------------------------------------------
(* The host: main and handle_client                                        *)

\* build_virtual_registry and init_engine, the mutex being held already.
Ready ==
  /\ host = "starting"
  /\ host' = "create"
  /\ UNCHANGED <<clientVars, wireVars, job, sent, aborted, stopping,
                 setup, crashes>>

InitFailed ==
  /\ EngineMayFail
  /\ host = "starting"
  /\ host' = "down"
  /\ UNCHANGED <<clientVars, wireVars, job, sent, aborted, stopping,
                 setup, crashes>>

\* CreateNamedPipe: clients can connect from here on.
CreatePipe ==
  /\ host = "create"
  /\ host' = "accept"
  /\ inst' = "listening"
  /\ UNCHANGED <<clientVars, pipe, peer, toHost, fromHost, job, sent, aborted,
                 stopping, setup, crashes>>

\* ConnectNamedPipe returns.  If the client came and left before the call it
\* fails (ERROR_NO_DATA) and handle_client is skipped; if it was blocked in the
\* call it succeeds, even for a client that has left meanwhile.
Accept ==
  /\ host = "accept"
  /\ inst # "listening"
  /\ \/ host' = "serve"
     \/ inst = "dropped" /\ host' = "hangup"
  /\ UNCHANGED <<clientVars, wireVars, job, sent, aborted, stopping,
                 setup, crashes>>

\* send_message: blocks while the pipe is full, fails once the peer has left.
Reply(m) ==
  \/ /\ inst = "connected"
     /\ Len(fromHost[peer]) < BufCap
     /\ fromHost' = [fromHost EXCEPT ![peer] = Append(@, m)]
  \/ /\ inst = "dropped"
     /\ UNCHANGED fromHost

\* handle_client reads the next command.
Command(k) == host = "serve" /\ toHost # <<>> /\ Head(toHost).kind = k

HandlePing ==
  /\ Command("ping")
  /\ toHost' = Tail(toHost)
  /\ Reply(Response("pong", Head(toHost), 0))
  /\ UNCHANGED <<clientVars, pipe, inst, peer, hostVars, setup, crashes>>

\* handle_speak up to eciSynthesize: the stream state is reset here, and only
\* here.
HandleSpeak ==
  /\ Command("speak")
  /\ toHost' = Tail(toHost)
  /\ host' = "stream"
  /\ job' = Head(toHost)
  /\ sent' = 0
  /\ aborted' = FALSE
  /\ UNCHANGED <<clientVars, pipe, inst, peer, fromHost, stopping,
                 setup, crashes>>

\* handle_speak returns early, before that reset: the handle cannot be
\* recreated or the language is not available.  handle_client then looks at
\* the flag the previous utterance left.
RejectSpeak ==
  /\ EngineMayFail
  /\ Command("speak")
  /\ toHost' = Tail(toHost)
  /\ Reply(Response("error", Head(toHost), 0))
  /\ host' = IF aborted THEN "hangup" ELSE "serve"
  /\ UNCHANGED <<clientVars, pipe, inst, peer, job, sent, aborted, stopping,
                 setup, crashes>>

HandleShutdown ==
  /\ Command("shutdown")
  /\ toHost' = Tail(toHost)
  /\ Reply(Response("end", Head(toHost), 0))
  /\ stopping' = TRUE
  /\ host' = "hangup"
  /\ UNCHANGED <<clientVars, pipe, inst, peer, job, sent, aborted,
                 setup, crashes>>

\* Mutant of PeerLeft: the failed read is tried again.
PeerLeftUnnoticed ==
  /\ host = "serve"
  /\ toHost = <<>>
  /\ inst = "dropped"
  /\ UNCHANGED vars

\* ReadFile fails: the client has closed its end and nothing is left to read.
PeerLeft ==
  /\ host = "serve"
  /\ toHost = <<>>
  /\ inst = "dropped"
  /\ host' = "hangup"
  /\ UNCHANGED <<clientVars, wireVars, job, sent, aborted, stopping,
                 setup, crashes>>

-----------------------------------------------------------------------------
(* Streaming: eci_callback and the end of handle_speak                     *)

\* eci_callback writes an audio buffer or an index.
EmitChunk ==
  /\ host = "stream"
  /\ sent < Length[job.by]
  /\ inst = "connected"
  /\ Reply(Response(ChunkKind(sent + 1), job, sent + 1))
  /\ sent' = sent + 1
  /\ UNCHANGED <<clientVars, pipe, inst, peer, toHost, host, job, aborted,
                 stopping, setup, crashes>>

\* eci_callback's write fails: synthesis is aborted, no END is sent and
\* handle_client returns.
EmitFailed ==
  /\ host = "stream"
  /\ sent < Length[job.by]
  /\ inst = "dropped"
  /\ aborted' = TRUE
  /\ host' = "hangup"
  /\ job' = None
  /\ sent' = 0
  /\ UNCHANGED <<clientVars, wireVars, stopping, setup, crashes>>

\* Mutant of FinishSpeak: END before the engine is done.
FinishEarly ==
  /\ host = "stream"
  /\ \E status \in {0, 1} :
       /\ status = 1 => EngineMayFail
       /\ Reply(Response("end", job, status))
  /\ host' = "serve"
  /\ job' = None
  /\ sent' = 0
  /\ UNCHANGED <<clientVars, pipe, inst, peer, toHost, aborted, stopping,
                 setup, crashes>>

\* eciSynchronize returned, or eciSynthesize or eciSynchronize failed
\* (status 1): END is sent.
FinishSpeak ==
  /\ host = "stream"
  /\ \E status \in {0, 1} :
       /\ IF status = 0 THEN sent = Length[job.by] ELSE EngineMayFail
       /\ Reply(Response("end", job, status))
  /\ host' = "serve"
  /\ job' = None
  /\ sent' = 0
  /\ UNCHANGED <<clientVars, pipe, inst, peer, toHost, aborted, stopping,
                 setup, crashes>>

-----------------------------------------------------------------------------
(* The end of a connection and of the host                                 *)

BreakPipe ==
  /\ pipe' = [c \in Peers |-> IF pipe[c] = "open" THEN "broken" ELSE pipe[c]]
  /\ inst' = "none"
  /\ peer' = None
  /\ toHost' = <<>>
  /\ UNCHANGED fromHost

\* Mutant of HangUp: main's loop does not look at g_shutdownRequested.
HangUpAndGoOn ==
  /\ host = "hangup"
  /\ inst = "connected" => fromHost[peer] = <<>>
  /\ BreakPipe
  /\ host' = "create"
  /\ UNCHANGED <<clientVars, job, sent, aborted, stopping, setup, crashes>>

\* FlushFileBuffers waits until the peer has read everything or left; then
\* DisconnectNamedPipe and CloseHandle.
HangUp ==
  /\ host = "hangup"
  /\ inst = "connected" => fromHost[peer] = <<>>
  /\ BreakPipe
  /\ host' = IF stopping THEN "closing" ELSE "create"
  /\ UNCHANGED <<clientVars, job, sent, aborted, stopping, setup, crashes>>

\* The process is over and a later one starts from fresh globals.
HostGone ==
  /\ host' = "down"
  /\ job' = None
  /\ sent' = 0
  /\ aborted' = FALSE
  /\ stopping' = FALSE
  /\ UNCHANGED <<clientVars, setup>>

\* eciDelete, ReleaseMutex, return from main.
Stop ==
  /\ host = "closing"
  /\ HostGone
  /\ UNCHANGED <<wireVars, crashes>>

\* The host dies; the bytes it had written can still be read.
Crash ==
  /\ host # "down"
  /\ crashes < MaxCrashes
  /\ crashes' = crashes + 1
  /\ HostGone
  /\ BreakPipe

-----------------------------------------------------------------------------
ClientStep(t) ==
  \/ Enter(t) \/ Connect(t) \/ NotFound(t) \/ LaunchFailed(t) \/ PipeBusy(t)
  \/ ConnectFailed(t) \/ Send(t) \/ SendFailed(t) \/ Deliver(t)
  \/ AbortSpeak(t) \/ EndSpeak(t) \/ ReadPing(t) \/ ReadShutdown(t)
  \/ ReadFailed(t)

InstallerStep(i) ==
  AskShutdown(i) \/ ReportNotRunning(i) \/ ShutdownAnswered(i)

HostStep ==
  \/ Ready \/ InitFailed \/ CreatePipe \/ Accept \/ HandlePing \/ HandleSpeak
  \/ RejectSpeak \/ HandleShutdown \/ PeerLeft \/ EmitChunk \/ EmitFailed
  \/ FinishSpeak \/ HangUp \/ Stop

Next ==
  \/ \E t \in Threads : Begin(t) \/ ClientStep(t)
  \/ \E i \in Installers : InstallerStep(i)
  \/ \E c \in Processes : Exit(c)
  \/ HostStep
  \/ Crash

Spec == Init /\ [][Next]_vars

\* A thread inside EngineClient, a pending read of `--shutdown' and the host
\* keep running.  Nobody has to call, exit, start a `--shutdown' or crash.
Fairness ==
  /\ \A t \in Threads : WF_vars(ClientStep(t))
  /\ \A i \in Installers : WF_vars(ShutdownAnswered(i))
  /\ WF_vars(HostStep)

FairSpec == Spec /\ Fairness

-----------------------------------------------------------------------------
(* Properties                                                              *)

\* What a thread has been given belongs to the call it is in, in the order of
\* synthesis, with no chunk missing or given twice: although responses carry
\* no call number and a connection outlives calls, aborts, errors and retries,
\* readMessage never returns what another call left in the pipe.
OwnChunksInOrder ==
  \A t \in Threads : \A i \in 1..Len(heard[t]) :
    heard[t][i] = [kind |-> ChunkKind(i), by |-> t, call |-> calls[t], n |-> i]

\* The strengthening that makes OwnChunksInOrder inductive.  A thread inside
\* the operation proper owns the process's critical section, and a call that
\* has not been sent has heard nothing.
LockHeld ==
  /\ \A t \in Threads :
       /\ pc[t] \in {"connect", "send", "read"} => lock[ProcessOf[t]] = t
       /\ pc[t] \in {"enter", "connect", "send"} => heard[t] = <<>>
  /\ \A c \in Processes : lock[c] \in Threads => ProcessOf[lock[c]] = c

\* The client's handle and the host's instance agree about who is connected,
\* and an instance exists exactly while the host is in its main loop.
OneInstance ==
  /\ \A c \in Peers : pipe[c] = "open" <=> inst = "connected" /\ peer = c
  /\ inst \in {"connected", "dropped"} => peer \in Peers
  /\ host \in {"down", "starting", "create", "closing"} => inst = "none"
  /\ host = "accept" => inst # "none"
  /\ host \in {"serve", "stream", "hangup"} => inst \in {"connected", "dropped"}
  /\ toHost # <<>> => inst \in {"connected", "dropped"}

\* Thread t is the one that waits for the answers of process c.
Waits(t, c) == t \in Threads /\ ProcessOf[t] = c /\ lock[c] = t /\ pc[t] = "read"

\* The messages q continue the answer to call k of thread r after its first
\* h chunks; only the last of them ends it.
IsAnswer(q, r, k, h) ==
  \A i \in 1..Len(q) :
    /\ q[i].by = r /\ q[i].call = k
    /\ IsChunk(q[i]) => q[i].n = h + i /\ q[i].kind = ChunkKind(q[i].n)
    /\ ~IsChunk(q[i]) => i = Len(q)

\* Unread responses continue what the waiting call has heard.
AnswersBelong ==
  \A c \in Processes : fromHost[c] # <<>> =>
    /\ Waits(lock[c], c)
    /\ IsAnswer(fromHost[c], lock[c], calls[lock[c]], Len(heard[lock[c]]))

\* An unread request is the only one, nothing of its answer exists yet, and
\* its caller waits, or is gone with its process.
RequestsBelong ==
  toHost # <<>> =>
    LET q == toHost[1] IN
    /\ Len(toHost) = 1
    /\ q.kind = "speak" => q.by \in Threads /\ ProcessOf[q.by] = peer
    /\ inst = "dropped" /\ q.kind = "speak" => pc[q.by] = "gone"
    /\ inst = "connected" /\ peer \in Processes =>
         /\ Waits(q.by, peer)
         /\ q.call = calls[q.by]
         /\ heard[q.by] = <<>>
         /\ fromHost[peer] = <<>>

\* What the host synthesizes for a connected client is the rest of the call
\* that client waits for.
StreamBelongs ==
  host = "stream" =>
    /\ job.by \in Threads /\ ProcessOf[job.by] = peer
    /\ inst = "connected" =>
         /\ Waits(job.by, peer)
         /\ job.call = calls[job.by]
         /\ toHost = <<>>
         /\ sent = Len(heard[job.by]) + Len(fromHost[peer])
         /\ \A i \in 1..Len(fromHost[peer]) : IsChunk(fromHost[peer][i])

\* The conversation on the wire: at any moment at most one call of one process
\* is being answered, and everything in the pipe is part of that answer.
Conversation ==
  LockHeld /\ OneInstance /\ AnswersBelong /\ RequestsBelong /\ StreamBelongs

\* speak() without an abort reports success only when every chunk was given
\* to the callbacks (the END the client accepts follows them all), provided
\* the engine does its work.
SuccessMeansComplete ==
  \A t \in Threads :
    outcome[t] = "ok" /\ op[t] = "speak" /\ ~EngineMayFail
      => Len(heard[t]) = Length[t]

\* handle_speak starts the engine only for a call that is still waiting and
\* has heard nothing (or whose process is gone): the retry of speak() never
\* makes the host speak an utterance twice, and a request that outlives its
\* caller in the pipe is never spoken to somebody else.
NoStaleSynthesis ==
  [][host # "stream" /\ host' = "stream" =>
       \/ pc[job'.by] = "gone"
       \/ /\ pc[job'.by] = "read"
          /\ job'.call = calls[job'.by]
          /\ heard[job'.by] = <<>>
          /\ peer = ProcessOf[job'.by]]_vars

\* "return; // connection is dead" (src/outloud_host.cpp:541): handle_client
\* gives a connection up only when the client has left or asked for a shutdown.
\* False: after a request that handle_speak rejects, it reads the g_stream.aborted
\* that an older utterance, of another connection, has left.
HangsUpOnDeadConnections ==
  [][inst = "connected" /\ inst' = "none" => stopping \/ host' = "down"]_vars

\* The host waits for a command of a client that is in no call.
IdlePeerHoldsPipe ==
  /\ host = "serve"
  /\ inst = "connected"
  /\ toHost = <<>>
  /\ \A t \in Threads : ProcessOf[t] = peer => pc[t] = "idle"

\* "The Preview button speaks a sample through the shared Outloud host so
\* adjustments are audible at once" (src/config/OutloudConfig.cpp:6): when a
\* process tries to connect while the host only waits for a client that has
\* nothing to say, the pipe does not stay with that client for ever.
IdlePeerMakesRoom ==
  \A t \in Threads : pc[t] = "connect" /\ IdlePeerHoldsPipe ~> ~IdlePeerHoldsPipe

\* `outloud_host.exe --shutdown' never reports "not running"
\* (src/outloud_host.cpp:563) while the host is serving a client.
NotRunningMeansNotServing ==
  [][\A i \in Installers :
       setup[i] = "idle" /\ setup'[i] = "notRunning"
         => host \notin {"serve", "stream"}]_vars

\* Every call into EngineClient comes back, whatever the host, the installer
\* and the other clients do.
EveryCallReturns ==
  \A t \in Threads : pc[t] = "enter" ~> pc[t] \in {"idle", "gone"}

\* "the connection is dropped; the host stops" (src/engine_client.h:15): once
\* a client has closed its end, in the middle of an utterance or not, the host
\* notices and offers the pipe to the next client, or ends.
DroppedConnectionIsReleased == inst = "dropped" ~> inst # "dropped"

\* A host that accepted OL_CMD_SHUTDOWN terminates.
ShutdownCompletes == stopping ~> host = "down"

\* The clients' view of the system is SpeechService's.
Service == INSTANCE SpeechService
  WITH active <- [t \in Threads |-> pc[t] \notin {"idle", "gone"}]

ServiceSpec == Service!Spec
=============================================================================
