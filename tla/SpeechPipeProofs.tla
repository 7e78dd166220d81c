--------------------------- MODULE SpeechPipeProofs ---------------------------
(* Proofs about SpeechPipe, for any number of processes, threads and runs  *)
(* of `--shutdown', any utterance lengths and any bounds: the types, the   *)
(* conversation on the wire (one lemma per conjunct of Conversation, one   *)
(* step per action), and what follows from it for the callbacks, the       *)
(* host's synthesis, the success of a call, and the service as a whole.    *)
EXTENDS SpeechPipe, TLAPS, SequenceTheorems

-----------------------------------------------------------------------------
(* Type correctness                                                        *)

\* The process of a thread is a process and a peer of the host.
LEMMA ProcessType ==
  ASSUME NEW t \in Threads
  PROVE  ProcessOf[t] \in Processes /\ ProcessOf[t] \in Peers
BY PipeAssumption DEF Peers

\* A response the host builds from a request it has read is a response.
LEMMA ResponseType ==
  ASSUME NEW k \in {"audio", "index", "end", "error", "pong"},
         NEW q \in Requests, NEW n \in Nat
  PROVE  Response(k, q, n) \in Responses
BY DEF Response, Requests, Responses

\* What send_message does to the pipe keeps its type.
LEMMA ReplyType ==
  ASSUME fromHost \in [Peers -> Seq(Responses)], NEW m \in Responses, Reply(m)
  PROVE  fromHost' \in [Peers -> Seq(Responses)]
<1>1. CASE peer \in Peers
  <2>1. Append(fromHost[peer], m) \in Seq(Responses)
    BY <1>1
  <2>2. QED
    BY <1>1, <2>1 DEF Reply
<1>2. CASE peer \notin Peers
  BY <1>2 DEF Reply
<1>3. QED
  BY <1>1, <1>2

\* Closing a handle keeps the types of the wire.
LEMMA DisconnectTypes ==
  ASSUME WireTypes, NEW c \in Peers, Disconnect(c)
  PROVE  WireTypes'
BY DEF WireTypes, Disconnect

\* The host's end going away keeps the types of the wire.
LEMMA BreakTypes ==
  ASSUME WireTypes, BreakPipe
  PROVE  WireTypes'
BY DEF WireTypes, BreakPipe

\* Reading a response keeps the types of the wire, and the response has one.
LEMMA ReceiveTypes ==
  ASSUME WireTypes, NEW c \in Peers, Receive(c)
  PROVE  WireTypes' /\ Head(fromHost[c]) \in Responses
<1>1. /\ Tail(fromHost[c]) \in Seq(Responses)
      /\ Head(fromHost[c]) \in Responses
  BY DEF WireTypes, Receive
<1>2. QED
  BY <1>1 DEF WireTypes, Receive

\* What a returning operation and a retry do to the client's variables.
LEMMA ReturnTypes ==
  ASSUME ClientTypes, NEW t \in Threads,
         NEW o \in {"ok", "aborted", "failed"}, Return(t, o),
         op' = op, calls' = calls, heard' \in [Threads -> Seq(Responses)]
  PROVE  ClientTypes'
<1>1. 0 \in 0..MaxTries
  BY PipeAssumption
<1>2. tries' \in [Threads -> 0..MaxTries] /\ retried' \in [Threads -> BOOLEAN]
  BY <1>1 DEF ClientTypes, Return
<1>3. lock' \in [Processes -> Threads \cup {None}]
  BY ProcessType DEF ClientTypes, Return
<1>4. /\ pc' \in [Threads -> {"idle", "enter", "connect", "send", "read", "gone"}]
      /\ outcome' \in [Threads -> {"none", "ok", "aborted", "failed"}]
  BY DEF ClientTypes, Return
<1>5. QED
  BY <1>2, <1>3, <1>4 DEF ClientTypes

LEMMA RetryTypes ==
  ASSUME ClientTypes, NEW t \in Threads, RetryOrFail(t),
         op' = op, calls' = calls, heard' = heard
  PROVE  ClientTypes'
<1>1. CASE op[t] = "speak" /\ ~retried[t]
  <2>1. 0 \in 0..MaxTries
    BY PipeAssumption
  <2>2. /\ tries' \in [Threads -> 0..MaxTries]
        /\ retried' \in [Threads -> BOOLEAN]
        /\ pc' \in [Threads -> {"idle", "enter", "connect", "send", "read", "gone"}]
    BY <1>1, <2>1 DEF ClientTypes, RetryOrFail
  <2>3. QED
    BY <1>1, <2>2 DEF ClientTypes, RetryOrFail
<1>2. CASE ~(op[t] = "speak" /\ ~retried[t])
  <2>1. Return(t, "failed")
    BY <1>2 DEF RetryOrFail
  <2>2. heard' \in [Threads -> Seq(Responses)]
    BY DEF ClientTypes
  <2>3. QED
    BY <2>1, <2>2, ReturnTypes
<1>3. QED
  BY <1>1, <1>2

\* Every step of a thread inside EngineClient keeps the client's types.
LEMMA ClientStepTypes ==
  ASSUME TypeOK, NEW t \in Threads, Begin(t) \/ ClientStep(t)
  PROVE  ClientTypes' /\ WireTypes'
<1> DEFINE c == ProcessOf[t]
<1>0. c \in Processes /\ c \in Peers /\ ClientTypes /\ WireTypes
  BY ProcessType DEF TypeOK
<1>a. heard \in [Threads -> Seq(Responses)]
  BY <1>0 DEF ClientTypes
<1>b. ASSUME UNCHANGED wireVars
      PROVE  WireTypes'
  BY <1>0, <1>b DEF WireTypes, wireVars
<1>1. CASE Begin(t)
  <2>1. op' \in [Threads -> {"speak", "ping", "shutdown"}]
    <3>1. PICK o \in Ops[t] : op' = [op EXCEPT ![t] = o]
      BY <1>1 DEF Begin
    <3>2. o \in {"speak", "ping", "shutdown"}
      BY PipeAssumption
    <3>3. QED
      BY <1>0, <3>1, <3>2 DEF ClientTypes
  <2>2. heard' \in [Threads -> Seq(Responses)]
    BY <1>a, <1>1 DEF Begin
  <2>3. ClientTypes'
    BY <1>0, <1>1, <2>1, <2>2 DEF Begin, ClientTypes
  <2>4. QED
    BY <1>b, <1>1, <2>3 DEF Begin
<1>2. CASE Enter(t)
  <2>0. WireTypes'
    BY <1>b, <1>2 DEF Enter
  <2>1. CASE op[t] = "shutdown" /\ host = "down"
    <3>1. Return(t, "ok") /\ UNCHANGED <<op, calls, heard>>
      BY <1>2, <2>1 DEF Enter
    <3>2. QED
      BY <1>0, <1>a, <2>0, <3>1, ReturnTypes
  <2>2. CASE ~(op[t] = "shutdown" /\ host = "down")
    <3>1. /\ pc' = [pc EXCEPT ![t] = "connect"]
          /\ lock' = [lock EXCEPT ![c] = t]
          /\ UNCHANGED <<op, tries, retried, calls, heard, outcome>>
      BY <1>2, <2>2 DEF Enter
    <3>2. /\ pc' \in [Threads -> {"idle", "enter", "connect", "send", "read", "gone"}]
          /\ lock' \in [Processes -> Threads \cup {None}]
      BY <1>0, <3>1 DEF ClientTypes
    <3>3. QED
      BY <1>0, <2>0, <3>1, <3>2 DEF ClientTypes
  <2>3. QED
    BY <2>1, <2>2
<1>3. CASE Connect(t)
  <2>1. 0 \in 0..MaxTries
    BY PipeAssumption
  <2>2. ClientTypes'
    BY <1>0, <1>3, <2>1 DEF Connect, ClientTypes
  <2>3. CASE UNCHANGED wireVars
    BY <1>b, <2>2, <2>3
  <2>4. CASE pipe[c] = "closed"
    <3>1. pipe' \in [Peers -> {"closed", "open", "broken"}]
      BY <1>0, <1>3, <2>4 DEF Connect, WireTypes
    <3>2. /\ peer' = c /\ inst' = "connected"
          /\ toHost' = toHost /\ fromHost' = fromHost
      BY <1>3, <2>4 DEF Connect
    <3>3. QED
      BY <1>0, <2>2, <3>1, <3>2 DEF WireTypes
  <2>5. QED
    BY <1>3, <2>3, <2>4 DEF Connect
<1>4. CASE NotFound(t) \/ PipeBusy(t)
  <2>1. tries' = [tries EXCEPT ![t] = @ + 1] /\ tries[t] + 1 \in 0..MaxTries
    BY <1>0, <1>4, PipeAssumption DEF NotFound, PipeBusy, ClientTypes
  <2>2. ClientTypes'
    BY <1>0, <1>4, <2>1 DEF NotFound, PipeBusy, ClientTypes
  <2>3. QED
    BY <1>b, <1>4, <2>2 DEF NotFound, PipeBusy
<1>5. CASE LaunchFailed(t) \/ ConnectFailed(t)
  <2>1. ClientTypes'
    BY <1>0, <1>5, RetryTypes DEF LaunchFailed, ConnectFailed
  <2>2. QED
    BY <1>b, <1>5, <2>1 DEF LaunchFailed, ConnectFailed
<1>6. CASE Send(t)
  <2>1. Request(t) \in Requests
    BY <1>0 DEF Request, Requests, ClientTypes
  <2>2. WireTypes'
    BY <1>0, <1>6, <2>1 DEF Send, WireTypes
  <2>3. ClientTypes'
    BY <1>0, <1>6 DEF Send, ClientTypes
  <2>4. QED
    BY <2>2, <2>3
<1>7. CASE SendFailed(t)
  <2>1. CASE op[t] = "shutdown"
    <3>1. ClientTypes'
      BY <1>0, <1>7, <2>1 DEF SendFailed, ClientTypes
    <3>2. QED
      BY <1>b, <1>7, <2>1, <3>1 DEF SendFailed
  <2>2. CASE op[t] # "shutdown"
    BY <1>0, <1>7, <2>2, DisconnectTypes, RetryTypes DEF SendFailed
  <2>3. QED
    BY <2>1, <2>2
<1>8. CASE Deliver(t)
  <2>1. WireTypes' /\ Incoming(t) \in Responses
    BY <1>0, <1>8, ReceiveTypes DEF Deliver, Incoming
  <2>2. heard' \in [Threads -> Seq(Responses)]
    BY <1>a, <1>8, <2>1 DEF Deliver
  <2>3. QED
    BY <1>0, <1>8, <2>1, <2>2 DEF Deliver, ClientTypes
<1>9. CASE AbortSpeak(t)
  <2>1. Incoming(t) \in Responses
    BY <1>0, <1>9 DEF AbortSpeak, Reading, Incoming, WireTypes
  <2>2. heard' \in [Threads -> Seq(Responses)]
    BY <1>a, <1>9, <2>1 DEF AbortSpeak
  <2>3. QED
    BY <1>0, <1>9, <2>2, ReturnTypes, DisconnectTypes DEF AbortSpeak
<1>10. CASE EndSpeak(t)
  <2>1. WireTypes'
    BY <1>0, <1>10, ReceiveTypes DEF EndSpeak
  <2>2. QED
    BY <1>0, <1>a, <1>10, <2>1, ReturnTypes DEF EndSpeak
<1>11. CASE ReadPing(t)
  <2>1. WireTypes'
    BY <1>0, <1>11, ReceiveTypes, DisconnectTypes DEF ReadPing
  <2>2. QED
    BY <1>0, <1>a, <1>11, <2>1, ReturnTypes DEF ReadPing
<1>12. CASE ReadShutdown(t) \/ ReadFailed(t)
  <2>1. WireTypes'
    BY <1>0, <1>12, DisconnectTypes DEF ReadShutdown, ReadFailed
  <2>2. QED
    BY <1>0, <1>a, <1>12, <2>1, ReturnTypes DEF ReadShutdown, ReadFailed
<1>13. QED
  BY <1>1, <1>2, <1>3, <1>4, <1>5, <1>6, <1>7, <1>8, <1>9, <1>10, <1>11, <1>12
  DEF ClientStep

\* Every step of the host keeps its types and those of the wire.
LEMMA HostStepTypes ==
  ASSUME TypeOK, HostStep \/ Crash
  PROVE  WireTypes' /\ HostTypes' /\ ClientTypes'
<1>0. ClientTypes /\ WireTypes /\ HostTypes
  BY DEF TypeOK
<1>a. ClientTypes'
  <2>1. UNCHANGED clientVars
    BY DEF HostStep, Crash, HostGone, Stop, Ready, InitFailed, CreatePipe,
           Accept, HandlePing, HandleSpeak, RejectSpeak, HandleShutdown,
           PeerLeft, EmitChunk, EmitFailed, FinishSpeak, HangUp
  <2>2. QED
    BY <1>0, <2>1 DEF ClientTypes, clientVars
<1>1. CASE Ready \/ InitFailed \/ Accept \/ PeerLeft
  BY <1>0, <1>a, <1>1 DEF Ready, InitFailed, Accept, PeerLeft, WireTypes,
                          HostTypes, wireVars
<1>2. CASE CreatePipe
  BY <1>0, <1>a, <1>2 DEF CreatePipe, WireTypes, HostTypes
<1>3. CASE HandlePing \/ HandleSpeak \/ RejectSpeak \/ HandleShutdown
  <2>1. Head(toHost) \in Requests /\ Tail(toHost) \in Seq(Requests)
    BY <1>0, <1>3 DEF WireTypes, HandlePing, HandleSpeak, RejectSpeak,
                      HandleShutdown, Command
  <2>2. \A k \in {"pong", "error", "end"} :
          Response(k, Head(toHost), 0) \in Responses
    BY <2>1, ResponseType
  <2>3. fromHost \in [Peers -> Seq(Responses)]
    BY <1>0 DEF WireTypes
  <2>4. fromHost' \in [Peers -> Seq(Responses)]
    BY <1>3, <2>2, <2>3, ReplyType
    DEF HandlePing, HandleSpeak, RejectSpeak, HandleShutdown
  <2>5. WireTypes'
    BY <1>0, <1>3, <2>1, <2>4
    DEF WireTypes, HandlePing, HandleSpeak, RejectSpeak, HandleShutdown
  <2>6. HostTypes'
    <3>1. CASE HandlePing
      BY <1>0, <3>1 DEF HostTypes, hostVars, HandlePing
    <3>2. CASE HandleSpeak
      BY <1>0, <2>1, <3>2 DEF HostTypes, HandleSpeak
    <3>3. CASE RejectSpeak
      BY <1>0, <3>3 DEF HostTypes, RejectSpeak
    <3>4. CASE HandleShutdown
      BY <1>0, <3>4 DEF HostTypes, HandleShutdown
    <3>5. QED
      BY <1>3, <3>1, <3>2, <3>3, <3>4
  <2>7. QED
    BY <1>a, <2>5, <2>6
<1>4. CASE EmitChunk \/ FinishSpeak
  <2>1. job \in Requests /\ sent \in Nat
    BY <1>0, <1>4 DEF HostTypes, EmitChunk, FinishSpeak
  <2>2. /\ Response(ChunkKind(sent + 1), job, sent + 1) \in Responses
        /\ \A status \in {0, 1} : Response("end", job, status) \in Responses
    BY <2>1, ResponseType DEF ChunkKind
  <2>3. fromHost \in [Peers -> Seq(Responses)]
    BY <1>0 DEF WireTypes
  <2>4. fromHost' \in [Peers -> Seq(Responses)]
    BY <1>4, <2>2, <2>3, ReplyType DEF EmitChunk, FinishSpeak
  <2>5. QED
    BY <1>0, <1>a, <1>4, <2>1, <2>4
    DEF WireTypes, HostTypes, EmitChunk, FinishSpeak
<1>5. CASE EmitFailed
  BY <1>0, <1>a, <1>5 DEF EmitFailed, WireTypes, HostTypes, wireVars
<1>6. CASE HangUp
  <2>1. WireTypes'
    BY <1>0, <1>6, BreakTypes DEF HangUp
  <2>2. HostTypes'
    BY <1>0, <1>6 DEF HangUp, HostTypes
  <2>3. QED
    BY <1>a, <2>1, <2>2
<1>7. CASE Stop \/ Crash
  <2>1. WireTypes'
    BY <1>0, <1>7, BreakTypes DEF Stop, Crash, WireTypes, wireVars
  <2>2. HostTypes'
    <3>1. HostGone
      BY <1>7 DEF Stop, Crash
    <3>2. QED
      BY <3>1 DEF HostGone, HostTypes
  <2>3. QED
    BY <1>a, <2>1, <2>2
<1>8. QED
  BY <1>1, <1>2, <1>3, <1>4, <1>5, <1>6, <1>7 DEF HostStep

\* The types of the pipe, the clients and the host are kept by every step.
THEOREM TypeCorrect == Spec => []TypeOK
<1>1. Init => TypeOK
  <2> SUFFICES ASSUME Init PROVE TypeOK
    OBVIOUS
  <2>1. 0 \in 0..MaxTries /\ <<>> \in Seq(Responses) /\ <<>> \in Seq(Requests)
    BY PipeAssumption
  <2>2. ClientTypes
    BY <2>1 DEF Init, ClientTypes
  <2>3. WireTypes
    BY <2>1 DEF Init, WireTypes
  <2>4. HostTypes
    BY DEF Init, HostTypes
  <2>5. QED
    BY <2>2, <2>3, <2>4 DEF Init, TypeOK
<1>2. TypeOK /\ [Next]_vars => TypeOK'
  <2> SUFFICES ASSUME TypeOK, [Next]_vars PROVE TypeOK'
    OBVIOUS
  <2>0. /\ ClientTypes /\ WireTypes /\ HostTypes
        /\ setup \in [Installers -> {"idle", "asked", "notRunning", "done"}]
        /\ crashes \in Nat
    BY DEF TypeOK
  <2>a. UNCHANGED hostVars => HostTypes'
    BY <2>0 DEF HostTypes, hostVars
  <2>b. UNCHANGED clientVars => ClientTypes'
    BY <2>0 DEF ClientTypes, clientVars
  <2>c. UNCHANGED wireVars => WireTypes'
    BY <2>0 DEF WireTypes, wireVars
  <2>1. ASSUME NEW t \in Threads, Begin(t) \/ ClientStep(t)
        PROVE  TypeOK'
    <3>1. ClientTypes' /\ WireTypes'
      BY <2>1, ClientStepTypes
    <3>2. HostTypes'
      <4>1. CASE NotFound(t) \/ LaunchFailed(t)
        BY <2>0, <4>1 DEF NotFound, LaunchFailed, HostTypes
      <4>2. CASE ~(NotFound(t) \/ LaunchFailed(t))
        BY <2>a, <2>1, <4>2
        DEF Begin, ClientStep, Enter, Connect, PipeBusy, ConnectFailed, Send,
            SendFailed, Deliver, AbortSpeak, EndSpeak, ReadPing, ReadShutdown,
            ReadFailed
      <4>3. QED
        BY <4>1, <4>2
    <3>3. UNCHANGED <<setup, crashes>>
      BY <2>1 DEF Begin, ClientStep, Enter, Connect, NotFound, LaunchFailed,
                  PipeBusy, ConnectFailed, Send, SendFailed, Deliver,
                  AbortSpeak, EndSpeak, ReadPing, ReadShutdown, ReadFailed
    <3>4. QED
      BY <2>0, <3>1, <3>2, <3>3 DEF TypeOK
  <2>2. ASSUME NEW i \in Installers, InstallerStep(i)
        PROVE  TypeOK'
    <3>1. i \in Peers /\ StopRequest(i) \in Requests
      BY DEF Peers, StopRequest, Requests
    <3>2. WireTypes'
      <4>1. CASE AskShutdown(i)
        BY <2>0, <3>1, <4>1 DEF AskShutdown, WireTypes
      <4>2. CASE ReportNotRunning(i)
        BY <2>c, <4>2 DEF ReportNotRunning
      <4>3. CASE ShutdownAnswered(i)
        BY <2>0, <3>1, <4>3, DisconnectTypes DEF ShutdownAnswered
      <4>4. QED
        BY <2>2, <4>1, <4>2, <4>3 DEF InstallerStep
    <3>3. /\ UNCHANGED <<clientVars, hostVars, crashes>>
          /\ setup' \in [Installers -> {"idle", "asked", "notRunning", "done"}]
      BY <2>0, <2>2
      DEF InstallerStep, AskShutdown, ReportNotRunning, ShutdownAnswered
    <3>4. QED
      BY <2>0, <2>a, <2>b, <3>2, <3>3 DEF TypeOK
  <2>3. ASSUME NEW c \in Processes, Exit(c)
        PROVE  TypeOK'
    <3>1. WireTypes'
      BY <2>0, <2>3, DisconnectTypes DEF Exit, Peers
    <3>2. ClientTypes'
      BY <2>0, <2>3 DEF Exit, ClientTypes
    <3>3. QED
      BY <2>0, <2>a, <2>3, <3>1, <3>2 DEF Exit, TypeOK
  <2>4. CASE HostStep \/ Crash
    <3>1. ClientTypes' /\ WireTypes' /\ HostTypes'
      BY <2>4, HostStepTypes
    <3>2. UNCHANGED setup /\ crashes' \in Nat
      BY <2>0, <2>4
      DEF HostStep, Crash, HostGone, Stop, Ready, InitFailed, CreatePipe,
          Accept, HandlePing, HandleSpeak, RejectSpeak, HandleShutdown,
          PeerLeft, EmitChunk, EmitFailed, FinishSpeak, HangUp
    <3>3. QED
      BY <2>0, <3>1, <3>2 DEF TypeOK
  <2>5. CASE UNCHANGED vars
    BY <2>0, <2>a, <2>b, <2>c, <2>5 DEF TypeOK, vars
  <2>6. QED
    BY <2>1, <2>2, <2>3, <2>4, <2>5 DEF Next
<1>3. QED
  BY <1>1, <1>2, PTL DEF Spec

-----------------------------------------------------------------------------
(* Sequences                                                               *)

LEMMA TailOfOne ==
  ASSUME NEW S, NEW s \in Seq(S), Len(s) = 1
  PROVE  Tail(s) = <<>>
<1>1. Tail(s) \in Seq(S) /\ Len(Tail(s)) = 0
  OBVIOUS
<1>2. QED
  BY <1>1, EmptySeq

LEMMA NonEmpty ==
  ASSUME NEW S, NEW s \in Seq(S), s # <<>>
  PROVE  Len(s) \in Nat \ {0} /\ Head(s) = s[1] /\ Len(Tail(s)) = Len(s) - 1
OBVIOUS

LEMMA TailElement ==
  ASSUME NEW S, NEW s \in Seq(S), s # <<>>, NEW i \in 1..Len(Tail(s))
  PROVE  Tail(s)[i] = s[i + 1] /\ i + 1 \in 1..Len(s)
OBVIOUS

-----------------------------------------------------------------------------
(* LockHeld                                                                *)

\* Leaving an operation keeps LockHeld: the thread held the lock, or nobody
\* did.
LEMMA ReturnKeepsLock ==
  ASSUME TypeOK, LockHeld, NEW t \in Threads, NEW o, Return(t, o),
         lock[ProcessOf[t]] \in {t, None},
         \A u \in Threads : u # t => heard'[u] = heard[u]
  PROVE  LockHeld'
<1> USE ProcessType DEF TypeOK, ClientTypes
<1>1. ASSUME NEW u \in Threads
      PROVE  /\ pc'[u] \in {"connect", "send", "read"} => lock'[ProcessOf[u]] = u
             /\ pc'[u] \in {"enter", "connect", "send"} => heard'[u] = <<>>
  <2>1. CASE u = t
    BY <2>1 DEF Return
  <2>2. CASE u # t
    BY <2>2, PipeAssumption DEF Return, LockHeld
  <2>3. QED
    BY <2>1, <2>2
<1>2. ASSUME NEW c \in Processes, lock'[c] \in Threads
      PROVE  ProcessOf[lock'[c]] = c
  BY <1>2, PipeAssumption DEF Return, LockHeld
<1>3. QED
  BY <1>1, <1>2 DEF LockHeld

\* So does trying again, from a state in which nothing has been heard.
LEMMA RetryKeepsLock ==
  ASSUME TypeOK, LockHeld, NEW t \in Threads, RetryOrFail(t),
         pc[t] \in {"connect", "send"}, heard' = heard
  PROVE  LockHeld'
<1>1. lock[ProcessOf[t]] = t
  BY DEF LockHeld
<1>2. CASE op[t] = "speak" /\ ~retried[t]
  BY <1>1, <1>2 DEF RetryOrFail, LockHeld, TypeOK, ClientTypes
<1>3. CASE ~(op[t] = "speak" /\ ~retried[t])
  BY <1>1, <1>3, ReturnKeepsLock DEF RetryOrFail
<1>4. QED
  BY <1>2, <1>3

\* The critical section is held throughout an operation, and a call hears
\* nothing before it is sent: kept by every step.
LEMMA LockHeldStep ==
  ASSUME TypeOK, LockHeld, Next
  PROVE  LockHeld'
<1>0. ClientTypes
  BY DEF TypeOK
<1>1. ASSUME UNCHANGED <<pc, heard, lock>>
      PROVE  LockHeld'
  BY <1>1 DEF LockHeld
<1>2. ASSUME NEW t \in Threads, Begin(t)
      PROVE  LockHeld'
  BY <1>0, <1>2 DEF Begin, LockHeld, ClientTypes
<1>3. ASSUME NEW t \in Threads, ClientStep(t)
      PROVE  LockHeld'
  <2>1. CASE Enter(t)
    <3>1. CASE op[t] = "shutdown" /\ host = "down"
      BY <2>1, <3>1, ReturnKeepsLock DEF Enter
    <3>2. CASE ~(op[t] = "shutdown" /\ host = "down")
      <4>1. /\ pc' = [pc EXCEPT ![t] = "connect"]
            /\ lock' = [lock EXCEPT ![ProcessOf[t]] = t]
            /\ heard' = heard /\ pc[t] = "enter" /\ lock[ProcessOf[t]] = None
        BY <2>1, <3>2 DEF Enter
      <4>2. QED
        BY <1>0, <4>1, ProcessType, PipeAssumption DEF LockHeld, ClientTypes
    <3>3. QED
      BY <3>1, <3>2
  <2>2. CASE Connect(t) \/ Send(t)
    BY <1>0, <2>2 DEF Connect, Send, LockHeld, ClientTypes
  <2>3. CASE NotFound(t) \/ PipeBusy(t)
    BY <1>1, <2>3 DEF NotFound, PipeBusy
  <2>4. CASE LaunchFailed(t) \/ ConnectFailed(t)
    BY <2>4, RetryKeepsLock DEF LaunchFailed, ConnectFailed
  <2>5. CASE SendFailed(t)
    <3>1. CASE op[t] = "shutdown"
      BY <1>0, <2>5, <3>1 DEF SendFailed, LockHeld, ClientTypes
    <3>2. CASE op[t] # "shutdown"
      BY <2>5, <3>2, RetryKeepsLock DEF SendFailed
    <3>3. QED
      BY <3>1, <3>2
  <2>6. CASE Deliver(t)
    BY <1>0, <2>6 DEF Deliver, Reading, LockHeld, ClientTypes
  <2>7. ASSUME AbortSpeak(t) \/ EndSpeak(t) \/ ReadPing(t) \/ ReadShutdown(t)
               \/ ReadFailed(t)
        PROVE  LockHeld'
    <3>1. pc[t] = "read" /\ \E o : Return(t, o)
      BY <2>7 DEF AbortSpeak, EndSpeak, ReadPing, ReadShutdown, ReadFailed,
                  Reading
    <3>2. \A u \in Threads : u # t => heard'[u] = heard[u]
      BY <1>0, <2>7 DEF AbortSpeak, EndSpeak, ReadPing, ReadShutdown,
                        ReadFailed, ClientTypes
    <3>3. lock[ProcessOf[t]] = t
      BY <3>1 DEF LockHeld
    <3>4. QED
      BY <3>1, <3>2, <3>3, ReturnKeepsLock
  <2>8. QED
    BY <1>3, <2>1, <2>2, <2>3, <2>4, <2>5, <2>6, <2>7 DEF ClientStep
<1>4. ASSUME NEW c \in Processes, Exit(c)
      PROVE  LockHeld'
  BY <1>0, <1>4, ProcessType, PipeAssumption DEF Exit, LockHeld, ClientTypes
<1>5. ASSUME \/ \E i \in Installers : InstallerStep(i)
             \/ HostStep
             \/ Crash
      PROVE  LockHeld'
  <2>1. UNCHANGED clientVars
    BY <1>5 DEF InstallerStep, AskShutdown, ReportNotRunning,
                ShutdownAnswered, HostStep, Crash, HostGone, Stop, Ready,
                InitFailed, CreatePipe, Accept, HandlePing, HandleSpeak,
                RejectSpeak, HandleShutdown, PeerLeft, EmitChunk, EmitFailed,
                FinishSpeak, HangUp
  <2>2. QED
    BY <1>1, <2>1 DEF clientVars
<1>6. QED
  BY <1>2, <1>3, <1>4, <1>5 DEF Next

-----------------------------------------------------------------------------
(* OneInstance                                                             *)

\* Closing a handle leaves at most a dropped instance behind.
LEMMA DisconnectKeepsInstance ==
  ASSUME TypeOK, OneInstance, NEW c \in Peers, Disconnect(c), host' = host
  PROVE  OneInstance'
BY DEF TypeOK, WireTypes, OneInstance, Disconnect

\* Handles and instance agree: kept by every step.
LEMMA OneInstanceStep ==
  ASSUME TypeOK, OneInstance, Next
  PROVE  OneInstance'
<1>0. WireTypes
  BY DEF TypeOK
<1>1. ASSUME UNCHANGED wireVars, host' = host \/ (host = "down" /\ host' = "starting")
      PROVE  OneInstance'
  BY <1>1 DEF OneInstance, wireVars
<1>2. ASSUME NEW t \in Threads, Begin(t) \/ ClientStep(t)
      PROVE  OneInstance'
  <2>1. ProcessOf[t] \in Peers
    BY ProcessType
  <2>2. CASE Begin(t) \/ Enter(t) \/ PipeBusy(t) \/ ConnectFailed(t)
    BY <1>1, <2>2 DEF Begin, Enter, PipeBusy, ConnectFailed, hostVars
  <2>3. CASE NotFound(t) \/ LaunchFailed(t)
    BY <1>1, <2>3 DEF NotFound, LaunchFailed
  <2>4. CASE Connect(t)
    <3>1. CASE UNCHANGED wireVars
      BY <1>1, <2>4, <3>1 DEF Connect, hostVars
    <3>2. CASE ~UNCHANGED wireVars
      BY <1>0, <2>1, <2>4, <3>2
      DEF Connect, OneInstance, WireTypes, hostVars
    <3>3. QED
      BY <3>1, <3>2
  <2>5. CASE Send(t)
    BY <2>1, <2>5 DEF Send, OneInstance, hostVars
  <2>6. CASE Deliver(t) \/ EndSpeak(t)
    BY <2>6 DEF Deliver, EndSpeak, Receive, OneInstance, hostVars
  <2>7. CASE SendFailed(t)
    <3>1. host' = host
      BY <2>7 DEF SendFailed, hostVars
    <3>2. QED
      BY <1>1, <2>1, <2>7, <3>1, DisconnectKeepsInstance DEF SendFailed
  <2>8. CASE ReadPing(t)
    <3>1. host' = host
      BY <2>8 DEF ReadPing, hostVars
    <3>2. CASE Receive(ProcessOf[t])
      BY <3>1, <3>2 DEF Receive, OneInstance
    <3>3. CASE Disconnect(ProcessOf[t])
      BY <2>1, <3>1, <3>3, DisconnectKeepsInstance
    <3>4. QED
      BY <2>8, <3>2, <3>3 DEF ReadPing
  <2>9. CASE AbortSpeak(t) \/ ReadShutdown(t) \/ ReadFailed(t)
    BY <2>1, <2>9, DisconnectKeepsInstance
    DEF AbortSpeak, ReadShutdown, ReadFailed, hostVars
  <2>10. QED
    BY <1>2, <2>2, <2>3, <2>4, <2>5, <2>6, <2>7, <2>8, <2>9 DEF ClientStep
<1>3. ASSUME NEW c \in Processes, Exit(c)
      PROVE  OneInstance'
  BY <1>3, DisconnectKeepsInstance DEF Exit, Peers, hostVars
<1>4. ASSUME NEW i \in Installers, InstallerStep(i)
      PROVE  OneInstance'
  <2>1. i \in Peers
    BY DEF Peers
  <2>2. CASE AskShutdown(i)
    BY <1>0, <2>1, <2>2 DEF AskShutdown, OneInstance, WireTypes, hostVars
  <2>3. CASE ReportNotRunning(i)
    BY <1>1, <2>3 DEF ReportNotRunning, hostVars
  <2>4. CASE ShutdownAnswered(i)
    BY <2>1, <2>4, DisconnectKeepsInstance DEF ShutdownAnswered, hostVars
  <2>5. QED
    BY <1>4, <2>2, <2>3, <2>4 DEF InstallerStep
<1>5. CASE HostStep
  <2>1. CASE Ready \/ InitFailed \/ Accept \/ PeerLeft
    BY <1>0, <2>1 DEF Ready, InitFailed, Accept, PeerLeft, OneInstance,
                      WireTypes, wireVars
  <2>2. CASE CreatePipe
    BY <2>2 DEF CreatePipe, OneInstance
  <2>3. CASE HandlePing \/ HandleSpeak \/ RejectSpeak \/ HandleShutdown
    <3>1. /\ UNCHANGED <<pipe, inst, peer>>
          /\ host = "serve" /\ host' \in {"serve", "stream", "hangup"}
      BY <2>3 DEF HandlePing, HandleSpeak, RejectSpeak, HandleShutdown,
                  Command, hostVars
    <3>2. QED
      BY <3>1 DEF OneInstance
  <2>4. CASE EmitChunk \/ EmitFailed \/ FinishSpeak
    BY <2>4 DEF EmitChunk, EmitFailed, FinishSpeak, OneInstance, wireVars
  <2>5. CASE HangUp
    BY <1>0, <2>5 DEF HangUp, BreakPipe, OneInstance, WireTypes
  <2>6. CASE Stop
    BY <2>6 DEF Stop, HostGone, OneInstance, wireVars
  <2>7. QED
    BY <1>5, <2>1, <2>2, <2>3, <2>4, <2>5, <2>6 DEF HostStep
<1>6. CASE Crash
  BY <1>0, <1>6 DEF Crash, HostGone, BreakPipe, OneInstance, WireTypes
<1>7. QED
  BY <1>2, <1>3, <1>4, <1>5, <1>6 DEF Next

-----------------------------------------------------------------------------
(* AnswersBelong                                                           *)

\* The first message of an answer, and what remains after it.
LEMMA AnswerTail ==
  ASSUME NEW q \in Seq(Responses), q # <<>>, NEW r, NEW k, NEW h \in Nat,
         IsAnswer(q, r, k, h)
  PROVE  /\ q[1] = Head(q) /\ Head(q) \in Responses /\ Tail(q) \in Seq(Responses)
         /\ Head(q).by = r /\ Head(q).call = k
         /\ ~IsChunk(Head(q)) => Tail(q) = <<>>
         /\ IsChunk(Head(q)) => /\ Head(q).n = h + 1
                                /\ Head(q).kind = ChunkKind(h + 1)
                                /\ IsAnswer(Tail(q), r, k, h + 1)
<1>1. Len(q) \in Nat \ {0} /\ Head(q) = q[1] /\ Len(Tail(q)) = Len(q) - 1
  BY NonEmpty
<1>2. 1 \in 1..Len(q)
  BY <1>1
<1>3. Head(q) \in Responses /\ Tail(q) \in Seq(Responses)
  OBVIOUS
<1>4. ~IsChunk(Head(q)) => Tail(q) = <<>>
  BY <1>1, <1>2, TailOfOne DEF IsAnswer
<1>5. ASSUME IsChunk(Head(q))
      PROVE  IsAnswer(Tail(q), r, k, h + 1)
  <2> SUFFICES ASSUME NEW i \in 1..Len(Tail(q))
               PROVE  LET m == Tail(q)[i] IN
                      /\ m.by = r /\ m.call = k
                      /\ IsChunk(m) => m.n = h + 1 + i /\ m.kind = ChunkKind(m.n)
                      /\ ~IsChunk(m) => i = Len(Tail(q))
    BY DEF IsAnswer
  <2>1. Tail(q)[i] = q[i + 1] /\ i + 1 \in 1..Len(q)
    BY TailElement
  <2> DEFINE n == Len(q)
  <2>2. h + (i + 1) = h + 1 + i /\ (i + 1 = n => i = Len(Tail(q)))
    <3>1. n \in Nat \ {0} /\ Len(Tail(q)) = n - 1 /\ i \in Int
      BY <1>1
    <3> HIDE DEF n
    <3>2. QED
      BY <3>1
  <2>3. QED
    BY <2>1, <2>2 DEF IsAnswer
<1>6. QED
  BY <1>1, <1>2, <1>3, <1>4, <1>5 DEF IsAnswer

\* An unfinished answer may be continued by its next chunk or by its end.
LEMMA AnswerAppend ==
  ASSUME NEW q \in Seq(Responses), NEW r, NEW k, NEW h \in Nat,
         IsAnswer(q, r, k, h), \A i \in 1..Len(q) : IsChunk(q[i]),
         NEW m \in Responses, m.by = r, m.call = k,
         IsChunk(m) => m.n = h + Len(q) + 1 /\ m.kind = ChunkKind(m.n)
  PROVE  IsAnswer(Append(q, m), r, k, h) /\ Append(q, m) # <<>>
<1> DEFINE p == Append(q, m)
<1>1. /\ Len(q) \in Nat /\ Len(p) = Len(q) + 1 /\ p[Len(q) + 1] = m
      /\ \A i \in 1..Len(q) : p[i] = q[i]
  OBVIOUS
<1>2. ASSUME NEW i \in 1..Len(p)
      PROVE  /\ p[i].by = r /\ p[i].call = k
             /\ IsChunk(p[i]) => p[i].n = h + i /\ p[i].kind = ChunkKind(p[i].n)
             /\ ~IsChunk(p[i]) => i = Len(p)
  <2>1. CASE i \in 1..Len(q)
    BY <1>1, <2>1 DEF IsAnswer
  <2>2. CASE i = Len(q) + 1
    <3>1. p[i] = m /\ i = Len(p) /\ h + Len(q) + 1 = h + i
      BY <1>1, <2>2
    <3>2. QED
      BY <3>1
  <2>3. QED
    BY <1>1, <2>1, <2>2
<1>3. p # <<>>
  BY <1>1
<1>4. QED
  BY <1>2, <1>3 DEF IsAnswer

\* The owner of a process's critical section is its waiting thread while
\* responses are unread.
LEMMA WaiterOwnsAnswers ==
  ASSUME LockHeld, AnswersBelong, NEW t \in Threads,
         fromHost[ProcessOf[t]] # <<>>, pc[t] \in {"connect", "send", "read"}
  PROVE  pc[t] = "read" /\ lock[ProcessOf[t]] = t
BY ProcessType DEF LockHeld, AnswersBelong, Waits

\* A step after which process c has nothing unread, and which changes neither
\* the responses nor the waiting thread of other processes.
LEMMA OthersAnswersBelong ==
  ASSUME TypeOK, LockHeld, AnswersBelong, NEW c \in Peers,
         fromHost' = [fromHost EXCEPT ![c] = <<>>],
         \A d \in Processes : d # c => lock'[d] = lock[d],
         \A u \in Threads : ProcessOf[u] # c =>
           pc'[u] = pc[u] /\ calls'[u] = calls[u] /\ heard'[u] = heard[u]
  PROVE  AnswersBelong'
<1> SUFFICES ASSUME NEW d \in Processes, fromHost'[d] # <<>>
             PROVE  /\ Waits(lock[d], d)'
                    /\ IsAnswer(fromHost'[d], lock'[d], calls'[lock'[d]],
                                Len(heard'[lock'[d]]))
  BY DEF AnswersBelong, Waits
<1>1. d # c /\ fromHost'[d] = fromHost[d] /\ lock'[d] = lock[d]
  BY DEF TypeOK, WireTypes, Peers
<1>2. Waits(lock[d], d)
  BY <1>1 DEF AnswersBelong
<1>3. /\ pc'[lock[d]] = pc[lock[d]] /\ calls'[lock[d]] = calls[lock[d]]
      /\ heard'[lock[d]] = heard[lock[d]]
  BY <1>1, <1>2 DEF Waits
<1>4. QED
  BY <1>1, <1>2, <1>3 DEF AnswersBelong, Waits

\* Dropping a connection discards what was unread on it.
LEMMA DisconnectKeepsAnswers ==
  ASSUME TypeOK, LockHeld, AnswersBelong, NEW c \in Peers, Disconnect(c),
         \A d \in Processes : d # c => lock'[d] = lock[d],
         \A u \in Threads : ProcessOf[u] # c =>
           pc'[u] = pc[u] /\ calls'[u] = calls[u] /\ heard'[u] = heard[u]
  PROVE  AnswersBelong'
BY OthersAnswersBelong DEF Disconnect

\* A step of a thread that is not waiting, and that leaves the responses
\* alone.
LEMMA QuietKeepsAnswers ==
  ASSUME TypeOK, LockHeld, AnswersBelong, NEW t \in Threads, fromHost' = fromHost,
         pc[t] # "read", pc[t] \in {"idle", "enter", "connect", "send"},
         \A d \in Processes : d # ProcessOf[t] => lock'[d] = lock[d],
         \/ lock'[ProcessOf[t]] = lock[ProcessOf[t]]
         \/ lock[ProcessOf[t]] \in {t, None},
         \A u \in Threads : u # t =>
           pc'[u] = pc[u] /\ calls'[u] = calls[u] /\ heard'[u] = heard[u]
  PROVE  AnswersBelong'
<1> SUFFICES ASSUME NEW d \in Processes, fromHost'[d] # <<>>
             PROVE  /\ Waits(lock[d], d)'
                    /\ IsAnswer(fromHost'[d], lock'[d], calls'[lock'[d]],
                                Len(heard'[lock'[d]]))
  BY DEF AnswersBelong, Waits
<1>1. Waits(lock[d], d)
  BY DEF AnswersBelong
<1>2. lock[d] # t /\ lock[d] \in Threads /\ lock'[d] = lock[d]
  BY <1>1, PipeAssumption DEF Waits
<1>3. /\ pc'[lock[d]] = pc[lock[d]] /\ calls'[lock[d]] = calls[lock[d]]
      /\ heard'[lock[d]] = heard[lock[d]]
  BY <1>2
<1>4. QED
  BY <1>1, <1>2, <1>3 DEF AnswersBelong, Waits

\* The client's own steps keep AnswersBelong.
LEMMA AnswersClient ==
  ASSUME TypeOK, LockHeld, AnswersBelong, NEW t \in Threads,
         Begin(t) \/ ClientStep(t)
  PROVE  AnswersBelong'
<1> DEFINE c == ProcessOf[t]
<1>0. c \in Processes /\ c \in Peers /\ ClientTypes /\ WireTypes
  BY ProcessType DEF TypeOK
<1>1. CASE Begin(t)
  BY <1>0, <1>1, QuietKeepsAnswers DEF Begin, ClientTypes, wireVars
<1>2. CASE Enter(t)
  BY <1>0, <1>2, QuietKeepsAnswers DEF Enter, Return, ClientTypes, wireVars
<1>3. CASE Connect(t)
  BY <1>0, <1>3, QuietKeepsAnswers DEF Connect, ClientTypes, wireVars
<1>4. CASE NotFound(t) \/ PipeBusy(t)
  BY <1>0, <1>4, QuietKeepsAnswers DEF NotFound, PipeBusy, ClientTypes, wireVars
<1>5. CASE LaunchFailed(t) \/ ConnectFailed(t)
  <2>1. lock[c] = t
    BY <1>5 DEF LaunchFailed, ConnectFailed, LockHeld
  <2>2. QED
    BY <1>0, <1>5, <2>1, QuietKeepsAnswers
    DEF LaunchFailed, ConnectFailed, RetryOrFail, Return, ClientTypes, wireVars
<1>6. CASE Send(t)
  BY <1>0, <1>6, QuietKeepsAnswers DEF Send, ClientTypes
<1>7. CASE SendFailed(t)
  <2>1. CASE op[t] = "shutdown"
    BY <1>0, <1>7, <2>1, QuietKeepsAnswers DEF SendFailed, ClientTypes, wireVars
  <2>2. CASE op[t] # "shutdown"
    BY <1>0, <1>7, <2>2, DisconnectKeepsAnswers
    DEF SendFailed, RetryOrFail, Return, ClientTypes
  <2>3. QED
    BY <2>1, <2>2
<1>8. CASE Deliver(t) \/ EndSpeak(t)
           \/ (ReadPing(t) /\ Incoming(t).kind = "pong")
  <2>1. fromHost[c] # <<>> /\ pc[t] = "read" /\ Receive(c)
    BY <1>8 DEF Deliver, EndSpeak, ReadPing, Reading
  <2>2. lock[c] = t
    BY <2>1, WaiterOwnsAnswers
  <2> DEFINE q == fromHost[c]
  <2>3. q \in Seq(Responses) /\ calls[t] \in Nat /\ Len(heard[t]) \in Nat
    BY <1>0 DEF WireTypes, ClientTypes
  <2>4. IsAnswer(q, t, calls[t], Len(heard[t]))
    BY <1>0, <2>1, <2>2 DEF AnswersBelong
  <2>5. fromHost' = [fromHost EXCEPT ![c] = Tail(q)]
    BY <2>1 DEF Receive
  <2>6. CASE Deliver(t)
    <3>1. IsChunk(Head(q)) /\ heard' = [heard EXCEPT ![t] = Append(@, Head(q))]
      BY <2>6 DEF Deliver, Incoming
    <3>2. IsAnswer(Tail(q), t, calls[t], Len(heard[t]) + 1)
      BY <2>1, <2>3, <2>4, <3>1, AnswerTail
    <3>3. Len(heard'[t]) = Len(heard[t]) + 1
      BY <1>0, <3>1 DEF ClientTypes
    <3>4. UNCHANGED <<pc, calls, lock>>
      BY <2>6 DEF Deliver
    <3>5. ASSUME NEW d \in Processes, fromHost'[d] # <<>>
          PROVE  /\ Waits(lock[d], d)'
                 /\ IsAnswer(fromHost'[d], lock'[d], calls'[lock'[d]],
                             Len(heard'[lock'[d]]))
      <4>1. CASE d = c
        BY <1>0, <2>1, <2>2, <2>5, <3>2, <3>3, <3>4, <4>1 DEF Waits, WireTypes
      <4>2. CASE d # c
        <5>1. fromHost'[d] = fromHost[d]
          BY <1>0, <2>5, <4>2 DEF WireTypes, Peers
        <5>2. Waits(lock[d], d)
          BY <3>5, <5>1 DEF AnswersBelong
        <5>3. lock[d] # t
          BY <4>2, <5>2 DEF Waits
        <5>4. heard'[lock[d]] = heard[lock[d]]
          BY <1>0, <3>1, <5>2, <5>3 DEF ClientTypes, Waits
        <5>5. QED
          BY <3>4, <3>5, <5>1, <5>2, <5>4 DEF AnswersBelong, Waits
      <4>3. QED
        BY <4>1, <4>2
    <3>6. QED
      BY <3>5 DEF AnswersBelong
  <2>7. CASE EndSpeak(t) \/ (ReadPing(t) /\ Incoming(t).kind = "pong")
    <3>1. ~IsChunk(Head(q)) /\ Return(t, outcome'[t])
          /\ UNCHANGED <<calls, heard>>
      <4>1. CASE EndSpeak(t)
        BY <1>0, <4>1 DEF EndSpeak, Incoming, IsChunk, Return, ClientTypes
      <4>2. CASE ReadPing(t) /\ Incoming(t).kind = "pong"
        BY <1>0, <4>2 DEF ReadPing, Incoming, IsChunk, Return, ClientTypes
      <4>3. QED
        BY <2>7, <4>1, <4>2
    <3>2. Tail(q) = <<>>
      BY <2>1, <2>3, <2>4, <3>1, AnswerTail
    <3>3. QED
      BY <1>0, <2>5, <3>1, <3>2, OthersAnswersBelong DEF Return, ClientTypes
  <2>8. QED
    BY <1>8, <2>6, <2>7
<1>9. CASE AbortSpeak(t) \/ ReadShutdown(t) \/ ReadFailed(t)
           \/ (ReadPing(t) /\ Incoming(t).kind # "pong")
  BY <1>0, <1>9, DisconnectKeepsAnswers
  DEF AbortSpeak, ReadShutdown, ReadFailed, ReadPing, Return, ClientTypes
<1>10. QED
  BY <1>1, <1>2, <1>3, <1>4, <1>5, <1>6, <1>7, <1>8, <1>9
  DEF ClientStep

\* What the host writes continues the answer its peer waits for.
LEMMA ReplyKeepsAnswers ==
  ASSUME TypeOK, AnswersBelong, UNCHANGED clientVars,
         NEW m \in Responses, Reply(m),
         inst = "connected" =>
           /\ peer \in Peers
           /\ peer \in Processes =>
                /\ Waits(m.by, peer) /\ m.call = calls[m.by]
                /\ \A i \in 1..Len(fromHost[peer]) : IsChunk(fromHost[peer][i])
                /\ IsChunk(m) =>
                     /\ m.n = Len(heard[m.by]) + Len(fromHost[peer]) + 1
                     /\ m.kind = ChunkKind(m.n)
  PROVE  AnswersBelong'
<1>0. ClientTypes /\ WireTypes /\ UNCHANGED <<pc, calls, heard, lock>>
  BY DEF TypeOK, clientVars
<1>1. CASE fromHost' = fromHost
  BY <1>0, <1>1 DEF AnswersBelong, Waits
<1>2. CASE inst = "connected" /\ fromHost' = [fromHost EXCEPT ![peer] = Append(@, m)]
  <2> DEFINE q == fromHost[peer]
  <2> SUFFICES ASSUME NEW d \in Processes, fromHost'[d] # <<>>
               PROVE  /\ Waits(lock[d], d)
                      /\ IsAnswer(fromHost'[d], lock[d], calls[lock[d]],
                                  Len(heard[lock[d]]))
    BY <1>0 DEF AnswersBelong, Waits
  <2>1. CASE d # peer
    BY <1>0, <1>2, <2>1 DEF AnswersBelong, WireTypes, Peers
  <2>2. CASE d = peer
    <3>1. Waits(m.by, peer) /\ lock[d] = m.by
      BY <1>2, <2>2 DEF Waits
    <3>2. /\ q \in Seq(Responses) /\ Len(heard[m.by]) \in Nat
          /\ fromHost'[d] = Append(q, m)
      BY <1>0, <1>2, <2>2, <3>1 DEF ClientTypes, WireTypes, Waits
    <3>3. IsAnswer(q, m.by, calls[m.by], Len(heard[m.by]))
      <4>1. CASE q = <<>>
        BY <4>1 DEF IsAnswer
      <4>2. CASE q # <<>>
        BY <2>2, <3>1, <4>2 DEF AnswersBelong
      <4>3. QED
        BY <4>1, <4>2
    <3>4. IsAnswer(Append(q, m), m.by, calls[m.by], Len(heard[m.by]))
      BY <1>2, <2>2, <3>2, <3>3, AnswerAppend
    <3>5. QED
      BY <2>2, <3>1, <3>2, <3>4
  <2>3. QED
    BY <2>1, <2>2
<1>3. QED
  BY <1>1, <1>2 DEF Reply

\* The request the host is about to answer, and who waits for that answer.
LEMMA CommandWaits ==
  ASSUME TypeOK, OneInstance, RequestsBelong, NEW k, Command(k)
  PROVE  /\ Head(toHost) = toHost[1] /\ Head(toHost) \in Requests
         /\ Head(toHost).kind = k /\ Tail(toHost) = <<>>
         /\ inst \in {"connected", "dropped"} /\ peer \in Peers
         /\ inst = "connected" /\ peer \in Processes =>
              /\ Waits(Head(toHost).by, peer)
              /\ Head(toHost).call = calls[Head(toHost).by]
              /\ heard[Head(toHost).by] = <<>> /\ fromHost[peer] = <<>>
<1>1. toHost \in Seq(Requests) /\ toHost # <<>> /\ Head(toHost).kind = k
  BY DEF TypeOK, WireTypes, Command
<1>2. Head(toHost) = toHost[1] /\ Head(toHost) \in Requests
  BY <1>1
<1>3. Tail(toHost) = <<>>
  BY <1>1, TailOfOne DEF RequestsBelong
<1>4. inst \in {"connected", "dropped"} /\ peer \in Peers
  BY <1>1 DEF OneInstance
<1>5. QED
  BY <1>1, <1>2, <1>3, <1>4 DEF RequestsBelong

\* The host's steps keep AnswersBelong.
LEMMA AnswersHost ==
  ASSUME TypeOK, Conversation, HostStep \/ Crash
  PROVE  AnswersBelong'
<1>0. /\ ClientTypes /\ WireTypes /\ HostTypes
      /\ OneInstance /\ AnswersBelong /\ RequestsBelong /\ StreamBelongs
  BY DEF TypeOK, Conversation
<1>1. UNCHANGED clientVars
  BY DEF HostStep, Crash, HostGone, Stop, Ready, InitFailed, CreatePipe,
         Accept, HandlePing, HandleSpeak, RejectSpeak, HandleShutdown,
         PeerLeft, EmitChunk, EmitFailed, FinishSpeak, HangUp
<1>2. CASE fromHost' = fromHost
  BY <1>0, <1>1, <1>2 DEF AnswersBelong, Waits, clientVars
<1>3. ASSUME HandlePing \/ RejectSpeak \/ HandleShutdown
      PROVE  AnswersBelong'
  <2> DEFINE req == Head(toHost)
  <2>1. PICK k \in {"pong", "error", "end"} : Reply(Response(k, req, 0))
    BY <1>3 DEF HandlePing, RejectSpeak, HandleShutdown
  <2>2. \E j : Command(j)
    BY <1>3 DEF HandlePing, RejectSpeak, HandleShutdown
  <2> DEFINE m == Response(k, req, 0)
  <2>3. m \in Responses /\ m.by = req.by /\ m.call = req.call /\ ~IsChunk(m)
    BY <1>0, <2>2, CommandWaits, ResponseType DEF Response, IsChunk
  <2>4. \A i \in 1..Len(<<>>) : IsChunk(<<>>[i])
    OBVIOUS
  <2>5. inst = "connected" =>
          /\ peer \in Peers
          /\ peer \in Processes =>
               /\ Waits(m.by, peer) /\ m.call = calls[m.by]
               /\ \A i \in 1..Len(fromHost[peer]) : IsChunk(fromHost[peer][i])
    BY <1>0, <2>2, <2>3, <2>4, CommandWaits
  <2> HIDE DEF m
  <2>6. Reply(m)
    BY <2>1 DEF m
  <2>7. QED
    BY <1>0, <1>1, <2>3, <2>5, <2>6, ReplyKeepsAnswers
<1>4. ASSUME EmitChunk \/ FinishSpeak
      PROVE  AnswersBelong'
  <2>1. host = "stream" /\ job \in Requests /\ sent \in Nat
    BY <1>0, <1>4 DEF HostTypes, EmitChunk, FinishSpeak
  <2>2. PICK k \in {"audio", "index", "end"}, n \in Nat :
          /\ Reply(Response(k, job, n))
          /\ k # "end" => n = sent + 1 /\ k = ChunkKind(n)
    <3>1. CASE EmitChunk
      <4>1. /\ ChunkKind(sent + 1) \in {"audio", "index", "end"}
            /\ sent + 1 \in Nat
        BY <2>1 DEF ChunkKind
      <4>2. QED
        BY <3>1, <4>1 DEF EmitChunk
    <3>2. CASE FinishSpeak
      BY <3>2 DEF FinishSpeak
    <3>3. QED
      BY <1>4, <3>1, <3>2
  <2> DEFINE m == Response(k, job, n)
  <2>3. /\ m \in Responses /\ m.by = job.by /\ m.call = job.call /\ m.n = n
        /\ IsChunk(m) => n = sent + 1 /\ m.kind = ChunkKind(n)
    BY <2>1, <2>2, ResponseType DEF Response, IsChunk
  <2>4. inst = "connected" =>
          /\ peer \in Peers
          /\ peer \in Processes =>
               /\ Waits(m.by, peer) /\ m.call = calls[m.by]
               /\ \A i \in 1..Len(fromHost[peer]) : IsChunk(fromHost[peer][i])
               /\ IsChunk(m) =>
                    /\ m.n = Len(heard[m.by]) + Len(fromHost[peer]) + 1
                    /\ m.kind = ChunkKind(m.n)
    BY <1>0, <2>1, <2>3 DEF OneInstance, StreamBelongs
  <2> HIDE DEF m
  <2>5. Reply(m)
    BY <2>2 DEF m
  <2>6. QED
    BY <1>0, <1>1, <2>3, <2>4, <2>5, ReplyKeepsAnswers
<1>5. QED
  BY <1>2, <1>3, <1>4
  DEF HostStep, Crash, Stop, HangUp, BreakPipe, Ready, InitFailed, CreatePipe,
      Accept, HandleSpeak, PeerLeft, EmitFailed, wireVars

\* Unread responses continue what the waiting call has heard: kept by every
\* step.
LEMMA AnswersBelongStep ==
  ASSUME TypeOK, Conversation, Next
  PROVE  AnswersBelong'
<1>0. LockHeld /\ AnswersBelong /\ ClientTypes
  BY DEF Conversation, TypeOK
<1>1. ASSUME NEW t \in Threads, Begin(t) \/ ClientStep(t)
      PROVE  AnswersBelong'
  BY <1>0, <1>1, AnswersClient
<1>2. ASSUME NEW i \in Installers, InstallerStep(i)
      PROVE  AnswersBelong'
  <2>1. UNCHANGED <<pc, calls, heard, lock>> /\ i \in Peers
    BY <1>2 DEF InstallerStep, AskShutdown, ReportNotRunning,
                ShutdownAnswered, clientVars, Peers
  <2>2. CASE fromHost' = fromHost
    BY <1>0, <2>1, <2>2 DEF AnswersBelong, Waits
  <2>3. CASE ShutdownAnswered(i)
    BY <1>0, <2>1, <2>3, DisconnectKeepsAnswers DEF ShutdownAnswered
  <2>4. QED
    BY <1>2, <2>2, <2>3 DEF InstallerStep, AskShutdown, ReportNotRunning, wireVars
<1>3. ASSUME NEW c \in Processes, Exit(c)
      PROVE  AnswersBelong'
  <2>1. /\ \A d \in Processes : d # c => lock'[d] = lock[d]
        /\ \A u \in Threads : ProcessOf[u] # c =>
             pc'[u] = pc[u] /\ calls'[u] = calls[u] /\ heard'[u] = heard[u]
        /\ c \in Peers /\ Disconnect(c)
    BY <1>0, <1>3 DEF Exit, ClientTypes, Peers
  <2>2. QED
    BY <1>0, <2>1, DisconnectKeepsAnswers
<1>4. CASE HostStep \/ Crash
  BY <1>4, AnswersHost
<1>5. QED
  BY <1>1, <1>2, <1>3, <1>4 DEF Next

-----------------------------------------------------------------------------
(* RequestsBelong                                                          *)

\* Closing the connected handle while a request is unread happens only to
\* an installer or to a process that is gone.
LEMMA DisconnectKeepsRequests ==
  ASSUME TypeOK, OneInstance, RequestsBelong, NEW c \in Peers, Disconnect(c),
         \A u \in Threads : pc[u] = "gone" => pc'[u] = "gone",
         \/ pipe[c] # "open"
         \/ c \in Installers
         \/ fromHost[c] # <<>>
         \/ \A u \in Threads : ProcessOf[u] = c => pc'[u] = "gone",
         \A u \in Threads : ProcessOf[u] # c =>
           /\ pc'[u] = pc[u] /\ calls'[u] = calls[u] /\ heard'[u] = heard[u]
           /\ lock'[ProcessOf[u]] = lock[ProcessOf[u]]
  PROVE  RequestsBelong'
<1>0. /\ WireTypes /\ toHost' = toHost /\ peer' = peer
      /\ fromHost' = [fromHost EXCEPT ![c] = <<>>]
      /\ pipe[c] = "open" <=> inst = "connected" /\ peer = c
      /\ inst' = IF pipe[c] = "open" THEN "dropped" ELSE inst
  BY DEF TypeOK, Disconnect, OneInstance
<1> SUFFICES ASSUME toHost # <<>> PROVE RequestsBelong'
  BY <1>0 DEF RequestsBelong
<1> DEFINE q == toHost[1]
<1>1. /\ Len(toHost) = 1
      /\ q.kind = "speak" => q.by \in Threads /\ ProcessOf[q.by] = peer
      /\ inst = "dropped" /\ q.kind = "speak" => pc[q.by] = "gone"
      /\ inst = "connected" /\ peer \in Processes =>
           /\ Waits(q.by, peer)
           /\ q.call = calls[q.by]
           /\ heard[q.by] = <<>>
           /\ fromHost[peer] = <<>>
  BY DEF RequestsBelong
<1>2. ASSUME inst' = "dropped", q.kind = "speak"
      PROVE  pc'[q.by] = "gone"
  <2>1. CASE pipe[c] = "open"
    <3>1. peer = c /\ inst = "connected" /\ c \in Processes
      BY <1>0, <1>1, <1>2, <2>1, ProcessType
    <3>2. \A u \in Threads : ProcessOf[u] = c => pc'[u] = "gone"
      BY <1>1, <2>1, <3>1, PipeAssumption
    <3>3. QED
      BY <1>1, <1>2, <3>1, <3>2
  <2>2. CASE pipe[c] # "open"
    BY <1>0, <1>1, <1>2, <2>2
  <2>3. QED
    BY <2>1, <2>2
<1>3. ASSUME inst' = "connected", peer \in Processes
      PROVE  /\ Waits(q.by, peer)'
             /\ q.call = calls'[q.by]
             /\ heard'[q.by] = <<>>
             /\ fromHost'[peer] = <<>>
  <2>1. inst = "connected" /\ pipe[c] # "open" /\ peer # c
    BY <1>0, <1>3
  <2>2. q.by \in Threads /\ ProcessOf[q.by] # c
    BY <1>1, <1>3, <2>1 DEF Waits
  <2>3. QED
    BY <1>0, <1>1, <1>3, <2>1, <2>2 DEF Waits, WireTypes
<1>4. QED
  BY <1>0, <1>1, <1>2, <1>3 DEF RequestsBelong

\* A step that touches neither the wire's requests nor a waiting thread.
LEMMA QuietKeepsRequests ==
  ASSUME TypeOK, RequestsBelong, UNCHANGED <<toHost, inst, peer, fromHost>>,
         \A u \in Threads : pc[u] = "gone" => pc'[u] = "gone",
         \A u \in Threads : pc[u] = "read" /\ lock[ProcessOf[u]] = u =>
           /\ pc'[u] = pc[u] /\ calls'[u] = calls[u] /\ heard'[u] = heard[u]
           /\ lock'[ProcessOf[u]] = u
  PROVE  RequestsBelong'
<1> SUFFICES ASSUME toHost # <<>> PROVE RequestsBelong'
  BY DEF RequestsBelong
<1>1. QED
  BY DEF RequestsBelong, Waits

\* A waiting thread that reads a response: its request is not unread.
LEMMA ReadKeepsRequests ==
  ASSUME TypeOK, LockHeld, RequestsBelong, NEW t \in Threads,
         pc[t] = "read", fromHost[ProcessOf[t]] # <<>>, Receive(ProcessOf[t]),
         pc'[t] # "gone",
         \A u \in Threads : u # t =>
           pc'[u] = pc[u] /\ calls'[u] = calls[u] /\ heard'[u] = heard[u],
         \A d \in Processes : d # ProcessOf[t] => lock'[d] = lock[d]
  PROVE  RequestsBelong'
<1> DEFINE c == ProcessOf[t]
<1> DEFINE q == toHost[1]
<1>0. /\ WireTypes /\ UNCHANGED <<toHost, inst, peer>>
      /\ \A d \in Peers : d # c => fromHost'[d] = fromHost[d]
      /\ lock[c] = t
  BY ProcessType DEF TypeOK, Receive, WireTypes, LockHeld
<1> SUFFICES ASSUME toHost # <<>> PROVE RequestsBelong'
  BY <1>0 DEF RequestsBelong
<1>1. ASSUME inst = "dropped", q.kind = "speak"
      PROVE  pc'[q.by] = "gone"
  BY <1>1 DEF RequestsBelong
<1>2. ASSUME inst = "connected", peer \in Processes
      PROVE  /\ Waits(q.by, peer)'
             /\ q.call = calls'[q.by]
             /\ heard'[q.by] = <<>>
             /\ fromHost'[peer] = <<>>
  <2>1. Waits(q.by, peer) /\ fromHost[peer] = <<>>
    BY <1>2 DEF RequestsBelong
  <2>2. peer # c /\ q.by # t
    BY <1>2, <2>1 DEF Waits
  <2>3. QED
    BY <1>0, <1>2, <2>1, <2>2 DEF RequestsBelong, Waits, Peers
<1>3. QED
  BY <1>0, <1>1, <1>2 DEF RequestsBelong

\* The client's own steps keep RequestsBelong.
LEMMA RequestsClient ==
  ASSUME TypeOK, Conversation, NEW t \in Threads, Begin(t) \/ ClientStep(t)
  PROVE  RequestsBelong'
<1> DEFINE c == ProcessOf[t]
<1>0. /\ c \in Processes /\ c \in Peers /\ ClientTypes /\ WireTypes
      /\ LockHeld /\ OneInstance /\ AnswersBelong /\ RequestsBelong
  BY ProcessType DEF TypeOK, Conversation
<1>1. CASE Begin(t)
  BY <1>0, <1>1, QuietKeepsRequests DEF Begin, ClientTypes, wireVars
<1>2. CASE Enter(t)
  <2>1. lock[c] = None /\ pc[t] = "enter"
    BY <1>2 DEF Enter
  <2>2. \A u \in Threads : lock[ProcessOf[u]] = u => ProcessOf[u] # c
    BY <2>1, PipeAssumption
  <2>3. QED
    BY <1>0, <1>2, <2>1, <2>2, ProcessType, QuietKeepsRequests
    DEF Enter, Return, ClientTypes, wireVars
<1>3. CASE Connect(t)
  <2>1. CASE UNCHANGED wireVars
    BY <1>0, <1>3, <2>1, QuietKeepsRequests DEF Connect, ClientTypes, wireVars
  <2>2. CASE ~UNCHANGED wireVars
    BY <1>0, <1>3, <2>2 DEF Connect, OneInstance, RequestsBelong
  <2>3. QED
    BY <2>1, <2>2
<1>4. CASE NotFound(t) \/ PipeBusy(t)
  BY <1>0, <1>4, QuietKeepsRequests
  DEF NotFound, PipeBusy, ClientTypes, wireVars
<1>5. CASE LaunchFailed(t) \/ ConnectFailed(t)
  <2>1. lock[c] = t /\ pc[t] = "connect"
    BY <1>0, <1>5 DEF LaunchFailed, ConnectFailed, LockHeld
  <2>2. \A u \in Threads : lock[ProcessOf[u]] = u /\ u # t => ProcessOf[u] # c
    BY <2>1
  <2>3. QED
    BY <1>0, <1>5, <2>1, <2>2, ProcessType, QuietKeepsRequests
    DEF LaunchFailed, ConnectFailed, RetryOrFail, Return, ClientTypes, wireVars
<1>6. CASE Send(t)
  <2>1. lock[c] = t /\ heard[t] = <<>> /\ inst = "connected" /\ peer = c
    BY <1>0, <1>6 DEF Send, LockHeld, OneInstance
  <2>2. toHost = <<>>
    BY <1>0, <1>6, <2>1 DEF Send, RequestsBelong, Waits
  <2>3. fromHost[c] = <<>>
    BY <1>0, <1>6, <2>1 DEF Send, AnswersBelong, Waits
  <2>4. toHost' = <<Request(t)>>
    BY <1>6, <2>2 DEF Send
  <2>5. /\ Len(<<Request(t)>>) = 1 /\ <<Request(t)>>[1] = Request(t)
        /\ Request(t).by = t /\ Request(t).call = calls[t]
    BY DEF Request
  <2>6. /\ pc'[t] = "read"
        /\ UNCHANGED <<calls, heard, lock, inst, peer, fromHost>>
    BY <1>0, <1>6 DEF Send, ClientTypes
  <2>7. QED
    BY <2>1, <2>3, <2>4, <2>5, <2>6 DEF RequestsBelong, Waits
<1>7. CASE SendFailed(t)
  <2>1. CASE op[t] = "shutdown"
    BY <1>0, <1>7, <2>1, QuietKeepsRequests DEF SendFailed, ClientTypes, wireVars
  <2>2. CASE op[t] # "shutdown"
    BY <1>0, <1>7, <2>2, ProcessType, DisconnectKeepsRequests
    DEF SendFailed, RetryOrFail, Return, ClientTypes
  <2>3. QED
    BY <2>1, <2>2
<1>8. CASE Deliver(t) \/ EndSpeak(t)
           \/ (ReadPing(t) /\ Incoming(t).kind = "pong")
  BY <1>0, <1>8, ReadKeepsRequests
  DEF Deliver, EndSpeak, ReadPing, Reading, Return, ClientTypes
<1>9. CASE AbortSpeak(t) \/ ReadShutdown(t) \/ ReadFailed(t)
           \/ (ReadPing(t) /\ Incoming(t).kind # "pong")
  <2>1. /\ Disconnect(c) /\ pc[t] = "read" /\ \E o : Return(t, o)
        /\ calls' = calls
        /\ \A u \in Threads : u # t => heard'[u] = heard[u]
        /\ fromHost[c] # <<>> \/ pipe[c] # "open"
    BY <1>0, <1>9 DEF AbortSpeak, ReadShutdown, ReadFailed, ReadPing, Reading,
                      ClientTypes
  <2>2. /\ \A u \in Threads : pc[u] = "gone" => pc'[u] = "gone"
        /\ \A u \in Threads : ProcessOf[u] # c =>
             /\ pc'[u] = pc[u] /\ calls'[u] = calls[u] /\ heard'[u] = heard[u]
             /\ lock'[ProcessOf[u]] = lock[ProcessOf[u]]
    BY <1>0, <2>1, ProcessType DEF Return, ClientTypes
  <2>3. QED
    BY <1>0, <2>1, <2>2, DisconnectKeepsRequests
<1>10. QED
  BY <1>1, <1>2, <1>3, <1>4, <1>5, <1>6, <1>7, <1>8, <1>9
  DEF ClientStep

\* An unread request is the only one and is its caller's: kept by every step.
LEMMA RequestsBelongStep ==
  ASSUME TypeOK, Conversation, Next
  PROVE  RequestsBelong'
<1>0. /\ ClientTypes /\ WireTypes /\ LockHeld /\ OneInstance /\ AnswersBelong
      /\ RequestsBelong
  BY DEF TypeOK, Conversation
<1>1. ASSUME NEW t \in Threads, Begin(t) \/ ClientStep(t)
      PROVE  RequestsBelong'
  BY <1>1, RequestsClient
<1>2. ASSUME NEW i \in Installers, InstallerStep(i)
      PROVE  RequestsBelong'
  <2>1. UNCHANGED <<pc, calls, heard, lock>> /\ i \in Peers /\ i \notin Processes
    BY <1>2, PipeAssumption
    DEF InstallerStep, AskShutdown, ReportNotRunning, ShutdownAnswered,
        clientVars, Peers
  <2>2. CASE AskShutdown(i)
    <3>1. /\ Len(<<StopRequest(i)>>) = 1
          /\ <<StopRequest(i)>>[1].kind = "shutdown"
      BY DEF StopRequest
    <3>2. QED
      BY <2>1, <2>2, <3>1 DEF AskShutdown, RequestsBelong
  <2>3. CASE ReportNotRunning(i)
    BY <1>0, <2>1, <2>3, QuietKeepsRequests DEF ReportNotRunning, wireVars
  <2>4. CASE ShutdownAnswered(i)
    BY <1>0, <2>1, <2>4, DisconnectKeepsRequests DEF ShutdownAnswered
  <2>5. QED
    BY <1>2, <2>2, <2>3, <2>4 DEF InstallerStep
<1>3. ASSUME NEW c \in Processes, Exit(c)
      PROVE  RequestsBelong'
  <2>1. /\ c \in Peers /\ Disconnect(c)
        /\ \A u \in Threads : pc[u] = "gone" => pc'[u] = "gone"
        /\ \A u \in Threads : ProcessOf[u] = c => pc'[u] = "gone"
        /\ \A u \in Threads : ProcessOf[u] # c =>
             /\ pc'[u] = pc[u] /\ calls'[u] = calls[u] /\ heard'[u] = heard[u]
             /\ lock'[ProcessOf[u]] = lock[ProcessOf[u]]
    BY <1>0, <1>3, ProcessType DEF Exit, ClientTypes, Peers
  <2>2. QED
    BY <1>0, <2>1, DisconnectKeepsRequests
<1>4. CASE HostStep \/ Crash
  <2>1. UNCHANGED <<pc, calls, heard, lock>>
    BY <1>4 DEF HostStep, Crash, HostGone, Stop, Ready, InitFailed, CreatePipe,
                Accept, HandlePing, HandleSpeak, RejectSpeak, HandleShutdown,
                PeerLeft, EmitChunk, EmitFailed, FinishSpeak, HangUp, clientVars
  <2>2. CASE HandlePing \/ HandleSpeak \/ RejectSpeak \/ HandleShutdown
    <3>1. toHost' = <<>>
      BY <1>0, <2>2, CommandWaits
      DEF HandlePing, HandleSpeak, RejectSpeak, HandleShutdown
    <3>2. QED
      BY <3>1 DEF RequestsBelong
  <2>3. CASE HangUp \/ Crash
    BY <2>3 DEF HangUp, Crash, BreakPipe, RequestsBelong
  <2>4. CASE CreatePipe
    BY <1>0, <2>4 DEF CreatePipe, OneInstance, RequestsBelong
  <2>5. CASE Ready \/ InitFailed \/ Accept \/ PeerLeft \/ EmitFailed \/ Stop
    BY <1>0, <2>1, <2>5, QuietKeepsRequests
    DEF Ready, InitFailed, Accept, PeerLeft, EmitFailed, Stop, wireVars
  <2>6. CASE EmitChunk \/ FinishSpeak
    <3>1. host = "stream" /\ UNCHANGED <<toHost, inst, peer>>
      BY <2>6 DEF EmitChunk, FinishSpeak
    <3>2. CASE inst = "connected" /\ peer \in Processes
      <4>1. toHost = <<>>
        BY <3>1, <3>2 DEF Conversation, StreamBelongs
      <4>2. QED
        BY <3>1, <4>1 DEF RequestsBelong
    <3>3. CASE ~(inst = "connected" /\ peer \in Processes)
      BY <1>0, <2>1, <3>1, <3>3 DEF RequestsBelong
    <3>4. QED
      BY <3>2, <3>3
  <2>7. QED
    BY <1>4, <2>2, <2>3, <2>4, <2>5, <2>6 DEF HostStep
<1>5. QED
  BY <1>1, <1>2, <1>3, <1>4 DEF Next

-----------------------------------------------------------------------------
(* StreamBelongs                                                           *)

\* A step that touches neither the conversation nor a waiting thread.
LEMMA QuietKeepsStream ==
  ASSUME TypeOK, StreamBelongs,
         UNCHANGED <<toHost, inst, peer, fromHost, job, sent>>,
         host' = "stream" => host = "stream",
         \A u \in Threads : pc[u] = "read" /\ lock[ProcessOf[u]] = u =>
           /\ pc'[u] = pc[u] /\ calls'[u] = calls[u] /\ heard'[u] = heard[u]
           /\ lock'[ProcessOf[u]] = u
  PROVE  StreamBelongs'
BY DEF StreamBelongs, Waits

\* Closing a handle: another client's, or the host goes on for nobody.
LEMMA DisconnectKeepsStream ==
  ASSUME TypeOK, OneInstance, StreamBelongs, NEW c \in Peers, Disconnect(c),
         UNCHANGED <<job, sent, host>>,
         \A u \in Threads : ProcessOf[u] # c =>
           /\ pc'[u] = pc[u] /\ calls'[u] = calls[u] /\ heard'[u] = heard[u]
           /\ lock'[ProcessOf[u]] = lock[ProcessOf[u]]
  PROVE  StreamBelongs'
<1>0. /\ WireTypes /\ UNCHANGED <<toHost, peer>>
      /\ \A d \in Peers : d # c => fromHost'[d] = fromHost[d]
      /\ pipe[c] = "open" <=> inst = "connected" /\ peer = c
      /\ inst' = IF pipe[c] = "open" THEN "dropped" ELSE inst
  BY DEF TypeOK, Disconnect, OneInstance, WireTypes
<1>1. ASSUME host = "stream", inst' = "connected"
      PROVE  /\ Waits(job.by, peer)' /\ job.call = calls'[job.by]
             /\ toHost' = <<>>
             /\ sent = Len(heard'[job.by]) + Len(fromHost'[peer])
             /\ \A i \in 1..Len(fromHost'[peer]) : IsChunk(fromHost'[peer][i])
  <2>1. inst = "connected" /\ peer # c
    BY <1>0, <1>1
  <2>2. job.by \in Threads /\ ProcessOf[job.by] = peer /\ peer \in Peers
    BY <1>1, ProcessType DEF StreamBelongs
  <2>3. fromHost'[peer] = fromHost[peer]
    BY <1>0, <2>1, <2>2
  <2>4. QED
    BY <1>0, <1>1, <2>1, <2>2, <2>3 DEF StreamBelongs, Waits
<1>2. QED
  BY <1>0, <1>1 DEF StreamBelongs

\* The client's own steps keep StreamBelongs.
LEMMA StreamClient ==
  ASSUME TypeOK, Conversation, NEW t \in Threads, Begin(t) \/ ClientStep(t)
  PROVE  StreamBelongs'
<1> DEFINE c == ProcessOf[t]
<1>0. /\ c \in Processes /\ c \in Peers /\ ClientTypes /\ WireTypes
      /\ LockHeld /\ OneInstance /\ AnswersBelong /\ StreamBelongs
  BY ProcessType DEF TypeOK, Conversation
<1>1. CASE Begin(t)
  BY <1>0, <1>1, QuietKeepsStream DEF Begin, ClientTypes, wireVars, hostVars
<1>2. CASE Enter(t)
  <2>1. lock[c] = None /\ pc[t] = "enter"
    BY <1>2 DEF Enter
  <2>2. \A u \in Threads : lock[ProcessOf[u]] = u => ProcessOf[u] # c
    BY <2>1, PipeAssumption
  <2>3. QED
    BY <1>0, <1>2, <2>1, <2>2, ProcessType, QuietKeepsStream
    DEF Enter, Return, ClientTypes, wireVars, hostVars
<1>3. CASE Connect(t)
  <2>1. CASE UNCHANGED wireVars
    BY <1>0, <1>3, <2>1, QuietKeepsStream
    DEF Connect, ClientTypes, wireVars, hostVars
  <2>2. CASE ~UNCHANGED wireVars
    BY <1>0, <1>3, <2>2 DEF Connect, OneInstance, StreamBelongs, hostVars
  <2>3. QED
    BY <2>1, <2>2
<1>4. CASE NotFound(t) \/ PipeBusy(t)
  BY <1>0, <1>4, QuietKeepsStream
  DEF NotFound, PipeBusy, ClientTypes, wireVars, hostVars
<1>5. CASE LaunchFailed(t) \/ ConnectFailed(t)
  <2>1. lock[c] = t /\ pc[t] = "connect"
    BY <1>0, <1>5 DEF LaunchFailed, ConnectFailed, LockHeld
  <2>2. \A u \in Threads : lock[ProcessOf[u]] = u /\ u # t => ProcessOf[u] # c
    BY <2>1
  <2>3. QED
    BY <1>0, <1>5, <2>1, <2>2, ProcessType, QuietKeepsStream
    DEF LaunchFailed, ConnectFailed, RetryOrFail, Return, ClientTypes,
        wireVars, hostVars
<1>6. CASE Send(t)
  <2>1. inst = "connected" /\ peer = c /\ UNCHANGED <<inst, host>>
    BY <1>0, <1>6 DEF Send, OneInstance, hostVars
  <2>2. lock[c] = t /\ pc[t] = "send"
    BY <1>0, <1>6 DEF Send, LockHeld
  <2>3. host # "stream"
    BY <1>0, <2>1, <2>2 DEF StreamBelongs, Waits
  <2>4. QED
    BY <2>1, <2>3 DEF StreamBelongs
<1>7. CASE SendFailed(t)
  <2>1. CASE op[t] = "shutdown"
    BY <1>0, <1>7, <2>1, QuietKeepsStream
    DEF SendFailed, ClientTypes, wireVars, hostVars
  <2>2. CASE op[t] # "shutdown"
    BY <1>0, <1>7, <2>2, ProcessType, DisconnectKeepsStream
    DEF SendFailed, RetryOrFail, Return, ClientTypes, hostVars
  <2>3. QED
    BY <2>1, <2>2
<1>8. CASE Deliver(t) \/ EndSpeak(t)
           \/ (ReadPing(t) /\ Incoming(t).kind = "pong")
  <2> DEFINE q == fromHost[c]
  <2>1. /\ q # <<>> /\ pc[t] = "read" /\ lock[c] = t
        /\ UNCHANGED <<toHost, inst, peer, job, sent, host, calls>>
        /\ fromHost' = [fromHost EXCEPT ![c] = Tail(@)]
        /\ \A u \in Threads : u # t => pc'[u] = pc[u] /\ heard'[u] = heard[u]
        /\ \A d \in Processes : d # c => lock'[d] = lock[d]
    BY <1>0, <1>8 DEF Deliver, EndSpeak, ReadPing, Reading, Receive, Return,
                      LockHeld, ClientTypes, hostVars
  <2>2. q \in Seq(Responses) /\ Head(q) = q[1] /\ Len(q) \in Nat \ {0}
    BY <1>0, <2>1, NonEmpty DEF WireTypes
  <2>3. ASSUME host = "stream", inst = "connected"
        PROVE  /\ Waits(job.by, peer)' /\ job.call = calls'[job.by]
               /\ toHost' = <<>>
               /\ sent = Len(heard'[job.by]) + Len(fromHost'[peer])
               /\ \A i \in 1..Len(fromHost'[peer]) : IsChunk(fromHost'[peer][i])
    <3>1. /\ Waits(job.by, peer) /\ job.by \in Threads /\ ProcessOf[job.by] = peer
          /\ job.call = calls[job.by] /\ toHost = <<>>
          /\ sent = Len(heard[job.by]) + Len(fromHost[peer])
          /\ \A i \in 1..Len(fromHost[peer]) : IsChunk(fromHost[peer][i])
      BY <1>0, <2>3 DEF StreamBelongs
    <3>2. CASE peer # c
      <4>1. job.by # t /\ fromHost'[peer] = fromHost[peer]
        BY <1>0, <2>1, <3>1, <3>2, ProcessType DEF WireTypes
      <4>2. lock'[peer] = lock[peer] /\ Waits(job.by, peer)'
        BY <1>0, <2>1, <3>1, <3>2, <4>1, ProcessType DEF Waits
      <4>3. calls' = calls /\ heard'[job.by] = heard[job.by] /\ toHost' = toHost
        BY <2>1, <3>1, <4>1
      <4>4. QED
        BY <3>1, <4>1, <4>2, <4>3
    <3>3. CASE peer = c
      <4>1. job.by = t
        BY <2>1, <3>1, <3>3 DEF Waits
      <4>2. IsChunk(Head(q))
        BY <2>2, <3>1, <3>3
      <4>3. Deliver(t)
        BY <1>8, <4>2 DEF EndSpeak, ReadPing, Incoming, IsChunk
      <4>4. heard' = [heard EXCEPT ![t] = Append(@, Head(q))] /\ pc' = pc /\ lock' = lock
        BY <4>3 DEF Deliver, Incoming
      <4>5. Len(heard[t]) \in Nat /\ Len(heard'[t]) = Len(heard[t]) + 1
        BY <1>0, <4>4 DEF ClientTypes
      <4>6. /\ fromHost'[c] = Tail(q) /\ Len(Tail(q)) = Len(q) - 1
            /\ \A i \in 1..Len(Tail(q)) : IsChunk(Tail(q)[i])
        <5>1. fromHost'[c] = Tail(q) /\ Len(Tail(q)) = Len(q) - 1
          BY <1>0, <2>1, <2>2, NonEmpty DEF WireTypes
        <5>2. ASSUME NEW i \in 1..Len(Tail(q)) PROVE IsChunk(Tail(q)[i])
          BY <2>1, <2>2, <3>1, <3>3, TailElement
        <5>3. QED
          BY <5>1, <5>2
      <4>7. sent = Len(heard'[t]) + Len(Tail(q))
        <5> DEFINE a == Len(heard[t])
        <5> DEFINE b == Len(q)
        <5>1. /\ a \in Nat /\ b \in Nat \ {0} /\ sent = a + b
              /\ Len(heard'[t]) = a + 1 /\ Len(Tail(q)) = b - 1
          BY <2>2, <3>1, <3>3, <4>1, <4>5, <4>6
        <5> HIDE DEF a, b
        <5>2. (a + 1) + (b - 1) = a + b
          BY <5>1
        <5>3. QED
          BY <5>1, <5>2
      <4>8. QED
        BY <2>1, <3>1, <3>3, <4>1, <4>4, <4>6, <4>7 DEF Waits
    <3>4. QED
      BY <3>2, <3>3
  <2>4. QED
    BY <1>0, <2>1, <2>3 DEF StreamBelongs
<1>9. CASE AbortSpeak(t) \/ ReadShutdown(t) \/ ReadFailed(t)
           \/ (ReadPing(t) /\ Incoming(t).kind # "pong")
  <2>1. /\ Disconnect(c) /\ \E o : Return(t, o)
        /\ UNCHANGED <<calls, job, sent, host>>
        /\ \A u \in Threads : u # t => heard'[u] = heard[u]
    BY <1>0, <1>9 DEF AbortSpeak, ReadShutdown, ReadFailed, ReadPing,
                      ClientTypes, hostVars
  <2>2. \A u \in Threads : ProcessOf[u] # c =>
          /\ pc'[u] = pc[u] /\ calls'[u] = calls[u] /\ heard'[u] = heard[u]
          /\ lock'[ProcessOf[u]] = lock[ProcessOf[u]]
    BY <1>0, <2>1, ProcessType DEF Return, ClientTypes
  <2>3. QED
    BY <1>0, <2>1, <2>2, DisconnectKeepsStream
<1>10. QED
  BY <1>1, <1>2, <1>3, <1>4, <1>5, <1>6, <1>7, <1>8, <1>9
  DEF ClientStep

\* What the host synthesizes is the rest of the waiting call: kept by every
\* step.
LEMMA StreamBelongsStep ==
  ASSUME TypeOK, Conversation, Next
  PROVE  StreamBelongs'
<1>0. /\ ClientTypes /\ WireTypes /\ HostTypes /\ LockHeld /\ OneInstance
      /\ AnswersBelong /\ RequestsBelong /\ StreamBelongs
  BY DEF TypeOK, Conversation
<1>1. ASSUME NEW t \in Threads, Begin(t) \/ ClientStep(t)
      PROVE  StreamBelongs'
  BY <1>1, StreamClient
<1>2. ASSUME NEW i \in Installers, InstallerStep(i)
      PROVE  StreamBelongs'
  <2>1. /\ UNCHANGED <<pc, calls, heard, lock, job, sent, host>>
        /\ i \in Peers
    BY <1>2 DEF InstallerStep, AskShutdown, ReportNotRunning,
                ShutdownAnswered, clientVars, hostVars, Peers
  <2>2. CASE AskShutdown(i)
    BY <1>0, <2>1, <2>2 DEF AskShutdown, OneInstance, StreamBelongs
  <2>3. CASE ReportNotRunning(i)
    BY <1>0, <2>1, <2>3, QuietKeepsStream DEF ReportNotRunning, wireVars
  <2>4. CASE ShutdownAnswered(i)
    BY <1>0, <2>1, <2>4, DisconnectKeepsStream DEF ShutdownAnswered
  <2>5. QED
    BY <1>2, <2>2, <2>3, <2>4 DEF InstallerStep
<1>3. ASSUME NEW c \in Processes, Exit(c)
      PROVE  StreamBelongs'
  <2>1. /\ c \in Peers /\ Disconnect(c) /\ UNCHANGED <<job, sent, host>>
        /\ \A u \in Threads : ProcessOf[u] # c =>
             /\ pc'[u] = pc[u] /\ calls'[u] = calls[u] /\ heard'[u] = heard[u]
             /\ lock'[ProcessOf[u]] = lock[ProcessOf[u]]
    BY <1>0, <1>3, ProcessType DEF Exit, ClientTypes, Peers, hostVars
  <2>2. QED
    BY <1>0, <2>1, DisconnectKeepsStream
<1>4. CASE HostStep \/ Crash
  <2>1. UNCHANGED <<pc, calls, heard, lock>>
    BY <1>4 DEF HostStep, Crash, HostGone, Stop, Ready, InitFailed, CreatePipe,
                Accept, HandlePing, HandleSpeak, RejectSpeak, HandleShutdown,
                PeerLeft, EmitChunk, EmitFailed, FinishSpeak, HangUp, clientVars
  <2>2. CASE HandleSpeak
    <3>1. /\ toHost' = <<>> /\ job' = Head(toHost) /\ sent' = 0
          /\ UNCHANGED <<inst, peer, fromHost>>
          /\ Head(toHost) = toHost[1] /\ toHost # <<>>
          /\ Head(toHost).kind = "speak"
      BY <1>0, <2>2, CommandWaits DEF HandleSpeak, Command
    <3>2. job'.by \in Threads /\ ProcessOf[job'.by] = peer
      BY <1>0, <3>1 DEF RequestsBelong
    <3>3. inst = "connected" =>
            /\ Waits(job'.by, peer) /\ job'.call = calls[job'.by]
            /\ heard[job'.by] = <<>> /\ fromHost[peer] = <<>>
      BY <1>0, <2>2, <3>1, <3>2, ProcessType, CommandWaits DEF HandleSpeak
    <3>4. Len(<<>>) = 0 /\ 0 = 0 + 0 /\ 1..0 = {}
      OBVIOUS
    <3>5. QED
      BY <2>1, <3>1, <3>2, <3>3, <3>4 DEF StreamBelongs, Waits
  <2>3. CASE EmitChunk
    <3>1. /\ host = "stream" /\ inst = "connected" /\ sent' = sent + 1
          /\ UNCHANGED <<inst, peer, toHost, job, host>>
          /\ Reply(Response(ChunkKind(sent + 1), job, sent + 1))
      BY <2>3 DEF EmitChunk
    <3> DEFINE m == Response(ChunkKind(sent + 1), job, sent + 1)
    <3> DEFINE q == fromHost[peer]
    <3>2. peer \in Peers /\ job.by \in Threads
      BY <1>0, <3>1 DEF OneInstance, StreamBelongs
    <3>3. fromHost'[peer] = Append(q, m) /\ q \in Seq(Responses)
      BY <1>0, <3>1, <3>2 DEF Reply, WireTypes
    <3>4. IsChunk(m) /\ m \in Responses
      BY <1>0, <3>1, ResponseType DEF Response, ChunkKind, IsChunk, HostTypes
    <3>5. /\ sent = Len(heard[job.by]) + Len(q)
          /\ \A i \in 1..Len(q) : IsChunk(q[i])
      BY <1>0, <3>1 DEF StreamBelongs
    <3> HIDE DEF m
    <3>6. /\ Len(Append(q, m)) = Len(q) + 1
          /\ \A i \in 1..Len(Append(q, m)) : IsChunk(Append(q, m)[i])
      BY <3>3, <3>4, <3>5
    <3>7. Len(heard[job.by]) \in Nat /\ Len(q) \in Nat
      BY <1>0, <3>2, <3>3 DEF ClientTypes
    <3>8. sent + 1 = Len(heard[job.by]) + Len(Append(q, m))
      <4> DEFINE a == Len(heard[job.by])
      <4> DEFINE b == Len(q)
      <4>1. a \in Nat /\ b \in Nat /\ sent = a + b /\ Len(Append(q, m)) = b + 1
        BY <3>5, <3>6, <3>7
      <4> HIDE DEF a, b
      <4>2. (a + b) + 1 = a + (b + 1)
        BY <4>1
      <4>3. sent + 1 = a + Len(Append(q, m))
        BY <4>1, <4>2
      <4>4. QED
        BY <4>3 DEF a
    <3>9. QED
      BY <1>0, <2>1, <3>1, <3>3, <3>6, <3>8 DEF StreamBelongs, Waits
  <2>4. CASE host' # "stream"
    BY <2>4 DEF StreamBelongs
  <2>5. QED
    <3>1. ASSUME HandlePing PROVE host' # "stream"
      BY <3>1 DEF HandlePing, Command, hostVars
    <3>2. QED
      BY <1>4, <2>2, <2>3, <2>4, <3>1
      DEF HostStep, Ready, InitFailed, CreatePipe, Accept, RejectSpeak,
          HandleShutdown, PeerLeft, EmitFailed, FinishSpeak, HangUp, Stop,
          Crash, HostGone
<1>5. QED
  BY <1>1, <1>2, <1>3, <1>4 DEF Next

-----------------------------------------------------------------------------
(* Conversation                                                            *)

\* Nothing is open, unread or in synthesis at first.
LEMMA ConversationInit ==
  ASSUME Init
  PROVE  Conversation
<1>1. LockHeld
  BY PipeAssumption DEF Init, LockHeld
<1>2. OneInstance
  BY DEF Init, OneInstance
<1>3. AnswersBelong
  BY DEF Init, AnswersBelong, Peers
<1>4. RequestsBelong /\ StreamBelongs
  BY DEF Init, RequestsBelong, StreamBelongs
<1>5. QED
  BY <1>1, <1>2, <1>3, <1>4 DEF Conversation

\* Every step of the clients, of setup and of the host keeps the conversation
\* in order, and so does a crash.
LEMMA ConversationStep ==
  ASSUME TypeOK, Conversation, [Next]_vars
  PROVE  Conversation'
<1>1. CASE Next
  <2>1. LockHeld' /\ OneInstance'
    BY <1>1, LockHeldStep, OneInstanceStep DEF Conversation
  <2>2. AnswersBelong' /\ RequestsBelong' /\ StreamBelongs'
    BY <1>1, AnswersBelongStep, RequestsBelongStep, StreamBelongsStep
  <2>3. QED
    BY <2>1, <2>2 DEF Conversation
<1>2. CASE UNCHANGED vars
  <2>1. UNCHANGED <<pc, op, calls, heard, lock, pipe, inst, peer, toHost,
                    fromHost, host, job, sent>>
    BY <1>2 DEF vars, clientVars, wireVars, hostVars
  <2>2. LockHeld' /\ OneInstance'
    BY <2>1 DEF Conversation, LockHeld, OneInstance
  <2>3. AnswersBelong' /\ RequestsBelong' /\ StreamBelongs'
    BY <2>1 DEF Conversation, AnswersBelong, RequestsBelong, StreamBelongs,
                Waits
  <2>4. QED
    BY <2>2, <2>3 DEF Conversation
<1>3. QED
  BY <1>1, <1>2

\* The critical section, the handles and the pipe's contents agree in every
\* reachable state: whatever is in the pipe is part of the answer to the one
\* call that waits for it.
THEOREM ConversationHolds == Spec => []Conversation
<1>1. Init => Conversation
  BY ConversationInit
<1>2. TypeOK /\ Conversation /\ [Next]_vars => Conversation'
  BY ConversationStep
<1>3. QED
  BY <1>1, <1>2, TypeCorrect, PTL DEF Spec

-----------------------------------------------------------------------------
(* What the callbacks are given                                            *)

\* The message a thread reads next, in an orderly conversation, is the chunk
\* that follows the ones it has heard.
LEMMA NextChunk ==
  ASSUME TypeOK, Conversation, NEW t \in Threads, Reading(t, "speak"),
         IsChunk(Incoming(t))
  PROVE  Incoming(t) = [kind |-> ChunkKind(Len(heard[t]) + 1), by |-> t,
                        call |-> calls[t], n |-> Len(heard[t]) + 1]
<1> DEFINE q == fromHost[ProcessOf[t]]
<1>1. q # <<>> /\ pc[t] = "read" /\ Incoming(t) = Head(q)
  BY DEF Reading, Incoming
<1>2. lock[ProcessOf[t]] = t
  BY <1>1 DEF Conversation, LockHeld
<1>3. IsAnswer(q, t, calls[t], Len(heard[t]))
  BY <1>1, <1>2, ProcessType DEF Conversation, AnswersBelong
<1>4. q \in Seq(Responses) /\ Len(heard[t]) \in Nat
  BY ProcessType DEF TypeOK, WireTypes, ClientTypes
<1>5. /\ Head(q) \in Responses /\ Head(q).by = t /\ Head(q).call = calls[t]
      /\ Head(q).n = Len(heard[t]) + 1
      /\ Head(q).kind = ChunkKind(Len(heard[t]) + 1)
  BY <1>1, <1>3, <1>4, AnswerTail
<1>6. QED
  BY <1>1, <1>5 DEF Responses

\* Appending that chunk keeps OwnChunksInOrder.
LEMMA HearNext ==
  ASSUME TypeOK, OwnChunksInOrder, NEW t \in Threads, calls' = calls,
         heard' = [heard EXCEPT ![t] = Append(@,
           [kind |-> ChunkKind(Len(heard[t]) + 1), by |-> t,
            call |-> calls[t], n |-> Len(heard[t]) + 1])]
  PROVE  OwnChunksInOrder'
<1> DEFINE m == [kind |-> ChunkKind(Len(heard[t]) + 1), by |-> t,
                 call |-> calls[t], n |-> Len(heard[t]) + 1]
<1>1. heard \in [Threads -> Seq(Responses)] /\ heard[t] \in Seq(Responses)
  BY DEF TypeOK, ClientTypes
<1> SUFFICES ASSUME NEW u \in Threads, NEW i \in 1..Len(heard'[u])
             PROVE  heard'[u][i] = [kind |-> ChunkKind(i), by |-> u,
                                    call |-> calls[u], n |-> i]
  BY DEF OwnChunksInOrder
<1>2. CASE u # t
  <2>1. heard'[u] = heard[u]
    BY <1>1, <1>2
  <2>2. QED
    BY <2>1 DEF OwnChunksInOrder
<1>3. CASE u = t
  <2>1. heard'[u] = Append(heard[t], m)
    BY <1>1, <1>3
  <2> HIDE DEF m
  <2>2. /\ Len(heard'[u]) = Len(heard[t]) + 1
        /\ heard'[u][Len(heard[t]) + 1] = m
        /\ \A j \in 1..Len(heard[t]) : heard'[u][j] = heard[t][j]
    BY <1>1, <2>1
  <2>3. CASE i \in 1..Len(heard[t])
    BY <1>3, <2>2, <2>3 DEF OwnChunksInOrder
  <2>4. CASE i = Len(heard[t]) + 1
    BY <1>3, <2>2, <2>4 DEF m
  <2>5. Len(heard[t]) \in Nat
    BY <1>1
  <2>6. QED
    BY <2>2, <2>3, <2>4, <2>5
<1>4. QED
  BY <1>2, <1>3

\* What the callbacks have been given stays the ordered beginning of the
\* current call's own utterance, whatever step is taken.
LEMMA OwnChunksStep ==
  ASSUME TypeOK, Conversation, OwnChunksInOrder, [Next]_vars
  PROVE  OwnChunksInOrder'
<1>0. ClientTypes
  BY DEF TypeOK
<1>1. ASSUME UNCHANGED <<heard, calls>>
      PROVE  OwnChunksInOrder'
  BY <1>1 DEF OwnChunksInOrder
<1>2. ASSUME NEW t \in Threads, Begin(t)
      PROVE  OwnChunksInOrder'
  <2> SUFFICES ASSUME NEW u \in Threads, NEW i \in 1..Len(heard'[u])
               PROVE  heard'[u][i] = [kind |-> ChunkKind(i), by |-> u,
                                      call |-> calls'[u], n |-> i]
    BY DEF OwnChunksInOrder
  <2>1. u # t
    <3>1. heard' = [heard EXCEPT ![t] = <<>>] /\ heard \in [Threads -> Seq(Responses)]
      BY <1>0, <1>2 DEF Begin, ClientTypes
    <3>2. u = t => heard'[u] = <<>>
      BY <3>1
    <3>3. 1..Len(<<>>) = {}
      OBVIOUS
    <3>4. QED
      BY <3>2, <3>3
  <2>2. heard'[u] = heard[u] /\ calls'[u] = calls[u]
    BY <1>0, <1>2, <2>1 DEF Begin, ClientTypes
  <2>3. QED
    BY <2>2 DEF OwnChunksInOrder
<1>3. ASSUME NEW t \in Threads, Deliver(t) \/ AbortSpeak(t)
      PROVE  OwnChunksInOrder'
  <2>1. /\ Reading(t, "speak") /\ IsChunk(Incoming(t)) /\ calls' = calls
        /\ heard' = [heard EXCEPT ![t] = Append(@, Incoming(t))]
    BY <1>3 DEF Deliver, AbortSpeak, IsChunk
  <2>2. Incoming(t) = [kind |-> ChunkKind(Len(heard[t]) + 1), by |-> t,
                       call |-> calls[t], n |-> Len(heard[t]) + 1]
    BY <2>1, NextChunk
  <2>3. QED
    BY <2>1, <2>2, HearNext
<1>4. ASSUME NEW t \in Threads, ClientStep(t)
      PROVE  OwnChunksInOrder'
  <2>1. CASE Deliver(t) \/ AbortSpeak(t)
    BY <1>3, <2>1
  <2>2. CASE ~(Deliver(t) \/ AbortSpeak(t))
    BY <1>1, <1>4, <2>2
    DEF ClientStep, Enter, Connect, NotFound, LaunchFailed, PipeBusy,
        ConnectFailed, Send, SendFailed, EndSpeak, ReadPing, ReadShutdown,
        ReadFailed
  <2>3. QED
    BY <2>1, <2>2
<1>5. ASSUME \/ \E i \in Installers : InstallerStep(i)
             \/ \E c \in Processes : Exit(c)
             \/ HostStep
             \/ Crash
      PROVE  OwnChunksInOrder'
  <2>1. UNCHANGED <<heard, calls>>
    BY <1>5 DEF InstallerStep, AskShutdown, ReportNotRunning,
                ShutdownAnswered, HostStep, Crash, HostGone, Stop, Ready,
                InitFailed, CreatePipe, Accept, HandlePing, HandleSpeak,
                RejectSpeak, HandleShutdown, PeerLeft, EmitChunk, EmitFailed,
                FinishSpeak, HangUp, Exit, clientVars
  <2>2. QED
    BY <1>1, <2>1
<1>6. CASE UNCHANGED vars
  BY <1>1, <1>6 DEF vars, clientVars
<1>7. QED
  BY <1>2, <1>4, <1>5, <1>6 DEF Next

\* readMessage never hands a thread a chunk of another call, nor its own
\* chunks out of order, twice or with a gap.
THEOREM OwnChunks == Spec => []OwnChunksInOrder
<1>1. Init => OwnChunksInOrder
  <2>1. 1..Len(<<>>) = {}
    OBVIOUS
  <2>2. QED
    BY <2>1 DEF Init, OwnChunksInOrder
<1>2. TypeOK /\ Conversation /\ OwnChunksInOrder /\ [Next]_vars
        => OwnChunksInOrder'
  BY OwnChunksStep
<1>3. QED
  BY <1>1, <1>2, TypeCorrect, ConversationHolds, PTL DEF Spec

-----------------------------------------------------------------------------
(* What the host synthesizes                                               *)

\* Synthesis is started only for a caller that still waits and has heard
\* nothing, or whose process is gone.
LEMMA SynthesisStep ==
  ASSUME TypeOK, Conversation, [Next]_vars, host # "stream", host' = "stream"
  PROVE  \/ pc[job'.by] = "gone"
         \/ /\ pc[job'.by] = "read"
            /\ job'.call = calls[job'.by]
            /\ heard[job'.by] = <<>>
            /\ peer = ProcessOf[job'.by]
<1>1. HandleSpeak
  BY DEF Next, ClientStep, Begin, Enter, Connect, NotFound, LaunchFailed,
         PipeBusy, ConnectFailed, Send, SendFailed, Deliver, AbortSpeak,
         EndSpeak, ReadPing, ReadShutdown, ReadFailed, InstallerStep,
         AskShutdown, ReportNotRunning, ShutdownAnswered, HostStep, Crash,
         HostGone, Stop, Ready, InitFailed, CreatePipe, Accept, HandlePing,
         RejectSpeak, HandleShutdown, PeerLeft, EmitChunk, EmitFailed,
         FinishSpeak, HangUp, Exit, vars, hostVars
<1>2. /\ job' = Head(toHost) /\ toHost # <<>> /\ Head(toHost).kind = "speak"
      /\ host = "serve"
  BY <1>1 DEF HandleSpeak, Command
<1>3. Head(toHost) = toHost[1]
  BY <1>2, NonEmpty DEF TypeOK, WireTypes
<1>4. /\ inst \in {"connected", "dropped"}
      /\ job'.by \in Threads /\ ProcessOf[job'.by] = peer
  BY <1>2, <1>3 DEF Conversation, OneInstance, RequestsBelong
<1>5. peer \in Processes
  BY <1>4, ProcessType
<1>6. QED
  BY <1>2, <1>3, <1>4, <1>5 DEF Conversation, RequestsBelong, Waits

\* The host never speaks an utterance for a call that has moved on: a retry
\* does not speak twice, and no request outlives its caller in the pipe to be
\* spoken to somebody else.
THEOREM NoStale == Spec => NoStaleSynthesis
<1>1. TypeOK /\ Conversation /\ [Next]_vars =>
        [host # "stream" /\ host' = "stream" =>
           \/ pc[job'.by] = "gone"
           \/ /\ pc[job'.by] = "read"
              /\ job'.call = calls[job'.by]
              /\ heard[job'.by] = <<>>
              /\ peer = ProcessOf[job'.by]]_vars
  BY SynthesisStep
<1>2. QED
  BY <1>1, TypeCorrect, ConversationHolds, PTL DEF Spec, NoStaleSynthesis

-----------------------------------------------------------------------------
(* Success and the service                                                 *)

\* A call under way has no outcome yet.
OutcomeOpen ==
  \A t \in Threads : pc[t] \notin {"idle", "gone"} => outcome[t] = "none"

\* An unread command of a connected client is the operation its caller runs.
CommandIsOp ==
  toHost # <<>> /\ inst = "connected" /\ peer \in Processes =>
    toHost[1].kind = op[toHost[1].by]

\* No response numbers a chunk beyond the end of its utterance.
ChunksFit ==
  \A c \in Peers : \A i \in 1..Len(fromHost[c]) :
    IsChunk(fromHost[c][i]) => fromHost[c][i].n <= Length[fromHost[c][i].by]

\* Without engine failures an unread END stands where the utterance ends.
EndsComplete ==
  \A t \in Threads :
    pc[t] = "read" /\ op[t] = "speak" /\ ~EngineMayFail =>
      \A i \in 1..Len(fromHost[ProcessOf[t]]) :
        fromHost[ProcessOf[t]][i].kind = "end" =>
          Len(heard[t]) + i = Length[t] + 1

\* Each of these is kept by the steps that leave its variables alone.
LEMMA OutcomeStep ==
  ASSUME TypeOK, OutcomeOpen, [Next]_vars
  PROVE  OutcomeOpen'
<1>0. ClientTypes
  BY DEF TypeOK
<1>1. ASSUME UNCHANGED <<pc, outcome>> PROVE OutcomeOpen'
  BY <1>1 DEF OutcomeOpen
<1>2. ASSUME NEW t \in Threads, Begin(t) PROVE OutcomeOpen'
  BY <1>0, <1>2 DEF Begin, OutcomeOpen, ClientTypes
<1>3. ASSUME NEW t \in Threads, ClientStep(t) PROVE OutcomeOpen'
  <2>1. ASSUME NEW o, Return(t, o) PROVE OutcomeOpen'
    BY <1>0, <2>1 DEF Return, OutcomeOpen, ClientTypes
  <2>2. ASSUME pc[t] \notin {"idle", "gone"}, outcome' = outcome,
               \A u \in Threads : u # t => pc'[u] = pc[u]
        PROVE  OutcomeOpen'
    BY <2>2 DEF OutcomeOpen
  <2>3. ASSUME RetryOrFail(t), pc[t] \notin {"idle", "gone"} PROVE OutcomeOpen'
    BY <1>0, <2>1, <2>2, <2>3 DEF RetryOrFail, ClientTypes
  <2>4. CASE Enter(t)
    BY <1>0, <2>1, <2>2, <2>4 DEF Enter, ClientTypes
  <2>5. CASE Connect(t) \/ NotFound(t) \/ PipeBusy(t) \/ Send(t) \/ Deliver(t)
    <3>1. pc[t] \notin {"idle", "gone"} /\ outcome' = outcome
      BY <2>5 DEF Connect, NotFound, PipeBusy, Send, Deliver, Reading
    <3>2. \A u \in Threads : u # t => pc'[u] = pc[u]
      BY <1>0, <2>5 DEF Connect, NotFound, PipeBusy, Send, Deliver, ClientTypes
    <3> QED BY <2>2, <3>1, <3>2
  <2>6. CASE LaunchFailed(t) \/ ConnectFailed(t)
    BY <2>3, <2>6 DEF LaunchFailed, ConnectFailed
  <2>7. CASE SendFailed(t)
    BY <1>0, <2>2, <2>3, <2>7 DEF SendFailed, ClientTypes
  <2>8. CASE AbortSpeak(t) \/ EndSpeak(t) \/ ReadPing(t) \/ ReadShutdown(t)
             \/ ReadFailed(t)
    BY <2>1, <2>8 DEF AbortSpeak, EndSpeak, ReadPing, ReadShutdown, ReadFailed
  <2> QED
    BY <1>3, <2>4, <2>5, <2>6, <2>7, <2>8 DEF ClientStep
<1>4. ASSUME NEW c \in Processes, Exit(c) PROVE OutcomeOpen'
  BY <1>0, <1>4 DEF Exit, OutcomeOpen, ClientTypes
<1>5. ASSUME NEW i \in Installers, InstallerStep(i) PROVE OutcomeOpen'
  BY <1>1, <1>5 DEF InstallerStep, AskShutdown, ReportNotRunning,
                    ShutdownAnswered, clientVars
<1>6. CASE HostStep \/ Crash
  BY <1>1, <1>6
  DEF HostStep, Crash, HostGone, Stop, Ready, InitFailed, CreatePipe, Accept,
      HandlePing, HandleSpeak, RejectSpeak, HandleShutdown, PeerLeft,
      EmitChunk, EmitFailed, FinishSpeak, HangUp, clientVars
<1>7. CASE UNCHANGED vars
  BY <1>1, <1>7 DEF vars, clientVars
<1> QED
  BY <1>2, <1>3, <1>4, <1>5, <1>6, <1>7 DEF Next

LEMMA CommandStep ==
  ASSUME TypeOK, Conversation, CommandIsOp, [Next]_vars
  PROVE  CommandIsOp'
<1>0. /\ ClientTypes /\ WireTypes /\ LockHeld /\ OneInstance /\ RequestsBelong
      /\ AnswersBelong
  BY DEF TypeOK, Conversation
<1>1. ASSUME UNCHANGED <<toHost, op>>,
             inst' = "connected" /\ peer' \in Processes =>
               inst = "connected" /\ peer \in Processes
      PROVE  CommandIsOp'
  BY <1>1 DEF CommandIsOp
<1>2. ASSUME toHost' = <<>> PROVE CommandIsOp'
  BY <1>2 DEF CommandIsOp
<1>3. ASSUME NEW t \in Threads, Begin(t) PROVE CommandIsOp'
  <2>1. UNCHANGED wireVars /\ pc[t] = "idle"
        /\ \A u \in Threads : u # t => op'[u] = op[u]
    BY <1>0, <1>3 DEF Begin, ClientTypes
  <2> QED
    BY <1>0, <2>1 DEF CommandIsOp, RequestsBelong, Waits, wireVars
<1>4. ASSUME NEW t \in Threads, Send(t) PROVE CommandIsOp'
  <2>1. /\ inst = "connected" /\ peer = ProcessOf[t] /\ pc[t] = "send"
        /\ lock[ProcessOf[t]] = t /\ op' = op
        /\ toHost' = Append(toHost, Request(t))
    BY <1>0, <1>4, ProcessType DEF Send, OneInstance, LockHeld
  <2>2. toHost = <<>>
    BY <1>0, <2>1, ProcessType DEF RequestsBelong, Waits
  <2>3. toHost'[1] = Request(t)
    BY <2>1, <2>2
  <2> QED
    BY <2>1, <2>3 DEF CommandIsOp, Request
<1>5. ASSUME NEW t \in Threads, Connect(t) PROVE CommandIsOp'
  <2>1. CASE UNCHANGED wireVars
    BY <1>1, <1>5, <2>1 DEF Connect, wireVars
  <2>2. CASE inst = "listening" /\ UNCHANGED toHost
    BY <1>0, <1>2, <2>2 DEF OneInstance
  <2> QED BY <1>5, <2>1, <2>2 DEF Connect
<1>6. ASSUME NEW t \in Threads, ClientStep(t) PROVE CommandIsOp'
  <2>1. ASSUME NEW c, Disconnect(c), UNCHANGED op PROVE CommandIsOp'
    BY <1>1, <2>1 DEF Disconnect
  <2>2. CASE Enter(t) \/ NotFound(t) \/ LaunchFailed(t) \/ PipeBusy(t)
             \/ ConnectFailed(t)
    BY <1>1, <2>2 DEF Enter, NotFound, LaunchFailed, PipeBusy, ConnectFailed,
                      wireVars
  <2>3. CASE Deliver(t) \/ EndSpeak(t)
    BY <1>1, <2>3 DEF Deliver, EndSpeak, Receive
  <2>4. CASE SendFailed(t)
    BY <1>1, <2>1, <2>4 DEF SendFailed, wireVars
  <2>5. CASE ReadPing(t)
    BY <1>1, <2>1, <2>5 DEF ReadPing, Receive
  <2>6. CASE AbortSpeak(t) \/ ReadShutdown(t) \/ ReadFailed(t)
    BY <2>1, <2>6 DEF AbortSpeak, ReadShutdown, ReadFailed
  <2> QED
    BY <1>4, <1>5, <1>6, <2>2, <2>3, <2>4, <2>5, <2>6 DEF ClientStep
<1>7. ASSUME NEW i \in Installers, InstallerStep(i) PROVE CommandIsOp'
  <2>1. CASE AskShutdown(i)
    BY <2>1, PipeAssumption DEF AskShutdown, CommandIsOp
  <2>2. CASE ReportNotRunning(i) \/ ShutdownAnswered(i)
    BY <1>1, <2>2 DEF ReportNotRunning, ShutdownAnswered, Disconnect,
                      clientVars, wireVars
  <2> QED BY <1>7, <2>1, <2>2 DEF InstallerStep
<1>8. ASSUME NEW c \in Processes, Exit(c) PROVE CommandIsOp'
  BY <1>1, <1>8 DEF Exit, Disconnect
<1>9. CASE HandlePing \/ HandleSpeak \/ RejectSpeak \/ HandleShutdown
  <2>1. toHost' = Tail(toHost) /\ \E k : Command(k)
    BY <1>9 DEF HandlePing, HandleSpeak, RejectSpeak, HandleShutdown
  <2> QED
    BY <1>0, <1>2, <2>1, CommandWaits
<1>10. CASE HostStep \/ Crash
  <2>1. CASE Ready \/ InitFailed \/ Accept \/ PeerLeft \/ EmitFailed \/ Stop
    BY <1>1, <2>1 DEF Ready, InitFailed, Accept, PeerLeft, EmitFailed, Stop,
                      HostGone, clientVars, wireVars
  <2>2. CASE CreatePipe \/ EmitChunk \/ FinishSpeak
    BY <1>1, <2>2 DEF CreatePipe, EmitChunk, FinishSpeak, clientVars
  <2>3. CASE HangUp \/ Crash
    BY <1>2, <2>3 DEF HangUp, Crash, BreakPipe
  <2> QED
    BY <1>9, <1>10, <2>1, <2>2, <2>3 DEF HostStep
<1>11. CASE UNCHANGED vars
  BY <1>1, <1>11 DEF vars, clientVars, wireVars
<1> QED
  BY <1>3, <1>6, <1>7, <1>8, <1>10, <1>11 DEF Next

\* One thread of a process waits for answers: the owner of its lock.
LEMMA ReaderOwns ==
  ASSUME LockHeld, NEW t \in Threads, NEW u \in Threads,
         ProcessOf[t] = ProcessOf[u],
         pc[t] \in {"connect", "send", "read"}, lock[ProcessOf[u]] = u
  PROVE  t = u
BY DEF LockHeld

\* Reading from a pipe and closing it leave only responses that fitted.
LEMMA ChunksStep ==
  ASSUME TypeOK, Conversation, ChunksFit, [Next]_vars
  PROVE  ChunksFit'
<1>0. WireTypes /\ HostTypes /\ StreamBelongs
  BY DEF TypeOK, Conversation
<1>1. ASSUME fromHost' = fromHost PROVE ChunksFit'
  BY <1>1 DEF ChunksFit
<1>2. ASSUME NEW c, Disconnect(c) PROVE ChunksFit'
  <2> SUFFICES ASSUME NEW d \in Peers, NEW i \in 1..Len(fromHost'[d]),
                      IsChunk(fromHost'[d][i])
               PROVE  fromHost'[d][i].n <= Length[fromHost'[d][i].by]
    BY DEF ChunksFit
  <2>1. fromHost' = [fromHost EXCEPT ![c] = <<>>]
    BY <1>2 DEF Disconnect
  <2>2. d # c
    <3>1. d = c => fromHost'[d] = <<>>
      BY <1>0, <2>1 DEF WireTypes
    <3>2. 1..Len(<<>>) = {}
      OBVIOUS
    <3> QED BY <3>1, <3>2
  <2>3. fromHost'[d] = fromHost[d]
    BY <1>0, <2>1, <2>2 DEF WireTypes
  <2> QED BY <2>3 DEF ChunksFit
<1>3. ASSUME NEW c \in Peers, Receive(c) PROVE ChunksFit'
  <2> SUFFICES ASSUME NEW d \in Peers, NEW i \in 1..Len(fromHost'[d]),
                      IsChunk(fromHost'[d][i])
               PROVE  fromHost'[d][i].n <= Length[fromHost'[d][i].by]
    BY DEF ChunksFit
  <2>1. CASE d # c
    <3>1. fromHost'[d] = fromHost[d]
      BY <1>0, <1>3, <2>1 DEF Receive, WireTypes
    <3> QED BY <3>1 DEF ChunksFit
  <2>2. CASE d = c
    <3>1. fromHost[c] \in Seq(Responses) /\ fromHost[c] # <<>>
          /\ fromHost'[d] = Tail(fromHost[c])
      BY <1>0, <1>3, <2>2 DEF Receive, WireTypes
    <3>2. fromHost'[d][i] = fromHost[c][i + 1] /\ i + 1 \in 1..Len(fromHost[c])
      BY <3>1, TailElement
    <3> QED BY <3>2 DEF ChunksFit
  <2> QED BY <2>1, <2>2
<1>4. ASSUME NEW m \in Responses, Reply(m), IsChunk(m) => m.n <= Length[m.by]
      PROVE  ChunksFit'
  <2>1. CASE fromHost' = [fromHost EXCEPT ![peer] = Append(@, m)]
    <3> SUFFICES ASSUME NEW d \in Peers, NEW i \in 1..Len(fromHost'[d]),
                        IsChunk(fromHost'[d][i])
                 PROVE  fromHost'[d][i].n <= Length[fromHost'[d][i].by]
      BY DEF ChunksFit
    <3>1. CASE d # peer
      <4>1. fromHost'[d] = fromHost[d]
        BY <1>0, <2>1, <3>1 DEF WireTypes
      <4> QED BY <4>1 DEF ChunksFit
    <3>2. CASE d = peer
      <4>1. fromHost[d] \in Seq(Responses) /\ fromHost'[d] = Append(fromHost[d], m)
        BY <1>0, <2>1, <3>2 DEF WireTypes
      <4>2. \/ i \in 1..Len(fromHost[d]) /\ fromHost'[d][i] = fromHost[d][i]
            \/ fromHost'[d][i] = m
        BY <4>1
      <4> QED BY <1>4, <4>2 DEF ChunksFit
    <3> QED BY <3>1, <3>2
  <2> QED BY <1>1, <1>4, <2>1 DEF Reply
<1>5. ASSUME NEW t \in Threads, Begin(t) \/ ClientStep(t) PROVE ChunksFit'
  <2>1. CASE UNCHANGED fromHost
    BY <1>1, <2>1
  <2>2. CASE \E c \in Peers : Disconnect(c) \/ Receive(c)
    BY <1>2, <1>3, <2>2
  <2> QED
    BY <1>5, <2>1, <2>2, ProcessType
    DEF Begin, ClientStep, Enter, Connect, NotFound, LaunchFailed, PipeBusy,
        ConnectFailed, Send, SendFailed, Deliver, AbortSpeak, EndSpeak,
        ReadPing, ReadShutdown, ReadFailed, wireVars
<1>6. ASSUME NEW i \in Installers, InstallerStep(i) PROVE ChunksFit'
  BY <1>1, <1>2, <1>6 DEF InstallerStep, AskShutdown, ReportNotRunning,
                          ShutdownAnswered, wireVars
<1>7. ASSUME NEW c \in Processes, Exit(c) PROVE ChunksFit'
  BY <1>2, <1>7 DEF Exit
<1>8. CASE HandlePing \/ RejectSpeak \/ HandleShutdown
  <2>1. PICK k \in {"pong", "error", "end"} : Reply(Response(k, Head(toHost), 0))
    BY <1>8 DEF HandlePing, RejectSpeak, HandleShutdown
  <2>2. Head(toHost) \in Requests
    BY <1>0, <1>8 DEF HandlePing, RejectSpeak, HandleShutdown, Command, WireTypes
  <2>3. Response(k, Head(toHost), 0) \in Responses
        /\ ~IsChunk(Response(k, Head(toHost), 0))
    BY <2>2, ResponseType DEF Response, IsChunk
  <2> QED BY <1>4, <2>1, <2>3
<1>9. CASE EmitChunk
  <2>1. /\ job \in Requests /\ job.by \in Threads /\ sent \in Nat
        /\ sent < Length[job.by]
    BY <1>0, <1>9 DEF EmitChunk, HostTypes, StreamBelongs
  <2> DEFINE m == Response(ChunkKind(sent + 1), job, sent + 1)
  <2>2. m \in Responses
    BY <2>1, ResponseType DEF ChunkKind
  <2>3. m.n = sent + 1 /\ m.by = job.by
    BY DEF Response
  <2>4. Length[job.by] \in Nat
    BY <2>1, PipeAssumption
  <2>5. m.n <= Length[m.by] /\ Reply(m)
    BY <1>9, <2>1, <2>3, <2>4 DEF EmitChunk
  <2> HIDE DEF m
  <2> QED BY <1>4, <2>2, <2>5
<1>10. CASE FinishSpeak
  <2>1. job \in Requests
    BY <1>0, <1>10 DEF FinishSpeak, HostTypes
  <2>2. PICK status \in {0, 1} : Reply(Response("end", job, status))
    BY <1>10 DEF FinishSpeak
  <2>3. Response("end", job, status) \in Responses
        /\ ~IsChunk(Response("end", job, status))
    BY <2>1, ResponseType DEF Response, IsChunk
  <2> QED BY <1>4, <2>2, <2>3
<1>11. CASE HostStep \/ Crash
  BY <1>1, <1>8, <1>9, <1>10, <1>11
  DEF HostStep, Crash, BreakPipe, Stop, HangUp, Ready, InitFailed, CreatePipe,
      Accept, HandleSpeak, PeerLeft, EmitFailed, wireVars
<1>12. CASE UNCHANGED vars
  BY <1>1, <1>12 DEF vars, wireVars
<1> QED
  BY <1>5, <1>6, <1>7, <1>11, <1>12 DEF Next

\* The END a thread may find: EndsComplete as one thread sees it.
EndsAt(t) ==
  \A i \in 1..Len(fromHost[ProcessOf[t]]) :
    fromHost[ProcessOf[t]][i].kind = "end" => Len(heard[t]) + i = Length[t] + 1

\* A step of a thread that does not wait for an utterance afterwards, and that
\* touches the responses of its process only while it owns the lock.
LEMMA OthersEnd ==
  ASSUME LockHeld, EndsComplete, NEW t \in Threads,
         pc'[t] = "read" => op'[t] # "speak",
         \A u \in Threads : u # t =>
           pc'[u] = pc[u] /\ op'[u] = op[u] /\ heard'[u] = heard[u],
         \A d \in Processes : d # ProcessOf[t] => fromHost'[d] = fromHost[d],
         fromHost' = fromHost \/ lock[ProcessOf[t]] = t
  PROVE  EndsComplete'
<1> SUFFICES ASSUME NEW u \in Threads, pc'[u] = "read", op'[u] = "speak",
                    ~EngineMayFail
             PROVE  EndsAt(u)'
  BY DEF EndsComplete, EndsAt
<1>1. u # t /\ pc[u] = "read" /\ op[u] = "speak" /\ heard'[u] = heard[u]
  OBVIOUS
<1>2. EndsAt(u)
  BY <1>1 DEF EndsComplete, EndsAt
<1>3. fromHost'[ProcessOf[u]] = fromHost[ProcessOf[u]]
  BY <1>1, ReaderOwns, ProcessType
<1> QED BY <1>1, <1>2, <1>3 DEF EndsAt

\* What the host writes may end an utterance only where it ends.
LEMMA ReplyKeepsEnds ==
  ASSUME TypeOK, EndsComplete, UNCHANGED clientVars, NEW m \in Responses, Reply(m),
         ASSUME NEW t \in Threads, inst = "connected", ProcessOf[t] = peer,
                pc[t] = "read", op[t] = "speak", ~EngineMayFail, m.kind = "end"
         PROVE  Len(heard[t]) + Len(fromHost[peer]) = Length[t]
  PROVE  EndsComplete'
<1>0. ClientTypes /\ WireTypes /\ UNCHANGED <<pc, op, heard>>
  BY DEF TypeOK, clientVars
<1> SUFFICES ASSUME NEW u \in Threads, pc[u] = "read", op[u] = "speak",
                    ~EngineMayFail
             PROVE  EndsAt(u)'
  BY <1>0 DEF EndsComplete, EndsAt
<1>1. EndsAt(u)
  BY DEF EndsComplete, EndsAt
<1> DEFINE q == fromHost[ProcessOf[u]]
<1>2. CASE fromHost'[ProcessOf[u]] = q
  BY <1>0, <1>1, <1>2 DEF EndsAt
<1>3. CASE inst = "connected" /\ ProcessOf[u] = peer
           /\ fromHost'[ProcessOf[u]] = Append(q, m)
  <2> SUFFICES ASSUME NEW i \in 1..Len(Append(q, m)), Append(q, m)[i].kind = "end"
               PROVE  Len(heard[u]) + i = Length[u] + 1
    BY <1>0, <1>3 DEF EndsAt
  <2>1. q \in Seq(Responses)
    BY <1>0, ProcessType DEF WireTypes
  <2>2. CASE i \in 1..Len(q)
    BY <1>1, <2>1, <2>2 DEF EndsAt
  <2>3. CASE i = Len(q) + 1
    <3>1. m.kind = "end"
      BY <2>1, <2>3
    <3>2. Len(heard[u]) + Len(q) = Length[u]
      BY <1>3, <3>1
    <3>3. Len(heard[u]) \in Nat /\ Len(q) \in Nat /\ Length[u] \in Nat
      BY <1>0, <2>1, PipeAssumption DEF ClientTypes
    <3>4. \A h, n, l \in Nat : h + n = l => h + (n + 1) = l + 1
      OBVIOUS
    <3> QED BY <2>3, <3>2, <3>3, <3>4
  <2> QED BY <2>1, <2>2, <2>3
<1> QED
  BY <1>0, <1>2, <1>3, ProcessType DEF Reply, WireTypes

\* Without engine failures an END follows the last chunk: kept by every step.
LEMMA EndsStep ==
  ASSUME TypeOK, Conversation, CommandIsOp, EndsComplete, [Next]_vars
  PROVE  EndsComplete'
<1>0. /\ ClientTypes /\ WireTypes /\ HostTypes
      /\ LockHeld /\ OneInstance /\ AnswersBelong /\ RequestsBelong /\ StreamBelongs
  BY DEF TypeOK, Conversation
<1>1. ASSUME UNCHANGED <<pc, op, heard, fromHost>> PROVE EndsComplete'
  BY <1>1 DEF EndsComplete
<1>2. ASSUME NEW t \in Threads, Begin(t) PROVE EndsComplete'
  <2>1. /\ pc' = [pc EXCEPT ![t] = "enter"] /\ heard' = [heard EXCEPT ![t] = <<>>]
        /\ \A u \in Threads : u # t => op'[u] = op[u]
        /\ fromHost' = fromHost
    BY <1>0, <1>2 DEF Begin, ClientTypes, wireVars
  <2> QED BY <1>0, <2>1, OthersEnd DEF ClientTypes
<1>3. ASSUME NEW t \in Threads, ClientStep(t) PROVE EndsComplete'
  <2> DEFINE c == ProcessOf[t]
  <2>1. CASE Enter(t) \/ Connect(t) \/ NotFound(t) \/ LaunchFailed(t)
             \/ PipeBusy(t) \/ ConnectFailed(t)
    <3>1. pc'[t] # "read" /\ \A u \in Threads : u # t => pc'[u] = pc[u]
      BY <1>0, <2>1 DEF Enter, Connect, NotFound, LaunchFailed, PipeBusy,
                        ConnectFailed, RetryOrFail, Return, ClientTypes
    <3>2. UNCHANGED <<op, heard, fromHost>>
      BY <2>1 DEF Enter, Connect, NotFound, LaunchFailed, PipeBusy,
                  ConnectFailed, wireVars
    <3> QED BY <1>0, <3>1, <3>2, OthersEnd
  <2>2. CASE Send(t)
    <3>1. /\ UNCHANGED <<op, heard, fromHost>> /\ pc[t] = "send"
          /\ \A u \in Threads : u # t => pc'[u] = pc[u]
      BY <1>0, <2>2 DEF Send, ClientTypes
    <3>2. fromHost[c] = <<>>
      BY <1>0, <3>1, ProcessType DEF LockHeld, AnswersBelong, Waits
    <3> SUFFICES ASSUME NEW u \in Threads, pc'[u] = "read", op'[u] = "speak",
                        ~EngineMayFail
                 PROVE  EndsAt(u)'
      BY DEF EndsComplete, EndsAt
    <3>3. CASE u = t
      <4>1. 1..Len(<<>>) = {}
        OBVIOUS
      <4> QED BY <3>1, <3>2, <3>3, <4>1 DEF EndsAt
    <3>4. CASE u # t
      BY <3>1, <3>4 DEF EndsComplete, EndsAt
    <3> QED BY <3>3, <3>4
  <2>3. CASE SendFailed(t) \/ AbortSpeak(t) \/ EndSpeak(t) \/ ReadPing(t)
             \/ ReadShutdown(t) \/ ReadFailed(t)
    <3>1. lock[c] = t /\ c \in Peers
      BY <1>0, <2>3, ProcessType
      DEF SendFailed, AbortSpeak, EndSpeak, ReadPing, ReadShutdown, ReadFailed,
          Reading, LockHeld
    <3>2. op' = op /\ \A u \in Threads : u # t => /\ pc'[u] = pc[u]
                                                 /\ heard'[u] = heard[u]
      BY <1>0, <2>3
      DEF SendFailed, AbortSpeak, EndSpeak, ReadPing, ReadShutdown, ReadFailed,
          RetryOrFail, Return, ClientTypes
    <3>3. pc'[t] = "read" => op[t] # "speak"
      BY <1>0, <2>3
      DEF SendFailed, AbortSpeak, EndSpeak, ReadPing, ReadShutdown, ReadFailed,
          RetryOrFail, Return, ClientTypes
    <3>4. \A d \in Processes : d # c => fromHost'[d] = fromHost[d]
      BY <1>0, <2>3
      DEF SendFailed, AbortSpeak, EndSpeak, ReadPing, ReadShutdown, ReadFailed,
          Disconnect, Receive, WireTypes, Peers, wireVars
    <3> QED BY <1>0, <3>1, <3>2, <3>3, <3>4, OthersEnd
  <2>4. CASE Deliver(t)
    <3> DEFINE q == fromHost[c]
    <3>1. /\ q # <<>> /\ pc[t] = "read" /\ op[t] = "speak" /\ UNCHANGED <<pc, op>>
          /\ heard' = [heard EXCEPT ![t] = Append(@, Head(q))]
          /\ fromHost' = [fromHost EXCEPT ![c] = Tail(q)]
      BY <2>4 DEF Deliver, Reading, Incoming, Receive
    <3>2. /\ q \in Seq(Responses) /\ heard[t] \in Seq(Responses)
          /\ c \in Processes /\ c \in Peers /\ lock[c] = t
      BY <1>0, <3>1, ProcessType DEF WireTypes, ClientTypes, LockHeld
    <3> SUFFICES ASSUME NEW u \in Threads, pc[u] = "read", op[u] = "speak",
                        ~EngineMayFail
                 PROVE  EndsAt(u)'
      BY <3>1 DEF EndsComplete, EndsAt
    <3>3. EndsAt(u)
      BY DEF EndsComplete, EndsAt
    <3>4. CASE u # t
      <4>1. ProcessOf[u] # c
        BY <1>0, <3>2, <3>4, ReaderOwns
      <4>2. heard'[u] = heard[u] /\ fromHost'[ProcessOf[u]] = fromHost[ProcessOf[u]]
        BY <1>0, <3>1, <3>4, <4>1, ProcessType DEF ClientTypes, WireTypes
      <4> QED BY <3>3, <4>2 DEF EndsAt
    <3>5. CASE u = t
      <4>1. Len(heard'[t]) = Len(heard[t]) + 1 /\ Len(heard[t]) \in Nat
        BY <1>0, <3>1, <3>2 DEF ClientTypes
      <4>2. fromHost'[c] = Tail(q)
        BY <1>0, <3>1, <3>2 DEF WireTypes
      <4> SUFFICES ASSUME NEW i \in 1..Len(Tail(q)), Tail(q)[i].kind = "end"
                   PROVE  Len(heard[t]) + 1 + i = Length[t] + 1
        BY <3>5, <4>1, <4>2 DEF EndsAt
      <4>3. Tail(q)[i] = q[i + 1] /\ i + 1 \in 1..Len(q) /\ i \in Int
        BY <3>1, <3>2, TailElement
      <4>4. Len(heard[t]) + (i + 1) = Length[t] + 1
        BY <3>3, <3>5, <4>3 DEF EndsAt
      <4> QED BY <4>1, <4>3, <4>4
    <3> QED BY <3>4, <3>5
  <2> QED
    BY <1>3, <2>1, <2>2, <2>3, <2>4 DEF ClientStep
<1>4. ASSUME NEW i \in Installers, InstallerStep(i) PROVE EndsComplete'
  <2>1. UNCHANGED <<pc, op, heard>>
    BY <1>4 DEF InstallerStep, AskShutdown, ReportNotRunning,
                ShutdownAnswered, clientVars
  <2>2. \A t \in Threads : fromHost'[ProcessOf[t]] = fromHost[ProcessOf[t]]
    BY <1>0, <1>4, PipeAssumption, ProcessType
    DEF InstallerStep, AskShutdown, ReportNotRunning, ShutdownAnswered,
        Disconnect, WireTypes, wireVars
  <2> QED BY <2>1, <2>2 DEF EndsComplete
<1>5. ASSUME NEW c \in Processes, Exit(c) PROVE EndsComplete'
  <2>1. /\ UNCHANGED <<op, heard>>
        /\ \A u \in Threads : pc'[u] = IF ProcessOf[u] = c THEN "gone" ELSE pc[u]
        /\ \A d \in Peers : d # c => fromHost'[d] = fromHost[d]
    BY <1>0, <1>5 DEF Exit, Disconnect, WireTypes
  <2> QED BY <2>1, ProcessType DEF EndsComplete
<1>6. CASE HandlePing \/ RejectSpeak \/ HandleShutdown
  <2> DEFINE req == Head(toHost)
  <2>1. PICK k \in {"ping", "speak", "shutdown"},
             r \in {"pong", "error", "end"} :
          /\ Command(k) /\ Reply(Response(r, req, 0)) /\ UNCHANGED clientVars
          /\ r = "end" => k = "shutdown"
    BY <1>6 DEF HandlePing, RejectSpeak, HandleShutdown
  <2> DEFINE m == Response(r, req, 0)
  <2>2. m \in Responses /\ m.kind = r
    BY <1>0, <2>1, CommandWaits, ResponseType DEF Response
  <2>3. ASSUME NEW t \in Threads, inst = "connected", ProcessOf[t] = peer,
               pc[t] = "read", op[t] = "speak", ~EngineMayFail, m.kind = "end"
        PROVE  FALSE
    <3>1. k = "shutdown" /\ peer \in Processes /\ toHost # <<>>
      BY <2>1, <2>2, <2>3, ProcessType DEF Command
    <3>2. Waits(req.by, peer) /\ req = toHost[1] /\ req.kind = "shutdown"
      BY <1>0, <2>1, <2>3, <3>1, CommandWaits
    <3>3. t = req.by
      BY <1>0, <2>3, <3>2, ReaderOwns DEF Waits
    <3> QED
      BY <2>3, <3>1, <3>2, <3>3 DEF CommandIsOp
  <2> HIDE DEF m
  <2>4. Reply(m)
    BY <2>1 DEF m
  <2> QED BY <2>1, <2>2, <2>3, <2>4, ReplyKeepsEnds
<1>7. CASE EmitChunk
  <2>1. job \in Requests /\ sent \in Nat /\ UNCHANGED clientVars
    BY <1>0, <1>7 DEF EmitChunk, HostTypes
  <2> DEFINE m == Response(ChunkKind(sent + 1), job, sent + 1)
  <2>2. m \in Responses /\ m.kind # "end"
    BY <2>1, ResponseType DEF Response, ChunkKind
  <2>3. Reply(m)
    BY <1>7 DEF EmitChunk
  <2> HIDE DEF m
  <2> QED BY <2>1, <2>2, <2>3, ReplyKeepsEnds
<1>8. CASE FinishSpeak
  <2>1. job \in Requests /\ host = "stream" /\ UNCHANGED clientVars
    BY <1>0, <1>8 DEF FinishSpeak, HostTypes
  <2>2. PICK status \in {0, 1} : /\ Reply(Response("end", job, status))
                                 /\ ~EngineMayFail => sent = Length[job.by]
    BY <1>8 DEF FinishSpeak
  <2>3. Response("end", job, status) \in Responses
    BY <2>1, ResponseType
  <2>4. ASSUME NEW t \in Threads, inst = "connected", ProcessOf[t] = peer,
               pc[t] = "read", op[t] = "speak", ~EngineMayFail
        PROVE  Len(heard[t]) + Len(fromHost[peer]) = Length[t]
    <3>1. Waits(job.by, peer)
          /\ sent = Len(heard[job.by]) + Len(fromHost[peer])
      BY <1>0, <2>1, <2>4 DEF StreamBelongs
    <3>2. t = job.by
      BY <1>0, <2>4, <3>1, ReaderOwns DEF Waits
    <3> QED BY <2>2, <2>4, <3>1, <3>2
  <2> QED BY <2>1, <2>2, <2>3, <2>4, ReplyKeepsEnds
<1>9. CASE HangUp \/ Crash
  BY <1>1, <1>9 DEF HangUp, Crash, HostGone, BreakPipe, clientVars
<1>10. CASE HostStep \/ Crash
  BY <1>1, <1>6, <1>7, <1>8, <1>9, <1>10
  DEF HostStep, Stop, HostGone, Ready, InitFailed, CreatePipe, Accept,
      HandleSpeak, PeerLeft, EmitFailed, clientVars, wireVars
<1>11. CASE UNCHANGED vars
  BY <1>1, <1>11 DEF vars, clientVars, wireVars
<1> QED
  BY <1>2, <1>3, <1>4, <1>5, <1>10, <1>11 DEF Next

\* What a successful call has heard when the END it accepts is the next
\* message.
LEMMA SuccessHeardAll ==
  ASSUME TypeOK, Conversation, EndsComplete, NEW t \in Threads,
         Reading(t, "speak"), Incoming(t).kind = "end", ~EngineMayFail
  PROVE  Len(heard[t]) = Length[t]
<1> DEFINE q == fromHost[ProcessOf[t]]
<1>1. q \in Seq(Responses) /\ q # <<>> /\ pc[t] = "read" /\ op[t] = "speak"
      /\ Incoming(t) = Head(q)
  BY ProcessType DEF TypeOK, WireTypes, Reading, Incoming
<1>2. 1 \in 1..Len(q) /\ q[1] = Head(q)
  BY <1>1, NonEmpty
<1>3. Len(heard[t]) + 1 = Length[t] + 1
  BY <1>1, <1>2 DEF EndsComplete
<1>4. Len(heard[t]) \in Nat /\ Length[t] \in Nat
  BY PipeAssumption DEF TypeOK, ClientTypes
<1> QED BY <1>3, <1>4

\* A call's success stays what it was until the thread calls again.
LEMMA SuccessStep ==
  ASSUME TypeOK, Conversation, OutcomeOpen, EndsComplete, SuccessMeansComplete,
         [Next]_vars
  PROVE  SuccessMeansComplete'
<1>0. ClientTypes
  BY DEF TypeOK
<1>1. ASSUME UNCHANGED <<outcome, op, heard>> PROVE SuccessMeansComplete'
  BY <1>1 DEF SuccessMeansComplete
<1>2. ASSUME NEW t \in Threads,
             \A u \in Threads : u # t =>
               outcome'[u] = outcome[u] /\ op'[u] = op[u] /\ heard'[u] = heard[u],
             outcome'[t] = "ok" /\ op'[t] = "speak" /\ ~EngineMayFail
               => Len(heard'[t]) = Length[t]
      PROVE  SuccessMeansComplete'
  BY <1>2 DEF SuccessMeansComplete
<1>3. ASSUME NEW t \in Threads, Begin(t) PROVE SuccessMeansComplete'
  BY <1>0, <1>2, <1>3 DEF Begin, ClientTypes
<1>4. ASSUME NEW t \in Threads, ClientStep(t) PROVE SuccessMeansComplete'
  <2>1. \A u \in Threads : u # t =>
          outcome'[u] = outcome[u] /\ op'[u] = op[u] /\ heard'[u] = heard[u]
    BY <1>0, <1>4
    DEF ClientStep, Enter, Connect, NotFound, LaunchFailed, PipeBusy,
        ConnectFailed, Send, SendFailed, Deliver, AbortSpeak, EndSpeak,
        ReadPing, ReadShutdown, ReadFailed, RetryOrFail, Return, ClientTypes
  <2>2. CASE EndSpeak(t)
    <3>1. Reading(t, "speak") /\ heard' = heard
          /\ (outcome'[t] = "ok" => Incoming(t).kind = "end")
      BY <1>0, <2>2 DEF EndSpeak, Return, ClientTypes
    <3> QED BY <1>2, <2>1, <3>1, SuccessHeardAll
  <2>3. CASE ~EndSpeak(t)
    <3>1. pc[t] \notin {"idle", "gone"} /\ op' = op
      BY <1>4
      DEF ClientStep, Enter, Connect, NotFound, LaunchFailed, PipeBusy,
          ConnectFailed, Send, SendFailed, Deliver, AbortSpeak, EndSpeak,
          ReadPing, ReadShutdown, ReadFailed, Reading
    <3>2. outcome[t] = "none"
      BY <3>1 DEF OutcomeOpen
    <3>3. outcome'[t] = "ok" => op[t] # "speak"
      BY <1>0, <1>4, <2>3, <3>2
      DEF ClientStep, Enter, Connect, NotFound, LaunchFailed, PipeBusy,
          ConnectFailed, Send, SendFailed, Deliver, AbortSpeak, ReadPing,
          ReadShutdown, ReadFailed, Reading, RetryOrFail, Return, ClientTypes
    <3> QED BY <1>2, <2>1, <3>1, <3>3
  <2> QED BY <2>2, <2>3
<1>5. ASSUME \/ \E i \in Installers : InstallerStep(i)
             \/ \E c \in Processes : Exit(c)
             \/ HostStep
             \/ Crash
      PROVE  SuccessMeansComplete'
  <2>1. UNCHANGED <<outcome, op, heard>>
    BY <1>5 DEF InstallerStep, AskShutdown, ReportNotRunning,
                ShutdownAnswered, HostStep, Crash, HostGone, Stop, Ready,
                InitFailed, CreatePipe, Accept, HandlePing, HandleSpeak,
                RejectSpeak, HandleShutdown, PeerLeft, EmitChunk, EmitFailed,
                FinishSpeak, HangUp, Exit, clientVars
  <2> QED BY <1>1, <2>1
<1>6. CASE UNCHANGED vars
  BY <1>1, <1>6 DEF vars, clientVars
<1> QED BY <1>3, <1>4, <1>5, <1>6 DEF Next

\* The invariants above together, on top of TypeOK and Conversation.
Answered ==
  /\ OutcomeOpen /\ CommandIsOp /\ ChunksFit /\ EndsComplete
  /\ SuccessMeansComplete

LEMMA AnsweredHolds == Spec => [](TypeOK /\ Conversation /\ Answered)
<1>1. Init => Answered
  <2>1. 1..Len(<<>>) = {}
    OBVIOUS
  <2> QED
    BY <2>1, ProcessType
    DEF Init, Answered, OutcomeOpen, CommandIsOp, ChunksFit, EndsComplete,
        SuccessMeansComplete
<1>2. TypeOK /\ Conversation /\ Answered /\ [Next]_vars => Answered'
  BY OutcomeStep, CommandStep, ChunksStep, EndsStep, SuccessStep
  DEF Answered
<1> QED BY <1>1, <1>2, TypeCorrect, ConversationHolds, PTL DEF Spec

\* EngineClient::speak returns success without an abort only after every chunk
\* of the utterance has been given to the callbacks, if the engine did its
\* work.
THEOREM SuccessHolds == Spec => []SuccessMeansComplete
<1>1. Answered => SuccessMeansComplete
  BY DEF Answered
<1> QED BY <1>1, AnsweredHolds, PTL

-----------------------------------------------------------------------------
(* The refinement of SpeechService                                         *)

\* Initially no call is under way, in either specification.
LEMMA ServiceInit == Init => Service!Init
<1> SUFFICES ASSUME Init PROVE Service!Init
  OBVIOUS
<1>1. \A t \in Threads : (pc[t] \notin {"idle", "gone"}) = FALSE
  BY DEF Init
<1>2. [t \in Threads |-> pc[t] \notin {"idle", "gone"}] = [t \in Threads |-> FALSE]
  BY <1>1
<1> QED BY <1>2 DEF Init, Service!Init

\* The calls under way after a thread has left its own.
LEMMA ReturnIsFinish ==
  ASSUME TypeOK, NEW t \in Threads, NEW o \in {"ok", "failed"}, Return(t, o),
         pc[t] \notin {"idle", "gone"}, UNCHANGED <<op, calls, heard>>,
         o = "ok" => \/ op[t] # "speak"
                     \/ Len(heard[t]) = Length[t]
                     \/ EngineMayFail
  PROVE  Service!Finish(t, o)
BY DEF TypeOK, ClientTypes, Return, Service!Finish

\* What a thread hears next is the next piece of its utterance, and nobody
\* else in its process is hearing one.
LEMMA DeliverIsPlay ==
  ASSUME TypeOK, Conversation, ChunksFit, NEW t \in Threads, Reading(t, "speak"),
         IsChunk(Incoming(t)), heard' = [heard EXCEPT ![t] = Append(@, Incoming(t))]
  PROVE  Service!PlayNext(t)
<1> DEFINE q == fromHost[ProcessOf[t]]
           n == Len(heard[t]) + 1
<1>0. /\ ClientTypes /\ WireTypes /\ LockHeld
      /\ q # <<>> /\ pc[t] = "read" /\ op[t] = "speak" /\ Incoming(t) = Head(q)
  BY DEF TypeOK, Conversation, Reading, Incoming
<1>1. Incoming(t) = [kind |-> ChunkKind(n), by |-> t, call |-> calls[t], n |-> n]
  BY NextChunk
<1>2. 1 \in 1..Len(q) /\ q[1] = Head(q)
  BY <1>0, NonEmpty, ProcessType DEF WireTypes
<1>3. Incoming(t).n <= Length[Incoming(t).by]
  BY <1>0, <1>2, ProcessType DEF ChunksFit
<1>4. n <= Length[t] /\ Len(heard[t]) \in Nat /\ Length[t] \in Nat
  BY <1>0, <1>1, <1>3, PipeAssumption DEF ClientTypes
<1>5. Len(heard[t]) < Length[t]
  BY <1>4
<1>6. Incoming(t) = Service!Piece(t, n)
  BY <1>1 DEF Service!Piece, ChunkKind
<1>7. Service!Floor(t)
  <2> SUFFICES ASSUME NEW u \in Threads \ {t}, ProcessOf[u] = ProcessOf[t],
                      pc[u] \notin {"idle", "gone"}
               PROVE  heard[u] = <<>>
    BY DEF Service!Floor
  <2>1. lock[ProcessOf[t]] = t /\ pc[u] \notin {"connect", "send", "read"}
    BY <1>0, ReaderOwns DEF LockHeld
  <2> QED BY <1>0, <2>1 DEF LockHeld, ClientTypes
<1>8. heard' = [heard EXCEPT ![t] = Append(@, Service!Piece(t, Len(@) + 1))]
  BY <1>0, <1>6 DEF ClientTypes
<1> QED
  BY <1>0, <1>5, <1>7, <1>8 DEF Service!PlayNext

\* Every step of the pipe is a step of the service or changes nothing the
\* callers see.
LEMMA ServiceStep ==
  ASSUME TypeOK, Conversation, Answered, [Next]_vars
  PROVE  [Service!Next]_Service!vars
<1>0. ClientTypes /\ ChunksFit /\ EndsComplete
  BY DEF TypeOK, Answered
<1> DEFINE active == [t \in Threads |-> pc[t] \notin {"idle", "gone"}]
<1>1. ASSUME active' = active, UNCHANGED <<op, calls, heard, outcome>>
      PROVE  [Service!Next]_Service!vars
  BY <1>1 DEF Service!vars
<1>2. ASSUME NEW t \in Threads, Begin(t) PROVE Service!Next
  <2>1. pc[t] = "idle" /\ pc' = [pc EXCEPT ![t] = "enter"]
    BY <1>2 DEF Begin
  <2>2. active' = [active EXCEPT ![t] = TRUE]
    BY <1>0, <2>1 DEF ClientTypes
  <2>3. Service!Call(t)
    BY <1>2, <2>1, <2>2 DEF Begin, Service!Call
  <2> QED BY <2>3 DEF Service!Next
<1>3. ASSUME NEW t \in Threads, ClientStep(t)
      PROVE  [Service!Next]_Service!vars
  <2>1. ASSUME NEW o \in {"ok", "failed"}, Return(t, o), pc[t] \notin {"idle", "gone"},
               UNCHANGED <<op, calls, heard>>,
               o = "ok" => \/ op[t] # "speak"
                           \/ Len(heard[t]) = Length[t]
                           \/ EngineMayFail
        PROVE  Service!Next
    BY <2>1, ReturnIsFinish DEF Service!Next
  <2>2. ASSUME pc[t] \notin {"idle", "gone"}, pc'[t] \notin {"idle", "gone"},
               \A u \in Threads : u # t => pc'[u] = pc[u],
               UNCHANGED <<op, calls, heard, outcome>>
        PROVE  [Service!Next]_Service!vars
    BY <1>1, <2>2
  <2>3. ASSUME RetryOrFail(t), pc[t] \notin {"idle", "gone"},
               UNCHANGED <<op, calls, heard>>
        PROVE  [Service!Next]_Service!vars
    BY <1>0, <2>1, <2>2, <2>3 DEF RetryOrFail, ClientTypes
  <2>4. CASE Enter(t)
    BY <1>0, <2>1, <2>2, <2>4 DEF Enter, ClientTypes
  <2>5. CASE Connect(t) \/ NotFound(t) \/ PipeBusy(t) \/ Send(t)
    BY <1>0, <2>2, <2>5 DEF Connect, NotFound, PipeBusy, Send, ClientTypes
  <2>6. CASE LaunchFailed(t) \/ ConnectFailed(t)
    BY <2>3, <2>6 DEF LaunchFailed, ConnectFailed
  <2>7. CASE SendFailed(t)
    BY <1>0, <2>2, <2>3, <2>7 DEF SendFailed, ClientTypes
  <2>8. CASE Deliver(t)
    <3>1. Service!PlayNext(t)
      BY <1>0, <2>8, DeliverIsPlay DEF Deliver
    <3>2. Service!Play(t)
      BY <2>8, <3>1 DEF Deliver, Service!Play
    <3> QED BY <3>2 DEF Service!Next
  <2>9. CASE AbortSpeak(t)
    <3>1. /\ Reading(t, "speak") /\ IsChunk(Incoming(t)) /\ Incoming(t).kind = "audio"
          /\ heard' = [heard EXCEPT ![t] = Append(@, Incoming(t))]
          /\ Return(t, "aborted") /\ UNCHANGED <<op, calls>>
      BY <2>9 DEF AbortSpeak, IsChunk
    <3>2. Service!PlayNext(t)
      BY <1>0, <3>1, DeliverIsPlay
    <3>3. Len(heard[t]) + 1 \notin IndexAt
      BY <3>1, NextChunk DEF ChunkKind
    <3>4. active' = [active EXCEPT ![t] = FALSE]
          /\ outcome' = [outcome EXCEPT ![t] = "aborted"]
      BY <1>0, <3>1 DEF Return, ClientTypes
    <3>5. Service!Abort(t)
      BY <3>1, <3>2, <3>3, <3>4 DEF Service!Abort
    <3> QED BY <3>5 DEF Service!Next
  <2>10. CASE EndSpeak(t)
    <3>1. /\ Reading(t, "speak") /\ pc[t] = "read" /\ UNCHANGED <<op, calls, heard>>
          /\ Return(t, IF Incoming(t).kind = "end" THEN "ok" ELSE "failed")
      BY <2>10 DEF EndSpeak, Reading
    <3> QED BY <1>0, <2>1, <3>1, SuccessHeardAll
  <2>11. CASE ReadPing(t) \/ ReadShutdown(t) \/ ReadFailed(t)
    BY <2>1, <2>11 DEF ReadPing, ReadShutdown, ReadFailed, Reading
  <2> QED
    BY <1>3, <2>4, <2>5, <2>6, <2>7, <2>8, <2>9, <2>10, <2>11 DEF ClientStep
<1>4. ASSUME NEW c \in Processes, Exit(c) PROVE Service!Next
  <2>1. PICK t \in Threads : ProcessOf[t] = c
    BY <1>4 DEF Exit
  <2>2. active' = [u \in Threads |-> active[u] /\ ProcessOf[u] # ProcessOf[t]]
    BY <1>4, <2>1 DEF Exit
  <2>3. Service!Vanish(ProcessOf[t])
    BY <1>4, <2>2 DEF Exit, Service!Vanish
  <2> QED BY <2>3 DEF Service!Next
<1>5. ASSUME \/ \E i \in Installers : InstallerStep(i)
             \/ HostStep
             \/ Crash
             \/ UNCHANGED vars
      PROVE  [Service!Next]_Service!vars
  <2>1. UNCHANGED clientVars
    BY <1>5 DEF InstallerStep, AskShutdown, ReportNotRunning,
                ShutdownAnswered, HostStep, Crash, HostGone, Stop, Ready,
                InitFailed, CreatePipe, Accept, HandlePing, HandleSpeak,
                RejectSpeak, HandleShutdown, PeerLeft, EmitChunk, EmitFailed,
                FinishSpeak, HangUp, vars
  <2> QED BY <1>1, <2>1 DEF clientVars
<1> QED BY <1>2, <1>3, <1>4, <1>5 DEF Next

\* The pipe, the host, the locks and the retries together are what
\* engine_client.h promises its callers.
THEOREM ServiceImplemented == Spec => ServiceSpec
<1>1. Init => Service!Init
  BY ServiceInit
<1>2. TypeOK /\ Conversation /\ Answered /\ [Next]_vars
        => [Service!Next]_Service!vars
  BY ServiceStep
<1> QED
  BY <1>1, <1>2, AnsweredHolds, PTL DEF Spec, ServiceSpec, Service!Spec
=============================================================================
