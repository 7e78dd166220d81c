------------------------------ MODULE HostLaunch ------------------------------
(***************************************************************************)
(* How clients find or launch outloud_host.exe (src/engine_client.cpp,     *)
(* isServerRunning, launchServer, ensureConnected) and how a host process  *)
(* starts and ends (src/outloud_host.cpp, build_virtual_registry, main).   *)
(*                                                                         *)
(* External: Windows.  A named mutex exists while a process has a handle   *)
(* of it, and a process that ends loses its handles and its locks.  The    *)
(* names Local\... are per session, the pipe name is global, the scratch   *)
(* registry keys are per user (all processes here run as one user).        *)
(* A client is one process: its threads are serialised by cs_.  Sleeps and *)
(* time-outs may end at any moment.                                        *)
(***************************************************************************)
EXTENDS Integers

CONSTANTS
  Clients,     \* processes with an EngineClient
  Hosts,       \* processes of outloud_host.exe; one that has ended may start again
  Session,     \* the session of each process
  MaxAttempts, \* bound of the loop in ensureConnected: 8 in the code
  MaxPolls     \* bound of the polling loop in launchServer: 50 in the code

Processes == Clients \cup Hosts

Sessions == {Session[p] : p \in Processes}

Nobody == "none"

ASSUME LaunchAssumption ==
  /\ Clients \cap Hosts = {}
  /\ Nobody \notin Processes
  /\ Session = [p \in Processes |-> Session[p]]
  /\ MaxAttempts \in Nat \ {0}
  /\ MaxPolls \in Nat \ {0}

VARIABLES
  at,       \* where a client stands; "idle" outside ensureConnected
  attempt,  \* the loop counter of ensureConnected
  polls,    \* the loop counter of launchServer
  probing,  \* does the client hold a handle of the server mutex?
  launch,   \* the owner of each session's launch mutex
  host,     \* where a host process stands; "off" when there is none
  peer,     \* the client connected to a host's pipe instance
  registry  \* the hosts whose data is in HKCU\Software\OutloudSAPI\VirtLM

client == <<at, attempt, polls, probing, launch>>
server == <<host, peer, registry>>
vars == <<client, server>>

\* Inside launchServer; the steps at which isServerRunning is called; the
\* steps between WaitForSingleObject and ReleaseMutex.
Probes == {"first", "second", "poll", "last"}
Locked == {"second", "create", "poll", "last", "found", "lost"}
Calling == {"open", "wait"} \cup {"first"} \cup Locked

\* Before the mutex test; up to the main loop; in the main loop.
Setup == {"clear", "fill", "engine"}
Loop == {"instance", "listen", "serve", "stop"}
Running == Setup \cup Loop

\* A host that lost the race has a handle until it closes it.
HasMutex(s) ==
  \/ \E h \in Hosts : Session[h] = s /\ host[h] \in Running \cup {"surplus"}
  \/ \E c \in Clients : Session[c] = s /\ probing[c]

Init ==
  /\ at = [c \in Clients |-> "idle"]
  /\ attempt = [c \in Clients |-> 0]
  /\ polls = [c \in Clients |-> 0]
  /\ probing = [c \in Clients |-> FALSE]
  /\ launch = [s \in Sessions |-> Nobody]
  /\ host = [h \in Hosts |-> "off"]
  /\ peer = [h \in Hosts |-> Nobody]
  /\ registry = {}

-----------------------------------------------------------------------------
(* The client                                                              *)

Goto(c, place) == at' = [at EXCEPT ![c] = place]

\* Any call that finds no connection.
Call(c) ==
  /\ at[c] = "idle"
  /\ Goto(c, "open")
  /\ UNCHANGED <<attempt, polls, probing, launch, server>>

\* The end of ensureConnected; the counters are its locals.
Fails(c) ==
  /\ Goto(c, "idle")
  /\ attempt' = [attempt EXCEPT ![c] = 0]
  /\ polls' = [polls EXCEPT ![c] = 0]

\* Mutant of Again: the attempts are not counted.
AgainForEver(c) ==
  /\ Goto(c, "open")
  /\ polls' = [polls EXCEPT ![c] = 0]
  /\ UNCHANGED attempt

\* Mutant of Again: one attempt too many.
AgainOnceMore(c) ==
  IF attempt[c] = MaxAttempts
  THEN Fails(c)
  ELSE /\ Goto(c, "open")
       /\ attempt' = [attempt EXCEPT ![c] = @ + 1]
       /\ polls' = [polls EXCEPT ![c] = 0]

\* Sleep or WaitNamedPipe, and the next attempt if there is one.
Again(c) ==
  IF attempt[c] + 1 = MaxAttempts
  THEN Fails(c)
  ELSE /\ Goto(c, "open")
       /\ attempt' = [attempt EXCEPT ![c] = @ + 1]
       /\ polls' = [polls EXCEPT ![c] = 0]

Instances == {h \in Hosts : host[h] \in {"listen", "serve"}}

\* CreateFile finds a free instance.
Open(c) ==
  /\ at[c] = "open"
  /\ \E h \in Instances :
       /\ host[h] = "listen"
       /\ host' = [host EXCEPT ![h] = "serve"]
       /\ peer' = [peer EXCEPT ![h] = c]
  /\ Goto(c, "connected")
  /\ attempt' = [attempt EXCEPT ![c] = 0]
  /\ polls' = [polls EXCEPT ![c] = 0]
  /\ UNCHANGED <<probing, launch, registry>>

\* ERROR_PIPE_BUSY.
Busy(c) ==
  /\ at[c] = "open"
  /\ Instances # {}
  /\ \A h \in Instances : host[h] = "serve"
  /\ Again(c)
  /\ UNCHANGED <<probing, launch, server>>

\* ERROR_FILE_NOT_FOUND: only the first attempt launches.
Missing(c) ==
  /\ at[c] = "open"
  /\ Instances = {}
  /\ IF attempt[c] = 0
     THEN Goto(c, "first") /\ UNCHANGED <<attempt, polls>>
     ELSE Again(c)
  /\ UNCHANGED <<probing, launch, server>>

\* Any other error.
OpenFails(c) ==
  /\ at[c] = "open"
  /\ Instances # {}
  /\ Fails(c)
  /\ UNCHANGED <<probing, launch, server>>

\* isServerRunning: OpenMutex succeeds.
ProbeOpens(c) ==
  /\ at[c] \in Probes
  /\ ~probing[c]
  /\ HasMutex(Session[c])
  /\ probing' = [probing EXCEPT ![c] = TRUE]
  /\ UNCHANGED <<at, attempt, polls, launch, server>>

\* isServerRunning closes its handle and returns true.
ProbeCloses(c) ==
  /\ probing[c]
  /\ probing' = [probing EXCEPT ![c] = FALSE]
  /\ CASE at[c] = "first" -> Again(c)
       [] at[c] = "poll" -> Goto(c, "last") /\ UNCHANGED <<attempt, polls>>
       [] OTHER -> Goto(c, "found") /\ UNCHANGED <<attempt, polls>>
  /\ UNCHANGED <<launch, server>>

\* isServerRunning returns false.
ProbeFails(c) ==
  /\ at[c] \in Probes
  /\ ~probing[c]
  /\ ~HasMutex(Session[c])
  /\ CASE at[c] = "first" -> Goto(c, "wait") /\ UNCHANGED polls
       [] at[c] = "second" -> Goto(c, "create") /\ UNCHANGED polls
       [] at[c] = "last" -> Goto(c, "lost") /\ UNCHANGED polls
       [] OTHER -> /\ polls' = [polls EXCEPT ![c] = @ + 1]
                   /\ Goto(c, IF polls[c] + 1 = MaxPolls THEN "last" ELSE "poll")
  /\ UNCHANGED <<attempt, probing, launch, server>>

\* The executable is missing or CreateMutex fails.
GiveUp(c) ==
  /\ at[c] = "wait"
  /\ Fails(c)
  /\ UNCHANGED <<probing, launch, server>>

\* WAIT_OBJECT_0, or WAIT_ABANDONED when the last owner has ended.
Lock(c) ==
  /\ at[c] = "wait"
  /\ launch[Session[c]] = Nobody
  /\ launch' = [launch EXCEPT ![Session[c]] = c]
  /\ Goto(c, "second")
  /\ UNCHANGED <<attempt, polls, probing, server>>

\* Mutant of TimeOut: the result of the wait is not looked at.
TimeOutGoesOn(c) ==
  /\ at[c] = "wait"
  /\ launch[Session[c]] # Nobody
  /\ Goto(c, "second")
  /\ UNCHANGED <<attempt, polls, probing, launch, server>>

\* WAIT_TIMEOUT.
TimeOut(c) ==
  /\ at[c] = "wait"
  /\ launch[Session[c]] # Nobody
  /\ Fails(c)
  /\ UNCHANGED <<probing, launch, server>>

\* CreateProcess.
Create(c) ==
  /\ at[c] = "create"
  /\ \/ /\ \E h \in Hosts :
             /\ host[h] = "off"
             /\ Session[h] = Session[c]
             /\ host' = [host EXCEPT ![h] = "started"]
        /\ Goto(c, "poll")
     \/ Goto(c, "lost") /\ UNCHANGED host
  /\ UNCHANGED <<attempt, polls, probing, launch, peer, registry>>

\* ReleaseMutex, and back in ensureConnected with launchServer's result.
Release(c) ==
  /\ at[c] \in {"found", "lost"}
  /\ IF at[c] = "found" THEN Again(c) ELSE Fails(c)
  /\ launch' = [launch EXCEPT ![Session[c]] = Nobody]
  /\ UNCHANGED <<probing, server>>

Unlock(c) == [s \in Sessions |-> IF launch[s] = c THEN Nobody ELSE launch[s]]

HungUp(c) == [h \in Hosts |-> IF peer[h] = c THEN Nobody ELSE peer[h]]

\* disconnect, after any number of calls on the connection.
Disconnect(c) ==
  /\ at[c] = "connected"
  /\ Goto(c, "idle")
  /\ peer' = HungUp(c)
  /\ UNCHANGED <<attempt, polls, probing, launch, host, registry>>

\* The process of the client ends, wherever it is.
ClientDies(c) ==
  /\ at[c] # "idle"
  /\ Fails(c)
  /\ probing' = [probing EXCEPT ![c] = FALSE]
  /\ launch' = Unlock(c)
  /\ peer' = HungUp(c)
  /\ UNCHANGED <<host, registry>>

-----------------------------------------------------------------------------
(* The host                                                                *)

Become(h, place) == host' = [host EXCEPT ![h] = place]

\* outloud_host.exe is started by hand.
Start(h) ==
  /\ host[h] = "off"
  /\ Become(h, "started")
  /\ UNCHANGED <<client, peer, registry>>

\* Mutant of TakeMutex: ERROR_ALREADY_EXISTS is not looked at.
TakeMutexAnyway(h) ==
  /\ host[h] = "started"
  /\ Become(h, "clear")
  /\ UNCHANGED <<client, peer, registry>>

\* CreateMutex; ERROR_ALREADY_EXISTS means that another instance is running.
TakeMutex(h) ==
  /\ host[h] = "started"
  /\ Become(h, IF HasMutex(Session[h]) THEN "surplus" ELSE "clear")
  /\ UNCHANGED <<client, peer, registry>>

\* Mutant of Clear: an older registry is added to.
ClearNothing(h) ==
  /\ host[h] = "clear"
  /\ Become(h, "fill")
  /\ UNCHANGED <<client, peer, registry>>

\* RegDeleteTree of whatever is there.
Clear(h) ==
  /\ host[h] = "clear"
  /\ registry' = {}
  /\ Become(h, "fill")
  /\ UNCHANGED <<client, peer>>

\* eci.ini is copied and HKLM and HKCU are overridden.
Fill(h) ==
  /\ host[h] = "fill"
  /\ registry' = registry \cup {h}
  /\ Become(h, "engine")
  /\ UNCHANGED <<client, peer>>

\* init_engine succeeds.
Prepared(h) ==
  /\ host[h] = "engine"
  /\ Become(h, "instance")
  /\ UNCHANGED <<client, peer, registry>>

\* CreateNamedPipe; it is tried again until it succeeds.
Offer(h) ==
  /\ host[h] = "instance"
  /\ Become(h, "listen")
  /\ UNCHANGED <<client, peer, registry>>

\* The peer is gone; main closes the instance.
PeerGone(h) ==
  /\ host[h] = "serve"
  /\ peer[h] = Nobody
  /\ Become(h, "instance")
  /\ UNCHANGED <<client, peer, registry>>

\* OL_CMD_SHUTDOWN from the peer.
Shutdown(h) ==
  /\ host[h] = "serve"
  /\ Become(h, "stop")
  /\ peer' = [peer EXCEPT ![h] = Nobody]
  /\ UNCHANGED <<client, registry>>

\* main returns: another instance is running, the registry cannot be built
\* (with any part of it written), init_engine fails, or after a shutdown.
Exit(h) ==
  /\ \/ host[h] \in {"surplus", "engine", "stop"} /\ UNCHANGED registry
     \/ host[h] = "fill" /\ registry' \in {registry, registry \cup {h}}
  /\ Become(h, "off")
  /\ UNCHANGED <<client, peer>>

HostDies(h) ==
  /\ host[h] # "off"
  /\ Become(h, "off")
  /\ peer' = [peer EXCEPT ![h] = Nobody]
  /\ UNCHANGED <<client, registry>>

-----------------------------------------------------------------------------
ClientStep(c) ==
  \/ Open(c) \/ Busy(c) \/ Missing(c) \/ OpenFails(c)
  \/ ProbeOpens(c) \/ ProbeCloses(c) \/ ProbeFails(c)
  \/ GiveUp(c) \/ Lock(c) \/ TimeOut(c) \/ Create(c) \/ Release(c)

HostStep(h) ==
  \/ TakeMutex(h) \/ Clear(h) \/ Fill(h) \/ Prepared(h) \/ Offer(h)
  \/ PeerGone(h) \/ Exit(h)

Next ==
  \/ \E c \in Clients : ClientStep(c) \/ Call(c) \/ Disconnect(c) \/ ClientDies(c)
  \/ \E h \in Hosts : HostStep(h) \/ Start(h) \/ Shutdown(h) \/ HostDies(h)

Spec == Init /\ [][Next]_vars

\* Processes keep running; nobody has to call, to hang up, to end or to be
\* started by hand.
FairSpec ==
  /\ Spec
  /\ \A c \in Clients : WF_vars(ClientStep(c))
  /\ \A h \in Hosts : WF_vars(HostStep(h))

-----------------------------------------------------------------------------
(* Properties                                                              *)

TypeOK ==
  /\ at \in [Clients -> Calling \cup {"idle", "connected"}]
  /\ attempt \in [Clients -> 0..(MaxAttempts - 1)]
  /\ polls \in [Clients -> 0..MaxPolls]
  /\ probing \in [Clients -> BOOLEAN]
  /\ launch \in [Sessions -> Clients \cup {Nobody}]
  /\ host \in [Hosts -> Running \cup {"off", "started", "surplus"}]
  /\ peer \in [Hosts -> Clients \cup {Nobody}]
  /\ registry \subseteq Hosts

\* "exits if already running" (src/outloud_host.cpp:12): whoever launches or
\* starts hosts, and whoever dies, one process per session gets past the test.
OneHost ==
  \A g, h \in Hosts :
    host[g] \in Running /\ host[h] \in Running /\ Session[g] = Session[h] => g = h

\* "a volatile per-process registry view" (README.md:23): a host that goes on
\* to load the engine has its own data in the scratch keys, all of it its own,
\* and no later start of another host takes it away.
OwnRegistry ==
  \A h \in Hosts : host[h] \in Loop \cup {"engine"} => registry = {h}

\* The launch mutex is held by exactly the client that is between its second
\* probe and its release, after time-outs and deaths as well; so two clients
\* of a session are never both about to create the process.
LaunchExclusive ==
  \A c \in Clients : at[c] \in Locked <=> launch[Session[c]] = c

\* A probe keeps the server mutex alive.  Outside of isServerRunning nobody
\* but a host does: a leaked handle would refuse every later host.
ProbesEnd == \A c \in Clients : probing[c] => at[c] \in Probes

\* Each call of ensureConnected returns, whatever becomes of the host.
CallsReturn == \A c \in Clients : at[c] \in Calling ~> at[c] \in {"idle", "connected"}

\* The processes of one session implement the abstract slot.
Slot == INSTANCE HostSlot WITH
  owner <- IF \E h \in Hosts : host[h] \in Running
           THEN CHOOSE h \in Hosts : host[h] \in Running ELSE Nobody,
  stage <- IF \E h \in Hosts : host[h] \in Loop THEN "ready"
           ELSE IF \E h \in Hosts : host[h] \in Setup THEN "setup" ELSE "free"

SlotSpec == Slot!Spec
=============================================================================
