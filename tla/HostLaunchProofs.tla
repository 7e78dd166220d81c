--------------------------- MODULE HostLaunchProofs ---------------------------
(* The invariants of HostLaunch for any number of clients, hosts and sessions, *)
(* and, within one session, the registry and the steps of HostSlot.        *)
EXTENDS HostLaunch, TLAPS

\* Polling has not used up its bound before the last probe.
PollsLeft ==
  \A c \in Clients : at[c] \notin {"last", "found", "lost"} => polls[c] < MaxPolls

\* A host fills an empty registry.
FilledAlone == \A h \in Hosts : host[h] = "fill" => registry = {}

IsOneSession == \A p, q \in Processes : Session[p] = Session[q]

-----------------------------------------------------------------------------
LEMMA Constants ==
  /\ \A p \in Processes : Session[p] \in Sessions
  /\ Clients \subseteq Processes /\ Hosts \subseteq Processes
  /\ \A p \in Processes : p # Nobody
  /\ \A c \in Clients, h \in Hosts : c # h
  /\ MaxAttempts \in Nat \ {0} /\ MaxPolls \in Nat \ {0}
BY LaunchAssumption DEF Sessions, Processes

LEMMA InitTyped == Init => TypeOK /\ PollsLeft
BY Constants DEF Init, TypeOK, PollsLeft, Calling, Locked, Running, Setup, Loop

\* How the end and the repetition of ensureConnected leave the client typed.
LEMMA FailsTyped ==
  ASSUME TypeOK, PollsLeft, NEW c \in Clients, Fails(c)
  PROVE  /\ at' \in [Clients -> Calling \cup {"idle", "connected"}]
         /\ attempt' \in [Clients -> 0..(MaxAttempts - 1)]
         /\ polls' \in [Clients -> 0..MaxPolls]
         /\ PollsLeft'
BY Constants DEF TypeOK, PollsLeft, Fails, Goto, Calling

LEMMA AgainTyped ==
  ASSUME TypeOK, PollsLeft, NEW c \in Clients, Again(c)
  PROVE  /\ at' \in [Clients -> Calling \cup {"idle", "connected"}]
         /\ attempt' \in [Clients -> 0..(MaxAttempts - 1)]
         /\ polls' \in [Clients -> 0..MaxPolls]
         /\ PollsLeft'
<1>1. CASE attempt[c] + 1 = MaxAttempts
  BY <1>1, FailsTyped DEF Again
<1>2. CASE attempt[c] + 1 # MaxAttempts
  <2>1. attempt[c] + 1 \in 0..(MaxAttempts - 1)
    BY <1>2, Constants DEF TypeOK
  <2>2. QED
    BY <1>2, <2>1, Constants DEF Again, TypeOK, PollsLeft, Goto, Calling
<1>3. QED
  BY <1>1, <1>2

LEMMA ClientTyped ==
  ASSUME TypeOK, PollsLeft, NEW c \in Clients,
         ClientStep(c) \/ Call(c) \/ Disconnect(c) \/ ClientDies(c)
  PROVE  TypeOK' /\ PollsLeft'
<1> USE Constants
<1>1. CASE Open(c)
  <2>1. PICK h \in Hosts : /\ host' = [host EXCEPT ![h] = "serve"]
                          /\ peer' = [peer EXCEPT ![h] = c]
    BY <1>1 DEF Open, Instances
  <2>2. /\ host' \in [Hosts -> Running \cup {"off", "started", "surplus"}]
        /\ peer' \in [Hosts -> Clients \cup {Nobody}]
    BY <2>1 DEF TypeOK, Running, Loop
  <2>3. /\ at' = [at EXCEPT ![c] = "connected"]
        /\ attempt' = [attempt EXCEPT ![c] = 0] /\ polls' = [polls EXCEPT ![c] = 0]
        /\ UNCHANGED <<probing, launch, registry>>
    BY <1>1 DEF Open, Goto
  <2>4. QED
    BY <2>2, <2>3 DEF TypeOK, PollsLeft
<1>2. CASE Busy(c)
  BY <1>2, AgainTyped DEF Busy, TypeOK, server
<1>3. CASE Missing(c)
  <2>1. CASE attempt[c] = 0
    BY <1>3, <2>1 DEF Missing, Goto, TypeOK, PollsLeft, Calling, server
  <2>2. CASE attempt[c] # 0
    BY <1>3, <2>2, AgainTyped DEF Missing, TypeOK, server
  <2>3. QED
    BY <2>1, <2>2
<1>4. CASE OpenFails(c)
  BY <1>4, FailsTyped DEF OpenFails, TypeOK, server
<1>5. CASE ProbeOpens(c)
  BY <1>5 DEF ProbeOpens, TypeOK, PollsLeft, server
<1>6. CASE ProbeCloses(c)
  <2>1. CASE at[c] = "first"
    BY <1>6, <2>1, AgainTyped DEF ProbeCloses, TypeOK, server
  <2>2. CASE at[c] # "first"
    BY <1>6, <2>2 DEF ProbeCloses, Goto, TypeOK, PollsLeft, Calling, Locked, server
  <2>3. QED
    BY <2>1, <2>2
<1>7. CASE ProbeFails(c)
  <2>1. CASE at[c] # "poll"
    BY <1>7, <2>1 DEF ProbeFails, Probes, Goto, TypeOK, PollsLeft, Calling, Locked, server
  <2>2. CASE at[c] = "poll"
    <3>1. polls[c] < MaxPolls
      BY <2>2 DEF PollsLeft
    <3>2. polls[c] + 1 \in 0..MaxPolls
      BY <3>1 DEF TypeOK
    <3>3. /\ polls' = [polls EXCEPT ![c] = @ + 1]
          /\ at' = [at EXCEPT ![c] = IF polls[c] + 1 = MaxPolls THEN "last" ELSE "poll"]
      BY <1>7, <2>2 DEF ProbeFails, Goto
    <3>4. QED
      BY <1>7, <2>2, <3>1, <3>2, <3>3 DEF ProbeFails, TypeOK, PollsLeft, Calling, Locked, server
  <2>3. QED
    BY <2>1, <2>2
<1>8. CASE GiveUp(c)
  BY <1>8, FailsTyped DEF GiveUp, TypeOK, server
<1>9. CASE Lock(c)
  BY <1>9 DEF Lock, Goto, TypeOK, PollsLeft, Calling, Locked, server
<1>10. CASE TimeOut(c)
  BY <1>10, FailsTyped DEF TimeOut, TypeOK, server
<1>11. CASE Create(c)
  BY <1>11 DEF Create, Goto, TypeOK, PollsLeft, Calling, Locked, Running, server
<1>12. CASE Release(c)
  BY <1>12, FailsTyped, AgainTyped DEF Release, TypeOK, server
<1>13. CASE Call(c)
  BY <1>13 DEF Call, Goto, TypeOK, PollsLeft, Calling, server
<1>14. CASE Disconnect(c)
  BY <1>14 DEF Disconnect, HungUp, Goto, TypeOK, PollsLeft, Calling
<1>15. CASE ClientDies(c)
  BY <1>15, FailsTyped DEF ClientDies, HungUp, Unlock, TypeOK
<1>16. QED
  BY <1>1, <1>2, <1>3, <1>4, <1>5, <1>6, <1>7, <1>8, <1>9, <1>10, <1>11, <1>12,
     <1>13, <1>14, <1>15 DEF ClientStep

LEMMA HostTyped ==
  ASSUME TypeOK, PollsLeft, NEW h \in Hosts,
         HostStep(h) \/ Start(h) \/ Shutdown(h) \/ HostDies(h)
  PROVE  TypeOK' /\ PollsLeft'
<1>1. /\ UNCHANGED client
      /\ host' \in [Hosts -> Running \cup {"off", "started", "surplus"}]
  BY DEF HostStep, TakeMutex, Clear, Fill, Prepared, Offer, PeerGone, Exit, Start,
     Shutdown, HostDies, Become, TypeOK, Running, Setup, Loop
<1>2. /\ peer' \in [Hosts -> Clients \cup {Nobody}]
      /\ registry' \subseteq Hosts
  BY DEF HostStep, TakeMutex, Clear, Fill, Prepared, Offer, PeerGone, Exit, Start,
     Shutdown, HostDies, TypeOK
<1>3. QED
  BY <1>1, <1>2 DEF TypeOK, PollsLeft, client

LEMMA Typed == TypeOK /\ PollsLeft /\ [Next]_vars => TypeOK' /\ PollsLeft'
<1> SUFFICES ASSUME TypeOK, PollsLeft, [Next]_vars PROVE TypeOK' /\ PollsLeft'
  OBVIOUS
<1>1. CASE UNCHANGED vars
  BY <1>1 DEF vars, client, server, TypeOK, PollsLeft
<1>2. QED
  BY <1>1, ClientTyped, HostTyped DEF Next

\* Every reachable state is well typed, for all constants; polls and attempts
\* stay within the bounds of their loops.
THEOREM TypeCorrect == Spec => []TypeOK
<1>1. TypeOK /\ PollsLeft /\ [Next]_vars => (TypeOK /\ PollsLeft)'
  BY Typed
<1>2. QED
  BY InitTyped, <1>1, PTL DEF Spec

-----------------------------------------------------------------------------
(* The launch mutex and the probes                                         *)

LaunchInv == TypeOK /\ LaunchExclusive /\ ProbesEnd

LEMMA InitLaunch == Init => LaunchExclusive /\ ProbesEnd
BY Constants DEF Init, LaunchExclusive, ProbesEnd, Locked

LEMMA ClientLaunch ==
  ASSUME LaunchInv, NEW c \in Clients,
         ClientStep(c) \/ Call(c) \/ Disconnect(c) \/ ClientDies(c)
  PROVE  LaunchExclusive' /\ ProbesEnd'
<1> USE Constants DEF LaunchInv
<1> DEFINE s == Session[c]
<1>0. s \in Sessions
  OBVIOUS
<1>1. CASE launch' = launch /\ (at'[c] \in Locked <=> at[c] \in Locked)
           /\ (\A d \in Clients \ {c} : at'[d] = at[d] /\ probing'[d] = probing[d])
           /\ (probing'[c] => at'[c] \in Probes)
  BY <1>1 DEF LaunchExclusive, ProbesEnd
<1>2. CASE Open(c) \/ Busy(c) \/ Missing(c) \/ OpenFails(c) \/ GiveUp(c) \/ TimeOut(c)
           \/ Call(c) \/ Disconnect(c)
  <2>1. at[c] \in {"open", "wait", "idle", "connected"}
    BY <1>2 DEF Open, Busy, Missing, OpenFails, GiveUp, TimeOut, Call, Disconnect
  <2>2. at'[c] \in {"open", "first", "idle", "connected"}
        /\ \A d \in Clients \ {c} : at'[d] = at[d]
    BY <1>2 DEF Open, Busy, Missing, OpenFails, GiveUp, TimeOut, Call, Disconnect,
       Again, Fails, Goto, TypeOK
  <2>3. launch' = launch /\ probing' = probing
    BY <1>2 DEF Open, Busy, Missing, OpenFails, GiveUp, TimeOut, Call, Disconnect
  <2>4. ~probing[c]
    BY <2>1 DEF ProbesEnd, Probes
  <2>5. QED
    BY <1>1, <2>1, <2>2, <2>3, <2>4 DEF Locked
<1>3. CASE ProbeOpens(c)
  BY <1>1, <1>3 DEF ProbeOpens, TypeOK
<1>4. CASE ProbeCloses(c)
  <2>1. launch' = launch /\ ~probing'[c] /\ \A d \in Clients \ {c} : probing'[d] = probing[d]
    BY <1>4 DEF ProbeCloses, TypeOK
  <2>2. at[c] \in Probes
    BY <1>4 DEF ProbeCloses, ProbesEnd
  <2>3. \A d \in Clients \ {c} : at'[d] = at[d]
    BY <1>4, <2>2 DEF ProbeCloses, Again, Fails, Goto, TypeOK, Probes
  <2>4. at'[c] \in Locked <=> at[c] \in Locked
    BY <1>4, <2>2 DEF ProbeCloses, Again, Fails, Goto, TypeOK, Probes, Locked
  <2>5. QED
    BY <1>1, <2>1, <2>3, <2>4
<1>5. CASE ProbeFails(c)
  <2>1. launch' = launch /\ probing' = probing /\ ~probing[c] /\ at[c] \in Probes
    BY <1>5 DEF ProbeFails
  <2>2. \A d \in Clients \ {c} : at'[d] = at[d]
    BY <1>5 DEF ProbeFails, Goto, TypeOK, Probes
  <2>3. at'[c] \in Locked <=> at[c] \in Locked
    BY <1>5 DEF ProbeFails, Goto, TypeOK, Probes, Locked
  <2>4. QED
    BY <1>1, <2>1, <2>2, <2>3
<1>6. CASE Create(c)
  <2>1. launch' = launch /\ probing' = probing /\ at[c] = "create"
    BY <1>6 DEF Create
  <2>2. at'[c] \in {"poll", "lost"} /\ \A d \in Clients \ {c} : at'[d] = at[d]
    BY <1>6 DEF Create, Goto, TypeOK
  <2>3. QED
    BY <1>1, <2>1, <2>2 DEF Locked, ProbesEnd, Probes
<1>7. CASE Lock(c)
  <2>1. /\ at[c] = "wait" /\ launch[s] = Nobody
        /\ launch' = [launch EXCEPT ![s] = c]
        /\ at' = [at EXCEPT ![c] = "second"] /\ probing' = probing
    BY <1>7 DEF Lock, Goto
  <2>2. \A d \in Clients : Session[d] = s /\ d # c => at[d] \notin Locked
    BY <2>1 DEF LaunchExclusive
  <2>3. QED
    BY <1>0, <2>1, <2>2 DEF LaunchExclusive, ProbesEnd, TypeOK, Locked, Probes
<1>8. CASE Release(c)
  <2>1. /\ at[c] \in Locked /\ at[c] \notin Probes /\ probing' = probing
        /\ launch' = [launch EXCEPT ![s] = Nobody]
    BY <1>8 DEF Release, Locked, Probes
  <2>2. at'[c] \in {"idle", "open"} /\ \A d \in Clients \ {c} : at'[d] = at[d]
    BY <1>8 DEF Release, Again, Fails, Goto, TypeOK
  <2>3. launch[s] = c
    BY <2>1 DEF LaunchExclusive
  <2>4. QED
    BY <1>0, <2>1, <2>2, <2>3 DEF LaunchExclusive, ProbesEnd, TypeOK, Locked, Probes
<1>9. CASE ClientDies(c)
  <2>1. /\ at' = [at EXCEPT ![c] = "idle"]
        /\ probing' = [probing EXCEPT ![c] = FALSE]
        /\ launch' = Unlock(c)
    BY <1>9 DEF ClientDies, Fails, Goto
  <2>2. \A d \in Clients : launch'[Session[d]] = IF launch[Session[d]] = c THEN Nobody
                                                 ELSE launch[Session[d]]
    BY <2>1 DEF Unlock
  <2>3. QED
    BY <2>1, <2>2 DEF LaunchExclusive, ProbesEnd, TypeOK, Locked, Probes
<1>10. QED
  BY <1>2, <1>3, <1>4, <1>5, <1>6, <1>7, <1>8, <1>9 DEF ClientStep

LEMMA HostLeavesClient ==
  ASSUME NEW h \in Hosts, HostStep(h) \/ Start(h) \/ Shutdown(h) \/ HostDies(h)
  PROVE  UNCHANGED client
BY DEF HostStep, TakeMutex, Clear, Fill, Prepared, Offer, PeerGone, Exit, Start,
   Shutdown, HostDies

\* For any number of clients, sessions, attempts and deaths: the launch mutex
\* is owned by exactly the client of its session that is inside, and no handle
\* of the server mutex outlives its probe.
THEOREM LaunchHolds == Spec => [](LaunchExclusive /\ ProbesEnd)
<1>1. Init => LaunchInv
  BY InitTyped, InitLaunch DEF LaunchInv
<1>2. TypeOK' /\ LaunchInv /\ [Next]_vars => LaunchInv'
  <2> SUFFICES ASSUME TypeOK', LaunchInv, [Next]_vars
               PROVE LaunchExclusive' /\ ProbesEnd'
    BY DEF LaunchInv
  <2>1. CASE UNCHANGED client
    BY <2>1 DEF client, LaunchInv, LaunchExclusive, ProbesEnd
  <2>2. QED
    BY <2>1, ClientLaunch, HostLeavesClient DEF Next, vars
<1>3. QED
  BY TypeCorrect, <1>1, <1>2, PTL DEF Spec, LaunchInv

-----------------------------------------------------------------------------
(* The host's place and its registry                                       *)

\* A host process that ends, or that goes on, leaves the others where they are.
LEMMA HostMoves ==
  ASSUME TypeOK, NEW h \in Hosts, NEW place, Become(h, place)
  PROVE  host'[h] = place /\ \A g \in Hosts \ {h} : host'[g] = host[g]
BY DEF TypeOK, Become

\* Which host passes the mutex test: one that finds no other past it.
LEMMA HostTakes ==
  ASSUME TypeOK, NEW h \in Hosts,
         HostStep(h) \/ Start(h) \/ Shutdown(h) \/ HostDies(h)
  PROVE  /\ \A g \in Hosts \ {h} : host'[g] = host[g]
         /\ host'[h] \in Running /\ host[h] \notin Running =>
              /\ host'[h] = "clear" /\ UNCHANGED registry
              /\ \A g \in Hosts : Session[g] = Session[h] => host[g] \notin Running
<1>1. CASE TakeMutex(h)
  BY <1>1, HostMoves DEF TakeMutex, HasMutex, Running, Setup, Loop
<1>2. CASE Clear(h) \/ Fill(h) \/ Prepared(h) \/ Offer(h) \/ PeerGone(h) \/ Shutdown(h)
  BY <1>2, HostMoves DEF Clear, Fill, Prepared, Offer, PeerGone, Shutdown, Running, Setup, Loop
<1>3. CASE Exit(h) \/ Start(h) \/ HostDies(h)
  BY <1>3, HostMoves DEF Exit, Start, HostDies, Running, Setup, Loop
<1>4. QED
  BY <1>1, <1>2, <1>3 DEF HostStep

\* What a client does to the hosts: it connects to one that listens, or
\* creates one.
LEMMA ClientMoves ==
  ASSUME TypeOK, NEW c \in Clients,
         ClientStep(c) \/ Call(c) \/ Disconnect(c) \/ ClientDies(c)
  PROVE  /\ UNCHANGED registry
         /\ \A h \in Hosts :
              \/ host'[h] = host[h]
              \/ host[h] = "listen" /\ host'[h] = "serve"
              \/ host[h] = "off" /\ host'[h] = "started"
<1>1. CASE Open(c)
  <2>1. PICK h \in Hosts : host[h] = "listen" /\ host' = [host EXCEPT ![h] = "serve"]
    BY <1>1 DEF Open, Instances
  <2>2. QED
    BY <1>1, <2>1 DEF Open, TypeOK
<1>2. CASE Create(c)
  <2>1. CASE UNCHANGED host
    BY <1>2, <2>1 DEF Create
  <2>2. CASE \E h \in Hosts : host[h] = "off" /\ host' = [host EXCEPT ![h] = "started"]
    BY <1>2, <2>2 DEF Create, TypeOK
  <2>3. QED
    BY <1>2, <2>1, <2>2 DEF Create
<1>3. CASE ~Open(c) /\ ~Create(c)
  BY <1>3 DEF ClientStep, Busy, Missing, OpenFails, ProbeOpens, ProbeCloses, ProbeFails,
     GiveUp, Lock, TimeOut, Release, Call, Disconnect, ClientDies, server
<1>4. QED
  BY <1>1, <1>2, <1>3

LEMMA OneHostStep == TypeOK /\ OneHost /\ [Next]_vars => OneHost'
<1> SUFFICES ASSUME TypeOK, OneHost, [Next]_vars PROVE OneHost'
  OBVIOUS
<1>1. CASE UNCHANGED vars
  BY <1>1 DEF vars, server, OneHost
<1>2. ASSUME NEW c \in Clients, ClientStep(c) \/ Call(c) \/ Disconnect(c) \/ ClientDies(c)
      PROVE  OneHost'
  BY <1>2, ClientMoves DEF OneHost, Running, Setup, Loop
<1>3. ASSUME NEW h \in Hosts, HostStep(h) \/ Start(h) \/ Shutdown(h) \/ HostDies(h)
      PROVE  OneHost'
  BY <1>3, HostTakes DEF OneHost
<1>4. QED
  BY <1>1, <1>2, <1>3 DEF Next

\* For any number of clients, hosts and sessions, launches and deaths: one
\* process per session is past the mutex test.
THEOREM OneHostHolds == Spec => []OneHost
<1>1. Init => OneHost
  BY DEF Init, OneHost, Running, Setup, Loop
<1>2. QED
  BY TypeCorrect, <1>1, OneHostStep, PTL DEF Spec

\* Only the host that is past the test writes the registry, and it has emptied
\* it before.
LEMMA RegistryStep ==
  ASSUME IsOneSession, TypeOK, OneHost, OwnRegistry, FilledAlone, [Next]_vars
  PROVE  OwnRegistry' /\ FilledAlone'
<1>1. CASE UNCHANGED vars
  BY <1>1 DEF vars, server, OwnRegistry, FilledAlone
<1>2. ASSUME NEW c \in Clients, ClientStep(c) \/ Call(c) \/ Disconnect(c) \/ ClientDies(c)
      PROVE  OwnRegistry' /\ FilledAlone'
  BY <1>2, ClientMoves DEF OwnRegistry, FilledAlone, Loop
<1>3. ASSUME NEW h \in Hosts, HostStep(h) \/ Start(h) \/ Shutdown(h) \/ HostDies(h)
      PROVE  OwnRegistry' /\ FilledAlone'
  <2>1. \A g \in Hosts : host[g] \in Running /\ host[h] \in Running => g = h
    BY Constants DEF OneHost, IsOneSession
  <2>2. \A g \in Hosts \ {h} : host'[g] = host[g]
    BY <1>3, HostTakes
  <2>3. CASE Clear(h) \/ Fill(h) \/ (Exit(h) /\ host[h] = "fill")
    <3>1. host[h] \in Running
      BY <2>3 DEF Clear, Fill, Exit, Running, Setup
    <3>2. \A g \in Hosts \ {h} : host'[g] \notin Loop \cup {"engine", "fill"}
      BY <2>1, <2>2, <3>1 DEF Running, Setup
    <3>3. CASE Clear(h)
      BY <3>2, <3>3, HostMoves DEF Clear, OwnRegistry, FilledAlone, Loop
    <3>4. CASE Fill(h)
      BY <3>2, <3>4, HostMoves DEF Fill, OwnRegistry, FilledAlone, Loop
    <3>5. CASE Exit(h)
      BY <3>2, <3>5, HostMoves DEF Exit, OwnRegistry, FilledAlone, Loop
    <3>6. QED
      BY <2>3, <3>3, <3>4, <3>5
  <2>4. CASE ~Clear(h) /\ ~Fill(h) /\ ~(Exit(h) /\ host[h] = "fill")
    <3>1. UNCHANGED registry
      BY <1>3, <2>4 DEF HostStep, TakeMutex, Prepared, Offer, PeerGone, Exit, Start,
         Shutdown, HostDies
    <3>2. /\ host'[h] # "fill"
          /\ host'[h] \in Loop \cup {"engine"} => host[h] \in Loop \cup {"engine"}
      BY <1>3, <2>4, HostMoves DEF HostStep, TakeMutex, Prepared, Offer, PeerGone, Exit, Start,
         Shutdown, HostDies, Loop
    <3>3. QED
      BY <2>2, <3>1, <3>2 DEF OwnRegistry, FilledAlone
  <2>5. QED
    BY <2>3, <2>4
<1>4. QED
  BY <1>1, <1>2, <1>3 DEF Next

\* In one session, for any number of processes: a host that loads the engine
\* finds its own registry, and keeps it until it ends.
THEOREM RegistryHolds ==
  ASSUME IsOneSession
  PROVE  Spec => []OwnRegistry
<1>1. Init => OwnRegistry /\ FilledAlone
  BY DEF Init, OwnRegistry, FilledAlone, Loop
<1>2. TypeOK /\ OneHost /\ (OwnRegistry /\ FilledAlone) /\ [Next]_vars
        => (OwnRegistry /\ FilledAlone)'
  BY RegistryStep
<1>3. QED
  BY TypeCorrect, OneHostHolds, <1>1, <1>2, PTL DEF Spec

-----------------------------------------------------------------------------
(* The abstract slot                                                       *)

SlotOwner == IF \E h \in Hosts : host[h] \in Running
             THEN CHOOSE h \in Hosts : host[h] \in Running ELSE Nobody
SlotStage == IF \E h \in Hosts : host[h] \in Loop THEN "ready"
             ELSE IF \E h \in Hosts : host[h] \in Setup THEN "setup" ELSE "free"

\* A step that moves no host across the stages is a stutter of the slot.
LEMMA SlotStutters ==
  ASSUME \A h \in Hosts : /\ host'[h] \in Setup <=> host[h] \in Setup
                          /\ host'[h] \in Loop <=> host[h] \in Loop
  PROVE  SlotOwner' = SlotOwner /\ SlotStage' = SlotStage
<1>1. \A h \in Hosts : host'[h] \in Running <=> host[h] \in Running
  BY DEF Running
<1>2. (CHOOSE h \in Hosts : host'[h] \in Running) = (CHOOSE h \in Hosts : host[h] \in Running)
  BY <1>1
<1>3. QED
  BY <1>1, <1>2 DEF SlotOwner, SlotStage

\* With one host past the test, slot and host say the same.
LEMMA SlotIs ==
  ASSUME NEW h \in Hosts, host[h] \in Running,
         \A g \in Hosts : host[g] \in Running => g = h
  PROVE  SlotOwner = h /\ SlotStage = IF host[h] \in Loop THEN "ready" ELSE "setup"
<1>1. (CHOOSE g \in Hosts : host[g] \in Running) = h
  OBVIOUS
<1>2. QED
  BY <1>1 DEF SlotOwner, SlotStage, Running

LEMMA SlotFree ==
  ASSUME \A g \in Hosts : host[g] \notin Running
  PROVE  SlotOwner = Nobody /\ SlotStage = "free"
BY DEF SlotOwner, SlotStage, Running

LEMMA SlotIsNext ==
  ASSUME NEW h \in Hosts, host'[h] \in Running,
         \A g \in Hosts : host'[g] \in Running => g = h
  PROVE  SlotOwner' = h /\ SlotStage' = IF host'[h] \in Loop THEN "ready" ELSE "setup"
<1>1. (CHOOSE g \in Hosts : host'[g] \in Running) = h
  OBVIOUS
<1>2. QED
  BY <1>1 DEF SlotOwner, SlotStage, Running

LEMMA SlotFreeNext ==
  ASSUME \A g \in Hosts : host'[g] \notin Running
  PROVE  SlotOwner' = Nobody /\ SlotStage' = "free"
BY DEF SlotOwner, SlotStage, Running

\* Every step of a host takes the slot, readies it, leaves it or stutters.
LEMMA HostSlotStep ==
  ASSUME IsOneSession, TypeOK, OneHost, NEW h \in Hosts,
         HostStep(h) \/ Start(h) \/ Shutdown(h) \/ HostDies(h)
  PROVE  [Slot!Next]_(Slot!slot)
<1> USE DEF Slot!Next, Slot!Take, Slot!Ready, Slot!Leave, Slot!slot
<1> DEFINE o == SlotOwner  st == SlotStage
<1>0. \A g \in Hosts \ {h} : host'[g] = host[g]
  BY HostTakes
<1>1. CASE host[h] \notin Running /\ host'[h] \notin Running
  <2>1. \A g \in Hosts : /\ host'[g] \in Setup <=> host[g] \in Setup
                         /\ host'[g] \in Loop <=> host[g] \in Loop
    BY <1>0, <1>1 DEF Running
  <2>2. QED
    BY <2>1, SlotStutters DEF SlotOwner, SlotStage
<1>2. CASE host[h] \notin Running /\ host'[h] \in Running
  <2>1. /\ host'[h] = "clear"
        /\ \A g \in Hosts : host[g] \notin Running
    BY <1>2, HostTakes, Constants DEF IsOneSession
  <2>2. SlotOwner = Nobody /\ SlotStage = "free"
    BY <2>1, SlotFree
  <2>3. SlotOwner' = h /\ SlotStage' = "setup"
    BY <1>0, <1>2, <2>1, SlotIsNext DEF Loop
  <2>4. QED
    BY <2>2, <2>3 DEF SlotOwner, SlotStage
<1>3. CASE host[h] \in Running
  <2>1. \A g \in Hosts : host[g] \in Running => g = h
    BY <1>3, Constants DEF OneHost, IsOneSession
  <2>2. SlotOwner = h /\ SlotStage = IF host[h] \in Loop THEN "ready" ELSE "setup"
    BY <1>3, <2>1, SlotIs
  <2>3. CASE host'[h] \notin Running
    <3>1. SlotOwner' = Nobody /\ SlotStage' = "free"
      BY <1>0, <2>1, <2>3, SlotFreeNext
    <3>2. QED
      BY <2>2, <3>1 DEF SlotOwner, SlotStage, Slot!None, Nobody
  <2>4. CASE host'[h] \in Running
    <3>1. SlotOwner' = h /\ SlotStage' = IF host'[h] \in Loop THEN "ready" ELSE "setup"
      BY <1>0, <2>1, <2>4, SlotIsNext
    <3>2. host[h] \in Loop => host'[h] \in Loop
      BY <2>4, HostMoves DEF HostStep, TakeMutex, Clear, Fill, Prepared, Offer, PeerGone,
         Exit, Start, Shutdown, HostDies, Running, Setup, Loop
    <3>3. QED
      BY <2>2, <3>1, <3>2 DEF SlotOwner, SlotStage
  <2>5. QED
    BY <2>3, <2>4
<1>4. QED
  BY <1>1, <1>2, <1>3

\* The processes of one session implement HostSlot: initially and at every
\* step, for any number of them (its fairness is left to TLC).
THEOREM SlotImplemented ==
  ASSUME IsOneSession
  PROVE  Spec => Slot!Init /\ [][Slot!Next]_(Slot!slot)
<1>1. Init => Slot!Init
  <2> SUFFICES ASSUME Init PROVE Slot!Init
    OBVIOUS
  <2>1. SlotOwner = Nobody /\ SlotStage = "free"
    BY SlotFree DEF Init, Running, Setup, Loop
  <2>2. QED
    BY <2>1 DEF Slot!Init, Slot!None, SlotOwner, SlotStage, Nobody
<1>2. TypeOK /\ OneHost /\ [Next]_vars => [Slot!Next]_(Slot!slot)
  <2> SUFFICES ASSUME TypeOK, OneHost, [Next]_vars PROVE [Slot!Next]_(Slot!slot)
    OBVIOUS
  <2>1. CASE \A h \in Hosts : /\ host'[h] \in Setup <=> host[h] \in Setup
                              /\ host'[h] \in Loop <=> host[h] \in Loop
    BY <2>1, SlotStutters DEF Slot!slot, SlotOwner, SlotStage
  <2>2. CASE UNCHANGED vars
    BY <2>1, <2>2 DEF vars, server
  <2>3. ASSUME NEW c \in Clients, ClientStep(c) \/ Call(c) \/ Disconnect(c) \/ ClientDies(c)
        PROVE  [Slot!Next]_(Slot!slot)
    BY <2>1, <2>3, ClientMoves DEF Setup, Loop
  <2>4. QED
    BY <2>2, <2>3, HostSlotStep DEF Next
<1>3. QED
  BY TypeCorrect, OneHostHolds, <1>1, <1>2, PTL DEF Spec
=============================================================================
