------------------------------- MODULE HostSlot -------------------------------
(***************************************************************************)
(* What the start-up of outloud_host.exe promises to the rest of the       *)
(* system: however many processes are started, the place of the host is    *)
(* taken by one at a time, which prepares itself before it serves, and     *)
(* which does not stay half-way (src/outloud_host.cpp:1-12).               *)
(***************************************************************************)
CONSTANT Hosts

\* No host has this name.
None == "none"

VARIABLES owner, stage

slot == <<owner, stage>>

Init == owner = None /\ stage = "free"

Take(h) ==
  /\ stage = "free"
  /\ owner' = h
  /\ stage' = "setup"

\* Registry and engine are there: the host begins to serve.
Ready ==
  /\ stage = "setup"
  /\ stage' = "ready"
  /\ UNCHANGED owner

\* Shutdown, a start that failed, or the end of the process.
Leave ==
  /\ stage \in {"setup", "ready"}
  /\ owner' = None
  /\ stage' = "free"

Next == (\E h \in Hosts : Take(h)) \/ Ready \/ Leave

Settle == stage = "setup" /\ (Ready \/ Leave)

Spec == Init /\ [][Next]_slot /\ WF_slot(Settle)
=============================================================================
