----------------------------- MODULE MCComServer -----------------------------
(* Bounds and symmetry for the run of ComServer.                           *)
EXTENDS ComServer, TLC

Alike == Permutations(Threads) \cup Permutations(Objects) \cup Permutations(Pointers)

Unused == \A t \in Threads : pc[t] = "idle" /\ \A o \in Objects : status[o] = "free"

\* Bound: the registry is left alone while the DLL is in use.  The two halves
\* share only the guard of GetClassObject.
OneAtATime ==
  \/ Unused
  \/ regsvr = Idle /\ ~stuck /\ registry = {Writes[k] : k \in 1..Len(Writes)}
=============================================================================
