----------------------------- MODULE SpeechService -----------------------------
(***************************************************************************)
(* What EngineClient promises its callers (src/engine_client.h, lines      *)
(* 15-17 and 35-40), with no pipe, no host and no lock: a call hands its   *)
(* own utterance's chunks to the callbacks, in the order of synthesis,     *)
(* each once; within a process one utterance is played at a time; a call   *)
(* that returns success without an abort has played the whole utterance,   *)
(* unless the engine failed.                                               *)
(***************************************************************************)
EXTENDS Naturals, Sequences

CONSTANTS Threads, ProcessOf, Ops, Length, IndexAt, EngineMayFail

VARIABLES active, op, calls, heard, outcome

vars == <<active, op, calls, heard, outcome>>

\* The n-th piece of the utterance of a thread's current call.
Piece(t, n) == [kind |-> IF n \in IndexAt THEN "index" ELSE "audio",
                by |-> t, call |-> calls[t], n |-> n]

Init ==
  /\ active = [t \in Threads |-> FALSE]
  /\ op = [t \in Threads |-> "speak"]
  /\ calls = [t \in Threads |-> 0]
  /\ heard = [t \in Threads |-> <<>>]
  /\ outcome = [t \in Threads |-> "none"]

Call(t) ==
  /\ ~active[t]
  /\ \E o \in Ops[t] : op' = [op EXCEPT ![t] = o]
  /\ active' = [active EXCEPT ![t] = TRUE]
  /\ calls' = [calls EXCEPT ![t] = @ + 1]
  /\ heard' = [heard EXCEPT ![t] = <<>>]
  /\ outcome' = [outcome EXCEPT ![t] = "none"]

\* Nobody else of the process is in the middle of an utterance.
Floor(t) == \A u \in Threads \ {t} :
              ProcessOf[u] = ProcessOf[t] /\ active[u] => heard[u] = <<>>

PlayNext(t) ==
  /\ active[t]
  /\ op[t] = "speak"
  /\ Floor(t)
  /\ Len(heard[t]) < Length[t]
  /\ heard' = [heard EXCEPT ![t] = Append(@, Piece(t, Len(@) + 1))]

Play(t) == PlayNext(t) /\ UNCHANGED <<active, op, calls, outcome>>

\* The audio callback refuses a chunk.
Abort(t) ==
  /\ PlayNext(t)
  /\ Len(heard[t]) + 1 \notin IndexAt
  /\ active' = [active EXCEPT ![t] = FALSE]
  /\ outcome' = [outcome EXCEPT ![t] = "aborted"]
  /\ UNCHANGED <<op, calls>>

Finish(t, o) ==
  /\ active[t]
  /\ o = "ok" => \/ op[t] # "speak"
                 \/ Len(heard[t]) = Length[t]
                 \/ EngineMayFail
  /\ active' = [active EXCEPT ![t] = FALSE]
  /\ outcome' = [outcome EXCEPT ![t] = o]
  /\ UNCHANGED <<op, calls, heard>>

\* A process ends and its calls with it.
Vanish(c) ==
  /\ active' = [t \in Threads |-> active[t] /\ ProcessOf[t] # c]
  /\ UNCHANGED <<op, calls, heard, outcome>>

Next ==
  \/ \E t \in Threads : \/ Call(t) \/ Play(t) \/ Abort(t)
                        \/ \E o \in {"ok", "failed"} : Finish(t, o)
  \/ \E t \in Threads : Vanish(ProcessOf[t])

Spec == Init /\ [][Next]_vars
=============================================================================
