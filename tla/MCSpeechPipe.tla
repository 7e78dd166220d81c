----------------------------- MODULE MCSpeechPipe -----------------------------
(* Small instances of SpeechPipe.                                          *)
EXTENDS SpeechPipe

CONSTANTS p1, p2, t1, t2, t3, i1

\* Two client processes; p1 has two threads that share its EngineClient.
MCProcessOf == [t \in Threads |-> IF t = t3 THEN p2 ELSE p1]
MCOps == [t \in Threads |-> IF t = t3 THEN {"speak", "ping"}
                            ELSE IF t = t1 THEN {"speak"} ELSE {"speak", "shutdown"}]
MCSpeakOnly == [t \in Threads |-> {"speak"}]

\* Utterances of two chunks; the second is an index reply.
MCLength == [t \in Threads |-> 2]
MCIndexAt == {2}
=============================================================================
