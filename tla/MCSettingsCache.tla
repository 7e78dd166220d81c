---------------------------- MODULE MCSettingsCache ----------------------------
(* A small instance of SettingsCache: the threads of one process, which are  *)
(* alike.                                                                    *)
EXTENDS SettingsCache, TLC

CONSTANTS p1, t1, t2

MCProcessOf == [t \in Threads |-> p1]

Alike == Permutations(Threads)
=============================================================================
