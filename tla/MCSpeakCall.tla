------------------------------ MODULE MCSpeakCall ------------------------------
(* A small instance of SpeakCall: two installed languages and one that is    *)
(* not, two rates and two volumes of which one is the base, and fragments    *)
(* that differ from the base in one or two respects.                         *)
EXTENDS SpeakCall

CONSTANTS enu, fra, fin

Plain == [action |-> "speak", lang |-> None, rate |-> 0, volume |-> 100,
          pitch |-> 0, words |-> 2, spoken |-> 2]

MCFragments ==
  { Plain,
    [Plain EXCEPT !.lang = fra, !.words = 1, !.spoken = 1],
    [Plain EXCEPT !.lang = fin, !.rate = 5],
    [Plain EXCEPT !.volume = 50, !.spoken = 1],
    [Plain EXCEPT !.pitch = 3, !.rate = 5, !.words = 1],
    [Plain EXCEPT !.pitch = 4, !.lang = enu, !.words = 0, !.spoken = 0],
    [Plain EXCEPT !.action = "spell", !.lang = fra],
    [Plain EXCEPT !.action = "bookmark"],
    [Plain EXCEPT !.action = "silence"] }

MCScaledRate == [a \in {0, 5} |-> IF a = 0 THEN 50 ELSE 87]
MCScaledVolume == [v \in {50, 100} |-> IF v = 100 THEN 92 ELSE 46]
MCShiftedPitch == [a \in {0, 3, 4} |-> 65 + 3 * a]
=============================================================================
