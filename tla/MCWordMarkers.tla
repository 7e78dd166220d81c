---------------------------- MODULE MCWordMarkers ----------------------------
(* Constants of the runs of WordMarkers.                                   *)
EXTENDS WordMarkers

CONSTANT MaxLen   \* bound: length of the texts that are enumerated

\* Texts in which deleted spaces change what a user's annotation swallows, or
\* several fixes meet, or a join leaves words behind it.
LongerTexts ==
  { <<"bq", "_", ".", ".", "a", "-">>, <<"bq", "_", ".", "_", ".", ".", "a", "-">>,
    <<"bq", "_", "a", ".", "_", "-", "-", "_", "a">>,
    <<"a", "_", ".", ".", "_", "bq", "a", "_", "-", "_", "a">>,
    <<"a", "_", "a", ",", "a">> }

AllTexts == UNION {[1..n -> Classes] : n \in 0..MaxLen} \cup LongerTexts
=============================================================================
