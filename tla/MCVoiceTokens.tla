----------------------------- MODULE MCVoiceTokens -----------------------------
(* A small instance of VoiceTokens: two languages, two variants.             *)
EXTENDS VoiceTokens

\* A full selection, a part, and a file that names no language.
MCFiles == { [languages |-> {0, 1}, variants |-> {0, 1}],
             [languages |-> {1}, variants |-> {0, 1}],
             [languages |-> {}, variants |-> {1}] }
=============================================================================
