------------------------- MODULE MCVoiceSpeculation -------------------------
(* Small instances of VoiceSpeculation, with one speculate command.        *)
EXTENDS VoiceSpeculation, TLC

CONSTANTS p1, i1

UniqueIds == p1 :> i1
=============================================================================
