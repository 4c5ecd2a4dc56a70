-------------------------- MODULE MCTranscodeQueue --------------------------
(* Three keys; two of the four entries share a storage_key and differ in   *)
(* their file_id, as two events for one upload may.                        *)
EXTENDS TranscodeQueue, TLC

CONSTANTS e1, e2, e3, e4

MCEntry == {e1, e2, e3, e4}
MCKey == {1, 2, 3}
MCKeyOf == e1 :> 1 @@ e2 :> 2 @@ e3 :> 3 @@ e4 :> 3
=============================================================================
