---------------------------- MODULE MCKafkaIngest ----------------------------
(* Two keys; e2 and e3 are two events for one storage_key.                 *)
EXTENDS KafkaIngest, TLC

CONSTANTS e1, e2, e3

MCEntry == {e1, e2, e3}
MCKey == {1, 2}
MCKeyOf == e1 :> 1 @@ e2 :> 2 @@ e3 :> 2
WellFormed == {e1, e2, e3}
AnyMessage == WellFormed \cup {Malformed, Poison}
=============================================================================
