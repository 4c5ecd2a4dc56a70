---------------------------- MODULE MCFileWatcher ----------------------------
(* Two videos with one output directory: "a/b.mp4" and "a_b.mp4".          *)
EXTENDS FileWatcher, TLC

CONSTANTS v1, v2, d1, d2, hd, sd

TwoVideos == {v1, v2}
TwoDirs == {d1, d2}
Itself == [p \in TwoVideos |-> p]
OneDir == {d1}
SharedDir == v1 :> d1 @@ v2 :> d1
OwnDir == v1 :> d1 @@ v2 :> d2
TwoQualities == {hd, sd}
HdThenSd == <<hd, sd>>
=============================================================================
