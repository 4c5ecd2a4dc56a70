---------------------------- MODULE MCHlsPublish ----------------------------
(* Two raw keys, "Movies/x.mp4" and "Movies_x.mp4", share a file_id.       *)
EXTENDS HlsPublish, TLC

CONSTANTS r1, r2, s1, s2, p1, hd, sd

TwoRuns == {r1, r2}
NoRuns == {}
OneSource == {s1}
TwoSources == {s1, s2}
OnePrefix == {p1}
Shared == [s \in Source |-> p1]
TwoQualities == {hd, sd}
HdThenSd == <<hd, sd>>
RunSymmetry == Permutations(Run)
=============================================================================
