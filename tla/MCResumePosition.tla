-------------------------- MODULE MCResumePosition --------------------------
(* Two profiles; t1 lasts a whole number of seconds, t2 does not.          *)
EXTENDS ResumePosition, TLC

CONSTANTS p1, p2, t1, t2

MCProfile == {p1, p2}
MCTitle == {t1, t2}
MCWholeLength == {t1}
ProfileSymmetry == Permutations(Profile)
=============================================================================
