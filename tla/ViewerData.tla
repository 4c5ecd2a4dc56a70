----------------------------- MODULE ViewerData -----------------------------
(* What the parts of the viewer front end have in common.                  *)
EXTENDS Integers, Sequences, FiniteSets

CONSTANTS
    None,      \* null
    Profile,   \* profiles of the viewers
    Title      \* titles that have cards and can be searched for
=============================================================================
