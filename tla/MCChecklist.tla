---------------------------- MODULE MCChecklist ----------------------------
(* Checklist for TLC: one check whose row may go missing.                  *)
EXTENDS Checklist
=============================================================================
