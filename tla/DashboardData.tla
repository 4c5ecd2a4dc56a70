---------------------------- MODULE DashboardData ----------------------------
(* What the views of the deployment dashboard share (App.jsx): null, which *)
(* stands for a view that is not mounted and for data not yet there.       *)
CONSTANT None
=============================================================================
