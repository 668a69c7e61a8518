----------------------------- MODULE MCLaunchPlans -----------------------------
(* Two calls at a time and one plan, which is all there is room for. *)
EXTENDS LaunchPlans
================================================================================
