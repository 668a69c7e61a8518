---------------------------- MODULE MCProjectEditor ----------------------------
(* Two calls at a time on one project; one path, where two launchers of Cursor and  *)
(* a program that is none come and go.                                               *)
EXTENDS ProjectEditor, TLC

Help == <<"classic", "new-window", "other">>
Symmetry == Permutations(Calls) \cup Permutations(Profiles)
================================================================================
