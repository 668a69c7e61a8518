---------------------------- MODULE MCSessionIndex ----------------------------
(***************************************************************************)
(* Two projects, one inside the other; two sessions directories, y inside  *)
(* x.  Session g lies in y and right inside a directory of x, where a scan *)
(* of either finds it; f lies one directory deeper, where only a scan of y *)
(* does.  g is recorded in the inner project.                              *)
(***************************************************************************)
EXTENDS SessionIndex, TLC

CONSTANTS outer, inner, x, y, f, g

MCProjects == {outer, inner}
MCRoots == {x, y}
MCFiles == {f, g}
MCDepth == outer :> 1 @@ inner :> 2
MCHolds == outer :> {f, g} @@ inner :> {g}
MCUnder == x :> {f, g} @@ y :> {f, g}
MCReach == x :> {g} @@ y :> {f, g}
MCBelow == x :> {x, y} @@ y :> {y}

MCSymmetry == Permutations(Calls) \cup Permutations(Profiles)
=============================================================================
