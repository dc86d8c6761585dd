--------------------------- MODULE MCRailVizMain ---------------------------
(* RailVizMain where either the filter changes or the view, each with late *)
(* answers: the initial view chooses.                                      *)
EXTENDS RailVizMain

CONSTANTS f1, f2, v0, v1, v2, a1, a2, b1, b2

OneVaries ==
  IF view = v0
  THEN view' = v0 /\ opened'[a2] = None
  ELSE view' # v0 /\ detailFilter' # f2 /\ opened'[b2] = None
=============================================================================
