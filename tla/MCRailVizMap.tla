---------------------------- MODULE MCRailVizMap ----------------------------
(* RailVizRender, TrainMotion and RailVizConnections, one at a time: each  *)
(* initial state lets one of the three run, so that states add up instead  *)
(* of multiplying.                                                         *)
EXTENDS RailVizRender, TrainMotion, RailVizConnections

CONSTANTS d1, d2, p1, q1, o1, o2

VARIABLE running

\* Polylines in both directions, with a line of length 0 and one that a train can
\* pass in one step; a train without travel time.
MCTrains ==
  {[departure |-> 1, arrival |-> 7,
    polylines |-> <<[fwd |-> TRUE, lengths |-> <<2, 1>>],
                    [fwd |-> FALSE, lengths |-> <<1, 0, 2>>]>>],
   [departure |-> 0, arrival |-> 9,
    polylines |-> <<[fwd |-> FALSE, lengths |-> <<1, 3, 2>>],
                    [fwd |-> FALSE, lengths |-> <<2>>],
                    [fwd |-> TRUE, lengths |-> <<1, 1>>]>>],
   [departure |-> 4, arrival |-> 4,
    polylines |-> <<[fwd |-> FALSE, lengths |-> <<1, 1>>]>>]}

\* A walk on foot that the results share, once with its path, and one by bike.
MCResults ==
  {[trips |-> TRUE, walks |-> {p1, q1}, own |-> {}],
   [trips |-> FALSE, walks |-> {p1}, own |-> {}],
   [trips |-> TRUE, walks |-> {p1, q1}, own |-> {p1}]}

MapInit ==
  /\ running \in {"render", "motion", "connections"}
  /\ RenderInit /\ MotionInit /\ ConnectionsInit

MapNext ==
  \/ /\ running = "render" /\ RenderNext
     /\ UNCHANGED <<running, motionVars, connectionsVars>>
  \/ /\ running = "motion" /\ MotionNext
     /\ UNCHANGED <<running, renderVars, connectionsVars>>
  \/ /\ running = "connections" /\ ConnectionsNext
     /\ UNCHANGED <<running, renderVars, motionVars>>

MapSpec ==
  /\ MapInit
  /\ [][MapNext]_<<running, renderVars, motionVars, connectionsVars>>
  /\ running = "render" => RenderFairness
=============================================================================
