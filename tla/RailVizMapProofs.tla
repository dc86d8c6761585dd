-------------------------- MODULE RailVizMapProofs --------------------------
(***************************************************************************)
(* What modules RailVizRender, TrainMotion and RailVizConnections promise    *)
(* for any trains, polylines, walks, results and search options, and any     *)
(* number of frames, callbacks and searches.  A click finds its train because*)
(* the attributes are only ever replaced by a frame that also paints the     *)
(* offscreen buffer.  A train stays on its route because the ends of the     *)
(* lines cover the polyline, the offsets of the polylines the route, and its *)
(* position never falls behind the line where the search starts.             *)
(* Connections are drawn because a walk without a path has a call that is    *)
(* still open.                                                               *)
(***************************************************************************)
EXTENDS RailVizRender, TrainMotion, RailVizConnections,
        SequenceTheorems, WellFoundedInduction, TLAPS

(* Drawing and picking.                                                    *)

RenderData ==
  /\ layer \in {"none", "up", "lost"}
  /\ data \in Data /\ attributes \in Data \cup {NoBuffer}
  /\ offscreen \in Data \cup {NoBuffer}
  /\ lastFrame \in {"none", "recent", "old"}
  /\ initialized \in BOOLEAN
  /\ offscreen \in TrainSets => attributes = offscreen
  /\ initialized => attributes = data

RenderFlags ==
  /\ drawTrains \in BOOLEAN /\ limited \in BOOLEAN
  /\ forceDraw \in BOOLEAN /\ repaint \in BOOLEAN

RenderLoop ==
  /\ rafPending \in BOOLEAN /\ callbacks \in 0 .. MaxCallbacks
  /\ rafPending => callbacks > 0

RenderInv == RenderData /\ RenderFlags /\ RenderLoop

\* How many callbacks come too early is between none and all of them.
LEMMA TooEarlyBounds ==
  ASSUME RenderLoop, callbacks > 0
  PROVE  TooEarly \in Nat /\ TooEarly <= callbacks
BY RenderAssumption DEF RenderAssumption, RenderLoop, TooEarly

\* Buffers: new trains, or none, replace those of the attributes in the frame that paints.
LEMMA RenderDataStep ==
  ASSUME RenderData, [RenderNext]_renderVars
  PROVE  RenderData'
<1> USE RenderAssumption DEF RenderAssumption, RenderData, Data
<1>1. CASE OnAdd \/ ContextRestored
  BY <1>1 DEF OnAdd, ContextRestored, Setup
<1>2. CASE ContextLost
  BY <1>2 DEF ContextLost, bufferVars
<1>3. ASSUME NEW trains \in Data, NEW enabled \in BOOLEAN, ShowData(trains, enabled)
      PROVE  RenderData'
  BY <1>3 DEF ShowData
<1>4. CASE (\E enabled \in BOOLEAN : EnableTrains(enabled)) \/ SetTimeOffset \/ SetTargetFps
           \/ FrameTimePasses \/ MapMoves \/ AnimationFrame
  BY <1>4 DEF EnableTrains, SetTimeOffset, SetTargetFps, FrameTimePasses, MapMoves,
              AnimationFrame, bufferVars, loopVars
<1>5. CASE Paint
  BY <1>5 DEF Paint, DrawTrains, NewAttributes
<1>6. CASE UNCHANGED renderVars
  BY <1>6 DEF renderVars, bufferVars, loopVars
<1> QED
  BY <1>1, <1>2, <1>3, <1>4, <1>5, <1>6 DEF RenderNext

LEMMA RenderFlagsStep ==
  ASSUME RenderFlags, [RenderNext]_renderVars
  PROVE  RenderFlags'
<1> USE DEF RenderFlags
<1>1. CASE OnAdd \/ ContextRestored \/ ContextLost
  BY <1>1 DEF OnAdd, ContextRestored, ContextLost, Setup
<1>2. ASSUME NEW trains \in Data, NEW enabled \in BOOLEAN, ShowData(trains, enabled)
      PROVE  RenderFlags'
  <2>1. forceDraw' \in BOOLEAN
    BY <1>2 DEF ShowData
  <2> QED
    BY <1>2, <2>1 DEF ShowData
<1>3. ASSUME NEW enabled \in BOOLEAN, EnableTrains(enabled)
      PROVE  RenderFlags'
  <2>1. drawTrains' \in BOOLEAN /\ forceDraw' \in BOOLEAN
    BY <1>3 DEF EnableTrains
  <2> QED
    BY <1>3, <2>1 DEF EnableTrains
<1>4. CASE SetTargetFps
  <2>1. limited' \in BOOLEAN
    BY <1>4 DEF SetTargetFps
  <2> QED
    BY <1>4, <2>1 DEF SetTargetFps, loopVars
<1>5. CASE SetTimeOffset \/ FrameTimePasses \/ MapMoves \/ Paint
  BY <1>5 DEF SetTimeOffset, FrameTimePasses, MapMoves, Paint
<1>6. CASE AnimationFrame
  <2>1. forceDraw' \in BOOLEAN /\ repaint' \in BOOLEAN
    BY <1>6 DEF AnimationFrame
  <2> QED
    BY <1>6, <2>1 DEF AnimationFrame
<1>7. CASE UNCHANGED renderVars
  BY <1>7 DEF renderVars, loopVars
<1> QED
  BY <1>1, <1>2, <1>3, <1>4, <1>5, <1>6, <1>7 DEF RenderNext

\* Callbacks: stop cancels one that waits, and a frame asks for at most one more.
LEMMA RenderLoopStep ==
  ASSUME RenderLoop, [RenderNext]_renderVars
  PROVE  RenderLoop'
<1> USE RenderAssumption DEF RenderAssumption, RenderLoop
<1>1. CASE OnAdd \/ ContextRestored
  <2>1. callbacks' = callbacks + 1 /\ callbacks < MaxCallbacks /\ rafPending' = TRUE
    BY <1>1 DEF OnAdd, ContextRestored, Setup
  <2>2. callbacks' \in 0 .. MaxCallbacks /\ callbacks' > 0
    BY <2>1
  <2> QED
    BY <2>1, <2>2
<1>2. CASE ContextLost
  <2>1. callbacks' = (IF rafPending THEN callbacks - 1 ELSE callbacks) /\ rafPending' = FALSE
    BY <1>2 DEF ContextLost
  <2>2. callbacks' \in 0 .. MaxCallbacks
    BY <2>1
  <2> QED
    BY <2>1, <2>2
<1>3. CASE AnimationFrame
  <2>1. callbacks > 0 /\ callbacks' = TooEarly /\ rafPending' = (callbacks' > 0)
    BY <1>3 DEF AnimationFrame, AskAgain
  <2>2. TooEarly \in Nat /\ TooEarly <= callbacks
    BY <2>1, TooEarlyBounds
  <2>3. callbacks' \in 0 .. MaxCallbacks
    BY <2>1, <2>2
  <2>4. CASE callbacks' > 0
    <3>1. rafPending' = TRUE
      BY <2>1, <2>4
    <3> QED
      BY <2>3, <2>4, <3>1
  <2>5. CASE ~(callbacks' > 0)
    <3>0. (callbacks' > 0) \in BOOLEAN
      OBVIOUS
    <3>1. rafPending' \in BOOLEAN
      BY <2>1, <3>0, Zenon
    <3>2. ~rafPending'
      BY <2>1, <2>5
    <3> QED
      BY <2>3, <3>1, <3>2
  <2> QED
    BY <2>4, <2>5
<1>4. CASE Paint
  <2>1. callbacks' = callbacks + 1 /\ callbacks < MaxCallbacks /\ rafPending' = TRUE
    BY <1>4 DEF Paint
  <2>2. callbacks' \in 0 .. MaxCallbacks /\ callbacks' > 0
    BY <2>1
  <2> QED
    BY <2>1, <2>2
<1>5. CASE UNCHANGED <<callbacks, rafPending>>
  BY <1>5
<1> QED
  BY <1>1, <1>2, <1>3, <1>4, <1>5
     DEF RenderNext, ShowData, EnableTrains, SetTimeOffset, SetTargetFps, FrameTimePasses,
         MapMoves, renderVars, loopVars

LEMMA RenderInvariance == RenderSpec => []RenderInv
<1>1. RenderInit => RenderInv
  <2> USE RenderAssumption DEF RenderAssumption, RenderInit
  <2>1. RenderInit => RenderData
    BY DEF RenderData, Data
  <2>2. RenderInit => RenderFlags
    BY DEF RenderFlags
  <2>3. RenderInit => ~rafPending /\ rafPending \in BOOLEAN
    BY Zenon
  <2>4. RenderInit => callbacks \in 0 .. MaxCallbacks
    OBVIOUS
  <2> QED
    BY <2>1, <2>2, <2>3, <2>4 DEF RenderInv, RenderLoop
<1>2. RenderInv /\ [RenderNext]_renderVars => RenderInv'
  BY RenderDataStep, RenderFlagsStep, RenderLoopStep DEF RenderInv
<1> QED
  BY <1>1, <1>2, PTL DEF RenderSpec

\* The variables of drawing keep their types; the callbacks that wait are counted
\* right although stop cancels one of them (stop, maybe_render).
THEOREM RenderTypeCorrect == RenderSpec => []RenderTypeOK
<1>1. RenderInv => RenderTypeOK
  BY DEF RenderInv, RenderData, RenderFlags, RenderLoop, RenderTypeOK
<1> QED
  BY <1>1, RenderInvariance, PTL

\* A click finds the train that was drawn where it hits, for any data, disabling of
\* trains and loss of the context (handleMouseEvent, preRender, setup).
THEOREM PickCorrect == RenderSpec => []PickedTrainIsDrawn
<1>1. RenderInv => PickedTrainIsDrawn
  BY DEF RenderInv, RenderData, PickedTrainIsDrawn, Picks
<1> QED
  BY <1>1, RenderInvariance, PTL

-----------------------------------------------------------------------------
(* Connections.                                                            *)

Walks == PprWalks \cup OsrmWalks

ConnectionsTypes ==
  /\ search \in Nat /\ lastTripCall \in Nat
  /\ connections \in [trips : BOOLEAN, walks : SUBSET Walks, own : SUBSET Walks]
  /\ tripsComplete \in BOOLEAN /\ overwritten \in BOOLEAN
  /\ walkData \in [connections.walks -> Options \cup {Direct, Osrm, Own, Error, Nothing}]
  /\ walkCalls \subseteq [search : Nat, walk : Walks, options : Options]
  /\ pprOptions \in Options
  /\ pprCache \in [PprWalks -> Options \cup {Nothing}]
  /\ drawn.search \in Nat /\ drawn.search <= search

\* A walk without a path is asked for, or its answer was unusable.
WalksAsked ==
  \A w \in connections.walks :
    walkData[w] = Nothing =>
      w \in stuck \/ \E call \in walkCalls : call.search = search /\ call.walk = w

\* What is not drawn lacks its trips or a path.
WaitsForPaths ==
  search > 0 /\ drawn.search # search /\ tripsComplete
    => \E w \in connections.walks : walkData[w] = Nothing

\* The trips that arrived, and those that were drawn.
TripsArrived ==
  search > 0 /\ connections.trips =>
    /\ lastTripCall = search
    /\ tripsComplete => tripData = search \/ overwritten
    /\ drawn.search = search => drawn.trips = search \/ overwritten

\* A call was sent with the present options, unless they changed since.
CallOptions ==
  \A call \in walkCalls : call.options = pprOptions \/ call.walk \in crossed

ConnectionsInv ==
  /\ ConnectionsTypes /\ WalksAsked /\ WaitsForPaths /\ TripsArrived
  /\ CallOptions /\ PprCacheOfOptions

\* Constants that tell paths from no path.
LEMMA Paths0 ==
  /\ Nothing \notin Options /\ Direct # Nothing /\ Osrm # Nothing /\ Own # Nothing
  /\ Error # Nothing
  /\ PprWalks \cap OsrmWalks = {}
BY ConnectionsAssumption DEF ConnectionsAssumption

\* What setConnections finds in the caches is a path or Nothing.
LEMMA PathsType ==
  ASSUME ConnectionsTypes, NEW result \in Results
  PROVE  /\ result \in [trips : BOOLEAN, walks : SUBSET Walks, own : SUBSET Walks]
         /\ Paths(result) \in [result.walks -> Options \cup {Direct, Osrm, Own, Error, Nothing}]
<1>1. result \in [trips : BOOLEAN, walks : SUBSET Walks, own : SUBSET Walks]
  BY ConnectionsAssumption DEF ConnectionsAssumption, Walks
<1>2. \A w \in result.walks : Cached(w) \in Options \cup {Direct, Osrm, Own, Error, Nothing}
  BY <1>1 DEF Cached, ConnectionsTypes, Walks
<1> QED
  BY <1>1, <1>2 DEF Paths

\* setConnections.
LEMMA SetConnectionsStep ==
  ASSUME ConnectionsInv, NEW result \in Results, SetConnections(result)
  PROVE  ConnectionsInv'
<1> USE DEF ConnectionsInv
<1>1. /\ result \in [trips : BOOLEAN, walks : SUBSET Walks, own : SUBSET Walks]
      /\ Paths(result) \in [result.walks -> Options \cup {Direct, Osrm, Own, Error, Nothing}]
  BY PathsType
<1>2. /\ search' = search + 1 /\ connections' = result
      /\ tripsComplete' = ~result.trips /\ overwritten' = FALSE /\ stuck' = {}
      /\ lastTripCall' = IF result.trips THEN search' ELSE lastTripCall
      /\ walkData' = Paths(result)
      /\ UNCHANGED <<pprOptions, pprCache, osrmCache, crossed>>
  BY DEF SetConnections, TripsCompleteAtFirst
<1>3. walkCalls' = walkCalls \cup
        {[search |-> search', walk |-> w, options |-> pprOptions] :
           w \in {v \in result.walks : Paths(result)[v] = Nothing}}
  BY DEF SetConnections
<1>4. /\ ~result.trips => drawn'.search = search'
      /\ result.trips => drawn' = drawn
  BY <1>2 DEF SetConnections, DataIsComplete, Drawn
<1>5. ConnectionsTypes'
  <2> DEFINE Asked == {[search |-> search', walk |-> w, options |-> pprOptions] :
                         w \in {v \in result.walks : Paths(result)[v] = Nothing}}
  <2>0. Asked \subseteq [search : Nat, walk : Walks, options : Options]
    BY <1>1, <1>2 DEF ConnectionsTypes
  <2>1. walkCalls' \subseteq [search : Nat, walk : Walks, options : Options]
    BY <2>0, <1>3 DEF ConnectionsTypes
  <2>2. drawn'.search \in Nat /\ drawn'.search <= search'
    BY <1>1, <1>2, <1>4 DEF ConnectionsTypes
  <2>3. tripsComplete' \in BOOLEAN /\ overwritten' \in BOOLEAN
    BY <1>2
  <2>4. search' \in Nat /\ lastTripCall' \in Nat
    BY <1>2 DEF ConnectionsTypes
  <2>5. /\ connections' \in [trips : BOOLEAN, walks : SUBSET Walks, own : SUBSET Walks]
        /\ walkData' \in [connections'.walks -> Options \cup {Direct, Osrm, Own, Error, Nothing}]
    BY <1>1, <1>2
  <2>6. pprOptions' \in Options /\ pprCache' \in [PprWalks -> Options \cup {Nothing}]
    BY <1>2 DEF ConnectionsTypes
  <2> QED
    BY <2>1, <2>2, <2>3, <2>4, <2>5, <2>6 DEF ConnectionsTypes
<1>6. WalksAsked'
  <2> SUFFICES ASSUME NEW w \in result.walks, Paths(result)[w] = Nothing
               PROVE  \E call \in walkCalls' : call.search = search' /\ call.walk = w
    BY <1>2 DEF WalksAsked
  <2> DEFINE call == [search |-> search', walk |-> w, options |-> pprOptions]
  <2>1. call \in walkCalls' /\ call.search = search' /\ call.walk = w
    BY <1>3
  <2> QED
    BY <2>1
<1>7. WaitsForPaths' /\ TripsArrived'
  <2>1. CASE result.trips
    <3>1. tripsComplete' = FALSE /\ lastTripCall' = search' /\ drawn' = drawn
      BY <1>2, <1>4, <2>1
    <3>2. drawn'.search # search'
      BY <1>2, <3>1 DEF ConnectionsTypes
    <3> QED
      BY <3>1, <3>2 DEF WaitsForPaths, TripsArrived
  <2>2. CASE ~result.trips
    BY <1>2, <1>4, <2>2 DEF WaitsForPaths, TripsArrived
  <2> QED
    BY <2>1, <2>2
<1>8. CallOptions' /\ PprCacheOfOptions'
  BY <1>2, <1>3 DEF CallOptions, PprCacheOfOptions
<1> QED
  BY <1>5, <1>6, <1>7, <1>8

\* The end of a call for a path, which ends with showConnections.
LEMMA WalkStep ==
  ASSUME ConnectionsInv, NEW call \in walkCalls, NEW path \in Options \cup {Direct, Osrm, Error},
         EndWalkCall(call, path), ShowConnections
  PROVE  /\ WalksAsked' /\ WaitsForPaths' /\ TripsArrived' /\ CallOptions'
         /\ pprCache' \in [PprWalks -> Options \cup {Nothing}] => ConnectionsTypes'
<1> USE DEF ConnectionsInv
<1>1. /\ walkCalls' = walkCalls \ {call}
      /\ walkData' = IF call.search = search THEN [walkData EXCEPT ![call.walk] = path]
                     ELSE walkData
      /\ UNCHANGED <<search, connections, tripData, tripsComplete, lastTripCall, pprOptions,
                     overwritten, crossed, stuck>>
  BY DEF EndWalkCall
<1>2. walkData' \in [connections.walks -> Options \cup {Direct, Osrm, Own, Error, Nothing}]
  BY <1>1 DEF ConnectionsTypes
<1>3. path # Nothing
  BY Paths0
<1>4. \A w \in connections.walks : walkData'[w] = Nothing =>
        walkData[w] = Nothing /\ ~(call.search = search /\ call.walk = w)
  BY <1>1, <1>3 DEF ConnectionsTypes
<1>5. WalksAsked'
  BY <1>1, <1>4 DEF WalksAsked
<1>6. CASE DataIsComplete(walkData')
  <2>1. drawn' = [search |-> search, trips |-> tripData] /\ tripsComplete
    BY <1>1, <1>6 DEF ShowConnections, DataIsComplete, Drawn
  <2> QED
    BY <1>1, <1>2, <1>5, <2>1 DEF ConnectionsTypes, WaitsForPaths, TripsArrived, CallOptions
<1>7. CASE ~DataIsComplete(walkData')
  <2>1. drawn' = drawn
    BY <1>7 DEF ShowConnections
  <2>2. tripsComplete => \E w \in connections.walks : walkData'[w] = Nothing
    BY <1>1, <1>2, <1>7 DEF DataIsComplete
  <2> QED
    BY <1>1, <1>2, <1>5, <2>1, <2>2 DEF ConnectionsTypes, WaitsForPaths, TripsArrived, CallOptions
<1> QED
  BY <1>6, <1>7

LEMMA ConnectionsStep ==
  ASSUME ConnectionsInv, [ConnectionsNext]_connectionsVars
  PROVE  ConnectionsInv'
<1> USE DEF ConnectionsInv
<1>1. ASSUME NEW result \in Results, SetConnections(result) PROVE ConnectionsInv'
  BY <1>1, SetConnectionsStep
<1>2. ASSUME NEW s \in tripCalls, TripDataReceived(s) PROVE ConnectionsInv'
  <2>1. UNCHANGED <<search, connections, walkData, lastTripCall, walkCalls, pprOptions,
                    pprCache, osrmCache, crossed, stuck>>
    BY <1>2 DEF TripDataReceived
  <2>2. CASE IsLastTripCall(s)
    <3>1. /\ tripsComplete' = TRUE /\ UNCHANGED overwritten
          /\ tripData' = IF s = search THEN s ELSE Nothing
          /\ s = lastTripCall /\ ShowConnections
      BY <1>2, <2>2 DEF TripDataReceived, IsLastTripCall
    <3>2. CASE DataIsComplete(walkData')
      <4>1. drawn' = [search |-> search, trips |-> tripData']
        BY <2>1, <3>1, <3>2 DEF ShowConnections, Drawn
      <4> QED
        BY <2>1, <3>1, <4>1 DEF ConnectionsTypes, WalksAsked, WaitsForPaths, TripsArrived,
                                CallOptions, PprCacheOfOptions
    <3>3. CASE ~DataIsComplete(walkData')
      <4>1. drawn' = drawn
        BY <3>1, <3>3 DEF ShowConnections
      <4>2. \E w \in connections.walks : walkData'[w] = Nothing
        BY <2>1, <3>1, <3>3 DEF DataIsComplete, ConnectionsTypes
      <4> QED
        BY <2>1, <3>1, <4>1, <4>2 DEF ConnectionsTypes, WalksAsked, WaitsForPaths,
                                      TripsArrived, CallOptions, PprCacheOfOptions
    <3> QED
      BY <3>2, <3>3
  <2>3. CASE ~IsLastTripCall(s)
    <3>1. /\ overwritten' = (overwritten \/ tripsComplete)
          /\ UNCHANGED <<tripsComplete, drawn>>
      BY <1>2, <2>3 DEF TripDataReceived
    <3> QED
      BY <2>1, <3>1 DEF ConnectionsTypes, WalksAsked, WaitsForPaths, TripsArrived,
                        CallOptions, PprCacheOfOptions
  <2> QED
    BY <2>2, <2>3
<1>9. ASSUME NEW s \in tripCalls, TripsUnusable(s) PROVE ConnectionsInv'
  <2>1. /\ overwritten' = (overwritten \/ tripsComplete)
        /\ UNCHANGED <<search, connections, tripsComplete, walkData, lastTripCall, walkCalls,
                       pprOptions, pprCache, osrmCache, drawn, crossed, stuck>>
    BY <1>9 DEF TripsUnusable
  <2>2. overwritten' \in BOOLEAN
    BY <2>1 DEF ConnectionsTypes
  <2> QED
    BY <2>1, <2>2 DEF ConnectionsTypes, WalksAsked, WaitsForPaths, TripsArrived,
                      CallOptions, PprCacheOfOptions
<1>3. ASSUME NEW s \in tripCalls, TripsFailed(s) PROVE ConnectionsInv'
  BY <1>3 DEF TripsFailed, ConnectionsTypes, WalksAsked, WaitsForPaths, TripsArrived,
              CallOptions, PprCacheOfOptions
<1>4. ASSUME NEW call \in walkCalls, NEW found \in BOOLEAN, PprReceived(call, found)
      PROVE  ConnectionsInv'
  <2>1. call.options \in Options /\ (call.options = pprOptions \/ call.walk \in crossed)
    BY DEF ConnectionsTypes, CallOptions
  <2>2. /\ EndWalkCall(call, IF found THEN call.options ELSE Direct) /\ ShowConnections
        /\ pprCache' = IF found THEN [pprCache EXCEPT ![call.walk] = call.options] ELSE pprCache
        /\ UNCHANGED <<pprOptions, crossed>>
    BY <1>4 DEF PprReceived, EndWalkCall
  <2>3. pprCache' \in [PprWalks -> Options \cup {Nothing}]
    BY <2>1, <2>2 DEF ConnectionsTypes
  <2>4. PprCacheOfOptions'
    BY <2>1, <2>2 DEF ConnectionsTypes, PprCacheOfOptions
  <2>5. (IF found THEN call.options ELSE Direct) \in Options \cup {Direct, Osrm, Error}
    BY <2>1
  <2> QED
    BY <2>2, <2>3, <2>4, <2>5, WalkStep
<1>5. ASSUME NEW call \in walkCalls, OsrmReceived(call) PROVE ConnectionsInv'
  <2>1. EndWalkCall(call, Osrm) /\ ShowConnections /\ UNCHANGED <<pprCache, pprOptions, crossed>>
    BY <1>5 DEF OsrmReceived, EndWalkCall
  <2> QED
    BY <2>1, WalkStep DEF ConnectionsTypes, PprCacheOfOptions
<1>6. ASSUME NEW call \in walkCalls, WalkFailed(call) PROVE ConnectionsInv'
  <2>1. EndWalkCall(call, Error) /\ ShowConnections /\ UNCHANGED <<pprCache, pprOptions, crossed>>
    BY <1>6 DEF WalkFailed, EndWalkCall
  <2> QED
    BY <2>1, WalkStep DEF ConnectionsTypes, PprCacheOfOptions
<1>10. ASSUME NEW call \in walkCalls, WalkUnusable(call) PROVE ConnectionsInv'
  <2>1. /\ walkCalls' = walkCalls \ {call}
        /\ stuck' = IF call.search = search THEN stuck \cup {call.walk} ELSE stuck
        /\ UNCHANGED <<search, connections, tripData, tripsComplete, walkData, lastTripCall,
                       tripCalls, pprOptions, pprCache, osrmCache, drawn, overwritten, crossed>>
    BY <1>10 DEF WalkUnusable
  <2>2. WalksAsked'
    BY <2>1 DEF WalksAsked
  <2> QED
    BY <2>1, <2>2 DEF ConnectionsTypes, WaitsForPaths, TripsArrived, CallOptions,
                      PprCacheOfOptions
<1>7. ASSUME NEW options \in Options, SetPPRSearchOptions(options) PROVE ConnectionsInv'
  <2>1. /\ pprCache' = [w \in PprWalks |-> Nothing] /\ pprOptions' = options
        /\ crossed' = crossed \cup {call.walk : call \in walkCalls}
        /\ UNCHANGED <<search, connections, tripData, tripsComplete, walkData, lastTripCall,
                       tripCalls, walkCalls, osrmCache, drawn, overwritten, stuck>>
    BY <1>7 DEF SetPPRSearchOptions, CacheReset
  <2> QED
    BY <2>1 DEF ConnectionsTypes, WalksAsked, WaitsForPaths, TripsArrived, CallOptions,
                PprCacheOfOptions
<1>8. CASE UNCHANGED connectionsVars
  BY <1>8 DEF connectionsVars, ConnectionsTypes, WalksAsked, WaitsForPaths, TripsArrived,
              CallOptions, PprCacheOfOptions
<1> QED
  BY <1>1, <1>2, <1>3, <1>4, <1>5, <1>6, <1>7, <1>8, <1>9, <1>10 DEF ConnectionsNext

LEMMA ConnectionsInvariance == ConnectionsSpec => []ConnectionsInv
<1>1. ConnectionsInit => ConnectionsInv
  <2> SUFFICES ASSUME ConnectionsInit PROVE ConnectionsInv
    OBVIOUS
  <2> USE DEF ConnectionsInit
  <2>1. ConnectionsTypes
    <3>1. tripsComplete \in BOOLEAN /\ overwritten \in BOOLEAN
      OBVIOUS
    <3>2. walkData \in [{} -> Options \cup {Direct, Osrm, Own, Error, Nothing}]
      OBVIOUS
    <3>3. connections \in [trips : BOOLEAN, walks : SUBSET Walks, own : SUBSET Walks] /\ connections.walks = {}
      OBVIOUS
    <3> QED
      BY <3>1, <3>2, <3>3, ConnectionsAssumption DEF ConnectionsAssumption, ConnectionsTypes
  <2>2. WalksAsked /\ WaitsForPaths /\ TripsArrived
    BY DEF WalksAsked, WaitsForPaths, TripsArrived
  <2>3. CallOptions /\ PprCacheOfOptions
    BY DEF CallOptions, PprCacheOfOptions
  <2> QED
    BY <2>1, <2>2, <2>3 DEF ConnectionsInv
<1> QED
  BY <1>1, ConnectionsStep, PTL DEF ConnectionsSpec

\* The present connections are drawn as soon as their trips have arrived and no call for
\* a path is open, unless an answer was unusable, with their trips unless a late answer has overwritten them
\* (tripDataReceived, walkDataReceived, showConnections).
THEOREM ConnectionsCorrect == ConnectionsSpec => []ConnectionsDrawn
<1>1. ConnectionsInv => ConnectionsDrawn
  BY DEF ConnectionsInv, WalksAsked, WaitsForPaths, TripsArrived, ConnectionsDrawn
<1> QED
  BY <1>1, ConnectionsInvariance, PTL

\* A path in the cache is one of the present options, unless its call was open when
\* they changed (handlePPRResponse, resetPPRCache).
THEOREM CacheCorrect == ConnectionsSpec => []PprCacheOfOptions
BY ConnectionsInvariance, PTL DEF ConnectionsInv

-----------------------------------------------------------------------------
(* Movement of trains.                                                     *)

\* A set of natural numbers that is not empty has a least one.
LEMMA LeastOf ==
  ASSUME NEW M, M \subseteq Nat, M # {}
  PROVE  \E m \in M : \A k \in M : m <= k
<1>1. PICK m \in M : \A k \in M : ~(<<k, m>> \in OpToRel(<, Nat))
  BY NatLessThanWellFounded, WFMin
<1>2. \A k \in M : ~(k < m)
  BY <1>1 DEF OpToRel
<1> QED
  BY <1>2

\* total is built up to n by the loop of Totals.
Adds(total, lengths, n) ==
  total = [i \in 0 .. n |-> IF i = 0 THEN 0 ELSE total[i - 1] + lengths[i]]

LEMMA AddsExists ==
  ASSUME NEW lengths \in Seq(Nat), NEW n \in 0 .. Len(lengths)
  PROVE  \E total \in [0 .. n -> Nat] : Adds(total, lengths, n)
<1> DEFINE Built(m) == \E total \in [0 .. m -> Nat] : Adds(total, lengths, m)
           M == {m \in 0 .. Len(lengths) : ~Built(m)}
<1> SUFFICES ASSUME M # {} PROVE FALSE
  OBVIOUS
<1>1. PICK m \in M : \A k \in M : m <= k
  <2> HIDE DEF M
  <2>1. M \subseteq Nat
    BY DEF M
  <2> QED
    BY <2>1, LeastOf
<1>2. m \in 0 .. Len(lengths) /\ ~Built(m) /\ Len(lengths) \in Nat
  <2> HIDE DEF Built
  <2> QED
    OBVIOUS
<1>3. CASE m = 0
  <2> DEFINE total == [i \in 0 .. 0 |-> 0]
  <2>1. total \in [0 .. 0 -> Nat]
    OBVIOUS
  <2>2. Adds(total, lengths, 0)
    BY DEF Adds
  <2> HIDE DEF total
  <2> QED
    BY <1>2, <1>3, <2>1, <2>2
<1>4. CASE m # 0
  <2>1. m - 1 \in 0 .. Len(lengths) /\ ~(m <= m - 1)
    BY <1>2, <1>4
  <2>2. PICK f \in [0 .. m - 1 -> Nat] : Adds(f, lengths, m - 1)
    BY <1>1, <2>1
  <2> DEFINE total == [i \in 0 .. m |-> IF i < m THEN f[i] ELSE f[m - 1] + lengths[m]]
  <2>3. lengths[m] \in Nat
    BY <1>2, <1>4
  <2>4. total \in [0 .. m -> Nat]
    BY <1>2, <1>4, <2>3
  <2>5. ASSUME NEW i \in 0 .. m
        PROVE  total[i] = IF i = 0 THEN 0 ELSE total[i - 1] + lengths[i]
    <3>1. i # 0 => i - 1 \in 0 .. m /\ i - 1 < m
      BY <1>2
    <3>2. i # 0 => total[i - 1] = f[i - 1]
      BY <3>1
    <3>3. CASE i < m
      <4>1. i \in 0 .. m - 1
        BY <1>2, <3>3
      <4>2. f[i] = IF i = 0 THEN 0 ELSE f[i - 1] + lengths[i]
        BY <2>2, <4>1 DEF Adds
      <4>3. total[i] = f[i]
        BY <3>3
      <4> HIDE DEF total
      <4> QED
        BY <3>2, <4>2, <4>3
    <3>4. CASE ~(i < m)
      <4>1. i = m /\ i # 0
        BY <1>2, <1>4, <3>4
      <4>2. total[i] = f[m - 1] + lengths[m]
        BY <3>4
      <4> HIDE DEF total
      <4> QED
        BY <3>2, <4>1, <4>2
    <3> QED
      BY <3>3, <3>4
  <2>6. Adds(total, lengths, m)
    <3>1. total = [i \in 0 .. m |-> total[i]]
      OBVIOUS
    <3> HIDE DEF total
    <3> QED
      BY <2>5, <3>1 DEF Adds
  <2> HIDE DEF total
  <2> QED
    BY <1>2, <2>4, <2>6
<1> QED
  BY <1>3, <1>4

\* Totals are natural numbers that grow by one length after the other.
LEMMA TotalsAre ==
  ASSUME NEW lengths \in Seq(Nat)
  PROVE  /\ Totals(lengths) \in [0 .. Len(lengths) -> Nat]
         /\ Totals(lengths)[0] = 0
         /\ \A i \in 1 .. Len(lengths) :
              Totals(lengths)[i] = Totals(lengths)[i - 1] + lengths[i]
<1> DEFINE n == Len(lengths)
           f == CHOOSE f : Adds(f, lengths, n)
<1>1. n \in Nat /\ n \in 0 .. n
  OBVIOUS
<1>2. Adds(f, lengths, n)
  BY <1>1, AddsExists
<1>3. f = Totals(lengths)
  BY DEF Totals, Adds
<1> HIDE DEF f
<1>4. f[0] = 0 /\ \A i \in 1 .. n : f[i] = f[i - 1] + lengths[i]
  BY <1>1, <1>2 DEF Adds
<1>5. f \in [0 .. n -> Nat]
  <2> DEFINE M == {i \in 0 .. n : f[i] \notin Nat}
  <2>1. M = {}
    <3> SUFFICES ASSUME M # {} PROVE FALSE
      OBVIOUS
    <3>1. PICK m \in M : \A k \in M : m <= k
      <4> HIDE DEF M
      <4>1. M \subseteq Nat
        BY <1>1 DEF M
      <4> QED
        BY <4>1, LeastOf
    <3>2. m \in 1 .. n /\ f[m] \notin Nat
      BY <1>1, <1>4
    <3>3. m - 1 \in 0 .. n /\ ~(m <= m - 1)
      BY <1>1, <3>2
    <3>4. f[m - 1] \in Nat /\ lengths[m] \in Nat
      BY <3>1, <3>2, <3>3
    <3> HIDE DEF M
    <3> QED
      BY <1>4, <3>2, <3>4
  <2>2. f = [i \in 0 .. n |-> f[i]]
    BY <1>2 DEF Adds
  <2> QED
    BY <2>1, <2>2
<1> QED
  BY <1>3, <1>4, <1>5

\* What lies between two of a row of values lies between two neighbours.
LEMMA Fits ==
  ASSUME NEW n \in Nat, NEW k \in 1 .. n, NEW ends \in [0 .. n -> Int], NEW pos \in Int,
         ends[k - 1] <= pos, pos <= ends[n]
  PROVE  \E j \in k .. n : ends[j - 1] <= pos /\ pos <= ends[j]
<1> DEFINE M == {j \in k .. n : pos <= ends[j]}
<1>1. n \in M
  OBVIOUS
<1>2. PICK j \in M : \A l \in M : j <= l
  <2>1. M \subseteq Nat /\ M # {}
    BY <1>1
  <2> HIDE DEF M
  <2> QED
    BY <2>1, LeastOf
<1>3. CASE j = k
  BY <1>3
<1>4. CASE j # k
  <2>1. j - 1 \in k .. n /\ ~(j <= j - 1)
    BY <1>4
  <2>2. ~(pos <= ends[j - 1])
    BY <1>2, <2>1
  <2>3. ends[j - 1] \in Int
    BY <2>1
  <2> QED
    BY <2>2, <2>3
<1> QED
  BY <1>3, <1>4

LEMMA Scaled ==
  ASSUME NEW a \in Int, NEW b \in Int, NEW d \in Nat, a <= b
  PROVE  a * d <= b * d
<1>1. (b - a) * d >= 0
  BY b - a \in Nat
<1>2. (b - a) * d = b * d - a * d
  OBVIOUS
<1> QED
  BY <1>1, <1>2

-----------------------------------------------------------------------------
\* The trains, their polylines and lines.
LEMMA TrainsAre ==
  ASSUME NEW t \in Trains, NEW k \in 1 .. Len(t.polylines)
  PROVE  /\ t.departure \in Int /\ t.arrival \in Int
         /\ Len(t.polylines) \in Nat \ {0}
         /\ t.polylines[k].fwd \in BOOLEAN
         /\ t.polylines[k].lengths \in Seq(Nat)
         /\ Len(t.polylines[k].lengths) \in Nat \ {0}
<1>1. t.polylines \in Seq([fwd : BOOLEAN, lengths : Seq(Nat)])
  BY MotionAssumption DEF MotionAssumption
<1>2. Len(t.polylines) \in Nat /\ DOMAIN t.polylines = 1 .. Len(t.polylines)
  BY <1>1
<1>3. t.polylines[k] \in [fwd : BOOLEAN, lengths : Seq(Nat)]
  <2> DEFINE Polylines == [fwd : BOOLEAN, lengths : Seq(Nat)]
  <2>1. t.polylines \in Seq(Polylines)
    BY <1>1
  <2> HIDE DEF Polylines
  <2>2. t.polylines[k] \in Polylines
    BY <1>2, <2>1
  <2> QED
    BY <2>2 DEF Polylines
<1>4. t.polylines[k].lengths # <<>>
  BY <1>2, MotionAssumption DEF MotionAssumption
<1>5. Len(t.polylines) # 0
  BY <1>2
<1>6. t.polylines[k].lengths \in Seq(Nat)
  BY <1>3
<1>7. Len(t.polylines[k].lengths) \in Nat /\ Len(t.polylines[k].lengths) # 0
  BY <1>4, <1>6, EmptySeq
<1> QED
  BY <1>2, <1>3, <1>5, <1>6, <1>7, MotionAssumption DEF MotionAssumption

LEMMA TrainStarts ==
  ASSUME NEW t \in Trains
  PROVE  t.departure \in Int /\ t.arrival \in Int /\ Len(t.polylines) \in Nat \ {0}
<1>1. t.polylines \in Seq([fwd : BOOLEAN, lengths : Seq(Nat)]) /\ t.polylines # <<>>
  BY MotionAssumption DEF MotionAssumption
<1> QED
  BY <1>1, EmptySeq, MotionAssumption DEF MotionAssumption

\* The offsets of the polylines, up to the end of the route.
LEMMA OffsetsAre ==
  ASSUME NEW t \in Trains
  PROVE  /\ \A k \in 1 .. Len(t.polylines) + 1 : Offset(t, k) \in Nat
         /\ Offset(t, 1) = 0 /\ Route(t) \in Nat
         /\ \A k \in 1 .. Len(t.polylines) :
              /\ TotalLength(t.polylines[k]) \in Nat
              /\ Offset(t, k + 1) = Offset(t, k) + TotalLength(t.polylines[k])
<1> DEFINE n == Len(t.polylines)
           lengths == PolylineLengths(t)
<1>1. n \in Nat
  BY TrainStarts
<1>2. \A k \in 1 .. n : TotalLength(t.polylines[k]) \in Nat
  <2> SUFFICES ASSUME NEW k \in 1 .. n PROVE TotalLength(t.polylines[k]) \in Nat
    OBVIOUS
  <2>1. t.polylines[k].lengths \in Seq(Nat) /\ Len(t.polylines[k].lengths) \in Nat
    BY TrainsAre
  <2> QED
    BY <2>1, TotalsAre DEF TotalLength
<1>3. lengths \in Seq(Nat) /\ Len(lengths) = n
      /\ \A k \in 1 .. n : lengths[k] = TotalLength(t.polylines[k])
  BY <1>1, <1>2 DEF PolylineLengths
<1> HIDE DEF lengths
<1>4. /\ Totals(lengths) \in [0 .. n -> Nat] /\ Totals(lengths)[0] = 0
      /\ \A k \in 1 .. n : Totals(lengths)[k] = Totals(lengths)[k - 1] + lengths[k]
  BY <1>3, TotalsAre
<1>5. \A k \in 1 .. n + 1 : Offset(t, k) = Totals(lengths)[k - 1] /\ k - 1 \in 0 .. n
  BY <1>1 DEF Offset, lengths
<1>6. \A k \in 1 .. n + 1 : Offset(t, k) \in Nat
  BY <1>4, <1>5
<1>7. Offset(t, 1) = 0
  BY <1>1, <1>4, <1>5
<1>8. Route(t) \in Nat
  BY <1>1, <1>6 DEF Route
<1>9. \A k \in 1 .. n : Offset(t, k + 1) = Offset(t, k) + TotalLength(t.polylines[k])
  <2> SUFFICES ASSUME NEW k \in 1 .. n
               PROVE  Offset(t, k + 1) = Offset(t, k) + TotalLength(t.polylines[k])
    OBVIOUS
  <2>1. k \in 1 .. n + 1 /\ k + 1 \in 1 .. n + 1 /\ (k + 1) - 1 = k
    BY <1>1
  <2>2. Offset(t, k) = Totals(lengths)[k - 1] /\ Offset(t, k + 1) = Totals(lengths)[k]
    BY <1>5, <2>1
  <2> QED
    BY <1>3, <1>4, <2>2
<1> QED
  BY <1>2, <1>6, <1>7, <1>8, <1>9

\* Where line i of polyline k ends on the route; it begins where the one before ends.
LineEnd(t, k, i) ==
  LET p == t.polylines[k]
      n == Len(p.lengths)
  IN IF p.fwd THEN Offset(t, k) + Totals(p.lengths)[i]
     ELSE Offset(t, k) + TotalLength(p) - Totals(p.lengths)[n - i]

\* The lines of a polyline lie end to end, from its offset to that of the next one.
LEMMA LinesAre ==
  ASSUME NEW t \in Trains, NEW k \in 1 .. Len(t.polylines)
  PROVE  LET n == Len(t.polylines[k].lengths)
         IN /\ \A i \in 0 .. n : LineEnd(t, k, i) \in Int
            /\ LineEnd(t, k, 0) = Offset(t, k) /\ LineEnd(t, k, n) = Offset(t, k + 1)
            /\ \A i \in 1 .. n :
                 /\ CurrLinePos(t, k, i)[1] = LineEnd(t, k, i - 1)
                 /\ CurrLinePos(t, k, i)[1] + CurrLinePos(t, k, i)[2] = LineEnd(t, k, i)
<1> DEFINE p == t.polylines[k]
           n == Len(p.lengths)
           total == Totals(p.lengths)
<1>1. n \in Nat /\ p.lengths \in Seq(Nat) /\ p.fwd \in BOOLEAN /\ k \in 1 .. Len(t.polylines) + 1
  BY TrainsAre
<1>2. Offset(t, k) \in Nat /\ Offset(t, k + 1) = Offset(t, k) + TotalLength(p)
      /\ TotalLength(p) \in Nat
  BY <1>1, OffsetsAre
<1>3. /\ total \in [0 .. n -> Nat] /\ total[0] = 0
      /\ \A i \in 1 .. n : total[i] = total[i - 1] + p.lengths[i]
  BY <1>1, TotalsAre
<1>4. TotalLength(p) = total[n] /\ \A i \in 1 .. n : LineOffset(p, i) = total[i - 1]
  BY DEF TotalLength, LineOffset
<1>5. \A i \in 0 .. n : LineEnd(t, k, i) =
        IF p.fwd THEN Offset(t, k) + total[i] ELSE Offset(t, k) + TotalLength(p) - total[n - i]
  BY DEF LineEnd
<1>6. \A i \in 1 .. n : CurrLinePos(t, k, i) =
        IF p.fwd THEN <<Offset(t, k) + LineOffset(p, i), p.lengths[i]>>
        ELSE <<Offset(t, k) + TotalLength(p)
                 - (LineOffset(p, n + 1 - i) + p.lengths[n + 1 - i]), p.lengths[n + 1 - i]>>
  BY DEF CurrLinePos
<1>7. \A i \in 1 .. n : p.lengths[i] \in Nat
  BY <1>1
<1> HIDE DEF p, n, total
<1>8. \A i \in 0 .. n : LineEnd(t, k, i) \in Int
  <2> SUFFICES ASSUME NEW i \in 0 .. n PROVE LineEnd(t, k, i) \in Int
    OBVIOUS
  <2>1. total[i] \in Nat /\ n - i \in 0 .. n /\ total[n - i] \in Nat
    BY <1>1, <1>3
  <2> QED
    BY <1>2, <1>5, <2>1
<1>9. LineEnd(t, k, 0) = Offset(t, k) /\ LineEnd(t, k, n) = Offset(t, k + 1)
  <2>1. total[n] \in Nat /\ n - 0 = n /\ n - n = 0 /\ 0 \in 0 .. n /\ n \in 0 .. n
    BY <1>1, <1>3
  <2>2. LineEnd(t, k, 0) =
          IF p.fwd THEN Offset(t, k) + total[0] ELSE Offset(t, k) + TotalLength(p) - total[n]
    BY <1>5, <2>1
  <2>3. LineEnd(t, k, n) =
          IF p.fwd THEN Offset(t, k) + total[n] ELSE Offset(t, k) + TotalLength(p) - total[0]
    BY <1>5, <2>1
  <2> QED
    BY <1>2, <1>3, <1>4, <2>1, <2>2, <2>3
<1>10. ASSUME NEW i \in 1 .. n
       PROVE  /\ CurrLinePos(t, k, i)[1] = LineEnd(t, k, i - 1)
              /\ CurrLinePos(t, k, i)[1] + CurrLinePos(t, k, i)[2] = LineEnd(t, k, i)
  <2>1. i - 1 \in 0 .. n /\ i \in 0 .. n
    BY <1>1
  <2>2. CASE p.fwd
    <3>1. total[i] = total[i - 1] + p.lengths[i] /\ total[i - 1] \in Nat
      BY <1>3, <2>1
    <3>2. CurrLinePos(t, k, i) = <<Offset(t, k) + total[i - 1], p.lengths[i]>>
      BY <1>4, <1>6, <2>2
    <3>3. LineEnd(t, k, i - 1) = Offset(t, k) + total[i - 1]
          /\ LineEnd(t, k, i) = Offset(t, k) + total[i]
      BY <1>5, <2>1, <2>2
    <3> QED
      BY <1>2, <1>7, <3>1, <3>2, <3>3
  <2>3. CASE ~p.fwd
    <3> DEFINE l == n + 1 - i
    <3>1. l \in 1 .. n /\ l - 1 \in 0 .. n /\ n - i = l - 1 /\ n - (i - 1) = l
      BY <1>1
    <3> HIDE DEF l
    <3>2. total[l] = total[l - 1] + p.lengths[l] /\ total[l - 1] \in Nat /\ p.lengths[l] \in Nat
      BY <1>3, <1>7, <3>1
    <3>3. CurrLinePos(t, k, i) =
            <<Offset(t, k) + TotalLength(p) - (total[l - 1] + p.lengths[l]), p.lengths[l]>>
      BY <1>4, <1>6, <2>3, <3>1 DEF l
    <3>4. LineEnd(t, k, i - 1) = Offset(t, k) + TotalLength(p) - total[l]
          /\ LineEnd(t, k, i) = Offset(t, k) + TotalLength(p) - total[l - 1]
      BY <1>5, <2>1, <2>3, <3>1
    <3> QED
      BY <1>2, <3>2, <3>3, <3>4
  <2> QED
    BY <2>2, <2>3
<1> QED
  BY <1>8, <1>9, <1>10 DEF n, p
\* The first of the numbers that fit, if there is one.
LEMMA FirstOfIs ==
  ASSUME NEW fitting, fitting \subseteq Nat, NEW last
  PROVE  /\ fitting = {} => FirstOf(fitting, last) = last
         /\ fitting # {} => FirstOf(fitting, last) \in fitting
<1>1. fitting # {} => \E j \in fitting : \A l \in fitting : j <= l
  BY LeastOf
<1> QED
  BY <1>1 DEF FirstOf

\* The loops end on a polyline and on a line, wherever they begin.
LEMMA NextPolylineIn ==
  ASSUME NEW t \in Trains, NEW k \in 0 .. Len(t.polylines), NEW pos
  PROVE  NextPolyline(t, pos, k) \in 1 .. Len(t.polylines)
<1> DEFINE n == Len(t.polylines)
           fitting == {j \in Or1(k) .. n : OnPolyline(t, pos, j)}
<1>1. n \in Nat \ {0} /\ Or1(k) \in 1 .. n
  BY TrainStarts DEF Or1
<1>2. fitting \subseteq 1 .. n
  BY <1>1
<1>3. NextPolyline(t, pos, k) = FirstOf(fitting, n)
  BY DEF NextPolyline
<1> HIDE DEF fitting
<1>4. /\ fitting = {} => FirstOf(fitting, n) = n
      /\ fitting # {} => FirstOf(fitting, n) \in fitting
  <2>1. fitting \subseteq Nat
    BY <1>1, <1>2
  <2> QED
    BY <2>1, FirstOfIs
<1>5. n \in 1 .. n
  BY <1>1
<1> QED
  BY <1>2, <1>3, <1>4, <1>5

LEMMA NextLineIn ==
  ASSUME NEW t \in Trains, NEW k \in 1 .. Len(t.polylines), NEW from \in Nat \ {0}, NEW pos
  PROVE  NextLine(t, pos, k, from) \in 1 .. Len(t.polylines[k].lengths)
<1> DEFINE n == Len(t.polylines[k].lengths)
           fitting == {j \in from .. n : OnLine(t, pos, k, j)}
<1>1. n \in Nat \ {0}
  BY TrainsAre
<1>2. fitting \subseteq 1 .. n
  BY <1>1
<1>3. NextLine(t, pos, k, from) = FirstOf(fitting, n)
  BY DEF NextLine
<1> HIDE DEF fitting, n
<1>4. /\ fitting = {} => FirstOf(fitting, n) = n
      /\ fitting # {} => FirstOf(fitting, n) \in fitting
  <2>1. fitting \subseteq Nat
    BY <1>1, <1>2
  <2> QED
    BY <2>1, FirstOfIs
<1>5. n \in 1 .. n
  BY <1>1
<1>6. FirstOf(fitting, n) \in 1 .. n
  BY <1>2, <1>4, <1>5
<1> QED
  BY <1>3, <1>6 DEF n

\* A position on the route ahead is on some polyline, and one ahead on the polyline
\* is on some line.
LEMMA PolylineFits ==
  ASSUME NEW t \in Trains, NEW k \in 1 .. Len(t.polylines), NEW pos \in Int,
         Duration(t) \in Nat \ {0},
         Offset(t, k) * Duration(t) <= pos, pos <= Route(t) * Duration(t)
  PROVE  OnPolyline(t, pos, NextPolyline(t, pos, k))
<1> DEFINE n == Len(t.polylines)
           d == Duration(t)
           ends == [j \in 0 .. n |-> Offset(t, j + 1) * d]
           fitting == {j \in k .. n : OnPolyline(t, pos, j)}
<1>1. n \in Nat /\ d \in Nat \ {0}
  BY TrainStarts
<1>2. \A j \in 0 .. n : j + 1 \in 1 .. n + 1 /\ Offset(t, j + 1) \in Nat
  BY <1>1, OffsetsAre
<1>3. ends \in [0 .. n -> Int]
  <2> HIDE DEF d
  <2> QED
    BY <1>1, <1>2
<1>4. ends[k - 1] <= pos /\ pos <= ends[n]
  <2>1. k - 1 \in 0 .. n /\ (k - 1) + 1 = k /\ n \in 0 .. n
    BY <1>1
  <2>2. ends[k - 1] = Offset(t, k) * d /\ ends[n] = Route(t) * d
    BY <2>1 DEF Route
  <2> QED
    BY <2>2
<1>5. PICK j \in k .. n : ends[j - 1] <= pos /\ pos <= ends[j]
  <2> HIDE DEF ends
  <2> QED
    BY <1>1, <1>3, <1>4, Fits
<1>6. OnPolyline(t, pos, j)
  <2>1. j \in 1 .. n /\ j - 1 \in 0 .. n /\ j \in 0 .. n /\ (j - 1) + 1 = j
    BY <1>1
  <2>2. ends[j - 1] = Offset(t, j) * d /\ ends[j] = Offset(t, j + 1) * d
    BY <2>1
  <2>3. Offset(t, j + 1) = Offset(t, j) + TotalLength(t.polylines[j])
    BY <2>1, OffsetsAre
  <2>4. ends[j - 1] \in Int /\ ends[j] \in Int
    BY <1>3, <2>1
  <2>5. pos >= Offset(t, j) * d /\ pos <= (Offset(t, j) + TotalLength(t.polylines[j])) * d
    <3> HIDE DEF ends, d
    <3> QED
      BY <1>5, <2>2, <2>3, <2>4
  <2> QED
    BY <2>5 DEF OnPolyline, Within
<1>7. NextPolyline(t, pos, k) = FirstOf(fitting, n)
  BY DEF NextPolyline, Or1
<1>8. fitting # {} /\ fitting \subseteq Nat
  BY <1>5, <1>6
<1>9. FirstOf(fitting, n) \in fitting
  <2> HIDE DEF fitting
  <2> QED
    BY <1>8, FirstOfIs
<1> QED
  BY <1>7, <1>9

\* A position is on a line if it lies between its ends.
LEMMA OnLineIs ==
  ASSUME NEW t \in Trains, NEW k \in 1 .. Len(t.polylines),
         NEW i \in 1 .. Len(t.polylines[k].lengths), NEW pos
  PROVE  OnLine(t, pos, k, i) <=>
           /\ Duration(t) # 0
           /\ pos >= LineEnd(t, k, i - 1) * Duration(t)
           /\ pos <= LineEnd(t, k, i) * Duration(t)
<1>1. /\ CurrLinePos(t, k, i)[1] = LineEnd(t, k, i - 1)
      /\ CurrLinePos(t, k, i)[1] + CurrLinePos(t, k, i)[2] = LineEnd(t, k, i)
  BY LinesAre
<1> QED
  BY <1>1 DEF OnLine, Within

LEMMA LineFits ==
  ASSUME NEW t \in Trains, NEW k \in 1 .. Len(t.polylines),
         NEW i \in 1 .. Len(t.polylines[k].lengths), NEW pos \in Int,
         Duration(t) \in Nat \ {0},
         LineEnd(t, k, i - 1) * Duration(t) <= pos,
         pos <= Offset(t, k + 1) * Duration(t)
  PROVE  OnLine(t, pos, k, NextLine(t, pos, k, i))
<1> DEFINE n == Len(t.polylines[k].lengths)
           d == Duration(t)
           ends == [j \in 0 .. n |-> LineEnd(t, k, j) * d]
           fitting == {j \in i .. n : OnLine(t, pos, k, j)}
<1>1. n \in Nat /\ d \in Nat \ {0} /\ i \in 1 .. n
  BY TrainsAre
<1>2. \A j \in 0 .. n : LineEnd(t, k, j) \in Int
  BY LinesAre
<1>3. ends \in [0 .. n -> Int]
  <2> HIDE DEF d, n
  <2> QED
    BY <1>1, <1>2
<1>4. ends[i - 1] <= pos /\ pos <= ends[n]
  <2>1. i - 1 \in 0 .. n /\ n \in 0 .. n
    BY <1>1
  <2>2. LineEnd(t, k, n) = Offset(t, k + 1)
    BY LinesAre
  <2>3. ends[i - 1] = LineEnd(t, k, i - 1) * d /\ ends[n] = Offset(t, k + 1) * d
    BY <2>1, <2>2
  <2> QED
    BY <2>3
<1>5. PICK j \in i .. n : ends[j - 1] <= pos /\ pos <= ends[j]
  <2> HIDE DEF ends, n
  <2> QED
    BY <1>1, <1>3, <1>4, Fits
<1>6. OnLine(t, pos, k, j)
  <2>1. j \in 1 .. n /\ j - 1 \in 0 .. n /\ j \in 0 .. n
    BY <1>1
  <2>2. ends[j - 1] = LineEnd(t, k, j - 1) * d /\ ends[j] = LineEnd(t, k, j) * d
    BY <2>1
  <2>3. ends[j - 1] \in Int /\ ends[j] \in Int
    BY <1>3, <2>1
  <2>4. d # 0 /\ pos >= LineEnd(t, k, j - 1) * d /\ pos <= LineEnd(t, k, j) * d
    <3> HIDE DEF ends, d
    <3> QED
      BY <1>1, <1>5, <2>2, <2>3
  <2> QED
    BY <2>1, <2>4, OnLineIs
<1>7. NextLine(t, pos, k, i) = FirstOf(fitting, n)
  BY DEF NextLine
<1>8. fitting # {} /\ fitting \subseteq Nat
  BY <1>1, <1>5, <1>6
<1>9. FirstOf(fitting, n) \in fitting
  <2> HIDE DEF fitting
  <2> QED
    BY <1>8, FirstOfIs
<1> QED
  BY <1>7, <1>9

\* A visible train is between the two ends of its route, and further on later.
LEMMA PosIs ==
  ASSUME NEW t \in Trains, NEW time \in Int, Visible(t, time)
  PROVE  /\ Duration(t) \in Nat /\ Pos(t, time) \in Nat
         /\ Pos(t, time) <= Route(t) * Duration(t)
         /\ Duration(t) = 0 => Pos(t, time) = 0
<1> DEFINE a == time - t.departure
           b == Duration(t)
           r == Route(t)
<1>1. a \in Nat /\ b \in Nat /\ a <= b
  BY TrainStarts DEF Visible, Duration
<1>2. r \in Nat /\ Pos(t, time) = a * r
  BY OffsetsAre DEF Pos
<1> HIDE DEF a, b, r
<1>3. a * r <= b * r
  BY <1>1, <1>2, Scaled
<1>4. a * r \in Nat /\ b * r = r * b
  BY <1>1, <1>2
<1>5. b = 0 => a * r = 0
  BY <1>1, <1>2
<1> QED
  BY <1>1, <1>2, <1>3, <1>4, <1>5 DEF b, r

LEMMA PosGrows ==
  ASSUME NEW t \in Trains, NEW time \in Int, NEW later \in Int, time <= later
  PROVE  Pos(t, time) <= Pos(t, later)
<1>1. t.departure \in Int /\ Route(t) \in Nat
  BY TrainStarts, OffsetsAre
<1>2. (time - t.departure) * Route(t) <= (later - t.departure) * Route(t)
  BY <1>1, Scaled
<1> QED
  BY <1>2 DEF Pos

-----------------------------------------------------------------------------
\* A visible train is on some line of some polyline, the GPU has that line, and unless
\* the time went back, the position is on it.
MotionInv ==
  /\ train \in Trains \cup {NoTrain} /\ now \in Int
  /\ polyline \in Nat /\ line \in Nat /\ rewound \in BOOLEAN
  /\ polyline = 0 => line = 0
  /\ polyline # 0 =>
       /\ train # NoTrain /\ Visible(train, now)
       /\ polyline \in 1 .. Len(train.polylines)
       /\ line \in 1 .. Len(train.polylines[polyline].lengths)
       /\ buffer = MercatorLine(train, polyline, line)
       /\ progress = Pos(train, now) - CurrLinePos(train, polyline, line)[1] * Duration(train)
  /\ polyline # 0 /\ ~rewound /\ Duration(train) # 0 =>
       /\ OnLine(train, Pos(train, now), polyline, line)
       /\ Pos(train, now) >= Offset(train, polyline) * Duration(train)

LEMMA MotionInitInv == MotionInit => MotionInv
<1> SUFFICES ASSUME MotionInit PROVE MotionInv
  OBVIOUS
<1>1. train = NoTrain /\ now \in Int /\ polyline = 0 /\ line = 0 /\ rewound = FALSE
  BY DEF MotionInit
<1>2. polyline \in Nat /\ line \in Nat
  BY <1>1
<1> QED
  BY <1>1, <1>2 DEF MotionInv

LEMMA VanishInv ==
  ASSUME MotionInv, NEW time \in Int, train \in Trains, now' = time, train' = train,
         Vanish(time)
  PROVE  MotionInv'
  BY DEF Vanish, MotionInv

LEMMA GlideInv ==
  ASSUME MotionInv, NEW time \in Int, train \in Trains, now' = time, train' = train,
         Glide(time)
  PROVE  MotionInv'
<1>1. /\ Visible(train, time) /\ polyline # 0
      /\ OnLine(train, Pos(train, time), polyline, line)
      /\ UNCHANGED <<polyline, line, buffer>>
      /\ rewound' = (rewound \/ time < now)
      /\ progress' = Pos(train, time) - CurrLinePos(train, polyline, line)[1] * Duration(train)
  BY DEF Glide
<1>2. ~rewound' /\ Duration(train) # 0 =>
        Pos(train, time) >= Offset(train, polyline) * Duration(train)
  <2> SUFFICES ASSUME ~rewound', Duration(train) # 0
               PROVE  Pos(train, time) >= Offset(train, polyline) * Duration(train)
    OBVIOUS
  <2>1. ~rewound /\ now <= time /\ now \in Int
    <3>1. ~rewound /\ ~(time < now)
      BY <1>1
    <3> QED
      BY <3>1 DEF MotionInv
  <2>2. Pos(train, now) >= Offset(train, polyline) * Duration(train)
    BY <1>1, <2>1 DEF MotionInv
  <2>3. Pos(train, now) <= Pos(train, time)
    BY <2>1, PosGrows
  <2>4. Pos(train, now) \in Nat /\ Pos(train, time) \in Nat /\ Duration(train) \in Nat
    BY <1>1, <2>1, PosIs DEF MotionInv
  <2>5. Offset(train, polyline) \in Nat
    <3>1. polyline \in 1 .. Len(train.polylines) + 1
      BY <1>1, TrainStarts DEF MotionInv
    <3> QED
      BY <3>1, OffsetsAre
  <2>6. Offset(train, polyline) * Duration(train) \in Nat
    BY <2>4, <2>5
  <2> QED
    BY <2>2, <2>3, <2>4, <2>6
<1>3. rewound' \in BOOLEAN
  BY <1>1 DEF MotionInv
<1> QED
  BY <1>1, <1>2, <1>3 DEF MotionInv

\* Searching from the polyline and line of an earlier time finds those of the new time.
LEMMA MoveOnFits ==
  ASSUME MotionInv, NEW time \in Int, train \in Trains, Visible(train, time),
         Duration(train) # 0, polyline # 0 => ~rewound /\ now <= time,
         NEW next, next = NextPolyline(train, Pos(train, time), polyline),
         NEW i, i = NextLine(train, Pos(train, time), next,
                             FirstLine(train, Pos(train, time), polyline, next, line))
  PROVE  /\ OnLine(train, Pos(train, time), next, i)
         /\ Pos(train, time) >= Offset(train, next) * Duration(train)
<1> DEFINE pos == Pos(train, time)
           d == Duration(train)
           k == Or1(polyline)
<1>1. d \in Nat \ {0} /\ pos \in Nat /\ pos <= Route(train) * d
  BY PosIs
<1>2. Len(train.polylines) \in Nat \ {0} /\ k \in 1 .. Len(train.polylines)
  BY TrainStarts DEF MotionInv, Or1
<1>3. \A j \in 1 .. Len(train.polylines) : Offset(train, j) \in Nat /\ Offset(train, j + 1) \in Nat
  BY <1>2, OffsetsAre
<1>4. polyline # 0 => Pos(train, now) <= pos /\ Pos(train, now) \in Nat
  BY PosGrows, PosIs DEF MotionInv
<1>5. Offset(train, k) * d <= pos
  <2>1. CASE polyline = 0
    <3>1. Offset(train, k) = 0
      BY <2>1, OffsetsAre DEF Or1
    <3> QED
      BY <1>1, <3>1
  <2>2. CASE polyline # 0
    <3>1. Pos(train, now) >= Offset(train, k) * d
      BY <2>2 DEF MotionInv, Or1
    <3>2. Offset(train, k) * d \in Nat
      BY <1>1, <1>2, <1>3
    <3> HIDE DEF pos, d, k
    <3> QED
      BY <1>1, <1>4, <2>2, <3>1, <3>2
  <2> QED
    BY <2>1, <2>2
<1>6. next = NextPolyline(train, pos, k) /\ next \in 1 .. Len(train.polylines)
  <2>1. Or1(k) = k
    BY <1>2 DEF Or1
  <2>2. next = NextPolyline(train, pos, k)
    BY <2>1 DEF NextPolyline
  <2>3. k \in 0 .. Len(train.polylines)
    BY <1>2
  <2> HIDE DEF k, pos
  <2> QED
    BY <2>2, <2>3, NextPolylineIn
<1>7. OnPolyline(train, pos, next)
  <2> HIDE DEF k, pos
  <2> QED
    BY <1>1, <1>2, <1>5, <1>6, PolylineFits
<1>8. pos >= Offset(train, next) * d /\ pos <= Offset(train, next + 1) * d
  <2>1. Offset(train, next + 1) = Offset(train, next) + TotalLength(train.polylines[next])
    BY <1>6, OffsetsAre
  <2> QED
    BY <1>7, <2>1 DEF OnPolyline, Within
<1> DEFINE from == FirstLine(train, pos, polyline, next, line)
<1>9. /\ from \in 1 .. Len(train.polylines[next].lengths)
      /\ LineEnd(train, next, from - 1) * d <= pos
  <2>1. CASE next # k \/ polyline = 0
    <3>1. from = 1
      BY <1>7, <2>1 DEF FirstLine, MotionInv, Or1
    <3>2. LineEnd(train, next, 0) = Offset(train, next)
      BY <1>6, LinesAre
    <3>3. 1 \in 1 .. Len(train.polylines[next].lengths) /\ 1 - 1 = 0
      <4>1. Len(train.polylines[next].lengths) \in Nat \ {0}
        BY <1>6, TrainsAre
      <4> QED
        BY <4>1
    <3>4. Offset(train, next) * d \in Nat
      BY <1>1, <1>3, <1>6
    <3> HIDE DEF from, pos, d
    <3> QED
      BY <1>1, <1>8, <3>1, <3>2, <3>3, <3>4
  <2>2. CASE next = k /\ polyline # 0
    <3>1. from = line /\ next = polyline /\ line \in 1 .. Len(train.polylines[next].lengths)
      BY <2>2 DEF FirstLine, MotionInv, Or1
    <3>2. OnLine(train, Pos(train, now), next, line)
      BY <2>2, <3>1 DEF MotionInv
    <3>3. Pos(train, now) >= LineEnd(train, next, from - 1) * d
      BY <1>6, <3>1, <3>2, OnLineIs
    <3>4. LineEnd(train, next, from - 1) \in Int
      <4>1. Len(train.polylines[next].lengths) \in Nat
        BY <1>6, TrainsAre
      <4>2. from - 1 \in 0 .. Len(train.polylines[next].lengths)
        BY <3>1, <4>1
      <4> QED
        BY <1>6, <4>2, LinesAre
    <3>5. LineEnd(train, next, from - 1) * d \in Int
      <4> HIDE DEF d
      <4> QED
        BY <1>1, <3>4
    <3> HIDE DEF from, pos, d
    <3> QED
      BY <1>1, <1>4, <2>2, <3>1, <3>3, <3>5
  <2> QED
    BY <2>1, <2>2
<1>10. OnLine(train, pos, next, NextLine(train, pos, next, from))
  <2>1. pos \in Int /\ pos <= Offset(train, next + 1) * d
    BY <1>1, <1>8
  <2> HIDE DEF from, pos
  <2> QED
    BY <1>1, <1>6, <1>9, <2>1, LineFits
<1> QED
  BY <1>8, <1>10

LEMMA MoveOnInv ==
  ASSUME MotionInv, NEW time \in Int, train \in Trains, now' = time, train' = train,
         MoveOn(time)
  PROVE  MotionInv'
<1> DEFINE pos == Pos(train, time)
           next == NextPolyline(train, pos, polyline)
           from == FirstLine(train, pos, polyline, next, line)
<1>1. /\ Visible(train, time) /\ polyline' = next /\ line' = NextLine(train, pos, next, from)
      /\ progress' = pos - CurrLinePos(train, next, line')[1] * Duration(train)
      /\ buffer' = MercatorLine(train, next, line')
      /\ rewound' = (polyline # 0 /\ (rewound \/ time < now))
  BY DEF MoveOn
<1>2. next \in 1 .. Len(train.polylines)
  <2>1. polyline \in 0 .. Len(train.polylines)
    BY TrainStarts DEF MotionInv
  <2> HIDE DEF pos
  <2> QED
    BY <2>1, NextPolylineIn
<1>3. line' \in 1 .. Len(train.polylines[next].lengths)
  <2>1. from \in Nat \ {0}
    <3> HIDE DEF next
    <3> QED
      BY DEF FirstLine, Or1, MotionInv
  <2> HIDE DEF pos, next, from
  <2> QED
    BY <1>1, <1>2, <2>1, NextLineIn
<1>4. ASSUME ~rewound', Duration(train) # 0
      PROVE  /\ OnLine(train, pos, next, line')
             /\ pos >= Offset(train, next) * Duration(train)
  <2>1. polyline # 0 => ~rewound /\ ~(time < now)
    BY <1>1, <1>4
  <2>2. polyline # 0 => ~rewound /\ now <= time
    BY <2>1 DEF MotionInv
  <2> QED
    BY <1>1, <1>4, <2>2, MoveOnFits
<1>5. /\ polyline' \in Nat /\ polyline' # 0 /\ line' \in Nat /\ train # NoTrain
      /\ rewound' \in BOOLEAN
  <2> HIDE DEF next
  <2> QED
    BY <1>1, <1>2, <1>3, MotionAssumption DEF MotionAssumption, MotionInv
<1> HIDE DEF pos, next, from
<1>6. pos = Pos(train', now')
  BY DEF pos
<1> QED
  BY <1>1, <1>2, <1>3, <1>4, <1>5, <1>6 DEF MotionInv

LEMMA MotionNextInv == MotionInv /\ [MotionNext]_motionVars => MotionInv'
<1> SUFFICES ASSUME MotionInv, [MotionNext]_motionVars PROVE MotionInv'
  OBVIOUS
<1>1. ASSUME NEW t \in Trains, SetTrain(t) PROVE MotionInv'
  BY <1>1 DEF SetTrain, MotionInv
<1>2. ASSUME NEW time \in 0 .. MaxTime, Frame(time) PROVE MotionInv'
  <2>1. time \in Int /\ train \in Trains /\ now' = time /\ train' = train
        /\ (Vanish(time) \/ Glide(time) \/ MoveOn(time))
    BY <1>2, MotionAssumption DEF Frame, MotionInv, MotionAssumption
  <2> QED
    BY <2>1, VanishInv, GlideInv, MoveOnInv
<1>3. CASE UNCHANGED motionVars
  BY <1>3 DEF motionVars, MotionInv
<1> QED
  BY <1>1, <1>2, <1>3 DEF MotionNext

LEMMA MotionInvCorrect == MotionSpec => []MotionInv
  BY MotionInitInv, MotionNextInv, PTL DEF MotionSpec

\* The ends of the line in the buffer are those of the line on the route.
LEMMA BufferEnds ==
  ASSUME NEW t \in Trains, NEW k \in 1 .. Len(t.polylines),
         NEW i \in 1 .. Len(t.polylines[k].lengths),
         NEW ends, ends = MercatorLine(t, k, i)
  PROVE  /\ Along(t, ends[1], ends[2]) = LineEnd(t, k, i - 1)
         /\ Along(t, ends[1], ends[3]) = LineEnd(t, k, i)
<1> DEFINE p == t.polylines[k]
           n == Len(p.lengths)
<1>1. n \in Nat /\ i \in 1 .. n
  BY TrainsAre
<1>2. CASE p.fwd
  <2>1. ends[1] = k /\ ends[2] = i /\ ends[3] = i + 1
    BY <1>2 DEF MercatorLine
  <2>2. (i + 1) - 1 = i
    BY <1>1
  <2> QED
    BY <1>2, <2>1, <2>2 DEF Along, LineEnd, LineOffset
<1>3. CASE ~p.fwd
  <2>1. ends[1] = k /\ ends[2] = n + 2 - i /\ ends[3] = n + 1 - i
    BY <1>3 DEF MercatorLine
  <2>2. (n + 2 - i) - 1 = n - (i - 1) /\ (n + 1 - i) - 1 = n - i
    BY <1>1
  <2> QED
    BY <1>3, <2>1, <2>2 DEF Along, LineEnd, LineOffset
<1> QED
  BY <1>2, <1>3

\* A visible train is drawn at the place of its route that its time says, for any
\* trains, polylines and frames: DrawnOnItsRoute.
THEOREM DrawnCorrect == MotionSpec => []DrawnOnItsRoute
<1>1. MotionInv => DrawnOnItsRoute
  <2> SUFFICES ASSUME MotionInv, polyline # 0, ~rewound
               PROVE  LET from == Along(train, buffer[1], buffer[2])
                          to == Along(train, buffer[1], buffer[3])
                      IN /\ from * Duration(train) + progress = Pos(train, now)
                         /\ progress >= 0 /\ progress <= (to - from) * Duration(train)
    BY DEF DrawnOnItsRoute
  <2> DEFINE from == LineEnd(train, polyline, line - 1)
             to == LineEnd(train, polyline, line)
             d == Duration(train)
             pos == Pos(train, now)
  <2>1. /\ train \in Trains /\ now \in Int /\ Visible(train, now)
        /\ polyline \in 1 .. Len(train.polylines)
        /\ line \in 1 .. Len(train.polylines[polyline].lengths)
        /\ buffer = MercatorLine(train, polyline, line)
        /\ progress = pos - CurrLinePos(train, polyline, line)[1] * d
        /\ d # 0 => OnLine(train, pos, polyline, line)
    BY DEF MotionInv
  <2>2. Along(train, buffer[1], buffer[2]) = from /\ Along(train, buffer[1], buffer[3]) = to
    BY <2>1, BufferEnds
  <2>3. CurrLinePos(train, polyline, line)[1] = from
    BY <2>1, LinesAre
  <2>4. from \in Int /\ to \in Int
    <3>1. Len(train.polylines[polyline].lengths) \in Nat
      BY <2>1, TrainsAre
    <3>2. /\ line - 1 \in 0 .. Len(train.polylines[polyline].lengths)
          /\ line \in 0 .. Len(train.polylines[polyline].lengths)
      BY <2>1, <3>1
    <3> QED
      BY <2>1, <3>2, LinesAre
  <2>5. d \in Nat /\ pos \in Nat /\ (d = 0 => pos = 0)
    BY <2>1, PosIs
  <2>6. d # 0 => pos >= from * d /\ pos <= to * d
    BY <2>1, OnLineIs
  <2> HIDE DEF from, to, d, pos
  <2>7. from * d \in Int /\ to * d \in Int /\ (to - from) * d = to * d - from * d
    BY <2>4, <2>5
  <2>8. d = 0 => from * d = 0 /\ to * d = 0
    BY <2>4
  <2>9. progress = pos - from * d
    BY <2>1, <2>3
  <2>10. from * d + progress = pos /\ progress >= 0 /\ progress <= (to - from) * d
    BY <2>5, <2>6, <2>7, <2>8, <2>9
  <2> QED
    BY <2>2, <2>10 DEF d, pos
<1> QED
  BY <1>1, MotionInvCorrect, PTL
=============================================================================
