------------------------- MODULE RailVizConnections -------------------------
(***************************************************************************)
(* The connections of a search result on the map:                          *)
(* ui/web/js/railviz/connectionmgr.js, setData of path_connections.js and   *)
(* setPPRSearchOptions of main.js.                                          *)
(*                                                                          *)
(* setConnections asks for the trips of all connections in one call and for *)
(* the path of each walk in a call of its own, unless a cache has it.  The  *)
(* connections are drawn when the trips have arrived and each walk has its  *)
(* path or an error.  Neither call is cancelled by the next search: its     *)
(* answers find the variables of a later one.  A search is named by its     *)
(* number; walks with the same walkId are one walk.  The server and the     *)
(* network are external.  (The spinner is in RailVizMain.)                  *)
(***************************************************************************)
EXTENDS Naturals

CONSTANTS
  PprWalks,     \* walks on foot, by walkId
  OsrmWalks,    \* walks by bike or car
  Results,      \* results of searches: whether they have trains, their walks, and which
                \* of these bring their path
  Options,      \* PPR search options, named like the paths they lead to
  Default,      \* the options at the start
  Direct,       \* a straight line: PPR found no path
  Osrm,         \* a path of OSRM
  Own,          \* the path the result has for the walk
  Error,        \* the call for a path has failed
  Nothing,      \* null; trip data without trains of the connections
  MaxSearches   \* bound on the calls of setConnections

ASSUME ConnectionsAssumption ==
  /\ PprWalks \cap OsrmWalks = {}
  /\ Results \subseteq [trips : BOOLEAN, walks : SUBSET (PprWalks \cup OsrmWalks),
                  own : SUBSET (PprWalks \cup OsrmWalks)]
  /\ Default \in Options
  /\ Nothing \notin Options \cup {Direct, Osrm, Own, Error} \cup Nat
  /\ MaxSearches \in Nat

VARIABLES
  search,        \* number of the present search, 0 before the first one
  connections,   \* its result
  tripData,      \* the search whose trips were processed last
  tripsComplete,
  walkData,      \* per walk of the search: its path, Error or Nothing
  lastTripCall,  \* lastTripsRequest: the search it was made for
  tripCalls,     \* searches whose call for trips is open
  walkCalls,     \* open calls for paths: search, walk and options when sent
  pprOptions,    \* pprSearchOptions of main.js
  pprCache,      \* per walk the options that led to its path
  osrmCache,     \* walks whose path is known
  drawn,         \* what Path.Connections.setData was given last
  overwritten,   \* history: a late answer came after the trips of the search
  crossed,       \* history: walks whose call was open when the options changed
  stuck          \* history: walks of the search whose answer was unusable

connectionsVars ==
  <<search, connections, tripData, tripsComplete, walkData, lastTripCall, tripCalls,
    walkCalls, pprOptions, pprCache, osrmCache, drawn, overwritten, crossed,
    stuck>>

ConnectionsInit ==
  /\ search = 0
  /\ connections = [trips |-> FALSE, walks |-> {}, own |-> {}]
  /\ tripData = Nothing /\ tripsComplete = FALSE
  /\ walkData = [w \in {} |-> Nothing]
  /\ lastTripCall = 0
  /\ tripCalls = {} /\ walkCalls = {}
  /\ pprOptions = Default
  /\ pprCache = [w \in PprWalks |-> Nothing]
  /\ osrmCache = {}
  /\ drawn = [search |-> 0, trips |-> Nothing]
  /\ overwritten = FALSE /\ crossed = {} /\ stuck = {}

-----------------------------------------------------------------------------

\* dataIsComplete.
DataIsComplete(walks) == tripsComplete' /\ \A w \in DOMAIN walks : walks[w] # Nothing

\* Path.Connections.setData: the lines of the trips and of the walks that have a path.
Drawn(s, trips) == [search |-> s, trips |-> trips]

\* showConnections, after the other assignments of a handler.
ShowConnections ==
  drawn' = IF DataIsComplete(walkData')
           THEN Drawn(search', tripData') ELSE drawn

\* What the caches have for a walk (requestWalkSegment).
Cached(w) == IF w \in PprWalks THEN pprCache[w]
             ELSE IF w \in osrmCache THEN Osrm ELSE Nothing

\* requestWalks: each walk of the result once, with its path if it brings one or a
\* cache has it.
Paths(result) == [w \in result.walks |-> IF w \in result.own THEN Own ELSE Cached(w)]

\* setConnections and requestTrips: without trains there is nothing to wait for.
TripsCompleteAtFirst(result) == ~result.trips

\* setConnections, requestTrips, requestWalks.  Without trains requestTrips shows the
\* connections at once, before the walks are known.
SetConnections(result) ==
  LET paths == Paths(result)
  IN /\ search < MaxSearches
     /\ search' = search + 1
     /\ connections' = result
     /\ tripData' = Nothing
     /\ tripsComplete' = TripsCompleteAtFirst(result)
     /\ tripCalls' = IF result.trips THEN tripCalls \cup {search'} ELSE tripCalls
     /\ lastTripCall' = IF result.trips THEN search' ELSE lastTripCall
     /\ walkData' = paths
     /\ walkCalls' = walkCalls \cup
          {[search |-> search', walk |-> w, options |-> pprOptions] :
             w \in {v \in result.walks : paths[v] = Nothing}}
     /\ drawn' = IF ~result.trips \/ DataIsComplete(paths)
                 THEN Drawn(search', Nothing) ELSE drawn
     /\ overwritten' = FALSE /\ stuck' = {}
     /\ UNCHANGED <<pprOptions, pprCache, osrmCache, crossed>>

\* Mutant: an answer to an earlier call is not told from the present one.
IsLastTripCallEver(s) == TRUE

\* callId == lastTripsRequest.
IsLastTripCall(s) == s = lastTripCall

\* tripDataReceived: tripData is assigned before the check that drops a late answer,
\* which leaves data that no train was assigned to.  The last call may be that of an
\* earlier search, if the present one has no trains: none of its trains fit.
TripDataReceived(s) ==
  /\ s \in tripCalls
  /\ tripCalls' = tripCalls \ {s}
  /\ tripData' = IF IsLastTripCall(s) /\ s = search THEN s ELSE Nothing
  /\ IF IsLastTripCall(s)
     THEN tripsComplete' = TRUE /\ UNCHANGED overwritten
     ELSE overwritten' = (overwritten \/ tripsComplete) /\ UNCHANGED tripsComplete
  /\ UNCHANGED <<search, connections, walkData, lastTripCall, walkCalls, pprOptions,
                 pprCache, osrmCache, crossed, stuck>>
  /\ IF IsLastTripCall(s) THEN ShowConnections ELSE UNCHANGED drawn

\* An answer without usable content (200, but no JSON of trips): tripDataReceived
\* assigns it and, if it belongs to the last call, throws in preprocess.
TripsUnusable(s) ==
  /\ s \in tripCalls
  /\ tripCalls' = tripCalls \ {s}
  /\ tripData' = Nothing
  /\ overwritten' = (overwritten \/ tripsComplete)
  /\ UNCHANGED <<search, connections, tripsComplete, walkData, lastTripCall, walkCalls,
                 pprOptions, pprCache, osrmCache, drawn, crossed, stuck>>

\* handleApiError: the connections are never drawn, unless they are set again.
TripsFailed(s) ==
  /\ s \in tripCalls
  /\ tripCalls' = tripCalls \ {s}
  /\ UNCHANGED <<search, connections, tripData, tripsComplete, walkData, lastTripCall,
                 walkCalls, pprOptions, pprCache, osrmCache, drawn, overwritten, crossed,
                 stuck>>

\* The end of a call for a path: w is an object of the search that made the call.
EndWalkCall(call, path) ==
  /\ walkCalls' = walkCalls \ {call}
  /\ walkData' = IF call.search = search
                 THEN [walkData EXCEPT ![call.walk] = path] ELSE walkData
  /\ UNCHANGED <<search, connections, tripData, tripsComplete, lastTripCall, tripCalls,
                 pprOptions, overwritten, crossed, stuck>>

\* walkDataReceived, handlePPRResponse: no path is drawn as a straight line and not
\* cached.  The cache does not ask when the call was sent.
PprReceived(call, found) ==
  /\ call.walk \in PprWalks
  /\ EndWalkCall(call, IF found THEN call.options ELSE Direct)
  /\ pprCache' = IF found THEN [pprCache EXCEPT ![call.walk] = call.options] ELSE pprCache
  /\ ShowConnections
  /\ UNCHANGED osrmCache

\* walkDataReceived, handleOSRMResponse.
OsrmReceived(call) ==
  /\ call.walk \in OsrmWalks
  /\ EndWalkCall(call, Osrm)
  /\ osrmCache' = osrmCache \cup {call.walk}
  /\ ShowConnections
  /\ UNCHANGED pprCache

\* An answer without usable content: handlePPRResponse and handleOSRMResponse throw
\* before showConnections, and the walk stays without a path and without an error.
WalkUnusable(call) ==
  /\ walkCalls' = walkCalls \ {call}
  /\ stuck' = IF call.search = search THEN stuck \cup {call.walk} ELSE stuck
  /\ UNCHANGED <<search, connections, tripData, tripsComplete, walkData, lastTripCall,
                 tripCalls, pprOptions, pprCache, osrmCache, drawn, overwritten, crossed>>

\* The error handler of requestWalkSegment.
WalkFailed(call) ==
  /\ EndWalkCall(call, Error)
  /\ ShowConnections
  /\ UNCHANGED <<pprCache, osrmCache>>

\* Mutant: the paths of the last options are kept.
CacheKept == pprCache

\* resetPPRCache.
CacheReset == [w \in PprWalks |-> Nothing]

\* setPPRSearchOptions with other options than before.
SetPPRSearchOptions(options) ==
  /\ options # pprOptions
  /\ pprOptions' = options
  /\ pprCache' = CacheReset
  /\ crossed' = crossed \cup {call.walk : call \in walkCalls}
  /\ UNCHANGED <<search, connections, tripData, tripsComplete, walkData, lastTripCall,
                 tripCalls, walkCalls, osrmCache, drawn, overwritten, stuck>>

-----------------------------------------------------------------------------

ConnectionsNext ==
  \/ \E result \in Results : SetConnections(result)
  \/ \E s \in tripCalls : TripDataReceived(s) \/ TripsUnusable(s) \/ TripsFailed(s)
  \/ \E call \in walkCalls :
       \/ \E found \in BOOLEAN : PprReceived(call, found)
       \/ OsrmReceived(call)
       \/ WalkUnusable(call)
       \/ WalkFailed(call)
  \/ \E options \in Options : SetPPRSearchOptions(options)

ConnectionsSpec == ConnectionsInit /\ [][ConnectionsNext]_connectionsVars

-----------------------------------------------------------------------------
(* Properties.                                                             *)

\* The map draws the present connections as soon as the trips have arrived and no call
\* for a path is open (each handler ends with showConnections, also those of errors and
\* of earlier searches), unless one of the answers was unusable; and with their trips,
\* unless the answer to an earlier call came between their trips and the paths of their
\* walks (tripDataReceived, line 51).
ConnectionsDrawn ==
  search > 0 =>
    /\ drawn.search # search =>
         \/ ~tripsComplete
         \/ \E call \in walkCalls : call.search = search
         \/ stuck # {}
    /\ drawn.search = search /\ connections.trips =>
         drawn.trips = search \/ overwritten

\* A path in the cache is one of the present search options, unless its call was open
\* when the options changed (resetPPRCache does not reach calls that are open).
PprCacheOfOptions ==
  \A w \in PprWalks : pprCache[w] \in {pprOptions, Nothing} \/ w \in crossed
=============================================================================
