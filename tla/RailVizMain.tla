---------------------------- MODULE RailVizMain ----------------------------
(***************************************************************************)
(* What the map of the web interface shows: ui/web/js/railviz/main.js with  *)
(* the layers it switches (path_base.js, path_extra.js, path_detail.js, the *)
(* load handler of ui/web/js/map.js) and the calls it makes (api.js).       *)
(*                                                                          *)
(* The map shows all trains (full data) or, while a filter is set, the      *)
(* trips of the filter (detail data).  Both are asked for again every 90    *)
(* seconds; all trains also whenever the map or the simulated time was      *)
(* changed and not changed again for 200 ms.  Answers come in any order, or *)
(* as errors; one that is not the answer to the last call of its kind is    *)
(* dropped.  JavaScript runs one handler at a time: an action is a handler. *)
(* The server, the network and the Elm part that calls the ports are        *)
(* external.  Data is named by what it was asked for: a filter, or a view.  *)
(***************************************************************************)
EXTENDS Naturals, FiniteSets

CONSTANTS
  Filters,     \* detail filters the Elm part may set
  Views,       \* viewports and simulated times: what trains are asked for
  None,        \* null and undefined
  TrainCalls,  \* bound: calls of /railviz/get_trains open at a time
  TripCalls,   \* bound: calls of /railviz/get_trips open at a time
  MaxThrown    \* bound: requests that fail for want of a map

ASSUME RailVizMainAssumption ==
  /\ IsFiniteSet(TrainCalls) /\ IsFiniteSet(TripCalls)
  /\ TrainCalls \cap TripCalls = {}
  /\ Filters \cap Views = {}
  /\ None \notin Filters \cup Views \cup TrainCalls \cup TripCalls
  /\ MaxThrown \in Nat

VARIABLES
  view,               \* mapInfo and timeOffset
  loaded,             \* the map has loaded: mapInfo is set, the layers are added
  detailFilter,       \* the filter, or None
  walks,              \* the walks of detailFilter have their polylines
  fullData,           \* the last full data
  detailTrips,        \* the last trips of a filter
  showingDetailData,
  trainsEnabled,      \* the user wants to see trains
  layers,             \* Path.*: whether enabled, and the data of Extra and Detail
  onMap,              \* the same, as the map has it
  render,             \* what Render was told: data, minimum zoom, trains enabled
  timers,             \* the timers that run
  opened,             \* per call: not open (None), or what it was made for
  lastTrainsRequest,  \* the last call of each kind
  lastTripsRequest,
  loadingCount,       \* the loading spinner is visible iff this is not 0
  thrown,             \* requests that failed for want of a map
  failed              \* history: the kinds of calls whose last one has failed

viewVars == <<showingDetailData, layers, onMap, render>>
callVars == <<opened, lastTrainsRequest, lastTripsRequest, loadingCount, thrown, failed>>
vars == <<view, loaded, detailFilter, walks, fullData, detailTrips, trainsEnabled, timers,
          viewVars, callVars>>

Calls == TrainCalls \cup TripCalls

\* The layers before anything was shown: all of them are enabled.
AllEnabled == [base |-> TRUE, extra |-> TRUE, detail |-> TRUE, connections |-> TRUE]
NoDetail == [filter |-> None, trips |-> None, walks |-> FALSE]

Init ==
  /\ view \in Views
  /\ loaded = FALSE
  /\ detailFilter = None /\ walks = FALSE
  /\ fullData = None /\ detailTrips = None
  /\ showingDetailData = FALSE
  /\ trainsEnabled = TRUE
  /\ layers = [enabled |-> AllEnabled, extra |-> None, detail |-> NoDetail]
  /\ onMap = None
  /\ render = [data |-> None, filtered |-> FALSE, trains |-> TRUE]
  /\ timers = {}
  /\ opened = [c \in Calls |-> None]
  /\ lastTrainsRequest = None /\ lastTripsRequest = None
  /\ loadingCount = 0
  /\ thrown = 0
  /\ failed = {}

-----------------------------------------------------------------------------
(* What is shown.                                                          *)

\* setEnabled and setData of the layers: they reach the map once it has loaded.
SetLayers(enabled, extra, detail) ==
  /\ layers' = [enabled |-> enabled, extra |-> extra, detail |-> detail]
  /\ onMap' = IF loaded THEN layers' ELSE onMap

\* Path.Extra.setData ignores a call without data; Render.setData does not.
ExtraData(full) == IF full = None THEN layers.extra ELSE full

\* showFullData.
ShowFullData(full) ==
  /\ showingDetailData' = FALSE
  /\ SetLayers([base |-> trainsEnabled, extra |-> trainsEnabled,
                detail |-> FALSE, connections |-> TRUE],
               ExtraData(full), layers.detail)
  /\ render' = [data |-> full, filtered |-> FALSE, trains |-> trainsEnabled]

\* showDetailData: trains are enabled here even if showTrains disabled them.
ShowDetailData(trips, withWalks) ==
  /\ showingDetailData' = TRUE
  /\ SetLayers([base |-> FALSE, extra |-> FALSE, detail |-> TRUE, connections |-> FALSE],
               layers.extra,
               [filter |-> detailFilter, trips |-> trips, walks |-> withWalks])
  /\ render' = [data |-> trips, filtered |-> TRUE, trains |-> TRUE]

\* showTrains: the port mapShowTrains.
ShowTrains ==
  /\ trainsEnabled' = ~trainsEnabled
  /\ SetLayers([layers.enabled EXCEPT !.base = ~showingDetailData /\ trainsEnabled',
                                      !.extra = ~showingDetailData /\ trainsEnabled',
                                      !.detail = showingDetailData /\ trainsEnabled'],
               layers.extra, layers.detail)
  /\ render' = [render EXCEPT !.trains = trainsEnabled']
  /\ UNCHANGED <<view, loaded, detailFilter, walks, fullData, detailTrips, showingDetailData,
                 timers, callVars>>

\* Mutant: a layer added when the map loads forgets what it was told before.
LayersAtLoadFresh == [layers EXCEPT !.extra = None, !.detail = NoDetail]

\* init of the layers: what they were told before the map had loaded takes effect now.
LayersAtLoad == layers

\* debounce: its function runs 200 ms after the last call.
Debounced == timers \cup {"debounce"}

\* The map has loaded: the layers are added, and the custom layer reports the
\* viewport (mapUpdate).
MapLoad ==
  /\ ~loaded
  /\ loaded' = TRUE
  /\ onMap' = LayersAtLoad
  /\ timers' = Debounced
  /\ UNCHANGED <<view, detailFilter, walks, fullData, detailTrips, trainsEnabled,
                 showingDetailData, layers, render, callVars>>

-----------------------------------------------------------------------------
(* Sending requests.                                                       *)

\* setLoading(1) and API.sendRequest: the call is the last one of its kind.
Open(c, purpose) ==
  /\ opened[c] = None
  /\ opened' = [opened EXCEPT ![c] = purpose]
  /\ loadingCount' = loadingCount + 1

\* updateViewport after the map was moved, and mapUpdate.
MapUpdate ==
  /\ loaded
  /\ view' \in Views
  /\ timers' = Debounced
  /\ UNCHANGED <<loaded, detailFilter, walks, fullData, detailTrips, trainsEnabled,
                 viewVars, callVars>>

\* setTimeOffset, also before the map has loaded: the Elm part calls it with its first
\* permalink.
SetTimeOffset ==
  /\ view' \in Views
  /\ timers' = Debounced
  /\ UNCHANGED <<loaded, detailFilter, walks, fullData, detailTrips, trainsEnabled,
                 viewVars, callVars>>

\* 90 seconds after the last request.
TrainsTimer ==
  /\ "trains" \in timers
  /\ timers' = (timers \ {"trains"}) \cup {"debounce"}
  /\ UNCHANGED <<view, loaded, detailFilter, walks, fullData, detailTrips, trainsEnabled,
                 viewVars, callVars>>

\* 200 ms without another call of debounce's function: sendTrainsRequest.
SendTrainsRequest(c) ==
  /\ "debounce" \in timers /\ loaded
  /\ timers' = (timers \ {"debounce"}) \cup {"trains"}
  /\ Open(c, view)
  /\ lastTrainsRequest' = c
  /\ failed' = failed \ {"trains"}
  /\ UNCHANGED <<view, loaded, detailFilter, walks, fullData, detailTrips, trainsEnabled,
                 viewVars, lastTripsRequest, thrown>>

\* The same before the map has loaded: makeTrainsRequest reads mapInfo.railVizBounds
\* and throws, after the timer was set and the spinner was counted up.
SendTrainsRequestThrows ==
  /\ "debounce" \in timers /\ ~loaded
  /\ thrown < MaxThrown
  /\ timers' = (timers \ {"debounce"}) \cup {"trains"}
  /\ loadingCount' = loadingCount + 1
  /\ thrown' = thrown + 1
  /\ UNCHANGED <<view, loaded, detailFilter, walks, fullData, detailTrips, trainsEnabled,
                 viewVars, opened, lastTrainsRequest, lastTripsRequest, failed>>

\* Mutant: the 90 second timer is not set again.
SendTripsRequestOnce(c, filter) ==
  /\ timers' = timers \ {"trips"}
  /\ Open(c, filter)
  /\ lastTripsRequest' = c
  /\ failed' = failed \ {"trips"}

\* sendTripsRequest with a filter.
SendTripsRequest(c, filter) ==
  /\ timers' = timers \cup {"trips"}
  /\ Open(c, filter)
  /\ lastTripsRequest' = c
  /\ failed' = failed \ {"trips"}

\* 90 seconds after the last request for trips; without a filter it was the last.
TripsTimer(c) ==
  /\ "trips" \in timers /\ detailFilter # None
  /\ SendTripsRequest(c, detailFilter)
  /\ UNCHANGED <<view, loaded, detailFilter, walks, fullData, detailTrips, trainsEnabled,
                 viewVars, lastTrainsRequest, thrown>>

TripsTimerEnds ==
  /\ "trips" \in timers /\ detailFilter = None
  /\ timers' = timers \ {"trips"}
  /\ UNCHANGED <<view, loaded, detailFilter, walks, fullData, detailTrips, trainsEnabled,
                 viewVars, callVars>>

-----------------------------------------------------------------------------
(* The filter.                                                             *)

\* setDetailFilter: the view changes when the trips arrive.  The walks of a filter get
\* their polylines later.
SetDetailFilter(filter, c) ==
  /\ detailFilter' = filter
  /\ walks' = FALSE
  /\ SendTripsRequest(c, filter)
  /\ UNCHANGED <<view, loaded, fullData, detailTrips, trainsEnabled, viewVars,
                 lastTrainsRequest, thrown>>

\* setDetailFilter(null): back to the full data; the timer of the trips goes on.
ClearDetailFilter ==
  /\ detailFilter' = None /\ walks' = FALSE
  /\ detailTrips' = None
  /\ ShowFullData(fullData)
  /\ UNCHANGED <<view, loaded, fullData, trainsEnabled, timers, callVars>>

\* The end of setDetailWalks.
RedrawWalks ==
  IF showingDetailData THEN ShowDetailData(detailTrips, TRUE) ELSE UNCHANGED viewVars

\* setDetailWalks with polylines for walks of the present filter; walks of another
\* filter change nothing.
SetDetailWalks ==
  /\ detailFilter # None
  /\ walks' = TRUE
  /\ RedrawWalks
  /\ UNCHANGED <<view, loaded, detailFilter, fullData, detailTrips, trainsEnabled, timers,
                 callVars>>

-----------------------------------------------------------------------------
(* Answers.                                                                *)

\* Mutant: only the answer to the last call counts the spinner down.
CloseLast(c) ==
  /\ opened[c] # None
  /\ opened' = [opened EXCEPT ![c] = None]
  /\ loadingCount' = IF c \in {lastTrainsRequest, lastTripsRequest}
                     THEN loadingCount - 1 ELSE loadingCount

\* The call ends: its handler counts the spinner down first.
Close(c) ==
  /\ opened[c] # None
  /\ opened' = [opened EXCEPT ![c] = None]
  /\ loadingCount' = loadingCount - 1

\* Mutant: every answer is taken for the answer to the last call.
IsLastEver(c) == TRUE

\* callId == lastRequest.
IsLast(c) == c \in {lastTrainsRequest, lastTripsRequest}

\* dataReceived, full data: shown unless a filter is set.
TrainsReceived(c) ==
  /\ c \in TrainCalls /\ Close(c)
  /\ IF IsLast(c)
     THEN /\ fullData' = opened[c]
          /\ IF detailFilter = None THEN ShowFullData(opened[c]) ELSE UNCHANGED viewVars
     ELSE UNCHANGED <<fullData, viewVars>>
  /\ UNCHANGED <<view, loaded, detailFilter, walks, detailTrips, trainsEnabled, timers,
                 lastTrainsRequest, lastTripsRequest, thrown, failed>>

\* dataReceived, trips of a filter: stored even if the filter was cleared since.
TripsReceived(c) ==
  /\ c \in TripCalls /\ Close(c)
  /\ IF IsLast(c)
     THEN /\ detailTrips' = opened[c]
          /\ IF detailFilter # None
             THEN ShowDetailData(opened[c], walks)
             ELSE UNCHANGED viewVars
     ELSE UNCHANGED <<detailTrips, viewVars>>
  /\ UNCHANGED <<view, loaded, detailFilter, walks, fullData, trainsEnabled, timers,
                 lastTrainsRequest, lastTripsRequest, thrown, failed>>

\* handleApiError; an answer that is not JSON ends in the same state.
CallFailed(c) ==
  /\ Close(c)
  /\ failed' = failed \cup {k \in {"trains", "trips"} :
                             c = (IF k = "trains" THEN lastTrainsRequest
                                  ELSE lastTripsRequest)}
  /\ UNCHANGED <<view, loaded, detailFilter, walks, fullData, detailTrips, trainsEnabled,
                 timers, viewVars, lastTrainsRequest, lastTripsRequest, thrown>>

-----------------------------------------------------------------------------

Answered(c) ==
  \/ TrainsReceived(c)
  \/ TripsReceived(c)
  \/ CallFailed(c)

Next ==
  \/ MapLoad
  \/ ShowTrains
  \/ MapUpdate
  \/ SetTimeOffset
  \/ TrainsTimer
  \/ \E c \in TrainCalls : SendTrainsRequest(c)
  \/ SendTrainsRequestThrows
  \/ \E c \in TripCalls : TripsTimer(c)
  \/ TripsTimerEnds
  \/ \E filter \in Filters, c \in TripCalls : SetDetailFilter(filter, c)
  \/ ClearDetailFilter
  \/ SetDetailWalks
  \/ \E c \in Calls : Answered(c)

Spec == Init /\ [][Next]_vars

\* Timers run out (strong fairness: the code has no bound on open calls that could
\* hold them back) and calls end, well or badly: the browser reports a broken
\* connection.  A server that answers the last call of get_trips again and again
\* answers it in time and well at some time.
Fairness ==
  /\ SF_vars(\E c \in TripCalls : TripsTimer(c))
  /\ \A c \in Calls : WF_vars(Answered(c))
  /\ SF_vars(\E c \in TripCalls : c = lastTripsRequest /\ TripsReceived(c))

FairSpec == Spec /\ Fairness

-----------------------------------------------------------------------------
(* Properties.                                                             *)

Flags == [base : BOOLEAN, extra : BOOLEAN, detail : BOOLEAN, connections : BOOLEAN]
LayerStates ==
  [enabled : Flags, extra : Views \cup {None},
   detail : [filter : Filters \cup {None}, trips : Filters \cup {None}, walks : BOOLEAN]]

\* The variables hold what the code keeps in them (the variables of main.js and of the
\* layers): in particular the spinner's counter is a natural number.
TypeOK ==
  /\ view \in Views /\ loaded \in BOOLEAN
  /\ detailFilter \in Filters \cup {None} /\ walks \in BOOLEAN
  /\ fullData \in Views \cup {None} /\ detailTrips \in Filters \cup {None}
  /\ showingDetailData \in BOOLEAN /\ trainsEnabled \in BOOLEAN
  /\ layers \in LayerStates /\ onMap \in LayerStates \cup {None}
  /\ render \in [data : Filters \cup Views \cup {None}, filtered : BOOLEAN,
                 trains : BOOLEAN]
  /\ timers \subseteq {"debounce", "trains", "trips"}
  /\ opened \in [Calls -> Filters \cup Views \cup {None}]
  /\ lastTrainsRequest \in TrainCalls \cup {None}
  /\ lastTripsRequest \in TripCalls \cup {None}
  /\ loadingCount \in Nat /\ thrown \in Nat /\ failed \subseteq {"trains", "trips"}

OpenCalls == {c \in Calls : opened[c] # None}

\* The spinner is on exactly while a call is open (setLoading is called before each
\* call and first thing in each handler, also for answers that are then dropped),
\* except that each request that failed for want of a map keeps it on for good.
SpinnerCountsCalls == loadingCount = Cardinality(OpenCalls) + thrown

\* The trips of the filter are still asked for, or the last call has failed.
TripsAwaited == opened[lastTripsRequest] = detailFilter \/ "trips" \in failed

\* The trips on the map are those of the filter, with its walks, unless they are
\* still asked for or the server refused them (dataReceived drops all answers but
\* the last call's; setDetailWalks ignores walks that are not the filter's).
TripsOfTheFilter ==
  showingDetailData =>
    \/ /\ render.data = detailFilter
       /\ layers.detail.filter = detailFilter /\ layers.detail.walks = walks
    \/ TripsAwaited

\* The newest full data is that of the present viewport and time, unless it is going
\* to be asked for (debounce) or still is, or the last call has failed: an answer for
\* an earlier viewport that comes late is dropped.
TrainsOfTheView ==
  \/ fullData \in {view, None}
  \/ "debounce" \in timers
  \/ opened[lastTrainsRequest] = view
  \/ "trains" \in failed

\* Trains, lines and layers on the map belong together, whichever handler ran last
\* (showFullData, showDetailData, showTrains, init of the layers): the newest full
\* data with its extra lines, or the newest trips.
ViewIsConsistent ==
  /\ loaded => onMap = layers
  /\ ~showingDetailData =>
       /\ render.data \in Views \cup {None} /\ ~render.filtered
       /\ render.data # None => layers.extra = render.data
       /\ detailFilter = None => render.data = fullData
       /\ layers.enabled.connections
       /\ render.trains = trainsEnabled
  /\ showingDetailData =>
       /\ detailFilter # None
       /\ render.data = detailTrips /\ layers.detail.trips = detailTrips
       /\ render.filtered /\ ~layers.enabled.base /\ ~layers.enabled.connections

\* A filter is shown or cleared in the end, however often it is changed
\* (sendTripsRequest is repeated every 90 seconds, handleApiError leaves the timer
\* alone).
FilterShown == detailFilter # None ~> detailFilter \in {render.data, None}
=============================================================================
