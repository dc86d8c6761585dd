------------------------- MODULE RailVizMainProofs -------------------------
(***************************************************************************)
(* What module RailVizMain promises for any filters, views and numbers of   *)
(* open calls.  That only the right data is shown rests on what the last    *)
(* call of each kind was made for: that of the trips for the present filter *)
(* (the filter is set by sending it), that of the trains for the present    *)
(* view or one that debounce is about to replace.                           *)
(***************************************************************************)
EXTENDS RailVizMain, FiniteSetTheorems, TLAPS

\* Calls of a kind are made for data of that kind.
OpenedTypes ==
  /\ \A c \in TrainCalls : opened[c] \in Views \cup {None}
  /\ \A c \in TripCalls : opened[c] \in Filters \cup {None}

\* What the last calls were made for.
LastCalls ==
  /\ lastTripsRequest = None => detailFilter = None /\ ~showingDetailData
  /\ lastTripsRequest # None /\ detailFilter # None
       => opened[lastTripsRequest] \in {detailFilter, None}
  /\ ~loaded => lastTrainsRequest = None
  /\ lastTrainsRequest = None => fullData = None
  /\ lastTrainsRequest # None
       => opened[lastTrainsRequest] \in {view, None} \/ "debounce" \in timers

Inv ==
  /\ TypeOK /\ OpenedTypes /\ SpinnerCountsCalls
  /\ LastCalls /\ ViewIsConsistent /\ TripsOfTheFilter /\ TrainsOfTheView

-----------------------------------------------------------------------------
(* Types and the spinner.                                                  *)

\* The open calls are finitely many.
LEMMA FiniteCalls == \A S \in SUBSET Calls : IsFiniteSet(S) /\ Cardinality(S) \in Nat
<1>1. IsFiniteSet(Calls)
  BY FS_Union, RailVizMainAssumption DEF RailVizMainAssumption, Calls
<1> QED
  BY <1>1, FS_Subset, FS_CardinalityType

\* Opening a call adds it to the open ones, and the counter counts it.
LEMMA OpenStep ==
  ASSUME TypeOK, SpinnerCountsCalls, NEW c \in Calls, NEW purpose \in Filters \cup Views,
         Open(c, purpose)
  PROVE  /\ opened' \in [Calls -> Filters \cup Views \cup {None}]
         /\ loadingCount' \in Nat
         /\ loadingCount' = Cardinality(OpenCalls') + thrown
         /\ opened'[c] = purpose
         /\ \A d \in Calls \ {c} : opened'[d] = opened[d]
<1>1. /\ opened \in [Calls -> Filters \cup Views \cup {None}]
      /\ loadingCount \in Nat /\ thrown \in Nat
  BY DEF TypeOK
<1>2. /\ opened' \in [Calls -> Filters \cup Views \cup {None}]
      /\ opened'[c] = purpose /\ \A d \in Calls \ {c} : opened'[d] = opened[d]
  BY <1>1 DEF Open
<1>3. purpose # None
  BY RailVizMainAssumption DEF RailVizMainAssumption
<1>4. OpenCalls' = OpenCalls \cup {c} /\ c \notin OpenCalls
  BY <1>2, <1>3 DEF Open, OpenCalls
<1>5. IsFiniteSet(OpenCalls) /\ Cardinality(OpenCalls) \in Nat
  BY FiniteCalls DEF OpenCalls
<1>6. Cardinality(OpenCalls') = Cardinality(OpenCalls) + 1
  BY <1>4, <1>5, FS_AddElement
<1> QED
  BY <1>1, <1>2, <1>5, <1>6 DEF Open, SpinnerCountsCalls

\* Closing one takes it out.
LEMMA CloseStep ==
  ASSUME TypeOK, SpinnerCountsCalls, NEW c \in Calls, Close(c)
  PROVE  /\ opened' \in [Calls -> Filters \cup Views \cup {None}]
         /\ loadingCount' \in Nat
         /\ loadingCount' = Cardinality(OpenCalls') + thrown
         /\ opened'[c] = None
         /\ \A d \in Calls \ {c} : opened'[d] = opened[d]
<1>1. /\ opened \in [Calls -> Filters \cup Views \cup {None}]
      /\ loadingCount \in Nat /\ thrown \in Nat
  BY DEF TypeOK
<1>2. /\ opened' \in [Calls -> Filters \cup Views \cup {None}]
      /\ opened'[c] = None /\ \A d \in Calls \ {c} : opened'[d] = opened[d]
  BY <1>1 DEF Close
<1>3. OpenCalls' = OpenCalls \ {c} /\ c \in OpenCalls
  BY <1>2 DEF Close, OpenCalls
<1>4. IsFiniteSet(OpenCalls) /\ Cardinality(OpenCalls) \in Nat
  BY FiniteCalls DEF OpenCalls
<1>5. Cardinality(OpenCalls') = Cardinality(OpenCalls) - 1 /\ Cardinality(OpenCalls') \in Nat
  BY <1>3, <1>4, FS_RemoveElement, FS_CardinalityType
<1> QED
  BY <1>1, <1>2, <1>4, <1>5 DEF Close, SpinnerCountsCalls

\* The layers keep their types in showFullData, showDetailData and showTrains.
LEMMA ViewTypes ==
  ASSUME TypeOK
  PROVE  LET Typed == /\ showingDetailData' \in BOOLEAN
                      /\ layers' \in LayerStates /\ onMap' \in LayerStates \cup {None}
                      /\ render' \in [data : Filters \cup Views \cup {None},
                                      filtered : BOOLEAN, trains : BOOLEAN]
         IN  /\ \A full \in Views \cup {None} : ShowFullData(full) => Typed
             /\ \A trips \in Filters \cup {None}, w \in BOOLEAN :
                  ShowDetailData(trips, w) => Typed
             /\ ShowTrains => Typed
             /\ UNCHANGED viewVars => Typed
<1> DEFINE Typed == /\ showingDetailData' \in BOOLEAN
                    /\ layers' \in LayerStates /\ onMap' \in LayerStates \cup {None}
                    /\ render' \in [data : Filters \cup Views \cup {None},
                                    filtered : BOOLEAN, trains : BOOLEAN]
<1> USE DEF TypeOK, LayerStates, Flags
<1>1. ASSUME NEW full \in Views \cup {None}, ShowFullData(full) PROVE Typed
  BY <1>1 DEF ShowFullData, SetLayers, ExtraData
<1>2. ASSUME NEW trips \in Filters \cup {None}, NEW w \in BOOLEAN, ShowDetailData(trips, w)
      PROVE  Typed
  BY <1>2 DEF ShowDetailData, SetLayers
<1>3. ASSUME ShowTrains PROVE Typed
  <2>1. \A flags \in Flags, b1, b2, b3 \in BOOLEAN :
          [flags EXCEPT !.base = b1, !.extra = b2, !.detail = b3] \in Flags
    OBVIOUS
  <2>2. /\ layers.enabled \in Flags /\ trainsEnabled' \in BOOLEAN
        /\ (~showingDetailData /\ trainsEnabled') \in BOOLEAN
        /\ (showingDetailData /\ trainsEnabled') \in BOOLEAN
    BY <1>3 DEF ShowTrains
  <2> DEFINE on == [layers.enabled EXCEPT !.base = ~showingDetailData /\ trainsEnabled',
                                          !.extra = ~showingDetailData /\ trainsEnabled',
                                          !.detail = showingDetailData /\ trainsEnabled']
  <2>3. on \in Flags
    BY ONLY <2>1, <2>2, Zenon
  <2>4. SetLayers(on, layers.extra, layers.detail)
    BY <1>3 DEF ShowTrains
  <2> HIDE DEF on
  <2>5. layers' \in LayerStates /\ onMap' \in LayerStates \cup {None}
    BY <2>3, <2>4 DEF SetLayers
  <2>6. render' = [render EXCEPT !.trains = trainsEnabled'] /\ UNCHANGED showingDetailData
    BY <1>3 DEF ShowTrains
  <2> QED
    BY <2>2, <2>5, <2>6
<1>4. ASSUME UNCHANGED viewVars PROVE Typed
  BY <1>4 DEF viewVars
<1> QED
  BY <1>1, <1>2, <1>3, <1>4

LEMMA InitInv == Init => Inv
<1> SUFFICES ASSUME Init PROVE Inv
  OBVIOUS
<1> USE RailVizMainAssumption DEF RailVizMainAssumption, Init
<1>1. TypeOK /\ OpenedTypes
  BY DEF TypeOK, OpenedTypes, LayerStates, Flags, Calls, AllEnabled, NoDetail
<1>2. OpenCalls = {}
  BY DEF OpenCalls
<1>3. SpinnerCountsCalls
  BY <1>2, FS_EmptySet DEF SpinnerCountsCalls
<1>4. LastCalls /\ ViewIsConsistent /\ TripsOfTheFilter /\ TrainsOfTheView
  BY DEF LastCalls, ViewIsConsistent, TripsOfTheFilter, TrainsOfTheView, AllEnabled
<1> QED
  BY <1>1, <1>3, <1>4 DEF Inv

\* Every step keeps the types and the count of the spinner.
LEMMA TypeStep ==
  ASSUME TypeOK, OpenedTypes, SpinnerCountsCalls, [Next]_vars
  PROVE  TypeOK' /\ OpenedTypes' /\ SpinnerCountsCalls'
<1> DEFINE Typed == /\ showingDetailData' \in BOOLEAN
                    /\ layers' \in LayerStates /\ onMap' \in LayerStates \cup {None}
                    /\ render' \in [data : Filters \cup Views \cup {None},
                                    filtered : BOOLEAN, trains : BOOLEAN]
           Counted == /\ opened' \in [Calls -> Filters \cup Views \cup {None}]
                      /\ loadingCount' \in Nat
                      /\ loadingCount' = Cardinality(OpenCalls') + thrown'
           Rest == /\ view' \in Views /\ loaded' \in BOOLEAN
                   /\ detailFilter' \in Filters \cup {None} /\ walks' \in BOOLEAN
                   /\ fullData' \in Views \cup {None} /\ detailTrips' \in Filters \cup {None}
                   /\ trainsEnabled' \in BOOLEAN
                   /\ timers' \subseteq {"debounce", "trains", "trips"}
                   /\ lastTrainsRequest' \in TrainCalls \cup {None}
                   /\ lastTripsRequest' \in TripCalls \cup {None}
                   /\ thrown' \in Nat /\ failed' \subseteq {"trains", "trips"}
<1>0. Typed /\ Counted /\ Rest /\ OpenedTypes' => TypeOK' /\ OpenedTypes' /\ SpinnerCountsCalls'
  BY DEF TypeOK, SpinnerCountsCalls
<1>v. UNCHANGED viewVars => Typed
  BY ViewTypes
<1>c. UNCHANGED <<opened, loadingCount, thrown>> => Counted /\ OpenedTypes'
  BY DEF TypeOK, OpenedTypes, SpinnerCountsCalls, OpenCalls
<1>d. TrainCalls \subseteq Calls /\ TripCalls \subseteq Calls /\ TrainCalls \cap TripCalls = {}
      /\ Calls = TrainCalls \cup TripCalls
  BY RailVizMainAssumption DEF RailVizMainAssumption, Calls
<1>1. CASE MapLoad
  <2>1. Typed
    BY <1>1 DEF MapLoad, LayersAtLoad, TypeOK
  <2>2. Rest /\ UNCHANGED <<opened, loadingCount, thrown>>
    BY <1>1 DEF MapLoad, Debounced, callVars, TypeOK
  <2> QED
    BY <1>0, <1>c, <2>1, <2>2
<1>2. CASE ShowTrains
  <2>1. Typed
    BY <1>2, ViewTypes
  <2>2. Rest /\ UNCHANGED <<opened, loadingCount, thrown>>
    BY <1>2 DEF ShowTrains, callVars, TypeOK
  <2> QED
    BY <1>0, <1>c, <2>1, <2>2
<1>3. CASE MapUpdate \/ SetTimeOffset \/ TrainsTimer \/ TripsTimerEnds
  <2>1. Rest /\ UNCHANGED <<opened, loadingCount, thrown>> /\ UNCHANGED viewVars
    BY <1>3 DEF MapUpdate, SetTimeOffset, TrainsTimer, TripsTimerEnds, Debounced, callVars,
                viewVars, TypeOK
  <2> QED
    BY <1>0, <1>c, <1>v, <2>1
<1>4. ASSUME NEW c \in TrainCalls, SendTrainsRequest(c) PROVE TypeOK' /\ OpenedTypes' /\ SpinnerCountsCalls'
  <2>1. Open(c, view) /\ view \in Views /\ UNCHANGED thrown
    BY <1>4 DEF SendTrainsRequest, TypeOK
  <2>2. Counted /\ opened'[c] = view /\ \A d \in Calls \ {c} : opened'[d] = opened[d]
    BY <1>d, <2>1, OpenStep
  <2>3. OpenedTypes'
    BY <1>d, <2>1, <2>2 DEF OpenedTypes
  <2>4. Rest /\ UNCHANGED viewVars
    BY <1>4 DEF SendTrainsRequest, viewVars, TypeOK
  <2> QED
    BY <1>0, <1>v, <2>2, <2>3, <2>4
<1>5. CASE SendTrainsRequestThrows
  <2>1. /\ loadingCount' = loadingCount + 1 /\ thrown' = thrown + 1
        /\ UNCHANGED <<opened, viewVars>>
    BY <1>5 DEF SendTrainsRequestThrows
  <2>2. OpenCalls' = OpenCalls /\ Cardinality(OpenCalls) \in Nat
    BY <2>1, FiniteCalls DEF OpenCalls
  <2>3. Counted /\ OpenedTypes'
    BY <2>1, <2>2 DEF TypeOK, OpenedTypes, SpinnerCountsCalls
  <2>4. Rest
    BY <1>5 DEF SendTrainsRequestThrows, viewVars, TypeOK
  <2> QED
    BY <1>0, <1>v, <2>1, <2>3, <2>4
<1>6. ASSUME NEW c \in TripCalls, TripsTimer(c) PROVE TypeOK' /\ OpenedTypes' /\ SpinnerCountsCalls'
  <2>1. /\ SendTripsRequest(c, detailFilter) /\ Open(c, detailFilter)
        /\ detailFilter \in Filters /\ UNCHANGED <<thrown, viewVars>>
    BY <1>6 DEF TripsTimer, SendTripsRequest, TypeOK
  <2>2. Counted /\ opened'[c] = detailFilter /\ \A d \in Calls \ {c} : opened'[d] = opened[d]
    BY <1>d, <2>1, OpenStep
  <2>3. OpenedTypes'
    BY <1>d, <2>1, <2>2 DEF OpenedTypes
  <2>4. Rest
    BY <1>6 DEF TripsTimer, SendTripsRequest, TypeOK
  <2> QED
    BY <1>0, <1>v, <2>1, <2>2, <2>3, <2>4
<1>7. ASSUME NEW filter \in Filters, NEW c \in TripCalls, SetDetailFilter(filter, c)
      PROVE  TypeOK' /\ OpenedTypes' /\ SpinnerCountsCalls'
  <2>1. Open(c, filter) /\ UNCHANGED <<thrown, viewVars>>
    BY <1>7 DEF SetDetailFilter, SendTripsRequest
  <2>2. Counted /\ opened'[c] = filter /\ \A d \in Calls \ {c} : opened'[d] = opened[d]
    BY <1>d, <2>1, OpenStep
  <2>3. OpenedTypes'
    BY <1>d, <2>2 DEF OpenedTypes
  <2>4. Rest
    BY <1>7 DEF SetDetailFilter, SendTripsRequest, TypeOK
  <2> QED
    BY <1>0, <1>v, <2>1, <2>2, <2>3, <2>4
<1>8. CASE ClearDetailFilter
  <2>1. ShowFullData(fullData) /\ fullData \in Views \cup {None}
    BY <1>8 DEF ClearDetailFilter, TypeOK
  <2>2. Typed
    BY <2>1, ViewTypes
  <2>3. Rest /\ UNCHANGED <<opened, loadingCount, thrown>>
    BY <1>8 DEF ClearDetailFilter, callVars, TypeOK
  <2> QED
    BY <1>0, <1>c, <2>2, <2>3
<1>9. CASE SetDetailWalks
  <2>1. ShowDetailData(detailTrips, TRUE) \/ UNCHANGED viewVars
    BY <1>9 DEF SetDetailWalks, RedrawWalks
  <2>2. detailTrips \in Filters \cup {None}
    BY DEF TypeOK
  <2>3. Typed
    BY <2>1, <2>2, ViewTypes
  <2>4. Rest /\ UNCHANGED <<opened, loadingCount, thrown>>
    BY <1>9 DEF SetDetailWalks, callVars, TypeOK
  <2> QED
    BY <1>0, <1>c, <2>3, <2>4
<1>10. ASSUME NEW c \in Calls, Answered(c) PROVE TypeOK' /\ OpenedTypes' /\ SpinnerCountsCalls'
  <2>1. Close(c) /\ UNCHANGED thrown
    BY <1>10 DEF Answered, TrainsReceived, TripsReceived, CallFailed
  <2>2. Counted /\ opened'[c] = None /\ \A d \in Calls \ {c} : opened'[d] = opened[d]
    BY <2>1, CloseStep
  <2>3. OpenedTypes'
    BY <1>d, <2>2 DEF OpenedTypes
  <2>4. CASE TrainsReceived(c)
    <3>1. opened[c] \in Views \cup {None}
      BY <2>4 DEF TrainsReceived, OpenedTypes
    <3>2. ShowFullData(opened[c]) \/ UNCHANGED viewVars
      BY <2>4 DEF TrainsReceived, viewVars
    <3>3. Typed
      BY <3>1, <3>2, ViewTypes
    <3>4. Rest
      BY <2>4, <3>1 DEF TrainsReceived, TypeOK
    <3> QED
      BY <1>0, <2>2, <2>3, <3>3, <3>4
  <2>5. CASE TripsReceived(c)
    <3>1. opened[c] \in Filters \cup {None} /\ walks \in BOOLEAN
      BY <2>5 DEF TripsReceived, OpenedTypes, TypeOK
    <3>2. ShowDetailData(opened[c], walks) \/ UNCHANGED viewVars
      BY <2>5 DEF TripsReceived, viewVars
    <3>3. Typed
      BY <3>1, <3>2, ViewTypes
    <3>4. Rest
      BY <2>5, <3>1 DEF TripsReceived, TypeOK
    <3> QED
      BY <1>0, <2>2, <2>3, <3>3, <3>4
  <2>6. CASE CallFailed(c)
    <3>1. Rest /\ UNCHANGED viewVars
      BY <2>6 DEF CallFailed, TypeOK
    <3> QED
      BY <1>0, <1>v, <2>2, <2>3, <3>1
  <2> QED
    BY <1>10, <2>4, <2>5, <2>6 DEF Answered
<1>11. CASE UNCHANGED vars
  <2>1. Rest /\ UNCHANGED <<opened, loadingCount, thrown, viewVars>>
    BY <1>11 DEF vars, callVars, TypeOK
  <2> QED
    BY <1>0, <1>c, <1>v, <2>1
<1> QED
  BY <1>1, <1>2, <1>3, <1>4, <1>5, <1>6, <1>7, <1>8, <1>9, <1>10, <1>11 DEF Next

-----------------------------------------------------------------------------
(* What is shown.                                                          *)

\* The calls of a kind are told apart by their sets; a call is never None.
LEMMA CallKinds ==
  /\ TrainCalls \subseteq Calls /\ TripCalls \subseteq Calls
  /\ TrainCalls \cap TripCalls = {} /\ Calls = TrainCalls \cup TripCalls
  /\ None \notin Calls /\ None \notin Filters /\ None \notin Views
BY RailVizMainAssumption DEF RailVizMainAssumption, Calls

\* What a step that opens or closes a call leaves of the others.
LEMMA OpenOthers ==
  ASSUME TypeOK, NEW c \in Calls, NEW purpose, Open(c, purpose) \/ (Close(c) /\ purpose = None)
  PROVE  opened'[c] = purpose /\ \A d \in Calls \ {c} : opened'[d] = opened[d]
BY DEF TypeOK, Open, Close

\* showFullData and showDetailData leave the map, the layers and Render consistent.
LEMMA ShowStep ==
  ASSUME TypeOK, ViewIsConsistent
  PROVE  /\ \A full \in Views \cup {None} :
              ShowFullData(full) /\ UNCHANGED <<loaded, trainsEnabled>>
                /\ (detailFilter' = None => fullData' = full)
              => ViewIsConsistent' /\ ~showingDetailData'
         /\ \A trips \in Filters \cup {None}, w \in BOOLEAN :
              ShowDetailData(trips, w) /\ UNCHANGED <<loaded, detailFilter>>
                /\ detailTrips' = trips /\ detailFilter # None
              => /\ ViewIsConsistent' /\ showingDetailData'
                 /\ render'.data = trips
                 /\ layers'.detail.filter = detailFilter /\ layers'.detail.walks = w
<1>1. ASSUME NEW full \in Views \cup {None}, ShowFullData(full),
             UNCHANGED <<loaded, trainsEnabled>>, detailFilter' = None => fullData' = full
      PROVE  ViewIsConsistent' /\ ~showingDetailData'
  <2>1. loaded' => onMap' = layers'
    BY <1>1 DEF ShowFullData, SetLayers
  <2>2. /\ ~showingDetailData' /\ render'.data = full /\ ~render'.filtered
        /\ layers'.enabled.connections /\ layers'.extra = ExtraData(full)
        /\ render'.trains = trainsEnabled
    BY <1>1 DEF ShowFullData, SetLayers
  <2>3. full # None => ExtraData(full) = full
    BY DEF ExtraData
  <2> QED
    BY <1>1, <2>1, <2>2, <2>3 DEF ViewIsConsistent
<1>2. ASSUME NEW trips \in Filters \cup {None}, NEW w \in BOOLEAN, ShowDetailData(trips, w),
             UNCHANGED <<loaded, detailFilter>>, detailTrips' = trips, detailFilter # None
      PROVE  /\ ViewIsConsistent' /\ showingDetailData'
             /\ render'.data = trips
             /\ layers'.detail.filter = detailFilter /\ layers'.detail.walks = w
  <2>1. loaded' => onMap' = layers'
    BY <1>2 DEF ShowDetailData, SetLayers
  <2>2. /\ showingDetailData' /\ render'.data = trips /\ render'.filtered
        /\ ~layers'.enabled.base /\ ~layers'.enabled.connections
        /\ layers'.detail.trips = trips
        /\ layers'.detail.filter = detailFilter /\ layers'.detail.walks = w
    BY <1>2 DEF ShowDetailData, SetLayers
  <2> QED
    BY <1>2, <2>1, <2>2 DEF ViewIsConsistent
<1> QED
  BY <1>1, <1>2

\* showTrains switches layers and trains, and nothing else.
LEMMA ShowTrainsStep ==
  ASSUME TypeOK, ViewIsConsistent, ShowTrains
  PROVE  ViewIsConsistent' /\ layers'.detail = layers.detail /\ render'.data = render.data
<1>1. layers \in LayerStates /\ layers.enabled \in Flags
  BY DEF TypeOK, LayerStates
<1>2. /\ layers'.extra = layers.extra /\ layers'.detail = layers.detail
      /\ loaded => onMap' = layers'
      /\ layers'.enabled.connections = layers.enabled.connections
      /\ showingDetailData => ~layers'.enabled.base
  BY <1>1 DEF ShowTrains, SetLayers, Flags
<1>3. /\ render'.data = render.data /\ render'.filtered = render.filtered
      /\ render'.trains = trainsEnabled'
  BY DEF ShowTrains, TypeOK
<1>4. UNCHANGED <<loaded, detailFilter, fullData, detailTrips, showingDetailData>>
  BY DEF ShowTrains
<1> QED
  BY <1>2, <1>3, <1>4 DEF ViewIsConsistent

LEMMA ViewStep ==
  ASSUME Inv, [Next]_vars
  PROVE  ViewIsConsistent'
<1> USE DEF Inv
<1>u. UNCHANGED <<viewVars, loaded, detailFilter, fullData, detailTrips, trainsEnabled>>
        => ViewIsConsistent'
  BY DEF viewVars, ViewIsConsistent
<1>1. CASE MapLoad
  BY <1>1 DEF MapLoad, LayersAtLoad, ViewIsConsistent
<1>2. CASE ShowTrains
  BY <1>2, ShowTrainsStep
<1>3. CASE MapUpdate \/ SetTimeOffset \/ TrainsTimer \/ TripsTimerEnds
           \/ SendTrainsRequestThrows \/ (\E c \in TrainCalls : SendTrainsRequest(c))
           \/ (\E c \in TripCalls : TripsTimer(c))
  BY <1>3, <1>u DEF MapUpdate, SetTimeOffset, TrainsTimer, TripsTimerEnds,
                    SendTrainsRequestThrows, SendTrainsRequest, TripsTimer
<1>4. ASSUME NEW filter \in Filters, NEW c \in TripCalls, SetDetailFilter(filter, c)
      PROVE  ViewIsConsistent'
  <2>1. /\ detailFilter' # None
        /\ UNCHANGED <<viewVars, loaded, fullData, detailTrips, trainsEnabled>>
    BY <1>4, CallKinds DEF SetDetailFilter
  <2> QED
    BY <2>1 DEF viewVars, ViewIsConsistent
<1>5. CASE ClearDetailFilter
  BY <1>5, ShowStep DEF ClearDetailFilter, TypeOK
<1>6. CASE SetDetailWalks
  <2>1. CASE ~showingDetailData
    BY <1>6, <2>1, <1>u DEF SetDetailWalks, RedrawWalks
  <2>2. CASE showingDetailData
    BY <1>6, <2>2, ShowStep DEF SetDetailWalks, RedrawWalks, TypeOK
  <2> QED
    BY <2>1, <2>2
<1>7. ASSUME NEW c \in Calls, TrainsReceived(c) PROVE ViewIsConsistent'
  <2>0. c \in TrainCalls /\ opened[c] \in Views \cup {None}
        /\ UNCHANGED <<loaded, detailFilter, detailTrips, trainsEnabled>>
    BY <1>7 DEF TrainsReceived, OpenedTypes
  <2>1. CASE ~IsLast(c)
    BY <1>7, <2>0, <2>1, <1>u DEF TrainsReceived
  <2>2. CASE IsLast(c) /\ detailFilter = None
    BY <1>7, <2>0, <2>2, ShowStep DEF TrainsReceived
  <2>3. CASE IsLast(c) /\ detailFilter # None
    <3>1. UNCHANGED viewVars /\ detailFilter' # None
      BY <1>7, <2>0, <2>3 DEF TrainsReceived
    <3> QED
      BY <2>0, <3>1 DEF viewVars, ViewIsConsistent
  <2> QED
    BY <2>1, <2>2, <2>3
<1>8. ASSUME NEW c \in Calls, TripsReceived(c) PROVE ViewIsConsistent'
  <2>0. opened[c] \in Filters \cup {None} /\ walks \in BOOLEAN
        /\ UNCHANGED <<loaded, detailFilter, fullData, trainsEnabled>>
    BY <1>8 DEF TripsReceived, OpenedTypes, TypeOK
  <2>1. CASE ~IsLast(c)
    BY <1>8, <2>0, <2>1, <1>u DEF TripsReceived
  <2>2. CASE IsLast(c) /\ detailFilter # None
    BY <1>8, <2>0, <2>2, ShowStep DEF TripsReceived
  <2>3. CASE IsLast(c) /\ detailFilter = None
    <3>1. UNCHANGED viewVars /\ ~showingDetailData
      BY <1>8, <2>3 DEF TripsReceived, ViewIsConsistent
    <3> QED
      BY <2>0, <3>1 DEF viewVars, ViewIsConsistent
  <2> QED
    BY <2>1, <2>2, <2>3
<1>9. ASSUME NEW c \in Calls, CallFailed(c) PROVE ViewIsConsistent'
  BY <1>9, <1>u DEF CallFailed
<1>10. CASE UNCHANGED vars
  BY <1>10, <1>u DEF vars
<1> QED
  BY <1>1, <1>2, <1>3, <1>4, <1>5, <1>6, <1>7, <1>8, <1>9, <1>10 DEF Next, Answered

-----------------------------------------------------------------------------
(* The last calls, and the data they bring.                                *)

LEMMA LastCallsStep ==
  ASSUME Inv, [Next]_vars
  PROVE  LastCalls'
<1> USE CallKinds DEF Inv
<1>t. /\ lastTrainsRequest \in TrainCalls \cup {None} /\ lastTripsRequest \in TripCalls \cup {None}
  BY DEF TypeOK
<1>u. /\ UNCHANGED <<view, loaded, detailFilter, fullData, showingDetailData, opened,
                     lastTrainsRequest, lastTripsRequest>>
      /\ "debounce" \in timers => "debounce" \in timers'
      => LastCalls'
  BY DEF LastCalls
<1>1. CASE ShowTrains \/ TripsTimerEnds
  BY <1>1, <1>u DEF ShowTrains, TripsTimerEnds, viewVars, callVars
<1>2. CASE MapLoad \/ MapUpdate \/ SetTimeOffset \/ TrainsTimer
  BY <1>2 DEF MapLoad, MapUpdate, SetTimeOffset, TrainsTimer, Debounced, viewVars, callVars, LastCalls
<1>3. ASSUME NEW c \in TrainCalls, SendTrainsRequest(c) PROVE LastCalls'
  <2>1. opened'[c] = view /\ \A d \in Calls \ {c} : opened'[d] = opened[d]
    BY <1>3, OpenOthers DEF SendTrainsRequest
  <2>2. lastTrainsRequest' = c /\ loaded /\ UNCHANGED <<view, loaded, detailFilter, fullData,
          showingDetailData, lastTripsRequest>>
    BY <1>3 DEF SendTrainsRequest, viewVars
  <2> QED
    BY <1>t, <2>1, <2>2 DEF LastCalls
<1>4. CASE SendTrainsRequestThrows
  BY <1>4 DEF SendTrainsRequestThrows, viewVars, LastCalls
<1>5. ASSUME NEW c \in TripCalls, NEW filter \in Filters, SendTripsRequest(c, filter),
             detailFilter' = filter,
             UNCHANGED <<view, loaded, fullData, showingDetailData, lastTrainsRequest>>
      PROVE  LastCalls'
  <2>1. opened'[c] = filter /\ \A d \in Calls \ {c} : opened'[d] = opened[d]
    BY <1>5, OpenOthers DEF SendTripsRequest
  <2>2. lastTripsRequest' = c /\ ("debounce" \in timers => "debounce" \in timers')
    BY <1>5 DEF SendTripsRequest
  <2> QED
    BY <1>5, <1>t, <2>1, <2>2 DEF LastCalls
<1>6. ASSUME NEW c \in TripCalls, TripsTimer(c) PROVE LastCalls'
  BY <1>5, <1>6 DEF TripsTimer, viewVars, TypeOK
<1>7. ASSUME NEW filter \in Filters, NEW c \in TripCalls, SetDetailFilter(filter, c)
      PROVE  LastCalls'
  BY <1>5, <1>7 DEF SetDetailFilter, viewVars
<1>8. CASE ClearDetailFilter
  BY <1>8 DEF ClearDetailFilter, ShowFullData, callVars, LastCalls
<1>9. CASE SetDetailWalks
  BY <1>9 DEF SetDetailWalks, RedrawWalks, ShowDetailData, viewVars, callVars, LastCalls
<1>10. ASSUME NEW c \in Calls, Close(c),
              UNCHANGED <<view, loaded, detailFilter, timers, lastTrainsRequest, lastTripsRequest>>,
              lastTrainsRequest = None => fullData' = fullData,
              lastTripsRequest = None => showingDetailData' = FALSE
       PROVE  LastCalls'
  <2>1. opened'[c] = None /\ \A d \in Calls \ {c} : opened'[d] = opened[d]
    BY <1>10, OpenOthers
  <2> QED
    BY <1>10, <1>t, <2>1 DEF LastCalls
<1>11. ASSUME NEW c \in Calls, TrainsReceived(c) PROVE LastCalls'
  <2>1. /\ Close(c) /\ c \in TrainCalls
        /\ UNCHANGED <<view, loaded, detailFilter, timers, lastTrainsRequest, lastTripsRequest>>
    BY <1>11 DEF TrainsReceived
  <2>2. lastTrainsRequest = None => fullData' = fullData
    BY <1>11, <1>t DEF TrainsReceived, IsLast
  <2>3. showingDetailData' \in {showingDetailData, FALSE}
    BY <1>11 DEF TrainsReceived, ShowFullData, viewVars
  <2> QED
    BY <1>10, <2>1, <2>2, <2>3 DEF LastCalls, TypeOK
<1>12. ASSUME NEW c \in Calls, TripsReceived(c) PROVE LastCalls'
  <2>1. /\ Close(c) /\ c \in TripCalls
        /\ UNCHANGED <<view, loaded, detailFilter, timers, fullData, lastTrainsRequest, lastTripsRequest>>
    BY <1>12 DEF TripsReceived
  <2>2. lastTripsRequest = None => ~IsLast(c)
    BY <2>1, <1>t DEF IsLast
  <2>3. lastTripsRequest = None => showingDetailData' = showingDetailData
    BY <1>12, <2>2 DEF TripsReceived, viewVars
  <2> QED
    BY <1>10, <2>1, <2>3 DEF LastCalls, TypeOK
<1>13. ASSUME NEW c \in Calls, CallFailed(c) PROVE LastCalls'
  BY <1>10, <1>13 DEF CallFailed, viewVars, LastCalls, TypeOK
<1>14. CASE UNCHANGED vars
  BY <1>14, <1>u DEF vars, viewVars, callVars
<1> QED
  BY <1>1, <1>2, <1>3, <1>4, <1>6, <1>7, <1>8, <1>9, <1>11, <1>12, <1>13, <1>14
     DEF Next, Answered

\* The trips of the filter.
LEMMA TripsStep ==
  ASSUME Inv, [Next]_vars
  PROVE  TripsOfTheFilter'
<1> USE CallKinds DEF Inv
<1>t. lastTripsRequest \in TripCalls \cup {None}
  BY DEF TypeOK
<1>u. /\ UNCHANGED <<viewVars, detailFilter, walks, lastTripsRequest>>
      /\ showingDetailData => opened'[lastTripsRequest] = opened[lastTripsRequest]
                               \/ "trips" \in failed'
      /\ "trips" \in failed => "trips" \in failed'
      => TripsOfTheFilter'
  BY DEF viewVars, TripsOfTheFilter, TripsAwaited
<1>1. CASE MapLoad \/ TripsTimerEnds \/ MapUpdate \/ SetTimeOffset \/ TrainsTimer
           \/ SendTrainsRequestThrows
  BY <1>1 DEF MapLoad, TripsTimerEnds, MapUpdate, SetTimeOffset, TrainsTimer,
              SendTrainsRequestThrows, viewVars, callVars, TripsOfTheFilter, TripsAwaited
<1>2. CASE ShowTrains
  <2>1. layers'.detail = layers.detail /\ render'.data = render.data
    BY <1>2, ShowTrainsStep
  <2>2. UNCHANGED <<showingDetailData, detailFilter, walks, opened, lastTripsRequest, failed>>
    BY <1>2 DEF ShowTrains, callVars
  <2> QED
    BY <2>1, <2>2 DEF TripsOfTheFilter, TripsAwaited
<1>3. ASSUME NEW c \in TrainCalls, SendTrainsRequest(c) PROVE TripsOfTheFilter'
  <2>1. \A d \in Calls \ {c} : opened'[d] = opened[d]
    BY <1>3, OpenOthers DEF SendTrainsRequest
  <2>2. showingDetailData => lastTripsRequest \in TripCalls
    BY <1>t DEF LastCalls
  <2> QED
    BY <1>3, <1>u, <2>1, <2>2 DEF SendTrainsRequest
<1>4. ASSUME NEW c \in TripCalls, NEW filter \in Filters, SendTripsRequest(c, filter),
             detailFilter' = filter
      PROVE  TripsOfTheFilter'
  <2>1. opened'[c] = filter
    BY <1>4, OpenOthers DEF SendTripsRequest
  <2> QED
    BY <1>4, <2>1 DEF SendTripsRequest, TripsOfTheFilter, TripsAwaited
<1>5. ASSUME NEW c \in TripCalls, TripsTimer(c) PROVE TripsOfTheFilter'
  BY <1>4, <1>5 DEF TripsTimer, TypeOK
<1>6. ASSUME NEW filter \in Filters, NEW c \in TripCalls, SetDetailFilter(filter, c)
      PROVE  TripsOfTheFilter'
  BY <1>4, <1>6 DEF SetDetailFilter
<1>7. CASE ClearDetailFilter
  BY <1>7 DEF ClearDetailFilter, ShowFullData, TripsOfTheFilter
<1>8. CASE SetDetailWalks
  <2>1. CASE ~showingDetailData
    BY <1>8, <2>1 DEF SetDetailWalks, RedrawWalks, viewVars, TripsOfTheFilter
  <2>2. CASE showingDetailData
    <3>1. ShowDetailData(detailTrips, TRUE) /\ detailFilter # None /\ walks' = TRUE
          /\ UNCHANGED <<loaded, detailFilter, detailTrips, callVars>>
      BY <1>8, <2>2 DEF SetDetailWalks, RedrawWalks
    <3>2. render'.data = detailTrips /\ layers'.detail.filter = detailFilter
          /\ layers'.detail.walks = TRUE
      BY <3>1, ShowStep DEF TypeOK
    <3>3. render.data = detailTrips
      BY <2>2 DEF ViewIsConsistent
    <3> QED
      BY <2>2, <3>1, <3>2, <3>3 DEF callVars, TripsOfTheFilter, TripsAwaited
  <2> QED
    BY <2>1, <2>2
<1>9. ASSUME NEW c \in Calls, TrainsReceived(c) PROVE TripsOfTheFilter'
  <2>1. \A d \in Calls \ {c} : opened'[d] = opened[d]
    BY <1>9, OpenOthers DEF TrainsReceived
  <2>2. showingDetailData => lastTripsRequest \in TripCalls /\ lastTripsRequest # c
    BY <1>9, <1>t DEF LastCalls, TrainsReceived
  <2>3. CASE UNCHANGED viewVars
    BY <1>9, <1>u, <2>1, <2>2, <2>3 DEF TrainsReceived
  <2>4. CASE ShowFullData(opened[c])
    BY <2>4 DEF ShowFullData, TripsOfTheFilter
  <2> QED
    BY <1>9, <2>3, <2>4 DEF TrainsReceived, viewVars
<1>10. ASSUME NEW c \in Calls, TripsReceived(c) PROVE TripsOfTheFilter'
  <2>0. c \in TripCalls /\ opened[c] \in Filters /\ walks \in BOOLEAN
        /\ UNCHANGED <<loaded, detailFilter, walks, lastTripsRequest, failed>>
    BY <1>10 DEF TripsReceived, Close, OpenedTypes, TypeOK
  <2>1. \A d \in Calls \ {c} : opened'[d] = opened[d]
    BY <1>10, OpenOthers DEF TripsReceived
  <2>2. CASE ~IsLast(c)
    <3>1. showingDetailData => lastTripsRequest \in Calls \ {c}
      BY <1>t, <2>2 DEF IsLast, LastCalls
    <3> QED
      BY <1>10, <1>u, <2>1, <2>2, <3>1 DEF TripsReceived
  <2>3. CASE IsLast(c) /\ detailFilter # None
    <3>1. c = lastTripsRequest
      BY <2>0, <2>3 DEF IsLast, TypeOK
    <3>2. opened[c] = detailFilter
      BY <2>0, <2>3, <3>1 DEF LastCalls
    <3>3. render'.data = opened[c] /\ layers'.detail.filter = detailFilter
          /\ layers'.detail.walks = walks
      BY <1>10, <2>0, <2>3, ShowStep DEF TripsReceived
    <3> QED
      BY <2>0, <3>2, <3>3 DEF TripsOfTheFilter
  <2>4. CASE IsLast(c) /\ detailFilter = None
    BY <1>10, <2>4 DEF TripsReceived, viewVars, ViewIsConsistent, TripsOfTheFilter
  <2> QED
    BY <2>2, <2>3, <2>4
<1>11. ASSUME NEW c \in Calls, CallFailed(c) PROVE TripsOfTheFilter'
  <2>1. \A d \in Calls \ {c} : opened'[d] = opened[d]
    BY <1>11, OpenOthers DEF CallFailed
  <2>2. /\ c = lastTripsRequest => "trips" \in failed'
        /\ "trips" \in failed => "trips" \in failed'
    BY <1>11 DEF CallFailed
  <2>3. showingDetailData => lastTripsRequest \in Calls
    BY <1>t DEF LastCalls
  <2> QED
    BY <1>11, <1>u, <2>1, <2>2, <2>3 DEF CallFailed
<1>12. CASE UNCHANGED vars
  BY <1>12, <1>u DEF vars, callVars
<1> QED
  BY <1>1, <1>2, <1>3, <1>5, <1>6, <1>7, <1>8, <1>9, <1>10, <1>11, <1>12 DEF Next, Answered

\* The trains of the view.
LEMMA TrainsStep ==
  ASSUME Inv, [Next]_vars
  PROVE  TrainsOfTheView'
<1> USE CallKinds DEF Inv
<1>t. lastTrainsRequest \in TrainCalls \cup {None}
  BY DEF TypeOK
<1>n. lastTrainsRequest = None => fullData = None
  BY DEF LastCalls
<1>u. /\ UNCHANGED <<view, fullData, lastTrainsRequest>>
      /\ "debounce" \in timers => "debounce" \in timers'
      /\ lastTrainsRequest # None
           => opened'[lastTrainsRequest] = opened[lastTrainsRequest] \/ "trains" \in failed'
      /\ "trains" \in failed => "trains" \in failed'
      => TrainsOfTheView'
  BY <1>n DEF TrainsOfTheView
<1>1. CASE MapUpdate \/ SetTimeOffset \/ MapLoad \/ TrainsTimer
  BY <1>1 DEF MapUpdate, SetTimeOffset, MapLoad, TrainsTimer, Debounced, TrainsOfTheView
<1>2. CASE ShowTrains \/ TripsTimerEnds \/ ClearDetailFilter \/ SetDetailWalks
  BY <1>2, <1>u DEF ShowTrains, TripsTimerEnds, ClearDetailFilter, SetDetailWalks, callVars
<1>3. ASSUME NEW c \in TrainCalls, SendTrainsRequest(c) PROVE TrainsOfTheView'
  <2>1. opened'[c] = view
    BY <1>3, OpenOthers DEF SendTrainsRequest
  <2> QED
    BY <1>3, <2>1 DEF SendTrainsRequest, TrainsOfTheView
<1>4. CASE SendTrainsRequestThrows
  BY <1>4 DEF SendTrainsRequestThrows, LastCalls, TrainsOfTheView
<1>5. ASSUME NEW c \in TripCalls, NEW filter, SendTripsRequest(c, filter),
             UNCHANGED <<view, fullData, lastTrainsRequest>>
      PROVE  TrainsOfTheView'
  <2>1. \A d \in Calls \ {c} : opened'[d] = opened[d]
    BY <1>5, OpenOthers DEF SendTripsRequest
  <2> QED
    BY <1>5, <1>t, <1>u, <2>1 DEF SendTripsRequest
<1>6. ASSUME NEW c \in TripCalls, TripsTimer(c) PROVE TrainsOfTheView'
  BY <1>5, <1>6 DEF TripsTimer
<1>7. ASSUME NEW filter \in Filters, NEW c \in TripCalls, SetDetailFilter(filter, c)
      PROVE  TrainsOfTheView'
  BY <1>5, <1>7 DEF SetDetailFilter
<1>8. ASSUME NEW c \in Calls, TrainsReceived(c) PROVE TrainsOfTheView'
  <2>0. c \in TrainCalls /\ UNCHANGED <<view, timers, lastTrainsRequest, lastTripsRequest, failed>>
    BY <1>8 DEF TrainsReceived
  <2>1. \A d \in Calls \ {c} : opened'[d] = opened[d]
    BY <1>8, OpenOthers DEF TrainsReceived
  <2>2. CASE ~IsLast(c)
    BY <1>8, <1>t, <1>u, <2>0, <2>1, <2>2 DEF TrainsReceived, IsLast
  <2>3. CASE IsLast(c)
    <3>1. c = lastTrainsRequest /\ fullData' = opened[c]
      BY <1>8, <2>0, <2>3 DEF TrainsReceived, IsLast, TypeOK
    <3>2. opened[c] \in {view, None} \/ "debounce" \in timers
      BY <2>0, <3>1 DEF LastCalls
    <3> QED
      BY <2>0, <3>1, <3>2 DEF TrainsOfTheView
  <2> QED
    BY <2>2, <2>3
<1>9. ASSUME NEW c \in Calls, TripsReceived(c) PROVE TrainsOfTheView'
  <2>1. \A d \in Calls \ {c} : opened'[d] = opened[d]
    BY <1>9, OpenOthers DEF TripsReceived
  <2> QED
    BY <1>9, <1>t, <1>u, <2>1 DEF TripsReceived
<1>10. ASSUME NEW c \in Calls, CallFailed(c) PROVE TrainsOfTheView'
  <2>1. \A d \in Calls \ {c} : opened'[d] = opened[d]
    BY <1>10, OpenOthers DEF CallFailed
  <2>2. /\ c = lastTrainsRequest => "trains" \in failed'
        /\ "trains" \in failed => "trains" \in failed'
    BY <1>10 DEF CallFailed
  <2> QED
    BY <1>10, <1>t, <1>u, <2>1, <2>2 DEF CallFailed
<1>11. CASE UNCHANGED vars
  BY <1>11, <1>u DEF vars, callVars
<1> QED
  BY <1>1, <1>2, <1>3, <1>4, <1>6, <1>7, <1>8, <1>9, <1>10, <1>11 DEF Next, Answered

-----------------------------------------------------------------------------

LEMMA Invariance == Spec => []Inv
<1>1. Inv /\ [Next]_vars => Inv'
  BY TypeStep, ViewStep, LastCallsStep, TripsStep, TrainsStep DEF Inv
<1> QED
  BY InitInv, <1>1, PTL DEF Spec

\* The variables keep their types, for any filters, views and numbers of calls: the
\* spinner is never counted below 0 (setLoading).
THEOREM TypeCorrect == Spec => []TypeOK
BY Invariance, PTL DEF Inv

\* The spinner is on exactly while a call is open, or after a call without a map
\* (setLoading in sendTrainsRequest, sendTripsRequest, dataReceived, handleApiError).
THEOREM SpinnerCorrect == Spec => []SpinnerCountsCalls
BY Invariance, PTL DEF Inv

\* Trains, lines and layers on the map belong together after every handler
\* (showFullData, showDetailData, showTrains, init of the layers).
THEOREM ViewCorrect == Spec => []ViewIsConsistent
BY Invariance, PTL DEF Inv

\* The trips on the map are those of the filter, unless they are still asked for
\* (dataReceived drops all answers but that to the last call).
THEOREM TripsCorrect == Spec => []TripsOfTheFilter
BY Invariance, PTL DEF Inv

\* The newest trains are those of the view, unless they will be or are asked for
\* (debounce, sendTrainsRequest, dataReceived).
THEOREM TrainsCorrect == Spec => []TrainsOfTheView
BY Invariance, PTL DEF Inv
=============================================================================
