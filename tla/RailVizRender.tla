--------------------------- MODULE RailVizRender ---------------------------
(***************************************************************************)
(* Drawing and picking trains: ui/web/js/railviz/render.js, the buffers of  *)
(* trains.js and the custom layer of ui/web/js/map.js.                      *)
(*                                                                          *)
(* Each drawn frame asks the browser for a callback (maybe_render), which   *)
(* asks the map to draw again or, while the frame rate is limited, asks for *)
(* another callback.  The map also draws whenever it moves.  A frame draws  *)
(* each train twice: for the eye, and into an offscreen buffer with the     *)
(* train's index as its color, which is how a click finds its train.  The   *)
(* map, the browser's animation frames and WebGL are external; a new set of *)
(* trains is a model value, NoTrains is the one without any.                *)
(***************************************************************************)
EXTENDS Naturals

CONSTANTS
  TrainSets,    \* data with trains
  NoTrains,     \* data without trains; a cleared buffer
  NoBuffer,     \* no framebuffer, no attributes, no frame
  MaxCallbacks  \* bound: callbacks of requestAnimationFrame that wait

ASSUME RenderAssumption ==
  /\ NoTrains \notin TrainSets /\ NoBuffer \notin TrainSets \cup {NoTrains}
  /\ MaxCallbacks \in Nat \ {0}

VARIABLES
  layer,        \* the custom layer: not yet added, up, or its context is lost
  data,         \* what setData was given last
  initialized,  \* trains.js: the attributes were given the present trains
  attributes,   \* trains.js: the trains whose colors the attributes hold
  offscreen,    \* the trains whose indices the offscreen buffer holds
  drawTrains,   \* trainsEnabled
  limited,      \* targetFrameTime # null
  lastFrame,    \* none, less than targetFrameTime ago, or longer ago
  forceDraw,
  callbacks,    \* number of callbacks that wait for an animation frame
  rafPending,   \* rafRequest, the one that stop cancels, is among them
  repaint       \* the map is going to draw

loopVars == <<lastFrame, forceDraw, callbacks, rafPending, repaint>>
bufferVars == <<initialized, attributes, offscreen>>
renderVars == <<layer, data, drawTrains, limited, bufferVars, loopVars>>

Data == TrainSets \cup {NoTrains}

RenderInit ==
  /\ layer = "none"
  /\ data = NoTrains
  /\ initialized = FALSE
  /\ attributes = NoBuffer
  /\ offscreen = NoBuffer
  /\ drawTrains = TRUE
  /\ limited = FALSE
  /\ lastFrame = "none"
  /\ forceDraw = TRUE
  /\ callbacks = 0 /\ rafPending = FALSE
  /\ repaint = FALSE

-----------------------------------------------------------------------------
(* The layer.                                                              *)

\* Render.setup and Trains.setup: all buffers are new, and a callback is asked for.
Setup ==
  /\ callbacks < MaxCallbacks
  /\ initialized' = FALSE
  /\ attributes' = NoBuffer
  /\ offscreen' = NoBuffer
  /\ lastFrame' = "none"
  /\ forceDraw' = TRUE
  /\ callbacks' = callbacks + 1 /\ rafPending' = TRUE
  /\ repaint' = TRUE

\* onAdd.
OnAdd ==
  /\ layer = "none"
  /\ layer' = "up"
  /\ Setup
  /\ UNCHANGED <<data, drawTrains, limited>>

\* "webglcontextlost": stop cancels the last callback; the map draws no more.
ContextLost ==
  /\ layer = "up"
  /\ layer' = "lost"
  /\ callbacks' = IF rafPending THEN callbacks - 1 ELSE callbacks
  /\ rafPending' = FALSE
  /\ repaint' = FALSE
  /\ UNCHANGED <<data, drawTrains, limited, bufferVars, lastFrame, forceDraw>>

\* "webglcontextrestored": triggerRepaint and setup.
ContextRestored ==
  /\ layer = "lost"
  /\ layer' = "up"
  /\ Setup
  /\ UNCHANGED <<data, drawTrains, limited>>

-----------------------------------------------------------------------------
(* What main.js tells.                                                     *)

\* setData, setMinZoom and setTrainsEnabled as showFullData and showDetailData call
\* them, in this order: the last one takes back the forced frame of the others
\* unless it changes trainsEnabled.
ShowData(trains, enabled) ==
  /\ data' = trains
  /\ initialized' = FALSE
  /\ forceDraw' = (enabled # drawTrains)
  /\ drawTrains' = enabled
  /\ UNCHANGED <<layer, limited, attributes, offscreen, lastFrame, callbacks,
                 rafPending, repaint>>

\* setTrainsEnabled as showTrains calls it.
EnableTrains(enabled) ==
  /\ forceDraw' = (enabled # drawTrains)
  /\ drawTrains' = enabled
  /\ UNCHANGED <<layer, data, limited, bufferVars, lastFrame, callbacks, rafPending,
                 repaint>>

\* setTimeOffset.
SetTimeOffset ==
  /\ forceDraw' = TRUE
  /\ UNCHANGED <<layer, data, drawTrains, limited, bufferVars, lastFrame, callbacks,
                 rafPending, repaint>>

\* setupFpsLimiter: on below zoom 16 unless the limiter is switched off.
SetTargetFps ==
  /\ limited' = ~limited
  /\ UNCHANGED <<layer, data, drawTrains, bufferVars, loopVars>>

-----------------------------------------------------------------------------
(* Frames.                                                                 *)

FrameTimePasses ==
  /\ lastFrame = "recent"
  /\ lastFrame' = "old"
  /\ UNCHANGED <<layer, data, drawTrains, limited, bufferVars, forceDraw, callbacks,
                 rafPending, repaint>>

\* The map moves and draws without being asked by a callback.
MapMoves ==
  /\ layer = "up" /\ ~repaint
  /\ callbacks < MaxCallbacks
  /\ repaint' = TRUE
  /\ UNCHANGED <<layer, data, drawTrains, limited, bufferVars, lastFrame, forceDraw,
                 callbacks, rafPending>>

\* maybe_render, for all callbacks that wait: how many of them come too early.  A
\* forced frame lets the first one through and makes the others wait.
TooEarly ==
  IF ~limited \/ lastFrame # "recent" THEN 0
  ELSE IF forceDraw THEN callbacks - 1 ELSE callbacks

\* Mutant: a callback that comes too early does not ask for another one.
AskAgainNever == 0

\* Each of them asks for another one.
AskAgain == TooEarly

\* An animation frame of the browser runs all callbacks that wait.
AnimationFrame ==
  /\ callbacks > 0
  /\ callbacks' = AskAgain
  /\ rafPending' = (callbacks' > 0)
  /\ IF TooEarly < callbacks
     THEN forceDraw' = FALSE /\ repaint' = (repaint \/ layer = "up")
     ELSE UNCHANGED <<forceDraw, repaint>>
  /\ UNCHANGED <<layer, data, drawTrains, limited, bufferVars, lastFrame>>

\* Mutant: new trains do not reset what the attributes hold.
AttributesKept == IF attributes = NoBuffer THEN data ELSE attributes

\* preRender: new trains are written to the buffers before they are drawn.
NewAttributes == IF initialized THEN attributes ELSE data

\* preRender and render of trains.js: each train is drawn with its index as its color.
DrawTrains ==
  /\ initialized' = TRUE
  /\ attributes' = NewAttributes
  /\ offscreen' = NewAttributes

\* prerender and render: the offscreen buffer is cleared and the trains, unless they
\* are disabled, are drawn from the attributes.
Paint ==
  /\ layer = "up" /\ repaint
  /\ callbacks < MaxCallbacks
  /\ repaint' = FALSE
  /\ IF drawTrains
     THEN DrawTrains
     ELSE /\ offscreen' = NoTrains
          /\ UNCHANGED <<initialized, attributes>>
  /\ lastFrame' = "recent"
  /\ callbacks' = callbacks + 1 /\ rafPending' = TRUE
  /\ UNCHANGED <<layer, data, drawTrains, limited, forceDraw>>

-----------------------------------------------------------------------------

RenderNext ==
  \/ OnAdd
  \/ ContextLost
  \/ ContextRestored
  \/ \E trains \in Data, enabled \in BOOLEAN : ShowData(trains, enabled)
  \/ \E enabled \in BOOLEAN : EnableTrains(enabled)
  \/ SetTimeOffset
  \/ SetTargetFps
  \/ FrameTimePasses
  \/ MapMoves
  \/ AnimationFrame
  \/ Paint

RenderSpec == RenderInit /\ [][RenderNext]_renderVars

\* The page is visible: the browser runs animation frames, the map draws when asked
\* to, and time passes.
RenderFairness ==
  /\ WF_renderVars(AnimationFrame)
  /\ WF_renderVars(Paint)
  /\ WF_renderVars(FrameTimePasses)

-----------------------------------------------------------------------------
(* Properties.                                                             *)

RenderTypeOK ==
  /\ layer \in {"none", "up", "lost"}
  /\ data \in Data /\ attributes \in Data \cup {NoBuffer}
  /\ offscreen \in Data \cup {NoBuffer}
  /\ initialized \in BOOLEAN /\ drawTrains \in BOOLEAN /\ limited \in BOOLEAN
  /\ forceDraw \in BOOLEAN /\ rafPending \in BOOLEAN /\ repaint \in BOOLEAN
  /\ lastFrame \in {"none", "recent", "old"}
  /\ callbacks \in 0 .. MaxCallbacks

\* handleMouseEvent: the index under the mouse is read from the offscreen buffer and
\* looked up in data, whatever the buffer was drawn from.
Picks == layer = "up" /\ offscreen \in TrainSets

\* A click finds the train that was drawn there: the buffer holds the indices of the
\* trains of the attributes, and these are data's as soon as preRender has seen the
\* present data.  Only between setData and the next frame (initialized is FALSE) may
\* readOffscreenPixel give the index of an older train.
PickedTrainIsDrawn ==
  Picks => /\ attributes = offscreen
           /\ initialized => offscreen = data

\* New data is drawn although its forced frame may be lost (setTrainsEnabled), the
\* frame rate be limited, callbacks be cancelled by stop, and the context be lost.
NotDrawn == layer = "up" /\ drawTrains /\ offscreen # data
NewDataDrawn == NotDrawn ~> ~NotDrawn
=============================================================================
