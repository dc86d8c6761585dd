---------------------------- MODULE TrainMotion ----------------------------
(***************************************************************************)
(* The movement of a train on the map: class Train of                       *)
(* ui/web/js/railviz/model.js, as PositionAttributes.update of trains.js    *)
(* calls it for every frame.                                                *)
(*                                                                          *)
(* A train runs along its polylines, some of them backwards, at constant    *)
(* speed from its departure to its arrival.  The polyline and the line it   *)
(* is on are kept from frame to frame and searched forwards only; the ends  *)
(* of the line go to the GPU only if updatePosition says that they changed. *)
(* The simulated time may be set forwards and back between two frames.      *)
(*                                                                          *)
(* Lengths and times are integers here; a position is scaled by the train's *)
(* travel time, so that no fraction is lost.  Without travel time it is NaN, *)
(* which is on no line.  Sequences start at 1.                              *)
(***************************************************************************)
EXTENDS Integers, Sequences

CONSTANTS
  Trains,   \* trains: departure, arrival, and polylines of [fwd, lengths of lines]
  MaxTime,  \* bound on the simulated time
  NoTrain   \* no data yet; no line

ASSUME MotionAssumption ==
  /\ MaxTime \in Nat
  /\ NoTrain \notin Trains
  /\ \A t \in Trains :
       /\ t.departure \in Int /\ t.arrival \in Int
       /\ t.polylines \in Seq([fwd : BOOLEAN, lengths : Seq(Nat)]) /\ t.polylines # <<>>
       /\ \A k \in DOMAIN t.polylines : t.polylines[k].lengths # <<>>

VARIABLES
  train,     \* the train
  now,       \* the time of the last frame
  polyline,  \* currPolyline, 0 for null
  line,      \* currLine, 0 for null
  progress,  \* currProgress times length of the line and travel time
  buffer,    \* the ends of the line that the GPU was given, or NoTrain
  rewound    \* history: the time went back while the train was visible

motionVars == <<train, now, polyline, line, progress, buffer, rewound>>

\* The loops of preprocessPolyline and of the constructor of Train: the running
\* totals, from 0 before the first length to the sum behind the last.
Totals(lengths) ==
  LET total[i \in 0 .. Len(lengths)] ==
        IF i = 0 THEN 0 ELSE total[i - 1] + lengths[i]
  IN total

\* preprocessPolyline: p.totalLength, p.lineOffsets[i - 1].
TotalLength(p) == Totals(p.lengths)[Len(p.lengths)]
LineOffset(p, i) == Totals(p.lengths)[i - 1]

\* The constructor of Train: the offset of polyline k, and this.totalLength.
PolylineLengths(t) == [j \in 1 .. Len(t.polylines) |-> TotalLength(t.polylines[j])]
Offset(t, k) == Totals(PolylineLengths(t))[k - 1]
Route(t) == Offset(t, Len(t.polylines) + 1)

\* Mutant: a polyline that is passed backwards keeps its lines in forward order.
CurrLinePosForward(t, k, i) ==
  LET p == t.polylines[k]
  IN <<Offset(t, k) + LineOffset(p, i), p.lengths[i]>>

\* getCurrLinePos: where the line begins on the route, and its length.
CurrLinePos(t, k, i) ==
  LET p == t.polylines[k]
      idx == Len(p.lengths) + 1 - i
  IN IF p.fwd
     THEN <<Offset(t, k) + LineOffset(p, i), p.lengths[i]>>
     ELSE <<Offset(t, k) + TotalLength(p) - (LineOffset(p, idx) + p.lengths[idx]),
            p.lengths[idx]>>

\* getMercatorLine: the coordinates that the line connects, in the direction of travel.
MercatorLine(t, k, i) ==
  LET n == Len(t.polylines[k].lengths)
  IN IF t.polylines[k].fwd THEN <<k, i, i + 1>> ELSE <<k, n + 2 - i, n + 1 - i>>

\* updatePosition: this.totalLength * progress, times the travel time.
Duration(t) == t.arrival - t.departure
Pos(t, time) == (time - t.departure) * Route(t)
Visible(t, time) == time \in t.departure .. t.arrival

Within(t, pos, start, length) ==
  /\ Duration(t) # 0
  /\ pos >= start * Duration(t)
  /\ pos <= (start + length) * Duration(t)
OnLine(t, pos, k, i) ==
  Within(t, pos, CurrLinePos(t, k, i)[1], CurrLinePos(t, k, i)[2])
OnPolyline(t, pos, k) ==
  Within(t, pos, Offset(t, k), TotalLength(t.polylines[k]))

\* The loops of updateCurrPolyline and updateCurrLine: the first from here on that
\* fits, or the last one.
FirstOf(fitting, last) ==
  IF fitting = {} THEN last ELSE CHOOSE j \in fitting : \A l \in fitting : j <= l

Or1(i) == IF i = 0 THEN 1 ELSE i

NextPolyline(t, pos, k) ==
  LET last == Len(t.polylines)
  IN FirstOf({j \in Or1(k) .. last : OnPolyline(t, pos, j)}, last)

\* The line from which updateCurrLine searches: the first one of a polyline that
\* updateCurrPolyline found, otherwise the present one.
FirstLine(t, pos, k, next, i) ==
  IF next # Or1(k) /\ OnPolyline(t, pos, next) THEN 1 ELSE Or1(i)

\* A start behind the last line of the polyline ends at that line.
NextLine(t, pos, next, from) ==
  LET last == Len(t.polylines[next].lengths)
  IN FirstOf({j \in from .. last : OnLine(t, pos, next, j)}, last)

-----------------------------------------------------------------------------

MotionInit ==
  /\ train = NoTrain
  /\ now = 0
  /\ polyline = 0 /\ line = 0 /\ progress = 0
  /\ buffer = NoTrain
  /\ rewound = FALSE

\* Answers bring new Train objects: they have no position yet.
SetTrain(t) ==
  /\ train' = t
  /\ polyline' = 0 /\ line' = 0 /\ progress' = 0
  /\ buffer' = NoTrain
  /\ rewound' = FALSE
  /\ UNCHANGED now

\* updatePosition, not visible: the buffer is told if it was visible before.
Vanish(time) ==
  /\ ~Visible(train, time)
  /\ polyline' = 0 /\ line' = 0 /\ progress' = 0
  /\ buffer' = NoTrain
  /\ rewound' = FALSE

\* updatePosition, still on the same line: only the progress changes.
Glide(time) ==
  LET pos == Pos(train, time)
  IN /\ Visible(train, time)
     /\ polyline # 0 /\ OnLine(train, pos, polyline, line)
     /\ progress' = pos - CurrLinePos(train, polyline, line)[1] * Duration(train)
     /\ rewound' = (rewound \/ time < now)
     /\ UNCHANGED <<polyline, line, buffer>>

\* updatePosition, anything else: search the polyline and the line, write the buffer.
MoveOn(time) ==
  LET pos == Pos(train, time)
      next == NextPolyline(train, pos, polyline)
  IN /\ Visible(train, time)
     /\ ~(polyline # 0 /\ OnLine(train, pos, polyline, line))
     /\ polyline' = next
     /\ line' = NextLine(train, pos, next, FirstLine(train, pos, polyline, next, line))
     /\ progress' = pos - CurrLinePos(train, next, line')[1] * Duration(train)
     /\ buffer' = MercatorLine(train, next, line')
     /\ rewound' = (polyline # 0 /\ (rewound \/ time < now))

\* A frame at some later or, after setTimeOffset, earlier time.
Frame(time) ==
  /\ train # NoTrain
  /\ now' = time
  /\ Vanish(time) \/ Glide(time) \/ MoveOn(time)
  /\ UNCHANGED train

MotionNext ==
  \/ \E t \in Trains : SetTrain(t)
  \/ \E time \in 0 .. MaxTime : Frame(time)

MotionSpec == MotionInit /\ [][MotionNext]_motionVars

-----------------------------------------------------------------------------
(* Properties.                                                             *)

\* The distance of a coordinate from the start of the train's route.
Along(t, k, coordinate) ==
  LET p == t.polylines[k]
  IN Offset(t, k) + (IF p.fwd THEN LineOffset(p, coordinate)
                     ELSE TotalLength(p) - LineOffset(p, coordinate))

\* A visible train is drawn at the place of its route that its time says, between the
\* ends of the line in the GPU's buffer (writePositionToBuffer, writeProgressToBuffer),
\* whatever was skipped since the last frame.  It may be off its route after the time
\* went back while it was visible: updateCurrPolyline searches forwards only.
DrawnOnItsRoute ==
  polyline # 0 /\ ~rewound =>
    LET from == Along(train, buffer[1], buffer[2])
        to == Along(train, buffer[1], buffer[3])
    IN /\ from * Duration(train) + progress = Pos(train, now)
       /\ progress >= 0 /\ progress <= (to - from) * Duration(train)
=============================================================================
