----------------------------- MODULE BatchProofs -----------------------------
(***************************************************************************)
(* What module Batch promises for any query files and number of threads.    *)
(* That the batch does not stop too early rests on a fact about the slots:  *)
(* as long as the file has lines, the queries under way and the injections  *)
(* the running handler owes are 2 * num_threads_ together, so that the last *)
(* callback cannot be gone before the file is read.                         *)
(***************************************************************************)
EXTENDS Batch, FiniteSetTheorems, TLAPS

\* Each line read is either under way or has its one response.
LinesInv ==
  /\ outstanding \cap arrived = {}
  /\ \A l \in Unanswered : l < next
  /\ \A l \in Lines : written[l] = IF l < next /\ l \notin Unanswered THEN 1 ELSE 0
  /\ ~started => next = 1 /\ owed = 0 /\ Unanswered = {}

Slots ==
  /\ BoundedInFlight
  /\ started /\ next \in Lines => Cardinality(Unanswered) + owed = 2 * NumThreads

StopInv ==
  ios = "stopped" =>
    started /\ owed = 0 /\ (WellFormed => next \notin Lines /\ Unanswered = {})

Inv == TypeOK /\ LinesInv /\ Slots /\ CountsInFlight /\ StopInv

-----------------------------------------------------------------------------
\* The queries under way are finitely many, fewer than the counter can hold.
LEMMA FewLines ==
  ASSUME NEW f \in Files, NEW S \in SUBSET (1 .. Len(f))
  PROVE  /\ IsFiniteSet(S)
         /\ Cardinality(S) \in 0 .. MaxLen
         /\ Cardinality(S) = 0 <=> S = {}
<1>1. Len(f) \in Nat /\ Len(f) <= MaxLen /\ MaxLen \in Nat
  BY BatchAssumption DEF BatchAssumption
<1>2. IsFiniteSet(1 .. Len(f)) /\ Cardinality(1 .. Len(f)) = Len(f)
  <2>1. \A n \in Nat : IsFiniteSet(1 .. n) /\ Cardinality(1 .. n) = n
    BY FS_Interval
  <2> QED
    BY <1>1, <2>1
<1>3. IsFiniteSet(S) /\ Cardinality(S) <= Len(f)
  BY <1>2, FS_Subset
<1>4. Cardinality(S) \in Nat
  BY <1>3, FS_CardinalityType
<1>5. Cardinality(S) = 0 <=> S = {}
  BY <1>3, FS_EmptySet
<1>6. Cardinality(S) \in 0 .. MaxLen
  BY <1>1, <1>3, <1>4
<1> QED
  BY <1>3, <1>5, <1>6

LEMMA InitInv == Init => Inv
<1> SUFFICES ASSUME Init PROVE Inv
  OBVIOUS
<1> USE BatchAssumption DEF BatchAssumption, Init
<1>1. Len(file) \in Nat /\ Len(file) <= MaxLen
  OBVIOUS
<1>2. TypeOK
  <2>1. next \in 1 .. Len(file) + 1 /\ owed \in 0 .. 2 * NumThreads /\ in_flight \in 0 .. Wrap - 1
    BY <1>1
  <2>2. written \in [Positions -> Nat]
    OBVIOUS
  <2> QED
    BY <2>1, <2>2 DEF TypeOK
<1>3. Unanswered = {} /\ Cardinality(Unanswered) = 0
  BY FS_EmptySet DEF Unanswered
<1>4. LinesInv
  BY <1>1, <1>3 DEF LinesInv, Lines, Positions
<1>5. Slots
  BY <1>3 DEF Slots, BoundedInFlight
<1>6. CountsInFlight /\ StopInv
  BY <1>3 DEF CountsInFlight, StopInv
<1> QED
  BY <1>2, <1>4, <1>5, <1>6 DEF Inv

-----------------------------------------------------------------------------
LEMMA TypeStep == TypeOK /\ LinesInv /\ [Next]_vars => TypeOK'
<1> SUFFICES ASSUME TypeOK, LinesInv, [Next]_vars PROVE TypeOK'
  OBVIOUS
<1> USE BatchAssumption DEF BatchAssumption, TypeOK, Lines, Positions
<1>1. Len(file) \in Nat /\ Len(file) <= MaxLen
  OBVIOUS
<1>2. CASE Start
  BY <1>2 DEF Start
<1>3. CASE InjectQuery
  BY <1>1, <1>3 DEF InjectQuery, Reads
<1>4. CASE InjectInline
  BY <1>1, <1>4 DEF InjectInline, Reads, Write
<1>5. CASE InjectBad
  BY <1>1, <1>5 DEF InjectBad, Reads, Write, Decremented
<1>6. CASE InjectEof
  BY <1>6 DEF InjectEof
<1>7. CASE Destroy
  BY <1>7 DEF Destroy
<1>8. ASSUME NEW l \in Positions, Answer(l) PROVE TypeOK'
  BY <1>8 DEF Answer
<1>9. ASSUME NEW l \in Positions, OnResponse(l) PROVE TypeOK'
  BY <1>1, <1>9 DEF OnResponse, Write, Decremented, Idle
<1>10. CASE UNCHANGED vars
  BY <1>10 DEF vars
<1> QED
  BY <1>2, <1>3, <1>4, <1>5, <1>6, <1>7, <1>8, <1>9, <1>10 DEF Next, Inject

\* Each kind of step keeps the rest of the invariant.
LEMMA InvStep == Inv /\ [Next]_vars => Inv'
<1> SUFFICES ASSUME Inv, [Next]_vars PROVE Inv'
  OBVIOUS
<1> DEFINE n == Cardinality(Unanswered)
           N == 2 * NumThreads
<1>0. TypeOK /\ TypeOK'
  BY TypeStep DEF Inv
<1>1. /\ IsFiniteSet(Unanswered) /\ n \in Nat /\ n <= MaxLen /\ n < Wrap
      /\ n = 0 <=> Unanswered = {}
      /\ n' \in Nat /\ n' <= MaxLen
  <2>1. file \in Files /\ Unanswered \in SUBSET (1 .. Len(file))
    BY <1>0 DEF TypeOK, Unanswered, Lines
  <2>2. file' \in Files /\ Unanswered' \in SUBSET (1 .. Len(file'))
    BY <1>0 DEF TypeOK, Unanswered, Lines
  <2>3. n \in 0 .. MaxLen /\ n' \in 0 .. MaxLen
    BY <2>1, <2>2, FewLines
  <2> QED
    BY <2>1, <2>3, FewLines, BatchAssumption DEF BatchAssumption
<1>2. /\ MaxLen \in Nat /\ NumThreads \in Nat \ {0} /\ N \in Nat /\ N > 0
      /\ Wrap \in Nat /\ Wrap > MaxLen /\ Wrap > 1
  BY BatchAssumption DEF BatchAssumption
<1>3. Len(file) \in Nat /\ Len(file) <= MaxLen
  BY <1>0, BatchAssumption DEF BatchAssumption, TypeOK
<1>4. /\ next \in 1 .. Len(file) + 1 /\ owed \in Nat /\ in_flight \in 0 .. Wrap - 1
      /\ outstanding \subseteq Lines /\ arrived \subseteq Lines
      /\ written \in [Positions -> Nat] /\ Lines \subseteq Positions
  BY <1>0, <1>2, <1>3 DEF TypeOK, Lines, Positions
<1>5. LinesInv /\ Slots /\ CountsInFlight /\ StopInv
  BY DEF Inv
<1> USE DEF BoundedInFlight
<1> SUFFICES LinesInv' /\ Slots' /\ CountsInFlight' /\ StopInv'
  BY <1>0 DEF Inv
<1>6. CASE Start
  <2>1. UNCHANGED <<file, next, in_flight, outstanding, arrived, written, ios>> /\ ~started
        /\ started' /\ owed' = N /\ ios = "running"
    BY <1>6 DEF Start
  <2>2. Unanswered' = Unanswered /\ Lines' = Lines /\ WellFormed' = WellFormed /\ Unanswered = {}
        /\ n' = n /\ n = 0
    BY <2>1, <1>5, <1>1 DEF Unanswered, Lines, WellFormed, LinesInv
  <2>3. LinesInv' /\ StopInv'
    BY <2>1, <2>2, <1>5 DEF LinesInv, StopInv
  <2>4. Slots'
    BY <2>1, <2>2, <1>2 DEF Slots
  <2>5. CountsInFlight'
    BY <2>1, <2>2, <1>5 DEF CountsInFlight
  <2> QED BY <2>3, <2>4, <2>5
<1>7. CASE InjectQuery
  <2>1. /\ owed > 0 /\ next \in Lines /\ next' = next + 1 /\ owed' = owed - 1
        /\ in_flight' = (in_flight + 1) % Wrap /\ outstanding' = outstanding \cup {next}
        /\ UNCHANGED <<file, started, arrived, written, ios>>
    BY <1>7 DEF InjectQuery, Reads
  <2>2. next \notin Unanswered /\ started /\ next \in Nat /\ ios # "stopped"
    BY <2>1, <1>4, <1>5 DEF LinesInv, StopInv, Unanswered
  <2>3. Unanswered' = Unanswered \cup {next} /\ Lines' = Lines /\ WellFormed' = WellFormed
    BY <2>1 DEF Unanswered, Lines, WellFormed
  <2>4. n' = n + 1
    BY <2>2, <2>3, <1>1, FS_AddElement
  <2>5. LinesInv'
    <3>1. outstanding' \cap arrived' = {}
      BY <2>1, <2>2, <1>5 DEF LinesInv, Unanswered
    <3>2. \A l \in Unanswered' : l < next'
      BY <2>1, <2>2, <2>3, <1>4, <1>5 DEF LinesInv, Unanswered, Lines
    <3>3. \A l \in Lines' : written'[l] = IF l < next' /\ l \notin Unanswered' THEN 1 ELSE 0
      BY <2>1, <2>2, <2>3, <1>4, <1>5 DEF LinesInv, Lines
    <3> QED BY <3>1, <3>2, <3>3, <2>1, <2>2 DEF LinesInv
  <2>6. Slots'
    <3>1. n + owed = N
      BY <2>1, <2>2, <1>5 DEF Slots
    <3> QED BY <3>1, <2>1, <2>4, <1>1, <1>4 DEF Slots
  <2>7. CountsInFlight'
    <3>1. WellFormed => in_flight = n
      BY <1>5 DEF CountsInFlight
    <3>2. n + 1 < Wrap
      BY <2>4, <1>1, <1>2
    <3> QED BY <3>1, <3>2, <2>1, <2>3, <2>4, <1>1, <1>2 DEF CountsInFlight
  <2>8. StopInv'
    BY <2>1, <2>2 DEF StopInv
  <2> QED BY <2>5, <2>6, <2>7, <2>8
<1>8. CASE InjectInline \/ InjectBad
  <2>1. /\ owed > 0 /\ next \in Lines /\ next' = next + 1 /\ Write(next)
        /\ UNCHANGED <<file, owed, started, outstanding, arrived, ios>>
        /\ WellFormed => in_flight' = in_flight
    BY <1>8 DEF InjectInline, InjectBad, Reads, WellFormed
  <2>2. next \notin Unanswered /\ started /\ next \in Nat /\ ios # "stopped"
    BY <2>1, <1>4, <1>5 DEF LinesInv, StopInv, Unanswered
  <2>3. Unanswered' = Unanswered /\ Lines' = Lines /\ WellFormed' = WellFormed /\ n' = n
    BY <2>1 DEF Unanswered, Lines, WellFormed
  <2>4. LinesInv'
    <3>1. \A l \in Unanswered' : l < next'
      BY <2>1, <2>2, <2>3, <1>4, <1>5 DEF LinesInv, Unanswered, Lines
    <3>2. \A l \in Lines' : written'[l] = IF l < next' /\ l \notin Unanswered' THEN 1 ELSE 0
      BY <2>1, <2>2, <2>3, <1>4, <1>5 DEF LinesInv, Lines, Write
    <3> QED BY <3>1, <3>2, <2>1, <2>2, <1>5 DEF LinesInv
  <2>5. Slots'
    BY <2>1, <2>2, <2>3, <1>5 DEF Slots
  <2>6. CountsInFlight' /\ StopInv'
    BY <2>1, <2>2, <2>3, <1>5 DEF CountsInFlight, StopInv
  <2> QED BY <2>4, <2>5, <2>6
<1>9. CASE InjectEof
  <2>1. /\ owed > 0 /\ next \notin Lines /\ owed' = 0
        /\ ios' = IF in_flight = 0 THEN "stopped" ELSE ios
        /\ UNCHANGED <<file, next, started, in_flight, outstanding, arrived, written>>
    BY <1>9 DEF InjectEof
  <2>2. Unanswered' = Unanswered /\ Lines' = Lines /\ WellFormed' = WellFormed /\ n' = n
    BY <2>1 DEF Unanswered, Lines, WellFormed
  <2>3. started /\ ios # "stopped"
    BY <2>1, <1>5 DEF LinesInv, StopInv
  <2>4. LinesInv' /\ CountsInFlight'
    BY <2>1, <2>2, <2>3, <1>5 DEF LinesInv, CountsInFlight
  <2>5. Slots'
    BY <2>1, <2>2, <1>1, <1>2, <1>4, <1>5 DEF Slots
  <2>6. StopInv'
    BY <2>1, <2>2, <2>3, <1>1, <1>5 DEF StopInv, CountsInFlight
  <2> QED BY <2>4, <2>5, <2>6
<1>10. CASE Destroy
  <2>1. /\ started /\ owed = 0 /\ outstanding = {} /\ arrived = {} /\ ios' = "stopped"
        /\ UNCHANGED <<file, next, owed, started, in_flight, outstanding, arrived, written>>
    BY <1>10 DEF Destroy, Idle
  <2>2. Unanswered' = Unanswered /\ Lines' = Lines /\ WellFormed' = WellFormed /\ n' = n
        /\ Unanswered = {}
    BY <2>1 DEF Unanswered, Lines, WellFormed
  <2>3. next \notin Lines
    <3>1. n + owed = 0 /\ N # 0
      BY <2>1, <2>2, <1>1, <1>2
    <3> QED BY <3>1, <2>1, <1>5 DEF Slots
  <2>4. LinesInv' /\ CountsInFlight' /\ Slots'
    BY <2>1, <2>2, <1>5 DEF LinesInv, CountsInFlight, Slots
  <2>5. StopInv'
    BY <2>1, <2>2, <2>3 DEF StopInv
  <2> QED BY <2>4, <2>5
<1>11. ASSUME NEW l \in Positions, Answer(l) PROVE LinesInv' /\ Slots' /\ CountsInFlight' /\ StopInv'
  <2>1. /\ l \in outstanding /\ outstanding' = outstanding \ {l} /\ arrived' = arrived \cup {l}
        /\ UNCHANGED <<file, next, owed, started, in_flight, written, ios>>
    BY <1>11 DEF Answer
  <2>2. Unanswered' = Unanswered /\ Lines' = Lines /\ WellFormed' = WellFormed /\ n' = n
    BY <2>1 DEF Unanswered, Lines, WellFormed
  <2>3. outstanding' \cap arrived' = {}
    BY <2>1, <1>5 DEF LinesInv
  <2> QED
    BY <2>1, <2>2, <2>3, <1>5 DEF LinesInv, Slots, CountsInFlight, StopInv
<1>12. ASSUME NEW l \in Positions, OnResponse(l) PROVE LinesInv' /\ Slots' /\ CountsInFlight' /\ StopInv'
  <2>1. /\ l \in arrived /\ arrived' = arrived \ {l} /\ in_flight' = Decremented /\ Write(l)
        /\ owed = 0 /\ owed' = 1 /\ started /\ ios = "running"
        /\ UNCHANGED <<file, next, started, outstanding, ios>>
    BY <1>12 DEF OnResponse, Idle
  <2>2. l \in Unanswered /\ l \in Lines /\ l < next /\ written[l] = 0
    BY <2>1, <1>4, <1>5 DEF Unanswered, LinesInv
  <2>3. Unanswered' = Unanswered \ {l} /\ Lines' = Lines /\ WellFormed' = WellFormed
    BY <2>1, <1>5 DEF Unanswered, Lines, WellFormed, LinesInv
  <2>4. n' = n - 1 /\ n >= 1
    <3>1. Cardinality(Unanswered \ {l}) = n - 1
      BY <2>2, <1>1, FS_RemoveElement
    <3>2. n # 0
      BY <2>2, <1>1
    <3> QED BY <3>1, <3>2, <2>3, <1>1
  <2>5. LinesInv'
    <3>1. outstanding' \cap arrived' = {}
      BY <2>1, <1>5 DEF LinesInv
    <3>2. \A k \in Unanswered' : k < next'
      BY <2>1, <2>3, <1>5 DEF LinesInv
    <3>3. \A k \in Lines' : written'[k] = IF k < next' /\ k \notin Unanswered' THEN 1 ELSE 0
      BY <2>1, <2>2, <2>3, <1>4, <1>5 DEF LinesInv, Write
    <3> QED BY <3>1, <3>2, <3>3, <2>1 DEF LinesInv
  <2>6. Slots'
    BY <2>1, <2>3, <2>4, <1>1, <1>4, <1>5 DEF Slots
  <2>7. CountsInFlight'
    <3>1. WellFormed => in_flight = n
      BY <1>5 DEF CountsInFlight
    <3>2. WellFormed => in_flight' = n - 1
      BY <3>1, <2>1, <2>4, <1>1, <1>2 DEF Decremented
    <3> QED BY <3>2, <2>3, <2>4 DEF CountsInFlight
  <2>8. StopInv'
    BY <2>1 DEF StopInv
  <2> QED BY <2>5, <2>6, <2>7, <2>8
<1>13. CASE UNCHANGED vars
  <2>1. Unanswered' = Unanswered /\ Lines' = Lines /\ WellFormed' = WellFormed /\ n' = n
    BY <1>13 DEF Unanswered, Lines, WellFormed, vars
  <2> QED
    BY <1>13, <2>1, <1>5 DEF LinesInv, Slots, CountsInFlight, StopInv, vars
<1> QED
  BY <1>6, <1>7, <1>8, <1>9, <1>10, <1>11, <1>12, <1>13 DEF Next, Inject

LEMMA InvCorrect == Spec => []Inv
  BY InitInv, InvStep, PTL DEF Spec

\* Type correctness: the unsigned counter stays in its range, and no handler
\* owes more injections than start.
THEOREM TypeCorrect == Spec => []TypeOK
<1>1. Inv => TypeOK
  BY DEF Inv
<1> QED BY <1>1, InvCorrect, PTL

\* The receiver never has more than 2 * num_threads_ queries, for any file.
THEOREM BoundedInFlightCorrect == Spec => []BoundedInFlight
<1>1. Inv => BoundedInFlight
  BY DEF Inv, Slots
<1> QED BY <1>1, InvCorrect, PTL

\* Without malformed lines in_flight_ counts the queries under way.
THEOREM CountsInFlightCorrect == Spec => []CountsInFlight
<1>1. Inv => CountsInFlight
  BY DEF Inv
<1> QED BY <1>1, InvCorrect, PTL

\* Without malformed lines the io_service is stopped only when every line has
\* its one response, be it at the end of the file or by the destructor.
THEOREM StopsWhenAnsweredCorrect == Spec => []StopsWhenAnswered
<1>1. Inv => StopsWhenAnswered
  <2> SUFFICES ASSUME Inv, WellFormed, ios = "stopped", NEW l \in Lines PROVE written[l] = 1
    BY DEF StopsWhenAnswered, AllAnsweredAtStop
  <2>1. next \notin Lines /\ Unanswered = {}
    BY DEF Inv, StopInv
  <2>2. next \in 1 .. Len(file) + 1 /\ Len(file) \in Nat
    BY BatchAssumption DEF Inv, TypeOK, BatchAssumption
  <2>3. l < next
    BY <2>1, <2>2 DEF Lines
  <2> QED
    BY <2>1, <2>3 DEF Inv, LinesInv
<1> QED BY <1>1, InvCorrect, PTL
=============================================================================
