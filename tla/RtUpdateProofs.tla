--------------------------- MODULE RtUpdateProofs ---------------------------
(***************************************************************************)
(* For any endpoints and tasks, and however many updates overlap: every     *)
(* update that was not overtaken publishes a whole round of module RtView,  *)
(* and the RailViz follows.  The invariant says that an update that was not *)
(* overtaken works on a copy of the published timetable, with answers       *)
(* served since that timetable was published, and that one that is about to *)
(* update the RailViz holds the published timetable.                        *)
(***************************************************************************)
EXTENDS RtUpdate, TLAPS

Fresh(t) ==
  /\ pc[t] = "fetch" => copy[t] = Base
  /\ pc[t] = "fetch" =>
       \A e \in Endpoints : body[t][e] \in Versions => asOf[e] <= body[t][e] /\ body[t][e] <= feed[e]
  /\ pc[t] = "railviz" => copy[t] = rtt

AsOfInv == \A e \in Endpoints : asOf[e] <= feed[e]

Inv ==
  /\ TypeOK /\ AsOfInv
  /\ \A t \in Tasks : t \notin overtaken => Fresh(t)
  /\ RailvizFollows

-----------------------------------------------------------------------------
LEMMA TypeInit == Init => TypeOK
<1> SUFFICES ASSUME Init PROVE TypeOK
  OBVIOUS
<1> USE RtUpdateAssumption DEF RtUpdateAssumption
<1>1. Nothing \in [Endpoints -> SUBSET Versions] BY DEF Nothing
<1>2. NoBody \in [Endpoints -> 0 .. Failed] BY DEF NoBody, None, Failed
<1>3. feed \in [Endpoints -> 0 .. MaxVersion] /\ asOf = feed BY DEF Init
<1>4. failures \in 0 .. MaxFailures BY DEF Init
<1>5. incremental \in BOOLEAN /\ booted \in BOOLEAN BY Zenon DEF Init
<1>6. rtt \in [Endpoints -> SUBSET Versions] /\ railviz \in [Endpoints -> SUBSET Versions]
  BY <1>1 DEF Init
<1>8. overtaken \subseteq Tasks BY DEF Init
<1>9. raced \in BOOLEAN BY Zenon DEF Init
<1>7. /\ pc \in [Tasks -> {"idle", "queued", "fetch", "railviz"}]
      /\ copy \in [Tasks -> [Endpoints -> SUBSET Versions]]
      /\ body \in [Tasks -> [Endpoints -> 0 .. Failed]]
  BY <1>1, <1>2 DEF Init
<1> QED BY <1>3, <1>4, <1>6, <1>7, <1>5, <1>8, <1>9 DEF TypeOK

LEMMA TypeStep == TypeOK /\ [Next]_vars => TypeOK'
<1> SUFFICES ASSUME TypeOK, [Next]_vars PROVE TypeOK'
  OBVIOUS
<1> USE RtUpdateAssumption DEF RtUpdateAssumption, TypeOK, history
<1>1. ASSUME NEW e \in Endpoints, Offer(e) PROVE TypeOK'
  BY <1>1 DEF Offer
<1>2. ASSUME NEW t \in Tasks, TimerExec(t) PROVE TypeOK'
  BY <1>2 DEF TimerExec
<1>3. ASSUME NEW t \in Tasks, Update(t) PROVE TypeOK'
  <2>1. CASE Begin(t)
    <3>1. Base \in [Endpoints -> SUBSET Versions] BY DEF Base, Nothing
    <3>2. NoBody \in [Endpoints -> 0 .. Failed] BY DEF NoBody, None, Failed
    <3> QED BY <2>1, <3>1, <3>2 DEF Begin
  <2>2. CASE Store(t)
    <3>1. [e \in Endpoints |-> copy[t][e] \cup Got(t)[e]] \in [Endpoints -> SUBSET Versions]
      BY DEF Got
    <3>2. copy' = [copy EXCEPT ![t] = [e \in Endpoints |-> copy[t][e] \cup Got(t)[e]]]
      BY <2>2 DEF Store
    <3>3. copy' \in [Tasks -> [Endpoints -> SUBSET Versions]] BY <3>1, <3>2
    <3>4. overtaken' \subseteq Tasks BY <2>2 DEF Store, Running
    <3> QED BY <2>2, <3>3, <3>4 DEF Store
  <2>3. CASE RailvizUpdate(t)
    <3>1. Nothing \in [Endpoints -> SUBSET Versions] BY DEF Nothing
    <3>2. NoBody \in [Endpoints -> 0 .. Failed] BY DEF NoBody, None, Failed
    <3>3. raced' \in BOOLEAN
      <4>1. raced' = (t \in overtaken) BY <2>3 DEF RailvizUpdate
      <4> QED BY <4>1
    <3> QED BY <2>3, <3>1, <3>2, <3>3 DEF RailvizUpdate
  <2> QED BY <1>3, <2>1, <2>2, <2>3 DEF Update
<1>4. ASSUME NEW t \in Tasks, NEW e \in Endpoints, Serve(t, e) \/ Fail(t, e) PROVE TypeOK'
  <2>1. CASE Serve(t, e)
    <3>1. feed[e] \in 0 .. Failed BY DEF Failed
    <3> QED BY <2>1, <3>1 DEF Serve
  <2>2. CASE Fail(t, e) BY <2>2 DEF Fail, Failed
  <2> QED BY <1>4, <2>1, <2>2
<1>5. CASE UNCHANGED vars BY <1>5 DEF vars
<1> QED BY <1>1, <1>2, <1>3, <1>4, <1>5 DEF Next

\* The variables of module RtUpdate only ever hold values of their types.
THEOREM TypeCorrect == Spec => []TypeOK
  BY TypeInit, TypeStep, PTL DEF Spec

-----------------------------------------------------------------------------
LEMMA InvInit == Init => Inv
<1> SUFFICES ASSUME Init PROVE Inv
  OBVIOUS
<1>1. TypeOK BY TypeInit
<1> QED BY <1>1 DEF Init, Inv, AsOfInv, Fresh, RailvizFollows, TypeOK

LEMMA InvStep == Inv /\ [Next]_vars => Inv'
<1> SUFFICES ASSUME Inv, [Next]_vars PROVE Inv'
  OBVIOUS
<1>0. TypeOK' BY TypeStep DEF Inv
<1> USE RtUpdateAssumption DEF RtUpdateAssumption, Inv, TypeOK, AsOfInv, Fresh, RailvizFollows, history
<1>1. ASSUME NEW e \in Endpoints, Offer(e) PROVE Inv'
  <2>1. \A f \in Endpoints : feed'[f] >= feed[f] /\ feed'[f] \in Nat BY <1>1 DEF Offer
  <2>2. UNCHANGED <<incremental, rtt, railviz, asOf, pc, copy, body, overtaken, raced>> BY <1>1 DEF Offer
  <2>3. \A f \in Endpoints, t \in Tasks : feed[f] \in Nat /\ asOf[f] \in Nat /\ body[t][f] \in Nat
    OBVIOUS
  <2> QED BY <1>0, <2>1, <2>2, <2>3 DEF Base, Nothing, Versions
<1>2. ASSUME NEW t \in Tasks, TimerExec(t) PROVE Inv'
  <2>1. pc' = [pc EXCEPT ![t] = "queued"] /\ pc[t] = "idle"
    BY <1>2 DEF TimerExec
  <2>2. UNCHANGED <<incremental, feed, rtt, railviz, asOf, copy, body, overtaken, raced>>
    BY <1>2 DEF TimerExec
  <2>3. Base' = Base BY <2>2 DEF Base, Nothing
  <2> QED BY <1>0, <2>1, <2>2, <2>3
<1>3. ASSUME NEW t \in Tasks, Begin(t) PROVE Inv'
  <2>1. body'[t] = NoBody /\ copy'[t] = Base /\ Base' = Base BY <1>3 DEF Begin, Base, Nothing
  <2>2. \A e \in Endpoints : body'[t][e] \notin Versions BY <2>1 DEF NoBody, None, Versions
  <2>3. UNCHANGED <<rtt, railviz, asOf, feed, raced>> /\ overtaken' = overtaken \ {t} /\ pc[t] = "queued"
    BY <1>3 DEF Begin
  <2>4. \A u \in Tasks \ {t} : pc'[u] = pc[u] /\ copy'[u] = copy[u] /\ body'[u] = body[u]
    BY <1>3 DEF Begin
  <2>5. pc'[t] = "fetch" BY <1>3 DEF Begin
  <2>6. ASSUME NEW u \in Tasks, u \notin overtaken' PROVE Fresh(u)'
    <3>1. CASE u = t BY <3>1, <2>1, <2>2, <2>5
    <3>2. CASE u # t BY <3>2, <2>1, <2>3, <2>4, <2>6
    <3> QED BY <3>1, <3>2
  <2>7. RailvizFollows' BY <2>3, <2>4
  <2> QED BY <1>0, <2>3, <2>6, <2>7
<1>4. ASSUME NEW t \in Tasks, Store(t) PROVE Inv'
  <2>1. rtt' = copy'[t] /\ pc' = [pc EXCEPT ![t] = "railviz"] /\ asOf' = feed /\ UNCHANGED feed
    BY <1>4 DEF Store
  <2>2. overtaken' = Running \ {t} BY <1>4 DEF Store
  <2>3. ASSUME NEW u \in Tasks, u \notin overtaken' PROVE Fresh(u)'
    <3>1. CASE u = t BY <3>1, <2>1
    <3>2. CASE u # t
      <4>1. pc'[u] = "idle" BY <3>2, <2>1, <2>2, <2>3 DEF Running
      <4> QED BY <4>1
    <3> QED BY <3>1, <3>2
  <2>4. pc'[t] = "railviz" /\ t \notin overtaken' BY <2>1, <2>2
  <2>5. \A e \in Endpoints : feed[e] \in Nat OBVIOUS
  <2> QED BY <1>0, <2>1, <2>3, <2>4, <2>5
<1>5. ASSUME NEW t \in Tasks, RailvizUpdate(t) PROVE Inv'
  <2>1. UNCHANGED <<incremental, feed, rtt, asOf>> /\ overtaken' = overtaken \ {t}
    BY <1>5 DEF RailvizUpdate
  <2>2. \A u \in Tasks \ {t} : pc'[u] = pc[u] /\ copy'[u] = copy[u] /\ body'[u] = body[u]
    BY <1>5 DEF RailvizUpdate
  <2>3. pc'[t] = "idle" /\ Base' = Base BY <1>5 DEF RailvizUpdate, Base, Nothing
  <2>4. ASSUME NEW u \in Tasks, u \notin overtaken' PROVE Fresh(u)'
    <3>1. CASE u = t BY <3>1, <2>3
    <3>2. CASE u # t BY <3>2, <2>1, <2>2, <2>3, <2>4
    <3> QED BY <3>1, <3>2
  <2>5. CASE t \in overtaken
    <3>1. raced' BY <1>5, <2>5 DEF RailvizUpdate
    <3> QED BY <1>0, <2>1, <2>4, <3>1
  <2>6. CASE t \notin overtaken
    <3>1. railviz' = rtt' BY <1>5, <2>6 DEF RailvizUpdate
    <3> QED BY <1>0, <2>1, <2>4, <3>1
  <2> QED BY <2>5, <2>6
<1>6. ASSUME NEW t \in Tasks, NEW e \in Endpoints, Serve(t, e) PROVE Inv'
  <2>1. Base' = Base /\ UNCHANGED <<rtt, railviz, pc, copy, asOf, feed, overtaken, raced>>
    BY <1>6 DEF Serve, Base, Nothing
  <2>2. body' = [body EXCEPT ![t][e] = feed[e]] BY <1>6 DEF Serve
  <2>3. ASSUME NEW u \in Tasks, u \notin overtaken, NEW f \in Endpoints,
               pc[u] = "fetch", body'[u][f] \in Versions
        PROVE  asOf[f] <= body'[u][f] /\ body'[u][f] <= feed[f]
    <3>1. CASE u = t /\ f = e
      <4>1. body'[u][f] = feed[e] BY <2>2, <3>1
      <4> QED BY <3>1, <4>1
    <3>2. CASE ~(u = t /\ f = e)
      <4>1. body'[u][f] = body[u][f] BY <2>2, <3>2
      <4> QED BY <2>3, <4>1
    <3> QED BY <3>1, <3>2
  <2> QED BY <1>0, <2>1, <2>3
<1>7. ASSUME NEW t \in Tasks, NEW e \in Endpoints, Fail(t, e) PROVE Inv'
  <2>1. Base' = Base /\ UNCHANGED <<rtt, railviz, pc, copy, asOf, feed, overtaken, raced>>
    BY <1>7 DEF Fail, Base, Nothing
  <2>2. body' = [body EXCEPT ![t][e] = Failed] BY <1>7 DEF Fail
  <2>3. ASSUME NEW u \in Tasks, u \notin overtaken, NEW f \in Endpoints,
               pc[u] = "fetch", body'[u][f] \in Versions
        PROVE  asOf[f] <= body'[u][f] /\ body'[u][f] <= feed[f]
    <3>1. body'[u][f] = body[u][f] BY <2>2, <2>3 DEF Failed, Versions
    <3> QED BY <2>3, <3>1
  <2> QED BY <1>0, <2>1, <2>3
<1>8. CASE UNCHANGED vars BY <1>0, <1>8 DEF vars, Base, Nothing
<1> QED BY <1>1, <1>2, <1>3, <1>4, <1>5, <1>6, <1>7, <1>8 DEF Next, Update

-----------------------------------------------------------------------------
\* Overlapping updates included, the RailViz shows routing's timetable, or the
\* update that stored it has still to call the RailViz, or two crossed there.
THEOREM RailvizFollowsCorrect == Spec => []RailvizFollows
<1>1. Inv => RailvizFollows BY DEF Inv
<1> QED BY <1>1, InvStep, InvInit, PTL DEF Spec

\* Every step of an update maps to a round of the abstract view or a stutter,
\* unless the update was overtaken and publishes now.
LEMMA ViewStep ==
  Inv /\ [Next]_vars => [View!Next \/ PublishOvertaken]_<<incremental, feed, rtt, asOf>>
<1> SUFFICES ASSUME Inv, [Next]_vars
             PROVE  View!Next \/ PublishOvertaken \/ UNCHANGED <<incremental, feed, rtt, asOf>>
  OBVIOUS
<1> USE DEF Inv, TypeOK
<1>1. ASSUME NEW e \in Endpoints, Offer(e) PROVE View!Next
  BY <1>1 DEF Offer, View!Next, View!Offer
<1>2. ASSUME NEW t \in Tasks, Store(t), t \notin overtaken PROVE View!Next
  <2>1. Got(t) \in View!Answered
    BY DEF Got, View!Answered, View!Versions, Versions
  <2>2. \A e \in Endpoints : \A v \in Got(t)[e] : asOf[e] <= v /\ v <= feed[e]
    BY <1>2 DEF Got, Fresh, Store
  <2>3. copy[t] = Base BY <1>2 DEF Store, Fresh
  <2>4. rtt' = [e \in Endpoints |-> copy[t][e] \cup Got(t)[e]] BY <1>2 DEF Store
  <2>5. rtt' = [e \in Endpoints |-> (IF incremental THEN rtt[e] ELSE {}) \cup Got(t)[e]]
    BY <2>3, <2>4 DEF Base, Nothing
  <2>6. View!Publish(Got(t)) BY <1>2, <2>2, <2>5 DEF Store, View!Publish
  <2> QED BY <2>1, <2>6 DEF View!Next
<1>3. ASSUME NEW t \in Tasks, Store(t), t \in overtaken PROVE PublishOvertaken
  BY <1>3 DEF Store, PublishOvertaken
<1>4. CASE UNCHANGED vars BY <1>4 DEF vars
<1> QED BY <1>1, <1>2, <1>3, <1>4
    DEF Next, Update, TimerExec, Begin, RailvizUpdate, Serve, Fail

\* Every update that was not overtaken publishes a whole round: it asks all
\* endpoints after the last was published and, if incremental, forgets nothing.
THEOREM Refinement == Spec => ViewSpec
<1>1. Init => View!Init BY DEF Init, View!Init, Nothing, View!Nothing
<1> QED BY <1>1, InvStep, ViewStep, InvInit, PTL DEF Spec, ViewSpec
=============================================================================
