------------------------------ MODULE RtUpdate ------------------------------
(***************************************************************************)
(* Realtime updates of the timetable: update_gtfsrt and its state in        *)
(* modules/nigiri/src/nigiri.cc, run by the timer of                        *)
(* base/module/src/timer.cc.                                                *)
(*                                                                          *)
(* An update is an operation: it posts one request per endpoint, copies or  *)
(* creates a realtime timetable, waits for the answers, applies them to its *)
(* private copy and publishes that copy, first to the routing (rtt_), then  *)
(* to the RailViz.  The timer starts the next update after the interval,    *)
(* whether or not the last one has ended.  The endpoints are external: an   *)
(* answer holds the message that is current when the endpoint serves it, or *)
(* the request fails.                                                       *)
(***************************************************************************)
EXTENDS Naturals, FiniteSets

CONSTANTS
  Endpoints,    \* impl_->gtfsrt_
  Tasks,        \* update operations that may exist at a time
  MaxRunning,   \* bound on the updates that run at a time
  MaxVersion,   \* bound on the messages of an endpoint
  MaxFailures   \* bound on the failed requests

ASSUME RtUpdateAssumption ==
  /\ MaxVersion \in Nat /\ MaxFailures \in Nat
  /\ MaxRunning \in Nat \ {0}
  /\ IsFiniteSet(Tasks)

VARIABLES
  incremental,  \* gtfsrt_incremental_
  feed,         \* per endpoint: the latest message it offers
  failures,     \* requests that failed so far
  rtt,          \* per endpoint: the messages in *rtt_
  railviz,      \* the same for the timetable of railviz_
  asOf,         \* history: feed when rtt_ was last replaced
  booted,       \* the update that "/init" runs has ended
  pc,           \* per task: the step its update has reached
  copy,         \* per task: its private timetable
  body,         \* per task and endpoint: what val() returns, if anything yet
  overtaken,    \* history: tasks that took or stored a timetable before the last store
  raced         \* history: the last task to update the RailViz was overtaken

history == <<overtaken, raced>>

vars == <<incremental, feed, failures, rtt, railviz, asOf, booted, pc, copy, body, history>>

Versions == 1 .. MaxVersion
None == MaxVersion + 1
Failed == MaxVersion + 2

Nothing == [e \in Endpoints |-> {}]
NoBody == [e \in Endpoints |-> None]

\* rtt_ is an empty realtime timetable after the import (nigiri.cc:487).
Init ==
  /\ incremental \in BOOLEAN
  /\ feed = [e \in Endpoints |-> 0]
  /\ failures = 0
  /\ rtt = Nothing /\ railviz = Nothing
  /\ asOf = feed
  /\ booted = FALSE
  /\ pc = [t \in Tasks |-> "idle"]
  /\ copy = [t \in Tasks |-> Nothing]
  /\ body = [t \in Tasks |-> NoBody]
  /\ overtaken = {} /\ raced = FALSE

-----------------------------------------------------------------------------
(* The endpoints.                                                          *)

Offer(e) ==
  /\ feed[e] < MaxVersion
  /\ feed' = [feed EXCEPT ![e] = @ + 1]
  /\ UNCHANGED <<incremental, failures, rtt, railviz, asOf, booted, pc, copy, body, history>>

Waits(t, e) == pc[t] = "fetch" /\ body[t][e] = None

Serve(t, e) ==
  /\ Waits(t, e)
  /\ body' = [body EXCEPT ![t][e] = feed[e]]
  /\ UNCHANGED <<incremental, feed, failures, rtt, railviz, asOf, booted, pc, copy, history>>

Fail(t, e) ==
  /\ Waits(t, e) /\ failures < MaxFailures
  /\ failures' = failures + 1
  /\ body' = [body EXCEPT ![t][e] = Failed]
  /\ UNCHANGED <<incremental, feed, rtt, railviz, asOf, booted, pc, copy, history>>

-----------------------------------------------------------------------------
(* The timer and the update.                                               *)

Running == {t \in Tasks : pc[t] # "idle"}

\* Mutant: timer::exec does not schedule itself again.
TimerExecOnce(t) ==
  /\ pc[t] = "idle"
  /\ Running = {} /\ ~booted
  /\ pc' = [pc EXCEPT ![t] = "queued"]
  /\ UNCHANGED <<incremental, feed, failures, rtt, railviz, asOf, booted, copy, body, history>>

\* timer::exec enqueues the operation and schedules itself again at once.  The
\* first update is the one register_gtfsrt_timer calls; timers start after it.
TimerExec(t) ==
  /\ pc[t] = "idle"
  /\ Running = {} \/ (booted /\ Cardinality(Running) < MaxRunning)
  /\ pc' = [pc EXCEPT ![t] = "queued"]
  /\ UNCHANGED <<incremental, feed, failures, rtt, railviz, asOf, booted, copy, body, history>>

\* Mutant: every round starts from an empty timetable.
AlwaysNew == Nothing

\* The timetable the update starts from.
Base == IF incremental THEN rtt ELSE Nothing

\* update_gtfsrt up to its first val(): fetch every endpoint, then take a copy.
Begin(t) ==
  /\ pc[t] = "queued"
  /\ pc' = [pc EXCEPT ![t] = "fetch"]
  /\ copy' = [copy EXCEPT ![t] = Base]
  /\ body' = [body EXCEPT ![t] = NoBody]
  /\ overtaken' = overtaken \ {t}
  /\ UNCHANGED <<incremental, feed, failures, rtt, railviz, asOf, booted, raced>>

\* Mutant: a request that failed counts as a message.
GotOfFailed(t) == [e \in Endpoints |-> IF body[t][e] = 0 THEN {} ELSE {body[t][e]}]

\* gtfsrt_update_buf for each endpoint; a request or a parser that throws leaves
\* the endpoint out of this round.  Message 0 says nothing.
Got(t) == [e \in Endpoints |-> {body[t][e]} \cap Versions]

\* After the last val(): update_rtt.
Store(t) ==
  /\ pc[t] = "fetch" /\ \A e \in Endpoints : body[t][e] # None
  /\ pc' = [pc EXCEPT ![t] = "railviz"]
  /\ copy' = [copy EXCEPT ![t] = [e \in Endpoints |-> @[e] \cup Got(t)[e]]]
  /\ rtt' = copy'[t]
  /\ asOf' = feed
  /\ overtaken' = Running \ {t}
  /\ UNCHANGED <<incremental, feed, failures, railviz, booted, body, raced>>

\* Mutant: the RailViz gets the timetable as it was before the first update.
RailvizUpdateBase(t) ==
  /\ pc[t] = "railviz"
  /\ pc' = [pc EXCEPT ![t] = "idle"]
  /\ railviz' = IF booted THEN railviz ELSE copy[t]
  /\ booted' = TRUE
  /\ copy' = [copy EXCEPT ![t] = Nothing]
  /\ body' = [body EXCEPT ![t] = NoBody]
  /\ raced' = (t \in overtaken)
  /\ overtaken' = overtaken \ {t}
  /\ UNCHANGED <<incremental, feed, failures, rtt, asOf>>

\* railviz_->update, the end of the operation and of its futures and its copy.
RailvizUpdate(t) ==
  /\ pc[t] = "railviz"
  /\ pc' = [pc EXCEPT ![t] = "idle"]
  /\ railviz' = copy[t]
  /\ booted' = TRUE
  /\ copy' = [copy EXCEPT ![t] = Nothing]
  /\ body' = [body EXCEPT ![t] = NoBody]
  /\ raced' = (t \in overtaken)
  /\ overtaken' = overtaken \ {t}
  /\ UNCHANGED <<incremental, feed, failures, rtt, asOf>>

Update(t) == Begin(t) \/ Store(t) \/ RailvizUpdate(t)

Next ==
  \/ \E e \in Endpoints : Offer(e)
  \/ \E t \in Tasks : \/ TimerExec(t) \/ Update(t)
                      \/ \E e \in Endpoints : Serve(t, e) \/ Fail(t, e)

Spec == Init /\ [][Next]_vars

\* The timer fires, operations are run, and every request ends (net's client has
\* a timeout), so that one of its two outcomes comes.
FairSpec ==
  /\ Spec
  /\ WF_vars(\E t \in Tasks : TimerExec(t))
  /\ \A t \in Tasks : /\ WF_vars(Update(t))
                      /\ \A e \in Endpoints : WF_vars(Serve(t, e) \/ Fail(t, e))

-----------------------------------------------------------------------------
\* The types of the variables: only messages get into a timetable.
TypeOK ==
  /\ incremental \in BOOLEAN
  /\ feed \in [Endpoints -> 0 .. MaxVersion]
  /\ failures \in 0 .. MaxFailures
  /\ rtt \in [Endpoints -> SUBSET Versions]
  /\ railviz \in [Endpoints -> SUBSET Versions]
  /\ asOf \in [Endpoints -> 0 .. MaxVersion]
  /\ booted \in BOOLEAN
  /\ pc \in [Tasks -> {"idle", "queued", "fetch", "railviz"}]
  /\ copy \in [Tasks -> [Endpoints -> SUBSET Versions]]
  /\ body \in [Tasks -> [Endpoints -> 0 .. Failed]]
  /\ overtaken \subseteq Tasks /\ raced \in BOOLEAN

\* Updates may overlap.  Where the RailViz shows another timetable than routing,
\* the update that stored routing's has still to call railviz_->update, or the
\* RailViz was last updated by one that was overtaken between update_rtt and
\* railviz_->update: the two assignments are not atomic, so that two updates can
\* cross there, and nothing mends it before the next update.
RailvizFollows ==
  \/ railviz = rtt
  \/ \E t \in Tasks : pc[t] = "railviz" /\ t \notin overtaken
  \/ raced

\* Module RtView, with the published timetable as its state.
View == INSTANCE RtView WITH shown <- rtt

\* An update that was overtaken while it waited publishes what the update that
\* overtook it knows nothing of, and forgets what that one published.
PublishOvertaken ==
  \E t \in overtaken : pc[t] = "fetch" /\ pc'[t] = "railviz"

\* Every update but those that were overtaken publishes a whole round, later than
\* the last, whether or not updates overlap.
ViewSpec ==
  View!Init /\ [][View!Next \/ PublishOvertaken]_<<incremental, feed, rtt, asOf>>

\* What an endpoint offers is shown in the end, or something newer is, although
\* requests fail (a bounded number of times).
ShownInTheEnd ==
  \A e \in Endpoints, v \in Versions :
    feed[e] = v ~> \E w \in Versions : w >= v /\ w \in rtt[e]

\* nigiri.cc:152 describes gtfsrt_incremental by "true=incremental updates,
\* false=forget all prev. RT updates": with true, none is forgotten.
UpdatesKept ==
  [][incremental => \A e \in Endpoints : rtt[e] \subseteq rtt'[e]]_vars
=============================================================================
