------------------------------- MODULE RtView -------------------------------
(***************************************************************************)
(* What the realtime timetable of the nigiri module promises its readers,   *)
(* independent of timers, requests and copies: it changes only by whole     *)
(* rounds.  A round asks every endpoint once, after the previous round was  *)
(* published; it keeps what earlier rounds reported if updates are          *)
(* incremental and forgets it otherwise.                                    *)
(***************************************************************************)
EXTENDS Naturals

CONSTANTS Endpoints, MaxVersion

VARIABLES
  incremental,  \* whether rounds add to each other
  feed,         \* per endpoint: the latest realtime message it offers
  shown,        \* per endpoint: the messages in the published timetable
  asOf          \* what the endpoints offered when it was published

Versions == 1 .. MaxVersion

Nothing == [e \in Endpoints |-> {}]

Init ==
  /\ incremental \in BOOLEAN
  /\ feed = [e \in Endpoints |-> 0]
  /\ shown = Nothing
  /\ asOf = feed

Offer(e) ==
  /\ feed[e] < MaxVersion
  /\ feed' = [feed EXCEPT ![e] = @ + 1]
  /\ UNCHANGED <<incremental, shown, asOf>>

\* got[e] is empty when the endpoint failed or has nothing to offer yet.
Publish(got) ==
  /\ \A e \in Endpoints : \A v \in got[e] : asOf[e] <= v /\ v <= feed[e]
  /\ shown' = [e \in Endpoints |-> (IF incremental THEN shown[e] ELSE {}) \cup got[e]]
  /\ asOf' = feed
  /\ UNCHANGED <<incremental, feed>>

Answered == [Endpoints -> {{}} \cup {{v} : v \in Versions}]

Next == (\E e \in Endpoints : Offer(e)) \/ (\E got \in Answered : Publish(got))

Spec == Init /\ [][Next]_<<incremental, feed, shown, asOf>>
=============================================================================
