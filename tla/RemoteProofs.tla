---------------------------- MODULE RemoteProofs ----------------------------
(***************************************************************************)
(* What module Remote promises for any set of peers, operations and calls.  *)
(* CallNotLost and OneAnswerOfAKind are not inductive: whether a call is    *)
(* still filed depends on the state of its timer and on the answers it has  *)
(* had.  CallInv relates the four; Inv is the inductive invariant.          *)
(***************************************************************************)
EXTENDS Remote, FiniteSetTheorems, TLAPS

\* A call that was never sent left no trace; one that was sent is filed in
\* both maps or in none, and what its timer did follows from its answers.
Unsent(c) ==
  /\ c \notin pending /\ c \notin timeouts /\ c \notin wire
  /\ timer[c] = "none"
  /\ replies[c]["result"] = 0 /\ replies[c]["timeout"] = 0
  /\ replies[c]["no_target"] = IF where[c] = "refused" THEN 1 ELSE 0

Sent(c) ==
  /\ replies[c]["no_target"] = 0
  /\ replies[c]["result"] \in {0, 1} /\ replies[c]["timeout"] \in {0, 1}
  /\ c \in pending <=> c \in timeouts
  /\ c \in wire => replies[c]["result"] = 0
  /\ timer[c] # "none"
  /\ timer[c] # "fired" => c \in pending /\ replies[c]["timeout"] = 0
  /\ timer[c] = "fired" /\ c \in pending => replies[c]["timeout"] = 1
  /\ timer[c] = "armed" => replies[c]["result"] = 0
  /\ timer[c] = "aborted" \/ (timer[c] = "fired" /\ c \notin pending)
       => replies[c]["result"] = 1 \/ stopped[at[c]]

CallInv ==
  \A c \in Calls :
    /\ where[c] \in {"posted", "sent", "dropped"} => at[c] \in Remotes
    /\ where[c] = "sent" => Sent(c)
    /\ where[c] # "sent" => Unsent(c)

\* The restart timer waits only after a failure, so that it never replaces the
\* connection of a link that has registered names.
RestartInv == \A r \in Remotes : restart[r] => ws[r] = "failed"

Inv == TypeOK /\ RegistryOwned /\ RestartInv /\ CallInv

-----------------------------------------------------------------------------
\* The type invariant holds initially and every step keeps it.
LEMMA TypeInit == Init => TypeOK
<1> SUFFICES ASSUME Init PROVE TypeOK
  OBVIOUS
<1>1. Cardinality(Remotes) \in Nat /\ Cardinality(Remotes) # 0
  BY RemoteAssumption, FS_CardinalityType, FS_EmptySet DEF RemoteAssumption
<1>2. connected_remotes \in 0 .. Wrap - 1
  BY <1>1, RemoteAssumption DEF Init, RemoteAssumption
<1> QED BY <1>2 DEF Init, TypeOK, WsState, WhereState, TimerState, Answers

LEMMA TypeStep == TypeOK /\ [Next]_vars => TypeOK'
<1> SUFFICES ASSUME TypeOK, [Next]_vars PROVE TypeOK'
  OBVIOUS
<1> USE RemoteAssumption DEF RemoteAssumption, TypeOK, WsState, WhereState, TimerState, Answers,
      link, ready, request, vars
<1>1. ASSUME NEW r \in Remotes, LinkNext(r) PROVE TypeOK'
  <2>1. CASE ConnectOk(r) BY <2>1 DEF ConnectOk
  <2>2. CASE ConnectRefused(r) BY <2>2 DEF ConnectRefused
  <2>3. CASE Restart(r) BY <2>3 DEF Restart
  <2>4. CASE ApiDescription(r)
    <3>1. connected_remotes' \in 0 .. Wrap - 1 BY <2>4 DEF ApiDescription, AfterRegister
    <3>2. methods' \in [Remotes -> SUBSET Ops]
      <4>1. NewNames(r) \in SUBSET Ops BY DEF NewNames
      <4> QED BY <2>4, <4>1 DEF ApiDescription
    <3>3. remote_operations' \in [Ops -> Remotes \cup {NoRemote}]
      BY <2>4 DEF ApiDescription
    <3>4. on_remotes_registered' \in BOOLEAN BY <2>4 DEF ApiDescription
    <3>5. where' \in [Calls -> WhereState] BY <2>4 DEF ApiDescription
    <3>6. ws' \in [Remotes -> WsState] BY <2>4 DEF ApiDescription
    <3> QED BY <2>4, <3>1, <3>2, <3>3, <3>4, <3>5, <3>6 DEF ApiDescription
  <2>5. CASE ConnectionFails(r)
    <3>1. connected_remotes' \in 0 .. Wrap - 1 BY <2>5 DEF ConnectionFails
    <3> QED BY <2>5, <3>1 DEF ConnectionFails, Unregistered
  <2> QED BY <1>1, <2>1, <2>2, <2>3, <2>4, <2>5 DEF LinkNext
<1>2. ASSUME NEW c \in Calls, CallNext(c) PROVE TypeOK'
  <2>1. CASE RunRemote(c) BY <2>1 DEF RunRemote
  <2>2. CASE RunNoTarget(c) BY <2>2 DEF RunNoTarget, Reply
  <2>3. CASE SendStopped(c) BY <2>3 DEF SendStopped
  <2>4. CASE Send(c) BY <2>4 DEF Send
  <2>5. CASE Response(c)
    <3>1. timer' \in [Calls -> TimerState] BY <2>5 DEF Response, Cancelled
    <3>2. replies' \in [Calls -> [Answers -> Nat]] BY <2>5 DEF Response, Reply
    <3>3. wire' \subseteq Calls BY <2>5 DEF Response
    <3> QED BY <2>5, <3>1, <3>2, <3>3 DEF Response
  <2>6. CASE TimerExpires(c) BY <2>6 DEF TimerExpires
  <2>7. CASE HandlerExpired(c) BY <2>7 DEF HandlerExpired, Reply
  <2>8. CASE HandlerAborted(c) BY <2>8 DEF HandlerAborted
  <2> QED BY <1>2, <2>1, <2>2, <2>3, <2>4, <2>5, <2>6, <2>7, <2>8
        DEF CallNext, Dispatch, Post, Handler
<1>3. CASE StopRemotes BY <1>3 DEF StopRemotes
<1>4. CASE UNCHANGED vars BY <1>4
<1> QED BY <1>1, <1>2, <1>3, <1>4 DEF Next

\* The variables of module Remote only ever hold values of their types.
THEOREM TypeCorrect == Spec => []TypeOK
  BY TypeInit, TypeStep, PTL DEF Spec

-----------------------------------------------------------------------------
\* A registered name has one owner: what each action does to the registry.
LEMMA RegistryStep ==
  TypeOK /\ RestartInv /\ RegistryOwned /\ [Next]_vars => (RegistryOwned /\ RestartInv)'
<1> SUFFICES ASSUME TypeOK, RestartInv, RegistryOwned, [Next]_vars
             PROVE  (RegistryOwned /\ RestartInv)'
  OBVIOUS
<1> USE RemoteAssumption DEF RemoteAssumption, TypeOK, RegistryOwned, RestartInv
<1>1. ASSUME NEW r \in Remotes, LinkNext(r) PROVE (RegistryOwned /\ RestartInv)'
  <2>1. CASE ConnectOk(r) BY <2>1 DEF ConnectOk
  <2>2. CASE ConnectRefused(r) BY <2>2 DEF ConnectRefused
  <2>3. CASE Restart(r) BY <2>3 DEF Restart
  <2>4. CASE ApiDescription(r)
    <3>1. methods[r] = {} BY <2>4 DEF ApiDescription
    <3>2. \A o \in Ops : o \in NewNames(r) <=> o \in Offers[r] /\ remote_operations[o] = NoRemote
      BY DEF NewNames
    <3>3. /\ methods' = [methods EXCEPT ![r] = NewNames(r)]
          /\ remote_operations' =
               [o \in Ops |-> IF o \in NewNames(r) THEN r ELSE remote_operations[o]]
          /\ ws' = [ws EXCEPT ![r] = "described"] /\ ws[r] = "open"
          /\ UNCHANGED restart
      BY <2>4 DEF ApiDescription
    <3>4. RegistryOwned'
      <4> SUFFICES ASSUME NEW q \in Remotes
                   PROVE  /\ \A o \in Ops : o \in methods'[q] <=> remote_operations'[o] = q
                          /\ methods'[q] # {} => ws'[q] = "described"
        OBVIOUS
      <4>1. CASE q = r BY <3>1, <3>2, <3>3, <4>1
      <4>2. CASE q # r
        <5>1. methods'[q] = methods[q] /\ ws'[q] = ws[q] BY <3>3, <4>2
        <5>2. \A o \in Ops : remote_operations'[o] = q <=> remote_operations[o] = q
          BY <3>2, <3>3, <4>2
        <5> QED BY <5>1, <5>2
      <4> QED BY <4>1, <4>2
    <3> QED BY <3>3, <3>4
  <2>5. CASE ConnectionFails(r) BY <2>5 DEF ConnectionFails, Unregistered
  <2> QED BY <1>1, <2>1, <2>2, <2>3, <2>4, <2>5 DEF LinkNext
<1>2. ASSUME NEW c \in Calls, CallNext(c) PROVE (RegistryOwned /\ RestartInv)'
  <2>1. UNCHANGED link
    BY <1>2 DEF CallNext, Dispatch, Post, Handler, RunRemote, RunNoTarget, SendStopped, Send,
       Response, TimerExpires, HandlerExpired, HandlerAborted, link
  <2> QED BY <2>1 DEF link
<1>3. CASE StopRemotes BY <1>3 DEF StopRemotes
<1>4. CASE UNCHANGED vars BY <1>4 DEF vars, link
<1> QED BY <1>1, <1>2, <1>3, <1>4 DEF Next

-----------------------------------------------------------------------------
\* The life of a call: a step of a link or the stop of all links.
LEMMA CallInvLink ==
  ASSUME TypeOK, CallInv, NEW r \in Remotes, LinkNext(r)
  PROVE  CallInv'
<1> USE DEF TypeOK, CallInv, Sent, Unsent, ready, request
<1>1. CASE ConnectOk(r) BY <1>1 DEF ConnectOk
<1>2. CASE ConnectRefused(r) BY <1>2 DEF ConnectRefused
<1>3. CASE Restart(r) BY <1>3 DEF Restart
<1>4. CASE ApiDescription(r)
  <2>1. \A c \in Calls : where'[c] = where[c] \/ (where[c] = "queued" /\ where'[c] = "run")
    BY <1>4 DEF ApiDescription
  <2>2. UNCHANGED <<stopped, at, pending, timeouts, timer, wire, replies>>
    BY <1>4 DEF ApiDescription
  <2> QED BY <2>1, <2>2
<1>5. CASE ConnectionFails(r) BY <1>5 DEF ConnectionFails, Lost
<1> QED BY <1>1, <1>2, <1>3, <1>4, <1>5 DEF LinkNext

LEMMA CallInvStop ==
  ASSUME TypeOK, CallInv, StopRemotes
  PROVE  CallInv'
  BY DEF TypeOK, CallInv, Sent, Unsent, StopRemotes, ready

\* A step of call c leaves what CallInv says of every other call alone.
LEMMA CallInvOther ==
  ASSUME TypeOK, CallInv, NEW c \in Calls, CallNext(c), NEW d \in Calls, d # c
  PROVE  /\ where'[d] = where[d] /\ at'[d] = at[d] /\ timer'[d] = timer[d]
         /\ replies'[d] = replies[d]
         /\ d \in pending' <=> d \in pending
         /\ d \in timeouts' <=> d \in timeouts
         /\ d \in wire' <=> d \in wire
         /\ UNCHANGED stopped
<1> USE DEF TypeOK, link, ready, request
<1>1. CASE RunRemote(c) BY <1>1 DEF RunRemote
<1>2. CASE RunNoTarget(c) BY <1>2 DEF RunNoTarget, Reply
<1>3. CASE SendStopped(c) BY <1>3 DEF SendStopped
<1>4. CASE Send(c) BY <1>4 DEF Send
<1>5. CASE Response(c) BY <1>5 DEF Response, Reply
<1>6. CASE TimerExpires(c) BY <1>6 DEF TimerExpires
<1>7. CASE HandlerExpired(c) BY <1>7 DEF HandlerExpired, Reply
<1>8. CASE HandlerAborted(c) BY <1>8 DEF HandlerAborted
<1> QED BY <1>1, <1>2, <1>3, <1>4, <1>5, <1>6, <1>7, <1>8 DEF CallNext, Dispatch, Post, Handler

\* What CallInv says of the call that takes the step.
LEMMA CallInvOwn ==
  ASSUME TypeOK, RegistryOwned, CallInv, NEW c \in Calls, CallNext(c)
  PROVE  /\ where'[c] \in {"posted", "sent", "dropped"} => at'[c] \in Remotes
         /\ where'[c] = "sent" => Sent(c)'
         /\ where'[c] # "sent" => Unsent(c)'
<1> USE RemoteAssumption DEF RemoteAssumption, TypeOK, CallInv, link, ready, request
<1>1. CASE RunRemote(c)
  <2>1. remote_operations[Target[c]] \in Remotes BY <1>1 DEF RunRemote
  <2> QED BY <1>1, <2>1 DEF RunRemote, Unsent
<1>2. CASE RunNoTarget(c)
  <2>1. Unsent(c) /\ where[c] = "run" BY <1>2 DEF RunNoTarget
  <2>2. CASE QueueNoTarget BY <1>2, <2>1, <2>2 DEF RunNoTarget, Unsent
  <2>3. CASE ~QueueNoTarget
    <3>1. replies'[c] = [replies[c] EXCEPT !["no_target"] = 1]
      BY <1>2, <2>1, <2>3 DEF RunNoTarget, Reply, Unsent, Answers
    <3> QED BY <1>2, <2>1, <2>3, <3>1 DEF RunNoTarget, Unsent, Answers
  <2> QED BY <2>2, <2>3
<1>3. CASE SendStopped(c) BY <1>3 DEF SendStopped, Unsent
<1>4. CASE Send(c) BY <1>4 DEF Send, Sent, Unsent
<1>5. CASE Response(c)
  <2>1. Sent(c) /\ where[c] = "sent" BY <1>5 DEF Response, Unsent
  <2>2. CASE c \in pending
    <3>1. replies'[c] = [replies[c] EXCEPT !["result"] = 1]
      BY <1>5, <2>1, <2>2 DEF Response, Reply, Sent, Answers
    <3>2. timer'[c] = Cancelled(c) BY <1>5, <2>2 DEF Response
    <3> QED BY <1>5, <2>1, <2>2, <3>1, <3>2 DEF Response, Cancelled, Sent, Answers
  <2>3. CASE c \notin pending BY <1>5, <2>1, <2>3 DEF Response, Sent
  <2> QED BY <2>2, <2>3
<1>6. CASE TimerExpires(c) BY <1>6 DEF TimerExpires, Sent, Unsent
<1>7. CASE HandlerExpired(c)
  <2>1. Sent(c) /\ where[c] = "sent" BY <1>7 DEF HandlerExpired, Unsent
  <2>2. replies[c]["timeout"] = 0 BY <1>7, <2>1 DEF HandlerExpired, Sent
  <2>3. replies' = [replies EXCEPT ![c] = [replies[c] EXCEPT !["timeout"] = 1]]
    BY <1>7, <2>2 DEF HandlerExpired, Reply, Answers
  <2> QED BY <1>7, <2>1, <2>3 DEF HandlerExpired, Sent, Answers
<1>8. CASE HandlerAborted(c) BY <1>8 DEF HandlerAborted, Sent, Unsent
<1> QED BY <1>1, <1>2, <1>3, <1>4, <1>5, <1>6, <1>7, <1>8 DEF CallNext, Dispatch, Post, Handler

-----------------------------------------------------------------------------
LEMMA InvInit == Init => Inv
<1> SUFFICES ASSUME Init PROVE Inv
  OBVIOUS
<1>1. TypeOK BY TypeInit
<1>2. RegistryOwned
  BY RemoteAssumption DEF RemoteAssumption, Init, RegistryOwned
<1>3. RestartInv BY DEF Init, RestartInv
<1>4. CallInv BY DEF Init, CallInv, Unsent, Answers
<1> QED BY <1>1, <1>2, <1>3, <1>4 DEF Inv

LEMMA InvStep == Inv /\ [Next]_vars => Inv'
<1> SUFFICES ASSUME Inv, [Next]_vars PROVE Inv'
  OBVIOUS
<1>1. TypeOK' BY TypeStep DEF Inv
<1>2. (RegistryOwned /\ RestartInv)' BY RegistryStep DEF Inv
<1>3. CallInv'
  <2>1. ASSUME NEW r \in Remotes, LinkNext(r) PROVE CallInv'
    BY <2>1, CallInvLink DEF Inv
  <2>2. ASSUME NEW c \in Calls, CallNext(c) PROVE CallInv'
    <3> SUFFICES ASSUME NEW d \in Calls
                 PROVE  /\ where'[d] \in {"posted", "sent", "dropped"} => at'[d] \in Remotes
                        /\ where'[d] = "sent" => Sent(d)'
                        /\ where'[d] # "sent" => Unsent(d)'
      BY DEF CallInv
    <3>1. CASE d = c BY <2>2, <3>1, CallInvOwn DEF Inv
    <3>2. CASE d # c
      <4> USE DEF Inv
      <4>1. /\ where'[d] = where[d] /\ at'[d] = at[d] /\ timer'[d] = timer[d]
            /\ replies'[d] = replies[d]
            /\ d \in pending' <=> d \in pending
            /\ d \in timeouts' <=> d \in timeouts
            /\ d \in wire' <=> d \in wire
            /\ UNCHANGED stopped
        BY <2>2, <3>2, CallInvOther
      <4> QED BY <4>1 DEF CallInv, Sent, Unsent
    <3> QED BY <3>1, <3>2
  <2>3. CASE StopRemotes BY <2>3, CallInvStop DEF Inv
  <2>4. CASE UNCHANGED vars
    BY <2>4 DEF Inv, vars, link, request, CallInv, Sent, Unsent
  <2> QED BY <2>1, <2>2, <2>3, <2>4 DEF Next
<1> QED BY <1>1, <1>2, <1>3 DEF Inv

\* The inductive invariant holds in every state.
THEOREM InvCorrect == Spec => []Inv
  BY InvInit, InvStep, PTL DEF Spec

\* A registered name is served by the one link that registered it, and a link
\* without a described connection serves none, for any set of peers.
THEOREM RegistryOwnedCorrect == Spec => []RegistryOwned
<1>1. Inv => RegistryOwned BY DEF Inv
<1> QED BY <1>1, InvCorrect, PTL

\* A call that was sent is never lost while its link is not stopped: it has had
\* an answer or is filed with a running timer, for any interleaving of failures.
THEOREM CallNotLostCorrect == Spec => []CallNotLost
<1>1. Inv => CallNotLost
  <2> SUFFICES ASSUME Inv, NEW c \in Calls, where[c] = "sent",
                      \A a \in Answers : replies[c][a] = 0, ~stopped[at[c]]
               PROVE  c \in pending /\ c \in timeouts /\ timer[c] \in {"armed", "expired"}
    BY DEF CallNotLost
  <2>1. Sent(c) /\ timer[c] \in TimerState BY DEF Inv, CallInv, TypeOK
  <2>2. replies[c]["result"] = 0 /\ replies[c]["timeout"] = 0 BY DEF Answers
  <2> QED BY <2>1, <2>2 DEF Sent, TimerState
<1> QED BY <1>1, InvCorrect, PTL

\* The callback runs at most once per kind of answer, and only a timeout leaves
\* entries of an answered call behind.
THEOREM OneAnswerOfAKindCorrect == Spec => []OneAnswerOfAKind
<1>1. Inv => OneAnswerOfAKind
  <2> SUFFICES ASSUME Inv, NEW c \in Calls
               PROVE  /\ \A a \in Answers : replies[c][a] <= 1
                      /\ replies[c]["no_target"] = 0 \/ replies[c]["result"] + replies[c]["timeout"] = 0
                      /\ timer[c] = "fired" /\ c \in pending => replies[c]["timeout"] = 1
    BY DEF OneAnswerOfAKind
  <2>1. CASE where[c] = "sent" BY <2>1 DEF Inv, CallInv, Sent, Answers
  <2>2. CASE where[c] # "sent" BY <2>2 DEF Inv, CallInv, Unsent, Answers
  <2> QED BY <2>1, <2>2
<1> QED BY <1>1, InvCorrect, PTL
=============================================================================
