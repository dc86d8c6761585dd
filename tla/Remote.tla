------------------------------- MODULE Remote -------------------------------
(***************************************************************************)
(* The links of a MOTIS server to its remote peers and the life of a call   *)
(* that a peer answers: base/module/src/remote.cc, the remote operations of *)
(* base/module/src/registry.cc, the remote branch of                        *)
(* base/module/src/dispatcher.cc and the bookkeeping of connected peers in  *)
(* base/bootstrap/src/motis_instance.cc.                                    *)
(*                                                                          *)
(* One call is one message with its callback.  remote::send gives it an id  *)
(* from ++next_req_id_ that no other request of that link has, and files it *)
(* under this id in pending_ and timeouts_; here the call itself is the id. *)
(* A call whose target is a local operation never gets here.                *)
(* The network and the peers are external: a connection opens, is refused   *)
(* or breaks at any time; a peer answers each request at most once, on the  *)
(* connection it came by.                                                   *)
(***************************************************************************)
EXTENDS Naturals, FiniteSets

CONSTANTS
  Remotes,      \* the configured peers, remotes_
  Ops,          \* names of remote operations
  Offers,       \* the names each peer lists in its ApiDescription
  Calls,        \* the calls made in a behaviour
  Target,       \* the operation each call asks for
  QueueNoTarget,\* queue_no_target_msgs_: set in batch mode only
  Wrap,         \* the range of `unsigned` (2^32), kept small for TLC
  NoRemote

ASSUME RemoteAssumption ==
  /\ IsFiniteSet(Remotes) /\ Remotes # {}
  /\ NoRemote \notin Remotes
  /\ Offers \in [Remotes -> SUBSET Ops]
  /\ Target \in [Calls -> Ops]
  /\ QueueNoTarget \in BOOLEAN
  /\ Wrap \in Nat /\ Wrap > 2 * Cardinality(Remotes)

VARIABLES
  ws,           \* per peer: the state of the connection ws_
  restart,      \* per peer: whether the 5 s timer_ of schedule_restart waits
  stopped,      \* per peer: stopped_
  methods,      \* per peer: methods_, the names this link registered
  remote_operations,    \* registry: the peer that serves a name, if any
  connected_remotes,    \* unsigned counter of motis_instance
  on_remotes_registered,\* TRUE while the callback of that name is set
  where,        \* per call: the step its dispatch has reached
  at,           \* per call: the peer it was handed to
  pending,      \* calls that have an entry in a pending_ map
  timeouts,     \* calls that have an entry in a timeouts_ set
  timer,        \* per call: the state of its 60 s timer
  wire,         \* calls whose request the peer can still answer
  replies       \* per call: how often its callback ran, by kind of answer

link == <<ws, restart, stopped, methods, remote_operations>>
ready == <<connected_remotes, on_remotes_registered>>
request == <<pending, timeouts, timer, wire, replies>>
vars == <<link, ready, where, at, request>>

Answers == {"result", "timeout", "no_target"}

WsState == {"connecting", "open", "described", "failed"}
WhereState == {"run", "queued", "posted", "sent", "dropped", "refused"}
TimerState == {"none", "armed", "expired", "aborted", "fired"}

Up(r) == ws[r] \in {"open", "described"}

Init ==
  /\ ws = [r \in Remotes |-> "connecting"]
  /\ restart = [r \in Remotes |-> FALSE]
  /\ stopped = [r \in Remotes |-> FALSE]
  /\ methods = [r \in Remotes |-> {}]
  /\ remote_operations = [o \in Ops |-> NoRemote]
  /\ connected_remotes = 0
  /\ on_remotes_registered = TRUE
  /\ where = [c \in Calls |-> "run"]
  /\ at = [c \in Calls |-> NoRemote]
  /\ pending = {}
  /\ timeouts = {}
  /\ timer = [c \in Calls |-> "none"]
  /\ wire = {}
  /\ replies = [c \in Calls |-> [a \in Answers |-> 0]]

-----------------------------------------------------------------------------
(* The connection of a peer.                                               *)

\* on_connect without an error: the link asks the peer for its "/api".
ConnectOk(r) ==
  /\ ws[r] = "connecting"
  /\ ws' = [ws EXCEPT ![r] = "open"]
  /\ UNCHANGED <<restart, stopped, methods, remote_operations, ready, where, at, request>>

\* Mutant: a refused connection is not retried.
ConnectRefusedForGood(r) ==
  /\ ws[r] = "connecting"
  /\ ws' = [ws EXCEPT ![r] = "failed"]
  /\ UNCHANGED <<restart, stopped, methods, remote_operations, ready, where, at, request>>

\* on_connect with an error: nothing was registered, only the timer starts.
ConnectRefused(r) ==
  /\ ws[r] = "connecting"
  /\ ws' = [ws EXCEPT ![r] = "failed"]
  /\ restart' = [restart EXCEPT ![r] = TRUE]
  /\ UNCHANGED <<stopped, methods, remote_operations, ready, where, at, request>>

\* The handler of schedule_restart: start() opens a new connection.
Restart(r) ==
  /\ restart[r]
  /\ restart' = [restart EXCEPT ![r] = FALSE]
  /\ ws' = [ws EXCEPT ![r] = IF stopped[r] THEN @ ELSE "connecting"]
  /\ UNCHANGED <<stopped, methods, remote_operations, ready, where, at, request>>

\* Mutant: the result of emplace is ignored.
AllNames(r) == Offers[r]

\* register_remote_ops: only the names nobody else has are taken.
NewNames(r) == {o \in Offers[r] : remote_operations[o] = NoRemote}

\* The values connected_remotes_ runs through in one ApiDescription: on_msg
\* calls on_register_ before and after it logs the registered names.
RegisterCounts == {(connected_remotes + i) % Wrap : i \in 1 .. 2}

AfterRegister == (connected_remotes + 2) % Wrap

AllCounted == Cardinality(Remotes) \in RegisterCounts

\* on_msg with an ApiDescription.  When the count reaches remotes_.size(),
\* retry_no_target_msgs empties the queue and on_remotes_registered_ runs once.
ApiDescription(r) ==
  /\ ws[r] = "open" /\ ~stopped[r]
  /\ ws' = [ws EXCEPT ![r] = "described"]
  /\ methods' = [methods EXCEPT ![r] = NewNames(r)]
  /\ remote_operations' =
       [o \in Ops |-> IF o \in NewNames(r) THEN r ELSE remote_operations[o]]
  /\ connected_remotes' = AfterRegister
  /\ on_remotes_registered' = (on_remotes_registered /\ ~AllCounted)
  /\ where' = [c \in Calls |->
                 IF AllCounted /\ where[c] = "queued" THEN "run" ELSE where[c]]
  /\ UNCHANGED <<restart, stopped, at, request>>

\* unregister_remote_op(methods_) erases by name.
Unregistered(r) ==
  [o \in Ops |-> IF o \in methods[r] THEN NoRemote ELSE remote_operations[o]]

Lost(r) == {c \in wire : at[c] = r}

\* on_fail: the peer's names go, its pending calls stay until their timeout.
ConnectionFails(r) ==
  /\ Up(r) /\ ~stopped[r]
  /\ ws' = [ws EXCEPT ![r] = "failed"]
  /\ restart' = [restart EXCEPT ![r] = TRUE]
  /\ remote_operations' = Unregistered(r)
  /\ methods' = [methods EXCEPT ![r] = {}]
  /\ connected_remotes' = (connected_remotes + Wrap - 1) % Wrap
  /\ wire' = wire \ Lost(r)
  /\ UNCHANGED <<stopped, on_remotes_registered, where, at, pending, timeouts, timer, replies>>

\* stop(): cancels the restart timer, closes the connection and cancels the
\* timer of every entry of timeouts_.  A handler that is already queued is not
\* cancelled.  motis_instance::stop_remotes stops all peers.
StopRemotes ==
  /\ \E r \in Remotes : ~stopped[r]
  /\ stopped' = [r \in Remotes |-> TRUE]
  /\ restart' = [r \in Remotes |-> FALSE]
  /\ timer' = [c \in Calls |->
                 IF c \in timeouts /\ timer[c] = "armed" THEN "aborted" ELSE timer[c]]
  /\ wire' = {}
  /\ UNCHANGED <<ws, methods, remote_operations, ready, where, at, pending, timeouts, replies>>

-----------------------------------------------------------------------------
(* The way of a call.                                                      *)

Reply(c, a) == replies' = [replies EXCEPT ![c][a] = @ + 1]

\* dispatch: a registered name leads to a post of the remote operation.
RunRemote(c) ==
  /\ where[c] = "run"
  /\ remote_operations[Target[c]] # NoRemote
  /\ where' = [where EXCEPT ![c] = "posted"]
  /\ at' = [at EXCEPT ![c] = remote_operations[Target[c]]]
  /\ UNCHANGED <<link, ready, request>>

\* handle_no_target: queue the message, or answer target_not_found.
RunNoTarget(c) ==
  /\ where[c] = "run"
  /\ remote_operations[Target[c]] = NoRemote
  /\ where' = [where EXCEPT ![c] = IF QueueNoTarget THEN "queued" ELSE "refused"]
  /\ IF QueueNoTarget THEN UNCHANGED replies ELSE Reply(c, "no_target")
  /\ UNCHANGED <<link, ready, at, pending, timeouts, timer, wire>>

\* remote::send on a link that was stopped: the callback is dropped.
SendStopped(c) ==
  /\ where[c] = "posted" /\ stopped[at[c]]
  /\ where' = [where EXCEPT ![c] = "dropped"]
  /\ UNCHANGED <<link, ready, at, request>>

\* remote::send: the posted operation may run after its link has failed; then
\* the request goes nowhere, but is filed all the same.
Send(c) ==
  /\ where[c] = "posted" /\ ~stopped[at[c]]
  /\ where' = [where EXCEPT ![c] = "sent"]
  /\ pending' = pending \cup {c}
  /\ timeouts' = timeouts \cup {c}
  /\ timer' = [timer EXCEPT ![c] = "armed"]
  /\ wire' = IF Up(at[c]) THEN wire \cup {c} ELSE wire
  /\ UNCHANGED <<link, ready, at, replies>>

\* The callback stored in pending_: it answers, then cancels the timer, which
\* is too late for a timer that has expired.
Cancelled(c) == IF timer[c] = "armed" THEN "aborted" ELSE timer[c]

\* on_msg with an answer: pending_ is searched for the id.
Response(c) ==
  /\ c \in wire /\ Up(at[c]) /\ ~stopped[at[c]]
  /\ wire' = wire \ {c}
  /\ IF c \in pending
       THEN /\ Reply(c, "result")
            /\ timer' = [timer EXCEPT ![c] = Cancelled(c)]
       ELSE UNCHANGED <<replies, timer>>
  /\ UNCHANGED <<link, ready, where, at, pending, timeouts>>

\* 60 s pass: the handler of the timer is queued.
TimerExpires(c) ==
  /\ timer[c] = "armed"
  /\ timer' = [timer EXCEPT ![c] = "expired"]
  /\ UNCHANGED <<link, ready, where, at, pending, timeouts, wire, replies>>

\* Mutant: the handler cleans up and does not answer.
HandlerExpiredSilent(c) ==
  /\ timer[c] = "expired" /\ c \in pending
  /\ timer' = [timer EXCEPT ![c] = "fired"]
  /\ pending' = pending \ {c}
  /\ timeouts' = timeouts \ {c}
  /\ UNCHANGED <<link, ready, where, at, wire, replies>>

\* Mutant: the handler answers and waits for another 60 s.
HandlerExpiredAgain(c) ==
  /\ timer[c] = "expired" /\ c \in pending
  /\ Reply(c, "timeout")
  /\ timer' = [timer EXCEPT ![c] = "armed"]
  /\ UNCHANGED <<link, ready, where, at, pending, timeouts, wire>>

\* The handler of an expired timer answers operation_canceled through the
\* stored callback and returns at once: both entries stay.
HandlerExpired(c) ==
  /\ timer[c] = "expired" /\ c \in pending
  /\ Reply(c, "timeout")
  /\ timer' = [timer EXCEPT ![c] = "fired"]
  /\ UNCHANGED <<link, ready, where, at, pending, timeouts, wire>>

\* The handler of a cancelled timer forgets the call.
HandlerAborted(c) ==
  /\ timer[c] = "aborted"
  /\ timer' = [timer EXCEPT ![c] = "fired"]
  /\ pending' = pending \ {c}
  /\ timeouts' = timeouts \ {c}
  /\ UNCHANGED <<link, ready, where, at, wire, replies>>

-----------------------------------------------------------------------------
LinkNext(r) ==
  \/ ConnectOk(r) \/ ConnectRefused(r) \/ Restart(r)
  \/ ApiDescription(r) \/ ConnectionFails(r)

Dispatch(c) == RunRemote(c) \/ RunNoTarget(c)
\* Mutant: send waits for a connection that stands.
PostWhenUp(c) == SendStopped(c) \/ (where[c] = "posted" /\ Up(at[c]) /\ Send(c))
Post(c) == SendStopped(c) \/ Send(c)
Handler(c) == HandlerExpired(c) \/ HandlerAborted(c)

CallNext(c) ==
  Dispatch(c) \/ Post(c) \/ Response(c) \/ TimerExpires(c) \/ Handler(c)

Next ==
  \/ \E r \in Remotes : LinkNext(r)
  \/ \E c \in Calls : CallNext(c)
  \/ StopRemotes

Spec == Init /\ [][Next]_vars

(***************************************************************************)
(* Scheduling: the dispatcher and the io_service run what is queued, and    *)
(* time passes.  Nothing is assumed of the network or of the peers.         *)
(***************************************************************************)
Fairness ==
  /\ \A r \in Remotes : WF_vars(Restart(r))
  /\ \A c \in Calls : /\ WF_vars(Dispatch(c)) /\ WF_vars(Post(c))
                      /\ WF_vars(TimerExpires(c)) /\ WF_vars(Handler(c))

FairSpec == Spec /\ Fairness

-----------------------------------------------------------------------------
(* Properties.                                                             *)

\* The types of the variables: the counter stays an `unsigned`.
TypeOK ==
  /\ ws \in [Remotes -> WsState]
  /\ restart \in [Remotes -> BOOLEAN]
  /\ stopped \in [Remotes -> BOOLEAN]
  /\ methods \in [Remotes -> SUBSET Ops]
  /\ remote_operations \in [Ops -> Remotes \cup {NoRemote}]
  /\ connected_remotes \in 0 .. Wrap - 1
  /\ on_remotes_registered \in BOOLEAN
  /\ where \in [Calls -> WhereState]
  /\ at \in [Calls -> Remotes \cup {NoRemote}]
  /\ pending \subseteq Calls
  /\ timeouts \subseteq Calls
  /\ timer \in [Calls -> TimerState]
  /\ wire \subseteq Calls
  /\ replies \in [Calls -> [Answers -> Nat]]

\* A name is served by exactly the link that registered it, and only while its
\* connection stands: a failed link leaves no operation behind and takes away
\* none that another link registered (register_remote_ops, unregister_remote_op,
\* on_fail).
RegistryOwned ==
  \A r \in Remotes :
    /\ \A o \in Ops : o \in methods[r] <=> remote_operations[o] = r
    /\ methods[r] # {} => ws[r] = "described"

\* Whatever the connection does, a call that was sent and has no answer yet is
\* still filed and its timer still runs, so that it can be answered: losing the
\* link, the peer or the response never loses the call.  Only stop() may.
CallNotLost ==
  \A c \in Calls :
    where[c] = "sent" /\ (\A a \in Answers : replies[c][a] = 0) =>
      \/ c \in pending /\ c \in timeouts /\ timer[c] \in {"armed", "expired"}
      \/ stopped[at[c]]

\* The callback runs at most once for each kind of answer, and a call keeps its
\* entries after its timer fired only if the timeout answered it (the early
\* return of the timer's handler).
OneAnswerOfAKind ==
  \A c \in Calls :
    /\ \A a \in Answers : replies[c][a] <= 1
    /\ replies[c]["no_target"] = 0 \/ replies[c]["result"] + replies[c]["timeout"] = 0
    /\ timer[c] = "fired" /\ c \in pending => replies[c]["timeout"] = 1

\* Every call gets an answer, whatever connections and peers do, unless the
\* links are stopped or (in batch mode) it waits for a target.
EveryCallAnswered ==
  \A c \in Calls :
    where[c] = "run" ~> \/ \E a \in Answers : replies[c][a] > 0
                        \/ \E r \in Remotes : stopped[r]
                        \/ where[c] = "queued"

\* A link that failed tries again (schedule_restart), until it is stopped.
Reconnects ==
  \A r \in Remotes : ws[r] = "failed" ~> ws[r] = "connecting" \/ stopped[r]

\* motis_instance.h names the callback on_remotes_registered, and it is called
\* where connected_remotes_ equals remotes_.size(): batch mode starts to inject
\* queries once every remote has registered its operations.
StartsWhenAllRegistered ==
  [][on_remotes_registered /\ ~on_remotes_registered'
       => \A r \in Remotes : ws'[r] = "described"]_vars
=============================================================================
