-------------------------------- MODULE Batch --------------------------------
(***************************************************************************)
(* Batch mode: the query_injector of base/launcher/src/batch_mode.cc feeds  *)
(* the lines of the query file to the dispatcher, at most twice the number  *)
(* of threads at a time, writes every answer to the response file and stops *)
(* the io_service when it is done (base/launcher/src/main.cc, mode BATCH).  *)
(*                                                                          *)
(* inject_msg, on_response and start run on the io_service, one handler at  *)
(* a time.  A handler may call inject_msg several times, directly or through*)
(* on_response; `owed` is the number of injections the running handler has  *)
(* still to make, and no other handler starts before it is 0.  Workers      *)
(* answer queries at any time and in any order; their callbacks, wrapped by *)
(* ios_.wrap, wait for the io_service in `arrived`.                         *)
(***************************************************************************)
EXTENDS Naturals, Sequences, FiniteSets

CONSTANTS
  Files,        \* the query files: the kind of each line
  MaxLen,       \* the longest of them
  NumThreads,   \* num_threads_
  Wrap          \* the range of `unsigned` (2^32), kept small for TLC

\* A "query" is answered by a worker and a callback posted to the io_service, an
\* "inline" one within on_msg ("/api", or any query in direct mode).  "bad" is a
\* line make_msg refuses.  The target of a "no_target" line is registered nowhere.
Kinds == {"query", "inline", "bad", "no_target"}

Positions == 1 .. MaxLen

ASSUME BatchAssumption ==
  /\ MaxLen \in Nat
  /\ Files \subseteq Seq(Kinds) /\ \A f \in Files : Len(f) <= MaxLen
  /\ NumThreads \in Nat \ {0}
  /\ Wrap \in Nat /\ Wrap > MaxLen /\ Wrap > 1

VARIABLES
  file,         \* the lines of in_
  next,         \* the line in_ reads next
  owed,         \* injections the running handler has still to make
  started,      \* whether the handler posted by start() has run
  in_flight,    \* the unsigned counter in_flight_
  outstanding,  \* lines handed to the receiver whose callback was not called
  arrived,      \* lines whose callback waits for the io_service
  written,      \* per line: the number of responses in the response file
  ios           \* "running" or "stopped"

vars == <<file, next, owed, started, in_flight, outstanding, arrived, written, ios>>

Lines == 1 .. Len(file)

Init ==
  /\ file \in Files
  /\ next = 1 /\ owed = 0 /\ started = FALSE
  /\ in_flight = 0
  /\ outstanding = {} /\ arrived = {}
  /\ written = [l \in Positions |-> 0]
  /\ ios = "running"

\* Mutant: the counter is not decremented on an error.
KeptInFlight == in_flight

Decremented == (in_flight + Wrap - 1) % Wrap

Write(l) == written' = [written EXCEPT ![l] = @ + 1]

\* The io_service runs a handler only between two others.
Idle == ios = "running" /\ started /\ owed = 0

\* The loop of start.
Start ==
  /\ ios = "running" /\ ~started
  /\ started' = TRUE
  /\ owed' = 2 * NumThreads
  /\ UNCHANGED <<file, next, in_flight, outstanding, arrived, written, ios>>

Reads(kinds) ==
  /\ owed > 0
  /\ next \in Lines /\ file[next] \in kinds
  /\ next' = next + 1

\* inject_msg: the query goes to the receiver.
InjectQuery ==
  /\ Reads({"query", "no_target"})
  /\ in_flight' = (in_flight + 1) % Wrap
  /\ outstanding' = outstanding \cup {next}
  /\ owed' = owed - 1
  /\ UNCHANGED <<file, started, arrived, written, ios>>

\* inject_msg: the receiver calls back at once; on_response writes and injects
\* the next line.
InjectInline ==
  /\ Reads({"inline"})
  /\ Write(next)
  /\ UNCHANGED <<file, owed, started, in_flight, outstanding, arrived, ios>>

\* inject_msg: next_query throws before in_flight_ is incremented; the handler
\* of the exception calls on_response all the same.
InjectBad ==
  /\ Reads({"bad"})
  /\ in_flight' = Decremented
  /\ Write(next)
  /\ UNCHANGED <<file, owed, started, outstanding, arrived, ios>>

\* Mutant: the end of the file stops the io_service whatever is in flight.
InjectEofAtOnce ==
  /\ owed > 0
  /\ next \notin Lines
  /\ ios' = "stopped"
  /\ owed' = 0
  /\ UNCHANGED <<file, next, started, in_flight, outstanding, arrived, written>>

\* inject_msg at the end of the file ends the loop of start, too.
InjectEof ==
  /\ owed > 0
  /\ next \notin Lines
  /\ ios' = IF in_flight = 0 THEN "stopped" ELSE ios
  /\ owed' = 0
  /\ UNCHANGED <<file, next, started, in_flight, outstanding, arrived, written>>

\* A worker calls the callback.  main.cc sets queue_no_target_msgs_ in this mode:
\* a message without a target stays in the dispatcher's queue, which is only
\* retried when a remote registers.
Answer(l) ==
  /\ l \in outstanding /\ file[l] # "no_target"
  /\ outstanding' = outstanding \ {l}
  /\ arrived' = arrived \cup {l}
  /\ UNCHANGED <<file, next, owed, started, in_flight, written, ios>>

\* Mutant: on_response does not inject.
OnResponseOnly(l) ==
  /\ Idle /\ l \in arrived
  /\ arrived' = arrived \ {l}
  /\ in_flight' = Decremented
  /\ Write(l)
  /\ UNCHANGED <<file, next, owed, started, outstanding, ios>>

\* Mutant: on_response injects two queries for one response.
OnResponseTwo(l) ==
  /\ Idle /\ l \in arrived
  /\ arrived' = arrived \ {l}
  /\ in_flight' = Decremented
  /\ Write(l)
  /\ owed' = 2
  /\ UNCHANGED <<file, next, started, outstanding, ios>>

\* on_response for a callback that waited on the io_service.
OnResponse(l) ==
  /\ Idle /\ l \in arrived
  /\ arrived' = arrived \ {l}
  /\ in_flight' = Decremented
  /\ Write(l)
  /\ owed' = 1
  /\ UNCHANGED <<file, next, started, outstanding, ios>>

\* Mutant: the injector lives until its counter is zero.
DestroyAtZero ==
  /\ Idle /\ in_flight = 0 /\ outstanding = {} /\ arrived = {}
  /\ ios' = "stopped"
  /\ UNCHANGED <<file, next, owed, started, in_flight, outstanding, arrived, written>>

\* Callbacks hold the injector; with the last of them its destructor runs.
Destroy ==
  /\ Idle /\ outstanding = {} /\ arrived = {}
  /\ ios' = "stopped"
  /\ UNCHANGED <<file, next, owed, started, in_flight, outstanding, arrived, written>>

Inject == InjectQuery \/ InjectInline \/ InjectBad \/ InjectEof

Next ==
  \/ Start \/ Inject \/ Destroy
  \/ \E l \in Positions : Answer(l) \/ OnResponse(l)

Spec == Init /\ [][Next]_vars

\* The io_service runs its handlers, and operations that run come to an end.
FairSpec ==
  /\ Spec
  /\ WF_vars(Start) /\ WF_vars(Inject) /\ WF_vars(Destroy)
  /\ \A l \in Positions : WF_vars(Answer(l)) /\ WF_vars(OnResponse(l))

-----------------------------------------------------------------------------
\* The types of the variables; no handler makes more injections than start.
TypeOK ==
  /\ file \in Files
  /\ next \in 1 .. Len(file) + 1
  /\ owed \in 0 .. 2 * NumThreads
  /\ started \in BOOLEAN
  /\ in_flight \in 0 .. Wrap - 1
  /\ outstanding \subseteq Lines
  /\ arrived \subseteq Lines
  /\ written \in [Positions -> Nat]
  /\ ios \in {"running", "stopped"}

\* The queries read from a file without malformed lines and not answered yet.
Unanswered == outstanding \cup arrived

WellFormed == \A l \in Lines : file[l] # "bad"

\* in_flight_ counts the queries that were injected and not answered, if no line
\* was malformed (the test of in_flight_ at the end of the file relies on it).
CountsInFlight == WellFormed => in_flight = Cardinality(Unanswered)

\* launcher_settings.h: "batch = inject batch file", with a "query file" and a
\* "response file": when the injector stops the io_service, after which no
\* callback runs, each line of the query file has its one response.
AllAnsweredAtStop == ios = "stopped" => \A l \in Lines : written[l] = 1

\* Whatever the order of the answers, a batch without malformed lines stops
\* only with one response for every line (inject_msg at the end of the file,
\* the destructor).
StopsWhenAnswered == WellFormed => AllAnsweredAtStop

\* inject_msg and on_response keep at most 2 * num_threads_ queries with the
\* receiver, whatever the file holds.
BoundedInFlight == Cardinality(Unanswered) + owed <= 2 * NumThreads

\* Every line of such a file is answered in the end (on_response injects the
\* next one).
EveryLineAnswered ==
  \A l \in Positions : WellFormed /\ l \in Lines ~> written[l] = 1

\* The batch comes to an end: main.cc leaves runner_.run when the io_service
\* is stopped.
Terminates == <>(ios = "stopped")
=============================================================================
