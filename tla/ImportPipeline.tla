--------------------------- MODULE ImportPipeline ---------------------------
(***************************************************************************)
(* The import phase of motis_instance::import and init_modules              *)
(* (base/bootstrap/src/motis_instance.cc): the modules subscribe event      *)
(* collectors at an import dispatcher, the input files become events, and   *)
(* a collector runs its import operation once every event it requires has   *)
(* arrived; the operation publishes further events.  All of it is one       *)
(* thread; what varies is the order of the modules (a build option), the    *)
(* input files, the options, and which operations throw.                    *)
(*                                                                          *)
(* Every collector is handed every message; it returns at once if none of   *)
(* its matchers accepts it (base/module/src/event_collector.cc:39-47).      *)
(***************************************************************************)
EXTENDS Naturals, SequencesExt

CONSTANTS
  ModuleOrders, \* sequences of active modules: the order of modules_
  Inputs,       \* input files and import.require_successful, records of Input
  UseDem, UseCoastline, Lookup   \* options of ppr, tiles and nigiri

Modules == {"adr", "gbfs", "intermodal", "nigiri", "osr", "osrm", "parking", "ppr", "tiles"}

\* One collector per module, but one per profile for the osrm (osrm.cc:43-46) and
\* none for the intermodal, which imports nothing.
CollectorsOf(m) ==
  CASE m = "osrm" -> <<"osrm-foot", "osrm-bike", "osrm-car">>
    [] m = "intermodal" -> <<>>
    [] OTHER -> <<m>>

\* The collectors in the order of their subscriptions.
Importers(order) == FlattenSeq([i \in DOMAIN order |-> CollectorsOf(order[i])])

Files == {"file1", "file2"}
NoFile == "none"
Events ==
  {"FILE", "OSM", "COASTLINE", "DEM", "NIGIRI", "STATIONS", "PPR", "OSRM_FOOT",
   "OSRM_BIKE", "OSRM_CAR"}
Messages == [event : Events, of : Files \cup {NoFile}]
Event(e) == [event |-> e, of |-> NoFile]

\* schedule: absent, or the files are (not) applicable to a loader.
Input ==
  [osm : {<<>>, <<"file1">>, <<"file1", "file2">>}, coastline : BOOLEAN, dem : BOOLEAN,
   schedule : {"absent", "applicable", "inapplicable"}, required : BOOLEAN]

ASSUME ImportAssumption ==
  /\ \A o \in ModuleOrders : o \in Seq(Modules) /\ IsInjective(o)
  /\ Inputs \subseteq Input
  /\ {UseDem, UseCoastline, Lookup} \subseteq BOOLEAN

VARIABLES
  order,    \* the active modules
  input,    \* the files behind the import paths, and the option
  queue,    \* publish_queue_
  msg,      \* the message run() is handing out
  todo,     \* the collectors it still has to be handed to
  deps,     \* dependencies_ per collector
  outcome,  \* executed_ and how op_ ended: "none", "ok" or "failed"
  shared,   \* shared data: {"STATION_LOOKUP", "PPR_DATA"}
  inits,    \* number of modules init_modules has dealt with
  pc        \* "importing", "init" and "running"; "aborted", "init_error": the program ends

vars == <<order, input, queue, msg, todo, deps, outcome, shared, inits, pc>>

\* The collectors of the active modules.
Subscribed == UNION {ToSet(CollectorsOf(order[i])) : i \in DOMAIN order}

\* The names given to require (gbfs.cc:825-844, parking.cc:528-538, nigiri.cc:549,
\* ppr.cc:456-463, tiles.cc:149-156, OSM alone in osr.cc:364, adr.cc:78, osrm.cc:99);
\* waiting_for_ is Requires(c) without the events in DOMAIN deps[c].
Requires(c) ==
  CASE c = "nigiri" -> {"FILE"}
    [] c = "ppr" -> {"OSM"} \cup (IF UseDem THEN {"DEM"} ELSE {})
    [] c = "tiles" -> {"OSM"} \cup (IF UseCoastline THEN {"COASTLINE"} ELSE {})
    [] c = "parking" -> {"OSM", "STATIONS", "PPR"}
    [] c = "gbfs" -> {"STATIONS", "OSRM_BIKE", "OSRM_FOOT", "OSRM_CAR"}
    [] OTHER -> {"OSM"}

\* nigiri takes the file event only if there are paths and every schedule
\* among them is applicable to a loader (true as well if there is none).
Matches(c, m) ==
  /\ m.event \in Requires(c)
  /\ m.event = "FILE" =>
       /\ input.schedule # "inapplicable"
       /\ input.schedule # "absent" \/ input.osm # <<>> \/ input.coastline \/ input.dem

\* What an operation publishes, as its last act (osr.cc:353-362, osrm.cc:89-97,
\* nigiri.cc:533-547, ppr.cc:438-454).  A PPR event carries the graph, thus the
\* OSM file the graph was made from.
Publishes(c, d) ==
  CASE c = "nigiri" -> <<Event("NIGIRI"), Event("STATIONS")>>
    [] c = "osr" -> <<Event("OSRM_FOOT"), Event("OSRM_BIKE"), Event("OSRM_CAR")>>
    [] c = "ppr" -> <<[event |-> "PPR", of |-> d["OSM"].of]>>
    [] c = "osrm-foot" -> <<Event("OSRM_FOOT")>>
    [] c = "osrm-bike" -> <<Event("OSRM_BIKE")>>
    [] c = "osrm-car" -> <<Event("OSRM_CAR")>>
    [] OTHER -> <<>>

\* Mutant: the station lookup is made, but not shared
SharesNoLookup(c) == IF c = "ppr" THEN {"PPR_DATA"} ELSE {}

\* What an operation leaves for the other modules (nigiri.cc:508-514, ppr.cc:436).
Shares(c) ==
  CASE c = "nigiri" -> IF Lookup THEN {"STATION_LOOKUP"} ELSE {}
    [] c = "ppr" -> {"PPR_DATA"}
    [] OTHER -> {}

\* The shared data an operation reads (parking.cc:459-461, 511-513); without it, it
\* throws.
Reads(c) == IF c = "parking" THEN {"STATION_LOOKUP", "PPR_DATA"} ELSE {}

\* Mutant: the coastline is published before the OSM files
CoastlineFirst(in) ==
  (IF in.coastline THEN <<Event("COASTLINE")>> ELSE <<>>)
    \o [i \in DOMAIN in.osm |-> [event |-> "OSM", of |-> in.osm[i]]]
    \o (IF in.dem THEN <<Event("DEM")>> ELSE <<>>)

\* The events of the input files, in the order import_files publishes them.
InputEvents(in) ==
  [i \in DOMAIN in.osm |-> [event |-> "OSM", of |-> in.osm[i]]]
    \o (IF in.coastline THEN <<Event("COASTLINE")>> ELSE <<>>)
    \o (IF in.dem THEN <<Event("DEM")>> ELSE <<>>)

Init ==
  /\ order \in ModuleOrders
  /\ input \in Inputs
  /\ queue = <<Event("FILE")>>
  /\ msg = Event("FILE")
  /\ todo = <<>>
  /\ deps = [c \in Subscribed |-> [e \in {} |-> msg]]
  /\ outcome = [c \in Subscribed |-> "none"]
  /\ shared = {}
  /\ inits = 0
  /\ pc = "importing"

(***************************************************************************)
(* import_dispatcher::run takes the oldest message and hands it to every    *)
(* importer; the first importer of all turns the input files into events.   *)
(***************************************************************************)
Take ==
  /\ pc = "importing" /\ todo = <<>> /\ queue # <<>>
  /\ msg' = Head(queue)
  /\ todo' = Importers(order)
  /\ queue' = Tail(queue) \o (IF Head(queue).event = "FILE" THEN InputEvents(input) ELSE <<>>)
  /\ UNCHANGED <<order, input, deps, outcome, shared, inits, pc>>

Hands(c) == pc = "importing" /\ todo # <<>> /\ c = Head(todo) /\ todo' = Tail(todo)

Accepts(c) == Hands(c) /\ Matches(c, msg) /\ outcome[c] = "none"

\* No matcher accepts the message, or "prevented double execution".
Ignore(c) ==
  /\ Hands(c)
  /\ Matches(c, msg) => outcome[c] # "none"
  /\ UNCHANGED <<order, input, queue, msg, deps, outcome, shared, inits, pc>>

\* dependencies_[name] = msg replaces an earlier message of the same name.
Added(c) == [e \in (DOMAIN deps[c]) \cup {msg.event} |-> IF e = msg.event THEN msg ELSE deps[c][e]]

\* Mutant: the message at hand is not counted
CompleteBefore(c) == Requires(c) = DOMAIN deps[c]

Complete(c) == Requires(c) = DOMAIN Added(c)

Wait(c) ==
  /\ Accepts(c)
  /\ ~Complete(c)
  /\ deps' = [deps EXCEPT ![c] = Added(c)]
  /\ UNCHANGED <<order, input, queue, msg, outcome, shared, inits, pc>>

CanSucceed(c) ==
  /\ Reads(c) \subseteq shared
  /\ c = "nigiri" => input.schedule = "applicable"   \* "no schedule datasets found"

\* Mutant: double execution is not prevented
ExecuteAgain(c) ==
  /\ Hands(c) /\ Matches(c, msg)
  /\ Complete(c)
  /\ CanSucceed(c)
  /\ deps' = [deps EXCEPT ![c] = Added(c)]
  /\ outcome' = [outcome EXCEPT ![c] = "ok"]
  /\ shared' = shared \cup Shares(c)
  /\ queue' = queue \o Publishes(c, Added(c))
  /\ UNCHANGED <<order, input, msg, inits, pc>>

Execute(c) ==
  /\ Accepts(c)
  /\ Complete(c)
  /\ CanSucceed(c)
  /\ deps' = [deps EXCEPT ![c] = Added(c)]
  /\ outcome' = [outcome EXCEPT ![c] = "ok"]
  /\ shared' = shared \cup Shares(c)
  /\ queue' = queue \o Publishes(c, Added(c))
  /\ UNCHANGED <<order, input, msg, inits, pc>>

\* Mutant: the last message is published again to retry what failed
FailsRetried(c) ==
  /\ Accepts(c)
  /\ Complete(c)
  /\ deps' = [deps EXCEPT ![c] = Added(c)]
  /\ queue' = Append(queue, msg)
  /\ UNCHANGED <<order, input, msg, outcome, shared, inits, pc>>

\* Mutant: the events are published before the operation is done
FailsPublished(c) ==
  /\ Accepts(c)
  /\ Complete(c)
  /\ deps' = [deps EXCEPT ![c] = Added(c)]
  /\ outcome' = [outcome EXCEPT ![c] = "failed"]
  /\ queue' = queue \o Publishes(c, Added(c))
  /\ UNCHANGED <<order, input, msg, shared, inits, pc>>

\* The operation throws, before it publishes anything: it is not repeated.
ExecuteFails(c) ==
  /\ Accepts(c)
  /\ Complete(c)
  /\ deps' = [deps EXCEPT ![c] = Added(c)]
  /\ outcome' = [outcome EXCEPT ![c] = "failed"]
  /\ UNCHANGED <<order, input, queue, msg, shared, inits, pc>>

\* Mutant: what was never executed passes for successful
NoneFailed(m) == \A c \in ToSet(CollectorsOf(m)) : outcome[c] # "failed"

ImportSuccessful(m) == \A c \in ToSet(CollectorsOf(m)) : outcome[c] = "ok"

\* The queue has run empty: verify, if the option asks for it.
Verify ==
  /\ pc = "importing" /\ todo = <<>> /\ queue = <<>>
  /\ pc' = IF input.required /\ \E i \in DOMAIN order : ~ImportSuccessful(order[i])
           THEN "aborted" ELSE "init"
  /\ UNCHANGED <<order, input, queue, msg, todo, deps, outcome, shared, inits>>

\* The shared data module->init reads; without it, it throws.
InitReads(m) == IF m = "gbfs" THEN {"STATION_LOOKUP"} ELSE {}

InitModule ==
  /\ pc = "init" /\ inits < Len(order)
  /\ LET m == order[inits + 1] IN
       pc' = IF ImportSuccessful(m) /\ ~(InitReads(m) \subseteq shared) THEN "aborted" ELSE pc
  /\ inits' = inits + 1
  /\ UNCHANGED <<order, input, queue, msg, todo, deps, outcome, shared>>

\* publish("/init"): what the modules do there (nigiri asks its endpoints, parking
\* and intermodal ask for the profiles of the ppr) is not modelled; it may throw.
Started ==
  /\ pc = "init" /\ inits = Len(order)
  /\ pc' \in {"running", "init_error"}
  /\ UNCHANGED <<order, input, queue, msg, todo, deps, outcome, shared, inits>>

Deliver(c) == Ignore(c) \/ Wait(c) \/ Execute(c) \/ ExecuteFails(c)
Next == Take \/ (\E c \in Subscribed : Deliver(c)) \/ Verify \/ InitModule \/ Started

Spec == Init /\ [][Next]_vars

\* The import is a single thread that does nothing else.
FairSpec == Spec /\ WF_vars(Next)

-----------------------------------------------------------------------------
\* The types of the variables.
TypeOK ==
  /\ order \in ModuleOrders /\ input \in Inputs
  /\ queue \in Seq(Messages) /\ msg \in Messages
  /\ todo \in Seq(Subscribed)
  /\ DOMAIN deps = Subscribed
  /\ \A c \in DOMAIN deps :
       /\ DOMAIN deps[c] \subseteq Requires(c)
       /\ \A e \in DOMAIN deps[c] : deps[c][e] \in Messages /\ deps[c][e].event = e
  /\ outcome \in [Subscribed -> {"none", "ok", "failed"}]
  /\ shared \subseteq {"STATION_LOOKUP", "PPR_DATA"}
  /\ inits \in 0 .. Len(order)
  /\ pc \in {"importing", "init", "running", "aborted", "init_error"}

\* What can be had from the input files and the operations that succeeded.
Available ==
  {e \in Events : \/ e = "FILE"
                  \/ \E i \in DOMAIN InputEvents(input) : InputEvents(input)[i].event = e
                  \/ \E c \in DOMAIN outcome : outcome[c] = "ok"
                       /\ \E i \in DOMAIN Publishes(c, deps[c]) : Publishes(c, deps[c])[i].event = e}

\* Once the queue has run empty, precisely those operations have run whose
\* requirements the inputs and the successful operations provide, in whatever
\* order the modules were built: nothing is missed because its event came
\* before another one, and nothing ran without its events.
RanIfPossible ==
  pc # "importing" =>
    \A c \in DOMAIN outcome :
      outcome[c] # "none" <=>
        Requires(c) \subseteq Available /\ \A e \in Requires(c) : Matches(c, Event(e))

\* "Prevent double execution": an import operation that has run is never run
\* again, nor are the events it ran with replaced, however many follow.
RunsOnce ==
  [][\A c \in DOMAIN outcome :
       outcome[c] # "none" => outcome'[c] = outcome[c] /\ deps'[c] = deps[c]]_vars

\* With several OSM files, an operation that waited for any other event works
\* on the last of them and all others on the first: the parking lots may be
\* those of another file than the graph of the ppr, but never by an accident
\* of the order of the modules.
WhichOsmFile ==
  \A c \in DOMAIN outcome :
    outcome[c] # "none" /\ "OSM" \in Requires(c) =>
      deps[c]["OSM"].of = IF Requires(c) = {"OSM"} THEN Head(input.osm) ELSE Last(input.osm)

\* The shared data a module reads when it is initialised is there whenever
\* its import was successful: the program is never ended by an init() that
\* misses it (with the option nigiri.lookup, the default).
InitFinds == pc = "aborted" => inits = 0

\* If all imports are required to be successful, a program that runs has
\* executed every operation with all its events, so that the modules it was
\* configured with include the producers of what they need.
RunningHasAll ==
  pc = "running" /\ input.required =>
    /\ \A c \in DOMAIN outcome : outcome[c] = "ok" /\ Requires(c) \subseteq Available
    /\ {"gbfs", "parking"} \cap ToSet(order) # {} => "nigiri" \in ToSet(order)
    /\ "parking" \in ToSet(order) => "ppr" \in ToSet(order)

\* The events an operation publishes, and those of the input files; the paths count if
\* somebody accepts them.
Produces(c) == {m.event : m \in ToSet(Publishes(c, [OSM |-> Event("OSM")]))}

Given ==
  {e \in Events : \/ e = "FILE" /\ \E c \in Subscribed : Matches(c, Event(e))
                  \/ \E i \in DOMAIN InputEvents(input) : InputEvents(input)[i].event = e}

\* Collectors, queue and dispatcher run the operations as module ImportView demands:
\* each once, after what it needs, and all that can run before the import ends.
View == INSTANCE ImportView WITH
  given <- Given,
  needs <- [c \in Subscribed |-> Requires(c)],
  gives <- [c \in Subscribed |-> Produces(c)],
  over <- (pc # "importing")

ImportViewSpec == View!Spec

\* The import comes to an end: it runs out of events.
Ends == <>(pc \in {"running", "aborted", "init_error"})
=============================================================================
