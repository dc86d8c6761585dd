# A TLA+ model of MOTIS

MOTIS is a server for intermodal journey planning. It is a single C++ program
made of *modules* (nigiri for timetables, osr, osrm and ppr for streets, gbfs and
parking for sharing and parking, intermodal, adr, tiles) on a common base
(`base/module`: operations, messages, timers, remote peers; `base/bootstrap`:
import and start; `base/launcher`: the program and its modes). Its web interface
has a map with moving trains in JavaScript (`ui/web/js`), and a tool in TypeScript
(`tools/protocol`) generates schemas, types and documentation of its messages. This
directory holds TLA+ modules that model the parts of all three in which the order of
events, failures or the relation of several files matters, configurations that check
them with TLC, and proofs that TLAPS checks. Paths below are relative to `src/`.

| file | purpose |
|---|---|
| `X.tla` | the model of a component and its properties |
| `MCX.tla`, `*.cfg` | its instances for TLC |
| `XProofs.tla` | theorems about it for all values of the constants |

Definitions whose comment begins with "Mutant" are changed versions of the definition
after them. They are not part of the next-state relation; put in its place, each one
shows that a property can be violated.

## Inventory

**Base.**

| component | state | operations | what is hard | correct if |
|---|---|---|---|---|
| remote peers (`base/module/src/remote.cc`) | connection, `pending_`, `timeouts_`, `methods_`, restart timer | connect, reconnect, describe, send, answer, time out, stop | links fail and return while calls are on their way; answers race timeouts | the registry names exactly the links that stand; each call is answered |
| registry (`registry.cc`) | operations, topics, remote operations | register, look up, unregister | peers with the same names; prefix lookup | a name is served by who registered it |
| dispatcher (`dispatcher.cc`) | queue of messages without target | dispatch, publish, req, retry | workers and the io_service at once; direct mode | every callback runs once |
| timers (`timer.cc`) | the deadline | exec, schedule, stop | the next run is scheduled before this one ends | |
| HTTP requests (`context/motis_http_req.cc`) | future, number of redirects | request, response, redirect | endless or malformed redirects | the future is set once |
| scheduler (external library ctx) | operations, queues, access locks | enqueue, await, parallel for | deadlock of awaits and locks | |
| import (`event_collector.cc`, `import_dispatcher.h`, `base/bootstrap/src`) | queue of events, dependencies per collector | deliver, execute, verify, init | orders of modules and events, failing operations | what can be imported is, once |
| import.ini (`ini_io.h`) | a file per module directory | read, write | crashes between data and ini | data is that of the present input |
| batch mode (`base/launcher/src/batch_mode.cc`) | input and output file, `in_flight_` | inject, respond, stop | answers in any order, at once or never | a response per line, then an end |
| web server (`web_server.cc`) | sessions | HTTP and web socket requests | lifetime of callbacks | |

**Modules.**

| module | state | operations | what is hard |
|---|---|---|---|
| nigiri | timetable, `rtt_`, RailViz index | import, realtime updates, queries, RailViz | updates that overlap; two published copies; queries meanwhile |
| gbfs | per provider: stations, bikes, tiles | feeds by timer, routing | steps between awaits, partial failure |
| parking | LMDB database, lots, unavailable lots | ParkenDD updates, queries | additions between awaits, stale edges |
| intermodal | none between queries | a query with many sub-queries | failing sub-queries, cancellation |
| osr, osrm, ppr | street graphs, read only | import, queries | interrupted builds |
| adr, tiles | index and tiles, read only | import, queries | interrupted builds |

**Web interface: the map** (`ui/web/js`, the page itself is written in Elm).

| component | state | operations | what is hard | correct if |
|---|---|---|---|---|
| filters, views and requests (`railviz/main.js`, `api.js`, `railviz/path_*.js`) | filter, data, last calls, timers, layers | set and clear a filter, move, set the time, answers and errors | answers out of order; handlers that switch the same layers; the map loads late | what is shown is what was asked for last |
| rendering and picking (`railviz/render.js`, `trains.js`, `map.js`) | data, buffers, callbacks, frame limit | new data, frame, loss of the context, click | an index painted in one frame is looked up in the data of another | a click finds the train that was drawn |
| movement of trains (`railviz/model.js`) | polyline and line of a train, GPU buffer | new train, frame | kept from frame to frame, searched forwards only | a train is on its route, where its time says |
| connections (`railviz/connectionmgr.js`, `path_connections.js`) | trips, walks, caches, open calls | search, answers, errors, search options | answers of earlier searches; caches reset while calls are open | connections are drawn when complete, with their own trips |
| map (`map.js`) | custom layer, viewport | load, move | | |
| styles, markers, sharing vehicles | what the map library keeps | replace | | |

**Protocol tool** (`tools/protocol/src`).

| component | state | operations | what is hard | correct if |
|---|---|---|---|---|
| schemas and filters (`schema`, `filter`) | files read, types, marks of use | read, resolve, filter | names relative to nested namespaces | |
| outputs (`output`) | the files of each format | write JSON Schema, OpenAPI, TypeScript, Markdown | each kind of reference chooses for itself which form of a type it names | names that are referred to exist |
| documentation and runs (`main.ts`, `doc`) | a file per namespace, `paths.yaml` | run; edits by the developer | a run that ends between opening a file and writing it | descriptions are kept |
| parser (`fbs`) | none | parse | | |

The components of the server interact in three ways: *calls* (`motis_call`, through the dispatcher
to a local or a remote operation, answered by a callback or a future), *events*
(`publish` in the import phase and on `/init`) and *shared data* (typed values by
resource id, such as the station lookup that nigiri leaves for gbfs and parking).
On the page, the Elm part calls the ports of `main.js` and `connectionmgr.js`, these
call the server through `api.js`, and hand data to the layers and to `render.js`,
which runs inside a custom layer of the map library. The protocol tool shares only
files, with the developer.

`PROJECT.json` lists the hazards of this code, each at its line and with the
properties that cover it.

## Modules

### Remote

State and code correspond one to one: `ws`, `restart`, `stopped`, `methods` are
the members of `remote::impl`; `remote_operations` the map in the registry;
`connected_remotes` and `on_remotes_registered` the members of `motis_instance`;
`pending`, `timeouts`, `timer` the entries and the timer of a call. A call goes
from `"run"` (the operation posted by `dispatch`) to `"posted"` (the lambda given
to `boost::asio::post`) to `"sent"`; the steps are separate actions because other
threads and handlers run between them. `wire` holds the requests the peer can
still answer; a lost connection empties it.

The model found the two increments of the counter per description of a peer.
It also shows what *is* guaranteed: `RegistryOwned` holds although names are
erased without regard to their owner (a link only erases what it registered
itself); `CallNotLost` and `EveryCallAnswered` hold although `on_fail` does not
touch `pending_`, because the timer of the call does. `OneAnswerOfAKind` is as
much as the code gives: a call may be answered by the peer *and* by its timeout,
in either order, since the handler of an expired timer keeps the entry and a
handler that is already queued cannot be cancelled. A stronger "one answer" is
false of the code and of the model; nothing in the repository claims it.

### Batch

The handlers `start`, `on_response` run on the io_service, one at a time; `owed`
is how many calls of `inject_msg` the handler in progress has still to make.
Lines are of four kinds: answered by a worker, answered within `on_msg`,
malformed, without a target. `arrived` holds the callbacks that wait for the
io_service. A malformed line breaks the count (`batch_malformed`), so the
properties about complete answers are stated for files without one
(`WellFormed`); `BoundedInFlight` and `Terminates` hold for all files. Lines
without target are only in `batch_no_target`.

### RtView, RtUpdate

`RtView` is what readers of the realtime timetable may rely on: it changes only
by whole rounds, each endpoint contributes at most one message per round, which
was current at some time since the round before was published, and incremental
rounds add to what was shown. `RtUpdate` is the code: the timer starts an
update; the update takes its copy (`Begin`), awaits each endpoint (`Serve`,
`Fail`), applies the answers and stores the copy (`Store`), then hands it to
RailViz (`RailvizUpdate`). `asOf` is a history variable that records what was on
offer at the last publication; the refinement needs it to say "since the round
before". The timer starts an update although the one before may still run
(`timer.cc:59`), so updates overlap: `MaxRunning` bounds how many, 2 in the runs,
any number in the proofs. The history variable `overtaken` holds the updates that
were under way when another one stored. `ViewSpec` holds for every other update;
one that was overtaken while it waited (`PublishOvertaken`) publishes a timetable that
does not know what the other stored, and `rt_overlap` shows that an incremental
update is lost that way. `RailvizFollows` names the other effect of an overlap:
`rtt_` is assigned and `railviz_->update` called in two steps (`nigiri.cc:347`,
`:348`), and where two updates cross between them RailViz keeps the older
timetable until the next update ends (`raced`).

### ImportView, ImportPipeline

The import phase is one thread; its difficulty is the number of orders. `Take` is
a turn of `import_dispatcher::run`, `todo` the collectors the message still has to be
handed to; `Ignore`, `Wait`, `Execute`, `ExecuteFails` are the outcomes of that.
Any operation may throw. After the queue has run empty, `Verify` and `InitModule`
are the end of `import` and the loop of `init_modules`, `Started` is
`publish("/init")`, whose errors end the program as those of `init` do. `RanIfPossible` is an
exact characterisation (if and only if) of what is executed, independent of the
order of modules. The abstract specification ImportView knows neither messages nor
their order: an operation may run when the input files and the operations that
succeeded give what it needs, and the import ends when none can; `ImportViewSpec` says that the
dispatcher implements it. `WhichOsmFile` says which of several OSM files each operation
works on. `InitFinds` holds with `nigiri.lookup`, the default; without it gbfs'
`init` ends the program, as the stations event is published all the same.

### ImportCache

The protocol between preprocessed data and its `import.ini`, over crashes and
restarts with other input and other versions of the program. The data of a build in
progress is `Partial`, and `builtBy` the version that wrote it, of which
`import.ini` keeps no record. A crash may occur between any two steps, also between
opening `import.ini`, which empties it, and writing it; an exception of the build or of
`write_ini` ends the import of the module until the next start (`ImportThrows`).
`LoadFails` is a load that throws: because the data is partial or of another version,
or by a fault of the system. ppr then builds the graph it found again, whatever it
is, and gives up if it cannot load the new one (`ppr.cc:366`, `:420`); the others give
up at once. The user may end a program that is up or whose import failed (`End`).

`UpWithItsInput` names its exception: if a build for input B
overwrote the data of A and ended before it touched `import.ini`, a restart with A
trusts the old `import.ini` and may serve partial data (plain modules and tiles
fail or succeed according to what the loader notices; ppr builds again). The
history variable `spoiled` marks exactly this case, and the theorem shows it is
the only one. `NeedlessBuilds` counts the builds of data that was there already, of the
present input and version: over any number of restarts there is at most one per crash,
exception or failed load. `ComesUp` names who may stay down: modules other than ppr
whose `import.ini` vouches for data that was overwritten or is of another version.

### RailVizMain

Each handler of `main.js` is an action: the load event (`MapLoad`), the ports
(`MapUpdate`, `SetTimeOffset`, `SetDetailFilter`, `ClearDetailFilter`,
`SetDetailWalks`, ...), the timers, and the answers (`TrainsReceived`,
`TripsReceived`, `CallFailed`). Data is named by what it was asked for. `opened` is
the calls that are open with the purpose of each; `layers` what the layer objects
hold, `onMap` what the map was told of it, which is nothing before the load event;
`render` what `Render.setData` was given last. `failed` is a history variable that
the properties use to name their exception: a call that was refused. `thrown` counts
the calls of `makeTrainsRequest` that threw for want of `mapInfo`: the spinner has
been switched on by then and stays on.

### RailVizRender, TrainMotion, RailVizConnections

Three components that share no variable, checked by one run in which each initial
state lets one of them run (`running` in MCRailVizMap).

*RailVizRender*: `callbacks` is the number of animation frames asked for;
`TooEarly` of them may be sent back by the frame limiter. `Paint` is
`preRender` and `render` of the custom layer: it fills the attributes if they are
not `initialized`, and draws to the screen and the offscreen buffer unless nothing
forces it. `EnableTrains` forces it only where the value changes, and resets
`forceDraw` otherwise, as the code does.
`PickedTrainIsDrawn` names the one window in which the index of a click
may be that of an older train, from `setData` to the next frame.

*TrainMotion*: `Frame` is `updatePosition` at a time that may be any, earlier ones
included, followed by what `PositionAttributes.update` writes. Positions are
scaled by the travel time so that they are integers. `Totals` is the loop that adds up
the lengths of lines (`preprocessPolyline`) and of polylines (constructor of `Train`).
A train that departs and arrives at once has the position NaN (`model.js:75`): no
line fits and the loops stop at the last one, with progress 0; one that arrives before it
departs is never visible. Every polyline has a line, because `nigiri/src/railviz.cc:296` always
encodes two coordinates. `DrawnOnItsRoute` holds for every
train whose time did not go back while it was visible (`rewound`); after that the
progress may leave the interval [0, 1] that the comment at `model.js:37` promises,
because polylines and lines are searched forwards only.

*RailVizConnections*: `SetConnections` is a search with its calls and cache look-ups;
an answer finds the state of whichever search is present then. A walk may bring its
path with the result; an answer may be without usable content (`TripsUnusable`,
`WalkUnusable`), at which the handler throws before it shows anything.
`overwritten`, `crossed` and `stuck` are history variables: an answer to an earlier call
replaced the trips before it was recognised as late (`connectionmgr.js:51`), a call was
open when the search options changed, and a walk was left without a path and without an
error.

### ProtocolSchema, ProtocolOutputs, ProtocolTool

`ProtocolSchema` holds the pure part: the files that are read from the root by their
includes, each once (`Extracted`), what a name refers to from within a namespace (the
deepest enclosing one that fits), that a name declared twice is an error, where a type
is used, and what a filter includes: a list of includes that matches nothing lets
nothing in, no list lets all in (`listed`). `ProtocolOutputs` gives for each format the
names a generated file defines and the names it refers to. In TypeScript these are
*last* names: a file declares, imports and uses `Opt`, whatever namespace it is of, and
only the import says from which file. `ProtocolTool` is the tool with its files: the
developer edits schemas and paths, describes types and makes slips in the YAML files
(`broken`) between the runs; `ReadSchema` may meet a file that cannot be parsed,
`UpdateDoc` brings the documentation up to date, `DocFails` is its end by an exception
after some of the files were opened, which empties them (`doc/inout.ts:106`),
`WriteOutput` writes an output or throws and ends only that one. The configuration is
taken to be valid.

`RefsDefined` names the references that can dangle: to what a filter leaves out,
and, if whole messages are written, paths that name a type used in unions alone.
`NamesDeclared` says that a TypeScript file has every name it uses in its scope with the
type that is meant; that the name means nothing else besides is promised only without a
`Homonym`, another type with the same last name in a namespace that the file meets. The
run has such schemas (`m.Opt`, `m.x.Opt`); the schemas of this repository have none.
`DescriptionsKept` says that runs that reach their outputs, and runs that end at the
schema or the tags, lose no description of what still exists. It exempts the runs that an
error in the documentation files or the paths ends: these do lose descriptions,
the whole files that were open.

## Runs

| run | states | bounds | shows |
|---|---|---|---|
| `remote` | 175 032 | 2 peers with a common operation, 2 calls | all properties of Remote but `TypeOK` |
| `remote_batch` | violation | 2 peers, 1 call | the batch starts before all remotes registered |
| `batch` | 7 482 | files of up to 5 lines, 1 thread (2 queries at a time) | all properties of Batch but `TypeOK` |
| `batch_malformed` | violation | files of up to 3 lines | a response is missing when the batch stops |
| `batch_no_target` | violation | files of up to 2 lines | the batch does not end |
| `rt_update` | 1 155 934 | 2 endpoints, 2 updates that may overlap, 2 messages, 1 failure | all properties of RtUpdate but `UpdatesKept`, and RtView; about three minutes |
| `rt_overlap` | violation | the same, 2 failures | an incremental update is lost |
| `import` | 38 044 | 4 orders of modules, 24 inputs | all properties of ImportPipeline but `TypeOK`, and ImportView |
| `import_cache` | 21 558 | 3 inputs, 2 versions, 4 faults | all properties of ImportCache |
| `railviz_main` | 351 904 | 2 filters, 3 views, 2 calls of either kind at a time, 1 request that throws | all properties of RailVizMain but `TypeOK` |
| `railviz_map` | 470 991 | 2 sets of trains, 4 callbacks; 3 trains, times 0 to 10; 3 results (one with a path of its own), 2 walks, 2 options, 3 searches | the properties of RailVizRender, TrainMotion, RailVizConnections |
| `protocol` | 1 108 012 | up to 8 declarations in 2 files and 2 namespaces, 5 filters, all options, 3 edits | all properties of ProtocolTool but `TypeOK` |

*Why these bounds are enough to be interesting.* Two peers with a common and a
private operation are the least in which one link takes over a name, and two
calls the least in which one is sent on a link while another is still posted to
it. Five lines with two queries in flight let the end of the file be reached with
2, 1 or 0 queries at the receiver, and by every handler. Two messages and one
failure let an endpoint fail and recover, also with a newer message; two updates at
a time are the least that overlap, and of two endpoints one can be served before and
the other after an update that overtakes. Four faults allow a build to be interrupted
for each of three inputs and once more; two versions let data be taken from the one to
the other and back. `Wrap` stands for 2^32; it is larger than any value
that is not reached by wrapping around.

`railviz_main` lets either the filter vary or the view, as `OneVaries` says (an action
constraint chosen by the initial view): two filters and two calls for trips with
one view, or two views and two calls for trains with one filter. Two calls are the
least that answer out of order. The trains of `railviz_map` have polylines in both
directions, a line of length 0, and lines short enough for a frame to skip. Three
searches let an answer skip one. The schemas of `protocol` have a name declared twice,
in a namespace and the one around it, and unions, vectors and paths that use the same
table; either the configuration varies, for complete schemas and those that lack up to
three declarations, or the developer edits with the usual one.

`TypeOK` of Remote, Batch, ImportPipeline, RailVizMain and ProtocolTool, and `RenderTypeOK`, are not
checked by a run but proved. Bounds that stand in a guard are `MaxThrown`, `MaxCallbacks`, `MaxTime`,
`MaxSearches` and `MaxEdits`; the theorems hold for every value of those they meet.

`CHECK_DEADLOCK FALSE` is set where the system may stop: a stopped io_service
(Batch), all links stopped and all calls answered (Remote), a program that runs or
has ended (ImportPipeline).

### Fairness

Remote: the io_service and the dispatcher run what is queued, timers expire;
nothing is assumed of the network or the peers, not even that a connection
attempt has an outcome. Batch: handlers run, operations end. RtUpdate: the timer
fires, updates run on, a request ends (the HTTP client has a timeout) either way.
ImportPipeline, ImportCache: the one thread goes on; a program that is off or whose
import has failed is started again (a program that is up need not end).
All of this is weak fairness. RailVizMain: the browser delivers
an answer or an error of each call (weak). The timer for trips fires although other
events switch it off and on again, and the last call for trips, made again every 90
seconds, is answered well at some time (strong: without the latter a server that
always fails shows no filter). RailVizRender: animation frames run, the map draws when
it was asked to, and time passes (weak, a visible page). Nothing is assumed of users
and developers.

## Proofs

TLAPS checks for all values of the constants:

* **RemoteProofs**: `TypeOK`, `RegistryOwned`, `CallNotLost`, `OneAnswerOfAKind`.
  The inductive invariant adds that a restart timer waits only for a failed link
  that registered nothing (otherwise `start` could replace a connection that still
  owns names), and for each call which combinations of dispatch step, entries,
  timer and answers exist. `RegistryOwned` is needed for the calls, too: a call is
  only posted to a link that exists.
* **BatchProofs**: `TypeOK`, `BoundedInFlight`, `CountsInFlight`,
  `StopsWhenAnswered`. The inductive invariant is `LinesInv` (each line read is in
  exactly one of: at the receiver, arrived, written), `Slots` (the number of
  unanswered queries and injections owed), `CountsInFlight` and `StopInv` (the
  io_service stops with nothing unanswered and nothing left to read). Cardinality
  is handled by the theorems of FiniteSetTheorems.
* **RtUpdateProofs**: `TypeOK`, `RailvizFollows` and the refinement `Spec => ViewSpec`,
  for any number of overlapping updates. The invariant says that an update that was not
  overtaken has a copy of what it was taken from (`Fresh`), answers from after
  the last publication, and, once it has stored, a copy of what is published.
* **ImportCacheProofs**: `TypeOK`, `IniVouches`, `UpWithItsInput`,
  `NeedlessBuilds`. The invariant adds what each step of the import has
  established (`Progressing`), and that a fault is still unspent in every state from
  which the next start would build what is there already (`Due`, `Paid`).
* **ImportPipelineProofs**: `TypeOK`, `RunsOnce`, `RunningHasAll`, `RanIfPossible`,
  `WhichOsmFile`, and with the option `nigiri.lookup` also `InitFinds`. The invariant
  `IInv` says that every message in the
  queue and every dependency is obtainable from the input files or from an operation that
  succeeded, that what ran had all it required, and that nigiri shared its lookup.
  From it: gbfs ran, so stations were available, so nigiri ran and shared.
  `RanIfPossible` and `WhichOsmFile` need a second invariant, `HInv`, on what was
  handed to whom: an event that can be had and is accepted has arrived, or is in the queue,
  or is the present message and its collector is still to be served (`Delivered`); the
  messages before the other events are the OSM files that are left, and a collector holds
  the last one taken, or the first one if that was all it needed (`OsmTaken`). It does
  not hold before the first message is taken: the input files enter the queue only
  then (`Fresh`). The order of collectors is a flattened sequence; that each collector
  is in it is shown by the least prefix without it (`FlattenElements`).
  From both invariants follows the refinement `Spec => ImportViewSpec`: a step that
  executes an operation is a `Run` of ImportView, because what has arrived was available
  and accepted (`DeliverRuns`), `Verify` is its `End`, because what is available has
  arrived (`NothingLeft`), and all other steps leave the view as it is.
* **RailVizMainProofs**: `TypeOK`, `SpinnerCountsCalls`, `ViewIsConsistent`,
  `TripsOfTheFilter`, `TrainsOfTheView`. The invariant adds `LastCalls`, what the last
  call of either kind was made for: the present filter (setting it sends it), the
  present view or one that the debounce timer is about to replace. That an
  answer is dropped unless it is the last call's is then enough.
* **RailVizMapProofs**: `RenderTypeOK`, `PickedTrainIsDrawn`, `DrawnOnItsRoute`,
  `ConnectionsDrawn`, `PprCacheOfOptions`. Attributes are only replaced by a frame that paints the
  offscreen buffer, too; a walk without a path has a call that is still open. For the trains,
  lemmas show that `Totals` are sums (`TotalsAre`), that the lines of a polyline lie
  end to end in either direction (`LinesAre`), and that the forward search finds a
  line for every position at or behind the place where it begins (`Fits`). The
  invariant `MotionInv` says that this place is never ahead of the train: while the time
  only grows, the position is on the present line and behind the start of its polyline.
* **ProtocolToolProofs**: `TypeOK`, `RefsDefined`, `NamesDeclared`, `DescriptionsKept`. What a
  file defines and what it refers to are computed from the same schema: lemmas
  about each kind of reference show that the definitions cover them (for TypeScript
  `UsedInScope`, and `OtherMeanings` for the last names that clash). The invariant
  says that the documentation and the files of the present run are those of the
  schema, which is not edited during a run.

They rest on the assumptions the modules name: finite sets of peers and tasks, a
query file no longer than `MaxLen`, a counter wide enough for the file
(`Wrap > MaxLen`; in the code 2^32), a number of threads above 0, names that are
distinct where the modules use several kinds in one variable. The protocol tool assumes
that members of unions are tables (`UnionsOfTables`): a rule of FlatBuffers, which the
tool does not check; the map that trains have polylines (others are dropped by
`preprocess`) and polylines at least one line.

Only model-checked: liveness (`EveryCallAnswered`, `Reconnects`,
`EveryLineAnswered`, `Terminates`, `ShownInTheEnd`, `Ends`, `ComesUp`, `FilterShown`,
`NewDataDrawn`), which the prover does not reach. Every safety and action property of
the passing runs is proved. Where a proof is by induction, over the length of a
sequence, it considers the least number for which the claim fails (`LeastOf`, from the
well-foundedness of `<`).

## Disagreements with the documentation

1. `remote_batch`: each remote is counted twice (`remote.cc:97` and `:106`).
2. `batch_malformed`: a malformed line decrements `in_flight_` (`batch_mode.cc:98`).
3. `batch_no_target`: a query without a target keeps a batch from ending
   (`main.cc:159`).
4. `rt_overlap`: overlapping incremental updates forget (`nigiri.cc:347`).

`PROJECT.json` quotes the lines they contradict. Met while modelling and not turned
into runs of their own:

* `model.js:37` calls the progress a value in [0, 1]; see TrainMotion above.
* `import.ini` does not tell which version of the program wrote the data: a new version
  finds its input unchanged and loads what it may not be able to read. Only ppr builds
  again.
* RailViz may keep an older realtime timetable than routing where two updates
  cross between `nigiri.cc:347` and `:348`.
* An answer without routes or trips throws in its handler (`connectionmgr.js:208`), and
  the connections are not drawn.
* The protocol tool's README says that types that no longer exist are removed from
  the documentation; the file of a namespace that has vanished is never visited
  (`doc/inout.ts:56`).
* An error in one documentation file or in the paths empties other files
  (`doc/inout.ts:106`), with the descriptions in them.
* TypeScript files write types by their last name (`typescript/output.ts:158`,
  `includes.ts:32`): two types of one last name that meet in a file would clash. It does
  not happen in the present schemas.
* It says that a path without output answers `motis.MotisSuccess`; the Markdown
  page writes `motis.MotisNoMessage` (`output/markdown/output.ts:202`).
* Links of the paths page lead to headings that are not in that file.
* The wildcard of a filter replaces only the first star of a part of a name.
* `readTags` reads the key "descrption".
* A custom type whose name starts with that of a basic type is not parsed.

## Abstractions

* Messages are their content type and what identifies them; data is a version, an
  input or a line. Logging, progress and statistics are left out.
* `remote::send` numbers calls; here the call is its number. `int32_t` numbers
  would repeat after 2^32 calls of one link, which is not modelled.
* Names of remote operations are looked up exactly; the prefix rule is not modelled.
* Unsynchronised accesses (the queue of the dispatcher, `railviz::rtt_`) are atomic
  in the model; they are listed as hazards.
* On the map, data is named by the request it answers, walks by their id, trains by
  integers; coordinates, colours, shaders and hovering are left out.
* A schema is a set of declarations; in ProtocolOutputs a file is the names it defines
  and refers to.
* The order in which a crash leaves two files written by a process on disk is that
  of the writes.

## Not modelled

*Components*: HTTP requests, the scheduler, parking, gbfs, intermodal, osr, osrm, ppr,
adr, tiles, the web server and the launcher (see `PROJECT.json` for each); the Elm
part of the page and the Android application, which are written in other languages;
styles, markers and sharing vehicles of the map, which have no state of their own;
the parser of schemas; tests and build.

*Hazards that were found and that no property covers*, besides the one that
`PROJECT.json` lists (`modules/gbfs/src/gbfs.cc:176`):

* `base/module/src/registry.cc:82`: the lookup takes the greatest name not after the
  target and tests that it is a prefix; another name in between hides a shorter one.
* `base/module/src/dispatcher.cc:167`: worker threads push to the queue that the
  io_service pops, without a lock.
* `base/module/src/dispatcher.cc:116`: a callback that throws is called a second time,
  with the error.
* `base/launcher/src/main.cc:168`: the callback for registered remotes is set after the
  init operation.
* `modules/nigiri/src/railviz.cc:403`: a shared_ptr is assigned while queries read it.
* `modules/nigiri/src/nigiri.cc:487`, `:473`: the realtime timetable exists only
  where the dump is read; the dump is written in place.
* `base/module/include/motis/module/ini_io.h:71`: a short write may leave a line
  that throws at every start.
* `base/bootstrap/src/import_files.cc:64`: only the first 50 MB and the size are hashed.
* `modules/parking/src/database.cc:201`, `parking.cc:211`: stale foot edges; an endpoint
  that fails ends the whole round, but lots added before stay.
* `base/module/src/context/motis_http_req.cc:81`: redirects without an end.
* `modules/gbfs/src/gbfs.cc:589`: the table of walks to stations is awaited if the one to
  free bikes was requested.
* `ui/web/js/railviz/render.js:137`: every drawn frame asks for a callback, also one drawn
  because the map moved: several may wait at a time, and `stop` cancels the last.
* `tools/protocol/src/doc/inout.ts:56`: documentation of a vanished namespace.

## Plan

Next, in this order; each with its runs, and theorems where the state is not recursive.

1. **HttpRequest**: redirects and the single assignment of the future; later
   composed with RtUpdate in place of `Serve` and `Fail`.
2. **Parking**: the database (lots, foot edges, import.ini that covers additions) and
   ParkenDD updates with queries between their steps; the abstract specification is
   an atomic round.
3. **GbfsFeed**: providers updated by one operation per feed, under the lock of the
   module; the same abstract specification. **GbfsRoute**: which tables are requested
   and which awaited.
4. **Registry**: prefix lookup against a reference definition over all small sets of
   names; subscriptions.
5. **Dispatcher**: local calls, `publish` and `req` over an abstract scheduler, the
   callback that is called once; composed with Remote.
6. **Intermodal**: the life of a query with its sub-queries.
7. **NigiriCache**: the dump named by a hash; the realtime timetable by options.
