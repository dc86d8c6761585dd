----------------------- MODULE ImportPipelineProofs -----------------------
(***************************************************************************)
(* Proofs about ImportPipeline: for any orders of the modules and any       *)
(* input files, an operation runs once, and what runs has what it needs.    *)
(* What the proofs rest on is that every message and every dependency comes *)
(* from the input files or from an operation that succeeded.                *)
(***************************************************************************)
EXTENDS ImportPipeline, SequenceTheorems, WellFoundedInduction, TLAPS

Obtainable == {m \in Messages : m.event \in Available}

Supplied ==
  /\ queue \in Seq(Obtainable)
  /\ msg \in Obtainable
  /\ \A c \in Subscribed : \A e \in DOMAIN deps[c] : deps[c][e] \in Obtainable

RanComplete == \A c \in Subscribed : outcome[c] # "none" => DOMAIN deps[c] = Requires(c)

SharedByNow ==
  "nigiri" \in Subscribed /\ outcome["nigiri"] = "ok" => Shares("nigiri") \subseteq shared

Phases ==
  /\ pc = "importing" => inits = 0
  /\ pc \in {"init", "running"} /\ input.required =>
       \A i \in DOMAIN order : ImportSuccessful(order[i])

IInv == TypeOK /\ Supplied /\ RanComplete /\ SharedByNow /\ Phases

\* The rest is about what has been handed to whom; it starts with the input files.
Fresh ==
  /\ queue = <<Event("FILE")>> /\ msg = Event("FILE") /\ todo = <<>>
  /\ \A c \in Subscribed : outcome[c] = "none" /\ DOMAIN deps[c] = {}

\* An event that is available and accepted has arrived, unless it is on its way.
Arrives(c, e) ==
  \/ outcome[c] # "none"
  \/ e \in DOMAIN deps[c]
  \/ msg.event = e /\ c \in ToSet(todo)
  \/ \E i \in DOMAIN queue : queue[i].event = e

Delivered ==
  \A c \in Subscribed : \A e \in Available \cap Requires(c) :
    Matches(c, Event(e)) => Arrives(c, e)

\* The last of the OSM files that c was handed is the j-th: who needs no other
\* event ran with the first of them.
Handed(c, j) ==
  IF j = 0 THEN "OSM" \notin DOMAIN deps[c]
  ELSE /\ "OSM" \in DOMAIN deps[c]
       /\ IF Requires(c) = {"OSM"}
          THEN outcome[c] # "none" /\ deps[c]["OSM"].of = input.osm[1]
          ELSE deps[c]["OSM"].of = input.osm[j]

\* k OSM files were taken from the queue, the others head it.
OsmQueue(k) ==
  LET left == Len(input.osm) - k IN
  /\ left <= Len(queue)
  /\ \A i \in DOMAIN queue :
       IF i <= left THEN queue[i] = [event |-> "OSM", of |-> input.osm[k + i]]
       ELSE queue[i].event \notin {"OSM", "FILE"}

OsmTaken(k) ==
  /\ k \in 0 .. Len(input.osm)
  /\ OsmQueue(k)
  /\ k < Len(input.osm) => msg.event \in {"FILE", "OSM"}
  /\ msg.event = "OSM" => k > 0 /\ msg.of = input.osm[k]
  /\ \A c \in Subscribed : "OSM" \in Requires(c) =>
       /\ k < Len(input.osm) \/ msg.event = "OSM" => DOMAIN deps[c] \subseteq {"OSM"}
       /\ \/ Handed(c, k)
          \/ c \in ToSet(todo) /\ msg.event = "OSM" /\ Handed(c, k - 1)

\* Whoever is complete has run, and what has arrived was accepted.
Accepted ==
  \A c \in Subscribed :
    /\ outcome[c] = "none" => DOMAIN deps[c] # Requires(c)
    /\ \A e \in DOMAIN deps[c] : Matches(c, Event(e))

Drained == pc # "importing" => queue = <<>> /\ todo = <<>>

HInv ==
  /\ Accepted /\ Drained
  /\ Fresh \/ (Delivered /\ \E k \in 0 .. Len(input.osm) : OsmTaken(k))

-----------------------------------------------------------------------------
\* Sequences over a set are sequences over a larger one, and are closed under
\* concatenation.
LEMMA SeqLarger == ASSUME NEW S, NEW T, S \subseteq T PROVE Seq(S) \subseteq Seq(T)
  BY SeqMonotonic

LEMMA ConcatIn ==
  ASSUME NEW S, NEW s \in Seq(S), NEW t \in Seq(S)
  PROVE  s \o t \in Seq(S)
  OBVIOUS

LEMMA SeqOfElements ==
  ASSUME NEW S, NEW s \in Seq(S), NEW T, \A i \in DOMAIN s : s[i] \in T
  PROVE  s \in Seq(T)
<1> QED
  BY Len(s) \in Nat, s = [i \in 1 .. Len(s) |-> s[i]], DOMAIN s = 1 .. Len(s)

\* What the operations and the input files put into the queue are messages.
LEMMA EventIn == ASSUME NEW e \in Events PROVE Event(e) \in Messages
  BY DEF Event, Messages

LEMMA PublishesType ==
  ASSUME NEW c, NEW d, c = "ppr" => d["OSM"] \in Messages
  PROVE  Publishes(c, d) \in Seq(Messages)
<1>1. d["OSM"] \in Messages => [event |-> "PPR", of |-> d["OSM"].of] \in Messages
  BY DEF Messages, Events
<1>2. Event("NIGIRI") \in Messages /\ Event("STATIONS") \in Messages
  BY EventIn DEF Events
<1>3. /\ Event("OSRM_FOOT") \in Messages /\ Event("OSRM_BIKE") \in Messages
      /\ Event("OSRM_CAR") \in Messages
  BY EventIn DEF Events
<1> QED
  BY <1>1, <1>2, <1>3 DEF Publishes

InputMessages == {m \in Messages : m.event \in {"OSM", "COASTLINE", "DEM"}}

LEMMA InputEventsType == ASSUME NEW in \in Input PROVE InputEvents(in) \in Seq(InputMessages)
<1> DEFINE osm == [i \in DOMAIN in.osm |-> [event |-> "OSM", of |-> in.osm[i]]]
<1>1. in.osm \in Seq(Files)
  <2>1. in.osm \in {<<>>, <<"file1">>, <<"file1", "file2">>}
    BY DEF Input
  <2>2. <<>> \in Seq(Files) /\ <<"file1">> \in Seq(Files) /\ <<"file1", "file2">> \in Seq(Files)
    BY DEF Files
  <2> QED
    BY <2>1, <2>2
<1>2. osm \in Seq(InputMessages)
  <2>1. DOMAIN in.osm = 1 .. Len(in.osm) /\ Len(in.osm) \in Nat
    BY <1>1
  <2>2. \A i \in DOMAIN in.osm : [event |-> "OSM", of |-> in.osm[i]] \in InputMessages
    BY <1>1 DEF InputMessages, Messages, Events
  <2> QED
    BY <2>1, <2>2
<1>3. Event("COASTLINE") \in InputMessages /\ Event("DEM") \in InputMessages
  BY EventIn DEF Events, Event, InputMessages
<1>4. (IF in.coastline THEN <<Event("COASTLINE")>> ELSE <<>>) \in Seq(InputMessages)
  BY <1>3
<1>5. (IF in.dem THEN <<Event("DEM")>> ELSE <<>>) \in Seq(InputMessages)
  BY <1>3
<1> HIDE DEF osm
<1>6. osm \o (IF in.coastline THEN <<Event("COASTLINE")>> ELSE <<>>) \in Seq(InputMessages)
  BY <1>2, <1>4, ConcatIn
<1>7. (osm \o (IF in.coastline THEN <<Event("COASTLINE")>> ELSE <<>>))
        \o (IF in.dem THEN <<Event("DEM")>> ELSE <<>>) \in Seq(InputMessages)
  BY <1>5, <1>6, ConcatIn
<1> QED
  BY <1>7 DEF InputEvents, osm

\* The input files are obtainable.
LEMMA InputObtainable == TypeOK => InputEvents(input) \in Seq(Obtainable)
<1> SUFFICES ASSUME TypeOK PROVE InputEvents(input) \in Seq(Obtainable)
  OBVIOUS
<1>1. InputEvents(input) \in Seq(InputMessages)
  BY InputEventsType, ImportAssumption DEF TypeOK
<1>2. \A i \in DOMAIN InputEvents(input) : InputEvents(input)[i] \in Messages
  BY <1>1 DEF InputMessages
<1>3. \A i \in DOMAIN InputEvents(input) : InputEvents(input)[i] \in Obtainable
  BY <1>2 DEF Obtainable, Available, Messages
<1> QED
  BY <1>1, <1>3, SeqOfElements

\* What could be had can still be had if no operation that succeeded changes.
LEMMA ObtainableKept ==
  ASSUME input' = input, DOMAIN outcome' = DOMAIN outcome,
         \A c \in DOMAIN outcome :
           outcome[c] = "ok" => outcome'[c] = "ok" /\ deps'[c] = deps[c]
  PROVE  Available \subseteq Available' /\ Obtainable \subseteq Obtainable'
<1>1. Available \subseteq Available'
  <2> SUFFICES ASSUME NEW e \in Available PROVE e \in Available'
    OBVIOUS
  <2>1. e \in Events
    BY DEF Available
  <2>2. CASE e = "FILE"
    BY <2>1, <2>2 DEF Available
  <2>3. CASE \E i \in DOMAIN InputEvents(input) : InputEvents(input)[i].event = e
    BY <2>1, <2>3 DEF Available
  <2>4. CASE \E c \in DOMAIN outcome : outcome[c] = "ok"
               /\ \E i \in DOMAIN Publishes(c, deps[c]) : Publishes(c, deps[c])[i].event = e
    BY <2>1, <2>4 DEF Available
  <2> QED
    BY <2>2, <2>3, <2>4 DEF Available
<1> QED
  BY <1>1 DEF Obtainable

\* A set of natural numbers that is not empty has a least one.
LEMMA LeastOf ==
  ASSUME NEW M, M \subseteq Nat, M # {}
  PROVE  \E m \in M : \A k \in M : m <= k
<1>1. PICK m \in M : \A k \in M : ~(<<k, m>> \in OpToRel(<, Nat))
  BY NatLessThanWellFounded, WFMin
<1>2. \A k \in M : ~(k < m)
  BY <1>1 DEF OpToRel
<1> QED
  BY <1>2

\* FlattenSeq concatenates the first n of the sequences, for one n after the other.
Flattens(f, seqs, n) ==
  f = [i \in 1 .. n |-> IF i = 1 THEN seqs[i] ELSE f[i - 1] \o seqs[i]]

LEMMA FlattensExists ==
  ASSUME NEW seqs, NEW n \in Nat
  PROVE  \E f : Flattens(f, seqs, n)
<1> DEFINE M == {m \in Nat : ~ \E f : Flattens(f, seqs, m)}
<1> SUFFICES ASSUME M # {} PROVE FALSE
  OBVIOUS
<1>1. PICK m \in M : \A k \in M : m <= k
  <2> HIDE DEF M
  <2>1. M \subseteq Nat
    BY DEF M
  <2> QED
    BY <2>1, LeastOf
<1>2. m \in Nat /\ ~ \E f : Flattens(f, seqs, m)
  OBVIOUS
<1>3. CASE m = 0
  <2>1. Flattens([i \in 1 .. 0 |-> {}], seqs, 0)
    BY DEF Flattens
  <2> QED
    BY <1>2, <1>3, <2>1
<1>4. CASE m > 0
  <2>1. m - 1 \in Nat /\ ~(m <= m - 1)
    BY <1>2, <1>4
  <2>2. m - 1 \notin M
    BY <1>1, <2>1
  <2>3. PICK f : Flattens(f, seqs, m - 1)
    BY <2>1, <2>2
  <2> DEFINE g == [i \in 1 .. m |-> IF i < m THEN f[i]
                                    ELSE IF i = 1 THEN seqs[i] ELSE f[i - 1] \o seqs[i]]
  <2>4. \A i \in 1 .. m : g[i] = IF i = 1 THEN seqs[i] ELSE g[i - 1] \o seqs[i]
    <3> SUFFICES ASSUME NEW i \in 1 .. m
                 PROVE  g[i] = IF i = 1 THEN seqs[i] ELSE g[i - 1] \o seqs[i]
      OBVIOUS
    <3>1. i # 1 => i - 1 \in 1 .. m /\ i - 1 < m
      BY <1>2
    <3>2. i # 1 => g[i - 1] = f[i - 1]
      BY <3>1
    <3>3. CASE i < m
      <4>1. i \in 1 .. m - 1
        BY <1>2, <3>3
      <4>2. f[i] = IF i = 1 THEN seqs[i] ELSE f[i - 1] \o seqs[i]
        BY <2>3, <4>1 DEF Flattens
      <4>3. g[i] = f[i]
        BY <3>3
      <4> HIDE DEF g
      <4> QED
        BY <3>2, <4>2, <4>3
    <3>4. CASE ~(i < m)
      <4>1. g[i] = IF i = 1 THEN seqs[i] ELSE f[i - 1] \o seqs[i]
        BY <3>4
      <4> HIDE DEF g
      <4> QED
        BY <3>2, <4>1
    <3> QED
      BY <3>3, <3>4
  <2>5. Flattens(g, seqs, m)
    <3>1. g = [i \in 1 .. m |-> g[i]]
      OBVIOUS
    <3>2. g = [i \in 1 .. m |-> IF i = 1 THEN seqs[i] ELSE g[i - 1] \o seqs[i]]
      <4> HIDE DEF g
      <4> QED
        BY <2>4, <3>1
    <3> HIDE DEF g
    <3> QED
      BY <3>2 DEF Flattens
  <2> HIDE DEF g
  <2> QED
    BY <1>2, <2>5
<1> QED
  BY <1>2, <1>3, <1>4

\* The elements of a flattened sequence are those of its sequences.
LEMMA FlattenElements ==
  ASSUME NEW S, NEW seqs \in Seq(Seq(S))
  PROVE  /\ FlattenSeq(seqs) \in Seq(S)
         /\ \A i \in DOMAIN seqs : ToSet(seqs[i]) \subseteq ToSet(FlattenSeq(seqs))
<1>1. CASE Len(seqs) = 0
  BY <1>1, EmptySeq DEF FlattenSeq
<1>2. CASE Len(seqs) # 0
  <2>1. Len(seqs) \in Nat /\ DOMAIN seqs = 1 .. Len(seqs)
    OBVIOUS
  <2> DEFINE f == CHOOSE f : Flattens(f, seqs, Len(seqs))
  <2>2. Flattens(f, seqs, Len(seqs))
    BY <2>1, FlattensExists
  <2>3. FlattenSeq(seqs) = f[Len(seqs)]
    BY <1>2 DEF FlattenSeq, Flattens
  <2> HIDE DEF f
  <2> DEFINE Good(n) == f[n] \in Seq(S) /\ \A i \in 1 .. n : ToSet(seqs[i]) \subseteq ToSet(f[n])
  <2> DEFINE M == {n \in Nat : n \in 1 .. Len(seqs) /\ ~Good(n)}
  <2>4. M = {}
    <3> SUFFICES ASSUME M # {} PROVE FALSE
      OBVIOUS
    <3>1. PICK m \in M : \A k \in M : m <= k
      <4> HIDE DEF M
      <4>1. M \subseteq Nat
        BY DEF M
      <4> QED
        BY <4>1, LeastOf
    <3>2. m \in 1 .. Len(seqs) /\ ~Good(m)
      OBVIOUS
    <3>3. seqs[m] \in Seq(S)
      BY <3>2
    <3>4. f[m] = IF m = 1 THEN seqs[m] ELSE f[m - 1] \o seqs[m]
      BY <2>2, <3>2 DEF Flattens
    <3>5. CASE m = 1
      BY <3>2, <3>3, <3>4, <3>5
    <3>6. CASE m # 1
      <4>1. m - 1 \in 1 .. Len(seqs) /\ m - 1 \in Nat /\ ~(m <= m - 1)
        BY <2>1, <3>2, <3>6
      <4>2. Good(m - 1)
        BY <3>1, <4>1
      <4> DEFINE g == f[m - 1]
                 h == seqs[m]
      <4>3. g \in Seq(S) /\ h \in Seq(S) /\ f[m] = g \o h
        BY <3>3, <3>4, <3>6, <4>2
      <4> HIDE DEF g, h
      <4>4. f[m] \in Seq(S)
        BY <4>3
      <4>5. ToSet(g) \subseteq ToSet(g \o h) /\ ToSet(h) \subseteq ToSet(g \o h)
        <5>1. \A i \in DOMAIN g : i \in DOMAIN (g \o h) /\ (g \o h)[i] = g[i]
          BY <4>3
        <5>2. \A i \in DOMAIN h :
                Len(g) + i \in DOMAIN (g \o h) /\ (g \o h)[Len(g) + i] = h[i]
          BY <4>3
        <5> QED
          BY <5>1, <5>2 DEF ToSet
      <4>6. \A i \in 1 .. m - 1 : ToSet(seqs[i]) \subseteq ToSet(f[m])
        BY <4>2, <4>3, <4>5 DEF g
      <4>7. ToSet(seqs[m]) \subseteq ToSet(f[m])
        BY <4>3, <4>5 DEF h
      <4>8. \A i \in 1 .. m : i = m \/ i \in 1 .. m - 1
        BY <3>2
      <4> QED
        BY <3>2, <4>4, <4>6, <4>7, <4>8
    <3> QED
      BY <3>5, <3>6
  <2> HIDE DEF Good
  <2>5. Good(Len(seqs))
    BY <1>2, <2>1, <2>4
  <2> HIDE DEF M
  <2> QED
    BY <2>1, <2>3, <2>5 DEF Good
<1> QED
  BY <1>1, <1>2

\* The sequence of all collectors is that of the subscribed ones.
LEMMA ImportersIs ==
  ASSUME order \in ModuleOrders
  PROVE  /\ Importers(order) \in Seq(Subscribed)
         /\ Subscribed \subseteq ToSet(Importers(order))
<1> DEFINE seqs == [i \in DOMAIN order |-> CollectorsOf(order[i])]
           Names == Modules \cup {"osrm-foot", "osrm-bike", "osrm-car"}
<1>1. order \in Seq(Modules) /\ DOMAIN order = 1 .. Len(order) /\ Len(order) \in Nat
  BY ImportAssumption
<1>2. \A i \in DOMAIN order : CollectorsOf(order[i]) \in Seq(Subscribed)
  <2> SUFFICES ASSUME NEW i \in DOMAIN order
               PROVE  CollectorsOf(order[i]) \in Seq(Subscribed)
    OBVIOUS
  <2>1. CollectorsOf(order[i]) \in Seq(Names)
    <3>1. order[i] \in Names
      <4>1. order[i] \in Modules
        BY <1>1
      <4> QED
        BY <4>1
    <3>2. CASE order[i] = "osrm"
      <4>1. CollectorsOf(order[i]) = <<"osrm-foot", "osrm-bike", "osrm-car">>
        BY <3>2 DEF CollectorsOf
      <4> QED
        BY <4>1
    <3>3. CASE order[i] = "intermodal"
      <4>1. CollectorsOf(order[i]) = <<>>
        BY <3>3 DEF CollectorsOf
      <4> QED
        BY <4>1
    <3>4. CASE order[i] \notin {"osrm", "intermodal"}
      <4>1. CollectorsOf(order[i]) = <<order[i]>>
        BY <3>4 DEF CollectorsOf
      <4> QED
        BY <3>1, <4>1
    <3> QED
      BY <3>2, <3>3, <3>4
  <2>2. \A j \in DOMAIN CollectorsOf(order[i]) : CollectorsOf(order[i])[j] \in Subscribed
    BY DEF Subscribed, ToSet
  <2> QED
    BY <2>1, <2>2, SeqOfElements
<1>3. seqs \in Seq(Seq(Subscribed))
  BY <1>1, <1>2
<1>4. Importers(order) = FlattenSeq(seqs)
  BY DEF Importers
<1>5. \A i \in DOMAIN order : seqs[i] = CollectorsOf(order[i]) /\ i \in DOMAIN seqs
  OBVIOUS
<1> HIDE DEF seqs
<1>6. \A i \in DOMAIN order : ToSet(CollectorsOf(order[i])) \subseteq ToSet(Importers(order))
  BY <1>3, <1>4, <1>5, FlattenElements
<1> QED
  BY <1>3, <1>4, <1>6, FlattenElements DEF Subscribed

-----------------------------------------------------------------------------
LEMMA InitInv == Init => IInv
<1> SUFFICES ASSUME Init PROVE IInv
  OBVIOUS
<1>1. Event("FILE") \in Messages /\ Event("FILE").event = "FILE"
  BY EventIn DEF Events, Event
<1>2. TypeOK
  <2>1. order \in Seq(Modules)
    BY ImportAssumption DEF Init
  <2> QED
    BY <1>1, <2>1 DEF Init, TypeOK
<1>3. Event("FILE") \in Obtainable
  BY <1>1 DEF Obtainable, Available, Events
<1>4. Supplied
  BY <1>3 DEF Init, Supplied
<1> QED
  BY <1>2, <1>4 DEF Init, IInv, RanComplete, SharedByNow, Phases

\* Added has the message at hand and is otherwise what was there.
LEMMA AddedIs ==
  ASSUME NEW c
  PROVE  /\ DOMAIN Added(c) = (DOMAIN deps[c]) \cup {msg.event}
         /\ \A e \in DOMAIN Added(c) :
              Added(c)[e] = IF e = msg.event THEN msg ELSE deps[c][e]
  BY DEF Added

LEMMA AddedType ==
  ASSUME IInv, NEW c \in Subscribed, Accepts(c)
  PROVE  /\ DOMAIN Added(c) \subseteq Requires(c)
         /\ \A e \in DOMAIN Added(c) :
              /\ Added(c)[e] \in Messages /\ Added(c)[e].event = e
              /\ Added(c)[e] \in Obtainable
<1>1. msg.event \in Requires(c)
  BY DEF Accepts, Matches
<1>2. DOMAIN deps[c] \subseteq Requires(c) /\ msg \in Messages /\ msg \in Obtainable
  BY DEF IInv, TypeOK, Supplied
<1>3. \A e \in DOMAIN deps[c] :
        deps[c][e] \in Messages /\ deps[c][e].event = e /\ deps[c][e] \in Obtainable
  BY DEF IInv, TypeOK, Supplied
<1>4. \A e \in DOMAIN Added(c) : e = msg.event \/ e \in DOMAIN deps[c]
  BY AddedIs
<1>5. \A e \in DOMAIN Added(c) : Added(c)[e] = IF e = msg.event THEN msg ELSE deps[c][e]
  BY AddedIs
<1> QED
  BY <1>1, <1>2, <1>3, <1>4, <1>5

\* The steps of a collector leave all others and all that has run alone.
LEMMA DeliverKeeps ==
  ASSUME IInv, NEW c \in Subscribed, Deliver(c)
  PROVE  \A b \in Subscribed :
           outcome[b] # "none" => outcome'[b] = outcome[b] /\ deps'[b] = deps[b]
  BY DEF Deliver, Ignore, Wait, Execute, ExecuteFails, Accepts, IInv, TypeOK

LEMMA DeliverInv == ASSUME IInv, NEW c \in Subscribed, Deliver(c) PROVE IInv'
<1> USE DEF IInv
<1>1. UNCHANGED <<order, input, msg, inits, pc>> /\ Subscribed' = Subscribed
  BY DEF Deliver, Ignore, Wait, Execute, ExecuteFails, Subscribed
<1>2. \A b \in Subscribed :
        outcome[b] # "none" => outcome'[b] = outcome[b] /\ deps'[b] = deps[b]
  BY DeliverKeeps
<1>3. /\ outcome' \in [Subscribed -> {"none", "ok", "failed"}]
      /\ DOMAIN deps' = Subscribed
  BY DEF Deliver, Ignore, Wait, Execute, ExecuteFails, TypeOK
<1>4. Available \subseteq Available' /\ Obtainable \subseteq Obtainable'
  <2>1. DOMAIN outcome = Subscribed
    BY DEF TypeOK
  <2> QED
    BY <1>1, <1>2, <1>3, <2>1, ObtainableKept
<1>5. \A b \in Subscribed : deps'[b] = deps[b] \/ (b = c /\ Accepts(c) /\ deps'[b] = Added(b))
  BY DEF Deliver, Ignore, Wait, Execute, ExecuteFails, TypeOK
<1>6. \A b \in Subscribed :
        /\ DOMAIN deps'[b] \subseteq Requires(b)
        /\ \A e \in DOMAIN deps'[b] :
             deps'[b][e] \in Messages /\ deps'[b][e].event = e /\ deps'[b][e] \in Obtainable
  BY <1>5, AddedType DEF TypeOK, Supplied
<1>7. queue' \in Seq(Obtainable') /\ shared \subseteq shared' /\ shared' \subseteq {"STATION_LOOKUP", "PPR_DATA"}
  <2>1. queue \in Seq(Obtainable')
    BY <1>4, SeqLarger DEF Supplied
  <2>2. CASE Ignore(c) \/ Wait(c) \/ ExecuteFails(c)
    BY <2>1, <2>2 DEF Ignore, Wait, ExecuteFails, TypeOK
  <2>3. CASE Execute(c)
    <3>1. deps'[c] = Added(c) /\ outcome'[c] = "ok"
      BY <2>3 DEF Execute, TypeOK
    <3>2. c = "ppr" => Added(c)["OSM"] \in Messages
      <4>1. Requires("ppr") \subseteq DOMAIN Added(c) \/ c # "ppr"
        BY <2>3 DEF Execute, Complete
      <4>2. "OSM" \in Requires("ppr")
        BY DEF Requires
      <4>3. Accepts(c)
        BY <2>3 DEF Execute
      <4> QED
        BY <4>1, <4>2, <4>3, AddedType
    <3> DEFINE P == Publishes(c, Added(c))
    <3>3. P \in Seq(Messages)
      BY <3>2, PublishesType
    <3>4. \A i \in DOMAIN P : P[i] \in Obtainable'
      <4> SUFFICES ASSUME NEW i \in DOMAIN P PROVE P[i] \in Obtainable'
        OBVIOUS
      <4>1. P[i] \in Messages /\ P[i].event \in Events
        <5> HIDE DEF P
        <5>1. P[i] \in Messages
          BY <3>3
        <5> QED
          BY <5>1 DEF Messages
      <4>2. c \in DOMAIN outcome'
        BY <1>3
      <4>3. P[i].event \in Available'
        BY <3>1, <4>1, <4>2 DEF Available
      <4> QED
        BY <4>1, <4>3 DEF Obtainable
    <3>5. P \in Seq(Obtainable')
      <4> HIDE DEF P
      <4> QED
        BY <3>3, <3>4, SeqOfElements
    <3>6. queue' = queue \o P
      BY <2>3 DEF Execute
    <3>7. queue' \in Seq(Obtainable')
      <4> HIDE DEF P
      <4> QED
        BY <2>1, <3>5, <3>6, ConcatIn
    <3> QED
      BY <2>3, <3>7 DEF Execute, Shares, TypeOK
  <2> QED
    BY <2>2, <2>3 DEF Deliver
<1>8. TypeOK'
  <2>1. queue' \in Seq(Messages)
    <3>1. Obtainable' \subseteq Messages
      BY DEF Obtainable
    <3> QED
      BY <1>7, <3>1, SeqLarger
  <2>2. \A b \in Subscribed : Requires(b)' = Requires(b)
    BY DEF Requires
  <2>3. todo' \in Seq(Subscribed)
    <3>1. todo \in Seq(Subscribed) /\ todo # <<>> /\ todo' = Tail(todo)
      BY DEF TypeOK, Deliver, Ignore, Wait, Execute, ExecuteFails, Accepts, Hands
    <3> QED
      BY <3>1
  <2> QED
    BY <1>1, <1>3, <1>6, <1>7, <2>1, <2>2, <2>3 DEF TypeOK
<1>9. Supplied'
  BY <1>1, <1>4, <1>6, <1>7 DEF Supplied
<1>10. RanComplete'
  <2> SUFFICES ASSUME NEW b \in Subscribed, outcome'[b] # "none"
               PROVE  DOMAIN deps'[b] = Requires(b)
    BY <1>1 DEF RanComplete, Requires
  <2>1. CASE outcome[b] # "none"
    BY <1>2, <2>1 DEF RanComplete
  <2>2. CASE outcome[b] = "none"
    <3>1. b = c /\ Complete(c) /\ deps'[c] = Added(c)
      BY <2>2 DEF Deliver, Ignore, Wait, Execute, ExecuteFails, TypeOK
    <3> QED
      BY <3>1 DEF Complete
  <2> QED
    BY <2>1, <2>2
<1>11. SharedByNow'
  <2> SUFFICES ASSUME "nigiri" \in Subscribed, outcome'["nigiri"] = "ok"
               PROVE  Shares("nigiri") \subseteq shared'
    BY <1>1 DEF SharedByNow, Shares
  <2>1. CASE outcome["nigiri"] = "ok"
    BY <1>7, <2>1 DEF SharedByNow
  <2>2. CASE outcome["nigiri"] # "ok"
    <3>1. Execute(c) /\ c = "nigiri"
      BY <2>2 DEF Deliver, Ignore, Wait, Execute, ExecuteFails, TypeOK
    <3> QED
      BY <3>1 DEF Execute
  <2> QED
    BY <2>1, <2>2
<1>12. Phases'
  <2>1. pc = "importing"
    BY DEF Deliver, Ignore, Wait, Execute, ExecuteFails, Accepts, Hands
  <2> QED
    BY <1>1, <2>1 DEF Phases
<1> QED
  BY <1>8, <1>9, <1>10, <1>11, <1>12

LEMMA TakeInv == ASSUME IInv, Take PROVE IInv'
<1> USE DEF IInv
<1>1. /\ UNCHANGED <<order, input, deps, outcome, shared, inits, pc>>
      /\ Subscribed' = Subscribed /\ Obtainable' = Obtainable
  BY DEF Take, Subscribed, Obtainable, Available
<1>2. queue \in Seq(Obtainable) /\ queue # <<>>
  BY DEF Take, Supplied
<1>3. msg' \in Obtainable /\ Tail(queue) \in Seq(Obtainable)
  BY <1>2 DEF Take
<1>4. (IF Head(queue).event = "FILE" THEN InputEvents(input) ELSE <<>>) \in Seq(Obtainable)
  BY InputObtainable
<1>5. queue' \in Seq(Obtainable)
  BY <1>3, <1>4, ConcatIn DEF Take
<1>6. queue' \in Seq(Messages) /\ msg' \in Messages
  <2>1. Obtainable \subseteq Messages
    BY DEF Obtainable
  <2> QED
    BY <1>3, <1>5, <2>1, SeqLarger
<1>7. TypeOK'
  <2>1. todo' \in Seq(Subscribed)
    BY ImportersIs DEF Take, TypeOK
  <2> QED
    BY <1>1, <1>6, <2>1 DEF TypeOK, Requires
<1>8. Supplied'
  BY <1>1, <1>3, <1>5 DEF Supplied
<1> QED
  BY <1>1, <1>7, <1>8 DEF RanComplete, SharedByNow, Phases, Requires, Shares, ImportSuccessful

\* Once the queue has run empty, nothing but the phase changes.
LEMMA PhaseInv == ASSUME IInv, Verify \/ InitModule \/ Started \/ UNCHANGED vars PROVE IInv'
<1> USE DEF IInv
<1>1. /\ UNCHANGED <<order, input, queue, msg, todo, deps, outcome, shared>>
      /\ Subscribed' = Subscribed /\ Obtainable' = Obtainable
  BY DEF Verify, InitModule, Started, vars, Subscribed, Obtainable, Available
<1>2. \A i \in DOMAIN order : ImportSuccessful(order[i])' = ImportSuccessful(order[i])
  BY <1>1 DEF ImportSuccessful
<1>3. Len(order) \in Nat
  BY ImportAssumption DEF TypeOK
<1>4. inits' \in 0 .. Len(order) /\ pc' \in {"importing", "init", "running", "aborted", "init_error"}
  BY <1>3 DEF Verify, InitModule, Started, vars, TypeOK
<1>5. TypeOK'
  BY <1>1, <1>4 DEF TypeOK, Requires
<1>6. Supplied' /\ RanComplete' /\ SharedByNow'
  BY <1>1 DEF Supplied, RanComplete, SharedByNow, Requires, Shares
<1>7. Phases'
  BY <1>1, <1>2 DEF Verify, InitModule, Started, vars, Phases, TypeOK
<1> QED
  BY <1>5, <1>6, <1>7

LEMMA NextInv == IInv /\ [Next]_vars => IInv'
  BY DeliverInv, TakeInv, PhaseInv DEF Next

LEMMA InvCorrect == Spec => []IInv
  BY InitInv, NextInv, PTL DEF Spec

-----------------------------------------------------------------------------
\* Type correctness; in particular a collector keeps only messages of the
\* events it requires, each under its own name.
THEOREM TypeCorrect == Spec => []TypeOK
<1>1. IInv => TypeOK
  BY DEF IInv
<1> QED
  BY <1>1, InvCorrect, PTL

\* An import operation that has run is not run again, and the events it ran
\* with are not replaced (event_collector::require).
THEOREM RunsOnceCorrect == Spec => RunsOnce
<1>1. IInv /\ [Next]_vars =>
        [\A c \in DOMAIN outcome :
           outcome[c] # "none" => outcome'[c] = outcome[c] /\ deps'[c] = deps[c]]_vars
  <2> SUFFICES ASSUME IInv, Next, NEW c \in DOMAIN outcome, outcome[c] # "none"
               PROVE  outcome'[c] = outcome[c] /\ deps'[c] = deps[c]
    OBVIOUS
  <2>1. CASE \E b \in Subscribed : Deliver(b)
    BY <2>1, DeliverKeeps DEF IInv, TypeOK
  <2>2. CASE Take \/ Verify \/ InitModule \/ Started
    BY <2>2 DEF Take, Verify, InitModule, Started
  <2> QED
    BY <2>1, <2>2 DEF Next
<1> QED
  BY <1>1, InvCorrect, PTL DEF Spec, RunsOnce

\* The active modules are those whose collectors are subscribed.
LEMMA SubscribedOf ==
  ASSUME TypeOK
  PROVE  /\ \A i \in DOMAIN order : order[i] \in {"nigiri", "gbfs", "parking", "ppr"} =>
                                    order[i] \in Subscribed
         /\ "nigiri" \in Subscribed => "nigiri" \in ToSet(order)
         /\ "ppr" \in Subscribed => "ppr" \in ToSet(order)
<1>1. \A m : m \in {"nigiri", "gbfs", "parking", "ppr"} => m \in ToSet(CollectorsOf(m))
  BY DEF CollectorsOf, ToSet
<1>2. \A i \in DOMAIN order : order[i] \in Modules
  BY ImportAssumption DEF TypeOK
<1>3. \A m \in Modules : \A c \in {"nigiri", "ppr"} : c \in ToSet(CollectorsOf(m)) => m = c
  BY DEF Modules, CollectorsOf, ToSet
<1>4. \A c \in {"nigiri", "ppr"} : c \in Subscribed => c \in ToSet(order)
  BY <1>2, <1>3 DEF Subscribed, ToSet
<1> QED
  BY <1>1, <1>4 DEF Subscribed

\* Who publishes the stations and the graph of the ppr.
LEMMA PublishersOf ==
  ASSUME NEW c, NEW d, NEW i \in DOMAIN Publishes(c, d)
  PROVE  /\ Publishes(c, d)[i].event \notin {"OSM", "FILE"}
         /\ Publishes(c, d)[i].event = "STATIONS" => c = "nigiri"
         /\ Publishes(c, d)[i].event = "PPR" => c = "ppr"
<1>1. CASE c \in {"nigiri", "ppr"}
  BY <1>1 DEF Publishes, Event
<1>2. CASE c = "osr"
  BY <1>2 DEF Publishes, Event
<1>3. CASE c \in {"osrm-foot", "osrm-bike", "osrm-car"}
  BY <1>3 DEF Publishes, Event
<1>4. CASE c \notin {"nigiri", "ppr", "osr", "osrm-foot", "osrm-bike", "osrm-car"}
  BY <1>4 DEF Publishes
<1> QED
  BY <1>1, <1>2, <1>3, <1>4

\* They are not among the input files: if they are available, their producer
\* has succeeded.
LEMMA Producers ==
  ASSUME TypeOK
  PROVE  /\ "STATIONS" \in Available => "nigiri" \in Subscribed /\ outcome["nigiri"] = "ok"
         /\ "PPR" \in Available => "ppr" \in Subscribed /\ outcome["ppr"] = "ok"
<1>1. InputEvents(input) \in Seq(InputMessages)
  BY InputEventsType, ImportAssumption DEF TypeOK
<1>2. \A i \in DOMAIN InputEvents(input) : InputEvents(input)[i].event \notin {"STATIONS", "PPR"}
  <2> SUFFICES ASSUME NEW i \in DOMAIN InputEvents(input)
               PROVE  InputEvents(input)[i].event \notin {"STATIONS", "PPR"}
    OBVIOUS
  <2>1. InputEvents(input)[i] \in InputMessages
    BY <1>1
  <2> QED
    BY <2>1 DEF InputMessages
<1>3. DOMAIN outcome = Subscribed
  BY DEF TypeOK
<1> QED
  BY <1>2, <1>3, PublishersOf DEF Available

\* What has run had all its events, and they were to be had.
LEMMA RequiredAvailable ==
  ASSUME IInv, NEW c \in Subscribed, outcome[c] # "none"
  PROVE  Requires(c) \subseteq Available
<1> SUFFICES ASSUME NEW e \in Requires(c) PROVE e \in Available
  OBVIOUS
<1>1. e \in DOMAIN deps[c]
  BY DEF IInv, RanComplete
<1>2. deps[c][e].event = e /\ deps[c][e] \in Obtainable
  BY <1>1 DEF IInv, TypeOK, Supplied
<1> QED
  BY <1>2 DEF Obtainable

\* A program that runs with all imports required has executed every operation
\* with its events, and has the modules that produce them.
THEOREM RunningCorrect == Spec => []RunningHasAll
<1>1. IInv => RunningHasAll
  <2> SUFFICES ASSUME IInv, pc = "running", input.required PROVE RunningHasAll
    BY DEF RunningHasAll
  <2>1. \A c \in Subscribed : outcome[c] = "ok"
    BY DEF IInv, Phases, Subscribed, ImportSuccessful
  <2>2. \A c \in Subscribed : outcome[c] = "ok" /\ Requires(c) \subseteq Available
    BY <2>1, RequiredAvailable
  <2>3. {"gbfs", "parking"} \cap ToSet(order) # {} => "nigiri" \in ToSet(order)
    <3> SUFFICES ASSUME NEW i \in DOMAIN order, order[i] \in {"gbfs", "parking"}
                 PROVE  "nigiri" \in ToSet(order)
      BY DEF ToSet
    <3>1. order[i] \in Subscribed
      BY SubscribedOf DEF IInv
    <3>2. "STATIONS" \in Requires(order[i])
      BY DEF Requires
    <3> QED
      BY <2>2, <3>1, <3>2, Producers, SubscribedOf DEF IInv
  <2>4. "parking" \in ToSet(order) => "ppr" \in ToSet(order)
    <3> SUFFICES ASSUME NEW i \in DOMAIN order, order[i] = "parking"
                 PROVE  "ppr" \in ToSet(order)
      BY DEF ToSet
    <3>1. "parking" \in Subscribed
      BY SubscribedOf DEF IInv
    <3>2. "PPR" \in Requires("parking")
      BY DEF Requires
    <3> QED
      BY <2>2, <3>1, <3>2, Producers, SubscribedOf DEF IInv
  <2> QED
    BY <2>2, <2>3, <2>4 DEF RunningHasAll, IInv, TypeOK
<1> QED
  BY <1>1, InvCorrect, PTL

\* With the option nigiri.lookup, no init() misses the shared data it reads:
\* gbfs was successful only with the stations of the nigiri, which shared its
\* station lookup before it published them.
THEOREM InitFindsCorrect == ASSUME Lookup PROVE Spec => []InitFinds
<1>1. Init => InitFinds
  BY DEF Init, InitFinds
<1>2. IInv /\ InitFinds /\ [Next]_vars => InitFinds'
  <2> SUFFICES ASSUME IInv, InitFinds, [Next]_vars PROVE InitFinds'
    OBVIOUS
  <2>1. CASE InitModule
    <3> DEFINE m == order[inits + 1]
    <3>1. ~(ImportSuccessful(m) /\ ~(InitReads(m) \subseteq shared))
      <4> SUFFICES ASSUME ImportSuccessful(m), m = "gbfs" PROVE "STATION_LOOKUP" \in shared
        BY DEF InitReads
      <4>1. inits + 1 \in DOMAIN order
        BY <2>1, ImportAssumption DEF InitModule, IInv, TypeOK
      <4>2. "gbfs" \in Subscribed
        BY <4>1, SubscribedOf DEF IInv
      <4>3. outcome["gbfs"] = "ok"
        <5>1. "gbfs" \in ToSet(CollectorsOf("gbfs"))
          BY DEF CollectorsOf, ToSet
        <5> QED
          BY <5>1 DEF ImportSuccessful
      <4>4. "STATIONS" \in Requires("gbfs")
        BY DEF Requires
      <4>5. "nigiri" \in Subscribed /\ outcome["nigiri"] = "ok"
        BY <4>2, <4>3, <4>4, RequiredAvailable, Producers DEF IInv
      <4> QED
        BY <4>5 DEF IInv, SharedByNow, Shares
    <3> QED
      BY <2>1, <3>1 DEF InitModule, InitFinds
  <2>2. CASE Verify
    BY <2>2 DEF Verify, InitFinds, IInv, Phases
  <2>3. CASE Take \/ Started \/ UNCHANGED vars
    BY <2>3 DEF Take, Started, vars, InitFinds
  <2>4. CASE \E c \in Subscribed : Deliver(c)
    BY <2>4 DEF Deliver, Ignore, Wait, Execute, ExecuteFails, InitFinds
  <2> QED
    BY <2>1, <2>2, <2>3, <2>4 DEF Next
<1> QED
  BY <1>1, <1>2, InvCorrect, PTL DEF Spec

-----------------------------------------------------------------------------
(* What is handed to whom.                                                 *)

LEMMA ToSetSplit ==
  ASSUME NEW S, NEW t \in Seq(S), t # <<>>
  PROVE  ToSet(t) = {Head(t)} \cup ToSet(Tail(t))
<1>1. \A i \in DOMAIN Tail(t) : i + 1 \in DOMAIN t /\ Tail(t)[i] = t[i + 1]
  OBVIOUS
<1>2. \A i \in DOMAIN t : i # 1 => i - 1 \in DOMAIN Tail(t) /\ Tail(t)[i - 1] = t[i]
  OBVIOUS
<1>3. 1 \in DOMAIN t /\ Head(t) = t[1]
  OBVIOUS
<1>4. \A x \in ToSet(t) : x = Head(t) \/ x \in ToSet(Tail(t))
  BY <1>2, <1>3 DEF ToSet
<1>5. \A x \in ToSet(Tail(t)) : x \in ToSet(t)
  BY <1>1 DEF ToSet
<1>6. Head(t) \in ToSet(t)
  BY <1>3 DEF ToSet
<1> QED
  BY <1>4, <1>5, <1>6

\* The requirements: nobody requires nothing, nor an OSM file with the paths.
LEMMA RequiresIs ==
  ASSUME NEW c
  PROVE  Requires(c) # {} /\ ("OSM" \in Requires(c) => "FILE" \notin Requires(c))
  BY DEF Requires

LEMMA HInitInv == Init => HInv
  BY RequiresIs DEF Init, HInv, Accepted, Drained, Fresh

\* The OSM files come first among the input files.
LEMMA InputQueue ==
  ASSUME input \in Inputs, queue' = InputEvents(input), input' = input
  PROVE  OsmQueue(0)'
<1> DEFINE osm == [i \in DOMAIN input.osm |-> [event |-> "OSM", of |-> input.osm[i]]]
           n == Len(input.osm)
           coast == IF input.coastline THEN <<Event("COASTLINE")>> ELSE <<>>
           dem == IF input.dem THEN <<Event("DEM")>> ELSE <<>>
           Others == {Event("COASTLINE"), Event("DEM")}
           OsmEvents == {[event |-> "OSM", of |-> f] : f \in Files}
<1>1. input.osm \in Seq(Files)
  <2>1. input.osm \in {<<>>, <<"file1">>, <<"file1", "file2">>}
    BY ImportAssumption DEF Input
  <2>2. <<>> \in Seq(Files) /\ <<"file1">> \in Seq(Files) /\ <<"file1", "file2">> \in Seq(Files)
    BY DEF Files
  <2> QED
    BY <2>1, <2>2
<1>2. n \in Nat /\ DOMAIN input.osm = 1 .. n
  BY <1>1
<1>3. /\ osm \in Seq(OsmEvents)
      /\ Len(osm) = n /\ \A i \in 1 .. n : osm[i] = [event |-> "OSM", of |-> input.osm[i]]
  BY <1>1, <1>2
<1>4. coast \in Seq(Others) /\ dem \in Seq(Others)
  <2>1. Event("COASTLINE") \in Others /\ Event("DEM") \in Others
    OBVIOUS
  <2> HIDE DEF Others
  <2>2. <<Event("COASTLINE")>> \in Seq(Others) /\ <<Event("DEM")>> \in Seq(Others)
    BY <2>1
  <2>3. <<>> \in Seq(Others)
    OBVIOUS
  <2> QED
    BY <2>2, <2>3
<1>5. \A m \in Others : m.event \notin {"OSM", "FILE"}
  BY DEF Event
<1>6. InputEvents(input) = (osm \o coast) \o dem
  BY DEF InputEvents
<1> HIDE DEF osm, coast, dem, Others, OsmEvents
<1> DEFINE rest == coast \o dem
<1>7. rest \in Seq(Others) /\ InputEvents(input) = osm \o rest
  BY <1>3, <1>4, <1>6
<1> HIDE DEF rest
<1>8. Len(osm \o rest) = n + Len(rest) /\ Len(rest) \in Nat
  BY <1>3, <1>7
<1>9. ASSUME NEW i \in DOMAIN (osm \o rest)
      PROVE  IF i <= n THEN (osm \o rest)[i] = [event |-> "OSM", of |-> input.osm[i]]
             ELSE (osm \o rest)[i].event \notin {"OSM", "FILE"}
  <2>1. i \in 1 .. n + Len(rest)
    BY <1>3, <1>7, <1>8
  <2>2. CASE i <= n
    BY <1>2, <1>3, <1>7, <2>1, <2>2
  <2>3. CASE ~(i <= n)
    <3>1. i - n \in DOMAIN rest /\ (osm \o rest)[i] = rest[i - n]
      BY <1>2, <1>3, <1>7, <1>8, <2>1, <2>3
    <3> QED
      BY <1>5, <1>7, <2>3, <3>1
  <2> QED
    BY <2>2, <2>3
<1> QED
  BY <1>2, <1>7, <1>8, <1>9 DEF OsmQueue

\* After a delivery, what is available was so before or has just been published.
LEMMA DeliverAvailable ==
  ASSUME IInv, NEW c \in Subscribed, Deliver(c)
  PROVE  \A e \in Available' :
           \/ e \in Available
           \/ /\ Execute(c)
              /\ \E i \in DOMAIN Publishes(c, Added(c)) : Publishes(c, Added(c))[i].event = e
<1> SUFFICES ASSUME NEW e \in Available', e \notin Available
             PROVE  /\ Execute(c)
                    /\ \E i \in DOMAIN Publishes(c, Added(c)) :
                         Publishes(c, Added(c))[i].event = e
  OBVIOUS
<1>1. /\ input' = input /\ DOMAIN outcome = Subscribed /\ DOMAIN outcome' = Subscribed
      /\ DOMAIN deps = Subscribed
  BY DEF Deliver, Ignore, Wait, Execute, ExecuteFails, IInv, TypeOK
<1>2. PICK b \in Subscribed :
        /\ outcome'[b] = "ok"
        /\ \E i \in DOMAIN Publishes(b, deps'[b]) : Publishes(b, deps'[b])[i].event = e
  <2>1. e \in Events /\ e # "FILE" /\ ~ \E i \in DOMAIN InputEvents(input) : InputEvents(input)[i].event = e
    BY DEF Available
  <2>2. \E b \in DOMAIN outcome' : outcome'[b] = "ok"
          /\ \E i \in DOMAIN Publishes(b, deps'[b]) : Publishes(b, deps'[b])[i].event = e
    BY <1>1, <2>1 DEF Available
  <2> QED
    BY <1>1, <2>2
<1>3. outcome[b] # "ok"
  <2> SUFFICES ASSUME outcome[b] = "ok" PROVE FALSE
    OBVIOUS
  <2>1. deps'[b] = deps[b]
    BY DeliverKeeps
  <2>2. e \in Events
    BY DEF Available
  <2> QED
    BY <1>1, <1>2, <2>1, <2>2 DEF Available
<1>4. b = c /\ Execute(c) /\ deps'[c] = Added(c)
  BY <1>1, <1>2, <1>3 DEF Deliver, Ignore, Wait, Execute, ExecuteFails
<1> QED
  BY <1>2, <1>4

\* What a delivery does to the others, to the collector and to the queue.
LEMMA DeliverStep ==
  ASSUME IInv, NEW c \in Subscribed, Deliver(c)
  PROVE  /\ Hands(c) /\ UNCHANGED <<order, input, msg, inits, pc>> /\ Subscribed' = Subscribed
         /\ \A b \in Subscribed : b # c => outcome'[b] = outcome[b] /\ deps'[b] = deps[b]
         /\ \/ /\ outcome'[c] = outcome[c] /\ deps'[c] = deps[c]
               /\ Matches(c, msg) => outcome[c] # "none"
            \/ /\ Accepts(c) /\ deps'[c] = Added(c)
               /\ outcome'[c] = "none" <=> ~Complete(c)
         /\ \/ queue' = queue /\ ~Execute(c)
            \/ Execute(c) /\ queue' = queue \o Publishes(c, Added(c))
         /\ c \in ToSet(todo)
         /\ \A b \in ToSet(todo) : b = c \/ b \in ToSet(todo')
<1>1. todo \in Seq(Subscribed)
  BY DEF IInv, TypeOK
<1>2. Hands(c)
  BY DEF Deliver, Ignore, Wait, Execute, ExecuteFails, Accepts
<1>3. ToSet(todo) = {c} \cup ToSet(todo')
  BY <1>1, <1>2, ToSetSplit DEF Hands
<1>4. DOMAIN outcome = Subscribed /\ DOMAIN deps = Subscribed
  BY DEF IInv, TypeOK
<1>5. UNCHANGED <<order, input, msg, inits, pc>> /\ Subscribed' = Subscribed
  BY DEF Deliver, Ignore, Wait, Execute, ExecuteFails, Subscribed
<1>6. CASE Ignore(c)
  <2>1. ~Execute(c)
    BY <1>6 DEF Ignore, Execute, Accepts
  <2> QED
    BY <1>2, <1>3, <1>5, <1>6, <2>1 DEF Ignore
<1>7. CASE Wait(c)
  <2>1. ~Execute(c)
    BY <1>7 DEF Wait, Execute
  <2>2. outcome[c] = "none"
    BY <1>7 DEF Wait, Accepts
  <2> QED
    BY <1>2, <1>3, <1>4, <1>5, <1>7, <2>1, <2>2 DEF Wait
<1>8. CASE Execute(c)
  BY <1>2, <1>3, <1>4, <1>5, <1>8 DEF Execute
<1>9. CASE ExecuteFails(c)
  <2>1. ~Execute(c)
    BY <1>4, <1>9 DEF ExecuteFails, Execute
  <2> QED
    BY <1>2, <1>3, <1>4, <1>5, <1>9, <2>1 DEF ExecuteFails
<1> QED
  BY <1>6, <1>7, <1>8, <1>9 DEF Deliver

LEMMA MatchesKept ==
  ASSUME input' = input
  PROVE  \A c, m : Matches(c, m)' = Matches(c, m)
  BY DEF Matches, Requires

\* A message is accepted like any other of its event.
LEMMA MatchesEvent == \A c, m : Matches(c, Event(m.event)) = Matches(c, m)
  BY DEF Matches, Event

LEMMA DeliverAccepted ==
  ASSUME IInv, Accepted, NEW c \in Subscribed, Deliver(c)
  PROVE  Accepted'
<1>1. Subscribed' = Subscribed /\ \A b, m : Matches(b, m)' = Matches(b, m)
  BY DeliverStep, MatchesKept
<1> SUFFICES ASSUME NEW b \in Subscribed
             PROVE  /\ outcome'[b] = "none" => DOMAIN deps'[b] # Requires(b)
                    /\ \A e \in DOMAIN deps'[b] : Matches(b, Event(e))
  BY <1>1 DEF Accepted, Requires
<1>2. CASE outcome'[b] = outcome[b] /\ deps'[b] = deps[b]
  BY <1>2 DEF Accepted
<1>3. CASE b = c /\ Accepts(c) /\ deps'[c] = Added(c) /\ (outcome'[c] = "none" <=> ~Complete(c))
  <2>1. outcome'[c] = "none" => DOMAIN Added(c) # Requires(c)
    BY <1>3 DEF Complete
  <2>2. \A e \in DOMAIN Added(c) : e = msg.event \/ e \in DOMAIN deps[c]
    BY AddedIs
  <2>3. Matches(c, Event(msg.event))
    BY <1>3, MatchesEvent DEF Accepts
  <2> QED
    BY <1>3, <2>1, <2>2, <2>3 DEF Accepted
<1> QED
  BY <1>2, <1>3, DeliverStep

\* A published event is on its way.
LEMMA DeliverDelivered ==
  ASSUME IInv, Delivered, NEW c \in Subscribed, Deliver(c)
  PROVE  Delivered'
<1> DEFINE P == Publishes(c, Added(c))
<1>1. /\ Subscribed' = Subscribed /\ msg' = msg
      /\ \A b, m : Matches(b, m)' = Matches(b, m)
  BY DeliverStep, MatchesKept
<1>2. queue \in Seq(Messages)
  BY DEF IInv, TypeOK
<1>3. Execute(c) => P \in Seq(Messages)
  <2> SUFFICES ASSUME Execute(c) PROVE P \in Seq(Messages)
    OBVIOUS
  <2>1. c = "ppr" => "OSM" \in DOMAIN Added(c)
    BY DEF Execute, Complete, Requires
  <2>2. c = "ppr" => Added(c)["OSM"] \in Messages
    BY <2>1, AddedType DEF Execute
  <2> QED
    BY <2>2, PublishesType
<1> HIDE DEF P
<1>4. /\ \A i \in DOMAIN queue : i \in DOMAIN queue' /\ queue'[i] = queue[i]
      /\ Execute(c) => \A i \in DOMAIN P : \E j \in DOMAIN queue' : queue'[j] = P[i]
  <2>1. CASE ~Execute(c)
    BY <2>1, DeliverStep
  <2>2. CASE Execute(c)
    <3>1. queue' = queue \o P /\ P \in Seq(Messages)
      BY <1>3, <2>2, DeliverStep DEF P
    <3>2. \A i \in DOMAIN queue : i \in DOMAIN queue' /\ queue'[i] = queue[i]
      BY <1>2, <3>1
    <3>3. \A i \in DOMAIN P : Len(queue) + i \in DOMAIN queue' /\ queue'[Len(queue) + i] = P[i]
      BY <1>2, <3>1
    <3> QED
      BY <3>2, <3>3
  <2> QED
    BY <2>1, <2>2
<1> SUFFICES ASSUME NEW b \in Subscribed, NEW e \in Available', e \in Requires(b),
                    Matches(b, Event(e))
             PROVE  Arrives(b, e)'
  BY <1>1 DEF Delivered, Requires
<1>5. CASE e \notin Available
  BY <1>4, <1>5, DeliverAvailable DEF Arrives, P
<1>6. CASE e \in Available
  <2>1. Arrives(b, e)
    BY <1>6 DEF Delivered
  <2>2. CASE outcome[b] # "none"
    BY <2>2, DeliverKeeps DEF Arrives
  <2>3. CASE e \in DOMAIN deps[b]
    BY <2>3, DeliverStep, AddedIs DEF Arrives
  <2>4. CASE msg.event = e /\ b \in ToSet(todo)
    <3>1. CASE b # c
      BY <1>1, <2>4, <3>1, DeliverStep DEF Arrives
    <3>2. CASE b = c
      <4>1. Matches(c, msg)
        BY <2>4, <3>2, MatchesEvent
      <4>2. msg.event \in DOMAIN Added(c)
        BY AddedIs
      <4> QED
        BY <2>4, <3>2, <4>1, <4>2, DeliverStep DEF Arrives
    <3> QED
      BY <3>1, <3>2
  <2>5. CASE \E i \in DOMAIN queue : queue[i].event = e
    BY <1>4, <2>5 DEF Arrives
  <2> QED
    BY <2>1, <2>2, <2>3, <2>4, <2>5 DEF Arrives
<1> QED
  BY <1>5, <1>6

LEMMA InputOsm == input \in Inputs => Len(input.osm) \in Nat
<1> SUFFICES ASSUME input \in Inputs PROVE Len(input.osm) \in Nat
  OBVIOUS
<1>1. input.osm \in {<<>>, <<"file1">>, <<"file1", "file2">>}
  BY ImportAssumption DEF Input
<1> QED
  BY <1>1

\* What is published joins the queue behind the OSM files.
LEMMA DeliverQueue ==
  ASSUME IInv, NEW k \in 0 .. Len(input.osm), OsmQueue(k), NEW c \in Subscribed, Deliver(c)
  PROVE  OsmQueue(k)'
<1> DEFINE P == Publishes(c, Added(c))
           left == Len(input.osm) - k
<1>1. input' = input /\ Len(input.osm) \in Nat
  BY DeliverStep, InputOsm DEF IInv, TypeOK
<1>2. queue \in Seq(Messages)
  BY DEF IInv, TypeOK
<1>3. \A i \in DOMAIN P : P[i].event \notin {"OSM", "FILE"}
  BY PublishersOf
<1>4. CASE queue' = queue
  BY <1>1, <1>4 DEF OsmQueue
<1>5. CASE Execute(c)
  <2>1. c = "ppr" => "OSM" \in DOMAIN Added(c)
    BY <1>5 DEF Execute, Complete, Requires
  <2>2. c = "ppr" => Added(c)["OSM"] \in Messages
    BY <1>5, <2>1, AddedType DEF Execute
  <2>3. P \in Seq(Messages)
    BY <2>2, PublishesType
  <2>4. queue' = queue \o P
    BY <1>5, DeliverStep
  <2> HIDE DEF P
  <2>5. Len(queue') = Len(queue) + Len(P) /\ Len(queue) \in Nat /\ Len(P) \in Nat
    BY <1>2, <2>3, <2>4
  <2>6. left <= Len(queue')
    BY <1>1, <2>5 DEF OsmQueue
  <2>7. ASSUME NEW i \in DOMAIN queue'
        PROVE  IF i <= left THEN queue'[i] = [event |-> "OSM", of |-> input.osm[k + i]]
               ELSE queue'[i].event \notin {"OSM", "FILE"}
    <3>1. CASE i <= Len(queue)
      <4>1. i \in DOMAIN queue /\ queue'[i] = queue[i]
        BY <1>2, <2>3, <2>4, <3>1
      <4> QED
        BY <4>1 DEF OsmQueue
    <3>2. CASE ~(i <= Len(queue))
      <4>1. i - Len(queue) \in DOMAIN P /\ queue'[i] = P[i - Len(queue)]
        BY <1>2, <2>3, <2>4, <3>2
      <4>2. ~(i <= left)
        BY <1>1, <2>5, <3>2, <4>1 DEF OsmQueue
      <4> QED
        BY <1>3, <4>1, <4>2
    <3> QED
      BY <3>1, <3>2
  <2> QED
    BY <1>1, <2>6, <2>7 DEF OsmQueue
<1> QED
  BY <1>4, <1>5, DeliverStep

\* The collector that is handed an OSM file has it, or ran with the first one.
LEMMA DeliverHanded ==
  ASSUME IInv, NEW k \in 0 .. Len(input.osm), OsmTaken(k), NEW c \in Subscribed, Deliver(c),
         "OSM" \in Requires(c)
  PROVE  /\ k < Len(input.osm) \/ msg.event = "OSM" => DOMAIN deps'[c] \subseteq {"OSM"}
         /\ Handed(c, k)'
<1>1. /\ input' = input /\ Requires(c)' = Requires(c) /\ Hands(c)
      /\ Len(input.osm) \in Nat /\ k \in Nat
  BY DeliverStep, InputOsm DEF IInv, TypeOK, Requires
<1>2. k < Len(input.osm) \/ msg.event = "OSM" => DOMAIN deps[c] \subseteq {"OSM"}
  BY DEF OsmTaken
<1>3. k < Len(input.osm) => msg.event \in {"FILE", "OSM"}
  BY DEF OsmTaken
<1>4. Handed(c, k) \/ (msg.event = "OSM" /\ k > 0 /\ Handed(c, k - 1))
  BY DEF OsmTaken
<1>5. msg.event = "OSM" => msg.of = input.osm[k] /\ k > 0
  BY DEF OsmTaken
<1>6. outcome[c] # "none" => DOMAIN deps[c] = Requires(c)
  BY DEF IInv, RanComplete
<1>7. CASE /\ outcome'[c] = outcome[c] /\ deps'[c] = deps[c]
           /\ Matches(c, msg) => outcome[c] # "none"
  <2>1. CASE msg.event # "OSM"
    BY <1>1, <1>2, <1>4, <1>7, <2>1 DEF Handed
  <2>2. CASE msg.event = "OSM"
    <3>1. outcome[c] # "none"
      BY <1>7, <2>2 DEF Matches
    <3>2. Requires(c) = {"OSM"} /\ DOMAIN deps[c] = {"OSM"}
      BY <1>2, <1>6, <2>2, <3>1
    <3>3. deps[c]["OSM"].of = input.osm[1]
      BY <1>4, <3>2 DEF Handed
    <3> QED
      BY <1>1, <1>2, <1>5, <1>7, <2>2, <3>1, <3>2, <3>3 DEF Handed
  <2> QED
    BY <2>1, <2>2
<1>8. CASE /\ Accepts(c) /\ deps'[c] = Added(c)
           /\ outcome'[c] = "none" <=> ~Complete(c)
  <2>1. msg.event \in Requires(c) /\ outcome[c] = "none"
    BY <1>8 DEF Accepts, Matches
  <2>2. msg.event # "FILE"
    BY <2>1, RequiresIs
  <2>3. k < Len(input.osm) \/ msg.event = "OSM" => DOMAIN Added(c) \subseteq {"OSM"}
    BY <1>2, <1>3, <2>2, AddedIs
  <2>4. CASE msg.event # "OSM"
    <3>1. Handed(c, k)
      BY <1>4, <2>4
    <3>2. "OSM" \in DOMAIN Added(c) <=> "OSM" \in DOMAIN deps[c]
      BY <2>4, AddedIs
    <3>3. "OSM" \in DOMAIN deps[c] => Added(c)["OSM"] = deps[c]["OSM"]
      BY <2>4, <3>2, AddedIs
    <3>4. Handed(c, k)'
      BY <1>1, <1>8, <2>1, <3>1, <3>2, <3>3 DEF Handed
    <3> QED
      BY <1>8, <2>3, <3>4
  <2>5. CASE msg.event = "OSM"
    <3>1. "OSM" \in DOMAIN Added(c) /\ Added(c)["OSM"] = msg
      BY <2>5, AddedIs
    <3>2. DOMAIN Added(c) = {"OSM"}
      BY <2>3, <2>5, <3>1
    <3>3. CASE Requires(c) = {"OSM"}
      <4>1. Complete(c)
        BY <3>2, <3>3 DEF Complete
      <4>2. k = 1
        BY <1>1, <1>4, <1>5, <2>1, <2>5, <3>3 DEF Handed
      <4> QED
        BY <1>1, <1>5, <1>8, <2>3, <2>5, <3>1, <3>3, <4>1, <4>2 DEF Handed
    <3>4. CASE Requires(c) # {"OSM"}
      BY <1>1, <1>5, <1>8, <2>3, <2>5, <3>1, <3>4 DEF Handed
    <3> QED
      BY <3>3, <3>4
  <2> QED
    BY <2>4, <2>5
<1> QED
  BY <1>7, <1>8, DeliverStep

LEMMA DeliverOsm ==
  ASSUME IInv, NEW k \in 0 .. Len(input.osm), OsmTaken(k), NEW c \in Subscribed, Deliver(c)
  PROVE  OsmTaken(k)'
<1>1. /\ input' = input /\ msg' = msg /\ Subscribed' = Subscribed
      /\ \A b : Requires(b)' = Requires(b)
  BY DeliverStep DEF Requires
<1>2. OsmQueue(k)'
  BY DeliverQueue DEF OsmTaken
<1>3. ASSUME NEW b \in Subscribed, "OSM" \in Requires(b)
      PROVE  /\ k < Len(input.osm) \/ msg.event = "OSM" => DOMAIN deps'[b] \subseteq {"OSM"}
             /\ Handed(b, k)' \/ (b \in ToSet(todo') /\ msg.event = "OSM" /\ Handed(b, k - 1)')
  <2>1. CASE b = c
    BY <1>3, <2>1, DeliverHanded
  <2>2. CASE b # c
    <3>1. outcome'[b] = outcome[b] /\ deps'[b] = deps[b] /\ (b \in ToSet(todo) => b \in ToSet(todo'))
      BY <2>2, DeliverStep
    <3>2. /\ k < Len(input.osm) \/ msg.event = "OSM" => DOMAIN deps[b] \subseteq {"OSM"}
          /\ Handed(b, k) \/ (b \in ToSet(todo) /\ msg.event = "OSM" /\ Handed(b, k - 1))
      BY <1>3 DEF OsmTaken
    <3>3. \A j : Handed(b, j)' = Handed(b, j)
      BY <1>1, <3>1 DEF Handed
    <3> QED
      BY <3>1, <3>2, <3>3
  <2> QED
    BY <2>1, <2>2
<1> QED
  BY <1>1, <1>2, <1>3 DEF OsmTaken

LEMMA DeliverHInv == ASSUME IInv, HInv, NEW c \in Subscribed, Deliver(c) PROVE HInv'
<1>1. Hands(c) /\ pc' = pc /\ input' = input /\ c \in ToSet(todo)
  BY DeliverStep
<1>2. ~Fresh /\ pc = "importing"
  BY <1>1 DEF Fresh, Hands
<1>3. Accepted' /\ Delivered'
  BY <1>2, DeliverAccepted, DeliverDelivered DEF HInv
<1>4. PICK k \in 0 .. Len(input.osm) : OsmTaken(k)
  BY <1>2 DEF HInv
<1>5. OsmTaken(k)'
  BY <1>4, DeliverOsm
<1> QED
  BY <1>1, <1>2, <1>3, <1>4, <1>5 DEF HInv, Drained

\* run() takes the first message: the paths, the next OSM file, or another event once
\* there is no OSM file left.
LEMMA TakeFirst == ASSUME IInv, Fresh, Take PROVE Delivered' /\ OsmTaken(0)'
<1>1. /\ UNCHANGED <<order, input, deps, outcome>> /\ Subscribed' = Subscribed
      /\ Available' = Available /\ \A b, m : Matches(b, m)' = Matches(b, m)
      /\ \A b : Requires(b)' = Requires(b)
  BY DEF Take, Subscribed, Available, Matches, Requires
<1>2. msg'.event = "FILE"
  BY DEF Take, Fresh, Event
<1>3. queue' = InputEvents(input)
  <2>1. InputEvents(input) \in Seq(InputMessages)
    BY InputEventsType, ImportAssumption DEF IInv, TypeOK
  <2>2. Tail(queue) = <<>> /\ Head(queue).event = "FILE"
    BY DEF Fresh, Event
  <2>3. queue' = <<>> \o InputEvents(input)
    BY <2>2 DEF Take
  <2> QED
    BY <2>1, <2>3, ConcatEmptySeq
<1>4. Subscribed \subseteq ToSet(todo')
  BY ImportersIs DEF Take, IInv, TypeOK
<1>5. Delivered'
  <2> SUFFICES ASSUME NEW b \in Subscribed, NEW e \in Available PROVE Arrives(b, e)'
    BY <1>1 DEF Delivered
  <2>1. CASE e = "FILE"
    BY <1>2, <1>4, <2>1 DEF Arrives
  <2>2. CASE \E i \in DOMAIN InputEvents(input) : InputEvents(input)[i].event = e
    BY <1>3, <2>2 DEF Arrives
  <2>3. DOMAIN outcome = Subscribed
    BY DEF IInv, TypeOK
  <2> QED
    BY <2>1, <2>2, <2>3 DEF Available, Fresh
<1>6. OsmQueue(0)'
  BY <1>1, <1>3, InputQueue DEF IInv, TypeOK
<1>7. Len(input.osm) \in Nat
  BY InputOsm DEF IInv, TypeOK
<1> QED
  BY <1>1, <1>2, <1>5, <1>6, <1>7 DEF OsmTaken, Handed, Fresh

LEMMA TakeNext ==
  ASSUME IInv, Delivered, NEW k \in 0 .. Len(input.osm), OsmTaken(k), Take
  PROVE  Delivered' /\ \E l \in 0 .. Len(input.osm) : OsmTaken(l)'
<1> DEFINE n == Len(input.osm)
<1>1. /\ UNCHANGED <<order, input, deps, outcome>> /\ Subscribed' = Subscribed
      /\ Available' = Available /\ \A b, m : Matches(b, m)' = Matches(b, m)
      /\ \A b : Requires(b)' = Requires(b)
  BY DEF Take, Subscribed, Available, Matches, Requires
<1>2. n \in Nat /\ k \in Nat
  BY InputOsm DEF IInv, TypeOK
<1>3. queue \in Seq(Messages) /\ queue # <<>> /\ todo = <<>>
  BY DEF Take, IInv, TypeOK
<1>4. 1 \in DOMAIN queue /\ Head(queue) = queue[1]
  BY <1>3
<1>5. queue[1].event # "FILE"
  BY <1>2, <1>4 DEF OsmTaken, OsmQueue
<1>6. msg' = queue[1] /\ queue' = Tail(queue)
  BY <1>3, <1>4, <1>5 DEF Take
<1>7. /\ Len(queue') = Len(queue) - 1 /\ Len(queue) \in Nat
      /\ \A i \in DOMAIN queue' : i + 1 \in DOMAIN queue /\ queue'[i] = queue[i + 1]
      /\ \A i \in DOMAIN queue : i # 1 => i - 1 \in DOMAIN queue' /\ queue'[i - 1] = queue[i]
  BY <1>3, <1>6
<1>8. Subscribed \subseteq ToSet(todo')
  BY ImportersIs DEF Take, IInv, TypeOK
<1>9. \A b : b \notin ToSet(todo)
  BY <1>3 DEF ToSet
<1>10. Delivered'
  <2> SUFFICES ASSUME NEW b \in Subscribed, NEW e \in Available, e \in Requires(b),
                      Matches(b, Event(e))
               PROVE  Arrives(b, e)'
    BY <1>1 DEF Delivered
  <2>1. Arrives(b, e)
    BY DEF Delivered
  <2>2. CASE outcome[b] # "none" \/ e \in DOMAIN deps[b]
    BY <1>1, <2>2 DEF Arrives
  <2>3. ASSUME NEW i \in DOMAIN queue, queue[i].event = e
        PROVE  Arrives(b, e)'
    <3>1. CASE i = 1
      BY <1>6, <1>8, <2>3, <3>1 DEF Arrives
    <3>2. CASE i # 1
      BY <1>7, <2>3, <3>2 DEF Arrives
    <3> QED
      BY <3>1, <3>2
  <2> QED
    BY <1>9, <2>1, <2>2, <2>3 DEF Arrives
<1>11. \A b, j : Handed(b, j)' = Handed(b, j)
  BY <1>1 DEF Handed
<1>12. \A b \in Subscribed : "OSM" \in Requires(b) => Handed(b, k)
  BY <1>9 DEF OsmTaken
<1>13. CASE k < n
  <2>1. k + 1 \in 0 .. n
    BY <1>2, <1>13
  <2>2. queue[1] = [event |-> "OSM", of |-> input.osm[k + 1]]
    BY <1>2, <1>4, <1>13 DEF OsmTaken, OsmQueue
  <2>3. OsmQueue(k + 1)'
    <3>1. n - (k + 1) <= Len(queue')
      BY <1>2, <1>7 DEF OsmTaken, OsmQueue
    <3>2. ASSUME NEW i \in DOMAIN queue'
          PROVE  IF i <= n - (k + 1)
                 THEN queue'[i] = [event |-> "OSM", of |-> input.osm[(k + 1) + i]]
                 ELSE queue'[i].event \notin {"OSM", "FILE"}
      <4>1. i + 1 \in DOMAIN queue /\ queue'[i] = queue[i + 1] /\ i \in Nat
        BY <1>7, <1>3, <1>6
      <4>2. (k + 1) + i = k + (i + 1) /\ (i <= n - (k + 1) <=> i + 1 <= n - k)
        BY <1>2, <4>1
      <4>3. IF i + 1 <= n - k THEN queue[i + 1] = [event |-> "OSM", of |-> input.osm[k + (i + 1)]]
            ELSE queue[i + 1].event \notin {"OSM", "FILE"}
        BY <4>1 DEF OsmTaken, OsmQueue
      <4> QED
        BY <4>1, <4>2, <4>3
    <3> QED
      BY <1>1, <3>1, <3>2 DEF OsmQueue
  <2>4. msg'.event = "OSM" /\ msg'.of = input.osm[k + 1] /\ k + 1 > 0 /\ (k + 1) - 1 = k
    BY <1>2, <1>6, <2>2
  <2>5. \A b \in Subscribed : "OSM" \in Requires(b) => DOMAIN deps[b] \subseteq {"OSM"}
    BY <1>13 DEF OsmTaken
  <2>6. OsmTaken(k + 1)'
    BY <1>1, <1>8, <1>11, <1>12, <2>1, <2>3, <2>4, <2>5 DEF OsmTaken
  <2> QED
    BY <1>10, <2>1, <2>6
<1>14. CASE ~(k < n)
  <2>1. k = n
    BY <1>2, <1>14
  <2>2. queue[1].event # "OSM"
    BY <1>2, <1>4, <2>1 DEF OsmTaken, OsmQueue
  <2>3. OsmQueue(k)'
    <3>1. n - k = 0
      BY <1>2, <2>1
    <3>2. \A i \in DOMAIN queue : queue[i].event \notin {"OSM", "FILE"}
      <4> SUFFICES ASSUME NEW i \in DOMAIN queue PROVE queue[i].event \notin {"OSM", "FILE"}
        OBVIOUS
      <4>1. ~(i <= 0)
        BY <1>3
      <4> QED
        BY <3>1, <4>1 DEF OsmTaken, OsmQueue
    <3>3. ASSUME NEW i \in DOMAIN queue'
          PROVE  ~(i <= 0) /\ queue'[i].event \notin {"OSM", "FILE"}
      BY <1>3, <1>6, <1>7, <3>2
    <3>4. 0 <= Len(queue')
      BY <1>3, <1>6
    <3> QED
      BY <1>1, <3>1, <3>3, <3>4 DEF OsmQueue
  <2>4. OsmTaken(k)'
    BY <1>1, <1>6, <1>11, <1>12, <1>14, <2>2, <2>3 DEF OsmTaken
  <2> QED
    BY <1>10, <2>4
<1> QED
  BY <1>13, <1>14

LEMMA TakeHInv == ASSUME IInv, HInv, Take PROVE HInv'
<1>1. Accepted' /\ Drained' /\ input' = input
  BY DEF HInv, Accepted, Drained, Take, Subscribed, Matches, Requires
<1>2. CASE Fresh
  <2>1. 0 \in 0 .. Len(input.osm)
    BY InputOsm DEF IInv, TypeOK
  <2> QED
    BY <1>1, <1>2, <2>1, TakeFirst DEF HInv
<1>3. CASE ~Fresh
  <2>1. PICK k \in 0 .. Len(input.osm) : OsmTaken(k)
    BY <1>3 DEF HInv
  <2>2. Delivered
    BY <1>3 DEF HInv
  <2>3. Delivered' /\ \E l \in 0 .. Len(input.osm) : OsmTaken(l)'
    BY <2>1, <2>2, TakeNext
  <2> QED
    BY <1>1, <2>3 DEF HInv
<1> QED
  BY <1>2, <1>3

LEMMA PhaseHInv ==
  ASSUME IInv, HInv, Verify \/ InitModule \/ Started \/ UNCHANGED vars
  PROVE  HInv'
<1>1. UNCHANGED <<order, input, queue, msg, todo, deps, outcome>>
  BY DEF Verify, InitModule, Started, vars
<1>2. Accepted'
  BY <1>1 DEF HInv, Accepted, Subscribed, Matches, Requires
<1>3. Drained'
  BY <1>1 DEF HInv, Drained, Verify, InitModule, Started, vars
<1>4. Fresh' = Fresh
  BY <1>1 DEF Fresh, Subscribed
<1>5. Delivered' = Delivered
  BY <1>1 DEF Delivered, Arrives, Subscribed, Available, Matches, Requires
<1>6. \A k : OsmTaken(k)' = OsmTaken(k)
  BY <1>1 DEF OsmTaken, OsmQueue, Handed, Subscribed, Requires
<1> QED
  BY <1>1, <1>2, <1>3, <1>4, <1>5, <1>6 DEF HInv

LEMMA HNextInv == IInv /\ HInv /\ [Next]_vars => HInv'
  BY DeliverHInv, TakeHInv, PhaseHInv DEF Next

LEMMA HInvCorrect == Spec => []HInv
  BY HInitInv, HNextInv, InvCorrect, PTL DEF Spec

\* When the queue has run empty, precisely those operations have run whose events
\* are available and accepted, whatever the order of the modules.
THEOREM RanIfPossibleCorrect == Spec => []RanIfPossible
<1>1. IInv /\ HInv => RanIfPossible
  <2> SUFFICES ASSUME IInv, HInv, pc # "importing", NEW c \in Subscribed
               PROVE  outcome[c] # "none" <=>
                        /\ Requires(c) \subseteq Available
                        /\ \A e \in Requires(c) : Matches(c, Event(e))
    BY DEF RanIfPossible, IInv, TypeOK
  <2>1. ASSUME outcome[c] # "none"
        PROVE  /\ Requires(c) \subseteq Available
               /\ \A e \in Requires(c) : Matches(c, Event(e))
    BY <2>1, RequiredAvailable DEF IInv, RanComplete, HInv, Accepted
  <2>2. ASSUME Requires(c) \subseteq Available,
               \A e \in Requires(c) : Matches(c, Event(e)),
               outcome[c] = "none"
        PROVE  FALSE
    <3>1. queue = <<>> /\ todo = <<>>
      BY DEF HInv, Drained
    <3>2. Delivered
      BY <3>1 DEF HInv, Fresh
    <3>3. \A e \in Requires(c) : e \in DOMAIN deps[c]
      BY <2>2, <3>1, <3>2 DEF Delivered, Arrives, ToSet
    <3>4. DOMAIN deps[c] \subseteq Requires(c)
      BY DEF IInv, TypeOK
    <3> QED
      BY <2>2, <3>3, <3>4 DEF HInv, Accepted
  <2> QED
    BY <2>1, <2>2
<1> QED
  BY <1>1, InvCorrect, HInvCorrect, PTL

\* An operation that needs the OSM file alone works on the first one, all others on
\* the last one: dependencies_ is overwritten until the other events arrive, which
\* are behind the OSM files in the queue.
THEOREM WhichOsmFileCorrect == Spec => []WhichOsmFile
<1>1. IInv /\ HInv => WhichOsmFile
  <2> SUFFICES ASSUME IInv, HInv, NEW c \in Subscribed, outcome[c] # "none",
                      "OSM" \in Requires(c)
               PROVE  deps[c]["OSM"].of =
                        IF Requires(c) = {"OSM"} THEN Head(input.osm) ELSE Last(input.osm)
    BY DEF WhichOsmFile, IInv, TypeOK
  <2>1. DOMAIN deps[c] = Requires(c)
    BY DEF IInv, RanComplete
  <2>2. PICK k \in 0 .. Len(input.osm) : OsmTaken(k)
    BY DEF HInv, Fresh
  <2>3. Len(input.osm) \in Nat /\ k \in Nat
    BY InputOsm DEF IInv, TypeOK
  <2>4. CASE Requires(c) = {"OSM"}
    BY <2>1, <2>2, <2>4 DEF OsmTaken, Handed
  <2>5. CASE Requires(c) # {"OSM"}
    <3>1. ~(DOMAIN deps[c] \subseteq {"OSM"})
      BY <2>1, <2>5
    <3>2. ~(k < Len(input.osm)) /\ msg.event # "OSM"
      BY <2>2, <3>1 DEF OsmTaken
    <3>3. Handed(c, Len(input.osm))
      BY <2>2, <2>3, <3>2 DEF OsmTaken
    <3> QED
      BY <2>1, <2>5, <3>3 DEF Handed, Last
  <2> QED
    BY <2>4, <2>5
<1> QED
  BY <1>1, InvCorrect, HInvCorrect, PTL

-----------------------------------------------------------------------------
\* The events an operation publishes do not depend on those it ran with.
LEMMA ProducesIs ==
  ASSUME NEW c, NEW d
  PROVE  /\ Produces(c) = {Publishes(c, d)[i].event : i \in DOMAIN Publishes(c, d)}
         /\ Produces(c) \subseteq Events \ {"FILE"}
<1>1. CASE c = "nigiri"
  BY <1>1 DEF Produces, Publishes, Event, Events, ToSet
<1>2. CASE c = "osr"
  BY <1>2 DEF Produces, Publishes, Event, Events, ToSet
<1>3. CASE c = "ppr"
  BY <1>3 DEF Produces, Publishes, Event, Events, ToSet
<1>4. CASE c \in {"osrm-foot", "osrm-bike", "osrm-car"}
  BY <1>4 DEF Produces, Publishes, Event, Events, ToSet
<1>5. CASE c \notin {"nigiri", "ppr", "osr", "osrm-foot", "osrm-bike", "osrm-car"}
  BY <1>5 DEF Produces, Publishes, ToSet
<1> QED
  BY <1>1, <1>2, <1>3, <1>4, <1>5

LEMMA InputNotFile ==
  TypeOK => \A i \in DOMAIN InputEvents(input) : InputEvents(input)[i].event # "FILE"
<1> SUFFICES ASSUME TypeOK, NEW i \in DOMAIN InputEvents(input)
             PROVE  InputEvents(input)[i].event # "FILE"
  OBVIOUS
<1>1. InputEvents(input) \in Seq(InputMessages)
  BY InputEventsType, ImportAssumption DEF TypeOK
<1>2. InputEvents(input)[i] \in InputMessages
  BY <1>1
<1> QED
  BY <1>2 DEF InputMessages

\* For what a collector requires, available in the abstract view means available and
\* accepted.
LEMMA SameAvailable ==
  ASSUME TypeOK, NEW c \in Subscribed, NEW e \in Requires(c)
  PROVE  e \in View!Available <=> e \in Available /\ Matches(c, Event(e))
<1> DEFINE FromInput == \E i \in DOMAIN InputEvents(input) : InputEvents(input)[i].event = e
           FromOperation == \E d \in Subscribed : outcome[d] = "ok" /\ e \in Produces(d)
<1>1. e \in Events
  BY DEF Requires, Events
<1>2. e \in View!Available <=> e \in Given \/ FromOperation
  <2>1. View!Available = Given \cup
          UNION {[d \in Subscribed |-> Produces(d)][b] : b \in {d \in Subscribed : outcome[d] = "ok"}}
    BY DEF View!Available, View!Operations
  <2> QED
    BY <2>1
<1>3. e \in Available <=> e = "FILE" \/ FromInput \/ FromOperation
  <2>1. \A d : e \in Produces(d) <=>
                 \E i \in DOMAIN Publishes(d, deps[d]) : Publishes(d, deps[d])[i].event = e
    BY ProducesIs
  <2>2. DOMAIN outcome = Subscribed
    BY DEF TypeOK
  <2> QED
    BY <1>1, <2>1, <2>2 DEF Available
<1> HIDE DEF FromInput, FromOperation
<1>4. e \in Given <=> (e = "FILE" /\ \E d \in Subscribed : Matches(d, Event(e))) \/ FromInput
  BY <1>1 DEF Given, FromInput
<1>5. CASE e = "FILE"
  <2>1. ~FromInput /\ ~FromOperation
    BY <1>5, InputNotFile, ProducesIs DEF FromInput, FromOperation
  <2>2. \A d \in Subscribed : Matches(d, Event(e)) => Matches(c, Event(e))
    <3>1. Event(e).event = e
      BY DEF Event
    <3> QED
      BY <1>5, <3>1, Zenon DEF Matches
  <2>3. e \in Given <=> Matches(c, Event(e))
    BY <1>4, <1>5, <2>1, <2>2
  <2> QED
    BY <1>2, <1>3, <1>5, <2>1, <2>3
<1>6. CASE e # "FILE"
  <2>1. Matches(c, Event(e))
    BY <1>6 DEF Matches, Event
  <2> QED
    BY <1>2, <1>3, <1>4, <1>6, <2>1
<1> QED
  BY <1>5, <1>6

\* An operation that is executed, well or not, could run.
LEMMA DeliverRuns ==
  ASSUME IInv, HInv, NEW c \in Subscribed, Accepts(c), Complete(c)
  PROVE  View!CanRun(c)
<1>1. outcome[c] = "none" /\ Matches(c, msg)
  BY DEF Accepts
<1>2. ASSUME NEW e \in Requires(c) PROVE e \in View!Available
  <2>1. e \in DOMAIN deps[c] \/ e = msg.event
    BY <1>2 DEF Complete, Added
  <2>2. CASE e \in DOMAIN deps[c]
    <3>1. deps[c][e] \in Obtainable /\ deps[c][e].event = e
      BY <2>2 DEF IInv, TypeOK, Supplied
    <3>2. Matches(c, Event(e))
      BY <2>2 DEF HInv, Accepted
    <3> QED
      BY <1>2, <3>1, <3>2, SameAvailable DEF Obtainable, IInv
  <2>3. CASE e = msg.event
    <3>1. msg \in Obtainable
      BY DEF IInv, Supplied
    <3>2. Matches(c, Event(e))
      BY <1>1, <2>3, MatchesEvent
    <3> QED
      BY <1>2, <2>3, <3>1, <3>2, SameAvailable DEF Obtainable, IInv
  <2> QED
    BY <2>1, <2>2, <2>3
<1> QED
  BY <1>1, <1>2 DEF View!CanRun

\* When the queue has run empty, nothing that could run is left.
LEMMA NothingLeft ==
  ASSUME IInv, HInv, queue = <<>>, todo = <<>>, NEW c \in Subscribed
  PROVE  ~View!CanRun(c)
<1> SUFFICES ASSUME View!CanRun(c) PROVE FALSE
  OBVIOUS
<1>1. outcome[c] = "none" /\ Requires(c) \subseteq View!Available
  BY DEF View!CanRun
<1>2. \A e \in Requires(c) : e \in Available /\ Matches(c, Event(e))
  BY <1>1, SameAvailable DEF IInv
<1>3. Delivered
  BY DEF HInv, Fresh
<1>4. \A e \in Requires(c) : e \in DOMAIN deps[c]
  BY <1>1, <1>2, <1>3 DEF Delivered, Arrives, ToSet
<1>5. DOMAIN deps[c] \subseteq Requires(c)
  BY DEF IInv, TypeOK
<1> QED
  BY <1>1, <1>4, <1>5 DEF HInv, Accepted

\* Every step of the program is a step of the abstract import or none of it.
LEMMA ViewStep == IInv /\ HInv /\ [Next]_vars => [View!Next]_(View!vars)
<1> SUFFICES ASSUME IInv, HInv, [Next]_vars PROVE View!Next \/ UNCHANGED View!vars
  OBVIOUS
<1> DEFINE needs == [c \in Subscribed |-> Requires(c)]
           gives == [c \in Subscribed |-> Produces(c)]
           over == pc # "importing"
<1>1. ASSUME UNCHANGED <<order, input>>
      PROVE  UNCHANGED <<Given, needs, gives>> /\ Subscribed' = Subscribed
  BY <1>1 DEF Given, Subscribed, Requires, Produces, Matches, InputEvents
<1>2. ASSUME UNCHANGED <<order, input, outcome>>, over' = over PROVE UNCHANGED View!vars
  BY <1>1, <1>2 DEF View!vars
<1>3. CASE Take
  BY <1>2, <1>3 DEF Take
<1>4. ASSUME NEW c \in Subscribed, Ignore(c) \/ Wait(c) PROVE UNCHANGED View!vars
  BY <1>2, <1>4 DEF Ignore, Wait
<1>5. ASSUME NEW c \in Subscribed, Execute(c) \/ ExecuteFails(c) PROVE View!Next
  <2>1. /\ Accepts(c) /\ Complete(c) /\ UNCHANGED <<order, input, pc>>
        /\ \E result \in {"ok", "failed"} : outcome' = [outcome EXCEPT ![c] = result]
    BY <1>5 DEF Execute, ExecuteFails
  <2>2. View!CanRun(c) /\ pc = "importing"
    BY <2>1, DeliverRuns DEF Accepts, Hands
  <2>3. UNCHANGED <<Given, needs, gives>> /\ over' = over
    BY <1>1, <2>1
  <2>4. PICK result \in {"ok", "failed"} : outcome' = [outcome EXCEPT ![c] = result]
    BY <2>1
  <2>5. View!Run(c, result)
    BY <2>2, <2>3, <2>4 DEF View!Run
  <2>6. c \in View!Operations
    BY DEF View!Operations
  <2> QED
    BY <2>5, <2>6 DEF View!Next
<1>6. CASE Verify
  <2>1. /\ pc = "importing" /\ todo = <<>> /\ queue = <<>> /\ pc' # "importing"
        /\ UNCHANGED <<order, input, outcome>>
    BY <1>6 DEF Verify
  <2>2. UNCHANGED <<Given, needs, gives>>
    BY <1>1, <2>1
  <2>3. \A c \in View!Operations : ~View!CanRun(c)
    BY <2>1, NothingLeft DEF View!Operations
  <2>4. View!End
    BY <2>1, <2>2, <2>3 DEF View!End
  <2> QED
    BY <2>4 DEF View!Next
<1>7. CASE InitModule \/ Started
  <2>1. UNCHANGED <<order, input, outcome>> /\ pc # "importing" /\ pc' # "importing"
    BY <1>7 DEF InitModule, Started
  <2> QED
    BY <1>2, <2>1
<1>8. CASE UNCHANGED vars
  BY <1>2, <1>8 DEF vars
<1> QED
  BY <1>3, <1>4, <1>5, <1>6, <1>7, <1>8 DEF Next, Deliver

\* The dispatcher, its queue and the collectors implement module ImportView for any
\* orders of modules, input files and failures: an operation runs once, not before what
\* it needs is there, and the import ends only when nothing more can run.
THEOREM Refinement == Spec => ImportViewSpec
<1>1. Init => View!Init
  BY DEF Init, View!Init, View!Operations
<1>2. IInv /\ HInv /\ [Next]_vars => [View!Next]_(View!vars)
  BY ViewStep
<1> QED
  BY <1>1, <1>2, InvCorrect, HInvCorrect, PTL DEF Spec, ImportViewSpec, View!Spec
=============================================================================
