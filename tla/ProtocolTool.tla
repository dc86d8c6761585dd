---------------------------- MODULE ProtocolTool ----------------------------
(* The protocol tool (src/tools/protocol/src/main.ts, doc) and the files   *)
(* that it shares with the developer: the schemas and paths.yaml, which    *)
(* only the developer writes, the documentation of the types, which both   *)
(* write, and the outputs.  One run reads the schema, brings the           *)
(* documentation up to date, reads the paths and writes the outputs; an    *)
(* exception of an output ends that output, any other one the run.  The    *)
(* command line and the configuration are valid ones.                      *)
(*                                                                         *)
(* docs[ns] is the documentation file of a namespace: keys are <<type>>    *)
(* and <<type, field>>; described are those with another text than TODO.   *)
(* A missing file is an empty one.  broken tells which YAML files do not   *)
(* parse or have another form than the tool expects.  written is what the  *)
(* present run has written.                                                *)
EXTENDS ProtocolOutputs

CONSTANTS
  Decls, Includes, Paths,   \* what the developer may declare, include and list
  Outputs,                  \* the outputs of the configuration, by name
  Configs,                  \* functions from Outputs to output records
  MaxEdits

\* The FlatBuffers language: a union consists of tables.  The tool does not check it.
UnionsOfTables ==
  \A S \in SUBSET Decls : \A d \in S : \A t \in UnionTypes(S, d) \intersect Names(S) :
    \A e \in S : Fqtn(e) = t => e.kind = "table"

ASSUME ToolAssumption ==
  /\ \A d \in Decls : d.ns \in Seq(STRING) /\ d.kind \in {"enum", "union", "table"}
  /\ NoType \notin Names(Decls)
  /\ Configs \subseteq [Outputs -> OutputRecords(Names(Decls))]
  /\ UnionsOfTables
  /\ MaxEdits \in Nat

VARIABLES declared, includes, paths, config, docs, broken, phase, todo, written, edits

vars == <<declared, includes, paths, config, docs, broken, phase, todo, written, edits>>

schema == Extracted(declared, includes)

NoDoc == [keys |-> {}, described |-> {}]

Nothing == [o \in {} |-> {}]

DocNamespaces == {d.ns : d \in Decls}

TypeOK ==
  /\ declared \subseteq Decls /\ includes \subseteq Includes /\ paths \subseteq Paths
  /\ config \in Configs
  /\ \A ns \in DocNamespaces : docs[ns].described \subseteq docs[ns].keys
  /\ broken \in [docs : SUBSET DocNamespaces, paths : BOOLEAN, tags : BOOLEAN]
  /\ phase \in {"idle", "read", "doc", "out"}
  /\ todo \subseteq Outputs
  /\ DOMAIN written \subseteq Outputs
  /\ edits \in 0 .. MaxEdits

Init ==
  /\ declared \in SUBSET Decls /\ includes \in SUBSET Includes /\ paths \in SUBSET Paths
  /\ config \in Configs
  /\ docs = [ns \in DocNamespaces |-> NoDoc]
  /\ broken = [docs |-> {}, paths |-> FALSE, tags |-> FALSE]
  /\ phase = "idle" /\ todo = {} /\ written = Nothing /\ edits = 0

(* The developer, between two runs.                                        *)
Edit ==
  /\ phase = "idle" /\ edits < MaxEdits
  /\ edits' = edits + 1
  /\ UNCHANGED <<config, phase, todo, written>>

ToggledIn(set, all) == {(set \ {x}) \union ({x} \ set) : x \in all}

EditSchema ==
  /\ Edit
  /\ \/ declared' \in ToggledIn(declared, Decls) /\ UNCHANGED includes
     \/ includes' \in ToggledIn(includes, Includes) /\ UNCHANGED declared
  /\ UNCHANGED <<paths, docs, broken>>

EditPaths ==
  /\ Edit
  /\ paths' \in ToggledIn(paths, Paths)
  /\ UNCHANGED <<declared, includes, docs, broken>>

Describe(ns, key) ==
  /\ Edit
  /\ key \in docs[ns].keys \ docs[ns].described
  /\ docs' = [docs EXCEPT ![ns].described = @ \union {key}]
  /\ UNCHANGED <<declared, includes, paths, broken>>

\* A slip in one of the YAML files, or its correction.
BreakOrMend ==
  /\ Edit
  /\ broken' \in {[broken EXCEPT !.docs = some] : some \in ToggledIn(broken.docs, DocNamespaces)}
                  \union {[broken EXCEPT !.paths = ~@], [broken EXCEPT !.tags = ~@]}
  /\ UNCHANGED <<declared, includes, paths, docs>>

(* A run.  chosen are the outputs that the command line leaves.            *)
Start(chosen) ==
  /\ phase = "idle"
  /\ phase' = "read" /\ todo' = chosen
  /\ UNCHANGED <<declared, includes, paths, config, docs, broken, written, edits>>

\* A file that is missing or that the parser does not accept, a type that is there
\* twice, a reference without a type.
SchemaInvalid(unreadable) ==
  unreadable \intersect FilesRead(includes) # {} \/ DefinedTwice(schema) \/ Unresolved(schema)

ReadSchema(unreadable) ==
  /\ phase = "read"
  /\ IF SchemaInvalid(unreadable)
     THEN phase' = "idle" /\ todo' = {}
     ELSE phase' = "doc" /\ UNCHANGED todo
  /\ UNCHANGED <<declared, includes, paths, config, docs, broken, written, edits>>

FieldNames(d) == {f.name : f \in d.fields}

KeysOfType(d) == {<<d.name>>} \union {<<d.name, f>> : f \in FieldNames(d)}

\* Mutant: the keys of a file are looked up without their namespace.
KeepsByName(S, ns, key) ==
  \E d \in S :
    /\ Fqtn(d) = <<key[1]>>
    /\ Len(key) = 2 => d.kind # "table" \/ key[2] \in FieldNames(d)

\* removeUnknownKeys: types that the namespace has, and fields that a table has; what
\* is under a type of another kind is left alone.
Keeps(S, ns, key) ==
  \E d \in S :
    /\ Fqtn(d) = Append(ns, key[1])
    /\ Len(key) = 2 => d.kind # "table" \/ key[2] \in FieldNames(d)

UpdatedDoc(S, ns) ==
  LET kept == {key \in docs[ns].keys : Keeps(S, ns, key)}
  IN  [keys |-> kept \union UNION {KeysOfType(d) : d \in {e \in S : e.ns = ns}},
       described |-> docs[ns].described \intersect kept]

\* readPaths throws at a file without the form of paths, and when a path names a type
\* that the schema has not.
PathsInvalid ==
  \/ broken.paths
  \/ \E p \in paths : \E t \in {p.input, p.output} \ {NoType} : t \notin Names(schema)

\* Only the files of the namespaces that the schema has are read.
Visited == NamespacesOf(schema)

UpdateDoc ==
  /\ phase = "doc"
  /\ ~broken.tags /\ Visited \intersect broken.docs = {} /\ ~PathsInvalid
  /\ docs' = [ns \in DocNamespaces |->
                IF ns \in Visited THEN UpdatedDoc(schema, ns) ELSE docs[ns]]
  /\ phase' = "out"
  /\ UNCHANGED <<declared, includes, paths, config, broken, todo, written, edits>>

\* The tags are read first.  Then each file is read and opened, which empties it, and is
\* written behind the back of the handler: an exception ends the process before, with
\* every opened file old or empty.  A broken file ends the run at its form, or when its
\* text is made again, just after it was opened; the paths come when all are opened.
DocFails(opened) ==
  /\ phase = "doc"
  /\ \/ broken.tags /\ opened = {}
     \/ /\ ~broken.tags
        /\ \E ns \in Visited \intersect broken.docs :
             opened \subseteq (Visited \ broken.docs) \union {ns}
     \/ /\ ~broken.tags /\ Visited \intersect broken.docs = {} /\ PathsInvalid
        /\ opened \subseteq Visited
  /\ docs' = [ns \in DocNamespaces |-> IF ns \in opened THEN NoDoc ELSE docs[ns]]
  /\ broken' = [broken EXCEPT !.docs = @ \ opened]
  /\ phase' = "idle" /\ todo' = {}
  /\ UNCHANGED <<declared, includes, paths, config, written, edits>>

Generated(o) ==
  CASE config[o].format = "json-schema" -> JsonSchema(schema, config[o])
    [] config[o].format = "openapi"     -> OpenApi(schema, config[o], paths)
    [] config[o].format = "typescript"  -> TypeScript(schema, config[o])
    [] config[o].format = "markdown"    -> Markdown(schema, config[o], paths)

OutputThrows(o) ==
  config[o].format = "openapi" /\ OpenApiThrows(schema, config[o], paths)

WriteOutput(o) ==
  /\ phase = "out" /\ o \in todo
  /\ todo' = todo \ {o}
  /\ written' = IF OutputThrows(o) THEN written
                ELSE [p \in DOMAIN written \union {o} |->
                        IF p = o THEN Generated(o) ELSE written[p]]
  /\ UNCHANGED <<declared, includes, paths, config, docs, broken, phase, edits>>

Done ==
  /\ phase = "out" /\ todo = {}
  /\ phase' = "idle" /\ written' = Nothing
  /\ UNCHANGED <<declared, includes, paths, config, docs, broken, todo, edits>>

Next ==
  \/ EditSchema \/ EditPaths \/ BreakOrMend
  \/ \E ns \in DocNamespaces : \E key \in docs[ns].keys : Describe(ns, key)
  \/ \E chosen \in SUBSET Outputs : Start(chosen)
  \/ \E unreadable \in SUBSET Files : ReadSchema(unreadable)
  \/ UpdateDoc
  \/ \E opened \in SUBSET DocNamespaces : DocFails(opened)
  \/ \E o \in Outputs : WriteOutput(o)
  \/ Done

Spec == Init /\ [][Next]_vars

WrittenIn(format) == {o \in DOMAIN written : config[o].format = format}

LeftOut(o, t) == t \notin Names(Included(schema, config[o].filter))

\* A path names types of whole messages by their plain name, which a table has only
\* where another table uses it.
OnlyInUnions(o, t) == ~ContentOnly(config[o]) /\ ~IsUntagged(schema, config[o], t)

(* JSON Schema and OpenAPI: whatever the filter leaves out and however     *)
(* unions are written, a reference of a generated file has its definition  *)
(* there.  The resolver's marks decide which forms of a table are written  *)
(* (json-schema/output.ts 209), and every kind of reference for itself     *)
(* which form it takes.  The references that may lead nowhere: those of    *)
(* fields, paths of whole messages and the root to a type that is left     *)
(* out, never the values of a union, and OnlyInUnions.                     *)
RefsDefined ==
  \A o \in WrittenIn("json-schema") \union WrittenIn("openapi") : \A r \in written[o].refs :
    \/ r.key \in written[o].keys
    \/ r.in \in {"field", "root"} /\ LeftOut(o, r.type)
    \/ r.in = "path" /\ ~ContentOnly(config[o]) /\ (LeftOut(o, r.type) \/ OnlyInUnions(o, r.type))

\* An enum or a union of which nothing is let in has no declaration in TypeScript.
Undeclared(o, t) == ~HasValues(schema, config[o], DeclOf(schema, t))

\* The names in a TypeScript file: its own, and those of the files it imports from.
Scope(files, ns) ==
  files[ns].declares
    \union UNION {{n \in files[i.from].declares : n.name = i.name} :
                    i \in {j \in files[ns].imports : j.from \in DOMAIN files}}

\* Another type goes by the name, and is at home in the file, in the namespace of the type
\* meant, or referred to from the file.
Homonym(S, o, ns, use) ==
  LET here == {d \in Included(S, o.filter) : d.ns = ns}
  IN  \E e \in Included(S, o.filter) :
        /\ Fqtn(e) # use.type
        /\ \E n \in WithTag(S, Fqtn(e)) : n.name = use.name
        /\ \/ e.ns \in {ns, NamespaceOf(use.type)}
           \/ \E d \in here : Fqtn(e) \in UnionTypes(S, d) \union FieldTypes(S, d)

(* TypeScript and Markdown, with a file per namespace: a name used in a    *)
(* file is in its scope with the type that is meant, also where it is used *)
(* only in vectors or as the tags of a union, and stands for that type     *)
(* alone, unless namespaces that meet have types with the same last name   *)
(* (typescript/includes.ts 32, output.ts 158).  A link leads to a heading  *)
(* of its page (markdown/util.ts 23).  The exceptions are types that are   *)
(* left out or of which nothing is let in.                                 *)
NamesDeclared ==
  /\ \A o \in WrittenIn("typescript") : \A ns \in DOMAIN written[o] :
       \A use \in written[o][ns].uses :
         \/ LeftOut(o, use.type) \/ Undeclared(o, use.type)
         \/ /\ use \in Scope(written[o], ns)
            /\ \A n \in Scope(written[o], ns) :
                 n.name = use.name => n = use \/ Homonym(schema, config[o], ns, use)
  /\ \A o \in WrittenIn("markdown") : \A ns \in DOMAIN written[o].pages :
       written[o].pages[ns].links \subseteq written[o].pages[ns].headings

Documented(ns, key) ==
  \E d \in schema : d.ns = ns /\ key \in KeysOfType(d)

(* Whatever the developer does between the runs, no run that gets to its   *)
(* outputs, and none that ends at the schema or at the tags, loses the     *)
(* description of a type or of a field that the schema still has: types    *)
(* that move between files and namespaces, fields that come and go,        *)
(* namespaces that vanish and return.  A run that ends at a documentation  *)
(* file or at the paths has emptied files (doc/inout.ts 106): there the    *)
(* property says only that a file is lost as a whole, not that none is.    *)
DescriptionsKept ==
  [][\A ns \in DocNamespaces : \A key \in docs[ns].described :
       \/ key \in docs'[ns].described
       \/ ~Documented(ns, key)
       \/ /\ phase = "doc" /\ phase' = "idle" /\ ~broken.tags
          /\ PathsInvalid \/ Visited \intersect broken.docs # {}
          /\ docs'[ns] = NoDoc]_vars
=============================================================================
