-------------------------- MODULE ProtocolOutputs ---------------------------
(* What the protocol tool generates from a schema                          *)
(* (src/tools/protocol/src/output): for each format, the names that the    *)
(* generated files define and the names that they refer to.  Texts,        *)
(* numbers and layout are left out.                                        *)
(*                                                                         *)
(* An output of protocol.config.yaml is a record                           *)
(*   format         : "json-schema", "openapi", "typescript", "markdown"   *)
(*   filter         : [listed, includes, excludes], see IncludeType        *)
(*   typesInUnions, strictUnions, msgContentOnly : BOOLEAN                 *)
(* and a path of paths.yaml a record [input, output] of full type names    *)
(* or NoType.                                                              *)
EXTENDS ProtocolSchema

CONSTANTS
  MotisSuccess,   \* the response of a path without output
  MotisError      \* the response 500 of every path

Formats == {"json-schema", "openapi", "typescript", "markdown"}

OutputRecords(types) ==
  [format : Formats,
   filter : [listed : BOOLEAN, includes : SUBSET types, excludes : SUBSET types],
   typesInUnions : BOOLEAN, strictUnions : BOOLEAN, msgContentOnly : BOOLEAN]

WithSuffix(t, suffix) == [t EXCEPT ![Len(t)] = @ \o suffix]

TaggedType(t) == WithSuffix(t, "T")

UnionTagType(t) == WithSuffix(t, "Type")

(* JSON Schema                                                             *)

\* Only where unions carry the tag of their type are tables written twice.
IsUntagged(S, o, t) == ~o.typesInUnions \/ t \in UsedInTable(S)

IsTagged(S, o, t) == o.typesInUnions /\ t \in UsedInUnion(S)

\* A reference: what it stands in, the name, and the type that it is meant for.
Ref(in, key, t) == [in |-> in, key |-> key, type |-> t]

\* The values of a union that are not left out, under the name they have there.
UnionRefs(S, o, d) ==
  {Ref("union", IF o.typesInUnions THEN TaggedType(t) ELSE t, t) :
     t \in {u \in UnionTypes(S, d) : IncludeType(o.filter, u)}}

\* A field of a union type, where unions have their type in a field of its own.
IsTagField(S, o, d, f) ==
  /\ ~o.typesInUnions /\ ~f.vector
  /\ DeclOf(S, Resolve(S, d.ns, f.type)).kind = "union"

FieldRefs(S, o, d, f) ==
  LET t == Resolve(S, d.ns, f.type)
      tag == IF IsTagField(S, o, d, f) THEN {Ref("field", UnionTagType(t), t)} ELSE {}
  IN  IF IsTagField(S, o, d, f) /\ o.strictUnions
      THEN UnionRefs(S, o, DeclOf(S, t))
      ELSE tag \union {Ref("field", t, t)}

TableKeys(S, o, d) ==
  {t \in {Fqtn(d)} : IsUntagged(S, o, t)}
    \union {TaggedType(t) : t \in {u \in {Fqtn(d)} : IsTagged(S, o, u)}}

\* What convertSchemaType defines for a declaration, and what that refers to.
KeysOf(S, o, d) ==
  CASE d.kind = "enum"  -> {Fqtn(d)}
    [] d.kind = "union" -> {Fqtn(d)} \union (IF o.typesInUnions THEN {}
                                             ELSE {UnionTagType(Fqtn(d))})
    [] d.kind = "table" -> TableKeys(S, o, d)

RefsOf(S, o, d) ==
  CASE d.kind = "enum"  -> {}
    [] d.kind = "union" -> UnionRefs(S, o, d)
    [] d.kind = "table" -> IF TableKeys(S, o, d) = {} THEN {}
                           ELSE UNION {FieldRefs(S, o, d, f) : f \in CustomFields(d)}

JsonTypes(S, o) ==
  [keys |-> UNION {KeysOf(S, o, d) : d \in Included(S, o.filter)},
   refs |-> UNION {RefsOf(S, o, d) : d \in Included(S, o.filter)}]

JsonSchema(S, o) ==
  [JsonTypes(S, o) EXCEPT !.refs = @ \union {Ref("root", t, t) : t \in Root(S)}]
(* OpenAPI: the same types with loose unions, and the paths.  The default  *)
(* of msg-content-only asks for tagged types.                              *)
ContentOnly(o) == o.typesInUnions /\ o.msgContentOnly

ResponseTypes(p) == {IF p.output = NoType THEN MotisSuccess ELSE p.output, MotisError}

PathTypes(p) == ({p.input} \ {NoType}) \union ResponseTypes(p)

HasTaggedType(S, o, t) ==
  \E d \in Included(S, o.filter) :
    Fqtn(d) = t /\ d.kind = "table" /\ IsTagged(S, o, t)

\* The output ends with an exception, before its file is opened.
OpenApiThrows(S, o, paths) ==
  /\ ContentOnly(o)
  /\ \E p \in paths : \E t \in PathTypes(p) : ~HasTaggedType(S, o, t)

PathRefs(o, paths) ==
  {Ref("path", IF ContentOnly(o) THEN TaggedType(t) ELSE t, t) : t \in UNION {PathTypes(p) : p \in paths}}

\* writeSchema copies the references, and goes through properties and items.
OpenApiTypes(S, o) == JsonTypes(S, [o EXCEPT !.strictUnions = FALSE])

OpenApi(S, o, paths) ==
  [OpenApiTypes(S, o) EXCEPT !.refs = @ \union PathRefs(o, paths)]

(* TypeScript: a file per namespace, in which types go by their last name. *)
(* Of a name in a file, the model also has the type that it stands for.    *)
LastName(t) == t[Len(t)]

NamespaceOf(t) == SubSeq(t, 1, Len(t) - 1)

NamespacesOf(S) == {d.ns : d \in S}

IsUnion(S, t) == DeclOf(S, t).kind = "union"

Standing(name, t) == [name |-> name, type |-> t]

\* A type under its name, and the tags of a union under the one with Type.
Plain(t) == {Standing(LastName(t), t)}

WithTag(S, t) ==
  Plain(t) \union (IF IsUnion(S, t) THEN {Standing(LastName(t) \o "Type", t)} ELSE {})

\* What an output lets in of the values of an enum or of a union.
HasValues(S, o, d) ==
  CASE d.kind = "enum"  -> d.values # {}
    [] d.kind = "union" -> \E t \in UnionTypes(S, d) : IncludeType(o.filter, t)
    [] d.kind = "table" -> TRUE

\* An enum or a union without any is not declared at all.
TsDeclared(S, o, d) == IF HasValues(S, o, d) THEN WithTag(S, Fqtn(d)) ELSE {}

\* The names in the text of a declaration.
TsUsed(S, o, d) ==
  (UNION {Plain(t) : t \in {u \in UnionTypes(S, d) : IncludeType(o.filter, u)}})
    \union (UNION {IF f.vector THEN Plain(Resolve(S, d.ns, f.type))
                   ELSE WithTag(S, Resolve(S, d.ns, f.type)) : f \in CustomFields(d)})

\* The types of other namespaces that the declarations of a file refer to.
TsForeign(S, o, ns, ds) ==
  {t \in UNION {UnionTypes(S, d) \union FieldTypes(S, d) : d \in ds} :
     NamespaceOf(t) # ns /\ IncludeType(o.filter, t)}

\* An import has the namespace of the file that it is from, and a name of that file.
Import(n) == [from |-> NamespaceOf(n.type), name |-> n.name]

\* Mutant: the type of a union is imported without that of its tags.
TsImportsNoTags(S, o, ns, ds) ==
  {Import(n) : n \in UNION {Plain(t) : t \in TsForeign(S, o, ns, ds)}}

TsImports(S, o, ns, ds) ==
  {Import(n) : n \in UNION {WithTag(S, t) : t \in TsForeign(S, o, ns, ds)}}

TsFile(S, o, ns) ==
  LET ds == {d \in Included(S, o.filter) : d.ns = ns}
  IN  [declares |-> UNION {TsDeclared(S, o, d) : d \in ds},
       imports  |-> TsImports(S, o, ns, ds),
       uses     |-> UNION {TsUsed(S, o, d) : d \in ds}]

TypeScript(S, o) == [ns \in NamespacesOf(Included(S, o.filter)) |-> TsFile(S, o, ns)]

(* Markdown: links lead to headings of the same file only; a type of       *)
(* another namespace, or one that is left out, is written without a link.  *)
LinksTo(S, o, ns, t) == IncludeType(o.filter, t) /\ NamespaceOf(t) = ns

MarkdownFile(S, o, ns) ==
  LET ds == {d \in Included(S, o.filter) : d.ns = ns}
  IN  [headings |-> {Fqtn(d) : d \in ds},
       links    |-> {t \in UNION {FieldTypes(S, d) : d \in ds} : LinksTo(S, o, ns, t)}]

\* paths.md has no headings of types: the links of its types lead nowhere.
PathsLinks(o, paths) ==
  {t \in (UNION {{p.input, p.output} : p \in paths}) \ {NoType} : IncludeType(o.filter, t)}

Markdown(S, o, paths) ==
  [pages |-> [ns \in NamespacesOf(Included(S, o.filter)) |-> MarkdownFile(S, o, ns)],
   paths |-> PathsLinks(o, paths)]
=============================================================================
