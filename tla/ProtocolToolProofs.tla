------------------------- MODULE ProtocolToolProofs -------------------------
(***************************************************************************)
(* What module ProtocolTool promises for any schemas, filters, options,     *)
(* paths and edits: the references and names of the generated files lead    *)
(* somewhere, and a run that reaches its outputs loses no descriptions.     *)
(*                                                                         *)
(* What a file defines and what it refers to are both computed from the     *)
(* schema; the lemmas about operators show that the one covers the other.   *)
(* The files of a run belong to the schema as it is, because the developer  *)
(* edits only between runs.                                                 *)
(***************************************************************************)
EXTENDS ProtocolTool, WellFoundedInduction, SequenceTheorems, TLAPS

\* What the resolver has made sure of when an output is written.
Valid(S) ==
  /\ S \subseteq Decls
  /\ ~DefinedTwice(S)
  /\ ~Unresolved(S)

(* Names.                                                                  *)

\* A set of numbers up to k that is not empty has a greatest one.
LEMMA Greatest ==
  ASSUME NEW k \in Nat, NEW T \in SUBSET (0 .. k), T # {}
  PROVE  \E n \in T : \A i \in T : i <= n
<1> DEFINE M == {j \in Nat : k - j \in T}
<1>1. M # {} /\ M \subseteq Nat
  <2>1. PICK i \in T : TRUE
    OBVIOUS
  <2>2. k - i \in Nat /\ k - (k - i) = i
    BY <2>1
  <2> QED
    BY <2>1, <2>2
<1>2. \E j \in M : \A l \in M : ~(<<l, j>> \in OpToRel(<, Nat))
  <2> HIDE DEF M
  <2> QED
    BY <1>1, NatLessThanWellFounded, WFMin
<1>3. PICK j \in M : \A l \in M : ~(<<l, j>> \in OpToRel(<, Nat))
  BY <1>2
<1>4. \A l \in M : j <= l
  <2> HIDE DEF M
  <2>1. \A l \in M : l \in Nat /\ j \in Nat
    BY <1>1
  <2>2. \A l \in M : ~(l < j)
    BY <1>3, <2>1 DEF OpToRel
  <2> QED
    BY <2>1, <2>2
<1>5. k - j \in T
  OBVIOUS
<1>6. \A i \in T : i <= k - j
  <2> TAKE i \in T
  <2>1. k - i \in M
    OBVIOUS
  <2> QED
    BY <1>4, <2>1
<1> QED
  BY <1>5, <1>6

\* resolveType finds a type of the schema or none.
LEMMA ResolveFinds ==
  ASSUME NEW S, NEW ns \in Seq(STRING), NEW ref
  PROVE  Resolve(S, ns, ref) \in Names(S) \union {NoType}
<1> DEFINE fits == Fitting(S, ns, ref)
           deepest == CHOOSE n \in fits : \A k \in fits : k <= n
<1>1. CASE fits = {}
  BY <1>1 DEF Resolve
<1>2. CASE fits # {}
  <2>1. Len(ns) \in Nat /\ fits \subseteq 0 .. Len(ns)
    BY DEF Fitting
  <2>2. \E n \in fits : \A k \in fits : k <= n
    <3> HIDE DEF fits
    <3> QED
      BY <1>2, <2>1, Greatest
  <2>3. deepest \in fits
    <3> HIDE DEF fits
    <3> QED
      BY <2>2
  <2>4. SubSeq(ns, 1, deepest) \o ref \in Names(S)
    BY <2>3 DEF Fitting
  <2> QED
    BY <1>2, <2>4 DEF Resolve
<1> QED
  BY <1>1, <1>2

\* What a type of a valid schema refers to is in the schema; a union's values are tables.
LEMMA ValidNames ==
  ASSUME NEW S, Valid(S), NEW d \in S
  PROVE  /\ UnionTypes(S, d) \subseteq Names(S) /\ FieldTypes(S, d) \subseteq Names(S)
         /\ \A t \in UnionTypes(S, d) : \A e \in S : Fqtn(e) = t => e.kind = "table"
<1>1. d \in Decls /\ d.ns \in Seq(STRING)
  BY ToolAssumption DEF Valid, ToolAssumption
<1>2. NoType \notin UnionTypes(S, d) /\ NoType \notin FieldTypes(S, d)
  BY DEF Valid, Unresolved
<1>3. UnionTypes(S, d) \subseteq Names(S)
  BY <1>1, <1>2, ResolveFinds DEF UnionTypes
<1>4. FieldTypes(S, d) \subseteq Names(S)
  BY <1>1, <1>2, ResolveFinds DEF FieldTypes
<1>5. \A t \in UnionTypes(S, d) : \A e \in S : Fqtn(e) = t => e.kind = "table"
  BY <1>3, ToolAssumption DEF Valid, ToolAssumption, UnionsOfTables
<1> QED
  BY <1>3, <1>4, <1>5

\* A name stands for one declaration.
LEMMA DeclOfName ==
  ASSUME NEW S, Valid(S), NEW t \in Names(S)
  PROVE  /\ DeclOf(S, t) \in S /\ Fqtn(DeclOf(S, t)) = t
         /\ \A d \in S : Fqtn(d) = t => d = DeclOf(S, t)
<1>1. \E d \in S : Fqtn(d) = t
  BY DEF Names
<1>2. DeclOf(S, t) \in S /\ Fqtn(DeclOf(S, t)) = t
  BY <1>1 DEF DeclOf
<1> QED
  BY <1>2 DEF Valid, DefinedTwice

-----------------------------------------------------------------------------
(* JSON Schema and OpenAPI.                                                *)

\* convertSchemaType defines the plain form of what tables use, and everything but
\* tables, unless it is left out.
LEMMA PlainDefined ==
  ASSUME NEW S, Valid(S), NEW o, NEW t \in Names(Included(S, o.filter)),
         t \in UsedInTable(S)
  PROVE  t \in JsonTypes(S, o).keys
<1>1. PICK d \in Included(S, o.filter) : Fqtn(d) = t
  BY DEF Names
<1>2. d.kind \in {"enum", "union", "table"}
  BY ToolAssumption DEF ToolAssumption, Included, Valid
<1>3. t \in KeysOf(S, o, d)
  BY <1>1, <1>2 DEF KeysOf, TableKeys, IsUntagged
<1> QED
  BY <1>1, <1>3 DEF JsonTypes

\* The values of a union are defined in the form the union asks for.
LEMMA UnionRefsDefined ==
  ASSUME NEW S, Valid(S), NEW o, NEW d \in S, NEW r \in UnionRefs(S, o, d)
  PROVE  r.key \in JsonTypes(S, o).keys
<1>1. PICK u \in UnionTypes(S, d) :
        /\ IncludeType(o.filter, u)
        /\ r.key = IF o.typesInUnions THEN TaggedType(u) ELSE u
  BY DEF UnionRefs, Ref
<1>2. PICK e \in S : Fqtn(e) = u /\ e.kind = "table"
  BY <1>1, ValidNames DEF Names
<1>3. e \in Included(S, o.filter)
  BY <1>1, <1>2 DEF Included
<1>4. u \in UsedInUnion(S)
  BY <1>1 DEF UsedInUnion
<1>5. r.key \in TableKeys(S, o, e)
  <2>1. CASE o.typesInUnions
    <3>1. IsTagged(S, o, u)
      BY <1>4, <2>1 DEF IsTagged
    <3> QED
      BY <1>1, <1>2, <2>1, <3>1 DEF TableKeys
  <2>2. CASE ~o.typesInUnions
    BY <1>1, <1>2, <2>2 DEF TableKeys, IsUntagged
  <2> QED
    BY <2>1, <2>2
<1>6. KeysOf(S, o, e) = TableKeys(S, o, e)
  BY <1>2 DEF KeysOf
<1> QED
  BY <1>3, <1>5, <1>6 DEF JsonTypes

\* The references of a field: to its type, to the tags of a union, or to a union's values.
LEMMA FieldRefsDefined ==
  ASSUME NEW S, Valid(S), NEW o, NEW d \in S, NEW f \in CustomFields(d),
         NEW r \in FieldRefs(S, o, d, f)
  PROVE  \/ r.key \in JsonTypes(S, o).keys
         \/ r.in = "field" /\ r.type \notin Names(Included(S, o.filter))
<1> DEFINE t == Resolve(S, d.ns, f.type)
<1>1. t \in Names(S) /\ t \in UsedInTable(S)
  <2>1. t \in FieldTypes(S, d)
    BY DEF FieldTypes
  <2> QED
    BY <2>1, ValidNames DEF UsedInTable
<1>2. DeclOf(S, t) \in S
  BY <1>1, DeclOfName
<1>3. CASE r \in UnionRefs(S, o, DeclOf(S, t))
  BY <1>2, <1>3, UnionRefsDefined
<1>4. CASE r = Ref("field", t, t)
  BY <1>1, <1>4, PlainDefined DEF Ref
<1>5. CASE IsTagField(S, o, d, f) /\ r = Ref("field", UnionTagType(t), t)
  <2> SUFFICES ASSUME t \in Names(Included(S, o.filter))
               PROVE  UnionTagType(t) \in JsonTypes(S, o).keys
    BY <1>5 DEF Ref
  <2>1. PICK e \in Included(S, o.filter) : Fqtn(e) = t
    BY DEF Names
  <2>2. e = DeclOf(S, t)
    BY <1>1, <2>1, DeclOfName DEF Included
  <2>3. e.kind = "union" /\ ~o.typesInUnions
    BY <1>5, <2>2 DEF IsTagField
  <2>4. UnionTagType(t) \in KeysOf(S, o, e)
    BY <2>1, <2>3 DEF KeysOf
  <2> QED
    BY <2>1, <2>4 DEF JsonTypes
<1> QED
  BY <1>3, <1>4, <1>5 DEF FieldRefs

LEMMA JsonTypesRefs ==
  ASSUME NEW S, Valid(S), NEW o, NEW r \in JsonTypes(S, o).refs
  PROVE  \/ r.key \in JsonTypes(S, o).keys
         \/ r.in = "field" /\ r.type \notin Names(Included(S, o.filter))
<1>1. PICK d \in Included(S, o.filter) : r \in RefsOf(S, o, d)
  BY DEF JsonTypes
<1>2. d \in S /\ d.kind \in {"enum", "union", "table"}
  BY ToolAssumption DEF ToolAssumption, Included, Valid
<1>3. \/ r \in UnionRefs(S, o, d)
      \/ \E f \in CustomFields(d) : r \in FieldRefs(S, o, d, f)
  BY <1>1, <1>2 DEF RefsOf
<1> QED
  BY <1>2, <1>3, UnionRefsDefined, FieldRefsDefined

\* The properties of one output, with the schema it was written for.
Defined(S, o, r, keys) ==
  \/ r.key \in keys
  \/ r.in \in {"field", "root"} /\ r.type \notin Names(Included(S, o.filter))
  \/ /\ r.in = "path" /\ ~ContentOnly(o)
     /\ r.type \notin Names(Included(S, o.filter)) \/ ~IsUntagged(S, o, r.type)

LEMMA JsonSchemaRefs ==
  ASSUME NEW S, Valid(S), NEW o, NEW r \in JsonSchema(S, o).refs
  PROVE  Defined(S, o, r, JsonSchema(S, o).keys)
<1>1. /\ JsonSchema(S, o).keys = JsonTypes(S, o).keys
      /\ JsonSchema(S, o).refs = JsonTypes(S, o).refs \union {Ref("root", t, t) : t \in Root(S)}
  BY DEF JsonSchema, JsonTypes
<1>2. CASE r \in JsonTypes(S, o).refs
  BY <1>1, <1>2, JsonTypesRefs DEF Defined
<1>3. ASSUME NEW t \in Root(S), r = Ref("root", t, t)
      PROVE  Defined(S, o, r, JsonSchema(S, o).keys)
  <2>1. t \in UsedInTable(S)
    BY DEF UsedInTable
  <2>2. CASE t \in Names(Included(S, o.filter))
    BY <1>1, <1>3, <2>1, <2>2, PlainDefined DEF Defined, Ref
  <2>3. CASE t \notin Names(Included(S, o.filter))
    BY <1>3, <2>3 DEF Defined, Ref
  <2> QED
    BY <2>2, <2>3
<1> QED
  BY <1>1, <1>2, <1>3

\* A path refers to the tagged form of a table only if all of its types have one.
LEMMA PathRefsDefined ==
  ASSUME NEW S, Valid(S), NEW o, NEW o2, NEW P, NEW r \in PathRefs(o, P),
         ~OpenApiThrows(S, o, P), o2.filter = o.filter, o2.typesInUnions = o.typesInUnions
  PROVE  Defined(S, o, r, JsonTypes(S, o2).keys)
<1>0. PICK p \in P : r \in {Ref("path", IF ContentOnly(o) THEN TaggedType(t) ELSE t, t) :
                               t \in PathTypes(p)}
  BY DEF PathRefs
<1>1. PICK t \in PathTypes(p) :
        r = Ref("path", IF ContentOnly(o) THEN TaggedType(t) ELSE t, t)
  BY <1>0
<1>2. CASE ContentOnly(o)
  <2>1. PICK d \in Included(S, o.filter) :
          Fqtn(d) = t /\ d.kind = "table" /\ IsTagged(S, o, t)
    BY <1>0, <1>1, <1>2 DEF OpenApiThrows, HasTaggedType
  <2>2. TaggedType(t) \in TableKeys(S, o2, d)
    BY <2>1 DEF TableKeys, IsTagged
  <2>3. TaggedType(t) \in KeysOf(S, o2, d)
    BY <2>1, <2>2 DEF KeysOf
  <2>4. TaggedType(t) \in JsonTypes(S, o2).keys
    BY <2>1, <2>3 DEF JsonTypes
  <2> QED
    BY <1>1, <1>2, <2>4 DEF Defined, Ref
<1>3. CASE ~ContentOnly(o)
  <2> SUFFICES ASSUME t \in Names(Included(S, o.filter)), IsUntagged(S, o, t)
               PROVE  t \in JsonTypes(S, o2).keys
    BY <1>1, <1>3 DEF Defined, Ref
  <2>1. PICK d \in Included(S, o.filter) : Fqtn(d) = t
    BY DEF Names
  <2>2. d.kind \in {"enum", "union", "table"}
    BY ToolAssumption DEF ToolAssumption, Included, Valid
  <2>3. t \in KeysOf(S, o2, d)
    BY <2>1, <2>2 DEF KeysOf, TableKeys, IsUntagged
  <2> QED
    BY <2>1, <2>3 DEF JsonTypes
<1> QED
  BY <1>2, <1>3

LEMMA OpenApiRefs ==
  ASSUME NEW S, Valid(S), NEW o \in OutputRecords(Names(Decls)), NEW P,
         ~OpenApiThrows(S, o, P), NEW r \in OpenApi(S, o, P).refs
  PROVE  Defined(S, o, r, OpenApi(S, o, P).keys)
<1> DEFINE o2 == [o EXCEPT !.strictUnions = FALSE]
<1>1. o2.filter = o.filter /\ o2.typesInUnions = o.typesInUnions
  BY DEF OutputRecords
<1>2. /\ OpenApi(S, o, P).keys = JsonTypes(S, o2).keys
      /\ OpenApi(S, o, P).refs = JsonTypes(S, o2).refs \union PathRefs(o, P)
  BY DEF OpenApi, OpenApiTypes, JsonTypes
<1> HIDE DEF o2
<1>3. CASE r \in JsonTypes(S, o2).refs
  BY <1>1, <1>2, <1>3, JsonTypesRefs DEF Defined
<1>4. CASE r \in PathRefs(o, P)
  BY <1>1, <1>2, <1>4, PathRefsDefined
<1> QED
  BY <1>2, <1>3, <1>4

-----------------------------------------------------------------------------
(* TypeScript and Markdown.                                                *)

\* The file of a type is that of its namespace.
LEMMA NamespaceOfFqtn ==
  ASSUME NEW d \in Decls
  PROVE  NamespaceOf(Fqtn(d)) = d.ns
<1>1. d.ns \in Seq(STRING)
  BY ToolAssumption DEF ToolAssumption
<1> DEFINE T == STRING \union {d.name}
<1>2. d.ns \in Seq(T) /\ d.name \in T
  <2>1. Len(d.ns) \in Nat /\ d.ns \in [1 .. Len(d.ns) -> STRING]
    BY <1>1
  <2> QED
    BY <2>1
<1>3. Len(Append(d.ns, d.name)) - 1 = Len(d.ns)
  BY <1>2
<1>4. SubSeq(Append(d.ns, d.name), 1, Len(d.ns)) = d.ns
  BY <1>2, AppendProperties
<1> QED
  BY <1>3, <1>4 DEF NamespaceOf, Fqtn

\* A name that is used comes from a reference of a type of the namespace.
LEMMA UsedNames ==
  ASSUME NEW S, NEW o, NEW ns, NEW use \in TsFile(S, o, ns).uses
  PROVE  \E d \in Included(S, o.filter) :
           /\ d.ns = ns
           /\ use.type \in UnionTypes(S, d) \union FieldTypes(S, d)
           /\ use \in WithTag(S, use.type)
<1>1. PICK d \in Included(S, o.filter) : d.ns = ns /\ use \in TsUsed(S, o, d)
  BY DEF TsFile
<1>2. PICK t \in UnionTypes(S, d) \union FieldTypes(S, d) : use \in WithTag(S, t)
  BY <1>1 DEF TsUsed, WithTag, FieldTypes
<1>3. t = use.type
  BY <1>2 DEF WithTag, Plain, Standing
<1> QED
  BY <1>1, <1>2, <1>3

\* A type that is used, is not left out and is declared at all is in the scope of the
\* file: declared there, or imported from the file of its namespace.
LEMMA UsedInScope ==
  ASSUME NEW S, Valid(S), NEW o, NEW ns, NEW use \in TsFile(S, o, ns).uses,
         ns \in NamespacesOf(Included(S, o.filter)),
         NEW e \in Included(S, o.filter), Fqtn(e) = use.type, HasValues(S, o, e)
  PROVE  use \in Scope(TypeScript(S, o), ns)
<1> DEFINE t == use.type
           ds == {d \in Included(S, o.filter) : d.ns = ns}
           files == TypeScript(S, o)
<1>1. PICK d \in ds : t \in UnionTypes(S, d) \union FieldTypes(S, d) /\ use \in WithTag(S, t)
  BY UsedNames
<1>2. e \in Decls /\ NamespaceOf(t) = e.ns /\ IncludeType(o.filter, t)
  BY NamespaceOfFqtn DEF Valid, Included
<1>3. use \in TsFile(S, o, e.ns).declares
  <2>1. use \in TsDeclared(S, o, e)
    BY <1>1 DEF TsDeclared
  <2> QED
    BY <2>1 DEF TsFile
<1>4. e.ns \in DOMAIN files /\ use \in files[e.ns].declares
  BY <1>3 DEF TypeScript, NamespacesOf
<1>5. CASE e.ns = ns
  BY <1>4, <1>5 DEF Scope
<1>6. CASE e.ns # ns
  <2>1. t \in TsForeign(S, o, ns, ds)
    BY <1>1, <1>2, <1>6 DEF TsForeign
  <2>2. Import(use) \in TsFile(S, o, ns).imports
    <3>1. Import(use) \in TsImports(S, o, ns, ds)
      BY <1>1, <2>1 DEF TsImports
    <3> QED
      BY <3>1 DEF TsFile
  <2>3. Import(use) \in files[ns].imports
    BY <2>2 DEF TypeScript
  <2>4. Import(use).from = e.ns /\ Import(use).name = use.name
    BY <1>2 DEF Import
  <2>5. use \in Scope(files, ns)
    <3> HIDE DEF files
    <3> QED
      BY <1>4, <2>3, <2>4 DEF Scope
  <2> QED
    BY <2>5
<1> QED
  BY <1>5, <1>6

\* What a file declares stands for types of its namespace.
LEMMA DeclaredNames ==
  ASSUME NEW S, NEW o, NEW ns, NEW n \in TsFile(S, o, ns).declares
  PROVE  \E d \in Included(S, o.filter) :
           d.ns = ns /\ n.type = Fqtn(d) /\ n \in WithTag(S, Fqtn(d))
<1>1. PICK d \in Included(S, o.filter) : d.ns = ns /\ n \in TsDeclared(S, o, d)
  BY DEF TsFile
<1>2. n \in WithTag(S, Fqtn(d))
  BY <1>1 DEF TsDeclared
<1>3. n.type = Fqtn(d)
  BY <1>2 DEF WithTag, Plain, Standing
<1> QED
  BY <1>1, <1>2, <1>3

\* Another meaning of a name that is used comes from another type of that name.
LEMMA OtherMeanings ==
  ASSUME NEW S, Valid(S), NEW o, NEW ns, NEW use \in TsFile(S, o, ns).uses,
         ns \in NamespacesOf(Included(S, o.filter)),
         NEW n \in Scope(TypeScript(S, o), ns), n.name = use.name, n # use
  PROVE  Homonym(S, o, ns, use)
<1> DEFINE files == TypeScript(S, o)
           here == {d \in Included(S, o.filter) : d.ns = ns}
<1>0. use \in WithTag(S, use.type)
  BY UsedNames
<1>1. ASSUME NEW d, n \in WithTag(S, Fqtn(d)), n.type = Fqtn(d)
      PROVE  Fqtn(d) # use.type
  BY <1>0, <1>1 DEF WithTag, Plain, Standing
<1>2. CASE n \in files[ns].declares
  <2>1. n \in TsFile(S, o, ns).declares
    BY <1>2 DEF TypeScript
  <2>2. PICK d \in Included(S, o.filter) :
          d.ns = ns /\ n.type = Fqtn(d) /\ n \in WithTag(S, Fqtn(d))
    BY <2>1, DeclaredNames
  <2> QED
    BY <1>1, <2>2 DEF Homonym
<1>3. ASSUME NEW i \in files[ns].imports, i.from \in DOMAIN files,
             n \in files[i.from].declares, n.name = i.name
      PROVE  Homonym(S, o, ns, use)
  <2>1. n \in TsFile(S, o, i.from).declares /\ i \in TsImports(S, o, ns, here)
    BY <1>3 DEF TypeScript, TsFile
  <2>2. PICK t \in TsForeign(S, o, ns, here) : \E m \in WithTag(S, t) : i = Import(m)
    BY <2>1 DEF TsImports
  <2>3. PICK m \in WithTag(S, t) : i = Import(m)
    BY <2>2
  <2>4. m.type = t /\ m.name = use.name /\ i.from = NamespaceOf(t)
    BY <1>3, <2>3 DEF WithTag, Plain, Standing, Import
  <2>5. PICK d \in Included(S, o.filter) :
          d.ns = i.from /\ n.type = Fqtn(d) /\ n \in WithTag(S, Fqtn(d))
    BY <2>1, DeclaredNames
  <2>6. CASE t = use.type
    BY <1>1, <2>4, <2>5, <2>6 DEF Homonym
  <2>7. CASE t # use.type
    <3>1. PICK c \in here : t \in UnionTypes(S, c) \union FieldTypes(S, c)
      BY DEF TsForeign
    <3>2. t \in Names(S) /\ IncludeType(o.filter, t)
      BY <3>1, ValidNames DEF TsForeign, Included
    <3>3. PICK e \in Included(S, o.filter) : Fqtn(e) = t
      BY <3>2 DEF Names, Included
    <3> QED
      BY <2>3, <2>4, <2>7, <3>1, <3>3 DEF Homonym
  <2> QED
    BY <2>6, <2>7
<1>4. n \in Scope(files, ns)
  OBVIOUS
<1> HIDE DEF files
<1> QED
  BY <1>2, <1>3, <1>4 DEF Scope

LEMMA MarkdownLinks ==
  ASSUME NEW S, Valid(S), NEW o, NEW ns
  PROVE  MarkdownFile(S, o, ns).links \subseteq MarkdownFile(S, o, ns).headings
<1> SUFFICES ASSUME NEW t \in MarkdownFile(S, o, ns).links
             PROVE  t \in MarkdownFile(S, o, ns).headings
  OBVIOUS
<1>1. PICK d \in Included(S, o.filter) : t \in FieldTypes(S, d) /\ LinksTo(S, o, ns, t)
  BY DEF MarkdownFile
<1>2. PICK e \in S : Fqtn(e) = t
  BY <1>1, ValidNames DEF Included, Names
<1>3. e \in Included(S, o.filter) /\ e.ns = ns
  BY <1>1, <1>2, NamespaceOfFqtn DEF LinksTo, Included, Valid
<1> QED
  BY <1>2, <1>3 DEF MarkdownFile

-----------------------------------------------------------------------------
(* Runs.                                                                   *)

DocKeys == UNION {KeysOfType(d) : d \in Decls}

\* The documentation files.
DocsOK ==
  /\ docs \in [DocNamespaces -> [keys : SUBSET DocKeys, described : SUBSET DocKeys]]
  /\ \A ns \in DocNamespaces : docs[ns].described \subseteq docs[ns].keys

\* What the present run has written comes from the present schema and paths, and there
\* is something only while it runs.
WrittenOK ==
  /\ DOMAIN written \subseteq Outputs
  /\ \A o \in DOMAIN written : written[o] = Generated(o) /\ ~OutputThrows(o)
  /\ phase # "out" => DOMAIN written = {}

RunOK ==
  /\ declared \subseteq Decls /\ includes \subseteq Includes /\ paths \subseteq Paths
  /\ config \in Configs
  /\ broken \in [docs : SUBSET DocNamespaces, paths : BOOLEAN, tags : BOOLEAN]
  /\ phase \in {"idle", "read", "doc", "out"}
  /\ todo \subseteq Outputs /\ edits \in 0 .. MaxEdits
  /\ phase \in {"doc", "out"} => Valid(schema)

ToolInv == DocsOK /\ WrittenOK /\ RunOK

LEMMA SchemaDeclared ==
  ASSUME declared \subseteq Decls
  PROVE  schema \subseteq Decls
BY DEF schema, Extracted

\* readAndUpdateDoc keeps the form of the files.
LEMMA UpdatedDocOK ==
  ASSUME DocsOK, NEW S, S \subseteq Decls, NEW ns \in DocNamespaces
  PROVE  /\ UpdatedDoc(S, ns) \in [keys : SUBSET DocKeys, described : SUBSET DocKeys]
         /\ UpdatedDoc(S, ns).described \subseteq UpdatedDoc(S, ns).keys
<1> DEFINE kept == {key \in docs[ns].keys : Keeps(S, ns, key)}
           present == UNION {KeysOfType(d) : d \in {e \in S : e.ns = ns}}
<1>1. kept \subseteq DocKeys
  BY DEF DocsOK
<1>2. present \subseteq DocKeys
  BY DEF DocKeys
<1>3. UpdatedDoc(S, ns) = [keys |-> kept \union present,
                           described |-> docs[ns].described \intersect kept]
  BY DEF UpdatedDoc
<1> HIDE DEF kept, present
<1> QED
  BY <1>1, <1>2, <1>3

LEMMA DocsStep ==
  ASSUME DocsOK, declared \subseteq Decls, [Next]_vars
  PROVE  DocsOK'
<1>1. CASE UNCHANGED docs
  BY <1>1 DEF DocsOK
<1>2. ASSUME NEW ns \in DocNamespaces, NEW key \in docs[ns].keys, Describe(ns, key)
      PROVE  DocsOK'
  <2>1. docs' = [docs EXCEPT ![ns].described = docs[ns].described \union {key}]
    BY <1>2 DEF Describe
  <2>2. docs'[ns] = [docs[ns] EXCEPT !.described = docs[ns].described \union {key}]
    BY <2>1 DEF DocsOK
  <2>3. /\ docs'[ns] \in [keys : SUBSET DocKeys, described : SUBSET DocKeys]
        /\ docs'[ns].described \subseteq docs'[ns].keys
    BY <2>2 DEF DocsOK
  <2> QED
    BY <2>1, <2>3 DEF DocsOK
<1>3. CASE UpdateDoc
  <2>1. docs' = [ns \in DocNamespaces |->
                   IF ns \in Visited THEN UpdatedDoc(schema, ns) ELSE docs[ns]]
    BY <1>3 DEF UpdateDoc
  <2>2. schema \subseteq Decls
    BY SchemaDeclared
  <2> QED
    BY <2>1, <2>2, UpdatedDocOK DEF DocsOK
<1>4. ASSUME NEW opened, DocFails(opened)
      PROVE  DocsOK'
  <2>1. docs' = [ns \in DocNamespaces |-> IF ns \in opened THEN NoDoc ELSE docs[ns]]
    BY <1>4 DEF DocFails
  <2> QED
    BY <2>1 DEF DocsOK, NoDoc
<1> QED
  BY <1>1, <1>2, <1>3, <1>4
     DEF Next, EditSchema, EditPaths, BreakOrMend, Start, ReadSchema, WriteOutput, Done, vars

LEMMA RunStep ==
  ASSUME RunOK, [Next]_vars
  PROVE  RunOK'
<1> USE DEF RunOK
<1>0. MaxEdits \in Nat
  BY ToolAssumption DEF ToolAssumption
<1>1. CASE EditSchema
  BY <1>0, <1>1 DEF EditSchema, Edit, ToggledIn
<1>2. CASE EditPaths
  BY <1>0, <1>2 DEF EditPaths, Edit, ToggledIn
<1>3. ASSUME NEW ns, NEW key, Describe(ns, key) PROVE RunOK'
  BY <1>0, <1>3 DEF Describe, Edit
<1>4. CASE BreakOrMend
  <2>1. broken' \in [docs : SUBSET DocNamespaces, paths : BOOLEAN, tags : BOOLEAN]
    <3>1. \A some \in ToggledIn(broken.docs, DocNamespaces) : some \subseteq DocNamespaces
      BY DEF ToggledIn
    <3> QED
      BY <1>4, <3>1 DEF BreakOrMend
  <2> QED
    BY <1>0, <1>4, <2>1 DEF BreakOrMend, Edit
<1>5. ASSUME NEW chosen \in SUBSET Outputs, Start(chosen) PROVE RunOK'
  BY <1>5 DEF Start
<1>6. ASSUME NEW unreadable, ReadSchema(unreadable) PROVE RunOK'
  <2>1. UNCHANGED <<declared, includes>> => schema' = schema
    BY DEF schema
  <2> QED
    BY <1>6, <2>1, SchemaDeclared DEF ReadSchema, SchemaInvalid, Valid
<1>7. CASE UpdateDoc
  <2>1. schema' = schema
    BY <1>7 DEF UpdateDoc, schema
  <2> QED
    BY <1>7, <2>1 DEF UpdateDoc
<1>8. ASSUME NEW opened, DocFails(opened) PROVE RunOK'
  BY <1>8 DEF DocFails
<1>9. ASSUME NEW o, WriteOutput(o) PROVE RunOK'
  <2>1. schema' = schema
    BY <1>9 DEF WriteOutput, schema
  <2> QED
    BY <1>9, <2>1 DEF WriteOutput
<1>10. CASE Done
  BY <1>10 DEF Done
<1>11. CASE UNCHANGED vars
  <2>1. schema' = schema
    BY <1>11 DEF vars, schema
  <2> QED
    BY <1>11, <2>1 DEF vars
<1> QED
  BY <1>1, <1>2, <1>3, <1>4, <1>5, <1>6, <1>7, <1>8, <1>9, <1>10, <1>11 DEF Next

LEMMA WrittenStep ==
  ASSUME RunOK, WrittenOK, [Next]_vars
  PROVE  WrittenOK'
<1> USE DEF RunOK, WrittenOK
<1>1. CASE DOMAIN written = {} /\ UNCHANGED written
  BY <1>1
<1>2. ASSUME NEW o \in Outputs, WriteOutput(o) PROVE WrittenOK'
  <2>1. UNCHANGED <<declared, includes, paths, config, phase>>
    BY <1>2 DEF WriteOutput
  <2>2. \A p : Generated(p)' = Generated(p) /\ OutputThrows(p)' = OutputThrows(p)
    BY <2>1 DEF Generated, OutputThrows, schema
  <2>3. CASE OutputThrows(o)
    <3>1. written' = written
      BY <1>2, <2>3 DEF WriteOutput
    <3> QED
      BY <2>1, <2>2, <3>1
  <2>4. CASE ~OutputThrows(o)
    <3>1. written' = [p \in DOMAIN written \union {o} |->
                        IF p = o THEN Generated(o) ELSE written[p]]
      BY <1>2, <2>4 DEF WriteOutput
    <3> QED
      BY <1>2, <2>1, <2>2, <2>4, <3>1 DEF WriteOutput
  <2> QED
    BY <2>3, <2>4
<1>3. CASE Done
  <2>1. DOMAIN written' = {}
    BY <1>3 DEF Done, Nothing
  <2> QED
    BY <2>1
<1>4. CASE UNCHANGED vars
  <2>1. \A p : Generated(p)' = Generated(p) /\ OutputThrows(p)' = OutputThrows(p)
    BY <1>4 DEF Generated, OutputThrows, schema, vars
  <2> QED
    BY <1>4, <2>1 DEF vars
<1> QED
  BY <1>1, <1>2, <1>3, <1>4
     DEF Next, EditSchema, EditPaths, Describe, BreakOrMend, Edit, Start, ReadSchema,
         UpdateDoc, DocFails

LEMMA ToolInvariance == Spec => []ToolInv
<1>1. Init => ToolInv
  <2> SUFFICES ASSUME Init PROVE ToolInv
    OBVIOUS
  <2>1. DocsOK
    BY DEF Init, DocsOK, NoDoc
  <2>2. DOMAIN written = {} /\ WrittenOK
    BY DEF Init, Nothing, WrittenOK
  <2>3. RunOK
    BY ToolAssumption DEF ToolAssumption, Init, RunOK
  <2> QED
    BY <2>1, <2>2, <2>3 DEF ToolInv
<1>2. ToolInv /\ [Next]_vars => ToolInv'
  <2>1. RunOK => declared \subseteq Decls
    BY DEF RunOK
  <2> QED
    BY <2>1, DocsStep, RunStep, WrittenStep DEF ToolInv
<1> QED
  BY <1>1, <1>2, PTL DEF Spec

\* The type invariant: what is described in a documentation file is one of its keys, and a
\* run writes only outputs of the configuration (readAndUpdateSchemaFile, main).
THEOREM TypeCorrect == Spec => []TypeOK
<1>1. ToolInv => TypeOK
  BY DEF ToolInv, DocsOK, WrittenOK, RunOK, TypeOK
<1> QED
  BY <1>1, ToolInvariance, PTL

\* Whatever is declared, filtered and configured, a reference of a generated JSON Schema
\* or OpenAPI file is defined there, but for the cases the property names
\* (convertSchemaType, fieldTypeToJS, writeResponse).
THEOREM RefsDefinedCorrect == Spec => []RefsDefined
<1>1. ToolInv => RefsDefined
  <2> SUFFICES ASSUME ToolInv, NEW o \in DOMAIN written,
                      config[o].format \in {"json-schema", "openapi"},
                      NEW r \in written[o].refs
               PROVE  \/ r.key \in written[o].keys
                      \/ r.in \in {"field", "root"} /\ LeftOut(o, r.type)
                      \/ /\ r.in = "path" /\ ~ContentOnly(config[o])
                         /\ LeftOut(o, r.type) \/ OnlyInUnions(o, r.type)
    BY DEF RefsDefined, WrittenIn
  <2>1. Valid(schema) /\ config[o] \in OutputRecords(Names(Decls))
    BY ToolAssumption DEF ToolAssumption, ToolInv, WrittenOK, RunOK
  <2>2. written[o] = Generated(o) /\ ~OutputThrows(o)
    BY DEF ToolInv, WrittenOK
  <2>3. Defined(schema, config[o], r, written[o].keys)
    <3>1. CASE config[o].format = "json-schema"
      <4>1. written[o] = JsonSchema(schema, config[o])
        BY <2>2, <3>1 DEF Generated
      <4> QED
        BY <2>1, <4>1, JsonSchemaRefs
    <3>2. CASE config[o].format = "openapi"
      <4>1. /\ written[o] = OpenApi(schema, config[o], paths)
            /\ ~OpenApiThrows(schema, config[o], paths)
        BY <2>2, <3>2 DEF Generated, OutputThrows
      <4> QED
        BY <2>1, <4>1, OpenApiRefs
    <3> QED
      BY <3>1, <3>2
  <2> QED
    BY <2>3 DEF Defined, LeftOut, OnlyInUnions
<1> QED
  BY <1>1, ToolInvariance, PTL

\* Names of TypeScript files are in scope and stand for the type that is meant, but for
\* types with the same last name in namespaces that meet; links of Markdown pages lead to
\* headings (collectIncludes, getTSTypeName, writeType, getTypeHref).
THEOREM NamesDeclaredCorrect == Spec => []NamesDeclared
<1>1. ToolInv => NamesDeclared
  <2> SUFFICES ASSUME ToolInv, NEW o \in DOMAIN written
               PROVE  /\ config[o].format = "typescript" =>
                           \A ns \in DOMAIN written[o] : \A use \in written[o][ns].uses :
                             \/ LeftOut(o, use.type) \/ Undeclared(o, use.type)
                             \/ /\ use \in Scope(written[o], ns)
                                /\ \A n \in Scope(written[o], ns) : n.name = use.name =>
                                     n = use \/ Homonym(schema, config[o], ns, use)
                      /\ config[o].format = "markdown" =>
                           \A ns \in DOMAIN written[o].pages :
                             written[o].pages[ns].links \subseteq written[o].pages[ns].headings
    BY DEF NamesDeclared, WrittenIn
  <2>1. Valid(schema) /\ written[o] = Generated(o)
    BY DEF ToolInv, WrittenOK, RunOK
  <2> DEFINE c == config[o]
  <2>2. ASSUME c.format = "typescript", NEW ns \in DOMAIN written[o],
               NEW use \in written[o][ns].uses
        PROVE  \/ LeftOut(o, use.type) \/ Undeclared(o, use.type)
               \/ /\ use \in Scope(written[o], ns)
                  /\ \A n \in Scope(written[o], ns) : n.name = use.name =>
                       n = use \/ Homonym(schema, c, ns, use)
    <3>1. written[o] = TypeScript(schema, c)
      BY <2>1, <2>2 DEF Generated
    <3>2. /\ ns \in NamespacesOf(Included(schema, c.filter))
          /\ use \in TsFile(schema, c, ns).uses
      BY <2>2, <3>1 DEF TypeScript
    <3>3. \A n \in Scope(written[o], ns) :
            n.name = use.name => n = use \/ Homonym(schema, c, ns, use)
      BY <2>1, <3>1, <3>2, OtherMeanings
    <3>4. ASSUME ~LeftOut(o, use.type), ~Undeclared(o, use.type)
          PROVE  use \in Scope(written[o], ns)
      <4>1. PICK e \in Included(schema, c.filter) : Fqtn(e) = use.type
        BY <3>4 DEF LeftOut, Names
      <4>2. e = DeclOf(schema, use.type)
        BY <2>1, <4>1, DeclOfName DEF Included, Names
      <4>3. HasValues(schema, c, e)
        BY <3>4, <4>2 DEF Undeclared
      <4> QED
        BY <2>1, <3>1, <3>2, <4>1, <4>3, UsedInScope
    <3> QED
      BY <3>3, <3>4
  <2>3. ASSUME c.format = "markdown", NEW ns \in DOMAIN written[o].pages
        PROVE  written[o].pages[ns].links \subseteq written[o].pages[ns].headings
    <3>1. written[o].pages =
            [n \in NamespacesOf(Included(schema, c.filter)) |-> MarkdownFile(schema, c, n)]
      BY <2>1, <2>3 DEF Generated, Markdown
    <3>2. written[o].pages[ns] = MarkdownFile(schema, c, ns)
      BY <2>3, <3>1
    <3> QED
      BY <2>1, <3>2, MarkdownLinks
  <2> QED
    BY <2>2, <2>3
<1> QED
  BY <1>1, ToolInvariance, PTL

\* A run that gets to its outputs, or ends before it opens a documentation file, keeps the
\* description of what the schema still has, whatever was edited before; one that ends
\* later loses whole files (removeUnknownKeys, readAndUpdateSchemaFile, readPaths).
THEOREM DescriptionsKeptCorrect == Spec => DescriptionsKept
<1> DEFINE Kept == \A ns \in DocNamespaces : \A key \in docs[ns].described :
                     \/ key \in docs'[ns].described
                     \/ ~Documented(ns, key)
                     \/ /\ phase = "doc" /\ phase' = "idle" /\ ~broken.tags
                        /\ PathsInvalid \/ Visited \intersect broken.docs # {}
                        /\ docs'[ns] = NoDoc
<1>1. ToolInv /\ [Next]_vars => [Kept]_vars
  <2> DEFINE Lost(ns) ==
               /\ phase = "doc" /\ phase' = "idle" /\ ~broken.tags
               /\ PathsInvalid \/ Visited \intersect broken.docs # {}
               /\ docs'[ns] = NoDoc
  <2> SUFFICES ASSUME ToolInv, Next, NEW ns \in DocNamespaces, NEW key \in docs[ns].described,
                      Documented(ns, key)
               PROVE  key \in docs'[ns].described \/ Lost(ns)
    OBVIOUS
  <2>1. CASE UNCHANGED docs
    BY <2>1
  <2>2. ASSUME NEW n \in DocNamespaces, NEW k \in docs[n].keys, Describe(n, k)
        PROVE  key \in docs'[ns].described
    BY <2>2 DEF Describe, ToolInv, DocsOK
  <2>3. CASE UpdateDoc
    <3>1. docs'[ns] = IF ns \in Visited THEN UpdatedDoc(schema, ns) ELSE docs[ns]
      BY <2>3 DEF UpdateDoc
    <3>2. PICK d \in schema : d.ns = ns /\ key \in KeysOfType(d)
      BY DEF Documented
    <3>3. Keeps(schema, ns, key)
      <4>1. CASE key = <<d.name>>
        BY <3>2, <4>1 DEF Keeps, Fqtn
      <4>2. ASSUME NEW f \in FieldNames(d), key = <<d.name, f>>
            PROVE  Keeps(schema, ns, key)
        BY <3>2, <4>2 DEF Keeps, Fqtn
      <4> QED
        BY <3>2, <4>1, <4>2 DEF KeysOfType
    <3>4. key \in docs[ns].keys
      BY DEF ToolInv, DocsOK
    <3>5. key \in UpdatedDoc(schema, ns).described
      BY <3>3, <3>4 DEF UpdatedDoc
    <3> QED
      BY <3>1, <3>5
  <2>4. ASSUME NEW opened \in SUBSET DocNamespaces, DocFails(opened)
        PROVE  key \in docs'[ns].described \/ Lost(ns)
    <3>1. docs'[ns] = IF ns \in opened THEN NoDoc ELSE docs[ns]
      BY <2>4 DEF DocFails
    <3>2. CASE ns \notin opened
      BY <3>1, <3>2
    <3>3. CASE ns \in opened
      <4>1. phase = "doc" /\ phase' = "idle"
        BY <2>4 DEF DocFails
      <4>2. ~broken.tags /\ (PathsInvalid \/ Visited \intersect broken.docs # {})
        BY <2>4, <3>3 DEF DocFails
      <4> QED
        BY <3>1, <3>3, <4>1, <4>2
    <3> QED
      BY <3>2, <3>3
  <2> QED
    BY <2>1, <2>2, <2>3, <2>4
       DEF Next, EditSchema, EditPaths, BreakOrMend, Start, ReadSchema, WriteOutput, Done
<1> QED
  BY <1>1, ToolInvariance, PTL DEF Spec, DescriptionsKept
=============================================================================
