--------------------------- MODULE ProtocolSchema ---------------------------
(* The FlatBuffers schemas as the protocol tool reads them                 *)
(* (src/tools/protocol/src/schema, filter): which files are read, which    *)
(* type a name refers to, and where a type is used.                        *)
(*                                                                         *)
(* A full type name is the sequence of its parts, a reference that of the  *)
(* parts written in the schema.  A declaration is a record                 *)
(*   file, ns, name : where it stands and what it declares                 *)
(*   kind           : "enum", "union" or "table" (structs are tables)      *)
(*   values         : of an enum its names, of a union its references,     *)
(*                    {} of a table                                        *)
(*   fields         : of a table, records name, vector, type; the type is  *)
(*                    a reference or Basic.                                *)
(* A schema S is a set of declarations.  The parser is left out: a file    *)
(* has declarations or cannot be parsed.                                   *)
EXTENDS Naturals, Sequences, FiniteSets

CONSTANTS
  Files, RootFile,
  Basic,      \* the type of the fields that are numbers, strings or booleans
  NoType,     \* where no type is found or none is given
  RootType    \* the root_type declaration, [ns, ref]; NoType when there is none

Fqtn(d) == Append(d.ns, d.name)

Names(S) == {Fqtn(d) : d \in S}

DeclOf(S, t) == CHOOSE d \in S : Fqtn(d) = t

\* Depth first, each file once: what is reached over include statements.
Reached[includes \in SUBSET (Files \X Files), n \in 0 .. Cardinality(Files)] ==
  IF n = 0 THEN {RootFile}
  ELSE LET before == Reached[includes, n - 1]
       IN  before \union {f \in Files : \E g \in before : <<g, f>> \in includes}

FilesRead(includes) == Reached[includes, Cardinality(Files)]

\* The types of the files that are read.
Extracted(declared, includes) == {d \in declared : d.file \in FilesRead(includes)}

DefinedTwice(S) == \E d, e \in S : d # e /\ Fqtn(d) = Fqtn(e)

\* The depths of ns at which the reference names a type; the deepest one counts.
Fitting(S, ns, ref) == {n \in 0 .. Len(ns) : SubSeq(ns, 1, n) \o ref \in Names(S)}

Resolve(S, ns, ref) ==
  LET fits == Fitting(S, ns, ref)
      deepest == CHOOSE n \in fits : \A k \in fits : k <= n
  IN  IF fits = {} THEN NoType ELSE SubSeq(ns, 1, deepest) \o ref

CustomFields(d) == {f \in d.fields : f.type # Basic}

\* What a declaration refers to, as full names.
FieldTypes(S, d) == {Resolve(S, d.ns, f.type) : f \in CustomFields(d)}

UnionTypes(S, d) == {Resolve(S, d.ns, v) : v \in {w \in d.values : d.kind = "union"}}

Root(S) == IF RootType = NoType THEN {} ELSE {Resolve(S, RootType.ns, RootType.ref)}

\* The marks are set from every type of the schema, whatever an output leaves out.
UsedInUnion(S) == UNION {UnionTypes(S, d) : d \in S}

\* Mutant: the element types of vectors are resolved but not marked.
UsedInTableNoVectors(S) ==
  (UNION {{Resolve(S, d.ns, f.type) : f \in {g \in CustomFields(d) : ~g.vector}} : d \in S})
    \union Root(S)

UsedInTable(S) == (UNION {FieldTypes(S, d) : d \in S}) \union Root(S)

\* resolveTypes throws at the first reference without a type.
Unresolved(S) ==
  NoType \in (UNION {UnionTypes(S, d) \union FieldTypes(S, d) : d \in S}) \union Root(S)

(* Type filters: whether the output has an include list, and the types     *)
(* that the patterns of its include and of its exclude list match.         *)
IncludeType(filter, t) ==
  /\ filter.listed => t \in filter.includes
  /\ t \notin filter.excludes

Included(S, filter) == {d \in S : IncludeType(filter, Fqtn(d))}
=============================================================================
