--------------------------- MODULE MCProtocolTool ---------------------------
EXTENDS ProtocolTool

m == <<"m">>

x == <<"m", "x">>

Decl(file, ns, name, kind, values, fields) ==
  [file |-> file, ns |-> ns, name |-> name, kind |-> kind, values |-> values, fields |-> fields]

Field(name, vector, type) == [name |-> name, vector |-> vector, type |-> type]

\* Two namespaces, one within the other: Opt of m.x hides Opt of m, Leaf is used by a
\* union and as the root type, Req by a union and by paths, and Msg twice.
MCDecls ==
  {Decl("root", m, "Msg", "union", {<<"Error">>, <<"x", "Req">>}, {}),
   Decl("root", m, "Error", "table", {}, {Field("code", FALSE, Basic)}),
   Decl("root", m, "Leaf", "table", {}, {Field("kinds", TRUE, <<"x", "Kind">>)}),
   Decl("root", m, "Opt", "union", {<<"Leaf">>, <<"Error">>}, {}),
   Decl("more", x, "Req", "table", {},
        {Field("opt", FALSE, <<"Opt">>), Field("opts", TRUE, <<"m", "Opt">>),
         Field("errors", TRUE, <<"Error">>)}),
   Decl("more", x, "Opt", "union", {<<"Leaf">>}, {}),
   Decl("more", x, "Kind", "enum", {<<"bus">>}, {}),
   Decl("more", m, "Msg", "union", {<<"x", "Req">>}, {})}

MCRootType == [ns |-> m, ref |-> <<"Leaf">>]

MCIncludes == {<<"root", "more">>, <<"more", "root">>}

MCError == <<"m", "Error">>

MCPaths ==
  {[input |-> <<"m", "x", "Req">>, output |-> NoType], [input |-> NoType, output |-> <<"m", "Leaf">>]}

MCOutputs == {"json", "api", "ts", "md"}

Filters ==
  {[listed |-> FALSE, includes |-> {}, excludes |-> {}],
   [listed |-> FALSE, includes |-> {}, excludes |-> {<<"m", "Msg">>, <<"m", "x", "Kind">>}],
   [listed |-> FALSE, includes |-> {}, excludes |-> {<<"m", "Leaf">>}],
   [listed |-> TRUE, includes |-> {<<"m", "x", n>> : n \in {"Req", "Kind", "Opt"}}, excludes |-> {}],
   [listed |-> TRUE, includes |-> {}, excludes |-> {}]}

Output(format, filter, typesInUnions, strictUnions, msgContentOnly) ==
  [format |-> format, filter |-> filter, typesInUnions |-> typesInUnions,
   strictUnions |-> strictUnions, msgContentOnly |-> msgContentOnly]

\* One filter for all outputs.
MCConfigs ==
  {[o \in MCOutputs |->
      Output(CASE o = "json" -> "json-schema" [] o = "api" -> "openapi"
               [] o = "ts" -> "typescript" [] o = "md" -> "markdown", f, t, s, c)] :
     f \in Filters, t \in BOOLEAN, s \in BOOLEAN, c \in BOOLEAN}

UsualConfig ==
  [o \in MCOutputs |->
     Output(CASE o = "json" -> "json-schema" [] o = "api" -> "openapi"
              [] o = "ts" -> "typescript" [] o = "md" -> "markdown",
            [listed |-> FALSE, includes |-> {}, excludes |-> {}], TRUE, TRUE, TRUE)]

Complete == declared = {d \in Decls : ~(d.file = "more" /\ d.ns = m)}

\* Either the configuration varies, for schemas that lack at most three declarations, or
\* the developer edits, starting from the complete schema with the usual configuration.
MCInit ==
  /\ Init
  /\ \/ Cardinality(Decls \ declared) <= 3
     \/ config = UsualConfig /\ Complete /\ <<"root", "more">> \in includes

OneVaries ==
  IF config = UsualConfig
  THEN todo' \subseteq {"json"}
  ELSE /\ edits' = edits
       /\ phase = "idle" => phase' = "idle" \/ todo' = Outputs

MCSpec == MCInit /\ [][Next]_vars
=============================================================================
