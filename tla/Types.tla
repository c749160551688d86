-------------------------------- MODULE Types --------------------------------
(***************************************************************************)
(* content_type -> operations (type_registry.py): what a type answers for  *)
(* itself and what it inherits.  `cache` is what personas registered, the  *)
(* builtin types are a constant; content types are normalized.             *)
(***************************************************************************)
EXTENDS Naturals, Sequences, SequencesExt, TLC

CONSTANTS
  ContentTypes,
  Root,        \* "*/*", which every type inherits from
  Category,    \* Category[ct]: its wildcard, or NoType for data types
  NoType,
  Builtin,     \* what load_builtin finds
  MaxDepth,    \* MAX_INHERITANCE_DEPTH (8)
  OpNames,
  Servers, BuiltinServer, NoServer,
  Grants       \* what an operation may require

ASSUME TypesAssumption ==
  /\ IsFiniteSet(ContentTypes) /\ Root \in ContentTypes /\ NoType \notin ContentTypes
  /\ Category \in [ContentTypes -> ContentTypes \cup {NoType}]
  /\ MaxDepth \in Nat
  /\ BuiltinServer \notin Servers /\ NoServer \notin Servers \cup {BuiltinServer}

Kinds == {"artifact_crud", "mcp_tool", "native"}
Verbs == {"create", "add", "read", "update", "delete", "search"}
NoNeed == "none"
NoToolName == "no tool"

\* An operation as a persona sends it: kind and target may be absent.  `link` is
\* an argument declared as @relationship.<name>.
Absent == "absent"
RawOp(kind, verb, server, tool, needs, link) ==
  [kind |-> kind, verb |-> verb, server |-> server, tool |-> tool,
   needs |-> needs, link |-> link]

\* OperationSpec, in parse_type_def: an absent kind is artifact_crud and an absent
\* target the name of the operation.
ParsedOp(name, op) ==
  [op EXCEPT !.kind = IF @ = Absent THEN "artifact_crud" ELSE @,
             !.verb = IF @ = Absent THEN name ELSE @]

\* TypeDefinition.  `ops` is a function of the names declared; a type nobody
\* registered is NoDef.
Def(server, inherits, ops) == [server |-> server, inherits |-> inherits, ops |-> ops]
NoDef == Def(NoServer, <<>>, <<>>)
ParsedDef(server, raw) ==
  Def(server, raw.inherits, [name \in DOMAIN raw.ops |-> ParsedOp(name, raw.ops[name])])

\* resolve: a persona's definition takes precedence over the builtin.
Resolve(cache, ct) == IF cache[ct] # NoDef THEN cache[ct] ELSE Builtin[ct]

----------------------------------------------------------------------------
\* _lineage.  The nested walk as a stack of <<type, depth>>: `seen` the types
\* walked, `out` the declared ones in the order of the walk.
Entered(s, ct, depth, td) ==
  [stack |-> [i \in DOMAIN td.inherits |-> <<td.inherits[i], depth + 1>>] \o Tail(s.stack),
   seen |-> s.seen \cup {ct},
   out |-> IF td = NoDef THEN s.out ELSE Append(s.out, ct)]

Visit(cache, s, ct, depth) ==
  IF ct \in s.seen \/ depth > MaxDepth
  THEN [s EXCEPT !.stack = Tail(@)]
  ELSE Entered(s, ct, depth, Resolve(cache, ct))

\* The next visit, if there is one.
Visited(cache, s) ==
  IF s.stack = <<>> THEN s ELSE Visit(cache, s, Head(s.stack)[1], Head(s.stack)[2])

\* Each visit takes one entry from the stack, and each type puts its parents there once.
Visits(cache) ==
  1 + Cardinality(UNION {{ct} \X DOMAIN Resolve(cache, ct).inherits : ct \in ContentTypes})

Walk(cache, ct, s) ==
  LET w[n \in Nat] == IF n = 0 THEN [s EXCEPT !.stack = <<<<ct, 0>>>>]
                      ELSE Visited(cache, w[n - 1])
  IN w[Visits(cache)]

\* The category of a type that nothing declares.
Categorised(cache, ct, s) ==
  IF s.out = <<>> /\ Category[ct] # NoType THEN Walk(cache, Category[ct], s) ELSE s

\* The type, what it inherits depth first, and the root.
Lineage(cache, ct) ==
  Walk(cache, Root,
       Categorised(cache, ct, Walk(cache, ct, [stack |-> <<>>, seen |-> {}, out |-> <<>>]))).out

\* resolve_operation: the first of the lineage that declares it.  NoOp if none does.
NoOp == RawOp(Absent, Absent, NoServer, NoToolName, NoNeed, FALSE)

FirstOf(cache, line, name) ==
  LET declaring == {i \in DOMAIN line : name \in DOMAIN Resolve(cache, line[i]).ops}
  IN IF declaring = {} THEN NoOp
     ELSE Resolve(cache, line[CHOOSE i \in declaring : \A j \in declaring : i <= j]).ops[name]

ResolveOperation(cache, ct, name) == FirstOf(cache, Lineage(cache, ct), name)

\* dict.update
Updated(ops, more) ==
  [name \in DOMAIN ops \cup DOMAIN more |->
     IF name \in DOMAIN more THEN more[name] ELSE ops[name]]

\* Mutant: updated from the type to the root.
OperationsOf_Forward(cache, ct) ==
  FoldLeft(LAMBDA ops, td : Updated(ops, Resolve(cache, td).ops), <<>>, Lineage(cache, ct))

\* operations_of: updated from the root down, so that a type's own win.
OperationsOf(cache, ct) ==
  FoldLeft(LAMBDA ops, td : Updated(ops, Resolve(cache, td).ops), <<>>,
           Reverse(Lineage(cache, ct)))

\* GET /resolve (resolve_type): a 404 for a type that nobody declares.
NotFound == [found |-> FALSE, ops |-> <<>>]
ResolveType(cache, ct) ==
  IF Resolve(cache, ct) = NoDef THEN NotFound
  ELSE [found |-> TRUE, ops |-> OperationsOf(cache, ct)]
==============================================================================
