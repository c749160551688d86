------------------------------- MODULE Dispatch -------------------------------
(***************************************************************************)
(* The gateway takes a request (main.py), finds the operation in the type  *)
(* registry, checks what it requires and carries it out at Mantle or at a  *)
(* persona (dispatcher.py, personas.py), while personas register again,    *)
(* grants come and go, and what was registered is published to Mantle in   *)
(* the background (type_publish.py).                                       *)
(*                                                                         *)
(* The gateway is one asyncio loop: what a handler does between two awaits *)
(* is one step.  An awaited call is two: the peer serves it, the handler   *)
(* takes the answer; anything may come between.  Requests share no state,  *)
(* so one at a time stands for all of them.                                *)
(***************************************************************************)
EXTENDS Types, FiniteSets

CONSTANTS
  Artifacts, TypeOf,   \* what is stored at Mantle, and its content type
  Builds,              \* Builds[s]: what releases of s register
  Added,               \* servers a person added, named by their artifact
  Relay, RelayTool,    \* the persona, and its tool, that reaches those
  Tools,
  OfferedTools,             \* tools the platform offers as operators
  NoArtifact,
  Attempts,            \* of publish_types (5)
  MaxRegistrations,    \* bound
  MaxRegrants          \* bound: changes of what the caller may do

\* What personas send, and what an operation and a definition are parsed to.
RawOps == [kind : Kinds \cup {Absent}, verb : Verbs \cup OpNames \cup {Absent},
           server : Servers \cup Added \cup {NoServer}, tool : Tools \cup {NoToolName},
           needs : Grants \cup {NoNeed}, link : BOOLEAN]
\* OperationSpec
Ops == [kind : Kinds, verb : Verbs \cup OpNames, server : Servers \cup Added \cup {NoServer},
        tool : Tools \cup {NoToolName}, needs : Grants \cup {NoNeed}, link : BOOLEAN]

Defines(def, ops) ==
  /\ def.inherits \in Seq(ContentTypes)
  /\ DOMAIN def.ops \subseteq OpNames /\ def.ops \in [DOMAIN def.ops -> ops]

IsBuild(b) == DOMAIN b \subseteq ContentTypes /\ \A ct \in DOMAIN b : Defines(b[ct], RawOps)

ASSUME DispatchAssumption ==
  /\ TypeOf \in [Artifacts -> ContentTypes] /\ NoArtifact \notin Artifacts
  /\ Absent \notin OpNames /\ "create" \in OpNames
  /\ \A s \in Servers : \A b \in Builds[s] : IsBuild(b)
  /\ DOMAIN Builtin = ContentTypes
  /\ \A ct \in ContentTypes :
       Builtin[ct] # NoDef => Builtin[ct].server = BuiltinServer /\ Defines(Builtin[ct], Ops)
  /\ Relay \in Servers /\ Added \cap Servers = {} /\ NoServer \notin Added
  /\ OfferedTools \subseteq Servers \X Tools /\ RelayTool \notin Tools
  /\ Attempts \in Nat \ {0} /\ MaxRegistrations \in Nat /\ MaxRegrants \in Nat

VARIABLES
  identity,   \* the gateway has a service identity to publish under
  cache,      \* TypeRegistry._cache
  topology,   \* topology[s]: the endpoint of s, named by the registration it came with; 0 if none
  build,      \* history: build[s], what s registered last
  count,      \* registrations so far
  held,       \* Mantle: grants of the caller, <<artifact, action>>
  mayRun,     \* Mantle: offered tools the caller may invoke
  lately,     \* those and what the caller could invoke less than the gate's TTL ago
  regrants,
  req,        \* the request in progress
  effect,     \* the request Mantle or a persona acted on in the last step
  task,       \* task[n]: the publish of registration n
  published,  \* Mantle: published[s], the definitions stored for s
  raced       \* history: raced[s], a publish of s was begun before all before it had ended

registryVars == <<identity, cache, topology, build, count>>
accessVars == <<held, mayRun, lately, regrants>>
publishVars == <<task, published, raced>>
vars == <<registryVars, accessVars, req, effect, publishVars>>

Registrations == 1..MaxRegistrations
NoBuild == <<>>

----------------------------------------------------------------------------
\* What held at one time: history, for the request in progress.
Facts == [grants : SUBSET (Artifacts \X Grants), tools : SUBSET OfferedTools,
          endpoints : SUBSET (Servers \X Registrations), ops : SUBSET (OpNames \X Ops)]
NoFacts == [grants |-> {}, tools |-> {}, endpoints |-> {}, ops |-> {}]

DeclaredIn(defs) ==
  UNION {{<<name, ParsedOp(name, defs[ct].ops[name])>> : name \in DOMAIN defs[ct].ops} :
           ct \in DOMAIN defs}

Now(top, bld, grants, tools) ==
  [grants |-> grants, tools |-> tools,
   endpoints |-> {<<s, top[s]>> : s \in {s \in Servers : top[s] # 0}},
   ops |-> (UNION {DeclaredIn(bld[s]) : s \in Servers}) \cup DeclaredIn(Builtin)]

And(f, g) == [x \in DOMAIN f |-> f[x] \cup g[x]]

----------------------------------------------------------------------------
\* A request.  `at` is the call it awaits, `answered` that the peer has answered
\* and `ok` how; `endpoint` is 0 until the topology was asked.
NoReq == [kind |-> "none", at |-> "nothing", answered |-> FALSE, ok |-> FALSE,
          artifact |-> NoArtifact, name |-> "none", op |-> NoOp, server |-> NoServer,
          tool |-> NoToolName, endpoint |-> 0, since |-> NoFacts]

Requests == [kind : {"none", "dispatch", "create", "tool"},
             at : {"nothing", "fetch", "access", "crud", "links", "gate", "call"},
             answered : BOOLEAN, ok : BOOLEAN, artifact : Artifacts \cup {NoArtifact},
             name : OpNames \cup {"none"}, op : Ops \cup {NoOp},
             server : Servers \cup Added \cup {NoServer}, tool : Tools \cup {NoToolName, RelayTool},
             endpoint : 0..MaxRegistrations, since : Facts]

NoTask == [server |-> NoServer, attempt |-> 0, at |-> "none", defs |-> <<>>]

TypeOK ==
  /\ identity \in BOOLEAN
  /\ \A ct \in ContentTypes : cache[ct].server \in Servers \cup {NoServer}
  /\ topology \in [Servers -> 0..MaxRegistrations]
  /\ \A s \in Servers : build[s] \in Builds[s] \cup {NoBuild}
  /\ count \in 0..MaxRegistrations
  /\ held \subseteq Artifacts \X Grants /\ mayRun \subseteq lately /\ lately \subseteq OfferedTools
  /\ regrants \in 0..MaxRegrants
  /\ req \in Requests /\ effect \in Requests
  /\ \A n \in Registrations :
       /\ task[n].attempt \in 0..Attempts
       /\ task[n].at \in {"none", "put", "sleep", "stored", "gaveUp"}
       /\ \A ct \in DOMAIN task[n].defs : task[n].defs[ct].server = task[n].server
  /\ \A s \in Servers : DOMAIN published[s] \subseteq ContentTypes
  /\ raced \in [Servers -> BOOLEAN]

\* lifespan: the builtin types are loaded and nobody has registered.
Init ==
  /\ identity \in BOOLEAN
  /\ cache = [ct \in ContentTypes |-> NoDef]
  /\ topology = [s \in Servers |-> 0]
  /\ build = [s \in Servers |-> NoBuild]
  /\ count = 0
  /\ held = {} /\ mayRun = {} /\ lately = {} /\ regrants = 0
  /\ req = NoReq /\ effect = NoReq
  /\ task = [n \in Registrations |-> NoTask]
  /\ published = [s \in Servers |-> <<>>]
  /\ raced = [s \in Servers |-> FALSE]

\* The request in progress remembers what holds after the step.
Remember ==
  req' = IF req = NoReq THEN req
         ELSE [req EXCEPT !.since = And(@, Now(topology', build', held', lately'))]

----------------------------------------------------------------------------
\* Registration

\* Mutant: a registration keeps the types of the one before.
RemoveServer_Not(c, s) == c

RemoveServer(c, s) == [ct \in ContentTypes |-> IF c[ct].server = s THEN NoDef ELSE c[ct]]

RegisterTypes(c, s, b) ==
  [ct \in ContentTypes |-> IF ct \in DOMAIN b THEN ParsedDef(s, b[ct]) ELSE c[ct]]

\* Mutant: every registered definition goes out under the name of s.
DefinitionsFrom_All(c, s) == [ct \in {ct \in ContentTypes : c[ct] # NoDef} |-> c[ct]]

DefinitionsFrom(c, s) == [ct \in {ct \in ContentTypes : c[ct].server = s} |-> c[ct]]

Pending(s) == {n \in Registrations : task[n].server = s /\ task[n].at \in {"put", "sleep"}}

\* register_server, of a persona with its service token.
RegisterServer(s, b) ==
  LET n == count + 1
  IN /\ count < MaxRegistrations
     /\ count' = n
     /\ cache' = RegisterTypes(RemoveServer(cache, s), s, b)
     /\ topology' = [topology EXCEPT ![s] = n]
     /\ build' = [build EXCEPT ![s] = b]
     /\ IF identity
        THEN /\ task' = [task EXCEPT ![n] = [server |-> s, attempt |-> 1, at |-> "put",
                                            defs |-> DefinitionsFrom(cache', s)]]
             /\ raced' = [raced EXCEPT ![s] = Pending(s) # {}]
        ELSE UNCHANGED <<task, raced>>
     /\ effect' = NoReq
     /\ UNCHANGED <<identity, accessVars, published>>
     /\ Remember

\* Mutant: one attempt too many.
Publish_OneMore(n) ==
  LET s == task[n].server
      stored == [published EXCEPT ![s] = task[n].defs]
  IN /\ task[n].at = "put"
     /\ published' \in {published, stored}
     /\ task' = [task EXCEPT ![n].at = IF task[n].attempt > Attempts THEN "gaveUp" ELSE "sleep"]
     /\ effect' = NoReq
     /\ UNCHANGED <<registryVars, accessVars, req, raced>>

\* publish_types of registration n: PUT /type-definitions/{server}.  Mantle may have
\* stored them although the call failed.
Publish(n) ==
  LET s == task[n].server
      stored == [published EXCEPT ![s] = task[n].defs]
  IN /\ task[n].at = "put"
     /\ \/ /\ published' = stored
           /\ task' = [task EXCEPT ![n].at = "stored"]
        \/ /\ published' \in {published, stored}
           /\ task' = [task EXCEPT ![n].at = IF task[n].attempt = Attempts
                                             THEN "gaveUp" ELSE "sleep"]
        \/ /\ task' = [task EXCEPT ![n].at = "gaveUp"]   \* a 4xx
           /\ UNCHANGED published
     /\ effect' = NoReq
     /\ UNCHANGED <<registryVars, accessVars, req, raced>>

\* RETRY_DELAY_S later.
PublishAgain(n) ==
  /\ task[n].at = "sleep"
  /\ task' = [task EXCEPT ![n].at = "put", ![n].attempt = @ + 1]
  /\ effect' = NoReq
  /\ UNCHANGED <<registryVars, accessVars, req, published, raced>>

----------------------------------------------------------------------------
\* At Mantle somebody gives the caller a grant or takes one away.
Regrant ==
  /\ regrants < MaxRegrants /\ regrants' = regrants + 1
  /\ \/ /\ \E g \in Artifacts \X Grants :
             held' = IF g \in held THEN held \ {g} ELSE held \cup {g}
        /\ UNCHANGED <<mayRun, lately>>
     \/ /\ \E t \in OfferedTools :
             mayRun' = IF t \in mayRun THEN mayRun \ {t} ELSE mayRun \cup {t}
        /\ lately' = lately \cup mayRun'
        /\ UNCHANGED held
  /\ effect' = NoReq
  /\ UNCHANGED <<registryVars, publishVars>>
  /\ Remember

\* The TTL of the gate has passed since the caller lost tool t.
Forgotten(t) ==
  /\ t \in lately \ mayRun
  /\ lately' = lately \ {t}
  /\ effect' = NoReq
  /\ UNCHANGED <<registryVars, held, mayRun, regrants, req, publishVars>>

----------------------------------------------------------------------------
\* The handlers.  Each operator below is the request as a handler leaves it at its
\* next await, or NoReq when it has answered its caller.

Await(r, at) == [r EXCEPT !.at = at, !.answered = FALSE, !.ok = FALSE]

\* PersonaGateway._call, and _relay for a server a person added.
ViaGateway(r) ==
  IF r.server \in Servers
  THEN IF topology[r.server] = 0 THEN NoReq
       ELSE [Await(r, "call") EXCEPT !.endpoint = topology[r.server]]
  ELSE IF topology[Relay] = 0 THEN NoReq
       ELSE [Await(r, "call") EXCEPT !.server = Relay, !.tool = RelayTool,
                                     !.endpoint = topology[Relay]]

\* _mcp_tool from the topology on.  The gate is asked of a persona's tool.
ToPersona(r) ==
  IF r.server \in Servers /\ topology[r.server] # 0
  THEN [Await(r, "gate") EXCEPT !.endpoint = topology[r.server]]
  ELSE ViaGateway(r)

\* _mcp_tool.  Without an artifact there are no links to resolve one from (422).
McpTool(r) ==
  LET named == [r EXCEPT !.server = r.op.server, !.tool = r.op.tool]
  IN IF r.op.server = NoServer \/ r.op.tool = NoToolName THEN NoReq
     ELSE IF ~r.op.link THEN ToPersona(named)
     ELSE IF r.artifact = NoArtifact THEN NoReq
     ELSE Await(named, "links")

\* The routing by kind in _run: an unknown verb is a 400, a native operation a 501.
CarryOut(r) ==
  CASE r.op.kind = "artifact_crud" -> IF r.op.verb \in Verbs THEN Await(r, "crud") ELSE NoReq
    [] r.op.kind = "mcp_tool"      -> McpTool(r)
    [] r.op.kind = "native"        -> NoReq

Unguarded == {NoNeed, "read"}

Found(r, ct) == [r EXCEPT !.op = ResolveOperation(cache, ct, r.name)]

\* Mutant: what an operation requires is left to Mantle.
Guarded_Not(r) == IF r.op = NoOp THEN NoReq ELSE CarryOut(r)

\* An operation the type does not answer for is a 404; what it requires is asked of
\* Mantle, except the read that the fetch has proven.
Guarded(r) ==
  IF r.op = NoOp THEN NoReq
  ELSE IF r.op.needs \notin Unguarded THEN Await(r, "access")
  ELSE CarryOut(r)

\* _run after the artifact was fetched.
Routed(r) == Guarded(Found(r, TypeOf[r.artifact]))

\* _run_create: without a declared `create`, or with a native one, POST /artifacts.
Created(r) ==
  IF r.op = NoOp \/ r.op.kind \in {"native", "artifact_crud"} THEN Await(r, "crud")
  ELSE McpTool(r)

Begin(r) ==
  /\ req = NoReq
  /\ req' = r
  /\ effect' = NoReq
  /\ UNCHANGED <<registryVars, accessVars, publishVars>>

Started(kind) == [NoReq EXCEPT !.kind = kind, !.since = Now(topology, build, held, lately)]

\* run_operation
BeginOperation(a, name) ==
  Begin([Await(Started("dispatch"), "fetch") EXCEPT !.artifact = a, !.name = name])

\* create_artifact
BeginCreate(ct) ==
  Begin(Created(Found([Started("create") EXCEPT !.name = "create"], ct)))

\* call_persona_tool: first the gate, then the topology.
BeginTool(s, tool) ==
  Begin([Await(Started("tool"), "gate") EXCEPT !.server = s, !.tool = tool])

----------------------------------------------------------------------------
\* The peer serves the call, or it fails.

Needed(verb) == IF verb \in {"read", "update", "delete"} THEN verb ELSE "read"

\* What Mantle or the gate may answer now.  Mantle checks a verb under its own rules; the
\* gate answers with what its cache has of the last TTL, and clears nobody else
\* (OperatorGate's WithdrawalReaches).
Verdict(r) ==
  CASE r.at = "fetch"  -> <<r.artifact, "read">> \in held
    [] r.at = "access" -> <<r.artifact, r.op.needs>> \in held
    [] r.at = "gate"   -> <<r.server, r.tool>> \in OfferedTools => <<r.server, r.tool>> \in lately
    [] r.at = "crud"   -> r.kind = "dispatch" => <<r.artifact, Needed(r.op.verb)>> \in held
    [] OTHER           -> TRUE

Serve ==
  /\ req.at # "nothing" /\ ~req.answered
  /\ \/ /\ Verdict(req)
        /\ req' = [req EXCEPT !.answered = TRUE, !.ok = TRUE]
        /\ effect' = IF req.at \in {"crud", "call"} THEN req ELSE NoReq
     \/ /\ req' = [req EXCEPT !.answered = TRUE]
        /\ effect' = NoReq
  /\ UNCHANGED <<registryVars, accessVars, publishVars>>

\* The handler has the answer: it goes on to its next await.
Take(at, next) ==
  /\ req.at = at /\ req.answered
  /\ req' = IF req.ok THEN next ELSE NoReq
  /\ effect' = NoReq
  /\ UNCHANGED <<registryVars, accessVars, publishVars>>

TakeArtifact == Take("fetch", Routed(req))
TakeAccess == Take("access", CarryOut(req))
TakeLinks == Take("links", ToPersona(req))

\* _mcp_tool has the endpoint from before the gate, call_tool asks for it now.
TakeGate ==
  Take("gate", IF req.endpoint # 0 THEN Await(req, "call") ELSE ViaGateway(req))

TakeResult == Take("crud", NoReq) \/ Take("call", NoReq)

Next ==
  \/ \E s \in Servers : \E b \in Builds[s] : RegisterServer(s, b)
  \/ \E n \in Registrations : Publish(n) \/ PublishAgain(n)
  \/ Regrant
  \/ \E t \in OfferedTools : Forgotten(t)
  \/ \E a \in Artifacts, name \in OpNames : BeginOperation(a, name)
  \/ \E ct \in ContentTypes : BeginCreate(ct)
  \/ \E s \in Servers \cup Added, tool \in Tools : BeginTool(s, tool)
  \/ Serve
  \/ TakeArtifact \/ TakeAccess \/ TakeLinks \/ TakeGate \/ TakeResult

Spec == Init /\ [][Next]_vars

----------------------------------------------------------------------------
(* Properties *)

\* Nothing is done for a caller who was not allowed it: Mantle and personas act on an
\* operation only if the caller could read the artifact and held what the operation
\* requires at some time during this request, and on a tool offered as an operator only
\* if the caller could invoke it at such a time or less than the gate's TTL before it,
\* whatever was registered, granted or withdrawn meanwhile (dispatcher.py 111-123 and
\* 384, main.py 446, operator_gate.py 36-39).
Authorised ==
  /\ effect.kind = "dispatch" =>
       /\ <<effect.artifact, "read">> \in effect.since.grants
       /\ effect.op.needs = NoNeed \/ <<effect.artifact, effect.op.needs>> \in effect.since.grants
  /\ effect.at = "call" /\ <<effect.server, effect.tool>> \in OfferedTools =>
       <<effect.server, effect.tool>> \in effect.since.tools

\* What is carried out was declared by a builtin type or by the build some persona
\* had registered at a time during this request, and a persona is called where it was
\* registered at such a time: neither is left over from an older build (main.py
\* 315-321).
AsDeclared ==
  /\ effect.kind \in {"dispatch", "create"} /\ effect.op # NoOp =>
       <<effect.name, effect.op>> \in effect.since.ops
  /\ effect.at = "call" => <<effect.server, effect.endpoint>> \in effect.since.endpoints

\* The walk over what a type inherits is over, in each of its parts: its own, its
\* category's and the root's.
WalksEnd(ct) ==
  LET own == Walk(cache, ct, [stack |-> <<>>, seen |-> {}, out |-> <<>>])
      wide == Categorised(cache, ct, own)
  IN own.stack = <<>> /\ wide.stack = <<>> /\ Walk(cache, Root, wide).stack = <<>>

\* What GET /resolve lists for a type that is declared is what is dispatched for it, the
\* root's operations among it.  A type that nobody declares is dispatched the root's
\* operations all the same, although /resolve answers 404 for it (main.py 343-345).  And
\* the walk that finds them ends, whatever inherits from whatever, circles included
\* (type_registry.py 166-214).
RegistryAgrees ==
  \A ct \in ContentTypes :
    LET answer == ResolveType(cache, ct)
    IN /\ WalksEnd(ct)
       /\ answer.found =>
            /\ DOMAIN Resolve(cache, Root).ops \subseteq DOMAIN answer.ops
            /\ \A name \in OpNames :
                 ResolveOperation(cache, ct, name) =
                   IF name \in DOMAIN answer.ops THEN answer.ops[name] ELSE NoOp
       /\ ~answer.found =>
            /\ cache[ct] = NoDef /\ Builtin[ct] = NoDef
            /\ \A name \in DOMAIN Resolve(cache, Root).ops :
                 ResolveOperation(cache, ct, name) # NoOp

\* When nothing is left to publish of a persona, its last publish went through and
\* was not begun while another was in progress, Mantle has its definitions as it
\* registered them last (main.py 294-310, type_publish.py).
PublishedUnlessRaced ==
  \A s \in Servers :
    LET own == {n \in Registrations : task[n].server = s}
    IN (own # {} /\ Pending(s) = {} /\ ~raced[s]
         /\ \A n \in own : (\A m \in own : m <= n) => task[n].at = "stored") =>
         published[s] = [ct \in DOMAIN build[s] |-> ParsedDef(s, build[s][ct])]
==============================================================================
