# Crystal in TLA+

Models, model-checking runs and machine-checked proofs for `agience-crystal`:
the gateway that routes MCP calls to personas, the host that runs personas, and
the libraries both stand on. Paths below are relative to the repository
(`src/crystal/...`); each definition's exact lines are in `PROJECT.json` under
`map`.

## 1. The system

Crystal is two kinds of process and a set of libraries.

* The **gateway** (`main.py`) is a FastAPI process. It keeps, in memory only, which
  personas exist (`topology.py`) and which persona serves each content type
  (`type_registry.py`), and dispatches artifact operations to persona tools
  (`dispatcher.py`). It fires *describers*, persona tools that enrich an artifact
  after it changed (`dispatcher.py`, `events.py`).
* A **persona host** (`host.py`) mounts one or more personas, registers each with the
  gateway and watches that it stays registered, pushes the personas' operators into
  Mantle, and serves `/{server}/mcp` (`gateway_middleware.py`): a native persona, a
  stored MCP server, or a *relay*, a user's desktop that holds a WebSocket
  (`relay_manager.py`).
* **Mantle** is the artifact store. It is another program; it appears in the models
  only through what crystal reads from it and writes to it.

Almost everything runs on one asyncio loop, so what interleaves is the code
between two awaits. Two things run in threads: the lookups of the persona map
(`run_in_executor`) and the readers of the ontology (a module-level cache behind
a lock that some paths do not take).

### Inventory

| Component | State | Operations | What is hard | What makes it correct |
|---|---|---|---|---|
| Relay manager (`relay_manager.py`, socket loop in `host.py`) | sessions, per-user index, a table of futures per session | connect, disconnect, forward, response envelope | answers, timers, send failures and disconnects race for one future; ids in frames are the desktop's | maps agree; no request orphaned; the first reply of the caller's own desktop or a failure; every request ends |
| Universal MCP gateway (`gateway_middleware.py`) | `uuid -> slug` map, backoff, stamp of the last miss | refresh, lookup, dispatch of a request, proxy to a desktop | threads without a lock; slow replies overwrite newer ones; one throttle for all misses | a listed persona is reached, in the end always |
| Persona host: registration (`host.py`, `persona_registration.py`, `type_registration.py`) | what remains to be registered, round, watch | `_self_register_all`, `_keep_registered` | the gateway restarts at any point; lost answers; several hosts; redeployments | an empty gateway is refilled; an undisturbed registration is complete |
| Persona host: routing (`host.py`, `web_serve.py`, `manifest_base.py`) | tables built from independent manifests, once | rewrite by Host header, upstreams, facets, bundles, mounts | tables that disagree; paths that are rewritten twice or look like a facet | a request on a persona's host ends at that persona |
| Gateway registries (`topology.py`, `type_registry.py`, `main.py`) | `slug -> persona`, `content type -> definition` | register, remove_server, resolve, `_lineage` | last writer wins between personas; memory only | a type is only served by a persona that is known and ships it |
| Operator gate (`operator_gate.py`) | per-token answers with the time of the read | check | concurrent reads, slow replies stored late, pruning | a withdrawn (or given) grant is seen within the TTL |
| Describers and change feed (`dispatcher.py`, `events.py`) | dedup stamps, socket to the feed | inline trigger, feed trigger, reconnect | the describer's write is itself an event; events wait behind describers | no describer fires another; once per change; comes to rest |
| Dispatcher proper (`dispatcher.py`) | none of its own | dispatch, create, `_run`, `_mcp_tool`, artifact CRUD | which definition of a lineage handles an operation; authorization before effects | what a declared type lists is what is dispatched; nothing is done that was not declared, and as far as the gate can know allowed, while the request ran |
| Operator push (`push.py`, `registry.py`, `operator_schema.py`) | per push: catalog id, index of stored operators | ensure catalog, index, put | find-then-create over pages without upsert, retries after lost answers | one catalog, one row per operator, success means stored, the scans end |
| Type publish (`type_publish.py`) | none kept | publish with retries | publishes of one server overlap, unordered | the last build's types are the published ones, unless publishes overlapped |
| Operator evolution (`evolution.py`) | counters, fitness, state of stored operators | put, record use and invocation, select, retire | read-modify-write, re-registration while counters move, retirement | counters speak of the present behaviour only; three refutations or more retire; an untried operator is not passed over for a refuted one |
| Ontology driver (`ontology/driver.py`, `ontology/freshness.py`) | write mark, generation, per-synset cache, transducer spec, whole index | observe, verify, load, invalidate, bind | threads; another process writes the store between a read and the caching of it | what is served is no older than the last observation |
| Seed lattice (`ontology/seed_lattice.py`, load rule in `ontology/driver.py`) | stored measurement and its record, entries, association, readiness flag, all in Mantle | build, refresh, measure, lay, anchor | thousands of writes in batches with one record after them; crashes; sources ingested meanwhile | what is trusted was taken over the rows there are; ready means complete; a quiet run leaves nothing to do |
| Crystal (`crystal.py`, `crystal_model.py`) | bindings, lazy screen, incident beam and its split | bind, conduct, condense, transmit, ledger, certificate, clear, discharge | long sequences on one object; an instrument that is there in part | whatever is asked in whatever order, the beam is accounted for as a whole |
| Ontology mathematics (`lookup.py`, `geometry.py`, `coupling.py`, `transducer.py`, `context.py`) | none beyond the driver's | ranking, projections, text | numerics | out of TLA+'s reach |
| Clients (`mantle.py`, `mantle_client.py`, `mcp_client.py`, `personas.py`) | an artifact cache | one HTTP call each | a cached 404 | they appear inside the actions of their callers |
| Edge authentication (`identity.py`, `main.py`) | none | verify a token, read a bounded body | none that spans two requests | accepted or refused, as a choice in the models |
| Configuration, logging, authorship | read once | - | none | - |

`PROJECT.json` lists the same components with their status, and under `hazards`
everything in this code that a test would hardly reach, each at its line, with the
properties that cover it or the reason none does yet.

## 2. The modules

Each component has a module with its state, one action per operation, handler or
step between two awaits, its specification and its properties; `<module>_proofs` holds
its theorems. Four modules of proofs are about an instance: `Calls_proofs` about `MCCalls`,
`Access_proofs` about `MCAccess`, `WriteBack_proofs` about `MCWriteBack` and
`Ontology_proofs` about `MCOntology`, with every constant of the components still a
parameter where the instance leaves it one. An `MC` module and a `.cfg` make an instance for TLC. Some instances hold
two or three components that share no state: a variable `side`, chosen at the start,
says which of them moves, so the run explores the union of their behaviours and not the
product, and each property is checked of its own component.

| Instance | Components |
|---|---|
| `MCCalls` | `Relay` (with `RelayPromise`), `OperatorPush`, `CrystalFlow` |
| `MCAccess` | `OperatorGate`, `Dispatch` (with `Types`) |
| `MCEdge` | `Edge` over `PersonaMap` and `Routing`, composed |
| `MCOntology` | `SeedLattice`, `OntologyCache` |
| `MCWriteBack` | `Describers`, `Evolution` |
| `MCRegistration` | `Registration` |
| `MCDescribers`, `MCOntologyCache`, `MCCrystal`, `MCOperatorPush` | the one of that name, for a run that expects a violation |

Definitions marked *mutant* are variations of the code with a plausible bug;
nothing refers to them in the specifications. They are kept to show that each
property can fail: putting the mutant in the place of the definition it varies
makes TLC report the property named beside it in `PROJECT.json`.

### Relay, RelayPromise

`RelayPromise` is what the HTTP side relies on: a call is opened for one user, takes
at most one reply, from that user's own desktop, ends once, and ends `ok` or `error`
only by returning the reply it took. `Relay` is `RelayManager` with the WebSocket
endpoint: `registered`/`byUser` are its two maps, `pending[s]` a session's table,
`future[r]` the future. `Accept`, `AcceptFails`, `Register`, `Receive`, `Disconnect`
are the endpoint's code between its awaits; `NoActiveSession`, `Forward`,
`SendDone`/`SendFails`, `TimerFires`, `Resume` are `forward_mcp_request`'s. `Relay`
implements `RelayPromise` (`KeepsPromise`, checked and proved).

`asyncio.wait_for` differs between Python versions when the timer and the answer
land together: up to 3.11 the answer is returned, from 3.12 on the future is
cancelled by the timer and the answer lost. Both are in `TimerFires` and `Resume`.
Two comments of the source describe other behaviour than the code's: the docstring
at `relay_manager.py` 29-39 shows `ok` at the top of an answer where the code reads
it from `payload` (198-204), and 53 says that in-flight requests time out on a
disconnect where the code fails them at once (111-115). The models follow the code.

### Registration

`Registration` composes the hosts' loop (`loop`, `remaining`, `todo`, `attempt`) with
the gateway's registries (`topology`, `cache`) over a network that loses answers
(`Serve` then `Inconclusive`). `Crash`/`Start` empty the registries; `Redeploy`
replaces a host's build by one that ships other types. A POST of the old host
process that lands after its redeployment is not modelled.

### OperatorGate

`Miss`, `MantleReads`, `Arrives`/`Fails` are the check before, during and after its
await; `Hit` and `OwnServer` the ones that need none. The entry is dated with the
clock of *before* the read, as in the code. `since` is a history variable: when
Mantle's verdict last changed.

### PersonaMap, Routing, Edge

In `PersonaMap` one lookup is a thread. The read of Mantle, the stamp of a miss, and
the writes of a refresh are separate steps; reads of shared variables are merged with the step
before them where no write of another thread in between would change what the thread
does. Times are kept as ages and countdowns, capped where the code's comparisons stop
telling them apart, so the state space is finite with an unbounded clock.
`excused` is what a lookup may be spoiled by, event by event. One for a UUID that is in the
map is excused only when another thread puts an older list without it over the map before
it has looked (`Losing`): throttle, backoff and refreshes of others must not touch it. One
for a UUID that is not in the map is excused when the throttle of misses or the backoff is
on as it begins, when another's miss or failure puts it on before this one has begun to ask
Mantle (`Missing`), and when its own call fails. The second of these is a lookup that begins
before another's miss is stamped and looks after it: it answers nothing, although the
comment at `gateway_middleware.py` 37-38 says a new persona "is found within this interval".

`Routing` is the tables of `build_app` and what they make of a request, as functions of a
configuration `c` (the mounted personas, their facets in roster order, the apex and the
upstreams): `Declared`, `ApexTarget` and `SurfaceAt` are the tables with their first-wins
rules, `Kind` what is behind a facet (`_resolve_dist`, `_renders_at`), and `Routed` the
layers in their order: rewrite, upstream, surface, persona, the host's own routes. A path is
the sequence of its segments. `GoesHome` says what the tables promise, for rosters in which
no two names clash (`NamesAreApart`); the code does not check that, and where names do clash
the tables may disagree.

`Edge` is the host with its middleware: `Pass` is a request the tables decide; `Ask` to
`Look` one for a UUID, whose lookup is a thread of `PersonaMap`; `Artifact` and `Relayed`
what follows for a server that is not a persona: the artifact is read, and a relay is
forwarded to, with the ends `RelayPromise` allows. Not modelled: the bytes of proxied and
served responses, CORS and cache headers.

### Describers

`feed` is what the driver's socket holds, `driver` the describer it awaits, `inline`
the requests that wrote and have not resumed yet, `age` the dedup stamps. `WriteBack`
appends the enrichment to the feed. `Tick` lets time pass only when everything that
is ready at once has run: Mantle answers promptly and a describer takes at most
`MaxRun`. Native operations always raise 501 (`_native`), so they fire nothing.

### OperatorPush

A step is one HTTP call. The listing is a sequence into which Mantle puts a new row
first or last; a page is a set of rows whose place in the filtered listing (`Rank`)
follows the offset, at most `Page` of them, and what it says of more (`Pages`). It may be
short, or announce more where there is none; it may be empty and announce more, which is
`dry`, a Mantle that makes no progress until it goes on again (`Stalls`). The code ends the
scan there (`Ended`); what it did not see counts as not stored, so a scan that is `cut` in
this way may create a second row, and `StoredOnce` speaks of runs without one.
`PushedIsStored` and `PushEnds` hold with it. Any call may fail before Mantle acted
(`Fails`) or, for writes, after (`Raised`). A retry starts from nothing (`Fresh`), as
the code's new client does. Not modelled: deletions during a scan, and a POST that
lands after its timeout; the first moves the rows behind it up, and the scan
(`push.py` 148) passes one over. Two
hosts that push at once are the run `push_twice`.

### OntologyCache

`todo[t]` is the sequence of calls a thread has still to run, so that the functions of
the driver can call each other as they do: `poll`/`gate` are `_observe`, `fresh`/`drop`
`_spec_fresh`, `alphabet` to `setAlphabet` the rest of `_lang_spec`, `ready` to `isReady`
`_keyed_ready`, `get` to `keep` `_get_synset`, `index` to `answer` `_index` with
`_load_index`. A step ends at each read of the store and where the code waits for
`_LOCK`; between two reads the code is Python that no other thread sees the middle of.
What is read from the store is a version number, as `version_of` and `edge_mark` report
it. The model has one concept and one bound store. Not modelled: binding another store,
`invalidate`, installed indexes (test doubles use them), `morphy` and its exceptions,
entry edges, reads that fail, deletion of the concept.

### SeedLattice

`builder` is the process of `seed_lattice.py`: where it is, what its load read, and the rest
it has still to do. A step is a batch of writes (`Batch` rows at most), a record or a flag;
`CnSkip` is a row whose read fails, `Crash` ends the process between any two steps, `Ingest`,
`IngestEdge` and `IngestIsA` bring rows and edges of a source, each by itself and at any time,
an edge before the rows it joins or after them. `Derived` is the measurement:
the information content of a vertex as the pair of integers (how many are under it, how many
there are) that the float is a function of; corpora are small enough that no two pairs yield
one float. `Fresh` is the driver's rule (`derive_intrinsic_ic`, `ic_basis`): stored values
are taken as they are exactly if the record says external, or counts as many rows as there
are. `Start` is the load, which reads rows, edges and basis and goes on without the edges
(`driver.py` 900-901) or the basis (110-111) when they cannot be read: then every vertex is
a leaf, or everything is measured again. `trees` is history: the edges that the stored
values were taken over.

The code cannot tell a measurement over no edges, or over the edges of last week, from the
corpus's own: it counts rows. So two things are in the model and no property forbids them,
for they do happen: values taken over an empty tree, stored, recorded as intrinsic and
trusted by every later load; and values that stay trusted when an edge lands between rows
that are all there. If moreover a load cannot read the basis, measures again over other
edges and dies while it stores, trusted values can be of two loads' edges, some of each.
What does hold is `BasisIsTrue`: each trusted value was taken over exactly the rows there
are and the edges some load had read; and `RunSettles`: a run whose load did read all the
edges leaves the corpus's own values, until something lands. ConceptNet's measurement goes the same way over `isa`. Abstracted: one lexical edge per
surface, every surface a single token, and the geometry that `build` writes besides. Not
modelled: two builders at a time.

### CrystalFlow

One live `Crystal`. `fills` is the part of the instrument that the host injected: every
call that needs another member raises where the code asks for it, and what it did before
stays (`Conduct` keeps the beam although the screen cannot be made). `screen` is made when
first needed, with the bindings of that moment; `split` is the cached crossing. Any split
of a readable frame is one the instrument may give; a frame is the set of its bands and
its energy their number. `got` and `last` are history: what the calls since the last
`conduct` answered, and the facet whose band is on the screen. Not modelled: `discharge`
and the contract of `crystal_model.py` (validate, hash, verify), which change nothing.

### Evolution

The store is called with `get_artifact` and `put_artifact` and nothing ties the two
together; `call[c]` is what a caller holds between them. `PutOperator`,
`RecordInvocation`, `RecordUse`, `Credit`, `Select` and `Retire` are the reads, `PutRow`,
`PutUsed` and `Archive` the writes of the functions of those names. Fitness is computed
in ten-thousandths, rounded as the code rounds it: the comment at `evolution.py` 180
calls the four decimals a display precision that no comparison reads, but `select` and
`is_unfit` compare what `fitness` returns. `IsUnfit` squares both sides of the test at the
default tolerance of 0.05. An operator's `spec` is what `spec_hash` tells apart, so one
value may stand for all code-backed operators. `observed` is a history variable: what was
reported of each behaviour of each operator.

Three things of the code are in the model and no property forbids them: overlapping
counts lose one; a registration that overlaps another can overwrite a person as creator
(`overlapped` excuses exactly this in `AloneLosesNothing`); and a registration drops the
state of an archived operator, which then counts as live until the next sweep. `select`
does not look at the state at all.

### Types, Dispatch

`Types` is the registry's pure part: `Lineage` runs the nested walk of `_lineage` with a
stack, by a recursive function over as many visits as it can make. `Dispatch` is a request
from its route (`BeginOperation`, `BeginCreate`, `BeginTool`) to its effect at Mantle or a
persona. Each await is two steps: `Serve`, when the peer acts, and a `Take...`, when the
handler goes on with the answer; registrations (`RegisterServer`) and changes of grants
(`Regrant`) fall in between. `since` collects what held at any time during the request.
`Publish` and `PublishAgain` are the background tasks of `type_publish.py`. The operator
gate may answer from what it kept: `lately` holds the tools the caller could invoke less than
the gate's TTL ago, and `Forgotten` is that time passing. That the gate's answers are no older
is `WithdrawalReaches` of `OperatorGate`. `ResolveType` is the route `/resolve`, with its 404
for a type that nobody declares; such a type is dispatched the root's operations all the same. The describer a write fires is in `Describers`.

Not modelled: how `$.`-paths become arguments (only whether a link has to be read),
`resources/read`, the body gate, the publish of the builtin types at boot. As in the code,
`create` asks for no grant, whatever the operation declares: Mantle and the persona decide.

## 3. The runs

| Run | Specification | Instance | Shows |
|---|---|---|---|
| `calls` | `CallsSpec` | *relay*: 2 users, 2 sessions, 2 requests; *push*: 1 host, 2 operators, 2 specs, pages of at most 2, 2 attempts, 2 foreign rows, 1 restart, 1 cut scan; *crystal*: 2 facets, 2 bands, every part of the instrument | the maps agree, `PendingOwned`, `NoOrphan`, implements `RelayPromise`, every request ends; one catalog, one row, success means stored, pushes end; `BeamAccounted`, `ScreenHears` |
| `registration` | `MCFairSpec` | 2 hosts, 3 personas, 2 types, 2 rounds, 1 restart, 1 redeployment | `RegistryConsistent`, `QuietRegistrationLands`, `GatewayRefills` |
| `registration_loss` | `MCSpec` | the same | *violated*: "loss is all-or-nothing" |
| `access` | `AccessSpec` | *gate*: 2 operators on 1 tool, 1 own tool, 2 checks, TTL 3, latency 2, clock to 5; *dispatch*: 3 personas, 1 added server, 6 types that inherit in a circle, 4 operations, depth 2, 2 registrations, 2 changes of grants, 2 attempts | `WithdrawalReaches`, `GrantReaches`; `Authorised`, `AsDeclared`, `OperationsAgree`, `PublishedUnlessRaced` |
| `edge` | `EdgeFairSpec` | 4 rosters, 9 hosts, 12 paths, 2 UUIDs, 2 threads, interval 2, backoff 1 | `PersonaReached`, `RoutedHome`, `EventuallyKnown` |
| `write_back` | `WriteBackSpec` | *describers*: 2 artifacts, 2 calls, window 3, a call takes at most 1, 3 changes; *operators*: 2 operators, one of them producing 1 output, 2 specs, 2 workers and the sweep, 3 calls, 4 verdicts, 3 documents | `LoopBroken`, `OncePerChange`, `ComesToRest`; `EvidenceIsObserved`, `ArchivedWasRefuted`, `SelectSpares`, `AloneLosesNothing`, `FinallyRetired` |
| `describers_loop` | `Spec` | calls take up to 2 of a window of 3 | *violated*: the dedup "breaks the write-back loop" |
| `ontology` | `OntologySpec` | *reader*: 2 threads, 1 concept, 1 write between any two reads; *builder*: 3 synsets, 2 surfaces, batches of 2, 3 ingests of a row or an edge, 3 runs, 1 crash | `FreshSynset`, `VerifiedIsCurrent`; `BasisIsTrue`, `ReadyIsComplete`, `RunSettles` |
| `ontology_external` | `OntologySpec` | the same, with an external measurement at first | *violated*: an external measurement "is left untouched" |
| `ontology_alphabet` | `Spec` | 1 thread, 3 marks | *violated*: an entry "derives from one named artifact" |
| `crystal_unreadable` | `Spec` | frames of one band carry no read | *violated*: an unreadable frame "propagates on" |
| `push_twice` | `Spec` | 2 hosts, 1 operator, 1 attempt, no restart | *violated*: "the one collection" |

Every passing run also checks the type invariants of its components, but for `Registration`,
whose is proved.

Why the bounds are enough. In each instance two of everything that can interfere are
present, and a third where the interference needs one: two sockets of one user and of
two users; a host with two personas so that a restart falls between them, and a second
host to hide it; two checks of one caller that overtake each other (entries of two
callers never meet, so one caller is enough); a persona and a stranger that use up
each other's interval; an event that waits behind the describer of another artifact;
pages of two at most, so that each scan may span several, full, short and empty ones (where
a scan may be cut nobody else creates artifacts in `calls`, `Both`: either makes a scan miss
rows by itself; the theorems have both at once);
one write that can fall between any two reads of two threads, so that one thread holds a
mark, a stamp or a half-read synset from before it while the other is past it;
operators that start with two refutations, so that the third, which condemns, comes while
the sweep and the other worker are at it, and three calls, so that a redefinition can fall
between the read and the write of a count; builds that declare, move and drop the same
types, with one registration before a request and one during it, and a depth limit that
the inheritance chain reaches. For `SeedLattice`, three rows are the fewest of which a
batch of two is full and a last one short, three ingests bring them and an edge, in any order
and around any load, and of three runs one is killed, one is disturbed and one is quiet. The rosters of
`edge` are the one that `web_serve.py` quotes, the same before its bundle is built,
one in which two facets claim a subdomain, and one without a base domain. For
`CrystalFlow` two bands allow every kind of split (nothing, a part, all). In `access` the
constraint `Apart` explores publishing
(an instance with a service identity) and requests (one without) separately, because they
share the registry but neither writes what the other reads. Times are small but keep the order of
the code's constants (latency below TTL, describer below window). `MaxRestarts`,
`MaxDeploys`, `MaxChanges`, `MaxOthers`, `MaxCuts` and `MaxTime` bound what the environment does
and are named in the guards; so do `MaxIngests`, `MaxRuns`, `MaxCrashes`, `MaxCalls` and
`MaxVerdicts`. Symmetry is used in `access` only, over the checks, in a run without
liveness.

Deadlock is checked in `access`, `edge`, `ontology`, `write_back` and the runs of a
violation but for `registration_loss` and `push_twice`; in `MCOntology` a builder that has
ended may rest, so that a deadlock is one of the readers.
`CHECK_DEADLOCK FALSE` stands in the others, where the system really stops: ids are used
once, environments are bounded, and a push that is done is done.

### What the violations say

* `registration_loss`: `host.py` 190-191 argues that only an empty gateway needs a
  host's attention. A gateway that restarts between two registrations of one host, or
  whose restart another host's registration hides, is not empty and lacks personas;
  nobody registers them again.
* `describers_loop`: the stamp is 15 s from the *start* of a describer, and a describer
  may take 30 s. An enrichment's event that waits behind another artifact's describer
  is handled after its stamp has expired and fires the describer again. The run
  `write_back` shows that the dedup does its work when describers are short.
* `ontology_alphabet`: a cached synset is re-verified by its own row and edges, but is
  built with the edge labels of the transducer's spec. When another process rewrites the
  transducer, this one reads the new spec and goes on serving the synset it built with
  the old labels, until the synset's own row or edges are written.
* `ontology_external`: `refresh_ic` on a corpus with an external measurement rewrites no
  value, because the load takes the external ones as they are and so none disagrees; but
  it stores a basis that says intrinsic. From then on the imported values pass for the
  corpus's own.
* `crystal_unreadable`: for a frame that the instrument cannot split, `ledger()` and
  `certificate()` account for all of its energy as going on, and `transmit()` returns
  `None`, as for silence. Whoever hands the residual to the next boundary loses the frame,
  and nothing reports it.
* `push_twice`: the catalog is looked for and then created, with nothing between the two
  that a second host would see. Two hosts that boot for the first time together create two;
  from then on each push takes the first in the listing.

## 4. Fairness

| Module | Assumed | Because |
|---|---|---|
| `Relay` | weak fairness of `SendDone`/`SendFails`, `TimerFires`, `Resume` per request | the event loop runs what is ready; the timer fires; the server's keepalive ends a write that never drains. Nothing is assumed of a desktop |
| `Registration` | weak fairness of each host's loop and of `Start`; strong fairness of `Serve` | loops run and the gateway is restarted by its supervisor; a POST tried again and again is not lost every time |
| `Edge` | weak fairness of time and of each request's own steps; strong fairness of Mantle's answer to a thread and of requests for each UUID | threads run; Mantle, asked again and again, answers; callers keep asking (without them a map is never refreshed) |
| `Describers` | weak fairness of the driver, the resuming requests, time, and the end of a call | the loop runs; a call has a timeout. Not of the write-back: a describer need not write |
| `Evolution` | weak fairness of the steps of a begun call, and of the sweep | a thread in the middle of a function goes on; the sweep "runs every worker tick" (`evolution.py` 317). Calls need never begin |
| `OperatorPush` | weak fairness of each push's thread | every call has a timeout of 30 s; the failures are not fair |

In `MCCalls` and `MCWriteBack` each of these is asked for while its side moves.
`OperatorGate`, `OntologyCache`, `SeedLattice`, `CrystalFlow` and `Dispatch` have no liveness
property; that the lock of the ontology is never held for good is the absence of a deadlock,
which `ontology` checks.

## 5. The proofs

TLAPS checks these for every value of the constants.

* `Calls_proofs`, of the relay: type correctness, `IndexAgrees`, `PendingOwned`, `NoOrphan`,
  and that `Relay` implements `RelayPromise`. The conjunction of the first four is inductive
  together with two more facts: a session is registered exactly while its receive loop runs
  (`SocketInv`), and a task that waits knows its session and that session's user, owns a
  future, and any answer in it came on that session (`TaskInv`). The refinement maps each
  step to a step of the promise or a stutter; the one that needs the invariant is `Receive`:
  the reply is from the caller's own desktop because a session's table only holds requests
  of the user who owns it (`PendingOwned`). Assumed: the two "no value" constants are not
  values.
* `Calls_proofs`, of the push: `StoredOnce` and `PushedIsStored`, for any operators, page
  size, pages (short and empty ones included), attempts, restarts and artifacts of others, if
  one host pushes, the first of them while no scan was cut; the types hold for
  any number of hosts. The invariant says that what a scan has not met is still ahead of it
  (`Ahead`, in `CatalogInv` and `IndexInv`): a page passes no more places than it has rows
  (`PageSize`, `PagePasses`), and a row that is created meanwhile, first or last, leaves the
  place of every other where it was or moves it further away (`ComesKeeps`). So a push that
  creates something knows that it is not there, and with `Once` nothing is there twice. The
  condition is needed at that point and nowhere else: with a second host what the first has
  passed may be created before it creates (`push_twice`). A proof needs the number of rows
  passed, not their sequence, which is why the model has pages as sets of places.
* `Calls_proofs`, of the crystal: the theorems of `CrystalFlow_proofs`, by INSTANCE.
* `Access_proofs`, of the gate: `WithdrawalReaches` and `GrantReaches`. The
  properties are not inductive: they speak of the moment a check ends. The invariant says
  what is true of answers at rest: every entry (`CacheHonest`) and every reply under way
  (`ReplyHonest`) that disagrees with Mantle does so about something that changed at or
  after the time the entry is dated with, and all times are at most the clock
  (`TimesOrdered`). A verdict from an entry younger than the TTL then concerns a change
  younger than the TTL. Assumed: `MaxLatency < TTL`, for a reply that arrives after more
  than a TTL would be used for one verdict. The code's 15 s is httpx's timeout *per
  operation*, not of the whole call, so this is an assumption about Mantle's replies and not
  a consequence of the code.
* `Access_proofs`, of dispatch: `Authorised`, `AsDeclared` and `PublishedUnlessRaced`, and
  the types of both. For a tool offered as an operator `Authorised` also allows what the caller
  could invoke less than the gate's TTL before the request, since the gate answers from a cache. What the request remembers (`since`) contains the present
  (`Remembers`), and the registry holds only what some last build declared (`FromBuilds`);
  what the request has passed was granted, declared or placed at some time it remembers
  (`Sound`), which stays true because it only ever remembers more. That what is resolved is
  declared rests on the walk of the lineage never leaving the types: `WalkUnfolds` shows
  that the recursive function of `Types` satisfies its defining equation, and the rest is an
  induction on the number of visits. For the background tasks: the last publish that began
  has the persona's last build, and unless two overlapped no earlier one is pending
  (`TasksBegun`, `InOrder`), so the one that lands last is that one.
* `Access_proofs`, of the registry of types: `OperationsAgree`, that what `/resolve` lists of a
  declared type and what is dispatched are the same, and that the walk ends (`WalksEnd`), for
  any types that inherit in any way and any builds. The
  two are a fold from the root down in which later declarations win (`OperationsOf`) and the
  first of the lineage that declares a name (`ResolveOperation`). `FoldExists` shows that the
  recursive function under the community modules' `FoldLeft` satisfies its equation,
  `FoldTakesLast`, by a least counterexample in the length of a prefix, that a name has the
  value of the last place that declares it, and `FoldIsFirst` that the last of the turned
  sequence is the first of the lineage. That the root is in every lineage is
  `LineageEndsAtRoot`: every declared type that a walk has seen is in what it puts out
  (`Listed`), and a walk sees at least the type it starts at.
* `Registration_proofs`: type correctness, `RegistryConsistent` and
  `QuietRegistrationLands`, for any hosts, personas, types and numbers of restarts. The
  invariant adds to what a registry holds what a host may conclude from it: a persona whose
  present build was accepted in this life of the gateway (`Accepted`: the answer came, or is
  still to come) is in the topology, and of the types that only it ships exactly those of
  the build are its own (`Known`); a type is only ever served by a persona that is known and
  may ship it (`Served`); and what a host still has to try has not landed (`LoopInv`).
* `Ontology_proofs`, of the builder: type correctness; and, for a corpus without an external measurement,
  `BasisIsTrue`, `ReadyIsComplete` and `RunSettles`, for any corpus, batch size, ingests,
  crashes and runs. `BasisIsTrue` rests on what happens between a load and its record
  (`Loading`): the values are those of the rows loaded over the edges read, and if the load
  read all of them and nothing was ingested since, those of the corpus; and on a record never counting more rows than there are (`Stored`),
  so that one that counts them all was taken of just these, which is an argument on
  cardinalities. What was taken over which edges goes along as `trees`. `Laid` carries the entries that are still to be written, `Terms` the same
  for ConceptNet. With an external measurement the first of them is false
  (`ontology_external`).
* `Ontology_proofs`, of the readers: `FreshSynset`, `VerifiedIsCurrent` and the types of both
  sides, for any number of threads and of writes. What a thread has left to run always leads
  to one place of the lookup (`PlacesInv`), and the lock is held exactly at the places that
  need it (`LockInv`). The heart is `Reaches`: what was read of a row in the present
  generation is what the store held at the mark or newer, and is not older than what a lookup
  began with that has observed the store since, nor than what one began with before the mark.
  It is established where a row is stamped or listed, because a lookup that has observed moves
  the generation on whenever the mark moved, and every write after the mark is newer than it.
  It then holds of a stamp (`StampInv`), of an index under way (`LoadInv`), of the cached entry
  (`CacheInv`) and of the index (`IndexInv`), and says nothing of what an older generation
  left. A synset is read after its stamp, so it is at least as new (`Bounded`): this is why
  the code stamps before it reads. A generation captured before the stamp may be too old when
  the entry is kept, never too new.
* `Edge_proofs`: that every path on every host goes home for every
  configuration whose names are apart (`AllGoHome`), and for the host as it runs
  `RoutedHome`, its types, and `PersonaReached` for any number of threads that share the
  map. The last needs that a lookup that is not excused is at each of its places in a state from
  which it finds what it asked for (`Steady`), and that no step of another thread takes it out
  of that state without excusing it (`OthersSteady`). The proof of `AllGoHome` showed that `NamesAreApart` also has to
  keep `www` from being an upstream, which no roster of the instance has.
* `WriteBack_proofs`: type correctness of both sides; and, however long describers take, that
  a describer which a request of the gateway fires is the first for its change
  (`RequestsAlwaysFireFirst`): a request that resumes after the feed fired for its change finds
  the stamp of that instant (`Resuming`), and every change has a number of its own
  (`Numbered`). So whatever goes wrong comes from the feed, late. That the feed does no wrong
  either, `LoopBroken` and `OncePerChange`, is not true of the code's numbers
  (`describers_loop`) and not claimed as a theorem of the code. What is proved of the two is why
  the run's proportions are enough (`WriteBackBreaksLoop`, under `DescribersAreShort`: the
  describers of all artifacts, one after the other, fit into the window): an event whose
  describer must not fire again is handled while the stamp of its artifact stands, because no
  more time has passed since than the describers begun since may take (`InTime`). The properties of the operators are those of
  `Evolution_proofs`, by INSTANCE.
* `Evolution_proofs`: type correctness, `EvidenceIsObserved`, `ArchivedWasRefuted`,
  `SelectSpares` and `AloneLosesNothing`, for any operators, callers and budgets. Three
  invariants carry them: a stored count and a row that a caller holds never exceed what was
  reported of the behaviour they belong to (`StoreBacked`, `HeldBacked`), a caller that
  nobody overlapped holds the row that is stored (`HeldCurrent`), and who was chosen was as
  fit as any (`ChosenFittest`). The other half is arithmetic: with no verdict against it an
  operator never falls below the prior (`NotBelowPrior`), and to be unfit takes three
  refutations (`UnfitTakesThree`), both over the integers the code's floats are rounded to.
* `CrystalFlow_proofs`: type correctness, `BeamAccounted` for any facets, bands and
  instrument that answers every frame that has energy, and `ScreenHears`, for any
  instrument. The invariant says that a cached split is one of the beam that is kept
  (`SplitOfBeam`), and that what was answered since the last `conduct` is what that crossing
  answers (`GotOfSplit`).

Only model-checked: every liveness property (`EveryRequestEnds`, `GatewayRefills`,
`EventuallyKnown`, `ComesToRest`, `PushEnds`, `FinallyRetired`), which need fairness and
`ENABLED`. Every invariant and every action property that a passing run checks is a theorem,
some of them under a condition that the theorem states: one host that pushes, a corpus without
an external measurement, a latency below the TTL, an instrument that answers every frame with
energy, and, for `LoopBroken` and `OncePerChange`, describers that are short.

## 6. Not modelled, and why

Ontology mathematics is floating-point linear algebra over a corpus. Edge
authentication, configuration, logging and static files keep no state that two
requests share. Of the host's routing, what is decided is modelled and what is sent is not:
bodies, CORS, cache headers. `discharge` and the crystal's contract are pure. The refresh
that `/.well-known/mcp` asks of a map that was never loaded (`host.py` 672) is not in
`Edge`. The HTTP clients are one call per method; the calls are inside the
actions of those who make them.

## 7. Plan

In this order, the most important behaviour first:

1. Done: `RelayPromise` and `Relay`; `Registration`; `OperatorGate`; `PersonaMap`,
   `Routing` and `Edge`; `Describers`; `OperatorPush`; `OntologyCache` and `SeedLattice`;
   `Evolution`; `Types` and `Dispatch`; `CrystalFlow`; the proofs of section 5.
2. `SeedLattice` with two builders; `OntologyCache` with
   failing reads, exceptions of `morphy` and `bind_store`; `/.well-known/mcp` in `Edge`.
3. Proofs: a weaker `StoredOnce` for several hosts, that only a push that overlaps another
   makes a second row.

Abstract specifications worth stating beyond `RelayPromise`: a store of answers that
are at most a TTL old (for `OperatorGate`), and a reader that always serves a version
between its last observation and now (for `OntologyCache`).
