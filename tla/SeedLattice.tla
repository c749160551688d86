----------------------------- MODULE SeedLattice -----------------------------
(***************************************************************************)
(* The builder of the ontology's substrate (ontology/seed_lattice.py), and *)
(* the rule by which the driver's load trusts what it stored               *)
(* (ontology/driver.py: ic_basis, derive_intrinsic_ic, _load_index).       *)
(*                                                                         *)
(* Information content is a measurement of the whole corpus, stored row by *)
(* row and in batches; one record, the basis, says what it was taken from  *)
(* and is written last.  Sources are ingested meanwhile, their rows and    *)
(* their edges each by itself; the builder may die between any two writes; *)
(* and the load goes on when the edges or the basis cannot be read.  The   *)
(* reader's side is OntologyCache.                                         *)
(*                                                                         *)
(* The second corpus, ConceptNet, has its own taxonomy (is_a), its own     *)
(* values and its own basis.                                               *)
(***************************************************************************)
EXTENDS Integers, FiniteSets

CONSTANTS
  Synsets, Foreign,     \* the synsets; those whose row is of another language
  Surfaces, Surface(_), \* lemma vertices; that of a synset
  Carried,              \* surfaces whose ConceptNet vertex has an artifact
  Batch,                \* _IC_BATCH
  External,             \* the corpus carries an external measurement at first
  MaxIngests, MaxRuns, MaxCrashes   \* bounds

ASSUME SeedLatticeAssumption ==
  /\ IsFiniteSet(Synsets) /\ Foreign \subseteq Synsets
  /\ IsFiniteSet(Surfaces) /\ Carried \subseteq Surfaces
  /\ \A s \in Synsets : Surface(s) \in Surfaces
  /\ Batch \in Nat \ {0} /\ External \in BOOLEAN
  /\ MaxIngests \in Nat /\ MaxRuns \in Nat /\ MaxCrashes \in Nat

VARIABLES
  rows, hyper,        \* the synset rows; hyper: <<child, parent>>, the hypernym edges
  ic, basis,          \* the stored values of the rows and their record, geom.ic-basis
  isa, cnIc, cnBasis, \* ConceptNet: is_a edges, the stored values, their record
  entries, assoc,     \* synsets with their lex: edges; surfaces with their assoc: edge
  transducer,         \* op.transducer.language.en
  builder,            \* the builder's process: where it is, and its locals
  trees,              \* history: the hypernym edges that the stored values were taken over
  settled,            \* history: what the latest runs, undisturbed, have ended with
  ingests, runs, crashes

storeVars == <<rows, hyper, ic, basis, isa, cnIc, cnBasis, entries, assoc, transducer>>
vars == <<storeVars, builder, trees, settled, ingests, runs, crashes>>

----------------------------------------------------------------------------
\* The measurement

\* A value stands for the float 1 - log(desc + 1) / log(n + 1), by the two integers
\* it is a function of; the value of a leaf does not depend on n.
Values == [desc : Int, n : Nat]
NoValue == [desc |-> -1, n |-> 0]        \* the field is absent: not has_ic()
Imported == [desc |-> -2, n |-> 0]       \* a number measured on another corpus

IC(desc, n) == IF desc = 0 THEN [desc |-> 0, n |-> 0] ELSE [desc |-> desc, n |-> n]

\* The members of S that reach q over edges between members, q itself not counted.
Closed(A, S, edges) == \A e \in edges : e[1] \in S /\ e[2] \in A => e[1] \in A
Descendants(q, S, edges) ==
  {s \in S \ {q} : \A A \in SUBSET S : q \in A /\ Closed(A, S, edges) => s \in A}

\* derive_intrinsic_ic, and conceptnet_ic over its own vertices.
Derived(S, edges) == [s \in S |-> IC(Cardinality(Descendants(s, S, edges)), Cardinality(S))]

Vertices(edges) == {e[1] : e \in edges} \cup {e[2] : e \in edges}

Sources == {"none", "intrinsic", "external"}
Bases == [source : Sources, n : Nat]
NoBasis == [source |-> "none", n |-> 0]
Intrinsic(S) == [source |-> "intrinsic", n |-> Cardinality(S)]

\* _fresh of _load_index, once the rows S are listed.
Fresh(S) ==
  \/ basis.source = "external"
  \/ basis = Intrinsic(S) /\ \A s \in S : ic[s] # NoValue

\* What the load leaves in the index: the stored values, or all of them taken again, over
\* the edges that it has read.
Loaded(S, trusted, edges) == IF trusted THEN ic ELSE Derived(S, edges)

----------------------------------------------------------------------------
\* The builder

Places == {"idle", "scan", "persist", "entries", "assoc", "cnPersist"}
Nodes == Synsets \cup Surfaces

\* `idx` and `value`: what the load listed, and its values; `over`: the rows scanned; `left`:
\* edges or rows still to be written.  History: `trees`, over which edges the values were
\* taken; `quiet`, nothing that is counted landed since the load, and no value was passed
\* over; `own`, the run has taken the values itself, over all the edges there are.
Trees == SUBSET (Synsets \X Synsets)
Builders == [at : Places, build : BOOLEAN, idx : SUBSET Nodes, value : [Nodes -> Values],
             over : SUBSET Synsets, left : SUBSET Nodes, trees : SUBSET Trees,
             quiet : BOOLEAN, own : BOOLEAN]

\* The builder once it has loaded S with the values f, taken over the trees t.
Begun(place, build, S, f, t, own) ==
  [at |-> place, build |-> build, idx |-> S,
   value |-> [x \in Nodes |-> IF x \in S THEN f[x] ELSE NoValue],
   over |-> {}, left |-> {}, trees |-> t, quiet |-> TRUE, own |-> own]

Idle == Begun("idle", FALSE, {}, <<>>, {}, FALSE)

Corpus == IF builder.at = "cnPersist" THEN "conceptnet" ELSE "wordnet"
English(S) == S \ Foreign

NoTransducer == [there |-> FALSE, over |-> {}, measured |-> {}]

TypeOK ==
  /\ rows \subseteq Synsets /\ hyper \in Trees
  /\ ic \in [Synsets -> Values] /\ basis \in Bases
  /\ isa \subseteq Surfaces \X Surfaces
  /\ cnIc \in [Surfaces -> Values] /\ cnBasis \in Bases
  /\ entries \subseteq English(rows)
  /\ assoc \subseteq {Surface(s) : s \in entries}
  /\ transducer \in [there : BOOLEAN, over : SUBSET rows, measured : SUBSET rows]
  /\ builder \in Builders /\ builder.over \subseteq rows
  /\ trees \subseteq Trees
  /\ settled \subseteq {"wordnet", "measured", "conceptnet"}
  /\ ingests \in 0..MaxIngests /\ runs \in 0..MaxRuns /\ crashes \in 0..MaxCrashes

Init ==
  /\ \E s \in Synsets : rows = {s}
  /\ hyper = {}
  /\ \E v \in IF External THEN {Imported} ELSE {NoValue, Imported} :
       ic = [s \in Synsets |-> IF s \in rows THEN v ELSE NoValue]
  /\ basis = IF External THEN [source |-> "external", n |-> 0] ELSE NoBasis
  /\ isa = {} /\ cnIc = [c \in Surfaces |-> NoValue] /\ cnBasis = NoBasis
  /\ entries = {} /\ assoc = {} /\ transducer = NoTransducer
  /\ builder = Idle /\ trees = {} /\ settled = {}
  /\ ingests = 0 /\ runs = 0 /\ crashes = 0

----------------------------------------------------------------------------
\* The corpus grows

Land ==
  /\ ingests < MaxIngests
  /\ ingests' = ingests + 1
  /\ UNCHANGED <<basis, cnIc, cnBasis, entries, assoc, transducer, trees, runs, crashes>>

\* A source's row lands; some rows carry a number that was measured elsewhere.
Ingest(s) ==
  /\ s \in Synsets \ rows
  /\ Land
  /\ rows' = rows \cup {s}
  /\ \E v \in {NoValue, Imported} : ic' = [ic EXCEPT ![s] = v]
  /\ builder' = [builder EXCEPT !.quiet = @ /\ Corpus # "wordnet"]
  /\ settled' = settled \ {"wordnet", "measured"}
  /\ UNCHANGED <<hyper, isa>>

\* An edge lands, after the rows it joins or before.
IngestEdge(s, up) ==
  /\ s # up /\ <<s, up>> \notin hyper
  /\ Land
  /\ hyper' = hyper \cup {<<s, up>>}
  /\ builder' = [builder EXCEPT !.own = FALSE]
  /\ settled' = settled \ {"measured"}
  /\ UNCHANGED <<rows, ic, isa>>

\* ConceptNet says that c is a d.
IngestIsA(c, d) ==
  /\ c # d /\ <<c, d>> \notin isa
  /\ Land
  /\ isa' = isa \cup {<<c, d>>}
  /\ builder' = [builder EXCEPT !.quiet = @ /\ Corpus # "conceptnet"]
  /\ settled' = settled \ {"conceptnet"}
  /\ UNCHANGED <<rows, hyper, ic>>

\* The process dies; what it wrote stays.
Crash ==
  /\ builder.at # "idle" /\ crashes < MaxCrashes
  /\ crashes' = crashes + 1
  /\ builder' = Idle
  /\ UNCHANGED <<storeVars, trees, settled, ingests, runs>>

----------------------------------------------------------------------------
\* build and refresh_ic

Run == runs < MaxRuns /\ builder.at = "idle" /\ runs' = runs + 1

\* Phase 0: the caches are dropped and the whole index is loaded.  The rows, the edges
\* and the basis are read one after the other; an edge of a row that was not listed
\* is skipped, so the listing decides what is measured.  Edges that cannot be read are
\* no edges, and a basis that cannot be read is none.
Start(build) ==
  /\ Run
  /\ \E edges \in {hyper, {}}, trusted \in {Fresh(rows), FALSE} :
       /\ builder' = Begun(IF build THEN "scan" ELSE "persist", build,
                           rows, Loaded(rows, trusted, edges),
                           IF trusted THEN trees ELSE {edges}, ~trusted /\ edges = hyper)
       /\ trees' = IF trusted THEN trees ELSE trees \cup {edges}
  /\ settled' = settled \ {"wordnet", "measured"}
  /\ UNCHANGED <<storeVars, ingests, crashes>>

\* Phase 1: the rows are listed once more, for the entries.
Scan ==
  /\ builder.at = "scan"
  /\ builder' = [builder EXCEPT !.at = "persist", !.over = rows]
  /\ UNCHANGED <<storeVars, trees, settled, ingests, runs, crashes>>

Disagreeing_Missing ==                                      \* mutant: only where absent
  {s \in builder.idx : ic[s] = NoValue /\ builder.value[s] # NoValue}

\* has_ic(), and not _unchanged.  A row that the load did not see is passed over.
Disagreeing == {s \in builder.idx : builder.value[s] \notin {NoValue, ic[s]}}

\* Full batches, and a last one that may be short.
Batches(S) ==
  {b \in SUBSET S : b # {} /\ (Cardinality(b) = Batch \/ (b = S /\ Cardinality(S) < Batch))}

\* put_many of one batch.
Persist ==
  /\ builder.at = "persist"
  /\ \E b \in Batches(Disagreeing) :
       ic' = [s \in Synsets |-> IF s \in b THEN builder.value[s] ELSE ic[s]]
  /\ UNCHANGED <<rows, hyper, basis, isa, cnIc, cnBasis, entries, assoc, transducer, builder,
                 trees, settled, ingests, runs, crashes>>

Over_Rows == Intrinsic(rows)                                \* mutant: counted in the store

\* The basis names len(idx).
Over == Intrinsic(builder.idx)

\* What this run says it measured, after the values.
Record ==
  /\ builder.at = "persist" /\ Disagreeing = {}
  /\ basis' = Over
  /\ builder' = IF builder.build THEN [builder EXCEPT !.at = "entries", !.left = English(builder.over)]
                ELSE Idle
  /\ trees' = builder.trees
  /\ settled' = settled \cup {c \in {"wordnet", "measured"} :
                               builder.quiet /\ (c = "measured" => builder.own)}
  /\ UNCHANGED <<rows, hyper, ic, isa, cnIc, cnBasis, entries, assoc, transducer, ingests, runs,
                 crashes>>

\* Phase 3: the lex: edges of one more row.
AddEntry ==
  /\ builder.at = "entries"
  /\ \E s \in builder.left :
       /\ entries' = entries \cup {s}
       /\ builder' = [builder EXCEPT !.left = @ \ {s}]
  /\ UNCHANGED <<rows, hyper, ic, basis, isa, cnIc, cnBasis, assoc, transducer, trees, settled,
                 ingests, runs, crashes>>

EntriesDone_Early == builder.at = "entries"                 \* mutant: some are missing

EntriesDone == builder.at = "entries" /\ builder.left = {}

\* Phase 3b: the ConceptNet vertices whose surface has entries; a store that cannot be
\* asked anchors none, and the build goes on.
Anchor ==
  /\ EntriesDone
  /\ \E failed \in BOOLEAN :
       builder' = [builder EXCEPT !.at = "assoc",
                     !.left = IF failed THEN {} ELSE Carried \cap {Surface(s) : s \in entries}]
  /\ UNCHANGED <<storeVars, trees, settled, ingests, runs, crashes>>

AddAssoc ==
  /\ builder.at = "assoc"
  /\ \E c \in builder.left :
       /\ assoc' = assoc \cup {c}
       /\ builder' = [builder EXCEPT !.left = @ \ {c}]
  /\ UNCHANGED <<rows, hyper, ic, basis, isa, cnIc, cnBasis, entries, transducer, trees,
                 settled, ingests, runs, crashes>>

\* Phase 5: the readiness flag, with the geometry of phase 4 or without.
Flag ==
  /\ builder.at = "assoc" /\ builder.left = {}
  /\ transducer' = [there |-> TRUE, over |-> builder.over, measured |-> builder.idx]
  /\ builder' = Idle
  /\ UNCHANGED <<rows, hyper, ic, basis, isa, cnIc, cnBasis, entries, assoc, trees, settled,
                 ingests, runs, crashes>>

----------------------------------------------------------------------------
\* persist_conceptnet_ic

\* conceptnet_ic; fewer than two vertices are nothing to measure.
StartConceptNet ==
  /\ Run
  /\ Cardinality(Vertices(isa)) >= 2
  /\ LET V == Vertices(isa) IN
     builder' = [Begun("cnPersist", FALSE, V, Derived(V, isa), {}, FALSE) EXCEPT !.left = V]
  /\ settled' = settled \ {"conceptnet"}
  /\ UNCHANGED <<storeVars, trees, ingests, crashes>>

CnDisagreeing == {c \in builder.left \cap Carried : builder.value[c] # cnIc[c]}

\* One artifact after the other; a read that fails is passed over.
CnSkip ==
  /\ builder.at = "cnPersist"
  /\ \E c \in CnDisagreeing :
       builder' = [builder EXCEPT !.left = @ \ {c}, !.quiet = FALSE]
  /\ UNCHANGED <<storeVars, trees, settled, ingests, runs, crashes>>

CnPersist ==
  /\ builder.at = "cnPersist"
  /\ \E b \in Batches(CnDisagreeing) :
       cnIc' = [c \in Surfaces |-> IF c \in b THEN builder.value[c] ELSE cnIc[c]]
  /\ UNCHANGED <<rows, hyper, ic, basis, isa, cnBasis, entries, assoc, transducer, builder,
                 trees, settled, ingests, runs, crashes>>

CnRecord ==
  /\ builder.at = "cnPersist" /\ CnDisagreeing = {}
  /\ cnBasis' = Over
  /\ builder' = Idle
  /\ settled' = IF builder.quiet THEN settled \cup {"conceptnet"} ELSE settled
  /\ UNCHANGED <<rows, hyper, ic, basis, isa, cnIc, entries, assoc, transducer, trees, ingests,
                 runs, crashes>>

----------------------------------------------------------------------------
BuilderStep ==
  \/ \E build \in BOOLEAN : Start(build)
  \/ Scan \/ Persist \/ Record \/ AddEntry \/ Anchor \/ AddAssoc \/ Flag
  \/ StartConceptNet \/ CnSkip \/ CnPersist \/ CnRecord

Next ==
  \/ \E s \in Synsets : Ingest(s)
  \/ \E s, up \in Synsets : IngestEdge(s, up)
  \/ \E c, d \in Surfaces : IngestIsA(c, d)
  \/ Crash
  \/ BuilderStep

Spec == Init /\ [][Next]_vars

----------------------------------------------------------------------------
\* Properties

\* When the load trusts the stored values (driver.py 933-937), each of them was taken over
\* exactly the rows there are: no crash, no batch and no row that lands in between leaves a
\* measurement of which one half is of another corpus.  They are one measurement, over the
\* edges that one load has read, unless a later load could not read the basis and has not
\* come to its own record since.
BasisIsTrue ==
  basis.source = "intrinsic" /\ Fresh(rows) =>
    \A s \in rows : \E edges \in trees : ic[s] = Derived(rows, edges)[s]

\* The transducer is the readiness flag: with it there, the keyed path finds the entries of
\* every English row its build scanned, and a value on every row its load measured, whatever
\* a later run, ingest or crash does.
ReadyIsComplete ==
  transducer.there =>
    /\ English(transducer.over) \subseteq entries
    /\ transducer.measured \subseteq {s \in Synsets : ic[s] # NoValue}

\* A run during which no row landed ends with stored values that the next load takes as
\* they are, so that a second run writes nothing.  If it has measured itself, over all the
\* edges, they are those of the corpus until something lands; and so for ConceptNet, over
\* the vertices that have an artifact and no others.
RunSettles ==
  /\ "wordnet" \in settled => Fresh(rows)
  /\ "measured" \in settled => \A s \in rows : ic[s] = Derived(rows, hyper)[s]
  /\ "conceptnet" \in settled =>
       /\ cnBasis = Intrinsic(Vertices(isa))
       /\ \A c \in Surfaces :
            cnIc[c] = IF c \in Carried \cap Vertices(isa) THEN Derived(Vertices(isa), isa)[c]
                      ELSE NoValue
=============================================================================
