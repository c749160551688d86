--------------------------- MODULE Ontology_proofs ---------------------------
(***************************************************************************)
(* What the two sides of the ontology promise.                             *)
(*                                                                         *)
(* The builder of the substrate: for every corpus, batch size and number   *)
(* of ingests, runs and crashes.  What follows its type invariant is about *)
(* a corpus that carried no external measurement.                          *)
(*                                                                         *)
(* The readers (Reader!...): for any number of threads and of writes.      *)
(***************************************************************************)
EXTENDS MCOntology, FiniteSetTheorems, SequenceTheorems, TLAPS

----------------------------------------------------------------------------
(* The builder *)


\* Where the builder is, what it holds is of the corpus.
Shape ==
  /\ builder.at \in {"scan", "persist", "entries", "assoc"} => builder.idx \subseteq rows
  /\ builder.at = "entries" => builder.left \subseteq English(rows)
  /\ builder.at = "assoc" => builder.left \subseteq {Surface(s) : s \in entries}
  /\ builder.at = "cnPersist" => /\ builder.left \subseteq builder.idx
                                 /\ builder.idx \subseteq Vertices(isa)

\* Between a load and its record: every row has a value, taken over edges that are among
\* those the store may speak of, and if no row landed since, over the rows there are.
Loading ==
  builder.at \in {"scan", "persist"} =>
    /\ \A s \in builder.idx : builder.value[s] # NoValue
    /\ builder.trees \subseteq trees
    /\ builder.idx = rows =>
         \A s \in rows : \E edges \in builder.trees :
           builder.value[s] = Derived(rows, edges)[s]
    /\ basis = Intrinsic(rows) => builder.idx = rows
    /\ builder.quiet => builder.idx = rows
    /\ builder.quiet /\ builder.own =>
         \A s \in rows : builder.value[s] = Derived(rows, hyper)[s]
    /\ "wordnet" \notin settled /\ "measured" \notin settled

\* A basis never counts more rows than there are, and one that counts them all is true of
\* the edges it was taken over.
Stored ==
  /\ basis.source # "external"
  /\ basis.source = "intrinsic" => basis.n <= Cardinality(rows)
  /\ basis = Intrinsic(rows) =>
       \A s \in rows :
         /\ ic[s] # NoValue
         /\ \E edges \in trees : ic[s] = Derived(rows, edges)[s]
  /\ "wordnet" \in settled => basis = Intrinsic(rows)
  /\ "measured" \in settled => \A s \in rows : ic[s] = Derived(rows, hyper)[s]

\* After the record: the rows of the load are measured, and the entries of those scanned
\* are written or still to be.
Laid ==
  /\ builder.at \in {"entries", "assoc"} => \A s \in builder.idx : ic[s] # NoValue
  /\ builder.at = "entries" => English(builder.over) \subseteq entries \cup builder.left
  /\ builder.at = "assoc" => English(builder.over) \subseteq entries
  /\ ReadyIsComplete

\* ConceptNet's stored values are those of its vertices with an artifact.
Measured ==
  /\ cnBasis = Intrinsic(Vertices(isa))
  /\ \A c \in Surfaces : cnIc[c] = IF c \in Carried \cap Vertices(isa)
                                   THEN Derived(Vertices(isa), isa)[c] ELSE NoValue

Terms ==
  /\ \A c \in Surfaces : c \notin Carried \cap Vertices(isa) => cnIc[c] = NoValue
  /\ builder.at = "cnPersist" =>
       /\ "conceptnet" \notin settled
       /\ builder.quiet =>
            /\ builder.left = Vertices(isa) /\ builder.idx = Vertices(isa)
            /\ \A c \in Vertices(isa) : builder.value[c] = Derived(Vertices(isa), isa)[c]
  /\ "conceptnet" \in settled => Measured

TypeInv == TypeOK /\ Shape
IInv == TypeInv /\ Loading /\ Stored /\ Laid /\ Terms

----------------------------------------------------------------------------
\* A set of rows is finite, and no smaller than the rows unless one is missing.
LEMMA RowsFinite ==
  ASSUME TypeOK, NEW S \in SUBSET rows
  PROVE  /\ IsFiniteSet(S) /\ Cardinality(S) \in Nat
         /\ Cardinality(S) <= Cardinality(rows)
         /\ Cardinality(S) = Cardinality(rows) => S = rows
<1>1. IsFiniteSet(rows)
  BY FS_Subset, SeedLatticeAssumption DEF TypeOK
<1> QED
  BY <1>1, FS_Subset, FS_CardinalityType

\* One more row is one more.
LEMMA OneMore ==
  ASSUME TypeOK, NEW s \in Synsets \ rows
  PROVE  /\ Cardinality(rows) \in Nat
         /\ Cardinality(rows \cup {s}) = Cardinality(rows) + 1
<1>1. IsFiniteSet(rows) /\ Cardinality(rows) \in Nat
  BY RowsFinite
<1> QED
  BY <1>1, FS_AddElement

\* A measurement gives every member of what it is taken over a value.
LEMMA DerivedType ==
  ASSUME NEW S, IsFiniteSet(S), NEW E
  PROVE  /\ Derived(S, E) \in [S -> Values]
         /\ \A s \in S : Derived(S, E)[s] # NoValue
<1>1. \A s \in S : Cardinality(Descendants(s, S, E)) \in Nat
  <2> SUFFICES ASSUME NEW s \in S PROVE Cardinality(Descendants(s, S, E)) \in Nat
    OBVIOUS
  <2>1. Descendants(s, S, E) \in SUBSET S
    BY DEF Descendants
  <2> QED
    BY <2>1, FS_Subset, FS_CardinalityType
<1>2. Cardinality(S) \in Nat
  BY FS_CardinalityType
<1>3. ASSUME NEW d \in Nat, NEW n \in Nat
      PROVE  IC(d, n) \in Values /\ IC(d, n) # NoValue
  BY DEF IC, Values, NoValue
<1> QED
  BY <1>1, <1>2, <1>3 DEF Derived

\* The vertices of the is_a edges are surfaces.
LEMMA VerticesType ==
  ASSUME TypeOK
  PROVE  Vertices(isa) \subseteq Surfaces /\ IsFiniteSet(Vertices(isa))
<1>1. Vertices(isa) \in SUBSET Surfaces
  BY DEF TypeOK, Vertices
<1> QED
  BY <1>1, FS_Subset, SeedLatticeAssumption

\* What a load takes into the index.
LEMMA BegunType ==
  ASSUME NEW place \in Places, NEW build \in BOOLEAN, NEW S \in SUBSET Nodes,
         NEW f, \A x \in S : f[x] \in Values, NEW t \in SUBSET Trees, NEW own \in BOOLEAN
  PROVE  /\ Begun(place, build, S, f, t, own) \in Builders
         /\ \A x \in S : Begun(place, build, S, f, t, own).value[x] = f[x]
BY DEF Begun, Builders, Values, NoValue

\* The idle builder has its type.
LEMMA IdleType == Idle \in Builders /\ Idle.at = "idle" /\ Idle.over = {}
<1>1. Idle \in Builders
  <2>1. "idle" \in Places /\ {} \in SUBSET Nodes /\ {} \in SUBSET Trees
    BY DEF Places
  <2> QED
    BY <2>1, BegunType DEF Idle
<1> QED
  BY <1>1 DEF Idle, Begun

\* What a load takes for a row is a value.
LEMMA LoadedType ==
  ASSUME TypeOK, NEW edges, NEW trusted
  PROVE  \A s \in rows : Loaded(rows, trusted, edges)[s] \in Values
<1>1. IsFiniteSet(rows)
  BY RowsFinite
<1>2. Derived(rows, edges) \in [rows -> Values]
  BY <1>1, DerivedType
<1> QED
  BY <1>2 DEF Loaded, TypeOK

----------------------------------------------------------------------------
\* The type invariant holds at first.
LEMMA InitTypeInv == Init => TypeInv
<1> SUFFICES ASSUME Init PROVE TypeInv
  OBVIOUS
<1>1. NoValue \in Values /\ Imported \in Values
  BY DEF NoValue, Imported, Values
<1>2. builder = Idle
  BY DEF Init
<1>3. rows \subseteq Synsets /\ ic \in [Synsets -> Values]
  BY <1>1 DEF Init
<1>4. basis \in Bases /\ cnBasis \in Bases
  BY DEF Init, Bases, Sources, NoBasis
<1>5. TypeOK
  BY <1>1, <1>2, <1>3, <1>4, IdleType, SeedLatticeAssumption
     DEF Init, TypeOK, NoTransducer, Trees
<1>6. Shape
  BY <1>2, IdleType DEF Shape
<1> QED
  BY <1>5, <1>6 DEF TypeInv

\* A row lands.
LEMMA IngestTypeInv ==
  ASSUME TypeInv, NEW s \in Synsets, Ingest(s)
  PROVE  TypeInv'
<1> USE DEF TypeInv, Ingest, Land
<1>1. NoValue \in Values /\ Imported \in Values
  BY DEF NoValue, Imported, Values
<1>2. ic' \in [Synsets -> Values]
  BY <1>1 DEF TypeOK
<1>3. builder' \in Builders
  BY DEF TypeOK, Builders
<1>4. TypeOK'
  BY <1>2, <1>3, SeedLatticeAssumption DEF TypeOK, English, Builders
<1>5. Shape'
  BY DEF Shape, English, TypeOK, Builders
<1> QED
  BY <1>4, <1>5

\* An edge lands.
LEMMA IngestEdgeTypeInv ==
  ASSUME TypeInv, NEW s \in Synsets, NEW up \in Synsets, IngestEdge(s, up)
  PROVE  TypeInv'
<1> USE DEF TypeInv, IngestEdge, Land
<1>1. hyper' \in Trees
  BY DEF TypeOK, Trees
<1>2. builder' \in Builders
  BY DEF TypeOK, Builders
<1>3. TypeOK'
  BY <1>1, <1>2, SeedLatticeAssumption DEF TypeOK, Builders
<1>4. Shape'
  BY DEF Shape, TypeOK, Builders
<1> QED
  BY <1>3, <1>4

\* An is_a edge lands.
LEMMA IngestIsATypeInv ==
  ASSUME TypeInv, NEW c \in Surfaces, NEW d \in Surfaces, IngestIsA(c, d)
  PROVE  TypeInv'
<1> USE DEF TypeInv, IngestIsA, Land
<1>1. builder' \in Builders
  BY DEF TypeOK, Builders
<1>2. TypeOK'
  BY <1>1, SeedLatticeAssumption DEF TypeOK, Builders
<1>3. Vertices(isa) \subseteq Vertices(isa')
  BY DEF Vertices
<1>4. Shape'
  BY <1>3 DEF Shape, TypeOK, Builders
<1> QED
  BY <1>2, <1>4

\* A builder begins, or is gone.
LEMMA StartTypeInv ==
  ASSUME TypeInv, NEW build \in BOOLEAN, Start(build)
  PROVE  TypeInv'
<1> USE DEF TypeInv, Start, Run, storeVars
<1> DEFINE place == IF build THEN "scan" ELSE "persist"
<1>1. place \in Places /\ place # "entries" /\ place # "assoc" /\ place # "cnPersist"
  BY DEF Places
<1>2. rows \in SUBSET Nodes
  BY DEF TypeOK, Nodes
<1>3. PICK edges \in {hyper, {}}, trusted \in {Fresh(rows), FALSE} :
        /\ builder' = Begun(place, build, rows, Loaded(rows, trusted, edges),
                            IF trusted THEN trees ELSE {edges}, ~trusted /\ edges = hyper)
        /\ trees' = IF trusted THEN trees ELSE trees \cup {edges}
  OBVIOUS
<1>4. edges \in Trees /\ (IF trusted THEN trees ELSE {edges}) \in SUBSET Trees
  BY DEF TypeOK, Trees
<1>5. (~trusted /\ edges = hyper) \in BOOLEAN
  OBVIOUS
<1>6. \A s \in rows : Loaded(rows, trusted, edges)[s] \in Values
  BY LoadedType
<1> HIDE DEF place
<1>7. builder' \in Builders
  BY <1>1, <1>2, <1>3, <1>4, <1>5, <1>6, BegunType
<1>8. /\ builder'.over = {} /\ builder'.at = place /\ builder'.idx = rows
      /\ trees' \subseteq Trees
  BY <1>3, <1>4 DEF Begun, TypeOK
<1>9. /\ UNCHANGED storeVars /\ UNCHANGED <<ingests, crashes>>
      /\ settled' \subseteq settled /\ runs' \in 0..MaxRuns
  BY SeedLatticeAssumption DEF TypeOK
<1> HIDE DEF Start, Run
<1>10. TypeOK'
  BY <1>7, <1>8, <1>9 DEF TypeOK
<1>11. Shape'
  BY <1>1, <1>8, <1>9 DEF Shape, place
<1> QED
  BY <1>10, <1>11

\* A run over ConceptNet begins.
LEMMA StartConceptNetTypeInv ==
  ASSUME TypeInv, StartConceptNet
  PROVE  TypeInv'
<1> USE DEF TypeInv
<1> DEFINE V == Vertices(isa)
           B == Begun("cnPersist", FALSE, V, Derived(V, isa), {}, FALSE)
<1>1. V \in SUBSET Nodes /\ "cnPersist" \in Places
  BY VerticesType DEF Nodes, Places
<1>2. \A c \in V : Derived(V, isa)[c] \in Values
  BY VerticesType, DerivedType
<1>3. B \in Builders
  BY <1>1, <1>2, BegunType
<1>4. /\ builder' = [B EXCEPT !.left = V]
      /\ B.at = "cnPersist" /\ B.over = {} /\ B.idx = V
  BY DEF Begun, StartConceptNet
<1> HIDE DEF B
<1>5. builder' \in Builders /\ builder'.at = "cnPersist" /\ builder'.left = V /\ builder'.idx = V
  BY <1>1, <1>3, <1>4 DEF Builders
<1>6. builder'.over = {}
  BY <1>3, <1>4 DEF Builders
<1>7. /\ UNCHANGED storeVars /\ UNCHANGED <<trees, ingests, crashes>>
      /\ settled' \subseteq settled /\ runs' \in 0..MaxRuns
  BY SeedLatticeAssumption DEF StartConceptNet, Run, TypeOK
<1>8. TypeOK'
  BY <1>5, <1>6, <1>7 DEF TypeOK, storeVars
<1>9. Shape'
  BY <1>5, <1>7 DEF Shape, storeVars
<1> QED
  BY <1>8, <1>9

\* The builder is gone.
LEMMA GoneTypeInv ==
  ASSUME TypeInv, UNCHANGED storeVars, builder' = Idle, UNCHANGED <<trees, settled, ingests, runs>>,
         crashes' \in 0..MaxCrashes
  PROVE  TypeInv'
<1> USE DEF TypeInv, storeVars
<1>1. TypeOK'
  BY IdleType DEF TypeOK
<1>2. Shape'
  BY IdleType DEF Shape
<1> QED
  BY <1>1, <1>2

\* Values are written.
LEMMA PersistTypeInv ==
  ASSUME TypeInv, Persist
  PROVE  TypeInv'
<1> USE DEF TypeInv, Persist
<1>1. ic' \in [Synsets -> Values]
  BY DEF TypeOK, Builders, Nodes
<1>2. TypeOK'
  BY <1>1 DEF TypeOK
<1>3. Shape'
  BY DEF Shape
<1> QED
  BY <1>2, <1>3

\* Values of ConceptNet are written.
LEMMA CnPersistTypeInv ==
  ASSUME TypeInv, CnPersist
  PROVE  TypeInv'
<1> USE DEF TypeInv, CnPersist
<1>1. cnIc' \in [Surfaces -> Values]
  BY DEF TypeOK, Builders, Nodes
<1>2. TypeOK'
  BY <1>1 DEF TypeOK
<1>3. Shape'
  BY DEF Shape
<1> QED
  BY <1>2, <1>3

\* The basis is recorded, and the entries are next.
LEMMA RecordTypeInv ==
  ASSUME TypeInv, Record
  PROVE  TypeInv'
<1> USE DEF TypeInv, Record
<1>1. Cardinality(builder.idx) \in Nat
  BY RowsFinite DEF Shape
<1>2. basis' \in Bases
  BY <1>1 DEF Over, Intrinsic, Bases, Sources
<1>3. builder' \in Builders /\ builder'.over \subseteq rows
  <2>1. CASE builder.build
    <3>1. English(builder.over) \in SUBSET Nodes
      BY DEF TypeOK, English, Nodes
    <3> QED
      BY <2>1, <3>1 DEF TypeOK, Builders, Places
  <2>2. CASE ~builder.build
    BY <2>2, IdleType
  <2> QED
    BY <2>1, <2>2
<1>4. TypeOK'
  BY <1>2, <1>3 DEF TypeOK, Builders
<1>5. Shape'
  <2>1. CASE builder.build
    BY <2>1 DEF Shape, TypeOK, Builders, English
  <2>2. CASE ~builder.build
    BY <2>2, IdleType DEF Shape
  <2> QED
    BY <2>1, <2>2
<1> QED
  BY <1>4, <1>5

\* The basis of ConceptNet is recorded.
LEMMA CnRecordTypeInv ==
  ASSUME TypeInv, CnRecord
  PROVE  TypeInv'
<1> USE DEF TypeInv, CnRecord
<1>1. builder.idx \in SUBSET Vertices(isa) /\ IsFiniteSet(Vertices(isa))
  BY VerticesType DEF Shape
<1>2. Cardinality(builder.idx) \in Nat
  BY <1>1, FS_Subset, FS_CardinalityType
<1>3. cnBasis' \in Bases
  BY <1>2 DEF Over, Intrinsic, Bases, Sources
<1>4. TypeOK'
  BY <1>3, IdleType DEF TypeOK
<1>5. Shape'
  BY IdleType DEF Shape
<1> QED
  BY <1>4, <1>5

\* The steps that write entries or only move on.
LEMMA OtherTypeInv ==
  ASSUME TypeInv, Scan \/ AddEntry \/ Anchor \/ AddAssoc \/ CnSkip \/ UNCHANGED vars
  PROVE  TypeInv'
<1> USE DEF TypeInv
<1>1. CASE Scan
  <2>1. TypeOK'
    BY <1>1 DEF Scan, TypeOK, Builders, Places, storeVars
  <2> QED
    BY <1>1, <2>1 DEF Scan, Shape, TypeOK, Builders, storeVars
<1>2. CASE AddEntry
  <2>1. TypeOK'
    BY <1>2 DEF AddEntry, TypeOK, Builders, Shape
  <2>2. Shape'
    BY <1>2 DEF AddEntry, Shape, TypeOK, Builders
  <2> QED
    BY <2>1, <2>2
<1>3. CASE Anchor
  <2>1. PICK X \in SUBSET (Carried \cap {Surface(s) : s \in entries}) :
          builder' = [builder EXCEPT !.at = "assoc", !.left = X]
    BY <1>3 DEF Anchor
  <2>2. X \subseteq Nodes /\ X \subseteq {Surface(s) : s \in entries}
    BY SeedLatticeAssumption DEF Nodes
  <2>3. builder' \in Builders /\ builder'.at = "assoc" /\ builder'.left = X
    BY <2>1, <2>2 DEF TypeOK, Builders, Places
  <2>4. builder'.idx = builder.idx /\ builder'.over = builder.over /\ builder.at = "entries"
    BY <1>3, <2>1 DEF TypeOK, Builders, Anchor, EntriesDone
  <2>5. TypeOK'
    BY <1>3, <2>3, <2>4 DEF Anchor, TypeOK, storeVars
  <2>6. Shape'
    BY <1>3, <2>2, <2>3, <2>4 DEF Anchor, Shape, storeVars
  <2> QED
    BY <2>5, <2>6
<1>4. CASE AddAssoc
  <2>1. TypeOK'
    BY <1>4 DEF AddAssoc, TypeOK, Builders, Shape
  <2>2. Shape'
    BY <1>4 DEF AddAssoc, Shape, TypeOK, Builders
  <2> QED
    BY <2>1, <2>2
<1>5. CASE CnSkip
  <2>1. PICK c : builder' = [builder EXCEPT !.left = @ \ {c}, !.quiet = FALSE]
    BY <1>5 DEF CnSkip
  <2>2. /\ builder' \in Builders /\ builder'.at = builder.at /\ builder'.over = builder.over
        /\ builder'.idx = builder.idx /\ builder'.left \subseteq builder.left
    BY <2>1 DEF TypeOK, Builders
  <2>3. UNCHANGED storeVars /\ UNCHANGED <<trees, settled, ingests, runs, crashes>>
    BY <1>5 DEF CnSkip
  <2>4. TypeOK'
    BY <2>2, <2>3 DEF TypeOK, storeVars
  <2>5. Shape'
    BY <2>2, <2>3 DEF Shape, storeVars
  <2> QED
    BY <2>4, <2>5
<1>6. CASE UNCHANGED vars
  BY <1>6 DEF vars, storeVars, TypeOK, Shape
<1> QED
  BY <1>1, <1>2, <1>3, <1>4, <1>5, <1>6

\* The readiness flag is set.
LEMMA FlagTypeInv ==
  ASSUME TypeInv, Flag
  PROVE  TypeInv'
<1> USE DEF TypeInv, Flag
<1>1. transducer' \in [there : BOOLEAN, over : SUBSET rows, measured : SUBSET rows]
  BY DEF TypeOK, Shape
<1>2. TypeOK'
  BY <1>1, IdleType DEF TypeOK
<1>3. Shape'
  BY IdleType DEF Shape
<1> QED
  BY <1>2, <1>3

\* Every step keeps the type invariant.
LEMMA NextTypeInv == TypeInv /\ [Next]_vars => TypeInv'
<1> SUFFICES ASSUME TypeInv, [Next]_vars PROVE TypeInv'
  OBVIOUS
<1>1. ASSUME NEW s \in Synsets, Ingest(s) PROVE TypeInv'
  BY <1>1, IngestTypeInv
<1>2. ASSUME NEW c \in Surfaces, NEW d \in Surfaces, IngestIsA(c, d) PROVE TypeInv'
  BY <1>2, IngestIsATypeInv
<1>5. ASSUME NEW s \in Synsets, NEW up \in Synsets, IngestEdge(s, up) PROVE TypeInv'
  BY <1>5, IngestEdgeTypeInv
<1>3. CASE Crash
  BY <1>3, GoneTypeInv, SeedLatticeAssumption DEF Crash, TypeInv, TypeOK
<1>4. ASSUME NEW build \in BOOLEAN, Start(build) PROVE TypeInv'
  BY <1>4, StartTypeInv
<1> QED
  BY <1>1, <1>2, <1>3, <1>4, <1>5, OtherTypeInv, PersistTypeInv, RecordTypeInv, FlagTypeInv,
     StartConceptNetTypeInv, CnPersistTypeInv, CnRecordTypeInv DEF Next, BuilderStep

\* Type correctness of the builder, for every corpus.
THEOREM LatticeTypeOK == Spec => []TypeOK
<1>1. TypeInv => TypeOK
  BY DEF TypeInv
<1> QED
  BY <1>1, InitTypeInv, NextTypeInv, PTL DEF Spec

----------------------------------------------------------------------------
\* What follows is about the four parts of IInv that say what the values are.
Meaning == Loading /\ Stored /\ Laid /\ Terms

\* A corpus that carried no external measurement starts with no basis.
LEMMA InitMeaning == Init /\ External = FALSE => Meaning
<1> SUFFICES ASSUME Init, External = FALSE PROVE Meaning
  OBVIOUS
<1>1. builder.at = "idle"
  BY IdleType DEF Init
<1>2. basis.source = "none" /\ ~transducer.there /\ settled = {} /\ cnIc = [c \in Surfaces |-> NoValue]
  BY DEF Init, NoBasis, NoTransducer
<1>3. Loading
  BY <1>1 DEF Loading
<1>4. Stored
  BY <1>2 DEF Stored, Intrinsic
<1>5. Laid
  BY <1>1, <1>2 DEF Laid, ReadyIsComplete
<1>6. Terms
  BY <1>1, <1>2 DEF Terms
<1> QED
  BY <1>3, <1>4, <1>5, <1>6 DEF Meaning

\* A row lands: no basis counts as many rows as there are now.
LEMMA IngestMeaning ==
  ASSUME IInv, NEW s \in Synsets, Ingest(s)
  PROVE  Meaning'
<1> USE DEF IInv, TypeInv
<1>1. /\ rows' = rows \cup {s} /\ s \notin rows /\ settled' = settled \ {"wordnet", "measured"}
      /\ UNCHANGED <<trees, basis, cnIc, cnBasis, entries, assoc, transducer, isa>>
      /\ \A x \in Synsets \ {s} : ic'[x] = ic[x]
  BY DEF Ingest, Land, TypeOK
<1>2. /\ builder'.at = builder.at /\ builder'.idx = builder.idx /\ builder'.value = builder.value
      /\ builder'.over = builder.over /\ builder'.left = builder.left
      /\ builder'.trees = builder.trees
      /\ builder'.quiet = (builder.quiet /\ Corpus # "wordnet")
  BY DEF Ingest, Land, TypeOK, Builders
<1>3. /\ Cardinality(rows) \in Nat
      /\ Cardinality(rows') = Cardinality(rows) + 1
  BY <1>1, OneMore
<1>4. basis' # Intrinsic(rows')
  <2>1. CASE basis.source = "intrinsic"
    BY <1>1, <1>3, <2>1 DEF Stored, Intrinsic, TypeOK, Bases
  <2>2. CASE basis.source # "intrinsic"
    BY <1>1, <2>2 DEF Intrinsic
  <2> QED
    BY <2>1, <2>2
<1>5. Loading'
  <2> SUFFICES ASSUME builder'.at \in {"scan", "persist"}
               PROVE  /\ \A x \in builder'.idx : builder'.value[x] # NoValue
                      /\ builder'.idx # rows' /\ ~builder'.quiet /\ builder'.trees \subseteq trees'
                      /\ "wordnet" \notin settled' /\ "measured" \notin settled'
    BY <1>4 DEF Loading
  <2>1. builder.at \in {"scan", "persist"} /\ Corpus = "wordnet"
    BY <1>2 DEF Corpus
  <2>2. builder.idx \subseteq rows
    BY <2>1 DEF Shape
  <2> QED
    BY <1>1, <1>2, <2>1, <2>2 DEF Loading
<1>6. Stored'
  BY <1>1, <1>3, <1>4 DEF Stored, TypeOK, Bases
<1>7. Laid'
  <2>1. builder.at \in {"entries", "assoc"} => builder.idx \subseteq rows
    BY DEF Shape
  <2>2. \A x \in rows : ic'[x] = ic[x]
    BY <1>1 DEF TypeOK
  <2>3. transducer.measured \subseteq rows
    BY DEF TypeOK
  <2>4. ReadyIsComplete'
    BY <1>1, <2>2, <2>3 DEF Laid, ReadyIsComplete, TypeOK, English
  <2> QED
    BY <1>1, <1>2, <2>1, <2>2, <2>4 DEF Laid, English
<1>8. Terms'
  BY <1>1, <1>2 DEF Terms, Measured, Corpus
<1> QED
  BY <1>5, <1>6, <1>7, <1>8 DEF Meaning

\* An edge lands: what is stored is still of the edges it was taken over.
LEMMA IngestEdgeMeaning ==
  ASSUME IInv, NEW s \in Synsets, NEW up \in Synsets, IngestEdge(s, up)
  PROVE  Meaning'
<1> USE DEF IInv, TypeInv
<1>1. /\ settled' = settled \ {"measured"}
      /\ UNCHANGED <<trees, rows, ic, basis, isa, cnIc, cnBasis, entries, assoc, transducer>>
  BY DEF IngestEdge, Land
<1>2. /\ builder'.at = builder.at /\ builder'.idx = builder.idx /\ builder'.value = builder.value
      /\ builder'.over = builder.over /\ builder'.left = builder.left
      /\ builder'.trees = builder.trees /\ builder'.quiet = builder.quiet /\ ~builder'.own
  BY DEF IngestEdge, Land, TypeOK, Builders
<1>3. Loading'
  BY <1>1, <1>2 DEF Loading
<1>4. Stored'
  BY <1>1 DEF Stored
<1>5. Laid'
  BY <1>1, <1>2 DEF Laid, ReadyIsComplete, English
<1>6. Terms'
  BY <1>1, <1>2 DEF Terms, Measured
<1> QED
  BY <1>3, <1>4, <1>5, <1>6 DEF Meaning

\* An is_a edge lands: the latest run over ConceptNet no longer counts.
LEMMA IngestIsAMeaning ==
  ASSUME IInv, NEW c \in Surfaces, NEW d \in Surfaces, IngestIsA(c, d)
  PROVE  Meaning'
<1> USE DEF IInv, TypeInv
<1>1. /\ settled' = settled \ {"conceptnet"} /\ Vertices(isa) \subseteq Vertices(isa')
      /\ UNCHANGED <<trees, rows, hyper, ic, basis, cnIc, cnBasis, entries, assoc, transducer>>
  BY DEF IngestIsA, Land, Vertices
<1>2. /\ builder'.at = builder.at /\ builder'.idx = builder.idx /\ builder'.value = builder.value
      /\ builder'.over = builder.over /\ builder'.left = builder.left
      /\ builder'.trees = builder.trees /\ builder'.own = builder.own
      /\ builder'.quiet = (builder.quiet /\ Corpus # "conceptnet")
  BY DEF IngestIsA, Land, TypeOK, Builders
<1>3. Loading'
  BY <1>1, <1>2 DEF Loading, Corpus
<1>4. Stored'
  BY <1>1 DEF Stored
<1>5. Laid'
  BY <1>1, <1>2 DEF Laid, ReadyIsComplete, English
<1>6. Terms'
  BY <1>1, <1>2 DEF Terms, Corpus
<1> QED
  BY <1>3, <1>4, <1>5, <1>6 DEF Meaning

\* The builder is gone, or only what it is about to do next has changed.
LEMMA IdleMeaning ==
  ASSUME IInv, UNCHANGED storeVars, UNCHANGED <<trees, settled>>, builder'.at = "idle"
  PROVE  Meaning'
BY DEF IInv, Meaning, Loading, Stored, Laid, Terms, Measured, ReadyIsComplete, storeVars, English

\* A load: what it trusts was taken over the rows there are, by what is stored.
LEMMA StartMeaning ==
  ASSUME IInv, NEW build \in BOOLEAN, Start(build)
  PROVE  Meaning'
<1> USE DEF IInv, TypeInv
<1>1. UNCHANGED storeVars /\ settled' = settled \ {"wordnet", "measured"}
  BY DEF Start
<1>2. PICK edges \in {hyper, {}}, trusted \in {Fresh(rows), FALSE} :
        /\ builder' = Begun(IF build THEN "scan" ELSE "persist", build, rows,
                            Loaded(rows, trusted, edges),
                            IF trusted THEN trees ELSE {edges}, ~trusted /\ edges = hyper)
        /\ trees' = IF trusted THEN trees ELSE trees \cup {edges}
  BY DEF Start
<1>3. /\ builder'.at \in {"scan", "persist"} /\ builder'.idx = rows
      /\ \A s \in rows : builder'.value[s] = Loaded(rows, trusted, edges)[s]
      /\ builder'.trees = (IF trusted THEN trees ELSE {edges})
      /\ builder'.own => ~trusted /\ edges = hyper
  BY <1>2 DEF Begun, Nodes, TypeOK
<1>4. trees \subseteq trees' /\ builder'.trees \subseteq trees'
  BY <1>2, <1>3
<1>5. /\ \A s \in rows : Loaded(rows, trusted, edges)[s] # NoValue
      /\ \A s \in rows : \E e \in builder'.trees :
           Loaded(rows, trusted, edges)[s] = Derived(rows, e)[s]
  <2>1. CASE trusted
    <3>1. basis = Intrinsic(rows)
      BY <2>1, <1>2 DEF Fresh, Stored
    <3> QED
      BY <2>1, <3>1, <1>3 DEF Stored, Loaded
  <2>2. CASE ~trusted
    BY <2>2, <1>3, RowsFinite, DerivedType DEF Loaded
  <2> QED
    BY <2>1, <2>2
<1>6. builder'.own => \A s \in rows : Loaded(rows, trusted, edges)[s] = Derived(rows, hyper)[s]
  BY <1>3 DEF Loaded
<1>7. Loading'
  BY <1>1, <1>3, <1>4, <1>5, <1>6 DEF Loading, storeVars
<1>8. Stored'
  BY <1>1, <1>4 DEF Stored, storeVars
<1>9. Laid'
  BY <1>1, <1>3 DEF Laid, ReadyIsComplete, storeVars, English
<1>10. Terms'
  BY <1>1, <1>3 DEF Terms, Measured, storeVars
<1> QED
  BY <1>7, <1>8, <1>9, <1>10 DEF Meaning

\* A run over ConceptNet begins with what its edges yield.
LEMMA StartConceptNetMeaning ==
  ASSUME IInv, StartConceptNet
  PROVE  Meaning'
<1> USE DEF IInv, TypeInv
<1> DEFINE V == Vertices(isa)
           B == Begun("cnPersist", FALSE, V, Derived(V, isa), {}, FALSE)
<1>1. V \in SUBSET Nodes
  BY VerticesType DEF Nodes
<1>2. /\ UNCHANGED storeVars /\ UNCHANGED trees /\ settled' = settled \ {"conceptnet"}
      /\ builder' = [B EXCEPT !.left = V]
  BY DEF StartConceptNet
<1>3. /\ B.at = "cnPersist" /\ B.idx = V
      /\ \A c \in V : B.value[c] = Derived(V, isa)[c]
  BY <1>1 DEF Begun
<1>4. \A c \in V : Derived(V, isa)[c] \in Values
  BY VerticesType, DerivedType
<1>5. B \in Builders
  BY <1>1, <1>4, BegunType DEF Places
<1> HIDE DEF B
<1>6. /\ builder'.at = "cnPersist" /\ builder'.idx = V /\ builder'.left = V
      /\ builder'.value = B.value
  BY <1>2, <1>3, <1>5 DEF Builders
<1>7. Loading' /\ Stored' /\ Laid'
  BY <1>2, <1>6 DEF Loading, Stored, Laid, ReadyIsComplete, storeVars, English
<1>8. Terms'
  BY <1>2, <1>3, <1>6 DEF Terms, Measured, storeVars
<1> QED
  BY <1>7, <1>8 DEF Meaning

\* A batch lands.
LEMMA PersistMeaning ==
  ASSUME IInv, Persist
  PROVE  Meaning'
<1> USE DEF IInv, TypeInv
<1>1. PICK b \in Batches(Disagreeing) :
        ic' = [s \in Synsets |-> IF s \in b THEN builder.value[s] ELSE ic[s]]
  BY DEF Persist
<1>2. b \subseteq builder.idx /\ builder.idx \subseteq rows /\ rows \subseteq Synsets
  BY <1>1 DEF Batches, Disagreeing, Persist, Shape, TypeOK
<1>3. /\ \A s \in b : ic'[s] = builder.value[s] /\ ic'[s] # NoValue
      /\ \A s \in Synsets \ b : ic'[s] = ic[s]
  BY <1>1, <1>2 DEF Persist, Loading
<1>4. /\ builder.at = "persist"
      /\ UNCHANGED <<rows, hyper, basis, isa, cnIc, cnBasis, entries, assoc, transducer, builder,
                     trees, settled>>
  BY DEF Persist
<1>5. Loading'
  BY <1>4 DEF Loading
<1>6. Stored'
  <2>1. ASSUME basis = Intrinsic(rows), NEW s \in rows
        PROVE  ic'[s] # NoValue /\ \E edges \in trees : ic'[s] = Derived(rows, edges)[s]
    <3>1. CASE s \in b
      BY <1>2, <1>3, <1>4, <2>1, <3>1 DEF Loading
    <3>2. CASE s \notin b
      BY <1>2, <1>3, <2>1, <3>2 DEF Stored
    <3> QED
      BY <3>1, <3>2
  <2>2. "measured" \notin settled
    BY <1>4 DEF Loading
  <2> QED
    BY <1>4, <2>1, <2>2 DEF Stored
<1>7. Laid'
  <2>1. ReadyIsComplete'
    BY <1>2, <1>3, <1>4 DEF Laid, ReadyIsComplete, English
  <2> QED
    BY <1>4, <2>1 DEF Laid
<1>8. Terms'
  BY <1>4 DEF Terms, Measured
<1> QED
  BY <1>5, <1>6, <1>7, <1>8 DEF Meaning

\* The record: what is stored agrees with what was loaded, and if it names all of the rows
\* it was loaded of all of them.
LEMMA RecordMeaning ==
  ASSUME IInv, Record
  PROVE  Meaning'
<1> USE DEF IInv, TypeInv
<1>1. /\ builder.at = "persist" /\ Disagreeing = {} /\ basis' = Intrinsic(builder.idx)
      /\ UNCHANGED <<rows, hyper, ic, isa, cnIc, cnBasis, entries, assoc, transducer>>
      /\ trees' = builder.trees /\ settled \subseteq settled'
      /\ "wordnet" \in settled' <=> "wordnet" \in settled \/ builder.quiet
      /\ "measured" \in settled' <=> "measured" \in settled \/ (builder.quiet /\ builder.own)
      /\ "conceptnet" \in settled' <=> "conceptnet" \in settled
  BY DEF Record, Over
<1>2. builder.idx \in SUBSET rows
  BY <1>1 DEF Shape
<1>3. \A s \in builder.idx : ic[s] = builder.value[s] /\ ic[s] # NoValue
  BY <1>1, <1>2 DEF Disagreeing, Loading
<1>4. /\ Cardinality(builder.idx) <= Cardinality(rows)
      /\ Cardinality(builder.idx) = Cardinality(rows) => builder.idx = rows
  BY <1>2, RowsFinite
<1>5. Stored'
  <2>1. basis'.source = "intrinsic" /\ basis'.n = Cardinality(builder.idx)
    BY <1>1 DEF Intrinsic
  <2>2. basis' = Intrinsic(rows) => builder.idx = rows
    BY <1>4, <2>1 DEF Intrinsic
  <2>3. basis' = Intrinsic(rows) =>
          \A s \in rows : /\ ic[s] # NoValue
                         /\ \E edges \in builder.trees : ic[s] = Derived(rows, edges)[s]
    BY <1>1, <1>3, <2>2 DEF Loading
  <2>4. "wordnet" \in settled' => basis' = Intrinsic(rows)
    BY <1>1 DEF Loading
  <2>5. "measured" \in settled' => \A s \in rows : ic[s] = Derived(rows, hyper)[s]
    BY <1>1, <1>3 DEF Loading
  <2> QED
    BY <1>1, <1>4, <2>1, <2>3, <2>4, <2>5 DEF Stored
<1>6. /\ builder'.at \in {"idle", "entries"}
      /\ builder'.at = "entries" =>
           /\ builder'.idx = builder.idx /\ builder'.over = builder.over
           /\ builder'.left = English(builder.over)
  BY IdleType DEF Record, TypeOK, Builders
<1>7. Loading'
  BY <1>6 DEF Loading
<1>8. Laid'
  BY <1>1, <1>3, <1>6 DEF Laid, ReadyIsComplete, English
<1>9. Terms'
  BY <1>1, <1>6 DEF Terms, Measured
<1> QED
  BY <1>5, <1>7, <1>8, <1>9 DEF Meaning

\* Entries and associations are written, and the flag once they are there.
LEMMA LayMeaning ==
  ASSUME IInv, Scan \/ AddEntry \/ Anchor \/ AddAssoc \/ Flag
  PROVE  Meaning'
<1> USE DEF IInv, TypeInv
<1>1. /\ UNCHANGED <<trees, rows, hyper, ic, basis, isa, cnIc, cnBasis, settled>>
      /\ entries \subseteq entries'
  BY DEF Scan, AddEntry, Anchor, AddAssoc, Flag, storeVars
<1>2. Stored'
  BY <1>1 DEF Stored
<1>3. builder'.at # "cnPersist"
  BY IdleType DEF Scan, AddEntry, Anchor, AddAssoc, Flag, EntriesDone, TypeOK, Builders
<1>4. Terms'
  BY <1>1, <1>3 DEF Terms, Measured
<1>5. Loading'
  <2>1. CASE Scan
    BY <1>1, <2>1 DEF Scan, Loading, TypeOK, Builders
  <2>2. CASE AddEntry \/ Anchor \/ AddAssoc \/ Flag
    BY <2>2, IdleType DEF AddEntry, Anchor, AddAssoc, Flag, EntriesDone, Loading, TypeOK, Builders
  <2> QED
    BY <2>1, <2>2
<1>6. Laid'
  <2>1. CASE Scan
    BY <1>1, <2>1 DEF Scan, Laid, ReadyIsComplete, TypeOK, Builders, storeVars, English
  <2>2. CASE AddEntry
    BY <1>1, <2>2 DEF AddEntry, Laid, ReadyIsComplete, TypeOK, Builders, English
  <2>3. CASE Anchor
    <3>1. PICK X : builder' = [builder EXCEPT !.at = "assoc", !.left = X]
      BY <2>3 DEF Anchor
    <3>2. builder'.at = "assoc" /\ builder'.idx = builder.idx /\ builder'.over = builder.over
      BY <3>1 DEF TypeOK, Builders
    <3> QED
      BY <1>1, <2>3, <3>2 DEF Anchor, EntriesDone, Laid, ReadyIsComplete, storeVars, English
  <2>4. CASE AddAssoc
    BY <1>1, <2>4 DEF AddAssoc, Laid, ReadyIsComplete, TypeOK, Builders, English
  <2>5. CASE Flag
    <3>1. builder.idx \subseteq Synsets
      BY <2>5 DEF Flag, Shape, TypeOK
    <3>2. ReadyIsComplete'
      BY <1>1, <2>5, <3>1 DEF Flag, Laid, ReadyIsComplete, English
    <3> QED
      BY <2>5, <3>2, IdleType DEF Flag, Laid
  <2> QED
    BY <2>1, <2>2, <2>3, <2>4, <2>5
<1> QED
  BY <1>2, <1>4, <1>5, <1>6 DEF Meaning

\* ConceptNet's values are written, and their record.
LEMMA ConceptNetMeaning ==
  ASSUME IInv, CnSkip \/ CnPersist \/ CnRecord
  PROVE  Meaning'
<1> USE DEF IInv, TypeInv
<1>1. /\ UNCHANGED <<trees, rows, hyper, ic, basis, isa, entries, transducer>>
      /\ builder.at = "cnPersist" /\ builder'.at \in {"cnPersist", "idle"}
      /\ "wordnet" \in settled' <=> "wordnet" \in settled
      /\ "measured" \in settled' <=> "measured" \in settled
  BY IdleType DEF CnSkip, CnPersist, CnRecord, storeVars, TypeOK, Builders
<1>2. Loading' /\ Stored' /\ Laid'
  BY <1>1 DEF Loading, Stored, Laid, ReadyIsComplete, English
<1>3. Terms'
  <2>1. CASE CnSkip
    <3>1. PICK c : builder' = [builder EXCEPT !.left = @ \ {c}, !.quiet = FALSE]
      BY <2>1 DEF CnSkip
    <3>2. ~builder'.quiet
      BY <3>1 DEF TypeOK, Builders
    <3> QED
      BY <1>1, <2>1, <3>2 DEF CnSkip, Terms, storeVars
  <2>2. CASE CnPersist
    <3>1. PICK b \in Batches(CnDisagreeing) :
            cnIc' = [c \in Surfaces |-> IF c \in b THEN builder.value[c] ELSE cnIc[c]]
      BY <2>2 DEF CnPersist
    <3>2. b \subseteq Carried \cap Vertices(isa)
      BY <1>1, <3>1 DEF Batches, CnDisagreeing, Shape
    <3>3. \A c \in Surfaces : c \notin Carried \cap Vertices(isa) => cnIc'[c] = NoValue
      BY <3>1, <3>2 DEF Terms
    <3> QED
      BY <1>1, <2>2, <3>3 DEF CnPersist, Terms
  <2>3. CASE CnRecord
    <3>1. /\ builder'.at = "idle" /\ UNCHANGED cnIc /\ "conceptnet" \notin settled
          /\ cnBasis' = Intrinsic(builder.idx) /\ CnDisagreeing = {}
          /\ settled' = IF builder.quiet THEN settled \cup {"conceptnet"} ELSE settled
      BY <2>3, IdleType DEF CnRecord, Over, Terms
    <3>2. ASSUME builder.quiet PROVE Measured'
      <4>1. /\ builder.left = Vertices(isa) /\ builder.idx = Vertices(isa)
            /\ \A c \in Vertices(isa) : builder.value[c] = Derived(Vertices(isa), isa)[c]
        BY <1>1, <3>2 DEF Terms
      <4>2. \A c \in Carried \cap Vertices(isa) : cnIc[c] = builder.value[c]
        BY <3>1, <4>1 DEF CnDisagreeing
      <4> QED
        BY <1>1, <3>1, <4>1, <4>2 DEF Measured, Terms
    <3> QED
      BY <1>1, <3>1, <3>2 DEF Terms
  <2> QED
    BY <2>1, <2>2, <2>3
<1> QED
  BY <1>2, <1>3 DEF Meaning

\* Every step keeps the invariant.
LEMMA NextIInv == IInv /\ [Next]_vars => IInv'
<1> SUFFICES ASSUME IInv, [Next]_vars PROVE IInv'
  OBVIOUS
<1>1. TypeInv'
  BY NextTypeInv DEF IInv
<1>2. Meaning'
  <2>1. ASSUME NEW s \in Synsets, Ingest(s) PROVE Meaning'
    BY <2>1, IngestMeaning
  <2>2. ASSUME NEW c \in Surfaces, NEW d \in Surfaces, IngestIsA(c, d) PROVE Meaning'
    BY <2>2, IngestIsAMeaning
  <2>6. ASSUME NEW s \in Synsets, NEW up \in Synsets, IngestEdge(s, up) PROVE Meaning'
    BY <2>6, IngestEdgeMeaning
  <2>3. CASE Crash
    BY <2>3, IdleMeaning, IdleType DEF Crash
  <2>4. ASSUME NEW build \in BOOLEAN, Start(build) PROVE Meaning'
    BY <2>4, StartMeaning
  <2>5. CASE UNCHANGED vars
    BY <2>5 DEF vars, storeVars, IInv, Meaning, Loading, Stored, Laid, Terms, Measured,
                ReadyIsComplete, English
  <2> QED
    BY <2>1, <2>2, <2>3, <2>4, <2>5, <2>6, PersistMeaning, RecordMeaning, LayMeaning,
       StartConceptNetMeaning, ConceptNetMeaning DEF Next, BuilderStep
<1> QED
  BY <1>1, <1>2 DEF IInv, Meaning

----------------------------------------------------------------------------
\* The invariant holds of every corpus that carried no external measurement.
LEMMA SpecIInv == Spec /\ External = FALSE => []IInv
<1>1. Init /\ External = FALSE => IInv
  BY InitTypeInv, InitMeaning DEF IInv, Meaning
<1> QED
  BY <1>1, NextIInv, PTL DEF Spec

\* When the load trusts the stored values, they were taken over exactly the rows there are:
\* for every corpus without an external measurement, whatever lands, is written in part or
\* lost in a crash, and whether or not a load could read the edges and the basis.
THEOREM BasisIsAlwaysTrue == Spec /\ External = FALSE => []BasisIsTrue
<1>1. IInv => BasisIsTrue
  BY DEF IInv, Stored, BasisIsTrue, Fresh
<1> QED
  BY <1>1, SpecIInv, PTL

\* With the readiness flag there, what its build scanned and measured is complete.
THEOREM ReadyIsAlwaysComplete == Spec /\ External = FALSE => []ReadyIsComplete
<1>1. IInv => ReadyIsComplete
  BY DEF IInv, Laid
<1> QED
  BY <1>1, SpecIInv, PTL

\* After a run during which no row landed the next load takes every stored value, and the
\* values are those of the corpus if the run has measured over all the edges and none has
\* landed since; and so for ConceptNet.
THEOREM RunsAlwaysSettle == Spec /\ External = FALSE => []RunSettles
<1>1. ASSUME IInv PROVE RunSettles
  <2>1. "wordnet" \in settled => Fresh(rows)
    BY <1>1 DEF IInv, Stored, Fresh
  <2>2. "measured" \in settled => \A s \in rows : ic[s] = Derived(rows, hyper)[s]
    BY <1>1 DEF IInv, Stored
  <2> QED
    BY <1>1, <2>1, <2>2 DEF IInv, Terms, Measured, RunSettles
<1> QED
  BY <1>1, SpecIInv, PTL

----------------------------------------------------------------------------
(* The readers *)

\* What a thread runs before it goes on with a lookup, and the places of the lookup itself.
Helpers == {"poll", "gate", "fresh", "drop", "alphabet", "readAlphabet", "setAlphabet"}
Mains == {"ready", "readReady", "setReady", "isReady", "get", "capture", "stamp", "verify",
          "edges", "keep", "index", "load", "list", "tree", "built", "answer"}

\* What is left after a place.
After(m) ==
  CASE m = "edges" -> Reader!LangSpec \o <<"keep">>
    [] m = "list" -> Reader!LangSpec \o <<"tree">> \o (Reader!Observe \o <<"built">>)
    [] m = "tree" -> Reader!Observe \o <<"built">>
    [] OTHER -> <<>>

\* s leads to the place m: helpers, m, and what is left after m.
Leads(s, m) ==
  \E i \in 1..Len(s) :
    /\ s[i] = m
    /\ \A j \in 1..(i - 1) : s[j] \in Helpers
    /\ Len(s) = i + Len(After(m))
    /\ \A j \in 1..Len(After(m)) : s[i + j] = After(m)[j]

PlaceOf(s) == IF s = <<>> THEN "rest" ELSE CHOOSE m \in Mains : Leads(s, m)
Place(t) == PlaceOf(todo[t])

\* Up to the first observation of a lookup, and from there to the decision.
Opening == {Reader!Observe \o <<"fresh", "ready">>, <<"gate", "fresh", "ready">>}
Opened == {<<"fresh", "ready">>, <<"drop", "ready">>, <<"ready">>}

\* t has still to observe the store for the first time.
Unobserved(t) == todo[t] \in Opening

\* What a thread has left to run leads to a place, and to the decision in one of a few ways.
PlacesInv ==
  \A t \in Threads :
    /\ todo[t] # <<>> => \E m \in Mains : Leads(todo[t], m)
    /\ Place(t) = "ready" => todo[t] \in Opening \cup Opened

\* The lock is held by the thread that loads, or decides whether the substrate is there.
LockInv ==
  \A t \in Threads : lock = t <=> Place(t) \in {"setReady", "list", "tree", "built"}

\* The rows that a thread at m, or t, has read into its synset.
ReadAt(m) == CASE m \in {"keep", "built"} -> Reader!Rows
               [] m \in {"edges", "tree"} -> {"doc"}
               [] OTHER -> {}
Read(t) == ReadAt(Place(t))

Bounds ==
  /\ \A p \in Reader!Rows : ver[p] <= written
  /\ mark <= written /\ gen >= 1 /\ cache.gen <= gen /\ indexGen <= gen

\* What a lookup began with is not newer than what is there, nor than what it observes first.
BegunInv(t) ==
  /\ local[t].polled <= written /\ local[t].gen <= gen
  /\ \A p \in Reader!Rows : local[t].begun[p] <= ver[p]
  /\ todo[t] = <<>> => local[t].begun = Reader!NoSynset
  /\ todo[t] = <<"gate", "fresh", "ready">> =>
       \A p \in Reader!Rows : local[t].begun[p] <= local[t].polled

\* v, read of p in the present generation: what the store held at the mark or newer, and not
\* older than what a lookup began with that has observed the store, or began before the mark.
Reaches(v, p) ==
  /\ ver[p] <= mark => v = ver[p]
  /\ \A t \in Threads : ~Unobserved(t) \/ local[t].begun[p] <= mark => local[t].begun[p] <= v

\* A synset was read after it was stamped.
Bounded(e) == \A p \in Reader!Rows : e.stamp[p] <= e.syn[p] /\ e.syn[p] <= ver[p]

StampInv(t) ==
  /\ local[t].stamp # Reader!NoStamp =>
       /\ Place(t) \in {"verify", "edges", "keep"}
       /\ \A p \in Reader!Rows :
            /\ local[t].begun[p] <= local[t].stamp[p] /\ local[t].stamp[p] <= ver[p]
            /\ local[t].gen = gen => Reaches(local[t].stamp[p], p)
  /\ Bounded(local[t].ent)

SynInv(t) ==
  \A p \in Read(t) :
    /\ local[t].begun[p] <= local[t].syn[p] /\ local[t].syn[p] <= ver[p]
    /\ local[t].stamp[p] <= local[t].syn[p]

\* An index under way is as good as a stamp, and as what any thread began with that is about
\* to answer from the index.
LoadInv(t) ==
  Place(t) \in {"tree", "built"} => \A p \in Read(t) :
    /\ local[t].gen = gen => Reaches(local[t].syn[p], p)
    /\ \A u \in Threads : Place(u) = "answer" => local[u].begun[p] <= local[t].syn[p]

CacheInv ==
  /\ Bounded(cache)
  /\ cache.gen = gen => \A p \in Reader!Rows : Reaches(cache.stamp[p], p)

IndexInv ==
  index # Reader!NoSynset => \A p \in Reader!Rows :
    /\ index[p] <= ver[p]
    /\ indexGen = gen => Reaches(index[p], p)

AnswerInv(t) ==
  Place(t) = "answer" /\ index # Reader!NoSynset =>
    \A p \in Reader!Rows : local[t].begun[p] <= index[p]

ThreadInv(t) == BegunInv(t) /\ StampInv(t) /\ SynInv(t) /\ LoadInv(t) /\ AnswerInv(t)

CacheHolds == Bounds /\ CacheInv /\ IndexInv /\ \A t \in Threads : ThreadInv(t)

ReaderInv == Reader!TypeOK /\ PlacesInv /\ LockInv /\ CacheHolds /\ Reader!FreshSynset

\* A step of t that neither begins a lookup nor moves the mark.
Steadily(t) ==
  /\ UNCHANGED <<written, ver, mark, gen>>
  /\ \A u \in Threads \ {t} : todo'[u] = todo[u] /\ local'[u] = local[u]
  /\ \/ /\ todo'[t] # <<>> /\ local'[t].begun = local[t].begun /\ (Unobserved(t)' => Unobserved(t))
        /\ Unobserved(t) => Unobserved(t)' \/ \A p \in Reader!Rows : local[t].begun[p] <= mark
        /\ ~Unobserved(t) \/ todo'[t] # <<"gate", "fresh", "ready">>
           \/ \A p \in Reader!Rows : local[t].begun[p] <= local'[t].polled
     \/ todo'[t] = <<>> /\ local'[t] = Reader!Clean

----------------------------------------------------------------------------
\* A call is a helper or a place.
LEMMA StepsAre == Reader!Steps = Helpers \cup Mains /\ \A m \in Mains : m \notin Helpers
BY DEF Reader!Steps, Helpers, Mains

\* The sequences of helpers that the code runs.
LEMMA HelpersType ==
  /\ Reader!Observe \in Seq(Helpers) /\ Reader!LangSpec \in Seq(Helpers) /\ <<>> \in Seq(Helpers)
  /\ <<"drop">> \in Seq(Helpers)
  /\ Reader!Observe \o <<"readAlphabet", "setAlphabet">> \in Seq(Helpers)
  /\ Reader!LangSpec \o Reader!Observe \in Seq(Helpers)
  /\ Reader!Observe \o Reader!LangSpec \in Seq(Helpers)
<1>1. /\ Reader!Observe \in Seq(Helpers) /\ Reader!LangSpec \in Seq(Helpers)
      /\ <<>> \in Seq(Helpers)
      /\ <<"drop">> \in Seq(Helpers) /\ <<"readAlphabet", "setAlphabet">> \in Seq(Helpers)
  BY DEF Reader!Observe, Reader!LangSpec, Helpers
<1> QED
  BY <1>1

\* What is left after each place.
LEMMA AfterIs ==
  /\ After("edges") = Reader!LangSpec \o <<"keep">>
  /\ After("list") = Reader!LangSpec \o <<"tree">> \o (Reader!Observe \o <<"built">>)
  /\ After("tree") = Reader!Observe \o <<"built">>
  /\ \A m \in Mains \ {"edges", "list", "tree"} : After(m) = <<>>
BY DEF After

\* What is left after a place are calls.
LEMMA AfterType == ASSUME NEW m \in Mains PROVE After(m) \in Seq(Reader!Steps)
<1>1. /\ Reader!Observe \in Seq(Reader!Steps) /\ Reader!LangSpec \in Seq(Reader!Steps)
      /\ <<>> \in Seq(Reader!Steps)
  BY HelpersType, StepsAre
<1>2. /\ <<"keep">> \in Seq(Reader!Steps) /\ <<"tree">> \in Seq(Reader!Steps)
      /\ <<"built">> \in Seq(Reader!Steps)
  BY DEF Reader!Steps
<1>3. /\ Reader!LangSpec \o <<"keep">> \in Seq(Reader!Steps)
      /\ Reader!Observe \o <<"built">> \in Seq(Reader!Steps)
      /\ Reader!LangSpec \o <<"tree">> \in Seq(Reader!Steps)
  BY <1>1, <1>2
<1>4. Reader!LangSpec \o <<"tree">> \o (Reader!Observe \o <<"built">>) \in Seq(Reader!Steps)
  BY <1>3
<1> QED
  BY <1>1, <1>3, <1>4, AfterIs

\* What a thread has left to run leads to one place only.
LEMMA OnePlace ==
  ASSUME NEW s \in Seq(Reader!Steps), NEW m \in Mains, Leads(s, m)
  PROVE  PlaceOf(s) = m /\ s # <<>>
<1>1. ASSUME NEW n \in Mains, Leads(s, n) PROVE n = m
  <2>1. PICK i \in 1..Len(s) : s[i] = m /\ \A j \in 1..(i - 1) : s[j] \in Helpers
    BY DEF Leads
  <2>2. PICK k \in 1..Len(s) : s[k] = n /\ \A j \in 1..(k - 1) : s[j] \in Helpers
    BY <1>1 DEF Leads
  <2>3. i = k
    BY <1>1, <2>1, <2>2, StepsAre
  <2> QED
    BY <2>1, <2>2, <2>3
<1>2. s # <<>>
  BY DEF Leads
<1> QED
  BY <1>1, <1>2 DEF PlaceOf

\* A helper runs, and calls helpers: the place stays.
LEMMA HelperLeads ==
  ASSUME NEW s \in Seq(Reader!Steps), NEW m \in Mains, Leads(s, m), Head(s) \in Helpers,
         NEW calls \in Seq(Helpers)
  PROVE  Leads(calls \o Tail(s), m)
<1>1. PICK i \in 1..Len(s) :
        /\ s[i] = m
        /\ \A j \in 1..(i - 1) : s[j] \in Helpers
        /\ Len(s) = i + Len(After(m))
        /\ \A j \in 1..Len(After(m)) : s[i + j] = After(m)[j]
  BY DEF Leads
<1>2. i > 1
  BY <1>1, StepsAre
<1> DEFINE n == calls \o Tail(s)
           k == Len(calls) + i - 1
<1>3. /\ calls \in Seq(Reader!Steps) /\ Tail(s) \in Seq(Reader!Steps) /\ Len(Tail(s)) = Len(s) - 1
      /\ \A j \in 1..Len(Tail(s)) : Tail(s)[j] = s[j + 1]
  BY <1>1, StepsAre
<1>4. /\ Len(n) = Len(calls) + Len(Tail(s))
      /\ \A j \in 1..Len(calls) + Len(Tail(s)) :
           n[j] = IF j <= Len(calls) THEN calls[j] ELSE Tail(s)[j - Len(calls)]
  BY <1>3, ConcatProperties
<1>5. Len(calls) \in Nat /\ Len(After(m)) \in Nat /\ Len(s) \in Nat
  BY AfterType
<1> HIDE DEF n
<1>6. ASSUME NEW j \in 1..Len(s), j > 1 PROVE n[Len(calls) + j - 1] = s[j]
  <2>1. n[Len(calls) + j - 1] = Tail(s)[j - 1]
    BY <1>3, <1>4, <1>5, <1>6
  <2> QED
    BY <1>3, <1>5, <1>6, <2>1
<1>7. k \in 1..Len(n) /\ n[k] = m
  BY <1>1, <1>2, <1>3, <1>4, <1>5, <1>6
<1>8. ASSUME NEW j \in 1..(k - 1) PROVE n[j] \in Helpers
  <2>1. CASE j <= Len(calls)
    BY <1>3, <1>4, <1>5, <2>1
  <2>2. CASE j > Len(calls)
    <3>1. j - Len(calls) + 1 \in 2..(i - 1)
      BY <1>5, <1>8, <2>2
    <3>2. n[j] = s[j - Len(calls) + 1]
      BY <1>1, <1>5, <1>6, <3>1
    <3> QED
      BY <1>1, <3>1, <3>2
  <2> QED
    BY <1>5, <2>1, <2>2
<1>9. Len(n) = k + Len(After(m))
  <2>1. Len(n) = Len(calls) + (Len(s) - 1)
    BY <1>3, <1>4
  <2>2. Len(s) = i + Len(After(m)) /\ i \in Nat
    BY <1>1, <1>5
  <2> QED
    BY <1>5, <2>1, <2>2
<1>10. ASSUME NEW j \in 1..Len(After(m)) PROVE n[k + j] = After(m)[j]
  <2>1. i + j \in 1..Len(s) /\ i + j > 1 /\ s[i + j] = After(m)[j]
    BY <1>1, <1>5
  <2>2. n[Len(calls) + (i + j) - 1] = s[i + j]
    BY <1>6, <2>1
  <2>3. Len(calls) + (i + j) - 1 = k + j
    BY <1>5
  <2> QED
    BY <2>1, <2>2, <2>3
<1> QED
  BY <1>7, <1>8, <1>9, <1>10 DEF Leads, n

\* A thread at its place has nothing left but what comes after it.
LEMMA MainLeads ==
  ASSUME NEW s \in Seq(Reader!Steps), NEW m \in Mains, Leads(s, m), Head(s) \in Mains
  PROVE  Head(s) = m /\ Tail(s) = After(m)
<1>1. PICK i \in 1..Len(s) :
        /\ s[i] = m
        /\ \A j \in 1..(i - 1) : s[j] \in Helpers
        /\ Len(s) = i + Len(After(m))
        /\ \A j \in 1..Len(After(m)) : s[i + j] = After(m)[j]
  BY DEF Leads
<1>2. i = 1
  BY <1>1, StepsAre
<1>3. /\ Tail(s) \in Seq(Reader!Steps) /\ Len(Tail(s)) = Len(s) - 1
      /\ \A j \in 1..Len(Tail(s)) : Tail(s)[j] = s[j + 1]
  BY <1>1
<1>4. After(m) \in Seq(Reader!Steps)
  BY AfterType
<1>5. Tail(s) = After(m)
  BY <1>1, <1>2, <1>3, <1>4
<1> QED
  BY <1>1, <1>2, <1>5

\* Helpers, a place and what is left after it lead to that place.
LEMMA GoLeads ==
  ASSUME NEW hs \in Seq(Helpers), NEW m \in Mains
  PROVE  hs \o <<m>> \o After(m) \in Seq(Reader!Steps) /\ Leads(hs \o <<m>> \o After(m), m)
<1> DEFINE n == hs \o <<m>> \o After(m)
           k == Len(hs) + 1
<1>1. /\ After(m) \in Seq(Reader!Steps) /\ hs \in Seq(Reader!Steps) /\ <<m>> \in Seq(Reader!Steps)
      /\ Len(hs) \in Nat /\ Len(After(m)) \in Nat
  BY AfterType, StepsAre
<1>2. /\ n \in Seq(Reader!Steps) /\ Len(n) = Len(hs) + 1 + Len(After(m))
      /\ \A j \in 1..Len(hs) : n[j] = hs[j]
      /\ n[k] = m
      /\ \A j \in 1..Len(After(m)) : n[k + j] = After(m)[j]
  BY <1>1
<1> HIDE DEF n
<1>3. k \in 1..Len(n) /\ \A j \in 1..(k - 1) : n[j] \in Helpers
  BY <1>1, <1>2
<1> QED
  BY <1>1, <1>2, <1>3 DEF Leads, n

----------------------------------------------------------------------------
\* What is compared are numbers.
LEMMA RowTypes ==
  ASSUME Reader!TypeOK, NEW p \in Reader!Rows
  PROVE  /\ ver[p] \in Nat /\ mark \in Nat /\ gen \in Nat /\ written \in Nat
         /\ cache.gen \in Nat /\ cache.stamp[p] \in Nat /\ cache.syn[p] \in Nat /\ index[p] \in Nat
         /\ \A t \in Threads :
              /\ local[t].polled \in Nat /\ local[t].gen \in Nat
              /\ local[t].begun[p] \in Nat /\ local[t].stamp[p] \in Nat /\ local[t].syn[p] \in Nat
              /\ local[t].ent.stamp[p] \in Nat /\ local[t].ent.syn[p] \in Nat
<1>1. Reader!Versions \subseteq Nat
  BY ReaderAssumption DEF Reader!OntologyCacheAssumption, Reader!Versions
<1>2. ASSUME NEW syn \in Reader!SynsetVersions PROVE syn[p] \in Nat
  BY <1>1 DEF Reader!SynsetVersions, Reader!Rows
<1>3. ASSUME NEW st \in Reader!Stamps PROVE st[p] \in Nat
  BY <1>1 DEF Reader!Stamps, Reader!Rows
<1>4. ASSUME NEW e \in Reader!Entries PROVE e.gen \in Nat /\ e.stamp[p] \in Nat /\ e.syn[p] \in Nat
  BY <1>2, <1>3 DEF Reader!Entries
<1>5. /\ ver[p] \in Nat /\ mark \in Nat /\ gen \in Nat /\ written \in Nat
      /\ cache.gen \in Nat /\ cache.stamp[p] \in Nat /\ cache.syn[p] \in Nat /\ index[p] \in Nat
  BY <1>1, <1>2, <1>4 DEF Reader!TypeOK, Reader!Rows, Reader!Parts
<1>6. ASSUME NEW t \in Threads
      PROVE  /\ local[t].polled \in Nat /\ local[t].gen \in Nat
             /\ local[t].begun[p] \in Nat /\ local[t].stamp[p] \in Nat /\ local[t].syn[p] \in Nat
             /\ local[t].ent.stamp[p] \in Nat /\ local[t].ent.syn[p] \in Nat
  <2>1. local[t] \in Reader!Locals
    BY DEF Reader!TypeOK
  <2>2. /\ local[t].polled \in Reader!Versions /\ local[t].gen \in Nat
        /\ local[t].begun \in Reader!SynsetVersions /\ local[t].stamp \in Reader!Stamps
        /\ local[t].syn \in Reader!SynsetVersions /\ local[t].ent \in Reader!Entries
    BY <2>1 DEF Reader!Locals
  <2> QED
    BY <1>1, <1>2, <1>3, <1>4, <2>2
<1> QED
  BY <1>5, <1>6

\* What was not read is of no version.
LEMMA NothingRead ==
  \A p \in Reader!Rows :
    /\ Reader!NoSynset[p] = 0 /\ Reader!NoStamp[p] = 0
    /\ Reader!NoEntry.stamp[p] = 0 /\ Reader!NoEntry.syn[p] = 0
BY DEF Reader!Rows, Reader!NoSynset, Reader!NoStamp, Reader!NoEntry

\* A thread that runs no lookup has read nothing.
LEMMA CleanIs ==
  /\ Reader!Clean.begun = Reader!NoSynset /\ Reader!Clean.stamp = Reader!NoStamp
  /\ Reader!Clean.ent = Reader!NoEntry /\ Reader!Clean.syn = Reader!NoSynset
  /\ Reader!Clean.gen = 0 /\ Reader!Clean.polled = 0 /\ Reader!Clean \in Reader!Locals
<1>1. 0 \in Reader!Versions /\ 0 \in Nat
  BY ReaderAssumption DEF Reader!OntologyCacheAssumption, Reader!Versions
<1>2. Reader!NoSynset \in Reader!SynsetVersions /\ Reader!NoStamp \in Reader!Stamps
  BY <1>1 DEF Reader!NoSynset, Reader!NoStamp, Reader!SynsetVersions, Reader!Stamps
<1>3. Reader!NoEntry \in Reader!Entries
  BY <1>1, <1>2 DEF Reader!NoEntry, Reader!Entries
<1>4. Reader!Clean \in Reader!Locals
  BY <1>1, <1>2, <1>3 DEF Reader!Clean, Reader!Locals
<1> QED
  BY <1>4 DEF Reader!Clean

----------------------------------------------------------------------------
\* Steps that do not observe: what is good enough in this generation stays so.
LEMMA ReachesStays ==
  ASSUME Reader!TypeOK, NEW t \in Threads, Steadily(t), NEW p \in Reader!Rows, NEW v \in Nat,
     Reaches(v, p)
  PROVE  Reaches(v, p)'
<1>1. UNCHANGED <<ver, mark>>
  BY DEF Steadily
<1>2. ASSUME NEW u \in Threads, ~Unobserved(u)' \/ local'[u].begun[p] <= mark
      PROVE  local'[u].begun[p] <= v
  <2>1. CASE u # t
    BY <1>2, <2>1 DEF Steadily, Reaches, Unobserved
  <2>2. CASE /\ u = t /\ local'[t].begun = local[t].begun
             /\ Unobserved(t) => Unobserved(t)' \/ \A q \in Reader!Rows : local[t].begun[q] <= mark
    BY <1>2, <2>2 DEF Reaches
  <2>3. CASE u = t /\ local'[t] = Reader!Clean
    BY <2>3, CleanIs, NothingRead
  <2> QED
    BY <2>1, <2>2, <2>3 DEF Steadily
<1> QED
  BY <1>1, <1>2 DEF Reaches

\* The other threads see nothing of such a step, unless t is now about to answer from the
\* index and one of them loads it.
LEMMA OthersStay ==
  ASSUME Reader!TypeOK, Bounds, NEW t \in Threads, Steadily(t), NEW u \in Threads \ {t},
         BegunInv(u), StampInv(u), SynInv(u), LoadInv(u),
         \/ Place(t)' # "answer" \/ Place(u) \notin {"tree", "built"}
         \/ Place(t) = "answer" /\ local'[t].begun = local[t].begun
  PROVE  BegunInv(u)' /\ StampInv(u)' /\ SynInv(u)' /\ LoadInv(u)' /\ Place(u)' = Place(u)
<1>1. /\ todo'[u] = todo[u] /\ local'[u] = local[u] /\ Place(u)' = Place(u) /\ Read(u)' = Read(u)
      /\ UNCHANGED <<written, ver, mark, gen>>
  BY DEF Steadily, Place, Read
<1>2. BegunInv(u)'
  BY <1>1 DEF BegunInv
<1>3. StampInv(u)'
  <2>1. ASSUME NEW p \in Reader!Rows, Reaches(local[u].stamp[p], p)
        PROVE  Reaches(local[u].stamp[p], p)'
    <3>1. local[u].stamp[p] \in Nat
      BY RowTypes
    <3>2. PICK v \in Nat : v = local[u].stamp[p]
      BY <3>1
    <3>3. Reaches(v, p)'
      BY <2>1, <3>2, ReachesStays
    <3> QED
      BY <1>1, <3>2, <3>3
  <2> QED
    BY <1>1, <2>1 DEF StampInv, Bounded
<1>4. SynInv(u)'
  BY <1>1 DEF SynInv
<1>5. LoadInv(u)'
  <2> SUFFICES ASSUME Place(u) \in {"tree", "built"}, NEW p \in Read(u)
               PROVE  /\ local[u].gen = gen => Reaches(local[u].syn[p], p)'
                      /\ \A w \in Threads : Place(w)' = "answer"
                           => local'[w].begun[p] <= local[u].syn[p]
    BY <1>1 DEF LoadInv
  <2>1. p \in Reader!Rows /\ local[u].syn[p] \in Nat
    BY RowTypes DEF Read, ReadAt, Reader!Rows
  <2>2. PICK v \in Nat : v = local[u].syn[p]
    BY <2>1
  <2>3. local[u].gen = gen => Reaches(v, p)'
    BY <2>1, <2>2, ReachesStays DEF LoadInv
  <2>4. ASSUME NEW w \in Threads, Place(w)' = "answer"
        PROVE  local'[w].begun[p] <= local[u].syn[p]
    <3>1. CASE w # t
      BY <2>4, <3>1 DEF Steadily, LoadInv, Place
    <3>2. CASE w = t
      BY <2>4, <3>2 DEF LoadInv
    <3> QED
      BY <3>1, <3>2
  <2> QED
    BY <1>1, <2>2, <2>3, <2>4
<1> QED
  BY <1>1, <1>2, <1>3, <1>4, <1>5

\* A steady step of t leaves true what is known of the cache.
LEMMA CacheStays ==
  ASSUME Reader!TypeOK, CacheInv, NEW t \in Threads, Steadily(t), UNCHANGED cache
  PROVE  CacheInv'
<1>1. UNCHANGED <<ver, gen>>
  BY DEF Steadily
<1>2. ASSUME NEW p \in Reader!Rows, cache.gen = gen PROVE Reaches(cache.stamp[p], p)'
  <2>1. PICK v \in Nat : v = cache.stamp[p]
    BY RowTypes
  <2>2. Reaches(v, p)'
    BY <1>2, <2>1, ReachesStays DEF CacheInv
  <2> QED
    BY <2>1, <2>2
<1> QED
  BY <1>1, <1>2 DEF CacheInv, Bounded

\* A steady step of t leaves true what is known of the index.
LEMMA IndexStays ==
  ASSUME Reader!TypeOK, IndexInv, NEW t \in Threads, Steadily(t), UNCHANGED <<index, indexGen>>
  PROVE  IndexInv'
<1>1. UNCHANGED <<ver, gen>>
  BY DEF Steadily
<1>2. ASSUME NEW p \in Reader!Rows, index # Reader!NoSynset,
   indexGen = gen PROVE Reaches(index[p], p)'
  <2>1. PICK v \in Nat : v = index[p]
    BY RowTypes
  <2>2. Reaches(v, p)'
    BY <1>2, <2>1, ReachesStays DEF IndexInv
  <2> QED
    BY <2>1, <2>2
<1> QED
  BY <1>1, <1>2 DEF IndexInv

\* A lookup that has ended knows nothing.
LEMMA EndHolds ==
  ASSUME Reader!TypeOK, Bounds, NEW t \in Threads, todo'[t] = <<>>, local'[t] = Reader!Clean,
         UNCHANGED <<written, ver, mark, gen>>
  PROVE  ThreadInv(t)'
<1>1. Place(t)' = "rest" /\ Read(t)' = {}
  BY DEF Place, PlaceOf, Read, ReadAt
<1>2. BegunInv(t)'
  <2>1. ASSUME NEW p \in Reader!Rows PROVE 0 <= ver'[p] /\ 0 <= written' /\ 0 <= gen'
    BY RowTypes
  <2>2. "doc" \in Reader!Rows
    BY DEF Reader!Rows
  <2>3. todo'[t] # <<"gate", "fresh", "ready">>
    OBVIOUS
  <2> QED
    BY <2>1, <2>2, <2>3, CleanIs, NothingRead DEF BegunInv
<1>3. StampInv(t)'
  <2>1. ASSUME NEW p \in Reader!Rows PROVE 0 <= ver'[p]
    BY RowTypes
  <2> QED
    BY <2>1, CleanIs, NothingRead DEF StampInv, Bounded
<1> QED
  BY <1>1, <1>2, <1>3 DEF ThreadInv, SynInv, LoadInv, AnswerInv

\* A helper changes nothing of what a lookup holds.
LEMMA HelperHolds ==
  ASSUME Reader!TypeOK, Bounds, NEW t \in Threads, ThreadInv(t), Steadily(t), todo'[t] # <<>>,
         Place(t)' = Place(t), UNCHANGED index,
         local'[t].polled <= written, local'[t].begun = local[t].begun,
         local'[t].gen = local[t].gen, local'[t].ent = local[t].ent,
         local'[t].stamp = local[t].stamp, local'[t].syn = local[t].syn
  PROVE  ThreadInv(t)'
<1>1. UNCHANGED <<written, ver, mark, gen>> /\ Read(t)' = Read(t)
  BY DEF Steadily, Read
<1>2. BegunInv(t)'
  <2>1. todo'[t] = <<"gate", "fresh", "ready">> =>
          \A p \in Reader!Rows : local'[t].begun[p] <= local'[t].polled
    BY DEF Steadily, Unobserved, Opening
  <2> QED
    BY <1>1, <2>1 DEF ThreadInv, BegunInv
<1>3. StampInv(t)'
  <2>1. ASSUME NEW p \in Reader!Rows, Reaches(local[t].stamp[p], p)
        PROVE  Reaches(local[t].stamp[p], p)'
    <3>1. PICK v \in Nat : v = local[t].stamp[p]
      BY RowTypes
    <3>2. Reaches(v, p)'
      BY <2>1, <3>1, ReachesStays
    <3> QED
      BY <3>1, <3>2
  <2> QED
    BY <1>1, <2>1 DEF ThreadInv, StampInv, Bounded
<1>4. SynInv(t)'
  BY <1>1 DEF ThreadInv, SynInv
<1>5. LoadInv(t)'
  <2> SUFFICES ASSUME Place(t) \in {"tree", "built"}, NEW p \in Read(t)
               PROVE  /\ local[t].gen = gen => Reaches(local[t].syn[p], p)'
                      /\ \A w \in Threads : Place(w)' = "answer"
                           => local'[w].begun[p] <= local[t].syn[p]
    BY <1>1 DEF LoadInv
  <2>1. p \in Reader!Rows
    BY DEF Read, ReadAt, Reader!Rows
  <2>2. PICK v \in Nat : v = local[t].syn[p]
    BY <2>1, RowTypes
  <2>3. local[t].gen = gen => Reaches(v, p)'
    BY <2>1, <2>2, ReachesStays DEF ThreadInv, LoadInv
  <2>4. ASSUME NEW w \in Threads, Place(w)' = "answer"
        PROVE  local'[w].begun[p] <= local[t].syn[p]
    BY <2>4 DEF Steadily, ThreadInv, LoadInv, Place
  <2> QED
    BY <2>2, <2>3, <2>4
<1>6. AnswerInv(t)'
  BY <1>1 DEF ThreadInv, AnswerInv
<1> QED
  BY <1>2, <1>3, <1>4, <1>5, <1>6 DEF ThreadInv

\* A thread comes to a place where it has read nothing yet.
LEMMA PlaceHolds ==
  ASSUME Reader!TypeOK, NEW t \in Threads, ThreadInv(t), Steadily(t), todo'[t] # <<>>,
         Place(t)' \notin {"edges", "keep", "tree", "built", "answer"},
         local'[t].polled <= written, local'[t].begun = local[t].begun,
         local'[t].gen <= gen, local'[t].stamp = Reader!NoStamp, Bounded(local'[t].ent)
  PROVE  ThreadInv(t)'
<1>1. UNCHANGED <<written, ver, mark, gen>> /\ Read(t)' = {}
  BY DEF Steadily, Read, ReadAt
<1>2. BegunInv(t)'
  <2>1. todo'[t] = <<"gate", "fresh", "ready">> =>
          \A p \in Reader!Rows : local'[t].begun[p] <= local'[t].polled
    BY DEF Steadily, Unobserved, Opening
  <2> QED
    BY <1>1, <2>1 DEF ThreadInv, BegunInv
<1>3. StampInv(t)'
  BY <1>1 DEF StampInv, Bounded
<1> QED
  BY <1>1, <1>2, <1>3 DEF ThreadInv, SynInv, LoadInv, AnswerInv

\* All of it, when what is cached stays.
LEMMA CacheHoldsOn ==
  ASSUME Reader!TypeOK, CacheHolds, NEW t \in Threads, Steadily(t), UNCHANGED <<cache, index,
     indexGen>>,
         \/ Place(t)' # "answer" \/ \A u \in Threads \ {t} : Place(u) \notin {"tree", "built"}
         \/ Place(t) = "answer" /\ local'[t].begun = local[t].begun,
         ThreadInv(t)'
  PROVE  CacheHolds'
<1>1. CacheInv' /\ IndexInv'
  BY CacheStays, IndexStays DEF CacheHolds
<1>2. Bounds'
  BY DEF CacheHolds, Bounds, Steadily
<1>3. ASSUME NEW u \in Threads \ {t} PROVE ThreadInv(u)'
  <2>1. BegunInv(u)' /\ StampInv(u)' /\ SynInv(u)' /\ LoadInv(u)' /\ Place(u)' = Place(u)
    BY OthersStay DEF CacheHolds, ThreadInv
  <2>2. AnswerInv(u)'
    BY <2>1 DEF AnswerInv, CacheHolds, ThreadInv, Steadily
  <2> QED
    BY <2>1, <2>2 DEF ThreadInv
<1> QED
  BY <1>1, <1>2, <1>3 DEF CacheHolds

----------------------------------------------------------------------------
\* What a thread runs until its lookup has observed the store and verified the transducer.
LEMMA OpeningIs == Reader!Observe \o <<"fresh", "ready">> = <<"poll", "gate", "fresh", "ready">>
<1> DEFINE rest == <<"fresh", "ready">>
           whole == <<"poll", "gate", "fresh", "ready">>
<1>1. /\ Reader!Observe \in Seq(Reader!Steps) /\ Len(Reader!Observe) = 2
      /\ Reader!Observe[1] = "poll" /\ Reader!Observe[2] = "gate"
      /\ rest \in Seq(Reader!Steps) /\ Len(rest) = 2 /\ rest[1] = "fresh" /\ rest[2] = "ready"
      /\ whole \in Seq(Reader!Steps) /\ Len(whole) = 4 /\ whole[1] = "poll" /\ whole[2] = "gate"
      /\ whole[3] = "fresh" /\ whole[4] = "ready"
  BY DEF Reader!Observe, Reader!Steps
<1> HIDE DEF rest, whole
<1>2. /\ Reader!Observe \o rest \in Seq(Reader!Steps)
      /\ Len(Reader!Observe \o rest) = Len(Reader!Observe) + Len(rest)
      /\ \A i \in 1..Len(Reader!Observe) + Len(rest) :
           (Reader!Observe \o rest)[i] =
             IF i <= Len(Reader!Observe) THEN Reader!Observe[i] ELSE rest[i - Len(Reader!Observe)]
  BY <1>1, ConcatProperties
<1>3. Len(Reader!Observe \o rest) = 4
  BY <1>1, <1>2
<1>4. /\ (Reader!Observe \o rest)[1] = "poll" /\ (Reader!Observe \o rest)[2] = "gate"
      /\ (Reader!Observe \o rest)[3] = "fresh" /\ (Reader!Observe \o rest)[4] = "ready"
  BY <1>1, <1>2
<1>5. \A i \in 1..4 : (Reader!Observe \o rest)[i] = whole[i]
  BY <1>1, <1>4
<1>6. Reader!Observe \o rest = whole
  BY <1>1, <1>2, <1>3, <1>5, SeqEqual
<1> QED
  BY <1>6 DEF rest, whole

\* All that is run before the decision leads to it.
LEMMA ReadyPlaces ==
  ASSUME NEW s \in Opening \cup Opened
  PROVE  s \in Seq(Reader!Steps) /\ s # <<>> /\ Leads(s, "ready") /\ PlaceOf(s) = "ready"
<1>1. s \in Seq(Reader!Steps) /\ s # <<>>
  <2>1. {"poll", "gate", "fresh", "drop", "ready"} \subseteq Reader!Steps
    BY DEF Reader!Steps
  <2>2. CASE s = <<"poll", "gate", "fresh", "ready">>
    BY <2>1, <2>2
  <2>3. CASE s = <<"gate", "fresh", "ready">>
    BY <2>1, <2>3
  <2>4. CASE s = <<"fresh", "ready">> \/ s = <<"drop", "ready">>
    <3>1. CASE s = <<"fresh", "ready">>
      BY <2>1, <3>1
    <3>2. CASE s = <<"drop", "ready">>
      <4>1. "drop" \in Reader!Steps
        BY DEF Reader!Steps
      <4> QED
        BY <2>1, <3>2, <4>1
    <3> QED
      BY <2>4, <3>1, <3>2
  <2>5. CASE s = <<"ready">>
    BY <2>1, <2>5
  <2> QED
    BY <2>2, <2>3, <2>4, <2>5, OpeningIs DEF Opening, Opened
<1>2. After("ready") = <<>> /\ "ready" \in Mains
  BY AfterIs DEF Mains
<1>3. Leads(s, "ready")
  <2>1. CASE s = Reader!Observe \o <<"fresh", "ready">>
    <3>1. /\ Len(s) = 4 /\ s[4] = "ready"
          /\ s[1] \in Helpers /\ s[2] \in Helpers /\ s[3] \in Helpers
      <4>1. s = <<"poll", "gate", "fresh", "ready">>
        BY <2>1, OpeningIs
      <4>2. /\ Len(<<"poll", "gate", "fresh", "ready">>) = 4
            /\ "poll" \in Helpers /\ "gate" \in Helpers /\ "fresh" \in Helpers
        BY DEF Helpers
      <4> QED
        BY <4>1, <4>2
    <3> QED
      BY <1>2, <3>1 DEF Leads
  <2>2. CASE s = <<"gate", "fresh", "ready">>
    <3>1. /\ Len(s) = 3 /\ s[3] = "ready" /\ s[1] \in Helpers /\ s[2] \in Helpers
      BY <2>2 DEF Helpers
    <3> QED
      BY <1>2, <3>1 DEF Leads
  <2>3. CASE s = <<"fresh", "ready">> \/ s = <<"drop", "ready">>
    <3>1. Len(s) = 2 /\ s[2] = "ready" /\ s[1] \in Helpers
      BY <2>3 DEF Helpers
    <3> QED
      BY <1>2, <3>1 DEF Leads
  <2>4. CASE s = <<"ready">>
    <3>1. Len(s) = 1 /\ s[1] = "ready"
      BY <2>4
    <3> QED
      BY <1>2, <3>1 DEF Leads
  <2> QED
    BY <2>1, <2>2, <2>3, <2>4 DEF Opening, Opened
<1> QED
  BY <1>1, <1>2, <1>3, OnePlace

\* What a thread in its opening does next.
LEMMA OpeningSteps ==
  ASSUME NEW s \in Opening \cup Opened
  PROVE  /\ Head(s) = "poll" => s = Reader!Observe \o <<"fresh", "ready">>
                                /\ Tail(s) = <<"gate", "fresh", "ready">>
         /\ Head(s) = "gate" => s = <<"gate", "fresh", "ready">> /\ Tail(s) = <<"fresh", "ready">>
         /\ Head(s) = "fresh" => s = <<"fresh", "ready">> /\ Tail(s) = <<"ready">>
         /\ Head(s) = "drop" => s = <<"drop", "ready">> /\ Tail(s) = <<"ready">>
         /\ Head(s) \in {"poll", "gate", "fresh", "drop", "ready"}
         /\ Head(s) \in {"fresh", "drop", "ready"} => s \in Opened /\ s \notin Opening
<1>1. CASE s = Reader!Observe \o <<"fresh", "ready">>
  <2>1. s = <<"poll", "gate", "fresh", "ready">>
    BY <1>1, OpeningIs
  <2>2. Head(s) = "poll" /\ Tail(s) = <<"gate", "fresh", "ready">>
    BY <2>1
  <2> QED
    BY <1>1, <2>2
<1>2. CASE s = <<"gate", "fresh", "ready">>
  BY <1>2
<1>3. CASE s = <<"fresh", "ready">>
  BY <1>3, OpeningIs DEF Opening, Opened
<1>4. CASE s = <<"drop", "ready">>
  BY <1>4, OpeningIs DEF Opening, Opened
<1>5. CASE s = <<"ready">>
  BY <1>5, OpeningIs DEF Opening, Opened
<1> QED
  BY <1>1, <1>2, <1>3, <1>4, <1>5 DEF Opening, Opened

\* Before and after the first observation of a lookup are different places.
LEMMA OpenedApart ==
  /\ \A s \in Opened : s \notin Opening
  /\ Reader!Observe \o <<"fresh", "ready">> # <<"gate", "fresh", "ready">>
  /\ <<"drop">> \o <<"ready">> = <<"drop", "ready">>
<1>1. /\ \A s \in Opened : s \notin Opening
      /\ Reader!Observe \o <<"fresh", "ready">> # <<"gate", "fresh", "ready">>
  BY OpeningIs DEF Opening, Opened
<1>2. <<"drop">> \o <<"ready">> = <<"drop", "ready">>
  <2> DEFINE drop == <<"drop">>  rest == <<"ready">>  whole == <<"drop", "ready">>
  <2>1. /\ drop \in Seq(Reader!Steps) /\ Len(drop) = 1 /\ drop[1] = "drop"
        /\ rest \in Seq(Reader!Steps) /\ Len(rest) = 1 /\ rest[1] = "ready"
        /\ whole \in Seq(Reader!Steps) /\ Len(whole) = 2 /\ whole[1] = "drop" /\ whole[2] = "ready"
    BY DEF Reader!Steps
  <2> HIDE DEF drop, rest, whole
  <2>2. /\ drop \o rest \in Seq(Reader!Steps)
        /\ Len(drop \o rest) = Len(drop) + Len(rest)
        /\ \A i \in 1..Len(drop) + Len(rest) :
             (drop \o rest)[i] = IF i <= Len(drop) THEN drop[i] ELSE rest[i - Len(drop)]
    BY <2>1, ConcatProperties
  <2>3. \A i \in 1..2 : (drop \o rest)[i] = whole[i]
    BY <2>1, <2>2
  <2>4. drop \o rest = whole
    BY <2>1, <2>2, <2>3, SeqEqual
  <2> QED
    BY <2>4 DEF drop, rest, whole
<1> QED
  BY <1>1, <1>2

----------------------------------------------------------------------------
\* What a step of a thread leaves it to do, and where it is then.
LEMMA DoIs ==
  ASSUME Reader!TypeOK, NEW t \in Threads, todo[t] # <<>>, NEW calls \in Seq(Reader!Steps),
         NEW l \in Reader!Locals,
         Reader!Do(t, calls, l)
  PROVE  /\ todo' \in [Threads -> Seq(Reader!Steps)] /\ local' \in [Threads -> Reader!Locals]
         /\ todo'[t] = calls \o Tail(todo[t]) /\ local'[t] = l
         /\ \A u \in Threads \ {t} : todo'[u] = todo[u] /\ local'[u] = local[u]
         /\ answer' = Reader!NoAnswer /\ UNCHANGED <<written, ver>>
<1>1. todo[t] \in Seq(Reader!Steps)
  BY DEF Reader!TypeOK
<1>2. Tail(todo[t]) \in Seq(Reader!Steps)
  BY <1>1
<1>3. calls \o Tail(todo[t]) \in Seq(Reader!Steps)
  BY <1>2
<1> QED
  BY <1>3 DEF Reader!Do, Reader!TypeOK, Reader!storeVars

\* A thread that runs a helper stays where it is.
LEMMA HelperStep ==
  ASSUME Reader!TypeOK, PlacesInv, NEW t \in Threads, NEW x \in Helpers, Reader!At(t, x),
         NEW calls \in Seq(Helpers), NEW l \in Reader!Locals, Reader!Do(t, calls, l),
         Place(t) = "ready" => calls \o Tail(todo[t]) \in Opening \cup Opened
  PROVE  /\ todo'[t] # <<>> /\ Place(t)' = Place(t) /\ Place(t) \in Mains
         /\ Unobserved(t) => Place(t) = "ready"
         /\ PlacesInv'
<1>1. /\ todo[t] \in Seq(Reader!Steps) /\ todo[t] # <<>> /\ Head(todo[t]) \in Helpers
      /\ calls \in Seq(Reader!Steps)
  BY StepsAre DEF Reader!TypeOK, Reader!At
<1>2. PICK m \in Mains : Leads(todo[t], m)
  BY <1>1 DEF PlacesInv
<1>3. Place(t) = m
  BY <1>1, <1>2, OnePlace DEF Place
<1>4. /\ todo' \in [Threads -> Seq(Reader!Steps)] /\ todo'[t] = calls \o Tail(todo[t])
      /\ \A u \in Threads \ {t} : todo'[u] = todo[u]
  BY <1>1, DoIs
<1>5. todo'[t] \in Seq(Reader!Steps) /\ Leads(todo'[t], m)
  BY <1>1, <1>2, <1>4, HelperLeads
<1>6. PlaceOf(todo'[t]) = m /\ todo'[t] # <<>>
  BY <1>5, OnePlace
<1>7. Unobserved(t) => Place(t) = "ready"
  BY ReadyPlaces DEF Unobserved, Place
<1>8. PlacesInv'
  <2> SUFFICES ASSUME NEW u \in Threads
               PROVE  /\ todo'[u] # <<>> => \E n \in Mains : Leads(todo'[u], n)
                      /\ PlaceOf(todo'[u]) = "ready" => todo'[u] \in Opening \cup Opened
    BY DEF PlacesInv, Place
  <2>1. CASE u = t
    BY <1>3, <1>4, <1>5, <1>6, <2>1
  <2>2. CASE u # t
    BY <1>4, <2>2 DEF PlacesInv, Place
  <2> QED
    BY <2>1, <2>2
<1> QED
  BY <1>3, <1>6, <1>7, <1>8 DEF Place

\* A thread about to run x is at x, and what is left is what comes after x.
LEMMA AtPlace ==
  ASSUME Reader!TypeOK, PlacesInv, NEW t \in Threads, NEW x \in Mains, Reader!At(t, x)
  PROVE  /\ Place(t) = x /\ todo[t] # <<>> /\ Tail(todo[t]) = After(x)
         /\ Unobserved(t) => FALSE
<1>1. todo[t] \in Seq(Reader!Steps) /\ todo[t] # <<>> /\ Head(todo[t]) = x
  BY DEF Reader!TypeOK, Reader!At
<1>2. PICK m \in Mains : Leads(todo[t], m)
  BY <1>1 DEF PlacesInv
<1>3. x = m /\ Tail(todo[t]) = After(x)
  BY <1>1, <1>2, MainLeads
<1>4. PlaceOf(todo[t]) = x
  BY <1>1, <1>2, <1>3, OnePlace
<1>5. Unobserved(t) => FALSE
  <2> SUFFICES ASSUME Unobserved(t) PROVE FALSE
    OBVIOUS
  <2>1. x = "ready" /\ todo[t] \in Opening
    BY <1>4, ReadyPlaces DEF Unobserved
  <2> QED
    BY <1>1, <2>1, OpeningSteps
<1> QED
  BY <1>1, <1>3, <1>4, <1>5 DEF Place

\* A thread at its place x goes on to m, through the helpers hs.
LEMMA MainStep ==
  ASSUME Reader!TypeOK, PlacesInv, NEW t \in Threads, NEW x \in Mains, Reader!At(t, x),
         NEW hs \in Seq(Helpers), NEW m \in Mains \ {"ready"},
         todo' = [todo EXCEPT ![t] = hs \o <<m>> \o After(m)]
  PROVE  /\ Place(t) = x /\ Place(t)' = m /\ todo'[t] # <<>>
         /\ ~Unobserved(t) /\ ~Unobserved(t)'
         /\ todo' \in [Threads -> Seq(Reader!Steps)] /\ PlacesInv'
         /\ \A u \in Threads \ {t} : todo'[u] = todo[u]
<1>1. Place(t) = x /\ ~Unobserved(t)
  BY AtPlace
<1>2. hs \o <<m>> \o After(m) \in Seq(Reader!Steps) /\ Leads(hs \o <<m>> \o After(m), m)
  BY GoLeads
<1>3. /\ todo' \in [Threads -> Seq(Reader!Steps)] /\ todo'[t] = hs \o <<m>> \o After(m)
      /\ \A u \in Threads \ {t} : todo'[u] = todo[u]
  BY <1>2 DEF Reader!TypeOK
<1>4. PlaceOf(todo'[t]) = m /\ todo'[t] # <<>>
  BY <1>2, <1>3, OnePlace
<1>5. ~Unobserved(t)'
  BY <1>4, ReadyPlaces DEF Unobserved
<1>6. PlacesInv'
  <2> SUFFICES ASSUME NEW u \in Threads
               PROVE  /\ todo'[u] # <<>> => \E n \in Mains : Leads(todo'[u], n)
                      /\ PlaceOf(todo'[u]) = "ready" => todo'[u] \in Opening \cup Opened
    BY DEF PlacesInv, Place
  <2>1. CASE u = t
    BY <1>2, <1>3, <1>4, <2>1
  <2>2. CASE u # t
    BY <1>3, <2>2 DEF PlacesInv, Place
  <2> QED
    BY <2>1, <2>2
<1> QED
  BY <1>1, <1>3, <1>4, <1>5, <1>6 DEF Place

\* The lookup of t ends.
LEMMA EndStep ==
  ASSUME Reader!TypeOK, PlacesInv, NEW t \in Threads,
         todo' = [todo EXCEPT ![t] = <<>>], local' = [local EXCEPT ![t] = Reader!Clean]
  PROVE  /\ todo' \in [Threads -> Seq(Reader!Steps)] /\ local' \in [Threads -> Reader!Locals]
         /\ PlacesInv'
         /\ todo'[t] = <<>> /\ local'[t] = Reader!Clean /\ Place(t)' = "rest"
         /\ \A u \in Threads \ {t} : todo'[u] = todo[u] /\ local'[u] = local[u]
<1>1. <<>> \in Seq(Reader!Steps)
  OBVIOUS
<1>2. /\ todo' \in [Threads -> Seq(Reader!Steps)] /\ local' \in [Threads -> Reader!Locals]
      /\ todo'[t] = <<>> /\ local'[t] = Reader!Clean
      /\ \A u \in Threads \ {t} : todo'[u] = todo[u] /\ local'[u] = local[u]
  BY <1>1, CleanIs DEF Reader!TypeOK
<1>3. Place(t)' = "rest"
  BY <1>2 DEF Place, PlaceOf
<1>4. PlacesInv'
  BY <1>2, <1>3 DEF PlacesInv, Place
<1> QED
  BY <1>2, <1>3, <1>4

----------------------------------------------------------------------------
\* Helpers

\* The thread that holds the lock runs.
LEMMA LockedRuns ==
  ASSUME LockInv, lock \in Threads \cup {NoThread}
  PROVE  lock # NoThread => todo[lock] # <<>>
BY DEF LockInv, Place, PlaceOf

\* A step that does not answer answers nothing old.
LEMMA NothingAnswered == ASSUME answer' = Reader!NoAnswer PROVE Reader!FreshSynset'
BY DEF Reader!NoAnswer, Reader!FreshSynset

\* A helper that does not observe.
LEMMA HelperKeeps ==
  ASSUME ReaderInv, NEW t \in Threads, NEW x \in Helpers, Reader!At(t, x),
         NEW calls \in Seq(Helpers), NEW l \in Reader!Locals, Reader!Do(t, calls, l),
         Place(t) = "ready" =>
           /\ calls \o Tail(todo[t]) \in Opening \cup Opened
           /\ calls \o Tail(todo[t]) \in Opening => todo[t] \in Opening
           /\ todo[t] \in Opening => \/ calls \o Tail(todo[t]) \in Opening
                                     \/ \A p \in Reader!Rows : local[t].begun[p] <= mark
           /\ calls \o Tail(todo[t]) = <<"gate", "fresh", "ready">> =>
                \A p \in Reader!Rows : local[t].begun[p] <= l.polled,
         l.polled <= written, l.begun = local[t].begun, l.gen = local[t].gen,
         l.ent = local[t].ent, l.stamp = local[t].stamp, l.syn = local[t].syn,
         UNCHANGED <<mark, gen, cache, index, indexGen, lock>>,
         ready' \in {"unknown", "yes", "no"}, spec' \in Reader!Versions \cup {Reader!NotRead},
         specGen' \in Nat, specStamp' \in Reader!Versions \cup {Reader!NotRead}
  PROVE  ReaderInv'
<1>1. Reader!TypeOK /\ PlacesInv /\ LockInv /\ CacheHolds /\ Bounds /\ ThreadInv(t)
  BY DEF ReaderInv, CacheHolds
<1>2. /\ todo'[t] # <<>> /\ Place(t)' = Place(t) /\ Place(t) \in Mains
      /\ Unobserved(t) => Place(t) = "ready"
      /\ PlacesInv'
  BY <1>1, HelperStep
<1>3. calls \in Seq(Reader!Steps) /\ todo[t] # <<>>
  BY StepsAre DEF Reader!At
<1>4. /\ todo' \in [Threads -> Seq(Reader!Steps)] /\ local' \in [Threads -> Reader!Locals]
      /\ todo'[t] = calls \o Tail(todo[t]) /\ local'[t] = l
      /\ \A u \in Threads \ {t} : todo'[u] = todo[u] /\ local'[u] = local[u]
      /\ answer' = Reader!NoAnswer /\ UNCHANGED <<written, ver>>
  BY <1>1, <1>3, DoIs
<1>5. /\ Unobserved(t)' => Unobserved(t)
      /\ Unobserved(t) => Unobserved(t)' \/ \A p \in Reader!Rows : local[t].begun[p] <= mark
  <2>1. CASE Place(t) = "ready"
    BY <1>4, <2>1 DEF Unobserved
  <2>2. CASE Place(t) # "ready"
    <3>1. todo'[t] \notin Opening
      BY <1>2, <2>2, ReadyPlaces DEF Place
    <3> QED
      BY <1>2, <2>2, <3>1 DEF Unobserved
  <2> QED
    BY <2>1, <2>2
<1>6. Steadily(t)
  BY <1>2, <1>4, <1>5 DEF Steadily
<1>7. ThreadInv(t)'
  BY <1>1, <1>2, <1>4, <1>6, HelperHolds
<1>8. CacheHolds'
  BY <1>1, <1>2, <1>4, <1>6, <1>7, CacheHoldsOn
<1>9. LockInv'
  BY <1>1, <1>2, <1>4 DEF LockInv, Place
<1>10. Reader!TypeOK'
  <2>1. Reader!NoAnswer \in [given : BOOLEAN, syn : Reader!SynsetVersions,
     begun : Reader!SynsetVersions]
    BY ReaderAssumption
    DEF Reader!NoAnswer, Reader!NoSynset, Reader!SynsetVersions, Reader!Versions,
        Reader!OntologyCacheAssumption
  <2>2. lock' # NoThread => todo'[lock'] # <<>>
    BY <1>2, <1>4, <1>1 DEF Reader!TypeOK
  <2> QED
    BY <1>1, <1>4, <2>1, <2>2 DEF Reader!TypeOK
<1>11. Reader!FreshSynset'
  BY <1>4, NothingAnswered
<1> QED
  BY <1>2, <1>8, <1>9, <1>10, <1>11 DEF ReaderInv

\* In its opening a thread runs what is listed there.
LEMMA OpeningRuns ==
  ASSUME ReaderInv, NEW t \in Threads, Place(t) = "ready"
  PROVE  todo[t] \in Opening \cup Opened /\ <<>> \o Tail(todo[t]) = Tail(todo[t])
<1>1. todo[t] \in Opening \cup Opened
  BY DEF ReaderInv, PlacesInv
<1>2. Tail(todo[t]) \in Seq(Reader!Steps)
  BY <1>1, ReadyPlaces
<1> QED
  BY <1>1, <1>2, ConcatEmptySeq

\* The mark is read.
LEMMA PollKeeps == ASSUME ReaderInv, NEW t \in Threads, Reader!Poll(t) PROVE ReaderInv'
<1>1. Reader!TypeOK /\ Bounds /\ ThreadInv(t)
  BY DEF ReaderInv, CacheHolds
<1> DEFINE l == [local[t] EXCEPT !.polled = written]
<1>2. l \in Reader!Locals
  BY <1>1 DEF Reader!TypeOK, Reader!Locals
<1>3. /\ Reader!At(t, "poll") /\ "poll" \in Helpers /\ Reader!Do(t, <<>>, l)
      /\ UNCHANGED <<mark, gen, ready, spec, specGen, specStamp, cache, index, indexGen, lock>>
  BY DEF Reader!Poll, Helpers, Reader!gateVars, Reader!specVars, Reader!indexVars
<1>4. /\ l.polled = written /\ l.begun = local[t].begun /\ l.gen = local[t].gen
      /\ l.ent = local[t].ent /\ l.stamp = local[t].stamp /\ l.syn = local[t].syn
  BY <1>1 DEF Reader!TypeOK, Reader!Locals
<1> HIDE DEF l
<1>5. /\ written \in Nat
      /\ \A p \in Reader!Rows : local[t].begun[p] <= written
  <2>1. ASSUME NEW p \in Reader!Rows
        PROVE  written \in Nat /\ local[t].begun[p] <= ver[p] /\ ver[p] <= written
               /\ local[t].begun[p] \in Nat /\ ver[p] \in Nat
    BY <1>1, RowTypes DEF ThreadInv, BegunInv, Bounds
  <2>2. "doc" \in Reader!Rows
    BY DEF Reader!Rows
  <2> QED
    BY <2>1, <2>2
<1>6. ASSUME Place(t) = "ready"
      PROVE  /\ <<>> \o Tail(todo[t]) = <<"gate", "fresh", "ready">>
             /\ todo[t] \in Opening
  BY <1>3, <1>6, OpeningRuns, OpeningSteps DEF Reader!At, Opening
<1>7. <<"gate", "fresh", "ready">> \in Opening
  BY DEF Opening
<1>8. /\ ready' \in {"unknown", "yes", "no"} /\ spec' \in Reader!Versions \cup {Reader!NotRead}
      /\ specGen' \in Nat /\ specStamp' \in Reader!Versions \cup {Reader!NotRead}
      /\ l.polled <= written
  BY <1>1, <1>3, <1>4, <1>5 DEF Reader!TypeOK
<1> QED
  BY <1>2, <1>3, <1>4, <1>5, <1>6, <1>7, <1>8, HelpersType, HelperKeeps

\* The transducer is stamped, unless it was in this generation.
LEMMA FreshKeeps == ASSUME ReaderInv, NEW t \in Threads, Reader!Fresh(t) PROVE ReaderInv'
<1>1. Reader!TypeOK /\ Bounds /\ ThreadInv(t) /\ local[t] \in Reader!Locals
  BY DEF ReaderInv, CacheHolds, Reader!TypeOK
<1>2. /\ Reader!At(t, "fresh") /\ "fresh" \in Helpers
      /\ UNCHANGED <<mark, gen, ready, spec, specGen, specStamp, cache, index, indexGen, lock>>
  BY DEF Reader!Fresh, Helpers, Reader!gateVars, Reader!specVars, Reader!indexVars
<1>3. local[t].polled <= written
  BY <1>1 DEF ThreadInv, BegunInv
<1>4. ASSUME Place(t) = "ready" PROVE todo[t] \notin Opening /\ Tail(todo[t]) = <<"ready">>
  BY <1>2, <1>4, OpeningRuns, OpeningSteps DEF Reader!At
<1>5. <<"ready">> \in Opened /\ <<"drop", "ready">> \in Opened
  BY DEF Opened
<1>6. CASE Reader!Do(t, <<>>, local[t])
  <2>1. Place(t) = "ready" => <<>> \o Tail(todo[t]) = <<"ready">>
    BY <1>4, OpeningRuns
  <2>2. <<"ready">> \notin Opening
    BY <1>5, OpenedApart
  <2> QED
    BY <1>1, <1>2, <1>3, <1>4, <1>5, <1>6, <2>1, <2>2, HelpersType, HelperKeeps
    DEF Reader!TypeOK, Opening
<1>7. CASE Reader!Do(t, <<"drop">>, [local[t] EXCEPT !.got = ver["spec"]])
  <2> DEFINE l == [local[t] EXCEPT !.got = ver["spec"]]
  <2>1. ver["spec"] \in Reader!Versions
    BY <1>1 DEF Reader!TypeOK, Reader!Parts
  <2>2. l \in Reader!Locals
    BY <1>1, <2>1 DEF Reader!Locals
  <2>3. /\ l.polled = local[t].polled /\ l.begun = local[t].begun /\ l.gen = local[t].gen
        /\ l.ent = local[t].ent /\ l.stamp = local[t].stamp /\ l.syn = local[t].syn
    BY <1>1 DEF Reader!Locals
  <2>4. Reader!Do(t, <<"drop">>, l)
    BY <1>7
  <2> HIDE DEF l
  <2>5. Place(t) = "ready" => <<"drop">> \o Tail(todo[t]) = <<"drop", "ready">>
    BY <1>4, OpenedApart
  <2>6. <<"drop", "ready">> \notin Opening
    BY <1>5, OpenedApart
  <2> QED
    BY <1>1, <1>2, <1>3, <1>4, <1>5, <2>2, <2>3, <2>4, <2>5, <2>6, HelpersType, HelperKeeps
    DEF Reader!TypeOK, Opening
<1> QED
  BY <1>6, <1>7 DEF Reader!Fresh

\* The spec is dropped, or confirmed.
LEMMA DropKeeps == ASSUME ReaderInv, NEW t \in Threads, Reader!Drop(t) PROVE ReaderInv'
<1>1. Reader!TypeOK /\ Bounds /\ ThreadInv(t) /\ local[t] \in Reader!Locals
  BY DEF ReaderInv, CacheHolds, Reader!TypeOK
<1> DEFINE l == [local[t] EXCEPT !.got = 0]
<1>2. l \in Reader!Locals
  BY <1>1, ReaderAssumption DEF Reader!Locals, Reader!Versions, Reader!OntologyCacheAssumption
<1>3. /\ l.polled = local[t].polled /\ l.begun = local[t].begun /\ l.gen = local[t].gen
      /\ l.ent = local[t].ent /\ l.stamp = local[t].stamp /\ l.syn = local[t].syn
  BY <1>1 DEF Reader!Locals
<1>4. /\ Reader!At(t, "drop") /\ "drop" \in Helpers /\ Reader!Do(t, <<>>, l)
      /\ UNCHANGED <<mark, gen, cache, index, indexGen, lock>>
  BY DEF Reader!Drop, Helpers, Reader!gateVars, Reader!indexVars
<1>5. /\ ready' \in {"unknown", "yes", "no"} /\ spec' \in Reader!Versions \cup {Reader!NotRead}
      /\ specGen' \in Nat /\ specStamp' \in Reader!Versions \cup {Reader!NotRead}
  BY <1>1 DEF Reader!Drop, Reader!TypeOK, Reader!Locals
<1> HIDE DEF l
<1>6. ASSUME Place(t) = "ready"
      PROVE  todo[t] \notin Opening /\ <<>> \o Tail(todo[t]) = <<"ready">>
  BY <1>4, <1>6, OpeningRuns, OpeningSteps DEF Reader!At
<1>7. <<"ready">> \in Opened /\ <<"ready">> \notin Opening
  BY OpenedApart DEF Opened
<1> QED
  BY <1>1, <1>2, <1>3, <1>4, <1>5, <1>6, <1>7, HelpersType, HelperKeeps
  DEF ThreadInv, BegunInv, Opening

\* The rest of _lang_spec does not run in an opening.
LEMMA AlphabetKeeps ==
  ASSUME ReaderInv, NEW t \in Threads,
     Reader!Alphabet(t) \/ Reader!ReadAlphabet(t) \/ Reader!SetAlphabet(t)
  PROVE  ReaderInv'
<1>1. Reader!TypeOK /\ Bounds /\ ThreadInv(t) /\ local[t] \in Reader!Locals
  BY DEF ReaderInv, CacheHolds, Reader!TypeOK
<1>2. PICK x \in {"alphabet", "readAlphabet", "setAlphabet"} : Reader!At(t, x)
  BY DEF Reader!Alphabet, Reader!ReadAlphabet, Reader!SetAlphabet
<1>3. x \in Helpers /\ Place(t) # "ready"
  BY <1>2, OpeningRuns, OpeningSteps DEF Helpers, Reader!At
<1>4. /\ ver["spec"] \in Reader!Versions /\ 0 \in Reader!Versions
      /\ spec # Reader!NotRead => spec \in Reader!Versions
  BY <1>1, ReaderAssumption
  DEF Reader!TypeOK, Reader!Parts, Reader!Versions, Reader!OntologyCacheAssumption
<1>5. /\ \E calls \in {<<>>, Reader!Observe \o <<"readAlphabet", "setAlphabet">>}, l \in Reader!Locals :
           /\ Reader!Do(t, calls, l)
           /\ l.polled = local[t].polled /\ l.begun = local[t].begun /\ l.gen = local[t].gen
           /\ l.ent = local[t].ent /\ l.stamp = local[t].stamp /\ l.syn = local[t].syn
      /\ UNCHANGED <<mark, gen, cache, index, indexGen, lock>>
      /\ ready' \in {"unknown", "yes", "no"} /\ spec' \in Reader!Versions \cup {Reader!NotRead}
      /\ specGen' \in Nat /\ specStamp' \in Reader!Versions \cup {Reader!NotRead}
  <2>1. CASE Reader!Alphabet(t)
    <3>1. CASE Reader!Do(t, Reader!Observe \o <<"readAlphabet", "setAlphabet">>, local[t])
      BY <1>1, <2>1, <3>1
      DEF Reader!Alphabet, Reader!TypeOK, Reader!gateVars, Reader!specVars, Reader!indexVars
    <3>2. CASE spec # Reader!NotRead /\ Reader!Do(t, <<>>, [local[t] EXCEPT !.alphabet = spec])
      <4>1. [local[t] EXCEPT !.alphabet = spec] \in Reader!Locals
        BY <1>1, <1>4, <3>2 DEF Reader!Locals
      <4> QED
        BY <1>1, <2>1, <3>2, <4>1
        DEF Reader!Alphabet, Reader!TypeOK, Reader!gateVars, Reader!specVars, Reader!indexVars,
            Reader!Locals
    <3> QED
      BY <2>1, <3>1, <3>2 DEF Reader!Alphabet
  <2>2. CASE Reader!ReadAlphabet(t)
    <3>1. [local[t] EXCEPT !.got = ver["spec"]] \in Reader!Locals
      BY <1>1, <1>4 DEF Reader!Locals
    <3> QED
      BY <1>1, <2>2, <3>1
      DEF Reader!ReadAlphabet, Reader!TypeOK, Reader!gateVars, Reader!specVars, Reader!indexVars,
          Reader!Locals
  <2>3. CASE Reader!SetAlphabet(t)
    <3>1. [local[t] EXCEPT !.alphabet = local[t].got, !.got = 0] \in Reader!Locals
      BY <1>1, <1>4 DEF Reader!Locals
    <3> QED
      BY <1>1, <2>3, <3>1
      DEF Reader!SetAlphabet, Reader!TypeOK, Reader!gateVars, Reader!indexVars, Reader!Locals
  <2> QED
    BY <2>1, <2>2, <2>3
<1> QED
  BY <1>1, <1>2, <1>3, <1>5, HelpersType, HelperKeeps DEF ThreadInv, BegunInv

----------------------------------------------------------------------------
\* Places

Locked == {"setReady", "list", "tree", "built"}

\* The places where the lock is held.
LEMMA StringsType ==
  /\ \A m \in Locked : m \in Mains /\ m # "ready" /\ m # "answer"
  /\ NoThread \notin Threads
BY ReaderAssumption DEF Locked, Mains, Reader!OntologyCacheAssumption

\* A thread goes on from its place x to m, through the helpers hs, and perhaps takes the lock
\* or gives it back.
Goes(t, x, calls, l, hs, m) ==
  /\ Reader!At(t, x) /\ Reader!Do(t, calls, l) /\ calls \o After(x) = hs \o <<m>> \o After(m)
  /\ l.begun = local[t].begun /\ UNCHANGED <<mark, gen>>
  /\ \/ lock' = lock /\ (x \in Locked <=> m \in Locked)
     \/ lock = NoThread /\ lock' = t /\ m \in Locked
     \/ lock' = NoThread /\ x \in Locked /\ m \notin Locked

\* A thread goes on to m: the others stay, and the lock is where it has to be.
LEMMA MainKeeps ==
  ASSUME ReaderInv, NEW t \in Threads, NEW x \in Mains, NEW calls \in Seq(Reader!Steps),
         NEW l \in Reader!Locals,
         NEW hs \in Seq(Helpers), NEW m \in Mains \ {"ready"}, Goes(t, x, calls, l, hs, m)
  PROVE  /\ Steadily(t) /\ todo'[t] # <<>> /\ Place(t) = x /\ Place(t)' = m
         /\ \A u \in Threads \ {t} : Place(u)' = Place(u)
         /\ todo' \in [Threads -> Seq(Reader!Steps)] /\ local' \in [Threads -> Reader!Locals]
         /\ local'[t] = l /\ answer' = Reader!NoAnswer
         /\ PlacesInv' /\ LockInv' /\ lock' \in Threads \cup {NoThread}
<1>1. Reader!TypeOK /\ PlacesInv /\ LockInv
  BY DEF ReaderInv
<1>2. Place(t) = x /\ todo[t] # <<>> /\ Tail(todo[t]) = After(x)
  BY <1>1, AtPlace DEF Goes
<1>3. /\ local' \in [Threads -> Reader!Locals] /\ local'[t] = l
      /\ \A u \in Threads \ {t} : todo'[u] = todo[u] /\ local'[u] = local[u]
      /\ answer' = Reader!NoAnswer /\ UNCHANGED <<written, ver>>
  BY <1>1, <1>2, DoIs DEF Goes
<1>4. todo' = [todo EXCEPT ![t] = hs \o <<m>> \o After(m)]
  BY <1>2 DEF Goes, Reader!Do
<1>5. /\ Place(t)' = m /\ todo'[t] # <<>>
      /\ ~Unobserved(t) /\ ~Unobserved(t)'
      /\ todo' \in [Threads -> Seq(Reader!Steps)] /\ PlacesInv'
  BY <1>1, <1>4, MainStep DEF Goes
<1>6. Steadily(t)
  BY <1>3, <1>5 DEF Goes, Steadily
<1>7. \A u \in Threads \ {t} : Place(u)' = Place(u)
  BY <1>3 DEF Place
<1>8. lock' \in Threads \cup {NoThread}
  BY <1>1 DEF Goes, Reader!TypeOK
<1>9. \A u \in Threads : lock = u <=> Place(u) \in Locked
  BY <1>1 DEF LockInv, Locked
<1>10. \A u \in Threads : lock' = u <=> Place(u)' \in Locked
  BY <1>2, <1>5, <1>7, <1>9, StringsType DEF Goes
<1>11. LockInv'
  BY <1>10 DEF LockInv, Locked
<1> QED
  BY <1>2, <1>3, <1>5, <1>6, <1>7, <1>8, <1>11

\* All of it, but for what the step does to the cache and the index.
LEMMA StateIs ==
  ASSUME ReaderInv, NEW t \in Threads, Steadily(t), PlacesInv', LockInv', CacheHolds',
     Reader!FreshSynset',
         todo' \in [Threads -> Seq(Reader!Steps)], local' \in [Threads -> Reader!Locals],
         lock' \in Threads \cup {NoThread},
         ready' \in {"unknown", "yes", "no"}, spec' \in Reader!Versions \cup {Reader!NotRead},
         specGen' \in Nat, specStamp' \in Reader!Versions \cup {Reader!NotRead},
         cache' \in Reader!Entries, index' \in Reader!SynsetVersions, indexGen' \in Nat,
         answer' \in [given : BOOLEAN, syn : Reader!SynsetVersions, begun : Reader!SynsetVersions]
  PROVE  ReaderInv'
<1>1. lock' # NoThread => todo'[lock'] # <<>>
  <2>1. ASSUME NEW u \in Threads, lock' = u PROVE todo'[u] # <<>>
    BY <2>1 DEF LockInv, Place, PlaceOf
  <2> QED
    BY <2>1
<1>2. Reader!TypeOK'
  BY <1>1 DEF ReaderInv, Reader!TypeOK, Steadily
<1> QED
  BY <1>2 DEF ReaderInv

\* No answer is one of its type.
LEMMA NoAnswerType ==
  Reader!NoAnswer \in [given : BOOLEAN, syn : Reader!SynsetVersions, begun : Reader!SynsetVersions]
BY ReaderAssumption
DEF Reader!NoAnswer, Reader!NoSynset, Reader!SynsetVersions, Reader!Versions,
    Reader!OntologyCacheAssumption

\* A thread comes to a place where nothing is read yet, and nothing is stamped.
LEMMA PlaceKeeps ==
  ASSUME ReaderInv, NEW t \in Threads, NEW x \in Mains, NEW calls \in Seq(Reader!Steps),
         NEW l \in Reader!Locals,
         NEW hs \in Seq(Helpers), NEW m \in Mains \ {"ready"}, Goes(t, x, calls, l, hs, m),
         m \notin {"edges", "keep", "tree", "built", "answer"},
         l.polled = local[t].polled, l.gen <= gen, l.stamp = Reader!NoStamp, Bounded(l.ent),
         UNCHANGED <<spec, specGen, specStamp, cache, index, indexGen>>,
         ready' \in {"unknown", "yes", "no"}
  PROVE  ReaderInv'
<1>1. Reader!TypeOK /\ PlacesInv /\ LockInv /\ CacheHolds /\ ThreadInv(t) /\ Bounds
  BY DEF ReaderInv, CacheHolds
<1>3. /\ Steadily(t) /\ todo'[t] # <<>> /\ Place(t) = x /\ Place(t)' = m
      /\ todo' \in [Threads -> Seq(Reader!Steps)] /\ local' \in [Threads -> Reader!Locals]
      /\ local'[t] = l /\ answer' = Reader!NoAnswer
      /\ PlacesInv' /\ LockInv' /\ lock' \in Threads \cup {NoThread}
  BY MainKeeps
<1>2. l.begun = local[t].begun
  BY DEF Goes
<1>4. l.polled <= written
  BY <1>1 DEF ThreadInv, BegunInv
<1>5. Bounded(local'[t].ent)
  BY <1>3
<1>6. ThreadInv(t)'
  BY <1>1, <1>2, <1>3, <1>4, <1>5, PlaceHolds
<1>7. CacheHolds'
  BY <1>1, <1>3, <1>6, CacheHoldsOn
<1>8. Reader!FreshSynset'
  BY <1>3, NothingAnswered
<1>9. /\ spec' \in Reader!Versions \cup {Reader!NotRead} /\ specGen' \in Nat
      /\ specStamp' \in Reader!Versions \cup {Reader!NotRead}
      /\ cache' \in Reader!Entries /\ index' \in Reader!SynsetVersions /\ indexGen' \in Nat
  BY <1>1 DEF Reader!TypeOK
<1> QED
  BY <1>3, <1>7, <1>8, <1>9, NoAnswerType, StateIs

\* Where nothing comes after a place, the calls end with the next one.
LEMMA Straight ==
  ASSUME NEW hs \in Seq(Helpers), NEW x \in Mains \ {"edges", "list", "tree"},
         NEW m \in Mains \ {"edges", "list", "tree"}
  PROVE  /\ hs \o <<m>> \in Seq(Reader!Steps)
         /\ hs \o <<m>> \o After(x) = hs \o <<m>> \o After(m)
         /\ <<m>> \in Seq(Reader!Steps) /\ <<m>> \o After(x) = <<>> \o <<m>> \o After(m)
<1>1. After(x) = <<>> /\ After(m) = <<>>
  BY AfterIs
<1>2. hs \in Seq(Reader!Steps) /\ <<m>> \in Seq(Reader!Steps)
  BY StepsAre
<1>3. <<>> \o <<m>> = <<m>>
  BY <1>2, ConcatEmptySeq
<1> QED
  BY <1>1, <1>2, <1>3

\* What a lookup holds that has stamped nothing.
LEMMA Unstamped ==
  ASSUME ReaderInv, NEW t \in Threads, Place(t) \notin {"verify", "edges", "keep"}
  PROVE  /\ local[t].stamp = Reader!NoStamp /\ Bounded(local[t].ent) /\ local[t].gen <= gen
         /\ local[t] \in Reader!Locals /\ Bounded(cache) /\ ver["spec"] \in Reader!Versions
         /\ 0 \in Reader!Versions /\ ready \in {"unknown", "yes", "no"} /\ gen \in Nat
         /\ cache \in Reader!Entries
  BY ReaderAssumption
  DEF ReaderInv, CacheHolds, ThreadInv, StampInv, BegunInv, CacheInv, Reader!TypeOK,
      Reader!Parts, Reader!Versions,
      Reader!OntologyCacheAssumption

Simple == Mains \ {"edges", "list", "tree", "ready", "keep", "built", "answer"}

\* A thread goes on to a place where nothing is read yet, and nothing comes after.
LEMMA SimpleKeeps ==
  ASSUME ReaderInv, NEW t \in Threads, NEW x \in Simple \cup {"ready"}, Reader!At(t, x),
         NEW hs \in Seq(Helpers), NEW m \in Simple, NEW calls \in {hs \o <<m>>, <<m>>},
         NEW l \in Reader!Locals, Reader!Do(t, calls, l), l.begun = local[t].begun,
         l.polled = local[t].polled, l.gen <= gen, l.stamp = Reader!NoStamp, Bounded(l.ent),
         UNCHANGED <<mark, gen, spec, specGen, specStamp, cache, index, indexGen>>,
         ready' \in {"unknown", "yes", "no"},
         \/ lock' = lock /\ (x \in Locked <=> m \in Locked)
         \/ lock = NoThread /\ lock' = t /\ m \in Locked
         \/ lock' = NoThread /\ x \in Locked /\ m \notin Locked
  PROVE  ReaderInv'
<1>1. /\ x \in Mains \ {"edges", "list", "tree"} /\ m \in Mains \ {"edges", "list", "tree"}
      /\ m \in Mains \ {"ready"} /\ m \notin {"edges", "keep", "tree", "built", "answer"}
  BY DEF Simple, Mains
<1>2. <<>> \in Seq(Helpers)
  OBVIOUS
<1>3. UNCHANGED <<spec, specGen, specStamp, cache, index, indexGen>> /\ UNCHANGED <<mark, gen>>
  OBVIOUS
<1>4. CASE calls = hs \o <<m>>
  <2>1. calls \in Seq(Reader!Steps) /\ calls \o After(x) = hs \o <<m>> \o After(m)
    BY <1>1, <1>4, Straight
  <2>2. Goes(t, x, calls, l, hs, m)
    BY <1>3, <2>1 DEF Goes
  <2> QED
    BY <1>1, <1>3, <2>1, <2>2, PlaceKeeps
<1>5. CASE calls = <<m>>
  <2>1. calls \in Seq(Reader!Steps) /\ calls \o After(x) = <<>> \o <<m>> \o After(m)
    BY <1>1, <1>2, <1>5, Straight
  <2>2. Goes(t, x, calls, l, <<>>, m)
    BY <1>3, <2>1 DEF Goes
  <2> QED
    BY <1>1, <1>2, <1>3, <2>1, <2>2, PlaceKeeps
<1> QED
  BY <1>4, <1>5

\* The places that are reached with nothing read.
LEMMA SimpleAre ==
  /\ {"readReady", "setReady", "isReady", "get", "capture", "stamp", "index", "load", "verify"}
       \subseteq Simple
  /\ \A m \in Simple : m \in Locked <=> m = "setReady"
  /\ "ready" \notin Locked /\ Simple \cup {"ready"} \subseteq Mains
BY DEF Simple, Mains, Locked

\* _keyed_ready, the check without the lock.
LEMMA ReadyKeeps == ASSUME ReaderInv, NEW t \in Threads, Reader!Ready(t) PROVE ReaderInv'
<1> DEFINE l == local[t]
<1>1. /\ Reader!At(t, "ready") /\ "ready" \in Mains
      /\ UNCHANGED <<mark, gen, ready, spec, specGen, specStamp, cache, index, indexGen, lock>>
  BY DEF Reader!Ready, Reader!gateVars, Reader!specVars, Reader!indexVars, Mains
<1>2. Place(t) = "ready"
  BY <1>1, AtPlace DEF ReaderInv
<1>3. /\ l.stamp = Reader!NoStamp /\ Bounded(l.ent) /\ l.gen <= gen /\ l \in Reader!Locals
      /\ ready \in {"unknown", "yes", "no"}
  BY <1>2, Unstamped
<1>4. CASE Reader!Do(t, Reader!Observe \o <<"readReady">>, l)
  BY <1>1, <1>3, <1>4, SimpleAre, HelpersType, SimpleKeeps
<1>5. CASE Reader!Do(t, <<"isReady">>, l)
  BY <1>1, <1>3, <1>5, SimpleAre, HelpersType, SimpleKeeps
<1> QED
  BY <1>4, <1>5 DEF Reader!Ready

\* _keyed_ready under the lock, which is kept while it reads the store.
LEMMA ReadReadyKeeps == ASSUME ReaderInv, NEW t \in Threads, Reader!ReadReady(t) PROVE ReaderInv'
<1>1. /\ Reader!At(t, "readReady") /\ "readReady" \in Mains /\ "readReady" \notin Locked
      /\ UNCHANGED <<mark, gen, ready, spec, specGen, specStamp, cache, index, indexGen>>
  BY DEF Reader!ReadReady, Reader!gateVars, Reader!specVars, Reader!indexVars, Mains, Locked
<1>2. Place(t) = "readReady"
  BY <1>1, AtPlace DEF ReaderInv
<1>3. /\ local[t].stamp = Reader!NoStamp /\ Bounded(local[t].ent) /\ local[t].gen <= gen
      /\ local[t] \in Reader!Locals /\ ready \in {"unknown", "yes", "no"}
      /\ ver["spec"] \in Reader!Versions
  BY <1>2, Unstamped
<1>4. CASE /\ lock = NoThread /\ lock' = t
           /\ Reader!Do(t, <<"setReady">>, [local[t] EXCEPT !.got = ver["spec"]])
  <2> DEFINE l == [local[t] EXCEPT !.got = ver["spec"]]
  <2>1. l \in Reader!Locals /\ l.begun = local[t].begun /\ l.polled = local[t].polled
        /\ l.gen = local[t].gen /\ l.stamp = local[t].stamp /\ l.ent = local[t].ent
    BY <1>3 DEF Reader!Locals
  <2>2. Reader!Do(t, <<"setReady">>, l)
    BY <1>4
  <2> HIDE DEF l
  <2>3. "setReady" \in Locked
    BY DEF Locked
  <2> QED
    BY <1>1, <1>3, <1>4, <2>1, <2>2, <2>3, SimpleAre, HelpersType, SimpleKeeps
<1>5. CASE lock' = lock /\ Reader!Do(t, <<"isReady">>, local[t])
  BY <1>1, <1>3, <1>5, SimpleAre, HelpersType, SimpleKeeps
<1> QED
  BY <1>4, <1>5 DEF Reader!ReadReady

\* _keyed_ready is decided, and the lock given back.
LEMMA SetReadyKeeps == ASSUME ReaderInv, NEW t \in Threads, Reader!SetReady(t) PROVE ReaderInv'
<1> DEFINE l == [local[t] EXCEPT !.got = 0]
<1>1. /\ Reader!At(t, "setReady") /\ "setReady" \in Mains /\ "setReady" \in Locked
      /\ lock' = NoThread /\ ready' \in {"unknown", "yes", "no"} /\ Reader!Do(t, <<"isReady">>, l)
      /\ UNCHANGED <<mark, gen, spec, specGen, specStamp, cache, index, indexGen>>
  BY DEF Reader!SetReady, Reader!gateVars, Reader!indexVars, Mains, Locked
<1>2. Place(t) = "setReady"
  BY <1>1, AtPlace DEF ReaderInv
<1>3. /\ local[t].stamp = Reader!NoStamp /\ Bounded(local[t].ent) /\ local[t].gen <= gen
      /\ local[t] \in Reader!Locals /\ 0 \in Reader!Versions
  BY <1>2, Unstamped
<1>4. l \in Reader!Locals /\ l.begun = local[t].begun /\ l.polled = local[t].polled
      /\ l.gen = local[t].gen /\ l.stamp = local[t].stamp /\ l.ent = local[t].ent
  BY <1>3 DEF Reader!Locals
<1> HIDE DEF l
<1> QED
  BY <1>1, <1>3, <1>4, SimpleAre, HelpersType, SimpleKeeps

\* The keyed path or the index.
LEMMA IsReadyKeeps == ASSUME ReaderInv, NEW t \in Threads, Reader!IsReady(t) PROVE ReaderInv'
<1>1. /\ Reader!At(t, "isReady") /\ "isReady" \in Mains
      /\ UNCHANGED <<mark, gen, ready, spec, specGen, specStamp, cache, index, indexGen, lock>>
  BY DEF Reader!IsReady, Reader!gateVars, Reader!specVars, Reader!indexVars, Mains
<1>2. Place(t) = "isReady"
  BY <1>1, AtPlace DEF ReaderInv
<1>3. /\ local[t].stamp = Reader!NoStamp /\ Bounded(local[t].ent) /\ local[t].gen <= gen
      /\ local[t] \in Reader!Locals /\ ready \in {"unknown", "yes", "no"}
  BY <1>2, Unstamped
<1>4. CASE Reader!Do(t, <<"get">>, local[t])
  BY <1>1, <1>3, <1>4, SimpleAre, HelpersType, SimpleKeeps
<1>5. CASE Reader!Do(t, Reader!Observe \o <<"index">>, local[t])
  BY <1>1, <1>3, <1>5, SimpleAre, HelpersType, SimpleKeeps
<1> QED
  BY <1>4, <1>5 DEF Reader!IsReady, Reader!ByIndex

\* The cached entry is of an older generation: it is kept aside, to be verified.
LEMMA GetMissKeeps ==
  ASSUME ReaderInv, NEW t \in Threads, Reader!Get(t),
         Reader!Do(t, Reader!Observe \o <<"capture">>, [local[t] EXCEPT !.ent = cache])
  PROVE  ReaderInv'
<1> DEFINE l == [local[t] EXCEPT !.ent = cache]
<1>1. /\ Reader!At(t, "get") /\ "get" \in Mains /\ Reader!Do(t, Reader!Observe \o <<"capture">>, l)
      /\ UNCHANGED <<mark, gen, ready, spec, specGen, specStamp, cache, index, indexGen, lock>>
  BY DEF Reader!Get, Reader!gateVars, Reader!specVars, Reader!indexVars, Mains
<1>2. Place(t) = "get"
  BY <1>1, AtPlace DEF ReaderInv
<1>3. /\ local[t].stamp = Reader!NoStamp /\ Bounded(cache) /\ local[t].gen <= gen
      /\ local[t] \in Reader!Locals /\ ready \in {"unknown", "yes", "no"}
      /\ cache \in Reader!Entries
  BY <1>2, Unstamped
<1>4. l \in Reader!Locals /\ l.begun = local[t].begun /\ l.polled = local[t].polled
      /\ l.gen = local[t].gen /\ l.stamp = local[t].stamp /\ l.ent = cache
  BY <1>3 DEF Reader!Locals
<1> HIDE DEF l
<1> QED
  BY <1>1, <1>3, <1>4, SimpleAre, HelpersType, SimpleKeeps

\* The generation is captured.
LEMMA CaptureKeeps == ASSUME ReaderInv, NEW t \in Threads, Reader!Capture(t) PROVE ReaderInv'
<1> DEFINE l == [local[t] EXCEPT !.gen = gen]
           hs == IF local[t].ent = Reader!NoEntry THEN Reader!LangSpec ELSE <<>>
<1>1. /\ Reader!At(t, "capture") /\ "capture" \in Mains /\ Reader!Do(t, hs \o <<"stamp">>, l)
      /\ UNCHANGED <<mark, gen, ready, spec, specGen, specStamp, cache, index, indexGen, lock>>
  BY DEF Reader!Capture, Reader!gateVars, Reader!specVars, Reader!indexVars, Mains
<1>2. Place(t) = "capture"
  BY <1>1, AtPlace DEF ReaderInv
<1>3. /\ local[t].stamp = Reader!NoStamp /\ Bounded(local[t].ent) /\ gen \in Nat
      /\ local[t] \in Reader!Locals /\ ready \in {"unknown", "yes", "no"}
  BY <1>2, Unstamped
<1>4. l \in Reader!Locals /\ l.begun = local[t].begun /\ l.polled = local[t].polled
      /\ l.gen = gen /\ l.stamp = local[t].stamp /\ l.ent = local[t].ent
  BY <1>3 DEF Reader!Locals
<1>5. hs \in Seq(Helpers)
  BY HelpersType
<1> HIDE DEF l, hs
<1> QED
  BY <1>1, <1>3, <1>4, <1>5, SimpleAre, SimpleKeeps

\* There is no index of this generation.
LEMMA IndexMissKeeps ==
  ASSUME ReaderInv, NEW t \in Threads, Reader!Index(t), Reader!Do(t, <<"load">>, local[t])
  PROVE  ReaderInv'
<1>1. /\ Reader!At(t, "index") /\ "index" \in Mains
      /\ UNCHANGED <<mark, gen, ready, spec, specGen, specStamp, cache, index, indexGen, lock>>
  BY DEF Reader!Index, Reader!gateVars, Reader!specVars, Reader!indexVars, Mains
<1>2. Place(t) = "index"
  BY <1>1, AtPlace DEF ReaderInv
<1>3. /\ local[t].stamp = Reader!NoStamp /\ Bounded(local[t].ent) /\ local[t].gen <= gen
      /\ local[t] \in Reader!Locals /\ ready \in {"unknown", "yes", "no"}
  BY <1>2, Unstamped
<1> QED
  BY <1>1, <1>3, SimpleAre, HelpersType, SimpleKeeps

----------------------------------------------------------------------------
\* Places where rows are read

\* What the store holds now is good enough.
LEMMA PresentReaches ==
  ASSUME Reader!TypeOK, \A u \in Threads : BegunInv(u), NEW p \in Reader!Rows
  PROVE  Reaches(ver[p], p)
BY DEF BegunInv, Reaches

\* What a lookup read before it still holds, and what it reads now is what is there.
LEMMA ReadHolds ==
  ASSUME Reader!TypeOK, CacheHolds, NEW t \in Threads, Steadily(t), todo'[t] # <<>>,
         Place(t)' \in {"verify", "edges", "keep", "tree", "built"},
         local'[t].polled = local[t].polled, local'[t].begun = local[t].begun,
         local'[t].gen = local[t].gen, Bounded(local'[t].ent),
         local'[t].stamp \in {local[t].stamp, Reader!Stamped(ver), Reader!NoStamp},
         local'[t].stamp # Reader!NoStamp => Place(t)' \in {"verify", "edges", "keep"},
         \A p \in Read(t)' :
           \/ local'[t].syn[p] = ver[p] /\ local'[t].stamp = local[t].stamp
           \/ /\ p \in Read(t) /\ local'[t].syn[p] = local[t].syn[p]
              /\ local'[t].stamp = local[t].stamp
              /\ Place(t)' \in {"tree", "built"} => Place(t) = "tree"
  PROVE  ThreadInv(t)'
<1>1. UNCHANGED <<written, ver, mark, gen>> /\ Bounds /\ ThreadInv(t)
      /\ \A u \in Threads : BegunInv(u)
  BY DEF Steadily, CacheHolds, ThreadInv
<1>2. BegunInv(t)'
  <2>1. todo'[t] # <<"gate", "fresh", "ready">>
    BY ReadyPlaces DEF Place, Opening
  <2> QED
    BY <1>1, <2>1 DEF ThreadInv, BegunInv
<1>3. StampInv(t)'
  <2> SUFFICES ASSUME local'[t].stamp # Reader!NoStamp, NEW p \in Reader!Rows
               PROVE  /\ local'[t].begun[p] <= local'[t].stamp[p]
                      /\ local'[t].stamp[p] <= ver'[p]
                      /\ local'[t].gen = gen' => Reaches(local[t].stamp[p], p)'
    BY <1>1 DEF StampInv, Bounded
  <2>1. CASE local'[t].stamp = local[t].stamp
    <3>1. PICK v \in Nat : v = local[t].stamp[p]
      BY RowTypes
    <3>2. Reaches(v, p) => Reaches(v, p)'
      BY ReachesStays
    <3> QED
      BY <1>1, <2>1, <3>1, <3>2 DEF ThreadInv, StampInv
  <2>2. CASE local'[t].stamp = Reader!Stamped(ver)
    <3>1. PICK v \in Nat : v = ver[p]
      BY RowTypes
    <3>2. Reaches(v, p)'
      BY <1>1, <3>1, PresentReaches, ReachesStays
    <3>3. Reader!Stamped(ver)[p] = v
      BY <3>1 DEF Reader!Stamped, Reader!Rows
    <3> QED
      BY <1>1, <2>2, <3>1, <3>2, <3>3 DEF BegunInv
  <2> QED
    BY <2>1, <2>2
<1>4. ASSUME NEW p \in Read(t)'
      PROVE  /\ local'[t].begun[p] <= local'[t].syn[p] /\ local'[t].syn[p] <= ver'[p]
             /\ local'[t].stamp[p] <= local'[t].syn[p]
             /\ Place(t)' \in {"tree", "built"} =>
                  /\ local'[t].gen = gen' => Reaches(local[t].syn[p], p)'
                  /\ \A u \in Threads : Place(u)' = "answer" => local'[u].begun[p] <= local'[t].syn[p]
  <2>1. p \in Reader!Rows
    BY <1>4 DEF Read, ReadAt, Reader!Rows
  <2>2. PICK v \in Nat, w \in Nat : v = ver[p] /\ w = local[t].syn[p]
    BY <2>1, RowTypes
  <2>3. ASSUME NEW u \in Threads, Place(u)' = "answer"
        PROVE  Place(u) = "answer" /\ local'[u].begun = local[u].begun
    BY <2>3 DEF Steadily, Place
  <2>4. CASE local'[t].syn[p] = ver[p] /\ local'[t].stamp = local[t].stamp
    <3>1. Reaches(v, p)'
      BY <1>1, <2>1, <2>2, PresentReaches, ReachesStays
    <3>2. local[t].stamp[p] <= ver[p]
      BY <1>1, <2>1, <2>2, NothingRead DEF ThreadInv, StampInv
    <3> QED
      BY <1>1, <2>1, <2>2, <2>3, <2>4, <3>1, <3>2 DEF BegunInv
  <2>5. CASE /\ p \in Read(t) /\ local'[t].syn[p] = local[t].syn[p]
             /\ local'[t].stamp = local[t].stamp
             /\ Place(t)' \in {"tree", "built"} => Place(t) = "tree"
    <3>1. Reaches(w, p) => Reaches(w, p)'
      BY <2>1, ReachesStays
    <3> QED
      BY <1>1, <2>1, <2>2, <2>3, <2>5, <3>1 DEF ThreadInv, SynInv, LoadInv
  <2> QED
    BY <1>4, <2>4, <2>5
<1> QED
  BY <1>2, <1>3, <1>4 DEF ThreadInv, SynInv, LoadInv, AnswerInv

\* A thread goes on with what it read: a stamp, a row, or edges.
LEMMA ReadKeeps ==
  ASSUME ReaderInv, NEW t \in Threads, NEW x \in Mains, NEW calls \in Seq(Reader!Steps),
         NEW l \in Reader!Locals,
         NEW hs \in Seq(Helpers), NEW m \in {"verify", "edges", "keep", "tree", "built"},
         Goes(t, x, calls, l, hs, m),
         l.polled = local[t].polled, l.gen = local[t].gen, Bounded(l.ent),
         l.stamp \in {local[t].stamp, Reader!Stamped(ver), Reader!NoStamp},
         l.stamp # Reader!NoStamp => m \in {"verify", "edges", "keep"},
         \A p \in ReadAt(m) :
           \/ l.syn[p] = ver[p] /\ l.stamp = local[t].stamp
           \/ /\ p \in ReadAt(x) /\ l.syn[p] = local[t].syn[p] /\ l.stamp = local[t].stamp
              /\ m \in {"tree", "built"} => x = "tree",
         UNCHANGED <<ready, spec, specGen, specStamp, cache, index, indexGen>>
  PROVE  ReaderInv'
<1>1. Reader!TypeOK /\ PlacesInv /\ LockInv /\ CacheHolds /\ ThreadInv(t) /\ Bounds
  BY DEF ReaderInv, CacheHolds
<1>2. m \in Mains \ {"ready"} /\ l.begun = local[t].begun
  BY DEF Mains, Goes
<1>3. /\ Steadily(t) /\ todo'[t] # <<>> /\ Place(t) = x /\ Place(t)' = m
      /\ todo' \in [Threads -> Seq(Reader!Steps)] /\ local' \in [Threads -> Reader!Locals]
      /\ local'[t] = l /\ answer' = Reader!NoAnswer
      /\ PlacesInv' /\ LockInv' /\ lock' \in Threads \cup {NoThread}
  BY <1>2, MainKeeps
<1>4. Read(t)' = ReadAt(m) /\ Read(t) = ReadAt(x)
  BY <1>3 DEF Read
<1>5. Bounded(local'[t].ent)
  BY <1>3
<1>6. ThreadInv(t)'
  BY <1>1, <1>2, <1>3, <1>4, <1>5, ReadHolds
<1>7. CacheHolds'
  BY <1>1, <1>3, <1>6, CacheHoldsOn
<1>8. Reader!FreshSynset'
  BY <1>3, NothingAnswered
<1>9. /\ ready' \in {"unknown", "yes", "no"}
      /\ spec' \in Reader!Versions \cup {Reader!NotRead} /\ specGen' \in Nat
      /\ specStamp' \in Reader!Versions \cup {Reader!NotRead}
      /\ cache' \in Reader!Entries /\ index' \in Reader!SynsetVersions /\ indexGen' \in Nat
  BY <1>1 DEF Reader!TypeOK
<1> QED
  BY <1>3, <1>7, <1>8, <1>9, NoAnswerType, StateIs

\* The row and its edges are stamped.
LEMMA StampKeeps == ASSUME ReaderInv, NEW t \in Threads, Reader!Stamp(t) PROVE ReaderInv'
<1>1. /\ Reader!At(t, "stamp") /\ "stamp" \in Mains
      /\ UNCHANGED <<mark, gen, ready, spec, specGen, specStamp, cache, index, indexGen, lock>>
  BY DEF Reader!Stamp, Reader!gateVars, Reader!specVars, Reader!indexVars, Mains
<1>2. Place(t) = "stamp"
  BY <1>1, AtPlace DEF ReaderInv
<1>3. /\ Bounded(local[t].ent) /\ local[t] \in Reader!Locals /\ 0 \in Reader!Versions
      /\ ver \in [Reader!Parts -> Reader!Versions]
  BY <1>2, Unstamped DEF ReaderInv, Reader!TypeOK
<1>4. PICK st \in {Reader!Stamped(ver), Reader!NoStamp} : Reader!Do(t, <<"verify">>,
   [local[t] EXCEPT !.stamp = st])
  BY DEF Reader!Stamp
<1> DEFINE l == [local[t] EXCEPT !.stamp = st]
<1>5. st \in Reader!Stamps
  BY <1>3 DEF Reader!Stamped, Reader!NoStamp, Reader!Stamps, Reader!Parts
<1>6. /\ l \in Reader!Locals /\ l.begun = local[t].begun /\ l.polled = local[t].polled
      /\ l.gen = local[t].gen /\ l.stamp = st /\ l.ent = local[t].ent
  BY <1>3, <1>5 DEF Reader!Locals
<1>7. Reader!Do(t, <<"verify">>, l)
  BY <1>4
<1> HIDE DEF l
<1>8. /\ <<"verify">> \in Seq(Reader!Steps)
      /\ <<"verify">> \o After("stamp") = <<>> \o <<"verify">> \o After("verify")
  <2>1. /\ "stamp" \in Mains \ {"edges", "list", "tree"}
        /\ "verify" \in Mains \ {"edges", "list", "tree"}
    BY DEF Mains
  <2> QED
    BY <2>1, HelpersType, Straight
<1>9. Goes(t, "stamp", <<"verify">>, l, <<>>, "verify")
  BY <1>1, <1>6, <1>7, <1>8 DEF Goes, Locked
<1>10. ReadAt("verify") = {}
  BY DEF ReadAt
<1> QED
  BY <1>1, <1>3, <1>4, <1>6, <1>8, <1>9, <1>10, HelpersType, ReadKeeps

\* No entry was read after no stamp.
LEMMA BoundedNothing == ASSUME Reader!TypeOK PROVE Bounded(Reader!NoEntry)
<1>1. ASSUME NEW p \in Reader!Rows PROVE 0 <= ver[p]
  BY RowTypes
<1> QED
  BY <1>1, NothingRead DEF Bounded

\* A row, or a row and the alphabet, is read into the synset.
LEMMA SynType ==
  ASSUME Reader!TypeOK, NEW t \in Threads
  PROVE  /\ local[t] \in Reader!Locals /\ local[t].syn \in Reader!SynsetVersions
         /\ [local[t].syn EXCEPT !.doc = ver["doc"]] \in Reader!SynsetVersions
         /\ [local[t].syn EXCEPT !.edge = ver["edge"], !.spec = local[t].alphabet] \in Reader!SynsetVersions
BY DEF Reader!TypeOK, Reader!Locals, Reader!SynsetVersions, Reader!Parts

\* Five sequences, grouped in threes.
LEMMA RegroupFive ==
  ASSUME NEW S, NEW a \in Seq(S), NEW b \in Seq(S), NEW c \in Seq(S), NEW d \in Seq(S),
         NEW e \in Seq(S)
  PROVE  /\ a \o b \o c \o d \o e = a \o (b \o c \o (d \o e))
         /\ a \o b \o c \o d \o e \in Seq(S)
<1>1. /\ b \o c \in Seq(S) /\ d \o e \in Seq(S)
      /\ a \o b \o c \in Seq(S) /\ a \o b \o c = a \o (b \o c)
  OBVIOUS
<1>2. PICK f \in Seq(S), g \in Seq(S), n \in Seq(S) :
        f = a \o b \o c /\ g = d \o e /\ n = b \o c /\ f = a \o n
  BY <1>1
<1>3. f \o d \o e = f \o (d \o e) /\ f \o d \o e \in Seq(S)
  OBVIOUS
<1>4. a \o n \o g = a \o (n \o g)
  OBVIOUS
<1> QED
  BY <1>2, <1>3, <1>4

\* What Verify and Load have a thread run, as helpers, a place and what is left after it.
LEMMA Associates ==
  /\ Reader!LangSpec \o Reader!Observe \o <<"edges">> \o Reader!LangSpec \o <<"keep">>
       = (Reader!LangSpec \o Reader!Observe) \o <<"edges">> \o (Reader!LangSpec \o <<"keep">>)
  /\ Reader!Observe \o Reader!LangSpec \o <<"list">> \o Reader!LangSpec \o <<"tree">>
         \o Reader!Observe \o <<"built">>
       = (Reader!Observe \o Reader!LangSpec) \o <<"list">>
           \o (Reader!LangSpec \o <<"tree">> \o (Reader!Observe \o <<"built">>))
  /\ Reader!LangSpec \o Reader!Observe \o <<"edges">> \o Reader!LangSpec \o <<"keep">>
       \in Seq(Reader!Steps)
  /\ Reader!Observe \o Reader!LangSpec \o <<"list">> \o Reader!LangSpec \o <<"tree">>
         \o Reader!Observe \o <<"built">> \in Seq(Reader!Steps)
<1>1. {"edges", "keep", "list", "tree", "built"} \subseteq Reader!Steps
  BY DEF Reader!Steps
<1>2. /\ Reader!Observe \in Seq(Reader!Steps) /\ Reader!LangSpec \in Seq(Reader!Steps)
      /\ <<"keep">> \in Seq(Reader!Steps) /\ <<"tree">> \in Seq(Reader!Steps)
      /\ <<"built">> \in Seq(Reader!Steps)
      /\ <<"edges">> \in Seq(Reader!Steps) /\ <<"list">> \in Seq(Reader!Steps)
  BY <1>1, HelpersType, StepsAre
<1>3. PICK o \in Seq(Reader!Steps), l \in Seq(Reader!Steps), k \in Seq(Reader!Steps),
   m \in Seq(Reader!Steps), b \in Seq(Reader!Steps),
           e \in Seq(Reader!Steps), r \in Seq(Reader!Steps) :
        /\ o = Reader!Observe /\ l = Reader!LangSpec /\ k = <<"keep">> /\ m = <<"tree">>
        /\ b = <<"built">>
        /\ e = <<"edges">> /\ r = <<"list">>
  BY <1>2
<1>4. l \o o \o e \in Seq(Reader!Steps) /\ o \o l \o r \in Seq(Reader!Steps)
  OBVIOUS
<1>5. PICK f \in Seq(Reader!Steps), g \in Seq(Reader!Steps) : f = l \o o \o e /\ g = o \o l \o r
  BY <1>4
<1>6. f \o l \o k = f \o (l \o k) /\ f \o l \o k \in Seq(Reader!Steps)
  OBVIOUS
<1>7. /\ g \o l \o m \o o \o b = g \o (l \o m \o (o \o b))
      /\ g \o l \o m \o o \o b \in Seq(Reader!Steps)
  BY RegroupFive
<1>8. /\ l \o o \o e \o l \o k = (l \o o) \o e \o (l \o k)
      /\ l \o o \o e \o l \o k \in Seq(Reader!Steps)
      /\ o \o l \o r \o l \o m \o o \o b = (o \o l) \o r \o (l \o m \o (o \o b))
      /\ o \o l \o r \o l \o m \o o \o b \in Seq(Reader!Steps)
  BY <1>5, <1>6, <1>7
<1> QED
  BY <1>3, <1>8

\* The entry is not verified, and the row is read.
LEMMA VerifyMissKeeps ==
  ASSUME ReaderInv, NEW t \in Threads, Reader!Verify(t), ~Reader!Same(local[t].ent, local[t].stamp)
  PROVE  ReaderInv'
<1> DEFINE l == [local[t] EXCEPT !.syn.doc = ver["doc"], !.ent = Reader!NoEntry]
           calls == Reader!LangSpec \o Reader!Observe \o <<"edges">> \o Reader!LangSpec
                      \o <<"keep">>
           hs == Reader!LangSpec \o Reader!Observe
<1>1. /\ Reader!At(t, "verify") /\ "verify" \in Mains /\ Reader!Do(t, calls, l)
      /\ UNCHANGED <<mark, gen, ready, spec, specGen, specStamp, cache, index, indexGen, lock>>
  BY DEF Reader!Verify, Reader!gateVars, Reader!specVars, Reader!indexVars, Mains
<1>2. Place(t) = "verify" /\ Reader!TypeOK
  BY <1>1, AtPlace DEF ReaderInv
<1>3. /\ local[t] \in Reader!Locals
      /\ [local[t].syn EXCEPT !.doc = ver["doc"]] \in Reader!SynsetVersions
      /\ Reader!NoEntry \in Reader!Entries /\ local[t].syn \in Reader!SynsetVersions
  BY <1>2, SynType, CleanIs DEF Reader!Locals
<1>4. /\ l \in Reader!Locals /\ l.begun = local[t].begun /\ l.polled = local[t].polled
      /\ l.gen = local[t].gen /\ l.stamp = local[t].stamp /\ l.ent = Reader!NoEntry
      /\ l.syn = [local[t].syn EXCEPT !.doc = ver["doc"]]
  BY <1>3 DEF Reader!Locals
<1>5. l.syn["doc"] = ver["doc"]
  BY <1>3, <1>4 DEF Reader!SynsetVersions
<1> HIDE DEF l
<1>6. /\ hs \in Seq(Helpers) /\ calls \in Seq(Reader!Steps)
      /\ calls = hs \o <<"edges">> \o After("edges")
  BY HelpersType, Associates, AfterIs
<1>7. After("verify") = <<>>
  BY AfterIs DEF Mains
<1> HIDE DEF calls, hs
<1>8. calls \o After("verify") = hs \o <<"edges">> \o After("edges")
  BY <1>6, <1>7, ConcatEmptySeq
<1>9. Goes(t, "verify", calls, l, hs, "edges")
  BY <1>1, <1>4, <1>8 DEF Goes, Locked
<1>10. ReadAt("edges") = {"doc"}
  BY DEF ReadAt
<1>11. Bounded(l.ent)
  BY <1>2, <1>4, BoundedNothing
<1>12. /\ l.stamp \in {local[t].stamp, Reader!Stamped(ver), Reader!NoStamp}
       /\ \A p \in ReadAt("edges") : l.syn[p] = ver[p] /\ l.stamp = local[t].stamp
       /\ "edges" \in {"verify", "edges", "keep", "tree", "built"}
       /\ UNCHANGED <<ready, spec, specGen, specStamp, cache, index, indexGen>>
  BY <1>1, <1>4, <1>5, <1>10
<1>13. /\ "verify" \in Mains /\ calls \in Seq(Reader!Steps) /\ l \in Reader!Locals
       /\ hs \in Seq(Helpers)
       /\ l.polled = local[t].polled /\ l.gen = local[t].gen
  BY <1>1, <1>4, <1>6
<1> QED
  BY <1>9, <1>11, <1>12, <1>13, ReadKeeps

\* The steps that read a row and go on, with nothing to call.
LEMMA OnKeeps ==
  ASSUME ReaderInv, NEW t \in Threads, NEW x \in {"edges", "list", "tree"}, Reader!At(t, x),
         NEW l \in Reader!Locals, Reader!Do(t, <<>>, l),
         l.begun = local[t].begun, l.polled = local[t].polled, l.gen = local[t].gen,
         l.stamp = local[t].stamp, l.ent = local[t].ent,
         \/ x = "list" /\ l.syn["doc"] = ver["doc"]
         \/ x # "list" /\ l.syn["edge"] = ver["edge"] /\ l.syn["doc"] = local[t].syn["doc"],
         UNCHANGED <<mark, gen, ready, spec, specGen, specStamp, cache, index, indexGen, lock>>
  PROVE  ReaderInv'
<1>1. x \in Mains /\ <<>> \in Seq(Reader!Steps) /\ Place(t) = x /\ Reader!TypeOK
  BY AtPlace DEF Mains, ReaderInv
<1>2. Bounded(l.ent) /\ (x \in {"list", "tree"} => l.stamp = Reader!NoStamp)
  BY <1>1 DEF ReaderInv, CacheHolds, ThreadInv, StampInv
<1>3. /\ UNCHANGED <<ready, spec, specGen, specStamp, cache, index, indexGen>>
      /\ UNCHANGED <<mark, gen>> /\ lock' = lock
  OBVIOUS
<1>4. /\ ReadAt("edges") = {"doc"} /\ ReadAt("list") = {} /\ ReadAt("tree") = {"doc"}
      /\ ReadAt("keep") = Reader!Rows /\ ReadAt("built") = Reader!Rows
      /\ Reader!Rows = {"doc", "edge"}
  BY DEF ReadAt, Reader!Rows
<1>5. /\ After("edges") = Reader!LangSpec \o <<"keep">> \o After("keep")
      /\ After("list") = Reader!LangSpec \o <<"tree">> \o After("tree")
      /\ After("tree") = Reader!Observe \o <<"built">> \o After("built")
      /\ After("edges") \in Seq(Reader!Steps) /\ After("list") \in Seq(Reader!Steps)
      /\ After("tree") \in Seq(Reader!Steps)
  <2>1. After("keep") = <<>> /\ After("built") = <<>>
    BY AfterIs DEF Mains
  <2>2. /\ Reader!LangSpec \o <<"keep">> \in Seq(Reader!Steps)
        /\ Reader!Observe \o <<"built">> \in Seq(Reader!Steps)
    <3>1. <<"keep">> \in Seq(Reader!Steps) /\ <<"built">> \in Seq(Reader!Steps)
      BY DEF Reader!Steps
    <3> QED
      BY <3>1, HelpersType, StepsAre
  <2>3. /\ Reader!LangSpec \o <<"keep">> \o <<>> = Reader!LangSpec \o <<"keep">>
        /\ Reader!Observe \o <<"built">> \o <<>> = Reader!Observe \o <<"built">>
    BY <2>2, ConcatEmptySeq
  <2>4. /\ After("edges") \in Seq(Reader!Steps) /\ After("list") \in Seq(Reader!Steps)
        /\ After("tree") \in Seq(Reader!Steps)
    BY AfterType DEF Mains
  <2> QED
    BY <2>1, <2>3, <2>4, AfterIs
<1>0. PICK none \in Seq(Reader!Steps) : none = <<>>
  BY <1>1
<1>6. /\ none \o After("edges") = After("edges") /\ none \o After("list") = After("list")
      /\ none \o After("tree") = After("tree")
  BY <1>0, <1>5, ConcatEmptySeq
<1>7. Reader!LangSpec \in Seq(Helpers) /\ Reader!Observe \in Seq(Helpers)
  BY HelpersType
<1>8. CASE x = "edges"
  <2>1. Goes(t, x, none, l, Reader!LangSpec, "keep")
    BY <1>0, <1>3, <1>5, <1>6, <1>8 DEF Goes, Locked
  <2>2. \A p \in ReadAt("keep") :
          \/ l.syn[p] = ver[p] /\ l.stamp = local[t].stamp
          \/ /\ p \in ReadAt(x) /\ l.syn[p] = local[t].syn[p] /\ l.stamp = local[t].stamp
             /\ "keep" \in {"tree", "built"} => x = "tree"
    BY <1>4, <1>8
  <2>3. /\ l.stamp \in {local[t].stamp, Reader!Stamped(ver), Reader!NoStamp}
        /\ l.stamp # Reader!NoStamp => "keep" \in {"verify", "edges", "keep"}
    BY <1>2, <1>8
  <2> QED
    BY <1>1, <1>2, <1>3, <1>7, <2>1, <2>2, <2>3, ReadKeeps
<1>9. CASE x = "list"
  <2>1. Goes(t, x, none, l, Reader!LangSpec, "tree")
    BY <1>0, <1>3, <1>5, <1>6, <1>9 DEF Goes, Locked
  <2>2. \A p \in ReadAt("tree") :
          \/ l.syn[p] = ver[p] /\ l.stamp = local[t].stamp
          \/ /\ p \in ReadAt(x) /\ l.syn[p] = local[t].syn[p] /\ l.stamp = local[t].stamp
             /\ "tree" \in {"tree", "built"} => x = "tree"
    BY <1>4, <1>9
  <2>3. /\ l.stamp \in {local[t].stamp, Reader!Stamped(ver), Reader!NoStamp}
        /\ l.stamp # Reader!NoStamp => "tree" \in {"verify", "edges", "keep"}
    BY <1>2, <1>9
  <2> QED
    BY <1>1, <1>2, <1>3, <1>7, <2>1, <2>2, <2>3, ReadKeeps
<1>10. CASE x = "tree"
  <2>1. Goes(t, x, none, l, Reader!Observe, "built")
    BY <1>0, <1>3, <1>5, <1>6, <1>10 DEF Goes, Locked
  <2>2. \A p \in ReadAt("built") :
          \/ l.syn[p] = ver[p] /\ l.stamp = local[t].stamp
          \/ /\ p \in ReadAt(x) /\ l.syn[p] = local[t].syn[p] /\ l.stamp = local[t].stamp
             /\ "built" \in {"tree", "built"} => x = "tree"
    BY <1>4, <1>10
  <2>3. /\ l.stamp \in {local[t].stamp, Reader!Stamped(ver), Reader!NoStamp}
        /\ l.stamp # Reader!NoStamp => "built" \in {"verify", "edges", "keep"}
    BY <1>2, <1>10
  <2> QED
    BY <1>1, <1>2, <1>3, <1>7, <2>1, <2>2, <2>3, ReadKeeps
<1> QED
  BY <1>8, <1>9, <1>10

\* The edges are read, or the rows of the corpus, or its tree.
LEMMA EdgesKeeps ==
  ASSUME ReaderInv, NEW t \in Threads, Reader!Edges(t) \/ Reader!List(t) \/ Reader!Tree(t)
  PROVE  ReaderInv'
<1>1. Reader!TypeOK
  BY DEF ReaderInv
<1>2. /\ local[t] \in Reader!Locals /\ local[t].syn \in Reader!SynsetVersions
      /\ [local[t].syn EXCEPT !.doc = ver["doc"]] \in Reader!SynsetVersions
      /\ [local[t].syn EXCEPT !.edge = ver["edge"], !.spec = local[t].alphabet] \in Reader!SynsetVersions
  BY <1>1, SynType
<1>4. CASE Reader!List(t)
  <2> DEFINE l == [local[t] EXCEPT !.syn.doc = ver["doc"]]
  <2>1. /\ l \in Reader!Locals /\ l.begun = local[t].begun /\ l.polled = local[t].polled
        /\ l.gen = local[t].gen /\ l.stamp = local[t].stamp /\ l.ent = local[t].ent
        /\ l.syn = [local[t].syn EXCEPT !.doc = ver["doc"]]
    BY <1>2 DEF Reader!Locals
  <2>2. l.syn["doc"] = ver["doc"]
    BY <1>2, <2>1 DEF Reader!SynsetVersions
  <2>3. /\ Reader!At(t, "list") /\ Reader!Do(t, <<>>, l)
        /\ UNCHANGED <<mark, gen, ready, spec, specGen, specStamp, cache, index, indexGen, lock>>
    BY <1>4 DEF Reader!List, Reader!gateVars, Reader!specVars, Reader!indexVars
  <2> HIDE DEF l
  <2>4. /\ l \in Reader!Locals /\ l.begun = local[t].begun /\ l.polled = local[t].polled
        /\ l.gen = local[t].gen /\ l.stamp = local[t].stamp /\ l.ent = local[t].ent
        /\ l.syn["doc"] = ver["doc"]
    BY <2>1, <2>2
  <2> QED
    BY <2>3, <2>4, OnKeeps
<1>5. CASE Reader!Edges(t) \/ Reader!Tree(t)
  <2> DEFINE l == [local[t] EXCEPT !.syn.edge = ver["edge"], !.syn.spec = local[t].alphabet]
  <2>1. /\ l \in Reader!Locals /\ l.begun = local[t].begun /\ l.polled = local[t].polled
        /\ l.gen = local[t].gen /\ l.stamp = local[t].stamp /\ l.ent = local[t].ent
        /\ l.syn = [local[t].syn EXCEPT !.edge = ver["edge"], !.spec = local[t].alphabet]
    BY <1>2 DEF Reader!Locals
  <2>2. l.syn["edge"] = ver["edge"] /\ l.syn["doc"] = local[t].syn["doc"]
    BY <1>2, <2>1 DEF Reader!SynsetVersions
  <2>3. PICK x \in {"edges", "tree"} : Reader!At(t, x)
    BY <1>5 DEF Reader!Edges, Reader!Tree
  <2>4. /\ Reader!Do(t, <<>>, l)
        /\ UNCHANGED <<mark, gen, ready, spec, specGen, specStamp, cache, index, indexGen, lock>>
    BY <1>5 DEF Reader!Edges, Reader!Tree, Reader!gateVars, Reader!specVars, Reader!indexVars
  <2> HIDE DEF l
  <2>5. /\ l \in Reader!Locals /\ l.begun = local[t].begun /\ l.polled = local[t].polled
        /\ l.gen = local[t].gen /\ l.stamp = local[t].stamp /\ l.ent = local[t].ent
        /\ l.syn["edge"] = ver["edge"] /\ l.syn["doc"] = local[t].syn["doc"]
    BY <2>1, <2>2
  <2> QED
    BY <2>3, <2>4, <2>5, OnKeeps
<1> QED
  BY <1>4, <1>5

----------------------------------------------------------------------------
\* The index

\* The thread that holds the lock is the only one that loads; if nobody does, nobody loads.
LEMMA OneLoads ==
  ASSUME ReaderInv, NEW t \in Threads, lock \in {t, NoThread}
  PROVE  \A u \in Threads \ {t} : Place(u) \notin {"tree", "built"}
BY ReaderAssumption DEF ReaderInv, LockInv, Reader!OntologyCacheAssumption

\* A thread is about to answer from an index that is as new as its lookup.
LEMMA AnswerHolds ==
  ASSUME Reader!TypeOK, NEW t \in Threads, ThreadInv(t), Steadily(t), todo'[t] # <<>>,
         Place(t)' = "answer",
         local'[t].polled = local[t].polled, local'[t].begun = local[t].begun,
         local'[t].gen = local[t].gen, local'[t].stamp = Reader!NoStamp, Bounded(local'[t].ent),
         index' # Reader!NoSynset => \A p \in Reader!Rows : local[t].begun[p] <= index'[p]
  PROVE  ThreadInv(t)'
<1>1. UNCHANGED <<written, ver, mark, gen>> /\ Read(t)' = {}
  BY DEF Steadily, Read, ReadAt
<1>2. BegunInv(t)'
  <2>1. todo'[t] # <<"gate", "fresh", "ready">>
    BY ReadyPlaces DEF Place, Opening
  <2> QED
    BY <1>1, <2>1 DEF ThreadInv, BegunInv
<1>3. StampInv(t)'
  BY <1>1 DEF StampInv, Bounded
<1> QED
  BY <1>1, <1>2, <1>3 DEF ThreadInv, SynInv, LoadInv, AnswerInv

\* A load of the index begins, unless another thread loaded it.
LEMMA LoadKeeps == ASSUME ReaderInv, NEW t \in Threads, Reader!Load(t) PROVE ReaderInv'
<1>1. /\ Reader!At(t, "load") /\ "load" \in Mains /\ lock = NoThread
      /\ UNCHANGED <<mark, gen, ready, spec, specGen, specStamp, cache, index, indexGen>>
  BY DEF Reader!Load, Reader!gateVars, Reader!specVars, Reader!indexVars, Mains
<1>2. Place(t) = "load" /\ ~Unobserved(t)
  BY <1>1, AtPlace DEF ReaderInv
<1>3. /\ local[t].stamp = Reader!NoStamp /\ Bounded(local[t].ent) /\ local[t].gen <= gen
      /\ local[t] \in Reader!Locals /\ ready \in {"unknown", "yes", "no"} /\ gen \in Nat
  BY <1>2, Unstamped
<1>4. After("load") = <<>>
  BY AfterIs DEF Mains
<1>5. Reader!TypeOK /\ PlacesInv /\ LockInv /\ CacheHolds /\ ThreadInv(t) /\ Bounds /\ IndexInv
  BY DEF ReaderInv, CacheHolds
<1>6. CASE Reader!Loaded /\ lock' = lock /\ Reader!Do(t, <<"answer">>, local[t])
  <2>1. /\ <<"answer">> \in Seq(Reader!Steps)
        /\ <<"answer">> \o After("load") = <<>> \o <<"answer">> \o After("answer")
    <3>1. /\ "load" \in Mains \ {"edges", "list", "tree"}
          /\ "answer" \in Mains \ {"edges", "list", "tree"}
      BY DEF Mains
    <3> QED
      BY <3>1, HelpersType, Straight
  <2>2. Goes(t, "load", <<"answer">>, local[t], <<>>, "answer")
    BY <1>1, <1>6, <2>1 DEF Goes, Locked
  <2>3. "answer" \in Mains \ {"ready"}
    BY DEF Mains
  <2>4. /\ Steadily(t) /\ todo'[t] # <<>> /\ Place(t)' = "answer"
        /\ todo' \in [Threads -> Seq(Reader!Steps)] /\ local' \in [Threads -> Reader!Locals]
        /\ local'[t] = local[t] /\ answer' = Reader!NoAnswer
        /\ PlacesInv' /\ LockInv' /\ lock' \in Threads \cup {NoThread}
    BY <1>1, <1>3, <2>1, <2>2, <2>3, HelpersType, MainKeeps
  <2>5. \A p \in Reader!Rows : local[t].begun[p] <= index'[p]
    BY <1>1, <1>2, <1>5, <1>6 DEF Reader!Loaded, IndexInv, Reaches
  <2>6. ThreadInv(t)'
    BY <1>3, <1>5, <2>4, <2>5, AnswerHolds
  <2>7. CacheHolds'
    BY <1>1, <1>5, <2>4, <2>6, OneLoads, CacheHoldsOn
  <2>8. Reader!FreshSynset'
    BY <2>4, NothingAnswered
  <2>9. /\ ready' \in {"unknown", "yes", "no"} /\ spec' \in Reader!Versions \cup {Reader!NotRead}
        /\ specGen' \in Nat /\ specStamp' \in Reader!Versions \cup {Reader!NotRead}
        /\ cache' \in Reader!Entries /\ index' \in Reader!SynsetVersions /\ indexGen' \in Nat
    BY <1>1, <1>5 DEF Reader!TypeOK
  <2> QED
    BY <2>4, <2>7, <2>8, <2>9, NoAnswerType, StateIs
<1>7. CASE /\ lock' = t
           /\ Reader!Do(t, Reader!Observe \o Reader!LangSpec \o <<"list">> \o Reader!LangSpec \o <<"tree">> \o Reader!Observe
                    \o <<"built">>, [local[t] EXCEPT !.gen = gen])
  <2> DEFINE l == [local[t] EXCEPT !.gen = gen]
             calls == Reader!Observe \o Reader!LangSpec \o <<"list">> \o Reader!LangSpec
                        \o <<"tree">> \o Reader!Observe \o <<"built">>
             hs == Reader!Observe \o Reader!LangSpec
  <2>1. /\ l \in Reader!Locals /\ l.begun = local[t].begun /\ l.polled = local[t].polled
        /\ l.gen <= gen /\ l.stamp = Reader!NoStamp /\ l.ent = local[t].ent
    BY <1>3 DEF Reader!Locals
  <2>2. Reader!Do(t, calls, l)
    BY <1>7
  <2> HIDE DEF l
  <2>3. /\ hs \in Seq(Helpers) /\ calls \in Seq(Reader!Steps)
        /\ calls = hs \o <<"list">> \o After("list")
    BY HelpersType, Associates, AfterIs
  <2> HIDE DEF calls, hs
  <2>4. calls \o After("load") = hs \o <<"list">> \o After("list")
    BY <1>4, <2>3, ConcatEmptySeq
  <2>5. Goes(t, "load", calls, l, hs, "list")
    BY <1>1, <1>7, <2>1, <2>2, <2>4 DEF Goes, Locked
  <2>6. Bounded(l.ent) /\ "list" \in Mains \ {"ready"}
    BY <1>3, <2>1 DEF Mains
  <2>7. /\ "load" \in Mains /\ l \in Reader!Locals /\ calls \in Seq(Reader!Steps)
        /\ hs \in Seq(Helpers)
        /\ l.polled = local[t].polled /\ l.gen <= gen /\ l.stamp = Reader!NoStamp
        /\ UNCHANGED <<spec, specGen, specStamp, cache, index, indexGen>>
        /\ ready' \in {"unknown", "yes", "no"}
    BY <1>1, <1>3, <2>1, <2>3
  <2> QED
    BY <2>5, <2>6, <2>7, PlaceKeeps
<1> QED
  BY <1>6, <1>7 DEF Reader!Load

\* The index is there, of the generation its load began in.
LEMMA BuiltKeeps == ASSUME ReaderInv, NEW t \in Threads, Reader!Built(t) PROVE ReaderInv'
<1>1. /\ Reader!At(t, "built") /\ "built" \in Mains /\ index' = local[t].syn
      /\ indexGen' = local[t].gen
      /\ lock' = NoThread /\ Reader!Do(t, <<"answer">>, local[t])
      /\ UNCHANGED <<mark, gen, ready, spec, specGen, specStamp, cache>>
  BY DEF Reader!Built, Reader!BuiltAt, Reader!Unlocked, Reader!gateVars, Reader!specVars, Mains
<1>2. Place(t) = "built"
  BY <1>1, AtPlace DEF ReaderInv
<1>3. /\ local[t].stamp = Reader!NoStamp /\ Bounded(local[t].ent) /\ local[t].gen <= gen
      /\ local[t] \in Reader!Locals /\ gen \in Nat
  BY <1>2, Unstamped
<1>4. /\ Reader!TypeOK /\ PlacesInv /\ LockInv /\ CacheHolds /\ ThreadInv(t) /\ Bounds /\ CacheInv
      /\ lock = t
  BY <1>2 DEF ReaderInv, CacheHolds, LockInv
<1>5. /\ <<"answer">> \in Seq(Reader!Steps)
      /\ <<"answer">> \o After("built") = <<>> \o <<"answer">> \o After("answer")
  <2>1. /\ "built" \in Mains \ {"edges", "list", "tree"}
        /\ "answer" \in Mains \ {"edges", "list", "tree"}
    BY DEF Mains
  <2> QED
    BY <2>1, HelpersType, Straight
<1>6. Goes(t, "built", <<"answer">>, local[t], <<>>, "answer")
  BY <1>1, <1>5 DEF Goes, Locked
<1>7. "answer" \in Mains \ {"ready"}
  BY DEF Mains
<1>8. /\ Steadily(t) /\ todo'[t] # <<>> /\ Place(t)' = "answer"
      /\ todo' \in [Threads -> Seq(Reader!Steps)] /\ local' \in [Threads -> Reader!Locals]
      /\ local'[t] = local[t] /\ answer' = Reader!NoAnswer
      /\ PlacesInv' /\ LockInv' /\ lock' \in Threads \cup {NoThread}
  BY <1>1, <1>3, <1>5, <1>6, <1>7, HelpersType, MainKeeps
<1>9. UNCHANGED <<written, ver, mark, gen>>
  BY <1>8 DEF Steadily
<1>10. ASSUME NEW p \in Reader!Rows
       PROVE  /\ local[t].begun[p] <= local[t].syn[p] /\ local[t].syn[p] <= ver[p]
              /\ local[t].gen = gen => Reaches(local[t].syn[p], p)
              /\ \A u \in Threads : Place(u) = "answer" => local[u].begun[p] <= local[t].syn[p]
  <2>1. p \in Read(t)
    BY <1>2 DEF Read, ReadAt
  <2> QED
    BY <1>2, <1>4, <2>1 DEF ThreadInv, SynInv, LoadInv
<1>11. ThreadInv(t)'
  BY <1>1, <1>3, <1>4, <1>8, <1>10, AnswerHolds
<1>12. ASSUME NEW u \in Threads \ {t} PROVE ThreadInv(u)'
  <2>1. Place(u) \notin {"tree", "built"}
    BY <1>4, OneLoads
  <2>2. BegunInv(u)' /\ StampInv(u)' /\ SynInv(u)' /\ LoadInv(u)' /\ Place(u)' = Place(u)
    BY <1>4, <1>8, <2>1, OthersStay DEF CacheHolds, ThreadInv
  <2>3. AnswerInv(u)'
    BY <1>1, <1>8, <1>10, <2>2 DEF AnswerInv, Steadily
  <2> QED
    BY <2>2, <2>3 DEF ThreadInv
<1>13. IndexInv'
  <2> SUFFICES ASSUME NEW p \in Reader!Rows
               PROVE  index'[p] <= ver'[p] /\ (indexGen' = gen' => Reaches(index[p], p)')
    BY DEF IndexInv
  <2>1. PICK v \in Nat : v = local[t].syn[p]
    BY <1>4, RowTypes
  <2>2. Reaches(v, p) => Reaches(v, p)'
    BY <1>4, <1>8, ReachesStays
  <2> QED
    BY <1>1, <1>9, <1>10, <2>1, <2>2
<1>14. CacheInv'
  BY <1>1, <1>4, <1>8, CacheStays
<1>15. Bounds'
  BY <1>1, <1>3, <1>4, <1>9 DEF Bounds
<1>16. CacheHolds'
  BY <1>11, <1>12, <1>13, <1>14, <1>15 DEF CacheHolds
<1>17. Reader!FreshSynset'
  BY <1>8, NothingAnswered
<1>18. /\ ready' \in {"unknown", "yes", "no"} /\ spec' \in Reader!Versions \cup {Reader!NotRead}
       /\ specGen' \in Nat /\ specStamp' \in Reader!Versions \cup {Reader!NotRead}
       /\ cache' \in Reader!Entries /\ index' \in Reader!SynsetVersions /\ indexGen' \in Nat
  BY <1>1, <1>3, <1>4 DEF Reader!TypeOK, Reader!Locals
<1> QED
  BY <1>8, <1>16, <1>17, <1>18, NoAnswerType, StateIs

----------------------------------------------------------------------------
\* Ends

\* The lookup of t ends and answers, or raises.
Ends(t) ==
  /\ todo' = [todo EXCEPT ![t] = <<>>] /\ local' = [local EXCEPT ![t] = Reader!Clean]
  /\ UNCHANGED <<written, ver, mark, gen, ready, spec, specGen, specStamp, index, indexGen, lock>>

\* A lookup ends at x with what it caches and what it answers.
LEMMA EndKeeps ==
  ASSUME ReaderInv, NEW t \in Threads, NEW x \in Mains \ Locked, Reader!At(t, x), Ends(t),
         cache' \in Reader!Entries, cache'.gen <= gen, CacheInv', Reader!FreshSynset',
         answer' \in [given : BOOLEAN, syn : Reader!SynsetVersions, begun : Reader!SynsetVersions]
  PROVE  ReaderInv'
<1>1. Reader!TypeOK /\ PlacesInv /\ LockInv /\ CacheHolds /\ Bounds /\ IndexInv
  BY DEF ReaderInv, CacheHolds
<1>2. /\ todo' \in [Threads -> Seq(Reader!Steps)] /\ local' \in [Threads -> Reader!Locals]
      /\ PlacesInv'
      /\ todo'[t] = <<>> /\ local'[t] = Reader!Clean /\ Place(t)' = "rest"
      /\ \A u \in Threads \ {t} : todo'[u] = todo[u] /\ local'[u] = local[u]
  BY <1>1, EndStep DEF Ends
<1>3. UNCHANGED <<written, ver, mark, gen>> /\ UNCHANGED <<index, indexGen>> /\ lock' = lock
  BY DEF Ends
<1>4. Steadily(t)
  BY <1>2, <1>3 DEF Steadily
<1>5. ThreadInv(t)'
  BY <1>1, <1>2, <1>3, EndHolds
<1>6. ASSUME NEW u \in Threads \ {t} PROVE ThreadInv(u)'
  <2>1. BegunInv(u)' /\ StampInv(u)' /\ SynInv(u)' /\ LoadInv(u)' /\ Place(u)' = Place(u)
    BY <1>1, <1>2, <1>4, OthersStay DEF CacheHolds, ThreadInv
  <2>2. AnswerInv(u)'
    BY <1>1, <1>2, <1>3, <2>1 DEF AnswerInv, CacheHolds, ThreadInv
  <2> QED
    BY <2>1, <2>2 DEF ThreadInv
<1>7. IndexInv'
  BY <1>1, <1>3, <1>4, IndexStays
<1>8. Bounds'
  BY <1>1, <1>3 DEF Bounds
<1>9. CacheHolds'
  BY <1>5, <1>6, <1>7, <1>8 DEF CacheHolds
<1>10. Place(t) = x /\ \A u \in Threads \ {t} : Place(u)' = Place(u)
  BY <1>1, <1>2, AtPlace DEF Place
<1>11. LockInv'
  BY <1>1, <1>2, <1>3, <1>10 DEF LockInv, Locked
<1>12. lock' \in Threads \cup {NoThread} /\ index' \in Reader!SynsetVersions /\ indexGen' \in Nat
  BY <1>1, <1>3 DEF Reader!TypeOK
<1>13. /\ ready' \in {"unknown", "yes", "no"} /\ spec' \in Reader!Versions \cup {Reader!NotRead}
       /\ specGen' \in Nat /\ specStamp' \in Reader!Versions \cup {Reader!NotRead}
  BY <1>1 DEF Reader!TypeOK, Ends
<1> QED
  BY <1>2, <1>4, <1>9, <1>11, <1>12, <1>13, StateIs

\* What is answered is as new as what the lookup began with.
LEMMA Returns ==
  ASSUME Reader!TypeOK, NEW t \in Threads, NEW syn \in Reader!SynsetVersions, Reader!Return(t,
     syn),
         \A p \in Reader!Rows : local[t].begun[p] <= syn[p]
  PROVE  /\ Reader!FreshSynset' /\ todo' = [todo EXCEPT ![t] = <<>>]
         /\ local' = [local EXCEPT ![t] = Reader!Clean] /\ UNCHANGED <<written, ver>>
         /\ answer' \in [given : BOOLEAN, syn : Reader!SynsetVersions, begun : Reader!SynsetVersions]
<1>1. local[t].begun \in Reader!SynsetVersions
  BY DEF Reader!TypeOK, Reader!Locals
<1>2. \A p \in Reader!Rows : local[t].begun[p] \in Nat /\ syn[p] \in Nat
  <2>1. Reader!Versions \subseteq Nat
    BY ReaderAssumption DEF Reader!OntologyCacheAssumption, Reader!Versions
  <2> QED
    BY <1>1, <2>1 DEF Reader!SynsetVersions, Reader!Rows
<1>3. answer' = [given |-> TRUE, syn |-> syn, begun |-> local[t].begun]
  BY DEF Reader!Return
<1>4. Reader!FreshSynset'
  BY <1>2, <1>3 DEF Reader!FreshSynset
<1> QED
  BY <1>1, <1>3, <1>4 DEF Reader!Return, Reader!storeVars

\* An end is a steady step.
LEMMA EndSteadily ==
  ASSUME ReaderInv, NEW t \in Threads, Ends(t)
  PROVE  Steadily(t) /\ todo'[t] = <<>> /\ local'[t] = Reader!Clean
<1>1. /\ todo'[t] = <<>> /\ local'[t] = Reader!Clean
      /\ \A u \in Threads \ {t} : todo'[u] = todo[u] /\ local'[u] = local[u]
  BY EndStep DEF Ends, ReaderInv
<1> QED
  BY <1>1 DEF Steadily, Ends

\* A lookup ends and caches nothing.
LEMMA SameCacheEnds ==
  ASSUME ReaderInv, NEW t \in Threads, NEW x \in Mains \ Locked, Reader!At(t, x), Ends(t),
         cache' = cache, Reader!FreshSynset',
         answer' \in [given : BOOLEAN, syn : Reader!SynsetVersions, begun : Reader!SynsetVersions]
  PROVE  ReaderInv'
<1>1. Reader!TypeOK /\ CacheInv /\ Bounds
  BY DEF ReaderInv, CacheHolds
<1>2. cache' \in Reader!Entries /\ cache'.gen <= gen
  BY <1>1 DEF Bounds, Reader!TypeOK
<1>3. CacheInv'
  BY <1>1, EndSteadily, CacheStays
<1> QED
  BY <1>2, <1>3, EndKeeps

\* The cached synset is of this generation: it is answered.
LEMMA GetHitKeeps ==
  ASSUME ReaderInv, NEW t \in Threads, Reader!Get(t), Reader!Hit, Reader!Return(t, cache.syn)
  PROVE  ReaderInv'
<1>1. /\ Reader!At(t, "get") /\ "get" \in Mains \ Locked
      /\ UNCHANGED <<mark, gen, ready, spec, specGen, specStamp, cache, index, indexGen, lock>>
  BY DEF Reader!Get, Reader!gateVars, Reader!specVars, Reader!indexVars, Mains, Locked
<1>2. /\ Reader!TypeOK /\ PlacesInv /\ CacheInv /\ Bounds /\ cache.syn \in Reader!SynsetVersions
      /\ cache \in Reader!Entries
  BY DEF ReaderInv, CacheHolds, Reader!TypeOK, Reader!Entries
<1>3. ~Unobserved(t)
  BY <1>1, <1>2, AtPlace
<1>4. ASSUME NEW p \in Reader!Rows PROVE local[t].begun[p] <= cache.syn[p]
  <2>1. /\ cache.stamp[p] \in Nat /\ cache.syn[p] \in Nat /\ local[t].begun[p] \in Nat
    BY <1>2, RowTypes
  <2>2. local[t].begun[p] <= cache.stamp[p] /\ cache.stamp[p] <= cache.syn[p]
    BY <1>2, <1>3 DEF CacheInv, Bounded, Reaches, Reader!Hit
  <2> QED
    BY <2>1, <2>2
<1>5. /\ Reader!FreshSynset' /\ Ends(t)
      /\ answer' \in [given : BOOLEAN, syn : Reader!SynsetVersions, begun : Reader!SynsetVersions]
  BY <1>1, <1>2, <1>4, Returns DEF Ends
<1> QED
  BY <1>1, <1>5, SameCacheEnds

\* The index is of this generation: it is answered from.
LEMMA IndexHitKeeps ==
  ASSUME ReaderInv, NEW t \in Threads, Reader!Index(t), Reader!Loaded, Reader!Return(t, index)
  PROVE  ReaderInv'
<1>1. /\ Reader!At(t, "index") /\ "index" \in Mains \ Locked
      /\ UNCHANGED <<mark, gen, ready, spec, specGen, specStamp, cache, index, indexGen, lock>>
  BY DEF Reader!Index, Reader!gateVars, Reader!specVars, Reader!indexVars, Mains, Locked
<1>2. Reader!TypeOK /\ PlacesInv /\ IndexInv /\ index \in Reader!SynsetVersions
  BY DEF ReaderInv, CacheHolds, Reader!TypeOK
<1>3. ~Unobserved(t)
  BY <1>1, <1>2, AtPlace
<1>4. \A p \in Reader!Rows : local[t].begun[p] <= index[p]
  BY <1>2, <1>3 DEF IndexInv, Reader!Loaded, Reaches
<1>5. /\ Reader!FreshSynset' /\ Ends(t)
      /\ answer' \in [given : BOOLEAN, syn : Reader!SynsetVersions, begun : Reader!SynsetVersions]
  BY <1>1, <1>2, <1>4, Returns DEF Ends
<1> QED
  BY <1>1, <1>5, SameCacheEnds

\* A lookup answers from the index that is there, or fails when it was dropped.
LEMMA AnswerKeeps == ASSUME ReaderInv, NEW t \in Threads, Reader!Answer(t) PROVE ReaderInv'
<1>1. /\ Reader!At(t, "answer") /\ "answer" \in Mains \ Locked
      /\ UNCHANGED <<mark, gen, ready, spec, specGen, specStamp, cache, index, indexGen, lock>>
  BY DEF Reader!Answer, Reader!gateVars, Reader!specVars, Reader!indexVars, Mains, Locked
<1>2. Reader!TypeOK /\ PlacesInv /\ AnswerInv(t) /\ index \in Reader!SynsetVersions
  BY DEF ReaderInv, CacheHolds, ThreadInv, Reader!TypeOK
<1>3. Place(t) = "answer"
  BY <1>1, <1>2, AtPlace
<1>4. CASE index # Reader!NoSynset /\ Reader!Return(t, index)
  <2>1. \A p \in Reader!Rows : local[t].begun[p] <= index[p]
    BY <1>2, <1>3, <1>4 DEF AnswerInv
  <2>2. /\ Reader!FreshSynset' /\ Ends(t)
        /\ answer' \in [given : BOOLEAN, syn : Reader!SynsetVersions, begun : Reader!SynsetVersions]
    BY <1>1, <1>2, <1>4, <2>1, Returns DEF Ends
  <2> QED
    BY <1>1, <2>2, SameCacheEnds
<1>5. CASE /\ todo' = [todo EXCEPT ![t] = <<>>] /\ local' = [local EXCEPT ![t] = Reader!Clean]
           /\ answer' = Reader!NoAnswer /\ UNCHANGED Reader!storeVars
  <2>1. Ends(t)
    BY <1>1, <1>5 DEF Ends, Reader!storeVars
  <2>2. Reader!FreshSynset'
    BY <1>5, NothingAnswered
  <2> QED
    BY <1>1, <1>5, <2>1, <2>2, NoAnswerType, SameCacheEnds
<1> QED
  BY <1>4, <1>5 DEF Reader!Answer

\* A synset is kept, or kept for longer, with a stamp of the generation it was taken in.
LEMMA EntryKeeps ==
  ASSUME ReaderInv, NEW t \in Threads, NEW x \in Mains \ Locked, Reader!At(t, x), Ends(t),
         NEW syn \in Reader!SynsetVersions, cache' = Reader!Entry(t, syn),
            local[t].stamp # Reader!NoStamp,
         \A p \in Reader!Rows : local[t].stamp[p] <= syn[p] /\ syn[p] <= ver[p],
         Reader!FreshSynset',
         answer' \in [given : BOOLEAN, syn : Reader!SynsetVersions, begun : Reader!SynsetVersions]
  PROVE  ReaderInv'
<1>1. Reader!TypeOK /\ ThreadInv(t) /\ local[t] \in Reader!Locals /\ UNCHANGED <<ver, gen>>
  BY DEF ReaderInv, CacheHolds, Reader!TypeOK, Ends
<1>2. cache' = [gen |-> local[t].gen, stamp |-> local[t].stamp, syn |-> syn]
  BY DEF Reader!Entry
<1>3. cache' \in Reader!Entries /\ cache'.gen <= gen
  BY <1>1, <1>2 DEF Reader!Entries, Reader!Locals, ThreadInv, BegunInv
<1>4. Bounded(cache)'
  BY <1>1, <1>2 DEF Bounded
<1>5. ASSUME NEW p \in Reader!Rows, cache'.gen = gen' PROVE Reaches(cache.stamp[p], p)'
  <2>1. PICK v \in Nat : v = local[t].stamp[p]
    BY <1>1, RowTypes
  <2>2. Reaches(v, p)
    BY <1>1, <1>2, <1>5, <2>1 DEF ThreadInv, StampInv
  <2>3. Reaches(v, p)'
    BY <1>1, <2>2, EndSteadily, ReachesStays
  <2> QED
    BY <1>2, <2>1, <2>3
<1>6. CacheInv'
  BY <1>4, <1>5 DEF CacheInv
<1> QED
  BY <1>3, <1>6, EndKeeps

\* The entry is verified: it is cached as of the generation that was captured.
LEMMA VerifyHitKeeps ==
  ASSUME ReaderInv, NEW t \in Threads, Reader!Verify(t), Reader!Same(local[t].ent, local[t].stamp)
  PROVE  ReaderInv'
<1>1. /\ Reader!At(t, "verify") /\ "verify" \in Mains \ Locked
      /\ cache' = Reader!Entry(t, local[t].ent.syn) /\ Reader!Return(t, local[t].ent.syn)
      /\ UNCHANGED <<mark, gen, ready, spec, specGen, specStamp, index, indexGen, lock>>
  BY DEF Reader!Verify, Reader!gateVars, Reader!specVars, Reader!indexVars, Mains, Locked
<1>2. Reader!TypeOK /\ ThreadInv(t) /\ local[t].ent.syn \in Reader!SynsetVersions
  BY DEF ReaderInv, CacheHolds, Reader!TypeOK, Reader!Locals, Reader!Entries
<1>3. local[t].stamp # Reader!NoStamp /\ local[t].ent.stamp = local[t].stamp
  BY DEF Reader!Same
<1>4. ASSUME NEW p \in Reader!Rows
      PROVE  /\ local[t].stamp[p] <= local[t].ent.syn[p] /\ local[t].ent.syn[p] <= ver[p]
             /\ local[t].begun[p] <= local[t].ent.syn[p]
  <2>1. /\ local[t].stamp[p] \in Nat /\ local[t].ent.syn[p] \in Nat /\ local[t].begun[p] \in Nat
    BY <1>2, RowTypes
  <2>2. /\ local[t].ent.stamp[p] <= local[t].ent.syn[p] /\ local[t].ent.syn[p] <= ver[p]
        /\ local[t].begun[p] <= local[t].stamp[p]
    BY <1>2, <1>3 DEF ThreadInv, StampInv, Bounded
  <2> QED
    BY <1>3, <2>1, <2>2
<1>5. /\ Reader!FreshSynset' /\ Ends(t)
      /\ answer' \in [given : BOOLEAN, syn : Reader!SynsetVersions, begun : Reader!SynsetVersions]
  BY <1>1, <1>2, <1>4, Returns DEF Ends
<1> QED
  BY <1>1, <1>2, <1>3, <1>4, <1>5, EntryKeeps

\* The entry is verified, or the row is read.
LEMMA VerifyKeeps == ASSUME ReaderInv, NEW t \in Threads, Reader!Verify(t) PROVE ReaderInv'
BY VerifyHitKeeps, VerifyMissKeeps

\* The new synset is cached, and answered.
LEMMA KeepKeeps == ASSUME ReaderInv, NEW t \in Threads, Reader!Keep(t) PROVE ReaderInv'
<1>1. /\ Reader!At(t, "keep") /\ "keep" \in Mains \ Locked /\ Reader!Return(t, local[t].syn)
      /\ cache' = IF local[t].stamp = Reader!NoStamp THEN cache ELSE Reader!Entry(t, local[t].syn)
      /\ UNCHANGED <<mark, gen, ready, spec, specGen, specStamp, index, indexGen, lock>>
  BY DEF Reader!Keep, Reader!gateVars, Reader!specVars, Reader!indexVars, Mains, Locked
<1>2. Reader!TypeOK /\ PlacesInv /\ SynInv(t) /\ local[t].syn \in Reader!SynsetVersions
  BY DEF ReaderInv, CacheHolds, ThreadInv, Reader!TypeOK, Reader!Locals
<1>3. Read(t) = Reader!Rows
  BY <1>1, <1>2, AtPlace DEF Read, ReadAt
<1>4. \A p \in Reader!Rows : /\ local[t].stamp[p] <= local[t].syn[p] /\ local[t].syn[p] <= ver[p]
                      /\ local[t].begun[p] <= local[t].syn[p]
  BY <1>2, <1>3 DEF SynInv
<1>5. /\ Reader!FreshSynset' /\ Ends(t)
      /\ answer' \in [given : BOOLEAN, syn : Reader!SynsetVersions, begun : Reader!SynsetVersions]
  BY <1>1, <1>2, <1>4, Returns DEF Ends
<1> QED
  BY <1>1, <1>2, <1>4, <1>5, EntryKeeps, SameCacheEnds

\* _get_synset begins.
LEMMA GetKeeps == ASSUME ReaderInv, NEW t \in Threads, Reader!Get(t) PROVE ReaderInv'
BY GetHitKeeps, GetMissKeeps DEF Reader!Get

\* _index begins.
LEMMA IndexKeeps == ASSUME ReaderInv, NEW t \in Threads, Reader!Index(t) PROVE ReaderInv'
BY IndexHitKeeps, IndexMissKeeps DEF Reader!Index

----------------------------------------------------------------------------
\* The observation of the mark, the begin of a lookup, and writes by others

\* The mark did not move.
LEMMA GateSameKeeps ==
  ASSUME ReaderInv, NEW t \in Threads, Reader!Gate(t), local[t].polled = mark PROVE ReaderInv'
<1>1. /\ Reader!TypeOK /\ Bounds /\ ThreadInv(t) /\ local[t] \in Reader!Locals
      /\ 0 \in Reader!Versions
  BY ReaderAssumption
  DEF ReaderInv, CacheHolds, Reader!TypeOK, Reader!Versions, Reader!OntologyCacheAssumption
<1> DEFINE l == [local[t] EXCEPT !.polled = 0]
<1>2. /\ l \in Reader!Locals
      /\ l.polled = 0 /\ l.begun = local[t].begun /\ l.gen = local[t].gen
      /\ l.ent = local[t].ent /\ l.stamp = local[t].stamp /\ l.syn = local[t].syn
  BY <1>1 DEF Reader!Locals
<1>3. /\ Reader!At(t, "gate") /\ "gate" \in Helpers /\ Reader!Do(t, <<>>, l)
      /\ UNCHANGED <<mark, gen, ready, spec, specGen, specStamp, cache, index, indexGen, lock>>
  BY DEF Reader!Gate, Helpers, Reader!gateVars, Reader!specVars
<1> HIDE DEF l
<1>4. 0 <= written
  <2>1. "doc" \in Reader!Rows
    BY DEF Reader!Rows
  <2> QED
    BY <1>1, <2>1, RowTypes
<1>5. ASSUME Place(t) = "ready"
      PROVE  /\ todo[t] = <<"gate", "fresh", "ready">>
             /\ <<>> \o Tail(todo[t]) = <<"fresh", "ready">>
  BY <1>3, <1>5, OpeningRuns, OpeningSteps DEF Reader!At
<1>6. <<"fresh", "ready">> \in Opened /\ <<"fresh", "ready">> \notin Opening
  BY OpenedApart DEF Opened
<1>7. ASSUME Place(t) = "ready" PROVE \A p \in Reader!Rows : local[t].begun[p] <= mark
  BY <1>1, <1>5, <1>7 DEF ThreadInv, BegunInv
<1>8. ASSUME Place(t) = "ready"
      PROVE  /\ <<>> \o Tail(todo[t]) \in Opening \cup Opened
             /\ <<>> \o Tail(todo[t]) \notin Opening
             /\ <<>> \o Tail(todo[t]) # <<"gate", "fresh", "ready">>
  BY <1>5, <1>6, <1>8 DEF Opening
<1>9. /\ ready' \in {"unknown", "yes", "no"} /\ spec' \in Reader!Versions \cup {Reader!NotRead}
      /\ specGen' \in Nat /\ specStamp' \in Reader!Versions \cup {Reader!NotRead}
  BY <1>1, <1>3 DEF Reader!TypeOK
<1> QED
  BY <1>2, <1>3, <1>4, <1>7, <1>8, <1>9, HelpersType, HelperKeeps

\* A move of the mark: of the new generation there is nothing yet.
LEMMA GateMovesKeeps ==
  ASSUME ReaderInv, NEW t \in Threads, Reader!Gate(t), local[t].polled # mark PROVE ReaderInv'
<1>1. /\ Reader!TypeOK /\ PlacesInv /\ LockInv /\ CacheHolds /\ Bounds /\ CacheInv
      /\ local[t] \in Reader!Locals /\ 0 \in Reader!Versions
  BY ReaderAssumption
  DEF ReaderInv, CacheHolds, Reader!TypeOK, Reader!Versions, Reader!OntologyCacheAssumption
<1> DEFINE l == [local[t] EXCEPT !.polled = 0]
<1>2. /\ l \in Reader!Locals
      /\ l.polled = 0 /\ l.begun = local[t].begun /\ l.gen = local[t].gen
      /\ l.ent = local[t].ent /\ l.stamp = local[t].stamp /\ l.syn = local[t].syn
  BY <1>1 DEF Reader!Locals
<1>3. /\ Reader!At(t, "gate") /\ "gate" \in Helpers /\ Reader!Do(t, <<>>, l)
      /\ mark' = local[t].polled /\ gen' = gen + 1 /\ index' = Reader!NoSynset
      /\ UNCHANGED <<ready, spec, specGen, specStamp, cache, indexGen, lock>>
  BY DEF Reader!Gate, Helpers, Reader!specVars
<1> HIDE DEF l
<1>4. ASSUME Place(t) = "ready"
      PROVE  <<>> \o Tail(todo[t]) = <<"fresh", "ready">>
  BY <1>3, <1>4, OpeningRuns, OpeningSteps DEF Reader!At
<1>5. /\ <<"fresh", "ready">> \in Opened /\ <<"fresh", "ready">> \notin Opening
      /\ <<"gate", "fresh", "ready">> \in Opening
  BY OpenedApart DEF Opened, Opening
<1>6. <<>> \in Seq(Helpers) /\ <<>> \in Seq(Reader!Steps) /\ todo[t] # <<>>
  BY <1>3 DEF Reader!At
<1>7. todo'[t] # <<>> /\ Place(t)' = Place(t) /\ Place(t) \in Mains /\ PlacesInv'
  BY <1>1, <1>2, <1>3, <1>4, <1>5, <1>6, HelperStep
<1>8. /\ todo' \in [Threads -> Seq(Reader!Steps)] /\ local' \in [Threads -> Reader!Locals]
      /\ todo'[t] = <<>> \o Tail(todo[t]) /\ local'[t] = l
      /\ \A u \in Threads \ {t} : todo'[u] = todo[u] /\ local'[u] = local[u]
      /\ answer' = Reader!NoAnswer /\ UNCHANGED <<written, ver>>
  BY <1>1, <1>2, <1>3, <1>6, DoIs
<1>9. \A u \in Threads : Place(u)' = Place(u) /\ Read(u)' = Read(u)
  BY <1>7, <1>8 DEF Place, Read
<1>10. gen \in Nat /\ gen >= 1 /\ written \in Nat
  <2>1. "doc" \in Reader!Rows
    BY DEF Reader!Rows
  <2> QED
    BY <1>1, <2>1, RowTypes DEF Bounds
<1>11. todo'[t] # <<"gate", "fresh", "ready">>
  <2>1. CASE Place(t) = "ready"
    BY <1>4, <1>5, <1>8, <2>1
  <2>2. CASE Place(t) # "ready"
    BY <1>5, <1>7, <2>2, ReadyPlaces DEF Place
  <2> QED
    BY <2>1, <2>2
<1>12. ASSUME NEW u \in Threads
       PROVE  /\ local'[u].begun = local[u].begun /\ local'[u].gen = local[u].gen
              /\ local'[u].ent = local[u].ent /\ local'[u].stamp = local[u].stamp
              /\ local'[u].syn = local[u].syn
              /\ local'[u].polled <= written /\ local'[u].gen # gen' /\ local[u].gen <= gen
              /\ local[u].gen \in Nat
  <2>1. "doc" \in Reader!Rows
    BY DEF Reader!Rows
  <2>2. local[u].gen \in Nat /\ local[u].gen <= gen /\ local[u].polled <= written
    BY <1>1, <2>1, RowTypes DEF CacheHolds, ThreadInv, BegunInv
  <2>3. CASE u = t
    BY <1>2, <1>3, <1>8, <1>10, <2>2, <2>3
  <2>4. CASE u # t
    BY <1>3, <1>8, <1>10, <2>2, <2>4
  <2> QED
    BY <2>3, <2>4
<1>13. ASSUME NEW u \in Threads PROVE ThreadInv(u)'
  <2>1. BegunInv(u) /\ StampInv(u) /\ SynInv(u) /\ LoadInv(u)
    BY <1>1 DEF CacheHolds, ThreadInv
  <2>2. BegunInv(u)'
    <3>1. local'[u].gen <= gen'
      BY <1>3, <1>10, <1>12
    <3>2. todo'[u] = <<>> => todo[u] = <<>>
      BY <1>7, <1>8
    <3>3. todo'[u] = <<"gate", "fresh", "ready">> => u # t
      BY <1>11
    <3> QED
      BY <1>8, <1>12, <2>1, <3>1, <3>2, <3>3 DEF BegunInv
  <2>3. StampInv(u)'
    BY <1>8, <1>9, <1>12, <2>1 DEF StampInv, Bounded
  <2>4. SynInv(u)'
    BY <1>8, <1>9, <1>12, <2>1 DEF SynInv
  <2>5. LoadInv(u)'
    BY <1>9, <1>12, <2>1 DEF LoadInv
  <2>6. AnswerInv(u)'
    BY <1>3 DEF AnswerInv
  <2> QED
    BY <2>2, <2>3, <2>4, <2>5, <2>6 DEF ThreadInv
<1>14. CacheInv' /\ IndexInv' /\ Bounds'
  <2>1. cache.gen \in Nat /\ indexGen \in Nat /\ cache.gen <= gen /\ indexGen <= gen
    BY <1>1 DEF Bounds, Reader!TypeOK, Reader!Entries
  <2>2. cache'.gen # gen' /\ cache'.gen <= gen' /\ indexGen' <= gen' /\ gen' >= 1
    BY <1>3, <1>10, <2>1
  <2>3. mark' <= written'
    BY <1>1, <1>3, <1>8 DEF CacheHolds, ThreadInv, BegunInv
  <2> QED
    BY <1>1, <1>3, <1>8, <2>2, <2>3 DEF CacheInv, Bounded, IndexInv, Bounds
<1>15. CacheHolds'
  BY <1>13, <1>14 DEF CacheHolds
<1>16. LockInv'
  BY <1>1, <1>3, <1>9 DEF LockInv
<1>17. Reader!TypeOK'
  <2>1. mark' \in Reader!Versions /\ gen' \in Nat /\ index' \in Reader!SynsetVersions
    BY <1>1, <1>3, <1>10, CleanIs DEF Reader!Locals
  <2>2. lock' # NoThread => todo'[lock'] # <<>>
    BY <1>1, <1>3, <1>7, <1>8 DEF Reader!TypeOK
  <2>3. answer' \in [given : BOOLEAN, syn : Reader!SynsetVersions, begun : Reader!SynsetVersions]
    BY <1>8, NoAnswerType
  <2> QED
    BY <1>1, <1>3, <1>8, <2>1, <2>2, <2>3 DEF Reader!TypeOK
<1>18. Reader!FreshSynset'
  BY <1>8, NothingAnswered
<1> QED
  BY <1>7, <1>15, <1>16, <1>17, <1>18 DEF ReaderInv

\* The mark moved or it did not.
LEMMA GateKeeps == ASSUME ReaderInv, NEW t \in Threads, Reader!Gate(t) PROVE ReaderInv'
BY GateSameKeeps, GateMovesKeeps

\* A lookup begins, with what the store holds.
LEMMA BeginKeeps == ASSUME ReaderInv, NEW t \in Threads, Reader!Begin(t) PROVE ReaderInv'
<1>1. Reader!TypeOK /\ PlacesInv /\ LockInv /\ CacheHolds /\ Bounds /\ CacheInv /\ IndexInv
  BY DEF ReaderInv, CacheHolds
<1>2. PICK v0 \in Reader!SynsetVersions : v0 = [doc |-> ver["doc"], edge |-> ver["edge"],
   spec |-> ver["spec"]]
  BY <1>1 DEF Reader!TypeOK, Reader!SynsetVersions, Reader!Parts
<1>3. \A p \in Reader!Rows : v0[p] = ver[p]
  BY <1>2 DEF Reader!Rows
<1>4. /\ todo[t] = <<>> /\ todo' = [todo EXCEPT ![t] = Reader!Observe \o <<"fresh", "ready">>]
      /\ local' = [local EXCEPT ![t] = [local[t] EXCEPT !.begun = v0]] /\ answer' = Reader!NoAnswer
      /\ UNCHANGED <<written, ver, mark, gen, ready, spec, specGen, specStamp, cache,
                     index, indexGen, lock>>
  BY <1>2 DEF Reader!Begin, Reader!storeVars, Reader!gateVars, Reader!specVars, Reader!indexVars
<1> DEFINE whole == Reader!Observe \o <<"fresh", "ready">>
           l == [local[t] EXCEPT !.begun = v0]
<1>5. /\ whole \in Opening /\ whole \in Seq(Reader!Steps) /\ whole # <<>> /\ Leads(whole, "ready")
      /\ PlaceOf(whole) = "ready" /\ whole # <<"gate", "fresh", "ready">>
  <2>1. whole \in Opening
    BY DEF Opening
  <2> QED
    BY <2>1, ReadyPlaces, OpenedApart
<1>6. local[t] \in Reader!Locals
  BY <1>1 DEF Reader!TypeOK
<1>7. /\ l \in Reader!Locals /\ l.begun = v0
      /\ l.polled = local[t].polled /\ l.gen = local[t].gen /\ l.ent = local[t].ent
      /\ l.stamp = local[t].stamp /\ l.syn = local[t].syn
  BY <1>6 DEF Reader!Locals
<1>8. todo' = [todo EXCEPT ![t] = whole] /\ local' = [local EXCEPT ![t] = l]
  BY <1>4
<1> HIDE DEF whole, l
<1>9. /\ todo' \in [Threads -> Seq(Reader!Steps)] /\ local' \in [Threads -> Reader!Locals]
      /\ todo'[t] = whole /\ local'[t] = l
      /\ \A u \in Threads \ {t} : todo'[u] = todo[u] /\ local'[u] = local[u]
  BY <1>1, <1>5, <1>7, <1>8 DEF Reader!TypeOK
<1>10. /\ Place(t) = "rest" /\ Place(t)' = "ready" /\ Unobserved(t)'
       /\ \A u \in Threads \ {t} : Place(u)' = Place(u) /\ Read(u)' = Read(u)
                                   /\ (Unobserved(u)' <=> Unobserved(u))
  <2>1. PlaceOf(todo[t]) = "rest"
    BY <1>4 DEF PlaceOf
  <2>2. PlaceOf(todo'[t]) = "ready" /\ todo'[t] \in Opening
    BY <1>5, <1>9
  <2> QED
    BY <1>9, <2>1, <2>2 DEF Place, Unobserved, Read
<1>11. PlacesInv'
  <2> SUFFICES ASSUME NEW u \in Threads
               PROVE  /\ todo'[u] # <<>> => \E n \in Mains : Leads(todo'[u], n)
                      /\ PlaceOf(todo'[u]) = "ready" => todo'[u] \in Opening \cup Opened
    BY DEF PlacesInv, Place
  <2>1. "ready" \in Mains
    BY DEF Mains
  <2>2. CASE u = t
    BY <1>5, <1>9, <2>1, <2>2
  <2>3. CASE u # t
    BY <1>1, <1>9, <2>3 DEF PlacesInv, Place
  <2> QED
    BY <2>2, <2>3
<1>12. ASSUME NEW p \in Reader!Rows, NEW v, Reaches(v, p) PROVE Reaches(v, p)'
  <2>1. UNCHANGED <<ver, mark>> /\ ver[p] \in Nat
    BY <1>1, <1>4, RowTypes
  <2>2. ASSUME NEW u \in Threads, ~Unobserved(u)' \/ local'[u].begun[p] <= mark
        PROVE  local'[u].begun[p] <= v
    <3>1. CASE u = t
      BY <1>3, <1>7, <1>9, <1>10, <1>12, <2>1, <2>2, <3>1 DEF Reaches
    <3>2. CASE u # t
      BY <1>9, <1>10, <1>12, <2>2, <3>2 DEF Reaches
    <3> QED
      BY <3>1, <3>2
  <2> QED
    BY <1>12, <2>1, <2>2 DEF Reaches
<1>13. ThreadInv(t)'
  <2>1. BegunInv(t) /\ StampInv(t)
    BY <1>1 DEF CacheHolds, ThreadInv
  <2>2. \A p \in Reader!Rows : ver[p] \in Nat
    BY <1>1, RowTypes
  <2>3. BegunInv(t)'
    <3>1. todo'[t] # <<>> /\ todo'[t] # <<"gate", "fresh", "ready">>
      BY <1>5, <1>9
    <3>2. \A p \in Reader!Rows : local'[t].begun[p] <= ver[p]
      BY <1>3, <1>7, <1>9, <2>2
    <3> QED
      BY <1>4, <1>7, <1>9, <2>1, <3>1, <3>2 DEF BegunInv
  <2>4. StampInv(t)'
    BY <1>4, <1>7, <1>9, <1>10, <2>1 DEF StampInv, Bounded
  <2>5. Read(t)' = {}
    BY <1>10 DEF Read, ReadAt
  <2> QED
    BY <1>10, <2>3, <2>4, <2>5 DEF ThreadInv, SynInv, LoadInv, AnswerInv
<1>14. ASSUME NEW u \in Threads \ {t} PROVE ThreadInv(u)'
  <2>1. BegunInv(u) /\ StampInv(u) /\ SynInv(u) /\ LoadInv(u) /\ AnswerInv(u)
    BY <1>1 DEF CacheHolds, ThreadInv
  <2>2. BegunInv(u)' /\ SynInv(u)' /\ AnswerInv(u)'
    BY <1>4, <1>9, <1>10, <2>1 DEF BegunInv, SynInv, AnswerInv
  <2>3. StampInv(u)'
    <3>1. ASSUME NEW p \in Reader!Rows, Reaches(local[u].stamp[p],
       p) PROVE Reaches(local[u].stamp[p], p)'
      <4>1. PICK v : v = local[u].stamp[p]
        OBVIOUS
      <4>2. Reaches(v, p)'
        BY <1>12, <3>1, <4>1
      <4> QED
        BY <1>9, <4>1, <4>2
    <3> QED
      BY <1>4, <1>9, <1>10, <2>1, <3>1 DEF StampInv, Bounded
  <2>4. LoadInv(u)'
    <3> SUFFICES ASSUME Place(u) \in {"tree", "built"}, NEW p \in Read(u)
                 PROVE  /\ local[u].gen = gen => Reaches(local[u].syn[p], p)'
                        /\ \A w \in Threads : Place(w)' = "answer"
                             => local'[w].begun[p] <= local[u].syn[p]
      BY <1>4, <1>9, <1>10 DEF LoadInv
    <3>1. p \in Reader!Rows
      BY DEF Read, ReadAt, Reader!Rows
    <3>2. PICK v : v = local[u].syn[p]
      OBVIOUS
    <3>3. local[u].gen = gen => Reaches(v, p)'
      BY <1>12, <2>1, <3>1, <3>2 DEF LoadInv
    <3>4. ASSUME NEW w \in Threads, Place(w)' = "answer"
          PROVE  local'[w].begun[p] <= local[u].syn[p]
      BY <1>9, <1>10, <2>1, <3>4 DEF LoadInv
    <3> QED
      BY <1>9, <3>2, <3>3, <3>4
  <2> QED
    BY <2>1, <2>2, <2>3, <2>4 DEF ThreadInv
<1>15. CacheInv'
  <2>1. ASSUME NEW p \in Reader!Rows, cache.gen = gen PROVE Reaches(cache.stamp[p], p)'
    <3>1. PICK v : v = cache.stamp[p]
      OBVIOUS
    <3>2. Reaches(v, p)'
      BY <1>1, <1>12, <2>1, <3>1 DEF CacheInv
    <3> QED
      BY <1>4, <3>1, <3>2
  <2> QED
    BY <1>1, <1>4, <2>1 DEF CacheInv, Bounded
<1>16. IndexInv'
  <2>1. ASSUME NEW p \in Reader!Rows, index # Reader!NoSynset,
     indexGen = gen PROVE Reaches(index[p], p)'
    <3>1. PICK v : v = index[p]
      OBVIOUS
    <3>2. Reaches(v, p)'
      BY <1>1, <1>12, <2>1, <3>1 DEF IndexInv
    <3> QED
      BY <1>4, <3>1, <3>2
  <2> QED
    BY <1>1, <1>4, <2>1 DEF IndexInv
<1>17. Bounds'
  BY <1>1, <1>4 DEF Bounds
<1>18. CacheHolds'
  BY <1>13, <1>14, <1>15, <1>16, <1>17 DEF CacheHolds
<1>19. LockInv'
  BY <1>1, <1>4, <1>10 DEF LockInv
<1>20. Reader!TypeOK'
  <2>1. lock' # NoThread => todo'[lock'] # <<>>
    BY <1>1, <1>4, <1>5, <1>9 DEF Reader!TypeOK
  <2> QED
    BY <1>1, <1>4, <1>9, <2>1, NoAnswerType DEF Reader!TypeOK
<1>21. Reader!FreshSynset'
  BY <1>4, NothingAnswered
<1> QED
  BY <1>11, <1>18, <1>19, <1>20, <1>21 DEF ReaderInv

\* Another process writes: what is new is above the mark.
LEMMA WriteKeeps == ASSUME ReaderInv, Reader!Write PROVE ReaderInv'
<1>1. Reader!TypeOK /\ PlacesInv /\ LockInv /\ CacheHolds /\ Bounds /\ CacheInv /\ IndexInv
  BY DEF ReaderInv, CacheHolds
<1>2. /\ written <= MaxWrites /\ written' = written + 1 /\ answer' = Reader!NoAnswer
      /\ UNCHANGED <<mark, gen, ready, spec, specGen, specStamp, cache, index, indexGen, lock,
                     todo, local>>
  BY DEF Reader!Write, Reader!gateVars, Reader!specVars, Reader!indexVars
<1>3. /\ written \in Nat /\ mark \in Nat /\ mark <= written /\ written' \in Reader!Versions
      /\ written' \in Nat /\ written < written'
  BY <1>1, <1>2, ReaderAssumption
  DEF Reader!TypeOK, Bounds, Reader!Versions, Reader!OntologyCacheAssumption
<1>4. /\ ver' \in [Reader!Parts -> Reader!Versions]
      /\ \A p \in Reader!Parts : ver'[p] = ver[p] \/ ver'[p] = written'
  <2>1. /\ ver \in [Reader!Parts -> Reader!Versions]
        /\ ver' \in {ver} \cup {[ver EXCEPT ![p] = written'] : p \in Reader!Parts}
    BY <1>1 DEF Reader!TypeOK, Reader!Write
  <2> QED
    BY <1>3, <2>1
<1>5. ASSUME NEW p \in Reader!Rows
      PROVE  /\ ver[p] \in Nat /\ ver'[p] \in Nat /\ ver[p] <= ver'[p] /\ ver'[p] <= written'
             /\ ver'[p] <= mark => ver'[p] = ver[p]
  <2>1. p \in Reader!Parts /\ ver[p] \in Nat /\ ver[p] <= written
    BY <1>1, RowTypes DEF Reader!Rows, Reader!Parts, Bounds
  <2> QED
    BY <1>3, <1>4, <2>1
<1>6. \A t \in Threads : /\ Place(t)' = Place(t) /\ Read(t)' = Read(t)
                         /\ Unobserved(t)' <=> Unobserved(t)
  BY <1>2 DEF Place, Read, Unobserved
<1>7. ASSUME NEW p \in Reader!Rows, NEW v, Reaches(v, p) PROVE Reaches(v, p)'
  BY <1>2, <1>5, <1>6, <1>7 DEF Reaches
<1>8. ASSUME NEW e, \A p \in Reader!Rows : e.syn[p] \in Nat, Bounded(e)
      PROVE  \A p \in Reader!Rows : e.stamp[p] <= e.syn[p] /\ e.syn[p] <= ver'[p]
  BY <1>5, <1>8 DEF Bounded
<1>9. ASSUME NEW t \in Threads PROVE ThreadInv(t)'
  <2>1. BegunInv(t) /\ StampInv(t) /\ SynInv(t) /\ LoadInv(t) /\ AnswerInv(t)
    BY <1>1 DEF CacheHolds, ThreadInv
  <2>2. \A p \in Reader!Rows : /\ local[t].begun[p] \in Nat /\ local[t].stamp[p] \in Nat
                        /\ local[t].syn[p] \in Nat /\ local[t].ent.syn[p] \in Nat
                        /\ local[t].polled \in Nat
    BY <1>1, RowTypes
  <2>3. BegunInv(t)'
    <3>1. local[t].polled <= written'
      <4>1. "doc" \in Reader!Rows
        BY DEF Reader!Rows
      <4> QED
        BY <1>3, <2>1, <2>2, <4>1 DEF BegunInv
    <3>2. \A p \in Reader!Rows : local[t].begun[p] <= ver'[p]
      BY <1>5, <2>1, <2>2 DEF BegunInv
    <3> QED
      BY <1>2, <2>1, <3>1, <3>2 DEF BegunInv
  <2>4. StampInv(t)'
    <3>1. Bounded(local[t].ent)'
      BY <1>2, <1>8, <2>1, <2>2 DEF StampInv, Bounded
    <3>2. ASSUME local[t].stamp # Reader!NoStamp, NEW p \in Reader!Rows
          PROVE  /\ local[t].begun[p] <= local[t].stamp[p] /\ local[t].stamp[p] <= ver'[p]
                 /\ local[t].gen = gen => Reaches(local[t].stamp[p], p)'
      <4>1. PICK v : v = local[t].stamp[p]
        OBVIOUS
      <4>2. local[t].gen = gen => Reaches(v, p)'
        BY <1>7, <2>1, <3>2, <4>1 DEF StampInv
      <4>3. local[t].begun[p] <= local[t].stamp[p] /\ local[t].stamp[p] <= ver'[p]
        BY <1>5, <2>1, <2>2, <3>2 DEF StampInv
      <4> QED
        BY <1>2, <4>1, <4>2, <4>3
    <3> QED
      BY <1>2, <1>6, <2>1, <3>1, <3>2 DEF StampInv
  <2>5. SynInv(t)'
    <3>1. \A p \in Read(t) : p \in Reader!Rows
      BY DEF Read, ReadAt, Reader!Rows
    <3>2. \A p \in Read(t) : local[t].syn[p] <= ver'[p]
      BY <1>5, <2>1, <2>2, <3>1 DEF SynInv
    <3> QED
      BY <1>2, <1>6, <2>1, <3>2 DEF SynInv
  <2>6. LoadInv(t)'
    <3> SUFFICES ASSUME Place(t) \in {"tree", "built"}, NEW p \in Read(t)
                 PROVE  /\ local[t].gen = gen => Reaches(local[t].syn[p], p)'
                        /\ \A w \in Threads : Place(w)' = "answer"
                             => local'[w].begun[p] <= local[t].syn[p]
      BY <1>2, <1>6 DEF LoadInv
    <3>1. p \in Reader!Rows
      BY DEF Read, ReadAt, Reader!Rows
    <3>2. PICK v : v = local[t].syn[p]
      OBVIOUS
    <3>3. local[t].gen = gen => Reaches(v, p)'
      BY <1>7, <2>1, <3>1, <3>2 DEF LoadInv
    <3> QED
      BY <1>2, <1>6, <2>1, <3>2, <3>3 DEF LoadInv
  <2>7. AnswerInv(t)'
    BY <1>2, <1>6, <2>1 DEF AnswerInv
  <2> QED
    BY <2>3, <2>4, <2>5, <2>6, <2>7 DEF ThreadInv
<1>10. CacheInv'
  <2>1. Bounded(cache)'
    BY <1>1, <1>2, <1>8, RowTypes DEF CacheInv, Bounded
  <2>2. ASSUME NEW p \in Reader!Rows, cache.gen = gen PROVE Reaches(cache.stamp[p], p)'
    <3>1. PICK v : v = cache.stamp[p]
      OBVIOUS
    <3>2. Reaches(v, p)'
      BY <1>1, <1>7, <2>2, <3>1 DEF CacheInv
    <3> QED
      BY <1>2, <3>1, <3>2
  <2> QED
    BY <1>2, <2>1, <2>2 DEF CacheInv
<1>11. IndexInv'
  <2>1. ASSUME NEW p \in Reader!Rows, index # Reader!NoSynset
        PROVE  index[p] <= ver'[p] /\ (indexGen = gen => Reaches(index[p], p)')
    <3>1. PICK v : v = index[p]
      OBVIOUS
    <3>2. indexGen = gen => Reaches(v, p)'
      BY <1>1, <1>7, <2>1, <3>1 DEF IndexInv
    <3>3. index[p] \in Nat /\ index[p] <= ver[p]
      BY <1>1, <2>1, RowTypes DEF IndexInv
    <3>4. index[p] <= ver'[p]
      BY <1>5, <3>3
    <3> QED
      BY <1>2, <3>1, <3>2, <3>4
  <2> QED
    BY <1>2, <2>1 DEF IndexInv
<1>12. Bounds'
  BY <1>1, <1>2, <1>3, <1>5 DEF Bounds
<1>13. CacheHolds'
  BY <1>9, <1>10, <1>11, <1>12 DEF CacheHolds
<1>14. PlacesInv'
  BY <1>1, <1>2, <1>6 DEF PlacesInv
<1>15. LockInv'
  BY <1>1, <1>2, <1>6 DEF LockInv
<1>16. Reader!TypeOK'
  BY <1>1, <1>2, <1>3, <1>4, NoAnswerType DEF Reader!TypeOK
<1>17. Reader!FreshSynset'
  BY <1>2, NothingAnswered
<1> QED
  BY <1>13, <1>14, <1>15, <1>16, <1>17 DEF ReaderInv

----------------------------------------------------------------------------
\* The invariant holds at first.
LEMMA InitHolds == ASSUME Reader!Init PROVE ReaderInv
<1>1. /\ written = 1 /\ ver \in [Reader!Parts -> {0, 1}] /\ ver["doc"] = 1 /\ ver["edge"] = 1
      /\ mark = 0 /\ gen = 1 /\ ready = "unknown" /\ spec = Reader!NotRead /\ specGen = 0
      /\ specStamp = Reader!NotRead /\ cache = Reader!NoEntry /\ index = Reader!NoSynset
      /\ indexGen = 0
      /\ lock = NoThread /\ todo = [t \in Threads |-> <<>>]
      /\ local = [t \in Threads |-> Reader!Clean]
      /\ answer = Reader!NoAnswer
  BY DEF Reader!Init
<1>2. {0, 1} \subseteq Reader!Versions /\ MaxWrites \in Nat /\ NoThread \notin Threads
  BY ReaderAssumption DEF Reader!OntologyCacheAssumption, Reader!Versions
<1>3. Reader!NoEntry \in Reader!Entries /\ Reader!NoSynset \in Reader!SynsetVersions
  BY CleanIs DEF Reader!Clean, Reader!Locals
<1>4. \A t \in Threads : /\ todo[t] = <<>> /\ local[t] = Reader!Clean /\ Place(t) = "rest"
                         /\ Read(t) = {}
  BY <1>1 DEF Place, PlaceOf, Read, ReadAt
<1>5. Reader!TypeOK
  <2>1. todo \in [Threads -> Seq(Reader!Steps)] /\ local \in [Threads -> Reader!Locals]
    BY <1>1, CleanIs
  <2>2. ver \in [Reader!Parts -> Reader!Versions]
    BY <1>1, <1>2
  <2> QED
    BY <1>1, <1>2, <1>3, <2>1, <2>2, NoAnswerType DEF Reader!TypeOK
<1>6. PlacesInv
  BY <1>4 DEF PlacesInv
<1>7. LockInv
  BY <1>1, <1>2, <1>4 DEF LockInv
<1>8. \A p \in Reader!Rows : ver[p] = 1
  BY <1>1 DEF Reader!Rows
<1>9. Reader!NoEntry.gen = 0
  BY DEF Reader!NoEntry
<1>10. Bounded(Reader!NoEntry)
  BY <1>5, BoundedNothing
<1>11. ASSUME NEW t \in Threads PROVE ThreadInv(t)
  <2>1. BegunInv(t)
    BY <1>1, <1>4, <1>8, CleanIs, NothingRead DEF BegunInv
  <2>2. StampInv(t)
    BY <1>4, <1>10, CleanIs DEF StampInv
  <2> QED
    BY <1>4, <2>1, <2>2 DEF ThreadInv, SynInv, LoadInv, AnswerInv
<1>12. CacheHolds
  BY <1>1, <1>8, <1>9, <1>10, <1>11 DEF CacheHolds, Bounds, CacheInv, IndexInv
<1>13. Reader!FreshSynset
  BY <1>1 DEF Reader!FreshSynset, Reader!NoAnswer
<1> QED
  BY <1>5, <1>6, <1>7, <1>12, <1>13 DEF ReaderInv

\* Nothing happens.
LEMMA StutterKeeps == ASSUME ReaderInv, UNCHANGED Reader!vars PROVE ReaderInv'
<1>1. /\ UNCHANGED <<written, ver, mark, gen, ready, spec, specGen, specStamp>>
      /\ UNCHANGED <<cache, index, indexGen, lock, todo, local, answer>>
  BY DEF Reader!vars
<1>2. \A t \in Threads : /\ Place(t)' = Place(t) /\ Read(t)' = Read(t)
                         /\ Unobserved(t)' <=> Unobserved(t)
  BY <1>1 DEF Place, Read, Unobserved
<1>3. Reader!TypeOK' /\ PlacesInv' /\ LockInv' /\ Reader!FreshSynset'
  BY <1>1, <1>2 DEF ReaderInv, Reader!TypeOK, PlacesInv, LockInv, Reader!FreshSynset
<1>4. CacheHolds'
  BY <1>1, <1>2
  DEF ReaderInv, CacheHolds, Bounds, CacheInv, Bounded, IndexInv, ThreadInv, BegunInv,
     StampInv, SynInv, LoadInv, AnswerInv, Reaches
<1> QED
  BY <1>3, <1>4 DEF ReaderInv

\* Every step keeps the invariant.
LEMMA NextKeeps == ASSUME ReaderInv, [Reader!Next]_(Reader!vars) PROVE ReaderInv'
<1>1. ASSUME NEW t \in Threads, Reader!ThreadStep(t) PROVE ReaderInv'
  <2>1. CASE \/ Reader!Poll(t) \/ Reader!Gate(t) \/ Reader!Fresh(t) \/ Reader!Drop(t)
             \/ Reader!Alphabet(t) \/ Reader!ReadAlphabet(t) \/ Reader!SetAlphabet(t)
    BY <2>1, PollKeeps, GateKeeps, FreshKeeps, DropKeeps, AlphabetKeeps
  <2>2. CASE Reader!Ready(t) \/ Reader!ReadReady(t) \/ Reader!SetReady(t) \/ Reader!IsReady(t)
    BY <2>2, ReadyKeeps, ReadReadyKeeps, SetReadyKeeps, IsReadyKeeps
  <2>3. CASE \/ Reader!Get(t) \/ Reader!Capture(t) \/ Reader!Stamp(t)
             \/ Reader!Verify(t) \/ Reader!Edges(t) \/ Reader!Keep(t)
    BY <2>3, GetKeeps, CaptureKeeps, StampKeeps, VerifyKeeps, EdgesKeeps, KeepKeeps
  <2>4. CASE \/ Reader!Index(t) \/ Reader!Load(t) \/ Reader!List(t)
             \/ Reader!Tree(t) \/ Reader!Built(t) \/ Reader!Answer(t)
    BY <2>4, IndexKeeps, LoadKeeps, EdgesKeeps, BuiltKeeps, AnswerKeeps
  <2> QED
    BY <1>1, <2>1, <2>2, <2>3, <2>4 DEF Reader!ThreadStep
<1> QED
  BY <1>1, StutterKeeps, WriteKeeps, BeginKeeps DEF Reader!Next

\* What the invariant says of the types, the answers and the caches.
LEMMA ReaderInvSays ==
  ASSUME ReaderInv
  PROVE  Reader!TypeOK /\ Reader!FreshSynset /\ Reader!VerifiedIsCurrent
<1>1. Reader!TypeOK /\ Reader!FreshSynset /\ CacheInv /\ IndexInv
  BY DEF ReaderInv, CacheHolds
<1>2. ASSUME NEW p \in Reader!Rows, ver[p] <= mark
      PROVE  (Reader!Hit => cache.syn[p] = ver[p]) /\ (Reader!Loaded => index[p] = ver[p])
  <2>1. /\ ver[p] \in Nat /\ cache.stamp[p] \in Nat /\ cache.syn[p] \in Nat
    BY <1>1, RowTypes
  <2>2. Reader!Hit => /\ cache.stamp[p] = ver[p] /\ cache.stamp[p] <= cache.syn[p]
                      /\ cache.syn[p] <= ver[p]
    BY <1>1, <1>2 DEF Reader!Hit, CacheInv, Bounded, Reaches
  <2>3. Reader!Loaded => index[p] = ver[p]
    BY <1>1, <1>2 DEF Reader!Loaded, IndexInv, Reaches
  <2> QED
    BY <2>1, <2>2, <2>3
<1> QED
  BY <1>1, <1>2 DEF Reader!VerifiedIsCurrent

\* The invariant holds of every number of threads and of writes.
LEMMA ReaderHolds == Reader!Spec => []ReaderInv
<1>1. Reader!Init => ReaderInv
  BY InitHolds
<1>2. ReaderInv /\ [Reader!Next]_(Reader!vars) => ReaderInv'
  BY NextKeeps
<1> QED
  BY <1>1, <1>2, PTL DEF Reader!Spec

----------------------------------------------------------------------------
(* Both sides *)

\* A step of the run is a step of the builder or none, and one of a reader or none.
LEMMA SidesStep ==
  [OntologyNext]_<<side, vars, readerVars>> => [Next]_vars /\ [Reader!Next]_(Reader!vars)
<1> SUFFICES ASSUME [OntologyNext]_<<side, vars, readerVars>>
             PROVE  [Next]_vars /\ [Reader!Next]_(Reader!vars)
  OBVIOUS
<1>1. UNCHANGED readerVars => UNCHANGED Reader!vars
  BY DEF readerVars, Reader!vars
<1>2. \/ Next /\ UNCHANGED readerVars
      \/ Reader!Next /\ UNCHANGED vars
      \/ UNCHANGED vars /\ UNCHANGED readerVars
  BY DEF OntologyNext
<1> QED
  BY <1>1, <1>2

\* What either side promises holds of the run, which has both.
LEMMA SidesHold == OntologySpec => Spec /\ Reader!Spec
<1>1. OntologyInit => Init /\ Reader!Init
  BY DEF OntologyInit
<1> QED
  BY <1>1, SidesStep, PTL DEF OntologySpec, Spec, Reader!Spec

\* Type correctness of the builder and of the readers.
THEOREM OntologyTypesOK == OntologySpec => []TypesOK
<1>1. ReaderInv => Reader!TypeOK
  BY ReaderInvSays
<1>2. TypeOK /\ Reader!TypeOK => TypesOK
  BY DEF TypesOK
<1> QED
  BY <1>1, <1>2, SidesHold, LatticeTypeOK, ReaderHolds, PTL

\* A lookup answers with no row and no edge older than the store held when it began, whatever
\* other threads cache, drop, load or re-verify and other processes write meanwhile.
THEOREM SynsetIsAlwaysFresh == OntologySpec => []FreshSynset
<1>1. ReaderInv => FreshSynset
  BY ReaderInvSays DEF FreshSynset
<1> QED
  BY <1>1, SidesHold, ReaderHolds, PTL

\* What the driver takes as of its generation, the cached synset and the loaded index, is what
\* the store held at the mark the generation was opened with, or newer.
THEOREM VerifiedIsAlwaysCurrent == OntologySpec => []VerifiedIsCurrent
<1>1. ReaderInv => VerifiedIsCurrent
  BY ReaderInvSays DEF VerifiedIsCurrent
<1> QED
  BY <1>1, SidesHold, ReaderHolds, PTL
=============================================================================
