----------------------------- MODULE MCOntology -----------------------------
(***************************************************************************)
(* The two sides of the ontology, one run for both.  They meet only in the *)
(* store: Write of OntologyCache already allows every write of the builder *)
(* at every moment, and the builder reads nothing a reader writes.  So     *)
(* each is explored by itself, `side` says which, and the run is the       *)
(* union.                                                                  *)
(*                                                                         *)
(* Two threads, so that one caches or drops what the other has just        *)
(* verified.  Three synsets, one of them foreign, and two lemma vertices,  *)
(* two of the synsets under one; three is also the largest corpus in which *)
(* no two pairs of integers yield one float.                               *)
(***************************************************************************)
EXTENDS SeedLattice

CONSTANTS s1, s2, s3, c1, c2, Threads, NoThread, MaxWrites

VARIABLES
  side,
  written, ver, mark, gen, ready, spec, specGen, specStamp, cache, index, indexGen, lock, todo,
  local, answer

readerVars == <<written, ver, mark, gen, ready, spec, specGen, specStamp, cache, index, indexGen,
                lock, todo, local, answer>>

SurfaceOf(s) == IF s = s1 THEN c1 ELSE c2

Reader == INSTANCE OntologyCache

ASSUME ReaderAssumption == Reader!OntologyCacheAssumption

\* The side that does not move starts in one state only.
OntologyInit ==
  /\ Init /\ Reader!Init
  /\ \/ side = "reader" /\ rows = {s1} /\ ic[s1] = IF External THEN Imported ELSE NoValue
     \/ side = "builder" /\ ver["spec"] = 0

\* The builder ends; threads never do, so a deadlock is one of theirs.
OntologyNext ==
  /\ \/ side = "reader" /\ Reader!Next /\ UNCHANGED vars
     \/ side = "builder" /\ Next /\ UNCHANGED readerVars
     \/ side = "builder" /\ UNCHANGED <<vars, readerVars>>
  /\ UNCHANGED side

OntologySpec == OntologyInit /\ [][OntologyNext]_<<side, vars, readerVars>>

TypesOK == TypeOK /\ Reader!TypeOK
FreshSynset == Reader!FreshSynset
VerifiedIsCurrent == Reader!VerifiedIsCurrent
=============================================================================
