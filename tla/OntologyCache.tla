---------------------------- MODULE OntologyCache ----------------------------
(***************************************************************************)
(* What the ontology driver serves from memory, while other processes      *)
(* write the store (ontology/driver.py, ontology/freshness.py).            *)
(*                                                                         *)
(* The module is shared by threads.  A lookup of one concept observes the  *)
(* store's write mark, decides whether the keyed substrate is there, and   *)
(* answers from one cached synset, or from an index of the whole corpus.   *)
(* Its functions call each other; `todo` of a thread is what it still has  *)
(* to run, and a step ends where the code reads the store or may wait.     *)
(*                                                                         *)
(* One concept, in one bound store; its document and its edges are there   *)
(* all along.  A thing read from the store is its version: the number of   *)
(* the write that made it, which is what version_of and edge_mark report.  *)
(***************************************************************************)
EXTENDS Integers, Sequences

CONSTANTS
  Threads, NoThread,
  MaxWrites       \* bound: writes by other processes

OntologyCacheAssumption ==
  /\ NoThread \notin Threads
  /\ MaxWrites \in Nat

Parts == {"spec", "doc", "edge"}    \* op.transducer.language.en; the synset's row; its edges
Versions == 0..(MaxWrites + 1)      \* of the transducer, 0: it is not there
NotRead == -1                       \* None, for a version not read from the store

VARIABLES
  written,    \* the store's write mark
  ver,        \* ver[p]: the write that last changed p
  mark, gen,                              \* _MARK, _GEN
  ready, spec, specGen, specStamp,        \* _KEYED_READY, _LANG_SPEC, _SPEC_GEN, _SPEC_STAMP
  cache,                                  \* _CACHE[name]
  index, indexGen,                        \* _INDEX (and _IC_STATS), _INDEX_GEN
  lock,                                   \* who holds _LOCK
  todo,       \* todo[t]: the calls thread t still has to run
  local,      \* local[t]: its local variables
  answer      \* how the lookup that ended in the latest step ended

storeVars == <<written, ver>>
gateVars == <<mark, gen>>
specVars == <<ready, spec, specGen, specStamp>>
indexVars == <<index, indexGen>>
vars == <<written, ver, mark, gen, ready, spec, specGen, specStamp, cache, index,
          indexGen, lock, todo, local, answer>>

\* A synset as it was built: from which row, which edges, and which alphabet (the
\* id prefix and the edge labels of the transducer's spec).
SynsetVersions == [doc : Versions, edge : Versions, spec : Versions]
NoSynset == [doc |-> 0, edge |-> 0, spec |-> 0]

\* freshness.stamp(arts, aid, edges=True): of the row and of its edges.
Stamps == [doc : Versions, edge : Versions]
Stamped(v) == [doc |-> v["doc"], edge |-> v["edge"]]

NoStamp == [doc |-> 0, edge |-> 0]

\* Generations count from 1 here; 0 is that of nothing.
Entries == [gen : Nat, stamp : Stamps, syn : SynsetVersions]
NoEntry == [gen |-> 0, stamp |-> NoStamp, syn |-> NoSynset]

\* The locals of a lookup: the mark polled last, the version of the transducer
\* read last and the alphabet in use, `gen` (or `g`), `ent`, `st`, the synset
\* under construction, and, as history, what the store held when it began.
Locals == [polled : Versions, got : Versions, alphabet : Versions, gen : Nat,
           ent : Entries, stamp : Stamps, syn : SynsetVersions, begun : SynsetVersions]

Clean == [polled |-> 0, got |-> 0, alphabet |-> 0, gen |-> 0, ent |-> NoEntry,
          stamp |-> NoStamp, syn |-> NoSynset, begun |-> NoSynset]

NoAnswer == [given |-> FALSE, syn |-> NoSynset, begun |-> NoSynset]

\* What a thread can have to do: `poll` and `gate` are _observe, `fresh` and `drop`
\* _spec_fresh, `alphabet` to `setAlphabet` the rest of _lang_spec, `ready` to
\* `isReady` _keyed_ready, `get` to `keep` _get_synset, `index` to `answer` _index.
Steps == {"poll", "gate", "fresh", "drop", "alphabet", "readAlphabet", "setAlphabet",
          "ready", "readReady", "setReady", "isReady", "get", "capture", "stamp", "verify",
          "edges", "keep", "index", "load", "list", "tree", "built", "answer"}

TypeOK ==
  /\ written \in Versions /\ ver \in [Parts -> Versions]
  /\ mark \in Versions /\ gen \in Nat
  /\ ready \in {"unknown", "yes", "no"} /\ spec \in Versions \cup {NotRead}
  /\ specGen \in Nat /\ specStamp \in Versions \cup {NotRead}
  /\ cache \in Entries
  /\ index \in SynsetVersions /\ indexGen \in Nat
  /\ lock \in Threads \cup {NoThread}
  /\ todo \in [Threads -> Seq(Steps)]
  /\ local \in [Threads -> Locals]
  /\ answer \in [given : BOOLEAN, syn : SynsetVersions, begun : SynsetVersions]
  /\ lock # NoThread => todo[lock] # <<>>

Init ==
  /\ written = 1
  /\ ver \in [Parts -> {0, 1}] /\ ver["doc"] = 1 /\ ver["edge"] = 1
  /\ mark = 0 /\ gen = 1
  /\ ready = "unknown" /\ spec = NotRead /\ specGen = 0 /\ specStamp = NotRead
  /\ cache = NoEntry
  /\ index = NoSynset /\ indexGen = 0
  /\ lock = NoThread
  /\ todo = [t \in Threads |-> <<>>]
  /\ local = [t \in Threads |-> Clean]
  /\ answer = NoAnswer

----------------------------------------------------------------------------
\* Another process commits a write, to one of the parts or to anything else.
Write ==
  /\ written <= MaxWrites
  /\ written' = written + 1
  /\ ver' \in {ver} \cup {[ver EXCEPT ![p] = written'] : p \in Parts}
  /\ answer' = NoAnswer
  /\ UNCHANGED <<gateVars, specVars, cache, indexVars, lock, todo, local>>

----------------------------------------------------------------------------
\* Sequencing

At(t, step) == todo[t] # <<>> /\ Head(todo[t]) = step

\* Thread t goes on, first with `calls`.
Do(t, calls, locals) ==
  /\ todo' = [todo EXCEPT ![t] = calls \o Tail(@)]
  /\ local' = [local EXCEPT ![t] = locals]
  /\ answer' = NoAnswer
  /\ UNCHANGED storeVars

\* The lookup of t ends.
Return(t, syn) ==
  /\ todo' = [todo EXCEPT ![t] = <<>>]
  /\ local' = [local EXCEPT ![t] = Clean]
  /\ answer' = [given |-> TRUE, syn |-> syn, begun |-> local[t].begun]
  /\ UNCHANGED storeVars

Observe == <<"poll", "gate">>
LangSpec == <<"fresh", "alphabet">>

\* synset(name).
Begin(t) ==
  /\ todo[t] = <<>>
  /\ todo' = [todo EXCEPT ![t] = Observe \o <<"fresh", "ready">>]
  /\ local' = [local EXCEPT ![t].begun = [doc |-> ver["doc"], edge |-> ver["edge"],
                                          spec |-> ver["spec"]]]
  /\ answer' = NoAnswer
  /\ UNCHANGED <<storeVars, gateVars, specVars, cache, indexVars, lock>>

----------------------------------------------------------------------------
\* _observe and _spec_fresh

\* freshness.write_mark.
Poll(t) ==
  /\ At(t, "poll")
  /\ Do(t, <<>>, [local[t] EXCEPT !.polled = written])
  /\ UNCHANGED <<gateVars, specVars, cache, indexVars, lock>>

\* _gate once it has the mark: any move of it is a new generation and drops the
\* index.
Gate(t) ==
  /\ At(t, "gate")
  /\ LET m == local[t].polled IN
     IF m = mark THEN UNCHANGED <<gateVars, index>>
     ELSE mark' = m /\ gen' = gen + 1 /\ index' = NoSynset
  /\ Do(t, <<>>, [local[t] EXCEPT !.polled = 0])
  /\ UNCHANGED <<specVars, cache, indexGen, lock>>

\* _spec_fresh: verified in this generation, or else the transducer is stamped.
Fresh(t) ==
  /\ At(t, "fresh")
  /\ \/ /\ specGen = gen
        /\ Do(t, <<>>, local[t])
     \/ /\ specGen # gen
        /\ Do(t, <<"drop">>, [local[t] EXCEPT !.got = ver["spec"]])
  /\ UNCHANGED <<gateVars, specVars, cache, indexVars, lock>>

Drop(t) ==
  /\ At(t, "drop")
  /\ IF local[t].got = specStamp THEN UNCHANGED <<ready, spec, specStamp>>
     ELSE ready' = "unknown" /\ spec' = NotRead /\ specStamp' = local[t].got
  /\ specGen' = gen
  /\ Do(t, <<>>, [local[t] EXCEPT !.got = 0])
  /\ UNCHANGED <<gateVars, cache, indexVars, lock>>

----------------------------------------------------------------------------
\* _lang_spec: the transducer's spec; no lock is taken.
Alphabet(t) ==
  /\ At(t, "alphabet")
  /\ \/ /\ spec # NotRead
        /\ Do(t, <<>>, [local[t] EXCEPT !.alphabet = spec])
     \/ /\ spec = NotRead
        /\ Do(t, Observe \o <<"readAlphabet", "setAlphabet">>, local[t])
  /\ UNCHANGED <<gateVars, specVars, cache, indexVars, lock>>

ReadAlphabet(t) ==
  /\ At(t, "readAlphabet")
  /\ Do(t, <<>>, [local[t] EXCEPT !.got = ver["spec"]])
  /\ UNCHANGED <<gateVars, specVars, cache, indexVars, lock>>

SetAlphabet(t) ==
  /\ At(t, "setAlphabet")
  /\ spec' = local[t].got
  /\ Do(t, <<>>, [local[t] EXCEPT !.alphabet = local[t].got, !.got = 0])
  /\ UNCHANGED <<gateVars, ready, specGen, specStamp, cache, indexVars, lock>>

----------------------------------------------------------------------------
\* _keyed_ready: the transducer is there.
ByIndex == Observe \o <<"index">>

Ready(t) ==
  /\ At(t, "ready")
  /\ Do(t, IF ready = "unknown" THEN Observe \o <<"readReady">> ELSE <<"isReady">>, local[t])
  /\ UNCHANGED <<gateVars, specVars, cache, indexVars, lock>>

ReadReady(t) ==
  /\ At(t, "readReady")
  /\ lock = NoThread
  /\ \/ /\ ready = "unknown"
        /\ lock' = t
        /\ Do(t, <<"setReady">>, [local[t] EXCEPT !.got = ver["spec"]])
     \/ /\ ready # "unknown"
        /\ Do(t, <<"isReady">>, local[t])
        /\ UNCHANGED lock
  /\ UNCHANGED <<gateVars, specVars, cache, indexVars>>

SetReady(t) ==
  /\ At(t, "setReady")
  /\ ready' = IF local[t].got # 0 THEN "yes" ELSE "no"
  /\ lock' = NoThread
  /\ Do(t, <<"isReady">>, [local[t] EXCEPT !.got = 0])
  /\ UNCHANGED <<gateVars, spec, specGen, specStamp, cache, indexVars>>

\* bool(_KEYED_READY), which another thread may have dropped again.
IsReady(t) ==
  /\ At(t, "isReady")
  /\ Do(t, IF ready = "yes" THEN <<"get">> ELSE ByIndex, local[t])
  /\ UNCHANGED <<gateVars, specVars, cache, indexVars, lock>>

----------------------------------------------------------------------------
\* _get_synset

Hit_Any == cache # NoEntry                                     \* mutant: never re-verified

\* ent[0] == _GEN
Hit == cache.gen = gen

Get(t) ==
  /\ At(t, "get")
  /\ \/ /\ Hit
        /\ Return(t, cache.syn)
     \/ /\ ~Hit
        /\ Do(t, Observe \o <<"capture">>, [local[t] EXCEPT !.ent = cache])
  /\ UNCHANGED <<gateVars, specVars, cache, indexVars, lock>>

\* gen = _GEN; then, for a concept not met before, its ids.
Capture(t) ==
  /\ At(t, "capture")
  /\ Do(t, (IF local[t].ent = NoEntry THEN LangSpec ELSE <<>>) \o <<"stamp">>,
        [local[t] EXCEPT !.gen = gen])
  /\ UNCHANGED <<gateVars, specVars, cache, indexVars, lock>>

\* The row and its edges are stamped, unless the store cannot answer (a node
\* with more edges than edge_mark counts).
Stamp(t) ==
  /\ At(t, "stamp")
  /\ \E st \in {Stamped(ver), NoStamp} :
       Do(t, <<"verify">>, [local[t] EXCEPT !.stamp = st])
  /\ UNCHANGED <<gateVars, specVars, cache, indexVars, lock>>

Same_NoEdges(ent, st) == ent # NoEntry /\ st # NoStamp /\ st.doc = ent.stamp.doc     \* mutant

\* st is not None and st == ent[1]
Same(ent, st) == ent # NoEntry /\ st # NoStamp /\ st = ent.stamp

Entry_Now(t, syn) == [gen |-> gen, stamp |-> local[t].stamp, syn |-> syn]        \* mutant

\* (gen, st, s, aid): of the generation before the stamp.
Entry(t, syn) == [gen |-> local[t].gen, stamp |-> local[t].stamp, syn |-> syn]

\* The entry is re-verified, or the row is read and a new synset built, with the
\* labels of the alphabet and the edges that carry them.
Verify(t) ==
  /\ At(t, "verify")
  /\ \/ /\ Same(local[t].ent, local[t].stamp)
        /\ cache' = Entry(t, local[t].ent.syn)
        /\ Return(t, local[t].ent.syn)
     \/ /\ ~Same(local[t].ent, local[t].stamp)
        /\ Do(t, LangSpec \o Observe \o <<"edges">> \o LangSpec \o <<"keep">>,
              [local[t] EXCEPT !.syn.doc = ver["doc"], !.ent = NoEntry])
        /\ UNCHANGED cache
  /\ UNCHANGED <<gateVars, specVars, indexVars, lock>>

Edges(t) ==
  /\ At(t, "edges")
  /\ Do(t, <<>>, [local[t] EXCEPT !.syn.edge = ver["edge"], !.syn.spec = local[t].alphabet])
  /\ UNCHANGED <<gateVars, specVars, cache, indexVars, lock>>

\* What could not be stamped is not kept.
Keep(t) ==
  /\ At(t, "keep")
  /\ cache' = IF local[t].stamp = NoStamp THEN cache ELSE Entry(t, local[t].syn)
  /\ Return(t, local[t].syn)
  /\ UNCHANGED <<gateVars, specVars, indexVars, lock>>

----------------------------------------------------------------------------
\* _index

Loaded == index # NoSynset /\ indexGen = gen

Index(t) ==
  /\ At(t, "index")
  /\ \/ /\ Loaded
        /\ Return(t, index)
     \/ /\ ~Loaded
        /\ Do(t, <<"load">>, local[t])
  /\ UNCHANGED <<gateVars, specVars, cache, indexVars, lock>>

Unlocked_Kept(t) == lock                                     \* mutant: held for good

Unlocked(t) == NoThread

\* Under the lock: g = _GEN, then _load_index, unless another thread loaded.
Load(t) ==
  /\ At(t, "load")
  /\ lock = NoThread
  /\ \/ /\ Loaded
        /\ Do(t, <<"answer">>, local[t])
        /\ UNCHANGED lock
     \/ /\ ~Loaded
        /\ lock' = t
        /\ Do(t, Observe \o LangSpec \o <<"list">> \o LangSpec \o <<"tree">> \o Observe
                 \o <<"built">>, [local[t] EXCEPT !.gen = gen])
  /\ UNCHANGED <<gateVars, specVars, cache, indexVars>>

\* list_artifacts.
List(t) ==
  /\ At(t, "list")
  /\ Do(t, <<>>, [local[t] EXCEPT !.syn.doc = ver["doc"]])
  /\ UNCHANGED <<gateVars, specVars, cache, indexVars, lock>>

\* The tree comes from the edges; the basis of its IC is read after it.
Tree(t) ==
  /\ At(t, "tree")
  /\ Do(t, <<>>, [local[t] EXCEPT !.syn.edge = ver["edge"], !.syn.spec = local[t].alphabet])
  /\ UNCHANGED <<gateVars, specVars, cache, indexVars, lock>>

\* _INDEX_GEN = g
BuiltAt(t) == local[t].gen

Built(t) ==
  /\ At(t, "built")
  /\ index' = local[t].syn
  /\ indexGen' = BuiltAt(t)
  /\ lock' = Unlocked(t)
  /\ Do(t, <<"answer">>, local[t])
  /\ UNCHANGED <<gateVars, specVars, cache>>

\* return _INDEX[0]: a TypeError when another thread's gate dropped it meanwhile.
Answer(t) ==
  /\ At(t, "answer")
  /\ \/ /\ index # NoSynset
        /\ Return(t, index)
     \/ /\ index = NoSynset
        /\ todo' = [todo EXCEPT ![t] = <<>>]
        /\ local' = [local EXCEPT ![t] = Clean]
        /\ answer' = NoAnswer
        /\ UNCHANGED storeVars
  /\ UNCHANGED <<gateVars, specVars, cache, indexVars, lock>>

----------------------------------------------------------------------------
ThreadStep(t) ==
  \/ Poll(t) \/ Gate(t) \/ Fresh(t) \/ Drop(t)
  \/ Alphabet(t) \/ ReadAlphabet(t) \/ SetAlphabet(t)
  \/ Ready(t) \/ ReadReady(t) \/ SetReady(t) \/ IsReady(t)
  \/ Get(t) \/ Capture(t) \/ Stamp(t) \/ Verify(t) \/ Edges(t) \/ Keep(t)
  \/ Index(t) \/ Load(t) \/ List(t) \/ Tree(t) \/ Built(t) \/ Answer(t)

Next ==
  \/ Write
  \/ \E t \in Threads : Begin(t) \/ ThreadStep(t)

Spec == Init /\ [][Next]_vars

----------------------------------------------------------------------------
\* Properties

Rows == {"doc", "edge"}

\* A lookup answers with nothing older than the store held when it began,
\* whatever other threads cache, drop or re-verify meanwhile.
FreshSynset ==
  answer.given => \A p \in Rows : answer.syn[p] >= answer.begun[p]

\* What counts as of this generation is what the store held at the mark the generation was
\* opened with, or newer (freshness.py 28): an entry that was stamped, read in two parts and
\* kept while others wrote, and an index whose load started under an older observation.
VerifiedIsCurrent ==
  \A p \in Rows : ver[p] <= mark => (Hit => cache.syn[p] = ver[p]) /\ (Loaded => index[p] = ver[p])

\* driver.py 381: the entries of `_CACHE` "derive from one named artifact".  Then a
\* synset is served under an alphabet the transducer had since the lookup began.
OfItsAlphabet ==
  answer.given => answer.syn.spec >= answer.begun.spec
=============================================================================
