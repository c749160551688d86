---------------------------- MODULE OperatorPush ----------------------------
(***************************************************************************)
(* A host pushes its personas' operators to Mantle when it boots: find the *)
(* catalog or create it, read which operators are stored, create or patch  *)
(* the rest (push.py, registry.py).  Mantle gives no upsert: both halves   *)
(* are find-then-create over a paginated listing.  Only has_more says      *)
(* that it goes on: a page may be short, and an empty one ends the scan    *)
(* whatever it announces.                                                  *)
(*                                                                         *)
(* One thread per push, so a step is one HTTP call.  A call may fail       *)
(* before Mantle acted on it or after; then the whole push is tried again  *)
(* with nothing remembered.                                                *)
(***************************************************************************)
EXTENDS Naturals, Sequences, FiniteSets

CONSTANTS
  Hosts,       \* processes that push; each has the manifests of its own personas
  Operators,
  Specs,       \* what spec_hash tells apart
  ByRef,       \* operators with a content_ref and no content
  Catalog, Other,
  Page,        \* _PAGE (200)
  Attempts,    \* of register_manifests_with_retry (15)
  MaxOthers,   \* bound: artifacts other people create
  MaxDeploys,  \* bound: restarts of a host, with the same or other manifests
  MaxCuts,     \* bound: scans that Mantle ends by sending nothing
  Both         \* bound: may others create artifacts where Mantle gets stuck

OperatorPushAssumption ==
  /\ ByRef \subseteq Operators
  /\ {Catalog, Other} \cap Operators = {} /\ Catalog # Other
  /\ Page \in Nat \ {0} /\ Attempts \in Nat \ {0}
  /\ MaxOthers \in Nat /\ MaxDeploys \in Nat /\ MaxCuts \in Nat
  /\ Both \in BOOLEAN

NoSpec == "no spec"
NotStored == [id |-> 0, spec |-> NoSpec]

VARIABLES
  rows,      \* Mantle: what /artifacts/visible lists, in its order
  dry,       \* Mantle makes no progress: it announces more rows and sends none
  cut,       \* history: scans that were ended by such a page before they had every row
  deploys,
  manifest,  \* manifest[h][o]: the spec of o in h's build
  pc,        \* "catalog", "create", "index", "put", "backoff", "done" or "gaveUp"
  attempt,
  offset,    \* offset[h]: of the page _list asks for next
  found,     \* found[h]: the catalog was among the pages read
  index,     \* index[h][o]: _existing: the row of o and its stored spec
  todo       \* todo[h]: operators this push has not put yet

vars == <<rows, dry, cut, deploys, manifest, pc, attempt, offset, found, index, todo>>

Names == Operators \cup {Catalog, Other}
Rows == [id : Nat \ {0}, name : Names, spec : Specs \cup {NoSpec}]

TypeOK ==
  /\ rows \in Seq(Rows)
  /\ \A i, j \in 1..Len(rows) : i # j => rows[i].id # rows[j].id
  /\ dry \in BOOLEAN /\ cut \in Nat
  /\ deploys \in 0..MaxDeploys
  /\ manifest \in [Hosts -> [Operators -> Specs]]
  /\ pc \in [Hosts -> {"catalog", "create", "index", "put", "backoff", "done", "gaveUp"}]
  /\ attempt \in [Hosts -> 1..Attempts]
  /\ offset \in [Hosts -> 0..Len(rows)]
  /\ found \in [Hosts -> BOOLEAN]
  /\ index \in [Hosts -> [Operators -> [id : Nat, spec : Specs \cup {NoSpec}]]]
  /\ todo \in [Hosts -> SUBSET Operators]

NothingIndexed == [o \in Operators |-> NotStored]

Init ==
  /\ rows = <<>>
  /\ dry = FALSE /\ cut = 0
  /\ deploys = 0
  /\ manifest \in [Hosts -> [Operators -> Specs]]
  /\ pc = [h \in Hosts |-> "catalog"]
  /\ attempt = [h \in Hosts |-> 1]
  /\ offset = [h \in Hosts |-> 0]
  /\ found = [h \in Hosts |-> FALSE]
  /\ index = [h \in Hosts |-> NothingIndexed]
  /\ todo = [h \in Hosts |-> Operators]

----------------------------------------------------------------------------
\* Mantle

Named(name) == {i \in DOMAIN rows : rows[i].name = name}

Row(name, spec) == [id |-> Len(rows) + 1, name |-> name, spec |-> spec]

\* Rows are listed in an order of Mantle's own: a new one may come first or last.
Created(row) == rows' \in {<<row>> \o rows, Append(rows, row)}

OthersCreate ==
  /\ Cardinality(Named(Other)) < MaxOthers /\ (Both \/ (~dry /\ cut = 0))
  /\ Created(Row(Other, NoSpec))
  /\ UNCHANGED <<dry, cut, deploys, manifest, pc, attempt, offset, found, index, todo>>

\* A listing, with its content_type filter or without: the rows that have one of `names`, as
\* indices into `rows`, and the place of each among them.
Listed(names) == {i \in DOMAIN rows : rows[i].name \in names}
Rank(names, i) == Cardinality({j \in 1..i : rows[j].name \in names})

\* What is listed from the place after n on, and its first k rows.
Rest(names, n) == {i \in Listed(names) : n < Rank(names, i)}
Window(names, n, k) == {i \in Rest(names, n) : Rank(names, i) <= n + k}

\* What Mantle may answer to a request from the place after n: a page that does not
\* announce more has all the rest; one that does has any part of it, all of it included.
Pages(names, n) ==
  LET windows == {Window(names, n, k) : k \in 0..Page}
  IN IF dry THEN {[rows |-> {}, more |-> TRUE]}
     ELSE {page \in [rows : windows, more : BOOLEAN] :
             IF page.more THEN page.rows # {} ELSE page.rows = Rest(names, n)}

\* Mantle is stuck, or goes on again.
Stalls ==
  /\ cut < MaxCuts /\ (Both \/ Named(Other) = {})
  /\ dry' = ~dry
  /\ UNCHANGED <<rows, cut, deploys, manifest, pc, attempt, offset, found, index, todo>>

----------------------------------------------------------------------------
\* The host

\* A push begins, with a client that knows nothing.
Fresh(h) ==
  /\ pc' = [pc EXCEPT ![h] = "catalog"]
  /\ offset' = [offset EXCEPT ![h] = 0]
  /\ found' = [found EXCEPT ![h] = FALSE]
  /\ index' = [index EXCEPT ![h] = NothingIndexed]
  /\ todo' = [todo EXCEPT ![h] = Operators]

Ended_More(page) == ~page.more                          \* mutant: only has_more counts

\* not has_more, or nothing got.
Ended(page) == ~page.more \/ page.rows = {}

\* offset += len(got), or the scan is over.
Advance(n, page) == IF Ended(page) THEN 0 ELSE n + Cardinality(page.rows)

\* The scan of `names` takes a page; when it ends without the rest, what is missing counts as
\* not stored.  Mantle goes on again after the last scan it may cut.
Scans(h, names, page) ==
  /\ offset' = [offset EXCEPT ![h] = Advance(@, page)]
  /\ cut' = IF Ended(page) /\ page.rows # Rest(names, offset[h]) THEN cut + 1 ELSE cut
  /\ dry' = (dry /\ cut' < MaxCuts)

Holds(h, window) == found[h] \/ \E i \in window : rows[i].name = Catalog

\* One page of _ensure_catalog's scan; the last decides.
CatalogPage(h) ==
  /\ pc[h] = "catalog"
  /\ \E page \in Pages(Names, offset[h]) :
       LET holds == Holds(h, page.rows)
       IN /\ Scans(h, Names, page)
          /\ found' = [found EXCEPT ![h] = holds]
          /\ pc' = [pc EXCEPT ![h] = IF ~Ended(page) THEN "catalog"
                                     ELSE IF holds THEN "index" ELSE "create"]
  /\ UNCHANGED <<rows, deploys, manifest, attempt, index, todo>>

\* POST /artifacts for the catalog.
CreateCatalog(h) ==
  /\ pc[h] = "create"
  /\ Created(Row(Catalog, NoSpec))
  /\ pc' \in {[pc EXCEPT ![h] = "index"], [pc EXCEPT ![h] = "backoff"]}
  /\ UNCHANGED <<dry, cut, deploys, manifest, attempt, offset, found, index, todo>>

Latest(S) == CHOOSE i \in S : \A j \in S : j <= i
Content(i) == [id |-> rows[i].id, spec |-> rows[i].spec]

\* Mutant: the scan of operators starts over what it knows with every page.
Indexed_Last(h, window) ==
  [o \in Operators |->
     IF window \cap Named(o) # {} THEN Content(Latest(window \cap Named(o)))
     ELSE NotStored]

\* A later row of the same operator replaces an earlier one.
Indexed(h, window) ==
  [o \in Operators |->
     IF window \cap Named(o) # {} THEN Content(Latest(window \cap Named(o)))
     ELSE index[h][o]]

\* One page of _index's scan.
IndexPage(h) ==
  /\ pc[h] = "index"
  /\ \E page \in Pages(Operators, offset[h]) :
       /\ Scans(h, Operators, page)
       /\ index' = [index EXCEPT ![h] = Indexed(h, page.rows)]
       /\ pc' = [pc EXCEPT ![h] = IF Ended(page) THEN "put" ELSE "index"]
  /\ UNCHANGED <<rows, deploys, manifest, attempt, found, todo>>

Changed_Never(h, o) == FALSE                            \* mutant: create only

\* spec_hash(prior) != spec_hash(doc).  A stored operator reads back with
\* content "", which is not the None of a definition that has only a content_ref.
Changed(h, o) == o \in ByRef \/ index[h][o].spec # manifest[h][o]

\* The operator is put: the push goes on, or ends.
PutDone(h, o) ==
  /\ todo' = [todo EXCEPT ![h] = @ \ {o}]
  /\ pc' = [pc EXCEPT ![h] = IF todo'[h] = {} THEN "done" ELSE "put"]

\* The answer to a write was lost: the push raises.
Raised(h) ==
  /\ pc' = [pc EXCEPT ![h] = "backoff"]
  /\ UNCHANGED todo

\* put_artifact: POST, PATCH or nothing.
Put(h, o) ==
  /\ pc[h] = "put"
  /\ o \in todo[h]
  /\ \/ /\ index[h][o] = NotStored
        /\ Created(Row(o, manifest[h][o]))
        /\ PutDone(h, o) \/ Raised(h)
     \/ /\ index[h][o] # NotStored /\ Changed(h, o)
        /\ rows' = [i \in DOMAIN rows |-> IF rows[i].id = index[h][o].id
                                          THEN [rows[i] EXCEPT !.spec = manifest[h][o]]
                                          ELSE rows[i]]
        /\ PutDone(h, o) \/ Raised(h)
     \/ /\ index[h][o] # NotStored /\ ~Changed(h, o)
        /\ PutDone(h, o)
        /\ UNCHANGED rows
  /\ UNCHANGED <<dry, cut, deploys, manifest, attempt, offset, found, index>>

\* A call did not reach Mantle, or the definition is not valid.
Fails(h) ==
  /\ pc[h] \in {"catalog", "create", "index", "put"}
  /\ pc' = [pc EXCEPT ![h] = "backoff"]
  /\ UNCHANGED <<rows, dry, cut, deploys, manifest, attempt, offset, found, index, todo>>

LastAttempt(h) == attempt[h] = Attempts

\* asyncio.sleep(delay), then again, or the warning.
Retry(h) ==
  /\ pc[h] = "backoff"
  /\ \/ /\ LastAttempt(h)
        /\ pc' = [pc EXCEPT ![h] = "gaveUp"]
        /\ UNCHANGED <<attempt, offset, found, index, todo>>
     \/ /\ ~LastAttempt(h)
        /\ attempt' = [attempt EXCEPT ![h] = @ + 1]
        /\ Fresh(h)
  /\ UNCHANGED <<rows, dry, cut, deploys, manifest>>

\* The host is restarted, at any point, with the same build or an edited one.
Deploy(h, build) ==
  /\ deploys < MaxDeploys
  /\ deploys' = deploys + 1
  /\ manifest' = [manifest EXCEPT ![h] = build]
  /\ attempt' = [attempt EXCEPT ![h] = 1]
  /\ Fresh(h)
  /\ UNCHANGED <<rows, dry, cut>>

PushStep(h) ==
  \/ CatalogPage(h) \/ CreateCatalog(h) \/ IndexPage(h)
  \/ \E o \in Operators : Put(h, o)
  \/ Retry(h)

Next ==
  \/ OthersCreate \/ Stalls
  \/ \E h \in Hosts :
       \/ PushStep(h) \/ Fails(h)
       \/ \E build \in [Operators -> Specs] : Deploy(h, build)

\* Every call ends (30 s) and the thread goes on; none has to fail.
Spec == Init /\ [][Next]_vars
FairSpec == Spec /\ \A h \in Hosts : WF_vars(PushStep(h))

----------------------------------------------------------------------------
\* Properties

\* push.py 40: "The one collection the pushed operator artifacts live in".  No
\* retry, lost answer, restart, short page or listing order makes a second one, nor a
\* second row of an operator that is stored, as long as no scan was ended by a page that
\* announced rows Mantle then did not send (push.py 130-132: the boot goes on instead).
StoredOnce == cut = 0 => \A name \in Operators \cup {Catalog} : Cardinality(Named(name)) <= 1

\* A push that reports success has stored every operator of the build as that
\* build defines it, beside a catalog (push.py, upsert), also when its scans were cut.
PushedIsStored ==
  \A h \in Hosts : pc[h] = "done" =>
    /\ Named(Catalog) # {}
    /\ \A o \in Operators : \E i \in Named(o) : rows[i].spec = manifest[h][o]

\* Every boot's push ends, done or given up: no sequence of pages keeps a scan going for
\* ever, neither short ones, nor a listing that grows while it is read, nor a Mantle that
\* announces more and sends nothing (push.py 130-132 and 144).
PushEnds == \A h \in Hosts : pc[h] = "catalog" ~> pc[h] \in {"done", "gaveUp"}
=============================================================================
