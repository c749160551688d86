--------------------------- MODULE Evolution_proofs ---------------------------
(***************************************************************************)
(* The record of an operator, for any operators, specs, workers and calls: *)
(* its counters are evidence about the behaviour it has now, nobody is     *)
(* retired before a third refutation, selection spares what nothing is     *)
(* known about, and a write that nothing overlapped loses nothing.         *)
(***************************************************************************)
EXTENDS Evolution, Integers, TLAPS

----------------------------------------------------------------------------
\* Fitness

LEMMA QuotientBound ==
  ASSUME NEW a \in Nat, NEW d \in Nat \ {0}, NEW k \in Nat, k * d <= a
  PROVE  a \div d >= k
<1>1. a \div d \in Int /\ a < d * (a \div d + 1)
  BY SMT
<1> SUFFICES ASSUME a \div d < k PROVE FALSE
  BY <1>1
<1>2. PICK e \in Nat : k = (a \div d + 1) + e
  BY <1>1, SMT
<1>3. d * k = d * (a \div d + 1) + d * e /\ d * e \in Nat
  BY <1>1, <1>2, SMT
<1> QED
  BY <1>1, <1>3, SMT

\* The demand only adds to the verified part of the fitness.
LEMMA FitnessAtLeast ==
  ASSUME NEW t \in Tallies, NEW k \in Nat, k * (t.ver + t.ref + 2) <= 8000 * (t.ver + 1)
  PROVE  Fitness(t) \in Int /\ Fitness(t) >= k
<1> DEFINE n == t.ver + t.ref + 2
           m == t.uses + t.inv + 1
           v == t.ver + 1
           u == t.uses
<1>1. n \in Nat \ {0} /\ m \in Nat \ {0} /\ v \in Nat /\ u \in Nat /\ k * n <= 8000 * v
  BY DEF Tallies
<1>2. Fitness(t) = (2 * (8000 * v * m + 2000 * u * n) + n * m) \div (2 * (n * m))
  BY DEF Fitness
<1> HIDE DEF n, m, v, u
<1>3. n * m \in Nat \ {0} /\ u * n \in Nat /\ v * m \in Nat
  BY <1>1
<1>4. k * (n * m) <= 8000 * (v * m)
  <2>1. PICK d \in Nat : 8000 * v = k * n + d
    BY <1>1
  <2>2. (8000 * v) * m = (k * n) * m + d * m /\ d * m \in Nat
    BY <1>1, <2>1
  <2> QED
    BY <1>1, <1>3, <2>2
<1>5. 8000 * v * m = 8000 * (v * m) /\ 2000 * u * n = 2000 * (u * n)
  BY <1>1
<1>6. k * (2 * (n * m)) = 2 * (k * (n * m)) /\ k * (n * m) \in Nat
  BY <1>3
<1>7. k * (2 * (n * m)) <= 2 * (8000 * v * m + 2000 * u * n) + n * m
  BY <1>3, <1>4, <1>5, <1>6
<1>8. 2 * (8000 * v * m + 2000 * u * n) + n * m \in Nat /\ 2 * (n * m) \in Nat \ {0}
  BY <1>3, <1>5
<1> QED
  BY <1>2, <1>7, <1>8, QuotientBound

LEMMA Prior == PriorFitness = 4000
BY DEF PriorFitness, Fitness, NoEvidence

\* As many verifications as refutations leave an operator at least at the prior.
LEMMA NotBelowPrior ==
  ASSUME NEW t \in Tallies, t.ref <= t.ver
  PROVE  Fitness(t) \in Int /\ Fitness(t) >= 4000
<1>1. 4000 * (t.ver + t.ref + 2) <= 8000 * (t.ver + 1)
  BY DEF Tallies
<1> QED
  BY <1>1, FitnessAtLeast

LEMMA SquaresGrow ==
  ASSUME NEW g \in Nat, NEW h \in Nat, g <= h
  PROVE  g * g <= h * h
<1>1. PICK d \in Nat : h = g + d
  BY SMT
<1>2. h * h = g * g + 2 * (g * d) + d * d /\ g * d \in Nat /\ d * d \in Nat
  BY <1>1, SMT
<1> QED
  BY <1>2, SMT

\* One or two refutations are within the resolution of the prior.
LEMMA UnfitTakesThree ==
  ASSUME NEW t \in Tallies, IsUnfit(t)
  PROVE  t.ref >= 3
<1> DEFINE gap == PriorFitness - Fitness(t)
           n == (t.ver + 1) + (t.ref + 1)
<1> SUFFICES ASSUME t.ref < 3 PROVE FALSE
  BY DEF Tallies
<1>1. t.ver \in Nat /\ t.ref \in Nat
  BY DEF Tallies
<1>2. /\ Fitness(t) < PriorFitness
      /\ SquaredQuantile * (t.ver + 1) * (t.ref + 1) < gap * gap * n * n * (n + 1)
  BY DEF IsUnfit
<1>3. Fitness(t) \in Int /\ Fitness(t) >= 0
  BY <1>1, FitnessAtLeast
<1>4. t.ver < t.ref
  BY <1>1, <1>2, <1>3, Prior, NotBelowPrior
<1>5. gap \in Nat
  BY <1>2, <1>3, Prior
<1>6. CASE t.ver = 0 /\ t.ref = 1
  <2>1. Fitness(t) >= 2666
    BY <1>6, FitnessAtLeast
  <2>2. gap * gap <= 1334 * 1334
    BY <1>3, <1>5, <2>1, Prior, SquaresGrow
  <2>3. gap * gap * n * n * (n + 1) = 36 * (gap * gap) /\ gap * gap \in Nat
    BY <1>5, <1>6
  <2> QED
    BY <1>2, <1>6, <2>2, <2>3 DEF SquaredQuantile
<1>7. CASE t.ver = 0 /\ t.ref = 2
  <2>1. Fitness(t) >= 2000
    BY <1>7, FitnessAtLeast
  <2>2. gap * gap <= 2000 * 2000
    BY <1>3, <1>5, <2>1, Prior, SquaresGrow
  <2>3. gap * gap * n * n * (n + 1) = 80 * (gap * gap) /\ gap * gap \in Nat
    BY <1>5, <1>7
  <2> QED
    BY <1>2, <1>7, <2>2, <2>3 DEF SquaredQuantile
<1>8. CASE t.ver = 1 /\ t.ref = 2
  <2>1. Fitness(t) >= 3200
    BY <1>8, FitnessAtLeast
  <2>2. gap * gap <= 800 * 800
    BY <1>3, <1>5, <2>1, Prior, SquaresGrow
  <2>3. gap * gap * n * n * (n + 1) = 150 * (gap * gap) /\ gap * gap \in Nat
    BY <1>5, <1>8
  <2> QED
    BY <1>2, <1>8, <2>2, <2>3 DEF SquaredQuantile
<1> QED
  BY <1>1, <1>4, <1>6, <1>7, <1>8

----------------------------------------------------------------------------
\* The invariant

\* What a document says was reported of the behaviour it is the record of.
Backed(row, reported) ==
  LET t == row.tally
      seen == reported[row.spec]
  IN /\ t.inv <= seen.inv /\ t.ver <= seen.ver /\ t.ref <= seen.ref /\ t.uses <= seen.uses
     /\ t.ver + t.ref <= t.inv
     /\ row.archived => seen.ref >= 3

\* c is about to put its row as the document of its operator.
Writes(c) == call[c].do \in {"put", "archive"}

StoreBacked == \A o \in Operators : Exists(store[o]) => Backed(store[o], observed[o])

HeldBacked ==
  \A c \in Callers : Writes(c) =>
    call[c].op \in Operators /\ call[c].row \in Rows /\ Backed(call[c].row, observed[call[c].op])

\* Nothing of `old` is given up without a trace.
NothingLost(old, new) ==
  /\ old.by \in People => new.by \in People
  /\ old.cited => new.cited
  /\ \/ \A f \in DOMAIN NoEvidence : new.tally[f] >= old.tally[f]
     \/ new.spec # old.spec /\ new.reset = old.spec

\* What c is about to put was made of what is stored, unless another wrote since.
HeldCurrent ==
  \A c \in Callers : Writes(c) /\ ~overlapped[c] /\ Exists(store[call[c].op]) =>
    NothingLost(store[call[c].op], call[c].row)

\* An answer of select is the fittest of what it read.
ChosenFittest ==
  chosen.op # NoOperator =>
    /\ Exists(chosen.got[chosen.op])
    /\ \A o \in Operators : Exists(chosen.got[o]) =>
         Fitter(chosen.got[chosen.op].tally, chosen.got[o].tally)

IInv == TypeOK /\ StoreBacked /\ HeldBacked /\ HeldCurrent /\ ChosenFittest

----------------------------------------------------------------------------
\* Documents

LEMMA NoRowIsNoRow ==
  ASSUME EvolutionAssumption
  PROVE  /\ NoRow \notin Rows
         /\ \A row \in Rows \cup {NoRow} : Exists(row) <=> row \in Rows
BY DEF EvolutionAssumption, NoRow, Rows, Exists

LEMMA NoEvidenceType == NoEvidence \in Tallies
BY DEF NoEvidence, Tallies

LEMMA FreshType ==
  ASSUME EvolutionAssumption, NEW doc \in Docs
  PROVE  /\ Fresh(doc) \in Rows /\ Fresh(doc).spec = doc.spec
         /\ Fresh(doc).tally = NoEvidence /\ Fresh(doc).archived = FALSE
BY NoEvidenceType DEF EvolutionAssumption, Fresh, Rows

LEMMA PreservedType ==
  ASSUME EvolutionAssumption, NEW doc \in Docs, NEW ex \in Rows \cup {NoRow}
  PROVE  LET new == Preserved(ex, doc) IN
         /\ new \in Rows /\ new.archived = FALSE
         /\ new.tally = NoEvidence \/ (ex \in Rows /\ new.spec = ex.spec /\ new.tally = ex.tally)
         /\ Exists(ex) => NothingLost(ex, new)
<1>1. CASE ~Exists(ex)
  BY <1>1, FreshType DEF Preserved
<1>2. CASE Exists(ex)
  <2> DEFINE same == ex.spec = doc.spec
             new == [spec |-> doc.spec, tally |-> IF same THEN ex.tally ELSE NoEvidence,
                     by |-> IF doc.by = ProcessAuthor THEN ex.by ELSE doc.by,
                     cited |-> doc.cited \/ ex.cited, archived |-> FALSE,
                     reset |-> IF same THEN NoSpec ELSE ex.spec]
  <2>1. /\ ex \in Rows /\ doc.spec \in Specs /\ doc.by \in Authors /\ doc.cited \in BOOLEAN
    BY <1>2, NoRowIsNoRow DEF EvolutionAssumption
  <2>2. Preserved(ex, doc) = new
    BY <1>2 DEF Preserved, Fresh
  <2>3. new \in Rows
    BY <2>1, NoEvidenceType DEF Rows
  <2>4. ex.by \in People => new.by \in People
    BY <2>1 DEF Rows, Authors
  <2>5. \/ \A f \in DOMAIN NoEvidence : new.tally[f] >= ex.tally[f]
        \/ new.spec # ex.spec /\ new.reset = ex.spec
    BY <2>1 DEF NoEvidence, Rows, Tallies
  <2>6. /\ ex.cited => new.cited
        /\ new.archived = FALSE
        /\ new.tally = NoEvidence \/ (new.spec = ex.spec /\ new.tally = ex.tally)
    OBVIOUS
  <2> HIDE DEF new
  <2> QED
    BY <2>1, <2>2, <2>3, <2>4, <2>5, <2>6 DEF NothingLost
<1> QED
  BY <1>1, <1>2

\* What is added to the counters is added to what was observed.
LEMMA CountedType ==
  ASSUME NEW t \in Tallies, NEW v
  PROVE  /\ Counted(t, v) \in Tallies
         /\ Counted(t, v).inv = t.inv + 1 /\ Counted(t, v).uses = t.uses
         /\ Counted(t, v).ver = IF v = "verified" THEN t.ver + 1 ELSE t.ver
         /\ Counted(t, v).ref = IF v = "refuted" THEN t.ref + 1 ELSE t.ref
<1>1. /\ (IF v = "verified" THEN t.ver + 1 ELSE t.ver) \in Nat
      /\ (IF v = "refuted" THEN t.ref + 1 ELSE t.ref) \in Nat
      /\ t.inv + 1 \in Nat
  BY DEF Tallies
<1>2. Counted(t, v) \in Tallies
  BY <1>1 DEF Counted, Tallies
<1> QED
  BY <1>2 DEF Counted, Tallies

LEMMA CreditedType ==
  ASSUME NEW t \in Tallies
  PROVE  /\ Credited(t) \in Tallies /\ Credited(t).inv = t.inv /\ Credited(t).ver = t.ver
         /\ Credited(t).ref = t.ref /\ Credited(t).uses = t.uses + 1
BY DEF Credited, Tallies

\* Evidence that is added on both sides keeps a document backed; nothing is lost by it.
LEMMA CountedBacked ==
  ASSUME NEW row \in Rows, NEW seen \in Tallies, NEW v,
         row.tally.inv <= seen.inv, row.tally.ver <= seen.ver,
         row.tally.ref <= seen.ref, row.tally.uses <= seen.uses,
         row.tally.ver + row.tally.ref <= row.tally.inv, row.archived => seen.ref >= 3
  PROVE  LET new == [row EXCEPT !.tally = Counted(@, v)]
             t == Counted(row.tally, v)
             s == Counted(seen, v)
         IN /\ new \in Rows /\ new.spec = row.spec /\ new.tally = t
            /\ t.inv <= s.inv /\ t.ver <= s.ver /\ t.ref <= s.ref /\ t.uses <= s.uses
            /\ t.ver + t.ref <= t.inv /\ (new.archived => s.ref >= 3)
            /\ s.inv >= seen.inv /\ s.ver >= seen.ver /\ s.ref >= seen.ref /\ s.uses >= seen.uses
            /\ s \in Tallies /\ NothingLost(row, new)
<1> DEFINE t == Counted(row.tally, v)
           s == Counted(seen, v)
           new == [row EXCEPT !.tally = t]
<1>1. row.tally \in Tallies
  BY DEF Rows
<1>2. /\ t \in Tallies /\ t.inv = row.tally.inv + 1 /\ t.uses = row.tally.uses
      /\ t.ver = IF v = "verified" THEN row.tally.ver + 1 ELSE row.tally.ver
      /\ t.ref = IF v = "refuted" THEN row.tally.ref + 1 ELSE row.tally.ref
      /\ s \in Tallies /\ s.inv = seen.inv + 1 /\ s.uses = seen.uses
      /\ s.ver = IF v = "verified" THEN seen.ver + 1 ELSE seen.ver
      /\ s.ref = IF v = "refuted" THEN seen.ref + 1 ELSE seen.ref
  BY <1>1, CountedType
<1> HIDE DEF t, s
<1>3. /\ row.tally.inv \in Nat /\ row.tally.ver \in Nat /\ row.tally.ref \in Nat
      /\ row.tally.uses \in Nat /\ seen.inv \in Nat /\ seen.ver \in Nat /\ seen.ref \in Nat
      /\ seen.uses \in Nat
  BY <1>1 DEF Tallies
<1>4. /\ t.inv <= s.inv /\ t.ver <= s.ver /\ t.ref <= s.ref /\ t.uses <= s.uses
      /\ t.ver + t.ref <= t.inv
      /\ s.inv >= seen.inv /\ s.ver >= seen.ver /\ s.ref >= seen.ref /\ s.uses >= seen.uses
      /\ t.inv >= row.tally.inv /\ t.ver >= row.tally.ver /\ t.ref >= row.tally.ref
      /\ t.uses >= row.tally.uses /\ (seen.ref >= 3 => s.ref >= 3)
  BY <1>2, <1>3
<1>5. /\ new \in Rows /\ new.spec = row.spec /\ new.tally = t /\ new.by = row.by
      /\ new.cited = row.cited /\ new.archived = row.archived
  BY <1>2 DEF Rows
<1>6. NothingLost(row, new)
  BY <1>4, <1>5 DEF NothingLost, NoEvidence
<1> QED
  BY <1>2, <1>4, <1>5, <1>6 DEF t, s

LEMMA CreditedBacked ==
  ASSUME NEW row \in Rows, NEW seen \in Tallies,
         row.tally.inv <= seen.inv, row.tally.ver <= seen.ver,
         row.tally.ref <= seen.ref, row.tally.uses <= seen.uses,
         row.tally.ver + row.tally.ref <= row.tally.inv, row.archived => seen.ref >= 3
  PROVE  LET new == [row EXCEPT !.tally = Credited(@)]
             t == Credited(row.tally)
             s == Credited(seen)
         IN /\ new \in Rows /\ new.spec = row.spec /\ new.tally = t
            /\ t.inv <= s.inv /\ t.ver <= s.ver /\ t.ref <= s.ref /\ t.uses <= s.uses
            /\ t.ver + t.ref <= t.inv /\ (new.archived => s.ref >= 3)
            /\ s.inv >= seen.inv /\ s.ver >= seen.ver /\ s.ref >= seen.ref /\ s.uses >= seen.uses
            /\ s \in Tallies /\ NothingLost(row, new)
<1> DEFINE t == Credited(row.tally)
           s == Credited(seen)
           new == [row EXCEPT !.tally = t]
<1>1. row.tally \in Tallies
  BY DEF Rows
<1>2. /\ t \in Tallies /\ t.inv = row.tally.inv /\ t.uses = row.tally.uses + 1
      /\ t.ver = row.tally.ver /\ t.ref = row.tally.ref
      /\ s \in Tallies /\ s.inv = seen.inv /\ s.uses = seen.uses + 1
      /\ s.ver = seen.ver /\ s.ref = seen.ref
  BY <1>1, CreditedType
<1> HIDE DEF t, s
<1>3. /\ row.tally.inv \in Nat /\ row.tally.ver \in Nat /\ row.tally.ref \in Nat
      /\ row.tally.uses \in Nat /\ seen.inv \in Nat /\ seen.ver \in Nat /\ seen.ref \in Nat
      /\ seen.uses \in Nat
  BY <1>1 DEF Tallies
<1>4. /\ t.inv <= s.inv /\ t.ver <= s.ver /\ t.ref <= s.ref /\ t.uses <= s.uses
      /\ t.ver + t.ref <= t.inv
      /\ s.inv >= seen.inv /\ s.ver >= seen.ver /\ s.ref >= seen.ref /\ s.uses >= seen.uses
      /\ t.inv >= row.tally.inv /\ t.ver >= row.tally.ver /\ t.ref >= row.tally.ref
      /\ t.uses >= row.tally.uses /\ (seen.ref >= 3 => s.ref >= 3)
  BY <1>2, <1>3
<1>5. /\ new \in Rows /\ new.spec = row.spec /\ new.tally = t /\ new.by = row.by
      /\ new.cited = row.cited /\ new.archived = row.archived
  BY <1>2 DEF Rows
<1>6. NothingLost(row, new)
  BY <1>4, <1>5 DEF NothingLost, NoEvidence
<1> QED
  BY <1>2, <1>4, <1>5, <1>6 DEF t, s

----------------------------------------------------------------------------
\* Steps

\* What is observed is never taken back.
ObservedGrows ==
  /\ observed' \in [Operators -> [Specs -> Tallies]]
  /\ \A o \in Operators, s \in Specs :
       LET was == observed[o][s]
           is == observed'[o][s]
       IN is.inv >= was.inv /\ is.ver >= was.ver /\ is.ref >= was.ref /\ is.uses >= was.uses

LEMMA BackedStays ==
  ASSUME TypeOK, ObservedGrows, NEW o \in Operators, NEW row \in Rows, Backed(row, observed[o])
  PROVE  Backed(row, observed'[o])
<1> DEFINE was == observed[o][row.spec]
           is == observed'[o][row.spec]
<1>1. /\ row.spec \in Specs /\ row.tally \in Tallies /\ was \in Tallies /\ is \in Tallies
      /\ is.inv >= was.inv /\ is.ver >= was.ver /\ is.ref >= was.ref /\ is.uses >= was.uses
  BY DEF TypeOK, ObservedGrows, Rows
<1>2. /\ row.tally.inv <= was.inv /\ row.tally.ver <= was.ver /\ row.tally.ref <= was.ref
      /\ row.tally.uses <= was.uses /\ row.tally.ver + row.tally.ref <= row.tally.inv
      /\ row.archived => was.ref >= 3
  BY DEF Backed
<1> HIDE DEF was, is
<1>3. /\ row.tally.inv <= is.inv /\ row.tally.ver <= is.ver /\ row.tally.ref <= is.ref
      /\ row.tally.uses <= is.uses
      /\ row.archived => is.ref >= 3
  BY <1>1, <1>2 DEF Tallies
<1> QED
  BY <1>2, <1>3 DEF Backed, is

\* Nothing that c has read is still to be put, or it was read just now.
ReadsOn(c, next) ==
  /\ next \in Works
  /\ store' = store /\ call' = [call EXCEPT ![c] = next]
  /\ next.do \in {"put", "archive"} =>
       /\ overlapped' = [overlapped EXCEPT ![c] = FALSE]
       /\ next.op \in Operators /\ next.row \in Rows /\ Backed(next.row, observed'[next.op])
       /\ Exists(store[next.op]) => NothingLost(store[next.op], next.row)

\* A step that only reads the store keeps what is said of documents.
LEMMA ReadKeeps ==
  ASSUME IInv, NEW c \in Callers, NEW next, ReadsOn(c, next), ObservedGrows,
         EvolutionAssumption,
         \/ overlapped' = [overlapped EXCEPT ![c] = FALSE]
         \/ UNCHANGED overlapped /\ next.do \notin {"put", "archive"}
  PROVE  StoreBacked' /\ HeldBacked' /\ HeldCurrent'
<1>1. StoreBacked'
  <2>1. \A o \in Operators : Exists(store[o]) => store[o] \in Rows
    BY NoRowIsNoRow DEF IInv, TypeOK
  <2> QED
    BY <2>1, BackedStays DEF IInv, StoreBacked, ReadsOn
<1>2. \A d \in Callers : d # c => call'[d] = call[d] /\ overlapped'[d] = overlapped[d]
  BY DEF IInv, TypeOK, ReadsOn
<1>3. call'[c] = next
  BY DEF IInv, TypeOK, ReadsOn
<1>4. HeldBacked'
  <2> SUFFICES ASSUME NEW d \in Callers, Writes(d)'
               PROVE  /\ call'[d].op \in Operators /\ call'[d].row \in Rows
                      /\ Backed(call'[d].row, observed'[call'[d].op])
    BY DEF HeldBacked
  <2>1. CASE d = c
    BY <1>3, <2>1 DEF ReadsOn, Writes, Backed
  <2>2. CASE d # c
    <3>1. /\ call[d].op \in Operators /\ call[d].row \in Rows
          /\ Backed(call[d].row, observed[call[d].op]) /\ call'[d] = call[d]
      BY <1>2, <2>2 DEF IInv, HeldBacked, Writes
    <3>2. \A o \in Operators, row \in Rows : Backed(row, observed[o]) => Backed(row, observed'[o])
      BY BackedStays DEF IInv
    <3> QED
      BY <3>1, <3>2 DEF Backed
  <2> QED
    BY <2>1, <2>2
<1>5. HeldCurrent'
  <2> SUFFICES ASSUME NEW d \in Callers, Writes(d)', ~overlapped'[d],
                      Exists(store'[call'[d].op])
               PROVE  NothingLost(store'[call'[d].op], call'[d].row)
    BY DEF HeldCurrent
  <2>1. CASE d = c
    BY <1>3, <2>1 DEF ReadsOn, Writes
  <2>2. CASE d # c
    BY <1>2, <2>2 DEF ReadsOn, Writes, IInv, HeldCurrent
  <2> QED
    BY <2>1, <2>2
<1> QED
  BY <1>1, <1>4, <1>5

\* Who is about to put a document goes on being so.
WritersStay == \A c \in Callers : Writes(c) => call'[c] = call[c]

LEMMA IdleType == Idle \in Works /\ Idle.do = "idle"
BY DEF Idle, Works, Steps

LEMMA PutWork ==
  ASSUME NEW o \in Operators, NEW row \in Rows
  PROVE  LET next == [Idle EXCEPT !.do = "put", !.op = o, !.row = row]
         IN next \in Works /\ next.do = "put" /\ next.op = o /\ next.row = row
<1>1. "put" \in Steps /\ o \in Operators \cup {NoOperator} /\ row \in Rows \cup {NoRow}
  BY DEF Steps
<1> QED
  BY <1>1, IdleType DEF Works

LEMMA UsedWork ==
  ASSUME NEW out \in SUBSET Outputs, NEW uses \in Nat
  PROVE  LET next == [Idle EXCEPT !.do = "putUsed", !.out = out, !.uses = uses]
         IN next \in Works /\ next.do = "putUsed"
<1>1. "putUsed" \in Steps
  BY DEF Steps
<1> QED
  BY <1>1, IdleType DEF Works

LEMMA GetWork ==
  ASSUME NEW left \in SUBSET Operators
  PROVE  LET next == [Idle EXCEPT !.do = "get", !.left = left]
         IN next \in Works /\ next.do = "get"
<1>1. "get" \in Steps
  BY DEF Steps
<1> QED
  BY <1>1, IdleType DEF Works

LEMMA OnwardsType ==
  ASSUME NEW left \in SUBSET Operators
  PROVE  Onwards(left) \in Works /\ Onwards(left).do \in {"idle", "get"}
BY IdleType, GetWork DEF Onwards

\* A call begins.
LEMMA EnterKeeps ==
  ASSUME EvolutionAssumption, IInv, NEW w \in Workers, NEW next, Enter(w, next),
         ReadsOn(w, next), UNCHANGED demand, ObservedGrows
  PROVE  IInv' /\ WritersStay
<1>1. w \in Callers /\ call[w].do = "idle" /\ calls' = calls + 1 /\ calls < MaxCalls
  BY DEF Callers, Enter
<1>2. /\ overlapped' = [overlapped EXCEPT ![w] = FALSE] /\ chosen' = NotChosen
      /\ store' = store /\ call' = [call EXCEPT ![w] = next] /\ next \in Works
  BY DEF Enter, ReadsOn
<1>3. TypeOK'
  <2>1. NotChosen \in [op : Operators \cup {NoOperator}, got : [Operators -> Rows \cup {NoRow}]]
    BY DEF NotChosen, Idle
  <2>2. calls' \in 0..MaxCalls
    BY <1>1 DEF IInv, TypeOK, EvolutionAssumption
  <2>3. overlapped' \in [Callers -> BOOLEAN] /\ call' \in [Callers -> Works]
    BY <1>2 DEF IInv, TypeOK
  <2> QED
    BY <1>2, <2>1, <2>2, <2>3 DEF IInv, TypeOK, ObservedGrows
<1>4. ChosenFittest'
  BY <1>2 DEF ChosenFittest, NotChosen
<1>5. WritersStay
  BY <1>1, <1>2 DEF WritersStay, Writes, IInv, TypeOK
<1> QED
  BY <1>1, <1>2, <1>3, <1>4, <1>5, ReadKeeps DEF IInv

LEMMA ObservedStays ==
  ASSUME TypeOK, UNCHANGED observed
  PROVE  ObservedGrows
<1>1. \A o \in Operators, s \in Specs : observed[o][s] \in Tallies
  BY DEF TypeOK
<1> QED
  BY <1>1 DEF ObservedGrows, TypeOK, Tallies

\* What is reported of a behaviour adds to what was observed of it.
LEMMA ReportGrows ==
  ASSUME TypeOK, NEW o \in Operators, NEW s \in Specs, NEW tally \in Tallies,
         Report(o, s, tally),
         tally.inv >= observed[o][s].inv, tally.ver >= observed[o][s].ver,
         tally.ref >= observed[o][s].ref, tally.uses >= observed[o][s].uses
  PROVE  ObservedGrows /\ observed'[o][s] = tally
<1>1. \A p \in Operators, q \in Specs : observed[p][q] \in Tallies
  BY DEF TypeOK
<1>2. \A p \in Operators, q \in Specs :
        observed'[p][q] = IF p = o /\ q = s THEN tally ELSE observed[p][q]
  BY DEF Report, TypeOK
<1>3. observed' \in [Operators -> [Specs -> Tallies]]
  BY DEF Report, TypeOK
<1> QED
  BY <1>1, <1>2, <1>3 DEF ObservedGrows, Tallies

LEMMA PutOperatorKeeps ==
  ASSUME EvolutionAssumption, IInv, NEW w \in Workers, NEW o \in Operators, NEW doc \in Docs,
         PutOperator(w, o, doc)
  PROVE  IInv' /\ WritersStay
<1> DEFINE row == Preserved(store[o], doc)
           next == [Idle EXCEPT !.do = "put", !.op = o, !.row = row]
<1>1. store[o] \in Rows \cup {NoRow}
  BY DEF IInv, TypeOK
<1>2. /\ row \in Rows /\ row.archived = FALSE
      /\ row.tally = NoEvidence \/ /\ store[o] \in Rows /\ row.spec = store[o].spec
                                   /\ row.tally = store[o].tally
      /\ Exists(store[o]) => NothingLost(store[o], row)
  BY <1>1, PreservedType
<1>3. ObservedGrows
  BY ObservedStays DEF IInv, PutOperator
<1>4. Enter(w, next) /\ UNCHANGED <<store, demand, observed>>
  BY DEF PutOperator
<1> HIDE DEF row
<1>5. Backed(row, observed[o])
  <2>1. CASE row.tally = NoEvidence
    <3>1. observed[o][row.spec] \in Tallies
      BY <1>2 DEF IInv, TypeOK, Rows
    <3> QED
      BY <1>2, <2>1, <3>1 DEF Backed, NoEvidence, Tallies
  <2>2. CASE /\ store[o] \in Rows /\ row.spec = store[o].spec
             /\ row.tally = store[o].tally
    <3>1. Backed(store[o], observed[o])
      BY <2>2, NoRowIsNoRow DEF IInv, StoreBacked
    <3> QED
      BY <1>2, <2>2, <3>1 DEF Backed
  <2> QED
    BY <1>2, <2>1, <2>2
<1>6. Backed(row, observed'[o])
  BY <1>4, <1>5 DEF Backed
<1>7. next \in Works /\ next.op = o /\ next.row = row
  BY <1>2, PutWork
<1>8. ReadsOn(w, next)
  BY <1>2, <1>4, <1>6, <1>7 DEF ReadsOn, Enter, Backed
<1> QED
  BY <1>3, <1>4, <1>8, EnterKeeps

LEMMA RecordInvocationKeeps ==
  ASSUME EvolutionAssumption, IInv, NEW w \in Workers, NEW o \in Operators, NEW v \in Verdicts,
         RecordInvocation(w, o, v)
  PROVE  IInv' /\ WritersStay
<1> DEFINE row == store[o]
           seen == observed[o][row.spec]
           new == [row EXCEPT !.tally = Counted(@, v)]
           next == [Idle EXCEPT !.do = "put", !.op = o, !.row = new]
<1>1. row \in Rows /\ Backed(row, observed[o]) /\ row.spec \in Specs /\ seen \in Tallies
  BY NoRowIsNoRow DEF RecordInvocation, IInv, TypeOK, StoreBacked, Rows
<1>2. /\ Enter(w, next) /\ Report(o, row.spec, Counted(seen, v)) /\ UNCHANGED <<store, demand>>
  BY DEF RecordInvocation
<1> DEFINE t == Counted(row.tally, v)
           s == Counted(seen, v)
<1>3. /\ new \in Rows /\ new.spec = row.spec /\ new.tally = t
      /\ t.inv <= s.inv /\ t.ver <= s.ver /\ t.ref <= s.ref /\ t.uses <= s.uses
      /\ t.ver + t.ref <= t.inv /\ (new.archived => s.ref >= 3)
      /\ s.inv >= seen.inv /\ s.ver >= seen.ver /\ s.ref >= seen.ref /\ s.uses >= seen.uses
      /\ s \in Tallies /\ NothingLost(row, new)
  BY <1>1, CountedBacked DEF Backed
<1> HIDE DEF t, s
<1>4. ObservedGrows /\ observed'[o][row.spec] = s
  BY <1>1, <1>2, <1>3, ReportGrows DEF IInv, s
<1> HIDE DEF new, row, seen
<1>5. next \in Works /\ next.op = o /\ next.row = new
  BY <1>3, PutWork
<1>6. Backed(new, observed'[o])
  BY <1>3, <1>4 DEF Backed
<1>7. ReadsOn(w, next)
  BY <1>2, <1>3, <1>5, <1>6 DEF ReadsOn, Enter, row, Backed
<1> QED
  BY <1>2, <1>4, <1>7, EnterKeeps

LEMMA RecordUseKeeps ==
  ASSUME EvolutionAssumption, IInv, NEW w \in Workers, NEW x \in Outputs, RecordUse(w, x)
  PROVE  IInv' /\ WritersStay
<1> DEFINE next == [Idle EXCEPT !.do = "putUsed", !.out = {x}, !.uses = demand[x] + 1]
<1>1. Enter(w, next) /\ UNCHANGED <<store, demand, observed>> /\ demand[x] + 1 \in Nat
  BY DEF RecordUse, IInv, TypeOK
<1>2. next \in Works /\ next.do = "putUsed"
  BY <1>1, UsedWork
<1>3. ObservedGrows
  BY <1>1, ObservedStays DEF IInv
<1> HIDE DEF next
<1>4. ReadsOn(w, next)
  BY <1>1, <1>2 DEF ReadsOn, Enter
<1> QED
  BY <1>1, <1>3, <1>4, EnterKeeps

LEMMA SelectKeeps ==
  ASSUME EvolutionAssumption, IInv, NEW w \in Workers, Select(w)
  PROVE  IInv' /\ WritersStay
<1> DEFINE next == [Idle EXCEPT !.do = "get", !.left = Operators]
<1>1. Enter(w, next) /\ UNCHANGED <<store, demand, observed>>
  BY DEF Select
<1>2. next \in Works /\ next.do = "get"
  BY GetWork
<1>3. ObservedGrows
  BY <1>1, ObservedStays DEF IInv
<1> HIDE DEF next
<1>4. ReadsOn(w, next)
  BY <1>1, <1>2 DEF ReadsOn, Enter
<1> QED
  BY <1>1, <1>3, <1>4, EnterKeeps

\* A call, or the sweep, goes on: it wrote no document, and may have read one.
LEMMA GoesOn ==
  ASSUME EvolutionAssumption, IInv, NEW c \in Callers, NEW next, ~Writes(c), ReadsOn(c, next),
         ObservedGrows, UNCHANGED calls, demand' \in [Outputs -> Nat], chosen' = NotChosen,
         \/ overlapped' = [overlapped EXCEPT ![c] = FALSE]
         \/ UNCHANGED overlapped /\ next.do \notin {"put", "archive"}
  PROVE  IInv' /\ WritersStay
<1>1. TypeOK'
  <2>1. NotChosen \in [op : Operators \cup {NoOperator}, got : [Operators -> Rows \cup {NoRow}]]
    BY DEF NotChosen, Idle
  <2>2. overlapped' \in [Callers -> BOOLEAN] /\ call' \in [Callers -> Works]
    BY DEF IInv, TypeOK, ReadsOn
  <2> QED
    BY <2>1, <2>2 DEF IInv, TypeOK, ObservedGrows, ReadsOn
<1>2. ChosenFittest'
  BY DEF ChosenFittest, NotChosen
<1>3. WritersStay
  BY DEF WritersStay, ReadsOn, IInv, TypeOK
<1> QED
  BY <1>1, <1>2, <1>3, ReadKeeps DEF IInv

LEMMA PutUsedKeeps ==
  ASSUME EvolutionAssumption, IInv, NEW w \in Workers, PutUsed(w)
  PROVE  IInv' /\ WritersStay
<1> DEFINE next == [call[w] EXCEPT !.do = "credit"]
<1>1. w \in Callers /\ call[w] \in Works /\ ~Writes(w)
  BY DEF Callers, PutUsed, Writes, IInv, TypeOK
<1>2. "credit" \in Steps
  BY DEF Steps
<1>3. next \in Works /\ next.do = "credit"
  BY <1>1, <1>2 DEF Works
<1>4. call' = [call EXCEPT ![w] = next]
  BY <1>1 DEF PutUsed, IInv, TypeOK
<1>5. /\ chosen' = NotChosen /\ UNCHANGED <<store, calls, overlapped, observed>>
      /\ demand' = [x \in Outputs |-> IF x \in call[w].out THEN call[w].uses ELSE demand[x]]
  BY DEF PutUsed
<1>6. demand' \in [Outputs -> Nat]
  BY <1>1, <1>5 DEF IInv, TypeOK, Works
<1>7. ObservedGrows
  BY <1>5, ObservedStays DEF IInv
<1> HIDE DEF next
<1>8. ReadsOn(w, next)
  BY <1>3, <1>4, <1>5 DEF ReadsOn
<1> QED
  BY <1>1, <1>3, <1>5, <1>6, <1>7, <1>8, GoesOn

LEMMA CreditKeeps ==
  ASSUME EvolutionAssumption, IInv, NEW w \in Workers, Credit(w)
  PROVE  IInv' /\ WritersStay
<1>1. w \in Callers /\ ~Writes(w) /\ call[w] \in Works
  BY DEF Callers, Credit, Writes, IInv, TypeOK
<1>2. /\ overlapped' = [overlapped EXCEPT ![w] = FALSE] /\ chosen' = NotChosen
      /\ UNCHANGED <<store, demand, calls>> /\ demand' \in [Outputs -> Nat]
  BY DEF Credit, IInv, TypeOK
<1>3. PICK o \in Operators :
        LET row == store[o]
        IN IF Exists(row)
           THEN /\ call' = [call EXCEPT ![w] = [Idle EXCEPT
                              !.do = "put", !.op = o,
                              !.row = [row EXCEPT !.tally = Credited(@)]]]
                /\ Report(o, row.spec, Credited(observed[o][row.spec]))
           ELSE /\ call' = [call EXCEPT ![w] = Idle]
                /\ UNCHANGED observed
  BY <1>1 DEF Credit, Works, EvolutionAssumption
<1>4. CASE Exists(store[o])
  <2> DEFINE row == store[o]
             seen == observed[o][row.spec]
             new == [row EXCEPT !.tally = Credited(@)]
             next == [Idle EXCEPT !.do = "put", !.op = o, !.row = new]
             t == Credited(row.tally)
             s == Credited(seen)
  <2>1. row \in Rows /\ Backed(row, observed[o]) /\ row.spec \in Specs /\ seen \in Tallies
    BY <1>4, NoRowIsNoRow DEF IInv, TypeOK, StoreBacked, Rows
  <2>2. call' = [call EXCEPT ![w] = next] /\ Report(o, row.spec, s)
    BY <1>3, <1>4
  <2>3. /\ new \in Rows /\ new.spec = row.spec /\ new.tally = t
        /\ t.inv <= s.inv /\ t.ver <= s.ver /\ t.ref <= s.ref /\ t.uses <= s.uses
        /\ t.ver + t.ref <= t.inv /\ (new.archived => s.ref >= 3)
        /\ s.inv >= seen.inv /\ s.ver >= seen.ver /\ s.ref >= seen.ref /\ s.uses >= seen.uses
        /\ s \in Tallies /\ NothingLost(row, new)
    BY <2>1, CreditedBacked DEF Backed
  <2> HIDE DEF t, s
  <2>4. ObservedGrows /\ observed'[o][row.spec] = s
    BY <2>1, <2>2, <2>3, ReportGrows DEF IInv
  <2> HIDE DEF new, row, seen
  <2>5. next \in Works /\ next.op = o /\ next.row = new
    BY <2>3, PutWork
  <2>6. Backed(new, observed'[o])
    BY <2>3, <2>4 DEF Backed
  <2> HIDE DEF next
  <2>7. ReadsOn(w, next)
    BY <1>2, <2>2, <2>3, <2>5, <2>6 DEF ReadsOn, row
  <2> QED
    BY <1>1, <1>2, <2>4, <2>7, GoesOn
<1>5. CASE ~Exists(store[o])
  <2>1. call' = [call EXCEPT ![w] = Idle] /\ UNCHANGED observed
    BY <1>3, <1>5
  <2>2. ReadsOn(w, Idle)
    BY <1>2, <2>1, IdleType DEF ReadsOn
  <2> QED
    BY <1>1, <1>2, <2>1, <2>2, ObservedStays, GoesOn DEF IInv
<1> QED
  BY <1>4, <1>5

LEMMA GetCandidateKeeps ==
  ASSUME EvolutionAssumption, IInv, NEW w \in Workers, GetCandidate(w)
  PROVE  IInv' /\ WritersStay
<1>1. w \in Callers /\ call[w] \in Works /\ call[w].do = "get" /\ ~Writes(w)
  BY DEF Callers, GetCandidate, Writes, IInv, TypeOK
<1>2. PICK o \in call[w].left :
        call' = [call EXCEPT ![w].left = @ \ {o}, ![w].got[o] = store[o]]
  BY DEF GetCandidate
<1>3. /\ chosen' = NotChosen /\ UNCHANGED <<store, demand, calls, overlapped, observed>>
      /\ demand' \in [Outputs -> Nat]
  BY DEF GetCandidate, IInv, TypeOK
<1> DEFINE left == call[w].left \ {o}
           got == [call[w].got EXCEPT ![o] = store[o]]
           next == [call[w] EXCEPT !.left = left, !.got = got]
<1>4. o \in Operators /\ store[o] \in Rows \cup {NoRow}
  BY <1>1 DEF Works, IInv, TypeOK
<1>5. left \in SUBSET Operators /\ got \in [Operators -> Rows \cup {NoRow}]
  BY <1>1, <1>4 DEF Works
<1>6. next \in Works /\ next.do = "get"
  BY <1>1, <1>5 DEF Works
<1>7. call' = [call EXCEPT ![w] = next]
  BY <1>1, <1>2 DEF IInv, TypeOK, Works
<1>8. ObservedGrows
  BY <1>3, ObservedStays DEF IInv
<1> HIDE DEF next
<1>9. ReadsOn(w, next)
  BY <1>3, <1>6, <1>7 DEF ReadsOn
<1> QED
  BY <1>1, <1>3, <1>6, <1>8, <1>9, GoesOn

LEMMA ReturnFittestKeeps ==
  ASSUME EvolutionAssumption, IInv, NEW w \in Workers, ReturnFittest(w)
  PROVE  IInv' /\ WritersStay
<1> DEFINE got == call[w].got
           there == {o \in Operators : Exists(got[o])}
<1>1. w \in Callers /\ call[w] \in Works /\ call[w].do = "get" /\ ~Writes(w)
  BY DEF Callers, ReturnFittest, Writes, IInv, TypeOK
<1>2. /\ call' = [call EXCEPT ![w] = Idle]
      /\ UNCHANGED <<store, demand, calls, overlapped, observed>>
  BY DEF ReturnFittest
<1>3. /\ chosen' \in [op : Operators \cup {NoOperator}, got : [Operators -> Rows \cup {NoRow}]]
      /\ ChosenFittest'
  <2>1. CASE chosen' = NotChosen
    BY <2>1 DEF NotChosen, Idle, ChosenFittest
  <2>2. CASE \E best \in there :
               /\ \A o \in there : Fitter(got[best].tally, got[o].tally)
               /\ chosen' = [op |-> best, got |-> got]
    <3>1. got \in [Operators -> Rows \cup {NoRow}]
      BY <1>1 DEF Works
    <3> QED
      BY <2>2, <3>1 DEF ChosenFittest
  <2> QED
    BY <2>1, <2>2 DEF ReturnFittest
<1>4. ReadsOn(w, Idle) /\ Idle.do = "idle"
  BY <1>2, IdleType DEF ReadsOn
<1>5. StoreBacked' /\ HeldBacked' /\ HeldCurrent'
  BY <1>1, <1>2, <1>4, ObservedStays, ReadKeeps DEF IInv
<1>6. TypeOK'
  BY <1>1, <1>2, <1>3, IdleType DEF IInv, TypeOK
<1>7. WritersStay
  BY <1>1, <1>2 DEF WritersStay, IInv, TypeOK
<1> QED
  BY <1>3, <1>5, <1>6, <1>7 DEF IInv

LEMMA SweepKeeps ==
  ASSUME EvolutionAssumption, IInv, Sweep
  PROVE  IInv' /\ WritersStay
<1> DEFINE live == {o \in Operators : Exists(store[o]) /\ ~store[o].archived}
<1>1. Sweeper \in Callers /\ ~Writes(Sweeper)
  BY DEF Callers, Sweep, Writes
<1>2. /\ call' = [call EXCEPT ![Sweeper] = Onwards(live)] /\ chosen' = NotChosen
      /\ UNCHANGED <<store, demand, calls, overlapped, observed>>
      /\ demand' \in [Outputs -> Nat]
  BY DEF Sweep, IInv, TypeOK
<1>3. Onwards(live) \in Works /\ Onwards(live).do \in {"idle", "get"}
  BY OnwardsType
<1> HIDE DEF live
<1>4. ReadsOn(Sweeper, Onwards(live))
  BY <1>2, <1>3 DEF ReadsOn
<1> QED
  BY <1>1, <1>2, <1>3, <1>4, ObservedStays, GoesOn DEF IInv

LEMMA RetireKeeps ==
  ASSUME EvolutionAssumption, IInv, Retire
  PROVE  IInv' /\ WritersStay
<1>1. Sweeper \in Callers /\ ~Writes(Sweeper) /\ call[Sweeper] \in Works
  BY DEF Callers, Retire, Writes, IInv, TypeOK
<1>2. /\ overlapped' = [overlapped EXCEPT ![Sweeper] = FALSE] /\ chosen' = NotChosen
      /\ UNCHANGED <<store, demand, calls, observed>> /\ demand' \in [Outputs -> Nat]
  BY DEF Retire, IInv, TypeOK
<1>3. PICK o \in call[Sweeper].left :
        LET row == store[o]
            left == call[Sweeper].left \ {o}
        IN call' = [call EXCEPT ![Sweeper] =
                      IF Exists(row) /\ IsUnfit(row.tally)
                      THEN [Idle EXCEPT !.do = "archive", !.op = o, !.left = left,
                                        !.row = [row EXCEPT !.archived = TRUE]]
                      ELSE Onwards(left)]
  BY DEF Retire
<1> DEFINE row == store[o]
           left == call[Sweeper].left \ {o}
           new == [row EXCEPT !.archived = TRUE]
           next == [Idle EXCEPT !.do = "archive", !.op = o, !.left = left, !.row = new]
<1>4. o \in Operators /\ left \in SUBSET Operators /\ row \in Rows \cup {NoRow}
  BY <1>1 DEF Works, IInv, TypeOK
<1>5. ObservedGrows
  BY <1>2, ObservedStays DEF IInv
<1>6. CASE Exists(row) /\ IsUnfit(row.tally)
  <2>1. row \in Rows /\ row.tally \in Tallies /\ Backed(row, observed[o])
    BY <1>4, <1>6, NoRowIsNoRow DEF IInv, StoreBacked, Rows
  <2>2. call' = [call EXCEPT ![Sweeper] = next]
    BY <1>3, <1>6
  <2>3. /\ new \in Rows /\ new.spec = row.spec /\ new.tally = row.tally
        /\ new.by = row.by /\ new.cited = row.cited
    BY <2>1 DEF Rows
  <2> HIDE DEF new
  <2>4. NothingLost(row, new)
    BY <2>1, <2>3 DEF NothingLost, NoEvidence, Tallies
  <2>5. row.tally.ref >= 3
    BY <1>6, <2>1, UnfitTakesThree
  <2>6. Backed(new, observed[o])
    <3>1. observed[o][row.spec] \in Tallies
      BY <1>4, <2>1 DEF IInv, TypeOK, Rows
    <3>2. observed[o][row.spec].ref >= 3
      BY <2>1, <2>5, <3>1 DEF Backed, Tallies
    <3> QED
      BY <2>1, <2>3, <3>2 DEF Backed
  <2> HIDE DEF left, row
  <2>7. next \in Works /\ next.op = o /\ next.row = new
    <3>1. o \in Operators /\ left \in SUBSET Operators /\ new \in Rows
      BY <1>4, <2>3
    <3>2. /\ "archive" \in Steps /\ o \in Operators \cup {NoOperator}
          /\ new \in Rows \cup {NoRow}
      BY <3>1 DEF Steps
    <3> QED
      BY <3>1, <3>2, IdleType DEF Works
  <2> HIDE DEF next
  <2>8. ReadsOn(Sweeper, next)
    BY <1>2, <1>4, <2>2, <2>3, <2>4, <2>6, <2>7 DEF ReadsOn, row
  <2> QED
    BY <1>1, <1>2, <1>5, <2>8, GoesOn
<1>7. CASE ~(Exists(row) /\ IsUnfit(row.tally))
  <2>1. call' = [call EXCEPT ![Sweeper] = Onwards(left)]
    BY <1>3, <1>7
  <2>2. Onwards(left) \in Works /\ Onwards(left).do \in {"idle", "get"}
    BY <1>4, OnwardsType
  <2>3. ReadsOn(Sweeper, Onwards(left))
    BY <1>2, <2>1, <2>2 DEF ReadsOn
  <2> QED
    BY <1>1, <1>2, <1>5, <2>3, GoesOn
<1> QED
  BY <1>6, <1>7

\* No write that nothing overlapped loses anything.
AloneLoses == \A c \in Callers, o \in Operators :
  (call[c].do \in {"put", "archive"} /\ call'[c] # call[c] /\ call[c].op = o
    /\ ~overlapped[c] /\ Exists(store[o])) =>
    LET old == store[o]
        new == store'[o]
    IN /\ old.by \in People => new.by \in People
       /\ old.cited => new.cited
       /\ \/ \A f \in DOMAIN NoEvidence : new.tally[f] >= old.tally[f]
          \/ new.spec # old.spec /\ new.reset = old.spec

LEMMA WritersStayLosesNothing ==
  ASSUME WritersStay
  PROVE  AloneLoses
BY DEF WritersStay, AloneLoses, Writes

\* A document is put: its writer's is the stored one, and whoever else holds the
\* document of this operator is overlapped from now on.
LEMMA PutKeeps ==
  ASSUME EvolutionAssumption, IInv, NEW c \in Callers, Writes(c), NEW next \in Works,
         next.do \notin {"put", "archive"}, Put(c, next)
  PROVE  IInv' /\ AloneLoses
<1> DEFINE op == call[c].op
           row == call[c].row
<1>1. /\ op \in Operators /\ row \in Rows /\ Backed(row, observed[op]) /\ Exists(row)
  BY NoRowIsNoRow DEF IInv, HeldBacked
<1>2. /\ store' = [store EXCEPT ![op] = row] /\ call' = [call EXCEPT ![c] = next]
      /\ overlapped' = [d \in Callers |-> overlapped[d] \/ (d # c /\ call[d].op = op)]
      /\ chosen' = NotChosen /\ UNCHANGED <<demand, calls, observed>>
  BY DEF Put
<1> HIDE DEF op, row
<1>3. /\ store'[op] = row /\ \A o \in Operators : o # op => store'[o] = store[o]
      /\ call'[c] = next /\ \A d \in Callers : d # c => call'[d] = call[d]
  BY <1>1, <1>2 DEF IInv, TypeOK
<1>4. TypeOK'
  <2>1. NotChosen \in [op : Operators \cup {NoOperator}, got : [Operators -> Rows \cup {NoRow}]]
    BY DEF NotChosen, Idle
  <2>2. overlapped' \in [Callers -> BOOLEAN] /\ call' \in [Callers -> Works]
    BY <1>2 DEF IInv, TypeOK
  <2>3. store' \in [Operators -> Rows \cup {NoRow}]
    BY <1>1, <1>2 DEF IInv, TypeOK
  <2> QED
    BY <1>2, <2>1, <2>2, <2>3 DEF IInv, TypeOK
<1>5. StoreBacked'
  BY <1>1, <1>2, <1>3 DEF IInv, StoreBacked
<1>6. HeldBacked'
  BY <1>2, <1>3 DEF IInv, HeldBacked, Writes
<1>7. HeldCurrent'
  <2> SUFFICES ASSUME NEW d \in Callers, Writes(d)', ~overlapped'[d],
                      Exists(store'[call'[d].op])
               PROVE  NothingLost(store'[call'[d].op], call'[d].row)
    BY DEF HeldCurrent
  <2>1. d # c /\ call'[d] = call[d] /\ Writes(d)
    BY <1>3 DEF Writes
  <2>2. ~overlapped[d] /\ call[d].op # op
    BY <1>2, <2>1
  <2>3. call[d].op \in Operators /\ store'[call[d].op] = store[call[d].op]
    BY <1>3, <2>1, <2>2 DEF IInv, HeldBacked
  <2> QED
    BY <2>1, <2>2, <2>3 DEF IInv, HeldCurrent
<1>8. ChosenFittest'
  BY <1>2 DEF ChosenFittest, NotChosen
<1>9. AloneLoses
  <2> SUFFICES ASSUME NEW d \in Callers, NEW o \in Operators, Writes(d), call'[d] # call[d],
                      call[d].op = o, ~overlapped[d], Exists(store[o])
               PROVE  NothingLost(store[o], store'[o])
    BY DEF AloneLoses, NothingLost, Writes
  <2>1. d = c /\ o = op
    BY <1>3 DEF op
  <2>2. NothingLost(store[o], row)
    BY <2>1 DEF IInv, HeldCurrent, op, row
  <2> QED
    BY <1>3, <2>1, <2>2
<1> QED
  BY <1>4, <1>5, <1>6, <1>7, <1>8, <1>9 DEF IInv

----------------------------------------------------------------------------
\* The theorems

LEMMA InitHolds ==
  ASSUME EvolutionAssumption, Init
  PROVE  IInv
<1>1. \A row \in Known :
        /\ row \in Rows /\ row.archived = FALSE
        /\ row.tally = NoEvidence \/ row.tally = Twice
  <2>1. Twice \in Tallies
    BY DEF Twice, Tallies
  <2>2. \A doc \in Docs, t \in {NoEvidence, Twice} :
          LET row == [Fresh(doc) EXCEPT !.tally = t]
          IN row \in Rows /\ row.archived = FALSE /\ row.tally = t
    BY <2>1, FreshType, NoEvidenceType DEF Rows
  <2>3. \A row \in Known : \E doc \in Docs, t \in {NoEvidence, Twice} :
          row = [Fresh(doc) EXCEPT !.tally = t]
    BY DEF Known
  <2> TAKE row \in Known
  <2>4. PICK doc \in Docs, t \in {NoEvidence, Twice} : row = [Fresh(doc) EXCEPT !.tally = t]
    BY <2>3
  <2>5. row \in Rows /\ row.archived = FALSE /\ row.tally = t
    BY <2>2, <2>4
  <2> QED
    BY <2>5
<1>2. /\ store \in [Operators -> Known \cup {NoRow}] /\ demand = [x \in Outputs |-> 0]
      /\ call = [c \in Callers |-> Idle] /\ calls = 0 /\ chosen = NotChosen
      /\ overlapped = [c \in Callers |-> FALSE]
      /\ observed = [o \in Operators |-> [s \in Specs |->
                       IF store[o].spec = s THEN store[o].tally ELSE NoEvidence]]
  BY DEF Init
<1>3. \A o \in Operators : store[o] \in Rows \cup {NoRow}
  BY <1>1, <1>2
<1>4. TypeOK
  <2>1. NotChosen \in [op : Operators \cup {NoOperator}, got : [Operators -> Rows \cup {NoRow}]]
    BY DEF NotChosen, Idle
  <2>2. \A o \in Operators, s \in Specs :
          (IF store[o].spec = s THEN store[o].tally ELSE NoEvidence) \in Tallies
    BY <1>3, NoEvidenceType DEF Rows, NoRow
  <2>3. observed \in [Operators -> [Specs -> Tallies]]
    BY <1>2, <2>2
  <2>4. store \in [Operators -> Rows \cup {NoRow}]
    BY <1>1, <1>2
  <2>5. demand \in [Outputs -> Nat] /\ call \in [Callers -> Works] /\ calls \in 0..MaxCalls
    BY <1>2, IdleType DEF EvolutionAssumption
  <2>6. overlapped \in [Callers -> BOOLEAN]
    BY <1>2
  <2> QED
    BY <1>2, <2>1, <2>3, <2>4, <2>5, <2>6 DEF TypeOK
<1>5. StoreBacked
  <2> SUFFICES ASSUME NEW o \in Operators, Exists(store[o])
               PROVE  Backed(store[o], observed[o])
    BY DEF StoreBacked
  <2>1. store[o] \in Known /\ store[o] \in Rows
    BY <1>2, <1>3, NoRowIsNoRow DEF Exists
  <2>2. store[o].spec \in Specs /\ store[o].archived = FALSE
    BY <1>1, <2>1 DEF Rows
  <2>3. observed[o][store[o].spec] = store[o].tally
    BY <1>2, <2>2
  <2>4. CASE store[o].tally = NoEvidence
    BY <2>2, <2>3, <2>4 DEF Backed, NoEvidence
  <2>5. CASE store[o].tally = Twice
    BY <2>2, <2>3, <2>5 DEF Backed, Twice
  <2> QED
    BY <1>1, <2>1, <2>4, <2>5
<1>6. \A c \in Callers : ~Writes(c)
  BY <1>2, IdleType DEF Writes
<1>7. HeldBacked /\ HeldCurrent
  BY <1>6 DEF HeldBacked, HeldCurrent
<1>8. ChosenFittest
  BY <1>2 DEF ChosenFittest, NotChosen
<1> QED
  BY <1>4, <1>5, <1>7, <1>8 DEF IInv

LEMMA NextKeeps ==
  ASSUME EvolutionAssumption, IInv, [Next]_vars
  PROVE  IInv' /\ [AloneLoses]_vars
<1>1. CASE UNCHANGED vars
  BY <1>1 DEF vars, IInv, TypeOK, StoreBacked, HeldBacked, HeldCurrent, ChosenFittest, Writes
<1>2. ASSUME NEW w \in Workers, NEW o \in Operators, NEW doc \in Docs, PutOperator(w, o, doc)
      PROVE  IInv' /\ WritersStay
  BY <1>2, PutOperatorKeeps
<1>3. ASSUME NEW w \in Workers, NEW o \in Operators, NEW v \in Verdicts,
             RecordInvocation(w, o, v)
      PROVE  IInv' /\ WritersStay
  BY <1>3, RecordInvocationKeeps
<1>4. ASSUME NEW w \in Workers, NEW x \in Outputs, RecordUse(w, x)
      PROVE  IInv' /\ WritersStay
  BY <1>4, RecordUseKeeps
<1>5. ASSUME NEW w \in Workers, Select(w) PROVE IInv' /\ WritersStay
  BY <1>5, SelectKeeps
<1>6. ASSUME NEW w \in Workers, Step(w) PROVE IInv' /\ AloneLoses
  <2>1. CASE PutUsed(w)
    BY <2>1, PutUsedKeeps, WritersStayLosesNothing
  <2>2. CASE Credit(w)
    BY <2>2, CreditKeeps, WritersStayLosesNothing
  <2>3. CASE PutRow(w)
    <3>1. w \in Callers /\ Writes(w)
      BY <2>3 DEF PutRow, Writes, Callers
    <3> QED
      BY <2>3, <3>1, IdleType, PutKeeps DEF PutRow
  <2>4. CASE GetCandidate(w)
    BY <2>4, GetCandidateKeeps, WritersStayLosesNothing
  <2>5. CASE ReturnFittest(w)
    BY <2>5, ReturnFittestKeeps, WritersStayLosesNothing
  <2> QED
    BY <1>6, <2>1, <2>2, <2>3, <2>4, <2>5 DEF Step
<1>7. CASE Sweep
  BY <1>7, SweepKeeps, WritersStayLosesNothing
<1>8. CASE Retire
  BY <1>8, RetireKeeps, WritersStayLosesNothing
<1>9. CASE Archive
  <2>1. Sweeper \in Callers /\ Writes(Sweeper)
    BY <1>9 DEF Archive, Writes, Callers
  <2>2. call[Sweeper].left \in SUBSET Operators
    BY <2>1 DEF IInv, TypeOK, Works
  <2>3. /\ Onwards(call[Sweeper].left) \in Works
        /\ Onwards(call[Sweeper].left).do \in {"idle", "get"}
    BY <2>2, OnwardsType
  <2>4. Put(Sweeper, Onwards(call[Sweeper].left))
    BY <1>9 DEF Archive
  <2> QED
    BY <2>1, <2>3, <2>4, PutKeeps
<1> QED
  BY <1>1, <1>2, <1>3, <1>4, <1>5, <1>6, <1>7, <1>8, <1>9, WritersStayLosesNothing DEF Next

LEMMA InvariantHolds ==
  ASSUME EvolutionAssumption
  PROVE  Spec => []IInv
<1>1. Init => IInv
  BY InitHolds
<1>2. IInv /\ [Next]_vars => IInv'
  BY NextKeeps
<1> QED
  BY <1>1, <1>2, PTL DEF Spec

LEMMA ChosenSpares ==
  ASSUME EvolutionAssumption, IInv
  PROVE  SelectSpares
<1> SUFFICES ASSUME chosen.op # NoOperator, IsUnfit(chosen.got[chosen.op].tally),
                    NEW o \in Operators, Exists(chosen.got[o]),
                    ~(chosen.got[o].tally.ver + chosen.got[o].tally.ref > 0)
             PROVE  FALSE
  BY DEF SelectSpares
<1> DEFINE best == chosen.got[chosen.op].tally
           other == chosen.got[o].tally
<1>1. chosen.op \in Operators /\ chosen.got \in [Operators -> Rows \cup {NoRow}]
  BY DEF IInv, TypeOK
<1>2. best \in Tallies /\ other \in Tallies /\ Fitter(best, other)
  BY <1>1, NoRowIsNoRow DEF IInv, ChosenFittest, Rows
<1>3. other.ver = 0 /\ other.ref = 0
  BY <1>2 DEF Tallies
<1>4. Fitness(other) \in Int /\ Fitness(other) >= 4000
  BY <1>2, <1>3, NotBelowPrior
<1>5. Fitness(best) \in Int
  BY <1>2, FitnessAtLeast DEF Tallies
<1>6. Fitness(best) < 4000
  BY <1>5, Prior DEF IsUnfit
<1> QED
  BY <1>2, <1>4, <1>5, <1>6 DEF Fitter

LEMMA InvariantSays ==
  ASSUME EvolutionAssumption, IInv
  PROVE  TypeOK /\ EvidenceIsObserved /\ ArchivedWasRefuted /\ SelectSpares
<1>1. EvidenceIsObserved
  BY DEF IInv, StoreBacked, Backed, EvidenceIsObserved
<1>2. ArchivedWasRefuted
  BY NoRowIsNoRow DEF IInv, TypeOK, StoreBacked, Backed, ArchivedWasRefuted, NoRow
<1> QED
  BY <1>1, <1>2, ChosenSpares DEF IInv

\* Every variable has its type (evolution.py, the documents of 44-60).
THEOREM EvolutionTypeOK ==
  ASSUME EvolutionAssumption
  PROVE  Spec => []TypeOK
<1>1. IInv => TypeOK
  BY DEF IInv
<1> QED
  BY <1>1, InvariantHolds, PTL

\* Whatever redefinitions, overlapping records and stale writes came in between,
\* the counters of an operator were reported of the behaviour it is stored with
\* (preserve_fitness).
THEOREM EvidenceIsAlwaysObserved ==
  ASSUME EvolutionAssumption
  PROVE  Spec => []EvidenceIsObserved
<1>1. IInv => EvidenceIsObserved
  BY InvariantSays
<1> QED
  BY <1>1, InvariantHolds, PTL

\* One, two or no refutations never retire an operator, whatever else was counted
\* (is_unfit).
THEOREM ArchivedWasAlwaysRefuted ==
  ASSUME EvolutionAssumption
  PROVE  Spec => []ArchivedWasRefuted
<1>1. IInv => ArchivedWasRefuted
  BY InvariantSays
<1> QED
  BY <1>1, InvariantHolds, PTL

\* select does not answer with an operator reality has spoken against while it
\* read one that nothing is known about.
THEOREM SelectAlwaysSpares ==
  ASSUME EvolutionAssumption
  PROVE  Spec => []SelectSpares
<1>1. IInv => SelectSpares
  BY InvariantSays
<1> QED
  BY <1>1, InvariantHolds, PTL

\* A write of a document that nobody wrote since it was read gives up nothing
\* of it but the counters of another behaviour, and says so.
THEOREM AloneAlwaysLosesNothing ==
  ASSUME EvolutionAssumption
  PROVE  Spec => AloneLosesNothing
<1>1. IInv /\ [Next]_vars => [AloneLoses]_vars
  BY NextKeeps
<1> QED
  BY <1>1, InvariantHolds, PTL DEF Spec, AloneLosesNothing, AloneLoses
=============================================================================
