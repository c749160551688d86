------------------------------ MODULE Evolution ------------------------------
(***************************************************************************)
(* The track record of an operator (evolution.py): what every invocation   *)
(* and every use of its output adds to its artifact, what a registration   *)
(* carries over, which operator is selected and which one is retired.      *)
(*                                                                         *)
(* All of it is get_artifact, a change to the document, put_artifact: two  *)
(* calls of the store, each atomic, with the calls of other callers in     *)
(* between.  put_artifact replaces the document.                           *)
(***************************************************************************)
EXTENDS Naturals, FiniteSets

CONSTANTS
  Operators,
  Specs,         \* what spec_hash tells apart; one may be that of code-backed operators
  People,
  ProcessAuthor, \* an author is_process_author knows
  Docs,          \* what registrars hand to put_operator
  Outputs,       \* artifacts operators produced
  Producer,      \* Producer[x]: the operator that produced x
  Workers,       \* callers other than the sweep
  Sweeper,       \* the worker whose tick runs sweep_retire
  NoSpec, NoOperator,
  MaxCalls,      \* bound: calls of the workers
  MaxVerdicts    \* bound: verdicts about one behaviour of an operator

Authors == People \cup {ProcessAuthor}

EvolutionAssumption ==
  /\ Docs \subseteq [spec : Specs, by : Authors, cited : BOOLEAN]
  /\ Producer \in [Outputs -> Operators]
  /\ ProcessAuthor \notin People /\ Sweeper \notin Workers
  /\ NoSpec \notin Specs /\ NoOperator \notin Operators
  /\ MaxCalls \in Nat /\ MaxVerdicts \in Nat

VARIABLES
  store,      \* store[o]: the document of o
  demand,     \* demand[x]: `uses` of an output
  call,       \* call[c]: what caller c is in the middle of
  calls,
  chosen,     \* the answer of select, in the state it returns in
  overlapped, \* history: since c read it, the document c works on was written
  observed    \* history: what was reported of the behaviour s of o

vars == <<store, demand, call, calls, chosen, overlapped, observed>>

Callers == Workers \cup {Sweeper}

----------------------------------------------------------------------------
\* Documents

\* FITNESS_FIELDS; `uses` is output_uses.
NoEvidence == [inv |-> 0, ver |-> 0, ref |-> 0, uses |-> 0]
Tallies == [inv : Nat, ver : Nat, ref : Nat, uses : Nat]

\* `reset` is spec_change["from"]; archived is state = "archived".
Rows == [spec : Specs, tally : Tallies, by : Authors, cited : BOOLEAN,
         archived : BOOLEAN, reset : Specs \cup {NoSpec}]
NoRow == [spec |-> NoSpec, tally |-> NoEvidence, by |-> ProcessAuthor, cited |-> FALSE,
          archived |-> FALSE, reset |-> NoSpec]

Exists(row) == row # NoRow

Fresh(doc) == [spec |-> doc.spec, tally |-> NoEvidence, by |-> doc.by,
               cited |-> doc.cited, archived |-> FALSE, reset |-> NoSpec]

\* Mutant: the counters of any behaviour carry over.
Preserved_AnySpec(ex, doc) ==
  IF ~Exists(ex) THEN Fresh(doc)
  ELSE [Fresh(doc) EXCEPT !.tally = ex.tally, !.cited = @ \/ ex.cited,
                          !.by = IF @ = ProcessAuthor THEN ex.by ELSE @]

\* Mutant: whoever registers becomes the creator.
Preserved_Clobber(ex, doc) ==
  IF ~Exists(ex) THEN Fresh(doc)
  ELSE LET same == ex.spec = doc.spec
       IN [Fresh(doc) EXCEPT !.tally = IF same THEN ex.tally ELSE @,
                             !.reset = IF same THEN @ ELSE ex.spec,
                             !.cited = @ \/ ex.cited]

\* preserve_fitness.  The new document has no `state` and takes none over.
Preserved(ex, doc) ==
  IF ~Exists(ex) THEN Fresh(doc)
  ELSE LET same == ex.spec = doc.spec
       IN [Fresh(doc) EXCEPT
             !.tally = IF same THEN ex.tally ELSE @,
             !.reset = IF same THEN @ ELSE ex.spec,
             !.cited = @ \/ ex.cited,
             !.by = IF @ = ProcessAuthor THEN ex.by ELSE @]

Verdicts == {"verified", "refuted", "none"}

\* Mutant: a refutation takes a verification back.
Counted_Net(tally, verdict) ==
  [tally EXCEPT !.inv = @ + 1,
                !.ver = IF verdict = "verified" THEN @ + 1
                        ELSE IF verdict = "refuted" THEN @ - 1 ELSE @]

\* What record_invocation adds to the counters.
Counted(tally, verdict) ==
  [tally EXCEPT !.inv = @ + 1,
                !.ver = IF verdict = "verified" THEN @ + 1 ELSE @,
                !.ref = IF verdict = "refuted" THEN @ + 1 ELSE @]

Credited(tally) == [tally EXCEPT !.uses = @ + 1]

----------------------------------------------------------------------------
\* Fitness, in ten-thousandths: _FITNESS_DP is 4 and what is compared is the
\* rounded value.  0.8 of the Laplace-smoothed verified rate, 0.2 of the demand.
Fitness(t) ==
  LET n == t.ver + t.ref + 2
      m == t.uses + t.inv + 1
      whole == n * m
  IN (2 * (8000 * (t.ver + 1) * m + 2000 * t.uses * n) + whole) \div (2 * whole)

PriorFitness == Fitness(NoEvidence)

\* is_unfit at far = 0.05: the gap to the prior is more than z(0.95) resolutions,
\* 0.8 * sqrt(ab / (n^2 (n+1))).  Both sides squared; the factor is (z * 0.8 * 10^4)^2.
SquaredQuantile == 173154781

\* Mutant: below the prior is enough.
IsUnfit_NoResolution(t) == Fitness(t) < PriorFitness

IsUnfit(t) ==
  LET a == t.ver + 1
      b == t.ref + 1
      n == a + b
      gap == PriorFitness - Fitness(t)
  IN /\ Fitness(t) < PriorFitness
     /\ SquaredQuantile * a * b < gap * gap * n * n * (n + 1)

\* Mutant: the verified rate as it is, without the prior.
Fitter_Rate(t, u) == t.ver * u.inv >= u.ver * t.inv

\* What select compares, before the id.
Fitter(t, u) == \/ Fitness(t) > Fitness(u)
                \/ Fitness(t) = Fitness(u) /\ t.inv >= u.inv

----------------------------------------------------------------------------
\* A caller: `do` is its next call of the store.
\*   put      put_artifact(row)          (put_operator, record_invocation, record_use)
\*   putUsed  put_artifact(the output)   (record_use)
\*   credit   get_artifact(the producer) (record_use)
\*   get      get_artifact(one of left)  (retire in sweep_retire; select)
\*   archive  put_artifact(row)          (retire in sweep_retire)
\* `got` are the documents select has read.
Steps == {"idle", "put", "putUsed", "credit", "get", "archive"}

Idle == [do |-> "idle", op |-> NoOperator, row |-> NoRow, out |-> {}, uses |-> 0,
         left |-> {}, got |-> [o \in Operators |-> NoRow]]

Works == [do : Steps, op : Operators \cup {NoOperator}, row : Rows \cup {NoRow},
          out : SUBSET Outputs, uses : Nat, left : SUBSET Operators,
          got : [Operators -> Rows \cup {NoRow}]]

TypeOK ==
  /\ store \in [Operators -> Rows \cup {NoRow}]
  /\ demand \in [Outputs -> Nat]
  /\ call \in [Callers -> Works]
  /\ calls \in 0..MaxCalls
  /\ chosen \in [op : Operators \cup {NoOperator}, got : [Operators -> Rows \cup {NoRow}]]
  /\ overlapped \in [Callers -> BOOLEAN]
  /\ observed \in [Operators -> [Specs -> Tallies]]

NotChosen == [op |-> NoOperator, got |-> Idle.got]

\* Operators new to the store, or registered by a person with two refutations behind them.
Twice == [inv |-> 2, ver |-> 0, ref |-> 2, uses |-> 0]
Known == {[Fresh(doc) EXCEPT !.tally = t] :
            doc \in {d \in Docs : d.by \in People}, t \in {NoEvidence, Twice}}

Init ==
  /\ store \in [Operators -> Known \cup {NoRow}]
  /\ demand = [x \in Outputs |-> 0]
  /\ call = [c \in Callers |-> Idle]
  /\ calls = 0
  /\ chosen = NotChosen
  /\ overlapped = [c \in Callers |-> FALSE]
  /\ observed = [o \in Operators |-> [s \in Specs |->
                   IF store[o].spec = s THEN store[o].tally ELSE NoEvidence]]

----------------------------------------------------------------------------
\* A new call of w, which goes on with `next`.
Enter(w, next) ==
  /\ call[w].do = "idle" /\ calls < MaxCalls
  /\ calls' = calls + 1
  /\ call' = [call EXCEPT ![w] = next]
  /\ overlapped' = [overlapped EXCEPT ![w] = FALSE]
  /\ chosen' = NotChosen

\* put_artifact(call[c].row); c goes on with `next`.
Put(c, next) ==
  LET o == call[c].op
  IN /\ store' = [store EXCEPT ![o] = call[c].row]
     /\ call' = [call EXCEPT ![c] = next]
     /\ overlapped' = [d \in Callers |-> \/ overlapped[d]
                                         \/ d # c /\ call[d].op = o]
     /\ chosen' = NotChosen
     /\ UNCHANGED <<demand, calls, observed>>

Report(o, s, tally) == observed' = [observed EXCEPT ![o][s] = tally]

\* put_operator, and preserve_fitness in it: get_artifact.
PutOperator(w, o, doc) ==
  /\ Enter(w, [Idle EXCEPT !.do = "put", !.op = o, !.row = Preserved(store[o], doc)])
  /\ UNCHANGED <<store, demand, observed>>

\* record_invocation: get_artifact.
RecordInvocation(w, o, verdict) ==
  LET row == store[o]
      seen == observed[o][row.spec]
  IN /\ Exists(row)
     /\ verdict # "none" => seen.ver + seen.ref < MaxVerdicts
     /\ Enter(w, [Idle EXCEPT !.do = "put", !.op = o,
                              !.row = [row EXCEPT !.tally = Counted(@, verdict)]])
     /\ Report(o, row.spec, Counted(seen, verdict))
     /\ UNCHANGED <<store, demand>>

\* record_use: get_artifact of the output.
RecordUse(w, x) ==
  /\ Enter(w, [Idle EXCEPT !.do = "putUsed", !.out = {x}, !.uses = demand[x] + 1])
  /\ UNCHANGED <<store, demand, observed>>

PutUsed(w) ==
  /\ call[w].do = "putUsed"
  /\ demand' = [x \in Outputs |-> IF x \in call[w].out THEN call[w].uses ELSE demand[x]]
  /\ call' = [call EXCEPT ![w].do = "credit"]
  /\ chosen' = NotChosen
  /\ UNCHANGED <<store, calls, overlapped, observed>>

\* record_use: get_artifact of the producer.
Credit(w) ==
  /\ call[w].do = "credit"
  /\ \E x \in call[w].out :
       LET o == Producer[x]
           row == store[o]
       IN IF Exists(row)
          THEN /\ call' = [call EXCEPT ![w] = [Idle EXCEPT
                             !.do = "put", !.op = o,
                             !.row = [row EXCEPT !.tally = Credited(@)]]]
               /\ Report(o, row.spec, Credited(observed[o][row.spec]))
          ELSE /\ call' = [call EXCEPT ![w] = Idle]
               /\ UNCHANGED observed
  /\ overlapped' = [overlapped EXCEPT ![w] = FALSE]
  /\ chosen' = NotChosen
  /\ UNCHANGED <<store, demand, calls>>

PutRow(w) == call[w].do = "put" /\ Put(w, Idle)

----------------------------------------------------------------------------
\* select(store, candidate_ids): the operators all offer the need in question.
Select(w) ==
  /\ Enter(w, [Idle EXCEPT !.do = "get", !.left = Operators])
  /\ UNCHANGED <<store, demand, observed>>

GetCandidate(w) ==
  /\ w # Sweeper /\ call[w].do = "get" /\ call[w].left # {}
  /\ \E o \in call[w].left :
       call' = [call EXCEPT ![w].left = @ \ {o}, ![w].got[o] = store[o]]
  /\ chosen' = NotChosen
  /\ UNCHANGED <<store, demand, calls, overlapped, observed>>

ReturnFittest(w) ==
  LET got == call[w].got
      there == {o \in Operators : Exists(got[o])}
  IN /\ w # Sweeper /\ call[w].do = "get" /\ call[w].left = {}
     /\ \/ there = {} /\ chosen' = NotChosen
        \/ \E best \in there :
             /\ \A o \in there : Fitter(got[best].tally, got[o].tally)
             /\ chosen' = [op |-> best, got |-> got]
     /\ call' = [call EXCEPT ![w] = Idle]
     /\ UNCHANGED <<store, demand, calls, overlapped, observed>>

----------------------------------------------------------------------------
\* The sweep goes on to the operators in `left`.
Onwards(left) ==
  IF left = {} THEN Idle ELSE [Idle EXCEPT !.do = "get", !.left = left]

\* sweep_retire: the listing, without the rows archived in it.
Sweep ==
  LET live == {o \in Operators : Exists(store[o]) /\ ~store[o].archived}
  IN /\ call[Sweeper].do = "idle"
     /\ call' = [call EXCEPT ![Sweeper] = Onwards(live)]
     /\ chosen' = NotChosen
     /\ UNCHANGED <<store, demand, calls, overlapped, observed>>

\* retire: get_artifact and the verdict.
Retire ==
  /\ call[Sweeper].do = "get"
  /\ \E o \in call[Sweeper].left :
       LET row == store[o]
           left == call[Sweeper].left \ {o}
       IN call' = [call EXCEPT ![Sweeper] =
                     IF Exists(row) /\ IsUnfit(row.tally)
                     THEN [Idle EXCEPT !.do = "archive", !.op = o, !.left = left,
                                       !.row = [row EXCEPT !.archived = TRUE]]
                     ELSE Onwards(left)]
  /\ overlapped' = [overlapped EXCEPT ![Sweeper] = FALSE]
  /\ chosen' = NotChosen
  /\ UNCHANGED <<store, demand, calls, observed>>

\* Mutant: the state is set on the document read and not put.
Archive_NotPut ==
  /\ call[Sweeper].do = "archive"
  /\ call' = [call EXCEPT ![Sweeper] = Onwards(call[Sweeper].left)]
  /\ chosen' = NotChosen
  /\ UNCHANGED <<store, demand, calls, overlapped, observed>>

Archive == call[Sweeper].do = "archive" /\ Put(Sweeper, Onwards(call[Sweeper].left))

----------------------------------------------------------------------------
Step(w) == PutUsed(w) \/ Credit(w) \/ PutRow(w) \/ GetCandidate(w) \/ ReturnFittest(w)

Next ==
  \/ \E w \in Workers :
       \/ \E o \in Operators, doc \in Docs : PutOperator(w, o, doc)
       \/ \E o \in Operators, v \in Verdicts : RecordInvocation(w, o, v)
       \/ \E x \in Outputs : RecordUse(w, x)
       \/ Select(w)
       \/ Step(w)
  \/ Sweep \/ Retire \/ Archive

\* A call once begun goes on, and the sweep runs with every tick of its worker.
Fairness ==
  /\ \A w \in Workers : WF_vars(Step(w))
  /\ WF_vars(Sweep \/ Retire \/ Archive)

Spec == Init /\ [][Next]_vars /\ Fairness

----------------------------------------------------------------------------
(* Properties *)

\* The counters of an operator are evidence about the behaviour it has now:
\* nothing in them was not reported of that behaviour, whatever redefinitions,
\* lost writes and revived rows came in between (preserve_fitness, 114-124).
\* They may fall short of it: two records that overlap count once.
EvidenceIsObserved ==
  \A o \in Operators : Exists(store[o]) =>
    LET t == store[o].tally
        seen == observed[o][store[o].spec]
    IN /\ t.inv <= seen.inv /\ t.ver <= seen.ver
       /\ t.ref <= seen.ref /\ t.uses <= seen.uses
       /\ t.ver + t.ref <= t.inv

\* An archived operator was refuted at least three times in the behaviour it is
\* stored with: one, two or no refutations never retire an operator (is_unfit,
\* 287-290), and a redefinition does not inherit the verdict.
ArchivedWasRefuted ==
  \A o \in Operators : store[o].archived => observed[o][store[o].spec].ref >= 3

\* select never answers with an operator reality has spoken against while it read
\* a candidate that nothing is known about.
SelectSpares ==
  chosen.op # NoOperator /\ IsUnfit(chosen.got[chosen.op].tally) =>
    \A o \in Operators : LET row == chosen.got[o] IN Exists(row) =>
      row.tally.ver + row.tally.ref > 0

\* A write whose document nobody wrote since it was read loses nothing: a person
\* stays the creator against a process, a citation stays, and counters are only
\* given up with the change of behaviour on record.
AloneLosesNothing ==
  [][\A c \in Callers, o \in Operators :
       (call[c].do \in {"put", "archive"} /\ call'[c] # call[c] /\ call[c].op = o
         /\ ~overlapped[c] /\ Exists(store[o])) =>
         LET old == store[o]
             new == store'[o]
         IN /\ old.by \in People => new.by \in People
            /\ old.cited => new.cited
            /\ \/ \A f \in DOMAIN NoEvidence : new.tally[f] >= old.tally[f]
               \/ new.spec # old.spec /\ new.reset = old.spec]_vars

\* In the end every unfit operator is archived, whatever was revived by a
\* registration or by a stale write: the sweep comes back.
FinallyRetired ==
  <>[](\A o \in Operators : IsUnfit(store[o].tally) => store[o].archived)
==============================================================================
