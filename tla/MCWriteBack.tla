----------------------------- MODULE MCWriteBack -----------------------------
(***************************************************************************)
(* What is written back to artifacts afterwards: a describer's enrichment  *)
(* after a change (Describers), and the record of an operator after its    *)
(* use (Evolution).  They share no state, so `side` says which of them is  *)
(* explored, and the run is the union.                                     *)
(*                                                                         *)
(* Describers: two artifacts, so that the events of one wait behind the    *)
(* describer of the other; two calls, so that an inline one and the        *)
(* driver's overlap.                                                       *)
(*                                                                         *)
(* Evolution: two operators, of which the first produced the output; a     *)
(* person's definition, the same from a process at start-up, and a         *)
(* redefinition by the process.                                            *)
(***************************************************************************)
EXTENDS Describers

CONSTANTS
  o1, s1, s2, john,
  Operators, Specs, People, ProcessAuthor, Outputs, Workers, Sweeper, NoSpec, NoOperator,
  MaxCalls, MaxVerdicts

VARIABLES
  side,
  store, demand, call, calls, chosen, overlapped, observed

recordVars == <<store, demand, call, calls, chosen, overlapped, observed>>

Docs ==
  {[spec |-> s1, by |-> john, cited |-> TRUE],
   [spec |-> s1, by |-> ProcessAuthor, cited |-> FALSE],
   [spec |-> s2, by |-> ProcessAuthor, cited |-> FALSE]}

Producer == [x \in Outputs |-> o1]

Record == INSTANCE Evolution

ASSUME RecordAssumption == Record!EvolutionAssumption

\* The side that does not move starts in one state only.
WriteBackInit ==
  /\ Init /\ Record!Init
  /\ \/ side = "describers" /\ \A o \in Operators : ~Record!Exists(store[o])
     \/ side = "operators" /\ connected

WriteBackNext ==
  /\ \/ side = "describers" /\ Next /\ UNCHANGED recordVars
     \/ side = "operators" /\ Record!Next /\ UNCHANGED vars
  /\ UNCHANGED side

\* The fairness of Describers and of Evolution, each for the runs in which its side moves; of
\* the calls only that some goes on, which is enough, for each ends.
Describing(step) == side = "describers" /\ step
Recording(step) == side = "operators" /\ step

WriteBackSpec ==
  /\ WriteBackInit /\ [][WriteBackNext]_<<side, vars, recordVars>>
  /\ WF_vars(Describing(Handle)) /\ WF_vars(Describing(Tick))
  /\ WF_vars(Describing(\E e \in inline : Resume(e)))
  /\ WF_vars(Describing(\E r \in Runs : Finish(r)))
  /\ WF_recordVars(Recording(\E w \in Workers : Record!Step(w)))
  /\ WF_recordVars(Recording(Record!Sweep \/ Record!Retire \/ Record!Archive))

TypesOK == TypeOK /\ Record!TypeOK
EvidenceIsObserved == Record!EvidenceIsObserved
ArchivedWasRefuted == Record!ArchivedWasRefuted
SelectSpares == Record!SelectSpares
AloneLosesNothing == Record!AloneLosesNothing
FinallyRetired == Record!FinallyRetired
=============================================================================
