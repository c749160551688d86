------------------------------ MODULE MCAccess ------------------------------
(***************************************************************************)
(* What the gateway lets a caller do: the operator gate, and the dispatch  *)
(* of a request to Mantle or a persona, which asks the gate.  OperatorGate *)
(* shows that the gate clears nobody who lost the tool a TTL ago, and      *)
(* Dispatch has it clear anybody else; they share no state, so `side` says *)
(* which of them is explored, and the run is the union.                    *)
(*                                                                         *)
(* Gate: two operators on one tool and a tool of a person's own server;    *)
(* one caller, for entries of different callers never meet; two checks, so *)
(* that the reads of one caller overlap.                                   *)
(*                                                                         *)
(* Dispatch: the root, the collection and text/* are builtin.  lumen ships *)
(* the card, in its next release inherited by the collection it then       *)
(* replaces: a circle.  aria ships the note and, in its next release,      *)
(* takes the card over.                                                    *)
(***************************************************************************)
EXTENDS Dispatch

CONSTANTS
  o1, o2, shared, mineTool,
  root, coll, text, card, note, plain, a1, lumen, aria, iris, t1, t2, mine,
  Callers, Operators, GateTools, Runs, Personal, Checks, NoCaller, NoTool, TTL, MaxLatency,
  MaxEntries, MaxTime

VARIABLES
  side,
  clock, offered, may, since, seen, pc, who, tool, start, reply, outcome

gateVars == <<clock, offered, may, since, seen, pc, who, tool, start, reply, outcome>>

Gate == INSTANCE OperatorGate WITH Tools <- GateTools

ASSUME GateHolds == Gate!GateAssumption

MCRuns == (o1 :> shared) @@ (o2 :> shared)
MCSymmetry == Permutations(Checks)

MCCategory == [ct \in ContentTypes |-> IF ct = plain THEN text ELSE NoType]

Crud(needs) == RawOp("artifact_crud", Absent, NoServer, NoToolName, needs, FALSE)
Mcp(server, name, needs, link) == RawOp("mcp_tool", Absent, server, name, needs, link)
Native == RawOp("native", Absent, NoServer, NoToolName, NoNeed, FALSE)
Untargeted(needs) == RawOp(Absent, Absent, NoServer, NoToolName, needs, FALSE)
Raw(inherits, ops) == [inherits |-> inherits, ops |-> ops]

MCBuiltin == [ct \in ContentTypes |->
  CASE ct = root -> ParsedDef(BuiltinServer, Raw(<<>>,
                      [read |-> Untargeted("read"), update |-> Crud("update")]))
    [] ct = coll -> ParsedDef(BuiltinServer, Raw(<<root>>, [create |-> Native]))
    [] ct = text -> ParsedDef(BuiltinServer, Raw(<<root>>, <<>>))
    [] OTHER -> NoDef]

Card1 == Raw(<<coll, note>>, [invoke |-> Mcp(lumen, t1, "invoke", FALSE)])
Card2 == Raw(<<note, coll>>, [invoke |-> Mcp(lumen, t2, "invoke", TRUE)])
Coll2 == Raw(<<card>>, [update |-> Mcp(lumen, t2, NoNeed, FALSE)])
Note1 == Raw(<<card, text>>, [create |-> Mcp(aria, t1, NoNeed, FALSE),
                              invoke |-> Mcp(mine, t2, NoNeed, FALSE)])
Card3 == Raw(<<>>, [invoke |-> Mcp(aria, t2, "update", FALSE), update |-> Crud(NoNeed)])

MCBuilds == [s \in Servers |->
  CASE s = lumen -> {card :> Card1, card :> Card2 @@ coll :> Coll2}
    [] s = aria -> {note :> Note1, card :> Card3}
    [] OTHER -> {<<>>}]

MCTypeOf == [a \in {a1} |-> card]
MCOffered == {<<lumen, t2>>}

\* The side that does not move starts in one state only.
AccessInit ==
  /\ Init /\ Gate!Init
  /\ \/ side = "gate" /\ identity
     \/ side = "gateway" /\ offered = {} /\ may = [c \in Callers |-> {}]

AccessNext ==
  /\ \/ side = "gate" /\ Gate!Next /\ UNCHANGED vars
     \/ side = "gateway" /\ Next /\ UNCHANGED gateVars
  /\ UNCHANGED side

AccessSpec == AccessInit /\ [][AccessNext]_<<side, vars, gateVars>>

\* Publishing and requests share no state: the one is explored with an identity, the
\* others without.
Apart == identity => req = NoReq

TypesOK == TypeOK /\ Gate!TypeOK
WithdrawalReaches == Gate!WithdrawalReaches
GrantReaches == Gate!GrantReaches

\* What /resolve lists is what is dispatched (RegistryAgrees), in the states where nothing
\* but registrations happened: the registry takes all its values there.
OperationsAgree == (req = NoReq /\ regrants = 0 /\ ~identity) => RegistryAgrees
=============================================================================
