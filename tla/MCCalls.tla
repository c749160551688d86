------------------------------- MODULE MCCalls -------------------------------
(***************************************************************************)
(* What a host is answered by others: by desktops (Relay), by Mantle while *)
(* it pushes its operators (OperatorPush), and by the instrument that a    *)
(* crystal is given (CrystalFlow).  They share no state, so `side` says    *)
(* which of them is explored, and the run is the union.                    *)
(*                                                                         *)
(* Relay: two users, so that an answer can come from the wrong desktop;    *)
(* two sessions, so that a user can hold both; two requests, so that one   *)
(* socket carries both.                                                    *)
(*                                                                         *)
(* Push: two rows to a page, so that a page may be full, short or empty    *)
(* and a scan spans pages; two artifacts of others, so that the listing    *)
(* grows while it is read; or one scan that Mantle cuts.                   *)
(*                                                                         *)
(* Crystal: a facet for both directions and one that only conducts out;    *)
(* two bands, so that a beam is split in every way; only the frame without *)
(* energy carries no read.                                                 *)
(***************************************************************************)
EXTENDS Relay

CONSTANTS
  Hosts, Operators, Specs, ByRef, Catalog, Other, Page, Attempts, MaxOthers, MaxDeploys,
  MaxCuts, Both,
  Facets, out, Bands, None

VARIABLES
  side,
  rows, dry, cut, deploys, manifest, at, attempt, offset, found, index, todo,
  fills, bound, screen, charge, incident, split, got, last

pushVars == <<rows, dry, cut, deploys, manifest, at, attempt, offset, found, index, todo>>
crystalVars == <<fills, bound, screen, charge, incident, split, got, last>>

Directions == [f \in Facets |-> IF f = out THEN "out" ELSE "both"]

Push == INSTANCE OperatorPush WITH pc <- at
Crystal == INSTANCE CrystalFlow WITH Direction <- Directions, Unreadable <- {{}}

ASSUME PushAssumption == Push!OperatorPushAssumption
ASSUME CrystalAssumption == Crystal!CrystalFlowAssumption

\* The sides that do not move start in one state only.  The first build may be any: an
\* operator's specs are only compared with one another.
CallsInit ==
  /\ Init /\ Push!Init /\ Crystal!Init
  /\ side \in {"relay", "push", "crystal"}
  /\ \A h \in Hosts, o \in Operators : manifest[h][o] = CHOOSE s \in Specs : TRUE
  /\ side # "crystal" => fills = {}

PushStep(h) == side = "push" /\ Push!PushStep(h)

CallsNext ==
  /\ \/ side = "relay" /\ Next /\ UNCHANGED <<pushVars, crystalVars>>
     \/ side = "push" /\ Push!Next /\ UNCHANGED <<vars, crystalVars>>
     \/ side = "crystal" /\ Crystal!Next /\ UNCHANGED <<vars, pushVars>>
  /\ UNCHANGED side

\* At first no request is open: the relay's fairness asks nothing of the other sides.
CallsSpec ==
  /\ CallsInit /\ [][CallsNext]_<<side, vars, pushVars, crystalVars>>
  /\ Fairness
  /\ \A h \in Hosts : WF_pushVars(PushStep(h))

TypesOK == TypeOK /\ Push!TypeOK /\ Crystal!TypeOK
StoredOnce == Push!StoredOnce
PushedIsStored == Push!PushedIsStored
PushEnds == side = "push" => Push!PushEnds
BeamAccounted == Crystal!BeamAccounted
ScreenHears == Crystal!ScreenHears
=============================================================================
