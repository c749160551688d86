----------------------------- MODULE CrystalFlow -----------------------------
(***************************************************************************)
(* One live crystal (crystal.py): facets are bound, a surface is conducted *)
(* in, and the beam it yields is split once, into what is condensed and    *)
(* what is transmitted; a ledger and a certificate account for it.  The    *)
(* screen, a second place where the signal is kept, is made when it is     *)
(* first needed.                                                           *)
(*                                                                         *)
(* The instrument and the accountant are injected and may be there in      *)
(* part; a call that needs a missing member raises where it needs it.      *)
(* They are not part of the crystal: any split of a readable frame is      *)
(* one that absorb_transmit may answer with.  A frame is the set of the    *)
(* bands it carries, its energy their number.  discharge and the           *)
(* structure change nothing.                                               *)
(***************************************************************************)
EXTENDS Naturals, FiniteSets

CONSTANTS
  Facets, Direction,   \* Direction[f]: "in", "out" or "both"
  Bands,
  Unreadable,          \* frames of which absorb_transmit answers None
  None

VARIABLES
  fills,      \* the members the host injected
  bound,      \* _bound[f]["entry"]
  screen,     \* _m: whether it is made, and the entries registered with it
  charge,     \* the screen's: what is placed on f
  incident,   \* _incident
  split,      \* _split
  got,        \* history: what the calls since the last conduct answered, as energies
  last        \* history: the facet whose surface is the incident beam and on the screen

vars == <<fills, bound, screen, charge, incident, split, got, last>>

Members == {"absorb_transmit", "membrane_screen", "PathLedger", "energy"}
Frames == SUBSET Bands
Energy(frame) == IF frame = None THEN 0 ELSE Cardinality(frame)

CrystalFlowAssumption ==
  /\ IsFiniteSet(Bands) /\ \A frame \in Frames : frame # None
  /\ Direction \in [Facets -> {"in", "out", "both"}]

\* An entry conversion; of an out facet there is none.
Entries == {"through", "mute"}
Bindings == Entries \cup {"outOnly", "unbound"}
Convert(entry, surface) == IF entry = "through" THEN surface ELSE None

NotSplit == [known |-> FALSE, absorbed |-> {}, transmitted |-> {}]
NothingGot == [condensed |-> {}, transmitted |-> {}, told |-> {}]
NotMade == [made |-> FALSE, entry |-> [f \in Facets |-> "unbound"]]

Energies == 0..Cardinality(Bands)

TypeOK ==
  /\ fills \subseteq Members
  /\ bound \in [Facets -> Bindings]
  /\ screen \in [made : BOOLEAN, entry : [Facets -> Bindings]]
  /\ charge \in [Facets -> Frames \cup {None}]
  /\ incident \in Frames \cup {None}
  /\ split \in [known : BOOLEAN, absorbed : Frames, transmitted : Frames]
  /\ got \in [condensed : SUBSET Energies, transmitted : SUBSET Energies,
              told : SUBSET (Energies \X Energies)]
  /\ last \in Facets \cup {None}

Init ==
  /\ fills \in SUBSET Members
  /\ bound = [f \in Facets |-> "unbound"]
  /\ screen = NotMade
  /\ charge = [f \in Facets |-> None]
  /\ incident = None /\ split = NotSplit
  /\ got = NothingGot /\ last = None

----------------------------------------------------------------------------
\* The screen

Registered_Deferred(f, entry) == screen            \* mutant: only when the screen is made

\* _register: a screen that is not made yet takes all bindings when it is.
Registered(f, entry) == IF screen.made THEN [screen EXCEPT !.entry[f] = entry] ELSE screen

\* _screen: made at most once, or EmbodimentRequired.
CanScreen == screen.made \/ "membrane_screen" \in fills
Screen == IF screen.made THEN screen ELSE [made |-> TRUE, entry |-> bound]

\* A facet that conducts in needs an entry.
Bind(f, entry) ==
  /\ entry \in IF Direction[f] = "out" THEN {"outOnly"} ELSE Entries
  /\ bound' = [bound EXCEPT ![f] = entry]
  /\ screen' = Registered(f, entry)
  /\ UNCHANGED <<fills, charge, incident, split, got, last>>

\* emit, couple, coupling, read, balance, certify, transfer, placed
Measure ==
  /\ CanScreen
  /\ screen' = Screen
  /\ UNCHANGED <<fills, bound, charge, incident, split, got, last>>

\* One side or all; the crossing stays.
Clear(F) ==
  /\ CanScreen
  /\ screen' = Screen
  /\ charge' = [f \in Facets |-> IF f \in F THEN None ELSE charge[f]]
  /\ last' = IF last \in F THEN None ELSE last
  /\ UNCHANGED <<fills, bound, incident, split, got>>

----------------------------------------------------------------------------
\* The crossing

Anew_Kept == split                                  \* mutant: the last crossing stays

\* A new signal invalidates the last crossing.
Anew == NotSplit

\* Silence does not reach the screen; and a host that has none raises once the beam is kept.
Conduct(f, surface) ==
  /\ Direction[f] # "out" /\ bound[f] # "unbound"
  /\ incident' = Convert(bound[f], surface)
  /\ split' = Anew
  /\ got' = NothingGot
  /\ \/ /\ incident' = None \/ ~CanScreen
        /\ last' = None
        /\ UNCHANGED <<screen, charge>>
     \/ /\ incident' # None /\ CanScreen
        /\ screen' = Screen
        /\ charge' = [charge EXCEPT ![f] = Convert(screen'.entry[f], surface)]
        /\ last' = f
  /\ UNCHANGED <<fills, bound>>

\* _crossing: computed once, and not at all for silence.
Crossings ==
  IF split.known THEN {split}
  ELSE IF incident \in {None} \cup Unreadable THEN {NotSplit}
  ELSE {[known |-> TRUE, absorbed |-> A, transmitted |-> incident \ A] : A \in SUBSET incident}

CanCross == split.known \/ incident = None \/ "absorb_transmit" \in fills

\* k = 0 is silence.
Condensed(crossing) == IF crossing.absorbed = {} THEN None ELSE crossing.absorbed

Transmitted(crossing) == IF crossing.known THEN crossing.transmitted ELSE None

\* What ledger and certificate say was absorbed and goes on: of a frame without a
\* crossing, nothing and all of it.
Account(crossing) ==
  IF crossing.known THEN <<Energy(crossing.absorbed), Energy(crossing.transmitted)>>
  ELSE <<0, Energy(incident)>>

\* A call that asks for the crossing, and answers it.
Crossing ==
  /\ CanCross
  /\ split' \in Crossings
  /\ UNCHANGED <<fills, bound, screen, charge, incident, last>>

Condense ==
  Crossing /\ got' = [got EXCEPT !.condensed = @ \cup {Energy(Condensed(split'))}]

Transmit ==
  Crossing /\ got' = [got EXCEPT !.transmitted = @ \cup {Energy(Transmitted(split'))}]

\* ledger and certificate, with the members each asks for before anything else.
Tell(members) ==
  members \subseteq fills /\ Crossing /\ got' = [got EXCEPT !.told = @ \cup {Account(split')}]

Ledger == Tell({"PathLedger", "energy"})
Certificate == Tell({"PathLedger"})

Next ==
  \/ \E f \in Facets :
       \/ \E entry \in Bindings : Bind(f, entry)
       \/ \E surface \in Frames : Conduct(f, surface)
       \/ Clear({f})
  \/ Clear(Facets)
  \/ Measure
  \/ Condense \/ Transmit \/ Ledger \/ Certificate

Spec == Init /\ [][Next]_vars

----------------------------------------------------------------------------
\* Properties

\* Whatever is asked of a beam, in any order and however often, with rebinding, clearing
\* and calls that raise in between: what was condensed and what was transmitted are the
\* whole of it, and the ledger and the certificate say just that (crystal.py 346-370:
\* "everything the tekton did not sink, still travelling on").
BeamAccounted ==
  /\ \A c \in got.condensed, t \in got.transmitted : c + t = Energy(incident)
  /\ \A account \in got.told :
       /\ account[1] + account[2] = Energy(incident)
       /\ got.condensed \subseteq {account[1]}
       /\ got.transmitted \subseteq {account[2]}

\* The screen holds the beam that is accounted for, converted by the binding in force when
\* it was conducted, whether that was made before the screen was or after.
ScreenHears == last # None => screen.made /\ charge[last] = incident
=============================================================================
