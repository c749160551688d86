-------------------------- MODULE CrystalFlow_proofs --------------------------
(***************************************************************************)
(* That a beam is accounted for as a whole, and that the screen holds it,  *)
(* for any facets and bands, any part of an instrument and any sequence of *)
(* calls; the instrument answers every frame that has energy.              *)
(***************************************************************************)
EXTENDS CrystalFlow, FiniteSetTheorems, TLAPS

\* The split that is kept is one of the beam that is kept.
SplitOfBeam ==
  /\ ~split.known => split = NotSplit
  /\ split.known =>
       /\ incident \notin {None} \cup Unreadable
       /\ split.absorbed \subseteq incident
       /\ split.transmitted = incident \ split.absorbed

\* What was answered is what the crossing answers; without one, only silence was asked.
GotOfSplit ==
  /\ got.condensed \subseteq {Energy(Condensed(split))}
  /\ got.transmitted \subseteq {Energy(Transmitted(split))}
  /\ got.told \subseteq {Account(split)}
  /\ split.known \/ got = NothingGot \/ incident \in {None} \cup Unreadable

\* The screen, once made, has every binding.
ScreenAgrees == screen.made => screen.entry = bound

IInv == TypeOK /\ SplitOfBeam /\ GotOfSplit /\ ScreenAgrees /\ ScreenHears

\* The instrument answers every frame that has energy.
AnswersAll == CrystalFlowAssumption /\ Unreadable \subseteq {{}}

----------------------------------------------------------------------------
LEMMA EnergyType ==
  ASSUME CrystalFlowAssumption, NEW frame \in Frames \cup {None}
  PROVE  Energy(frame) \in Energies
<1>1. CASE frame = None
  <2>1. Cardinality(Bands) \in Nat
    BY FS_CardinalityType DEF CrystalFlowAssumption
  <2> QED
    BY <1>1, <2>1 DEF Energy, Energies
<1>2. CASE frame # None
  <2>1. frame \subseteq Bands
    BY <1>2 DEF Frames
  <2>2. /\ Cardinality(frame) \in Nat /\ Cardinality(Bands) \in Nat
        /\ Cardinality(frame) <= Cardinality(Bands)
    BY <2>1, FS_Subset, FS_CardinalityType DEF CrystalFlowAssumption
  <2> QED
    BY <1>2, <2>2 DEF Energy, Energies
<1> QED
  BY <1>1, <1>2

LEMMA ConvertType ==
  ASSUME NEW entry, NEW surface \in Frames
  PROVE  Convert(entry, surface) \in Frames \cup {None}
BY DEF Convert

\* A split loses nothing.
LEMMA SplitLosesNothing ==
  ASSUME CrystalFlowAssumption, NEW frame \in Frames, NEW part \in SUBSET frame
  PROVE  Energy(part) + Energy(frame \ part) = Energy(frame)
<1>1. IsFiniteSet(frame)
  BY FS_Subset DEF Frames, CrystalFlowAssumption
<1>2. /\ IsFiniteSet(part) /\ frame \cap part = part
  BY <1>1, FS_Subset
<1>3. Cardinality(frame \ part) = Cardinality(frame) - Cardinality(part)
  BY <1>1, <1>2, FS_Difference
<1>4. Cardinality(frame) \in Nat /\ Cardinality(part) \in Nat
  BY <1>1, <1>2, FS_CardinalityType
<1>5. frame # None /\ part # None /\ frame \ part # None
  BY DEF Frames, CrystalFlowAssumption
<1> QED
  BY <1>3, <1>4, <1>5 DEF Energy

\* What the calls answer of a crossing are energies.
LEMMA AnswerType ==
  ASSUME CrystalFlowAssumption, TypeOK,
         NEW crossing \in [known : BOOLEAN, absorbed : Frames, transmitted : Frames]
  PROVE  /\ Energy(Condensed(crossing)) \in Energies
         /\ Energy(Transmitted(crossing)) \in Energies
         /\ Account(crossing) \in Energies \X Energies
<1>1. Condensed(crossing) \in Frames \cup {None} /\ Transmitted(crossing) \in Frames \cup {None}
  BY DEF Condensed, Transmitted
<1>2. Energy(crossing.absorbed) \in Energies /\ Energy(crossing.transmitted) \in Energies
  BY EnergyType
<1>3. Energy(incident) \in Energies
  BY EnergyType DEF TypeOK
<1>4. 0 \in Energies
  BY FS_CardinalityType DEF Energies, CrystalFlowAssumption
<1> QED
  BY <1>1, <1>2, <1>3, <1>4, EnergyType DEF Account

----------------------------------------------------------------------------
LEMMA InitIInv == ASSUME CrystalFlowAssumption, Init PROVE IInv
<1>1. TypeOK
  <2>1. NotMade \in [made : BOOLEAN, entry : [Facets -> Bindings]]
    BY DEF NotMade, Bindings
  <2>2. NotSplit \in [known : BOOLEAN, absorbed : Frames, transmitted : Frames]
    BY DEF NotSplit, Frames
  <2>3. NothingGot \in [condensed : SUBSET Energies, transmitted : SUBSET Energies,
                        told : SUBSET (Energies \X Energies)]
    BY DEF NothingGot
  <2>4. bound \in [Facets -> Bindings]
    BY DEF Init, Bindings
  <2> QED
    BY <2>1, <2>2, <2>3, <2>4 DEF Init, TypeOK
<1>2. SplitOfBeam /\ GotOfSplit /\ ScreenAgrees /\ ScreenHears
  BY DEF Init, SplitOfBeam, GotOfSplit, ScreenAgrees, ScreenHears, NotSplit, NothingGot, NotMade
<1> QED
  BY <1>1, <1>2 DEF IInv

\* What the screen does to itself when it is made.
LEMMA ScreenType ==
  ASSUME TypeOK, ScreenAgrees
  PROVE  /\ Screen \in [made : BOOLEAN, entry : [Facets -> Bindings]]
         /\ Screen.made /\ Screen.entry = bound
<1>1. CASE screen.made
  BY <1>1 DEF Screen, TypeOK, ScreenAgrees
<1>2. CASE ~screen.made
  BY <1>2 DEF Screen, TypeOK
<1> QED
  BY <1>1, <1>2

LEMMA BindKeeps ==
  ASSUME IInv, NEW f \in Facets, NEW entry \in Bindings, Bind(f, entry)
  PROVE  IInv'
<1> USE DEF IInv, Bind
<1>1. bound' \in [Facets -> Bindings]
  BY DEF TypeOK
<1>2. screen' \in [made : BOOLEAN, entry : [Facets -> Bindings]]
  BY DEF TypeOK, Registered
<1>3. TypeOK'
  BY <1>1, <1>2 DEF TypeOK
<1>4. screen'.made = screen.made /\ ScreenAgrees'
  BY DEF TypeOK, Registered, ScreenAgrees
<1>5. SplitOfBeam' /\ ScreenHears'
  BY <1>4 DEF SplitOfBeam, ScreenHears
<1>6. GotOfSplit'
  BY DEF GotOfSplit, Account
<1> QED
  BY <1>3, <1>4, <1>5, <1>6

LEMMA MeasureKeeps == ASSUME IInv, Measure PROVE IInv'
<1> USE DEF IInv, Measure
<1>1. TypeOK' /\ ScreenAgrees' /\ screen'.made
  BY ScreenType DEF TypeOK, ScreenAgrees
<1>2. SplitOfBeam' /\ ScreenHears'
  BY <1>1 DEF SplitOfBeam, ScreenHears
<1>3. GotOfSplit'
  BY DEF GotOfSplit, Account
<1> QED
  BY <1>1, <1>2, <1>3

LEMMA ClearKeeps == ASSUME IInv, NEW F \in SUBSET Facets, Clear(F) PROVE IInv'
<1> USE DEF IInv, Clear
<1>1. screen' \in [made : BOOLEAN, entry : [Facets -> Bindings]] /\ ScreenAgrees' /\ screen'.made
  BY ScreenType DEF ScreenAgrees
<1>2. charge' \in [Facets -> Frames \cup {None}] /\ last' \in Facets \cup {None}
  BY DEF TypeOK
<1>3. TypeOK'
  BY <1>1, <1>2 DEF TypeOK
<1>4. ScreenHears'
  BY <1>1 DEF ScreenHears, TypeOK
<1>5. SplitOfBeam' /\ GotOfSplit'
  BY DEF SplitOfBeam, GotOfSplit, Account
<1> QED
  BY <1>1, <1>3, <1>4, <1>5

\* A new beam: the split and the answers begin anew.
LEMMA ConductKeeps ==
  ASSUME IInv, NEW f \in Facets, NEW surface \in Frames, Conduct(f, surface)
  PROVE  IInv'
<1> USE DEF IInv, Conduct
<1>1. incident' \in Frames \cup {None}
  BY ConvertType
<1>2. split' \in [known : BOOLEAN, absorbed : Frames, transmitted : Frames] /\ ~split'.known
  BY DEF Anew, NotSplit, Frames
<1>3. got' \in [condensed : SUBSET Energies, transmitted : SUBSET Energies,
                told : SUBSET (Energies \X Energies)]
  BY DEF NothingGot
<1>4. SplitOfBeam' /\ GotOfSplit'
  BY <1>2 DEF SplitOfBeam, GotOfSplit, Anew, NothingGot
<1>5. CASE incident' = None \/ ~CanScreen
  <2>1. last' = None /\ UNCHANGED <<screen, charge>>
    BY <1>5
  <2>2. TypeOK'
    BY <1>1, <1>2, <1>3, <2>1 DEF TypeOK
  <2> QED
    BY <1>4, <2>1, <2>2 DEF ScreenAgrees, ScreenHears
<1>6. CASE incident' # None /\ CanScreen
  <2>1. /\ screen' = Screen /\ last' = f
        /\ charge' = [charge EXCEPT ![f] = Convert(screen'.entry[f], surface)]
    BY <1>6
  <2>2. screen' \in [made : BOOLEAN, entry : [Facets -> Bindings]] /\ screen'.made
        /\ screen'.entry = bound
    BY <2>1, ScreenType
  <2>3. charge' \in [Facets -> Frames \cup {None}] /\ charge'[f] = incident'
    BY <2>1, <2>2, ConvertType DEF TypeOK
  <2>4. TypeOK'
    BY <1>1, <1>2, <1>3, <2>1, <2>2, <2>3 DEF TypeOK
  <2> QED
    BY <1>4, <2>1, <2>2, <2>3, <2>4 DEF ScreenAgrees, ScreenHears
<1> QED
  BY <1>5, <1>6

\* A crossing keeps the one there is, or splits the beam of which nothing was asked yet.
LEMMA CrossingKeeps ==
  ASSUME IInv, Crossing
  PROVE  /\ split' \in [known : BOOLEAN, absorbed : Frames, transmitted : Frames]
         /\ SplitOfBeam'
         /\ split' = split \/ got = NothingGot
         /\ split'.known \/ incident \in {None} \cup Unreadable
         /\ ScreenAgrees' /\ ScreenHears'
<1> USE DEF IInv, Crossing
<1>1. ScreenAgrees' /\ ScreenHears'
  BY DEF ScreenAgrees, ScreenHears
<1>2. CASE split.known
  BY <1>1, <1>2 DEF Crossings, SplitOfBeam, TypeOK
<1>3. CASE ~split.known /\ incident \in {None} \cup Unreadable
  <2>1. split' = NotSplit /\ split = NotSplit
    BY <1>3 DEF Crossings, SplitOfBeam
  <2> QED
    BY <1>1, <1>3, <2>1 DEF SplitOfBeam, TypeOK
<1>4. CASE ~split.known /\ incident \notin {None} \cup Unreadable
  <2>1. PICK A \in SUBSET incident :
          split' = [known |-> TRUE, absorbed |-> A, transmitted |-> incident \ A]
    BY <1>4 DEF Crossings
  <2>2. incident \subseteq Bands
    BY <1>4 DEF TypeOK, Frames
  <2>3. A \in Frames /\ incident \ A \in Frames
    BY <2>2 DEF Frames
  <2>4. got = NothingGot
    BY <1>4 DEF GotOfSplit
  <2> QED
    BY <1>1, <1>4, <2>1, <2>3, <2>4 DEF SplitOfBeam
<1> QED
  BY <1>2, <1>3, <1>4

LEMMA AskKeeps ==
  ASSUME CrystalFlowAssumption, IInv,
         Condense \/ Transmit \/ \E members \in SUBSET Members : Tell(members)
  PROVE  IInv'
<1> DEFINE condensed == Energy(Condensed(split'))
           transmitted == Energy(Transmitted(split'))
           account == Account(split')
           Got(c, t, a) == [condensed |-> c, transmitted |-> t, told |-> a]
<1>1. /\ Crossing /\ UNCHANGED <<fills, bound, screen, charge, incident, last>>
      /\ split' \in [known : BOOLEAN, absorbed : Frames, transmitted : Frames] /\ SplitOfBeam'
      /\ split' = split \/ got = NothingGot
      /\ split'.known \/ incident \in {None} \cup Unreadable
      /\ ScreenAgrees' /\ ScreenHears'
  <2>1. Crossing
    BY DEF Condense, Transmit, Tell
  <2> QED
    BY <2>1, CrossingKeeps DEF Crossing
<1>2. condensed \in Energies /\ transmitted \in Energies /\ account \in Energies \X Energies
  BY <1>1, AnswerType DEF IInv
<1>3. /\ got \in [condensed : SUBSET Energies, transmitted : SUBSET Energies,
                 told : SUBSET (Energies \X Energies)]
      /\ got.condensed \subseteq {condensed} /\ got.transmitted \subseteq {transmitted}
      /\ got.told \subseteq {account}
  <2>1. CASE split' = split
    BY <2>1 DEF IInv, TypeOK, GotOfSplit
  <2>2. CASE got = NothingGot
    BY <2>2 DEF IInv, TypeOK, NothingGot
  <2> QED
    BY <1>1, <2>1, <2>2
<1> HIDE DEF condensed, transmitted, account
<1>4. \/ got' = [got EXCEPT !.condensed = @ \cup {condensed}]
      \/ got' = [got EXCEPT !.transmitted = @ \cup {transmitted}]
      \/ got' = [got EXCEPT !.told = @ \cup {account}]
  BY DEF Condense, Transmit, Tell, condensed, transmitted, account
<1>5. /\ got' \in [condensed : SUBSET Energies, transmitted : SUBSET Energies,
                  told : SUBSET (Energies \X Energies)]
      /\ got'.condensed \subseteq {condensed} /\ got'.transmitted \subseteq {transmitted}
      /\ got'.told \subseteq {account}
  BY <1>2, <1>3, <1>4
<1>6. TypeOK'
  BY <1>1, <1>5 DEF IInv, TypeOK
<1>7. Account(split)' = account
  BY <1>1 DEF Account, account
<1>8. GotOfSplit'
  BY <1>1, <1>5, <1>7 DEF GotOfSplit, condensed, transmitted
<1> QED
  BY <1>1, <1>6, <1>8 DEF IInv

LEMMA IInvAlways == ASSUME CrystalFlowAssumption PROVE Spec => []IInv
<1>1. Init => IInv
  BY InitIInv
<1>2. IInv /\ [Next]_vars => IInv'
  <2>1. ASSUME IInv, UNCHANGED vars PROVE IInv'
    BY <2>1 DEF vars, IInv, TypeOK, SplitOfBeam, GotOfSplit, ScreenAgrees, ScreenHears, Account
  <2>2. ASSUME IInv, Next PROVE IInv'
    <3>1. CASE \E f \in Facets, entry \in Bindings : Bind(f, entry)
      BY <2>2, <3>1, BindKeeps
    <3>2. CASE \E f \in Facets, surface \in Frames : Conduct(f, surface)
      BY <2>2, <3>2, ConductKeeps
    <3>3. CASE \E F \in SUBSET Facets : Clear(F)
      BY <2>2, <3>3, ClearKeeps
    <3>4. CASE Measure
      BY <2>2, <3>4, MeasureKeeps
    <3>5. CASE Condense \/ Transmit \/ Ledger \/ Certificate
      <4>1. Condense \/ Transmit \/ \E members \in SUBSET Members : Tell(members)
        BY <3>5 DEF Ledger, Certificate, Members
      <4> QED
        BY <2>2, <4>1, AskKeeps
    <3> QED
      BY <2>2, <3>1, <3>2, <3>3, <3>4, <3>5 DEF Next
  <2> QED
    BY <2>1, <2>2
<1> QED
  BY <1>1, <1>2, PTL DEF Spec

----------------------------------------------------------------------------
\* Type correctness: answers are energies of frames, and no frame is None (crystal.py).
THEOREM CrystalTypeOK == ASSUME CrystalFlowAssumption PROVE Spec => []TypeOK
<1>1. IInv => TypeOK
  BY DEF IInv
<1> QED
  BY <1>1, IInvAlways, PTL

\* The screen holds the beam that is accounted for (crystal.py 498-529).
THEOREM ScreenAlwaysHears == ASSUME CrystalFlowAssumption PROVE Spec => []ScreenHears
<1>1. IInv => ScreenHears
  BY DEF IInv
<1> QED
  BY <1>1, IInvAlways, PTL

\* What was condensed and what was transmitted are the whole of the beam, and ledger and
\* certificate say just that (crystal.py 334-435), if the instrument answers every frame
\* that has energy.
THEOREM BeamAlwaysAccounted == ASSUME AnswersAll PROVE Spec => []BeamAccounted
<1>1. CrystalFlowAssumption /\ Unreadable \subseteq {{}}
  BY DEF AnswersAll
<1>2. ASSUME IInv PROVE BeamAccounted
  <2> DEFINE condensed == Energy(Condensed(split))
             transmitted == Energy(Transmitted(split))
             account == Account(split)
  <2>1. got = NothingGot \/ /\ account = <<condensed, transmitted>>
                            /\ condensed + transmitted = Energy(incident)
    <3>1. CASE split.known
      <4>1. incident \in Frames /\ split.absorbed \in SUBSET incident
            /\ split.transmitted = incident \ split.absorbed
        BY <1>2, <3>1 DEF IInv, TypeOK, SplitOfBeam
      <4>2. condensed = Energy(split.absorbed)
        BY FS_EmptySet DEF Condensed, Energy
      <4>3. account = <<condensed, Energy(split.transmitted)>> /\ transmitted = Energy(split.transmitted)
        BY <3>1, <4>2 DEF Account, Transmitted
      <4> QED
        BY <1>1, <4>1, <4>2, <4>3, SplitLosesNothing
    <3>2. CASE ~split.known /\ incident \in {None} \cup Unreadable
      <4>1. split = NotSplit
        BY <1>2, <3>2 DEF IInv, SplitOfBeam
      <4>2. Energy(incident) = 0
        BY <1>1, <3>2, FS_EmptySet DEF Energy
      <4>3. condensed = 0 /\ transmitted = 0
        BY <4>1 DEF NotSplit, Condensed, Transmitted, Energy
      <4> QED
        BY <3>2, <4>2, <4>3 DEF Account
    <3> QED
      BY <1>2, <3>1, <3>2 DEF IInv, GotOfSplit
  <2>2. /\ got.condensed \subseteq {condensed} /\ got.transmitted \subseteq {transmitted}
        /\ got.told \subseteq {account}
    BY <1>2 DEF IInv, GotOfSplit
  <2> HIDE DEF condensed, transmitted, account
  <2> QED
    BY <2>1, <2>2 DEF BeamAccounted, NothingGot
<1> QED
  BY <1>1, <1>2, IInvAlways, PTL
=============================================================================
