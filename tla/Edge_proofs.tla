----------------------------- MODULE Edge_proofs -----------------------------
(***************************************************************************)
(* Where the routing tables send a request, for every roster, whatever its *)
(* personas declare: the promise of GoesHome, from the guards and the      *)
(* order of the layers alone.  And what a request may count on at a host,  *)
(* for any number of threads, any intervals and any roster: it goes home,  *)
(* and one for a persona that Mantle lists reaches it, unless it was       *)
(* excused.                                                                *)
(***************************************************************************)
EXTENDS Edge, SequenceTheorems, WellFoundedInduction, TLAPS

----------------------------------------------------------------------------
\* The tables.

\* A set of places in a roster has a first.
LEMMA FirstPlace ==
  ASSUME NEW c, IsConfig(c), NEW S \in SUBSET DOMAIN c.facets, S # {}
  PROVE  (CHOOSE i \in S : \A j \in S : i <= j) \in S
<1>1. S \subseteq Nat
  BY DEF IsConfig, IsSequence
<1>2. PICK i \in S : \A j \in S : ~(<<j, i>> \in OpToRel(<, Nat))
  BY <1>1, NatLessThanWellFounded, WFMin
<1>3. ASSUME NEW j \in S PROVE i <= j
  <2>1. i \in Nat /\ j \in Nat /\ <<j, i>> \notin OpToRel(<, Nat)
    BY <1>1, <1>2
  <2>2. ~(j < i)
    <3> DEFINE R == OpToRel(<, Nat)
    <3>1. R = {ss \in Nat \X Nat : ss[1] < ss[2]}
      BY DEF OpToRel
    <3> QED
      BY <2>1, <3>1
  <2>3. \A m, n \in Nat : ~(m < n) => n <= m
    OBVIOUS
  <2> QED
    BY <2>1, <2>2, <2>3, Zenon
<1> QED
  BY <1>3

\* The first facet is one of them, and belongs to a mounted persona.
LEMMA FirstFacetIsThere ==
  ASSUME NEW c, IsConfig(c), NEW S \in SUBSET DOMAIN c.facets
  PROVE  /\ S = {} => FirstFacet(c, S) = NoFacet
         /\ S # {} => \E i \in S : FirstFacet(c, S) = c.facets[i]
         /\ FirstFacet(c, S) # NoFacet => \E i \in S : FirstFacet(c, S) = c.facets[i]
         /\ S # {} => FirstFacet(c, S).persona \in c.names
<1>1. CASE S = {}
  BY <1>1 DEF FirstFacet
<1>2. CASE S # {}
  <2>1. \E i \in S : FirstFacet(c, S) = c.facets[i]
    BY <1>2, FirstPlace DEF FirstFacet
  <2> QED
    BY <1>2, <2>1 DEF IsConfig
<1> QED
  BY <1>1, <1>2

\* No persona behind a label that nobody declares, and the declaring one otherwise.
LEMMA DeclaredIsDeclared ==
  ASSUME NEW c, IsConfig(c), NEW sub
  PROVE  /\ Declared(c, sub) # Nobody =>
              \E i \in DOMAIN c.facets : sub \in c.facets[i].subs /\ c.facets[i].persona = Declared(c, sub)
         /\ \A i \in DOMAIN c.facets : sub \in c.facets[i].subs => Declared(c, sub) # Nobody
<1> DEFINE S == Declaring(c, sub)
<1>1. S \in SUBSET DOMAIN c.facets /\ \A i \in DOMAIN c.facets : i \in S <=> sub \in c.facets[i].subs
  BY DEF Declaring
<1>2. S = {} => Declared(c, sub) = Nobody
  <2>1. NoFacet.persona = Nobody
    BY DEF NoFacet
  <2>2. S = {} => FirstFacet(c, S) = NoFacet
    BY <1>1, FirstFacetIsThere
  <2> QED
    BY <2>1, <2>2 DEF Declared
<1>3. S # {} => \E i \in S : Declared(c, sub) = c.facets[i].persona
  BY <1>1, FirstFacetIsThere DEF Declared
<1>4. \A i \in S : c.facets[i].persona # Nobody
  BY <1>1 DEF IsConfig
<1> QED
  BY <1>1, <1>2, <1>3, <1>4

\* A request is given to a mounted persona or to nobody.
LEMMA PersonaIsMounted ==
  ASSUME NEW c, IsConfig(c), NEW host
  PROVE  PersonaForHost(c, host) \in c.names \cup {Nobody}
<1>1. ApexTarget(c) \in c.names \cup {Nobody}
  BY DEF ApexTarget
<1>2. Declared(c, host) # Nobody => Declared(c, host) \in c.names
  BY DeclaredIsDeclared DEF IsConfig
<1> QED
  BY <1>1, <1>2 DEF PersonaForHost

\* A surface declares the label it is found under.
LEMMA SurfaceIsDeclared ==
  ASSUME NEW c, IsConfig(c), NEW sub, SurfaceAt(c, sub) # NoFacet
  PROVE  /\ sub \notin c.names
         /\ \E i \in DOMAIN c.facets : sub \in c.facets[i].subs /\ SurfaceAt(c, sub) = c.facets[i]
<1> DEFINE S == {i \in Declaring(c, sub) : Kind(c.facets[i]) # "none"}
<1>1. S \in SUBSET DOMAIN c.facets /\ \A i \in S : sub \in c.facets[i].subs
  BY DEF Declaring
<1>2. sub \notin c.names /\ SurfaceAt(c, sub) = FirstFacet(c, S)
  BY DEF SurfaceAt
<1> HIDE DEF S
<1>3. \E i \in S : SurfaceAt(c, sub) = c.facets[i]
  BY <1>1, <1>2, FirstFacetIsThere
<1> QED
  BY <1>1, <1>2, <1>3

\* In a roster whose names are apart, the surface of a host is its persona's.
LEMMA SurfaceOfPersona ==
  ASSUME NEW c, IsConfig(c), NamesAreApart(c), NEW host, PersonaForHost(c, host) # Nobody,
         FacetForHost(c, host) # NoFacet
  PROVE  FacetForHost(c, host).persona = PersonaForHost(c, host)
<1>1. c.base /\ host # Elsewhere
  BY DEF PersonaForHost
<1>2. CASE Apex(host)
  <2>1. PICK sub \in {"www", "@"} : FacetForHost(c, host) = SurfaceAt(c, sub)
    BY <1>2 DEF FacetForHost
  <2>2. PICK i \in DOMAIN c.facets : sub \in c.facets[i].subs /\ SurfaceAt(c, sub) = c.facets[i]
    BY <2>1, SurfaceIsDeclared
  <2>3. c.facets[i].persona = ApexTarget(c)
    BY <2>2 DEF NamesAreApart, Apex
  <2> QED
    BY <1>1, <1>2, <2>1, <2>2, <2>3 DEF PersonaForHost
<1>3. CASE ~Apex(host)
  <2>1. FacetForHost(c, host) = SurfaceAt(c, host)
    BY <1>3 DEF FacetForHost
  <2>2. PICK i \in DOMAIN c.facets : host \in c.facets[i].subs /\ SurfaceAt(c, host) = c.facets[i]
    BY <2>1, SurfaceIsDeclared
  <2>3. Declared(c, host) # Nobody
    BY <2>2, DeclaredIsDeclared
  <2>4. PICK j \in DOMAIN c.facets :
          host \in c.facets[j].subs /\ c.facets[j].persona = Declared(c, host)
    BY <2>3, DeclaredIsDeclared
  <2>5. c.facets[i].persona = c.facets[j].persona
    BY <2>2, <2>4 DEF NamesAreApart
  <2> QED
    BY <1>1, <1>3, <2>1, <2>2, <2>3, <2>4, <2>5 DEF PersonaForHost
<1> QED
  BY <1>2, <1>3

\* What is proxied has no persona.
LEMMA ProxiedIsNobodys ==
  ASSUME NEW c, IsConfig(c), NamesAreApart(c), NEW host, UpstreamForHost(c, host)
  PROVE  PersonaForHost(c, host) = Nobody
<1>1. host \in c.upstreams \ c.names /\ ~Apex(host)
  BY DEF UpstreamForHost, NamesAreApart, Apex
<1>2. Declared(c, host) = Nobody
  BY <1>1, DeclaredIsDeclared DEF NamesAreApart
<1> QED
  BY <1>1, <1>2 DEF PersonaForHost

\* The name of a persona is the persona, whoever declares it, and never its page.
LEMMA NameIsPersona ==
  ASSUME NEW c, IsConfig(c), NamesAreApart(c), NEW host \in c.names, c.base
  PROVE  PersonaForHost(c, host) = host /\ FacetForHost(c, host) = NoFacet
<1>1. ~Apex(host) /\ host # Elsewhere
  BY DEF NamesAreApart, IsConfig, Apex
<1>2. Declared(c, host) # Nobody => Declared(c, host) = host
  BY DeclaredIsDeclared DEF NamesAreApart
<1>3. SurfaceAt(c, host) = NoFacet
  BY DEF SurfaceAt
<1> QED
  BY <1>1, <1>2, <1>3 DEF PersonaForHost, FacetForHost

\* A path whose first segment is a mounted persona is answered by that persona.
LEMMA ServedByPersona ==
  ASSUME NEW c, IsConfig(c), NEW path, path[1] \in c.names
  PROVE  /\ Served(c, path).name = path[1]
         /\ Served(c, path).where \in {"persona", "page", "asset", "missing"}
<1> DEFINE S == Surfaces(c, path)
<1>1. CASE S = {}
  BY <1>1 DEF Served, Outcome
<1>2. CASE S # {}
  <2>1. S \in SUBSET DOMAIN c.facets /\ \A i \in S : c.facets[i].persona = path[1]
    BY DEF Surfaces, Prefix
  <2>2. \E i \in S : FirstFacet(c, S) = c.facets[i]
    BY <1>2, <2>1, FirstFacetIsThere
  <2> QED
    BY <1>2, <2>1, <2>2 DEF Served, FromSurface, Outcome
<1> QED
  BY <1>1, <1>2

\* What follows a prefix is what was appended to it.
LEMMA AfterPrefix ==
  ASSUME NEW S, NEW p \in Seq(S), p # <<>>, NEW r \in Seq(S)
  PROVE  /\ (p \o r)[1] = p[1]
         /\ Len(p) = 1 => SubSeq(p \o r, 2, Len(p \o r)) = r
<1>1. Len(p) \in Nat \ {0} /\ Len(r) \in Nat
  BY EmptySeq, LenProperties
<1>2. (p \o r)[1] = p[1]
  BY <1>1, ConcatProperties
<1>3. ASSUME Len(p) = 1 PROVE SubSeq(p \o r, 2, Len(p \o r)) = r
  <2> DEFINE s == SubSeq(p \o r, 2, Len(p \o r))
  <2>1. /\ p \o r \in Seq(S) /\ Len(p \o r) = 1 + Len(r)
        /\ \A i \in 1..Len(r) : (p \o r)[i + 1] = r[i]
    BY <1>1, <1>3, ConcatProperties
  <2>2. \A i \in 2..(1 + Len(r)) : (p \o r)[i] \in S
    BY <1>1, <2>1, ElementOfSeq
  <2>3. /\ s \in Seq(S) /\ Len(s) = Len(r)
        /\ \A i \in 1..Len(r) : s[i] = (p \o r)[i + 1]
    BY <1>1, <2>1, <2>2, SubSeqProperties
  <2> QED
    BY <1>1, <2>1, <2>3, SeqEqual
<1> QED
  BY <1>2, <1>3

\* The address of a path under a persona begins with the persona.
LEMMA UnderBegins ==
  ASSUME NEW f, NEW persona, NEW path, IsSequence(path), f # NoFacet => f.persona = persona
  PROVE  /\ Under(f, persona, path)[1] = persona
         /\ f = NoFacet => SubSeq(Under(f, persona, path), 2, Len(Under(f, persona, path))) \in {path, <<>>}
<1> DEFINE X == {path[i] : i \in DOMAIN path} \cup {persona, f.name}
           front == IF f = NoFacet THEN <<persona>> ELSE Prefix(f)
           rest == IF path # <<"">> THEN path ELSE IF Kind(f) = "static" THEN path ELSE <<>>
<1>1. path \in Seq(X)
  BY SeqMonotonic DEF IsSequence
<1>2. <<>> \in Seq(X)
  BY EmptySeq
<1>3. rest \in Seq(X) /\ rest \in {path, <<>>}
  BY <1>1, <1>2
<1>4. <<persona>> \in Seq(X) /\ <<persona, f.name>> \in Seq(X)
  OBVIOUS
<1>5. front \in Seq(X) /\ front # <<>> /\ front[1] = persona /\ (f = NoFacet => Len(front) = 1)
  <2>1. CASE f = NoFacet
    BY <1>4, <2>1
  <2>2. CASE f # NoFacet
    BY <1>4, <2>2 DEF Prefix
  <2> QED
    BY <2>1, <2>2
<1>6. Under(f, persona, path) = front \o rest
  BY DEF Under
<1> HIDE DEF X, front, rest
<1> QED
  BY <1>3, <1>5, <1>6, AfterPrefix

----------------------------------------------------------------------------
\* Every request goes home, in every roster whose names are apart.
THEOREM AllGoHome ==
  ASSUME NEW c, IsConfig(c), NamesAreApart(c), NEW host, NEW path, IsSequence(path)
  PROVE  GoesHome(c, host, path)
<1> DEFINE persona == PersonaForHost(c, host)
           there == Rewrite(c, host, path)
           out == Routed(c, host, path)
<1>1. persona # Nobody => persona \in c.names /\ ~UpstreamForHost(c, host)
  BY PersonaIsMounted, ProxiedIsNobodys
<1>2. CASE persona = Nobody \/ WellKnown(path)
  <2>1. there = path
    BY <1>2 DEF Rewrite
  <2>2. ASSUME persona # Nobody PROVE out = Served(c, path)
    BY <1>1, <2>1, <2>2 DEF Routed
  <2>3. out.where = "upstream" => out.path = path
    <3>1. CASE UpstreamForHost(c, host)
      BY <2>1, <3>1 DEF Routed, Outcome
    <3>2. CASE ~UpstreamForHost(c, host)
      BY <2>1, <3>2 DEF Routed, Served, FromSurface, Outcome
    <3> QED
      BY <3>1, <3>2
  <2>4. host \in c.names /\ c.base => persona # Nobody
    BY NameIsPersona DEF IsConfig
  <2> QED
    BY <1>2, <2>1, <2>2, <2>3, <2>4 DEF GoesHome
<1>3. CASE persona # Nobody /\ ~WellKnown(path)
  <2>1. out = Served(c, there)
    BY <1>1, <1>3 DEF Routed
  <2>2. CASE path[1] = persona
    <3>1. there = path
      BY <2>2 DEF Rewrite, Addressed
    <3>2. out.name = persona /\ out.where \in {"persona", "page", "asset", "missing"}
      BY <1>1, <1>3, <2>1, <2>2, <3>1, ServedByPersona
    <3>3. host \in c.names /\ c.base => persona = host
      BY NameIsPersona
    <3> QED
      BY <1>3, <2>1, <2>2, <3>1, <3>2, <3>3 DEF GoesHome
  <2>3. CASE path[1] # persona
    <3> DEFINE f == FacetForHost(c, host)
    <3>1. there = Under(f, persona, path)
      BY <1>3, <2>3 DEF Rewrite, Addressed
    <3>2. f # NoFacet => f.persona = persona
      BY <1>3, SurfaceOfPersona
    <3>3. /\ there[1] = persona
          /\ f = NoFacet => SubSeq(there, 2, Len(there)) \in {path, <<>>}
      BY <3>1, <3>2, UnderBegins
    <3>4. Rewrite(c, host, there) = there
      BY <3>3 DEF Rewrite, Addressed
    <3>5. out.name = persona /\ out.where \in {"persona", "page", "asset", "missing"}
      BY <1>1, <1>3, <2>1, <3>3, ServedByPersona
    <3>6. host \in c.names /\ c.base => persona = host /\ f = NoFacet
      BY NameIsPersona
    <3> QED
      BY <1>3, <2>3, <3>3, <3>4, <3>5, <3>6 DEF GoesHome
  <2> QED
    BY <2>2, <2>3
<1> QED
  BY <1>2, <1>3

----------------------------------------------------------------------------
\* The map of personas: what is invariant.

\* Wherever it is, l will find what it was asked for: it is in the map, or l may still ask
\* Mantle for it, or has it in hand.
Steady(l) ==
  /\ pc[l] \notin {"idle", "failed"} /\ asked[l] \in listed
  /\ pc[l] \in {"begin", "find"} =>
       asked[l] \in uuids \/ (retryIn = 0 /\ (loaded => missAge = Interval))
  /\ pc[l] = "find" => loaded
  /\ pc[l] = "stamp" => asked[l] \in uuids \/ retryIn = 0
  /\ pc[l] = "install" => asked[l] \in got[l]
  /\ pc[l] = "refind" => asked[l] \in uuids

\* And so it is for a lookup that is not excused.
OnCourse(l) == ~excused[l] => Steady(l)

MapType ==
  /\ uuids \subseteq listed /\ loaded \in BOOLEAN
  /\ retryIn \in 0..Backoff /\ missAge \in 0..Interval
  /\ uuids # {} => loaded

MapInv == TypeOK /\ MapType /\ \A l \in Lookups : OnCourse(l)

\* The map as it is after the step does for k where k is.
StillSteady(k) ==
  /\ pc[k] \in {"begin", "find"} =>
       asked[k] \in uuids' \/ (retryIn' = 0 /\ (loaded' => missAge' = Interval))
  /\ pc[k] = "find" => loaded'
  /\ pc[k] = "stamp" => asked[k] \in uuids' \/ retryIn' = 0
  /\ pc[k] = "refind" => asked[k] \in uuids'

\* What a step of l leaves to those that it does not excuse.
OthersSteady(l, others) ==
  \A k \in Lookups \ {l} : ~excused[k] /\ k \notin others => StillSteady(k)

\* What the answer to a lookup that was not excused looks like.
Told == ~answer.excused =>
  /\ answer.found
  /\ \E u \in Uuids : seen = Seen(Elsewhere, Endpoint(u), ToPersona(u))

----------------------------------------------------------------------------
\* The map of personas.

LEMMA InitMapInv == Init => MapInv
<1> SUFFICES ASSUME Init PROVE MapInv
  OBVIOUS
<1>1. TypeOK
  <2>1. 0 \in 0..Longest /\ 0 \in 0..Backoff /\ Interval \in 0..Interval /\ "idle" \in Places
    BY PersonaMapAssumption DEF Longest, Places
  <2>2. NoAnswer \in [found : BOOLEAN, excused : BOOLEAN]
    BY DEF NoAnswer
  <2> QED
    BY <2>1, <2>2 DEF Init, TypeOK
<1>2. \A l \in Lookups : excused[l]
  BY DEF Init
<1>3. MapType
  BY <1>1 DEF Init, TypeOK, MapType
<1> QED
  BY <1>1, <1>2, <1>3 DEF MapInv, OnCourse

\* One more is listed, or time passes.
LEMMA WorldKeepsMapInv ==
  ASSUME MapInv, (\E u \in Uuids : Listed(u)) \/ Tick
  PROVE  MapInv'
<1>1. CASE \E u \in Uuids : Listed(u)
  <2>1. PICK u \in Uuids : Listed(u)
    BY <1>1
  <2>2. TypeOK'
    BY <2>1 DEF MapInv, TypeOK, Listed, mapVars, NoAnswer
  <2>3. \A l \in Lookups : OnCourse(l)'
    BY <2>1 DEF MapInv, OnCourse, Steady, Listed, mapVars
  <2>4. MapType'
    BY <2>1 DEF MapInv, MapType, Listed, mapVars
  <2> QED
    BY <2>2, <2>3, <2>4 DEF MapInv
<1>2. CASE Tick
  <2>1. /\ retryIn' \in 0..Backoff /\ (retryIn = 0 => retryIn' = 0)
        /\ missAge' \in 0..Interval /\ (missAge = Interval => missAge' = Interval)
    BY <1>2, PersonaMapAssumption DEF MapInv, TypeOK, Tick, Older
  <2>2. age' \in [Lookups -> 0..Longest]
    BY <1>2, PersonaMapAssumption DEF MapInv, TypeOK, Tick, Older, Longest
  <2>3. UNCHANGED <<listed, uuids, loaded, pc, asked, why, got, excused>> /\ answer' = NoAnswer
    BY <1>2 DEF Tick
  <2>4. TypeOK'
    BY <2>1, <2>2, <2>3 DEF MapInv, TypeOK, NoAnswer
  <2>5. \A l \in Lookups : OnCourse(l)'
    BY <2>1, <2>3 DEF MapInv, OnCourse, Steady
  <2>6. MapType'
    BY <2>1, <2>3 DEF MapInv, MapType
  <2> QED
    BY <2>4, <2>5, <2>6 DEF MapInv
<1> QED
  BY <1>1, <1>2

LEMMA BeginKeepsMapInv ==
  ASSUME MapInv, NEW l \in Lookups, NEW u \in Uuids, Begin(l, u)
  PROVE  MapInv'
<1>1. /\ UNCHANGED <<listed, uuids, loaded, retryIn, missAge, why, age, got>> /\ answer' = NoAnswer
      /\ pc[l] = "idle"
  BY DEF Begin, mapVars
<1>2. /\ pc' \in [Lookups -> Places] /\ pc'[l] = "begin"
      /\ \A k \in Lookups \ {l} : pc'[k] = pc[k]
  BY DEF MapInv, TypeOK, Begin, Places
<1>3. /\ asked' \in [Lookups -> Uuids \cup {NoUuid}] /\ asked'[l] = u
      /\ \A k \in Lookups \ {l} : asked'[k] = asked[k]
  BY DEF MapInv, TypeOK, Begin
<1>4. /\ excused' \in [Lookups -> BOOLEAN]
      /\ \A k \in Lookups \ {l} : excused'[k] = excused[k]
      /\ ~excused'[l] => u \in listed /\ (u \in uuids \/ ~(retryIn > 0 \/ (loaded /\ missAge < Interval)))
  BY DEF MapInv, TypeOK, Begin
<1>5. ~excused'[l] => u \in uuids \/ (retryIn = 0 /\ (loaded => missAge = Interval))
  BY <1>4, PersonaMapAssumption DEF MapInv, TypeOK
<1>6. TypeOK' /\ MapType'
  BY <1>1, <1>2, <1>3, <1>4 DEF MapInv, TypeOK, MapType, NoAnswer
<1>7. ASSUME NEW k \in Lookups PROVE OnCourse(k)'
  <2>1. CASE k = l
    BY <1>1, <1>2, <1>3, <1>4, <1>5, <2>1 DEF OnCourse, Steady
  <2>2. CASE k # l
    BY <1>1, <1>2, <1>3, <1>4, <2>2 DEF MapInv, OnCourse, Steady
  <2> QED
    BY <2>1, <2>2
<1> QED
  BY <1>6, <1>7 DEF MapInv

\* A lookup that goes on.
LEMMA GoesType ==
  ASSUME TypeOK, NEW l \in Lookups, NEW place \in Places, NEW others \in SUBSET Lookups,
         Goes(l, place, others)
  PROVE  /\ pc' \in [Lookups -> Places] /\ pc'[l] = place
         /\ \A k \in Lookups \ {l} : pc'[k] = pc[k]
         /\ excused' \in [Lookups -> BOOLEAN]
         /\ \A k \in Lookups : ~excused'[k] <=> ~excused[k] /\ k \notin others
         /\ UNCHANGED <<listed, asked>> /\ answer' = NoAnswer
         /\ answer' \in [found : BOOLEAN, excused : BOOLEAN]
BY DEF TypeOK, Goes, NoAnswer

LEMMA AnswerType ==
  ASSUME TypeOK, NEW l \in Lookups, NEW found \in BOOLEAN, NEW others \in SUBSET Lookups,
         Answer(l, found, others)
  PROVE  /\ pc' \in [Lookups -> Places] /\ pc'[l] = "idle" /\ excused'[l]
         /\ \A k \in Lookups \ {l} : /\ pc'[k] = pc[k] /\ asked'[k] = asked[k] /\ got'[k] = got[k]
                                     /\ ~excused'[k] <=> ~excused[k] /\ k \notin others
         /\ excused' \in [Lookups -> BOOLEAN]
         /\ asked' \in [Lookups -> Uuids \cup {NoUuid}]
         /\ why' \in [Lookups -> {"load", "miss"}]
         /\ age' \in [Lookups -> 0..Longest]
         /\ got' \in [Lookups -> SUBSET listed]
         /\ answer' = [found |-> found, excused |-> excused[l]]
         /\ answer' \in [found : BOOLEAN, excused : BOOLEAN]
         /\ UNCHANGED listed
<1>1. 0 \in 0..Longest /\ "idle" \in Places
  BY PersonaMapAssumption DEF Longest, Places
<1> QED
  BY <1>1 DEF TypeOK, Answer

\* What the others are left with, if they are left where they are.
LEMMA OthersOnCourse ==
  ASSUME MapInv, NEW l \in Lookups, NEW others, OthersSteady(l, others), UNCHANGED listed,
         NEW k \in Lookups \ {l}, ~excused[k], k \notin others,
         pc'[k] = pc[k], asked'[k] = asked[k], got'[k] = got[k]
  PROVE  Steady(k)'
<1>1. Steady(k) /\ StillSteady(k)
  BY DEF MapInv, OnCourse, OthersSteady
<1> QED
  BY <1>1 DEF Steady, StillSteady

\* A lookup goes on.
LEMMA GoesOnCourse ==
  ASSUME MapInv, MapType', NEW l \in Lookups, NEW place \in Places \ {"idle"},
         NEW others \in SUBSET Lookups, Goes(l, place, others), OthersSteady(l, others),
         age' \in [Lookups -> 0..Longest], why' \in [Lookups -> {"load", "miss"}],
         got' \in [Lookups -> SUBSET listed], \A k \in Lookups \ {l} : got'[k] = got[k],
         ~excused'[l] => Steady(l)'
  PROVE  MapInv'
<1>1. /\ pc' \in [Lookups -> Places] /\ pc'[l] = place
      /\ \A k \in Lookups \ {l} : pc'[k] = pc[k]
      /\ excused' \in [Lookups -> BOOLEAN]
      /\ \A k \in Lookups : ~excused'[k] <=> ~excused[k] /\ k \notin others
      /\ UNCHANGED <<listed, asked>> /\ answer' \in [found : BOOLEAN, excused : BOOLEAN]
  BY GoesType DEF MapInv
<1>2. TypeOK'
  BY <1>1 DEF MapInv, TypeOK, MapType
<1>3. ASSUME NEW k \in Lookups \ {l}, ~excused'[k] PROVE Steady(k)'
  BY <1>1, <1>3, OthersOnCourse
<1> QED
  BY <1>2, <1>3 DEF MapInv, OnCourse

\* A lookup ends.
LEMMA EndsOnCourse ==
  ASSUME MapInv, MapType', NEW l \in Lookups, NEW found \in BOOLEAN,
         NEW others \in SUBSET Lookups, Answer(l, found, others), OthersSteady(l, others),
         found \/ excused[l]
  PROVE  /\ MapInv' /\ pc'[l] = "idle"
         /\ ~answer'.excused => answer'.found /\ asked[l] \in Uuids
<1>1. /\ pc' \in [Lookups -> Places] /\ pc'[l] = "idle" /\ excused'[l]
      /\ \A k \in Lookups \ {l} : /\ pc'[k] = pc[k] /\ asked'[k] = asked[k] /\ got'[k] = got[k]
                                  /\ ~excused'[k] <=> ~excused[k] /\ k \notin others
      /\ answer' = [found |-> found, excused |-> excused[l]] /\ UNCHANGED listed
  BY AnswerType DEF MapInv
<1>2. TypeOK'
  BY AnswerType DEF MapInv, TypeOK, MapType
<1>3. ASSUME NEW k \in Lookups, ~excused'[k] PROVE Steady(k)'
  BY <1>1, <1>3, OthersOnCourse
<1>4. ~answer'.excused => answer'.found /\ asked[l] \in Uuids
  BY <1>1 DEF MapInv, TypeOK, OnCourse, Steady
<1> QED
  BY <1>1, <1>2, <1>3, <1>4 DEF MapInv, OnCourse

\* What a step of a lookup leaves: the invariant, and an answer if it has ended.
Stepped(l) ==
  /\ MapInv'
  /\ IF pc'[l] = "idle" THEN ~answer'.excused => answer'.found /\ asked[l] \in Uuids
     ELSE answer' = NoAnswer

LEMMA UnchangedMapType == MapInv /\ UNCHANGED <<listed, mapVars>> => MapType'
BY DEF MapInv, MapType, mapVars

LEMMA UnchangedOthers ==
  ASSUME MapInv, UNCHANGED mapVars, NEW l \in Lookups, NEW others PROVE OthersSteady(l, others)
BY DEF MapInv, OnCourse, Steady, OthersSteady, StillSteady, mapVars

\* refresh, of a lookup that finds what it was asked for or may ask Mantle for it.
LEMMA RefreshKeeps ==
  ASSUME MapInv, NEW l \in Lookups, NEW w \in {"load", "miss"}, NEW others \in SUBSET Lookups,
         Refresh(l, w, others), MapType', OthersSteady(l, others), UNCHANGED <<uuids, loaded>>,
         pc[l] \in {"begin", "stamp"}
  PROVE  Stepped(l)
<1>1. ~excused[l] => /\ asked[l] \in uuids \/ retryIn = 0
                     /\ asked[l] \in listed
  BY DEF MapInv, OnCourse, Steady
<1>2. 0 \in 0..Longest /\ "fetch" \in Places \ {"idle"} /\ After(w) \in {"find", "refind"}
      /\ After(w) \in Places \ {"idle"}
  BY PersonaMapAssumption DEF Longest, Places, After
<1>3. CASE retryIn = 0 /\ Goes(l, "fetch", others) /\ age' = [age EXCEPT ![l] = 0]
           /\ why' = [why EXCEPT ![l] = w] /\ UNCHANGED got
  <2>1. /\ age' \in [Lookups -> 0..Longest] /\ why' \in [Lookups -> {"load", "miss"}]
        /\ got' \in [Lookups -> SUBSET listed]
    BY <1>2, <1>3 DEF MapInv, TypeOK
  <2>2. pc'[l] = "fetch" /\ UNCHANGED <<listed, asked>> /\ answer' = NoAnswer
        /\ (~excused'[l] => ~excused[l])
    BY <1>2, <1>3, GoesType DEF MapInv
  <2>3. ~excused'[l] => Steady(l)'
    BY <1>1, <2>2 DEF Steady
  <2>4. MapInv'
    BY <1>2, <1>3, <2>1, <2>3, GoesOnCourse
  <2> QED
    BY <2>2, <2>4 DEF Stepped
<1>4. CASE retryIn > 0 /\ loaded /\ Goes(l, After(w), others) /\ age' = [age EXCEPT ![l] = 0]
           /\ UNCHANGED <<why, got>>
  <2>1. /\ age' \in [Lookups -> 0..Longest] /\ why' \in [Lookups -> {"load", "miss"}]
        /\ got' \in [Lookups -> SUBSET listed]
    BY <1>2, <1>4 DEF MapInv, TypeOK
  <2>2. pc'[l] = After(w) /\ answer' = NoAnswer /\ (~excused'[l] => ~excused[l])
        /\ UNCHANGED <<listed, asked>>
    BY <1>2, <1>4, GoesType DEF MapInv
  <2>3. ~excused'[l] => Steady(l)'
    <3>1. ~excused'[l] => asked[l] \in uuids /\ asked[l] \in listed
      BY <1>1, <1>4, <2>2
    <3> QED
      BY <1>2, <1>4, <2>2, <3>1 DEF Steady
  <2>4. MapInv'
    BY <1>2, <1>4, <2>1, <2>3, GoesOnCourse
  <2> QED
    BY <1>2, <2>2, <2>4 DEF Stepped
<1>5. CASE retryIn > 0 /\ ~loaded /\ Answer(l, FALSE, others)
  <2>1. excused[l]
    BY <1>1, <1>5 DEF MapInv, MapType
  <2> QED
    BY <1>5, <2>1, EndsOnCourse DEF Stepped
<1> QED
  BY <1>3, <1>4, <1>5 DEF Refresh

LEMMA LoadKeeps ==
  ASSUME MapInv, NEW l \in Lookups, Load(l)
  PROVE  Stepped(l)
<1>1. pc[l] = "begin" /\ UNCHANGED mapVars
  BY DEF Load
<1>2. CASE loaded /\ Goes(l, "find", {}) /\ UNCHANGED <<age, why, got>>
  <2>1. MapType'
    BY <1>1, <1>2, UnchangedMapType DEF MapInv, Goes
  <2>2. /\ age' \in [Lookups -> 0..Longest] /\ why' \in [Lookups -> {"load", "miss"}]
        /\ got' \in [Lookups -> SUBSET listed] /\ "find" \in Places \ {"idle"}
    BY <1>2 DEF MapInv, TypeOK, Places
  <2>3. /\ pc'[l] = "find" /\ answer' = NoAnswer /\ (~excused'[l] => ~excused[l])
        /\ UNCHANGED <<listed, asked>>
    BY <1>2, <2>2, GoesType DEF MapInv
  <2>4. ~excused'[l] => Steady(l)'
    BY <1>1, <1>2, <2>3 DEF MapInv, OnCourse, Steady, mapVars
  <2>5. MapInv'
    BY <1>1, <1>2, <2>1, <2>2, <2>4, UnchangedOthers, GoesOnCourse
  <2> QED
    BY <2>3, <2>5 DEF Stepped
<1>3. CASE ~loaded /\ Refresh(l, "load", {})
  <2>1. UNCHANGED listed
    BY <1>3 DEF Refresh, Goes, Answer
  <2>2. MapType'
    BY <1>1, <2>1, UnchangedMapType
  <2>3. OthersSteady(l, {}) /\ UNCHANGED <<uuids, loaded>>
    BY <1>1, UnchangedOthers DEF mapVars
  <2> QED
    BY <1>1, <1>3, <2>2, <2>3, RefreshKeeps
<1> QED
  BY <1>2, <1>3 DEF Load

LEMMA FetchFailsKeeps ==
  ASSUME MapInv, NEW l \in Lookups, FetchFails(l)
  PROVE  Stepped(l)
<1>1. /\ pc[l] = "fetch" /\ Goes(l, "failed", {l}) /\ UNCHANGED mapVars
      /\ UNCHANGED <<age, why, got>>
  BY DEF FetchFails
<1>2. /\ age' \in [Lookups -> 0..Longest] /\ why' \in [Lookups -> {"load", "miss"}]
      /\ got' \in [Lookups -> SUBSET listed] /\ "failed" \in Places \ {"idle"}
  BY <1>1 DEF MapInv, TypeOK, Places
<1>3. pc'[l] = "failed" /\ answer' = NoAnswer /\ excused'[l] /\ UNCHANGED listed
  BY <1>1, <1>2, GoesType DEF MapInv
<1>4. MapType' /\ OthersSteady(l, {l})
  BY <1>1, <1>3, UnchangedMapType, UnchangedOthers
<1>5. MapInv'
  BY <1>1, <1>2, <1>3, <1>4, GoesOnCourse
<1> QED
  BY <1>3, <1>5 DEF Stepped

LEMMA BackOffKeeps ==
  ASSUME MapInv, NEW l \in Lookups, BackOff(l)
  PROVE  Stepped(l)
<1> DEFINE others == Missing(l, {"begin", "find", "stamp"})
<1>1. pc[l] = "failed" /\ Answer(l, FALSE, others) /\ UNCHANGED <<listed, uuids, loaded, missAge>>
  BY DEF BackOff, Answer
<1>2. retryIn' \in 0..Backoff
  BY PersonaMapAssumption DEF BackOff, BackOffFor, MapInv, TypeOK, Longest
<1>3. MapType' /\ excused[l]
  BY <1>1, <1>2 DEF MapInv, MapType, OnCourse, Steady
<1>4. others \in SUBSET Lookups
  BY DEF Missing
<1>5. OthersSteady(l, others)
  BY <1>1 DEF MapInv, OnCourse, Steady, OthersSteady, StillSteady, Missing
<1> HIDE DEF others
<1> QED
  BY <1>1, <1>3, <1>4, <1>5, EndsOnCourse DEF Stepped

\* The reply Mantle sends names what it lists.
LEMMA MantleReadsKeeps ==
  ASSUME MapInv, NEW l \in Lookups, MantleReads(l)
  PROVE  MapInv' /\ answer' = NoAnswer
<1>1. /\ pc[l] = "fetch" /\ answer' = NoAnswer
      /\ UNCHANGED <<listed, uuids, loaded, retryIn, missAge, asked, age, why, excused>>
  BY DEF MantleReads, mapVars
<1>2. /\ pc' \in [Lookups -> Places] /\ pc'[l] = "install"
      /\ \A k \in Lookups \ {l} : pc'[k] = pc[k]
  BY DEF MapInv, TypeOK, MantleReads, Places
<1>3. /\ got' \in [Lookups -> SUBSET listed] /\ got'[l] = listed
      /\ \A k \in Lookups \ {l} : got'[k] = got[k]
  BY DEF MapInv, TypeOK, MantleReads
<1>4. TypeOK' /\ MapType'
  BY <1>1, <1>2, <1>3 DEF MapInv, TypeOK, MapType, NoAnswer
<1>5. ASSUME NEW k \in Lookups, ~excused'[k] PROVE Steady(k)'
  <2>1. Steady(k)
    BY <1>1, <1>5 DEF MapInv, OnCourse
  <2> QED
    BY <1>1, <1>2, <1>3, <2>1 DEF Steady
<1> QED
  BY <1>1, <1>4, <1>5 DEF MapInv, OnCourse

LEMMA InstallKeeps ==
  ASSUME MapInv, NEW l \in Lookups, Install(l)
  PROVE  Stepped(l)
<1> DEFINE place == After(why[l])
           others == Losing(l)
<1>1. place \in {"find", "refind"} /\ place \in Places \ {"idle"}
  BY DEF MapInv, TypeOK, After, Places
<1>2. /\ pc[l] = "install" /\ uuids' = got[l] /\ loaded' = TRUE /\ retryIn' = 0
      /\ Goes(l, place, others) /\ UNCHANGED missAge
  BY DEF Install, Replaced
<1>a. others \in SUBSET Lookups
  BY DEF Losing
<1>b. OthersSteady(l, others)
  <2> SUFFICES ASSUME NEW k \in Lookups \ {l}, Steady(k), k \notin others PROVE StillSteady(k)
    BY DEF MapInv, OnCourse, OthersSteady
  <2>1. missAge < Interval \/ missAge = Interval
    BY PersonaMapAssumption DEF MapInv, MapType
  <2>2. asked[k] \in got[l] \/ (pc[k] # "refind" /\ (pc[k] \in {"begin", "find"} => ~(missAge < Interval)))
    BY DEF Losing
  <2> QED
    BY <1>2, <2>1, <2>2 DEF StillSteady
<1> HIDE DEF others
<1>3. /\ pc'[l] = place /\ answer' = NoAnswer /\ (~excused'[l] => ~excused[l])
      /\ UNCHANGED <<listed, asked>>
  BY <1>1, <1>2, <1>a, GoesType DEF MapInv
<1>4. MapType'
  BY <1>2, <1>3, PersonaMapAssumption DEF MapInv, TypeOK, MapType
<1>5. /\ age' \in [Lookups -> 0..Longest] /\ why' \in [Lookups -> {"load", "miss"}]
      /\ got' \in [Lookups -> SUBSET listed] /\ \A k \in Lookups \ {l} : got'[k] = got[k]
  BY PersonaMapAssumption DEF MapInv, TypeOK, Install, Longest
<1>6. ~excused'[l] => Steady(l)'
  <2>1. ~excused[l] => asked[l] \in got[l] /\ asked[l] \in listed
    BY <1>2 DEF MapInv, OnCourse, Steady
  <2> QED
    BY <1>1, <1>2, <1>3, <2>1 DEF Steady
<1>7. MapInv'
  BY <1>1, <1>2, <1>4, <1>5, <1>6, <1>a, <1>b, GoesOnCourse
<1> QED
  BY <1>1, <1>3, <1>7 DEF Stepped

\* A lookup that is not excused is not throttled.
LEMMA FindKeeps ==
  ASSUME MapInv, NEW l \in Lookups, Find(l)
  PROVE  Stepped(l)
<1>1. pc[l] = "find" /\ UNCHANGED mapVars /\ UNCHANGED listed
  BY DEF Find, Answer, Goes
<1>2. MapType' /\ OthersSteady(l, {})
  BY <1>1, UnchangedMapType, UnchangedOthers
<1>3. ~excused[l] => /\ asked[l] \in listed
                     /\ asked[l] \in uuids \/ (retryIn = 0 /\ missAge = Interval)
  BY <1>1 DEF MapInv, OnCourse, Steady
<1>4. CASE asked[l] \in uuids /\ Answer(l, TRUE, {})
  BY <1>1, <1>2, <1>4, EndsOnCourse DEF Stepped
<1>5. CASE asked[l] \notin uuids /\ Throttled /\ Answer(l, FALSE, {})
  <2>1. excused[l]
    BY <1>3, <1>5, PersonaMapAssumption DEF Throttled
  <2> QED
    BY <1>1, <1>2, <1>5, <2>1, EndsOnCourse DEF Stepped
<1>6. CASE /\ Goes(l, "stamp", {}) /\ age' = [age EXCEPT ![l] = 0]
           /\ UNCHANGED <<why, got>>
  <2>1. /\ age' \in [Lookups -> 0..Longest] /\ why' \in [Lookups -> {"load", "miss"}]
        /\ got' \in [Lookups -> SUBSET listed] /\ "stamp" \in Places \ {"idle"}
    BY <1>6, PersonaMapAssumption DEF MapInv, TypeOK, Longest, Places
  <2>2. /\ pc'[l] = "stamp" /\ answer' = NoAnswer /\ (~excused'[l] => ~excused[l])
        /\ UNCHANGED asked
    BY <1>6, <2>1, GoesType DEF MapInv
  <2>3. ~excused'[l] => Steady(l)'
    BY <1>1, <1>3, <2>2 DEF Steady, mapVars
  <2>4. MapInv'
    BY <1>1, <1>2, <1>6, <2>1, <2>3, GoesOnCourse
  <2> QED
    BY <2>2, <2>4 DEF Stepped
<1> QED
  BY <1>4, <1>5, <1>6 DEF Find

LEMMA StampKeeps ==
  ASSUME MapInv, NEW l \in Lookups, Stamp(l)
  PROVE  Stepped(l)
<1> DEFINE others == Missing(l, {"begin", "find"})
<1>1. pc[l] = "stamp" /\ Refresh(l, "miss", others) /\ UNCHANGED <<uuids, loaded, retryIn>>
  BY DEF Stamp
<1>2. missAge' \in 0..Interval /\ UNCHANGED listed
  BY PersonaMapAssumption DEF Stamp, Refresh, Goes, Answer, MapInv, TypeOK, Longest
<1>3. MapType'
  BY <1>1, <1>2 DEF MapInv, MapType
<1>4. others \in SUBSET Lookups /\ OthersSteady(l, others)
  BY <1>1 DEF MapInv, OnCourse, Steady, OthersSteady, StillSteady, Missing
<1> HIDE DEF others
<1> QED
  BY <1>1, <1>3, <1>4, RefreshKeeps

LEMMA RefindKeeps ==
  ASSUME MapInv, NEW l \in Lookups, Refind(l)
  PROVE  Stepped(l)
<1>1. pc[l] = "refind" /\ UNCHANGED mapVars /\ UNCHANGED listed
  BY DEF Refind, Answer
<1>2. MapType' /\ OthersSteady(l, {}) /\ (asked[l] \in uuids \/ excused[l])
  BY <1>1, UnchangedMapType, UnchangedOthers DEF MapInv, OnCourse, Steady
<1>3. Answer(l, asked[l] \in uuids, {})
  BY DEF Refind
<1>4. PICK found \in BOOLEAN : Answer(l, found, {}) /\ (found \/ excused[l])
  <2>1. (asked[l] \in uuids) \in BOOLEAN
    OBVIOUS
  <2> QED
    BY <1>2, <1>3, <2>1, Zenon
<1> QED
  BY <1>1, <1>2, <1>4, EndsOnCourse DEF Stepped

LEMMA LookupKeeps ==
  ASSUME MapInv, NEW l \in Lookups, LookupStep(l)
  PROVE  Stepped(l)
BY LoadKeeps, FetchFailsKeeps, BackOffKeeps, InstallKeeps, FindKeeps, StampKeeps, RefindKeeps
   DEF LookupStep

\* Type correctness of the map, however its lookups meet.
THEOREM PersonaMapTypeOK == Spec => []TypeOK
<1>1. MapInv /\ [Next]_vars => MapInv'
  <2>1. ASSUME MapInv, UNCHANGED vars PROVE MapInv'
    BY <2>1 DEF vars, MapInv, TypeOK, MapType, OnCourse, Steady
  <2> QED
    BY <2>1, WorldKeepsMapInv, BeginKeepsMapInv, MantleReadsKeeps, LookupKeeps DEF Next, Stepped
<1>2. MapInv => TypeOK
  BY DEF MapInv
<1> QED
  BY <1>1, <1>2, InitMapInv, PTL DEF Spec

----------------------------------------------------------------------------
\* The requests.

\* Where a request is: its lookup has ended before it waits for anything else, and who
\* answered is a persona of this build, an upstream of it, or the host.
StageOK ==
  /\ config \in Configs
  /\ stage \in [Lookups -> Stages]
  /\ \A l \in Lookups : stage[l] # "none" => pc[l] = "idle"
  /\ seen.host \in Hosts \cup {Elsewhere}
  /\ seen.out.name \in config.names \cup config.upstreams \cup {Nobody}

EdgeInv == MapInv /\ StageOK /\ Told

\* Who answers.
LEMMA NameIsKnown ==
  ASSUME NEW c, IsConfig(c), NEW path
  PROVE  Served(c, path).name \in c.names \cup {Nobody}
<1> DEFINE S == Surfaces(c, path)
<1>1. CASE S # {}
  <2>1. S \in SUBSET DOMAIN c.facets
    BY DEF Surfaces
  <2>2. FirstFacet(c, S).persona \in c.names
    BY <1>1, <2>1, FirstFacetIsThere
  <2> QED
    BY <1>1, <2>2 DEF Served, FromSurface, Outcome
<1>2. CASE S = {}
  BY <1>2 DEF Served, Outcome
<1> QED
  BY <1>1, <1>2

LEMMA RoutedIsKnown ==
  ASSUME NEW c, IsConfig(c), NEW host, NEW path
  PROVE  Routed(c, host, path).name \in c.names \cup c.upstreams \cup {Nobody}
BY NameIsKnown DEF Routed, UpstreamForHost, Outcome

\* A persona's mount answers at its endpoint.
LEMMA ToPersonaIsIt ==
  ASSUME config \in Configs, NEW u \in Uuids
  PROVE  /\ ToPersona(u) = IF Slug(u) \in config.names
                           THEN Outcome("persona", Slug(u), <<Slug(u), "mcp">>) ELSE Refused("502")
         /\ ToPersona(u).name \in config.names \cup {Nobody}
<1>1. Surfaces(config, <<Slug(u), "mcp">>) = {}
  BY DEF Surfaces
<1>2. <<Slug(u), "mcp">>[1] = Slug(u)
  OBVIOUS
<1> QED
  BY <1>1, <1>2 DEF ToPersona, Served, Refused, Outcome

\* Something was answered, and it was not nothing.
LEMMA EndpointIsSeen ==
  ASSUME NEW u, NEW out
  PROVE  Seen(Elsewhere, Endpoint(u), out) # NotSeen
BY DEF Seen, NotSeen, Endpoint

LEMMA NotSeenIsNobodys ==
  NotSeen.host = Elsewhere /\ NotSeen.out.name = Nobody
BY DEF NotSeen, Seen, Outcome

LEMMA InitEdgeInv == EdgeInit => EdgeInv
<1> SUFFICES ASSUME EdgeInit PROVE EdgeInv
  OBVIOUS
<1>1. MapInv /\ answer.excused
  BY InitMapInv DEF EdgeInit, Init, NoAnswer
<1>2. StageOK
  BY NotSeenIsNobodys DEF EdgeInit, StageOK, Stages
<1> QED
  BY <1>1, <1>2 DEF EdgeInv, Told

\* A request that is not for the gateway; it is taken only when nothing was just answered.
LEMMA PassKeeps ==
  ASSUME EdgeInv, NEW host \in Hosts, NEW path \in Paths, Pass(host, path)
  PROVE  EdgeInv'
<1>1. /\ UNCHANGED vars /\ UNCHANGED <<config, stage>> /\ seen = NotSeen
      /\ seen' = Seen(host, path, Routed(config, host, path))
  BY DEF Pass
<1>2. MapInv'
  BY <1>1 DEF EdgeInv, vars, MapInv, TypeOK, MapType, OnCourse, Steady
<1>3. answer.excused
  BY <1>1, EndpointIsSeen DEF EdgeInv, Told
<1>4. IsConfig(config)
  BY EdgeAssumption DEF EdgeInv, StageOK
<1>5. StageOK'
  BY <1>1, <1>4, RoutedIsKnown DEF EdgeInv, StageOK, Seen, vars
<1> QED
  BY <1>1, <1>2, <1>3, <1>5 DEF EdgeInv, Told, vars

\* A step of the map that answers nothing.
LEMMA OthersKeep ==
  ASSUME EdgeInv, MapInv', answer' = NoAnswer, seen' = NotSeen, UNCHANGED config,
         stage' \in [Lookups -> Stages],
         \A l \in Lookups : stage'[l] # "none" => pc'[l] = "idle"
  PROVE  EdgeInv'
BY NotSeenIsNobodys DEF EdgeInv, StageOK, Told, NoAnswer

\* Only a lookup that is under way moves, and it waits for nothing else.
LEMMA OnlyMoves ==
  ASSUME EdgeInv, NEW l \in Lookups, pc[l] # "idle",
         \A k \in Lookups \ {l} : pc'[k] = pc[k]
  PROVE  stage[l] = "none" /\ \A k \in Lookups : stage[k] # "none" => pc'[k] = "idle"
BY DEF EdgeInv, StageOK

LEMMA LookupMoves ==
  ASSUME MapInv, NEW l \in Lookups, LookupStep(l)
  PROVE  pc[l] # "idle" /\ \A k \in Lookups \ {l} : pc'[k] = pc[k]
<1>1. pc[l] # "idle" /\ \E place : pc' = [pc EXCEPT ![l] = place]
  BY DEF LookupStep, Load, FetchFails, BackOff, Install, Find, Stamp, Refind, Refresh, Goes, Answer
<1> QED
  BY <1>1 DEF MapInv, TypeOK

\* The world goes on, or Mantle answers a thread.
LEMMA WorldKeepsEdgeInv ==
  ASSUME EdgeInv, (\E u \in Uuids : EdgeListed(u)) \/ EdgeTick \/ (\E l \in Lookups : Reply(l))
  PROVE  EdgeInv'
<1>1. seen' = NotSeen /\ UNCHANGED <<config, stage>> /\ answer' = NoAnswer
  BY DEF EdgeListed, EdgeTick, Reply, Others, Listed, Tick, MantleReads
<1>2. MapInv'
  BY WorldKeepsMapInv, MantleReadsKeeps DEF EdgeInv, EdgeListed, EdgeTick, Reply
<1>3. \A l \in Lookups : pc[l] = "idle" => pc'[l] = "idle"
  BY DEF EdgeInv, MapInv, TypeOK, EdgeListed, EdgeTick, Reply, Listed, Tick, MantleReads
<1> QED
  BY <1>1, <1>2, <1>3, OthersKeep DEF EdgeInv, StageOK

LEMMA AskKeeps ==
  ASSUME EdgeInv, NEW l \in Lookups, NEW u \in Uuids, Ask(l, u)
  PROVE  EdgeInv'
<1>1. /\ stage[l] = "none" /\ Begin(l, u) /\ seen' = NotSeen /\ UNCHANGED <<config, stage>>
      /\ answer' = NoAnswer
  BY DEF Ask, Begin
<1>2. MapInv'
  BY <1>1, BeginKeepsMapInv DEF EdgeInv
<1>3. \A k \in Lookups \ {l} : pc'[k] = pc[k]
  BY <1>1 DEF EdgeInv, MapInv, TypeOK, Begin
<1> QED
  BY <1>1, <1>2, <1>3, OthersKeep DEF EdgeInv, StageOK

\* A thread takes a step; if its lookup has ended, what it found is answered, or it goes on
\* to ask for an artifact.
LEMMA LookKeeps ==
  ASSUME EdgeInv, NEW l \in Lookups, Look(l)
  PROVE  EdgeInv'
<1>1. MapInv /\ LookupStep(l) /\ UNCHANGED config
  BY DEF EdgeInv, Look, Others
<1>2. Stepped(l) /\ MapInv'
  BY <1>1, LookupKeeps DEF Stepped
<1>3. stage[l] = "none" /\ \A k \in Lookups : stage[k] # "none" => pc'[k] = "idle"
  BY <1>1, LookupMoves, OnlyMoves
<1>4. CASE pc'[l] # "idle" /\ Others
  BY <1>2, <1>3, <1>4, OthersKeep DEF Stepped, Others, EdgeInv, StageOK
<1>5. CASE pc'[l] = "idle" /\ Resolved(l, asked[l])
  <2> DEFINE u == asked[l]
  <2>1. ~answer'.excused => answer'.found /\ u \in Uuids
    BY <1>2, <1>5 DEF Stepped
  <2>2. stage' \in [Lookups -> Stages]
    BY <1>5 DEF EdgeInv, StageOK, Resolved, Stages
  <2>3. \A k \in Lookups : stage'[k] # "none" => pc'[k] = "idle"
    BY <1>3, <1>5 DEF EdgeInv, StageOK, Resolved
  <2>4. CASE answer'.found /\ seen' = Seen(Elsewhere, Endpoint(u), ToPersona(u))
    <3>1. ToPersona(u).name \in config.names \cup {Nobody}
      <4>1. IsConfig(config)
        BY EdgeAssumption DEF EdgeInv, StageOK
      <4> QED
        BY <4>1, NameIsKnown DEF ToPersona, Refused, Outcome
    <3>2. seen'.host = Elsewhere /\ seen'.out = ToPersona(u)
      BY <2>4 DEF Seen
    <3>3. StageOK'
      BY <1>1, <2>2, <2>3, <3>1, <3>2 DEF EdgeInv, StageOK
    <3>4. PICK v : v = u
      OBVIOUS
    <3>5. ToPersona(v)' = ToPersona(v)
      BY <1>1 DEF ToPersona, Served, Surfaces, Refused, Outcome
    <3>6. Told'
      BY <2>1, <2>4, <3>4, <3>5 DEF Told
    <3> QED
      BY <1>2, <3>3, <3>6 DEF EdgeInv
  <2>5. CASE ~answer'.found /\ seen' \in {NotSeen, Seen(Elsewhere, Endpoint(u), Refused("401"))}
    <3>1. seen'.host = Elsewhere /\ seen'.out.name = Nobody
      BY <2>5, NotSeenIsNobodys DEF Seen, Refused, Outcome
    <3>2. StageOK'
      BY <1>1, <2>2, <2>3, <3>1 DEF EdgeInv, StageOK
    <3> QED
      BY <1>2, <2>1, <2>5, <3>2 DEF EdgeInv, Told
  <2> QED
    BY <1>5, <2>4, <2>5 DEF Resolved
<1> QED
  BY <1>4, <1>5 DEF Look

\* The artifact and the relay.
LEMMA RelayKeeps ==
  ASSUME EdgeInv, NEW l \in Lookups, Artifact(l) \/ Relayed(l)
  PROVE  EdgeInv'
<1>1. /\ answer' = NoAnswer /\ UNCHANGED config /\ pc[l] = "idle"
      /\ UNCHANGED <<listed, uuids, loaded, retryIn, missAge, pc, asked, why, age, got, excused>>
  BY DEF Artifact, Relayed, mapVars, EdgeInv, StageOK
<1>2. MapInv'
  BY <1>1 DEF EdgeInv, MapInv, TypeOK, MapType, NoAnswer, OnCourse, Steady
<1>3. /\ stage' \in [Lookups -> Stages]
      /\ \A k \in Lookups : stage'[k] # "none" => pc[k] = "idle"
  BY <1>1 DEF Artifact, Relayed, EdgeInv, StageOK, Stages
<1>4. seen'.host = Elsewhere /\ seen'.out.name = Nobody
  BY NotSeenIsNobodys DEF Artifact, Relayed, Seen, Refused, Outcome
<1>5. StageOK'
  BY <1>1, <1>3, <1>4 DEF EdgeInv, StageOK
<1> QED
  BY <1>1, <1>2, <1>5 DEF EdgeInv, Told, NoAnswer

LEMMA SpecEdgeInv == EdgeSpec => []EdgeInv
<1>1. EdgeInv /\ [EdgeNext]_edgeVars => EdgeInv'
  <2>1. ASSUME EdgeInv, UNCHANGED edgeVars PROVE EdgeInv'
    <3>1. MapInv'
      BY <2>1 DEF edgeVars, vars, EdgeInv, MapInv, TypeOK, MapType, OnCourse, Steady
    <3>2. StageOK' /\ Told'
      BY <2>1 DEF edgeVars, vars, EdgeInv, StageOK, Told, ToPersona
    <3> QED
      BY <3>1, <3>2 DEF EdgeInv
  <2> QED
    BY <2>1, PassKeeps, WorldKeepsEdgeInv, AskKeeps, LookKeeps, RelayKeeps DEF EdgeNext, RequestStep
<1> QED
  BY <1>1, InitEdgeInv, PTL DEF EdgeSpec

----------------------------------------------------------------------------
\* Type correctness of a host's requests.
THEOREM EdgeTypesOK == EdgeSpec => []TypesOK
<1>1. EdgeInv => TypesOK
  BY DEF EdgeInv, MapInv, StageOK, TypesOK
<1> QED
  BY <1>1, SpecEdgeInv, PTL

\* A request for a persona that Mantle lists reaches it: one in the map unless an older list is
\* put over it, one that is not unless it is kept from asking Mantle; for any intervals, and
\* any number of threads that share the map without a lock (gateway_middleware.py 87-105).
THEOREM PersonaAlwaysReached == EdgeSpec => []PersonaReached
<1>1. ASSUME EdgeInv PROVE PersonaReached
  <2> SUFFICES ASSUME ~answer.excused
               PROVE  LET u == seen.path[1] IN
                      /\ answer.found
                      /\ seen.out = IF Slug(u) \in config.names
                                    THEN Outcome("persona", Slug(u), <<Slug(u), "mcp">>)
                                    ELSE Refused("502")
    BY DEF PersonaReached
  <2>1. PICK u \in Uuids : seen = Seen(Elsewhere, Endpoint(u), ToPersona(u))
    BY <1>1 DEF EdgeInv, Told
  <2>2. seen.path[1] = u /\ seen.out = ToPersona(u)
    BY <2>1 DEF Seen, Endpoint
  <2> QED
    BY <1>1, <2>2, ToPersonaIsIt DEF EdgeInv, StageOK, Told
<1> QED
  BY <1>1, SpecEdgeInv, PTL

\* A request that the tables decide goes home, in every roster whose names are apart.
THEOREM AlwaysRoutedHome == EdgeSpec => []RoutedHome
<1>1. EdgeInv => RoutedHome
  BY AllGoHome, EdgeAssumption DEF EdgeInv, StageOK, RoutedHome
<1> QED
  BY <1>1, SpecEdgeInv, PTL
=============================================================================
