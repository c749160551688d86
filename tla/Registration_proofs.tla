-------------------------- MODULE Registration_proofs --------------------------
(***************************************************************************)
(* That the two registries of the gateway agree with each other and with   *)
(* what the hosts were told, for any hosts, personas and types, any number *)
(* of restarts and redeployments, and types that personas share.           *)
(***************************************************************************)
EXTENDS Registration, TLAPS

\* A host's registration: what is posted is still to be tried, and what is still to be tried
\* has not landed.
LoopInv(h) ==
  /\ todo[h] \subseteq remaining[h] /\ remaining[h] \subseteq Mine(h)
  /\ loop[h] = "posted" => posted[h] \in todo[h] /\ ships[posted[h]] # {}
  /\ loop[h] # "posted" => posted[h] = NoPersona /\ served[h] = "no"
  /\ served[h] = "refused" => posted[h] \in refused[h]
  /\ since[h] <= restarts

\* The gateway of this registration took p's present build, whether or not its host has heard
\* of it: no POST of p was accepted that is not in the registries.
Accepted(p) ==
  LET h == HostOf[p] IN
  /\ since[h] = restarts /\ ships[p] # {} /\ p \notin refused[h]
  /\ p \notin remaining[h] \/ (posted[h] = p /\ served[h] = "ok")

OnlyShips(p, t) == \A q \in Personas \ {p} : t \notin Catalog[q]

Known(p) ==
  Accepted(p) => /\ p \in topology
                 /\ \A t \in Types : OnlyShips(p, t) => (cache[t] = p <=> t \in ships[p])

Served(t) == cache[t] # NoPersona => cache[t] \in topology /\ t \in Catalog[cache[t]]

Builds == \A p \in Personas : ships[p] \subseteq Catalog[p]

IInv ==
  /\ TypeOK /\ Builds
  /\ \A h \in Hosts : LoopInv(h)
  /\ \A p \in Personas : Known(p)
  /\ \A t \in Types : Served(t)

\* What a host's step leaves of the gateway, and of the other hosts.
OnlyHost(h) ==
  /\ UNCHANGED <<up, topology, cache, restarts, deploys, ships>>
  /\ \A k \in Hosts \ {h} : /\ loop'[k] = loop[k] /\ remaining'[k] = remaining[k]
                            /\ todo'[k] = todo[k] /\ posted'[k] = posted[k]
                            /\ served'[k] = served[k] /\ attempt'[k] = attempt[k]
                            /\ since'[k] = since[k] /\ refused'[k] = refused[k]

----------------------------------------------------------------------------
LEMMA InitIInv == Init => IInv
<1> SUFFICES ASSUME Init PROVE IInv
  OBVIOUS
<1>1. 0 \in 0..MaxRestarts /\ 0 \in 0..MaxDeploys /\ 1 \in 1..Attempts
  BY RegistrationAssumption
<1>2. \A h \in Hosts : Mine(h) \in SUBSET Personas
  BY DEF Mine
<1>3. TypeOK
  BY <1>1, <1>2 DEF Init, TypeOK
<1>4. Builds /\ \A h \in Hosts : LoopInv(h)
  BY DEF Init, Builds, LoopInv
<1>5. \A p \in Personas : Known(p)
  <2>1. \A p \in Personas : HostOf[p] \in Hosts /\ p \in Mine(HostOf[p])
    BY RegistrationAssumption DEF Mine
  <2> QED
    BY <2>1 DEF Init, Known, Accepted
<1>6. \A t \in Types : Served(t)
  BY DEF Init, Served
<1> QED
  BY <1>3, <1>4, <1>5, <1>6 DEF IInv

\* A host whose step accepts nothing and forgets no refusal.
LEMMA HostKeeps ==
  ASSUME IInv, NEW h \in Hosts, OnlyHost(h), TypeOK', LoopInv(h)',
         \A p \in Mine(h) : Accepted(p)' => Accepted(p)
  PROVE  IInv'
<1>1. \A k \in Hosts : LoopInv(k)'
  BY DEF IInv, OnlyHost, LoopInv, Mine
<1>2. \A p \in Personas : Accepted(p)' => Accepted(p)
  <2> SUFFICES ASSUME NEW p \in Personas, p \notin Mine(h), Accepted(p)' PROVE Accepted(p)
    OBVIOUS
  <2>1. HostOf[p] \in Hosts \ {h}
    BY RegistrationAssumption DEF Mine
  <2> QED
    BY <2>1 DEF Accepted, OnlyHost
<1>3. \A p \in Personas : Known(p)'
  BY <1>2 DEF IInv, Known, OnlyHost
<1>4. Builds' /\ \A t \in Types : Served(t)'
  BY DEF IInv, Builds, Served, OnlyHost
<1> QED
  BY <1>1, <1>3, <1>4 DEF IInv

\* An answer, or none: the persona is done with, or stays to be asked for again.
LEMMA SettleKeeps ==
  ASSUME IInv, NEW h \in Hosts, NEW p \in todo[h], NEW ok \in BOOLEAN, Settle(h, p, ok),
         ok => ships[p] = {} \/ p \in refused[h] \/ (posted[h] = p /\ served[h] = "ok")
  PROVE  IInv'
<1>1. /\ UNCHANGED <<up, topology, cache, restarts, deploys, ships, attempt, since, refused>>
      /\ remaining'[h] = IF ok THEN remaining[h] \ {p} ELSE remaining[h]
      /\ todo'[h] = todo[h] \ {p} /\ posted'[h] = NoPersona /\ served'[h] = "no"
      /\ loop'[h] \in {"round", "watching", "backoff"}
  BY DEF Settle, gatewayVars, IInv, TypeOK
<1>2. OnlyHost(h)
  BY <1>1 DEF OnlyHost, Settle, IInv, TypeOK
<1>3. TypeOK'
  BY <1>1 DEF Settle, IInv, TypeOK
<1>4. LoopInv(h)'
  BY <1>1 DEF IInv, LoopInv, Mine
<1>5. ASSUME NEW q \in Mine(h), Accepted(q)' PROVE Accepted(q)
  <2>1. HostOf[q] = h /\ q \in Personas
    BY DEF Mine
  <2>2. q \notin remaining'[h]
    BY <1>1, <1>5, <2>1, RegistrationAssumption DEF Accepted
  <2> QED
    BY <1>1, <1>5, <2>1, <2>2 DEF Accepted
<1> QED
  BY <1>2, <1>3, <1>4, <1>5, HostKeeps

\* Everything is to be registered again: nothing of this host counts as accepted.
LEMMA BeginLeaves ==
  ASSUME IInv, NEW h \in Hosts, BeginRegistration(h)
  PROVE  /\ \A k \in Hosts \ {h} : /\ loop'[k] = loop[k] /\ remaining'[k] = remaining[k]
                                   /\ todo'[k] = todo[k] /\ posted'[k] = posted[k]
                                   /\ served'[k] = served[k] /\ attempt'[k] = attempt[k]
                                   /\ since'[k] = since[k] /\ refused'[k] = refused[k]
         /\ loop'[h] = "round" /\ remaining'[h] = Mine(h) /\ todo'[h] = Mine(h)
         /\ posted'[h] = NoPersona /\ served'[h] = "no" /\ since'[h] = restarts
         /\ loop' \in [Hosts -> {"round", "posted", "backoff", "watching"}]
         /\ remaining' \in [Hosts -> SUBSET Personas] /\ todo' \in [Hosts -> SUBSET Personas]
         /\ posted' \in [Hosts -> Personas \cup {NoPersona}]
         /\ served' \in [Hosts -> {"no", "ok", "refused"}]
         /\ attempt' \in [Hosts -> 1..Attempts] /\ since' \in [Hosts -> 0..MaxRestarts]
         /\ refused' \in [Hosts -> SUBSET Personas]
<1>1. Mine(h) \in SUBSET Personas /\ 1 \in 1..Attempts
  BY RegistrationAssumption DEF Mine
<1> QED
  BY <1>1 DEF BeginRegistration, IInv, TypeOK

LEMMA ReregisterKeeps ==
  ASSUME IInv, NEW h \in Hosts, Reregister(h)
  PROVE  IInv'
<1>1. BeginRegistration(h) /\ UNCHANGED <<up, topology, cache, restarts, deploys, ships>>
  BY DEF Reregister, gatewayVars
<1>2. OnlyHost(h) /\ TypeOK'
  BY <1>1, BeginLeaves DEF OnlyHost, IInv, TypeOK
<1>3. LoopInv(h)'
  BY <1>1, BeginLeaves DEF LoopInv, Mine, IInv, TypeOK
<1>4. \A p \in Mine(h) : ~Accepted(p)'
  BY <1>1, BeginLeaves, RegistrationAssumption DEF Accepted, Mine
<1> QED
  BY <1>2, <1>3, <1>4, HostKeeps

\* A host comes back with another build.
LEMMA RedeployKeeps ==
  ASSUME IInv, NEW h \in Hosts, NEW newShips \in [Personas -> SUBSET Types],
         Redeploy(h, newShips)
  PROVE  IInv'
<1>1. /\ BeginRegistration(h) /\ UNCHANGED <<up, topology, cache, restarts>> /\ ships' = newShips
      /\ deploys' \in 0..MaxDeploys
      /\ \A p \in Personas : IF HostOf[p] = h THEN newShips[p] \subseteq Catalog[p]
                                              ELSE newShips[p] = ships[p]
  BY RegistrationAssumption DEF Redeploy, gatewayVars, IInv, TypeOK
<1>2. TypeOK' /\ Builds'
  BY <1>1, BeginLeaves DEF IInv, TypeOK, Builds
<1>3. \A k \in Hosts : LoopInv(k)'
  <2>1. LoopInv(h)'
    BY <1>1, BeginLeaves DEF LoopInv, Mine, IInv, TypeOK
  <2>2. ASSUME NEW k \in Hosts \ {h} PROVE LoopInv(k)'
    <3>1. LoopInv(k) /\ \A p \in Mine(k) : ships'[p] = ships[p]
      BY <1>1 DEF IInv, Mine
    <3> QED
      BY <1>1, <3>1, BeginLeaves DEF LoopInv, Mine
  <2> QED
    BY <2>1, <2>2
<1>4. ASSUME NEW p \in Personas PROVE Known(p)'
  <2>1. CASE HostOf[p] = h
    BY <1>1, <2>1, BeginLeaves, RegistrationAssumption DEF Known, Accepted, Mine
  <2>2. CASE HostOf[p] # h
    <3>1. HostOf[p] \in Hosts \ {h} /\ ships'[p] = ships[p]
      BY <1>1, <2>2, RegistrationAssumption
    <3>2. Accepted(p)' => Accepted(p)
      BY <1>1, <3>1, BeginLeaves DEF Accepted
    <3> QED
      BY <1>1, <3>1, <3>2 DEF IInv, Known, OnlyShips
  <2> QED
    BY <2>1, <2>2
<1>5. \A t \in Types : Served(t)'
  BY <1>1 DEF IInv, Served
<1> QED
  BY <1>2, <1>3, <1>4, <1>5 DEF IInv

\* A round is over, or a persona is tried.
LEMMA RoundKeeps ==
  ASSUME IInv, NEW h \in Hosts, BackoffEnds(h) \/ \E p \in Personas : Post(h, p)
  PROVE  IInv'
<1>1. CASE BackoffEnds(h)
  <2>1. /\ UNCHANGED <<up, topology, cache, restarts, deploys, ships, remaining, posted, served,
                       since, refused>>
        /\ todo' \in {todo, [todo EXCEPT ![h] = remaining[h]]}
        /\ attempt' \in {attempt, [attempt EXCEPT ![h] = @ + 1]}
        /\ attempt' # attempt => attempt[h] < Attempts
        /\ loop' \in {[loop EXCEPT ![h] = "round"], [loop EXCEPT ![h] = "watching"]}
        /\ loop[h] = "backoff"
    BY <1>1 DEF BackoffEnds, gatewayVars, MoreRounds
  <2>2. attempt' \in [Hosts -> 1..Attempts] /\ \A k \in Hosts \ {h} : attempt'[k] = attempt[k]
    BY <2>1, RegistrationAssumption DEF IInv, TypeOK
  <2>3. OnlyHost(h) /\ TypeOK'
    BY <2>1, <2>2 DEF OnlyHost, IInv, TypeOK
  <2>4. LoopInv(h)'
    BY <2>1 DEF IInv, TypeOK, LoopInv, Mine
  <2>5. \A p \in Mine(h) : Accepted(p)' => Accepted(p)
    BY <2>1 DEF Accepted
  <2> QED
    BY <2>3, <2>4, <2>5, HostKeeps
<1>2. ASSUME NEW p \in Personas, Post(h, p) PROVE IInv'
  <2>1. /\ UNCHANGED <<up, topology, cache, restarts, deploys, ships, remaining, todo, served,
                       attempt, since, refused>>
        /\ loop' = [loop EXCEPT ![h] = "posted"] /\ posted' = [posted EXCEPT ![h] = p]
        /\ loop[h] = "round" /\ p \in todo[h] /\ ships[p] # {}
    BY <1>2 DEF Post, gatewayVars
  <2>2. OnlyHost(h) /\ TypeOK'
    BY <2>1 DEF OnlyHost, IInv, TypeOK
  <2>3. LoopInv(h)' /\ served[h] = "no"
    BY <2>1 DEF IInv, TypeOK, LoopInv, Mine
  <2>4. \A q \in Mine(h) : Accepted(q)' => Accepted(q)
    BY <2>1, <2>3 DEF Accepted, Mine
  <2> QED
    BY <2>2, <2>3, <2>4, HostKeeps
<1> QED
  BY <1>1, <1>2

\* What became of a persona is told to its host, or is not.
LEMMA SettlesKeep ==
  ASSUME IInv, NEW h \in Hosts,
         (\E p \in Personas : Typeless(h, p)) \/ Answered(h) \/ Inconclusive(h)
  PROVE  IInv'
<1>1. ASSUME NEW p \in Personas, Typeless(h, p) PROVE IInv'
  BY <1>1, SettleKeeps DEF Typeless
<1>2. CASE Answered(h)
  <2>1. /\ posted[h] \in todo[h] /\ Settle(h, posted[h], TRUE)
        /\ served[h] \in {"ok", "refused"}
    BY <1>2 DEF Answered, IInv, TypeOK, LoopInv
  <2>2. served[h] = "refused" => posted[h] \in refused[h]
    BY DEF IInv, LoopInv
  <2> QED
    BY <2>1, <2>2, SettleKeeps
<1>3. CASE Inconclusive(h)
  BY <1>3, SettleKeeps DEF Inconclusive, IInv, LoopInv
<1> QED
  BY <1>1, <1>2, <1>3

LEMMA RefuseKeeps ==
  ASSUME IInv, NEW h \in Hosts, Refuse(h)
  PROVE  IInv'
<1>1. /\ UNCHANGED <<up, topology, cache, restarts, deploys, ships, loop, remaining, todo, posted,
                     attempt, since>>
      /\ served' = [served EXCEPT ![h] = "refused"]
      /\ refused' = [refused EXCEPT ![h] = @ \cup {posted[h]}]
      /\ loop[h] = "posted" /\ served[h] = "no"
  BY DEF Refuse, gatewayVars
<1>2. posted[h] \in Personas
  BY <1>1 DEF IInv, LoopInv, Mine
<1>3. OnlyHost(h) /\ TypeOK'
  BY <1>1, <1>2 DEF OnlyHost, IInv, TypeOK
<1>4. LoopInv(h)'
  BY <1>1 DEF IInv, TypeOK, LoopInv, Mine
<1>5. \A p \in Mine(h) : Accepted(p)' => Accepted(p)
  BY <1>1 DEF Accepted, Mine, IInv, TypeOK
<1> QED
  BY <1>3, <1>4, <1>5, HostKeeps

\* A registration is accepted: it takes what it ships and gives up the rest, and takes from
\* no other persona a type that only the other ships.
LEMMA ServeKeeps ==
  ASSUME IInv, NEW h \in Hosts, Serve(h)
  PROVE  IInv'
<1> DEFINE p == posted[h]
<1>1. /\ UNCHANGED <<up, restarts, deploys, ships, loop, remaining, todo, posted, attempt, since,
                     refused>>
      /\ served' = [served EXCEPT ![h] = "ok"] /\ loop[h] = "posted"
      /\ topology' = topology \cup {p}
      /\ cache' = [t \in Types |-> IF t \in ships[p] THEN p
                                   ELSE IF cache[t] = p THEN NoPersona ELSE cache[t]]
  BY DEF Serve, RegisterServer, RegisterTypes, RemoveServer
<1>2. p \in Personas /\ p \in Mine(h) /\ ships[p] \subseteq Catalog[p] /\ p # NoPersona
  BY <1>1, RegistrationAssumption DEF IInv, LoopInv, Mine, Builds
<1>3. TypeOK'
  BY <1>1, <1>2 DEF IInv, TypeOK
<1>4. \A k \in Hosts : LoopInv(k)'
  BY <1>1 DEF IInv, TypeOK, LoopInv, Mine
<1>5. \A t \in Types : Served(t)'
  BY <1>1, <1>2 DEF IInv, Served, TypeOK
<1>6. ASSUME NEW q \in Personas PROVE Known(q)'
  <2>1. CASE q = p
    BY <1>1, <1>2, <2>1 DEF Known
  <2>2. CASE q # p
    <3>1. Accepted(q)' => Accepted(q)
      BY <1>1, <1>2, <2>2, RegistrationAssumption DEF Accepted, Mine, IInv, TypeOK
    <3>2. ASSUME NEW t \in Types, OnlyShips(q, t) PROVE cache'[t] = q <=> cache[t] = q
      <4>1. t \notin ships[p]
        BY <1>2, <2>2, <3>2 DEF OnlyShips
      <4> QED
        BY <1>1, <1>2, <2>2, <4>1, RegistrationAssumption
    <3> QED
      BY <1>1, <3>1, <3>2 DEF IInv, Known, OnlyShips
  <2> QED
    BY <2>1, <2>2
<1>7. Builds'
  BY <1>1 DEF IInv, Builds
<1> QED
  BY <1>3, <1>4, <1>5, <1>6, <1>7 DEF IInv

\* The gateway restarts: no registration is of this gateway any more.
LEMMA RestartKeeps ==
  ASSUME IInv, Crash \/ Start
  PROVE  IInv'
<1>1. CASE Crash
  <2>1. /\ UNCHANGED <<deploys, ships, hostVars>> /\ restarts' = restarts + 1
        /\ topology' = {} /\ cache' = [t \in Types |-> NoPersona] /\ up' = FALSE
        /\ restarts < MaxRestarts
    BY <1>1 DEF Crash
  <2>2. TypeOK'
    <3>1. restarts' \in 0..MaxRestarts
      BY <2>1, RegistrationAssumption DEF IInv, TypeOK
    <3>2. cache' \in [Types -> Personas \cup {NoPersona}]
      BY <2>1
    <3>3. topology' \subseteq Personas /\ up' \in BOOLEAN
      BY <2>1
    <3> QED
      BY <2>1, <3>1, <3>2, <3>3 DEF IInv, TypeOK, hostVars
  <2>3. \A h \in Hosts : LoopInv(h)' /\ since'[h] # restarts'
    BY <2>1, RegistrationAssumption DEF IInv, TypeOK, LoopInv, Mine, hostVars
  <2>4. \A p \in Personas : Known(p)'
    BY <2>3, RegistrationAssumption DEF Known, Accepted
  <2>5. Builds' /\ \A t \in Types : Served(t)'
    BY <2>1 DEF IInv, Builds, Served
  <2> QED
    BY <2>2, <2>3, <2>4, <2>5 DEF IInv
<1>2. CASE Start
  BY <1>2 DEF Start, hostVars, IInv, TypeOK, LoopInv, Mine, Known, Accepted, OnlyShips, Builds, Served
<1> QED
  BY <1>1, <1>2

LEMMA SpecIInv == Spec => []IInv
<1>1. IInv /\ [Next]_vars => IInv'
  <2>1. ASSUME IInv, UNCHANGED vars PROVE IInv'
    BY <2>1 DEF vars, IInv, TypeOK, LoopInv, Mine, Known, Accepted, OnlyShips, Builds, Served
  <2>2. ASSUME IInv, NEW h \in Hosts, HostStep(h) PROVE IInv'
    BY <2>2, SettlesKeep, RoundKeeps, ReregisterKeeps DEF HostStep
  <2> QED
    BY <2>1, <2>2, RestartKeeps, ServeKeeps, RefuseKeeps, RedeployKeeps DEF Next
<1> QED
  BY <1>1, InitIInv, PTL DEF Spec

----------------------------------------------------------------------------
\* Type correctness of the hosts' loops and of the registries.
THEOREM RegistrationTypeOK == Spec => []TypeOK
<1>1. IInv => TypeOK
  BY DEF IInv
<1> QED
  BY <1>1, SpecIInv, PTL

\* Topology and type registry agree, and with the builds that have landed, for any number of
\* hosts that register, restart and are redeployed while the gateway does.
THEOREM RegistryAlwaysConsistent == Spec => []RegistryConsistent
<1>1. ASSUME IInv PROVE RegistryConsistent
  <2>1. ASSUME NEW p \in Personas, LandedNow(p) PROVE Accepted(p)
    BY <2>1 DEF LandedNow, Accepted
  <2> QED
    BY <1>1, <2>1 DEF IInv, Known, OnlyShips, Served, RegistryConsistent
<1> QED
  BY <1>1, SpecIInv, PTL

\* A registration during which the gateway did not restart leaves no persona behind.
THEOREM QuietRegistrationAlwaysLands == Spec => []QuietRegistrationLands
<1>1. ASSUME IInv PROVE QuietRegistrationLands
  <2> SUFFICES ASSUME NEW h \in Hosts, since[h] = restarts, NEW p \in Mine(h), ships[p] # {},
                      p \notin refused[h] \cup remaining[h]
               PROVE  p \in topology
    BY DEF QuietRegistrationLands
  <2>1. p \in Personas /\ HostOf[p] = h
    BY DEF Mine
  <2>2. Accepted(p)
    BY <2>1 DEF Accepted
  <2> QED
    BY <1>1, <2>1, <2>2 DEF IInv, Known
<1> QED
  BY <1>1, SpecIInv, PTL
=============================================================================
