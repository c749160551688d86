---------------------------- MODULE Registration ----------------------------
(***************************************************************************)
(* Hosts register their personas with the gateway and watch that it still  *)
(* knows them (host.py, persona_registration.py, type_registration.py); the *)
(* gateway keeps who registered, and which persona owns each content type, *)
(* in memory only (main.py /register, topology.py, type_registry.py).      *)
(*                                                                         *)
(* A host's loop has one POST outstanding at a time.  The handler of       *)
(* /register has no await, so it is one step.  The gateway may restart     *)
(* between any two steps; a host may be redeployed with other types.       *)
(***************************************************************************)
EXTENDS Naturals, FiniteSets

CONSTANTS
  Hosts, Personas, Types,
  HostOf,        \* HostOf[p]: the host process that serves persona p
  Catalog,       \* Catalog[p]: the types p ships in one build or another
  NoPersona,
  Attempts,      \* rounds of _self_register_all (15 in the code)
  MaxRestarts,   \* bound: gateway restarts
  MaxDeploys     \* bound: host redeployments

ASSUME RegistrationAssumption ==
  /\ HostOf \in [Personas -> Hosts]
  /\ Catalog \in [Personas -> SUBSET Types]
  /\ NoPersona \notin Personas
  /\ Attempts \in Nat \ {0}
  /\ MaxRestarts \in Nat /\ MaxDeploys \in Nat

VARIABLES
  up,         \* the gateway process is running
  topology,   \* the keys of Topology._by_slug
  cache,      \* cache[t]: the server of TypeRegistry._cache[t]
  restarts,   \* how often the gateway process has ended
  deploys,    \* how often a host was
  ships,      \* ships[p]: collect_server_types of p's deployed build
  loop,       \* loop[h]: "round", "posted", "backoff" or "watching"
  remaining,  \* remaining[h]: personas _self_register_all still has to land
  todo,       \* todo[h]: those of them this round has not tried yet
  posted,     \* posted[h]: the persona whose POST /register is outstanding
  served,     \* served[h]: what became of that POST at the gateway
  attempt,    \* attempt[h]: the round
  since,      \* since[h]: history, restarts when this registration began
  refused     \* refused[h]: history, personas it was told 4xx for

gatewayVars == <<up, topology, cache, restarts>>
hostVars == <<loop, remaining, todo, posted, served, attempt, since, refused>>
vars == <<up, topology, cache, restarts, deploys, ships, loop, remaining, todo,
          posted, served, attempt, since, refused>>

Mine(h) == {p \in Personas : HostOf[p] = h}

TypeOK ==
  /\ up \in BOOLEAN
  /\ topology \subseteq Personas
  /\ cache \in [Types -> Personas \cup {NoPersona}]
  /\ restarts \in 0..MaxRestarts
  /\ deploys \in 0..MaxDeploys
  /\ ships \in [Personas -> SUBSET Types]
  /\ loop \in [Hosts -> {"round", "posted", "backoff", "watching"}]
  /\ remaining \in [Hosts -> SUBSET Personas]
  /\ todo \in [Hosts -> SUBSET Personas]
  /\ posted \in [Hosts -> Personas \cup {NoPersona}]
  /\ served \in [Hosts -> {"no", "ok", "refused"}]
  /\ attempt \in [Hosts -> 1..Attempts]
  /\ since \in [Hosts -> 0..MaxRestarts]
  /\ refused \in [Hosts -> SUBSET Personas]

Init ==
  /\ up \in BOOLEAN
  /\ topology = {}
  /\ cache = [t \in Types |-> NoPersona]
  /\ restarts = 0
  /\ deploys = 0
  /\ ships \in [Personas -> SUBSET Types]
  /\ \A p \in Personas : ships[p] \subseteq Catalog[p]
  /\ loop = [h \in Hosts |-> "round"]
  /\ remaining = [h \in Hosts |-> Mine(h)]
  /\ todo = [h \in Hosts |-> Mine(h)]
  /\ posted = [h \in Hosts |-> NoPersona]
  /\ served = [h \in Hosts |-> "no"]
  /\ attempt = [h \in Hosts |-> 1]
  /\ since = [h \in Hosts |-> 0]
  /\ refused = [h \in Hosts |-> {}]

----------------------------------------------------------------------------
\* The gateway

\* TypeRegistry.remove_server.
RemoveServer_Keep(c, p) == c      \* mutant: re-registering only adds

RemoveServer(c, p) == [t \in Types |-> IF c[t] = p THEN NoPersona ELSE c[t]]

\* TypeRegistry.register for each definition: the last one to register a
\* content type serves it.
RegisterTypes(c, p, defs) == [t \in Types |-> IF t \in defs THEN p ELSE c[t]]

\* POST /register from p: drop its types, record it, take its types.
RegisterServer(p, defs) ==
  /\ topology' = topology \cup {p}
  /\ cache' = RegisterTypes(RemoveServer(cache, p), p, defs)

\* The process ends and its two registries with it.
Crash ==
  /\ up
  /\ restarts < MaxRestarts
  /\ up' = FALSE
  /\ restarts' = restarts + 1
  /\ topology' = {}
  /\ cache' = [t \in Types |-> NoPersona]
  /\ UNCHANGED <<deploys, ships, hostVars>>

Start ==
  /\ ~up
  /\ up' = TRUE
  /\ UNCHANGED <<topology, cache, restarts, deploys, ships, hostVars>>

\* The outstanding POST of h reaches the gateway and is accepted.
Serve(h) ==
  /\ up
  /\ loop[h] = "posted" /\ served[h] = "no"
  /\ RegisterServer(posted[h], ships[posted[h]])
  /\ served' = [served EXCEPT ![h] = "ok"]
  /\ UNCHANGED <<up, restarts, deploys, ships, loop, remaining, todo, posted,
                 attempt, since, refused>>

\* _require_platform_service answers 4xx.
Refuse(h) ==
  /\ up
  /\ loop[h] = "posted" /\ served[h] = "no"
  /\ served' = [served EXCEPT ![h] = "refused"]
  /\ refused' = [refused EXCEPT ![h] = @ \cup {posted[h]}]
  /\ UNCHANGED <<gatewayVars, deploys, ships, loop, remaining, todo, posted,
                 attempt, since>>

----------------------------------------------------------------------------
\* A host

\* _self_register_all(personas): everything remains, the first round starts.
BeginRegistration(h) ==
  /\ loop' = [loop EXCEPT ![h] = "round"]
  /\ remaining' = [remaining EXCEPT ![h] = Mine(h)]
  /\ todo' = [todo EXCEPT ![h] = Mine(h)]
  /\ posted' = [posted EXCEPT ![h] = NoPersona]
  /\ served' = [served EXCEPT ![h] = "no"]
  /\ attempt' = [attempt EXCEPT ![h] = 1]
  /\ since' = [since EXCEPT ![h] = restarts]
  /\ refused' = [refused EXCEPT ![h] = {}]

\* register_persona returned for p: True (settled) or False (ask again).  The
\* last of the round ends it: nothing remains, or the host sleeps.
Settle(h, p, ok) ==
  /\ remaining' = [remaining EXCEPT ![h] = IF ok THEN @ \ {p} ELSE @]
  /\ todo' = [todo EXCEPT ![h] = @ \ {p}]
  /\ loop' = [loop EXCEPT ![h] = IF todo'[h] # {} THEN "round"
                                 ELSE IF remaining'[h] = {} THEN "watching"
                                 ELSE "backoff"]
  /\ posted' = [posted EXCEPT ![h] = NoPersona]
  /\ served' = [served EXCEPT ![h] = "no"]
  /\ UNCHANGED <<gatewayVars, deploys, ships, attempt, since, refused>>

\* push_server_types returns 0 for a persona that ships no types: it is done,
\* and the gateway was not asked.
Typeless(h, p) ==
  /\ loop[h] = "round"
  /\ p \in todo[h]
  /\ ships[p] = {}
  /\ Settle(h, p, TRUE)

Post(h, p) ==
  /\ loop[h] = "round"
  /\ p \in todo[h]
  /\ ships[p] # {}
  /\ loop' = [loop EXCEPT ![h] = "posted"]
  /\ posted' = [posted EXCEPT ![h] = p]
  /\ UNCHANGED <<gatewayVars, deploys, ships, remaining, todo, served, attempt, since,
                 refused>>

\* The answer arrives: 200, or a 4xx that is not worth asking again.
Answered(h) ==
  /\ loop[h] = "posted" /\ served[h] # "no"
  /\ Settle(h, posted[h], TRUE)

\* Mutant: an exception counts as an answer.
Inconclusive_Done(h) ==
  /\ loop[h] = "posted"
  /\ Settle(h, posted[h], TRUE)

\* Refused connection, 5xx or timeout: before the gateway saw the POST, or
\* after it acted on it and the answer was lost.
Inconclusive(h) ==
  /\ loop[h] = "posted"
  /\ Settle(h, posted[h], FALSE)

\* for _attempt in range(15).
MoreRounds_OneTooMany(h) == attempt[h] <= Attempts     \* mutant

MoreRounds(h) == attempt[h] < Attempts

\* asyncio.sleep(delay), then the next round, or the warning after the last.
BackoffEnds(h) ==
  /\ loop[h] = "backoff"
  /\ IF MoreRounds(h)
     THEN /\ attempt' = [attempt EXCEPT ![h] = @ + 1]
          /\ todo' = [todo EXCEPT ![h] = remaining[h]]
          /\ loop' = [loop EXCEPT ![h] = "round"]
     ELSE /\ loop' = [loop EXCEPT ![h] = "watching"]
          /\ UNCHANGED <<attempt, todo>>
  /\ UNCHANGED <<gatewayVars, deploys, ships, remaining, posted, served, since,
                 refused>>

\* What _gateway_persona_count makes of /health: unreadable is not zero.
Forgotten_Unfinished(h) == up /\ topology = {} /\ remaining[h] # {}  \* mutant

Forgotten(h) == up /\ topology = {}

\* A tick of _keep_registered that finds the gateway empty.  Every other tick
\* leaves everything as it is.
Reregister(h) ==
  /\ loop[h] = "watching"
  /\ Forgotten(h)
  /\ BeginRegistration(h)
  /\ UNCHANGED <<gatewayVars, deploys, ships>>

\* The host process is replaced by another build: a new loop, other types.
Redeploy(h, newShips) ==
  /\ deploys < MaxDeploys
  /\ deploys' = deploys + 1
  /\ \A p \in Personas : IF HostOf[p] = h THEN newShips[p] \subseteq Catalog[p]
                                          ELSE newShips[p] = ships[p]
  /\ ships' = newShips
  /\ BeginRegistration(h)
  /\ UNCHANGED gatewayVars

HostStep(h) ==
  \/ \E p \in Personas : Typeless(h, p) \/ Post(h, p)
  \/ Answered(h)
  \/ Inconclusive(h)
  \/ BackoffEnds(h)
  \/ Reregister(h)

Next ==
  \/ Crash \/ Start
  \/ \E h \in Hosts :
       \/ Serve(h) \/ Refuse(h)
       \/ HostStep(h)
       \/ \E newShips \in [Personas -> SUBSET Types] : Redeploy(h, newShips)

\* The host's loop and the restarted gateway run; a POST that is tried again
\* and again is not refused, lost or refused by the network every time.
Fairness ==
  /\ WF_vars(Start)
  /\ \A h \in Hosts : WF_vars(HostStep(h)) /\ SF_vars(Serve(h))

Spec == Init /\ [][Next]_vars
FairSpec == Spec /\ Fairness

----------------------------------------------------------------------------
\* Properties

\* p's present build was accepted, and the gateway has not restarted since.
LandedNow(p) ==
  LET h == HostOf[p] IN
  /\ up /\ since[h] = restarts
  /\ ships[p] # {} /\ p \notin remaining[h] \cup refused[h]

\* Topology and type registry agree after any mix of registrations, restarts
\* and redeployments: a type is only ever served by a persona the gateway can
\* reach, and once a persona's present build has landed, it serves exactly the
\* types that build ships, of those no other persona ships (register_server).
RegistryConsistent ==
  /\ \A t \in Types : cache[t] # NoPersona =>
       cache[t] \in topology /\ t \in Catalog[cache[t]]
  /\ \A p \in Personas, t \in Types :
       LandedNow(p) /\ (\A q \in Personas \ {p} : t \notin Catalog[q])
         => (cache[t] = p <=> t \in ships[p])

\* A registration that ends without the gateway restarting meanwhile is
\* complete: the host watches only once every persona that ships types is
\* known, was refused, or was given up on with the warning.
QuietRegistrationLands ==
  \A h \in Hosts : loop[h] = "watching" /\ since[h] = restarts /\ up =>
    \A p \in Mine(h) :
      ships[p] # {} => p \in topology \cup refused[h] \cup remaining[h]

\* A gateway that is up and empty does not stay empty while some persona ships
\* types: the watch refills it after any restart, and after any number of
\* rounds that were given up (_keep_registered).
GatewayRefills ==
  (up /\ topology = {} /\ \E p \in Personas : ships[p] # {})
    ~> (topology # {} \/ ~up \/ \A p \in Personas : ships[p] = {})

\* host.py 190-191: "Loss here is all-or-nothing (an in-memory registry does
\* not lose one persona), so `personas_known == 0` is the whole signal".
LossIsAllOrNothing ==
  \A h \in Hosts : loop[h] = "watching" /\ remaining[h] = {} /\ refused[h] = {} /\ up =>
    \/ topology = {}
    \/ \A p \in Mine(h) : ships[p] # {} => p \in topology
=============================================================================
