--------------------------------- MODULE Edge ---------------------------------
(***************************************************************************)
(* A request to a host, through all of its layers: the rewrite by Host     *)
(* header and the upstreams (module Routing), the universal MCP gateway    *)
(* (gateway_middleware.py, __call__) over the shared map of UUIDs (module  *)
(* PersonaMap), and what stands behind it: the mount of a persona, or an   *)
(* artifact that names a relay.                                            *)
(*                                                                         *)
(* A request that the gateway passes on touches nothing that is shared, so *)
(* it is one step; one for a UUID is a lookup of PersonaMap and what       *)
(* follows it.                                                             *)
(***************************************************************************)
EXTENDS PersonaMap, Routing

CONSTANTS
  Slug(_),    \* the slug Mantle lists for a UUID
  Configs,    \* configurations a host may have been built with
  Hosts, Paths

ASSUME EdgeAssumption ==
  /\ \A c \in Configs : IsConfig(c)
  /\ \A path \in Paths : IsSequence(path) /\ path # <<>>

VARIABLES
  config,     \* of this host, fixed at boot
  stage,      \* stage[l]: what the request of l waits for once its lookup has ended
  seen        \* the request that was answered in the latest step

edgeVars == <<vars, config, stage, seen>>

Stages == {"none", "artifact", "relay"}

Seen(host, path, out) == [host |-> host, path |-> path, out |-> out]
NotSeen == Seen(Elsewhere, <<>>, Outcome("none", Nobody, <<>>))
Refused(status) == Outcome(status, Nobody, <<>>)
Endpoint(u) == <<u, "mcp">>

\* get_artifact's answers and what is not there to be asked; and the ends of a relay.
Refusals == {"404", "501", "502"}
RelayEnds == {"relayed", "502", "504"}

TypesOK ==
  /\ TypeOK
  /\ config \in Configs
  /\ stage \in [Lookups -> Stages]
  /\ \A l \in Lookups : stage[l] # "none" => pc[l] = "idle"
  /\ seen.host \in Hosts \cup {Elsewhere}
  /\ seen.out.name \in config.names \cup config.upstreams \cup {Nobody}

EdgeInit ==
  /\ Init
  /\ config \in Configs
  /\ stage = [l \in Lookups |-> "none"]
  /\ seen = NotSeen

----------------------------------------------------------------------------
\* A first segment that is a UUID, and a second one.
ForGateway(path) == Len(path) > 1 /\ path[1] \in Uuids

\* A request that is not for the gateway; bound: while no other is under way.
Pass(host, path) ==
  /\ \A l \in Lookups : pc[l] = "idle" /\ stage[l] = "none"
  /\ seen = NotSeen
  /\ UpstreamForHost(config, host) \/ ~ForGateway(Rewrite(config, host, path))
  /\ seen' = Seen(host, path, Routed(config, host, path))
  /\ UNCHANGED <<vars, config, stage>>

\* One for a UUID, on a host that leaves its path alone.
Ask(l, u) ==
  /\ stage[l] = "none"
  /\ Begin(l, u)
  /\ seen' = NotSeen
  /\ UNCHANGED <<config, stage>>

\* The path is rewritten to the slug's, if this build has that persona.
ToPersona(u) ==
  IF Slug(u) \in config.names THEN Served(config, <<Slug(u), "mcp">>) ELSE Refused("502")

\* The lookup of l, for u, has ended: with a slug; or without one, which an unauthenticated
\* caller hears at once and any other after the artifact has been asked for.
Resolved(l, u) ==
  \/ /\ answer'.found
     /\ seen' = Seen(Elsewhere, Endpoint(u), ToPersona(u))
     /\ UNCHANGED stage
  \/ /\ ~answer'.found
     /\ seen' = Seen(Elsewhere, Endpoint(u), Refused("401"))
     /\ UNCHANGED stage
  \/ /\ ~answer'.found
     /\ seen' = NotSeen
     /\ stage' = [stage EXCEPT ![l] = "artifact"]

\* Nothing is answered.
Others == seen' = NotSeen /\ UNCHANGED <<config, stage>>

Reply(l) == MantleReads(l) /\ Others

Look(l) ==
  /\ LookupStep(l)
  /\ \/ pc'[l] # "idle" /\ Others
     \/ pc'[l] = "idle" /\ Resolved(l, asked[l]) /\ UNCHANGED config

\* The artifact is not there, of another kind, or refused by rule; or names a relay, which
\* this gateway may not have.
Artifact(l) ==
  /\ stage[l] = "artifact"
  /\ \/ \E status \in Refusals :
           /\ seen' = Seen(Elsewhere, <<>>, Refused(status))
           /\ stage' = [stage EXCEPT ![l] = "none"]
     \/ /\ seen' = NotSeen
        /\ stage' = [stage EXCEPT ![l] = "relay"]
  /\ answer' = NoAnswer
  /\ UNCHANGED <<listed, mapVars, pc, asked, why, age, got, excused, config>>

\* forward_mcp_request returns or raises; that it does is module Relay.
Relayed(l) ==
  /\ stage[l] = "relay"
  /\ \E end \in RelayEnds : seen' = Seen(Elsewhere, <<>>, Refused(end))
  /\ stage' = [stage EXCEPT ![l] = "none"]
  /\ answer' = NoAnswer
  /\ UNCHANGED <<listed, mapVars, pc, asked, why, age, got, excused, config>>

----------------------------------------------------------------------------
EdgeListed(u) == Listed(u) /\ Others
EdgeTick == Tick /\ Others

RequestStep(l) == Look(l) \/ Artifact(l) \/ Relayed(l)

EdgeNext ==
  \/ \E host \in Hosts, path \in Paths : Pass(host, path)
  \/ \E u \in Uuids : EdgeListed(u)
  \/ EdgeTick
  \/ \E l \in Lookups :
       \/ \E u \in Uuids : Ask(l, u)
       \/ Reply(l)
       \/ RequestStep(l)

\* As for the map alone; and calls of Mantle and relayed requests end.
EdgeFairness ==
  /\ WF_edgeVars(EdgeTick)
  /\ \A l \in Lookups : WF_edgeVars(RequestStep(l)) /\ SF_edgeVars(Reply(l))
  /\ \A u \in Uuids : SF_edgeVars(\E l \in Lookups : Ask(l, u))

EdgeSpec == EdgeInit /\ [][EdgeNext]_edgeVars
EdgeFairSpec == EdgeSpec /\ EdgeFairness

----------------------------------------------------------------------------
\* Properties

\* A request for a UUID that Mantle listed when it came is answered by that persona's own
\* mount, or told that this build does not have it.  If the UUID is in the map, it is,
\* throttle, backoff and other threads' refreshes or not, unless one of those puts an older
\* list without it over the map.  If it is not, then unless the throttle of misses or the
\* backoff was on when the request came, or another thread's miss or failure put it on before
\* this one had asked Mantle itself, or its own call of Mantle failed (gateway_middleware.py
\* 87-105).
PersonaReached ==
  ~answer.excused =>
    LET u == seen.path[1] IN
    /\ answer.found
    /\ seen.out = IF Slug(u) \in config.names
                  THEN Outcome("persona", Slug(u), <<Slug(u), "mcp">>) ELSE Refused("502")

\* In a roster whose names are apart, every request that the tables decide goes where the
\* docs of the router promise (host.py 397-409, 540-566; web_serve.py 193-205): see GoesHome.
RoutedHome ==
  seen # NotSeen /\ seen.path \in Paths /\ NamesAreApart(config) =>
    GoesHome(config, seen.host, seen.path)
=============================================================================
