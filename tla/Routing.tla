------------------------------- MODULE Routing -------------------------------
(***************************************************************************)
(* Where a host sends a request, by its Host header and its path           *)
(* (host.py: build_app; web_serve.py).  The tables are built once, from    *)
(* the manifests of the personas; the functions below are total over them, *)
(* and module Edge runs requests through them.                             *)
(*                                                                         *)
(* A path is the sequence of its segments: "/" is <<"">>, "/aria" is       *)
(* <<"aria">>, "/aria/" is <<"aria", "">>.  A host is the label in front   *)
(* of the base domain: "@" for the base itself, Elsewhere for one that is  *)
(* not under it.                                                           *)
(*                                                                         *)
(* A configuration c has c.names, the mounted personas; c.facets, the      *)
(* facets of all of them in roster order, each with its persona, its name, *)
(* its subdomains, how far its bundle got and the assets in it, and        *)
(* whether the persona's app has a route of its name; c.apex and           *)
(* c.upstreams, from the environment; and c.base, whether there is a base  *)
(* domain at all.                                                          *)
(***************************************************************************)
EXTENDS Naturals, Sequences

CONSTANTS
  Assets,     \* last segments that a browser asks for as a file (_ASSET_SUFFIXES)
  Elsewhere,
  Nobody      \* None, for a persona

Bundles == {"undeclared", "rootless", "outside", "unbuilt", "built"}
NoFacet == [persona |-> Nobody, name |-> "", subs |-> {}, bundle |-> "undeclared", route |-> FALSE,
            files |-> {}]

\* What is behind a facet: its bundle, if it resolves to a directory of the persona's own
\* that is there (_resolve_dist), or else a route the persona really has (_renders_at).
Kind(f) == IF f.bundle = "built" THEN "static" ELSE IF f.route THEN "rendered" ELSE "none"

\* dict.setdefault over the roster: the first facet in S, by its place, or none.
FirstFacet(c, S) ==
  IF S = {} THEN NoFacet ELSE c.facets[CHOOSE i \in S : \A j \in S : i <= j]

\* _declared and _declared_apex
Declaring(c, sub) == {i \in DOMAIN c.facets : sub \in c.facets[i].subs}
Declared(c, sub) == FirstFacet(c, Declaring(c, sub)).persona

\* _apex_target: a declared apex wins over the environment, if it is mounted.
ApexTarget(c) ==
  LET to == IF Declared(c, "@") # Nobody THEN Declared(c, "@") ELSE c.apex
  IN IF to \in c.names THEN to ELSE Nobody

Apex(host) == host \in {"@", "www"}

\* _persona_for_host
PersonaForHost(c, host) ==
  IF ~c.base \/ host = Elsewhere THEN Nobody
  ELSE IF Apex(host) THEN ApexTarget(c)
  ELSE IF Declared(c, host) # Nobody THEN Declared(c, host)
  ELSE IF host \in c.names THEN host ELSE Nobody

\* _upstream_for_host: a mounted persona always wins.
UpstreamForHost(c, host) ==
  c.base /\ host \notin {Elsewhere, "@"} /\ host \in c.upstreams \ c.names

\* web_serve.surfaces and subdomain_map: only what is there has a surface, and the slug
\* of a persona belongs to the persona.
SurfaceAt(c, sub) ==
  IF sub \in c.names THEN NoFacet
  ELSE FirstFacet(c, {i \in Declaring(c, sub) : Kind(c.facets[i]) # "none"})

\* _facet_for_host
FacetForHost(c, host) ==
  IF Apex(host) /\ SurfaceAt(c, "www") # NoFacet THEN SurfaceAt(c, "www")
  ELSE IF Apex(host) THEN SurfaceAt(c, "@")
  ELSE SurfaceAt(c, host)

Prefix(f) == <<f.persona, f.name>>
WellKnown(path) == path[1] = ".well-known" /\ Len(path) > 1

\* The address a path gets under a surface, or under a persona without one.
Under(f, persona, path) ==
  (IF f = NoFacet THEN <<persona>> ELSE Prefix(f))
  \o (IF path # <<"">> THEN path ELSE IF Kind(f) = "static" THEN path ELSE <<>>)

Addressed_Facet(c, host, path) ==                   \* mutant: the guard tests the facet
  LET f == FacetForHost(c, host) IN
  IF f = NoFacet THEN path[1] = PersonaForHost(c, host)
  ELSE Len(path) > 1 /\ <<path[1], path[2]>> = Prefix(f)

\* The path already carries the prefix of the persona.
Addressed(c, host, path) == path[1] = PersonaForHost(c, host)

\* _route_by_host
Rewrite(c, host, path) ==
  LET persona == PersonaForHost(c, host) IN
  IF persona = Nobody \/ WellKnown(path) \/ Addressed(c, host, path) THEN path
  ELSE Under(FacetForHost(c, host), persona, path)

\* What a request is answered by: an upstream, the page or an asset of a static surface,
\* the mount of a persona, or a route of the host itself.
Outcome(where, name, path) == [where |-> where, name |-> name, path |-> path]

\* _SpaFiles: a missing asset keeps its 404, every other path is the page's.
FromSurface(f, path) ==
  LET file == path[Len(path)] IN
  IF file \notin Assets THEN Outcome("page", f.persona, path)
  ELSE IF file \in f.files THEN Outcome("asset", f.persona, path)
  ELSE Outcome("missing", f.persona, path)

\* Static surfaces that a path lies under; a mount's own path, without the slash, is not.
Surfaces(c, path) ==
  {i \in DOMAIN c.facets : Kind(c.facets[i]) = "static" /\ Len(path) > 2
                           /\ Prefix(c.facets[i]) = <<path[1], path[2]>>}

\* The routes in the order they are mounted: surfaces, personas, the host's own.
Served(c, path) ==
  IF Surfaces(c, path) # {} THEN FromSurface(FirstFacet(c, Surfaces(c, path)), path)
  ELSE IF path[1] \in c.names THEN Outcome("persona", path[1], path)
  ELSE IF path \in {<<"">>, <<"healthz">>} \/ WellKnown(path) THEN Outcome("host", Nobody, path)
  ELSE Outcome("missing", Nobody, path)

\* The order of the middlewares: the rewrite, then the upstreams.
Routed(c, host, path) ==
  LET there == Rewrite(c, host, path) IN
  IF UpstreamForHost(c, host) THEN Outcome("upstream", host, there) ELSE Served(c, there)

----------------------------------------------------------------------------
IsSequence(s) == s \in Seq({s[i] : i \in DOMAIN s})

\* What a configuration is: the facets are those of the mounted personas, in their order,
\* and every mounted persona has a name.
IsConfig(c) ==
  /\ IsSequence(c.facets)
  /\ \A i \in DOMAIN c.facets : c.facets[i].persona \in c.names
  /\ Nobody \notin c.names /\ Elsewhere \notin c.names

\* A roster whose personas do not claim each other's names: no subdomain belongs to two
\* personas, nor is the name of another; "www" and the apex are one name; and what is
\* proxied is declared by nobody.  Nothing in the code demands it.
NamesAreApart(c) ==
  /\ "@" \notin c.names /\ "www" \notin c.names \cup c.upstreams
  /\ \A i \in DOMAIN c.facets :
       LET f == c.facets[i] IN
       \A sub \in f.subs :
            /\ sub \in c.names => sub = f.persona
            /\ sub \notin c.upstreams \ c.names
            /\ Apex(sub) => f.persona = ApexTarget(c)
            /\ \A j \in DOMAIN c.facets : sub \in c.facets[j].subs => c.facets[j].persona = f.persona

\* What a request may count on, in such a roster: on the host of a persona it is answered
\* by that persona, and by no other, except for what belongs to the origin; the name of a
\* persona is the persona and not its page; a second pass changes nothing; the path of a
\* persona leads to the same place on its host as anywhere; and an upstream sees the
\* path as it was sent.
GoesHome(c, host, path) ==
  LET persona == PersonaForHost(c, host)
      there == Rewrite(c, host, path)
      out == Routed(c, host, path)
  IN /\ Rewrite(c, host, there) = there
     /\ persona # Nobody /\ ~WellKnown(path) => out.where # "upstream" /\ out.name = persona
     /\ host \in c.names /\ c.base /\ path[1] # host /\ ~WellKnown(path)
          => persona = host /\ out.where \in {"persona", "page", "asset", "missing"}
             /\ SubSeq(there, 2, Len(there)) \in {path, <<>>}
     /\ persona # Nobody /\ path[1] = persona => out = Served(c, path)
     /\ out.where = "upstream" => out.path = path
     /\ WellKnown(path) => there = path
=============================================================================
