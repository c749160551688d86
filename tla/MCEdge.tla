-------------------------------- MODULE MCEdge --------------------------------
(***************************************************************************)
(* Two UUIDs, so that one that is not a persona can use up the interval of *)
(* one that is, and so that one may be listed and not built in; two        *)
(* threads, so that two refreshes overlap.  The rosters: the one of the    *)
(* manifests that web_serve.py quotes; the same before its bundle is       *)
(* built, with an upstream; the apex by the environment, and two facets    *)
(* for one subdomain; and no base domain.                                  *)
(***************************************************************************)
EXTENDS Edge

CONSTANTS a, b

SlugOf(u) == IF u = a THEN "aria" ELSE "lumen"

Facet(persona, name, subs, bundle, route) ==
  [persona |-> persona, name |-> name, subs |-> subs, bundle |-> bundle, route |-> route,
   files |-> {"app.js"}]

Www(bundle) == Facet("aria", "www", {"www", "aria", "@"}, bundle, FALSE)
Login == Facet("aria", "login", {"login"}, "undeclared", FALSE)
Library(bundle) == Facet("sage", "library", {"library", "books"}, bundle, TRUE)
Shelf == Facet("sage", "shelf", {"books"}, "built", FALSE)

Config(facets, apex, upstreams, base) ==
  [names |-> {"aria", "sage"}, facets |-> facets, apex |-> apex, upstreams |-> upstreams,
   base |-> base]

Rosters == {
  Config(<<Www("built"), Login, Library("undeclared")>>, "aria", {"origin", "sage"}, TRUE),
  Config(<<Www("unbuilt"), Library("built")>>, "aria", {"origin"}, TRUE),
  Config(<<Library("outside"), Shelf>>, "sage", {}, TRUE),
  Config(<<Www("built")>>, "aria", {"origin"}, FALSE)}

Labels == {"@", "www", "aria", "sage", "login", "library", "books", "origin", "lumen"}

Requests == {
  <<"">>, <<"mcp">>, <<"auth", "callback">>, <<"app.js">>, <<"gone.js">>, <<"healthz">>,
  <<".well-known", "mcp">>, <<"aria">>, <<"aria", "mcp">>, <<"aria", "www", "">>,
  <<"sage", "mcp">>, <<a, "mcp">>}

Files == {"app.js", "gone.js"}
=============================================================================
