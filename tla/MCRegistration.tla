--------------------------- MODULE MCRegistration ---------------------------
\* Two hosts, one with two personas, so that a restart can fall between two
\* registrations of one host or be hidden by the other host's; one type that
\* personas of different hosts all ship, and one that only p1 does.
EXTENDS Registration, TLC

CONSTANTS h1, h2, p1, p2, p3, own, shared

MCHostOf == (p1 :> h1) @@ (p2 :> h1) @@ (p3 :> h2)
MCCatalog == (p1 :> {own, shared}) @@ (p2 :> {shared}) @@ (p3 :> {shared})

\* The first builds of p1 and p3 ship their whole catalog; a redeployment may
\* ship any part of it.
MCInit == Init /\ \A p \in {p1, p3} : ships[p] = Catalog[p]
MCSpec == MCInit /\ [][Next]_vars
MCFairSpec == MCSpec /\ Fairness
=============================================================================
