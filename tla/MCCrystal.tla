------------------------------ MODULE MCCrystal ------------------------------
\* A crystal with a facet for both directions and one that only conducts out, and frames of
\* up to two bands; those of one band are too short to carry a read.
EXTENDS CrystalFlow

CONSTANTS both, out, b1, b2

Directions == [f \in Facets |-> IF f = out THEN "out" ELSE "both"]
Single == {frame \in SUBSET Bands : Cardinality(frame) <= 1}
=============================================================================
