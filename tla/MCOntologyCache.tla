--------------------------- MODULE MCOntologyCache ---------------------------
\* The reader by itself: one thread and a rewrite of the transducer.
EXTENDS OntologyCache
==============================================================================
