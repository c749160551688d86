---------------------------- MODULE MCDescribers ----------------------------
\* Two artifacts, so that the events of one wait behind the describer of the
\* other; two calls, so that an inline one and the driver's overlap.
EXTENDS Describers
=============================================================================
