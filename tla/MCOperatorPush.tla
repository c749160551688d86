--------------------------- MODULE MCOperatorPush ---------------------------
\* The push by itself: two hosts that boot together, each with the operators of its
\* own build.
EXTENDS OperatorPush
=============================================================================
