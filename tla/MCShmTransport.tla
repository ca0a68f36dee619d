--------------------------- MODULE MCShmTransport ---------------------------
EXTENDS ShmTransport

CONSTANTS p1

MCPortOf(l) == p1

\* The last message may be so large that there are too few bytes for it though a node is
\* free, or so small that there are too few nodes.
MCSizes(m) == IF m = MaxMessages THEN {1, 2} ELSE {1}
=============================================================================
