---------------------------- MODULE MCTCPServer ----------------------------
(* Instances of TCPServer for TLC. *)
EXTENDS TCPServer, TLC

CONSTANTS c1, c2, a1, a2

Symmetry == Permutations(Clients)
AppsAlike == Permutations(Apps)

OneSegment == [c \in Clients |-> 1]
TwoSegments == [c \in Clients |-> 2]
\* The first connection is busy; the second only takes its id over.
TwoAndNone == [c \in Clients |-> IF c = c1 THEN 2 ELSE 0]
=============================================================================
