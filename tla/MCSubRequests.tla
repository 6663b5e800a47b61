--------------------------- MODULE MCSubRequests ---------------------------
(* Values for model checking module SubRequests *)
EXTENDS SubRequestsProps, TLC

CONSTANTS a, b, c, x, y

PeerSymmetry == Permutations({a, b, c})
DatumSymmetry == Permutations({x, y})
Symmetry == PeerSymmetry \cup DatumSymmetry

=============================================================================
