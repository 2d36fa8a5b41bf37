--------------------------- MODULE MCUserAccounts ---------------------------
(* Instances of UserAccounts for TLC.                                       *)
EXTENDS UserAccounts, TLC

CONSTANTS i1, i2, n1, n2, b1, b2, s1

BrowserSymmetry == Permutations({b1, b2}) \cup Permutations({i1, i2})
                     \cup Permutations({n1, n2})
=============================================================================
