--------------------------- MODULE MCRelationship ---------------------------
(* Small instances of Relationship.                                        *)
EXTENDS Relationship, TLC

CONSTANTS k1, k2, c1, c2, r1, r2, r3

TwoRequests   == {r1, r2}
ThreeRequests == {r1, r2, r3}
TwoCodes      == {k1, k2}
TwoCouples    == {c1, c2}

Transitions   == {"redeem", "confirm", "unpair", "delete", "erase"}
Sharing       == {"redeem", "confirm", "unpair", "delete", "on", "off", "upload"}
Preferences   == {"redeem", "confirm", "on", "off"}
Deleting      == {"redeem", "confirm", "delete"}

Symmetry == Permutations(Requests) \cup Permutations(Codes) \cup Permutations(Couples)
=============================================================================
