CONSTANTS
    None = None
    k1 = k1  k2 = k2  c1 = c1  c2 = c2  r1 = r1  r2 = r2  r3 = r3
    Accounts = {1, 2}
    Codes = {k1}
    Couples = {c1}
    Requests <- TwoRequests
    Ops <- Deleting
SPECIFICATION Spec
INVARIANTS DeletedMeansUnpaired
CHECK_DEADLOCK FALSE
SYMMETRY Symmetry
