CONSTANTS
    None = None
    k1 = k1  k2 = k2  c1 = c1  c2 = c2  r1 = r1  r2 = r2  r3 = r3
    Accounts = {1, 2, 3}
    Codes <- TwoCodes
    Couples <- TwoCouples
    Requests <- TwoRequests
    Ops <- Transitions
SPECIFICATION Spec
INVARIANTS TypeOK  CouplesAreWhole CodeMakesOneCouple NoLockCycle
CHECK_DEADLOCK FALSE
SYMMETRY Symmetry
