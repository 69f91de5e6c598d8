CONSTANTS
    c1 = c1  c2 = c2  g1 = g1  g2 = g2  bolts = bolts
    Clients = {c1, c2}
    Receipts = {g1, g2}
    Lines = {bolts}
    Quantity <- MCQuantity
SPECIFICATION Spec
SYMMETRY Symmetry
CHECK_DEADLOCK FALSE
INVARIANTS
    NeverOverReceived
