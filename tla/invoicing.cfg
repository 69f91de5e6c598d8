CONSTANTS
    c1 = c1  c2 = c2  chair = chair  desk = desk
    Clients = {c1, c2}
    Lines = {chair, desk}
    Quantity <- MCOrdered
    UnitPrice <- MCOrdered
    Bills <- MCBills
SPECIFICATION Spec
SYMMETRY Symmetry
CHECK_DEADLOCK FALSE
INVARIANTS
    TypeOK
    ApprovalNeedsMatching
    MatchedAmounts
PROPERTIES
    PaysWhatWasClaimed
