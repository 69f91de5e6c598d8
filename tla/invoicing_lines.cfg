CONSTANTS
    c1 = c1  c2 = c2  chair = chair  desk = desk
    Clients = {c1, c2}
    Lines = {chair, desk}
    Quantity <- MCOrdered
    UnitPrice <- MCOrdered
    Bills <- MCBillsAndDouble
SPECIFICATION Spec
CHECK_DEADLOCK FALSE
INVARIANTS
    MatchedBillsWhatArrived
