CONSTANTS
    c1 = c1  c2 = c2  acme = acme  apex = apex  b1 = b1  b2 = b2
    chair = chair  ann = ann  low = low  high = high
    Clients = {c1, c2}
    Vendors = {acme, apex}
    Bids = {b1, b2}
    NoBid = NoBid
    Items = {chair}
    Price <- MCPrice
    Evaluators = {ann}
    Scores = {low, high}
    Unscored = Unscored
SPECIFICATION Spec
SYMMETRY Symmetry
CHECK_DEADLOCK FALSE
INVARIANTS
    NeverTwoActiveBids
