CONSTANTS
    c1 = c1  c2 = c2  k1 = k1  k2 = k2  k3 = k3  o1 = o1  o2 = o2
    Clients = {c1, c2}
    Contracts = {k1, k2, k3}
    Organisation <- MCOrganisation
    Dates = {1, 2, 3}
    MaxRequests = 4
SPECIFICATION Spec
SYMMETRY Symmetry
CHECK_DEADLOCK FALSE
INVARIANTS
    TypeOK
    VersionsGapless
    HistoryComplete
    TermsInOrder
    NumberFree
PROPERTIES
    RenewalKeepsTheOldTerm
    KeepsTheAgreement
