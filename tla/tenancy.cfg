CONSTANTS
    c1 = c1  c2 = c2  w1 = w1  w2 = w2  e1 = e1  e2 = e2  e3 = e3
    i1 = i1  i2 = i2  r1 = r1  r2 = r2  o1 = o1  o2 = o2  s1 = s1  s2 = s2
    v1 = v1  v2 = v2  t1 = t1  t2 = t2  t3 = t3  k1 = k1  k2 = k2
    Callers = {v1, v2}
    RefreshTokens = {t1, t2, t3}
    ResetLinks = {k1, k2}
    Threshold = 2
    Clients = {c1, c2}
    Workers = {w1, w2}
    Emails = {e1, e2, e3}
    Invitations = {i1, i2}
    Registrations = {r1, r2}
    Organisations = {o1, o2}
    Codes = {s1, s2}
    PaidPlans = {"STARTER"}
    Grants <- MCGrants
    Home = o1
    Cases <- MCCases
SPECIFICATION Spec
SYMMETRY Symmetry
CHECK_DEADLOCK FALSE
INVARIANTS
    TypeOK
    AcceptedMeansMember
    OneLiveInvitation
    AdminRemains
    CanceledIsDisabled
    MirrorsTheProvider
    EndedStaysEnded
