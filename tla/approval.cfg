CONSTANTS
    c1 = c1  c2 = c2
    admin = admin  head = head  requester = requester  chair = chair  desk = desk
    Clients = {c1, c2}
    Users = {admin, head, requester}
    NoUser = NoUser
    RoleOf <- MCRoleOf
    Items = {chair, desk}
    Price <- MCPrice
    Budgets <- MCBudgets
SPECIFICATION Spec
SYMMETRY ClientSymmetry
CHECK_DEADLOCK FALSE
INVARIANTS
    TypeOK
    ApprovalsCounted
    FirstLevelActs
    DecisionFollowsTheSteps
    ReviewedContentAddsUp
    SubmissionOpensReview
PROPERTIES
    ClimbsTheLadder
