SPECIFICATION Spec
CONSTANTS
    a = a
    b = b
    adminOfA = adminOfA
    adminOfB = adminOfB
    Procs = {p1, p2}
    NoCall = NoCall
    Companies = {a, b}
    Emails = {e1}
    Roles = {adminOfA, adminOfB}
    RoleCompany <- MCRoleCompany
    Permissions = {write}
    Grants <- MCGrants
SYMMETRY Symmetry
INVARIANTS AccountsWhole EntitledUnlessWithdrawn
CHECK_DEADLOCK FALSE
