CONSTANTS
    Names = {"root", "anon", "al", "al/x"}
    Callers = {"root", "anon", "al"}
    Permissions = {"manage-users", "add-users"}
    Processes = {p1, p2}
    NoUser = NoUser
    Idle = Idle
    MaxRequests = 4
SPECIFICATION Spec
SYMMETRY Alike
CHECK_DEADLOCK FALSE
INVARIANTS TypeOK ReferralsLeadToRoot PermissionsHaveUsers
PROPERTIES OnlyManagersManage ReferersMayAdd
