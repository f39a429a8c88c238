CONSTANTS
    Names = {"root", "anon", "al"}
    Callers = {"root", "anon", "al"}
    Permissions = {"manage-users", "add-users"}
    Processes = {p1, p2}
    NoUser = NoUser
    Idle = Idle
    MaxRequests = 1
SPECIFICATION Spec
SYMMETRY Alike
CHECK_DEADLOCK FALSE
INVARIANT ValidatedBySomebody
