\* Two requests at once, two organizations, two e-mails, one a super-admin's.
CONSTANTS
    Org = {o1, o2}
    Email = {e1, e2}
    SuperEmail = {e1}
    Call = {a, b}
    MaxUser = 2
    MaxInvite = 2
    NoOrg = NoOrg
SPECIFICATION Spec
SYMMETRY Symmetry
INVARIANTS AccountsAreUnique HomeFollowsSeat
PROPERTIES SeatsAreEarned
CHECK_DEADLOCK FALSE
