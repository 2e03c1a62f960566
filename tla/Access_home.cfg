CONSTANTS
    Users = {u}
    Sessions = {s1, s2}
    Invites = {i1}
    Shares = {x1, x2}
    Requests = {r1}
    Roles = {"viewer", "member"}
    MaxUses = 2
    MaxPassword = 2
    None = None
SPECIFICATION MCSpec
SYMMETRY Symmetry
INVARIANTS DefaultKnown
CHECK_DEADLOCK FALSE
