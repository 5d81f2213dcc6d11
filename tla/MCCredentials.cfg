SPECIFICATION Spec
CONSTANTS
    User = {u1, u2}
    Password = {p1, p2}
    None = none
    MaxDepth = 2
SYMMETRY Symmetric
INVARIANTS TypeOK EveryUserHasItsSecret DeletedUserIsGone
PROPERTY StartServesTheUsers
