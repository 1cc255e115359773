CONSTANTS
    Members = {m1, m2}
    NoMember = NoMember
    Users = {u1, u2}
    NoUser = NoUser
    Codes = {c1}
    NoCode = NoCode
    Applicants = {}
    Deciders = {d1, d2}
    MaxFailed = 3
    MaxCalls = 2
    MaxCrash = 0
SYMMETRY Symmetry
SPECIFICATION Spec
INVARIANTS OneMemberPerLine
CHECK_DEADLOCK FALSE
