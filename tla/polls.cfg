CONSTANTS
    m1 = m1
    m2 = m2
    u1 = u1
    u2 = u2
    c1 = c1
    c2 = c2
    Members = {m1, m2}
    NoMember = NoMember
    Users = {u1, u2}
    LinkedTo <- MCLinkedTo
    Candidates = {c1, c2}
    NoCandidate = NoCandidate
    Sheets <- MCSheets
    Posts = {k1}
    NoPost = NoPost
    Screens = {s1}
    Ticks = {t1}
    Overlap = FALSE
    MaxCalls = 3
    MaxAnswers = 2
    MaxErrors = 1
SPECIFICATION Spec
CHECK_DEADLOCK FALSE
INVARIANTS
    TypeOK
    DecisionIsCarriedOut
    PostsAreTrue

    
