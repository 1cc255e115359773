SPECIFICATION MembersSpec
CONSTANTS
    \* Linking
    Members = {m1, m2}
    NoMember = NoMember
    Users = {u1, u2}
    NoUser = NoUser
    Codes = {c1}
    NoCode = NoCode
    Applicants = {a1}
    Deciders = {d1}
    MaxFailed = 3
    MaxCalls = 4
    MaxCrash = 1
    \* RichMenus
    Numbered = {1, 2}
    Drawn = {n1}
    People = {m1, m2}
    NoName = noname
    Committees = {"k1"}
    NoCommittee = none
    Seatings <- OneSeating
    Accounts = {l1}
    NoAccount = nobody
    Hands = {a, b}
    MaxChores = 2
    \* Attendances
    Persons = {p1}
    Nobody = noproxy
    Stranger = stranger
    Meetings = {1, 2}
    Buttons = {"present", "proxy"}
    Writers = {a, b}
    MaxAnswered = 2
    \* Knowledge
    Drives = {f1}
    Images = {}
    Talks = {}
    Rounds = {a, b}
    Batch = 1
    MaxEdits = 2
    MaxTrouble = 1
SYMMETRY MembersSymmetry
CHECK_DEADLOCK FALSE
INVARIANTS
    MembersTypeOK
    OneMemberPerLine
    RequestsAreTrue
    
    AnswersAreTrue
    IndexIsTrue
PROPERTIES
    LockedIsNotLinkedByCode
    
