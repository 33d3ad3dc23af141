\* Two users, two codes, three requests at a time, one fault; what
\* managers may do is not looked at by any handler, so that role is left out.
CONSTANTS
    Users = {u1, u2}
    Codes = {c1, c2}
    Requests = {r1, r2, r3}
    Roles = {"owner", "viewer"}
    None = None
    MaxFaults = 1
SPECIFICATION FairSpec
INVARIANTS
    TypeOK
    InviteAdmitsOne
    ProjectIsWhole
    JoinedIsMember
PROPERTIES
    CreateCanBeRepeated
\* The system stops when every request has been answered.
CHECK_DEADLOCK FALSE
