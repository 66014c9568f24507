\* One request at a time, all of them POST /summarize.
CONSTANTS
    Users = {u1}
    Verified = {u1}
    Procs = {p1}
    NoUser = NoUser
    Endpoints = {"summarize"}
    Limit = 2
    MaxDay = 1
    MaxServed = 4
SPECIFICATION Spec
SYMMETRY Symmetry
INVARIANT DailyLimitHolds
