\* Two users, one key, three documents, two results, two requests at once, with
\* and without the unique index.
CONSTANTS
    Users = {u1, u2}
    Keys = {k1}
    Docs = {d1, d2, d3}
    Items = {i1, i2}
    Procs = {p1, p2}
    NoUser = NoUser
    NoKey = NoKey
SPECIFICATION Spec
SYMMETRY Symmetry
INVARIANT TypeOK
INVARIANT ItemsOfOwnDocuments
INVARIANT FewLateItems
INVARIANT FewDuplicates
INVARIANT CardsOfReply
PROPERTY DeletedForGood
