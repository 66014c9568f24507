\* One address, three logins at once, a threshold of two failures, either store;
\* any Redis command may fail.
CONSTANTS
    Emails = {e1}
    Procs = {p1, p2, p3}
    NoEmail = NoEmail
    Passwords = {right, wrong}
    MaxAttempts = 2
    Window = 2
    MaxCount = 3
    MaxTime = 5
SPECIFICATION Spec
SYMMETRY Symmetry
INVARIANT TypeOK
INVARIANT BoundedOvershoot
INVARIANT CounterResetsAfterWindow
PROPERTY LockNotExtended
