\* A locked user resets the password.
CONSTANTS
    Emails = {e1}
    Procs = {p1, p2}
    NoEmail = NoEmail
    Passwords = {right, wrong}
    MaxAttempts = 2
    Window = 2
    MaxCount = 3
    MaxTime = 3
SPECIFICATION Spec
SYMMETRY Symmetry
PROPERTY ResetPasswordUnlocks
