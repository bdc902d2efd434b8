SPECIFICATION Spec
CONSTANTS
    Handlers = {h1, h2}
    Passwords = {old, new}
    FirstPassword = old
    NoPassword = NoPassword
    MaxSessions = 3
    MaxResets = 1
SYMMETRY Symmetry
INVARIANTS
    FamiliesNeverFork
    TokensSpentOnce
    AlarmsAreTrue
PROPERTY RevokedStaysRevoked
