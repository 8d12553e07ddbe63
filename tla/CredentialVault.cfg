SPECIFICATION Spec
CONSTANTS
    Hosts = {h1, h2}
    Ids = {a, b}
    Values = {u, v}
    Passwords = {p}
    Environments = {FALSE}
    None = None
    MaxEvents = 4
SYMMETRY Symmetry
INVARIANTS
    ServesCommitted
    SecretsRecoverable
CHECK_DEADLOCK FALSE
PROPERTY RevocationWins
