\* Two operator processes at work on one release, with credentials being rotated.
SPECIFICATION LiveSpec
CONSTANTS
    Callers = {p, q}
    Releases = {certManager}
    Versions = {v1}
    Creds = {c1, c2}
    None = None
INVARIANTS
    TypeOK
    OneAtATime
    PullSecretFirst
PROPERTIES
    Deploys
    ImplementsContract
