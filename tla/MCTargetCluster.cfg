\* One object, edited, deleted and created anew, by two operator processes.
SPECIFICATION Spec
CONSTANTS
    Names = {t1}
    None = None
    SecretNames = {s1}
    Clusters = {c1}
    Types = {"byo"}
    MaxGen = 2
    LeaderElection = FALSE
INVARIANTS
    TypeOK
    StatusFitsSpec
    NeverForgotten
PROPERTY
    ImplementsContract
