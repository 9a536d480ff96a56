\* Convergence, with the informers' resync and without.
SPECIFICATION LiveSpec
CONSTANTS
    Names = {t1}
    None = None
    SecretNames = {s1}
    Clusters = {c1}
    Types = {"byo", "reserved"}
    MaxGen = 2
    LeaderElection = TRUE
PROPERTIES
    Converges
    ConvergesUnlessInvalid
