\* One event at any moment (an edit of the TargetCluster, a deletion, a Secret,
\* an outage, a moved tag, a failure or a restart) and what comes of it in the end.
SPECIFICATION FairOperatorSpec
CONSTANTS
    t1 = t1
    t2 = t2
    c1 = c1
    s1 = s1
    k1 = k1
    g1 = g1
    g2 = g2
    v1 = v1
    v2 = v2
    Names = {p1}
    None = None
    MaxGen = 2
    MaxEvents = 1
    Types = {"byo"}
    Targets = {t1}
    Clusters = {c1, c2}
    Bundled = {c1}
    Tags = {g1}
    Versions = {v1, v2}
    Registries <- MovingTraefik
    SecretNames = {s1}
    CredsNames = {k1}
    Specs <- TraefikAlone
    Views <- AnyView
    Kubeconfigs = {"garbage", c1, c2}
INVARIANT
    AutoSkipsUnlessMoved
PROPERTY
    OperatorConverges
