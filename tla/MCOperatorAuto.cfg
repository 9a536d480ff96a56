\* A kubeconfig comes to lead to a cluster that ships an ingress controller.
SPECIFICATION OperatorSpec
CONSTANTS
    t1 = t1
    t2 = t2
    c1 = c1
    s1 = s1
    k1 = k1
    g1 = g1
    g2 = g2
    v1 = v1
    v2 = v2
    Names = {p1}
    None = None
    MaxGen = 1
    MaxEvents = 1
    Types = {"byo"}
    Targets = {t1}
    Clusters = {c1, c2}
    Bundled = {c1}
    Tags = {g1}
    Versions = {v1, v2}
    Registries <- Pinned
    SecretNames = {s1}
    CredsNames = {k1}
    Specs <- TraefikAlone
    Views <- AnyView
    Kubeconfigs = {c1, c2}
INVARIANT
    AutoSkipsBundled
