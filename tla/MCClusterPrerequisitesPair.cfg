\* Two objects that name one target, with different versions of cert-manager.
SPECIFICATION Spec
CONSTANTS
    t1 = t1
    t2 = t2
    c1 = c1
    s1 = s1
    k1 = k1
    g1 = g1
    g2 = g2
    v1 = v1
    v2 = v2
    Names = {p1, p2}
    None = None
    MaxGen = 1
    Targets = {t1}
    Clusters = {c1}
    Bundled = {}
    Tags = {g1, g2}
    Versions = {v1, v2}
    Registries <- Pinned
    SecretNames = {s1}
    CredsNames = {k1}
    Specs <- Upgrades
    Views <- AlwaysReady
    Kubeconfigs = {c1}
INVARIANT
    ReportsDeployed
