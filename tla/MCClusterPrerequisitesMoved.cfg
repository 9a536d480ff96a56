\* Cert-manager and Traefik on one target, by a tag of cert-manager that moves between
\* charts at any time.
SPECIFICATION Spec
CONSTANTS
    t1 = t1
    t2 = t2
    c1 = c1
    s1 = s1
    k1 = k1
    g1 = g1
    g2 = g2
    v1 = v1
    v2 = v2
    Names = {p1}
    None = None
    MaxGen = 1
    Targets = {t1}
    Clusters = {c1}
    Bundled = {}
    Tags = {g1}
    Versions = {v1, v2}
    Registries <- Moving
    SecretNames = {s1}
    CredsNames = {k1}
    Specs <- Whole
    Views <- AlwaysReady
    Kubeconfigs = {c1}
INVARIANTS
    StatusFitsSpec
    ReportsWhatHelmDid
