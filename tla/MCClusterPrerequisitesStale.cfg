\* An edit moves the object to another target.
SPECIFICATION Spec
CONSTANTS
    t1 = t1
    t2 = t2
    c1 = c1
    s1 = s1
    k1 = k1
    g1 = g1
    g2 = g2
    v1 = v1
    v2 = v2
    Names = {p1}
    None = None
    MaxGen = 2
    Targets = {t1, t2}
    Clusters = {c1}
    Bundled = {}
    Tags = {g1}
    Versions = {v1, v2}
    Registries <- Pinned
    SecretNames = {s1}
    CredsNames = {k1}
    Specs <- Moves
    Views <- ReadyOrGone
    Kubeconfigs = {c1}
INVARIANT
    ComponentsEarned
