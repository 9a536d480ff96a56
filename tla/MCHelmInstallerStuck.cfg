\* The installer's own promise, with crashes in the midst of a Helm operation.
SPECIFICATION LiveSpec
CONSTANTS
    Callers = {p}
    Releases = {certManager}
    Versions = {v1}
    Creds = {c1}
    None = None
PROPERTY
    InstallsOrUpgrades
