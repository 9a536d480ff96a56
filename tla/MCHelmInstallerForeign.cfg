\* The promise about an existing pull Secret, of any type.
SPECIFICATION LiveSpec
CONSTANTS
    Callers = {p}
    Releases = {certManager}
    Versions = {v1}
    Creds = {c1}
    None = None
PROPERTY
    UpdatesPullSecret
