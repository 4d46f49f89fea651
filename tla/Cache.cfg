CONSTANTS
    Tasks = {t1, t2}
    Requests = {r}
    large = large
    Bodies = {small, large, secret}
    Size <- MCSize
    Secret = {secret}
    Oversized = {large}
    MaxSize = 2
    MaxBytes = 3
    Absent = Absent
    Corrupt = Corrupt
SPECIFICATION Spec
SYMMETRY TaskSymmetry
INVARIANTS
    TypeOK
    Accounting
    ArtifactsAreExact
    SecretsAreNotRetained
PROPERTIES
    AdvertisedWasRetained
    HitsAreShared
