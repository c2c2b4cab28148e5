SPECIFICATION Spec
CONSTANTS
    r1 = r1  r2 = r2  r3 = r3  k1 = k1  k2 = k2  w0 = w0  w1 = w1  w2 = w2
    EmptyWord = w0
    BadKeyName = BadKeyName
    ShortKey = ShortKey
    NoKey = NoKey
    BadRewrapKey = BadRewrapKey
    Null = Null
    Requests = {r1, r2, r3}
    Words = {w0, w1}
    Base64Words = {w0}
    KeyNames = {k1}
    Keys = {K1}
    StorageDirs = {"teamA"}
    RewrapKeys = {rsa1}
    MaxItems = 1
    Configs <- RestartConfigs
    CreateItems <- VaultItems
    Mispairings = FALSE
    MaxRestarts = 2
    MaxFaults = 2
    Repeating = TRUE
    MaxReplacements = 0
SYMMETRY RequestSymmetry
INVARIANTS TypeOK AckedObjectsAreHeld HeldIsStored
