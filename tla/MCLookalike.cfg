SPECIFICATION Spec
CONSTANTS
    r1 = r1  r2 = r2  r3 = r3  k1 = k1  k2 = k2  w0 = w0  w1 = w1  w2 = w2
    EmptyWord = w0
    BadKeyName = BadKeyName
    ShortKey = ShortKey
    NoKey = NoKey
    BadRewrapKey = BadRewrapKey
    Null = Null
    Requests = {r1, r2}
    Words = {w0, w1, w2}
    Base64Words = {w0, w2}
    KeyNames = {k1}
    Keys = {K1}
    StorageDirs = {}
    RewrapKeys = {rsa1}
    MaxItems = 1
    Configs <- LocalConfigs
    CreateItems <- LookalikeItems
    Mispairings = FALSE
    MaxRestarts = 0
    MaxFaults = 0
    Repeating = FALSE
    MaxReplacements = 0
SYMMETRY RequestSymmetry
INVARIANTS RewrapDecodesToTextGiven
