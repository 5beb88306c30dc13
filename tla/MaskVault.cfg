SPECIFICATION Spec
CONSTANTS
    Handler = {h1, h2}
    Text <- Texts
    Rule = {email, phone}
    Value <- Words
    Pattern <- TwoPatterns
    Valid <- TwoValid
    Ref = {x1, x2, x3, x4, y1, y2, y3, foreign}
    Hash <- GoodHash
    MaxClears = 1
    None = None
    a = a
    b = b
    c = c
    email = email
    phone = phone
    x1 = x1
    x2 = x2
    x3 = x3
    x4 = x4
    y1 = y1
    y2 = y2
    y3 = y3
    foreign = foreign
INVARIANTS
    MapsAgree
    NoMatchLeavesWhole
    SameTextSameMask
    RoundTrip
    NoWrongValue
SYMMETRY MaskerSymmetry
