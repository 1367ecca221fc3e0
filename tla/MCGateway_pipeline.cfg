SPECIFICATION Spec
CONSTANTS
    reader = reader
    writer = writer
    anon = anon
    open = open
    deep = deep
    away = away
    far = far
    ghost = ghost
    s1 = s1
    s2 = s2
    Slots = {s1}
    Arrivals <- MCArrivals
    Principals <- MCPrincipals
    Anonymous = anon
    Buckets <- MCBuckets
    Keys <- MCKeys
    KeyPrefixes <- MCKeyPrefixes
    Slash = 0
    Scopes <- MCScopes
    Registered <- MCRegistered
    AnonymousRead <- MCAnonymousRead
    S3Backed <- MCS3Backed
    Store <- MCStore
    Quota <- NoQuota
    Unlimited = Unlimited
    MaxBody = 1
    MaxBytes = 2
    UsageCap = 2
    NoLength = NoLength
    NoBucket = NoBucket
    NoSource = NoSource
    Nobody = Nobody
    NoRequest = NoRequest
    NoReply = NoReply
INVARIANTS
    TypeOK
    Mediated
    BodyWhereExpected
    NoOversizedBody
    SentIsAttributed
