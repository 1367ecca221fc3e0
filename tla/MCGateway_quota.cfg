SPECIFICATION Spec
CONSTANTS
    reader = reader
    writer = writer
    anon = anon
    open = open
    deep = deep
    away = away
    far = far
    ghost = ghost
    s1 = s1
    s2 = s2
    Slots = {s1, s2}
    Arrivals <- QuotaArrivals
    Principals = {writer}
    Anonymous = anon
    Buckets = {deep}
    Keys <- MCKeys
    KeyPrefixes <- MCKeyPrefixes
    Slash = 0
    Scopes <- QuotaScopes
    Registered = {deep}
    AnonymousRead = {}
    S3Backed = {deep}
    Store <- OneStore
    Quota <- QuotaOfTwo
    Unlimited = Unlimited
    MaxBody = 1
    MaxBytes = 2
    UsageCap = 7
    NoLength = NoLength
    NoBucket = NoBucket
    NoSource = NoSource
    Nobody = Nobody
    NoRequest = NoRequest
    NoReply = NoReply
INVARIANT QuotaOvershoot
SYMMETRY Symmetry
