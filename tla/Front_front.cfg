\* One request after another, on every path and with every header.
SPECIFICATION Spec
CONSTANTS
    k1 = k1
    k2 = k2
    u1 = u1
    u2 = u2
    t0 = t0
    t1 = t1
    Slot = {s1}
    Segment <- MCSegment
    RepoSegment <- MCRepoSegment
    LeadingSegment <- MCLeadingSegment
    LongName <- MCLongName
    TagName <- MCTagName
    Digest <- MCDigest
    UploadId <- MCUploadId
    User = {u1, u2}
    Key = {k1, k2}
    NoSecret = NoSecret
    Tenant = {t0, t1}
    DefaultTenant = t0
    NoClaim = NoClaim
    Path <- MCPath
    Header <- MCHeader
    Configuration <- MCConfiguration
INVARIANTS
    TypeOK
    RoutedOrRefused
    PlainNamesRouted
    AnonymousOnlyReads
    TenantNeedsToken
