SPECIFICATION FairSpec
CONSTANTS
    Ids = {s1}
    Urls = {u1, u2}
    TlsUrls = {u1}
    Certs = {c1, c2}
    CertsAt <- MCCertsAt
    Trusted = {c2}
    First <- MCFirst
    Batches = {poller, page}
    Poller = poller
    Slots = {1}
    Admins = {a1}
    None = None
    Unused = Unused
    Gone = Gone
    MaxChanges = 1
    MaxEdits = 1
INVARIANTS FreshReadingIsTrue TrustIsJournalled
CHECK_DEADLOCK FALSE
PROPERTIES CacheSettles
