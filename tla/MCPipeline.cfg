SPECIFICATION Spec
CONSTANTS
    u1 = u1
    u2 = u2
    tcp = tcp
    s1 = s1
    ads = ads
    i1 = i1
    i2 = i2
    None = None
    Malformed = Malformed
    UdpTasks = {u1, u2}
    Conns = {tcp}
    Servers = {s1}
    ServerLists <- MCServerLists
    Ids = {i1, i2}
    Questions <- MCQuestions
    Requests <- MCRequests
    Blocklists <- MCBlocklists
    max_concurrent = 1
    max_qps = 1
    max_inflight = 2
    PERSIST_CHANNEL_CAP = 1
    LOG_CHANNEL_CAP = 1
    MaxArrivals = 3
    MaxEdits = 0
    UpstreamError = UpstreamError
SYMMETRY Symmetry
INVARIANTS
    TypeOK
    InflightConserved
    SingleFlight
    NoOrphans
    ReplyForAsker
    CacheHoldsOwnKey
    StatsAddUp
