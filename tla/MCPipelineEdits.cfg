SPECIFICATION FairSpec
CONSTANTS
    u1 = u1
    u2 = u2
    tcp = tcp
    s1 = s1
    ads = ads
    i1 = i1
    i2 = i2
    None = None
    Malformed = Malformed
    UpstreamError = UpstreamError
    UdpTasks = {u1}
    Conns = {tcp}
    Servers = {s1}
    ServerLists <- MCServerLists
    Ids = {i1}
    Questions <- MCOneQuestion
    Requests <- MCOneRequest
    Blocklists <- MCBlocklists
    max_concurrent = 0
    max_qps = 0
    max_inflight = 2
    PERSIST_CHANNEL_CAP = 1
    LOG_CHANNEL_CAP = 1
    MaxArrivals = 2
    MaxEdits = 2
PROPERTIES
    ServesClients
    EveryPacketLeaves
