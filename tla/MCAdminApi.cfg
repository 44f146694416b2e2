SPECIFICATION Spec
CONSTANTS
    s1 = s1
    s2 = s2
    fast = fast
    slow = slow
    com = com
    ads = ads
    https = https
    own = own
    h1 = h1
    h2 = h2
    Star = Star
    Hash = Hash
    Nil = Nil
    Sep = Sep
    Cut = Cut
    Query = Query
    Main = Main
    Guess = Guess
    Blank = Blank
    Bad = Bad
    None = None
    Empty = Empty
    Torn = Torn
    Servers = {s1, s2}
    Options = {fast, slow}
    Labels = {com, ads, https, Star, Hash}
    Names <- MCNames
    Handlers = {h1, h2}
    Bodies <- MCBodies
    Texts <- MCTexts
    Default <- MCDefault
    DEFAULT_BLOCKLIST <- MCDefaultText
    OldConfigs <- MCOldConfigs
    OldTexts <- MCOldTexts
    Random = {t1, t2}
    MaxStarts = 3
    MaxRequests = 3
SYMMETRY Symmetry
INVARIANTS
    TypeOK
    Authorised
    TokenKept
    Settled
    Durable
    BlocksAsDocumented
CHECK_DEADLOCK FALSE
