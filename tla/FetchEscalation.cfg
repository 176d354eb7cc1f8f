\* Three fetches of two questions on one host, and one slot.
SPECIFICATION Spec
CONSTANTS
    q1 = q1
    q2 = q2
    a = a
    b = b
    c = c
    p1 = p1
    p2 = p2
    h1 = h1
    NoFetch = NoFetch
    Questions = {q1, q2}
    Fetches = {a, b, c}
    Pages = {p1, p2}
    Hosts = {h1}
    Scopes = {"resolution_source", "gap_fill_v2"}
    Policies = {"resolution_source", "gap_fill_fetch", "gap_fill_document"}
    MemoScope <- ScopeNamed
    FeedPolicies = {"resolution_source", "gap_fill_fetch"}
    ThinPolicies = {"gap_fill_fetch", "gap_fill_document"}
    OneWall = {"resolution_source"}
    Callers <- Asks
    FeedHost <- Feeds
    QuestionOf <- Cites
    CitedHost <- Named
    PageOf <- Lands
    HostOf <- Serves
    LaunchCap = 1
    Walls <- Begins
    Margin = 1
    HopMax = 1
    HopMin = 1
    FeedFloor = 1
    RenderFloor = 5
    GotoCap = 2
    GotoFloor = 1
    Settle = 1
    DomRead = 1
    Teardown = 1
    Slack = 2
    Launch = 2
INVARIANTS
    PoliteAndCapped
    NoCircularWait
    TokensAreHonest
PROPERTIES
    FeedBeforeBrowser
