CONSTANTS
    Admins = {a1, a2}
    Requests = {r1, r2}
    Consoles = {c1, c2}
    Fields = {f1, f2}
    BlackjackFields = {f1, f2}
    LimitFields = {f1}
    MaxProviders = 2
    Nobody = Nobody
    NotCached = NotCached
    MaxDocuments = 2
    MaxEdits = 1
    MaxPublications = 3
    Deliveries = {d1, d2}
    Dispatchers = {p1, p2}
    MaxAttempts = 2
    BatchSize = 2
    MaxSlow = 1
    MaxStops = 1
    MaxRequeues = 1
    Endpoints = {e1}
    Rewards = {w1}
    WebhookWorkers = {k1, k2}
    MaxPosts = 2
    MaxStale = 2
    MaxLost = 1
    MaxPatches = 1
    Desks = {k3, k4}
    MaxAsked = 4
    Rounds = {"settings"}
SPECIFICATION MCSpec
PROPERTY ChangesAreDrafted
CHECK_DEADLOCK FALSE
