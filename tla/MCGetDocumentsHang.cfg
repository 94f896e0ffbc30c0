SPECIFICATION HangingSpec
CONSTANTS
    Gets = {g1, g2}
    Queries = {page, profile}
    NoQuery = NoQuery
    kMaxWatchStreamFailures = 1
    MaxEvents = 2
    MaxChanges = 1
    g1 = g1
    g2 = g2
    page = page
    profile = profile
PROPERTY UnknownEnds
