SPECIFICATION FairSpec
CONSTANTS
    r1 = r1
    c1 = c1
    k1 = k1
    Requests = {r1}
    Clients = {c1}
    Calls = {k1}
    Handlers = 2
INVARIANTS
    ServicesOutlive
    AnswersForwarded
PROPERTIES
    QuitEndsServer
    SourceLossStopsPool
