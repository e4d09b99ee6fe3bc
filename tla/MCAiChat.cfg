SPECIFICATION FairSpec
CONSTANTS
    Hosts = {h1, h2}
    DefaultHost = d
    None = none
    MaxRequests = 3
INVARIANTS BusyMeansWork HostInForce
PROPERTIES ServiceSpec EveryQuestionSettled ThinkingEnds
