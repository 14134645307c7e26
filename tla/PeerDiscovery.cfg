\* One standard port, up to two custom ones (one of them the standard port
\* again), answers of up to two peers, no limit and a limit of one peer.
CONSTANTS
    a = a
    b = b
    c = c
    Endpoint = {a, b, c}
    StandardPorts <- MCStandardPorts
    CustomPorts <- MCCustomPorts
    MaxPeersChoices = {0, 1}
    MaxList = 2
    NotGiven = NotGiven
SPECIFICATION FairSpec
INVARIANTS IInv PeersAreAskedOnce QueriesAreJustified DiscoveryIsComplete
PROPERTIES AlwaysEnds StepsRunOut
CHECK_DEADLOCK FALSE
