CONSTANTS
    c1 = c1
    c2 = c2
    c3 = c3
    Sockets <- ThreeSockets
    None = None
    Backlog = 2
    UserPreempts = FALSE
    MaxListens = 2
SPECIFICATION FairSpec
INVARIANTS TypeOK HandlesLive BacklogHonest
PROPERTY Accepted
CHECK_DEADLOCK FALSE
