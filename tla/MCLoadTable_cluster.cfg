\* One slave, which may leave closed links behind, and other clients, with three
\* descriptors: two lower links that come and go are enough to put off the removal
\* of a third.  Two reports of the one service may be under way; they leave no room,
\* so that queries stay out of the way.
CONSTANTS
    Keys = {0}
    Reports <- MCNoRoomTwo
    Master = master
    Slaves = {s1}
    Fds = {3, 4, 5}
    Closed = closed
    Client = client
    Gone = gone
    LinkCheckInterval = 2
    LinkExpire = 3
    MaxInFlight = 2
    FreedId = {"intact", "overwritten"}
SPECIFICATION FairSpec
INVARIANTS
    ReplicaInStep
    CopiesGoToSlaves
    EverySlaveCopied
PROPERTY
    GoneSlaveForgotten
