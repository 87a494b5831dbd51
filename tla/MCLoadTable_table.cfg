\* One process, three services, a report for every list.
CONSTANTS
    Keys = {0, 1, 2}
    Reports <- MCReports
    Master = master
    Slaves = {}
    Fds = {0}
    Closed = closed
    Client = client
    Gone = gone
    LinkCheckInterval = 1
    LinkExpire = 1
    MaxInFlight = 1
    FreedId = {"intact", "overwritten"}
SPECIFICATION Spec
INVARIANTS
    EveryRowListedOnce
    NoRowOverbooked
PROPERTY
    MasterAllocates
