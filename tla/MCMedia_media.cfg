\* Two groups, and a key that only the second serves; mcenter has memory for one
\* of them, so that either may be the one it knows.  With LinkExpire 0 the second
\* that goes by closes every link at mcenter: it may come at any time, or never.
CONSTANTS
    Groups = {1, 2}
    Objs = {o1}
    NoObj = noobj
    NoName = noname
    ValidIsps <- MCIsps
    Isps <- MCIsps
    Areas = {1}
    Requests <- MCRequests
    IspOf <- MCIspOf
    AreaOf <- MCAreaOf
    Reports <- MCReports
    Fds = {4, 5}
    Closed = closed
    GroupExpire = 1
    LinkExpire = 0
    MaxListed = 1
    Silent = FALSE
    FreedName = {"intact"}
    Keys = {"near", "far"}
    RequestOf <- MCRequestOf
    NoGrp = nogrp
    Clients = {c1}
    ProxyFds = {4}
    HasLeft = left
    CacheSize = 1
    CacheMinimal = 1
    CacheExpire = 0
    ClearInterval = 1
    MaxRequests = 2
    Waiting = waiting
    Gone = gone
SPECIFICATION MediaFairSpec
INVARIANT
    GivenServesBoth
PROPERTY
    ProxyAsSpecified
    CenterAnswers
