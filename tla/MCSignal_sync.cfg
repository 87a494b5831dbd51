\* One user, who may be logged in at two login processes, whose links to the
\* dispatcher come and go.  A link that does not close expires in a second.
CONSTANTS
    Users = {7}
    LoginFds = {4}
    DispFd = 3
    LinkCheckInterval = 1
    LinkExpire = 0
    Logins = {p1, p2}
    Gone = gone
    DispFds = {7, 8}
    AskedUids = {7}
    MaxInFlight = 1
SPECIFICATION FairSpec
PROPERTY
    DispatcherLearns
