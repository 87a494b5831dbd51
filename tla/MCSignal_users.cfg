\* One user and uid 0, either of which any client may write, known or not; two
\* descriptors at one login process: links expire, users log in again on a second
\* link or under the other uid, and descriptors are given to the next client.
CONSTANTS
    Users = {7}
    LoginFds = {4, 5}
    DispFd = 3
    LinkCheckInterval = 1
    LinkExpire = 1
    Logins = {p1}
    Gone = gone
    DispFds = {7}
    AskedUids = {0, 7}
    MaxInFlight = 2
SPECIFICATION Spec
INVARIANT
    ReachesUser
