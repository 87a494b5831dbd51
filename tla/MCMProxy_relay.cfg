\* Two streams, created twice in all, two users at two addresses, one Msg
\* in the pool.
CONSTANTS
    Streams = {s1, s2}
    Uids = {u1, u2}
    Addrs = {a1, a2}
    MSG_POOL_SIZE = 1
    LoadMax = 10
    MaxSessions = 2
    Blank = blank
    NotIn = notin
SPECIFICATION Spec
SYMMETRY MCSymmetry
INVARIANTS
    TypeOK
    StreamsOwnSessions
    MembersReached
PROPERTY
    RelaysWhatFits
