\* Groups that report, fall silent, are deleted and report again; mcenter has memory
\* for two of them at a time: what the searches answer, and that known groups stay
\* listed.
CONSTANTS
    Groups = {1, 2, 3, 4}
    Objs = {o1, o2}
    NoObj = noobj
    NoName = noname
    ValidIsps <- MCValidIsps
    Isps <- MCIsps
    Areas = {1, 2}
    Requests <- MCRequests
    IspOf <- MCIspOf
    AreaOf <- MCAreaOf
    Reports <- MCReports
    Fds = {4}
    Closed = closed
    GroupExpire = 1
    LinkExpire = 0
    MaxListed = 2
    Silent = TRUE
    FreedName = {"intact", "overwritten"}
SPECIFICATION Spec
SYMMETRY MCSymmetry
INVARIANTS
    TypeOK
    AnswerServesBoth
    ExactIspFirst
    NoGroupOnlyIfNone
    ListedWhileKnown
