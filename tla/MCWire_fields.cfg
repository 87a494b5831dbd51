\* Two clients and two contents; three or four messages of their own accord.
CONSTANTS
    Ends = {e1, e2}
    Seeds = {1, 2}
    MaxSaid <- MCMaxSaid
SPECIFICATION Spec
INVARIANT
    AnswersAreTrue
SYMMETRY Symmetry
CHECK_DEADLOCK FALSE
