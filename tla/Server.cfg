\* Two requests on their way through one backend.
SPECIFICATION Spec
CONSTANTS
    Requests = {r1, r2}
    Names = {n1, n2}
    r1 = r1
    r2 = r2
    n1 = n1
    n2 = n2
INVARIANT AnswerTells
PROPERTY RequestsAnswered
CHECK_DEADLOCK FALSE
