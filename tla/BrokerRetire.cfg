SPECIFICATION FairSpec
CONSTANTS
    a = a  n1 = n1  n2 = n2  n3 = n3  w1 = w1  None = None
    Sessions = {a}
    Requests = {n1, n2, n3}
    Workers = {w1}
    SessionOf <- OneSession
    Urgent = {}
    Openers = {}
    Capacity = 1
PROPERTY RetirementEnds
CHECK_DEADLOCK FALSE
