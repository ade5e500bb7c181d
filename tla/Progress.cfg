SPECIFICATION ProgressFairSpec
CONSTANTS
    Components = {"broker", "job"}
    None = None
    a = a  first = first  urgent = urgent  n1 = n1  w1 = w1  w2 = w2
    Sessions = {a}
    Requests = {first, urgent, n1}
    Workers = {w1, w2}
    SessionOf <- OneTerminal
    Urgent = {urgent}
    Openers = {first}
    Capacity = 3
    j1 = j1  c1 = c1
    Jobs = {j1}
    Clients = {c1}
    MaxAttempts = 2
    MaxCancels = 1
    MaxBeats = 1
    MaxAborts = 1
INVARIANT FirstPromptFirst
PROPERTIES CallsReturn ReturnedJobsSettle
CHECK_DEADLOCK FALSE
