SPECIFICATION FairSpec
CONSTANTS
    s1 = s1  s2 = s2  p1 = p1  p2 = p2  t1 = t1  t2 = t2  c1 = c1  k1 = k1  x1 = x1  None = None
    Sessions = {s1, s2}
    Procs = {p1, p2}
    Calls = {t1, t2}
    Closers = {c1}
    Callbacks = {k1}
    Senders = {}
    Scopes = {x1}
    MaxCalls = 2
    MaxCloses = 1
    MaxTurns = 1
PROPERTY ProcessesEnd
CHECK_DEADLOCK FALSE
