SPECIFICATION TerminalsSpec
CONSTANTS
    Components = {"codex", "retained", "broker"}
    None = None
    s1 = s1  s2 = s2  t1 = t1  t2 = t2  c1 = c1  d1 = d1  x1 = x1  x2 = x2
    Objects = {s1, s2}
    Turns = {t1, t2}
    Closers = {c1}
    Senders = {d1}
    Scopes = {x1, x2}
    CodexBudgets <- CodexSafetyBudgets
    RetainedBudgets <- RetainedSafetyBudgets
    a = a  urgent = urgent  n1 = n1
    Sessions = {a}
    Requests = {urgent, n1, s1, s2}
    Workers = {t1, t2}
    SessionOf <- OneTerminal
    Urgent = {urgent}
    Openers = {}
    Capacity = 2
SYMMETRY Symmetry
INVARIANTS Invariants OneTransaction NothingLost InOrder InterruptsGoFirst
CHECK_DEADLOCK FALSE
