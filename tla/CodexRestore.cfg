SPECIFICATION Spec
CONSTANTS
    s1 = s1  s2 = s2  t1 = t1  t2 = t2  c1 = c1  d1 = d1  x1 = x1  None = None
    Sessions = {s1, s2}
    Turns = {t1, t2}
    Closers = {c1}
    Senders = {}
    Scopes = {x1}
    Budgets <- RestoreBudgets
SYMMETRY Symmetry
INVARIANT TeardownRestores
CHECK_DEADLOCK FALSE
