SPECIFICATION FairSpec
CONSTANTS
    s1 = s1  s2 = s2  t1 = t1  t2 = t2  c1 = c1  d1 = d1  x1 = x1  x2 = x2  None = None
    Sessions = {s1, s2}
    Turns = {t1, t2}
    Closers = {c1}
    Senders = {d1}
    Scopes = {x1, x2}
    Budgets <- LivenessBudgets
INVARIANTS TurnOwnsSession ProcessIsAccountedFor RetainedHasDeadline FollowUpWaits
PROPERTIES CloseCompletes TerminalsEnd
CHECK_DEADLOCK FALSE
