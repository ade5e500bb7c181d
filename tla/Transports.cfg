SPECIFICATION TransportsSpec
CONSTANTS
    Components = {"rpc", "steer", "sdk", "acp", "msp"}
    None = None
    s1 = s1  s2 = s2  p1 = p1  p2 = p2  t1 = t1  t2 = t2  c1 = c1  k1 = k1  d1 = d1  x1 = x1  x2 = x2
    Sessions = {s1, s2}
    Procs = {p1, p2}
    Calls = {t1, t2}
    Closers = {c1}
    Callbacks = {k1}
    Senders = {d1}
    Scopes = {x1, x2}
    MaxCalls = 2
    MaxCloses = 1
    MaxTurns = 3
    b1 = b1  b2 = b2  u1 = u1  u2 = u2
    Sdks = {b1, b2}
    Turns = {u1, u2}
    MaxLines = 1
    MaxSwings = 2
    MaxEvents = 1
    Budgets <- SdkBudgets
    a1 = a1  a2 = a2
    Acps = {a1, a2}
    Prompts = {t1, t2}
    Enders = {c1}
    Prints = {x1}
    MaxChunks = 2
    Host = Host  m1 = m1
    Chats = {c1}
    Sends = {m1}
    Natives = {1, 2, 3}
    MaxWakes = 1
    MaxAsks = 0
SYMMETRY Symmetry
INVARIANTS TurnUsesItsScope NoUnobservedTurn OneReader ClosedOnce
    OnlyOverwrittenLeak AnswersHaveNoGaps SteersAreAnswered
PROPERTIES ExpirySparesCalls OnlyLateLaunchesEscape TakenIsLeftAlone
CHECK_DEADLOCK FALSE
