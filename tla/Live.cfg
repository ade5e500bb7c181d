SPECIFICATION FairSpec
CONSTANTS
    Components = {"rpc", "sdk", "acp", "msp wakes", "msp asks"}
    None = None
    s1 = s1  s2 = s2  p1 = p1  p2 = p2  t1 = t1  t2 = t2  c1 = c1  k1 = k1  x1 = x1
    Sessions = {s1, s2}
    Procs = {p1, p2}
    Calls = {t1, t2}
    Closers = {c1}
    Callbacks = {k1}
    Senders = {}
    Scopes = {x1}
    MaxCalls = 2
    MaxCloses = 1
    MaxTurns = 1
    b1 = b1  u1 = u1  u2 = u2
    Sdks = {b1}
    Turns = {u1, u2}
    MaxLines = 1
    MaxSwings = 2
    MaxEvents = 1
    a1 = a1  a2 = a2
    Acps = {a1, a2}
    Prompts = {t1, t2}
    Enders = {}
    Prints = {x1}
    MaxChunks = 1
    Host = Host
    Chats = {t1, t2}
    Sends = {}
    Natives = {1, 2}
    MaxWakes = 1
    MaxAsks = 1
PROPERTIES ComesToRest BridgesEnd StoppedTurnsEnd TurnsReturn
CHECK_DEADLOCK FALSE
