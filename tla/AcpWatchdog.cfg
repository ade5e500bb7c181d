SPECIFICATION AcpSpec
CONSTANTS
    None = None  a1 = a1  t1 = t1  t2 = t2  f1 = f1
    Acps = {a1}
    Prompts = {t1, t2}
    Enders = {}
    Prints = {f1}
    MaxChunks = 1
PROPERTY WatchdogSparesOthers
CHECK_DEADLOCK FALSE
