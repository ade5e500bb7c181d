SPECIFICATION MspFairSpec
CONSTANTS
    None = None  Host = Host  t1 = t1
    Chats = {t1}
    Sends = {}
    Natives = {1, 2}
    MaxWakes = 1
    MaxAsks = 1
PROPERTY RequestsAreAnswered
CHECK_DEADLOCK FALSE
