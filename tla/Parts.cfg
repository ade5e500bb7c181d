SPECIFICATION PartsSpec
CONSTANTS
    Components = {"job", "lease", "draft", "replies", "project"}
    Nobody = Nobody
    j1 = j1  c1 = c1  c2 = c2
    Jobs = {j1}
    Clients = {c1, c2}
    MaxAttempts = 2
    MaxCancels = 1
    MaxBeats = 1
    MaxAborts = 0
    MaxGeneration = 5
    MaxVersion = 4
    r1 = r1  r2 = r2  q1 = q1  q2 = q2
    Roots = {r1, r2}
    ReplyTurns = {q1, q2}
    MaxErrors = 1
    MaxRestarts = 2
    w1 = w1  w2 = w2
    Workers = {w1, w2}
    MaxHolds = 2
    MaxEdits = 2
    MaxDeaths = 1
SYMMETRY Symmetry
INVARIANTS IInv VerdictIsQuiet CancelledHasCause ResultMatchesVerdict
    NewerDraftStays OnePublisher ReleasedWithItsTurn UsersContentStays
PROPERTIES VerdictIsFinal CancelSticks ImplementsLifecycle ImplementsLease
CHECK_DEADLOCK FALSE
