SPECIFICATION Spec
CONSTANTS
    w1 = w1
    w2 = w2
    Worker = {w1, w2}
    OneShot = {}
    mail = mail
    chat = chat
    Channel = {mail, chat}
    MaxAttempts = 2
    Lease = 1
    Backoff <- MCBackoff
    MaxBackoff = 2
    BatchSize = 2
    EventKeep = 1
    MaxEvents = 1
    MaxCrashes = 0
INVARIANTS
    CancelJustified
    IInv
SYMMETRY WorkersAndChannels
