SPECIFICATION Spec
CONSTANTS
    w1 = w1
    w2 = w2
    Worker = {w1, w2}
    OneShot = {w2}
    Channel = {"mail"}
    MaxAttempts = 2
    Lease = 2
    Backoff <- MCBackoff
    MaxBackoff = 2
    BatchSize = 2
    EventKeep = 1
    MaxEvents = 2
    MaxCrashes = 1
INVARIANTS
    TypeOK
    SendOncePerAttempt
    LeaseExclusive
    NoEarlyDeath
    DeathReported
    NoOrphanRow
PROPERTIES
    TerminalStable
    KeepsPromise
