SPECIFICATION FairSpec
CONSTANTS
    w1 = w1
    w2 = w2
    Worker = {w1, w2}
    OneShot = {}
    Channel = {"mail"}
    MaxAttempts = 3
    Lease = 2
    Backoff <- MCBackoff
    MaxBackoff = 2
    BatchSize = 2
    EventKeep = 2
    MaxEvents = 1
    MaxCrashes = 2
PROPERTY EveryDeliverySettles
