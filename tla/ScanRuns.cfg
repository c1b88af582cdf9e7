SPECIFICATION FairSpec
CONSTANTS
    daemon = daemon
    cli = cli
    request = request
    shell = shell
    Process = {daemon, cli}
    Daemon = daemon
    Caller = {request, shell}
    Home <- MCHome
    MaxRuns = 2
    MaxFaults = 2
    MaxCrashes = 1
INVARIANTS
    TypeOK
    LockDiscipline
    RunsAreOwned
    FlagIsCleared
PROPERTIES
    KeepsScanPromise
    AbandonedIsDead
    LockIsFreed
    RunsEnd
