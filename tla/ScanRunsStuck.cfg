SPECIFICATION Spec
CONSTANTS
    daemon = daemon
    cli = cli
    request = request
    shell = shell
    Process = {daemon}
    Daemon = daemon
    Caller = {request}
    Home <- MCHome
    MaxRuns = 2
    MaxFaults = 1
    MaxCrashes = 0
INVARIANT NoRunIsStuck
