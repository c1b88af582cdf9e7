SPECIFICATION ServiceSpec
CONSTANTS
    Pid = {1, 2, 3}
    NoPid = 0
    MaxStarts = 3
    MaxCrashes = 1
    MaxVersion = 2
    MaxRows = 1
    w1 = w1
    w2 = w2
    Writer = {w1, w2}
    v1 = v1
    Visitor = {v1}
    bark = bark
    mail = mail
    Channel = {bark, mail}
    Interval = {30, 60, 90}
    EnvToken = FALSE
    MaxCommits = 2
    r1 = r1
    r2 = r2
    Reader = {r1, r2}
    macbook = macbook
    tablet = tablet
    MacBook = {macbook}
    Desktop = {}
    Tablet = {tablet}
    Choosable = {{}, {"mac"}, {"macbook-pro", "ipad"}}
    MaxScans = 2
    MaxChoices = 1
INVARIANTS
    OneServer
    RuntimeNamesServer
    GuardSeesServer
    VersionMeansUpgraded
    RestoreAtomic
    FreshVerdict
    BoundHasToken
    CountWasTrue
PROPERTIES
    UpgradeKeepsRows
    ChangesSurvive
SYMMETRY ServiceSymmetry
CHECK_DEADLOCK FALSE
