SPECIFICATION Spec
CONSTANTS
    s1 = s1
    mac = mac
    ipad = ipad
    air = air
    mini = mini
    Scanner = {s1}
    Sku = {air, mini}
    Listing = {mac, ipad}
    Shelf <- MCShelf
    DetailSku = {air}
    EventKeep = 4
    MaxWatches = 1
    MaxMoves = 2
    MaxEdits = 2
    MaxAborts = 1
INVARIANT TypeOK
PROPERTIES
    PushJustified
    RestockPushed
    SoldOutIsReal
