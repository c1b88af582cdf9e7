SPECIFICATION Spec
CONSTANTS
    s1 = s1
    mac = mac
    ipad = ipad
    air = air
    mini = mini
    Scanner = {s1}
    Sku = {air}
    Listing = {mac}
    Shelf <- MCShelf
    DetailSku = {}
    EventKeep = 4
    MaxWatches = 1
    MaxMoves = 3
    MaxEdits = 1
    MaxAborts = 0
PROPERTY EveryAppearancePushed
