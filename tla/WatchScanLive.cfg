SPECIFICATION FairSpec
CONSTANTS
    s1 = s1
    mac = mac
    ipad = ipad
    air = air
    mini = mini
    Scanner = {s1}
    Sku = {air}
    Listing = {mac, ipad}
    Shelf <- MCShelf
    DetailSku = {air}
    EventKeep = 4
    MaxWatches = 1
    MaxMoves = 2
    MaxEdits = 1
    MaxAborts = 1
PROPERTY StockIsNoticed
