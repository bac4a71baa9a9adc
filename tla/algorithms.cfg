SPECIFICATION Spec
CONSTANTS
    Classes = {"metals", "gold", "equity", "forex", "crypto", "spot_crypto"}
    IofLevels = {29, 30, 60, 61, 80, 81}
    Hursts = {44, 45, 55, 56}
    Wins = {0, 27, 32, 37, 38}
    Totals = {32, 45, 75, 77}
    Symbols = {"SPY", "QQQ", "AAPL", "X"}
    Scale = 200
    Posteriors = {100, 139, 140, 160, 196}
    Averages = {0, 1, 2, 3}
    LotPrice = 100
    Accounts = {1000, 1099, 3000, 25000}
    Lot = 1000
    MinQtys = {0, 1, 2000}
    Prices = {200, 201, 202}
    Sizes = {0, 1, 3}
    Lots = {0, 1, 2, 5}
    Depth = 3
    Params = {1, 2}
    Bars = 7
    InSample = 3
    OutSample = 2
    GridWinRates = {138, 139}
    Sharpes = {0, 6, 10}
    Trades = {0, 9, 10}
    BatchMax = 2
    MaxOrders = 5
    None = None
INVARIANTS
    EvidenceDecides
    SizeKeepsLimits
    FillsAreFair
    PublishedIsEarned
    BatchesInOrder
CHECK_DEADLOCK FALSE
