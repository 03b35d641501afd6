SPECIFICATION Spec
CONSTANTS
    SCALE = 2
    c1 = c1
    c2 = c2
    Cloids <- MC_Cloids
    FillIds <- MC_FillIds
    MaxQty = 2
    Prices <- MC_Prices
    Fees <- MC_Fees
INVARIANT
    TrackedPositionIsTruth
