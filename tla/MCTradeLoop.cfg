SPECIFICATION LoopSpec
CONSTANTS
    SCALE = 2
    Cloids <- MC_Cloids
    FillIds <- MC_FillIds
    max_position_qty = 3
    max_notional = 15
    dd_num = 1
    dd_den = 4
    initial_cash = 20
    taker_fee_ppm = 100000
    Snapshots <- MC_Snapshots
    Quantities <- MC_Quantities
    fast_n = 2
    slow_n = 3
    order_qty = 2
CHECK_DEADLOCK FALSE
INVARIANTS
    RollingSumsExact
    WithinTarget
    KilledWhenDue
    MetricsAgree
PROPERTIES
    UsesGateway
