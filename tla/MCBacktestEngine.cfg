SPECIFICATION Spec
CONSTANTS
    SCALE = 1
    initial_cash = 100
    taker_fee_ppm = 100000
    maker_fee_ppm = 50000
    latency_ms = 1
    funding_interval_ms = 2
    funding_rate_ppm = 100000
    order_qty = 2
    Snapshots <- MC_Snapshots
    Trades <- MC_Trades
    Ticks <- MC_Ticks
    Intents <- MC_Intents
    MaxEvents <- MC_MaxEvents
    MaxIntents = 2
CHECK_DEADLOCK FALSE
INVARIANTS
    QuantitiesAccountedFor
    LastInLine
    OneWorkingOrder
PROPERTIES
    OrdersFillWhenDue
    FundingChargedOnce
