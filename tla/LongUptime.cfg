SPECIFICATION DeliverySpec
CONSTANTS
    Events = {e1, e2}
    FlushInterval = 2
    RetryWait = 1
    LongUptime = TRUE
PROPERTY RetryWaits
