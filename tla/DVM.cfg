CONSTANTS
    Runs = {"j1", "j2"}
    JobID <- MCJobID
    Unknown = {}
    Stops = {"s"}
    StopID <- MCStopID
    Subscribers = {"token", "any"}
    DeviceOf <- MCDeviceOf
    Generic = {"any"}
    Window <- MCWindow
    Delta <- MCDelta
    Trades = {"t1", "t2", "t3"}
    At <- MCAt
    Price <- MCPrice
    History = {"t1"}
    Arrivals <- MCArrivals
    MaxExpired = 1
    MaxRepeats = 2
    None = "none"
SPECIFICATION Spec
INVARIANT EntriesRun
INVARIANT ResponsesFound
INVARIANT AlertsSpaced
PROPERTY JobsAnswered
CHECK_DEADLOCK FALSE
