SPECIFICATION HistorySpec
CONSTANTS
    InitialCredits = 2
    RollingCredits = 2
    QueueBudget = 1
    EventQueue = 1
    ClientQueue = 1
    WriterQueue = 1
    MaxPackets = 2
    MaxEpoch = 1
    MaxChanges = 1
    MaxControls = 1
    MaxFaults = 1
    None = None
INVARIANTS CreditExact EligibleEpoch SteadyRepaired
CHECK_DEADLOCK FALSE
