CONSTANTS
    NONE = NONE
    MaxStarts = 2
    MaxCmds = 1
    MaxFaults = 1
    MaxFailures = 1
SPECIFICATION FairSpec
CHECK_DEADLOCK FALSE
INVARIANTS QuietAfterStop RunningMeansBeating AloneOwnsDevice
PROPERTIES StaleDeviceReplaced SignalEnds
