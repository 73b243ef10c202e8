CONSTANTS
    s1 = s1
    s2 = s2
    Subjects <- MCSubjects
    Intervals <- MCIntervals
    StockInterval = 2
    Cap = 2
    MaxCuts = 1
SPECIFICATION AlertSpec
INVARIANTS
    AlertsAreSpaced
PROPERTIES
    EpisodeAnnounced
    LowIsReported
