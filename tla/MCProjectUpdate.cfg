SPECIFICATION FairSpec
CONSTANTS
    Owned = {"api"}
    Generated = {"cmake"}
    Templates = {"main"}
    Installed <- MCInstalled
    Candidate <- MCCandidate
    Found <- MCFound
    Sorted <- MCSorted
    Updaters = {u1, u2}
    NoOne = NoOne
    MaxEdits = 1
    MaxFaults = 1
INVARIANTS TypeOK EditsAreKept OnlyEditsConflict
PROPERTIES RefinesAtomicUpdate RecoveryCompletes
