SPECIFICATION FairSpec
CONSTANTS
    Owned = {"api"}
    Generated = {"cmake"}
    Templates = {"main"}
    Installed <- MCInstalled
    Candidate <- MCCandidate
    Found <- MCFound
    Sorted <- MCSorted
    Updaters = {u1, u2}
    NoOne = NoOne
    MaxEdits = 0
    MaxFaults = 1
PROPERTY InterruptedUpdateIsRestored
