CONSTANTS
    c1 = c1
    c2 = c2
    Config <- MCConfig
    DozeMode = DozeMode
    None = None
SPECIFICATION FairSpec
INVARIANTS TypeOK VsyncRunsWhenWanted RequestIsTracked NoLostSignal
PROPERTIES ChangeIsConfirmed
CHECK_DEADLOCK TRUE
