SPECIFICATION FairSpec
CONSTANTS
    MaxDue = 2
    MaxPipes = 2
    MaxArrived = 2
    BUFF = 3
    Keys <- MCKeys
    Values <- MCValues
    Checked <- MCDefaulted
    Defaulted <- MCDefaulted
    Files <- MCFiles
    Argvs <- MCArgvs
INVARIANTS TypeOK FlagFollowsLink OptionsAsWritten LinesAreWhole
PROPERTIES LossIsAnswered KeepsPublishing StopIsHeard
\* the programs end
CHECK_DEADLOCK FALSE
