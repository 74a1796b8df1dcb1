SPECIFICATION FairSpec
CONSTANTS
    MaxOutput = 1
PROPERTIES TriesAgain
CHECK_DEADLOCK FALSE
