SPECIFICATION ToolSpec
CONSTANTS
    MaxOutput = 3
    Writers = {w1, w2}
    Tests = {t1}
    PerTest = 3
INVARIANTS MemoryStays LastWordsRead FixersAreRight CountsAreDistinct
PROPERTIES FailureEndsSsh NobodyWaitsForever
\* the programs return
CHECK_DEADLOCK FALSE
