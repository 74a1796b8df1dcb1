\* A tick is two seconds, the counter has four bits.
SPECIFICATION DriverSpec
CONSTANTS
    Readers = {r1, r2}
    JIFFIES = 16
    HOLD = 5
    REST = 6
    PULSE = 1
    LOW = 6
    PAUSE = 7
INVARIANTS NoPulseIsCut NoFrameIsCut
PROPERTIES SensorRests ReadingIsHeld
