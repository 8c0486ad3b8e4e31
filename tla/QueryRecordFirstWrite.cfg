CONSTANTS
    ownTiming = ownTiming
    otherFeedback = otherFeedback
    Timings = {ownTiming}
    Feedbacks = {otherFeedback}
    Local = {ownTiming}
    Polls = 2
    HighestRate = 1
    MaxReservations = 1
SPECIFICATION Spec

PROPERTIES FirstWriteKept
CHECK_DEADLOCK FALSE
