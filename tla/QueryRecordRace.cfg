CONSTANTS
    ownTiming = ownTiming
    otherFeedback = otherFeedback
    Timings = {ownTiming}
    Feedbacks = {otherFeedback}
    Local = {ownTiming}
    Polls = 2
    HighestRate = 1
    MaxReservations = 1
SPECIFICATION Spec
INVARIANTS TypeOK Settled LateFollowsTasks
PROPERTIES WithdrawnStillCharged
CHECK_DEADLOCK FALSE
