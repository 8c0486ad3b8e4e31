SPECIFICATION Spec
CONSTANTS
    first = first
    again = again
    run1 = run1
    run2 = run2
    Ops = {first, again}
    Correlations = {run1, run2}
    Members = 2
    MaxRepairs = 1
    MaxEpoch = 2
INVARIANTS
    TypeOK
    JournalKept
    AnswerDurable
    EvidenceKept
    AnsweredOnce
CHECK_DEADLOCK FALSE
