SPECIFICATION FairSpec
CONSTANTS
    Hours = 3
    HourMinutes = 2
    Minute = 2
    Texts <- MCTexts
    DailyMins = {3}
    Intervals = {0, 2}
INVARIANTS TypeOK ParsedInOrder AimsAtNextSlot DueAtSlots WindowIsAnArc
PROPERTY FindsBack
