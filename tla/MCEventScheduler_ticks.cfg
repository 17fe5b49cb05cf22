SPECIFICATION Spec
CONSTANTS
    Events = {e1}
    NoEvent = NoEvent
    MinLikes = 1
    Limit = 1
    Period = 2
    Lead = 1
    Gap = 1
    MaxTime = 4
    MaxLikes = 1
    MaxFailures = 1
INVARIANT WaitingEventsAreScheduled
PROPERTIES
    ScheduledChangesAreDue
    DueEventsLeaveReadyUnlessFailed
    EndedEventsCloseUnlessFailed
    DueEntriesAreRemoved
    LikedEventsAreSelected
