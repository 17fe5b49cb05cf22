SPECIFICATION Spec
CONSTANTS
    MaxId = 3
    MaxTime = 2
    MaxChanges = 2
    Limit = 1
CHECK_DEADLOCK FALSE
INVARIANTS
    EventsOnceUnlessCursorMoved
    CommentsOnce
    PagesErrOnlyByTraffic
