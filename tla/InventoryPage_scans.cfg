\* Two scans of a device, the second with a page and its browsers.
\* Six events are the most such a run emits: a stream just holds them, as the
\* real one holds those of every run.  A poll stands for two seconds: a lost viewer is
\* back after one, and three without a stream close the page.
SPECIFICATION PageRunSpec
CONSTANTS
    Parts <- OneByOne
    MaxScans = 2
    MaxFailures = 2
    MaxListItems = 3
    Watched <- WatchedParts
    Viewers = {v1, v2}
    EventBuffer = 6
    Retry = 1
    Idle = 3
    MaxDrops = 1
    Never = Never
INVARIANTS CollectionTypeOK ChangesExplained PageTypeOK StreamFromStart
PROPERTIES FoundAgain EndIsShown
CHECK_DEADLOCK FALSE
