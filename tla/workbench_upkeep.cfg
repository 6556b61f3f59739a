CONSTANTS
    guide = guide
    notes = notes
    Documents = {guide, notes}
    NoDocument = NoDocument
    MaxCalls = 3
    Shown = 1
    Queries = {guide, notes}
    NoQuery = NoQuery
    Hits = 2
    Notes = {guide, notes}
    NoNote = NoNote
    OnDiff = {guide}
    MaxSteps = 2
    Depth = 2
    MaxListings = 4
    MaxNews = 2
    MaxVersion = 6
    Controls = {"tree", "viewer"}
    Finds <- MCFinds
    Deeds <- MCDeeds
    MaxStrokes = 4
SPECIFICATION MCSpec
CHECK_DEADLOCK FALSE
INVARIANT ReviewIsCurrent
INVARIANT TreeIsLoaded
INVARIANT DialogsHold
PROPERTY ListBecomesCurrent
PROPERTY ResumeYields
PROPERTY FocusIsKept
