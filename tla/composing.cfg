CONSTANTS
    x = x
    y = y
    Concerns = {"inputs", "rendered", "source", "highlights", "selection", "diff"}
    Anchors = {x, y}
    Panes = {1}
    Cautions = {"one_pane", "workspace", "saves", "deletes", "reanchors", "selections"}
    MaxThoughts = 3
    MaxVersion = 2
    None = None
    New = New
    Blocks = {x, y}
    Comments = {1, 2, 3}
    BlockOf <- MCBlockOf
    Published = {1}
    Viewers = {"html", "markdown"}
    MaxActions = 3
    MaxEtag = 2
    MaxLine = 3
    Saved <- MCSaved
    MaxGestures = 4
    MaxTyped = 2
    NoLines = NoLines
    NoPress = NoPress
    Contents = {1, 2}
    Themes = {1, 2}
    Plain = Plain
    MaxChanges = 3
    MaxRow = 3
    DiffSaved <- MCDiffSaved
    RowSets <- MCRowSets
    MaxDrafts = 2
    MaxWritten = 1
    MaxDiffs = 2
SPECIFICATION MCSpec
CHECK_DEADLOCK FALSE
INVARIANT WritingIsKept
INVARIANT CardsFollow
INVARIANT LinesShowTheInputs
PROPERTY MarkersDoAsTheySay
 
PROPERTY ExchangeEnds
