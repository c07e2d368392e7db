CONSTANTS
    SnapshotIds = {s1, s2, s3}
    SnapshotMax = 2
    NoId = NoId
    Windows = {w1, w2}
    Captures = {c1}
    Tokens = {t1, t2, t3, t4}
    Ring = 2
    TokenTTL = 1
    NoToken = NoToken
    Extra = 2
    Chosen = {TRUE, FALSE}
    Labels <- Labelled
    Height = 3
    Diffed <- SomeTrees
    Viewed <- SeenTrees
    Asked = {{}, {7}}
    FilterSets <- SomeFilters
    Limits = {1, 2, 9}
    Rects <- SomeRects
    Desks <- TwoAbove
    Bars <- TitleBars
    Attempts <- SomeAttempts
    NoName = ""
    Compares <- ByOperator
    Words <- WordsOf
    Quoted = {"quote"}
    NoCursor = NoCursor
    DefaultDepth = 1
    MaxDepth = 2
    Screen <- SmallScreen
    LeftMargin = 1
    RightMargin = 2
    SafeWidth = 4
    TitleOffset = 2
SPECIFICATION Spec
INVARIANTS
    SnapshotsKept
    BaselinesKept
    CallsArriveWhole
    DiffsTell
    PagesCoverTheView
    DerivedSelectorsFind
    RaiseHitsTheWindow
CHECK_DEADLOCK FALSE
