SPECIFICATION PartSpec
CONSTANTS
    Text = {1, 2}
    NoText = NoText  NoFooter = NoFooter
    Key = {1, 2}
    Name = {7}  Locale = {1}  NoKey = NoKey
    FlowBinding = FlowBinding  OtherBinding = OtherBinding
    Null = Null  NoBinding = NoBinding  NoMode = NoMode  NoScript = NoScript
    NoLocale = NoLocale  NoResult = NoResult
    Open = Open  Close = Close
    Base = {"x"}
    NoColumn = NoColumn  NoStory = NoStory
    CharWidth = 6  Padding = 4  RowHeight = 14
    NoGrid = NoGrid
INVARIANTS
    NonTallFits
    ContextCarries
    OverflowTold
    EveryRecordPrinted
    PlanIsFollowed
    PlaceholdersPaired
    RecordsApart
    OversetTrue
    GridEncloses
