SPECIFICATION PartSpec
CONSTANTS
    docA = docA  docB = docB  a1 = a1  bb = bb  s1 = s1  s2 = s2
    Down = Down  NoPart = NoPart  NoRecipe = NoRecipe
    NoTask = NoTask  NoWait = NoWait  NoFile = NoFile
    Doc = {docA, docB}
    FirstDoc = docA
    Saved <- SavedA
    Binding = {a1, bb}
    Home <- HomeAB
    Source = {s1, s2}
    MaxOpen = 1
    MaxQueue = 1
    MaxCommands = 3
    MaxDisturbed = 1
    o1 = o1  t1 = t1  t2 = t2
    Origin = {o1}
    Task = {t1, t2}
    NoEntry = NoEntry  NoData = NoData
    Versions = 1
    Documents = 2
    Redefinitions = 1
INVARIANT
    PollingSound
PROPERTIES
    ChangesSettle
    PollingStops
CHECK_DEADLOCK FALSE
