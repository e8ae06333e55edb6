SPECIFICATION Spec
CONSTANTS
    docA = docA  docB = docB  a1 = a1  bb = bb  s1 = s1  s2 = s2
    Down = Down  NoPart = NoPart  NoRecipe = NoRecipe
    NoTask = NoTask  NoWait = NoWait  NoFile = NoFile
    Doc = {docA, docB}
    FirstDoc = docA
    Saved <- SavedA
    Binding = {a1, bb}
    Home <- HomeAB
    Source = {s1, s2}
    MaxOpen = 1
    MaxQueue = 1
    MaxCommands = 4
    MaxDisturbed = 1
INVARIANT
    NothingForeign
CHECK_DEADLOCK FALSE
