SPECIFICATION PartSpec
CONSTANTS
    Wide = 999
    NoGeometry = NoGeometry
    NoMask = NoMask
    NoScheme = NoScheme  NoHost = NoHost  NoLocator = NoLocator
    NoRef = NoRef  NoOrigin = NoOrigin  NoDoc = NoDoc
    NotFinite = NotFinite  NoNumber = NoNumber  NoSchema = NoSchema
    NoDefault = NoDefault  PropNull = PropNull
    Tried <- SomeValues
    NoTree = NoTree  NoFunction = NoFunction
    Alphabet <- SortedPieces
    NoLabel = NoLabel  NoValue = NoValue  NoSet = NoSet
    Results <- SomeResults
INVARIANTS
    BarcodeSound
    SymbolSound
    SourcesSound
    DocFits
    ExpressionSound
    LibrarySurvives
    EveryRecordKept
PROPERTY
    KeepsArtwork
