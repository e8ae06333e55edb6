SPECIFICATION RemoteSpec
CONSTANTS
    Origin = {o1}
    Task = {t1, t2}
    NoEntry = NoEntry  NoData = NoData
    Versions = 1
    Documents = 2
    Redefinitions = 1
INVARIANT
    TablesOfThisDocument
