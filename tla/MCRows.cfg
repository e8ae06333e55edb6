SPECIFICATION PartSpec
CONSTANTS
    b1 = b1  q1 = q1  t1 = t1  p0 = p0  en = en  de = de
    BindingId = {b1}
    QueryId = {q1}
    Column = {"a", "b"}
    Schema <- Schemas
    Value = {1, 2}
    MaxRows = 2
    Deliverable <- FewResults
    Fields = {{"a"}}
    Definition <- AllKinds
    TemplateRef = {t1}
    Param = {p0}  InitParam = p0
    Locale = {en, de}  InitLocale = en
    Blob = {}
    Aggregate <- SumOf
    BlobSize <- NoSizes
    DiffKeys <- KeysDeclared
    Absent = Absent  NoResult = NoResult  NoDefinition = NoDefinition
    NoTemplate = NoTemplate  NoOrder = NoOrder  NoContent = NoContent
    NoEntry = NoEntry  NoLocale = NoLocale  NoQuery = NoQuery
INVARIANTS
    CacheFresh
    NumberingAgrees
    DeliveryOrderIrrelevant
    RowsAccounted
    AffectedComplete
    OrderIsReal
PROPERTY
    ReportExact
