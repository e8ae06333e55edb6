SPECIFICATION Spec
CONSTANTS
    b1 = b1  q1 = q1  t1 = t1  p0 = p0  p1 = p1  en = en  de = de
    BindingId = {b1}
    QueryId = {q1}
    Column = {"a", "b"}
    Schema <- Schemas
    Value = {1, 2}
    MaxRows = 2
    Deliverable <- FewResults
    Fields = {{"a"}}
    Definition <- OneImage
    TemplateRef = {t1}
    Param = {p0}  InitParam = p0
    Locale = {en}  InitLocale = en
    Blob = {1, 2}
    Aggregate <- SumOf
    BlobSize <- EqualSizes
    Absent = Absent  NoResult = NoResult  NoDefinition = NoDefinition
    NoTemplate = NoTemplate  NoOrder = NoOrder  NoContent = NoContent
    NoEntry = NoEntry  NoLocale = NoLocale
INVARIANT
    UnchangedIsSame
