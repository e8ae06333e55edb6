SPECIFICATION Spec
CONSTANTS
    b1 = b1  q1 = q1  r1 = r1  r2 = r2  c1 = c1  c2 = c2
    p0 = p0  p1 = p1  e1 = e1  buf1 = buf1  buf2 = buf2  s1 = s1
    NoRecipe = NoRecipe  NoResult = NoResult  NoDefinition = NoDefinition
    NoState = NoState  NoStamp = NoStamp
    NoBuffer = NoBuffer  NoPending = NoPending  NoSet = NoSet
    BindingId = {b1}
    QueryId = {q1}
    Recipe = {r1, r2}
    Content = {c1, c2}
    Param = {p0, p1}
    InitParam = p0
    Expr = {e1}
    Definition <- OneQueryDefinition
    Record = {0, 1}
    Uncoercible <- BadSecondRecord
    Buffer = {buf1, buf2}
    Decode <- OneWay
    Columns = 1
    SetName = {s1}
INVARIANT
    NeverClobbered
