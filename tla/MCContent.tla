------------------------------ MODULE MCContent ------------------------------
(* Small instances of what one value becomes, in one run: a linear barcode   *)
(* (Barcode), a QR symbol (QrCode), the descriptors a session saves of its   *)
(* sources (SourceCatalog), a property of the document (PropertyValue), an   *)
(* expression read from its text and evaluated (Expression, ExprValue) and a *)
(* variable library (VariableLibrary).  A behaviour is of one part, and of   *)
(* one barcode, symbol or text.                                              *)
EXTENDS QrCode, SourceCatalog, ExprValue, VariableLibrary

LOCAL INSTANCE SequencesExt

VARIABLE part

-----------------------------------------------------------------------------
(* Linear barcodes.  Code 128 texts mix digits and a letter, with digit runs *)
(* of every length up to six, odd and even, before and after the letter, and *)
(* a character it has not; numbers cover every leading digit (its parity     *)
(* row) and every check digit, right and wrong, too short and not a number.  *)

Digit(d) == 48 + d
Code128Texts ==
    UNION {[1..n -> {Digit(1), Digit(2), 65}] : n \in 0..6}
    \cup {<<50,49,50,49,50,49,65>>, <<65,49,50,49,50,49,50,65>>, <<49, Wide>>}

\* The code tables can be read back.
ASSUME TablesDecode

Number12 == <<53,57,48,54,49,52,49,48,49,54,53,53>>
Numbers12 ==
    {<<Digit(f),57,48,54,49,52,49,Digit(a),Digit(b),54,53,Digit(c)>> :
        f \in 0..9, a \in {0,8}, b \in {1,7}, c \in {0,5}}
NumericTexts ==
    Numbers12 \cup {Append(Number12, Digit(k)) : k \in 0..9}
    \cup {<<>>, <<65>>, [Number12 EXCEPT ![3] = 65]}

\* QR payloads: none, one per symbol size up to version 6 and version 10
\* (where the count takes two bytes) filled to its last byte, two too long;
\* every mask once.
Payload(n) == [i \in 1..n |-> (i * 37 + n) % 256]
QrInputs ==
    {<<Payload(n), NoMask>> : n \in {0, 3, 14, 220, 300}}
    \cup {<<Payload(n), m>> : n \in {14, 15, 62, 107, 123}, m \in {2, 5}}
    \cup {<<Payload(5), m>> : m \in 0..7}
    \cup {<<Payload(213), 4>>}

-----------------------------------------------------------------------------
(* Sources: one of each kind, database targets with and without a secret in  *)
(* the DSN, remotes whose parameters differ only in where key ends and value *)
(* starts; and sidecars that agree, differ, lack and repeat.                 *)

LocatorOf(s, u, h, p) == [scheme |-> s, user |-> u, host |-> h, path |-> p]
HttpUrls == {LocatorOf("https", FALSE, "h", "p"), LocatorOf("https", FALSE, "h", "q"),
             LocatorOf("https", TRUE, "h", "p"), LocatorOf("ftp", FALSE, "h", "p"),
             LocatorOf(NoScheme, FALSE, "h", "p"), LocatorOf("https", FALSE, NoHost, "p")}
Databases == {LocatorOf("pg", TRUE, "h", "d"), LocatorOf("pg", FALSE, "h", "d"),
              LocatorOf(NoScheme, FALSE, "h", "d"), NoLocator}
ParamMaps == {<<>>, << <<(<<1>>), (<<2, 3>>)>> >>, << <<(<<1, 2>>), (<<3>>)>> >>,
              << <<(<<1>>), (<<2>>)>>, <<(<<3>>), (<<>>)>> >>}

Remote(u, f, p) == [kind |-> "remote", url |-> u, format |-> f, params |-> p]
Kinds ==
    {[kind |-> "inline", table |-> "t"], [kind |-> "file", name |-> "f"]}
    \cup {Remote(LocatorOf("https", FALSE, "h", "p"), f, p) : f \in {"csv", "json"}, p \in ParamMaps}
    \cup {Remote(u, "csv", <<>>) : u \in HttpUrls}
    \cup {[kind |-> "dbAttach", engine |-> e, dsn |-> d, target |-> t, ref |-> r] :
             e \in {"sqlite", "postgres"}, d \in Databases,
             t \in {NoLocator, LocatorOf(NoScheme, FALSE, "h", "d")}, r \in {NoRef, "vault"}}
    \cup {[kind |-> "governedExtract", location |-> u] : u \in HttpUrls}

ColumnOfType(n, t) == [name |-> n, type |-> t]
Documented(n, t, l) == [name |-> n, type |-> t, label |-> l]
LiveSchemas == {<<>>, <<ColumnOfType("a", "Int")>>, <<ColumnOfType("a", "Int"), ColumnOfType("b", "Text")>>}
Sidecars ==
    LET entries == {Documented(n, t, "L") : n \in {"a", "b", "c"}, t \in {"Int", "Text", NoDoc}}
    IN  UNION {[1..k -> entries] : k \in 0..2}

\* They are sources, schemas and sidecars.
ASSUME Kinds \subseteq SourceKind /\ LiveSchemas \subseteq Seq(Field) /\ Sidecars \subseteq Seq(ColumnMetadata)

-----------------------------------------------------------------------------
(* Values of every kind a column delivers, and targets of every type.        *)

n1 == N(508)
SomeValues ==
    {Number(0), Number(508), Number(762), Number(5080), Number(NotFinite), Bool(TRUE), Date(3), Null,
     Bytes, Error}
    \cup {Pieces(p) :
             p \in {<<>>, <<n1>>, <<N(NotFinite)>>, <<n1, W("mm")>>, <<n1, W("cm")>>, <<n1, W("%")>>,
                    <<W("Red")>>, <<W("#f00")>>, <<W("swatch:"), W("Red")>>, <<W("swatch:")>>, <<W(" ")>>,
                    <<W("solid")>>, <<W("yes")>>, <<n1, W(","), n1, W("mm")>>,
                    <<W("["), n1, W(","), N(0), W(","), n1, W(","), n1, W("mm"), W("]")>>}}

Typed(t) ==
    [type |-> t, nullable |-> FALSE, min |-> NoDefault, max |-> NoDefault, default |-> NoDefault,
     integer |-> FALSE, percent |-> FALSE, members |-> {}, maxLength |-> NoDefault]
ListOf(n) == [t |-> "list", list |-> [i \in 1..n |-> 0]]

\* Schema rows, each with a value the document may hold there.
Targets ==
    {<<NoSchema, Number(0)>>, <<Typed("bool"), Bool(TRUE)>>,
     <<[Typed("bool") EXCEPT !.nullable = TRUE], Bool(TRUE)>>,
     <<[Typed("number") EXCEPT !.min = 0, !.max = 1000, !.percent = TRUE, !.default = Number(508)], Number(0)>>,
     <<[Typed("number") EXCEPT !.integer = TRUE], Number(0)>>,
     <<[Typed("length") EXCEPT !.min = 0, !.max = 1500], Number(0)>>,
     <<Typed("color"), Pieces(<<W("Red")>>)>>,
     <<[Typed("enum") EXCEPT !.members = {<<W("solid")>>}], Pieces(<<W("solid")>>)>>,
     <<[Typed("text") EXCEPT !.maxLength = 1], Pieces(<<>>)>>,
     <<Typed("ref"), Pieces(<<W("Red")>>)>>, <<Typed("asset"), Pieces(<<W("Red")>>)>>,
     <<Typed("bounds"), ListOf(4)>>, <<Typed("point"), ListOf(2)>>, <<Typed("transform"), ListOf(6)>>,
     <<[Typed("unsupported") EXCEPT !.nullable = TRUE], PropNull>>}

PropertyBindings ==
    {<<[kind |-> "property", schema |-> s[1], coerce |-> c, missing |-> m, invert |-> FALSE], s[2]>> :
        s \in Targets, c \in {"strict", "lenient"}, m \in {"keepLast", "clear", "default", "error"}}
    \cup {<<[kind |-> "visibility", schema |-> Typed("bool"), coerce |-> "strict", missing |-> m,
             invert |-> i], Bool(h)>> :
             m \in {"hide", "show", "leave"}, i \in BOOLEAN, h \in BOOLEAN}

\* They are bindings to rows of an object model.
ASSUME \A b \in PropertyBindings : b[1] \in PropertyBinding /\ b[2] \in PropValue \cup {PropNull}

-----------------------------------------------------------------------------
(* Every tree of two operators over a level of each binding power, negated   *)
(* or as an argument, and one-token slips in the smaller ones.               *)

Small == {Leaf("1"), Leaf("name")}
Grown ==
    Small \cup {Neg(a) : a \in Small}
    \cup {Binary(o, a, b) : o \in {"=", "&", "-", "*"}, a \in Small, b \in Small}
    \cup {Call("IF", <<a>>) : a \in Small}
Trees ==
    Grown \cup {Neg(a) : a \in Grown}
    \cup {Binary(o, a, b) : o \in {"=", "&", "-", "/"}, a \in Grown, b \in Grown}
    \cup {Call("IF", <<a, b>>) : a \in Small, b \in Grown}
    \cup {Call("AND", <<>>), Leaf("@p"), Leaf("'t'"), Leaf("NULL")}

\* Trees to evaluate: every operator and function over what may be missing, of
\* the wrong type or an error (1 / name), alone and inside another.
Part1 == {Leaf("name"), Leaf("1"), Leaf("'t'"), Binary("/", Leaf("1"), Leaf("name"))}
Calls(S) ==
    UNION {{Call("IF", <<a, b, Leaf("1")>>), Call("IF", <<Leaf("@p"), a, b>>),
            Call("AND", <<a, b>>), Call("OR", <<a, b>>), Call("COALESCE", <<a, b>>),
            Call("IFERROR", <<a, b>>), Call("CONCAT", <<a, Leaf("'t'")>>),
            Call("SWITCH", <<Leaf("@p"), a, b>>), Call("SWITCH", <<a, Leaf("@p"), Leaf("1"), b>>),
            Call("IF", <<a, b>>)} : a \in S, b \in S}
    \cup {Call(f, <<a>>) : f \in {"NOT", "ISBLANK", "ISERROR"}, a \in S}
EvalTrees ==
    Calls(Part1)
    \cup {Binary(o, a, Leaf("@p")) : o \in DOMAIN InfixBp \ {"&"}, a \in Part1}
    \cup {Binary("&", a, Leaf("'t'")) : a \in Part1} \cup {Neg(a) : a \in Part1}
    \cup {Neg(c) : c \in Calls({Leaf("name")})} \cup {Call("ISERROR", <<c>>) : c \in Calls({Leaf("name")})}
ColumnValues ==
    {Null, Number(0), Number(PointUnits), Number(NotFinite), Bool(TRUE), Bool(FALSE), Bytes, Date(2),
     Fault("#N/A"), Pieces(<<>>), Pieces(<<N(PointUnits)>>), Pieces(<<W("t")>>), Pieces(<<W("yes")>>),
     Pieces(<<N(NotFinite)>>)}
Params == {Null, Bool(TRUE), Fault("#N/A"), Pieces(<<W("t")>>)}
\* Any two values meet in one tree, and a few parameters in the others.
Envs(t) ==
    IF t = NoTree THEN {NoEnv}
    ELSE [name : ColumnValues, param : IF t = Binary("<", Leaf("name"), Leaf("@p")) THEN ColumnValues ELSE Params]
\* As their characters sort.
SortedPieces ==
    <<W("#NUM"), W("-"), N(0), N(PointUnits \div 2), N(PointUnits), N(2), W("#"), W("FALSE"),
      N(NotFinite), W("TRUE"), W("t"), W("yes")>>
-----------------------------------------------------------------------------
(* Results: two records of one title and one without, a text of several      *)
(* lines, one of none, one with a blank line, an image without a path; three *)
(* titles where a numbered name is another's own; no records.  Names: plain, *)
(* with what the codec reads as more than a name, of a property.             *)

Word(w) == <<w>>
Shown(text, href, visible, value) ==
    [textcontent |-> [trait |-> "textcontent", text |-> text], filereference |-> href,
     visibility |-> visible, property |-> value]
Href == [trait |-> "filereference", text |-> Word("photo")]
Decided(b) == [trait |-> "visibility", text |-> Word(b)]
Written7 == [trait |-> "property", text |-> Word("7")]

Titled(title, shown) == [title |-> title, shown |-> shown]
Two == Shown(<<"a", "\n", "b">>, Href, Decided("true"), Written7)
None == Shown(<<>>, NoValue, Decided("false"), NoValue)
Gap == Shown(<<"a", "\n", "\n", " ", "b">>, Href, NoValue, Written7)
SomeResults ==
    {<<>>, <<Titled(Word("x"), Two), Titled(Word("x"), None), Titled(Word(" "), Gap)>>,
     <<Titled(<<"x", " ", "(", "3", ")">>, Two), Titled(Word("x"), None), Titled(Word("x"), Two)>>}

FirstDefined ==
    {<<Word("n"), k>> : k \in {"variable", "image", "visibility", "property", "table"}}
    \cup {<<Word("o"), "image">>, <<<<"R", "&", "D">>, "variable">>, <<<<"a", ":", "n">>, "variable">>}

\* Libraries from elsewhere: with graph data, a self-closed value and a
\* wrapped one; and each thing a reader refuses.
Foreign(declared, kept) ==
    <<Start(<<"i", ":", "variableSet">>, NoLabel, NoLabel), Start(Word("variables"), NoLabel, NoLabel)>>
        \o declared \o <<End(Word("variables")), Start(Word("sampleDataSet"), NoLabel, NoLabel)>>
        \o kept \o <<End(Word("sampleDataSet")), End(<<"i", ":", "variableSet">>)>>
Declares(name, trait) == <<Empty(Word("variable"), name, trait)>>
Holds(name, text) == <<Start(name, NoLabel, NoLabel), TextEvent(text), End(name)>>
ForeignFiles ==
    LET n == Word("n")
        graph == Declares(Word("g"), "graphdata") \o Declares(n, "textcontent")
    IN  {Foreign(graph, Holds(Word("g"), <<"1", "\n", "2">>) \o <<Empty(n, NoLabel, NoLabel)>>),
         Foreign(Declares(n, "visibility"), Holds(n, <<" ", "yes">>)),
         Foreign(Declares(n, "visibility"), Holds(n, <<" ", "no">>)),
         Foreign(Declares(n, "visibility"), Holds(n, <<"maybe">>)),
         Foreign(Declares(n, "property"), <<>>), Foreign(Declares(n, "property"), Holds(n, <<"7">>)),
         Foreign(Declares(n, "colour"), <<>>), Foreign(Declares(NoLabel, "visibility"), <<>>),
         Foreign(<<>>, Holds(n, <<"a">>)), <<End(n)>>,
         Foreign(graph, <<>>) \o Foreign(<<>>, <<>>)}

\* Bounds of the instance: bindings at a time (a third variable comes of an
\* import), data sets an author goes on editing with.
MaxBound == 2
MaxDataSets == 1
Unstarted == file = <<>> /\ library.variables = <<>> /\ library.dataSets = <<>>
Editing == file = <<>> /\ Len(library.dataSets) <= MaxDataSets

-----------------------------------------------------------------------------
PartInit ==
    /\ BarInit /\ QrInit /\ CatalogInit /\ PropInit /\ ValueInit /\ LibraryInit
    /\ part \in {"barcode", "qr", "source", "column", "property", "expression", "library"}
    /\ part /= "library" => rows = <<>>

\* A text that cannot be read is evaluated on one record.
Evaluable == written.tree \in EvalTrees \/ parsed \in {NoTree, NoFunction}
\* A barcode, a symbol or a text is made once.
Finished ==
    \/ part \in {"barcode", "qr"} /\ barStep \notin {"idle", "values", "encoded"}
    \/ part = "expression" /\ exprStep = "evaluated"
    \/ part = "expression" /\ exprStep = "parsed" /\ ~Evaluable

PartNext ==
    \/ /\ part = "barcode"
       /\ \/ barStep = "idle" /\ \E t \in Code128Texts : StartCode128(t)
          \/ \E t \in NumericTexts, s \in {"ean13", "upca"} : EncodeNumeric(s, t)
          \/ BarcodeSteps
          \/ \E extra \in {0, 3} : Widen(extra)
       /\ UNCHANGED <<qrVars, catalogVars, propVars, valueVars, libVars, part>>
    \/ /\ part = "qr"
       /\ \/ \E input \in QrInputs : BuildCodewords(input[1], input[2])
          \/ QrSteps
          \/ \E extra \in {0, 3} : Widen(extra) /\ UNCHANGED qrVars
       /\ UNCHANGED <<catalogVars, propVars, valueVars, libVars, part>>
    \/ /\ part = "source"
       /\ \/ \E k \in Kinds : DefineSource([id |-> "s", kind |-> k])
          \/ ReopenSources
          \/ \E i \in DOMAIN sources, bytes \in {1, 2} : Cardinality(keys) < 2 /\ KeyRemote(i, bytes)
       /\ UNCHANGED <<barVars, qrVars, propVars, valueVars, libVars, part>>
    \/ /\ part = "column"
       /\ \E schema \in LiveSchemas, sidecar \in Sidecars : DocumentSchema(schema, sidecar)
       /\ UNCHANGED <<barVars, qrVars, propVars, valueVars, libVars, part>>
    \/ /\ part = "property"
       /\ \/ \E b \in PropertyBindings : DefineProperty(b[1], b[2])
          \/ \E v \in Tried : RefreshProperty(v)
       /\ UNCHANGED <<barVars, qrVars, catalogVars, valueVars, libVars, part>>
    \/ /\ part = "expression"
       /\ \/ exprStep = "idle" /\ \E t \in Trees \cup EvalTrees : WriteExpression(t) /\ UNCHANGED <<env, result>>
          \/ exprStep = "idle" /\ \E t \in Grown : \E i \in DOMAIN Spelled(t) :
                 \E instead \in {<<>>, <<"FOO">>, <<Spelled(t)[i], Spelled(t)[i]>>} :
                     MistypeExpression(t, i, instead) /\ UNCHANGED <<env, result>>
          \/ ParseExpression /\ UNCHANGED <<env, result>>
          \/ /\ exprStep = "parsed" /\ Evaluable
             /\ \E e \in Envs(written.tree) : EvaluateExpression(e)
       /\ UNCHANGED <<barVars, qrVars, catalogVars, propVars, libVars, part>>
    \/ /\ part = "library"
       /\ \/ \E v \in FirstDefined : Len(varDefs) < MaxBound /\ Unstarted /\ DefineVariable(v[1], v[2])
          \/ \E k \in {"visibility", "property", "table"} :
                 Editing /\ library.dataSets /= <<>> /\ DefineVariable(Word("n"), k)
          \/ \E d \in ToSet(varDefs) :
                 /\ \/ Editing /\ library.dataSets /= <<>>
                    \/ file /= <<>> /\ d.id /= Word("n")
                 /\ RemoveVariable(d.id)
          \/ Editing /\ library.dataSets = <<>> /\ CaptureDataSet(<<"k", "&">>, 1)
          \/ \E byTitle \in BOOLEAN :
                 Editing /\ (byTitle \/ library.dataSets = <<>>) /\ CaptureEveryRecord(byTitle)
          \/ file = <<>> /\ DeleteDataSet(Word("x"))
          \/ \E name \in {d.name : d \in ToSet(library.dataSets)} \cup {Word("none")} :
                 file /= <<>> /\ ApplyDataSet(name)
          \/ file = <<>> /\ ExportLibrary
          \/ \E f \in ForeignFiles : Unstarted /\ ReceiveFile(f)
          \/ file /= <<>> /\ Len(library.variables) <= MaxBound /\ ImportLibrary(file)
       /\ UNCHANGED <<barVars, qrVars, catalogVars, propVars, valueVars, part>>
    \/ Finished /\ UNCHANGED <<barVars, qrVars, catalogVars, propVars, valueVars, libVars, part>>

PartSpec == PartInit /\ [][PartNext]_<<barVars, qrVars, catalogVars, propVars, valueVars, libVars, part>>
=============================================================================
