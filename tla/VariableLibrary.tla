--------------------------- MODULE VariableLibrary ---------------------------
(***************************************************************************)
(* Variables and data sets: the set a session keeps (data-dataset/src/     *)
(* lib.rs), the XML it is exported as and imported from (data-dataset/src/ *)
(* xml.rs), and the session operations over both (data-js/src/core.rs      *)
(* §9.9).                                                                  *)
(*                                                                         *)
(* A name or a text is a sequence of pieces; of them " ", ":", "&" and the *)
(* line break "\n" mean something to the codec.  XML is the sequence of    *)
(* events the reader sees; a text event holds no character that XML        *)
(* escapes (what such a character becomes is the XML library's).           *)
(***************************************************************************)
EXTENDS Integers, Sequences

LOCAL INSTANCE SequencesExt
LOCAL INSTANCE FiniteSetsExt
LOCAL INSTANCE Functions
LOCAL INSTANCE TLC

CONSTANTS
    NoLabel,    \* an element without the attribute that names it
    NoValue,    \* a resolve that gives nothing to capture
    NoSet,      \* a reader that met no <variableSet>; a file not written
    Results     \* what the query may return: records, each a title and what
                \* a binding of each kind shows of it

VARIABLES
    varDefs,    \* the bindings: [id, kind]
    library,    \* VariableSet: name, variables, dataSets
    rows,       \* the query's result
    file,       \* the file on disk, as events; <<>> when there is none
    exported,   \* the set it was exported from, or NoSet
    captured,   \* the names capture_every_record answered, until the next call
    applied     \* what apply_data_set answered, until the next call

libVars == <<varDefs, library, rows, file, exported, captured, applied>>

-----------------------------------------------------------------------------
(* The variable set (data-dataset/src/lib.rs).                              *)

EmptySet(name) == [name |-> name, variables |-> <<>>, dataSets |-> <<>>]

Named(items, name) == SelectSeq(items, LAMBDA item : item.name = name)

\* Replaces the item of that name in place, or appends it.
UpsertNamed(items, item) ==
    IF Named(items, item.name) = <<>>
        THEN Append(items, item)
        ELSE [i \in DOMAIN items |-> IF items[i].name = item.name THEN item ELSE items[i]]

UpsertVariable(set, name, trait) ==
    [set EXCEPT !.variables = UpsertNamed(@, [name |-> name, trait |-> trait])]

UpsertDataSet(set, name, values) ==
    [set EXCEPT !.dataSets = UpsertNamed(@, [name |-> name, values |-> values])]

IsBindable(trait) == trait /= "graphdata"

TraitForBindingKind(kind) ==
    CASE kind = "variable" -> "textcontent"
      [] kind = "image" -> "filereference"
      [] kind = "visibility" -> "visibility"
      [] kind = "property" -> "property"
      [] OTHER -> NoValue

\* A data set has a value of a variable that is not declared.
Undeclared(set) ==
    \E d \in ToSet(set.dataSets) : \E name \in DOMAIN d.values : Named(set.variables, name) = <<>>

\* Or of one declared with another trait.
Mistyped(set) ==
    \E d \in ToSet(set.dataSets) : \E name \in DOMAIN d.values :
        \E decl \in ToSet(Named(set.variables, name)) : decl.trait /= d.values[name].trait

Inconsistent(set) == Undeclared(set) \/ Mistyped(set)

-----------------------------------------------------------------------------
(* Texts as the codec reads and writes them.                                *)

Blank == {" ", "\n"}

Trimmed(text) ==
    LET kept == {i \in DOMAIN text : text[i] \notin Blank}
    IN  IF kept = {} THEN <<>> ELSE SubSeq(text, Min(kept), Max(kept))

\* split('\n') and join("\n")
LinesOf(text) ==
    LET breaks == SetToSortSeq({0, Len(text) + 1} \cup {i \in DOMAIN text : text[i] = "\n"}, <)
    IN  [k \in 1..(Len(breaks) - 1) |-> SubSeq(text, breaks[k] + 1, breaks[k + 1] - 1)]
Joined(lines) ==
    FlattenSeq([k \in DOMAIN lines |-> IF k = 1 THEN lines[k] ELSE <<"\n">> \o lines[k]])

Escape(name) ==
    FlattenSeq([i \in DOMAIN name |-> IF name[i] = "&" THEN <<"&", "amp;">> ELSE <<name[i]>>])

\* An element's name ends at a space; its local name follows the last colon.
LocalName(tag) ==
    LET space == {i \in DOMAIN tag : tag[i] = " "}
        name == SubSeq(tag, 1, Min(space \cup {Len(tag) + 1}) - 1)
    IN  SubSeq(name, Max({0} \cup {i \in DOMAIN name : name[i] = ":"}) + 1, Len(name))

\* A value is its trait and its text: the text shown, the reference, "true"
\* or "false", the graph data, or the property value as it prints.
XmlLines(value) ==
    IF value.trait = "textcontent" THEN LinesOf(value.text) ELSE <<value.text>>

FromXmlBody(trait, body) ==
    CASE trait = "textcontent" \/ trait = "graphdata" -> [trait |-> trait, text |-> body]
      [] trait = "filereference" -> [trait |-> trait, text |-> Trimmed(body)]
      [] trait = "visibility" /\ Trimmed(body) \in {<<"true">>, <<"1">>, <<"yes">>} ->
             [trait |-> trait, text |-> <<"true">>]
      [] trait = "visibility" /\ Trimmed(body) \in {<<"false">>, <<"0">>, <<"no">>} ->
             [trait |-> trait, text |-> <<"false">>]
      [] OTHER -> NoValue

-----------------------------------------------------------------------------
(* The writer.                                                              *)

Start(tag, label, trait) == [event |-> "start", tag |-> tag, label |-> label, trait |-> trait]
Empty(tag, label, trait) == [event |-> "empty", tag |-> tag, label |-> label, trait |-> trait]
TextEvent(text) == [event |-> "text", text |-> text]
End(tag) == [event |-> "end", tag |-> tag]
V(tag) == <<"v", ":", tag>>

\* An empty line makes no text event.
WriteLine(line) ==
    <<Start(<<"p">>, NoLabel, NoLabel)>> \o (IF line = <<>> THEN <<>> ELSE <<TextEvent(line)>>)
        \o <<End(<<"p">>)>>

WriteValue(name, value) ==
    <<Start(Escape(name), NoLabel, NoLabel)>>
        \o FlattenSeq([i \in DOMAIN XmlLines(value) |-> WriteLine(XmlLines(value)[i])])
        \o <<End(Escape(name))>>

WriteDataSet(d) ==
    LET written == SetToSeq({name \in DOMAIN d.values : d.values[name].trait /= "property"})
    IN  <<Start(V("sampleDataSet"), Escape(d.name), NoLabel)>>
            \o FlattenSeq([i \in DOMAIN written |-> WriteValue(written[i], d.values[written[i]])])
            \o <<End(V("sampleDataSet"))>>

ToXml(set) ==
    LET declared == SelectSeq(set.variables, LAMBDA v : v.trait /= "property")
    IN  <<Start(<<"variableSets">>, NoLabel, NoLabel),
          Start(<<"variableSet">>, Escape(set.name), NoLabel),
          Start(<<"variables">>, NoLabel, NoLabel)>>
            \o FlattenSeq([i \in DOMAIN declared |->
                   <<Start(<<"variable">>, Escape(declared[i].name), declared[i].trait),
                     End(<<"variable">>)>>])
            \o <<End(<<"variables">>), Start(V("sampleDataSets"), NoLabel, NoLabel)>>
            \o FlattenSeq([i \in DOMAIN set.dataSets |-> WriteDataSet(set.dataSets[i])])
            \o <<End(V("sampleDataSets")), End(<<"variableSet">>), End(<<"variableSets">>)>>

-----------------------------------------------------------------------------
(* The reader: its state as it goes over the events.                        *)

Traits == {"textcontent", "filereference", "visibility", "graphdata", "property"}

Reader == [where |-> "Outside", set |-> NoSet, name |-> NoLabel, values |-> <<>>,
           var |-> NoLabel, lines |-> <<>>, depth |-> 0, failed |-> FALSE]

Refused(r) == [r EXCEPT !.failed = TRUE]

\* Typed by its declaration, never by its body.
PushValue(r, var, body) ==
    LET decl == IF r.set = NoSet THEN <<>> ELSE Named(r.set.variables, var)
        value == IF decl = <<>> THEN NoValue ELSE FromXmlBody(decl[1].trait, body)
    IN  IF value = NoValue THEN Refused(r)
        ELSE [r EXCEPT !.values = [n \in DOMAIN @ \cup {var} |-> IF n = var THEN value ELSE @[n]]]

ReadVariable(r, ev) ==
    IF r.set = NoSet \/ ev.label = NoLabel \/ ev.trait \notin Traits THEN Refused(r)
    ELSE [r EXCEPT !.set = UpsertVariable(@, ev.label, ev.trait)]

OrElse(label, default) == IF label = NoLabel THEN default ELSE label

ReadStart(r, ev, empty) ==
    LET name == LocalName(ev.tag)
    IN  CASE r.where = "Outside" /\ name = <<"variableSet">> ->
               IF r.set /= NoSet THEN r
               ELSE [r EXCEPT !.set = EmptySet(OrElse(ev.label, <<"binding1">>))]
          [] r.where = "Outside" /\ name = <<"variables">> /\ ~empty ->
               [r EXCEPT !.where = "InVariables"]
          [] r.where = "InVariables" /\ name = <<"variable">> -> ReadVariable(r, ev)
          [] r.where = "Outside" /\ name = <<"sampleDataSet">> /\ ~empty ->
               [r EXCEPT !.where = "InDataSet", !.values = <<>>,
                         !.name = OrElse(ev.label, <<"Data Set">>)]
          [] r.where = "InDataSet" /\ ~empty ->
               [r EXCEPT !.where = "InValue", !.var = name, !.lines = <<>>, !.depth = 0]
          [] r.where = "InDataSet" /\ empty -> PushValue(r, name, <<>>)
          [] r.where = "InValue" /\ ~empty -> [r EXCEPT !.depth = @ + 1]
          [] OTHER -> r

\* trim_text: the reader sees no text event that is all blank.
ReadText(r, ev) ==
    IF r.where = "InValue" /\ Trimmed(ev.text) /= <<>>
        THEN [r EXCEPT !.lines = Append(@, Trimmed(ev.text))]
        ELSE r

CloseValue(r) == [PushValue(r, r.var, Joined(r.lines)) EXCEPT !.where = "InDataSet", !.lines = <<>>]

\* Mutant of ReadEnd: any end tag closes the value, a line's included.
EndClosesValue(r, ev) ==
    IF r.where = "InValue" THEN CloseValue(r)
    ELSE IF r.where = "InDataSet" /\ LocalName(ev.tag) /= <<"sampleDataSet">> THEN r
    ELSE [r EXCEPT !.where = "Outside",
                   !.set = IF r.where = "InDataSet" /\ @ /= NoSet THEN UpsertDataSet(@, r.name, r.values) ELSE @]

ReadEnd(r, ev) ==
    LET name == LocalName(ev.tag)
    IN  CASE r.where = "InVariables" /\ name = <<"variables">> -> [r EXCEPT !.where = "Outside"]
          [] r.where = "InValue" /\ r.depth > 0 -> [r EXCEPT !.depth = @ - 1]
          [] r.where = "InValue" /\ r.depth = 0 -> CloseValue(r)
          [] r.where = "InDataSet" /\ name = <<"sampleDataSet">> ->
               IF r.set = NoSet THEN Refused(r)
               ELSE [r EXCEPT !.where = "Outside", !.set = UpsertDataSet(@, r.name, r.values)]
          [] OTHER -> r

ReadEvent(r, ev) ==
    CASE r.failed -> r
      [] ev.event \in {"start", "empty"} -> ReadStart(r, ev, ev.event = "empty")
      [] ev.event = "text" -> ReadText(r, ev)
      [] ev.event = "end" -> ReadEnd(r, ev)

\* The set, or NoSet for a file that is not a variable library.
FromXml(events) ==
    LET r == FoldLeft(ReadEvent, Reader, events)
    IN  IF r.failed THEN NoSet ELSE r.set

-----------------------------------------------------------------------------
(* The session's operations (data-js/src/core.rs).                          *)

SyncVariableDeclarations(set) ==
    LET projected == SelectSeq(varDefs, LAMBDA d : TraitForBindingKind(d.kind) /= NoValue)
    IN  FoldLeft(LAMBDA s, d : UpsertVariable(s, d.id, TraitForBindingKind(d.kind)), set, projected)

KindsOf(id) == {d.kind : d \in {e \in ToSet(varDefs) : e.id = id}}

\* What the capture of a variable records of a row: nothing when it is bound
\* to no binding of its trait's kind, or the binding shows nothing.
CaptureValue(decl, row) ==
    IF IsBindable(decl.trait) /\ \E k \in KindsOf(decl.name) : TraitForBindingKind(k) = decl.trait
        THEN row.shown[decl.trait]
        ELSE NoValue

CapturedValues(set, row) ==
    LET shown == {v \in ToSet(set.variables) : CaptureValue(v, row) /= NoValue}
    IN  [name \in {v.name : v \in shown} |-> CaptureValue(CHOOSE v \in shown : v.name = name, row)]

CaptureInto(set, name, record) ==
    LET synced == SyncVariableDeclarations(set)
    IN  UpsertDataSet(synced, name, CapturedValues(synced, rows[record]))

\* The record's title, or the prefix and its number.
RecordName(record, byTitle) ==
    IF byTitle /\ Trimmed(rows[record].title) /= <<>>
        THEN rows[record].title
        ELSE <<"Data Set", " ", ToString(record)>>

\* Mutant of Disambiguated: records of one title share a data set.
AsTitled(names, name, record) == name

\* Two records with the same name would collapse: the second gets its number.
Disambiguated(names, name, record) ==
    IF name \in ToSet(names) THEN name \o <<" ", "(", ToString(record), ")">> ELSE name

RecordNames(byTitle) ==
    FoldLeft(LAMBDA names, r : Append(names, Disambiguated(names, RecordName(r, byTitle), r)),
             <<>>, [r \in DOMAIN rows |-> r])

\* One DataSetApply per declared variable the set has a value of.
DataSetApply(decl, values) ==
    [variable |-> decl.name, value |-> values[decl.name],
     applicable |-> IsBindable(decl.trait) /\ KindsOf(decl.name) /= {}]

-----------------------------------------------------------------------------
LibraryInit ==
    /\ varDefs = <<>> /\ library = EmptySet(<<"binding1">>) /\ rows \in Results
    /\ file = <<>> /\ exported = NoSet /\ captured = <<>> /\ applied = <<>>

DefineVariable(id, kind) ==
    /\ varDefs' = LET at == {i \in DOMAIN varDefs : varDefs[i].id = id}
                      def == [id |-> id, kind |-> kind]
                  IN  IF at = {} THEN Append(varDefs, def)
                      ELSE [i \in DOMAIN varDefs |-> IF i \in at THEN def ELSE varDefs[i]]
    /\ captured' = <<>> /\ applied' = <<>>
    /\ UNCHANGED <<library, rows, file, exported>>

\* The declaration goes with the binding, the captured values stay.
RemoveVariable(id) ==
    /\ varDefs' = SelectSeq(varDefs, LAMBDA d : d.id /= id)
    /\ library' = [library EXCEPT !.variables = SelectSeq(@, LAMBDA v : v.name /= id)]
    /\ captured' = <<>> /\ applied' = <<>>
    /\ UNCHANGED <<rows, file, exported>>

CaptureDataSet(name, record) ==
    /\ record \in DOMAIN rows
    /\ library' = CaptureInto(library, name, record)
    /\ captured' = <<>> /\ applied' = <<>>
    /\ UNCHANGED <<varDefs, rows, file, exported>>

CaptureEveryRecord(byTitle) ==
    /\ captured' = RecordNames(byTitle) /\ applied' = <<>>
    /\ library' = FoldLeft(LAMBDA set, r : CaptureInto(set, RecordNames(byTitle)[r], r),
                           library, [r \in DOMAIN rows |-> r])
    /\ UNCHANGED <<varDefs, rows, file, exported>>

DeleteDataSet(name) ==
    /\ library' = [library EXCEPT !.dataSets = SelectSeq(@, LAMBDA d : d.name /= name)]
    /\ captured' = <<>> /\ applied' = <<>>
    /\ UNCHANGED <<varDefs, rows, file, exported>>

\* Declarations are refreshed even when no data set has that name.
ApplyDataSet(name) ==
    LET synced == SyncVariableDeclarations(library)
        set == Named(synced.dataSets, name)
        moved == IF set = <<>> THEN <<>>
                 ELSE SelectSeq(synced.variables, LAMBDA v : v.name \in DOMAIN set[1].values)
    IN  /\ library' = synced
        /\ applied' = [i \in DOMAIN moved |-> DataSetApply(moved[i], set[1].values)]
        /\ captured' = <<>>
        /\ UNCHANGED <<varDefs, rows, file, exported>>

ExportLibrary ==
    /\ library' = SyncVariableDeclarations(library)
    /\ file' = ToXml(library')
    /\ exported' = library'
    /\ captured' = <<>> /\ applied' = <<>>
    /\ UNCHANGED <<varDefs, rows>>

\* Replaces the set, then refreshes the declarations; a file that does not
\* read, or reads inconsistent, changes nothing.
ImportLibrary(events) ==
    LET imported == FromXml(events)
    IN  /\ library' = IF imported = NoSet \/ Inconsistent(imported)
                          THEN library
                          ELSE SyncVariableDeclarations(imported)
        /\ captured' = <<>> /\ applied' = <<>>
        /\ UNCHANGED <<varDefs, rows, file, exported>>

\* A library from elsewhere takes the file's place.
ReceiveFile(events) ==
    /\ file' = events /\ exported' = NoSet
    /\ UNCHANGED <<varDefs, library, rows, captured, applied>>

-----------------------------------------------------------------------------
(* Properties.                                                              *)

\* What Illustrator has a trait for.
Portable(set) ==
    [set EXCEPT
        !.variables = SelectSeq(@, LAMBDA v : v.trait /= "property"),
        !.dataSets = [i \in DOMAIN @ |-> [@[i] EXCEPT !.values =
            Restrict(@, {n \in DOMAIN @ : @[n].trait /= "property"})]]]

\* Names are words; lines are neither blank nor indented, and there is one.
PlainName(name) == Len(name) > 0 /\ {" ", ":", "&"} \cap ToSet(name) = {}
PlainText(text) ==
    text = <<>> \/ \A i \in DOMAIN LinesOf(text) :
        LinesOf(text)[i] /= <<>> /\ Trimmed(LinesOf(text)[i]) = LinesOf(text)[i]
PlainSet(set) ==
    /\ \A v \in ToSet(set.variables) : PlainName(v.name)
    /\ \A d \in ToSet(set.dataSets) :
           /\ "&" \notin ToSet(d.name)
           /\ \A n \in DOMAIN d.values : PlainText(d.values[n].text)

(* An exported variable library reads back as the set it was written from,  *)
(* data set by data set and value by value, whatever order the values were  *)
(* written in, how many lines a text has, and whether a value is empty; the *)
(* variables Illustrator has no trait for, and their values, are not there. *)
(* (data-dataset/src/xml.rs to_xml, from_xml: "Everything else matches".)   *)
(* Left out is a set that is inconsistent: one with a value whose variable  *)
(* was removed, or bound anew to another kind, since the capture.           *)
LibrarySurvives ==
    exported /= NoSet /\ PlainSet(exported) /\ ~Inconsistent(exported)
        => FromXml(file) = Portable(exported)

(* The same with the first of the two let in: removing a binding leaves the *)
(* data sets as they are, and the library they are exported to is one the   *)
(* reader takes, since it declares what it has values of (remove_binding,   *)
(* export_variable_library; xml.rs push_value refuses a library that does   *)
(* not).                                                                    *)
ExportIsRead ==
    exported /= NoSet /\ PlainSet(exported) /\ ~Mistyped(exported) => FromXml(file) /= NoSet

\* No title is another's with a number after it.
NoAccident ==
    \A r, s \in DOMAIN rows, t \in DOMAIN rows :
        rows[r].title /= rows[s].title \o <<" ", "(", ToString(t), ")">>

(* After capturing every record, each record has a data set of its own that *)
(* holds what the record shows, under the name the capture returned for it: *)
(* a later record of the same title replaces no earlier one, and a record   *)
(* without a title still has a set.                                         *)
EveryRecordKept ==
    NoAccident => \A r \in DOMAIN captured :
        /\ \A s \in DOMAIN captured : captured[r] = captured[s] => r = s
        /\ Named(library.dataSets, captured[r]) =
               <<[name |-> captured[r], values |-> CapturedValues(library, rows[r])]>>
=============================================================================
