----------------------------- MODULE DataSession ----------------------------
(***************************************************************************)
(* The data session of data-js (data-js/src/core.rs, struct DataSession):  *)
(* the resolution engine plus the saved recipe, the typed-column ingest    *)
(* door, the refresh lanes that ask the engine what the document should    *)
(* show, and the variables and data sets of the recipe.                    *)
(*                                                                         *)
(* A call of the session is one action: the engine is single-threaded.     *)
(* The column door is the exception, one ingest is several calls, and any  *)
(* other call may come between them.                                       *)
(***************************************************************************)
EXTENDS ResolutionEngine

CONSTANTS
    Buffer,         \* contents of the typed-column buffers of one ingest
    Decode,         \* the record set each buffer content decodes to
    Columns,        \* columns in a schema
    SetName,        \* data set names
    NoBuffer, NoPending, NoSet

ASSUME ColumnAssumption ==
    /\ Decode \in [Buffer -> Content]
    /\ Columns \in Nat \ {0}
    /\ NoBuffer \notin Buffer

VARIABLES
    recipe,         \* DataSession.bindings: the definitions a save writes
    declared,       \* the variables declared in the recipe
    dataSets,       \* the variables each captured data set has a value for
    pending,        \* the column ingest in progress
    transport,      \* the buffers the column door delivered last, per query
    held,           \* history: bindings the user pinned or a data set was
                    \* applied to, and nothing explicit has released since
    captured,       \* history: held bindings a data-set capture resolved
    clobbered       \* history: held bindings a refresh lane wrote

sessionVars == <<recipe, declared, dataSets, pending, transport>>
history == <<held, captured, clobbered>>
vars == <<engineVars, sessionVars, history>>

DataSet == [values : SUBSET BindingId]

PendingIngest == [query : QueryId, buffer : Buffer, pushed : 0..Columns]

ASSUME SessionSentinelAssumption ==
    /\ NoPending \notin PendingIngest
    /\ NoSet \notin DataSet

\* Type correctness of the engine's and the session's state.
TypeOK ==
    /\ EngineTypeOK
    /\ recipe \in [BindingId -> Definition \cup {NoDefinition}]
    /\ declared \subseteq BindingId
    /\ dataSets \in [SetName -> DataSet \cup {NoSet}]
    /\ pending \in PendingIngest \cup {NoPending}
    /\ transport \in [QueryId -> Buffer \cup {NoBuffer}]
    /\ held \subseteq BindingId
    /\ captured \subseteq BindingId
    /\ clobbered \subseteq BindingId

Init ==
    /\ EngineInit
    /\ recipe = [b \in BindingId |-> NoDefinition]
    /\ declared = {}
    /\ dataSets = [n \in SetName |-> NoSet]
    /\ pending = NoPending
    /\ transport = [q \in QueryId |-> NoBuffer]
    /\ held = {}
    /\ captured = {}
    /\ clobbered = {}

\* An explicit user action on the bindings of S ends their protection.
Release(S) ==
    /\ held' = held \ S
    /\ captured' = captured \ S
    /\ clobbered' = clobbered \ S

\* The user (or an applied data set) froze the bindings of S.
Hold(S) ==
    /\ held' = held \cup S
    /\ captured' = captured \ S
    /\ clobbered' = clobbered \ S

-----------------------------------------------------------------------------
(* Definitions. *)

DefineQuery(q, r) ==
    /\ AddQuery(q, r)
    /\ UNCHANGED <<sessionVars, history>>

DefineTemplate(t) ==
    /\ AddTemplate(t)
    /\ UNCHANGED <<sessionVars, history>>

BindParam(p) ==
    /\ SetParam(p)
    /\ UNCHANGED <<sessionVars, history>>

DefineBinding(b, d) ==
    /\ AddBinding(b, d)
    /\ recipe' = [recipe EXCEPT ![b] = d]
    /\ UNCHANGED <<declared, dataSets, pending, transport, history>>

\* Mutant of ForgetBinding: the engine forgets, the saved recipe does not.
ForgetInEngineOnly(b) ==
    /\ Defined(b)
    /\ RemoveBinding(b)
    /\ declared' = declared \ {b}
    /\ Release({b})
    /\ UNCHANGED <<recipe, dataSets, pending, transport>>

\* remove_binding: the recipe, the declaration and the engine's state go; the
\* captured values stay in the data sets.
ForgetBinding(b) ==
    /\ Defined(b)
    /\ RemoveBinding(b)
    /\ recipe' = [recipe EXCEPT ![b] = NoDefinition]
    /\ declared' = declared \ {b}
    /\ Release({b})
    /\ UNCHANGED <<dataSets, pending, transport>>

-----------------------------------------------------------------------------
(* Results: the record-set door and the column door. *)

\* Mutant of IngestResult: the column door's memory survives.
IngestKeepsTransport(q, c) ==
    /\ SetResult(q, c)
    /\ UNCHANGED <<sessionVars, history>>

IngestResult(q, c) ==
    /\ SetResult(q, c)
    /\ transport' = [transport EXCEPT ![q] = NoBuffer]
    /\ UNCHANGED <<recipe, declared, dataSets, pending, history>>

\* begin_columns replaces an ingest in progress.
BeginColumns(q, buf) ==
    /\ pending' = [query |-> q, buffer |-> buf, pushed |-> 0]
    /\ UNCHANGED <<engineVars, recipe, declared, dataSets, transport, history>>

\* Mutant of PushColumn: no check against the schema's width.
PushAnyway ==
    /\ pending # NoPending
    /\ pending' = [pending EXCEPT !.pushed = @ + 1]
    /\ UNCHANGED <<engineVars, recipe, declared, dataSets, transport, history>>

PushColumn ==
    /\ pending # NoPending
    /\ pending.pushed < Columns
    /\ pending' = [pending EXCEPT !.pushed = @ + 1]
    /\ UNCHANGED <<engineVars, recipe, declared, dataSets, transport, history>>

\* A column too many, or one whose buffers do not fit the row count, drops
\* the whole ingest.
PushRefused ==
    /\ pending # NoPending
    /\ pending' = NoPending
    /\ UNCHANGED <<engineVars, recipe, declared, dataSets, transport, history>>

\* The buffers are the ones delivered last and the engine still has a result.
Redelivered(p) ==
    /\ transport[p.query] = p.buffer
    /\ results[p.query] # NoResult

\* finish_columns with every column pushed: nothing to do for a re-delivery,
\* otherwise decode, deliver and remember the buffers.
FinishColumns ==
    /\ pending # NoPending
    /\ pending.pushed = Columns
    /\ pending' = NoPending
    /\ IF Redelivered(pending)
       THEN UNCHANGED <<engineVars, transport>>
       ELSE /\ SetResult(pending.query, Decode[pending.buffer])
            /\ transport' = [transport EXCEPT ![pending.query] = pending.buffer]
    /\ UNCHANGED <<recipe, declared, dataSets, history>>

\* finish_columns with columns missing: an error, and the ingest is gone.
FinishRefused ==
    /\ pending # NoPending
    /\ pending.pushed < Columns
    /\ pending' = NoPending
    /\ UNCHANGED <<engineVars, recipe, declared, dataSets, transport, history>>

-----------------------------------------------------------------------------
(* Sync decisions. *)

PinBinding(b) ==
    /\ Pin(b)
    /\ Hold({b})
    /\ UNCHANGED sessionVars

\* The session marks bindings it defined (apply_data_set, restore) only.
OverrideBinding(b) ==
    /\ Defined(b)
    /\ MarkOverridden(b)
    /\ Hold({b})
    /\ UNCHANGED sessionVars

RelinkBinding(b) ==
    /\ Relink(b)
    /\ Release({b})
    /\ UNCHANGED sessionVars

\* resolve_lowered(_at), lower_barcode_at, lower_record_flow: the user lowers
\* or previews this binding, which re-links it.
ResolveLowered(b, r) ==
    /\ ResolveAll({b}, r)
    /\ Release(IF Resolvable(b) THEN {b} ELSE {})
    /\ UNCHANGED sessionVars

-----------------------------------------------------------------------------
(* The refresh lanes.  The host writes the values it is handed into the    *)
(* document; any of those writes may be refused.                           *)

\* Mutant of Refreshable: the policy asks for Pinned and forgets Overridden.
RefreshableUnlessPinned(b) == sync[b] = NoState \/ sync[b].status # "Pinned"

Refreshable(b) == sync[b] = NoState \/ AcceptsRefresh(sync[b])

\* refresh_field_values at record 0: a frozen binding is kept unresolved.
RefreshFieldValues(ids) ==
    LET tried  == {b \in ids : Refreshable(b)}
        values == {b \in tried : Resolvable(b) /\ bindings[b].kind = "variable"}
    IN  /\ ResolveAll(tried, 0)
        /\ \E written \in SUBSET values :
               clobbered' = clobbered \cup (held \cap written)
        /\ UNCHANGED <<sessionVars, held, captured>>

\* resolve_properties_at: the property (and visibility) bindings of the
\* recipe, narrowed to ids; a frozen one answers keep.
ResolveProperties(ids, withVisibility, r) ==
    LET wanted == {b \in ids : /\ recipe[b] # NoDefinition
                               /\ \/ recipe[b].kind = "property"
                                  \/ withVisibility /\ recipe[b].kind = "visibility"}
        tried  == {b \in wanted : Refreshable(b)}
        values == {b \in tried : Resolvable(b) /\ ~Fails(b, r)}
    IN  /\ ResolveAll(tried, r)
        /\ \E written \in SUBSET values :
               clobbered' = clobbered \cup (held \cap written)
        /\ UNCHANGED <<sessionVars, held, captured>>

-----------------------------------------------------------------------------
(* Variables and data sets. *)

\* sync_variable_declarations: every binding of a kind that has a trait is
\* declared; a declaration without a binding stays.
WithDeclarations(D) ==
    D \cup {b \in BindingId : /\ recipe[b] # NoDefinition
                              /\ recipe[b].kind \in {"variable", "visibility", "property"}}

\* capture_data_set: resolves every declared variable, frozen or not, and
\* keeps the values that came out.
CaptureDataSet(n, r) ==
    LET known  == WithDeclarations(declared)
        values == {b \in known : /\ Resolvable(b) /\ ~Fails(b, r)
                                 /\ bindings[b].kind \notin {"table", "recordFlow"}}
    IN  /\ declared' = known
        /\ ResolveAll(known, r)
        /\ dataSets' = [dataSets EXCEPT ![n] = [values |-> values]]
        /\ captured' = captured \cup {b \in held \cap known : Resolvable(b)}
        /\ UNCHANGED <<recipe, pending, transport, held, clobbered>>

\* apply_data_set: the defined bindings it has a value for become Overridden.
ApplyDataSet(n) ==
    LET known   == WithDeclarations(declared)
        applied == {b \in known \cap dataSets[n].values : recipe[b] # NoDefinition}
    IN  /\ dataSets[n] # NoSet
        /\ declared' = known
        /\ sync' = [b \in BindingId |-> IF b \in applied THEN OverriddenState(b) ELSE sync[b]]
        /\ Hold(applied)
        /\ UNCHANGED <<queries, bindings, templates, results, params, edited>>
        /\ UNCHANGED <<recipe, dataSets, pending, transport>>

DeleteDataSet(n) ==
    /\ dataSets[n] # NoSet
    /\ dataSets' = [dataSets EXCEPT ![n] = NoSet]
    /\ UNCHANGED <<engineVars, recipe, declared, pending, transport, history>>

\* import_variable_library: replaces the variable set by one whose sets value
\* declared variables only, then declares what the bindings imply.
ImportLibrary(D, sets) ==
    /\ \A n \in SetName : sets[n] # NoSet => sets[n].values \subseteq D
    /\ declared' = WithDeclarations(D)
    /\ dataSets' = sets
    /\ UNCHANGED <<engineVars, recipe, pending, transport, history>>

-----------------------------------------------------------------------------
(* Save and reopen: the payload and the frozen states of the sync report   *)
(* are saved; load_payload builds a fresh engine from the recipe and the   *)
(* session then freezes again what was frozen (restoreInternal).           *)

RestoredState(b) ==
    IF recipe[b] = NoDefinition THEN NoState
    ELSE [status |-> IF sync[b] # NoState /\ Frozen(sync[b]) THEN sync[b].status ELSE "Linked",
          last   |-> NoStamp]

Reopen ==
    /\ bindings' = recipe
    /\ sync' = [b \in BindingId |-> RestoredState(b)]
    /\ results' = [q \in QueryId |-> NoResult]
    /\ transport' = [q \in QueryId |-> NoBuffer]
    /\ params' = InitParam
    /\ pending' = NoPending
    /\ edited' = {}
    /\ UNCHANGED <<queries, templates, recipe, declared, dataSets, history>>

-----------------------------------------------------------------------------

DefineStep ==
    \/ \E q \in QueryId, r \in Recipe : DefineQuery(q, r)
    \/ \E t \in Expr : DefineTemplate(t)
    \/ \E p \in Param : BindParam(p)
    \/ \E b \in BindingId, d \in Definition : DefineBinding(b, d)
    \/ \E b \in BindingId : ForgetBinding(b)

IngestStep ==
    \/ \E q \in QueryId, c \in Content : IngestResult(q, c)
    \/ \E q \in QueryId, buf \in Buffer : BeginColumns(q, buf)
    \/ PushColumn
    \/ PushRefused
    \/ FinishColumns
    \/ FinishRefused

SyncStep ==
    \/ \E b \in BindingId : PinBinding(b)
    \/ \E b \in BindingId : OverrideBinding(b)
    \/ \E b \in BindingId : RelinkBinding(b)
    \/ \E b \in BindingId, r \in Record : ResolveLowered(b, r)

RefreshStep ==
    \/ \E ids \in SUBSET BindingId : RefreshFieldValues(ids)
    \/ \E ids \in SUBSET BindingId, v \in BOOLEAN, r \in Record :
           ResolveProperties(ids, v, r)

DataSetStep ==
    \/ \E n \in SetName, r \in Record : CaptureDataSet(n, r)
    \/ \E n \in SetName : ApplyDataSet(n)
    \/ \E n \in SetName : DeleteDataSet(n)
    \/ \E D \in SUBSET BindingId, sets \in [SetName -> DataSet \cup {NoSet}] :
           ImportLibrary(D, sets)

Next == DefineStep \/ IngestStep \/ SyncStep \/ RefreshStep \/ DataSetStep \/ Reopen

Spec == Init /\ [][Next]_vars

-----------------------------------------------------------------------------
(* Properties. *)

\* What a save writes is what the engine runs (DataSession keeps the recipe
\* twice): otherwise a reopened document would show other bindings.
PayloadIsLive == recipe = bindings

\* A binding the user pinned or a data set was applied to stays Pinned or
\* Overridden, through refreshes, new results, edits of the recipe and a save
\* and reopen, until the user relinks, resolves or removes it (ADR 553) or a
\* data-set capture resolves it.
FrozenHeld == \A b \in held \ captured : sync[b] # NoState /\ Frozen(sync[b])

\* A refresh lane overwrites no protected binding (conflict policy D-6, ADR
\* 553) that no capture has unprotected first.
RefreshKeepsFrozen == clobbered \subseteq captured

\* "a refresh never overwrites Overridden/Pinned without explicit user action"
\* (data-core/src/binding.rs, Status), without exception.
NeverClobbered == clobbered = {}

\* finish_columns may answer Unchanged from the buffers alone: the buffers it
\* remembers always decode to the result the engine holds.
TransportSound ==
    \A q \in QueryId : transport[q] # NoBuffer => results[q] = Decode[transport[q]]

-----------------------------------------------------------------------------
(* The session implements the conflict policy. *)

ModeOf(b) ==
    IF sync[b] = NoState THEN "absent"
    ELSE IF Frozen(sync[b]) THEN "kept"
    ELSE "following"

Policy ==
    INSTANCE ConflictPolicy WITH
        mode <- [b \in BindingId |-> ModeOf(b)],
        owed <- held \ captured,
        overwritten <- clobbered \ captured

\* Every step of the session, from any door and any lane, is a decision the
\* policy knows or leaves kept and following bindings as they are: no ingest,
\* edit, refresh, library import or reopen freezes, releases or overwrites one.
ImplementsPolicy == Policy!PolicySpec
=============================================================================
