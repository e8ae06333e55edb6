-------------------------- MODULE ResolutionEngine --------------------------
(***************************************************************************)
(* The resolution and synchronization engine of data-bind                  *)
(* (data-bind/src/lib.rs, struct ResolutionEngine) with the sync states of *)
(* data-core/src/binding.rs: which bindings and queries are registered,    *)
(* which result each query delivered last, and for every binding whether   *)
(* it tracks its source (Linked), is frozen (Pinned, Overridden), missed a *)
(* change (Stale) or could not be resolved (Error).                        *)
(*                                                                         *)
(* Data are abstracted to what the sync decisions tell apart.  A result is *)
(* its content (the content hash is taken to be injective), a query is its *)
(* SQL and shape (a recipe), the parameter set is one value, and a         *)
(* binding definition is its kind, its query and the expression it reads   *)
(* (for a record flow: the template it names).  The locale and `today'     *)
(* change display text only and are left out here; module ChangeReport has *)
(* them.  Kind "variable" stands for the text and image bindings, "table"  *)
(* for tables and barcodes: within each pair the sync decisions agree.     *)
(***************************************************************************)
EXTENDS Naturals

CONSTANTS
    BindingId,      \* binding ids
    QueryId,        \* query ids
    Recipe,         \* what a query may be: its SQL and shape
    Content,        \* what a result may hold
    Param,          \* bound parameter sets
    InitParam,      \* the parameters of a fresh engine (none bound)
    Expr,           \* binding expressions; for a record flow, template names
    Definition,     \* the binding definitions in use
    Record,         \* record indices a per-record binding resolves at
    Uncoercible,    \* property values that fail coercion
    NoRecipe, NoResult, NoDefinition, NoState, NoStamp

ASSUME DefinitionAssumption ==
    Definition \subseteq
        [kind  : {"variable", "visibility", "table", "recordFlow", "property", "rule"},
         query : QueryId,
         reads : Expr]

ASSUME InputAssumption ==
    /\ Uncoercible \subseteq Expr \X Content \X Param \X Record
    /\ InitParam \in Param
    /\ Record \subseteq Nat /\ 0 \in Record

ASSUME SentinelAssumption ==
    /\ NoRecipe \notin Recipe
    /\ NoResult \notin Content
    /\ NoDefinition \notin Definition

VARIABLES
    queries,        \* the recipe of each registered query
    bindings,       \* the definition of each registered binding
    templates,      \* the record-flow templates registered
    results,        \* the result each query delivered last
    params,         \* the bound parameters
    sync,           \* the sync state of each binding
    edited          \* history: bindings whose definition, template, query
                    \* recipe or parameters were edited since they were last
                    \* resolved

engineVars == <<queries, bindings, templates, results, params, sync, edited>>

Status == {"Linked", "Pinned", "Overridden", "Stale", "Error"}

\* A ResolveStamp: what a resolved value was computed from.
Stamp == [content : Content, recipe : Recipe \cup {NoRecipe}, param : Param]

SyncState == [status : Status, last : Stamp \cup {NoStamp}]

ASSUME StateSentinelAssumption ==
    /\ NoState \notin SyncState
    /\ NoStamp \notin Stamp

EngineTypeOK ==
    /\ queries \in [QueryId -> Recipe \cup {NoRecipe}]
    /\ bindings \in [BindingId -> Definition \cup {NoDefinition}]
    /\ templates \subseteq Expr
    /\ results \in [QueryId -> Content \cup {NoResult}]
    /\ params \in Param
    /\ sync \in [BindingId -> SyncState \cup {NoState}]
    /\ edited \subseteq BindingId

-----------------------------------------------------------------------------
(* State functions of the engine. *)

Defined(b) == bindings[b] # NoDefinition

LinkedState == [status |-> "Linked", last |-> NoStamp]

\* SyncState::accepts_refresh
Frozen(st) == st.status \in {"Pinned", "Overridden"}
AcceptsRefresh(st) == ~Frozen(st)

\* Mutant of Reads: a record flow hides its query.
ReadsButFlows(b, q) ==
    Defined(b) /\ bindings[b].kind \notin {"rule", "recordFlow"} /\ bindings[b].query = q

\* A rule carries no query of its own (Binding::query is None).
Reads(b, q) == Defined(b) /\ bindings[b].kind # "rule" /\ bindings[b].query = q

StampFor(q) ==
    [content |-> results[q], recipe |-> queries[q], param |-> params]

\* resolve_content succeeds: a known binding with a query, a delivered
\* result and, for a record flow, its template.
Resolvable(b) ==
    /\ Defined(b)
    /\ bindings[b].kind # "rule"
    /\ results[bindings[b].query] # NoResult
    /\ bindings[b].kind = "recordFlow" => bindings[b].reads \in templates

\* A property value that resolved but failed coercion.
Fails(b, r) ==
    /\ bindings[b].kind = "property"
    /\ <<bindings[b].reads, results[bindings[b].query], params, r>> \in Uncoercible

\* Mutant of StampedState: an Error outlives the resolve that clears it.
ErrorSticks(b, r) ==
    [status |-> IF Fails(b, r) \/ sync[b].status = "Error" THEN "Error" ELSE "Linked",
     last   |-> StampFor(bindings[b].query)]

\* resolve_at, the successful branch: status and a fresh stamp.
StampedState(b, r) ==
    [status |-> IF Fails(b, r) THEN "Error" ELSE "Linked",
     last   |-> StampFor(bindings[b].query)]

\* The sync state of b after resolve_at(b, r): a failure is an Error unless
\* the binding is frozen, a success re-links whatever the status was.
ResolvedState(b, r) ==
    CASE Resolvable(b) -> StampedState(b, r)
      [] ~Resolvable(b) /\ sync[b] # NoState /\ AcceptsRefresh(sync[b]) ->
            [sync[b] EXCEPT !.status = "Error"]
      [] OTHER -> sync[b]

\* sync_report
SyncReport == {b \in BindingId : sync[b] # NoState /\ sync[b].status # "Linked"}

-----------------------------------------------------------------------------
(* Operations. *)

EngineInit ==
    /\ queries = [q \in QueryId |-> NoRecipe]
    /\ bindings = [b \in BindingId |-> NoDefinition]
    /\ templates = {}
    /\ results = [q \in QueryId |-> NoResult]
    /\ params = InitParam
    /\ sync = [b \in BindingId |-> NoState]
    /\ edited = {}

\* add_query: the new recipe; no binding's status moves.
AddQuery(q, r) ==
    /\ queries' = [queries EXCEPT ![q] = r]
    /\ edited' = IF r = queries[q] THEN edited
                 ELSE edited \cup {b \in BindingId : Reads(b, q)}
    /\ UNCHANGED <<bindings, templates, results, params, sync>>

\* add_binding: a new binding starts Linked, a known one keeps its state.
AddBinding(b, d) ==
    /\ bindings' = [bindings EXCEPT ![b] = d]
    /\ sync' = [sync EXCEPT ![b] = IF @ = NoState THEN LinkedState ELSE @]
    /\ edited' = IF d = bindings[b] THEN edited ELSE edited \cup {b}
    /\ UNCHANGED <<queries, templates, results, params>>

\* Mutant of RemoveBinding: the sync state stays behind.
RemoveDefinitionOnly(b) ==
    /\ bindings' = [bindings EXCEPT ![b] = NoDefinition]
    /\ edited' = edited \ {b}
    /\ UNCHANGED <<queries, templates, results, params, sync>>

\* remove_binding
RemoveBinding(b) ==
    /\ bindings' = [bindings EXCEPT ![b] = NoDefinition]
    /\ sync' = [sync EXCEPT ![b] = NoState]
    /\ edited' = edited \ {b}
    /\ UNCHANGED <<queries, templates, results, params>>

\* add_template: a template whose content may differ under the same name.
AddTemplate(t) ==
    /\ templates' = templates \cup {t}
    /\ edited' = edited \cup {b \in BindingId : /\ Defined(b)
                                                /\ bindings[b].kind = "recordFlow"
                                                /\ bindings[b].reads = t}
    /\ UNCHANGED <<queries, bindings, results, params, sync>>

\* set_param
SetParam(p) ==
    /\ params' = p
    /\ edited' = IF p = params THEN edited ELSE BindingId
    /\ UNCHANGED <<queries, bindings, templates, results, sync>>

\* Mutant of StaleUnlessFrozen: a refresh marks frozen bindings too.
StaleAlways(b, q) ==
    IF Reads(b, q) THEN [sync[b] EXCEPT !.status = "Stale"] ELSE sync[b]

\* The status of b once query q delivered new content.
StaleUnlessFrozen(b, q) ==
    CASE Reads(b, q) /\ sync[b] = NoState -> [LinkedState EXCEPT !.status = "Stale"]
      [] Reads(b, q) /\ sync[b] # NoState /\ AcceptsRefresh(sync[b]) ->
            [sync[b] EXCEPT !.status = "Stale"]
      [] OTHER -> sync[b]

\* set_result: a genuine change marks the dependents that accept a refresh;
\* the same content again moves nothing.
SetResult(q, c) ==
    /\ results' = [results EXCEPT ![q] = c]
    /\ sync' = [b \in BindingId |->
                   IF c = results[q] THEN sync[b] ELSE StaleUnlessFrozen(b, q)]
    /\ UNCHANGED <<queries, bindings, templates, params, edited>>

\* pin, relink: only a binding with a sync state.
Pin(b) ==
    /\ sync[b] # NoState
    /\ sync' = [sync EXCEPT ![b].status = "Pinned"]
    /\ UNCHANGED <<queries, bindings, templates, results, params, edited>>

Relink(b) ==
    /\ sync[b] # NoState
    /\ sync' = [sync EXCEPT ![b].status = "Stale"]
    /\ UNCHANGED <<queries, bindings, templates, results, params, edited>>

OverriddenState(b) ==
    IF sync[b] = NoState THEN [LinkedState EXCEPT !.status = "Overridden"]
                         ELSE [sync[b] EXCEPT !.status = "Overridden"]

\* mark_overridden: creates the state when there is none.
MarkOverridden(b) ==
    /\ sync' = [sync EXCEPT ![b] = OverriddenState(b)]
    /\ UNCHANGED <<queries, bindings, templates, results, params, edited>>

\* resolve_at, called on every binding of S in turn (a resolve touches the
\* state of its own binding only).
ResolveAll(S, r) ==
    /\ sync' = [b \in BindingId |-> IF b \in S THEN ResolvedState(b, r) ELSE sync[b]]
    /\ edited' = edited \ {b \in S : Resolvable(b) \/ (sync[b] # NoState /\ AcceptsRefresh(sync[b]))}
    /\ UNCHANGED <<queries, bindings, templates, results, params>>

-----------------------------------------------------------------------------
(* What the sync states promise. *)

\* The sync states are exactly those of the registered bindings: a binding
\* is never without one (its divergence would go unreported) and a removed
\* binding leaves none behind (it would haunt the sync report).
SyncCoversRecipe == \A b \in BindingId : Defined(b) <=> sync[b] # NoState

\* "Divergences are reported, never silently clobbered" (data-bind/src/lib.rs
\* header): a binding whose last value was computed from data its query has
\* since replaced is in the sync report, as long as its recipe was not edited.
DivergenceReported ==
    \A b \in BindingId :
        /\ Defined(b) /\ bindings[b].kind # "rule"
        /\ b \notin edited
        /\ sync[b] # NoState
        /\ sync[b].last \notin {NoStamp, StampFor(bindings[b].query)}
        => b \in SyncReport

\* Error is never a leftover (resolve_at sets it, a successful resolve or a
\* new result clears it): while the recipe is unedited, a binding in Error
\* still cannot produce a value at some record it may be resolved at.
ErrorIsReal ==
    \A b \in BindingId :
        /\ Defined(b) /\ b \notin edited
        /\ sync[b] # NoState /\ sync[b].status = "Error"
        => ~Resolvable(b) \/ \E r \in Record : Fails(b, r)

\* binding.rs, ResolveStamp: "Two stamps are equal iff source content + query
\* + params match - the invalidation key for the resolution graph"; Linked
\* "tracks the source live".  So a Linked binding that was resolved would
\* carry the stamp of the current content, recipe and parameters.
LinkedIsCurrent ==
    \A b \in BindingId :
        /\ Defined(b) /\ bindings[b].kind # "rule"
        /\ sync[b] # NoState /\ sync[b].status = "Linked"
        => sync[b].last \in {NoStamp, StampFor(bindings[b].query)}
=============================================================================
