-------------------------- MODULE DataSessionProofs ---------------------------
(***************************************************************************)
(* Proofs about the data session, for any number of bindings, queries,     *)
(* data sets and contents.  The last part shows that it implements the     *)
(* conflict policy: every call of the session is a step of ConflictPolicy  *)
(* under the mapping of DataSession, or leaves it as it is.                *)
(***************************************************************************)
EXTENDS DataSession, TLAPS

USE DefinitionAssumption, InputAssumption, SentinelAssumption,
    StateSentinelAssumption, ColumnAssumption, SessionSentinelAssumption

-----------------------------------------------------------------------------
(* What the engine's state functions return. *)

\* A resolve leaves a well-formed state behind, whatever record it was tried at.
LEMMA ResolvedStateType ==
    ASSUME EngineTypeOK, NEW b \in BindingId, NEW r \in Record
    PROVE  ResolvedState(b, r) \in SyncState \cup {NoState}
<1>1. CASE Resolvable(b)
    <2>1. bindings[b] \in Definition
        BY <1>1 DEF EngineTypeOK, Resolvable, Defined
    <2>2. bindings[b].query \in QueryId
        BY <2>1
    <2>3. StampFor(bindings[b].query) \in Stamp
        BY <1>1, <2>2 DEF EngineTypeOK, Resolvable, StampFor, Stamp
    <2> QED
        BY <1>1, <2>3 DEF ResolvedState, StampedState, SyncState, Status
<1>2. CASE ~Resolvable(b)
    BY <1>2 DEF ResolvedState, EngineTypeOK, SyncState, Status
<1> QED
    BY <1>1, <1>2

\* New content leaves well-formed states behind.
LEMMA StaleType ==
    ASSUME EngineTypeOK, NEW b \in BindingId, NEW q \in QueryId
    PROVE  StaleUnlessFrozen(b, q) \in SyncState \cup {NoState}
BY DEF EngineTypeOK, StaleUnlessFrozen, LinkedState, SyncState, Status

\* An override leaves a well-formed state, also where there was none.
LEMMA OverriddenType ==
    ASSUME EngineTypeOK, NEW b \in BindingId
    PROVE  OverriddenState(b) \in SyncState
BY DEF EngineTypeOK, OverriddenState, LinkedState, SyncState, Status

\* A batch of resolves preserves the engine's type.
LEMMA ResolveAllType ==
    ASSUME EngineTypeOK, NEW S \in SUBSET BindingId, NEW r \in Record, ResolveAll(S, r)
    PROVE  EngineTypeOK'
<1>1. \A b \in BindingId : ResolvedState(b, r) \in SyncState \cup {NoState}
    BY ResolvedStateType
<1>2. sync' \in [BindingId -> SyncState \cup {NoState}]
    BY <1>1 DEF ResolveAll, EngineTypeOK
<1> QED
    BY <1>2 DEF ResolveAll, EngineTypeOK

\* So does a delivery.
LEMMA SetResultType ==
    ASSUME EngineTypeOK, NEW q \in QueryId, NEW c \in Content, SetResult(q, c)
    PROVE  EngineTypeOK'
<1>1. sync' \in [BindingId -> SyncState \cup {NoState}]
    BY StaleType DEF SetResult, EngineTypeOK
<1> QED
    BY <1>1 DEF SetResult, EngineTypeOK

-----------------------------------------------------------------------------
(* Type correctness. *)

\* A fresh session is well typed.
LEMMA InitType == Init => TypeOK
BY DEF Init, EngineInit, TypeOK, EngineTypeOK, DataSet

\* Definitions preserve the type.
LEMMA DefineType == TypeOK /\ DefineStep => TypeOK'
<1> SUFFICES ASSUME TypeOK, DefineStep PROVE TypeOK'
    OBVIOUS
<1> USE DEF TypeOK, EngineTypeOK, sessionVars, history
<1>1. ASSUME NEW q \in QueryId, NEW r \in Recipe, DefineQuery(q, r) PROVE TypeOK'
    BY <1>1 DEF DefineQuery, AddQuery
<1>2. ASSUME NEW t \in Expr, DefineTemplate(t) PROVE TypeOK'
    BY <1>2 DEF DefineTemplate, AddTemplate
<1>3. ASSUME NEW p \in Param, BindParam(p) PROVE TypeOK'
    BY <1>3 DEF BindParam, SetParam
<1>4. ASSUME NEW b \in BindingId, NEW d \in Definition, DefineBinding(b, d) PROVE TypeOK'
    BY <1>4 DEF DefineBinding, AddBinding, LinkedState, SyncState, Status
<1>5. ASSUME NEW b \in BindingId, ForgetBinding(b) PROVE TypeOK'
    BY <1>5 DEF ForgetBinding, RemoveBinding, Release
<1> QED
    BY <1>1, <1>2, <1>3, <1>4, <1>5 DEF DefineStep

\* Both ingest doors preserve the type; the column count never passes the schema's.
LEMMA IngestType == TypeOK /\ IngestStep => TypeOK'
<1> SUFFICES ASSUME TypeOK, IngestStep PROVE TypeOK'
    OBVIOUS
<1> USE DEF TypeOK, history
<1>1. ASSUME NEW q \in QueryId, NEW c \in Content, IngestResult(q, c) PROVE TypeOK'
    BY <1>1, SetResultType DEF IngestResult
<1>2. ASSUME NEW q \in QueryId, NEW buf \in Buffer, BeginColumns(q, buf) PROVE TypeOK'
    BY <1>2 DEF BeginColumns, PendingIngest, engineVars, EngineTypeOK
<1>3. CASE PushColumn
    BY <1>3 DEF PushColumn, PendingIngest, engineVars, EngineTypeOK
<1>4. CASE PushRefused \/ FinishRefused
    BY <1>4 DEF PushRefused, FinishRefused, engineVars, EngineTypeOK
<1>5. CASE FinishColumns
    <2>1. pending.query \in QueryId /\ pending.buffer \in Buffer
        BY <1>5 DEF FinishColumns, PendingIngest
    <2>2. CASE Redelivered(pending)
        BY <1>5, <2>2 DEF FinishColumns, engineVars, EngineTypeOK
    <2>3. CASE ~Redelivered(pending)
        <3>1. Decode[pending.buffer] \in Content
            BY <2>1
        <3>2. EngineTypeOK'
            BY <1>5, <2>1, <2>3, <3>1, SetResultType DEF FinishColumns
        <3> QED
            BY <1>5, <2>1, <2>3, <3>2 DEF FinishColumns
    <2> QED
        BY <2>2, <2>3
<1> QED
    BY <1>1, <1>2, <1>3, <1>4, <1>5 DEF IngestStep

\* Sync decisions and user resolves preserve the type.
LEMMA SyncType == TypeOK /\ SyncStep => TypeOK'
<1> SUFFICES ASSUME TypeOK, SyncStep PROVE TypeOK'
    OBVIOUS
<1> USE DEF TypeOK, sessionVars
<1>1. ASSUME NEW b \in BindingId, PinBinding(b) PROVE TypeOK'
    BY <1>1 DEF PinBinding, Pin, Hold, EngineTypeOK, SyncState, Status
<1>2. ASSUME NEW b \in BindingId, OverrideBinding(b) PROVE TypeOK'
    BY <1>2, OverriddenType DEF OverrideBinding, MarkOverridden, Hold, EngineTypeOK
<1>3. ASSUME NEW b \in BindingId, RelinkBinding(b) PROVE TypeOK'
    BY <1>3 DEF RelinkBinding, Relink, Release, EngineTypeOK, SyncState, Status
<1>4. ASSUME NEW b \in BindingId, NEW r \in Record, ResolveLowered(b, r) PROVE TypeOK'
    BY <1>4, ResolveAllType DEF ResolveLowered, Release
<1> QED
    BY <1>1, <1>2, <1>3, <1>4 DEF SyncStep

\* The refresh lanes preserve the type.
LEMMA RefreshType == TypeOK /\ RefreshStep => TypeOK'
<1> SUFFICES ASSUME TypeOK, RefreshStep PROVE TypeOK'
    OBVIOUS
<1> USE DEF TypeOK, sessionVars
<1>1. ASSUME NEW ids \in SUBSET BindingId, RefreshFieldValues(ids) PROVE TypeOK'
    BY <1>1, ResolveAllType DEF RefreshFieldValues
<1>2. ASSUME NEW ids \in SUBSET BindingId, NEW v \in BOOLEAN, NEW r \in Record,
             ResolveProperties(ids, v, r)
      PROVE  TypeOK'
    BY <1>2, ResolveAllType DEF ResolveProperties
<1> QED
    BY <1>1, <1>2 DEF RefreshStep

\* Capture, apply, delete and import preserve the type.
LEMMA DataSetType == TypeOK /\ DataSetStep => TypeOK'
<1> SUFFICES ASSUME TypeOK, DataSetStep PROVE TypeOK'
    OBVIOUS
<1> USE DEF TypeOK, DataSet
<1>0. \A D \in SUBSET BindingId : WithDeclarations(D) \in SUBSET BindingId
    BY DEF WithDeclarations
<1>1. ASSUME NEW n \in SetName, NEW r \in Record, CaptureDataSet(n, r) PROVE TypeOK'
    <2>1. EngineTypeOK'
        BY <1>0, <1>1, ResolveAllType DEF CaptureDataSet
    <2> QED
        BY <1>0, <1>1, <2>1 DEF CaptureDataSet
<1>2. ASSUME NEW n \in SetName, ApplyDataSet(n) PROVE TypeOK'
    <2>1. sync' \in [BindingId -> SyncState \cup {NoState}]
        BY <1>2, OverriddenType DEF ApplyDataSet, EngineTypeOK
    <2> QED
        BY <1>0, <1>2, <2>1 DEF ApplyDataSet, Hold, EngineTypeOK
<1>3. ASSUME NEW n \in SetName, DeleteDataSet(n) PROVE TypeOK'
    BY <1>3 DEF DeleteDataSet, engineVars, history, EngineTypeOK
<1>4. ASSUME NEW D \in SUBSET BindingId, NEW sets \in [SetName -> DataSet \cup {NoSet}],
             ImportLibrary(D, sets)
      PROVE  TypeOK'
    BY <1>0, <1>4 DEF ImportLibrary, engineVars, history, EngineTypeOK
<1> QED
    BY <1>1, <1>2, <1>3, <1>4 DEF DataSetStep

\* A save and reopen preserves the type.
LEMMA ReopenType == TypeOK /\ Reopen => TypeOK'
<1> SUFFICES ASSUME TypeOK, Reopen PROVE TypeOK'
    OBVIOUS
<1>1. \A b \in BindingId : RestoredState(b) \in SyncState \cup {NoState}
    BY DEF TypeOK, EngineTypeOK, RestoredState, SyncState, Status
<1> QED
    BY <1>1 DEF TypeOK, EngineTypeOK, Reopen, history

\* Every step of the session keeps its state well-formed.
LEMMA StepType == TypeOK /\ [Next]_vars => TypeOK'
<1>1. TypeOK /\ UNCHANGED vars => TypeOK'
    BY DEF TypeOK, EngineTypeOK, vars, engineVars, sessionVars, history
<1> QED
    BY <1>1, DefineType, IngestType, SyncType, RefreshType, DataSetType, ReopenType DEF Next

\* The session's state is well-formed in every behaviour.
THEOREM TypeCorrect == Spec => []TypeOK
BY InitType, StepType, PTL DEF Spec

-----------------------------------------------------------------------------
(* The recipe and its states.  The saved recipe is the engine's; then the  *)
(* states of the recipe's bindings are all there is.                       *)

Cover == PayloadIsLive /\ SyncCoversRecipe

\* A batch of resolves keeps a sync state exactly where there was one.
LEMMA ResolveAllCover ==
    ASSUME TypeOK, Cover, NEW S \in SUBSET BindingId, NEW r \in Record, ResolveAll(S, r)
    PROVE  SyncCoversRecipe'
<1> SUFFICES ASSUME NEW b \in BindingId
             PROVE  Defined(b)' <=> sync'[b] # NoState
    BY DEF SyncCoversRecipe
<1>1. Defined(b)' <=> Defined(b)
    BY DEF ResolveAll, Defined
<1>2. Resolvable(b) => Defined(b) /\ StampedState(b, r) # NoState
    <2>1. SUFFICES ASSUME Resolvable(b) PROVE StampedState(b, r) \in SyncState
        BY DEF Resolvable
    <2>2. ResolvedState(b, r) = StampedState(b, r)
        BY <2>1 DEF ResolvedState
    <2>3. bindings[b] \in Definition /\ bindings[b].query \in QueryId
        BY <2>1 DEF TypeOK, EngineTypeOK, Resolvable, Defined
    <2>4. StampFor(bindings[b].query) \in Stamp
        BY <2>1, <2>3 DEF TypeOK, EngineTypeOK, Resolvable, StampFor, Stamp
    <2> QED
        BY <2>4 DEF StampedState, SyncState, Status
<1>3. ~Resolvable(b) => (ResolvedState(b, r) # NoState <=> sync[b] # NoState)
    BY DEF ResolvedState, TypeOK, EngineTypeOK, SyncState, Status
<1>4. ResolvedState(b, r) # NoState <=> sync[b] # NoState
    BY <1>2, <1>3 DEF Cover, SyncCoversRecipe, ResolvedState
<1>5. sync'[b] = IF b \in S THEN ResolvedState(b, r) ELSE sync[b]
    BY DEF ResolveAll
<1> QED
    BY <1>1, <1>4, <1>5 DEF Cover, SyncCoversRecipe

\* A delivery gives no binding a state it should not have.
LEMMA SetResultCover ==
    ASSUME TypeOK, Cover, NEW q \in QueryId, NEW c \in Content, SetResult(q, c)
    PROVE  SyncCoversRecipe'
<1> SUFFICES ASSUME NEW b \in BindingId
             PROVE  Defined(b)' <=> sync'[b] # NoState
    BY DEF SyncCoversRecipe
<1>1. Defined(b)' <=> Defined(b)
    BY DEF SetResult, Defined
<1>2. StaleUnlessFrozen(b, q) # NoState <=> sync[b] # NoState
    BY DEF StaleUnlessFrozen, Cover, SyncCoversRecipe, Reads, TypeOK, EngineTypeOK,
           SyncState, Status
<1>3. sync'[b] = IF c = results[q] THEN sync[b] ELSE StaleUnlessFrozen(b, q)
    BY DEF SetResult
<1> QED
    BY <1>1, <1>2, <1>3 DEF Cover, SyncCoversRecipe

\* No step separates the saved recipe, the engine's recipe and the states.
LEMMA StepCover == TypeOK /\ Cover /\ [Next]_vars => Cover'
<1> SUFFICES ASSUME TypeOK, Cover, [Next]_vars PROVE Cover'
    OBVIOUS
<1>1. ASSUME NEW S \in SUBSET BindingId, NEW r \in Record, ResolveAll(S, r),
             UNCHANGED recipe
      PROVE  Cover'
    BY <1>1, ResolveAllCover DEF Cover, PayloadIsLive, ResolveAll
<1>2. ASSUME NEW q \in QueryId, NEW c \in Content, SetResult(q, c), UNCHANGED recipe
      PROVE  Cover'
    BY <1>2, SetResultCover DEF Cover, PayloadIsLive, SetResult
<1>3. ASSUME UNCHANGED <<recipe, bindings, sync>> PROVE Cover'
    BY <1>3 DEF Cover, PayloadIsLive, SyncCoversRecipe, Defined
<1>4. CASE DefineStep
    <2> USE DEF Cover, PayloadIsLive, SyncCoversRecipe, Defined, TypeOK, EngineTypeOK
    <2>1. ASSUME NEW b \in BindingId, NEW d \in Definition, DefineBinding(b, d) PROVE Cover'
        BY <2>1 DEF DefineBinding, AddBinding, LinkedState, SyncState, Status
    <2>2. ASSUME NEW b \in BindingId, ForgetBinding(b) PROVE Cover'
        BY <2>2 DEF ForgetBinding, RemoveBinding
    <2> QED
        BY <1>3, <1>4, <2>1, <2>2
           DEF DefineStep, DefineQuery, AddQuery, DefineTemplate, AddTemplate, BindParam,
               SetParam, sessionVars
<1>5. CASE IngestStep
    <2>1. CASE FinishColumns /\ ~Redelivered(pending)
        <3>1. pending.query \in QueryId /\ pending.buffer \in Buffer
            BY <2>1 DEF FinishColumns, TypeOK, PendingIngest
        <3>2. Decode[pending.buffer] \in Content
            BY <3>1
        <3> QED
            BY <1>2, <2>1, <3>1, <3>2 DEF FinishColumns
    <2> QED
        BY <1>2, <1>3, <1>5, <2>1
           DEF IngestStep, IngestResult, BeginColumns, PushColumn, PushRefused,
               FinishColumns, FinishRefused, engineVars
<1>6. CASE SyncStep
    <2> USE DEF Cover, PayloadIsLive, SyncCoversRecipe, Defined, TypeOK, EngineTypeOK, sessionVars
    <2>1. ASSUME NEW b \in BindingId, PinBinding(b) PROVE Cover'
        BY <2>1 DEF PinBinding, Pin, SyncState, Status
    <2>2. ASSUME NEW b \in BindingId, OverrideBinding(b) PROVE Cover'
        BY <2>2, OverriddenType DEF OverrideBinding, MarkOverridden
    <2>3. ASSUME NEW b \in BindingId, RelinkBinding(b) PROVE Cover'
        BY <2>3 DEF RelinkBinding, Relink, SyncState, Status
    <2> QED
        BY <1>1, <1>6, <2>1, <2>2, <2>3 DEF SyncStep, ResolveLowered
<1>7. CASE RefreshStep
    BY <1>1, <1>7 DEF RefreshStep, RefreshFieldValues, ResolveProperties, sessionVars, TypeOK
<1>8. CASE DataSetStep
    <2>1. ASSUME NEW n \in SetName, NEW r \in Record, CaptureDataSet(n, r) PROVE Cover'
        <3>1. WithDeclarations(declared) \in SUBSET BindingId
            BY DEF WithDeclarations, TypeOK
        <3> QED
            BY <1>1, <2>1, <3>1 DEF CaptureDataSet
    <2>2. ASSUME NEW n \in SetName, ApplyDataSet(n) PROVE Cover'
        BY <2>2, OverriddenType
           DEF ApplyDataSet, Cover, PayloadIsLive, SyncCoversRecipe, Defined, TypeOK, EngineTypeOK
    <2> QED
        BY <1>3, <1>8, <2>1, <2>2 DEF DataSetStep, DeleteDataSet, ImportLibrary, engineVars
<1>9. CASE Reopen
    <2>1. ASSUME NEW b \in BindingId, recipe[b] # NoDefinition
          PROVE  RestoredState(b) \in SyncState
        BY <2>1 DEF RestoredState, SyncState, Status, Frozen
    <2>2. \A b \in BindingId : recipe[b] = NoDefinition => RestoredState(b) = NoState
        BY DEF RestoredState
    <2> QED
        BY <1>9, <2>1, <2>2 DEF Reopen, Cover, PayloadIsLive, SyncCoversRecipe, Defined
<1> QED
    BY <1>3, <1>4, <1>5, <1>6, <1>7, <1>8, <1>9 DEF Next, vars, engineVars, sessionVars

\* A save writes what the engine runs, and the sync states are exactly those
\* of the bindings it would write.
THEOREM RecipeCovered == Spec => [](PayloadIsLive /\ SyncCoversRecipe)
<1>1. Init => Cover
    BY DEF Init, EngineInit, Cover, PayloadIsLive, SyncCoversRecipe, Defined
<1> QED
    BY <1>1, StepCover, TypeCorrect, PTL DEF Spec, Cover

\* In particular the two copies of the recipe never part: what a save writes is
\* what the engine runs, so a reopened document shows the bindings it was saved
\* with.
THEOREM SavedIsLive == Spec => []PayloadIsLive
<1>1. PayloadIsLive /\ SyncCoversRecipe => PayloadIsLive
    OBVIOUS
<1> QED
    BY <1>1, RecipeCovered, PTL

-----------------------------------------------------------------------------
(* The conflict policy.                                                    *)

PromiseKept == FrozenHeld /\ RefreshKeepsFrozen

\* A resolve of bindings that are not frozen moves no frozen one.
LEMMA ResolveKeeps ==
    ASSUME FrozenHeld, NEW S \in SUBSET BindingId, NEW r \in Record, ResolveAll(S, r),
           \A b \in S : b \in held' \ captured' => ~Resolvable(b),
           held' \ captured' \subseteq held \ captured, TypeOK
    PROVE  FrozenHeld'
<1> SUFFICES ASSUME NEW b \in held' \ captured'
             PROVE  sync'[b] # NoState /\ Frozen(sync'[b])
    BY DEF FrozenHeld
<1>1. b \in BindingId /\ sync[b] # NoState /\ Frozen(sync[b])
    BY DEF FrozenHeld, TypeOK
<1>2. ~Resolvable(b) => ResolvedState(b, r) = sync[b]
    BY <1>1 DEF ResolvedState, AcceptsRefresh
<1>3. sync'[b] = IF b \in S THEN ResolvedState(b, r) ELSE sync[b]
    BY <1>1 DEF ResolveAll
<1> QED
    BY <1>1, <1>2, <1>3

\* What a refresh lane tries, it may: none of it is frozen.
LEMMA RefreshKeeps ==
    ASSUME TypeOK, PromiseKept, NEW S \in SUBSET BindingId, NEW r \in Record, ResolveAll(S, r),
           \A b \in S : Refreshable(b),
           NEW written \in SUBSET S, clobbered' = clobbered \cup (held \cap written),
           UNCHANGED <<held, captured>>
    PROVE  PromiseKept'
<1>1. \A b \in S : b \notin held \ captured
    BY DEF PromiseKept, FrozenHeld, Refreshable, AcceptsRefresh
<1>2. FrozenHeld'
    BY <1>1, ResolveKeeps DEF PromiseKept
<1>3. RefreshKeepsFrozen'
    BY <1>1 DEF PromiseKept, RefreshKeepsFrozen
<1> QED
    BY <1>2, <1>3 DEF PromiseKept

\* New content leaves a frozen binding frozen.
LEMMA SetResultKeeps ==
    ASSUME TypeOK, PromiseKept, NEW q \in QueryId, NEW c \in Content, SetResult(q, c),
           UNCHANGED history
    PROVE  PromiseKept'
<1>1. \A b \in held \ captured : StaleUnlessFrozen(b, q) = sync[b]
    BY DEF PromiseKept, FrozenHeld, StaleUnlessFrozen, AcceptsRefresh
<1>2. \A b \in held \ captured : sync'[b] = sync[b]
    BY <1>1 DEF SetResult, TypeOK
<1> QED
    BY <1>2 DEF PromiseKept, FrozenHeld, RefreshKeepsFrozen, history

\* Every step keeps the conflict policy: one step per action.
LEMMA StepPolicy == TypeOK /\ Cover /\ PromiseKept /\ [Next]_vars => PromiseKept'
<1> SUFFICES ASSUME TypeOK, Cover, PromiseKept, [Next]_vars PROVE PromiseKept'
    OBVIOUS
<1>1. ASSUME UNCHANGED <<sync, history>> PROVE PromiseKept'
    BY <1>1 DEF PromiseKept, FrozenHeld, RefreshKeepsFrozen, history
<1>2. ASSUME NEW q \in QueryId, NEW c \in Content, SetResult(q, c), UNCHANGED history
      PROVE  PromiseKept'
    BY <1>2, SetResultKeeps
<1>3. CASE DefineStep
    <2> USE DEF PromiseKept, FrozenHeld, RefreshKeepsFrozen
    <2>1. ASSUME NEW b \in BindingId, NEW d \in Definition, DefineBinding(b, d) PROVE PromiseKept'
        BY <2>1 DEF DefineBinding, AddBinding, history, TypeOK, EngineTypeOK
    <2>2. ASSUME NEW b \in BindingId, ForgetBinding(b) PROVE PromiseKept'
        BY <2>2 DEF ForgetBinding, RemoveBinding, Release, TypeOK, EngineTypeOK
    <2> QED
        BY <1>1, <1>3, <2>1, <2>2
           DEF DefineStep, DefineQuery, AddQuery, DefineTemplate, AddTemplate, BindParam,
               SetParam
<1>4. CASE IngestStep
    <2>1. CASE FinishColumns /\ ~Redelivered(pending)
        <3>1. pending.query \in QueryId /\ pending.buffer \in Buffer
            BY <2>1 DEF FinishColumns, TypeOK, PendingIngest
        <3>2. Decode[pending.buffer] \in Content
            BY <3>1
        <3> QED
            BY <1>2, <2>1, <3>1, <3>2 DEF FinishColumns
    <2> QED
        BY <1>1, <1>2, <1>4, <2>1
           DEF IngestStep, IngestResult, BeginColumns, PushColumn, PushRefused,
               FinishColumns, FinishRefused, engineVars
<1>5. CASE SyncStep
    <2> USE DEF PromiseKept, FrozenHeld, RefreshKeepsFrozen
    <2>1. ASSUME NEW b \in BindingId, PinBinding(b) PROVE PromiseKept'
        BY <2>1 DEF PinBinding, Pin, Hold, TypeOK, EngineTypeOK, SyncState, Status, Frozen
    <2>2. ASSUME NEW b \in BindingId, OverrideBinding(b) PROVE PromiseKept'
        <3>1. OverriddenState(b) # NoState /\ Frozen(OverriddenState(b))
            BY OverriddenType
               DEF OverriddenState, Frozen, LinkedState, TypeOK, EngineTypeOK, SyncState
        <3> QED
            BY <2>2, <3>1 DEF OverrideBinding, MarkOverridden, Hold, TypeOK, EngineTypeOK
    <2>3. ASSUME NEW b \in BindingId, RelinkBinding(b) PROVE PromiseKept'
        BY <2>3 DEF RelinkBinding, Relink, Release, TypeOK, EngineTypeOK
    <2>4. ASSUME NEW b \in BindingId, NEW r \in Record, ResolveLowered(b, r) PROVE PromiseKept'
        <3>1. RefreshKeepsFrozen' /\ held' \ captured' \subseteq held \ captured
            BY <2>4 DEF ResolveLowered, Release
        <3>2. b \in held' \ captured' => ~Resolvable(b)
            BY <2>4 DEF ResolveLowered, Release
        <3>3. FrozenHeld'
            BY <2>4, <3>1, <3>2, ResolveKeeps DEF ResolveLowered
        <3> QED
            BY <3>1, <3>3
    <2> QED
        BY <1>5, <2>1, <2>2, <2>3, <2>4 DEF SyncStep
<1>6. CASE RefreshStep
    <2>1. ASSUME NEW ids \in SUBSET BindingId, RefreshFieldValues(ids) PROVE PromiseKept'
        <3> DEFINE tried == {b \in ids : Refreshable(b)}
        <3>1. PICK written \in SUBSET tried : clobbered' = clobbered \cup (held \cap written)
            BY <2>1 DEF RefreshFieldValues
        <3>2. ResolveAll(tried, 0) /\ UNCHANGED <<held, captured>>
            BY <2>1 DEF RefreshFieldValues
        <3> HIDE DEF tried
        <3>3. tried \in SUBSET BindingId /\ \A b \in tried : Refreshable(b)
            BY DEF tried
        <3> QED
            BY <3>1, <3>2, <3>3, RefreshKeeps
    <2>2. ASSUME NEW ids \in SUBSET BindingId, NEW v \in BOOLEAN, NEW r \in Record,
                 ResolveProperties(ids, v, r)
          PROVE  PromiseKept'
        <3> DEFINE wanted == {b \in ids : /\ recipe[b] # NoDefinition
                                          /\ \/ recipe[b].kind = "property"
                                             \/ v /\ recipe[b].kind = "visibility"}
                   tried  == {b \in wanted : Refreshable(b)}
        <3>1. PICK written \in SUBSET tried : clobbered' = clobbered \cup (held \cap written)
            BY <2>2 DEF ResolveProperties
        <3>2. ResolveAll(tried, r) /\ UNCHANGED <<held, captured>>
            BY <2>2 DEF ResolveProperties
        <3>3. tried \in SUBSET BindingId /\ \A b \in tried : Refreshable(b)
            OBVIOUS
        <3> HIDE DEF tried
        <3> QED
            BY <3>1, <3>2, <3>3, RefreshKeeps
    <2> QED
        BY <1>6, <2>1, <2>2 DEF RefreshStep
<1>7. CASE DataSetStep
    <2>1. ASSUME NEW n \in SetName, NEW r \in Record, CaptureDataSet(n, r) PROVE PromiseKept'
        <3> DEFINE known == WithDeclarations(declared)
        <3>1. known \in SUBSET BindingId
            BY DEF WithDeclarations, TypeOK
        <3>2. /\ captured' = captured \cup {b \in held \cap known : Resolvable(b)}
              /\ ResolveAll(known, r) /\ UNCHANGED <<held, clobbered>>
            BY <2>1 DEF CaptureDataSet
        <3> HIDE DEF known
        <3>3. \A b \in known : b \in held' \ captured' => ~Resolvable(b)
            BY <3>2
        <3>4. FrozenHeld'
            BY <3>1, <3>2, <3>3, ResolveKeeps DEF PromiseKept
        <3> QED
            BY <3>2, <3>4 DEF PromiseKept, RefreshKeepsFrozen
    <2>2. ASSUME NEW n \in SetName, ApplyDataSet(n) PROVE PromiseKept'
        <3> DEFINE applied == {b \in WithDeclarations(declared) \cap dataSets[n].values :
                                  recipe[b] # NoDefinition}
        <3>1. \A b \in BindingId : OverriddenState(b) # NoState /\ Frozen(OverriddenState(b))
            BY OverriddenType
               DEF OverriddenState, Frozen, LinkedState, TypeOK, EngineTypeOK, SyncState
        <3>2. /\ sync' = [b \in BindingId |->
                             IF b \in applied THEN OverriddenState(b) ELSE sync[b]]
              /\ Hold(applied)
            BY <2>2 DEF ApplyDataSet
        <3>3. applied \subseteq BindingId
            BY DEF WithDeclarations, TypeOK
        <3> HIDE DEF applied
        <3> QED
            BY <3>1, <3>2, <3>3 DEF Hold, PromiseKept, FrozenHeld, RefreshKeepsFrozen, TypeOK
    <2> QED
        BY <1>1, <1>7, <2>1, <2>2 DEF DataSetStep, DeleteDataSet, ImportLibrary, engineVars
<1>8. CASE Reopen
    <2>1. \A b \in held \ captured : recipe[b] # NoDefinition
        BY DEF PromiseKept, FrozenHeld, Cover, PayloadIsLive, SyncCoversRecipe, Defined, TypeOK
    <2>2. \A b \in held \ captured : RestoredState(b) # NoState /\ Frozen(RestoredState(b))
        <3> SUFFICES ASSUME NEW b \in held \ captured
                     PROVE  RestoredState(b) # NoState /\ Frozen(RestoredState(b))
            OBVIOUS
        <3>1. RestoredState(b) = [status |-> sync[b].status, last |-> NoStamp]
            BY <2>1 DEF RestoredState, PromiseKept, FrozenHeld
        <3>2. Frozen(RestoredState(b))
            BY <3>1 DEF PromiseKept, FrozenHeld, Frozen
        <3>3. RestoredState(b) \in SyncState
            BY <3>1 DEF PromiseKept, FrozenHeld, Frozen, SyncState, Status
        <3> QED
            BY <3>2, <3>3
    <2> QED
        BY <1>8, <2>2 DEF Reopen, PromiseKept, FrozenHeld, RefreshKeepsFrozen, history, TypeOK
<1> QED
    BY <1>1, <1>3, <1>4, <1>5, <1>6, <1>7, <1>8 DEF Next, vars, engineVars

\* What the user froze stays frozen, through every refresh, delivery, edit and
\* reopen, until an explicit action on it or a capture that resolves it; and no
\* refresh lane writes it before that.
THEOREM NonDestructive == Spec => [](FrozenHeld /\ RefreshKeepsFrozen)
<1>1. Init => PromiseKept
    BY DEF Init, PromiseKept, FrozenHeld, RefreshKeepsFrozen
<1>2. Spec => []Cover
    BY RecipeCovered, PTL DEF Cover
<1> QED
    BY <1>1, <1>2, StepPolicy, TypeCorrect, PTL DEF Spec, PromiseKept

-----------------------------------------------------------------------------
(* The column door.                                                        *)

\* Every step keeps the column door's memory sound: only deliveries and a reopen touch it.
LEMMA StepTransport == TypeOK /\ TransportSound /\ [Next]_vars => TransportSound'
<1> SUFFICES ASSUME TypeOK, TransportSound, [Next]_vars PROVE TransportSound'
    OBVIOUS
<1> USE DEF TransportSound, TypeOK, EngineTypeOK
<1>1. ASSUME UNCHANGED <<results, transport>> PROVE TransportSound'
    BY <1>1
<1>2. CASE DefineStep
    BY <1>1, <1>2
       DEF DefineStep, DefineQuery, AddQuery, DefineTemplate, AddTemplate, BindParam, SetParam,
           DefineBinding, AddBinding, ForgetBinding, RemoveBinding, sessionVars
<1>3. CASE IngestStep
    <2>1. ASSUME NEW q \in QueryId, NEW c \in Content, IngestResult(q, c)
          PROVE  TransportSound'
        BY <2>1 DEF IngestResult, SetResult
    <2>2. CASE FinishColumns
        <3>1. pending.query \in QueryId /\ pending.buffer \in Buffer
            BY <2>2 DEF FinishColumns, PendingIngest
        <3>2. CASE ~Redelivered(pending)
            BY <2>2, <3>1, <3>2 DEF FinishColumns, SetResult
        <3> QED
            BY <1>1, <2>2, <3>2 DEF FinishColumns, engineVars
    <2> QED
        BY <1>1, <1>3, <2>1, <2>2
           DEF IngestStep, BeginColumns, PushColumn, PushRefused, FinishRefused, engineVars
<1>4. CASE SyncStep \/ RefreshStep
    BY <1>1, <1>4
       DEF SyncStep, PinBinding, Pin, OverrideBinding, MarkOverridden, RelinkBinding, Relink,
           ResolveLowered, RefreshStep, RefreshFieldValues, ResolveProperties, ResolveAll,
           sessionVars
<1>5. CASE DataSetStep
    BY <1>1, <1>5
       DEF DataSetStep, CaptureDataSet, ResolveAll, ApplyDataSet, DeleteDataSet, ImportLibrary,
           engineVars
<1>6. CASE Reopen
    BY <1>6 DEF Reopen
<1> QED
    BY <1>1, <1>2, <1>3, <1>4, <1>5, <1>6 DEF Next, vars, engineVars, sessionVars

\* An Unchanged answer of the column door is never wrong: the buffers it
\* remembers decode to the result in force.
THEOREM TransportTrusted == Spec => []TransportSound
<1>1. Init => TransportSound
    BY DEF Init, TransportSound
<1> QED
    BY <1>1, StepTransport, TypeCorrect, PTL DEF Spec

-----------------------------------------------------------------------------
(* Divergence and errors.  Both are statements about one binding at a time *)
(* whose inputs are its query's result and recipe, the parameters, its     *)
(* definition, the templates and its own state.                            *)

Reported(b) ==
    /\ Defined(b) /\ bindings[b].kind # "rule"
    /\ b \notin edited
    /\ sync[b] # NoState
    /\ sync[b].last \notin {NoStamp, StampFor(bindings[b].query)}
    => sync[b].status # "Linked"

RealError(b) ==
    /\ Defined(b) /\ b \notin edited
    /\ sync[b] # NoState /\ sync[b].status = "Error"
    => ~Resolvable(b) \/ \E r \in Record : Fails(b, r)

Honest == \A b \in BindingId : Reported(b) /\ RealError(b)

\* The proof's per-binding form says what the two properties say.
LEMMA HonestMeans == TypeOK => (Honest <=> DivergenceReported /\ ErrorIsReal)
BY DEF Honest, Reported, RealError, DivergenceReported, ErrorIsReal, SyncReport

\* Nothing a binding's honesty is about has moved: it is as honest as before.
LEMMA HonestByFrame ==
    ASSUME UNCHANGED <<queries, bindings, templates, results, params>>,
           NEW b \in BindingId, Reported(b), RealError(b),
           b \notin edited' => b \notin edited /\ sync'[b] = sync[b]
    PROVE  Reported(b)' /\ RealError(b)'
<1>1. Resolvable(b)' <=> Resolvable(b)
    BY DEF Resolvable, Defined
<1>2. \A r \in Record : Fails(b, r)' <=> Fails(b, r)
    BY DEF Fails
<1> QED
    BY <1>1, <1>2 DEF Reported, RealError, Defined, StampFor

\* A resolve tells the truth about what it resolved.
LEMMA ResolveHonest ==
    ASSUME TypeOK, Honest, NEW S \in SUBSET BindingId, NEW r \in Record, ResolveAll(S, r)
    PROVE  Honest'
<1> SUFFICES ASSUME NEW b \in BindingId PROVE Reported(b)' /\ RealError(b)'
    BY DEF Honest
<1> USE DEF ResolveAll
<1>0. Reported(b) /\ RealError(b)
    BY DEF Honest
<1>1. sync'[b] = IF b \in S THEN ResolvedState(b, r) ELSE sync[b]
    OBVIOUS
<1>2. CASE b \notin S
    BY <1>0, <1>1, <1>2, HonestByFrame
<1>3. CASE b \in S /\ Resolvable(b)
    <2>1. sync'[b] = StampedState(b, r)
        BY <1>1, <1>3 DEF ResolvedState
    <2>2. sync'[b].last = StampFor(bindings[b].query)'
        BY <2>1 DEF StampedState, StampFor
    <2>3. sync'[b].status = "Error" => Fails(b, r)'
        BY <2>1 DEF StampedState, Fails
    <2> QED
        BY <2>2, <2>3 DEF Reported, RealError
<1>4. CASE b \in S /\ ~Resolvable(b) /\ sync[b] # NoState /\ AcceptsRefresh(sync[b])
    <2>1. sync'[b] = [sync[b] EXCEPT !.status = "Error"]
        BY <1>1, <1>4 DEF ResolvedState
    <2>2. sync'[b].status = "Error"
        BY <1>4, <2>1 DEF TypeOK, EngineTypeOK, SyncState
    <2>3. ~Resolvable(b)'
        BY <1>4 DEF Resolvable, Defined
    <2> QED
        BY <2>2, <2>3 DEF Reported, RealError
<1>5. CASE b \in S /\ ~Resolvable(b) /\ ~(sync[b] # NoState /\ AcceptsRefresh(sync[b]))
    <2>1. sync'[b] = sync[b]
        BY <1>1, <1>5 DEF ResolvedState
    <2> QED
        BY <1>0, <1>5, <2>1, HonestByFrame
<1> QED
    BY <1>2, <1>3, <1>4, <1>5

\* A delivery of the same content changes nothing; a delivery of other content
\* makes the dependents Stale, and the frozen ones were reported already.
LEMMA SetResultHonest ==
    ASSUME TypeOK, Honest, NEW q \in QueryId, NEW c \in Content, SetResult(q, c)
    PROVE  Honest'
<1> SUFFICES ASSUME NEW b \in BindingId PROVE Reported(b)' /\ RealError(b)'
    BY DEF Honest
<1> USE DEF SetResult
<1>0. Reported(b) /\ RealError(b)
    BY DEF Honest
<1>1. CASE c = results[q]
    <2>1. results' = results /\ sync'[b] = sync[b]
        BY <1>1 DEF TypeOK, EngineTypeOK
    <2> QED
        BY <1>0, <2>1, HonestByFrame
<1>2. CASE c # results[q]
    <2>1. sync'[b] = StaleUnlessFrozen(b, q)
        BY <1>2
    <2>2. CASE Reads(b, q)
        <3>1. sync'[b] # NoState => sync'[b].status \in {"Stale", "Pinned", "Overridden"}
            BY <2>1, <2>2
               DEF StaleUnlessFrozen, LinkedState, AcceptsRefresh, Frozen, TypeOK, EngineTypeOK,
                   SyncState
        <3> QED
            BY <3>1 DEF Reported, RealError
    <2>3. CASE ~Reads(b, q) /\ Defined(b) /\ bindings[b].kind # "rule"
        <3>1. sync'[b] = sync[b] /\ bindings[b].query # q
            BY <2>1, <2>3 DEF StaleUnlessFrozen, Reads
        <3>2. results'[bindings[b].query] = results[bindings[b].query]
            BY <2>3, <3>1 DEF TypeOK, EngineTypeOK, Defined
        <3>3. Resolvable(b)' <=> Resolvable(b)
            BY <3>2 DEF Resolvable, Defined
        <3>4. \A r \in Record : Fails(b, r)' <=> Fails(b, r)
            BY <3>2 DEF Fails
        <3> QED
            BY <1>0, <3>1, <3>2, <3>3, <3>4 DEF Reported, RealError, Defined, StampFor
    <2>4. CASE ~Defined(b) \/ bindings[b].kind = "rule"
        BY <2>4 DEF Reported, RealError, Defined, Resolvable
    <2> QED
        BY <2>2, <2>3, <2>4
<1> QED
    BY <1>1, <1>2

\* Every step keeps the sync report honest: one step per action.
LEMMA StepHonest == TypeOK /\ Honest /\ [Next]_vars => Honest'
<1> SUFFICES ASSUME TypeOK, Honest, [Next]_vars PROVE Honest'
    OBVIOUS
<1>1. ASSUME UNCHANGED engineVars PROVE Honest'
    BY <1>1 DEF engineVars, Honest, Reported, RealError, Defined, StampFor, Resolvable, Fails
<1>2. CASE DefineStep
    <2> SUFFICES ASSUME NEW x \in BindingId PROVE Reported(x)' /\ RealError(x)'
        BY DEF Honest
    <2>0. Reported(x) /\ RealError(x)
        BY DEF Honest
    <2>1. ASSUME NEW q \in QueryId, NEW r \in Recipe, DefineQuery(q, r)
          PROVE  Reported(x)' /\ RealError(x)'
        <3> USE <2>1 DEF DefineQuery, AddQuery
        <3>1. Resolvable(x)' <=> Resolvable(x)
            BY DEF Resolvable, Defined
        <3>2. \A i \in Record : Fails(x, i)' <=> Fails(x, i)
            BY DEF Fails
        <3>3. Defined(x) /\ bindings[x].kind # "rule" /\ x \notin edited'
                => StampFor(bindings[x].query)' = StampFor(bindings[x].query)
            BY DEF StampFor, Reads, TypeOK, EngineTypeOK, Defined
        <3> QED
            BY <2>0, <3>1, <3>2, <3>3 DEF Reported, RealError, Defined
    <2>2. ASSUME NEW t \in Expr, DefineTemplate(t) PROVE Reported(x)' /\ RealError(x)'
        <3> USE <2>2 DEF DefineTemplate, AddTemplate
        <3>1. x \notin edited' => (Resolvable(x)' <=> Resolvable(x))
            BY DEF Resolvable, Defined
        <3>2. \A i \in Record : Fails(x, i)' <=> Fails(x, i)
            BY DEF Fails
        <3> QED
            BY <2>0, <3>1, <3>2 DEF Reported, RealError, Defined, StampFor
    <2>3. ASSUME NEW p \in Param, BindParam(p) PROVE Reported(x)' /\ RealError(x)'
        <3>1. CASE p = params
            BY <2>0, <2>3, <3>1, HonestByFrame DEF BindParam, SetParam
        <3>2. CASE p # params
            BY <2>3, <3>2 DEF BindParam, SetParam, Reported, RealError
        <3> QED
            BY <3>1, <3>2
    <2>4. ASSUME NEW b \in BindingId, NEW d \in Definition, DefineBinding(b, d)
          PROVE  Reported(x)' /\ RealError(x)'
        <3> USE <2>4 DEF DefineBinding, AddBinding
        <3>1. CASE x = b /\ d # bindings[b]
            BY <3>1 DEF Reported, RealError
        <3>2. CASE x = b /\ d = bindings[b]
            <4>1. bindings' = bindings
                BY <3>2 DEF TypeOK, EngineTypeOK
            <4>2. sync[x] # NoState => sync'[x] = sync[x]
                BY DEF TypeOK, EngineTypeOK
            <4>3. CASE sync[x] # NoState
                BY <2>0, <3>2, <4>1, <4>2, <4>3, HonestByFrame
            <4>4. CASE sync[x] = NoState
                <5>1. sync'[x] = LinkedState
                    BY <3>2, <4>4 DEF TypeOK, EngineTypeOK
                <5> QED
                    BY <5>1 DEF LinkedState, Reported, RealError
            <4> QED
                BY <4>3, <4>4
        <3>3. CASE x # b
            <4>1. bindings'[x] = bindings[x] /\ sync'[x] = sync[x] /\ (x \in edited' <=> x \in edited)
                BY <3>3 DEF TypeOK, EngineTypeOK
            <4>2. Resolvable(x)' <=> Resolvable(x)
                BY <4>1 DEF Resolvable, Defined
            <4>3. \A i \in Record : Fails(x, i)' <=> Fails(x, i)
                BY <4>1 DEF Fails
            <4> QED
                BY <2>0, <4>1, <4>2, <4>3 DEF Reported, RealError, Defined, StampFor
        <3> QED
            BY <3>1, <3>2, <3>3
    <2>5. ASSUME NEW b \in BindingId, ForgetBinding(b) PROVE Reported(x)' /\ RealError(x)'
        <3> USE <2>5 DEF ForgetBinding, RemoveBinding
        <3>1. CASE x = b
            BY <3>1 DEF Reported, RealError, Defined, TypeOK, EngineTypeOK
        <3>2. CASE x # b
            <4>1. bindings'[x] = bindings[x] /\ sync'[x] = sync[x] /\ (x \in edited' <=> x \in edited)
                BY <3>2 DEF TypeOK, EngineTypeOK
            <4>2. Resolvable(x)' <=> Resolvable(x)
                BY <4>1 DEF Resolvable, Defined
            <4>3. \A i \in Record : Fails(x, i)' <=> Fails(x, i)
                BY <4>1 DEF Fails
            <4> QED
                BY <2>0, <4>1, <4>2, <4>3 DEF Reported, RealError, Defined, StampFor
        <3> QED
            BY <3>1, <3>2
    <2> QED
        BY <1>2, <2>1, <2>2, <2>3, <2>4, <2>5 DEF DefineStep
<1>3. CASE IngestStep
    <2>1. CASE FinishColumns /\ ~Redelivered(pending)
        <3>1. pending.query \in QueryId /\ pending.buffer \in Buffer
            BY <2>1 DEF FinishColumns, TypeOK, PendingIngest
        <3>2. Decode[pending.buffer] \in Content
            BY <3>1
        <3> QED
            BY <2>1, <3>1, <3>2, SetResultHonest DEF FinishColumns
    <2> QED
        BY <1>1, <1>3, <2>1, SetResultHonest
           DEF IngestStep, IngestResult, BeginColumns, PushColumn, PushRefused, FinishColumns,
               FinishRefused
\* A status other than Linked and Error is always honest.
<1>4. ASSUME NEW st \in [BindingId -> SyncState \cup {NoState}], sync' = st,
             UNCHANGED <<queries, bindings, templates, results, params, edited>>,
             \A b \in BindingId :
                 st[b] = sync[b] \/ st[b].status \in {"Pinned", "Overridden", "Stale"}
      PROVE  Honest'
    <2> SUFFICES ASSUME NEW b \in BindingId PROVE Reported(b)' /\ RealError(b)'
        BY DEF Honest
    <2>1. CASE st[b] = sync[b]
        BY <1>4, <2>1, HonestByFrame DEF Honest
    <2>2. CASE st[b].status \in {"Pinned", "Overridden", "Stale"}
        BY <1>4, <2>2 DEF Reported, RealError
    <2> QED
        BY <1>4, <2>1, <2>2
<1>5. CASE SyncStep
    <2> USE DEF TypeOK, EngineTypeOK
    <2>1. ASSUME NEW b \in BindingId, PinBinding(b) PROVE Honest'
        <3> DEFINE st == [sync EXCEPT ![b].status = "Pinned"]
        <3>1. st \in [BindingId -> SyncState \cup {NoState}]
            BY <2>1 DEF PinBinding, Pin, SyncState, Status
        <3>2. \A x \in BindingId : st[x] = sync[x] \/ st[x].status = "Pinned"
            BY <2>1 DEF PinBinding, Pin, SyncState
        <3>3. sync' = st /\ UNCHANGED <<queries, bindings, templates, results, params, edited>>
            BY <2>1 DEF PinBinding, Pin
        <3> HIDE DEF st
        <3> QED
            BY <1>4, <3>1, <3>2, <3>3
    <2>2. ASSUME NEW b \in BindingId, OverrideBinding(b) PROVE Honest'
        <3>1. OverriddenState(b) \in SyncState /\ OverriddenState(b).status = "Overridden"
            BY OverriddenType DEF OverriddenState, LinkedState, SyncState
        <3> QED
            BY <1>4, <2>2, <3>1 DEF OverrideBinding, MarkOverridden
    <2>3. ASSUME NEW b \in BindingId, RelinkBinding(b) PROVE Honest'
        BY <1>4, <2>3 DEF RelinkBinding, Relink, SyncState, Status
    <2> QED
        BY <1>5, <2>1, <2>2, <2>3, ResolveHonest DEF SyncStep, ResolveLowered
<1>6. CASE RefreshStep
    BY <1>6, ResolveHonest DEF RefreshStep, RefreshFieldValues, ResolveProperties
<1>7. CASE DataSetStep
    <2>1. ASSUME NEW n \in SetName, NEW r \in Record, CaptureDataSet(n, r) PROVE Honest'
        <3>1. WithDeclarations(declared) \in SUBSET BindingId
            BY DEF WithDeclarations, TypeOK
        <3> QED
            BY <2>1, <3>1, ResolveHonest DEF CaptureDataSet
    <2>2. ASSUME NEW n \in SetName, ApplyDataSet(n) PROVE Honest'
        <3>1. \A b \in BindingId : /\ OverriddenState(b) \in SyncState
                                    /\ OverriddenState(b).status = "Overridden"
            BY OverriddenType DEF OverriddenState, LinkedState, SyncState, TypeOK, EngineTypeOK
        <3> DEFINE applied == {b \in WithDeclarations(declared) \cap dataSets[n].values :
                                  recipe[b] # NoDefinition}
        <3>2. /\ sync' = [b \in BindingId |->
                             IF b \in applied THEN OverriddenState(b) ELSE sync[b]]
              /\ UNCHANGED <<queries, bindings, templates, results, params, edited>>
            BY <2>2 DEF ApplyDataSet
        <3> HIDE DEF applied
        <3> QED
            BY <1>4, <3>1, <3>2 DEF TypeOK, EngineTypeOK
    <2> QED
        BY <1>1, <1>7, <2>1, <2>2 DEF DataSetStep, DeleteDataSet, ImportLibrary
<1>8. CASE Reopen
    <2> SUFFICES ASSUME NEW b \in BindingId PROVE Reported(b)' /\ RealError(b)'
        BY DEF Honest
    <2>1. sync'[b] # NoState => sync'[b].last = NoStamp /\ sync'[b].status # "Error"
        BY <1>8 DEF Reopen, RestoredState, Frozen
    <2> QED
        BY <2>1 DEF Reported, RealError
<1> QED
    BY <1>1, <1>2, <1>3, <1>5, <1>6, <1>7, <1>8 DEF Next, vars

\* Divergences are reported and errors are real, for any number of bindings,
\* whatever the order of the calls.
THEOREM ReportHonest == Spec => [](DivergenceReported /\ ErrorIsReal)
<1>1. Init => Honest
    BY DEF Init, EngineInit, Honest, Reported, RealError
<1>2. TypeOK /\ Honest => DivergenceReported /\ ErrorIsReal
    BY HonestMeans
<1> QED
    BY <1>1, <1>2, StepHonest, TypeCorrect, PTL DEF Spec

\* In particular no Error outlives its cause: while the recipe of a binding is
\* unedited, one in Error cannot produce a value at some record it may be
\* resolved at (resolve_at).
THEOREM ErrorsAreReal == Spec => []ErrorIsReal
<1>1. DivergenceReported /\ ErrorIsReal => ErrorIsReal
    OBVIOUS
<1> QED
    BY <1>1, ReportHonest, PTL

-----------------------------------------------------------------------------
(* The session implements the policy. *)

\* What a step may assume of the state it starts in.
Sound == TypeOK /\ Cover /\ PromiseKept

-----------------------------------------------------------------------------
(* Steps of the policy, from what they do binding by binding. *)

\* A step that moves no mode and no history is a stutter of the policy.
LEMMA Stutters ==
    ASSUME \A b \in BindingId : ModeOf(b)' = ModeOf(b), UNCHANGED history
    PROVE  UNCHANGED Policy!policyVars
BY DEF Policy!policyVars, history

\* A step that freezes the bindings of S for the user keeps them.
LEMMA Keeps ==
    ASSUME Sound, NEW S \in SUBSET BindingId, Hold(S),
           \A b \in S : sync[b] # NoState,
           \A b \in BindingId : ModeOf(b)' = IF b \in S THEN "kept" ELSE ModeOf(b)
    PROVE  Policy!Keep(S)
<1>1. S \subseteq Policy!Present
    BY DEF Policy!Present, ModeOf
<1>2. Policy!Moved(S, "kept")
    BY DEF Policy!Moved
<1> QED
    BY <1>1, <1>2 DEF Policy!Keep, Hold, Sound, PromiseKept, RefreshKeepsFrozen

\* A step that ends the protection of S lets them go.
LEMMA LetsGo ==
    ASSUME Sound, NEW S \in SUBSET BindingId, UNCHANGED (clobbered \ captured),
           held' \ captured' = (held \ captured) \ S,
           \A b \in S : sync[b] # NoState,
           \A b \in BindingId : ModeOf(b)' = IF b \in S THEN "following" ELSE ModeOf(b)
    PROVE  Policy!LetGo(S)
<1>1. S \subseteq Policy!Present
    BY DEF Policy!Present, ModeOf
<1>2. Policy!Moved(S, "following")
    BY DEF Policy!Moved
<1> QED
    BY <1>1, <1>2 DEF Policy!LetGo

-----------------------------------------------------------------------------
(* What the engine's state functions do to the mode of a binding. *)

\* A delivery marks bindings Stale that followed already; with Cover it
\* creates no state.
LEMMA DeliveryKeepsModes ==
    ASSUME Sound, NEW q \in QueryId, NEW c \in Content, SetResult(q, c)
    PROVE  \A b \in BindingId : ModeOf(b)' = ModeOf(b)
<1> SUFFICES ASSUME NEW b \in BindingId PROVE ModeOf(b)' = ModeOf(b)
    OBVIOUS
<1>1. sync[b] \in SyncState \cup {NoState}
    BY DEF Sound, TypeOK, EngineTypeOK
<1>2. sync'[b] = sync[b] \/ sync'[b] = StaleUnlessFrozen(b, q)
    BY DEF SetResult
<1>3. CASE StaleUnlessFrozen(b, q) = sync[b]
    BY <1>2, <1>3 DEF ModeOf
<1>4. CASE Reads(b, q) /\ sync[b] # NoState /\ AcceptsRefresh(sync[b])
    <2>1. StaleUnlessFrozen(b, q) = [sync[b] EXCEPT !.status = "Stale"]
        BY <1>4 DEF StaleUnlessFrozen
    <2>2. /\ [sync[b] EXCEPT !.status = "Stale"] \in SyncState
          /\ [sync[b] EXCEPT !.status = "Stale"].status = "Stale"
        BY <1>1, <1>4 DEF SyncState, Status
    <2>3. StaleUnlessFrozen(b, q) # NoState /\ ~Frozen(StaleUnlessFrozen(b, q))
        BY <2>1, <2>2 DEF Frozen
    <2> QED
        BY <1>2, <1>4, <2>3 DEF ModeOf, AcceptsRefresh
<1>5. Reads(b, q) => sync[b] # NoState
    BY DEF Sound, Cover, SyncCoversRecipe, Reads
<1> QED
    BY <1>3, <1>4, <1>5 DEF StaleUnlessFrozen

\* A successful resolve gives its binding a state.
LEMMA StampedIsState ==
    ASSUME Sound, NEW b \in BindingId, NEW r \in Record, Resolvable(b)
    PROVE  StampedState(b, r) # NoState
<1>1. bindings[b] \in Definition
    BY DEF Sound, TypeOK, EngineTypeOK, Resolvable, Defined
<1>2. bindings[b].query \in QueryId
    BY <1>1
<1>3. StampFor(bindings[b].query) \in Stamp
    BY <1>2 DEF Sound, TypeOK, EngineTypeOK, Resolvable, StampFor, Stamp
<1> QED
    BY <1>3 DEF StampedState, SyncState, Status

\* A resolve that succeeds leaves its binding following, one that fails leaves
\* the mode it found.
LEMMA ResolveMovesMode ==
    ASSUME Sound, NEW S \in SUBSET BindingId, NEW r \in Record, ResolveAll(S, r),
           NEW b \in BindingId
    PROVE  ModeOf(b)' = IF b \in S /\ Resolvable(b) THEN "following" ELSE ModeOf(b)
<1>1. sync[b] \in SyncState \cup {NoState}
    BY DEF Sound, TypeOK, EngineTypeOK
<1>2. sync'[b] = IF b \in S THEN ResolvedState(b, r) ELSE sync[b]
    BY DEF ResolveAll
<1>3. ResolvedState(b, r) \in SyncState \cup {NoState}
    BY ResolvedStateType DEF Sound, TypeOK
<1>4. CASE b \notin S
    BY <1>2, <1>4 DEF ModeOf
<1>5. CASE b \in S /\ Resolvable(b)
    <2>1. ResolvedState(b, r) = StampedState(b, r)
        BY <1>5 DEF ResolvedState
    <2>2. ResolvedState(b, r).status \in {"Error", "Linked"}
        BY <2>1 DEF StampedState
    <2>3. ResolvedState(b, r) # NoState
        BY <1>5, <2>1, StampedIsState
    <2> QED
        BY <1>2, <1>5, <2>2, <2>3 DEF ModeOf, Frozen
<1>6. CASE b \in S /\ ~Resolvable(b) /\ sync[b] # NoState /\ AcceptsRefresh(sync[b])
    <2>1. ResolvedState(b, r) = [sync[b] EXCEPT !.status = "Error"]
        BY <1>6 DEF ResolvedState
    <2>2. /\ [sync[b] EXCEPT !.status = "Error"] \in SyncState
          /\ [sync[b] EXCEPT !.status = "Error"].status = "Error"
        BY <1>1, <1>6 DEF SyncState, Status
    <2>3. ResolvedState(b, r) # NoState /\ ~Frozen(ResolvedState(b, r))
        BY <2>1, <2>2 DEF Frozen
    <2> QED
        BY <1>2, <1>6, <2>3 DEF ModeOf, AcceptsRefresh
<1>7. CASE b \in S /\ ~Resolvable(b) /\ ~(sync[b] # NoState /\ AcceptsRefresh(sync[b]))
    BY <1>2, <1>7 DEF ModeOf, ResolvedState
<1> QED
    BY <1>4, <1>5, <1>6, <1>7

\* A binding that resolves is defined, and so has a state.
LEMMA ResolvableIsPresent ==
    ASSUME Sound, NEW b \in BindingId, Resolvable(b)
    PROVE  sync[b] # NoState
BY DEF Sound, Cover, SyncCoversRecipe, Resolvable

\* A refresh lane is a refresh of the policy: what it tries follows, so what
\* is written followed.
LEMMA Refreshes ==
    ASSUME Sound, NEW S \in SUBSET BindingId, NEW r \in Record, ResolveAll(S, r),
           \A b \in S : Refreshable(b),
           NEW written \in SUBSET S, \A b \in written : Resolvable(b),
           clobbered' = clobbered \cup (held \cap written), UNCHANGED <<held, captured>>
    PROVE  Policy!Refresh(written)
<1>1. \A b \in BindingId : ModeOf(b)' = ModeOf(b)
    <2> SUFFICES ASSUME NEW b \in S, Resolvable(b) PROVE ModeOf(b) = "following"
        BY ResolveMovesMode
    <2> QED
        BY ResolvableIsPresent DEF ModeOf, Refreshable, AcceptsRefresh
<1>2. \A b \in written : ModeOf(b) = "following"
    BY ResolvableIsPresent DEF ModeOf, Refreshable, AcceptsRefresh
<1>3. written \subseteq Policy!Following
    BY <1>2 DEF Policy!Following
<1> QED
    BY <1>1, <1>3 DEF Policy!Refresh

-----------------------------------------------------------------------------
(* The initial state and the steps. *)

\* A fresh session has no binding, and owes nothing.
LEMMA InitMaps == Init => Policy!PolicyInit
BY DEF Init, EngineInit, Policy!PolicyInit, ModeOf

\* Definitions: a new binding follows, a known one keeps its mode, a removed
\* one is gone with its promise.
LEMMA DefineMaps == Sound /\ DefineStep => [Policy!PolicyNext]_(Policy!policyVars)
<1> SUFFICES ASSUME Sound, DefineStep PROVE [Policy!PolicyNext]_(Policy!policyVars)
    OBVIOUS
<1>1. ASSUME UNCHANGED <<sync, history>> PROVE UNCHANGED Policy!policyVars
    BY <1>1, Stutters DEF ModeOf
<1>2. ASSUME NEW b \in BindingId, NEW d \in Definition, DefineBinding(b, d)
      PROVE  [Policy!PolicyNext]_(Policy!policyVars)
    <2>1. CASE sync[b] # NoState
        <3>1. UNCHANGED <<sync, history>>
            BY <1>2, <2>1 DEF DefineBinding, AddBinding, Sound, TypeOK, EngineTypeOK
        <3> QED
            BY <1>1, <3>1
    <2>2. CASE sync[b] = NoState
        <3>1. LinkedState # NoState /\ ~Frozen(LinkedState)
            BY DEF LinkedState, SyncState, Status, Frozen
        <3>2. \A x \in BindingId : ModeOf(x)' = IF x = b THEN "following" ELSE ModeOf(x)
            BY <1>2, <2>2, <3>1 DEF DefineBinding, AddBinding, ModeOf, Sound, TypeOK, EngineTypeOK
        <3>3. b \notin Policy!Present
            BY <2>2 DEF Policy!Present, ModeOf
        <3>4. Policy!Moved({b}, "following")
            BY <3>2 DEF Policy!Moved
        <3>5. Policy!Define(b)
            BY <1>2, <3>3, <3>4 DEF Policy!Define, DefineBinding, history
        <3> QED
            BY <3>5 DEF Policy!PolicyNext
    <2> QED
        BY <2>1, <2>2
<1>3. ASSUME NEW b \in BindingId, ForgetBinding(b)
      PROVE  [Policy!PolicyNext]_(Policy!policyVars)
    <2>1. sync[b] # NoState
        BY <1>3 DEF ForgetBinding, Sound, Cover, SyncCoversRecipe
    <2>2. b \in Policy!Present
        BY <2>1 DEF Policy!Present, ModeOf
    <2>3. \A x \in BindingId : ModeOf(x)' = IF x = b THEN "absent" ELSE ModeOf(x)
        BY <1>3 DEF ForgetBinding, RemoveBinding, ModeOf, Sound, TypeOK, EngineTypeOK
    <2>4. Policy!Moved({b}, "absent")
        BY <2>3 DEF Policy!Moved
    <2>5. Policy!Remove(b)
        BY <1>3, <2>2, <2>4
           DEF Policy!Remove, ForgetBinding, Release, Sound, PromiseKept, RefreshKeepsFrozen
    <2> QED
        BY <2>5 DEF Policy!PolicyNext
<1> QED
    BY <1>1, <1>2, <1>3
       DEF DefineStep, DefineQuery, AddQuery, DefineTemplate, AddTemplate, BindParam, SetParam

\* Neither door of the data moves a mode.
LEMMA IngestMaps == Sound /\ IngestStep => UNCHANGED Policy!policyVars
<1> SUFFICES ASSUME Sound, IngestStep PROVE UNCHANGED Policy!policyVars
    OBVIOUS
<1>1. ASSUME UNCHANGED <<sync, history>> PROVE UNCHANGED Policy!policyVars
    BY <1>1, Stutters DEF ModeOf
<1>2. ASSUME NEW q \in QueryId, NEW c \in Content, SetResult(q, c), UNCHANGED history
      PROVE  UNCHANGED Policy!policyVars
    BY <1>2, DeliveryKeepsModes, Stutters
<1>3. CASE FinishColumns /\ ~Redelivered(pending)
    <2>1. pending.query \in QueryId /\ pending.buffer \in Buffer
        BY <1>3 DEF FinishColumns, Sound, TypeOK, PendingIngest
    <2>2. Decode[pending.buffer] \in Content
        BY <2>1
    <2> QED
        BY <1>2, <1>3, <2>1, <2>2 DEF FinishColumns
<1> QED
    BY <1>1, <1>2, <1>3
       DEF IngestStep, IngestResult, BeginColumns, PushColumn, PushRefused,
           FinishColumns, FinishRefused, engineVars

\* The explicit decisions: pin and override keep, relink and lower let go.
LEMMA SyncMaps == Sound /\ SyncStep => [Policy!PolicyNext]_(Policy!policyVars)
<1> SUFFICES ASSUME Sound, SyncStep PROVE [Policy!PolicyNext]_(Policy!policyVars)
    OBVIOUS
<1>1. ASSUME NEW b \in BindingId, PinBinding(b) PROVE Policy!Keep({b})
    <2>1. sync[b] # NoState /\ sync[b] \in SyncState
        BY <1>1 DEF PinBinding, Pin, Sound, TypeOK, EngineTypeOK
    <2>2. /\ [sync[b] EXCEPT !.status = "Pinned"] \in SyncState
          /\ [sync[b] EXCEPT !.status = "Pinned"].status = "Pinned"
        BY <2>1 DEF SyncState, Status
    <2>3. \A x \in BindingId : sync'[x] =
              IF x = b THEN [sync[b] EXCEPT !.status = "Pinned"] ELSE sync[x]
        BY <1>1 DEF PinBinding, Pin, Sound, TypeOK, EngineTypeOK
    <2>4. \A x \in BindingId : ModeOf(x)' = IF x \in {b} THEN "kept" ELSE ModeOf(x)
        BY <2>2, <2>3 DEF ModeOf, Frozen
    <2> QED
        BY <1>1, <2>1, <2>4, Keeps DEF PinBinding
<1>2. ASSUME NEW b \in BindingId, OverrideBinding(b) PROVE Policy!Keep({b})
    <2>1. sync[b] # NoState
        BY <1>2 DEF OverrideBinding, Sound, Cover, SyncCoversRecipe
    <2>2. OverriddenState(b) # NoState /\ Frozen(OverriddenState(b))
        BY OverriddenType
           DEF OverriddenState, Frozen, LinkedState, Sound, TypeOK, EngineTypeOK, SyncState
    <2>3. \A x \in BindingId : sync'[x] = IF x = b THEN OverriddenState(b) ELSE sync[x]
        BY <1>2 DEF OverrideBinding, MarkOverridden, Sound, TypeOK, EngineTypeOK
    <2>4. \A x \in BindingId : ModeOf(x)' = IF x \in {b} THEN "kept" ELSE ModeOf(x)
        BY <2>2, <2>3 DEF ModeOf
    <2> QED
        BY <1>2, <2>1, <2>4, Keeps DEF OverrideBinding
<1>3. ASSUME NEW S \in SUBSET BindingId, Release(S)
      PROVE  /\ UNCHANGED (clobbered \ captured)
             /\ held' \ captured' = (held \ captured) \ S
    BY <1>3 DEF Release, Sound, PromiseKept, RefreshKeepsFrozen
<1>4. ASSUME NEW b \in BindingId, RelinkBinding(b) PROVE Policy!LetGo({b})
    <2>1. sync[b] # NoState /\ sync[b] \in SyncState
        BY <1>4 DEF RelinkBinding, Relink, Sound, TypeOK, EngineTypeOK
    <2>2. /\ [sync[b] EXCEPT !.status = "Stale"] \in SyncState
          /\ [sync[b] EXCEPT !.status = "Stale"].status = "Stale"
        BY <2>1 DEF SyncState, Status
    <2>3. \A x \in BindingId : sync'[x] =
              IF x = b THEN [sync[b] EXCEPT !.status = "Stale"] ELSE sync[x]
        BY <1>4 DEF RelinkBinding, Relink, Sound, TypeOK, EngineTypeOK
    <2>4. \A x \in BindingId : ModeOf(x)' = IF x \in {b} THEN "following" ELSE ModeOf(x)
        BY <2>2, <2>3 DEF ModeOf, Frozen
    <2> QED
        BY <1>3, <1>4, <2>1, <2>4, LetsGo DEF RelinkBinding
<1>5. ASSUME NEW b \in BindingId, NEW r \in Record, ResolveLowered(b, r)
      PROVE  \E S \in SUBSET BindingId : Policy!LetGo(S)
    <2> DEFINE S == IF Resolvable(b) THEN {b} ELSE {}
    <2>1. S \in SUBSET BindingId /\ \A x \in S : sync[x] # NoState
        BY ResolvableIsPresent
    <2>2. \A x \in BindingId : ModeOf(x)' = IF x \in S THEN "following" ELSE ModeOf(x)
        <3>1. ResolveAll({b}, r)
            BY <1>5 DEF ResolveLowered
        <3>2. \A x \in BindingId :
                 ModeOf(x)' = IF x \in {b} /\ Resolvable(x) THEN "following" ELSE ModeOf(x)
            BY <3>1, ResolveMovesMode
        <3> QED
            BY <3>2
    <2>3. Release(S)
        BY <1>5 DEF ResolveLowered
    <2> HIDE DEF S
    <2> QED
        BY <1>3, <2>1, <2>2, <2>3, LetsGo
<1> QED
    BY <1>1, <1>2, <1>4, <1>5 DEF SyncStep, Policy!PolicyNext

\* The refresh lanes are refreshes of the policy.
LEMMA RefreshMaps == Sound /\ RefreshStep => [Policy!PolicyNext]_(Policy!policyVars)
<1> SUFFICES ASSUME Sound, RefreshStep PROVE \E S \in SUBSET BindingId : Policy!Refresh(S)
    BY DEF Policy!PolicyNext
<1>1. ASSUME NEW ids \in SUBSET BindingId, RefreshFieldValues(ids)
      PROVE  \E S \in SUBSET BindingId : Policy!Refresh(S)
    <2> DEFINE tried  == {b \in ids : Refreshable(b)}
               values == {b \in tried : Resolvable(b) /\ bindings[b].kind = "variable"}
    <2>1. PICK written \in SUBSET values : clobbered' = clobbered \cup (held \cap written)
        BY <1>1 DEF RefreshFieldValues
    <2>2. ResolveAll(tried, 0) /\ UNCHANGED <<held, captured>>
        BY <1>1 DEF RefreshFieldValues
    <2>3. /\ tried \in SUBSET BindingId /\ written \in SUBSET tried
          /\ \A b \in tried : Refreshable(b)
          /\ \A b \in written : Resolvable(b)
        OBVIOUS
    <2> HIDE DEF tried, values
    <2> QED
        BY <2>1, <2>2, <2>3, Refreshes
<1>2. ASSUME NEW ids \in SUBSET BindingId, NEW v \in BOOLEAN, NEW r \in Record,
             ResolveProperties(ids, v, r)
      PROVE  \E S \in SUBSET BindingId : Policy!Refresh(S)
    <2> DEFINE wanted == {b \in ids : /\ recipe[b] # NoDefinition
                                      /\ \/ recipe[b].kind = "property"
                                         \/ v /\ recipe[b].kind = "visibility"}
               tried  == {b \in wanted : Refreshable(b)}
               values == {b \in tried : Resolvable(b) /\ ~Fails(b, r)}
    <2>1. PICK written \in SUBSET values : clobbered' = clobbered \cup (held \cap written)
        BY <1>2 DEF ResolveProperties
    <2>2. ResolveAll(tried, r) /\ UNCHANGED <<held, captured>>
        BY <1>2 DEF ResolveProperties
    <2>3. /\ tried \in SUBSET BindingId /\ written \in SUBSET tried
          /\ \A b \in tried : Refreshable(b)
          /\ \A b \in written : Resolvable(b)
        OBVIOUS
    <2> HIDE DEF wanted, tried, values
    <2> QED
        BY <2>1, <2>2, <2>3, Refreshes
<1> QED
    BY <1>1, <1>2 DEF RefreshStep

\* A capture lets go what it resolves, an applied set keeps what it values,
\* and the other operations on data sets touch no binding.
LEMMA DataSetMaps == Sound /\ DataSetStep => [Policy!PolicyNext]_(Policy!policyVars)
<1> SUFFICES ASSUME Sound, DataSetStep PROVE [Policy!PolicyNext]_(Policy!policyVars)
    OBVIOUS
<1>1. ASSUME UNCHANGED <<sync, history>> PROVE UNCHANGED Policy!policyVars
    BY <1>1, Stutters DEF ModeOf
<1>2. WithDeclarations(declared) \in SUBSET BindingId
    BY DEF WithDeclarations, Sound, TypeOK
<1>3. ASSUME NEW n \in SetName, NEW r \in Record, CaptureDataSet(n, r)
      PROVE  \E S \in SUBSET BindingId : Policy!LetGo(S)
    <2> DEFINE known == WithDeclarations(declared)
               S     == {b \in known : Resolvable(b)}
    <2>1. /\ captured' = captured \cup {b \in held \cap known : Resolvable(b)}
          /\ ResolveAll(known, r) /\ UNCHANGED <<held, clobbered>>
        BY <1>3 DEF CaptureDataSet
    <2>2. S \in SUBSET BindingId /\ \A b \in S : sync[b] # NoState
        BY <1>2, ResolvableIsPresent
    <2>3. /\ UNCHANGED (clobbered \ captured)
          /\ held' \ captured' = (held \ captured) \ S
        BY <2>1 DEF Sound, PromiseKept, RefreshKeepsFrozen
    <2>4. \A b \in BindingId :
             ModeOf(b)' = IF b \in known /\ Resolvable(b) THEN "following" ELSE ModeOf(b)
        BY <1>2, <2>1, ResolveMovesMode
    <2>5. \A b \in BindingId : ModeOf(b)' = IF b \in S THEN "following" ELSE ModeOf(b)
        BY <2>4
    <2> HIDE DEF known, S
    <2> QED
        BY <2>2, <2>3, <2>5, LetsGo
<1>4. ASSUME NEW n \in SetName, ApplyDataSet(n)
      PROVE  \E S \in SUBSET BindingId : Policy!Keep(S)
    <2> DEFINE S == {b \in WithDeclarations(declared) \cap dataSets[n].values :
                        recipe[b] # NoDefinition}
    <2>1. S \in SUBSET BindingId
        BY <1>2
    <2>2. \A b \in S : sync[b] # NoState
        BY <2>1 DEF Sound, Cover, PayloadIsLive, SyncCoversRecipe, Defined
    <2>3. /\ sync' = [b \in BindingId |-> IF b \in S THEN OverriddenState(b) ELSE sync[b]]
          /\ Hold(S)
        BY <1>4 DEF ApplyDataSet
    <2>4. \A b \in BindingId : OverriddenState(b) # NoState /\ Frozen(OverriddenState(b))
        BY OverriddenType
           DEF OverriddenState, Frozen, LinkedState, Sound, TypeOK, EngineTypeOK, SyncState
    <2> HIDE DEF S
    <2>5. \A b \in BindingId : ModeOf(b)' = IF b \in S THEN "kept" ELSE ModeOf(b)
        BY <2>3, <2>4 DEF ModeOf
    <2> QED
        BY <2>1, <2>2, <2>3, <2>5, Keeps
<1> QED
    BY <1>1, <1>3, <1>4
       DEF DataSetStep, DeleteDataSet, ImportLibrary, engineVars, Policy!PolicyNext

\* A saved and reopened session is where it was: frozen states are frozen
\* again, the others follow, and there is one exactly for each definition.
LEMMA ReopenMaps == Sound /\ Reopen => UNCHANGED Policy!policyVars
<1> SUFFICES ASSUME Sound, Reopen PROVE UNCHANGED Policy!policyVars
    OBVIOUS
<1>1. ASSUME NEW b \in BindingId PROVE ModeOf(b)' = ModeOf(b)
    <2>1. sync'[b] = RestoredState(b) /\ sync[b] \in SyncState \cup {NoState}
        BY DEF Reopen, Sound, TypeOK, EngineTypeOK
    <2>2. CASE recipe[b] = NoDefinition
        <3>1. sync[b] = NoState
            BY <2>2 DEF Sound, Cover, PayloadIsLive, SyncCoversRecipe, Defined
        <3> QED
            BY <2>1, <2>2, <3>1 DEF RestoredState, ModeOf
    <2>3. CASE recipe[b] # NoDefinition
        <3>1. sync[b] # NoState /\ sync[b] \in SyncState
            BY <2>1, <2>3 DEF Sound, Cover, PayloadIsLive, SyncCoversRecipe, Defined
        <3>2. RestoredState(b) =
                [status |-> IF Frozen(sync[b]) THEN sync[b].status ELSE "Linked", last |-> NoStamp]
            BY <2>3, <3>1 DEF RestoredState
        <3>3. RestoredState(b) # NoState
            BY <3>1, <3>2 DEF SyncState, Status
        <3>4. Frozen(RestoredState(b)) <=> Frozen(sync[b])
            BY <3>2 DEF Frozen
        <3> QED
            BY <2>1, <3>1, <3>3, <3>4 DEF ModeOf
    <2> QED
        BY <2>2, <2>3
<1>2. UNCHANGED history
    BY DEF Reopen
<1> QED
    BY <1>1, <1>2, Stutters

\* The session implements the conflict policy: whatever calls are made, in
\* whatever order, each moves every binding as the policy lets it, or not at
\* all; a refresh writes only what follows its source.
THEOREM Implements == Spec => ImplementsPolicy
<1>1. Sound /\ [Next]_vars => [Policy!PolicyNext]_(Policy!policyVars)
    <2> SUFFICES ASSUME Sound, [Next]_vars PROVE [Policy!PolicyNext]_(Policy!policyVars)
        OBVIOUS
    <2>1. CASE UNCHANGED vars
        BY <2>1, Stutters DEF vars, engineVars, ModeOf
    <2> QED
        BY <2>1, DefineMaps, IngestMaps, SyncMaps, RefreshMaps, DataSetMaps, ReopenMaps DEF Next
<1>2. Spec => []Cover
    BY RecipeCovered, PTL DEF Cover
<1>3. Spec => []PromiseKept
    BY NonDestructive, PTL DEF PromiseKept
<1>4. Spec => []Sound
    BY <1>2, <1>3, TypeCorrect, PTL DEF Sound
<1> QED
    BY <1>1, <1>4, InitMaps, PTL DEF Spec, ImplementsPolicy, Policy!PolicySpec
=============================================================================
