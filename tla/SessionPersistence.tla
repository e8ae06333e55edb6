-------------------------- MODULE SessionPersistence --------------------------
(***************************************************************************)
(* How the bundle's data session (packages/data-bundle/src/session.ts,     *)
(* createSession) lives in the open document: definitions reach the data   *)
(* engine, a debounced flush writes the session part, a save hook flushes  *)
(* and then deletes data parts nothing names, an opened document drops the *)
(* session and restores its own.                                           *)
(*                                                                         *)
(* The code is one JavaScript thread: an action is what runs between two   *)
(* awaits that really wait (a host call, a content hash, a boot).  A part  *)
(* write takes effect in the document open when the call is made.          *)
(*                                                                         *)
(* A session is its bindings and its imported files; every file is large   *)
(* (its own content-addressed part, named by the file).  The host has      *)
(* parts (storage.parts@2) and label doors but its engine has no document  *)
(* labels, so labelOn() answers false once the probe is back.              *)
(***************************************************************************)
EXTENDS Naturals, Sequences, FiniteSets

CONSTANTS
    Doc,
    FirstDoc,       \* the document open when the plugin is activated
    Saved,          \* what each document holds on disk at first
    Binding,
    Home,           \* the document a binding is defined in
    Source,         \* imported files, by content
    MaxOpen,        \* bound: documents opened after the first
    MaxQueue,       \* bound: flushes waiting behind the running one
    MaxCommands,    \* bound: commands the user gives
    MaxDisturbed,   \* bound: kinds of race or failure before the last command
    Down, NoPart, NoRecipe, NoTask, NoWait, NoFile

Session == [recipe : SUBSET Binding, data : SUBSET Source]
Container == [part : Session \cup {NoPart}, data : SUBSET Source]
RestoreTask == [pc : {"read"}, saved : Session \cup {NoPart}, left : {{}}]
               \cup [pc : {"boot", "data"}, saved : Session, left : SUBSET Source]

\* What the session part of a document names.
SavedRecipe(container) == IF container.part = NoPart THEN {} ELSE container.part.recipe
SavedData(container) == IF container.part = NoPart THEN {} ELSE container.part.data
Of(d) == {b \in Binding : Home[b] = d}

ASSUME PersistenceAssumption ==
    /\ FirstDoc \in Doc
    /\ Saved \in [Doc -> Container]
    /\ Home \in [Binding -> Doc]
    /\ MaxOpen \in Nat /\ MaxQueue \in Nat \ {0} /\ MaxCommands \in Nat /\ MaxDisturbed \in Nat
    /\ \A recipe \in SUBSET Binding : recipe \notin {Down, NoRecipe}
    /\ NoPart \notin Session
    /\ NoFile \notin Source /\ NoTask \notin RestoreTask /\ NoWait \notin Nat

\* Each document was saved whole: its session is its own, its files are there.
ASSUME SavedAssumption ==
    \A d \in Doc : /\ SavedRecipe(Saved[d]) \subseteq Of(d)
                  /\ SavedData(Saved[d]) \subseteq Saved[d].data

VARIABLES
    open,           \* the open document
    disk,           \* what is saved of each document
    parts,          \* the container parts of the open document
    docEpoch,
    engine,         \* the recipe the data engine holds, or Down
    pendingDefs,    \* definitions made before the engine booted
    bootPayload,    \* a saved recipe to load as the engine boots
    boots,          \* engine boots in flight for commands
    listed,         \* bindingIds: the bindings the panels show
    imported,       \* importedCsv, importedFiles
    knownDataParts, \* data parts taken to be in the document
    lastWritten,    \* the session written or restored last
    timer,          \* persistTimer is set
    queue,          \* persistChain: the flushes waiting, [epoch, forSave]
    flush,          \* ... and the one that runs
    building,       \* buildPersisted, for the flush and for the collection
    probed,         \* labelOn() has its answer
    hook,           \* the will-save hook
    toDelete,       \* data parts the collection has yet to delete
    restores,       \* the restoreInternal calls, by the epoch they serve
    restorePromise, \* the latest of them
    openers,        \* for each documentOpened call, the restore it waits for
    commands,       \* commands given so far
    disturbed       \* history: the races and failures that happened

storeVars == <<open, disk, parts>>
bootVars == <<engine, pendingDefs, bootPayload, boots>>
dataVars == <<imported, knownDataParts>>
hookVars == <<building, hook, toDelete>>
openVars == <<docEpoch, restores, restorePromise, openers>>
vars == <<storeVars, bootVars, listed, dataVars, lastWritten, timer, queue, flush,
          hookVars, probed, openVars, commands, disturbed>>

Epoch == 0..MaxOpen
Builder == {"flush", "collect"}
QueuedFlush == [epoch : Epoch, forSave : BOOLEAN]
RunningFlush == [pc : {"idle", "build", "probe", "write"}, epoch : Epoch, forSave : BOOLEAN]
Build == [recipe : SUBSET Binding, stored : SUBSET Source,
          hashing : Source \cup {NoFile}, writing : Source \cup {NoFile}]
IdleFlush == [pc |-> "idle", epoch |-> 0, forSave |-> FALSE]
FreshBuild == [recipe |-> {}, stored |-> {}, hashing |-> NoFile, writing |-> NoFile]
Hazard == {"restore", "twice", "boot", "unavailable", "unbooted", "late", "mid", "edit",
           "collect", "ghost", "refused"}

\* Type correctness of the session's state.
TypeOK ==
    /\ open \in Doc /\ disk \in [Doc -> Container] /\ parts \in Container
    /\ docEpoch \in Epoch
    /\ engine \in {Down} \cup SUBSET Binding
    /\ pendingDefs \subseteq Binding
    /\ bootPayload \in {NoRecipe} \cup SUBSET Binding
    /\ boots \in 0..commands
    /\ listed \subseteq Binding
    /\ imported \subseteq Source /\ knownDataParts \subseteq Source
    /\ lastWritten \in Session \cup {NoPart}
    /\ timer \in BOOLEAN
    /\ queue \in Seq(QueuedFlush) /\ Len(queue) <= MaxQueue
    /\ flush \in RunningFlush
    /\ building \in [Builder -> Build]
    /\ probed \in BOOLEAN
    /\ hook \in {"idle", "flush", "flushed", "collect", "delete"}
    /\ toDelete \subseteq Source
    /\ restores \in [Epoch -> RestoreTask \cup {NoTask}]
    /\ restorePromise \in Epoch
    /\ openers \in [Epoch -> Epoch \cup {NoWait}]
    /\ commands \in 0..MaxCommands
    /\ disturbed \subseteq Hazard

Restoring == \E k \in Epoch : restores[k] # NoTask
ReadTask(container) == [pc |-> "read", saved |-> container.part, left |-> {}]

\* activate: the session of the first document is being restored.
Init ==
    /\ open = FirstDoc
    /\ disk = Saved
    /\ parts = Saved[FirstDoc]
    /\ docEpoch = 0
    /\ engine = Down
    /\ pendingDefs = {}
    /\ bootPayload = NoRecipe
    /\ boots = 0
    /\ listed = {}
    /\ imported = {}
    /\ knownDataParts = {}
    /\ lastWritten = NoPart
    /\ timer = FALSE
    /\ queue = <<>>
    /\ flush = IdleFlush
    /\ building = [w \in Builder |-> FreshBuild]
    /\ probed = FALSE
    /\ hook = "idle"
    /\ toDelete = {}
    /\ restores = [k \in Epoch |-> IF k = 0 THEN ReadTask(Saved[FirstDoc]) ELSE NoTask]
    /\ restorePromise = 0
    /\ openers = [k \in Epoch |-> NoWait]
    /\ commands = 0
    /\ disturbed = {}

\* The kinds of race or failure a step adds.
If(happened, kind) == IF happened THEN {kind} ELSE {}
Disturb(kinds) == disturbed' = disturbed \cup kinds

-----------------------------------------------------------------------------
(* Commands.  Each definition is marked dirty: the flush timer is set anew. *)

\* defineOnEngine: on the engine, or on its boot.
Define(b) ==
    /\ Home[b] = open /\ b \notin listed
    /\ listed' = listed \cup {b}
    /\ IF engine = Down
       THEN pendingDefs' = pendingDefs \cup {b} /\ UNCHANGED engine
       ELSE engine' = engine \cup {b} /\ UNCHANGED pendingDefs
    /\ timer' = TRUE
    /\ Disturb(If(Restoring, "restore") \cup If(hook # "idle", "edit"))
    /\ UNCHANGED <<storeVars, bootPayload, boots, dataVars, lastWritten, queue, flush,
                   hookVars, probed, openVars>>

\* removeBinding: the engine forgets it if it is up; pendingDefs stays.
Remove(b) ==
    /\ b \in listed
    /\ listed' = listed \ {b}
    /\ engine' = IF engine = Down THEN Down ELSE engine \ {b}
    /\ timer' = TRUE
    /\ Disturb(If(Restoring, "restore") \cup If(hook # "idle", "edit")
               \cup If(b \in pendingDefs, "ghost"))
    /\ UNCHANGED <<storeVars, pendingDefs, bootPayload, boots, dataVars, lastWritten, queue,
                   flush, hookVars, probed, openVars>>

\* importFile, once both engines are up: the file replaces those in old (the
\* one imported under the same name, if any).
Import(s, old) ==
    /\ engine # Down
    /\ imported' = (imported \ old) \cup {s}
    /\ timer' = TRUE
    /\ Disturb(If(Restoring, "restore") \cup If(hook # "idle", "collect"))
    /\ UNCHANGED <<storeVars, bootVars, listed, knownDataParts, lastWritten, queue, flush,
                   hookVars, probed, openVars>>

\* ensureEngine on an engine that is down.
BootEngine ==
    /\ engine = Down
    /\ boots' = boots + 1
    /\ UNCHANGED <<storeVars, engine, pendingDefs, bootPayload, listed, dataVars, lastWritten,
                   timer, queue, flush, hookVars, probed, openVars, disturbed>>

\* Mutant of NewEngine: definitions made before the boot are lost.
NewEngineSavedOnly == IF bootPayload = NoRecipe THEN {} ELSE bootPayload

\* The new engine takes the saved recipe and the pending definitions, and
\* replaces whatever engine there is.
NewEngine == (IF bootPayload = NoRecipe THEN {} ELSE bootPayload) \cup pendingDefs

EngineUp ==
    /\ engine' = NewEngine
    /\ bootPayload' = NoRecipe
    /\ pendingDefs' = {}
    /\ Disturb(If(engine # Down, "boot"))

EngineBooted ==
    /\ boots > 0
    /\ boots' = boots - 1
    /\ EngineUp
    /\ UNCHANGED <<storeVars, listed, dataVars, lastWritten, timer, queue, flush, hookVars,
                   probed, openVars>>

-----------------------------------------------------------------------------
(* buildPersisted: the recipe at once, then the imported files one by one. *)
(* A file is hashed, then written as a data part unless that is known to be *)
(* there; both are awaited.                                                 *)

StartBuild(w) == building' = [building EXCEPT ![w] = [FreshBuild EXCEPT !.recipe = engine]]

Building(w) == IF w = "flush" THEN flush.pc = "build" ELSE hook = "collect"

\* No file of this build is being hashed or written.
BetweenFiles(w) == Building(w) /\ building[w].hashing = NoFile /\ building[w].writing = NoFile

HashNext(w) ==
    /\ BetweenFiles(w)
    /\ \E s \in imported \ building[w].stored : building' = [building EXCEPT ![w].hashing = s]
    /\ UNCHANGED <<storeVars, bootVars, listed, dataVars, lastWritten, timer, queue, flush,
                   hook, toDelete, probed, openVars, disturbed>>

StoreKnown(w) ==
    /\ Building(w)
    /\ \E s \in knownDataParts :
           /\ building[w].hashing = s
           /\ building' = [building EXCEPT ![w].stored = @ \cup {s}, ![w].hashing = NoFile]
    /\ UNCHANGED <<storeVars, bootVars, listed, dataVars, lastWritten, timer, queue, flush,
                   hook, toDelete, probed, openVars, disturbed>>

StoreNew(w) ==
    /\ Building(w)
    /\ \E s \in Source \ knownDataParts :
           /\ building[w].hashing = s
           /\ parts' = [parts EXCEPT !.data = @ \cup {s}]
           /\ building' = [building EXCEPT ![w].writing = s, ![w].hashing = NoFile]
    /\ UNCHANGED <<open, disk, bootVars, listed, dataVars, lastWritten, timer, queue, flush,
                   hook, toDelete, probed, openVars, disturbed>>

PartStored(w) ==
    /\ building[w].writing # NoFile
    /\ knownDataParts' = knownDataParts \cup {building[w].writing}
    /\ building' = [building EXCEPT ![w].stored = @ \cup {building[w].writing},
                                    ![w].writing = NoFile]
    /\ UNCHANGED <<storeVars, bootVars, listed, imported, lastWritten, timer, queue, flush,
                   hook, toDelete, probed, openVars, disturbed>>

Built(w) ==
    /\ BetweenFiles(w)
    /\ imported \subseteq building[w].stored

-----------------------------------------------------------------------------
(* flushPersistInternal.                                                   *)

\* Mutant of TimerFires: nothing is queued while a flush runs.
TimerFiresIfIdle ==
    /\ timer
    /\ timer' = FALSE
    /\ queue' = IF flush.pc = "idle" /\ queue = <<>>
                THEN <<[epoch |-> docEpoch, forSave |-> FALSE]>> ELSE queue
    /\ UNCHANGED <<storeVars, bootVars, listed, dataVars, lastWritten, flush, hookVars, probed,
                   openVars, disturbed>>

TimerFires ==
    /\ timer
    /\ Len(queue) < MaxQueue
    /\ timer' = FALSE
    /\ queue' = Append(queue, [epoch |-> docEpoch, forSave |-> FALSE])
    /\ UNCHANGED <<storeVars, bootVars, listed, dataVars, lastWritten, flush, hookVars, probed,
                   openVars, disturbed>>

\* The flush that runs (or would have) is over; the save hook goes on.
EndFlush(forSave) ==
    /\ flush' = IdleFlush
    /\ hook' = IF forSave THEN "flushed" ELSE hook

FlushSkipped ==
    /\ flush.pc = "idle" /\ queue # <<>>
    /\ Head(queue).epoch # docEpoch \/ engine = Down
    /\ EndFlush(Head(queue).forSave)
    /\ queue' = Tail(queue)
    /\ Disturb(If(Head(queue).epoch = docEpoch /\ pendingDefs # {}, "unbooted"))
    /\ UNCHANGED <<storeVars, bootVars, listed, dataVars, lastWritten, timer, building, toDelete,
                   probed, openVars>>

FlushStarts ==
    /\ flush.pc = "idle" /\ queue # <<>>
    /\ Head(queue).epoch = docEpoch /\ engine # Down
    /\ flush' = [pc |-> "build", epoch |-> docEpoch, forSave |-> Head(queue).forSave]
    /\ queue' = Tail(queue)
    /\ StartBuild("flush")
    /\ Disturb(If(Restoring, "restore"))
    /\ UNCHANGED <<storeVars, bootVars, listed, dataVars, lastWritten, timer, hook, toDelete,
                   probed, openVars>>

Text == [recipe |-> building["flush"].recipe, data |-> building["flush"].stored]

\* The session part is written if its text is not the last one.
WriteSession ==
    IF Text # lastWritten
    THEN /\ parts' = [parts EXCEPT !.part = Text]
         /\ flush' = [flush EXCEPT !.pc = "write"]
         /\ UNCHANGED hook
    ELSE /\ EndFlush(flush.forSave)
         /\ UNCHANGED parts

\* Mutant of FlushBuilt: no check that the document is still the same.
FlushBuiltAnyEpoch ==
    /\ flush.pc = "build" /\ Built("flush")
    /\ IF probed THEN WriteSession
       ELSE flush' = [flush EXCEPT !.pc = "probe"] /\ UNCHANGED <<parts, hook>>
    /\ UNCHANGED <<open, disk, bootVars, listed, dataVars, lastWritten, timer, queue, building,
                   toDelete, probed, openVars, disturbed>>

\* The session is built: dropped if another document opened meanwhile, else
\* written, at once or when labelOn() has its answer.
FlushBuilt ==
    /\ flush.pc = "build" /\ Built("flush")
    /\ CASE flush.epoch # docEpoch -> EndFlush(flush.forSave) /\ UNCHANGED parts
         [] flush.epoch = docEpoch /\ probed -> WriteSession
         [] flush.epoch = docEpoch /\ ~probed ->
               flush' = [flush EXCEPT !.pc = "probe"] /\ UNCHANGED <<parts, hook>>
    /\ UNCHANGED <<open, disk, bootVars, listed, dataVars, lastWritten, timer, queue, building,
                   toDelete, probed, openVars, disturbed>>

FlushProbed ==
    /\ flush.pc = "probe" /\ probed
    /\ WriteSession
    /\ UNCHANGED <<open, disk, bootVars, listed, dataVars, lastWritten, timer, queue, building,
                   toDelete, probed, openVars, disturbed>>

FlushWritten ==
    /\ flush.pc = "write"
    /\ lastWritten' = Text
    /\ EndFlush(flush.forSave)
    /\ UNCHANGED <<storeVars, bootVars, listed, dataVars, timer, queue, building, toDelete,
                   probed, openVars, disturbed>>

FlushFails ==
    /\ EndFlush(flush.forSave)
    /\ Disturb({"refused"})
    /\ UNCHANGED <<storeVars, bootVars, listed, dataVars, lastWritten, timer, queue, building,
                   toDelete, probed, openVars>>

\* The host refuses a part write: reported, and not retried.
StoreRefused ==
    /\ flush.pc = "build"
    /\ building["flush"].hashing \in Source \ knownDataParts
    /\ FlushFails

WriteRefused ==
    /\ \/ flush.pc = "build" /\ Built("flush") /\ flush.epoch = docEpoch
       \/ flush.pc = "probe"
    /\ probed /\ Text # lastWritten
    /\ Cardinality(disturbed) < MaxDisturbed
    /\ FlushFails

ProbeAnswered ==
    /\ ~probed
    /\ probed' = TRUE
    /\ UNCHANGED <<storeVars, bootVars, listed, dataVars, lastWritten, timer, queue, flush,
                   hookVars, openVars, disturbed>>

-----------------------------------------------------------------------------
(* onWillSave: flush, then drop the data parts nothing names; what is in   *)
(* the container when the hook ends is what is saved.                      *)

\* Mutant of WillSave: the pending flush is left to its timer.
WillSaveCollectsOnly ==
    /\ hook = "idle"
    /\ hook' = "flushed"
    /\ UNCHANGED <<storeVars, bootVars, listed, dataVars, lastWritten, timer, queue, flush,
                   building, toDelete, probed, openVars, disturbed>>

WillSave ==
    /\ hook = "idle"
    /\ Len(queue) < MaxQueue
    /\ timer' = FALSE
    /\ queue' = Append(queue, [epoch |-> docEpoch, forSave |-> TRUE])
    /\ hook' = "flush"
    /\ UNCHANGED <<storeVars, bootVars, listed, dataVars, lastWritten, flush, building, toDelete,
                   probed, openVars, disturbed>>

EndHook ==
    /\ hook' = "idle"
    /\ disk' = [disk EXCEPT ![open] = parts]

CollectSkipped ==
    /\ hook = "flushed" /\ engine = Down
    /\ EndHook
    /\ UNCHANGED <<open, parts, bootVars, listed, dataVars, lastWritten, timer, queue, flush,
                   building, toDelete, probed, openVars, disturbed>>

CollectStarts ==
    /\ hook = "flushed" /\ engine # Down
    /\ hook' = "collect"
    /\ StartBuild("collect")
    /\ Disturb(If(Restoring, "restore"))
    /\ UNCHANGED <<storeVars, bootVars, listed, dataVars, lastWritten, timer, queue, flush,
                   toDelete, probed, openVars>>

\* parts.list: what the built session does not name is to be deleted.
CollectListed ==
    /\ hook = "collect" /\ Built("collect")
    /\ hook' = "delete"
    /\ toDelete' = parts.data \ building["collect"].stored
    /\ UNCHANGED <<storeVars, bootVars, listed, dataVars, lastWritten, timer, queue, flush,
                   building, probed, openVars, disturbed>>

DeletePart(s) ==
    /\ hook = "delete" /\ s \in toDelete
    /\ parts' = [parts EXCEPT !.data = @ \ {s}]
    /\ knownDataParts' = knownDataParts \ {s}
    /\ toDelete' = toDelete \ {s}
    /\ UNCHANGED <<open, disk, bootVars, listed, imported, lastWritten, timer, queue, flush,
                   building, hook, probed, openVars, disturbed>>

CollectEnds ==
    /\ hook = "delete" /\ toDelete = {}
    /\ EndHook
    /\ UNCHANGED <<open, parts, bootVars, listed, dataVars, lastWritten, timer, queue, flush,
                   building, toDelete, probed, openVars, disturbed>>

\* The host refuses a write or a delete: the parts are kept as they are.
CollectRefused ==
    /\ \/ hook = "collect" /\ building["collect"].hashing \in Source \ knownDataParts
       \/ hook = "delete" /\ toDelete # {}
    /\ EndHook
    /\ toDelete' = {}
    /\ Disturb({"refused"})
    /\ UNCHANGED <<open, parts, bootVars, listed, dataVars, lastWritten, timer, queue, flush,
                   building, probed, openVars>>

-----------------------------------------------------------------------------
(* documentOpened, resetState, restoreInternal.                            *)

\* Mutant of ResetState: the data parts of the old document stay known.
ResetKeepsKnown ==
    /\ engine' = Down /\ pendingDefs' = {} /\ bootPayload' = NoRecipe
    /\ listed' = {} /\ imported' = {} /\ UNCHANGED knownDataParts
    /\ lastWritten' = NoPart
    /\ probed' = FALSE

\* Mutant of ResetState: the text written last is that of the old document.
ResetKeepsWritten ==
    /\ engine' = Down /\ pendingDefs' = {} /\ bootPayload' = NoRecipe
    /\ listed' = {} /\ imported' = {} /\ knownDataParts' = {}
    /\ UNCHANGED lastWritten
    /\ probed' = FALSE

\* resetState from its await on, and what documentOpened resets after it.
ResetState ==
    /\ engine' = Down /\ pendingDefs' = {} /\ bootPayload' = NoRecipe
    /\ listed' = {} /\ imported' = {} /\ knownDataParts' = {}
    /\ lastWritten' = NoPart
    /\ probed' = FALSE

\* documentOpened: the epoch moves and the timer stops at once; the reset and
\* the restore wait for a restore that is still running.
DocumentOpened(d) ==
    /\ docEpoch < MaxOpen
    /\ hook = "idle"
    /\ open' = d
    /\ parts' = disk[d]
    /\ docEpoch' = docEpoch + 1
    /\ timer' = FALSE
    /\ IF restores[restorePromise] # NoTask
       THEN /\ openers' = [openers EXCEPT ![docEpoch'] = restorePromise]
            /\ UNCHANGED <<engine, pendingDefs, bootPayload, listed, dataVars, lastWritten,
                           probed, restores, restorePromise>>
       ELSE /\ ResetState
            /\ restores' = [restores EXCEPT ![docEpoch'] = ReadTask(disk[d])]
            /\ restorePromise' = docEpoch'
            /\ UNCHANGED openers
    /\ Disturb(If(flush.pc \in {"probe", "write"}, "late")
               \cup If(building["flush"].writing # NoFile, "mid")
               \cup If(\E n \in Epoch : openers[n] # NoWait, "twice"))
    /\ UNCHANGED <<disk, boots, queue, flush, hookVars>>

\* The restore k is over: every documentOpened that waited for it resets and
\* starts a restore of its own, else the session is what it restored.
EndRestore(k, written) ==
    LET woken == {n \in Epoch : openers[n] = k}
    IN  IF woken = {}
        THEN /\ restores' = [restores EXCEPT ![k] = NoTask]
             /\ lastWritten' = written
             /\ UNCHANGED <<engine, pendingDefs, bootPayload, listed, dataVars, probed,
                            restorePromise, openers>>
        ELSE /\ ResetState
             /\ restores' = [n \in Epoch |-> CASE n \in woken -> ReadTask(parts)
                                               [] n = k -> NoTask
                                               [] OTHER -> restores[n]]
             /\ restorePromise' = CHOOSE n \in woken : \A m \in woken : m <= n
             /\ openers' = [n \in Epoch |-> IF n \in woken THEN NoWait ELSE openers[n]]

At(k, pc) == restores[k] # NoTask /\ restores[k].pc = pc

RestoreNothing(k) ==
    /\ At(k, "read") /\ restores[k].saved = NoPart
    /\ EndRestore(k, lastWritten)
    /\ UNCHANGED <<storeVars, boots, timer, queue, flush, hookVars, docEpoch, disturbed>>

\* The saved recipe boots an engine, or replaces the recipe of one that is up.
RestoreRead(k) ==
    /\ At(k, "read") /\ restores[k].saved # NoPart
    /\ IF engine = Down
       THEN /\ restores' = [restores EXCEPT ![k].pc = "boot"]
            /\ bootPayload' = restores[k].saved.recipe
            /\ UNCHANGED <<engine, listed>>
       ELSE /\ restores' = [restores EXCEPT ![k].pc = "data", ![k].left = restores[k].saved.data]
            /\ bootPayload' = NoRecipe
            /\ engine' = restores[k].saved.recipe
            /\ listed' = listed \cup restores[k].saved.recipe
    /\ UNCHANGED <<storeVars, pendingDefs, boots, dataVars, lastWritten, timer, queue, flush,
                   hookVars, probed, docEpoch, restorePromise, openers, disturbed>>

RestoreBooted(k) ==
    /\ At(k, "boot")
    /\ EngineUp
    /\ listed' = listed \cup NewEngine
    /\ restores' = [restores EXCEPT ![k].pc = "data", ![k].left = restores[k].saved.data]
    /\ UNCHANGED <<storeVars, boots, dataVars, lastWritten, timer, queue, flush, hookVars,
                   probed, docEpoch, restorePromise, openers>>

\* The part cannot be read, or the engine does not boot (its payload then stays
\* for the next boot): reported, and the session is left empty.
RestoreUnavailable(k) ==
    /\ At(k, "read") \/ At(k, "boot")
    /\ EndRestore(k, lastWritten)
    /\ Disturb({"unavailable"})
    /\ UNCHANGED <<storeVars, boots, timer, queue, flush, hookVars, docEpoch>>

\* loadData, loadFile: a missing part is reported and its file left out.
RestoreData(k, s) ==
    /\ At(k, "data") /\ s \in restores[k].left
    /\ restores' = [restores EXCEPT ![k].left = @ \ {s}]
    /\ IF s \in parts.data
       THEN imported' = imported \cup {s} /\ knownDataParts' = knownDataParts \cup {s}
       ELSE UNCHANGED dataVars
    /\ UNCHANGED <<storeVars, bootVars, listed, lastWritten, timer, queue, flush, hookVars,
                   probed, docEpoch, restorePromise, openers, disturbed>>

\* Reconciled with the document: the part read is what was written last.
RestoreEnds(k) ==
    /\ At(k, "data") /\ restores[k].left = {}
    /\ EndRestore(k, restores[k].saved)
    /\ UNCHANGED <<storeVars, boots, timer, queue, flush, hookVars, docEpoch, disturbed>>

-----------------------------------------------------------------------------

\* What runs before the next event: the code up to the next await that waits.
Microtask ==
    \/ FlushSkipped \/ FlushStarts \/ FlushBuilt \/ FlushProbed \/ WriteRefused
    \/ CollectSkipped \/ CollectStarts \/ CollectListed
    \/ \E w \in Builder : HashNext(w)

MicrotaskDue ==
    \/ flush.pc = "idle" /\ queue # <<>>
    \/ \E w \in Builder : BetweenFiles(w)
    \/ flush.pc = "probe" /\ probed
    \/ hook = "flushed"

\* Commands of the user and of the host.
Command ==
    \/ \E b \in Binding : Define(b) \/ Remove(b)
    \/ \E s \in Source : Import(s, {}) \/ \E x \in imported \ {s} : Import(s, {x})
    \/ BootEngine
    \/ WillSave
    \/ \E d \in Doc : DocumentOpened(d)

\* Replies of the host.
Reply ==
    \/ \E w \in Builder : StoreKnown(w) \/ StoreNew(w) \/ PartStored(w)
    \/ FlushWritten
    \/ CollectEnds \/ \E s \in Source : DeletePart(s)
    \/ EngineBooted \/ ProbeAnswered
    \/ \E k \in Epoch :
          \/ RestoreNothing(k) \/ RestoreRead(k) \/ RestoreBooted(k) \/ RestoreEnds(k)
          \/ \E s \in Source : RestoreData(k, s)

Refusal == StoreRefused \/ CollectRefused \/ \E k \in Epoch : RestoreUnavailable(k)

CommandStep ==
    /\ ~MicrotaskDue
    /\ commands < MaxCommands /\ Cardinality(disturbed) <= MaxDisturbed
    /\ commands' = commands + 1
    /\ Command

MicrotaskStep == Microtask /\ UNCHANGED commands
TimerStep == ~MicrotaskDue /\ TimerFires /\ UNCHANGED commands
ReplyStep == ~MicrotaskDue /\ Reply /\ UNCHANGED commands
RefusalStep ==
    /\ ~MicrotaskDue /\ Cardinality(disturbed) < MaxDisturbed
    /\ Refusal /\ UNCHANGED commands

Next == CommandStep \/ MicrotaskStep \/ TimerStep \/ ReplyStep \/ RefusalStep

\* Microtasks run, timers fire, and the host answers every call made to it.
Fairness == WF_vars(MicrotaskStep) /\ WF_vars(TimerStep) /\ WF_vars(ReplyStep)

Spec == Init /\ [][Next]_vars /\ Fairness

-----------------------------------------------------------------------------
(* Properties.                                                             *)

\* None of these happened so far.
Without(kinds) == disturbed \cap kinds = {}

\* documentOpened: "nothing of it may be written into the new document".
NothingForeign == \A b \in SavedRecipe(parts) : Home[b] = open

\* ... and nothing is, except by a flush that was past its epoch check, or by
\* one that ran while the old document's restore was still being waited for.
ForeignOnlyLate == Without({"late", "restore", "twice"}) => NothingForeign

\* A restore finds every file its session names (loadData never misses).
DataHeld ==
    Without({"mid", "late", "collect", "restore", "twice", "refused"}) => SavedData(parts) \subseteq parts.data

\* The engine runs what the panels list.
EngineIsListed ==
    engine # Down /\ ~Restoring /\ Without({"ghost", "boot", "restore", "twice", "unavailable"})
        => engine = listed

\* A write is skipped only when the document really holds that text.
LastWrittenTrue ==
    lastWritten # NoPart /\ flush.pc # "write" /\ Without({"late", "restore", "twice"})
        => parts.part = lastWritten

\* A save holds what the panels list and what was imported, unless they
\* changed while it was running.
SaveComplete ==
    [][hook # "idle" /\ hook' = "idle" /\ ~Restoring
         /\ Without({"edit", "collect", "ghost", "restore", "twice", "boot", "unavailable",
                     "unbooted", "late", "refused"})
       => SavedRecipe(disk'[open]) = listed /\ SavedData(disk'[open]) = imported]_vars

\* buildPersisted: "nothing to save (the engine never booted, so nothing was
\* defined)".  A save that ends with no engine had nothing to save.
UnbootedIsEmpty ==
    [][hook # "idle" /\ hook' = "idle" /\ engine = Down
         /\ ~Restoring /\ Without({"restore", "unavailable"})
       => listed = {}]_vars

\* Once the user stops, the session part comes to hold the live session.
ChangesSettle ==
    (<>[][~CommandStep]_vars) =>
        <>[](engine # Down /\ Without(Hazard \ {"ghost"}) =>
                SavedRecipe(parts) = engine /\ SavedData(parts) = imported)
=============================================================================
