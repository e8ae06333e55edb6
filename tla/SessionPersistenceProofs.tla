----------------------- MODULE SessionPersistenceProofs -----------------------
(***************************************************************************)
(* Proofs about the session part and the data parts, for any number of     *)
(* documents, bindings, files and commands.                                *)
(*                                                                         *)
(* SessionInv is inductive.  Its parts say, besides the type: restores run *)
(* one at a time (OneRestore), a flush and a save are of a document opened *)
(* so far and of the open one once past its epoch check (FlushOrder,       *)
(* OneSave, FlushAlone), whose bindings are where (OwnBindings), what is   *)
(* known of the part on disk (PartKnown), what the engine lists in each    *)
(* phase of a start (EnginePhase), which files the caches hold             *)
(* (SaveNamesImported, FilesHeld), and how far a save has come             *)
(* (SaveReached).  Most parts hold only while what their property excludes *)
(* has not happened (Without); then every excluded event is a step that    *)
(* records it.                                                             *)
(***************************************************************************)
EXTENDS SessionPersistence, NaturalsInduction, WellFoundedInduction, TLAPS

USE PersistenceAssumption

-----------------------------------------------------------------------------
(* The inductive invariant, part by part.                                  *)

\* A documentOpened call is waiting for the restore of an earlier document.
Waiting == \E n \in Epoch : openers[n] # NoWait

\* The running flush, once it is past its epoch check, is of the open document.
CurrentFlush == flush.pc # "idle" /\ flush.epoch = docEpoch

\* One restore at a time, and only the newest document waits for it.
OneRestore ==
    Without({"twice"}) =>
        /\ restorePromise <= docEpoch
        /\ \A k \in Epoch : restores[k] # NoTask => k = restorePromise
        /\ \A n \in Epoch : openers[n] # NoWait =>
               /\ n = docEpoch /\ openers[n] = restorePromise
               /\ restorePromise < docEpoch /\ restores[restorePromise] # NoTask

\* Flushes are of documents opened so far; part writes are of builds that run,
\* and a build hashes or writes one file at a time.
FlushOrder ==
    /\ \A i \in 1..Len(queue) : queue[i].epoch <= docEpoch
    /\ flush.epoch <= docEpoch
    /\ building["flush"].writing # NoFile => flush.pc = "build"
    /\ building["collect"].writing # NoFile => hook = "collect"
    /\ \A w \in Builder : building[w].hashing # NoFile => building[w].writing = NoFile

\* The save hook waits for one flush, of the document it saves.
OneSave ==
    /\ \A i \in 1..Len(queue) : queue[i].forSave =>
           /\ hook = "flush" /\ queue[i].epoch = docEpoch /\ ~flush.forSave
           /\ \A j \in 1..Len(queue) : queue[j].forSave => i = j
    /\ flush.forSave => hook = "flush" /\ CurrentFlush

\* A flush of this document runs on its own engine, with no restore going on.
FlushAlone ==
    /\ Without({"restore"}) => (CurrentFlush => engine # Down /\ ~Restoring)
    /\ Without({"late"}) => (flush.pc \in {"probe", "write"} => CurrentFlush)

\* Whose bindings are where.
OwnBindings ==
    Without({"late", "restore", "twice"}) =>
        /\ \A d \in Doc : SavedRecipe(disk[d]) \subseteq Of(d)
        /\ SavedRecipe(parts) \subseteq Of(open)
        /\ CurrentFlush => building["flush"].recipe \subseteq Of(open)
        /\ ~Waiting =>
               /\ engine # Down => engine \subseteq Of(open)
               /\ pendingDefs \subseteq Of(open)
               /\ bootPayload # NoRecipe => bootPayload \subseteq Of(open)

\* What is known of the session part.
PartKnown ==
    Without({"late", "restore", "twice"}) =>
        /\ ~Waiting => \A k \in Epoch : restores[k] # NoTask => restores[k].saved = parts.part
        /\ Restoring => lastWritten = NoPart
        /\ lastWritten # NoPart /\ flush.pc # "write" => parts.part = lastWritten
        /\ flush.pc = "write" => parts.part = Text

\* The engine and the panels, in every phase of a restore and after it.
EnginePhase ==
    Without({"ghost", "boot", "restore", "twice", "unavailable"}) /\ ~Waiting =>
        /\ \A k \in Epoch : At(k, "read") =>
               engine \in {Down, {}} /\ bootPayload = NoRecipe /\ pendingDefs = {} /\ listed = {}
        /\ \A k \in Epoch : At(k, "boot") => pendingDefs = {} /\ listed = {}
        /\ \A k \in Epoch : At(k, "data") =>
               engine # Down /\ engine = listed /\ bootPayload = NoRecipe /\ pendingDefs = {}
        /\ ~Restoring =>
               /\ bootPayload = NoRecipe
               /\ engine = Down => listed = pendingDefs
               /\ engine # Down => engine = listed /\ pendingDefs = {}

\* The hook's own flush is over, or a collection runs.
AfterFlush == hook \in {"flushed", "collect", "delete"}
Flushed == AfterFlush /\ (hook = "flushed" => engine # Down)
HookFlush == flush.pc # "idle" /\ (flush.forSave \/ AfterFlush)

\* While a document is saved, the part and the builds name imported files only.
SaveNamesImported ==
    Without({"collect", "late", "restore", "twice", "refused"}) =>
        /\ HookFlush =>
               /\ CurrentFlush
               /\ building["flush"].stored \subseteq imported
               /\ building["flush"].hashing \in imported \cup {NoFile}
               /\ building["flush"].writing \in imported \cup {NoFile}
        /\ Flushed => engine # Down /\ ~Restoring /\ SavedData(parts) \subseteq imported
        /\ hook = "delete" => toDelete \cap imported = {}

\* Where the files are.
FilesHeld ==
    Without({"mid", "late", "collect", "restore", "twice", "refused"}) =>
        /\ \A d \in Doc : SavedData(disk[d]) \subseteq disk[d].data
        /\ SavedData(parts) \subseteq parts.data
        /\ ~Waiting => knownDataParts \subseteq parts.data
        /\ CurrentFlush => building["flush"].stored \subseteq parts.data
        /\ \A w \in Builder : building[w].writing # NoFile => building[w].writing \in parts.data

\* What a save has reached.
SaveReached ==
    Without({"edit", "collect", "ghost", "restore", "twice", "boot", "unavailable", "unbooted",
             "late", "refused"}) =>
        /\ ~Waiting => \A k \in Epoch : At(k, "read") \/ At(k, "boot") => imported = {}
        /\ ~Restoring /\ engine = Down => parts.part = NoPart /\ imported = {}
        /\ hook = "flushed" /\ engine = Down => pendingDefs = {}
        /\ HookFlush =>
               /\ building["flush"].recipe = engine
               /\ flush.pc \in {"probe", "write"} => imported \subseteq building["flush"].stored
        /\ Flushed => SavedRecipe(parts) = engine /\ imported \subseteq SavedData(parts)

-----------------------------------------------------------------------------
(* Types.                                                                  *)

LEMMA InitType == Init => TypeOK
<1> SUFFICES ASSUME Init PROVE TypeOK
    OBVIOUS
<1> USE DEF Init
<1>1. 0 \in Epoch
    BY DEF Epoch
<1>2. Saved[FirstDoc] \in Container
    OBVIOUS
<1>3. ReadTask(Saved[FirstDoc]) \in RestoreTask
    BY <1>2 DEF ReadTask, RestoreTask, Container
<1>4. restores \in [Epoch -> RestoreTask \cup {NoTask}]
    BY <1>3
<1>5. IdleFlush \in RunningFlush
    BY <1>1 DEF IdleFlush, RunningFlush
<1>6. FreshBuild \in Build
    BY DEF FreshBuild, Build
<1>7. building \in [Builder -> Build] /\ queue \in Seq(QueuedFlush) /\ Len(queue) = 0
    BY <1>6
<1>8. open \in Doc /\ disk \in [Doc -> Container] /\ parts \in Container
    BY <1>2
<1>9. commands \in 0..MaxCommands /\ boots \in 0..commands
    OBVIOUS
<1>10. timer \in BOOLEAN /\ probed \in BOOLEAN
    OBVIOUS
<1> QED
    BY <1>1, <1>4, <1>5, <1>7, <1>8, <1>9, <1>10 DEF TypeOK

LEMMA CommandType ==
    ASSUME TypeOK, CommandStep
    PROVE  TypeOK'
<1> USE DEF TypeOK, CommandStep, If, Disturb, storeVars, dataVars, hookVars, openVars, bootVars
<1>1. ASSUME NEW b \in Binding, Define(b)
      PROVE  TypeOK'
    BY <1>1 DEF Define, Hazard
<1>2. ASSUME NEW b \in Binding, Remove(b)
      PROVE  TypeOK'
    BY <1>2 DEF Remove, Hazard
<1>3. ASSUME NEW s \in Source, NEW old \in SUBSET Source, Import(s, old)
      PROVE  TypeOK'
    BY <1>3 DEF Import, Hazard
<1>4. ASSUME BootEngine
      PROVE  TypeOK'
    BY <1>4 DEF BootEngine
<1>5. ASSUME WillSave
      PROVE  TypeOK'
    <2>1. [epoch |-> docEpoch, forSave |-> TRUE] \in QueuedFlush
        BY DEF QueuedFlush
    <2>2. queue' \in Seq(QueuedFlush) /\ Len(queue') <= MaxQueue
        BY <1>5, <2>1 DEF WillSave
    <2>3. timer' \in BOOLEAN
        BY <1>5 DEF WillSave
    <2> QED
        BY <1>5, <2>2, <2>3 DEF WillSave
<1>6. ASSUME NEW d \in Doc, DocumentOpened(d)
      PROVE  TypeOK'
    <2>1. docEpoch' \in Epoch
        BY <1>6 DEF DocumentOpened, Epoch
    <2>2. disk[d] \in Container /\ ReadTask(disk[d]) \in RestoreTask
        BY DEF ReadTask, RestoreTask, Container
    <2>3. restores' \in [Epoch -> RestoreTask \cup {NoTask}] /\ restorePromise' \in Epoch
          /\ openers' \in [Epoch -> Epoch \cup {NoWait}]
        BY <1>6, <2>1, <2>2 DEF DocumentOpened
    <2>4. disturbed' \subseteq Hazard
        BY <1>6 DEF DocumentOpened, Hazard
    <2>5. timer' \in BOOLEAN /\ probed' \in BOOLEAN
        BY <1>6 DEF DocumentOpened, ResetState
    <2> QED
        BY <1>6, <2>1, <2>2, <2>3, <2>4, <2>5 DEF DocumentOpened, ResetState
<1> QED
    BY <1>1, <1>2, <1>3, <1>4, <1>5, <1>6 DEF Command

LEMMA NewEngineType ==
    ASSUME TypeOK
    PROVE  NewEngine \in SUBSET Binding
BY DEF TypeOK, NewEngine

LEMMA MicrotaskType ==
    ASSUME TypeOK, MicrotaskStep
    PROVE  TypeOK'
<1> USE DEF TypeOK, MicrotaskStep, If, Disturb, EndFlush, EndHook, storeVars, dataVars, hookVars,
            openVars, bootVars
<1>1. IdleFlush \in RunningFlush
    BY DEF IdleFlush, RunningFlush, Epoch
<1>2. queue # <<>> => /\ Tail(queue) \in Seq(QueuedFlush) /\ Len(Tail(queue)) <= MaxQueue
                      /\ Head(queue) \in QueuedFlush
    OBVIOUS
<1>3. ASSUME FlushSkipped
      PROVE  TypeOK'
    BY <1>1, <1>2, <1>3 DEF FlushSkipped, Hazard
<1>4. ASSUME FlushStarts
      PROVE  TypeOK'
    <2>1. flush' \in RunningFlush
        BY <1>2, <1>4 DEF FlushStarts, RunningFlush, QueuedFlush
    <2>2. building' \in [Builder -> Build]
        BY <1>4 DEF FlushStarts, StartBuild, Builder, Build, FreshBuild
    <2> QED
        BY <1>2, <1>4, <2>1, <2>2 DEF FlushStarts, Hazard
<1>5. Text \in Session
    BY DEF Text, Session, Builder, Build
<1>6. ASSUME WriteSession
      PROVE  parts' \in Container /\ flush' \in RunningFlush
             /\ hook' \in {"idle", "flush", "flushed", "collect", "delete"}
    BY <1>1, <1>5, <1>6 DEF WriteSession, Container, RunningFlush
<1>7. ASSUME FlushBuilt
      PROVE  TypeOK'
    <2>1. parts' \in Container /\ flush' \in RunningFlush
             /\ hook' \in {"idle", "flush", "flushed", "collect", "delete"}
        BY <1>1, <1>6, <1>7 DEF FlushBuilt, RunningFlush
    <2> QED
        BY <1>7, <2>1 DEF FlushBuilt
<1>8. ASSUME FlushProbed
      PROVE  TypeOK'
    BY <1>6, <1>8 DEF FlushProbed
<1>9. ASSUME WriteRefused
      PROVE  TypeOK'
    BY <1>1, <1>9 DEF WriteRefused, FlushFails, Hazard
<1>10. ASSUME CollectSkipped
       PROVE  TypeOK'
    BY <1>10 DEF CollectSkipped
<1>11. ASSUME CollectStarts
       PROVE  TypeOK'
    <2>1. building' \in [Builder -> Build]
        BY <1>11 DEF CollectStarts, StartBuild, Builder, Build, FreshBuild
    <2> QED
        BY <1>11, <2>1 DEF CollectStarts, Hazard
<1>12. ASSUME CollectListed
       PROVE  TypeOK'
    BY <1>12 DEF CollectListed, Container
<1>13. ASSUME NEW w \in Builder, HashNext(w)
       PROVE  TypeOK'
    <2>1. PICK s \in Source : building' = [building EXCEPT ![w].hashing = s]
        BY <1>13 DEF HashNext
    <2>2. \A b \in Build : [b EXCEPT !.hashing = s] \in Build
        BY DEF Build
    <2>3. building' \in [Builder -> Build]
        BY <2>1, <2>2
    <2> QED
        BY <1>13, <2>3 DEF HashNext
<1> QED
    BY <1>3, <1>4, <1>7, <1>8, <1>9, <1>10, <1>11, <1>12, <1>13 DEF Microtask

\* Of the documents opened so far, one is the newest.
LEMMA NewestEpoch ==
    ASSUME NEW S, S \subseteq Epoch, S # {}
    PROVE  \E n \in S : \A m \in S : m <= n
<1> DEFINE Age == {MaxOpen - n : n \in S}
<1>1. \A n \in S : n \in Int /\ MaxOpen - n \in Nat
    BY DEF Epoch
<1>2. Age \subseteq Nat /\ Age # {}
    BY <1>1
<1>3. PICK a \in Age : \A b \in Age : <<b, a>> \notin OpToRel(<, Nat)
    BY <1>2, NatLessThanWellFounded, WFMin
<1>4. \A b \in Age : ~(b < a)
    BY <1>2, <1>3 DEF OpToRel
<1>5. PICK n \in S : a = MaxOpen - n
    OBVIOUS
<1>6. ASSUME NEW m \in S
      PROVE  m <= n
    <2>1. MaxOpen - m \in Age
        OBVIOUS
    <2>2. ~(MaxOpen - m < MaxOpen - n)
        BY <1>4, <1>5, <2>1
    <2> QED
        BY <1>1, <2>2
<1> QED
    BY <1>6

LEMMA EndRestoreType ==
    ASSUME TypeOK, NEW k \in Epoch, NEW written \in Session \cup {NoPart}, EndRestore(k, written)
    PROVE  /\ restores' \in [Epoch -> RestoreTask \cup {NoTask}] /\ restorePromise' \in Epoch
           /\ openers' \in [Epoch -> Epoch \cup {NoWait}]
           /\ engine' \in {Down} \cup SUBSET Binding /\ pendingDefs' \subseteq Binding
           /\ bootPayload' \in {NoRecipe} \cup SUBSET Binding /\ listed' \subseteq Binding
           /\ imported' \subseteq Source /\ knownDataParts' \subseteq Source
           /\ lastWritten' \in Session \cup {NoPart} /\ probed' \in BOOLEAN
<1> DEFINE woken == {n \in Epoch : openers[n] = k}
<1> USE DEF TypeOK
<1>1. CASE woken = {}
    BY <1>1 DEF EndRestore, dataVars
<1>2. CASE woken # {}
    <2>1. ReadTask(parts) \in RestoreTask
        BY DEF ReadTask, RestoreTask, Container
    <2>2. restores' \in [Epoch -> RestoreTask \cup {NoTask}]
        BY <1>2, <2>1 DEF EndRestore
    <2>3. restorePromise' \in Epoch
        <3>1. \E n \in woken : \A m \in woken : m <= n
            BY <1>2, NewestEpoch
        <3>2. restorePromise' = CHOOSE n \in woken : \A m \in woken : m <= n
            BY <1>2 DEF EndRestore
        <3> QED
            BY <3>1, <3>2
    <2>4. ResetState /\ openers' \in [Epoch -> Epoch \cup {NoWait}]
        BY <1>2 DEF EndRestore
    <2>5. probed' \in BOOLEAN
        BY <2>4 DEF ResetState
    <2> QED
        BY <2>2, <2>3, <2>4, <2>5 DEF ResetState
<1> QED
    BY <1>1, <1>2

LEMMA ReplyType ==
    ASSUME TypeOK, TimerStep \/ ReplyStep \/ RefusalStep
    PROVE  TypeOK'
<1> USE DEF TypeOK, If, Disturb, EndFlush, EndHook, storeVars, dataVars, hookVars, openVars, bootVars
<1>1. IdleFlush \in RunningFlush
    BY DEF IdleFlush, RunningFlush, Epoch
<1>2. ASSUME TimerFires, UNCHANGED commands
      PROVE  TypeOK'
    <2>1. [epoch |-> docEpoch, forSave |-> FALSE] \in QueuedFlush
        BY DEF QueuedFlush
    <2>2. queue' \in Seq(QueuedFlush) /\ Len(queue') <= MaxQueue
        BY <1>2, <2>1 DEF TimerFires
    <2>3. timer' \in BOOLEAN
        BY <1>2 DEF TimerFires
    <2> QED
        BY <1>2, <2>2, <2>3 DEF TimerFires
<1>3. ASSUME NEW w \in Builder, StoreKnown(w), UNCHANGED commands
      PROVE  TypeOK'
    <2>1. building' \in [Builder -> Build]
        <3>1. PICK s \in Source :
                  building' = [building EXCEPT ![w].stored = @ \cup {s}, ![w].hashing = NoFile]
            BY <1>3 DEF StoreKnown
        <3>2. \A b \in Build : [b EXCEPT !.stored = @ \cup {s}, !.hashing = NoFile] \in Build
            BY DEF Build
        <3> QED
            BY <3>1, <3>2
    <2> QED
        BY <1>3, <2>1 DEF StoreKnown
<1>4. ASSUME NEW w \in Builder, StoreNew(w), UNCHANGED commands
      PROVE  TypeOK'
    <2>1. building' \in [Builder -> Build]
        <3>1. PICK s \in Source :
                  building' = [building EXCEPT ![w].writing = s, ![w].hashing = NoFile]
            BY <1>4 DEF StoreNew
        <3>2. \A b \in Build : [b EXCEPT !.writing = s, !.hashing = NoFile] \in Build
            BY DEF Build
        <3> QED
            BY <3>1, <3>2
    <2>2. parts' \in Container
        <3>1. PICK s \in Source : parts' = [parts EXCEPT !.data = @ \cup {s}]
            BY <1>4 DEF StoreNew
        <3> QED
            BY <3>1 DEF Container
    <2> QED
        BY <1>4, <2>1, <2>2 DEF StoreNew
<1>5. ASSUME NEW w \in Builder, PartStored(w), UNCHANGED commands
      PROVE  TypeOK'
    <2>1. building[w].writing \in Source
        BY <1>5 DEF PartStored, Build
    <2>2. building' \in [Builder -> Build]
        BY <1>5, <2>1 DEF PartStored, Builder, Build
    <2> QED
        BY <1>5, <2>1, <2>2 DEF PartStored
<1>6. ASSUME FlushWritten, UNCHANGED commands
      PROVE  TypeOK'
    <2>1. Text \in Session
        BY DEF Text, Session, Builder, Build
    <2> QED
        BY <1>1, <1>6, <2>1 DEF FlushWritten
<1>7. ASSUME CollectEnds, UNCHANGED commands
      PROVE  TypeOK'
    BY <1>7 DEF CollectEnds
<1>8. ASSUME NEW s \in Source, DeletePart(s), UNCHANGED commands
      PROVE  TypeOK'
    <2>1. parts' \in Container
        BY <1>8 DEF DeletePart, Container
    <2> QED
        BY <1>8, <2>1 DEF DeletePart
<1>9. ASSUME EngineBooted, UNCHANGED commands
      PROVE  TypeOK'
    BY <1>9, NewEngineType DEF EngineBooted, EngineUp, Hazard
<1>10. ASSUME ProbeAnswered, UNCHANGED commands
       PROVE  TypeOK'
    <2>1. probed' \in BOOLEAN
        BY <1>10 DEF ProbeAnswered
    <2> QED
        BY <1>10, <2>1 DEF ProbeAnswered
<1>11. ASSUME NEW k \in Epoch, RestoreNothing(k), UNCHANGED commands
       PROVE  TypeOK'
    BY <1>11, EndRestoreType DEF RestoreNothing
<1>12. ASSUME NEW k \in Epoch, NEW pc, At(k, pc)
       PROVE  restores[k] \in RestoreTask
    BY <1>12 DEF At
<1>13. ASSUME NEW k \in Epoch, RestoreRead(k), UNCHANGED commands
       PROVE  TypeOK'
    <2>1. restores[k] \in RestoreTask /\ restores[k].saved \in Session
        BY <1>12, <1>13 DEF RestoreRead, RestoreTask
    <2>2. restores' \in [Epoch -> RestoreTask \cup {NoTask}]
        BY <1>13, <2>1 DEF RestoreRead, RestoreTask, Session
    <2>3. restores[k].saved.recipe \in SUBSET Binding
        BY <2>1 DEF Session
    <2> QED
        BY <1>13, <2>2, <2>3 DEF RestoreRead
<1>14. ASSUME NEW k \in Epoch, RestoreBooted(k), UNCHANGED commands
       PROVE  TypeOK'
    <2>1. restores[k] \in RestoreTask
        BY <1>12, <1>14 DEF RestoreBooted
    <2>2. restores' \in [Epoch -> RestoreTask \cup {NoTask}]
        BY <1>14, <2>1 DEF RestoreBooted, At, RestoreTask, Session
    <2> QED
        BY <1>14, <2>2, NewEngineType DEF RestoreBooted, EngineUp, Hazard
<1>15. ASSUME NEW k \in Epoch, NEW s \in Source, RestoreData(k, s), UNCHANGED commands
       PROVE  TypeOK'
    <2>1. restores[k] \in RestoreTask
        BY <1>12, <1>15 DEF RestoreData
    <2>2. restores' \in [Epoch -> RestoreTask \cup {NoTask}]
        BY <1>15, <2>1 DEF RestoreData, RestoreTask
    <2>3. imported' \subseteq Source /\ knownDataParts' \subseteq Source
        BY <1>15 DEF RestoreData
    <2> QED
        BY <1>15, <2>2, <2>3 DEF RestoreData
<1>16. ASSUME NEW k \in Epoch, RestoreEnds(k), UNCHANGED commands
       PROVE  TypeOK'
    <2>1. restores[k].saved \in Session \cup {NoPart}
        BY <1>12, <1>16 DEF RestoreEnds, RestoreTask
    <2> QED
        BY <1>16, <2>1, EndRestoreType DEF RestoreEnds
<1>17. ASSUME StoreRefused, UNCHANGED commands
       PROVE  TypeOK'
    BY <1>1, <1>17 DEF StoreRefused, FlushFails, Hazard
<1>18. ASSUME CollectRefused, UNCHANGED commands
       PROVE  TypeOK'
    BY <1>18 DEF CollectRefused, Hazard
<1>19. ASSUME NEW k \in Epoch, RestoreUnavailable(k), UNCHANGED commands
       PROVE  TypeOK'
    BY <1>19, EndRestoreType DEF RestoreUnavailable, Hazard
<1> QED
    BY <1>2, <1>3, <1>4, <1>5, <1>6, <1>7, <1>8, <1>9, <1>10, <1>11, <1>13, <1>14, <1>15, <1>16,
       <1>17, <1>18, <1>19 DEF TimerStep, ReplyStep, RefusalStep, Reply, Refusal

-----------------------------------------------------------------------------
(* What the steps are, and how a restore ends.                             *)

RestoreStep(k) ==
    \/ RestoreNothing(k) \/ RestoreRead(k) \/ RestoreBooted(k) \/ RestoreEnds(k)
    \/ RestoreUnavailable(k) \/ \E s \in Source : RestoreData(k, s)

\* Only opening a document and restoring one touch the epochs and the restores.
LEMMA StepKinds ==
    ASSUME Next
    PROVE  \/ UNCHANGED openVars
           \/ \E d \in Doc : DocumentOpened(d)
           \/ \E k \in Epoch : RestoreStep(k)
<1> USE DEF openVars
<1>1. ASSUME Command
      PROVE  UNCHANGED openVars \/ \E d \in Doc : DocumentOpened(d)
    BY <1>1 DEF Command, Define, Remove, Import, BootEngine, WillSave
<1>2. ASSUME Microtask
      PROVE  UNCHANGED openVars
    BY <1>2 DEF Microtask, HashNext, FlushSkipped, FlushStarts, FlushBuilt, FlushProbed, WriteRefused,
                FlushFails, CollectSkipped, CollectStarts, CollectListed
<1>3. ASSUME TimerFires
      PROVE  UNCHANGED openVars
    BY <1>3 DEF TimerFires
<1>4. ASSUME Reply
      PROVE  UNCHANGED openVars \/ \E k \in Epoch : RestoreStep(k)
    BY <1>4 DEF Reply, StoreKnown, StoreNew, PartStored, FlushWritten, CollectEnds, DeletePart,
                EngineBooted, ProbeAnswered, RestoreStep
<1>5. ASSUME Refusal
      PROVE  UNCHANGED openVars \/ \E k \in Epoch : RestoreStep(k)
    BY <1>5 DEF Refusal, StoreRefused, FlushFails, CollectRefused, RestoreStep
<1> QED
    BY <1>1, <1>2, <1>3, <1>4, <1>5 DEF Next, CommandStep, MicrotaskStep, TimerStep, ReplyStep,
       RefusalStep

\* What happened stays recorded.
LEMMA Recorded ==
    ASSUME Next
    PROVE  disturbed \subseteq disturbed'
<1> USE DEF Disturb, If
<1>1. ASSUME Command
      PROVE  disturbed \subseteq disturbed'
    BY <1>1 DEF Command, Define, Remove, Import, BootEngine, WillSave, DocumentOpened
<1>2. ASSUME Microtask
      PROVE  disturbed \subseteq disturbed'
    BY <1>2 DEF Microtask, HashNext, FlushSkipped, FlushStarts, FlushBuilt, FlushProbed, WriteRefused,
                FlushFails, CollectSkipped, CollectStarts, CollectListed
<1>3. ASSUME TimerFires
      PROVE  disturbed \subseteq disturbed'
    BY <1>3 DEF TimerFires
<1>4. ASSUME Reply
      PROVE  disturbed \subseteq disturbed'
    BY <1>4 DEF Reply, StoreKnown, StoreNew, PartStored, FlushWritten, CollectEnds, DeletePart,
                EngineBooted, EngineUp, ProbeAnswered, RestoreNothing, RestoreRead, RestoreBooted,
                RestoreEnds, RestoreData
<1>5. ASSUME Refusal
      PROVE  disturbed \subseteq disturbed'
    BY <1>5 DEF Refusal, StoreRefused, FlushFails, CollectRefused, RestoreUnavailable
<1> QED
    BY <1>1, <1>2, <1>3, <1>4, <1>5 DEF Next, CommandStep, MicrotaskStep, TimerStep, ReplyStep,
       RefusalStep

\* What has not happened after a step had not happened before it, nor in it.
LEMMA NotRecorded ==
    ASSUME NEW kinds, Without(kinds)', disturbed \subseteq disturbed'
    PROVE  Without(kinds)
BY DEF Without

\* One restore at a time: it ends with the session it restored, or with a reset
\* and the restore of the newest document, which nobody waits for.
LEMMA RestoreOutcome ==
    ASSUME TypeOK, OneRestore, Without({"twice"}), NEW k \in Epoch, restores[k] # NoTask,
           NEW written, EndRestore(k, written)
    PROVE  /\ ~Waiting'
           /\ \/ /\ ~Waiting /\ lastWritten' = written
                 /\ UNCHANGED <<engine, pendingDefs, bootPayload, listed, imported,
                                knownDataParts, probed, restorePromise, openers>>
                 /\ \A n \in Epoch : restores'[n] = NoTask
              \/ /\ Waiting /\ ResetState
                 /\ restorePromise' = docEpoch
                 /\ restores'[docEpoch] = ReadTask(parts)
                 /\ \A n \in Epoch \ {docEpoch} : restores'[n] = NoTask
                 /\ \A n \in Epoch : openers'[n] = NoWait
<1> DEFINE woken == {n \in Epoch : openers[n] = k}
<1>1. k = restorePromise /\ k # NoWait
    BY DEF OneRestore, Epoch
<1>2. \A n \in Epoch : openers[n] # NoWait => n = docEpoch /\ openers[n] = k
    BY <1>1 DEF OneRestore
<1>3. CASE woken = {}
    <2>1. ~Waiting
        BY <1>2, <1>3 DEF Waiting
    <2>2. UNCHANGED openers /\ restores' = [restores EXCEPT ![k] = NoTask]
        BY <1>3 DEF EndRestore
    <2>3. \A n \in Epoch : restores'[n] = NoTask
        BY <1>1, <2>2 DEF OneRestore, TypeOK
    <2> QED
        BY <1>3, <2>1, <2>2, <2>3 DEF EndRestore, dataVars, Waiting
<1>4. CASE woken # {}
    <2>1. woken = {docEpoch} /\ Waiting /\ k \notin woken
        BY <1>1, <1>2, <1>4 DEF Waiting, OneRestore, TypeOK, Epoch
    <2>2. restorePromise' = docEpoch
        BY <1>4, <2>1 DEF EndRestore, TypeOK, Epoch
    <2>3. /\ restores'[docEpoch] = ReadTask(parts)
          /\ \A n \in Epoch \ {docEpoch} : restores'[n] = NoTask
        <3>1. restores' = [n \in Epoch |-> CASE n \in woken -> ReadTask(parts)
                                             [] n = k -> NoTask
                                             [] OTHER -> restores[n]]
            BY <1>4 DEF EndRestore
        <3>2. \A n \in Epoch : n # k => restores[n] = NoTask
            BY <1>1 DEF OneRestore
        <3>3. docEpoch \in Epoch
            BY DEF TypeOK
        <3>4. restores'[docEpoch] = ReadTask(parts)
            BY <2>1, <3>1, <3>3
        <3>5. ASSUME NEW n \in Epoch \ {docEpoch}
              PROVE  restores'[n] = NoTask
            <4>1. n \notin woken
                BY <2>1
            <4>2. CASE n = k
                BY <3>1, <4>1, <4>2
            <4>3. CASE n # k
                BY <3>1, <3>2, <4>1, <4>3
            <4> QED
                BY <4>2, <4>3
        <3> QED
            BY <3>4, <3>5
    <2>4. \A n \in Epoch : openers'[n] = NoWait
        BY <1>2, <1>4, <2>1 DEF EndRestore
    <2> QED
        BY <1>4, <2>1, <2>2, <2>3, <2>4 DEF EndRestore, Waiting
<1> QED
    BY <1>3, <1>4

\* A restore that goes on keeps the session it has read.
LEMMA RestoreGoesOn ==
    ASSUME TypeOK, NEW k \in Epoch,
           RestoreRead(k) \/ RestoreBooted(k) \/ \E s \in Source : RestoreData(k, s)
    PROVE  /\ UNCHANGED <<docEpoch, restorePromise, openers, lastWritten>>
           /\ restores[k] # NoTask /\ restores'[k] # NoTask
           /\ restores'[k].saved = restores[k].saved
           /\ \A n \in Epoch \ {k} : restores'[n] = restores[n]
<1>1. UNCHANGED <<docEpoch, restorePromise, openers, lastWritten>> /\ restores[k] # NoTask
    BY DEF RestoreRead, RestoreBooted, RestoreData, At
<1>2. restores[k] \in RestoreTask
    BY <1>1 DEF TypeOK
<1>3. \A n \in Epoch \ {k} : restores'[n] = restores[n]
    BY DEF RestoreRead, RestoreBooted, RestoreData, TypeOK
<1>4. /\ restores'[k] \in RestoreTask
      /\ restores'[k].saved = restores[k].saved
    <2>1. CASE RestoreRead(k)
        <3>1. restores[k].saved \in Session
            BY <1>2, <2>1 DEF RestoreRead, RestoreTask
        <3>2. restores'[k] = [restores[k] EXCEPT !.pc = "boot"]
              \/ restores'[k] = [restores[k] EXCEPT !.pc = "data", !.left = restores[k].saved.data]
            BY <2>1 DEF RestoreRead, TypeOK
        <3>3. CASE restores'[k] = [restores[k] EXCEPT !.pc = "boot"]
            BY <1>2, <3>1, <3>3 DEF RestoreTask
        <3>4. CASE restores'[k] = [restores[k] EXCEPT !.pc = "data", !.left = restores[k].saved.data]
            BY <1>2, <3>1, <3>4 DEF RestoreTask, Session
        <3> QED
            BY <3>2, <3>3, <3>4
    <2>2. CASE RestoreBooted(k)
        <3>1. restores[k].saved \in Session
            BY <1>2, <2>2 DEF RestoreBooted, At, RestoreTask
        <3>2. restores'[k] = [restores[k] EXCEPT !.pc = "data", !.left = restores[k].saved.data]
            BY <2>2 DEF RestoreBooted, TypeOK
        <3> QED
            BY <1>2, <3>1, <3>2 DEF RestoreTask, Session
    <2>3. CASE \E s \in Source : RestoreData(k, s)
        <3>1. PICK s \in Source : RestoreData(k, s)
            BY <2>3
        <3>2. restores'[k] = [restores[k] EXCEPT !.left = @ \ {s}] /\ restores[k].pc = "data"
            BY <3>1 DEF RestoreData, At, TypeOK
        <3> QED
            BY <1>2, <3>2 DEF RestoreTask
    <2> QED
        BY <2>1, <2>2, <2>3
<1> QED
    BY <1>1, <1>3, <1>4

-----------------------------------------------------------------------------
(* One restore at a time.                                                  *)

LEMMA OneRestoreKept ==
    ASSUME TypeOK, OneRestore, Next
    PROVE  OneRestore'
<1> SUFFICES ASSUME Without({"twice"})'
             PROVE  /\ restorePromise' <= docEpoch'
                    /\ \A k \in Epoch : restores'[k] # NoTask => k = restorePromise'
                    /\ \A n \in Epoch : openers'[n] # NoWait =>
                          /\ n = docEpoch' /\ openers'[n] = restorePromise'
                          /\ restorePromise' < docEpoch' /\ restores'[restorePromise'] # NoTask
    BY DEF OneRestore
<1>1. Without({"twice"})
    BY Recorded, NotRecorded
<1>2. CASE UNCHANGED openVars
    BY <1>1, <1>2 DEF OneRestore, openVars
<1>3. ASSUME NEW d \in Doc, DocumentOpened(d)
      PROVE  OneRestore'
    <2>1. ~Waiting
        BY <1>3 DEF DocumentOpened, Disturb, Without, If, Waiting
    <2>2. /\ docEpoch' \in Epoch /\ docEpoch' = docEpoch + 1
          /\ ReadTask(disk[d]) # NoTask
        BY <1>3 DEF DocumentOpened, Epoch, TypeOK, ReadTask, RestoreTask, Container
    <2> QED
        BY <1>1, <1>3, <2>1, <2>2 DEF DocumentOpened, OneRestore, TypeOK, Waiting
<1>4. ASSUME NEW k \in Epoch, RestoreStep(k)
      PROVE  OneRestore'
    <2>1. restores[k] # NoTask
        BY <1>4 DEF RestoreStep, RestoreNothing, RestoreRead, RestoreBooted, RestoreEnds,
                    RestoreUnavailable, RestoreData, At
    <2>2. ASSUME NEW written, EndRestore(k, written), UNCHANGED docEpoch
          PROVE  OneRestore'
        <3>1. docEpoch \in Epoch /\ docEpoch <= docEpoch /\ (Without({"twice"})' => Without({"twice"}))
            BY <1>1 DEF TypeOK, Epoch
        <3>2. /\ \A n \in Epoch : restores'[n] # NoTask => n = restorePromise'
              /\ restorePromise' <= docEpoch
            BY <1>1, <2>1, <2>2, <3>1, RestoreOutcome DEF OneRestore
        <3>3. \A n \in Epoch : openers'[n] = NoWait
            BY <1>1, <2>1, <2>2, RestoreOutcome DEF Waiting
        <3> QED
            BY <2>2, <3>2, <3>3 DEF OneRestore
    <2>3. ASSUME RestoreRead(k) \/ RestoreBooted(k) \/ \E s \in Source : RestoreData(k, s)
          PROVE  OneRestore'
        BY <1>1, <2>3, RestoreGoesOn DEF OneRestore, TypeOK
    <2> QED
        BY <1>4, <2>2, <2>3 DEF RestoreStep, RestoreNothing, RestoreEnds, RestoreUnavailable
<1> QED
    BY <1>2, <1>3, <1>4, StepKinds DEF OneRestore

-----------------------------------------------------------------------------
(* The order of flushes and saves.                                         *)

FlushVars == <<queue, flush, building, hook, docEpoch>>

\* The steps of the flushes, of the builds and of the save hook, and no others,
\* touch the flushes.
LEMMA FlushSteps ==
    ASSUME Next
    PROVE  \/ UNCHANGED FlushVars
           \/ \E d \in Doc : DocumentOpened(d)
           \/ WillSave \/ Microtask \/ TimerFires
           \/ \E w \in Builder : StoreKnown(w) \/ StoreNew(w) \/ PartStored(w)
           \/ FlushWritten \/ StoreRefused
           \/ CollectEnds \/ CollectRefused
<1> USE DEF FlushVars, hookVars
<1>1. ASSUME Command
      PROVE  UNCHANGED FlushVars \/ WillSave \/ \E d \in Doc : DocumentOpened(d)
    BY <1>1 DEF Command, Define, Remove, Import, BootEngine, openVars
<1>2. ASSUME Reply
      PROVE  \/ UNCHANGED FlushVars \/ FlushWritten \/ CollectEnds
             \/ \E w \in Builder : StoreKnown(w) \/ StoreNew(w) \/ PartStored(w)
    <2>1. ASSUME (\E s \in Source : DeletePart(s)) \/ EngineBooted \/ ProbeAnswered
          PROVE  UNCHANGED FlushVars
        BY <2>1 DEF DeletePart, EngineBooted, ProbeAnswered, openVars
    <2>2. ASSUME NEW k \in Epoch,
                 \/ RestoreNothing(k) \/ RestoreRead(k) \/ RestoreBooted(k) \/ RestoreEnds(k)
                 \/ \E s \in Source : RestoreData(k, s)
          PROVE  UNCHANGED FlushVars
        BY <2>2 DEF RestoreNothing, RestoreRead, RestoreBooted, RestoreEnds, RestoreData
    <2> QED
        BY <1>2, <2>1, <2>2 DEF Reply
<1>3. ASSUME Refusal
      PROVE  UNCHANGED FlushVars \/ StoreRefused \/ CollectRefused
    BY <1>3 DEF Refusal, RestoreUnavailable
<1> QED
    BY <1>1, <1>2, <1>3 DEF Next, CommandStep, MicrotaskStep, TimerStep, ReplyStep, RefusalStep

\* What taking the first flush of the queue leaves.
LEMMA QueueTail ==
    ASSUME TypeOK, queue # <<>>
    PROVE  /\ Len(queue) \in Nat \ {0} /\ Head(queue) = queue[1]
           /\ Tail(queue) \in Seq(QueuedFlush) /\ Len(Tail(queue)) = Len(queue) - 1
           /\ \A i \in 1..Len(Tail(queue)) : Tail(queue)[i] = queue[i + 1]
BY DEF TypeOK

\* What queueing one more leaves.
LEMMA QueueAppend ==
    ASSUME TypeOK, NEW e \in QueuedFlush
    PROVE  /\ Len(Append(queue, e)) = Len(queue) + 1 /\ Len(queue) \in Nat
           /\ Append(queue, e)[Len(queue) + 1] = e
           /\ \A i \in 1..Len(queue) : Append(queue, e)[i] = queue[i]
BY DEF TypeOK

\* What a built flush may do: nothing, write the session, or wait for the probe.
LEMMA FlushBuiltCases ==
    ASSUME FlushBuilt
    PROVE  \/ flush.epoch # docEpoch /\ EndFlush(flush.forSave) /\ UNCHANGED parts
           \/ flush.epoch = docEpoch /\ WriteSession
           \/ /\ flush.epoch = docEpoch
              /\ flush' = [flush EXCEPT !.pc = "probe"] /\ UNCHANGED <<parts, hook>>
<1>1. CASE flush.epoch # docEpoch
    BY <1>1 DEF FlushBuilt
<1>2. CASE flush.epoch = docEpoch /\ probed
    BY <1>2 DEF FlushBuilt
<1>3. CASE flush.epoch = docEpoch /\ ~probed
    BY <1>3 DEF FlushBuilt
<1> QED
    BY <1>1, <1>2, <1>3

\* Writing the session leaves the flush writing, or over if the text is held.
LEMMA WriteCases ==
    ASSUME TypeOK, WriteSession
    PROVE  \/ /\ Text # lastWritten
              /\ parts' = [parts EXCEPT !.part = Text]
              /\ flush' = [flush EXCEPT !.pc = "write"] /\ UNCHANGED hook
              /\ flush'.pc = "write" /\ flush'.epoch = flush.epoch
              /\ flush'.forSave = flush.forSave
           \/ Text = lastWritten /\ EndFlush(flush.forSave) /\ UNCHANGED parts
BY DEF WriteSession, TypeOK, RunningFlush

LEMMA FlushOrderKept ==
    ASSUME TypeOK, FlushOrder, OneSave, Next
    PROVE  FlushOrder'
<1> USE DEF hookVars, openVars
<1>1. /\ docEpoch \in Nat /\ flush.epoch \in Nat
      /\ \A i \in 1..Len(queue) : queue[i].epoch \in Nat
    <2>1. \A i \in 1..Len(queue) : queue[i] \in QueuedFlush
        BY DEF TypeOK
    <2> QED
        BY <2>1 DEF TypeOK, Epoch, RunningFlush, QueuedFlush
<1>2. CASE UNCHANGED FlushVars
    BY <1>2 DEF FlushOrder, FlushVars
<1>3. ASSUME NEW d \in Doc, DocumentOpened(d)
      PROVE  FlushOrder'
    BY <1>1, <1>3 DEF DocumentOpened, FlushOrder
<1>4. CASE WillSave
    <2>1. [epoch |-> docEpoch, forSave |-> TRUE] \in QueuedFlush
        BY DEF TypeOK, QueuedFlush
    <2> QED
        BY <1>1, <1>4, <2>1, QueueAppend DEF WillSave, FlushOrder
<1>5. CASE TimerFires
    <2>1. [epoch |-> docEpoch, forSave |-> FALSE] \in QueuedFlush
        BY DEF TypeOK, QueuedFlush
    <2> QED
        BY <1>1, <1>5, <2>1, QueueAppend DEF TimerFires, FlushOrder
<1>6. CASE FlushSkipped
    <2>1. queue' = Tail(queue) /\ queue # <<>>
        BY <1>6 DEF FlushSkipped
    <2>2. \A i \in 1..Len(queue') : queue'[i].epoch <= docEpoch'
        BY <1>6, <2>1, QueueTail DEF FlushSkipped, FlushOrder
    <2> QED
        BY <1>1, <1>6, <2>1, <2>2, QueueTail DEF FlushSkipped, EndFlush, IdleFlush, FlushOrder, OneSave
<1>7. CASE FlushStarts
    <2>1. queue' = Tail(queue) /\ queue # <<>>
        BY <1>7 DEF FlushStarts
    <2>2. \A i \in 1..Len(queue') : queue'[i].epoch <= docEpoch'
        BY <1>7, <2>1, QueueTail DEF FlushStarts, FlushOrder
    <2>3. /\ building'["flush"].writing = NoFile /\ building'["flush"].hashing = NoFile
          /\ building'["collect"] = building["collect"]
        BY <1>7 DEF FlushStarts, StartBuild, FreshBuild, TypeOK, Builder
    <2> QED
        BY <1>1, <1>7, <2>1, <2>2, <2>3 DEF FlushStarts, FlushOrder, Builder
<1>8. CASE FlushBuilt
    <2>1. UNCHANGED <<queue, building, docEpoch>> /\ building["flush"].writing = NoFile
        BY <1>8 DEF FlushBuilt, Built, BetweenFiles
    <2>2. flush'.epoch \in {0, flush.epoch} /\ (hook' = hook \/ hook # "collect")
        BY <1>8, FlushBuiltCases, WriteCases DEF EndFlush, IdleFlush, OneSave, TypeOK, RunningFlush
    <2> QED
        BY <1>1, <2>1, <2>2 DEF FlushOrder
<1>9. CASE FlushProbed
    <2>1. UNCHANGED <<queue, building, docEpoch>> /\ building["flush"].writing = NoFile
        BY <1>9 DEF FlushProbed, FlushOrder
    <2>2. flush'.epoch \in {0, flush.epoch} /\ (hook' = hook \/ hook # "collect")
        BY <1>9, WriteCases DEF FlushProbed, EndFlush, IdleFlush, OneSave, TypeOK, RunningFlush
    <2> QED
        BY <1>1, <2>1, <2>2 DEF FlushOrder
<1>10. CASE WriteRefused \/ StoreRefused \/ FlushWritten
    <2>1. building["flush"].writing = NoFile
        BY <1>10 DEF WriteRefused, StoreRefused, FlushWritten, Built, BetweenFiles, FlushOrder, Builder
    <2> QED
        BY <1>1, <1>10, <2>1 DEF WriteRefused, StoreRefused, FlushWritten, FlushFails, EndFlush,
                                 IdleFlush, FlushOrder, OneSave
<1>11. CASE CollectSkipped \/ CollectListed \/ CollectEnds \/ CollectRefused
    <2>1. building["collect"].writing = NoFile
        BY <1>11 DEF CollectSkipped, CollectListed, CollectEnds, CollectRefused, Built, BetweenFiles,
                     FlushOrder, Builder
    <2> QED
        BY <1>11, <2>1 DEF CollectSkipped, CollectListed, CollectEnds, CollectRefused, EndHook,
                           FlushOrder
<1>12. CASE CollectStarts
    <2>1. /\ building'["collect"].writing = NoFile /\ building'["collect"].hashing = NoFile
          /\ building'["flush"] = building["flush"]
        BY <1>12 DEF CollectStarts, StartBuild, FreshBuild, TypeOK, Builder
    <2> QED
        BY <1>12, <2>1 DEF CollectStarts, FlushOrder, Builder
<1>13. ASSUME NEW w \in Builder, HashNext(w) \/ StoreKnown(w) \/ StoreNew(w) \/ PartStored(w)
       PROVE  FlushOrder'
    <2>1. UNCHANGED <<queue, flush, hook, docEpoch>>
        BY <1>13 DEF HashNext, StoreKnown, StoreNew, PartStored
    <2>2. \A v \in Builder :
              /\ building'[v].writing # NoFile => building[v].writing # NoFile \/ Building(v)
              /\ building'[v].hashing # NoFile => building'[v].writing = NoFile
        <3>1. \A v \in Builder \ {w} : building'[v] = building[v]
            BY <1>13 DEF HashNext, StoreKnown, StoreNew, PartStored, TypeOK
        <3>2. CASE HashNext(w)
            BY <3>1, <3>2 DEF HashNext, BetweenFiles, TypeOK, Build, FlushOrder
        <3>3. CASE StoreKnown(w)
            BY <3>1, <3>3 DEF StoreKnown, TypeOK, Build, FlushOrder
        <3>4. CASE StoreNew(w)
            BY <3>1, <3>4 DEF StoreNew, TypeOK, Build, FlushOrder
        <3>5. CASE PartStored(w)
            BY <3>1, <3>5 DEF PartStored, TypeOK, Build, FlushOrder
        <3> QED
            BY <1>13, <3>2, <3>3, <3>4, <3>5
    <2> QED
        BY <2>1, <2>2 DEF FlushOrder, Building, Builder
<1> QED
    BY <1>2, <1>3, <1>4, <1>5, <1>6, <1>7, <1>8, <1>9, <1>10, <1>11, <1>12, <1>13, FlushSteps
       DEF Microtask

LEMMA OneSaveKept ==
    ASSUME TypeOK, FlushOrder, OneSave, Next
    PROVE  OneSave'
<1> USE DEF hookVars, openVars
<1>1. docEpoch \in Nat /\ Len(queue) \in Nat
    BY DEF TypeOK, Epoch
<1>2. CASE UNCHANGED FlushVars
    BY <1>2 DEF OneSave, CurrentFlush, FlushVars
<1>3. ASSUME NEW d \in Doc, DocumentOpened(d)
      PROVE  OneSave'
    BY <1>3 DEF DocumentOpened, OneSave
<1>4. CASE WillSave
    <2>1. [epoch |-> docEpoch, forSave |-> TRUE] \in QueuedFlush
        BY DEF TypeOK, QueuedFlush
    <2>2. ~flush.forSave /\ \A i \in 1..Len(queue) : ~queue[i].forSave
        BY <1>4 DEF WillSave, OneSave
    <2> QED
        BY <1>1, <1>4, <2>1, <2>2, QueueAppend DEF WillSave, OneSave
<1>5. CASE TimerFires
    <2>1. [epoch |-> docEpoch, forSave |-> FALSE] \in QueuedFlush
        BY DEF TypeOK, QueuedFlush
    <2>2. \A i \in 1..Len(queue') : queue'[i].forSave => i \in 1..Len(queue) /\ queue'[i] = queue[i]
        BY <1>1, <1>5, <2>1, QueueAppend DEF TimerFires
    <2> QED
        BY <1>5, <2>2 DEF TimerFires, OneSave, CurrentFlush
<1>6. ASSUME queue # <<>>, flush.pc = "idle"
      PROVE  /\ \A i \in 1..Len(Tail(queue)) : i + 1 \in 1..Len(queue) /\ Tail(queue)[i] = queue[i + 1]
             /\ 1 \in 1..Len(queue) /\ Head(queue) = queue[1] /\ ~flush.forSave
             /\ Head(queue).forSave => \A i \in 1..Len(Tail(queue)) : ~Tail(queue)[i].forSave
    <2>1. /\ \A i \in 1..Len(Tail(queue)) : i + 1 \in 1..Len(queue) /\ Tail(queue)[i] = queue[i + 1]
          /\ 1 \in 1..Len(queue) /\ Head(queue) = queue[1]
        BY <1>6, QueueTail
    <2>2. ~flush.forSave
        BY <1>6 DEF OneSave, CurrentFlush
    <2> QED
        BY <2>1, <2>2 DEF OneSave
<1>7. CASE FlushSkipped
    <2>1. queue' = Tail(queue) /\ queue # <<>> /\ flush.pc = "idle" /\ ~flush'.forSave /\ UNCHANGED docEpoch
        BY <1>7 DEF FlushSkipped, EndFlush, IdleFlush
    <2>2. CASE Head(queue).forSave
        BY <1>6, <2>1, <2>2 DEF OneSave
    <2>3. CASE ~Head(queue).forSave
        <3>1. UNCHANGED hook
            BY <1>7, <2>3 DEF FlushSkipped, EndFlush
        <3> QED
            BY <1>1, <1>6, <2>1, <3>1 DEF OneSave
    <2> QED
        BY <2>2, <2>3
<1>8. CASE FlushStarts
    <2>1. /\ queue' = Tail(queue) /\ queue # <<>> /\ flush.pc = "idle" /\ UNCHANGED <<docEpoch, hook>>
          /\ flush'.forSave = Head(queue).forSave /\ CurrentFlush'
        BY <1>8 DEF FlushStarts, CurrentFlush
    <2>2. CASE Head(queue).forSave
        BY <1>6, <2>1, <2>2 DEF OneSave
    <2>3. CASE ~Head(queue).forSave
        BY <1>1, <1>6, <2>1, <2>3 DEF OneSave
    <2> QED
        BY <2>2, <2>3
<1>9. ASSUME UNCHANGED <<queue, docEpoch>>, EndFlush(flush.forSave)
      PROVE  OneSave'
    BY <1>9 DEF EndFlush, IdleFlush, OneSave
<1>10. ASSUME UNCHANGED <<queue, docEpoch, hook>>, flush'.forSave = flush.forSave,
              flush'.epoch = flush.epoch, flush'.pc # "idle"
       PROVE  OneSave'
    BY <1>10 DEF OneSave, CurrentFlush
<1>11. CASE FlushBuilt
    BY <1>9, <1>10, <1>11, FlushBuiltCases, WriteCases DEF FlushBuilt, TypeOK, RunningFlush
<1>12. CASE FlushProbed
    BY <1>9, <1>10, <1>12, WriteCases DEF FlushProbed
<1>13. CASE WriteRefused \/ StoreRefused \/ FlushWritten
    BY <1>9, <1>13 DEF WriteRefused, StoreRefused, FlushWritten, FlushFails
<1>14. CASE CollectSkipped \/ CollectStarts \/ CollectListed \/ CollectEnds \/ CollectRefused
    BY <1>14 DEF CollectSkipped, CollectStarts, CollectListed, CollectEnds, CollectRefused, EndHook,
                 OneSave
<1>15. ASSUME NEW w \in Builder, HashNext(w) \/ StoreKnown(w) \/ StoreNew(w) \/ PartStored(w)
       PROVE  OneSave'
    BY <1>15 DEF HashNext, StoreKnown, StoreNew, PartStored, OneSave, CurrentFlush
<1> QED
    BY <1>2, <1>3, <1>4, <1>5, <1>7, <1>8, <1>11, <1>12, <1>13, <1>14, <1>15, FlushSteps
       DEF Microtask

-----------------------------------------------------------------------------
(* A flush of the open document runs alone.                                *)

\* Opening a document moves the epoch, and ending a restore clears it.
LEMMA OpenMoves ==
    ASSUME TypeOK, NEW d \in Doc, DocumentOpened(d)
    PROVE  docEpoch' # docEpoch
BY DEF DocumentOpened, TypeOK, Epoch

LEMMA EndMoves ==
    ASSUME TypeOK, NEW k \in Epoch, restores[k] # NoTask, NEW written, EndRestore(k, written)
    PROVE  ~UNCHANGED openVars
<1>1. CASE {n \in Epoch : openers[n] = k} = {}
    BY <1>1 DEF EndRestore, openVars, TypeOK
<1>2. CASE {n \in Epoch : openers[n] = k} # {}
    <2>1. PICK n \in Epoch : openers[n] = k
        BY <1>2
    <2>2. openers'[n] = NoWait /\ k # NoWait
        BY <1>2, <2>1 DEF EndRestore, Epoch
    <2> QED
        BY <2>1, <2>2 DEF openVars
<1> QED
    BY <1>1, <1>2

\* The engine goes down with the session it belongs to only.
LEMMA EngineStays ==
    ASSUME TypeOK, Next, UNCHANGED openVars, engine # Down
    PROVE  engine' # Down
<1> USE DEF bootVars
<1>1. ASSUME Command
      PROVE  engine' # Down
    <2>1. ~\E d \in Doc : DocumentOpened(d)
        BY OpenMoves DEF openVars
    <2> QED
        BY <1>1, <2>1 DEF Command, Define, Remove, Import, BootEngine, WillSave, TypeOK
<1>2. ASSUME Microtask
      PROVE  UNCHANGED engine
    BY <1>2 DEF Microtask, HashNext, FlushSkipped, FlushStarts, FlushBuilt, FlushProbed, WriteRefused,
                FlushFails, CollectSkipped, CollectStarts, CollectListed
<1>3. ASSUME TimerFires
      PROVE  UNCHANGED engine
    BY <1>3 DEF TimerFires
<1>4. ASSUME NEW k \in Epoch, NEW written, EndRestore(k, written),
             At(k, "read") \/ At(k, "boot") \/ At(k, "data")
      PROVE  FALSE
    BY <1>4, EndMoves DEF At
<1>5. ASSUME Reply
      PROVE  engine' # Down
    <2>1. ASSUME NEW k \in Epoch, RestoreRead(k)
          PROVE  engine' # Down
        BY <2>1 DEF RestoreRead, At, TypeOK, RestoreTask, Session
    <2>2. ASSUME EngineUp
          PROVE  engine' # Down
        BY <2>2, NewEngineType DEF EngineUp
    <2> QED
        BY <1>4, <1>5, <2>1, <2>2 DEF Reply, StoreKnown, StoreNew, PartStored, FlushWritten, CollectEnds, DeletePart,
                    EngineBooted, ProbeAnswered, RestoreNothing, RestoreBooted, RestoreEnds, RestoreData
<1>6. ASSUME Refusal
      PROVE  engine' # Down
    BY <1>4, <1>6 DEF Refusal, StoreRefused, FlushFails, CollectRefused, RestoreUnavailable
<1> QED
    BY <1>1, <1>2, <1>3, <1>5, <1>6 DEF Next, CommandStep, MicrotaskStep, TimerStep, ReplyStep,
       RefusalStep

\* Restoring leaves the flushes alone.
LEMMA RestoreFrame ==
    ASSUME TypeOK, NEW k \in Epoch, RestoreStep(k)
    PROVE  /\ restores[k] # NoTask /\ Restoring
           /\ UNCHANGED <<open, disk, parts, boots, timer, queue, flush, building, hook, toDelete, docEpoch>>
<1> USE DEF storeVars, hookVars, At
<1>1. /\ restores[k] # NoTask
      /\ UNCHANGED <<storeVars, boots, timer, queue, flush, hookVars, docEpoch>>
    <2>1. CASE RestoreNothing(k)
        BY <2>1 DEF RestoreNothing
    <2>2. CASE RestoreRead(k)
        BY <2>2 DEF RestoreRead
    <2>3. CASE RestoreBooted(k)
        BY <2>3 DEF RestoreBooted
    <2>4. CASE RestoreEnds(k)
        BY <2>4 DEF RestoreEnds
    <2>5. CASE RestoreUnavailable(k)
        BY <2>5 DEF RestoreUnavailable
    <2>6. CASE \E s \in Source : RestoreData(k, s)
        BY <2>6 DEF RestoreData, bootVars
    <2> QED
        BY <2>1, <2>2, <2>3, <2>4, <2>5, <2>6 DEF RestoreStep
<1> QED
    BY <1>1 DEF Restoring

\* The life of a flush.
LEMMA FlushMoves ==
    ASSUME TypeOK, Next
    PROVE  \/ UNCHANGED flush
           \/ flush' = IdleFlush
           \/ FlushStarts
           \/ /\ flush.pc = "build" /\ flush.epoch = docEpoch /\ Built("flush")
              /\ flush' = [flush EXCEPT !.pc = "probe"]
           \/ /\ \/ flush.pc = "probe"
                 \/ flush.pc = "build" /\ flush.epoch = docEpoch /\ Built("flush")
              /\ flush' = [flush EXCEPT !.pc = "write"]
<1>1. CASE UNCHANGED FlushVars
    BY <1>1 DEF FlushVars
<1>2. ASSUME NEW d \in Doc, DocumentOpened(d)
      PROVE  UNCHANGED flush
    BY <1>2 DEF DocumentOpened
<1>3. CASE WillSave \/ TimerFires
    BY <1>3 DEF WillSave, TimerFires
<1>4. CASE Microtask /\ ~FlushBuilt /\ ~FlushProbed
    BY <1>4 DEF Microtask, HashNext, FlushSkipped, WriteRefused, FlushFails, EndFlush, CollectSkipped,
                CollectStarts, CollectListed
<1>5. CASE FlushBuilt
    <2>1. flush.pc = "build" /\ Built("flush")
        BY <1>5 DEF FlushBuilt
    <2> QED
        BY <1>5, <2>1, FlushBuiltCases, WriteCases DEF EndFlush
<1>6. CASE FlushProbed
    <2>1. flush.pc = "probe" /\ WriteSession
        BY <1>6 DEF FlushProbed
    <2>2. flush' = [flush EXCEPT !.pc = "write"] \/ flush' = IdleFlush
        BY <2>1, WriteCases DEF EndFlush
    <2> QED
        BY <2>1, <2>2
<1>7. CASE (\E w \in Builder : StoreKnown(w) \/ StoreNew(w) \/ PartStored(w)) \/ FlushWritten
           \/ StoreRefused \/ CollectEnds \/ CollectRefused
    BY <1>7 DEF StoreKnown, StoreNew, PartStored, FlushWritten, StoreRefused, FlushFails, EndFlush,
                CollectEnds, CollectRefused
<1> QED
    BY <1>1, <1>2, <1>3, <1>4, <1>5, <1>6, <1>7, FlushSteps

LEMMA FlushAloneKept ==
    ASSUME TypeOK, FlushOrder, FlushAlone, Next
    PROVE  FlushAlone'
<1> USE DEF hookVars
<1>1. docEpoch \in Nat /\ flush.epoch \in Nat
    BY DEF TypeOK, Epoch, RunningFlush
<1>2. ASSUME NEW d \in Doc, DocumentOpened(d)
      PROVE  FlushAlone'
    <2>1. ~CurrentFlush'
        BY <1>1, <1>2 DEF DocumentOpened, FlushOrder, CurrentFlush
    <2>2. Without({"late"})' => flush'.pc \notin {"probe", "write"}
        BY <1>2 DEF DocumentOpened, Disturb, Without, If
    <2> QED
        BY <2>1, <2>2 DEF FlushAlone
<1>3. ASSUME NEW k \in Epoch, RestoreStep(k)
      PROVE  FlushAlone'
    <2>1. Without({"restore"})' => ~CurrentFlush'
        BY <1>3, RestoreFrame, Recorded, NotRecorded DEF FlushAlone, CurrentFlush
    <2>2. Without({"late"})' => (flush'.pc \in {"probe", "write"} => CurrentFlush')
        BY <1>3, RestoreFrame, Recorded, NotRecorded DEF FlushAlone, CurrentFlush
    <2> QED
        BY <2>1, <2>2 DEF FlushAlone
<1>4. CASE UNCHANGED openVars /\ ~FlushStarts
    <2>1. UNCHANGED <<restores, docEpoch>> /\ (Restoring' <=> Restoring)
        BY <1>4 DEF openVars, Restoring
    <2>2. /\ CurrentFlush' => CurrentFlush
          /\ flush'.pc \in {"probe", "write"} =>
                CurrentFlush' \/ (flush.pc \in {"probe", "write"} /\ (CurrentFlush => CurrentFlush'))
        BY <1>1, <1>4, <2>1, FlushMoves DEF CurrentFlush, IdleFlush, TypeOK, RunningFlush
    <2>3. CurrentFlush' => engine' # Down \/ engine = Down
        BY <1>4, EngineStays
    <2> QED
        BY <2>1, <2>2, <2>3, Recorded, NotRecorded DEF FlushAlone, CurrentFlush
<1>5. CASE FlushStarts
    <2>1. Without({"restore"})' => ~Restoring' /\ engine' # Down
        BY <1>5 DEF FlushStarts, Disturb, If, Without, Restoring, openVars, bootVars
    <2>2. flush'.pc = "build"
        BY <1>5 DEF FlushStarts
    <2> QED
        BY <2>1, <2>2 DEF FlushAlone
<1> QED
    BY <1>2, <1>3, <1>4, <1>5, StepKinds

-----------------------------------------------------------------------------
(* What the session part and the builds go through.                        *)

\* Only a flush changes the session part of the open document or remembers it.
LEMMA PartMoves ==
    ASSUME TypeOK, Next, UNCHANGED openVars
    PROVE  \/ /\ parts'.part = parts.part /\ UNCHANGED lastWritten
              /\ flush.pc = "write" \/ flush'.pc = "write" => UNCHANGED flush
           \/ /\ Text # lastWritten /\ parts' = [parts EXCEPT !.part = Text]
              /\ flush.pc = "probe" \/ (flush.pc = "build" /\ flush.epoch = docEpoch)
              /\ flush' = [flush EXCEPT !.pc = "write"] /\ UNCHANGED <<building, lastWritten>>
           \/ FlushWritten
<1> USE DEF storeVars
<1> DEFINE Same == UNCHANGED lastWritten /\ (flush.pc = "write" \/ flush'.pc = "write" => UNCHANGED flush)
<1>1. IdleFlush.pc = "idle"
    BY DEF IdleFlush
<1>2. ASSUME Command
      PROVE  UNCHANGED parts /\ Same
    <2>1. ~\E d \in Doc : DocumentOpened(d)
        BY OpenMoves DEF openVars
    <2> QED
        BY <1>2, <2>1 DEF Command, Define, Remove, Import, BootEngine, WillSave
<1>3. CASE FlushBuilt
    <2>1. flush.pc = "build" /\ UNCHANGED <<building, lastWritten>>
        BY <1>3 DEF FlushBuilt, hookVars
    <2>2. [flush EXCEPT !.pc = "probe"].pc = "probe"
        BY DEF TypeOK, RunningFlush
    <2> QED
        BY <1>1, <1>3, <2>1, <2>2, FlushBuiltCases, WriteCases DEF EndFlush
<1>4. CASE FlushProbed
    <2>1. flush.pc = "probe" /\ WriteSession /\ UNCHANGED <<building, lastWritten>>
        BY <1>4 DEF FlushProbed, hookVars
    <2> QED
        BY <1>1, <2>1, WriteCases DEF EndFlush
<1>5. ASSUME Microtask, ~FlushBuilt, ~FlushProbed
      PROVE  UNCHANGED parts /\ Same
    BY <1>1, <1>5 DEF Microtask, HashNext, FlushSkipped, FlushStarts, WriteRefused, FlushFails,
                EndFlush, CollectSkipped, CollectStarts, CollectListed
<1>6. ASSUME Reply \/ Refusal, ~FlushWritten
      PROVE  parts'.part = parts.part /\ Same
    <2>1. ASSUME NEW k \in Epoch, RestoreStep(k)
          PROVE  UNCHANGED parts /\ Same
        <3>1. ASSUME NEW written, EndRestore(k, written)
              PROVE  FALSE
            BY <2>1, <3>1, RestoreFrame, EndMoves
        <3> QED
            BY <2>1, <3>1, RestoreFrame DEF RestoreStep, RestoreNothing, RestoreRead, RestoreBooted,
                RestoreEnds, RestoreUnavailable, RestoreData
    <2>2. ASSUME NEW s \in Source, DeletePart(s)
          PROVE  parts'.part = parts.part /\ Same
        BY <2>2 DEF DeletePart, TypeOK, Container
    <2>3. ASSUME NEW w \in Builder, StoreNew(w)
          PROVE  parts'.part = parts.part /\ Same
        BY <2>3 DEF StoreNew, TypeOK, Container
    <2> QED
        BY <1>1, <1>6, <2>1, <2>2, <2>3 DEF Reply, Refusal, StoreKnown, PartStored, CollectEnds,
           EngineBooted, ProbeAnswered, StoreRefused, CollectRefused, FlushFails, EndFlush,
           RestoreStep
<1>7. CASE TimerFires
    BY <1>7 DEF TimerFires
<1> QED
    BY <1>2, <1>3, <1>4, <1>5, <1>6, <1>7 DEF Next, CommandStep, MicrotaskStep, TimerStep, ReplyStep,
       RefusalStep

\* What each step of a build does to it.
LEMMA BuildSteps ==
    ASSUME TypeOK, NEW w \in Builder, HashNext(w) \/ StoreKnown(w) \/ StoreNew(w) \/ PartStored(w)
    PROVE  LET b == building[w]
               c == building'[w]
           IN  /\ c.recipe = b.recipe
               /\ \/ /\ HashNext(w) /\ c.hashing \in imported
                     /\ c.stored = b.stored /\ c.writing = b.writing
                  \/ /\ StoreKnown(w) /\ b.hashing \in knownDataParts \cap Source /\ c.hashing = NoFile
                     /\ c.stored = b.stored \cup {b.hashing} /\ c.writing = b.writing
                  \/ /\ StoreNew(w) /\ b.hashing \in Source /\ c.hashing = NoFile
                     /\ c.stored = b.stored /\ c.writing = b.hashing
                  \/ /\ PartStored(w) /\ b.writing \in Source /\ c.hashing = b.hashing
                     /\ c.stored = b.stored \cup {b.writing} /\ c.writing = NoFile
<1>1. building \in [Builder -> Build] /\ building[w] \in Build
    BY DEF TypeOK
<1>2. CASE HashNext(w)
    <2>1. PICK s \in imported : building' = [building EXCEPT ![w].hashing = s]
        BY <1>2 DEF HashNext
    <2>2. building'[w] = [building[w] EXCEPT !.hashing = s]
        BY <1>1, <2>1
    <2> QED
        BY <1>1, <1>2, <2>2 DEF Build
<1>3. CASE StoreKnown(w)
    <2>1. PICK s \in knownDataParts :
              /\ building[w].hashing = s
              /\ building' = [building EXCEPT ![w].stored = @ \cup {s}, ![w].hashing = NoFile]
        BY <1>3 DEF StoreKnown
    <2>2. building'[w] = [building[w] EXCEPT !.stored = @ \cup {s}, !.hashing = NoFile]
        BY <1>1, <2>1
    <2>3. s \in Source
        BY <2>1 DEF TypeOK
    <2> QED
        BY <1>1, <1>3, <2>1, <2>2, <2>3 DEF Build
<1>4. CASE StoreNew(w)
    <2>1. PICK s \in Source :
              /\ building[w].hashing = s
              /\ building' = [building EXCEPT ![w].writing = s, ![w].hashing = NoFile]
        BY <1>4 DEF StoreNew
    <2>2. building'[w] = [building[w] EXCEPT !.writing = s, !.hashing = NoFile]
        BY <1>1, <2>1
    <2> QED
        BY <1>1, <1>4, <2>1, <2>2 DEF Build
<1>5. CASE PartStored(w)
    <2>1. PICK s \in Source : building[w].writing = s
        BY <1>1, <1>5 DEF PartStored, Build
    <2>2. building' = [building EXCEPT ![w].stored = @ \cup {s}, ![w].writing = NoFile]
        BY <1>5, <2>1 DEF PartStored
    <2>3. building'[w] = [building[w] EXCEPT !.stored = @ \cup {s}, !.writing = NoFile]
        BY <1>1, <2>2
    <2> QED
        BY <1>1, <1>5, <2>1, <2>3 DEF Build
<1> QED
    BY <1>2, <1>3, <1>4, <1>5

\* A build is written by its own steps only.
LEMMA BuildMoves ==
    ASSUME TypeOK, Next
    PROVE  \/ building'["flush"] = building["flush"]
           \/ FlushStarts
           \/ HashNext("flush") \/ StoreKnown("flush") \/ StoreNew("flush") \/ PartStored("flush")
<1>1. CASE UNCHANGED FlushVars
    BY <1>1 DEF FlushVars
<1>2. CASE CollectStarts
    BY <1>2 DEF CollectStarts, StartBuild, TypeOK, Builder
<1>3. CASE \/ HashNext("collect") \/ StoreKnown("collect") \/ StoreNew("collect")
           \/ PartStored("collect")
    BY <1>3 DEF HashNext, StoreKnown, StoreNew, PartStored, TypeOK, Builder
<1>4. ASSUME NEW d \in Doc, DocumentOpened(d)
      PROVE  UNCHANGED building
    BY <1>4 DEF DocumentOpened, hookVars
<1>5. CASE WillSave \/ TimerFires
    BY <1>5 DEF WillSave, TimerFires, hookVars
<1>6. ASSUME Microtask, ~CollectStarts, ~FlushStarts, ~\E w \in Builder : HashNext(w)
      PROVE  UNCHANGED building
    BY <1>6 DEF Microtask, FlushSkipped, FlushBuilt, FlushProbed, WriteRefused, FlushFails,
                CollectSkipped, CollectListed, hookVars
<1>7. CASE FlushWritten \/ StoreRefused \/ CollectEnds \/ CollectRefused
    BY <1>7 DEF FlushWritten, StoreRefused, FlushFails, CollectEnds, CollectRefused
<1> QED
    BY <1>1, <1>2, <1>3, <1>4, <1>5, <1>6, <1>7, FlushSteps DEF Builder

-----------------------------------------------------------------------------
(* What the session remembers of the part.                                 *)

LEMMA PartKnownKept ==
    ASSUME TypeOK, OneRestore, FlushOrder, FlushAlone, PartKnown, Next
    PROVE  PartKnown'
<1> DEFINE Quiet == Without({"late", "restore", "twice"})
<1> SUFFICES ASSUME Quiet'
             PROVE  PartKnown'
    BY DEF PartKnown
<1>1. /\ Quiet /\ Without({"twice"})
      /\ CurrentFlush => ~Restoring
      /\ flush.pc \in {"probe", "write"} => CurrentFlush
    BY Recorded DEF Without, FlushAlone
<1>2. ASSUME NEW d \in Doc, DocumentOpened(d)
      PROVE  PartKnown'
    <2>1. ~Waiting /\ flush'.pc # "write" /\ docEpoch' \in Epoch
        <3>1. ~Waiting /\ flush.pc \notin {"probe", "write"} /\ UNCHANGED flush
            BY <1>2 DEF DocumentOpened, Disturb, If, Without, Waiting
        <3>2. docEpoch' \in Epoch
            BY <1>2 DEF DocumentOpened, TypeOK, Epoch
        <3> QED
            BY <3>1, <3>2
    <2>2. CASE restores[restorePromise] # NoTask
        <3>1. Waiting'
            BY <1>2, <2>1, <2>2 DEF DocumentOpened, Waiting, TypeOK, Epoch
        <3>2. (Restoring' => Restoring) /\ UNCHANGED lastWritten /\ Restoring
            BY <1>2, <2>2 DEF DocumentOpened, Restoring, TypeOK
        <3> QED
            BY <1>1, <2>1, <3>1, <3>2 DEF PartKnown
    <2>3. CASE restores[restorePromise] = NoTask
        <3>1. /\ lastWritten' = NoPart
              /\ restores' = [restores EXCEPT ![docEpoch'] = ReadTask(disk[d])] /\ parts' = disk[d]
            BY <1>2, <2>3 DEF DocumentOpened, ResetState
        <3>2. \A k \in Epoch : restores'[k] # NoTask => restores'[k].saved = parts'.part
            BY <1>1, <2>1, <2>3, <3>1 DEF OneRestore, TypeOK, ReadTask
        <3> QED
            BY <2>1, <3>1, <3>2 DEF PartKnown
    <2> QED
        BY <2>2, <2>3
<1>3. ASSUME NEW k \in Epoch, RestoreStep(k)
      PROVE  PartKnown'
    <2>1. /\ Restoring /\ restores[k] # NoTask /\ flush'.pc # "write" /\ UNCHANGED <<parts, flush>>
          /\ lastWritten = NoPart
        BY <1>1, <1>3, RestoreFrame DEF PartKnown
    <2>2. ASSUME NEW written, EndRestore(k, written), written = lastWritten \/ written = restores[k].saved
          PROVE  PartKnown'
        <3>1. CASE Waiting /\ ResetState
            <4>1. \A n \in Epoch : restores'[n] # NoTask => restores'[n].saved = parts'.part
                BY <1>1, <2>1, <2>2, <3>1, RestoreOutcome DEF ReadTask
            <4> QED
                BY <2>1, <3>1, <4>1 DEF PartKnown, ResetState
        <3>2. CASE ~Waiting /\ lastWritten' = written /\ \A n \in Epoch : restores'[n] = NoTask
            <4>1. restores[k].saved = parts.part
                BY <1>1, <2>1, <3>2 DEF PartKnown
            <4> QED
                BY <2>1, <2>2, <3>2, <4>1 DEF PartKnown, Restoring
        <3> QED
            BY <1>1, <2>1, <2>2, <3>1, <3>2, RestoreOutcome
    <2>3. ASSUME RestoreRead(k) \/ RestoreBooted(k) \/ \E s \in Source : RestoreData(k, s)
          PROVE  PartKnown'
        <3>1. (Waiting' <=> Waiting) /\ UNCHANGED lastWritten
            BY <2>3, RestoreGoesOn DEF Waiting
        <3>2. ~Waiting => \A n \in Epoch : restores'[n] # NoTask => restores'[n].saved = parts'.part
            BY <1>1, <2>1, <2>3, RestoreGoesOn DEF PartKnown
        <3> QED
            BY <2>1, <3>1, <3>2 DEF PartKnown
    <2> QED
        BY <1>3, <2>2, <2>3 DEF RestoreStep, RestoreNothing, RestoreEnds, RestoreUnavailable
<1>4. CASE UNCHANGED openVars
    <2>1. (Waiting' <=> Waiting) /\ (Restoring' <=> Restoring) /\ UNCHANGED restores
        BY <1>4 DEF openVars, Waiting, Restoring
    <2>2. CASE /\ parts'.part = parts.part /\ UNCHANGED lastWritten
               /\ flush.pc = "write" \/ flush'.pc = "write" => UNCHANGED flush
        <3>1. flush.pc = "write" => UNCHANGED Text
            BY BuildMoves DEF FlushStarts, HashNext, BetweenFiles, StoreKnown, StoreNew, PartStored,
                              Building, FlushOrder, Text
        <3> QED
            BY <1>1, <2>1, <2>2, <3>1 DEF PartKnown
    <2>3. CASE /\ parts' = [parts EXCEPT !.part = Text]
               /\ flush.pc = "probe" \/ (flush.pc = "build" /\ flush.epoch = docEpoch)
               /\ flush' = [flush EXCEPT !.pc = "write"] /\ UNCHANGED <<building, lastWritten>>
        <3>1. ~Restoring
            BY <1>1, <2>3 DEF CurrentFlush
        <3>2. flush'.pc = "write" /\ parts'.part = Text /\ UNCHANGED Text
            BY <2>3 DEF TypeOK, RunningFlush, Container, Text
        <3> QED
            BY <2>1, <3>1, <3>2 DEF PartKnown, Restoring
    <2>4. CASE FlushWritten
        <3>1. ~Restoring /\ parts.part = Text
            BY <1>1, <2>4 DEF FlushWritten, CurrentFlush, PartKnown
        <3>2. UNCHANGED parts /\ lastWritten' = Text /\ flush' = IdleFlush
            BY <2>4 DEF FlushWritten, EndFlush, storeVars
        <3> QED
            BY <2>1, <3>1, <3>2 DEF PartKnown, Restoring, IdleFlush
    <2> QED
        BY <1>4, <2>2, <2>3, <2>4, PartMoves
<1> QED
    BY <1>2, <1>3, <1>4, StepKinds

-----------------------------------------------------------------------------
(* Whose bindings are where.                                               *)

\* A document is saved as the hook ends, and opened by documentOpened only.
LEMMA DiskMoves ==
    ASSUME Next
    PROVE  /\ UNCHANGED open \/ \E d \in Doc : DocumentOpened(d)
           /\ \/ UNCHANGED disk
              \/ CollectSkipped \/ CollectEnds \/ CollectRefused
<1> USE DEF storeVars
<1>1. ASSUME Command
      PROVE  UNCHANGED disk /\ (UNCHANGED open \/ \E d \in Doc : DocumentOpened(d))
    BY <1>1 DEF Command, Define, Remove, Import, BootEngine, WillSave, DocumentOpened
<1>2. ASSUME Microtask \/ TimerFires
      PROVE  UNCHANGED open /\ (UNCHANGED disk \/ CollectSkipped)
    BY <1>2 DEF Microtask, HashNext, FlushSkipped, FlushStarts, FlushBuilt, FlushProbed, WriteRefused,
                FlushFails, CollectSkipped, CollectStarts, CollectListed, TimerFires
<1>3. ASSUME Reply
      PROVE  UNCHANGED open /\ (UNCHANGED disk \/ CollectEnds)
    BY <1>3 DEF Reply, StoreKnown, StoreNew, PartStored, FlushWritten, CollectEnds, DeletePart,
                EngineBooted, ProbeAnswered, RestoreNothing, RestoreRead, RestoreBooted,
                RestoreEnds, RestoreData
<1>4. ASSUME Refusal
      PROVE  UNCHANGED open /\ (UNCHANGED disk \/ CollectRefused)
    BY <1>4 DEF Refusal, StoreRefused, FlushFails, CollectRefused, RestoreUnavailable
<1> QED
    BY <1>1, <1>2, <1>3, <1>4 DEF Next, CommandStep, MicrotaskStep, TimerStep, ReplyStep,
       RefusalStep

\* Definitions reach the engine by a command or by its boot.
LEMMA EngineMoves ==
    ASSUME Next
    PROVE  \/ UNCHANGED <<engine, pendingDefs, bootPayload, listed>>
           \/ \E b \in Binding : Define(b) \/ Remove(b)
           \/ EngineBooted
           \/ \E d \in Doc : DocumentOpened(d)
           \/ \E k \in Epoch : RestoreStep(k)
<1> USE DEF bootVars
<1>1. ASSUME Command
      PROVE  \/ UNCHANGED <<engine, pendingDefs, bootPayload, listed>>
             \/ \E b \in Binding : Define(b) \/ Remove(b)
             \/ \E d \in Doc : DocumentOpened(d)
    BY <1>1 DEF Command, Import, BootEngine, WillSave
<1>2. ASSUME Microtask \/ TimerFires
      PROVE  UNCHANGED <<engine, pendingDefs, bootPayload, listed>>
    BY <1>2 DEF Microtask, HashNext, FlushSkipped, FlushStarts, FlushBuilt, FlushProbed, WriteRefused,
                FlushFails, CollectSkipped, CollectStarts, CollectListed, TimerFires
<1>3. ASSUME Reply \/ Refusal
      PROVE  \/ UNCHANGED <<engine, pendingDefs, bootPayload, listed>>
             \/ EngineBooted \/ \E k \in Epoch : RestoreStep(k)
    BY <1>3 DEF Reply, StoreKnown, StoreNew, PartStored, FlushWritten, CollectEnds, DeletePart,
                ProbeAnswered, RestoreStep, Refusal, StoreRefused, FlushFails, CollectRefused
<1> QED
    BY <1>1, <1>2, <1>3 DEF Next, CommandStep, MicrotaskStep, TimerStep, ReplyStep, RefusalStep

LEMMA OwnBindingsKept ==
    ASSUME TypeOK, OneRestore, FlushOrder, FlushAlone, PartKnown, OwnBindings, Next
    PROVE  OwnBindings'
<1> DEFINE Quiet == Without({"late", "restore", "twice"})
<1> SUFFICES ASSUME Quiet'
             PROVE  OwnBindings'
    BY DEF OwnBindings
<1>1. /\ Quiet /\ Without({"twice"})
      /\ CurrentFlush => ~Restoring
      /\ flush.pc \in {"probe", "write"} => CurrentFlush
    BY Recorded DEF Without, FlushAlone
<1>2. /\ open \in Doc /\ docEpoch \in Nat /\ flush.epoch \in Nat
      /\ \A d \in Doc : SavedRecipe(disk[d]) \subseteq Of(d)
      /\ SavedRecipe(parts) \subseteq Of(open)
    BY <1>1 DEF OwnBindings, TypeOK, Epoch, RunningFlush
<1>3. ASSUME NEW d \in Doc, DocumentOpened(d)
      PROVE  OwnBindings'
    <2>1. parts' = disk[d] /\ open' = d /\ UNCHANGED disk /\ ~CurrentFlush'
        BY <1>2, <1>3 DEF DocumentOpened, FlushOrder, CurrentFlush
    <2>2. Waiting' \/ (engine' = Down /\ pendingDefs' = {} /\ bootPayload' = NoRecipe)
        <3>1. CASE restores[restorePromise] # NoTask
            BY <1>3, <3>1 DEF DocumentOpened, Waiting, TypeOK, Epoch
        <3>2. CASE restores[restorePromise] = NoTask
            BY <1>3, <3>2 DEF DocumentOpened, ResetState
        <3> QED
            BY <3>1, <3>2
    <2>3. SavedRecipe(parts') \subseteq Of(d)
        BY <1>2, <2>1
    <2> QED
        BY <1>2, <2>1, <2>2, <2>3 DEF OwnBindings, SavedRecipe
<1>4. ASSUME NEW k \in Epoch, RestoreStep(k)
      PROVE  OwnBindings'
    <2>1. /\ restores[k] # NoTask /\ UNCHANGED <<open, disk, parts>> /\ ~CurrentFlush'
        BY <1>1, <1>4, RestoreFrame DEF CurrentFlush
    <2>2. ASSUME ~Waiting'
          PROVE  /\ engine' # Down => engine' \subseteq Of(open)
                 /\ pendingDefs' \subseteq Of(open)
                 /\ bootPayload' # NoRecipe => bootPayload' \subseteq Of(open)
        <3>1. CASE \E written : EndRestore(k, written)
            BY <1>1, <2>1, <3>1, RestoreOutcome DEF OwnBindings, ResetState
        <3>2. CASE RestoreRead(k) \/ RestoreBooted(k) \/ \E s \in Source : RestoreData(k, s)
            <4>1. ~Waiting /\ restores[k].saved = parts.part
                BY <1>1, <2>1, <2>2, <3>2, RestoreGoesOn DEF Waiting, PartKnown
            <4>2. /\ engine # Down => engine \subseteq Of(open)
                  /\ pendingDefs \subseteq Of(open)
                  /\ bootPayload # NoRecipe => bootPayload \subseteq Of(open)
                BY <1>1, <4>1 DEF OwnBindings
            <4>3. CASE RestoreRead(k)
                BY <1>2, <4>1, <4>2, <4>3 DEF RestoreRead, SavedRecipe
            <4>4. CASE RestoreBooted(k)
                BY <4>2, <4>4 DEF RestoreBooted, EngineUp, NewEngine
            <4>5. CASE \E s \in Source : RestoreData(k, s)
                BY <4>2, <4>5 DEF RestoreData, bootVars
            <4> QED
                BY <3>2, <4>3, <4>4, <4>5
        <3> QED
            BY <1>4, <3>1, <3>2 DEF RestoreStep, RestoreNothing, RestoreEnds, RestoreUnavailable
    <2> QED
        BY <1>2, <2>1, <2>2 DEF OwnBindings, SavedRecipe
<1>5. ASSUME ~\E d \in Doc : DocumentOpened(d), ~\E k \in Epoch : RestoreStep(k)
      PROVE  OwnBindings'
    <2>1. UNCHANGED openVars /\ UNCHANGED open /\ (Waiting' <=> Waiting)
        BY <1>5, StepKinds, DiskMoves DEF openVars, Waiting
    <2>2. \A d \in Doc : SavedRecipe(disk'[d]) \subseteq Of(d)
        <3>1. CASE UNCHANGED disk
            BY <1>2, <3>1
        <3>2. CASE CollectSkipped \/ CollectEnds \/ CollectRefused
            <4>1. disk' = [disk EXCEPT ![open] = parts]
                BY <3>2 DEF CollectSkipped, CollectEnds, CollectRefused, EndHook
            <4>2. \A d \in Doc : disk'[d] = IF d = open THEN parts ELSE disk[d]
                BY <4>1 DEF TypeOK
            <4> QED
                BY <1>2, <4>2
        <3> QED
            BY <3>1, <3>2, DiskMoves
    <2>3. SavedRecipe(parts') \subseteq Of(open)
        <3>1. CASE parts'.part = parts.part
            BY <1>2, <3>1 DEF SavedRecipe
        <3>2. CASE /\ parts' = [parts EXCEPT !.part = Text]
                   /\ flush.pc = "probe" \/ (flush.pc = "build" /\ flush.epoch = docEpoch)
            <4>1. CurrentFlush
                BY <1>1, <3>2 DEF CurrentFlush
            <4>2. building["flush"].recipe \subseteq Of(open)
                BY <1>1, <4>1 DEF OwnBindings
            <4> QED
                BY <3>2, <4>2 DEF SavedRecipe, Text, TypeOK, Container
        <3> QED
            BY <2>1, <3>1, <3>2, PartMoves DEF FlushWritten, storeVars
    <2>4. CurrentFlush' => building'["flush"].recipe \subseteq Of(open)
        <3>1. CASE FlushStarts
            <4>1. ~Restoring /\ engine # Down
                BY <1>1, <3>1 DEF FlushStarts, Disturb, If, Without
            <4>2. ~Waiting
                BY <1>1, <4>1 DEF OneRestore, Waiting, Restoring, TypeOK
            <4>3. building'["flush"].recipe = engine
                BY <3>1 DEF FlushStarts, StartBuild, FreshBuild, TypeOK, Builder
            <4> QED
                BY <1>1, <4>1, <4>2, <4>3 DEF OwnBindings
        <3>2. CASE ~FlushStarts
            <4>1. CurrentFlush' => CurrentFlush
                BY <1>2, <2>1, <3>2, FlushMoves DEF CurrentFlush, IdleFlush, TypeOK, RunningFlush, openVars
            <4>2. building'["flush"].recipe = building["flush"].recipe
                BY <3>2, BuildMoves, BuildSteps DEF Builder
            <4> QED
                BY <1>1, <4>1, <4>2 DEF OwnBindings
        <3> QED
            BY <3>1, <3>2
    <2>5. ASSUME ~Waiting
          PROVE  /\ engine' # Down => engine' \subseteq Of(open)
                 /\ pendingDefs' \subseteq Of(open)
                 /\ bootPayload' # NoRecipe => bootPayload' \subseteq Of(open)
        <3>1. /\ engine # Down => engine \subseteq Of(open)
              /\ pendingDefs \subseteq Of(open)
              /\ bootPayload # NoRecipe => bootPayload \subseteq Of(open)
            BY <1>1, <2>5 DEF OwnBindings
        <3>2. ASSUME NEW b \in Binding, Define(b)
              PROVE  /\ engine' # Down => engine' \subseteq Of(open)
                     /\ pendingDefs' \subseteq Of(open)
                     /\ bootPayload' # NoRecipe => bootPayload' \subseteq Of(open)
            BY <3>1, <3>2 DEF Define, Of
        <3>3. ASSUME NEW b \in Binding, Remove(b)
              PROVE  /\ engine' # Down => engine' \subseteq Of(open)
                     /\ pendingDefs' \subseteq Of(open)
                     /\ bootPayload' # NoRecipe => bootPayload' \subseteq Of(open)
            BY <3>1, <3>3 DEF Remove
        <3>4. CASE EngineBooted
            BY <3>1, <3>4 DEF EngineBooted, EngineUp, NewEngine
        <3> QED
            BY <1>5, <3>1, <3>2, <3>3, <3>4, EngineMoves
    <2> QED
        BY <2>1, <2>2, <2>3, <2>4, <2>5 DEF OwnBindings, SavedRecipe
<1> QED
    BY <1>3, <1>4, <1>5

-----------------------------------------------------------------------------
(* The engine and the panels.                                              *)

LEMMA EnginePhaseKept ==
    ASSUME TypeOK, OneRestore, EnginePhase, Next
    PROVE  EnginePhase'
<1> DEFINE Quiet == Without({"ghost", "boot", "restore", "twice", "unavailable"})
<1> SUFFICES ASSUME Quiet', ~Waiting'
             PROVE  EnginePhase'
    BY DEF EnginePhase
<1>1. Quiet /\ Without({"twice"})
    BY Recorded DEF Without
<1> USE DEF Restoring
<1>2. ASSUME NEW d \in Doc, DocumentOpened(d)
      PROVE  EnginePhase'
    <2>1. restores[restorePromise] = NoTask
        <3>1. CASE restores[restorePromise] # NoTask
            BY <1>2, <3>1 DEF DocumentOpened, Waiting, TypeOK, Epoch
        <3> QED
            BY <3>1
    <2>2. /\ ResetState /\ docEpoch' \in Epoch
          /\ restores' = [restores EXCEPT ![docEpoch'] = ReadTask(disk[d])]
        BY <1>2, <2>1 DEF DocumentOpened, TypeOK, Epoch
    <2>3. /\ restores'[docEpoch'] = ReadTask(disk[d]) /\ ReadTask(disk[d]) # NoTask
          /\ \A k \in Epoch : k # docEpoch' => restores'[k] = NoTask
        BY <1>1, <2>1, <2>2 DEF OneRestore, TypeOK, ReadTask, RestoreTask, Container
    <2>4. \A k \in Epoch : restores'[k] # NoTask => restores'[k].pc = "read"
        BY <2>3 DEF ReadTask
    <2> QED
        BY <2>2, <2>3, <2>4 DEF EnginePhase, At, ResetState
<1>3. ASSUME NEW k \in Epoch, RestoreStep(k)
      PROVE  EnginePhase'
    <2>1. restores[k] # NoTask /\ k = restorePromise
        BY <1>1, <1>3, RestoreFrame DEF OneRestore
    <2>2. ASSUME RestoreNothing(k) \/ RestoreEnds(k)
          PROVE  EnginePhase'
        <3>1. PICK written : EndRestore(k, written)
            BY <2>2 DEF RestoreNothing, RestoreEnds
        <3>2. CASE Waiting /\ ResetState
            <4>1. \A n \in Epoch : restores'[n] # NoTask => n = docEpoch /\ restores'[n].pc = "read"
                BY <1>1, <2>1, <3>1, <3>2, RestoreOutcome DEF ReadTask
            <4>2. restores'[docEpoch] # NoTask /\ docEpoch \in Epoch
                BY <1>1, <2>1, <3>1, <3>2, RestoreOutcome DEF ReadTask, RestoreTask, TypeOK, Container
            <4> QED
                BY <3>2, <4>1, <4>2 DEF EnginePhase, At, ResetState
        <3>3. CASE ~Waiting
            <4>1. /\ UNCHANGED <<engine, pendingDefs, bootPayload, listed>>
                  /\ \A n \in Epoch : restores'[n] = NoTask
                BY <1>1, <2>1, <3>1, <3>3, RestoreOutcome
            <4>2. At(k, "read") \/ At(k, "data")
                BY <2>2 DEF RestoreNothing, RestoreEnds
            <4>3. /\ bootPayload = NoRecipe
                  /\ engine = Down => listed = pendingDefs
                  /\ engine # Down => engine = listed /\ pendingDefs = {}
                BY <1>1, <3>3, <4>2 DEF EnginePhase
            <4> QED
                BY <4>1, <4>3 DEF EnginePhase, At
        <3> QED
            BY <1>1, <2>1, <3>1, <3>2, <3>3, RestoreOutcome
    <2>3. ASSUME RestoreUnavailable(k)
          PROVE  FALSE
        BY <2>3 DEF RestoreUnavailable, Disturb, Without
    <2>4. ASSUME RestoreRead(k) \/ RestoreBooted(k) \/ \E s \in Source : RestoreData(k, s)
          PROVE  EnginePhase'
        <3>1. /\ ~Waiting /\ restores'[k] # NoTask
              /\ \A n \in Epoch \ {k} : restores'[n] = NoTask
            BY <1>1, <2>1, <2>4, RestoreGoesOn DEF Waiting, OneRestore
        <3>2. CASE RestoreRead(k)
            <4>1. bootPayload = NoRecipe /\ pendingDefs = {} /\ listed = {}
                BY <1>1, <3>1, <3>2 DEF EnginePhase, RestoreRead
            <4>2. CASE engine = Down
                <5>1. restores'[k].pc = "boot" /\ UNCHANGED <<pendingDefs, listed>>
                    BY <3>2, <4>2 DEF RestoreRead, At, TypeOK, RestoreTask
                <5> QED
                    BY <3>1, <4>1, <5>1 DEF EnginePhase, At
            <4>3. CASE engine # Down
                <5>1. /\ restores'[k].pc = "data" /\ UNCHANGED pendingDefs
                      /\ bootPayload' = NoRecipe /\ engine' = restores[k].saved.recipe
                      /\ listed' = restores[k].saved.recipe
                    BY <3>2, <4>1, <4>3 DEF RestoreRead, At, TypeOK, RestoreTask
                <5>2. restores[k].saved \in Session
                    BY <2>1, <3>2 DEF RestoreRead, TypeOK, RestoreTask
                <5> QED
                    BY <3>1, <4>1, <5>1, <5>2 DEF EnginePhase, At, Session
            <4> QED
                BY <4>2, <4>3
        <3>3. CASE RestoreBooted(k)
            <4>1. restores'[k].pc = "data"
                BY <3>3 DEF RestoreBooted, At, TypeOK, RestoreTask
            <4>2. engine = Down /\ pendingDefs = {} /\ listed = {}
                BY <1>1, <3>1, <3>3 DEF EnginePhase, RestoreBooted, EngineUp, Disturb, If, Without
            <4>3. engine' = NewEngine /\ listed' = NewEngine /\ bootPayload' = NoRecipe /\ pendingDefs' = {}
                BY <3>3, <4>2 DEF RestoreBooted, EngineUp
            <4> QED
                BY <3>1, <4>1, <4>3, NewEngineType DEF EnginePhase, At
        <3>4. CASE \E s \in Source : RestoreData(k, s)
            <4>1. restores'[k].pc = restores[k].pc /\ UNCHANGED <<engine, pendingDefs, bootPayload, listed>>
                BY <3>4 DEF RestoreData, At, TypeOK, RestoreTask, bootVars
            <4> QED
                BY <1>1, <2>1, <3>1, <4>1 DEF EnginePhase, At
        <3> QED
            BY <2>4, <3>2, <3>3, <3>4
    <2> QED
        BY <1>3, <2>2, <2>3, <2>4 DEF RestoreStep
<1>4. ASSUME ~\E d \in Doc : DocumentOpened(d), ~\E k \in Epoch : RestoreStep(k)
      PROVE  EnginePhase'
    <2>1. UNCHANGED <<restores, openers>> /\ ~Waiting
        BY <1>4, StepKinds DEF openVars, Waiting
    <2>2. ASSUME UNCHANGED <<engine, pendingDefs, bootPayload, listed>>
          PROVE  EnginePhase'
        BY <1>1, <2>1, <2>2 DEF EnginePhase, At
    <2>3. ASSUME NEW b \in Binding, Define(b) \/ Remove(b)
          PROVE  EnginePhase'
        <3>1. ~Restoring /\ (Remove(b) => b \notin pendingDefs)
            BY <2>3 DEF Define, Remove, Disturb, If, Without
        <3>2. UNCHANGED bootPayload
            BY <2>3 DEF Define, Remove
        <3>3. /\ engine' = Down => listed' = pendingDefs'
              /\ engine' # Down => engine' = listed' /\ pendingDefs' = {}
            BY <1>1, <2>1, <2>3, <3>1 DEF EnginePhase, Define, Remove, TypeOK
        <3> QED
            BY <1>1, <2>1, <3>1, <3>2, <3>3 DEF EnginePhase, At
    <2>4. ASSUME EngineBooted
          PROVE  EnginePhase'
        <3>1. engine = Down /\ engine' = NewEngine /\ bootPayload' = NoRecipe /\ pendingDefs' = {} /\ UNCHANGED listed
            BY <2>4 DEF EngineBooted, EngineUp, Disturb, If, Without
        <3>2. \A k \in Epoch : At(k, "read") => NewEngine = {} /\ listed = {}
            BY <1>1, <2>1 DEF EnginePhase, NewEngine
        <3>3. ~Restoring => NewEngine = listed
            BY <1>1, <2>1, <3>1 DEF EnginePhase, NewEngine
        <3>4. \A k \in Epoch : ~At(k, "data")
            BY <1>1, <2>1, <3>1 DEF EnginePhase
        <3>5. \A k \in Epoch : At(k, "boot") => listed = {}
            BY <1>1, <2>1 DEF EnginePhase
        <3> QED
            BY <2>1, <3>1, <3>2, <3>3, <3>4, <3>5, NewEngineType DEF EnginePhase, At
    <2> QED
        BY <1>4, <2>2, <2>3, <2>4, EngineMoves
<1> QED
    BY <1>2, <1>3, <1>4

-----------------------------------------------------------------------------
(* What a save names, while it is under way.                               *)

\* The hook's own flush is over: refused, dropped, or with its text in the part.
SaveFlushEnds ==
    /\ flush.forSave /\ flush.pc # "idle" /\ hook' = "flushed" /\ flush' = IdleFlush
    /\ UNCHANGED parts
    /\ \/ "refused" \in disturbed' \/ flush.epoch # docEpoch
       \/ flush.pc = "write"
       \/ flush.pc = "probe" /\ Text = lastWritten
       \/ flush.pc = "build" /\ Text = lastWritten /\ imported \subseteq building["flush"].stored

\* The steps that change the hook and what it is to delete.
LEMMA HookMoves ==
    ASSUME TypeOK, Next
    PROVE  \/ UNCHANGED <<hook, toDelete>>
           \/ hook = "idle" /\ hook' = "flush"
           \/ SaveFlushEnds
           \/ FlushSkipped /\ Head(queue).forSave /\ hook' = "flushed" /\ flush' = IdleFlush
           \/ CollectStarts \/ CollectListed
           \/ \E s \in Source : DeletePart(s)
           \/ (CollectSkipped \/ CollectEnds \/ CollectRefused) /\ hook' = "idle"
<1> USE DEF hookVars, EndHook
<1>1. ASSUME Command
      PROVE  UNCHANGED <<hook, toDelete>> \/ (hook = "idle" /\ hook' = "flush")
    BY <1>1 DEF Command, Define, Remove, Import, BootEngine, WillSave, DocumentOpened
<1>2. CASE FlushBuilt
    <2>1. flush.pc = "build" /\ imported \subseteq building["flush"].stored /\ UNCHANGED toDelete
        BY <1>2 DEF FlushBuilt, Built
    <2> QED
        BY <1>2, <2>1, FlushBuiltCases, WriteCases DEF EndFlush, SaveFlushEnds
<1>3. CASE FlushProbed
    <2>1. flush.pc = "probe" /\ WriteSession /\ UNCHANGED toDelete
        BY <1>3 DEF FlushProbed
    <2> QED
        BY <2>1, WriteCases DEF EndFlush, SaveFlushEnds
<1>4. CASE WriteRefused \/ StoreRefused \/ FlushWritten
    <2>1. EndFlush(flush.forSave) /\ UNCHANGED <<parts, toDelete>> /\ flush.pc # "idle"
        BY <1>4 DEF WriteRefused, StoreRefused, FlushWritten, FlushFails, storeVars
    <2>2. "refused" \in disturbed' \/ flush.pc = "write"
        BY <1>4 DEF WriteRefused, StoreRefused, FlushWritten, FlushFails, Disturb
    <2> QED
        BY <2>1, <2>2 DEF EndFlush, SaveFlushEnds
<1>5. CASE FlushSkipped
    BY <1>5 DEF FlushSkipped, EndFlush
<1>6. ASSUME Microtask \/ TimerFires, ~FlushBuilt, ~FlushProbed, ~WriteRefused, ~FlushSkipped
      PROVE  \/ UNCHANGED <<hook, toDelete>> \/ CollectStarts \/ CollectListed
             \/ CollectSkipped /\ hook' = "idle"
    BY <1>6 DEF Microtask, HashNext, FlushStarts, CollectSkipped, TimerFires
<1>7. ASSUME Reply \/ Refusal, ~FlushWritten, ~StoreRefused
      PROVE  \/ UNCHANGED <<hook, toDelete>> \/ \E s \in Source : DeletePart(s)
             \/ (CollectEnds \/ CollectRefused) /\ hook' = "idle"
    <2>1. ASSUME NEW k \in Epoch, RestoreStep(k)
          PROVE  UNCHANGED <<hook, toDelete>>
        BY <2>1, RestoreFrame
    <2> QED
        BY <1>7, <2>1 DEF Reply, Refusal, StoreKnown, StoreNew, PartStored, CollectEnds, EngineBooted,
           ProbeAnswered, CollectRefused, RestoreStep
<1> QED
    BY <1>1, <1>2, <1>3, <1>4, <1>5, <1>6, <1>7 DEF Next, CommandStep, MicrotaskStep, TimerStep,
       ReplyStep, RefusalStep

\* The files imported change with an import, a restore, or another document.
LEMMA ImportMoves ==
    ASSUME Next
    PROVE  \/ UNCHANGED imported
           \/ \E s \in Source, old \in SUBSET imported : Import(s, old)
           \/ \E d \in Doc : DocumentOpened(d)
           \/ \E k \in Epoch : RestoreStep(k)
<1> USE DEF dataVars
<1>1. ASSUME Command
      PROVE  \/ UNCHANGED imported
             \/ \E s \in Source, old \in SUBSET imported : Import(s, old)
             \/ \E d \in Doc : DocumentOpened(d)
    BY <1>1 DEF Command, Define, Remove, BootEngine, WillSave
<1>2. ASSUME Microtask \/ TimerFires
      PROVE  UNCHANGED imported
    BY <1>2 DEF Microtask, HashNext, FlushSkipped, FlushStarts, FlushBuilt, FlushProbed, WriteRefused,
                FlushFails, CollectSkipped, CollectStarts, CollectListed, TimerFires
<1>3. ASSUME Reply \/ Refusal
      PROVE  UNCHANGED imported \/ \E k \in Epoch : RestoreStep(k)
    BY <1>3 DEF Reply, StoreKnown, StoreNew, PartStored, FlushWritten, CollectEnds, DeletePart,
                EngineBooted, ProbeAnswered, RestoreStep, Refusal, StoreRefused, FlushFails,
                CollectRefused
<1> QED
    BY <1>1, <1>2, <1>3 DEF Next, CommandStep, MicrotaskStep, TimerStep, ReplyStep, RefusalStep

\* When the hook goes on, nothing else does.
LEMMA HookFirst ==
    ASSUME Next, hook = "flushed"
    PROVE  UNCHANGED <<engine, pendingDefs, bootPayload, listed, imported>>
<1>1. Microtask
    BY DEF Next, MicrotaskDue, CommandStep, MicrotaskStep, TimerStep, ReplyStep, RefusalStep
<1> QED
    BY <1>1 DEF Microtask, HashNext, FlushSkipped, FlushStarts, FlushBuilt, FlushProbed, WriteRefused,
       FlushFails, CollectSkipped, CollectStarts, CollectListed, bootVars, dataVars

\* A flush that goes on is the same flush.
LEMMA FlushSame ==
    ASSUME TypeOK, Next, ~FlushStarts, flush'.pc # "idle"
    PROVE  /\ flush.pc # "idle" /\ flush'.epoch = flush.epoch /\ flush'.forSave = flush.forSave
           /\ \/ UNCHANGED flush
              \/ flush.pc = "probe" \/ (flush.pc = "build" /\ flush.epoch = docEpoch)
BY FlushMoves DEF IdleFlush, TypeOK, RunningFlush

\* The flush and the collection of a save go on from step to step.
LEMMA HookGoesOn ==
    ASSUME TypeOK, OneSave, Next, UNCHANGED openVars
    PROVE  /\ HookFlush' /\ ~FlushStarts => HookFlush
           /\ Flushed' /\ ~SaveFlushEnds => Flushed
<1>1. ASSUME HookFlush', ~FlushStarts
      PROVE  HookFlush
    <2>1. flush.pc # "idle" /\ flush'.forSave = flush.forSave
        BY <1>1, FlushSame DEF HookFlush
    <2>2. AfterFlush' => AfterFlush
        BY <1>1, HookMoves DEF HookFlush, AfterFlush, IdleFlush, SaveFlushEnds, CollectStarts,
           CollectListed, DeletePart
    <2> QED
        BY <1>1, <2>1, <2>2 DEF HookFlush
<1>2. ASSUME Flushed', ~SaveFlushEnds
      PROVE  Flushed
    <2>1. ASSUME FlushSkipped, Head(queue).forSave
          PROVE  engine = Down /\ UNCHANGED engine
        BY <2>1, QueueTail DEF FlushSkipped, OneSave, bootVars, openVars
    <2>2. CASE UNCHANGED hook
        BY <1>2, <2>2, HookFirst DEF Flushed, AfterFlush
    <2>3. CASE CollectStarts \/ CollectListed \/ \E s \in Source : DeletePart(s)
        BY <2>3 DEF CollectStarts, CollectListed, DeletePart, Flushed, AfterFlush
    <2> QED
        BY <1>2, <2>1, <2>2, <2>3, HookMoves DEF Flushed, AfterFlush
<1> QED
    BY <1>1, <1>2

LEMMA SaveNamesImportedKept ==
    ASSUME TypeOK, OneRestore, FlushOrder, OneSave, FlushAlone, PartKnown, SaveNamesImported, Next
    PROVE  SaveNamesImported'
<1> DEFINE Quiet == Without({"collect", "late", "restore", "twice", "refused"})
<1> SUFFICES ASSUME Quiet'
             PROVE  SaveNamesImported'
    BY DEF SaveNamesImported
<1>1. /\ Quiet /\ Without({"late", "restore", "twice"}) /\ "refused" \notin disturbed'
      /\ CurrentFlush => engine # Down /\ ~Restoring
    BY Recorded DEF Without, FlushAlone
<1>2. /\ HookFlush => /\ CurrentFlush
                      /\ building["flush"].stored \subseteq imported
                      /\ building["flush"].hashing \in imported \cup {NoFile}
                      /\ building["flush"].writing \in imported \cup {NoFile}
      /\ Flushed => engine # Down /\ ~Restoring /\ SavedData(parts) \subseteq imported
      /\ hook = "delete" => toDelete \cap imported = {}
    BY <1>1 DEF SaveNamesImported
<1>3. ASSUME NEW d \in Doc, DocumentOpened(d)
      PROVE  SaveNamesImported'
    <2>1. hook' = "idle" /\ flush'.forSave = FALSE
        BY <1>3 DEF DocumentOpened, OneSave, hookVars, TypeOK, RunningFlush
    <2> QED
        BY <2>1 DEF SaveNamesImported, HookFlush, Flushed, AfterFlush
<1>4. ASSUME NEW k \in Epoch, RestoreStep(k)
      PROVE  SaveNamesImported'
    <2>1. Restoring /\ UNCHANGED <<flush, hook, docEpoch>>
        BY <1>4, RestoreFrame
    <2>2. ~HookFlush /\ ~Flushed
        BY <1>1, <1>2, <2>1
    <2>3. ~HookFlush' /\ hook' # "delete" /\ hook' # "collect"
        BY <2>1, <2>2 DEF HookFlush, Flushed, AfterFlush
    <2>4. ~Flushed'
        BY <2>1, <2>2, <2>3, HookFirst DEF Flushed, AfterFlush
    <2> QED
        BY <2>3, <2>4 DEF SaveNamesImported
<1>5. ASSUME NEW s \in Source, NEW old, Import(s, old)
      PROVE  SaveNamesImported'
    <2>1. hook = "idle" /\ UNCHANGED <<hook, flush>>
        BY <1>5 DEF Import, Disturb, If, Without, hookVars
    <2> QED
        BY <2>1 DEF SaveNamesImported, HookFlush, Flushed, AfterFlush, OneSave
<1>6. ASSUME UNCHANGED imported, ~\E d \in Doc : DocumentOpened(d), ~\E k \in Epoch : RestoreStep(k)
      PROVE  SaveNamesImported'
    <2>1. UNCHANGED openVars /\ UNCHANGED <<docEpoch, restores>> /\ (Restoring' <=> Restoring)
        BY <1>6, StepKinds DEF openVars, Restoring
    <2>2. HookFlush' => /\ CurrentFlush'
                        /\ building'["flush"].stored \subseteq imported
                        /\ building'["flush"].hashing \in imported \cup {NoFile}
                        /\ building'["flush"].writing \in imported \cup {NoFile}
        <3>1. CASE FlushStarts
            <4>1. building'["flush"] = [FreshBuild EXCEPT !.recipe = engine]
                BY <3>1 DEF FlushStarts, StartBuild, TypeOK, Builder
            <4>2. CurrentFlush'
                BY <3>1 DEF FlushStarts, CurrentFlush, openVars
            <4> QED
                BY <4>1, <4>2 DEF FreshBuild
        <3>2. ASSUME ~FlushStarts, HookFlush'
              PROVE  /\ CurrentFlush'
                     /\ building'["flush"].stored \subseteq imported
                     /\ building'["flush"].hashing \in imported \cup {NoFile}
                     /\ building'["flush"].writing \in imported \cup {NoFile}
            <4>1. HookFlush
                BY <2>1, <3>2, HookGoesOn
            <4>2. flush'.epoch = flush.epoch /\ flush'.pc # "idle"
                BY <3>2, FlushSame DEF HookFlush
            <4>3. CurrentFlush'
                BY <1>2, <2>1, <4>1, <4>2 DEF CurrentFlush
            <4>4. CASE building'["flush"] = building["flush"]
                BY <1>2, <4>1, <4>3, <4>4
            <4>5. CASE \/ HashNext("flush") \/ StoreKnown("flush") \/ StoreNew("flush")
                       \/ PartStored("flush")
                <5>1. /\ building["flush"].stored \subseteq imported
                      /\ building["flush"].hashing \in imported \cup {NoFile}
                      /\ building["flush"].writing \in imported \cup {NoFile}
                    BY <1>2, <4>1
                <5> QED
                    BY <4>3, <4>5, <5>1, BuildSteps DEF Builder
            <4> QED
                BY <3>2, <4>3, <4>4, <4>5, BuildMoves
        <3> QED
            BY <3>1, <3>2
    <2>3. Flushed' => engine' # Down /\ ~Restoring' /\ SavedData(parts') \subseteq imported
        <3>1. ASSUME SaveFlushEnds
              PROVE  engine' # Down /\ ~Restoring' /\ SavedData(parts') \subseteq imported
            <4>1. HookFlush /\ CurrentFlush
                BY <1>2, <3>1 DEF SaveFlushEnds, HookFlush
            <4>2. engine' # Down /\ ~Restoring'
                BY <1>1, <2>1, <4>1, EngineStays
            <4>3. parts.part = Text
                BY <1>1, <3>1, <4>1 DEF SaveFlushEnds, CurrentFlush, PartKnown, TypeOK, Text, Session, Builder, Build
            <4> QED
                BY <1>2, <3>1, <4>1, <4>2, <4>3 DEF SaveFlushEnds, SavedData, Text
        <3>2. ASSUME Flushed', ~SaveFlushEnds
              PROVE  Flushed
            BY <2>1, <3>2, HookGoesOn
        <3>3. ASSUME Flushed
              PROVE  engine' # Down /\ ~Restoring' /\ SavedData(parts') \subseteq imported
            <4>1. engine' # Down /\ ~Restoring'
                BY <1>2, <2>1, <3>3, EngineStays
            <4>2. flush.pc # "idle" => building["flush"].stored \subseteq imported
                BY <1>2, <3>3 DEF HookFlush, Flushed
            <4>3. SavedData(parts') \subseteq imported
                BY <1>2, <2>1, <3>3, <4>2, PartMoves DEF SavedData, Text, FlushWritten, storeVars, TypeOK, Container
            <4> QED
                BY <4>1, <4>3
        <3> QED
            BY <3>1, <3>2, <3>3
    <2>4. hook' = "delete" => toDelete' \cap imported = {}
        <3>1. CASE CollectListed
            BY <3>1 DEF CollectListed, Built
        <3>2. CASE \E s \in Source : DeletePart(s)
            BY <1>2, <3>2 DEF DeletePart
        <3> QED
            BY <1>2, <3>1, <3>2, HookMoves DEF CollectStarts, SaveFlushEnds
    <2> QED
        BY <1>6, <2>2, <2>3, <2>4 DEF SaveNamesImported
<1> QED
    BY <1>3, <1>4, <1>5, <1>6, ImportMoves

-----------------------------------------------------------------------------
(* Where the files are.                                                    *)

\* Data parts are written by the builds, deleted by the hook, and known by both.
LEMMA DataMoves ==
    ASSUME TypeOK, Next
    PROVE  \/ parts'.data = parts.data /\ UNCHANGED knownDataParts
           \/ \E w \in Builder : StoreNew(w) \/ PartStored(w)
           \/ \E s \in Source : DeletePart(s)
           \/ \E d \in Doc : DocumentOpened(d)
           \/ \E k \in Epoch : RestoreStep(k)
<1> USE DEF dataVars, storeVars
<1>1. ASSUME Command, ~\E d \in Doc : DocumentOpened(d)
      PROVE  UNCHANGED <<parts, knownDataParts>>
    BY <1>1 DEF Command, Define, Remove, Import, BootEngine, WillSave
<1>2. CASE FlushBuilt \/ FlushProbed
    <2>1. parts'.data = parts.data
        BY <1>2, FlushBuiltCases, WriteCases DEF FlushProbed, TypeOK, Container
    <2> QED
        BY <1>2, <2>1 DEF FlushBuilt, FlushProbed
<1>3. ASSUME Microtask \/ TimerFires, ~FlushBuilt, ~FlushProbed
      PROVE  UNCHANGED <<parts, knownDataParts>>
    BY <1>3 DEF Microtask, HashNext, FlushSkipped, FlushStarts, WriteRefused, FlushFails,
                CollectSkipped, CollectStarts, CollectListed, TimerFires
<1>4. ASSUME Reply \/ Refusal
      PROVE  \/ UNCHANGED <<parts, knownDataParts>>
             \/ \E w \in Builder : StoreNew(w) \/ PartStored(w)
             \/ \E s \in Source : DeletePart(s)
             \/ \E k \in Epoch : RestoreStep(k)
    BY <1>4 DEF Reply, StoreKnown, FlushWritten, CollectEnds, EngineBooted, ProbeAnswered, Refusal,
                StoreRefused, FlushFails, CollectRefused, RestoreStep
<1> QED
    BY <1>1, <1>2, <1>3, <1>4 DEF Next, CommandStep, MicrotaskStep, TimerStep, ReplyStep, RefusalStep

\* A part write is asked for by StoreNew only.
LEMMA WritingMoves ==
    ASSUME TypeOK, Next, NEW w \in Builder
    PROVE  building'[w].writing \in {NoFile, building[w].writing} \/ StoreNew(w)
<1>1. CASE UNCHANGED FlushVars
    BY <1>1 DEF FlushVars
<1>2. CASE FlushStarts \/ CollectStarts
    <2>1. PICK v \in Builder : StartBuild(v)
        BY <1>2 DEF FlushStarts, CollectStarts, Builder
    <2>2. CASE v = w
        BY <2>1, <2>2 DEF StartBuild, FreshBuild, TypeOK
    <2>3. CASE v # w
        BY <2>1, <2>3 DEF StartBuild, TypeOK
    <2> QED
        BY <2>2, <2>3
<1>3. ASSUME NEW v \in Builder, HashNext(v) \/ StoreKnown(v) \/ StoreNew(v) \/ PartStored(v)
      PROVE  building'[w].writing \in {NoFile, building[w].writing} \/ StoreNew(w)
    <2>1. CASE v = w
        BY <1>3, <2>1, BuildSteps
    <2>2. CASE v # w
        BY <1>3, <2>2 DEF HashNext, StoreKnown, StoreNew, PartStored, TypeOK
    <2> QED
        BY <2>1, <2>2
<1>4. ASSUME NEW d \in Doc, DocumentOpened(d)
      PROVE  UNCHANGED building
    BY <1>4 DEF DocumentOpened, hookVars
<1>5. CASE WillSave \/ TimerFires
    BY <1>5 DEF WillSave, TimerFires, hookVars
<1>6. ASSUME Microtask, ~CollectStarts, ~FlushStarts, ~\E v \in Builder : HashNext(v)
      PROVE  UNCHANGED building
    BY <1>6 DEF Microtask, FlushSkipped, FlushBuilt, FlushProbed, WriteRefused, FlushFails,
                CollectSkipped, CollectListed, hookVars
<1>7. CASE FlushWritten \/ StoreRefused \/ CollectEnds \/ CollectRefused
    BY <1>7 DEF FlushWritten, StoreRefused, FlushFails, CollectEnds, CollectRefused
<1> QED
    BY <1>1, <1>2, <1>3, <1>4, <1>5, <1>6, <1>7, FlushSteps

LEMMA FilesHeldKept ==
    ASSUME TypeOK, OneRestore, FlushOrder, FlushAlone, PartKnown, SaveNamesImported, FilesHeld, Next
    PROVE  FilesHeld'
<1> DEFINE Quiet == Without({"mid", "late", "collect", "restore", "twice", "refused"})
<1> SUFFICES ASSUME Quiet'
             PROVE  FilesHeld'
    BY DEF FilesHeld
<1>1. /\ Quiet /\ Without({"twice"})
      /\ CurrentFlush => ~Restoring
      /\ flush.pc \in {"probe", "write"} => CurrentFlush
    BY Recorded DEF Without, FlushAlone
<1>2. /\ \A d \in Doc : SavedData(disk[d]) \subseteq disk[d].data
      /\ SavedData(parts) \subseteq parts.data
      /\ ~Waiting => knownDataParts \subseteq parts.data
      /\ CurrentFlush => building["flush"].stored \subseteq parts.data
      /\ \A w \in Builder : building[w].writing # NoFile => building[w].writing \in parts.data
    BY <1>1 DEF FilesHeld
<1>3. CurrentFlush => ~Waiting
    BY <1>1 DEF OneRestore, Waiting, Restoring, TypeOK
<1>4. Without({"collect", "late", "restore", "twice", "refused"})
    BY <1>1 DEF Without
<1>5. ASSUME NEW d \in Doc, DocumentOpened(d)
      PROVE  FilesHeld'
    <2>1. parts' = disk[d] /\ UNCHANGED <<disk, building>> /\ ~CurrentFlush'
        BY <1>5 DEF DocumentOpened, FlushOrder, CurrentFlush, TypeOK, Epoch, RunningFlush, hookVars
    <2>2. Waiting' \/ knownDataParts' = {}
        <3>1. CASE restores[restorePromise] # NoTask
            BY <1>5, <3>1 DEF DocumentOpened, Waiting, TypeOK, Epoch
        <3>2. CASE restores[restorePromise] = NoTask
            BY <1>5, <3>2 DEF DocumentOpened, ResetState
        <3> QED
            BY <3>1, <3>2
    <2>3. building["flush"].writing = NoFile
        BY <1>5 DEF DocumentOpened, Disturb, If, Without
    <2>4. building["collect"].writing = NoFile
        BY <1>5 DEF DocumentOpened, FlushOrder
    <2> QED
        BY <1>2, <2>1, <2>2, <2>3, <2>4 DEF FilesHeld, Builder
<1>6. ASSUME NEW k \in Epoch, RestoreStep(k)
      PROVE  FilesHeld'
    <2>1. restores[k] # NoTask /\ UNCHANGED <<disk, parts, building>> /\ ~CurrentFlush'
        BY <1>1, <1>6, RestoreFrame DEF CurrentFlush
    <2>2. ~Waiting' => knownDataParts' \subseteq parts.data
        <3>1. CASE \E written : EndRestore(k, written)
            BY <1>1, <1>2, <2>1, <3>1, RestoreOutcome DEF ResetState
        <3>2. CASE RestoreRead(k) \/ RestoreBooted(k) \/ \E s \in Source : RestoreData(k, s)
            <4>1. Waiting' <=> Waiting
                BY <3>2, RestoreGoesOn DEF Waiting
            <4> QED
                BY <1>2, <3>2, <4>1 DEF RestoreRead, RestoreBooted, RestoreData, dataVars
        <3> QED
            BY <1>6, <3>1, <3>2 DEF RestoreStep, RestoreNothing, RestoreEnds, RestoreUnavailable
    <2> QED
        BY <1>2, <2>1, <2>2 DEF FilesHeld
<1>7. ASSUME ~\E d \in Doc : DocumentOpened(d), ~\E k \in Epoch : RestoreStep(k)
      PROVE  FilesHeld'
    <2>1. UNCHANGED openVars /\ UNCHANGED docEpoch /\ (Waiting' <=> Waiting)
        BY <1>7, StepKinds DEF openVars, Waiting
    <2>2. \A d \in Doc : SavedData(disk'[d]) \subseteq disk'[d].data
        <3>1. CASE UNCHANGED disk
            BY <1>2, <3>1
        <3>2. CASE CollectSkipped \/ CollectEnds \/ CollectRefused
            <4>1. disk' = [disk EXCEPT ![open] = parts]
                BY <3>2 DEF CollectSkipped, CollectEnds, CollectRefused, EndHook
            <4>2. \A d \in Doc : disk'[d] = IF d = open THEN parts ELSE disk[d]
                BY <4>1 DEF TypeOK
            <4> QED
                BY <1>2, <4>2
        <3> QED
            BY <3>1, <3>2, DiskMoves
    <2>3. ASSUME NEW s \in Source, DeletePart(s)
          PROVE  FilesHeld'
        <3>1. /\ hook = "delete" /\ UNCHANGED <<building, flush, imported, disk>>
              /\ parts'.data = parts.data \ {s} /\ parts'.part = parts.part
              /\ knownDataParts' = knownDataParts \ {s}
            BY <2>3 DEF DeletePart, TypeOK, Container
        <3>2. s \notin imported /\ SavedData(parts) \subseteq imported
              /\ (flush.pc # "idle" => /\ building["flush"].stored \subseteq imported
                                        /\ building["flush"].writing \in imported \cup {NoFile})
            BY <1>4, <2>3, <3>1 DEF DeletePart, SaveNamesImported, HookFlush, Flushed, AfterFlush
        <3>3. /\ building["collect"].writing = NoFile
              /\ building["flush"].writing # NoFile => flush.pc = "build"
            BY <3>1 DEF FlushOrder
        <3>4. /\ SavedData(parts') \subseteq parts'.data
              /\ ~Waiting' => knownDataParts' \subseteq parts'.data
            BY <1>2, <2>1, <3>1, <3>2 DEF SavedData
        <3>5. CurrentFlush' => building'["flush"].stored \subseteq parts'.data
            BY <1>2, <2>1, <3>1, <3>2 DEF CurrentFlush
        <3>6. \A w \in Builder : building'[w].writing # NoFile => building'[w].writing \in parts'.data
            BY <1>2, <3>1, <3>2, <3>3 DEF Builder
        <3> QED
            BY <2>2, <3>4, <3>5, <3>6 DEF FilesHeld
    <2>4. ASSUME ~\E s \in Source : DeletePart(s)
          PROVE  FilesHeld'
        <3>1. /\ parts.data \subseteq parts'.data
              /\ UNCHANGED knownDataParts \/ \E w \in Builder : PartStored(w)
            <4>1. ASSUME NEW w \in Builder, StoreNew(w)
                  PROVE  parts.data \subseteq parts'.data /\ UNCHANGED knownDataParts
                BY <4>1 DEF StoreNew, dataVars, TypeOK, Container
            <4>2. ASSUME NEW w \in Builder, PartStored(w)
                  PROVE  UNCHANGED parts
                BY <4>2 DEF PartStored, storeVars
            <4> QED
                BY <1>7, <2>4, <4>1, <4>2, DataMoves
        <3>2. SavedData(parts') \subseteq parts'.data
            <4>1. CASE parts'.part = parts.part
                BY <1>2, <3>1, <4>1 DEF SavedData
            <4>2. CASE /\ parts' = [parts EXCEPT !.part = Text]
                       /\ flush.pc = "probe" \/ (flush.pc = "build" /\ flush.epoch = docEpoch)
                <5>1. CurrentFlush
                    BY <1>1, <4>2 DEF CurrentFlush
                <5> QED
                    BY <1>2, <4>2, <5>1 DEF SavedData, Text, TypeOK, Container
            <4> QED
                BY <2>1, <4>1, <4>2, PartMoves DEF FlushWritten, storeVars
        <3>3. ~Waiting' => knownDataParts' \subseteq parts'.data
            <4>1. ASSUME NEW w \in Builder, PartStored(w), ~Waiting
                  PROVE  knownDataParts' \subseteq parts.data
                <5>1. building[w].writing \in parts.data
                    BY <1>2, <4>1 DEF PartStored
                <5>2. knownDataParts' = knownDataParts \cup {building[w].writing}
                    BY <4>1 DEF PartStored
                <5> QED
                    BY <1>2, <4>1, <5>1, <5>2
            <4> QED
                BY <1>2, <2>1, <3>1, <4>1
        <3>4. CurrentFlush' => building'["flush"].stored \subseteq parts'.data
            <4>1. CASE FlushStarts
                BY <4>1 DEF FlushStarts, StartBuild, FreshBuild, TypeOK, Builder
            <4>2. ASSUME ~FlushStarts, CurrentFlush'
                  PROVE  CurrentFlush
                BY <2>1, <4>2, FlushSame DEF CurrentFlush
            <4>3. CASE building'["flush"] = building["flush"]
                BY <1>2, <3>1, <4>1, <4>2, <4>3
            <4>4. CASE \/ HashNext("flush") \/ StoreKnown("flush") \/ StoreNew("flush")
                       \/ PartStored("flush")
                <5>1. ASSUME CurrentFlush', ~FlushStarts
                      PROVE  /\ building["flush"].stored \subseteq parts.data
                             /\ knownDataParts \subseteq parts.data
                    BY <1>2, <1>3, <4>1, <4>2, <5>1
                <5>2. building["flush"].writing # NoFile => building["flush"].writing \in parts.data
                    BY <1>2 DEF Builder
                <5> QED
                    BY <3>1, <4>1, <4>4, <5>1, <5>2, BuildSteps DEF Builder
            <4> QED
                BY <4>1, <4>3, <4>4, BuildMoves
        <3>5. \A w \in Builder : building'[w].writing # NoFile => building'[w].writing \in parts'.data
            <4>1. ASSUME NEW w \in Builder, StoreNew(w)
                  PROVE  building'[w].writing \in parts'.data
                BY <4>1 DEF StoreNew, TypeOK, Build, Container
            <4> QED
                BY <1>2, <3>1, <4>1, WritingMoves
        <3> QED
            BY <2>2, <3>2, <3>3, <3>4, <3>5 DEF FilesHeld
    <2> QED
        BY <2>3, <2>4
<1> QED
    BY <1>5, <1>6, <1>7

-----------------------------------------------------------------------------
(* What a save has reached.                                                *)

LEMMA SaveReachedKept ==
    ASSUME TypeOK, OneRestore, FlushOrder, OneSave, FlushAlone, PartKnown, EnginePhase,
           SaveNamesImported, SaveReached, Next
    PROVE  SaveReached'
<1> DEFINE Quiet == Without({"edit", "collect", "ghost", "restore", "twice", "boot",
                             "unavailable", "unbooted", "late", "refused"})
<1> SUFFICES ASSUME Quiet'
             PROVE  SaveReached'
    BY DEF SaveReached
<1>1. /\ Quiet /\ Without({"twice"}) /\ Without({"late", "restore", "twice"})
      /\ Without({"ghost", "boot", "restore", "twice", "unavailable"})
      /\ "refused" \notin disturbed'
      /\ CurrentFlush => engine # Down /\ ~Restoring
    BY Recorded DEF Without, FlushAlone
<1>2. /\ ~Waiting => \A k \in Epoch : At(k, "read") \/ At(k, "boot") => imported = {}
      /\ ~Restoring /\ engine = Down => parts.part = NoPart /\ imported = {}
      /\ hook = "flushed" /\ engine = Down => pendingDefs = {}
      /\ HookFlush =>
             /\ building["flush"].recipe = engine
             /\ flush.pc \in {"probe", "write"} => imported \subseteq building["flush"].stored
      /\ Flushed => SavedRecipe(parts) = engine /\ imported \subseteq SavedData(parts)
    BY <1>1 DEF SaveReached
<1>3. /\ HookFlush => CurrentFlush /\ hook # "idle"
      /\ Flushed => engine # Down /\ ~Restoring /\ hook # "idle"
    <2>1. Without({"collect", "late", "restore", "twice", "refused"})
        BY <1>1 DEF Without
    <2> QED
        BY <2>1 DEF SaveNamesImported, OneSave, HookFlush, Flushed, AfterFlush
<1>4. ASSUME NEW d \in Doc, DocumentOpened(d)
      PROVE  SaveReached'
    <2>1. hook' = "idle" /\ flush'.forSave = FALSE
        BY <1>4 DEF DocumentOpened, OneSave, hookVars, TypeOK, RunningFlush
    <2>2. ~HookFlush' /\ ~Flushed'
        BY <2>1 DEF HookFlush, Flushed, AfterFlush
    <2>3. CASE restores[restorePromise] # NoTask
        <3>1. Waiting' /\ Restoring'
            <4>1. docEpoch' \in Epoch /\ restorePromise \in Epoch /\ restorePromise # NoWait
                BY <1>4 DEF DocumentOpened, TypeOK, Epoch
            <4>2. openers' = [openers EXCEPT ![docEpoch'] = restorePromise] /\ UNCHANGED restores
                BY <1>4, <2>3 DEF DocumentOpened
            <4> QED
                BY <2>3, <4>1, <4>2 DEF Waiting, Restoring, TypeOK
        <3> QED
            BY <2>1, <2>2, <3>1 DEF SaveReached
    <2>4. CASE restores[restorePromise] = NoTask
        <3>1. /\ ResetState /\ docEpoch' \in Epoch
              /\ restores' = [restores EXCEPT ![docEpoch'] = ReadTask(disk[d])]
            BY <1>4, <2>4 DEF DocumentOpened, TypeOK, Epoch
        <3>2. restores'[docEpoch'] # NoTask
            BY <3>1 DEF TypeOK, ReadTask, RestoreTask, Container
        <3>3. imported' = {} /\ Restoring'
            BY <3>1, <3>2 DEF ResetState, Restoring
        <3> QED
            BY <2>1, <2>2, <3>3 DEF SaveReached
    <2> QED
        BY <2>3, <2>4
<1>5. ASSUME NEW k \in Epoch, RestoreStep(k)
      PROVE  SaveReached'
    <2>1. /\ restores[k] # NoTask /\ Restoring /\ k = restorePromise
          /\ UNCHANGED <<parts, flush, hook, docEpoch>>
        BY <1>1, <1>5, RestoreFrame DEF OneRestore
    <2>2. ~HookFlush /\ ~Flushed
        BY <1>1, <1>3, <2>1
    <2>3. ~HookFlush'
        BY <2>1, <2>2 DEF HookFlush, AfterFlush
    <2>4. ~Flushed' /\ (hook' = "flushed" /\ engine' = Down => pendingDefs' = {})
        BY <1>2, <2>1, <2>2, HookFirst DEF Flushed, AfterFlush
    <2>5. ASSUME NEW written, EndRestore(k, written)
          PROVE  SaveReached'
        <3>1. CASE Waiting /\ ResetState
            <4>1. restores'[docEpoch] # NoTask /\ docEpoch \in Epoch
                BY <1>1, <2>1, <2>5, <3>1, RestoreOutcome
                   DEF ReadTask, RestoreTask, TypeOK, Container
            <4>2. Restoring' /\ imported' = {}
                BY <3>1, <4>1 DEF Restoring, ResetState
            <4> QED
                BY <2>3, <2>4, <4>2 DEF SaveReached
        <3>2. CASE ~Waiting
            <4>1. /\ UNCHANGED <<engine, imported>>
                  /\ \A n \in Epoch : restores'[n] = NoTask
                BY <1>1, <2>1, <2>5, <3>2, RestoreOutcome
            <4>2. CASE RestoreNothing(k)
                <5>1. imported = {} /\ restores[k].saved = NoPart
                    BY <1>2, <3>2, <4>2 DEF RestoreNothing
                <5>2. parts.part = NoPart
                    BY <1>1, <2>1, <3>2, <5>1 DEF PartKnown
                <5> QED
                    BY <2>1, <2>3, <2>4, <4>1, <5>1, <5>2 DEF SaveReached, At
            <4>3. CASE RestoreEnds(k)
                <5>1. engine # Down
                    BY <1>1, <3>2, <4>3 DEF RestoreEnds, EnginePhase
                <5> QED
                    BY <2>3, <2>4, <4>1, <5>1 DEF SaveReached, At
            <4>4. CASE RestoreUnavailable(k)
                BY <1>1, <4>4 DEF RestoreUnavailable, Disturb, Without
            <4>5. CASE RestoreRead(k) \/ RestoreBooted(k) \/ \E s \in Source : RestoreData(k, s)
                BY <4>1, <4>5, RestoreGoesOn
            <4> QED
                BY <1>5, <4>2, <4>3, <4>4, <4>5 DEF RestoreStep
        <3> QED
            BY <1>1, <2>1, <2>5, <3>1, <3>2, RestoreOutcome
    <2>6. ASSUME RestoreRead(k) \/ RestoreBooted(k) \/ \E s \in Source : RestoreData(k, s)
          PROVE  SaveReached'
        <3>1. /\ restores'[k] # NoTask /\ Restoring' /\ (Waiting' <=> Waiting)
              /\ \A n \in Epoch \ {k} : restores'[n] = NoTask
            BY <1>1, <2>1, <2>6, RestoreGoesOn DEF Waiting, OneRestore, Restoring
        <3>2. ASSUME ~Waiting
              PROVE  restores'[k].pc \in {"read", "boot"} => imported' = {}
            <4>1. CASE RestoreRead(k)
                BY <1>2, <3>2, <4>1 DEF RestoreRead, dataVars
            <4>2. CASE RestoreBooted(k)
                BY <4>2 DEF RestoreBooted, At, TypeOK, RestoreTask
            <4>3. CASE \E s \in Source : RestoreData(k, s)
                BY <4>3 DEF RestoreData, At, TypeOK, RestoreTask
            <4> QED
                BY <2>6, <4>1, <4>2, <4>3
        <3> QED
            BY <2>3, <2>4, <3>1, <3>2 DEF SaveReached, At
    <2> QED
        BY <1>5, <2>5, <2>6 DEF RestoreStep, RestoreNothing, RestoreEnds, RestoreUnavailable
<1>6. ASSUME ~\E d \in Doc : DocumentOpened(d), ~\E k \in Epoch : RestoreStep(k)
      PROVE  SaveReached'
    <2>1. /\ UNCHANGED openVars /\ UNCHANGED <<docEpoch, restores, openers>>
          /\ (Restoring' <=> Restoring) /\ (Waiting' <=> Waiting)
        BY <1>6, StepKinds DEF openVars, Restoring, Waiting
    <2>2. ASSUME NEW s \in Source, NEW old, Import(s, old)
          PROVE  hook = "idle" /\ ~Restoring /\ engine # Down
        BY <2>2 DEF Import, Disturb, If, Without
    <2>3. ASSUME hook # "idle", engine # Down
          PROVE  UNCHANGED <<engine, imported>>
        <3>1. UNCHANGED imported
            BY <1>6, <2>2, <2>3, ImportMoves
        <3>2. ASSUME NEW b \in Binding, Define(b) \/ Remove(b)
              PROVE  FALSE
            BY <2>3, <3>2 DEF Define, Remove, Disturb, If, Without
        <3>3. ~EngineBooted
            BY <2>3 DEF EngineBooted, EngineUp, Disturb, If, Without
        <3> QED
            BY <1>6, <3>1, <3>2, <3>3, EngineMoves
    <2>4. ~Waiting' => \A k \in Epoch : At(k, "read")' \/ At(k, "boot")' => imported' = {}
        <3>1. Restoring => UNCHANGED imported
            BY <1>6, <2>2, ImportMoves
        <3> QED
            BY <1>2, <2>1, <3>1 DEF At, Restoring
    <2>5. ~Restoring' /\ engine' = Down => parts'.part = NoPart /\ imported' = {}
        <3>1. engine' = Down => engine = Down
            BY <2>1, EngineStays
        <3>2. engine = Down => UNCHANGED imported
            BY <1>6, <2>2, ImportMoves
        <3>3. engine = Down => parts'.part = parts.part
            BY <1>1, <2>1, PartMoves DEF FlushAlone, CurrentFlush, FlushWritten, storeVars, Without
        <3> QED
            BY <1>2, <2>1, <3>1, <3>2, <3>3
    <2>6. hook' = "flushed" /\ engine' = Down => pendingDefs' = {}
        <3>1. CASE UNCHANGED hook
            BY <1>2, <3>1, HookFirst
        <3>2. CASE SaveFlushEnds
            BY <1>1, <2>1, <3>2, EngineStays DEF SaveFlushEnds, OneSave
        <3>3. CASE FlushSkipped /\ Head(queue).forSave
            <4>1. Head(queue).epoch = docEpoch /\ UNCHANGED pendingDefs
                BY <3>3, QueueTail DEF FlushSkipped, OneSave, bootVars
            <4> QED
                BY <3>3, <4>1 DEF FlushSkipped, Disturb, If, Without
        <3>4. CASE CollectStarts \/ CollectListed \/ \E s \in Source : DeletePart(s)
            BY <3>4 DEF CollectStarts, CollectListed, DeletePart
        <3> QED
            BY <3>1, <3>2, <3>3, <3>4, HookMoves
    <2>7. HookFlush' =>
              /\ building'["flush"].recipe = engine'
              /\ flush'.pc \in {"probe", "write"} => imported' \subseteq building'["flush"].stored
        <3>1. CASE FlushStarts
            BY <3>1 DEF FlushStarts, StartBuild, FreshBuild, TypeOK, Builder, bootVars
        <3>2. ASSUME ~FlushStarts, HookFlush'
              PROVE  /\ building'["flush"].recipe = engine'
                     /\ flush'.pc \in {"probe", "write"} =>
                            imported' \subseteq building'["flush"].stored
            <4>1. HookFlush /\ UNCHANGED <<engine, imported>>
                BY <1>1, <1>3, <2>1, <2>3, <3>2, HookGoesOn
            <4>2. /\ building'["flush"].recipe = building["flush"].recipe
                  /\ building["flush"].stored \subseteq building'["flush"].stored
                BY <3>2, BuildMoves, BuildSteps DEF Builder
            <4>3. flush'.pc \in {"probe", "write"} => imported \subseteq building["flush"].stored
                BY <1>2, <3>2, <4>1, FlushMoves DEF IdleFlush, Built
            <4> QED
                BY <1>2, <4>1, <4>2, <4>3
        <3> QED
            BY <3>1, <3>2
    <2>8. Flushed' => SavedRecipe(parts') = engine' /\ imported' \subseteq SavedData(parts')
        <3>1. ASSUME SaveFlushEnds
              PROVE  SavedRecipe(parts') = engine' /\ imported' \subseteq SavedData(parts')
            <4>1. HookFlush /\ CurrentFlush /\ UNCHANGED <<engine, imported, parts>>
                BY <1>1, <1>3, <2>3, <3>1 DEF SaveFlushEnds, HookFlush
            <4>2. Text \in Session /\ Text # NoPart
                BY DEF TypeOK, Text, Session, Builder, Build
            <4>3. parts.part = Text
                BY <1>1, <3>1, <4>1, <4>2 DEF SaveFlushEnds, CurrentFlush, PartKnown
            <4>4. building["flush"].recipe = engine /\ imported \subseteq building["flush"].stored
                BY <1>1, <1>2, <3>1, <4>1 DEF SaveFlushEnds, CurrentFlush
            <4> QED
                BY <4>1, <4>2, <4>3, <4>4 DEF SavedRecipe, SavedData, Text
        <3>2. ASSUME Flushed
              PROVE  SavedRecipe(parts') = engine' /\ imported' \subseteq SavedData(parts')
            <4>1. UNCHANGED <<engine, imported>>
                BY <1>3, <2>3, <3>2
            <4>2. CASE parts'.part = parts.part
                BY <1>2, <3>2, <4>1, <4>2 DEF SavedRecipe, SavedData
            <4>3. CASE /\ parts' = [parts EXCEPT !.part = Text]
                       /\ flush.pc = "probe" \/ (flush.pc = "build" /\ flush.epoch = docEpoch)
                       /\ flush' = [flush EXCEPT !.pc = "write"]
                <5>1. HookFlush
                    BY <3>2, <4>3 DEF HookFlush, Flushed
                <5>2. imported \subseteq building["flush"].stored
                    <6>1. CASE flush.pc = "probe"
                        BY <1>2, <5>1, <6>1
                    <6>2. CASE flush.pc # "probe"
                        <7>1. flush'.pc = "write" /\ flush.pc = "build"
                            BY <4>3, <6>2 DEF TypeOK, RunningFlush
                        <7> QED
                            BY <7>1, FlushMoves DEF IdleFlush, FlushStarts, TypeOK, RunningFlush, Built
                    <6> QED
                        BY <6>1, <6>2
                <5>3. parts'.part = Text /\ Text \in Session /\ Text # NoPart
                    BY <4>3 DEF TypeOK, Container, Text, Session, Builder, Build
                <5> QED
                    BY <1>2, <4>1, <5>1, <5>2, <5>3 DEF SavedRecipe, SavedData, Text
            <4> QED
                BY <2>1, <4>2, <4>3, PartMoves DEF FlushWritten, storeVars
        <3> QED
            BY <2>1, <3>1, <3>2, HookGoesOn
    <2> QED
        BY <2>4, <2>5, <2>6, <2>7, <2>8 DEF SaveReached
<1> QED
    BY <1>4, <1>5, <1>6

-----------------------------------------------------------------------------
(* The invariant, and what it establishes.                                 *)

SessionInv ==
    /\ TypeOK /\ OneRestore /\ FlushOrder /\ OneSave /\ FlushAlone /\ PartKnown /\ OwnBindings
    /\ EnginePhase /\ SaveNamesImported /\ FilesHeld /\ SaveReached

\* The session starts with one restore, of the first document, and nothing else.
LEMMA SessionInvInit == Init => SessionInv
<1> SUFFICES ASSUME Init PROVE SessionInv
    OBVIOUS
<1>1. TypeOK
    BY InitType
<1>2. /\ ~Waiting /\ ~CurrentFlush /\ ~HookFlush /\ ~AfterFlush /\ queue = <<>>
      /\ docEpoch = 0 /\ restorePromise = 0 /\ flush = IdleFlush /\ hook = "idle"
    BY DEF Init, Waiting, CurrentFlush, HookFlush, AfterFlush, IdleFlush
<1>3. /\ restores[0] = ReadTask(Saved[FirstDoc]) /\ restores[0] # NoTask /\ 0 \in Epoch
      /\ \A k \in Epoch : k # 0 => restores[k] = NoTask
    BY DEF Init, Epoch, ReadTask, RestoreTask, Container
<1>4. \A w \in Builder : building[w].writing = NoFile /\ building[w].hashing = NoFile
    BY DEF Init, FreshBuild
<1>5. Restoring /\ \A k \in Epoch : restores[k] # NoTask => restores[k].pc = "read"
    BY <1>3 DEF Restoring, ReadTask
<1>6. OneRestore
    BY <1>2, <1>3 DEF OneRestore, Waiting
<1>7. FlushOrder /\ OneSave
    BY <1>2, <1>4 DEF FlushOrder, OneSave, IdleFlush, Builder
<1>8. FlushAlone
    BY <1>2 DEF FlushAlone, IdleFlush
<1>9. PartKnown
    BY <1>2, <1>3 DEF PartKnown, Init, ReadTask, IdleFlush
<1>10. OwnBindings
    BY <1>2, SavedAssumption DEF OwnBindings, Init
<1>11. EnginePhase
    BY <1>5 DEF EnginePhase, Init, At
<1>12. SaveNamesImported
    BY <1>2 DEF SaveNamesImported, Flushed
<1>13. FilesHeld
    BY <1>2, <1>4, SavedAssumption DEF FilesHeld, Init
<1>14. SaveReached
    BY <1>2, <1>5 DEF SaveReached, Init, Flushed
<1> QED
    BY <1>1, <1>6, <1>7, <1>8, <1>9, <1>10, <1>11, <1>12, <1>13, <1>14 DEF SessionInv

LEMMA SessionInvKept ==
    ASSUME SessionInv, [Next]_vars
    PROVE  SessionInv'
<1>1. CASE Next
    <2>1. TypeOK /\ TypeOK'
        BY <1>1, CommandType, MicrotaskType, ReplyType DEF SessionInv, Next
    <2>2. OneRestore' /\ FlushOrder' /\ OneSave' /\ FlushAlone'
        BY <1>1, OneRestoreKept, FlushOrderKept, OneSaveKept, FlushAloneKept DEF SessionInv
    <2>3. PartKnown' /\ OwnBindings' /\ EnginePhase'
        BY <1>1, PartKnownKept, OwnBindingsKept, EnginePhaseKept DEF SessionInv
    <2>4. SaveNamesImported' /\ FilesHeld' /\ SaveReached'
        BY <1>1, SaveNamesImportedKept, FilesHeldKept, SaveReachedKept DEF SessionInv
    <2> QED
        BY <2>1, <2>2, <2>3, <2>4 DEF SessionInv
<1>2. CASE UNCHANGED vars
    <2> USE <1>2 DEF vars, storeVars, bootVars, dataVars, hookVars, openVars, SessionInv
    <2>1. TypeOK'
        BY DEF TypeOK
    <2>2. /\ (Waiting' <=> Waiting) /\ (CurrentFlush' <=> CurrentFlush)
          /\ (Restoring' <=> Restoring) /\ (HookFlush' <=> HookFlush) /\ (Flushed' <=> Flushed)
          /\ Text' = Text /\ \A kinds : Without(kinds)' <=> Without(kinds)
        BY DEF Waiting, CurrentFlush, Restoring, HookFlush, Flushed, AfterFlush, Text, Without
    <2>3. OneRestore' /\ FlushOrder' /\ OneSave' /\ FlushAlone'
        BY <2>2 DEF OneRestore, FlushOrder, OneSave, FlushAlone
    <2>4. PartKnown' /\ OwnBindings' /\ EnginePhase'
        BY <2>2 DEF PartKnown, OwnBindings, EnginePhase, At
    <2>5. SaveNamesImported' /\ FilesHeld' /\ SaveReached'
        BY <2>2 DEF SaveNamesImported, FilesHeld, SaveReached, At
    <2> QED
        BY <2>1, <2>3, <2>4, <2>5
<1> QED
    BY <1>1, <1>2

\* Every state the session reaches satisfies the inductive invariant.
THEOREM SessionInvHolds == Spec => []SessionInv
BY SessionInvInit, SessionInvKept, PTL DEF Spec

\* Every value the session keeps is of its type: at most MaxQueue flushes wait,
\* boots in flight never outnumber the commands, a restore task is whole.
THEOREM TypeCorrect == Spec => []TypeOK
<1>1. SessionInv => TypeOK
    BY DEF SessionInv
<1> QED
    BY <1>1, SessionInvHolds, PTL

\* Nothing of one document is written into another (documentOpened, flushPersist):
\* the epoch check drops a flush of an old document, except one that was already
\* past it, or one that ran while a restore was being waited for.
THEOREM NothingForeignWritten == Spec => []ForeignOnlyLate
<1>1. SessionInv => ForeignOnlyLate
    BY DEF SessionInv, OwnBindings, ForeignOnlyLate, NothingForeign, Of
<1> QED
    BY <1>1, SessionInvHolds, PTL

\* The session part in the document never names a file whose data part is not in
\* the container: builds store before they name, the collection deletes only what
\* the session does not name, and what is known of one document is not of another.
THEOREM NamedFilesAreHeld == Spec => []DataHeld
<1>1. SessionInv => DataHeld
    BY DEF SessionInv, FilesHeld, DataHeld
<1> QED
    BY <1>1, SessionInvHolds, PTL

\* When no restore runs, the engine that is up holds what the panels list, however
\* boots, restores, definitions and removals followed one another.
THEOREM EngineHoldsListed == Spec => []EngineIsListed
<1>1. ASSUME SessionInv
      PROVE  EngineIsListed
    <2>1. ~Restoring /\ Without({"twice"}) => ~Waiting
        BY <1>1 DEF SessionInv, OneRestore, Restoring, Waiting, TypeOK
    <2>2. Without({"ghost", "boot", "restore", "twice", "unavailable"}) => Without({"twice"})
        BY DEF Without
    <2> QED
        BY <1>1, <2>1, <2>2 DEF SessionInv, EnginePhase, EngineIsListed
<1> QED
    BY <1>1, SessionInvHolds, PTL

\* The text remembered as written last is the text of the session part, so that a
\* flush skipped because nothing changed loses nothing.
THEOREM LastWrittenIsThere == Spec => []LastWrittenTrue
<1>1. SessionInv => LastWrittenTrue
    BY DEF SessionInv, PartKnown, LastWrittenTrue
<1> QED
    BY <1>1, SessionInvHolds, PTL

\* What a save leaves on disk is the session as the panels list it, with the files
\* imported: the will-save hook waits for a flush of its own.
THEOREM SavesAreComplete == Spec => SaveComplete
<1> DEFINE Quiet == Without({"edit", "collect", "ghost", "restore", "twice", "boot",
                             "unavailable", "unbooted", "late", "refused"})
           Saves == hook # "idle" /\ hook' = "idle" /\ ~Restoring /\ Quiet
           Whole == SavedRecipe(disk'[open]) = listed /\ SavedData(disk'[open]) = imported
<1>1. ASSUME SessionInv, Next, Saves
      PROVE  Whole
    <2>1. /\ Without({"twice"}) /\ Without({"collect", "late", "restore", "twice", "refused"})
          /\ Without({"ghost", "boot", "restore", "twice", "unavailable"})
          /\ Without({"late", "restore", "twice"})
        BY <1>1 DEF Without
    <2>2. ~Waiting
        BY <1>1, <2>1 DEF SessionInv, OneRestore, Restoring, Waiting, TypeOK
    <2>3. AfterFlush /\ disk' = [disk EXCEPT ![open] = parts]
        <3>1. CollectSkipped \/ CollectEnds \/ CollectRefused
            <4>1. ~SaveFlushEnds /\ ~CollectStarts /\ ~CollectListed
                BY <1>1 DEF SaveFlushEnds, CollectStarts, CollectListed
            <4>2. ~\E s \in Source : DeletePart(s)
                BY <1>1 DEF DeletePart
            <4> QED
                BY <1>1, <4>1, <4>2, HookMoves DEF SessionInv
        <3> QED
            BY <3>1 DEF CollectSkipped, CollectEnds, CollectRefused, EndHook, AfterFlush
    <2>4. disk'[open] = parts
        BY <1>1, <2>3 DEF SessionInv, TypeOK
    <2>5. CASE hook = "flushed" /\ engine = Down
        <3>1. parts.part = NoPart /\ imported = {} /\ pendingDefs = {}
            BY <1>1, <2>5 DEF SessionInv, SaveReached
        <3>2. listed = {}
            BY <1>1, <2>1, <2>2, <2>5, <3>1 DEF SessionInv, EnginePhase
        <3> QED
            BY <2>4, <3>1, <3>2 DEF SavedRecipe, SavedData
    <2>6. CASE Flushed
        <3>1. SavedRecipe(parts) = engine /\ imported \subseteq SavedData(parts)
            BY <1>1, <2>6 DEF SessionInv, SaveReached
        <3>2. engine # Down /\ SavedData(parts) \subseteq imported
            BY <1>1, <2>1, <2>6 DEF SessionInv, SaveNamesImported
        <3>3. engine = listed
            BY <1>1, <2>1, <2>2, <3>2 DEF SessionInv, EnginePhase
        <3> QED
            BY <2>4, <3>1, <3>2, <3>3
    <2> QED
        BY <2>3, <2>5, <2>6 DEF Flushed
<1>2. ASSUME UNCHANGED vars, Saves
      PROVE  FALSE
    BY <1>2 DEF vars, hookVars
<1>3. SessionInv /\ [Next]_vars => [Saves => Whole]_vars
    BY <1>1, <1>2
<1> QED
    BY <1>3, SessionInvHolds, PTL DEF Spec, SaveComplete
=============================================================================
