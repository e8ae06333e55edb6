--------------------------- MODULE RemoteSources ---------------------------
(***************************************************************************)
(* A remote source of the open document: consent, Load, polling and the    *)
(* on-open refresh (packages/data-bundle/src/session.ts, refresh.ts).      *)
(*                                                                         *)
(* Every fetch is a task that awaits the network, then DuckDB, and keeps   *)
(* the entry object it was started with: the source may be defined again,  *)
(* its consent withdrawn, or another document opened meanwhile.  One       *)
(* source name is modelled, over the origins it may be pointed at.         *)
(***************************************************************************)
EXTENDS Integers, FiniteSets

CONSTANTS
    Origin,         \* the origins a source may be served from
    Task,           \* the fetches that may be in flight
    NoEntry,        \* the document has no such source
    NoData,         \* no table, no content key
    Versions,       \* bound: how often an origin's content changes
    Documents,      \* bound: how many documents are opened
    Redefinitions   \* bound: how often the source is defined

VARIABLES
    openEpoch,  \* the open document
    consented,  \* the origins the user consents to
    entry,      \* the source's entry: [gen, origin, status, contentKey]
    policy,     \* its refresh policy: "manual", "interval" or "onOpen"
    pollTimer,  \* whether its poll timer runs
    busy,       \* IntervalScheduler.busy
    server,     \* what each origin serves now
    table,      \* the source's table in DuckDB: [origin, version, epoch]
    task,       \* the fetches in flight
    defined     \* how many entries were made

remoteVars == <<openEpoch, consented, entry, policy, pollTimer, busy, server, table, task, defined>>

Idle == [phase |-> "idle"]
Free(t) == task[t] = Idle

NewEntry(o) == [gen |-> defined, origin |-> o, status |-> "inert", contentKey |-> NoData]

(* syncPolling: exactly the consented source with an interval is polled. *)
Wanted(e, p, granted) == p = "interval" /\ e # NoEntry /\ e.origin \in granted

Entry == [gen : Nat, origin : Origin, status : {"inert", "loaded", "error"},
          contentKey : Nat \cup {NoData}]

ASSUME EntryAssumption == NoEntry \notin Entry \cup Origin

-----------------------------------------------------------------------------
RemoteInit ==
    /\ openEpoch = 1
    /\ consented = {}
    /\ entry = NoEntry
    /\ policy = "manual"
    /\ pollTimer = FALSE
    /\ busy = FALSE
    /\ server = [o \in Origin |-> 0]
    /\ table = NoData
    /\ task = [t \in Task |-> Idle]
    /\ defined = 0

(* addRemoteSource: inert, whatever the entry it replaces was doing. *)
AddRemoteSource(o) ==
    /\ defined < Redefinitions
    /\ defined' = defined + 1
    /\ entry' = NewEntry(o)
    /\ UNCHANGED <<openEpoch, consented, policy, pollTimer, busy, server, table, task>>

RequestConsent(o) ==
    /\ o \notin consented
    /\ consented' = consented \cup {o}
    /\ UNCHANGED <<openEpoch, entry, policy, pollTimer, busy, server, table, task, defined>>

(* The user withdraws a grant in the host: nothing tells the session. *)
RevokeConsent(o) ==
    /\ o \in consented
    /\ consented' = consented \ {o}
    /\ UNCHANGED <<openEpoch, entry, policy, pollTimer, busy, server, table, task, defined>>

SetRefreshPolicy(p) ==
    /\ entry # NoEntry /\ p # policy
    /\ policy' = p
    /\ pollTimer' = Wanted(entry, p, consented)
    /\ UNCHANGED <<openEpoch, consented, entry, busy, server, table, task, defined>>

-----------------------------------------------------------------------------
(* fetchRemote, one task each: the gate, the answer, the load              *)

Fetch(t, kind) ==
    task' = [task EXCEPT ![t] = [phase |-> "fetching", kind |-> kind, entry |-> entry, epoch |-> openEpoch]]

(* loadRemoteSource: the gate comes first. *)
LoadRemoteSource(t) ==
    /\ Free(t) /\ entry # NoEntry
    /\ IF entry.origin \in consented
       THEN Fetch(t, "load") /\ UNCHANGED <<entry, pollTimer>>
       ELSE /\ entry' = [entry EXCEPT !.status = "inert"]
            /\ pollTimer' = Wanted(entry, policy, consented)
            /\ UNCHANGED task
    /\ UNCHANGED <<openEpoch, consented, policy, busy, server, table, defined>>

\* Mutant of Tick: it does not ask whether the last poll still runs.
TickStacked(t) ==
    /\ pollTimer /\ Free(t) /\ entry # NoEntry
    /\ IF entry.origin \in consented
       THEN Fetch(t, "poll") /\ busy' = TRUE /\ UNCHANGED pollTimer
       ELSE pollTimer' = Wanted(entry, policy, consented) /\ UNCHANGED <<task, busy>>
    /\ UNCHANGED <<openEpoch, consented, entry, policy, server, table, defined>>

\* Mutant of Tick: a poll without consent returns at once.
TickReturns(t) ==
    /\ pollTimer /\ ~busy /\ Free(t) /\ entry # NoEntry
    /\ entry.origin \in consented
    /\ Fetch(t, "poll") /\ busy' = TRUE
    /\ UNCHANGED <<openEpoch, consented, entry, policy, pollTimer, server, table, defined>>

(* A tick of the timer: skipped while the last one runs; a poll whose      *)
(* consent is gone stops the timer instead of fetching. *)
Tick(t) ==
    /\ pollTimer /\ ~busy /\ Free(t) /\ entry # NoEntry
    /\ IF entry.origin \in consented
       THEN Fetch(t, "poll") /\ busy' = TRUE /\ UNCHANGED pollTimer
       ELSE pollTimer' = Wanted(entry, policy, consented) /\ UNCHANGED <<task, busy>>
    /\ UNCHANGED <<openEpoch, consented, entry, policy, server, table, defined>>

Respond(t) ==
    /\ task[t].phase = "fetching"
    /\ task' = [task EXCEPT ![t] = [phase |-> "responded", kind |-> @.kind, entry |-> @.entry, epoch |-> @.epoch,
                                    bytes |-> server[@.entry.origin]]]
    /\ UNCHANGED <<openEpoch, consented, entry, policy, pollTimer, busy, server, table, defined>>

(* What is left of the caller when fetchRemote returns: Load syncs the     *)
(* timers, a poll leaves the scheduler. *)
AfterFetch(t) ==
    /\ pollTimer' = IF task[t].kind = "load" THEN Wanted(entry, policy, consented) ELSE pollTimer
    /\ busy' = IF task[t].kind = "poll" THEN FALSE ELSE busy

IsCurrent(t) == entry # NoEntry /\ entry.gen = task[t].entry.gen

\* The error is kept on the entry; the on-open refresh goes on to the queries.
FetchFails(t) ==
    /\ task[t].phase = "fetching"
    /\ entry' = IF IsCurrent(t) THEN [entry EXCEPT !.status = "error"] ELSE entry
    /\ IF task[t].kind = "onOpen"
       THEN /\ task' = [task EXCEPT ![t].phase = "refreshing"]
            /\ UNCHANGED <<pollTimer, busy>>
       ELSE /\ task' = [task EXCEPT ![t] = Idle]
            /\ AfterFetch(t)
    /\ UNCHANGED <<openEpoch, consented, policy, server, table, defined>>

(* loadIntoDuckDB, define_source and the content key.  The engines are     *)
(* those of the document that is open NOW; the key lands on the entry the  *)
(* task holds.  A poll that saw another content goes on to the queries. *)
LoadIntoDuckDB(t) ==
    /\ task[t].phase = "responded"
    /\ table' = [origin |-> task[t].entry.origin, version |-> task[t].bytes, epoch |-> task[t].epoch]
    /\ entry' = IF IsCurrent(t) THEN [entry EXCEPT !.status = "loaded", !.contentKey = task[t].bytes] ELSE entry
    /\ LET before  == task[t].entry.contentKey
           changed == before # NoData /\ before # task[t].bytes
       IN  IF task[t].kind = "onOpen" \/ (task[t].kind = "poll" /\ changed)
           THEN /\ task' = [task EXCEPT ![t].phase = "refreshing"]
                /\ UNCHANGED <<pollTimer, busy>>
           ELSE /\ task' = [task EXCEPT ![t] = Idle]
                /\ AfterFetch(t)
    /\ UNCHANGED <<openEpoch, consented, policy, server, defined>>

\* The document's queries run again, over whatever table is there; what they
\* deliver is DataSession's business.
RefreshData(t) ==
    /\ task[t].phase = "refreshing"
    /\ task' = [task EXCEPT ![t] = Idle]
    /\ AfterFetch(t)
    /\ UNCHANGED <<openEpoch, consented, entry, policy, server, table, defined>>

-----------------------------------------------------------------------------
ServerChanges(o) ==
    /\ server[o] < Versions
    /\ server' = [server EXCEPT ![o] = @ + 1]
    /\ UNCHANGED <<openEpoch, consented, entry, policy, pollTimer, busy, table, task, defined>>

(* Another document opens: resetState drops the session's maps and the     *)
(* engines and stops every timer, the restore reads the document's own     *)
(* source and policy and acts on them.  resetState waits for the last      *)
(* restore, its on-open fetch included; a load or a poll in flight goes on. *)
OpenDocument(o, p, t) ==
    /\ openEpoch < Documents
    /\ \A u \in Task : ~Free(u) => task[u].kind # "onOpen"
    /\ openEpoch' = openEpoch + 1
    /\ entry' = IF o = NoEntry THEN NoEntry ELSE NewEntry(o)
    /\ defined' = defined + 1
    /\ policy' = IF o = NoEntry THEN "manual" ELSE p
    /\ pollTimer' = Wanted(entry', policy', consented)
    /\ table' = NoData
    /\ IF policy' = "onOpen" /\ o \in consented
       THEN /\ Free(t)
            /\ task' = [task EXCEPT ![t] = [phase |-> "fetching", kind |-> "onOpen",
                                            entry |-> entry', epoch |-> openEpoch']]
       ELSE UNCHANGED task
    /\ UNCHANGED <<consented, busy, server>>

RemoteNext ==
    \/ \E o \in Origin : AddRemoteSource(o) \/ RequestConsent(o) \/ RevokeConsent(o) \/ ServerChanges(o)
    \/ \E p \in {"manual", "interval"} : SetRefreshPolicy(p)
    \/ \E t \in Task : \/ LoadRemoteSource(t) \/ Tick(t) \/ Respond(t) \/ FetchFails(t)
                       \/ LoadIntoDuckDB(t) \/ RefreshData(t)
    \/ \E o \in Origin \cup {NoEntry}, p \in {"interval", "onOpen"}, t \in Task : OpenDocument(o, p, t)

(* setInterval fires and a fetch settles, as the platform promises. *)
RemoteFairness ==
    /\ \A t \in Task : WF_remoteVars(Respond(t) \/ FetchFails(t))
                       /\ WF_remoteVars(LoadIntoDuckDB(t)) /\ WF_remoteVars(RefreshData(t))
    /\ WF_remoteVars(\E t \in Task : Tick(t))

RemoteSpec == RemoteInit /\ [][RemoteNext]_remoteVars /\ RemoteFairness

-----------------------------------------------------------------------------
(* A slow source never stacks fetches (refresh.ts): however often its      *)
(* timer fires, is replaced, or the document changes, one poll runs. *)
OnePollAtATime == Cardinality({t \in Task : task[t].phase # "idle" /\ task[t].kind = "poll"}) <= 1

(* A timer runs only for a source the open document has, under a policy    *)
(* that asks for it: no timer outlives its document or its policy. *)
TimersFollowPolicies == pollTimer => entry # NoEntry /\ policy = "interval"

(* Together: the timers and the polls they start follow the open document. *)
PollingSound == OnePollAtATime /\ TimersFollowPolicies

(* Polling of a source whose consent is gone stops (pollRemote's comment), *)
(* although nothing tells the session: the next tick finds out. *)
PollingStops == (pollTimer /\ entry # NoEntry /\ entry.origin \notin consented)
                    ~> (~pollTimer \/ entry = NoEntry \/ entry.origin \in consented)

(* "Drop everything this session holds for the current document" (the      *)
(* comment of resetState, session.ts): a document's tables are its own. *)
TablesOfThisDocument == table # NoData => table.epoch = openEpoch
=============================================================================
