------------------------------- MODULE MCSettle -------------------------------
(* Small instances of what must happen in the end, in one run: the session   *)
(* part is written (SessionPersistence) and polls stop (RemoteSources).  A   *)
(* behaviour is of one part; fairness is that of its own specification.      *)
EXTENDS MCSessionPersistence, RemoteSources

CONSTANTS o1, t1, t2

VARIABLE part

allVars == <<vars, remoteVars, part>>

PartInit == Init /\ RemoteInit /\ part \in {"persist", "remote"}

PersistPart(A) == part = "persist" /\ A /\ UNCHANGED <<remoteVars, part>>
RemotePart(A)  == part = "remote" /\ A /\ UNCHANGED <<vars, part>>

PartNext ==
    \/ /\ part = "persist"
       /\ Next
       /\ UNCHANGED <<remoteVars, part>>
    \/ /\ part = "remote"
       /\ RemoteNext
       /\ UNCHANGED <<vars, part>>

PartFairness ==
    /\ WF_allVars(PersistPart(MicrotaskStep))
    /\ WF_allVars(PersistPart(TimerStep))
    /\ WF_allVars(PersistPart(ReplyStep))
    /\ \A t \in Task : /\ WF_allVars(RemotePart(Respond(t) \/ FetchFails(t)))
                       /\ WF_allVars(RemotePart(LoadIntoDuckDB(t)))
                       /\ WF_allVars(RemotePart(RefreshData(t)))
    /\ WF_allVars(RemotePart(\E t \in Task : Tick(t)))

PartSpec == PartInit /\ [][PartNext]_allVars /\ PartFairness
=============================================================================
