------------------------- MODULE MCSessionPersistence -------------------------
(* Small instances of SessionPersistence for TLC. *)
EXTENDS SessionPersistence, TLC

CONSTANTS docA, docB, a1, bb, s1, s2

\* Document A was saved with binding a1 over file s1; B is new.
SavedA == docA :> [part |-> [recipe |-> {a1}, data |-> {s1}], data |-> {s1}]
          @@ docB :> [part |-> NoPart, data |-> {}]
HomeAB == a1 :> docA @@ bb :> docB
=============================================================================
