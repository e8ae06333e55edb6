---------------------------- MODULE ConflictPolicy ----------------------------
(***************************************************************************)
(* The conflict policy a user of the data plugin relies on, apart from how *)
(* the session keeps it (D-6 and ADR 553; data-core/src/binding.rs, enum   *)
(* Status): a binding follows its source or its value is kept, only an     *)
(* explicit decision moves it between the two, and a refresh writes        *)
(* bindings that follow.  DataSession implements it.                       *)
(***************************************************************************)
CONSTANT BindingId

VARIABLES
    mode,           \* "absent", "following" or "kept"
    owed,           \* the bindings the user was promised to keep
    overwritten     \* those a refresh wrote over all the same

policyVars == <<mode, owed, overwritten>>

PolicyTypeOK ==
    /\ mode \in [BindingId -> {"absent", "following", "kept"}]
    /\ owed \subseteq BindingId
    /\ overwritten \subseteq BindingId

Present   == {b \in BindingId : mode[b] # "absent"}
Following == {b \in BindingId : mode[b] = "following"}

PolicyInit ==
    /\ mode = [b \in BindingId |-> "absent"]
    /\ owed = {}
    /\ overwritten = {}

Moved(S, to) == mode' = [b \in BindingId |-> IF b \in S THEN to ELSE mode[b]]

Define(b) ==
    /\ b \notin Present
    /\ Moved({b}, "following")
    /\ UNCHANGED <<owed, overwritten>>

Remove(b) ==
    /\ b \in Present
    /\ Moved({b}, "absent")
    /\ owed' = owed \ {b}
    /\ UNCHANGED overwritten

\* Pin, edit by hand, apply a data set.
Keep(S) ==
    /\ S \subseteq Present
    /\ Moved(S, "kept")
    /\ owed' = owed \cup S
    /\ UNCHANGED overwritten

\* Relink, lower; or capture a data set, which the code lets release too.
LetGo(S) ==
    /\ S \subseteq Present
    /\ Moved(S, "following")
    /\ owed' = owed \ S
    /\ UNCHANGED overwritten

\* Any lane, any number of its writes taken by the host.
Refresh(S) ==
    /\ S \subseteq Following
    /\ overwritten' = overwritten \cup (S \cap owed)
    /\ UNCHANGED <<mode, owed>>

PolicyNext ==
    \/ \E S \in SUBSET BindingId : Refresh(S)
    \/ \E b \in BindingId : Define(b) \/ Remove(b)
    \/ \E S \in SUBSET BindingId : Keep(S) \/ LetGo(S)

PolicySpec == PolicyInit /\ [][PolicyNext]_policyVars

\* What the policy amounts to: what is owed is what is kept, and nothing kept
\* is ever written over by a refresh.
NothingLost ==
    /\ \A b \in BindingId : b \in owed <=> mode[b] = "kept"
    /\ overwritten = {}
=============================================================================
