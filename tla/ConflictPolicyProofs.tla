------------------------ MODULE ConflictPolicyProofs ------------------------
(***************************************************************************)
(* What the conflict policy amounts to, for any set of bindings.  As the   *)
(* session implements the policy (Implements, in DataSessionProofs), it    *)
(* holds of the session under its mapping.                                 *)
(***************************************************************************)
EXTENDS ConflictPolicy, TLAPS

\* Every decision keeps the policy's state well formed.
LEMMA PolicyType == PolicySpec => []PolicyTypeOK
<1>1. PolicyInit => PolicyTypeOK
    BY DEF PolicyInit, PolicyTypeOK
<1>2. PolicyTypeOK /\ [PolicyNext]_policyVars => PolicyTypeOK'
    BY DEF PolicyTypeOK, PolicyNext, policyVars, Moved, Present, Following,
           Define, Remove, Keep, LetGo, Refresh
<1> QED
    BY <1>1, <1>2, PTL DEF PolicySpec

\* What is owed to the user is kept, and no refresh ever wrote it: a promise
\* ends only by a decision on that binding, or with the binding itself.
THEOREM PolicyKeepsPromises == PolicySpec => []NothingLost
<1>1. PolicyInit => NothingLost
    BY DEF PolicyInit, NothingLost
<1>2. PolicyTypeOK /\ NothingLost /\ [PolicyNext]_policyVars => NothingLost'
    <2> SUFFICES ASSUME PolicyTypeOK, NothingLost, [PolicyNext]_policyVars PROVE NothingLost'
        OBVIOUS
    <2> USE DEF NothingLost, PolicyTypeOK, Moved, Present, Following
    <2>1. ASSUME NEW b \in BindingId, Define(b) \/ Remove(b) PROVE NothingLost'
        BY <2>1 DEF Define, Remove
    <2>2. ASSUME NEW S \in SUBSET BindingId, Keep(S) \/ LetGo(S) PROVE NothingLost'
        BY <2>2 DEF Keep, LetGo
    <2>3. ASSUME NEW S \in SUBSET BindingId, Refresh(S) PROVE NothingLost'
        BY <2>3 DEF Refresh
    <2> QED
        BY <2>1, <2>2, <2>3 DEF PolicyNext, policyVars
<1> QED
    BY <1>1, <1>2, PolicyType, PTL DEF PolicySpec
=============================================================================
