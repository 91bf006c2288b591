--------------------------- MODULE PublishedResult ---------------------------
(***************************************************************************)
(* What a reader of one experiment cell may rely on, whatever the runner    *)
(* does inside: either nothing is published, or one complete set of         *)
(* artifacts is, every one of them computed from the same inputs.  A        *)
(* publication names the inputs its attempt was started under; unless the   *)
(* attempt loads its inputs for itself, those are the ones its artifacts    *)
(* were computed from.  A publication appears in one step, is never edited  *)
(* in place, and only follows a state in which nothing was published.       *)
(***************************************************************************)
CONSTANTS
    Inputs,    \* what a context's digests identify: configuration, lock, parents
    Salts,     \* what differs between two executions under equal inputs
    Artifact,  \* the cell's required artifact keys
    Nothing    \* no publication, or no attempt under way

VARIABLES
    inputs,    \* the inputs now in the workspace
    attempt,   \* the inputs the attempt under way names and computes from, or Nothing
    published  \* what a compatible completion vouches for, or Nothing

pubVars == <<inputs, attempt, published>>

Publication(a) ==
    [ctx : {a.named}, sums : [Artifact -> [inputs : {a.computed}, salt : Salts]]]

Init ==
    /\ inputs \in Inputs
    /\ attempt = Nothing
    /\ published = Nothing

\* The operator or an upstream experiment changes the inputs.
ChangeInputs ==
    /\ inputs' \in Inputs
    /\ UNCHANGED <<attempt, published>>

\* An attempt that is going to load its inputs computes from nothing before it has.
Begin ==
    /\ attempt = Nothing
    /\ \/ attempt' = [named |-> inputs, computed |-> inputs, loads |-> FALSE]
       \/ \E i \in Inputs : attempt' = [named |-> inputs, computed |-> i, loads |-> TRUE]
    /\ UNCHANGED <<inputs, published>>

Load ==
    /\ attempt # Nothing
    /\ attempt.loads
    /\ attempt' = [named |-> attempt.named, computed |-> inputs, loads |-> TRUE]
    /\ UNCHANGED <<inputs, published>>

Publish ==
    /\ attempt # Nothing
    /\ published = Nothing
    /\ published' \in Publication(attempt)
    /\ UNCHANGED <<inputs, attempt>>

\* A recomputation withdraws what it is about to replace; damage to a file
\* withdraws it as well, since the completion then no longer verifies.
Withdraw ==
    /\ published' = Nothing
    /\ UNCHANGED <<inputs, attempt>>

End ==
    /\ attempt' = Nothing
    /\ UNCHANGED <<inputs, published>>

Next == ChangeInputs \/ Begin \/ Load \/ Publish \/ Withdraw \/ End

Spec == Init /\ [][Next]_pubVars
==============================================================================
