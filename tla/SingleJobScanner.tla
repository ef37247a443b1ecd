-------------------------- MODULE SingleJobScanner --------------------------
(***************************************************************************)
(* What the adapter's job manager promises its clients, without threads:   *)
(* scan jobs are admitted one at a time, the open job's pages arrive in    *)
(* page order, clients take each of them once and in that order until the  *)
(* job is withdrawn, and an outcome, once given, stands.                   *)
(***************************************************************************)
EXTENDS Integers, Sequences

CONSTANTS
    Job,     \* the scan jobs
    Page     \* the page numbers

VARIABLES
    phase,      \* of each job: "unborn", "open" or its outcome
    kept,       \* of each job: the pages scanned so far
    taken,      \* of each job: the pages clients have received
    withdrawn   \* of each job: has a client deleted it

scannerVars == <<phase, kept, taken, withdrawn>>

Outcome == {"completed", "canceled", "failed"}

Init ==
    /\ phase = [j \in Job |-> "unborn"]
    /\ kept  = [j \in Job |-> <<>>]
    /\ taken = [j \in Job |-> <<>>]
    /\ withdrawn = [j \in Job |-> FALSE]

Admit(j) ==
    /\ phase[j] = "unborn"
    /\ \A k \in Job : phase[k] # "open"
    /\ phase' = [phase EXCEPT ![j] = "open"]
    /\ UNCHANGED <<kept, taken, withdrawn>>

Scan(j, p) ==
    /\ phase[j] = "open"
    /\ \A i \in DOMAIN kept[j] : kept[j][i] < p
    /\ kept' = [kept EXCEPT ![j] = Append(@, p)]
    /\ UNCHANGED <<phase, taken, withdrawn>>

Take(j) ==
    /\ ~withdrawn[j]
    /\ Len(taken[j]) < Len(kept[j])
    /\ taken' = [taken EXCEPT ![j] = Append(@, kept[j][Len(@) + 1])]
    /\ UNCHANGED <<phase, kept, withdrawn>>

Close(j, outcome) ==
    /\ phase[j] = "open"
    /\ phase' = [phase EXCEPT ![j] = outcome]
    /\ UNCHANGED <<kept, taken, withdrawn>>

Withdraw(j) ==
    /\ phase[j] # "unborn"
    /\ withdrawn' = [withdrawn EXCEPT ![j] = TRUE]
    /\ UNCHANGED <<phase, kept, taken>>

Next ==
    \E j \in Job :
        \/ Admit(j) \/ Take(j) \/ Withdraw(j)
        \/ \E p \in Page : Scan(j, p)
        \/ \E outcome \in Outcome : Close(j, outcome)

Spec == Init /\ [][Next]_scannerVars
=============================================================================
