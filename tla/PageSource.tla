----------------------------- MODULE PageSource -----------------------------
(***************************************************************************)
(* What a scan backend promises the worker thread that iterates over it:   *)
(* pages come one at a time, at most Limit of them, none is started once   *)
(* the cancel event is set, and the iteration ends or raises.  The live    *)
(* backend (CanonBackend) implements it, and the job manager (AirscanJobs) *)
(* drives its backend as one.                                              *)
(***************************************************************************)
EXTENDS Integers

CONSTANT Limit

VARIABLES phase, number, canceled

sourceVars == <<phase, number, canceled>>

Init == phase = "idle" /\ number = 0 /\ canceled = FALSE

\* The event may be set before the first page is asked for.
Begin ==
    /\ phase = "idle"
    /\ phase' = "fetch" /\ number' = 0 /\ canceled' \in BOOLEAN

Cancel ==
    /\ phase # "idle"
    /\ canceled' = TRUE
    /\ UNCHANGED <<phase, number>>

Take ==
    /\ phase = "fetch" /\ ~canceled /\ number < Limit
    /\ phase' = "render" /\ number' = number + 1
    /\ UNCHANGED canceled

Yield ==
    /\ phase = "render" /\ phase' = "yielded"
    /\ UNCHANGED <<number, canceled>>

Resume ==
    /\ phase = "yielded" /\ phase' = "fetch"
    /\ UNCHANGED <<number, canceled>>

\* Exhausted or raised in "fetch", raised in "render", closed when "yielded".
Stop ==
    /\ phase \in {"fetch", "render", "yielded"}
    /\ phase' = "idle" /\ number' = 0 /\ canceled' = FALSE

Next == Begin \/ Cancel \/ Take \/ Yield \/ Resume \/ Stop

Spec == Init /\ [][Next]_sourceVars
=============================================================================
