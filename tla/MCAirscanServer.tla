-------------------------- MODULE MCAirscanServer --------------------------
(***************************************************************************)
(* The adapter for TLC.  Everything at once is too much to enumerate, so a *)
(* behaviour belongs to one of six scenarios, chosen at the start, each    *)
(* of which bounds what the others leave free.                             *)
(***************************************************************************)
EXTENDS AirscanServer, TLC

CONSTANT Scenarios    \* those a run goes through
VARIABLE scenario

\* slot:     two jobs and two DELETEs at once race for the slot.
\* overlap:  two jobs with a page each, the second begun behind a DELETE.
\* eviction: three jobs, with MAX_RETAINED_JOBS = 2 one to forget, and a DELETE.
\* status:   two jobs remembered, a DELETE, and the requests that read them.
\* bytes:    one job of two pages, two DELETEs at once, ScanImageInfo.
\* delivery: one job of all pages, two clients fetching them, a DELETE.
Bounds ==
    LET Of(jobs_, pages_, deletes_, readers_, pollers_, blanks_) ==
            [made |-> jobs_, pulled |-> pages_, deletes |-> deletes_,
             readers |-> readers_, pollers |-> pollers_, blanks |-> blanks_]
    IN [slot     |-> Of(2, 0, 2, 0, 0, {FALSE}),
        overlap  |-> Of(2, 1, 1, 0, 0, {FALSE}),
        eviction |-> Of(3, 0, 1, 0, 0, {FALSE}),
        status   |-> Of(2, 0, 1, 0, 1, {FALSE}),
        bytes    |-> Of(1, 2, 2, 0, 1, {FALSE}),
        delivery |-> Of(1, MaxPages + 1, 1, 2, 0, BOOLEAN)]

Busy(place) == {t \in DOMAIN place : place[t] # "idle"}

\* Where no client asks for blank page detection, which sides are blank makes
\* no difference.
Within ==
    LET bound == Bounds[scenario] IN
    /\ made <= bound.made
    /\ \A j \in Jobs :
          /\ pulled[j] <= bound.pulled
          /\ {detect[j], blank[j]} \subseteq bound.blanks
    /\ Cardinality(Busy(dpc)) <= bound.deletes
    /\ Cardinality(Busy(rpc)) <= bound.readers
    /\ Cardinality(Busy(ppc)) <= bound.pollers

MCInit == ServerInit /\ scenario \in Scenarios
MCNext == ServerNext /\ UNCHANGED scenario /\ Within'
MCSpec == MCInit /\ [][MCNext]_<<serverVars, scenario>>

\* A worker or a DELETE that a bound keeps from one step has another to take.
FairMCSpec == MCSpec /\ Fairness

\* Request threads of one kind are interchangeable.
MCThreadSymmetry ==
    Permutations(Deleters) \cup Permutations(Readers) \cup Permutations(Pollers)
=============================================================================
