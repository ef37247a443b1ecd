----------------------------- MODULE Discovery -----------------------------
(***************************************************************************)
(* Network discovery, src/harness/discover.py: discover_candidates probes  *)
(* the candidates from a pool of threads and sorts what has answered.  A   *)
(* candidate is a number, in the order of the hosts' names.                *)
(***************************************************************************)
EXTENDS Integers, Sequences, SequencesExt

CONSTANTS
    CandidateLists,    \* what --cidr and --candidate may amount to
    Scanners,          \* hosts that answer INQUIRY as a scanner
    Malformed,         \* names CgiscsiClient refuses
    Workers            \* of the pool, as asked for
ASSUME DiscoveryAssumption ==
    /\ \A list \in CandidateLists : list \in Seq(Nat)
    /\ Scanners \subseteq Nat /\ Malformed \subseteq Nat /\ Scanners \cap Malformed = {}
    /\ Workers \in Int

VARIABLES
    candidates,
    queued,      \* submitted and not begun, first in first out
    probing,     \* in a thread of the pool
    done,        \* finished, not yet taken from as_completed
    results,     \* in the order taken
    outcome      \* "none", "raising", "raised" or "returned"
discoveryVars == <<candidates, queued, probing, done, results, outcome>>

\* Variant: a host named twice is probed twice.
KeepAll(list) == list
\* The items at these positions, in this order of the positions.
Arranged(items, positions, before) ==
    [n \in 1..Cardinality(positions) |->
        items[CHOOSE p \in positions :
                 Cardinality({i \in positions : <<i, p>> \in before}) = n]]

\* dict.fromkeys: the first of each.
Deduped(list) ==
    LET firsts == {i \in DOMAIN list : \A k \in 1..(i - 1) : list[k] # list[i]}
    IN  Arranged(list, firsts, {o \in firsts \X firsts : o[1] <= o[2]})

\* sorted, which is stable.
Sorted(list) ==
    LET all == DOMAIN list
    IN  Arranged(list, all, {o \in all \X all :
                                \/ list[o[1]] < list[o[2]]
                                \/ list[o[1]] = list[o[2]] /\ o[1] <= o[2]})

DiscoveryInit ==
    /\ candidates \in CandidateLists
    /\ queued = Deduped(candidates)
    /\ probing = <<>> /\ done = <<>> /\ results = <<>> /\ outcome = "none"

PoolSize == IF Workers > 1 THEN Workers ELSE 1

Probe ==
    /\ queued # <<>> /\ Len(probing) < PoolSize
    /\ probing' = Append(probing, Head(queued)) /\ queued' = Tail(queued)
    /\ UNCHANGED <<candidates, done, results, outcome>>

\* Any of the running probes ends.
ProbeEnds ==
    /\ \E i \in DOMAIN probing :
          /\ probing' = RemoveAt(probing, i)
          /\ done' = Append(done, probing[i])
    /\ UNCHANGED <<candidates, queued, results, outcome>>

\* as_completed, in any order: the client is made outside probe_candidate's try, so the name
\* it refuses is raised by future.result(); a probe without an answer is None.
Collect ==
    /\ outcome = "none"
    /\ \E i \in DOMAIN done :
          /\ done' = RemoveAt(done, i)
          /\ outcome' = IF done[i] \in Malformed THEN "raising" ELSE outcome
          /\ results' = IF done[i] \in Scanners THEN Append(results, done[i]) ELSE results
    /\ UNCHANGED <<candidates, queued, probing>>

Idle == queued = <<>> /\ probing = <<>>

Finish ==
    /\ outcome = "none" /\ Idle /\ done = <<>>
    /\ outcome' = "returned" /\ results' = Sorted(results)
    /\ UNCHANGED <<candidates, queued, probing, done>>

\* Leaving the with block waits for every probe that is left.
Raise ==
    /\ outcome = "raising" /\ Idle
    /\ outcome' = "raised"
    /\ UNCHANGED <<candidates, queued, probing, done, results>>

DiscoveryNext == Probe \/ ProbeEnds \/ Collect \/ Finish \/ Raise

DiscoverySpec == DiscoveryInit /\ [][DiscoveryNext]_discoveryVars

----------------------------------------------------------------------------
(* Whatever order the probes end in, a discovery that returns names every    *)
(* scanner among the candidates once and in order; it raises, dropping them  *)
(* all, exactly when a candidate is no host name; and it never has more      *)
(* probes on the network than asked for, nor one left when it ends.          *)
DiscoveryExact ==
    LET hosts == ToSet(candidates) IN
    /\ Len(probing) <= PoolSize
    /\ outcome = "returned" =>
          /\ hosts \cap Malformed = {}
          /\ ToSet(results) = hosts \cap Scanners
          /\ \A i, j \in DOMAIN results : i < j => results[i] < results[j]
    /\ outcome = "raised" => hosts \cap Malformed # {}
    /\ outcome \in {"returned", "raised"} => queued \o probing = <<>>
=============================================================================
