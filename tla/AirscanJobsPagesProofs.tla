----------------------- MODULE AirscanJobsPagesProofs -----------------------
(***************************************************************************)
(* What becomes of a job's pages, its bytes and its outcome, for every     *)
(* number of jobs, pages, threads and retained jobs: pages are conserved,  *)
(* counted and ordered, their bytes live as long as the worker, the end a  *)
(* client is told is the end, cancelling wins, the manager implements the  *)
(* abstract single-job scanner, it drives and admits what the page source  *)
(* that stands for the backend does, and no worker can run for ever.       *)
(***************************************************************************)
EXTENDS AirscanJobsProofs, SequenceTheorems, FiniteSetTheorems

----------------------------------------------------------------------------
\* The pages the worker of job j has kept, as a set.
Kept(j) == {retained_pages[j][i] : i \in DOMAIN retained_pages[j]}

\* The cancel event and the outcome "completed" exclude each other, and only a
\* completed job is handed to the OCR side effect.
CancelInv(j) ==
    /\ cancel_event[j] => state[j] # "completed"
    /\ wpc[j] = "ocr" => state[j] = "completed"

\* The bytes of every kept page are there until the worker has gone.
BytesInv(j) == retained_bytes[j] = IF wpc[j] = "dead" THEN {} ELSE Kept(j)

\* Every page pulled is kept, dropped as blank, or (one of them) in the
\* worker's hand.
Counted(j, inHand) == Len(retained_pages[j]) + dropped[j] + inHand = pulled[j]

CountInv(j) ==
    /\ wpc[j] \in {"none", "unstarted", "begin", "open", "fetch"} => Counted(j, 0)
    /\ wpc[j] \in {"render", "check", "append"} => Counted(j, 1)
    /\ wpc[j] = "finish" /\ ~cancel_event[j] => Counted(j, 0)
    /\ state[j] = "completed" => Counted(j, 0)

\* The pages kept are in page order, and the page in the worker's hand comes
\* after all of them.
OrderInv(j) ==
    LET kept == retained_pages[j] IN
    /\ \A i \in DOMAIN kept :
          /\ kept[i] <= pulled[j]
          /\ wpc[j] \in {"render", "check", "append"} => kept[i] < pulled[j]
    /\ \A i \in DOMAIN kept : \A k \in DOMAIN kept : i < k => kept[i] < kept[k]

\* A client was told the end only when no page was left and none could come.
EndInv(j) == ended[j] /\ ~deleted[j] => pages[j] = <<>> /\ terminal(j)

\* What was handed out and what is queued are what the worker kept.
Conserved(j) == ~deleted[j] => delivered[j] \o pages[j] = retained_pages[j]

JobInv(j) ==
    /\ CancelInv(j) /\ BytesInv(j) /\ CountInv(j) /\ OrderInv(j) /\ EndInv(j)
    /\ Conserved(j)

\* A NextDocument that has passed its lookup serves a job; a DELETE releases
\* bytes only when it found the worker gone.
RequestInv ==
    /\ \A r \in Readers : rpc[r] = "serve" => rjob[r] \in Jobs
    /\ \A d \in Deleters : dpc[d] = "release" => worker_exited[d]

PagesInv == (\A j \in Jobs : JobInv(j)) /\ RequestInv /\ RetentionBounded

----------------------------------------------------------------------------
\* Facts about sequences and sets that the steps need.

(* A page appended to the queue is appended to what is handed out and queued. *)
LEMMA AppendToConcat ==
  ASSUME NEW S, NEW s \in Seq(S), NEW t \in Seq(S), NEW e \in S
  PROVE  s \o Append(t, e) = Append(s \o t, e)
  <1>1. Append(t, e) = t \o <<e>> /\ <<e>> \in Seq(S)
    BY AppendIsConcat
  <1>2. s \o t \in Seq(S) /\ Append(s \o t, e) = (s \o t) \o <<e>>
    BY ConcatProperties, AppendIsConcat
  <1>3. (s \o t) \o <<e>> = s \o (t \o <<e>>)
    BY <1>1, ConcatAssociative
  <1>4. QED BY <1>1, <1>2, <1>3

(* Handing out the first queued page moves it, and loses or repeats nothing.  *)
LEMMA HeadMoves ==
  ASSUME NEW S, NEW s \in Seq(S), NEW t \in Seq(S), t # <<>>
  PROVE  /\ Head(t) \in S /\ Tail(t) \in Seq(S)
         /\ Append(s, Head(t)) \o Tail(t) = s \o t
  <1>1. /\ Head(t) \in S /\ Tail(t) \in Seq(S)
        /\ Len(Tail(t)) = Len(t) - 1
        /\ \A i \in 1 .. Len(Tail(t)) : Tail(t)[i] = t[i + 1]
    BY HeadTailProperties
  <1>2. Head(t) = t[1] /\ Len(t) \in Nat \ {0}
    BY EmptySeq
  <1>3. /\ Append(s, Head(t)) \in Seq(S)
        /\ Len(Append(s, Head(t))) = Len(s) + 1
        /\ \A i \in 1 .. Len(s) : Append(s, Head(t))[i] = s[i]
        /\ Append(s, Head(t))[Len(s) + 1] = Head(t)
        /\ Len(s) \in Nat
    BY <1>1, AppendProperties, LenProperties
  <1> DEFINE left == Append(s, Head(t)) \o Tail(t)
             right == s \o t
  <1>4. /\ left \in Seq(S) /\ Len(left) = Len(s) + Len(t)
        /\ \A i \in 1 .. Len(s) + Len(t) :
              left[i] = IF i <= Len(s) + 1 THEN Append(s, Head(t))[i]
                        ELSE Tail(t)[i - (Len(s) + 1)]
    BY <1>1, <1>2, <1>3, ConcatProperties
  <1>5. /\ right \in Seq(S) /\ Len(right) = Len(s) + Len(t)
        /\ \A i \in 1 .. Len(s) + Len(t) :
              right[i] = IF i <= Len(s) THEN s[i] ELSE t[i - Len(s)]
    BY ConcatProperties
  <1> HIDE DEF left, right
  <1>6. ASSUME NEW i \in 1 .. Len(s) + Len(t) PROVE left[i] = right[i]
    <2>1. CASE i <= Len(s)
      BY <1>3, <1>4, <1>5, <2>1
    <2>2. CASE i = Len(s) + 1
      BY <1>2, <1>3, <1>4, <1>5, <2>2
    <2>3. CASE i > Len(s) + 1
      <3>1. i - (Len(s) + 1) \in 1 .. Len(Tail(t))
        BY <1>1, <1>2, <1>3, <2>3
      <3>2. left[i] = t[(i - (Len(s) + 1)) + 1]
        BY <1>1, <1>2, <1>3, <1>4, <2>3, <3>1
      <3>3. QED BY <1>2, <1>3, <1>5, <2>3, <3>2
    <2>4. QED BY <1>2, <1>3, <2>1, <2>2, <2>3
  <1>7. left = right
    BY <1>3, <1>4, <1>5, <1>6, SeqEqual
  <1>8. QED BY <1>1, <1>7 DEF left, right

(* Appending a page adds it to the set of pages.                              *)
LEMMA AppendedElements ==
  ASSUME NEW S, NEW s \in Seq(S), NEW e \in S
  PROVE  {Append(s, e)[i] : i \in DOMAIN Append(s, e)} = {s[i] : i \in DOMAIN s} \cup {e}
  <1>1. /\ DOMAIN s = 1 .. Len(s) /\ Len(s) \in Nat
        /\ DOMAIN Append(s, e) = 1 .. (Len(s) + 1)
        /\ \A i \in 1 .. Len(s) : Append(s, e)[i] = s[i]
        /\ Append(s, e)[Len(s) + 1] = e
    BY AppendProperties, LenProperties
  <1>2. \A i \in 1 .. (Len(s) + 1) : i \in 1 .. Len(s) \/ i = Len(s) + 1
    BY <1>1
  <1>3. 1 .. Len(s) \subseteq 1 .. (Len(s) + 1) /\ Len(s) + 1 \in 1 .. (Len(s) + 1)
    BY <1>1
  <1>4. QED BY <1>1, <1>2, <1>3

(* None of a set's jobs is among its first n when n is not positive.          *)
LEMMA NoneOldest ==
  ASSUME NEW S, IsFiniteSet(S), NEW n \in Int, n <= 0
  PROVE  OldestFirst(S, n) = {}
  <1>1. ASSUME NEW j \in S PROVE ~(Cardinality({k \in S : k < j}) < n)
    <2>1. Cardinality({k \in S : k < j}) \in Nat
      BY FS_Subset, FS_CardinalityType
    <2>2. QED BY <2>1
  <1>2. QED BY <1>1 DEF OldestFirst

(* The first job of a set is its smallest.                                    *)
LEMMA OneOldest ==
  ASSUME NEW S, IsFiniteSet(S), S \subseteq Int, NEW lo \in S, \A k \in S : lo <= k
  PROVE  OldestFirst(S, 1) = {lo}
  <1>1. ASSUME NEW j \in S
        PROVE  Cardinality({k \in S : k < j}) < 1 <=> j = lo
    <2> DEFINE below == {k \in S : k < j}
    <2>1. /\ IsFiniteSet(below) /\ Cardinality(below) \in Nat
          /\ Cardinality(below) = 0 <=> below = {}
      <3>1. IsFiniteSet(below) BY FS_Subset
      <3>2. QED BY <3>1, FS_CardinalityType, FS_EmptySet
    <2>2. below = {} <=> j = lo
      <3>1. j \in Int /\ lo \in Int /\ lo <= j OBVIOUS
      <3>2. ASSUME j # lo PROVE lo \in below BY <3>1, <3>2
      <3>3. ASSUME j = lo, NEW k \in below PROVE FALSE
        <4>1. k \in Int /\ k < lo /\ lo <= k BY <3>3
        <4>2. QED BY <3>1, <4>1
      <3> HIDE DEF below
      <3>4. QED BY <3>2, <3>3
    <2> HIDE DEF below
    <2>3. Cardinality(below) < 1 <=> j = lo
      BY <2>1, <2>2
    <2>4. QED BY <2>3 DEF below
  <1>2. QED BY <1>1 DEF OldestFirst

(* Once MAX_RETAINED_JOBS jobs are remembered, a POST evicts the oldest one,  *)
(* and before that none, if all the jobs before the new one are terminal.     *)
LEMMA KeepsTheLatest ==
  ASSUME NEW n \in Nat, NEW known,
         known = {j \in 1 .. n + 1 : n - j < MAX_RETAINED_JOBS},
         \A j \in known \ {n + 1} : terminal(j)
  PROVE  known \ Evicted(known, n + 1) =
             {j \in 1 .. n + 1 : n + 1 - j < MAX_RETAINED_JOBS}
  <1> DEFINE old == known \ {n + 1}
             lo == n - MAX_RETAINED_JOBS + 1
  <1>0. MAX_RETAINED_JOBS \in Nat \ {0}
    BY ConstantsAssumption
  <1>1. Evicted(known, n + 1) = OldestFirst(old, Cardinality(known) - MAX_RETAINED_JOBS)
    <2>1. {j \in known \ {n + 1} : terminal(j)} = old
      OBVIOUS
    <2>2. QED BY <2>1 DEF Evicted
  <1>2. IsFiniteSet(old)
    <2>1. IsFiniteSet(1 .. n + 1) BY FS_Interval
    <2>2. old \in SUBSET (1 .. n + 1) OBVIOUS
    <2>3. QED BY <2>1, <2>2, FS_Subset
  <1>3. CASE n < MAX_RETAINED_JOBS
    <2>1. known = 1 .. n + 1
      BY <1>0, <1>3
    <2>2. Cardinality(known) = n + 1
      <3>1. Cardinality(1 .. n + 1) = n + 1 BY FS_Interval
      <3>2. QED BY <2>1, <3>1
    <2>3. Cardinality(known) - MAX_RETAINED_JOBS \in Int
          /\ Cardinality(known) - MAX_RETAINED_JOBS <= 0
      BY <1>0, <1>3, <2>2
    <2>4. Evicted(known, n + 1) = {}
      BY <1>1, <1>2, <2>3, NoneOldest
    <2>5. QED BY <1>0, <1>3, <2>1, <2>4
  <1>4. CASE n >= MAX_RETAINED_JOBS
    <2>1. known = lo .. n + 1 /\ lo \in Nat \ {0} /\ lo <= n
      BY <1>0, <1>4
    <2>2. Cardinality(known) = MAX_RETAINED_JOBS + 1
      <3>1. Cardinality(lo .. n + 1) = (n + 1) - lo + 1
        BY <2>1, FS_Interval
      <3>2. (n + 1) - lo + 1 = MAX_RETAINED_JOBS + 1 BY <1>0
      <3> HIDE DEF lo
      <3>3. Cardinality(known) = Cardinality(lo .. n + 1) BY <2>1
      <3>4. QED BY <3>1, <3>2, <3>3
    <2>3. Cardinality(known) - MAX_RETAINED_JOBS = 1
      BY <1>0, <2>2
    <2>4. old \subseteq Int /\ lo \in old /\ \A k \in old : lo <= k
      BY <2>1
    <2>5. OldestFirst(old, 1) = {lo}
      BY <1>2, <2>4, OneOldest
    <2>6. Evicted(known, n + 1) = {lo}
      BY <1>1, <2>3, <2>5
    <2>7. QED BY <1>0, <2>1, <2>6
  <1>5. QED BY <1>0, <1>3, <1>4

----------------------------------------------------------------------------
(* Nothing is scanned, handed out or remembered at the start.                 *)
LEMMA InitPagesInv == Init => PagesInv
  <1> SUFFICES ASSUME Init PROVE PagesInv
    OBVIOUS
  <1> USE DEF Init
  <1>1. ASSUME NEW j \in Jobs PROVE JobInv(j)
    <2>1. Kept(j) = {} BY DEF Kept
    <2>2. CancelInv(j) /\ BytesInv(j) /\ EndInv(j)
      BY <2>1 DEF CancelInv, BytesInv, EndInv
    <2>3. CountInv(j) /\ OrderInv(j) /\ Conserved(j)
      BY DEF CountInv, Counted, OrderInv, Conserved
    <2>4. QED BY <2>2, <2>3 DEF JobInv
  <1>2. RequestInv
    BY DEF RequestInv
  <1>3. RetentionBounded
    BY ConstantsAssumption DEF RetentionBounded, NoJob
  <1>4. QED BY <1>1, <1>2, <1>3 DEF PagesInv

(* A POST touches no page, and evicts to the bound.                           *)
LEMMA CreatePagesInv ==
  ASSUME TypeOK, SlotInv, PagesInv, NEW started \in BOOLEAN, CreateJob(started)
  PROVE  PagesInv'
  <1> DEFINE new == made + 1
  <1>1. new \in Jobs /\ made' = new /\ active' = new
    BY ConstantsAssumption DEF CreateJob, TypeOK, ManagerTypeOK, Jobs
  <1>2. state[new] = "unborn" /\ wpc[new] = "none"
    BY <1>1 DEF SlotInv, BirthInv, TypeOK, ManagerTypeOK, Jobs
  <1>3. \A j \in Jobs :
          /\ state'[j] = IF j = new THEN "created" ELSE state[j]
          /\ wpc'[j] = IF j = new THEN IF started THEN "begin" ELSE "unstarted"
                       ELSE wpc[j]
    BY <1>1 DEF CreateJob, TypeOK, StateTypeOK, WorkerTypeOK
  <1>4. UNCHANGED <<cancel_event, deleted, dropped, pages, retained_pages, retained_bytes,
                    pulled, dpc, worker_exited, rpc, rjob, delivered, ended>>
    BY DEF CreateJob, pageVars, scanVars, deleteVars, readVars
  <1>5. ASSUME NEW j \in Jobs PROVE JobInv(j)'
    <2>1. JobInv(j) BY DEF PagesInv
    <2>2. Kept(j)' = Kept(j) BY <1>4 DEF Kept
    <2>3. CancelInv(j)' /\ BytesInv(j)'
      BY <1>2, <1>3, <1>4, <2>1, <2>2 DEF JobInv, CancelInv, BytesInv
    <2>4. CountInv(j)' /\ OrderInv(j)'
      BY <1>2, <1>3, <1>4, <2>1 DEF JobInv, CountInv, Counted, OrderInv
    <2>5. EndInv(j)' /\ Conserved(j)'
      BY <1>2, <1>3, <1>4, <2>1 DEF JobInv, EndInv, Conserved, terminal, Finished
    <2>6. QED BY <2>3, <2>4, <2>5 DEF JobInv
  <1>6. RequestInv'
    BY <1>4 DEF PagesInv, RequestInv
  <1>7. RetentionBounded'
    <2> DEFINE known == jobs \cup {new}
    <2>1. \A j \in jobs : terminal(j)
      BY DEF CreateJob, SlotFree, SlotInv, OneJobAtATime, BirthInv, TypeOK,
             ManagerTypeOK, StateTypeOK, terminal, InProgress, Finished, NoJob, Jobs
    <2>2. known = {j \in 1 .. made + 1 : made - j < MAX_RETAINED_JOBS} /\ made \in Nat
      <3>1. made \in Nat /\ MAX_RETAINED_JOBS \in Nat \ {0}
        BY ConstantsAssumption DEF TypeOK, ManagerTypeOK
      <3>2. jobs = {j \in 1 .. made : made - j < MAX_RETAINED_JOBS}
        BY DEF PagesInv, RetentionBounded
      <3>3. \A j : j \in 1 .. made + 1 <=> j \in 1 .. made \/ j = made + 1
        BY <3>1
      <3>4. made - (made + 1) < MAX_RETAINED_JOBS
        BY <3>1
      <3>5. QED BY <3>1, <3>2, <3>3, <3>4
    <2>3. \A j \in known \ {new} : terminal(j)
      BY <2>1
    <2>4. jobs' = known \ Evicted(known, new)
      BY DEF CreateJob
    <2> HIDE DEF known
    <2>5. jobs' = {j \in 1 .. new : new - j < MAX_RETAINED_JOBS}
      <3>1. known \ Evicted(known, made + 1) =
              {j \in 1 .. made + 1 : made + 1 - j < MAX_RETAINED_JOBS}
        <4> HIDE DEF new
        <4>1. \A j \in known \ {made + 1} : terminal(j)
          BY <2>3 DEF new
        <4>2. QED BY <2>2, <4>1, KeepsTheLatest
      <3>2. jobs' = {j \in 1 .. made + 1 : made + 1 - j < MAX_RETAINED_JOBS}
        BY <2>4, <3>1
      <3>3. QED BY <2>2, <3>2
    <2>6. new \in jobs'
      BY <1>1, <2>5, ConstantsAssumption DEF Jobs
    <2>7. QED BY <1>1, <2>5, <2>6 DEF RetentionBounded
  <1>8. QED BY <1>5, <1>6, <1>7 DEF PagesInv

\* A step of job j's worker that touches no page: where it starts and ends, and
\* what becomes of the job's state.
PagesStay(j, from, to, now) ==
    /\ WorkerStep(j, from, to)
    /\ state' = [state EXCEPT ![j] = now]
    /\ UNCHANGED <<pageVars, dropped, pulled>>

\* The outcome the end of the loop or an exception gives job j.
OutcomeFrom(j, from) ==
    IF from = "fail" THEN "failed"
    ELSE IF cancel_event[j] THEN "canceled" ELSE "completed"

(* Four steps of a worker touch the pages; here are the others.               *)
LEMMA WorkerPageMove ==
  ASSUME TypeOK, NEW j \in Jobs, Worker(j)
  PROVE
    \/ BackendTakePage(j) \/ WorkerDropBlank(j) \/ WorkerAppend(j) \/ WorkerRelease(j)
    \/ PagesStay(j, "begin", "open", "processing")
    \/ PagesStay(j, "open", "fetch", state[j])
    \/ PagesStay(j, "render", "check", state[j])
    \/ PagesStay(j, "check", "append", state[j])
    \/ PagesStay(j, "fetch", "finish", state[j])
    \/ PagesStay(j, "check", "finish", state[j]) /\ cancel_event[j]
    \/ \E from \in {"fetch", "render"} : PagesStay(j, from, "fail", state[j])
    \/ \E from \in {"finish", "fail"} :
         PagesStay(j, from, "clear", OutcomeFrom(j, from))
    \/ PagesStay(j, "clear", "post", state[j])
    \/ \E to \in {"ocr", "release", "dead"} :
         /\ PagesStay(j, "post", to, state[j])
         /\ to = "ocr" => state[j] = "completed"
         /\ to = "dead" => ~terminal(j)
    \/ PagesStay(j, "ocr", "release", state[j])
  <1> USE DEF PagesStay, jobVars, scanVars, TypeOK, StateTypeOK
  <1>1. CASE WorkerBegin(j) BY <1>1 DEF WorkerBegin
  <1>2. CASE BackendOpen(j) BY <1>2 DEF BackendOpen
  <1>3. CASE BackendYield(j) BY <1>3 DEF BackendYield
  <1>4. CASE BackendExhausted(j) BY <1>4 DEF BackendExhausted
  <1>5. CASE BackendRaises(j) BY <1>5 DEF BackendRaises, RaiseOwnedBy
  <1>6. CASE WorkerLeaveLoop(j) BY <1>6 DEF WorkerLeaveLoop
  <1>7. CASE WorkerKeepPage(j) BY <1>7 DEF WorkerKeepPage
  <1>8. CASE WorkerFinish(j) BY <1>8 DEF WorkerFinish, EndAs, OutcomeFrom
  <1>9. CASE WorkerFail(j) BY <1>9 DEF WorkerFail, EndAs, OutcomeFrom
  <1>10. CASE WorkerClear(j) BY <1>10 DEF WorkerClear
  <1>11. CASE WorkerPost(j) BY <1>11 DEF WorkerPost, HasOcrWork
  <1>12. CASE WorkerOcr(j) BY <1>12 DEF WorkerOcr
  <1>13. QED
    BY <1>1, <1>2, <1>3, <1>4, <1>5, <1>6, <1>7, <1>8, <1>9, <1>10, <1>11, <1>12
    DEF Worker

\* What such steps have in common: the cancel event rules out "completed", only
\* a completed job is handed to OCR, an outcome stands, no page comes into the
\* worker's hand or leaves it, and a loop that was not canceled ends with an
\* empty feeder.
Orderly(j, from, to, now) ==
    /\ now = "completed" => Counted(j, 0) /\ ~cancel_event[j]
    /\ to = "ocr" => now = "completed"
    /\ terminal(j) => now \in Finished
    /\ to \in {"open", "fetch"} => from \in {"begin", "open"}
    /\ to \in {"render", "check", "append"} => from \in {"render", "check", "append"}
    /\ to = "finish" => from = "fetch" \/ cancel_event[j]
    /\ from # "dead" /\ to \notin {"none", "unstarted", "begin", "dead"}

(* A worker's orderly step that touches no page keeps what is known of its    *)
(* job.                                                                       *)
LEMMA OrderlyKeepsJob ==
  ASSUME TypeOK, NEW j \in Jobs, JobInv(j), NEW from, NEW to, NEW now,
         PagesStay(j, from, to, now), Orderly(j, from, to, now)
  PROVE  JobInv(j)'
  <1>1. /\ wpc[j] = from /\ wpc'[j] = to /\ state'[j] = now
        /\ UNCHANGED <<retained_pages, pages, retained_bytes, dropped, pulled, delivered,
                       deleted, ended, cancel_event>>
    BY DEF PagesStay, WorkerStep, pageVars, readVars, TypeOK, StateTypeOK, WorkerTypeOK
  <1>2. Kept(j)' = Kept(j) /\ \A n : Counted(j, n)' <=> Counted(j, n)
    BY <1>1 DEF Kept, Counted
  <1>3. CancelInv(j)' /\ BytesInv(j)'
    BY <1>1, <1>2 DEF Orderly, JobInv, CancelInv, BytesInv
  <1>4. CountInv(j)'
    BY <1>1, <1>2 DEF Orderly, JobInv, CountInv
  <1>5. OrderInv(j)'
    BY <1>1 DEF Orderly, JobInv, OrderInv
  <1>6. EndInv(j)' /\ Conserved(j)'
    BY <1>1 DEF Orderly, JobInv, EndInv, Conserved, terminal
  <1>7. QED BY <1>3, <1>4, <1>5, <1>6 DEF JobInv

(* All steps that touch no page are orderly.                                  *)
LEMMA StayJobInv ==
  ASSUME TypeOK, SlotInv, NEW j \in Jobs, JobInv(j), Worker(j),
         ~BackendTakePage(j), ~WorkerDropBlank(j), ~WorkerAppend(j), ~WorkerRelease(j)
  PROVE  JobInv(j)'
  <1>0. /\ wpc[j] \in Running => state[j] \in InProgress
        /\ wpc[j] \in Ending => state[j] \in Finished
    BY DEF SlotInv, PlaceInv
  <1> DEFINE Fits(from, to, now) ==
               PagesStay(j, from, to, now) /\ Orderly(j, from, to, now)
  <1> USE DEF Orderly, PagesStay, WorkerStep, JobInv, CancelInv, CountInv, terminal,
              InProgress, Finished, Running, Scanning, Ending
  <1>1. CASE PagesStay(j, "begin", "open", "processing")
    <2>1. Fits("begin", "open", "processing") BY <1>0, <1>1
    <2>2. QED BY <2>1, OrderlyKeepsJob
  <1>2. CASE PagesStay(j, "open", "fetch", state[j])
    <2>1. Fits("open", "fetch", state[j]) BY <1>0, <1>2
    <2>2. QED BY <2>1, OrderlyKeepsJob
  <1>3. CASE PagesStay(j, "render", "check", state[j])
    <2>1. Fits("render", "check", state[j]) BY <1>0, <1>3
    <2>2. QED BY <2>1, OrderlyKeepsJob
  <1>4. CASE PagesStay(j, "check", "append", state[j])
    <2>1. Fits("check", "append", state[j]) BY <1>0, <1>4
    <2>2. QED BY <2>1, OrderlyKeepsJob
  <1>5. CASE PagesStay(j, "fetch", "finish", state[j])
    <2>1. Fits("fetch", "finish", state[j]) BY <1>0, <1>5
    <2>2. QED BY <2>1, OrderlyKeepsJob
  <1>6. CASE PagesStay(j, "check", "finish", state[j]) /\ cancel_event[j]
    <2>1. Fits("check", "finish", state[j]) BY <1>0, <1>6
    <2>2. QED BY <2>1, OrderlyKeepsJob
  <1>7. CASE \E from \in {"fetch", "render"} : PagesStay(j, from, "fail", state[j])
    <2>1. PICK from \in {"fetch", "render"} : PagesStay(j, from, "fail", state[j])
      BY <1>7
    <2>2. Fits(from, "fail", state[j]) BY <1>0, <2>1
    <2>3. QED BY <2>2, OrderlyKeepsJob
  <1>8. CASE \E from \in {"finish", "fail"} :
               PagesStay(j, from, "clear", OutcomeFrom(j, from))
    <2>1. PICK from \in {"finish", "fail"} :
                 PagesStay(j, from, "clear", OutcomeFrom(j, from))
      BY <1>8
    <2>2. Fits(from, "clear", OutcomeFrom(j, from)) BY <1>0, <2>1 DEF OutcomeFrom
    <2>3. QED BY <2>2, OrderlyKeepsJob
  <1>9. CASE PagesStay(j, "clear", "post", state[j])
    <2>1. Fits("clear", "post", state[j]) BY <1>0, <1>9
    <2>2. QED BY <2>1, OrderlyKeepsJob
  <1>10. CASE \E to \in {"ocr", "release", "dead"} :
                /\ PagesStay(j, "post", to, state[j])
                /\ to = "ocr" => state[j] = "completed"
                /\ to = "dead" => ~terminal(j)
    <2>1. PICK to \in {"ocr", "release", "dead"} :
                 /\ PagesStay(j, "post", to, state[j])
                 /\ to = "ocr" => state[j] = "completed"
                 /\ to = "dead" => ~terminal(j)
      BY <1>10
    <2>2. Fits("post", to, state[j]) BY <1>0, <2>1
    <2>3. QED BY <2>2, OrderlyKeepsJob
  <1>11. CASE PagesStay(j, "ocr", "release", state[j])
    <2>1. Fits("ocr", "release", state[j]) BY <1>0, <1>11
    <2>2. QED BY <2>1, OrderlyKeepsJob
  <1>12. QED
    BY <1>1, <1>2, <1>3, <1>4, <1>5, <1>6, <1>7, <1>8, <1>9, <1>10, <1>11,
       WorkerPageMove

(* Pulling a side takes it into the worker's hand.                            *)
LEMMA TakeJobInv ==
  ASSUME TypeOK, SlotInv, NEW j \in Jobs, JobInv(j), BackendTakePage(j)
  PROVE  JobInv(j)'
  <1>1. /\ wpc[j] = "fetch" /\ wpc'[j] = "render" /\ pulled'[j] = pulled[j] + 1
        /\ UNCHANGED <<state, retained_pages, pages, retained_bytes, dropped, delivered,
                       deleted, ended, cancel_event>>
    BY DEF BackendTakePage, TakePage, WorkerStep, jobVars, pageVars, readVars, TypeOK,
           WorkerTypeOK
  <1>2. state[j] \in InProgress
    BY <1>1 DEF SlotInv, PlaceInv, Running, Scanning
  <1>3. Kept(j)' = Kept(j) BY <1>1 DEF Kept
  <1>4. CancelInv(j)' /\ BytesInv(j)' /\ EndInv(j)' /\ Conserved(j)'
    BY <1>1, <1>3
    DEF JobInv, CancelInv, BytesInv, EndInv, Conserved, terminal
  <1>5. CountInv(j)'
    <2>1. Counted(j, 0)
      BY <1>1 DEF JobInv, CountInv
    <2>2. dropped[j] \in Nat /\ pulled[j] \in Nat /\ Len(retained_pages[j]) \in Nat
      BY LenProperties DEF TypeOK, StateTypeOK, WorkerTypeOK, PagesTypeOK
    <2>3. Counted(j, 1)'
      BY <1>1, <2>1, <2>2 DEF Counted
    <2>4. QED BY <1>1, <1>2, <2>3 DEF CountInv, InProgress
  <1>6. OrderInv(j)'
    <2>1. retained_pages[j] \in Seq(Pages) /\ pulled[j] \in Nat
      BY DEF TypeOK, PagesTypeOK, WorkerTypeOK
    <2>2. \A i \in DOMAIN retained_pages[j] :
            retained_pages[j][i] \in Int /\ retained_pages[j][i] <= pulled[j]
      <3>1. ASSUME NEW i \in DOMAIN retained_pages[j] PROVE retained_pages[j][i] \in Pages
        BY <2>1, LenProperties, ElementOfSeq
      <3>2. QED BY <3>1 DEF JobInv, OrderInv, Pages
    <2>3. QED BY <1>1, <2>1, <2>2 DEF JobInv, OrderInv
  <1>7. QED BY <1>4, <1>5, <1>6 DEF JobInv

(* A blank page leaves the worker's hand and is counted as dropped.           *)
LEMMA DropJobInv ==
  ASSUME TypeOK, SlotInv, NEW j \in Jobs, JobInv(j), WorkerDropBlank(j)
  PROVE  JobInv(j)'
  <1>1. /\ wpc[j] = "check" /\ wpc'[j] = "fetch" /\ dropped'[j] = dropped[j] + 1
        /\ UNCHANGED <<state, retained_pages, pages, retained_bytes, pulled, delivered,
                       deleted, ended, cancel_event>>
    BY DEF WorkerDropBlank, WorkerStep, pageVars, readVars, TypeOK, StateTypeOK,
           WorkerTypeOK
  <1>2. state[j] \in InProgress
    BY <1>1 DEF SlotInv, PlaceInv, Running, Scanning
  <1>3. Kept(j)' = Kept(j) BY <1>1 DEF Kept
  <1>4. CancelInv(j)' /\ BytesInv(j)' /\ EndInv(j)' /\ Conserved(j)' /\ OrderInv(j)'
    BY <1>1, <1>3
    DEF JobInv, CancelInv, BytesInv, EndInv, Conserved, OrderInv, terminal
  <1>5. CountInv(j)'
    <2>1. Counted(j, 1)
      BY <1>1 DEF JobInv, CountInv
    <2>2. dropped[j] \in Nat /\ pulled[j] \in Nat /\ Len(retained_pages[j]) \in Nat
      BY LenProperties DEF TypeOK, StateTypeOK, WorkerTypeOK, PagesTypeOK
    <2>3. Counted(j, 0)'
      BY <1>1, <2>1, <2>2 DEF Counted
    <2>4. QED BY <1>1, <1>2, <2>3 DEF CountInv, InProgress
  <1>6. QED BY <1>4, <1>5 DEF JobInv

(* A page leaves the worker's hand for the end of both lists, bytes and all.  *)
LEMMA AppendJobInv ==
  ASSUME TypeInv, SlotInv, NEW j \in Jobs, JobInv(j), WorkerAppend(j)
  PROVE  JobInv(j)'
  <1> DEFINE p == pulled[j]
             kept == retained_pages[j]
  <1> USE DEF TypeInv, TypeOK
  <1>1. /\ wpc[j] = "append" /\ wpc'[j] = "fetch"
        /\ pages'[j] = Append(pages[j], p)
        /\ retained_pages'[j] = Append(kept, p)
        /\ retained_bytes'[j] = retained_bytes[j] \cup {p}
        /\ UNCHANGED <<state, dropped, pulled, delivered, deleted, ended, cancel_event>>
    BY DEF WorkerAppend, AppendTo, WorkerStep, scanVars, readVars, PagesTypeOK,
           WorkerTypeOK
  <1>2. /\ p \in Pages /\ kept \in Seq(Pages) /\ pages[j] \in Seq(Pages)
        /\ delivered[j] \in Seq(Pages)
    BY <1>1 DEF PulledInv, PagesTypeOK, ReadTypeOK
  <1>3. state[j] \in InProgress
    BY <1>1 DEF SlotInv, PlaceInv, Running, Scanning
  <1>4. CancelInv(j)' /\ EndInv(j)'
    BY <1>1, <1>3 DEF JobInv, CancelInv, EndInv, terminal, InProgress, Finished
  <1>5. BytesInv(j)'
    <2>1. Kept(j)' = Kept(j) \cup {p}
      <3>1. {Append(kept, p)[i] : i \in DOMAIN Append(kept, p)}
              = {kept[i] : i \in DOMAIN kept} \cup {p}
        <4>1. ASSUME NEW s \in Seq(Pages), NEW e \in Pages
              PROVE  {Append(s, e)[i] : i \in DOMAIN Append(s, e)}
                       = {s[i] : i \in DOMAIN s} \cup {e}
          BY AppendedElements
        <4>2. QED BY <1>2, <4>1
      <3>2. QED BY <1>1, <3>1 DEF Kept
    <2>2. QED BY <1>1, <2>1 DEF JobInv, BytesInv
  <1>6. Conserved(j)'
    <2>1. ASSUME NEW s \in Seq(Pages), NEW t \in Seq(Pages), NEW e \in Pages
          PROVE  s \o Append(t, e) = Append(s \o t, e)
      BY AppendToConcat
    <2>2. delivered[j] \o Append(pages[j], p) = Append(delivered[j] \o pages[j], p)
      BY <1>2, <2>1
    <2>3. QED BY <1>1, <2>2 DEF JobInv, Conserved
  <1>7. /\ Len(kept) \in Nat /\ DOMAIN kept = 1 .. Len(kept)
        /\ Len(Append(kept, p)) = Len(kept) + 1
        /\ DOMAIN Append(kept, p) = 1 .. (Len(kept) + 1)
        /\ \A i \in 1 .. Len(kept) : Append(kept, p)[i] = kept[i] /\ kept[i] \in Pages
        /\ Append(kept, p)[Len(kept) + 1] = p
    BY <1>2, AppendProperties, LenProperties, ElementOfSeq
  <1>8. CountInv(j)'
    <2>1. Counted(j, 1)
      BY <1>1 DEF JobInv, CountInv
    <2>2. dropped[j] \in Nat /\ p \in Nat
      BY <1>2 DEF StateTypeOK, Pages
    <2>3. Counted(j, 0)'
      BY <1>1, <1>7, <2>1, <2>2 DEF Counted
    <2>4. QED BY <1>1, <1>3, <2>3 DEF CountInv, InProgress
  <1>9. OrderInv(j)'
    <2>1. \A i \in 1 .. Len(kept) : kept[i] < p
      BY <1>1, <1>7 DEF JobInv, OrderInv
    <2>2. \A i, k \in 1 .. Len(kept) : i < k => kept[i] < kept[k]
      BY <1>7 DEF JobInv, OrderInv
    <2> DEFINE longer == Append(kept, p)
    <2>3. ASSUME NEW i \in 1 .. (Len(kept) + 1) PROVE longer[i] <= p
      BY <1>2, <1>7, <2>1 DEF Pages
    <2>4. ASSUME NEW i \in 1 .. (Len(kept) + 1), NEW k \in 1 .. (Len(kept) + 1), i < k
          PROVE  longer[i] < longer[k]
      BY <1>7, <2>1, <2>2, <2>4
    <2> HIDE DEF longer
    <2>5. DOMAIN longer = 1 .. (Len(kept) + 1) /\ retained_pages'[j] = longer
      BY <1>1, <1>7 DEF longer
    <2>6. QED BY <1>1, <2>3, <2>4, <2>5 DEF OrderInv
  <1>10. QED BY <1>4, <1>5, <1>6, <1>8, <1>9 DEF JobInv

(* The last thing a worker does is to release its job's bytes.                *)
LEMMA ReleaseJobInv ==
  ASSUME TypeOK, NEW j \in Jobs, JobInv(j), WorkerRelease(j)
  PROVE  JobInv(j)'
  <1>1. /\ wpc'[j] = "dead" /\ retained_bytes'[j] = {}
        /\ UNCHANGED <<state, retained_pages, pages, pulled, dropped, delivered,
                       deleted, ended, cancel_event>>
    BY DEF WorkerRelease, WorkerStep, scanVars, readVars, TypeOK, WorkerTypeOK,
           PagesTypeOK
  <1>2. Counted(j, 0)' <=> Counted(j, 0) BY <1>1 DEF Counted
  <1>3. QED
    BY <1>1, <1>2 DEF JobInv, CancelInv, BytesInv, CountInv, OrderInv, EndInv, Conserved,
                      terminal

\* Nothing the invariant says of job k has changed.
SameJob(k) ==
    /\ wpc'[k] = wpc[k] /\ state'[k] = state[k] /\ pages'[k] = pages[k]
    /\ retained_pages'[k] = retained_pages[k] /\ retained_bytes'[k] = retained_bytes[k]
    /\ dropped'[k] = dropped[k] /\ pulled'[k] = pulled[k]
    /\ cancel_event'[k] = cancel_event[k] /\ deleted'[k] = deleted[k]
    /\ delivered'[k] = delivered[k] /\ ended'[k] = ended[k]

(* A job nothing happens to keeps its invariant.                              *)
LEMMA SameJobInv ==
  ASSUME NEW k \in Jobs, JobInv(k), SameJob(k)
  PROVE  JobInv(k)'
  <1>1. Kept(k)' = Kept(k) /\ \A n : Counted(k, n)' <=> Counted(k, n)
    BY DEF SameJob, Kept, Counted
  <1>2. QED
    BY <1>1 DEF SameJob, JobInv, CancelInv, BytesInv, CountInv, OrderInv, EndInv,
                Conserved, terminal

(* A worker touches no other job.                                             *)
LEMMA WorkerTouchesOne ==
  ASSUME TypeOK, NEW j \in Jobs, Worker(j), NEW k \in Jobs, k # j
  PROVE  SameJob(k)
  <1> USE DEF SameJob, WorkerStep, readVars, TypeOK, StateTypeOK, WorkerTypeOK,
              PagesTypeOK
  <1>1. ASSUME NEW from, NEW to, NEW now, PagesStay(j, from, to, now)
        PROVE  SameJob(k)
    BY <1>1 DEF PagesStay, pageVars
  <1>2. CASE BackendTakePage(j)
    BY <1>2 DEF BackendTakePage, TakePage, jobVars, pageVars
  <1>3. CASE WorkerDropBlank(j)
    BY <1>3 DEF WorkerDropBlank, pageVars
  <1>4. CASE WorkerAppend(j)
    BY <1>4 DEF WorkerAppend, AppendTo, scanVars
  <1>5. CASE WorkerRelease(j)
    BY <1>5 DEF WorkerRelease, scanVars
  <1>6. QED BY <1>1, <1>2, <1>3, <1>4, <1>5, WorkerPageMove

(* Every step of a worker keeps the invariant.                                *)
LEMMA WorkerPagesInv ==
  ASSUME TypeInv, SlotInv, PagesInv, NEW j \in Jobs, Worker(j)
  PROVE  PagesInv'
  <1>1. TypeOK BY DEF TypeInv
  <1>2. ASSUME NEW k \in Jobs PROVE JobInv(k)'
    <2>1. JobInv(k) BY DEF PagesInv
    <2>2. CASE k # j BY <1>1, <2>1, <2>2, WorkerTouchesOne, SameJobInv
    <2>3. CASE k = j
      BY <1>1, <2>1, <2>3, StayJobInv, TakeJobInv, DropJobInv, AppendJobInv,
         ReleaseJobInv
    <2>4. QED BY <2>2, <2>3
  <1>3. UNCHANGED <<jobs, made, rpc, rjob, dpc, worker_exited>>
    BY DEF Worker, WorkerBegin, BackendOpen, BackendTakePage, TakePage, BackendYield,
           BackendExhausted, BackendRaises, RaiseOwnedBy, WorkerLeaveLoop,
           WorkerDropBlank, WorkerKeepPage, WorkerAppend, AppendTo, WorkerFinish, EndAs,
           WorkerFail, WorkerClear, WorkerPost, WorkerOcr, WorkerRelease, WorkerStep,
           deleteVars, readVars
  <1>4. RequestInv'
    BY <1>3 DEF PagesInv, RequestInv
  <1>5. RetentionBounded'
    <2>1. active' = active \/ active' = NoJob
      BY <1>1, WorkerMove DEF WorkerMoves
    <2>2. QED BY <1>3, <2>1 DEF PagesInv, RetentionBounded
  <1>6. QED BY <1>2, <1>4, <1>5 DEF PagesInv

(* Marking a job sets its cancel event only while it has no outcome.          *)
LEMMA MarkJobInv ==
  ASSUME TypeOK, SlotInv, NEW d \in Deleters, NEW k \in Jobs, JobInv(k), DeleteMark(d)
  PROVE  JobInv(k)'
  <1>1. /\ UNCHANGED <<wpc, pages, retained_pages, retained_bytes, dropped, pulled, deleted,
                       delivered, ended>>
        /\ cancel_event'[k] = (cancel_event[k] \/ (k = djob[d] /\ ~terminal(k)))
        /\ state'[k] = IF k = djob[d] /\ ~terminal(k) THEN "canceling" ELSE state[k]
    BY DEF DeleteMark, MarkUnless, DeleteStep, scanVars, readVars, TypeOK, StateTypeOK
  <1>2. wpc[k] = "ocr" => terminal(k)
    BY DEF SlotInv, PlaceInv, Ending, terminal
  <1>3. Kept(k)' = Kept(k) /\ \A n : Counted(k, n)' <=> Counted(k, n)
    BY <1>1 DEF Kept, Counted
  <1>4. CancelInv(k)'
    BY <1>1, <1>2 DEF JobInv, CancelInv, terminal, Finished
  <1>5. CountInv(k)'
    BY <1>1, <1>3 DEF JobInv, CountInv
  <1>6. BytesInv(k)' /\ OrderInv(k)' /\ EndInv(k)' /\ Conserved(k)'
    BY <1>1, <1>3 DEF JobInv, BytesInv, OrderInv, EndInv, Conserved, terminal, Finished
  <1>7. QED BY <1>4, <1>5, <1>6 DEF JobInv

(* Deleting a job clears its queue; its outcome is already there.             *)
LEMMA FinalizeJobInv ==
  ASSUME TypeOK, SlotInv, NEW d \in Deleters, NEW k \in Jobs, JobInv(k),
         DeleteFinalize(d)
  PROVE  JobInv(k)'
  <1>1. /\ UNCHANGED <<wpc, retained_pages, retained_bytes, dropped, pulled, delivered,
                       ended, cancel_event>>
        /\ deleted'[k] = (deleted[k] \/ k = djob[d])
        /\ pages'[k] = IF k = djob[d] THEN <<>> ELSE pages[k]
        /\ dpc[d] # "mark"
    BY DEF DeleteFinalize, DeleteReturn, DeleteStep, scanVars, readVars, TypeOK,
           StateTypeOK, PagesTypeOK
  <1>2. state'[k] = state[k]
    BY <1>1, DeleteStates DEF Delete
  <1>3. Kept(k)' = Kept(k) /\ \A n : Counted(k, n)' <=> Counted(k, n)
    BY <1>1 DEF Kept, Counted
  <1>4. QED
    BY <1>1, <1>2, <1>3 DEF JobInv, CancelInv, BytesInv, CountInv, OrderInv, EndInv,
                            Conserved, terminal

(* A DELETE that releases a job's bytes does it after the worker.             *)
LEMMA DeleteReleaseJobInv ==
  ASSUME TypeOK, SlotInv, RequestInv, NEW d \in Deleters, NEW k \in Jobs, JobInv(k),
         DeleteRelease(d)
  PROVE  JobInv(k)'
  <1>1. /\ UNCHANGED <<wpc, state, retained_pages, pages, dropped, pulled, delivered,
                       deleted, ended, cancel_event>>
        /\ retained_bytes'[k] = IF k = djob[d] THEN {} ELSE retained_bytes[k]
        /\ dpc[d] = "release"
    BY DEF DeleteRelease, DeleteReturn, DeleteStep, scanVars, readVars, TypeOK,
           PagesTypeOK
  <1>2. wpc[djob[d]] = "dead"
    BY <1>1 DEF RequestInv, SlotInv, DeleterInv
  <1>3. Kept(k)' = Kept(k) /\ \A n : Counted(k, n)' <=> Counted(k, n)
    BY <1>1 DEF Kept, Counted
  <1>4. QED
    BY <1>1, <1>2, <1>3 DEF JobInv, CancelInv, BytesInv, CountInv, OrderInv, EndInv,
                            Conserved, terminal

(* Every step of a DELETE keeps the invariant.                                *)
LEMMA DeletePagesInv ==
  ASSUME TypeOK, SlotInv, PagesInv, NEW d \in Deleters, Delete(d)
  PROVE  PagesInv'
  <1>1. ASSUME NEW k \in Jobs PROVE JobInv(k)'
    <2>1. JobInv(k) BY DEF PagesInv
    <2>2. CASE DeleteMark(d) BY <2>1, <2>2, MarkJobInv
    <2>3. CASE DeleteFinalize(d) BY <2>1, <2>3, FinalizeJobInv
    <2>4. CASE DeleteRelease(d) BY <2>1, <2>4, DeleteReleaseJobInv DEF PagesInv
    <2>5. CASE ~DeleteMark(d) /\ ~DeleteFinalize(d) /\ ~DeleteRelease(d)
      <3>1. SameJob(k)
        BY <2>5 DEF Delete, DeleteLookup, DeleteReadSlot, DeletePush, DeleteCleanup,
                    DeleteRaises, DeleteJoin, DeleteProbe, DeleteReturn, DeleteStep,
                    deletedVars, scanVars, readVars, SameJob
      <3>2. QED BY <2>1, <3>1, SameJobInv
    <2>6. QED BY <2>2, <2>3, <2>4, <2>5
  <1>2. RequestInv'
    <2>1. UNCHANGED <<rpc, rjob>>
      BY DEF Delete, DeleteLookup, DeleteReadSlot, DeleteMark, MarkUnless, DeletePush,
             DeleteCleanup, DeleteRaises, DeleteJoin, DeleteProbe, DeleteFinalize,
             DeleteRelease, DeleteReturn, DeleteStep, readVars
    <2>2. ASSUME NEW e \in Deleters, dpc'[e] = "release" PROVE worker_exited'[e]
      <3> USE DEF DeleteStep, DeleteReturn, TypeOK, DeleteTypeOK, PagesInv, RequestInv
      <3>1. CASE e # d
        BY <2>2, <3>1
        DEF Delete, DeleteLookup, DeleteReadSlot, DeleteMark, MarkUnless, DeletePush,
            DeleteCleanup, DeleteRaises, DeleteJoin, DeleteProbe, DeleteFinalize,
            DeleteRelease
      <3>2. CASE e = d
        BY <2>2, <3>2
        DEF Delete, DeleteLookup, DeleteReadSlot, DeleteMark, MarkUnless, DeletePush,
            DeleteCleanup, DeleteRaises, DeleteJoin, DeleteProbe, DeleteFinalize,
            DeleteRelease
      <3>3. QED BY <3>1, <3>2
    <2>3. QED BY <2>1, <2>2 DEF PagesInv, RequestInv
  <1>3. RetentionBounded'
    BY DeleteStates DEF PagesInv, RetentionBounded
  <1>4. QED BY <1>1, <1>2, <1>3 DEF PagesInv

\* The queue's head goes to the client.
Handed(j) ==
    /\ pages[j] # <<>>
    /\ pages'[j] = Tail(pages[j])
    /\ delivered'[j] = Append(delivered[j], Head(pages[j]))

(* A NextDocument hands out the head of its job's queue or nothing, and says  *)
(* the end only of a job that is deleted, or terminal with an empty queue.    *)
LEMMA NextDocumentEffect ==
  ASSUME TypeOK, RequestInv, NEW r \in Readers, NextDocument(r), NEW k \in Jobs
  PROVE  /\ UNCHANGED <<wpc, state, retained_pages, retained_bytes, dropped, pulled,
                        deleted, cancel_event, jobs, made, active, dpc, djob,
                        worker_exited>>
         /\ \/ Handed(k) /\ ~deleted[k] /\ ended'[k] = ended[k]
            \/ /\ pages'[k] = pages[k] /\ delivered'[k] = delivered[k]
               /\ \/ ended'[k] = ended[k]
                  \/ deleted[k]
                  \/ pages[k] = <<>> /\ terminal(k)
  <1>1. /\ UNCHANGED <<wpc, state, retained_pages, retained_bytes, dropped, pulled,
                       deleted, cancel_event, jobs, made, active, dpc, djob,
                       worker_exited>>
        /\ rpc[r] = "serve"
    BY DEF NextDocument, ReadStep, scanVars, deleteVars
  <1>2. rjob[r] \in Jobs
    BY <1>1 DEF RequestInv
  <1>3. CASE k # rjob[r]
    BY <1>1, <1>2, <1>3 DEF NextDocument, TypeOK, PagesTypeOK, ReadTypeOK
  <1>4. CASE k = rjob[r] /\ Answer(k) = "page"
    <2>1. pages[k] # <<>> /\ ~deleted[k]
      BY <1>4 DEF Answer
    <2>2. QED
      BY <1>1, <1>4, <2>1 DEF NextDocument, Handed, TypeOK, PagesTypeOK, ReadTypeOK
  <1>5. CASE k = rjob[r] /\ Answer(k) # "page"
    <2>1. Answer(k) \in {"JobExhausted", "JobFailed"} =>
            deleted[k] \/ (pages[k] = <<>> /\ terminal(k))
      BY <1>5 DEF Answer, terminal, Finished
    <2>2. pages'[k] = pages[k] /\ delivered'[k] = delivered[k]
      BY <1>5 DEF NextDocument
    <2>3. ended'[k] = (ended[k] \/ Answer(k) \in {"JobExhausted", "JobFailed"})
      BY <1>5 DEF NextDocument, TypeOK, ReadTypeOK
    <2>4. QED BY <1>1, <2>1, <2>2, <2>3 DEF TypeOK, ReadTypeOK
  <1>6. QED BY <1>3, <1>4, <1>5

(* Both steps of a NextDocument keep the invariant.                           *)
LEMMA ReadPagesInv ==
  ASSUME TypeOK, PagesInv, NEW r \in Readers, NextDocumentLookup(r) \/ NextDocument(r)
  PROVE  PagesInv'
  <1>1. CASE NextDocumentLookup(r)
    <2>1. PICK job \in jobs : ReadStep(r, "idle", "serve", job)
      BY <1>1 DEF NextDocumentLookup
    <2>2. \A k \in Jobs : SameJob(k)
      BY <1>1, <2>1 DEF NextDocumentLookup, ReadStep, scanVars, SameJob
    <2>3. \A k \in Jobs : JobInv(k)'
      BY <2>2, SameJobInv DEF PagesInv
    <2>4. RequestInv' /\ RetentionBounded'
      BY <2>1 DEF ReadStep, deleteVars, PagesInv, RequestInv, RetentionBounded, TypeOK,
                  ManagerTypeOK, ReadTypeOK
    <2>5. QED BY <2>3, <2>4 DEF PagesInv
  <1>2. CASE NextDocument(r)
    <2>1. RequestInv BY DEF PagesInv
    <2>2. ASSUME NEW k \in Jobs PROVE JobInv(k)'
      <3>1. JobInv(k) BY DEF PagesInv
      <3>2. UNCHANGED <<wpc, state, retained_pages, retained_bytes, dropped, pulled,
                        deleted, cancel_event>>
        BY <1>2, <2>1, NextDocumentEffect
      <3>3. Kept(k)' = Kept(k) /\ \A n : Counted(k, n)' <=> Counted(k, n)
        BY <3>2 DEF Kept, Counted
      <3>4. CancelInv(k)' /\ BytesInv(k)' /\ CountInv(k)' /\ OrderInv(k)'
        BY <3>1, <3>2, <3>3 DEF JobInv, CancelInv, BytesInv, CountInv, OrderInv
      <3>5. CASE Handed(k) /\ ~deleted[k] /\ ended'[k] = ended[k]
        <4>1. ASSUME NEW s \in Seq(Pages), NEW t \in Seq(Pages), t # <<>>
              PROVE  Append(s, Head(t)) \o Tail(t) = s \o t
          BY <4>1, HeadMoves
        <4>2. delivered'[k] \o pages'[k] = delivered[k] \o pages[k]
          BY <3>5, <4>1 DEF Handed, TypeOK, PagesTypeOK, ReadTypeOK
        <4>3. QED
          BY <3>1, <3>2, <3>4, <3>5, <4>2 DEF JobInv, Conserved, EndInv, Handed
      <3>6. CASE /\ pages'[k] = pages[k] /\ delivered'[k] = delivered[k]
                 /\ \/ ended'[k] = ended[k]
                    \/ deleted[k]
                    \/ pages[k] = <<>> /\ terminal(k)
        BY <3>1, <3>2, <3>4, <3>6 DEF JobInv, Conserved, EndInv, terminal
      <3>7. QED BY <1>2, <2>1, <3>5, <3>6, NextDocumentEffect
    <2>3. RequestInv' /\ RetentionBounded'
      BY <1>2 DEF NextDocument, ReadStep, deleteVars, PagesInv, RequestInv,
                  RetentionBounded, TypeOK, ReadTypeOK
    <2>4. QED BY <2>2, <2>3 DEF PagesInv
  <1>3. QED BY <1>1, <1>2

(* The invariant is inductive, given the types and the slot.                  *)
LEMMA NextPagesInv == TypeInv /\ SlotInv /\ PagesInv /\ [Next]_vars => PagesInv'
  <1> SUFFICES ASSUME TypeInv, SlotInv, PagesInv, [Next]_vars PROVE PagesInv'
    OBVIOUS
  <1>0. TypeOK BY DEF TypeInv
  <1>1. CASE UNCHANGED vars
    <2>1. \A k \in Jobs : SameJob(k)
      BY <1>1 DEF vars, pageVars, scanVars, readVars, SameJob
    <2>2. \A k \in Jobs : JobInv(k)'
      BY <2>1, SameJobInv DEF PagesInv
    <2>3. RequestInv' /\ RetentionBounded'
      BY <1>1 DEF vars, deleteVars, readVars, PagesInv, RequestInv, RetentionBounded
    <2>4. QED BY <2>2, <2>3 DEF PagesInv
  <1>2. CASE Next
    BY <1>0, <1>2, CreatePagesInv, WorkerPagesInv, DeletePagesInv, ReadPagesInv DEF Next
  <1>3. QED BY <1>1, <1>2

(* What happens to pages, bytes and outcomes, in every reachable state.       *)
THEOREM PagesInvariant == Spec => [](TypeInv /\ SlotInv /\ PagesInv)
  <1>1. TypeInv => TypeOK BY DEF TypeInv
  <1>2. QED
    BY InitTypeInv, NextTypeInv, InitSlotInv, NextSlotInv, InitPagesInv, NextPagesInv,
       <1>1, PTL DEF Spec

(* A canceled job never completes and is never handed to OCR.                 *)
THEOREM CancelStands == Spec => []CancelWins
  <1>1. PagesInv => CancelWins
    BY DEF PagesInv, JobInv, CancelInv, CancelWins
  <1>2. QED BY <1>1, PagesInvariant, PTL

(* The OCR side effect finds the bytes of every retained page: no DELETE      *)
(* releases them while a worker is alive.                                     *)
THEOREM OcrFindsBytes == Spec => []OcrSeesAllBytes
  <1>1. PagesInv => OcrSeesAllBytes
    BY DEF PagesInv, JobInv, BytesInv, Kept, OcrSeesAllBytes
  <1>2. QED BY <1>1, PagesInvariant, PTL

(* Whatever the readers and the worker do, the pages handed out and the pages *)
(* queued are the pages kept, in order, each once.                            *)
THEOREM PagesAreConserved == Spec => []PagesConserved
  <1>1. PagesInv => PagesConserved
    BY DEF PagesInv, JobInv, Conserved, PagesConserved
  <1>2. QED BY <1>1, PagesInvariant, PTL

(* "completed" means that every page pulled was kept or counted as blank.     *)
THEOREM CompletedMeansWhole == Spec => []CompletedIsWhole
  <1>1. TypeInv /\ PagesInv => CompletedIsWhole
    <2> SUFFICES ASSUME TypeInv, PagesInv, NEW j \in Jobs, state[j] = "completed"
                 PROVE  Len(retained_pages[j]) + dropped[j] = pulled[j]
      BY DEF CompletedIsWhole
    <2>1. Counted(j, 0)
      BY DEF PagesInv, JobInv, CountInv
    <2>2. Len(retained_pages[j]) \in Nat /\ dropped[j] \in Nat
      BY LenProperties DEF TypeInv, TypeOK, PagesTypeOK, StateTypeOK
    <2>3. QED BY <2>1, <2>2 DEF Counted
  <1>2. QED BY <1>1, PagesInvariant, PTL

(* The end, where nothing is queued any more.                                 *)
LEMMA EndIsAll == TypeInv /\ PagesInv => EndMeansAll
  <1> SUFFICES ASSUME TypeInv, PagesInv, NEW j \in Jobs, ended[j], ~deleted[j]
               PROVE  delivered[j] = retained_pages[j]
    BY DEF EndMeansAll
  <1>1. pages[j] = <<>> /\ delivered[j] \o pages[j] = retained_pages[j]
    BY DEF PagesInv, JobInv, EndInv, Conserved
  <1>2. delivered[j] \in Seq(Pages)
    BY DEF TypeInv, TypeOK, ReadTypeOK
  <1>3. delivered[j] \o <<>> = delivered[j]
    BY <1>2, ConcatEmptySeq
  <1>4. QED BY <1>1, <1>3

(* A client that is told the end has no page left to fetch.                   *)
THEOREM EndIsComplete == Spec => []EndMeansAll
  BY EndIsAll, PagesInvariant, PTL

(* The manager remembers the latest MAX_RETAINED_JOBS jobs, and the owner of  *)
(* the slot among them.                                                       *)
THEOREM RetentionIsBounded == Spec => []RetentionBounded
  <1>1. PagesInv => RetentionBounded
    BY DEF PagesInv
  <1>2. QED BY <1>1, PagesInvariant, PTL

----------------------------------------------------------------------------
\* A deleted job.  Its worker can still append one page to the cleared queue:
\* the one it had decided to keep before DELETE set the cancel event.

\* No page can be pulled for job j any more.
Settled(j) == cancel_event[j] \/ terminal(j)

\* Where a worker can be when its deleted job has a page again.
PastAppend(j) ==
    wpc[j] \notin {"none", "unstarted", "begin", "open", "render", "check", "append"}

\* The queue of a deleted job is empty or holds one page, which no client has.
LatePage(j) ==
    \/ pages[j] = <<>>
    \/ /\ PastAppend(j)
       /\ \E p \in Pages : /\ pages[j] = <<p>>
                           /\ \A i \in DOMAIN delivered[j] : delivered[j][i] # p

HandedWasKept(j) == \A i \in DOMAIN delivered[j] : delivered[j][i] \in Kept(j)

DeletedInv(j) == deleted[j] => Settled(j) /\ HandedWasKept(j) /\ LatePage(j)

\* A DELETE that has marked its job.
MarkedInv ==
    \A d \in Deleters :
        dpc[d] \in {"push", "cleanup", "join", "probe", "finalize"} => Settled(djob[d])

LateInv == (\A j \in Jobs : DeletedInv(j)) /\ MarkedInv

(* A concatenation begins with its first part.                                *)
LEMMA FirstPart ==
  ASSUME NEW s \in Seq(Pages), NEW t \in Seq(Pages), NEW k, k = s \o t
  PROVE  \A i \in DOMAIN s : i \in DOMAIN k /\ s[i] = k[i]
  <1>1. /\ Len(s) \in Nat /\ Len(t) \in Nat
        /\ DOMAIN s = 1 .. Len(s)
    BY LenProperties
  <1>2. /\ k \in Seq(Pages) /\ Len(k) = Len(s) + Len(t)
        /\ \A i \in 1 .. Len(s) + Len(t) :
              k[i] = IF i <= Len(s) THEN s[i] ELSE t[i - Len(s)]
    BY ConcatProperties
  <1>3. DOMAIN k = 1 .. Len(s) + Len(t)
    BY <1>2, LenProperties
  <1>4. QED BY <1>1, <1>2, <1>3

(* The parts of an increasing concatenation share no element.                 *)
LEMMA PartsApart ==
  ASSUME NEW s \in Seq(Pages), NEW t \in Seq(Pages), NEW k, k = s \o t,
         \A i \in DOMAIN k : \A m \in DOMAIN k : i < m => k[i] < k[m]
  PROVE  \A i \in DOMAIN s : \A m \in DOMAIN t : s[i] # t[m]
  <1>1. /\ Len(s) \in Nat /\ Len(t) \in Nat
        /\ DOMAIN s = 1 .. Len(s) /\ DOMAIN t = 1 .. Len(t)
    BY LenProperties
  <1>2. /\ k \in Seq(Pages) /\ Len(k) = Len(s) + Len(t)
        /\ \A i \in 1 .. Len(s) + Len(t) :
              k[i] = IF i <= Len(s) THEN s[i] ELSE t[i - Len(s)]
    BY ConcatProperties
  <1>3. DOMAIN k = 1 .. Len(s) + Len(t)
    BY <1>2, LenProperties
  <1>4. \A i \in 1 .. Len(s) : i \in DOMAIN k /\ s[i] = k[i]
    BY <1>1, <1>2, <1>3
  <1>5. ASSUME NEW i \in 1 .. Len(s), NEW m \in 1 .. Len(t)
        PROVE  s[i] # t[m]
    <2>1. Len(s) + m \in DOMAIN k /\ i < Len(s) + m
      BY <1>1, <1>3
    <2>2. k[Len(s) + m] = t[m]
      BY <1>1, <1>2, <1>3, <2>1
    <2>3. k[i] < k[Len(s) + m] /\ k[i] = s[i]
      BY <1>4, <2>1
    <2>4. s[i] \in Nat
      <3>1. s[i] \in Pages BY <1>1, ElementOfSeq
      <3>2. QED BY <3>1 DEF Pages
    <2>5. QED BY <2>2, <2>3, <2>4
  <1>6. QED BY <1>1, <1>5

(* Once no page can be pulled for a job, none ever can.                       *)
LEMMA SettledStays ==
  ASSUME TypeOK, SlotInv, Next, NEW j \in Jobs, Settled(j)
  PROVE  Settled(j)'
  <1>1. CASE terminal(j)
    BY <1>1, OutcomeStays DEF Settled, terminal
  <1>2. CASE cancel_event[j]
    <2>1. ASSUME NEW k \in Jobs, Worker(k) PROVE cancel_event' = cancel_event
      BY <2>1, WorkerMove DEF WorkerMoves, WorkerStep
    <2>2. ASSUME NEW d \in Deleters, Delete(d) PROVE cancel_event'[j]
      BY <1>2, <2>2
      DEF Delete, DeleteLookup, DeleteReadSlot, DeleteMark, MarkUnless, DeletePush,
          DeleteCleanup, DeleteRaises, DeleteJoin, DeleteProbe, DeleteFinalize,
          DeleteRelease, deletedVars, TypeOK, StateTypeOK
    <2>3. QED
      BY <1>2, <2>1, <2>2
      DEF Next, CreateJob, NextDocumentLookup, NextDocument, ReadStep, Settled
  <1>3. QED BY <1>1, <1>2 DEF Settled

(* Nothing is deleted at the start.                                           *)
LEMMA InitLateInv == Init => LateInv
  BY DEF Init, LateInv, DeletedInv, MarkedInv

(* A step that changes nothing else of a deleted job leaves its queue alone.  *)
LEMMA SameDeletedInv ==
  ASSUME NEW k \in Jobs, DeletedInv(k), deleted'[k] => deleted[k],
         deleted[k] => /\ Settled(k)' /\ pages'[k] = pages[k]
                       /\ delivered'[k] = delivered[k] /\ Kept(k) \subseteq Kept(k)'
                       /\ PastAppend(k) => PastAppend(k)'
  PROVE  DeletedInv(k)'
  BY DEF DeletedInv, HandedWasKept, LatePage

(* A worker appends to the queue of its deleted job at most once.             *)
LEMMA WorkerDeletedInv ==
  ASSUME TypeInv, SlotInv, PagesInv, LateInv, NEW j \in Jobs, Worker(j)
  PROVE  DeletedInv(j)'
  <1> SUFFICES ASSUME deleted[j] PROVE DeletedInv(j)'
    <2>1. deleted' = deleted
      BY WorkerMove DEF TypeInv, WorkerMoves, WorkerStep
    <2>2. QED BY <2>1 DEF DeletedInv
  <1>0. TypeOK /\ Next
    BY DEF TypeInv, Next
  <1>1. DeletedInv(j) /\ Settled(j) /\ HandedWasKept(j) /\ LatePage(j) /\ Settled(j)'
    BY <1>0, SettledStays DEF LateInv, DeletedInv
  <1>2. deleted' = deleted /\ delivered' = delivered
    BY <1>0, WorkerMove DEF WorkerMoves, WorkerStep, readVars
  <1>3. CASE WorkerAppend(j)
    <2> DEFINE p == pulled[j]
    <2>1. /\ wpc[j] = "append" /\ wpc'[j] = "fetch"
          /\ pages'[j] = Append(pages[j], p)
          /\ retained_pages'[j] = Append(retained_pages[j], p)
      BY <1>0, <1>3 DEF WorkerAppend, AppendTo, WorkerStep, TypeOK, PagesTypeOK,
                        WorkerTypeOK
    <2>2. pages[j] = <<>>
      BY <1>1, <2>1 DEF LatePage, PastAppend
    <2>3. p \in Pages /\ retained_pages[j] \in Seq(Pages)
      BY <2>1 DEF TypeInv, PulledInv, TypeOK, PagesTypeOK
    <2>4. pages'[j] = <<p>>
      BY <2>1, <2>2, <2>3
    <2>5. \A i \in DOMAIN retained_pages[j] :
             retained_pages[j][i] \in Int /\ retained_pages[j][i] < p /\ p \in Int
      <3>1. ASSUME NEW i \in DOMAIN retained_pages[j] PROVE retained_pages[j][i] \in Pages
        BY <2>3, LenProperties, ElementOfSeq
      <3>2. QED BY <2>1, <2>3, <3>1 DEF PagesInv, JobInv, OrderInv, Pages
    <2>6. \A i \in DOMAIN delivered[j] : delivered[j][i] # p
      BY <1>1, <2>5 DEF HandedWasKept, Kept
    <2>7. Kept(j) \subseteq Kept(j)'
      <3>1. DOMAIN retained_pages[j] = 1 .. Len(retained_pages[j])
            /\ Len(retained_pages[j]) \in Nat
            /\ DOMAIN Append(retained_pages[j], p) = 1 .. (Len(retained_pages[j]) + 1)
            /\ \A i \in 1 .. Len(retained_pages[j]) :
                  Append(retained_pages[j], p)[i] = retained_pages[j][i]
        BY <2>3, AppendProperties, LenProperties
      <3>2. \A i \in 1 .. Len(retained_pages[j]) : i \in 1 .. (Len(retained_pages[j]) + 1)
        BY <3>1
      <3>3. QED BY <2>1, <3>1, <3>2 DEF Kept
    <2>8. HandedWasKept(j)'
      BY <1>1, <1>2, <2>7 DEF HandedWasKept
    <2>9. LatePage(j)'
      BY <1>2, <2>1, <2>3, <2>4, <2>6 DEF LatePage, PastAppend
    <2>10. QED BY <1>1, <2>8, <2>9 DEF DeletedInv
  <1>4. CASE ~WorkerAppend(j)
    <2>1. pages' = pages /\ retained_pages' = retained_pages
      BY <1>0, <1>4, WorkerPageMove
      DEF BackendTakePage, TakePage, WorkerDropBlank, WorkerRelease, PagesStay, jobVars,
          pageVars
    <2>2. ~BackendTakePage(j)
      <3>1. ASSUME wpc[j] = "fetch" PROVE cancel_event[j]
        <4>1. state[j] \in InProgress
          BY <3>1 DEF SlotInv, PlaceInv, Running, Scanning
        <4>2. QED BY <1>1, <4>1 DEF Settled, terminal, InProgress, Finished
      <3>2. QED BY <3>1 DEF BackendTakePage, TakePage, WorkerStep
    <2>3. PastAppend(j) => PastAppend(j)'
      BY <1>0, <1>4, <2>2, WorkerPageMove
      DEF PastAppend, PagesStay, WorkerDropBlank, WorkerRelease, WorkerStep, TypeOK,
          WorkerTypeOK
    <2>4. QED BY <1>1, <1>2, <2>1, <2>3, SameDeletedInv DEF Kept
  <1>5. QED BY <1>3, <1>4

(* A DELETE clears the queue of a job it has marked.                          *)
LEMMA DeleteDeletedInv ==
  ASSUME TypeInv, SlotInv, PagesInv, LateInv, NEW d \in Deleters, Delete(d),
         NEW k \in Jobs
  PROVE  DeletedInv(k)'
  <1>0. TypeOK /\ Next /\ DeletedInv(k)
    BY DEF TypeInv, Next, LateInv
  <1>1. UNCHANGED <<wpc, retained_pages, delivered>>
    BY DEF Delete, DeleteLookup, DeleteReadSlot, DeleteMark, MarkUnless, DeletePush,
           DeleteCleanup, DeleteRaises, DeleteJoin, DeleteProbe, DeleteFinalize,
           DeleteRelease, DeleteReturn, DeleteStep, readVars
  <1>2. Kept(k)' = Kept(k) /\ (PastAppend(k)' <=> PastAppend(k))
    BY <1>1 DEF Kept, PastAppend
  <1>3. deleted[k] => Settled(k)'
    BY <1>0, SettledStays DEF DeletedInv
  <1>4. CASE DeleteFinalize(d) /\ k = djob[d]
    <2>1. pages'[k] = <<>> /\ dpc[d] = "finalize"
      BY <1>0, <1>4 DEF DeleteFinalize, DeleteReturn, DeleteStep, TypeOK, PagesTypeOK
    <2>2. Settled(k)'
      <3>1. Settled(k) BY <1>4, <2>1 DEF LateInv, MarkedInv
      <3>2. QED BY <1>0, <3>1, SettledStays
    <2>3. HandedWasKept(k)
      <3>1. CASE deleted[k] BY <1>0, <3>1 DEF DeletedInv
      <3>2. CASE ~deleted[k]
        <4>1. delivered[k] \in Seq(Pages) /\ pages[k] \in Seq(Pages)
          BY <1>0 DEF TypeOK, PagesTypeOK, ReadTypeOK
        <4>2. retained_pages[k] = delivered[k] \o pages[k]
          BY <3>2 DEF PagesInv, JobInv, Conserved
        <4>3. \A i \in DOMAIN delivered[k] :
                 i \in DOMAIN retained_pages[k] /\ delivered[k][i] = retained_pages[k][i]
          BY <4>1, <4>2, FirstPart
        <4>4. QED BY <4>3 DEF HandedWasKept, Kept
      <3>3. QED BY <3>1, <3>2
    <2>4. HandedWasKept(k)'
      BY <1>1, <1>2, <2>3 DEF HandedWasKept
    <2>5. QED BY <2>1, <2>2, <2>4 DEF DeletedInv, LatePage
  <1>5. CASE ~(DeleteFinalize(d) /\ k = djob[d])
    <2>1. deleted'[k] = deleted[k] /\ pages'[k] = pages[k]
      BY <1>0, <1>5
      DEF Delete, DeleteLookup, DeleteReadSlot, DeleteMark, MarkUnless, DeletePush,
          DeleteCleanup, DeleteRaises, DeleteJoin, DeleteProbe, DeleteFinalize,
          DeleteRelease, deletedVars, TypeOK, StateTypeOK, PagesTypeOK
    <2>2. QED BY <1>0, <1>1, <1>2, <1>3, <2>1, SameDeletedInv
  <1>6. QED BY <1>4, <1>5

(* A DELETE goes on only with a job for which no page can be pulled any more. *)
LEMMA DeleteMarkedInv ==
  ASSUME TypeInv, SlotInv, LateInv, NEW d \in Deleters, Delete(d)
  PROVE  MarkedInv'
  <1> DEFINE After == {"push", "cleanup", "join", "probe", "finalize"}
  <1> SUFFICES ASSUME NEW e \in Deleters, dpc'[e] \in After
               PROVE  Settled(djob[e])'
    BY DEF MarkedInv
  <1>0. TypeOK /\ Next
    BY DEF TypeInv, Next
  <1>1. CASE DeleteMark(d) /\ e = d
    <2>1. djob[d] \in Jobs /\ djob' = djob
      BY <1>1 DEF DeleteMark, MarkUnless, DeleteStep, SlotInv, DeleterInv
    <2>2. cancel_event'[djob[d]] \/ terminal(djob[d])
      BY <1>0, <1>1, <2>1 DEF DeleteMark, MarkUnless, TypeOK, StateTypeOK
    <2>3. terminal(djob[d]) => terminal(djob[d])'
      BY <1>0, <2>1, OutcomeStays DEF terminal
    <2>4. QED BY <1>1, <2>1, <2>2, <2>3 DEF Settled, terminal
  <1>2. CASE ~(DeleteMark(d) /\ e = d)
    <2>1. dpc[e] \in After /\ djob'[e] = djob[e]
      <3> USE DEF DeleteStep, DeleteReturn, TypeOK, DeleteTypeOK
      <3>1. CASE e # d
        BY <1>0, <3>1
        DEF Delete, DeleteLookup, DeleteReadSlot, DeleteMark, MarkUnless, DeletePush,
            DeleteCleanup, DeleteRaises, DeleteJoin, DeleteProbe, DeleteFinalize,
            DeleteRelease
      <3>2. CASE e = d
        BY <1>0, <1>2, <3>2
        DEF Delete, DeleteLookup, DeleteReadSlot, DeletePush, DeleteCleanup,
            DeleteRaises, DeleteJoin, DeleteProbe, DeleteFinalize, DeleteRelease
      <3>3. QED BY <3>1, <3>2
    <2>2. djob[e] \in Jobs
      BY <2>1 DEF SlotInv, DeleterInv
    <2>3. Settled(djob[e])
      BY <2>1 DEF LateInv, MarkedInv
    <2>4. Settled(djob[e])' <=> cancel_event'[djob[e]] \/ state'[djob[e]] \in Finished
      BY <2>1 DEF Settled, terminal
    <2>5. \A k \in Jobs : Settled(k) => cancel_event'[k] \/ state'[k] \in Finished
      BY <1>0, SettledStays DEF Settled, terminal
    <2>6. QED BY <2>2, <2>3, <2>4, <2>5
  <1>3. QED BY <1>1, <1>2

(* A POST or a reader touches no deleted job.                                 *)
LEMMA OtherLateInv ==
  ASSUME TypeInv, SlotInv, PagesInv, LateInv, Next,
         \/ \E started \in BOOLEAN : CreateJob(started)
         \/ \E r \in Readers : NextDocumentLookup(r) \/ NextDocument(r)
  PROVE  LateInv'
  <1>0. TypeOK BY DEF TypeInv
  <1>1. UNCHANGED <<dpc, djob, deleted, retained_pages, cancel_event>>
    BY DEF CreateJob, NextDocumentLookup, NextDocument, ReadStep, pageVars, deleteVars
  <1>2. ASSUME NEW k \in Jobs PROVE DeletedInv(k)'
    <2>1. DeletedInv(k) /\ (deleted[k] => Settled(k)')
      BY <1>0, SettledStays DEF LateInv, DeletedInv
    <2>2. Kept(k)' = Kept(k)
      BY <1>1 DEF Kept
    <2>3. CASE \E started \in BOOLEAN : CreateJob(started)
      <3>1. PICK started \in BOOLEAN : CreateJob(started)
        BY <2>3
      <3>2. pages' = pages /\ delivered' = delivered
        BY <3>1 DEF CreateJob, pageVars, readVars
      <3>3. wpc'[k] = wpc[k] \/ wpc[k] = "none"
        <4>1. made + 1 \in Jobs /\ wpc[made + 1] = "none"
          BY <1>0, <3>1, ConstantsAssumption
          DEF CreateJob, TypeOK, ManagerTypeOK, Jobs, SlotInv, BirthInv
        <4>2. QED BY <1>0, <3>1, <4>1 DEF CreateJob, TypeOK, WorkerTypeOK
      <3>4. PastAppend(k) => PastAppend(k)'
        BY <3>3 DEF PastAppend
      <3>5. QED BY <1>1, <2>1, <2>2, <3>2, <3>4, SameDeletedInv
    <2>4. CASE \E r \in Readers : NextDocumentLookup(r) \/ NextDocument(r)
      <3>1. PICK r \in Readers : NextDocumentLookup(r) \/ NextDocument(r)
        BY <2>4
      <3>2. wpc' = wpc
        BY <3>1 DEF NextDocumentLookup, NextDocument, ReadStep
      <3>3. deleted[k] => pages'[k] = pages[k] /\ delivered'[k] = delivered[k]
        <4>1. RequestInv BY DEF PagesInv
        <4>2. CASE NextDocumentLookup(r) BY <4>2 DEF NextDocumentLookup
        <4>3. CASE NextDocument(r) BY <1>0, <4>1, <4>3, NextDocumentEffect
        <4>4. QED BY <3>1, <4>2, <4>3
      <3>4. PastAppend(k) => PastAppend(k)'
        BY <3>2 DEF PastAppend
      <3>5. QED BY <1>1, <2>1, <2>2, <3>3, <3>4, SameDeletedInv
    <2>5. QED BY <2>3, <2>4
  <1>3. MarkedInv'
    <2> SUFFICES ASSUME NEW e \in Deleters,
                        dpc[e] \in {"push", "cleanup", "join", "probe", "finalize"}
                 PROVE  Settled(djob[e])'
      BY <1>1 DEF MarkedInv
    <2>1. djob[e] \in Jobs /\ Settled(djob[e])
      BY DEF SlotInv, DeleterInv, LateInv, MarkedInv
    <2>2. \A k \in Jobs : Settled(k) => cancel_event'[k] \/ state'[k] \in Finished
      BY <1>0, SettledStays DEF Settled, terminal
    <2>3. QED BY <1>1, <2>1, <2>2 DEF Settled, terminal
  <1>4. QED BY <1>2, <1>3 DEF LateInv

(* What is known of deleted jobs is inductive, given the rest.                *)
LEMMA NextLateInv ==
  TypeInv /\ SlotInv /\ PagesInv /\ LateInv /\ [Next]_vars => LateInv'
  <1> SUFFICES ASSUME TypeInv, SlotInv, PagesInv, LateInv, [Next]_vars PROVE LateInv'
    OBVIOUS
  <1>0. TypeOK BY DEF TypeInv
  <1>1. CASE UNCHANGED vars
    BY <1>1 DEF vars, pageVars, deleteVars, readVars, LateInv, DeletedInv, MarkedInv,
                Settled, terminal, HandedWasKept, LatePage, PastAppend, Kept
  <1>2. ASSUME NEW j \in Jobs, Worker(j) PROVE LateInv'
    <2>0. Next BY <1>2 DEF Next
    <2>1. UNCHANGED <<dpc, djob, cancel_event, deleted, delivered>>
      BY <1>0, <1>2, WorkerMove DEF WorkerMoves, WorkerStep, deleteVars, readVars
    <2>2. ASSUME NEW k \in Jobs PROVE DeletedInv(k)'
      <3>1. CASE k = j BY <1>2, <3>1, WorkerDeletedInv
      <3>2. CASE k # j
        <4>1. SameJob(k) BY <1>0, <1>2, <3>2, WorkerTouchesOne
        <4>2. DeletedInv(k) /\ (deleted[k] => Settled(k)')
          BY <1>0, <2>0, SettledStays DEF LateInv, DeletedInv
        <4>3. QED BY <4>1, <4>2, SameDeletedInv DEF SameJob, Kept, PastAppend
      <3>3. QED BY <3>1, <3>2
    <2>3. MarkedInv'
      <3> SUFFICES ASSUME NEW e \in Deleters,
                          dpc[e] \in {"push", "cleanup", "join", "probe", "finalize"}
                   PROVE  Settled(djob[e])'
        BY <2>1 DEF MarkedInv
      <3>1. djob[e] \in Jobs /\ Settled(djob[e])
        BY DEF SlotInv, DeleterInv, LateInv, MarkedInv
      <3>2. \A k \in Jobs : Settled(k) => cancel_event'[k] \/ state'[k] \in Finished
        BY <1>0, <2>0, SettledStays DEF Settled, terminal
      <3>3. QED BY <2>1, <3>1, <3>2 DEF Settled, terminal
    <2>4. QED BY <2>2, <2>3 DEF LateInv
  <1>3. ASSUME NEW d \in Deleters, Delete(d) PROVE LateInv'
    BY <1>3, DeleteDeletedInv, DeleteMarkedInv DEF LateInv
  <1>4. QED BY <1>1, <1>2, <1>3, OtherLateInv DEF Next

(* What becomes of deleted jobs, in every reachable state.                    *)
THEOREM LateInvariant == Spec => [](TypeInv /\ SlotInv /\ PagesInv /\ LateInv)
  BY PagesInvariant, InitLateInv, NextLateInv, PTL DEF Spec

(* A worker that has gone leaves bytes only in its job's queue, where no page *)
(* is one that was handed out, and of a deleted job there is at most one.     *)
LEMMA ExitLeavesQueue == TypeInv /\ PagesInv /\ LateInv => ExitReleasesBytes
  <1> SUFFICES ASSUME TypeInv, PagesInv, LateInv, NEW j \in Jobs, wpc[j] = "dead"
               PROVE  /\ \A i \in DOMAIN delivered[j] : delivered[j][i] \notin image_bytes(j)
                      /\ deleted[j] => Cardinality(image_bytes(j)) <= 1
    BY DEF ExitReleasesBytes
  <1>1. image_bytes(j) = {pages[j][i] : i \in DOMAIN pages[j]}
    BY DEF image_bytes, PagesInv, JobInv, BytesInv
  <1>2. CASE deleted[j]
    <2>1. LatePage(j)
      BY <1>2 DEF LateInv, DeletedInv
    <2>2. CASE pages[j] = <<>>
      <3>1. image_bytes(j) = {} BY <1>1, <2>2
      <3>2. QED BY <3>1, FS_EmptySet
    <2>3. CASE \E p \in Pages : /\ pages[j] = <<p>>
                                /\ \A i \in DOMAIN delivered[j] : delivered[j][i] # p
      <3>1. PICK p \in Pages : /\ pages[j] = <<p>>
                               /\ \A i \in DOMAIN delivered[j] : delivered[j][i] # p
        BY <2>3
      <3>2. image_bytes(j) = {p} BY <1>1, <3>1
      <3>3. Cardinality({p}) = 1 BY FS_Singleton
      <3>4. QED BY <3>1, <3>2, <3>3
    <2>4. QED BY <2>1, <2>2, <2>3 DEF LatePage
  <1>3. CASE ~deleted[j]
    <2>1. delivered[j] \in Seq(Pages) /\ pages[j] \in Seq(Pages)
      BY DEF TypeInv, TypeOK, PagesTypeOK, ReadTypeOK
    <2>2. retained_pages[j] = delivered[j] \o pages[j]
      BY <1>3 DEF PagesInv, JobInv, Conserved
    <2>3. \A i \in DOMAIN retained_pages[j] : \A m \in DOMAIN retained_pages[j] :
             i < m => retained_pages[j][i] < retained_pages[j][m]
      BY DEF PagesInv, JobInv, OrderInv
    <2>4. \A i \in DOMAIN delivered[j] : \A m \in DOMAIN pages[j] :
             delivered[j][i] # pages[j][m]
      <3>1. ASSUME NEW s \in Seq(Pages), NEW t \in Seq(Pages), NEW k, k = s \o t,
                   \A i \in DOMAIN k : \A m \in DOMAIN k : i < m => k[i] < k[m]
            PROVE  \A i \in DOMAIN s : \A m \in DOMAIN t : s[i] # t[m]
        BY <3>1, PartsApart
      <3>2. QED BY <2>1, <2>2, <2>3, <3>1
    <2>5. QED BY <1>1, <1>3, <2>4
  <1>4. QED BY <1>2, <1>3

(* However a worker ended, what bytes its job still holds are those of pages  *)
(* no client has; a deleted job holds those of one late page at most.         *)
THEOREM BytesReleased == Spec => []ExitReleasesBytes
  BY ExitLeavesQueue, LateInvariant, PTL

----------------------------------------------------------------------------
\* The refinement: every step of the manager is a step of SingleJobScanner, or
\* changes nothing that it speaks of.

\* Nothing the abstract scanner speaks of changes.
ScannerStutters == UNCHANGED <<phase, retained_pages, delivered, deleted>>

(* The manager starts where the scanner starts.                               *)
LEMMA InitScanner == Init => Scanner!Init
  BY DEF Init, Scanner!Init, phase, InProgress

(* The phase of a job follows its state.                                      *)
LEMMA PhaseFollows ==
  ASSUME TypeOK, NEW j \in Jobs, NEW now, state' = [state EXCEPT ![j] = now]
  PROVE  phase' = [phase EXCEPT ![j] = IF now \in InProgress THEN "open" ELSE now]
  BY DEF phase, TypeOK, StateTypeOK

(* POST admits a job, when none is open.                                      *)
LEMMA CreateAdmits ==
  ASSUME TypeOK, SlotInv, NEW started \in BOOLEAN, CreateJob(started)
  PROVE  \E j \in Jobs : Scanner!Admit(j)
  <1> DEFINE new == made + 1
  <1>1. new \in Jobs
    BY ConstantsAssumption DEF CreateJob, TypeOK, ManagerTypeOK, Jobs
  <1>2. phase[new] = "unborn"
    BY <1>1 DEF SlotInv, BirthInv, TypeOK, ManagerTypeOK, Jobs, phase, InProgress
  <1>3. \A k \in Jobs : phase[k] # "open"
    BY DEF CreateJob, SlotFree, SlotInv, OneJobAtATime, InProgress, Finished, terminal,
           NoJob, Jobs, phase, TypeOK, StateTypeOK
  <1>4. phase' = [phase EXCEPT ![new] = "open"]
    <2>1. state' = [state EXCEPT ![new] = "created"] BY DEF CreateJob
    <2>2. QED BY <1>1, <2>1, PhaseFollows DEF InProgress
  <1>5. UNCHANGED <<retained_pages, delivered, deleted>>
    BY DEF CreateJob, pageVars, readVars
  <1>6. QED BY <1>1, <1>2, <1>3, <1>4, <1>5 DEF Scanner!Admit

(* A worker scans a page, closes its job, or works unseen.                    *)
LEMMA WorkerScans ==
  ASSUME TypeInv, SlotInv, PagesInv, NEW j \in Jobs, Worker(j)
  PROVE  \/ \E p \in Pages : Scanner!Scan(j, p)
         \/ \E outcome \in Finished : Scanner!Close(j, outcome)
         \/ ScannerStutters
  <1> USE DEF TypeInv
  <1>1. UNCHANGED <<delivered, deleted>>
    BY WorkerPageMove
    DEF BackendTakePage, TakePage, WorkerDropBlank, WorkerAppend, AppendTo,
        WorkerRelease, PagesStay, WorkerStep, readVars
  <1>2. wpc[j] \in Running => phase[j] = "open"
    BY DEF SlotInv, PlaceInv, phase
  <1>3. CASE WorkerAppend(j)
    <2>1. wpc[j] = "append" /\ state' = state
          /\ retained_pages' = [retained_pages EXCEPT ![j] = Append(@, pulled[j])]
      BY <1>3 DEF WorkerAppend, AppendTo, WorkerStep
    <2>2. pulled[j] \in Pages
      BY <2>1 DEF PulledInv
    <2>3. \A i \in DOMAIN retained_pages[j] : retained_pages[j][i] < pulled[j]
      BY <2>1 DEF PagesInv, JobInv, OrderInv
    <2>4. phase' = phase /\ phase[j] = "open"
      BY <1>2, <2>1 DEF phase, Running, Scanning
    <2>5. Scanner!Scan(j, pulled[j])
      BY <1>1, <2>1, <2>3, <2>4 DEF Scanner!Scan
    <2>6. QED BY <2>2, <2>5
  <1>4. CASE ~WorkerAppend(j)
    <2>1. retained_pages' = retained_pages
      BY <1>4, WorkerPageMove
      DEF BackendTakePage, TakePage, WorkerDropBlank, WorkerRelease, PagesStay, jobVars,
          pageVars
    <2>2. ASSUME NEW now, state' = [state EXCEPT ![j] = now],
                 (IF now \in InProgress THEN "open" ELSE now) = phase[j]
          PROVE  ScannerStutters
      <3>1. phase' = [phase EXCEPT ![j] = phase[j]]
        BY <2>2, PhaseFollows
      <3>2. phase' = phase
        BY <3>1 DEF phase
      <3>3. QED BY <1>1, <2>1, <3>2 DEF ScannerStutters
    <2>3. ASSUME state' = [state EXCEPT ![j] = state[j]] PROVE ScannerStutters
      BY <2>2, <2>3 DEF phase
    <2>4. CASE WorkerMoves(j, "begin", "open", "processing", active, current_client)
      <3>1. phase[j] = "open" /\ state' = [state EXCEPT ![j] = "processing"]
        BY <1>2, <2>4 DEF WorkerMoves, WorkerStep, Running
      <3>2. QED BY <2>2, <3>1 DEF InProgress
    <2>5. CASE \E from \in {"finish", "fail"}, now \in Finished :
                 WorkerMoves(j, from, "clear", now, active, current_client)
      <3>1. PICK from \in {"finish", "fail"}, now \in Finished :
                   WorkerMoves(j, from, "clear", now, active, current_client)
        BY <2>5
      <3>2. phase[j] = "open" /\ state' = [state EXCEPT ![j] = now]
        BY <1>2, <3>1 DEF WorkerMoves, WorkerStep, Running
      <3>3. phase' = [phase EXCEPT ![j] = now]
        BY <3>1, <3>2, PhaseFollows DEF InProgress, Finished
      <3>4. Scanner!Close(j, now)
        BY <1>1, <2>1, <3>2, <3>3 DEF Scanner!Close
      <3>5. QED BY <3>1, <3>4
    <2>6. QED BY <2>3, <2>4, <2>5, WorkerMove DEF WorkerMoves
  <1>5. QED BY <1>3, <1>4

(* A DELETE withdraws its job, or is not seen: marking a job changes no phase.*)
LEMMA DeleteWithdraws ==
  ASSUME TypeOK, SlotInv, NEW d \in Deleters, Delete(d)
  PROVE  (\E j \in Jobs : Scanner!Withdraw(j)) \/ ScannerStutters
  <1>1. UNCHANGED <<retained_pages, delivered>>
    BY DEF Delete, DeleteLookup, DeleteReadSlot, DeleteMark, MarkUnless, DeletePush,
           DeleteCleanup, DeleteRaises, DeleteJoin, DeleteProbe, DeleteFinalize,
           DeleteRelease, DeleteReturn, DeleteStep, readVars
  <1>2. phase' = phase
    <2>1. ASSUME NEW j \in Jobs
          PROVE  (IF state'[j] \in InProgress THEN "open" ELSE state'[j])
                   = (IF state[j] \in InProgress THEN "open" ELSE state[j])
      <3>1. CASE dpc[d] = "mark" /\ j = djob[d] /\ ~terminal(j)
        <4>1. state[j] # "unborn"
          BY <3>1 DEF SlotInv, DeleterInv
        <4>2. state[j] \in InProgress
          BY <3>1, <4>1 DEF terminal, TypeOK, StateTypeOK
        <4>3. state'[j] = "canceling"
          BY <3>1, DeleteStates
        <4>4. QED BY <4>2, <4>3 DEF InProgress
      <3>2. CASE ~(dpc[d] = "mark" /\ j = djob[d] /\ ~terminal(j))
        BY <3>2, DeleteStates
      <3>3. QED BY <3>1, <3>2
    <2>2. QED BY <2>1 DEF phase
  <1>3. CASE DeleteFinalize(d)
    <2>1. djob[d] \in Jobs /\ state[djob[d]] # "unborn"
          /\ deleted' = [deleted EXCEPT ![djob[d]] = TRUE]
      BY <1>3 DEF DeleteFinalize, DeleteReturn, DeleteStep, SlotInv, DeleterInv
    <2>2. phase[djob[d]] # "unborn"
      BY <2>1 DEF phase
    <2>3. QED BY <1>1, <1>2, <2>1, <2>2 DEF Scanner!Withdraw
  <1>4. CASE ~DeleteFinalize(d)
    <2>1. deleted' = deleted
      BY <1>4 DEF Delete, DeleteLookup, DeleteReadSlot, DeleteMark, MarkUnless, DeletePush,
                  DeleteCleanup, DeleteRaises, DeleteJoin, DeleteProbe, DeleteRelease,
                  deletedVars
    <2>2. QED BY <1>1, <1>2, <2>1 DEF ScannerStutters
  <1>5. QED BY <1>3, <1>4

(* The head of the queue is the first page kept that was not handed out.      *)
LEMMA HeadIsNext ==
  ASSUME NEW s \in Seq(Pages), NEW t \in Seq(Pages), t # <<>>
  PROVE  Len(s) < Len(s \o t) /\ (s \o t)[Len(s) + 1] = Head(t)
  <1>1. Len(s) \in Nat /\ Len(t) \in Nat \ {0}
    BY LenProperties, EmptySeq
  <1>2. /\ Len(s \o t) = Len(s) + Len(t)
        /\ \A i \in 1 .. Len(s) + Len(t) :
              (s \o t)[i] = IF i <= Len(s) THEN s[i] ELSE t[i - Len(s)]
    BY ConcatProperties
  <1>3. (s \o t)[Len(s) + 1] = t[1]
    BY <1>1, <1>2
  <1>4. QED BY <1>1, <1>2, <1>3

(* A NextDocument takes the next page of its job, or is not seen.             *)
LEMMA ReadTakes ==
  ASSUME TypeOK, PagesInv, NEW r \in Readers, NextDocumentLookup(r) \/ NextDocument(r)
  PROVE  (\E j \in Jobs : Scanner!Take(j)) \/ ScannerStutters
  <1>1. UNCHANGED <<state, retained_pages, deleted>> /\ phase' = phase
    BY DEF NextDocumentLookup, NextDocument, ReadStep, phase
  <1>2. CASE NextDocumentLookup(r)
    BY <1>1, <1>2 DEF NextDocumentLookup, ScannerStutters
  <1>3. CASE NextDocument(r) /\ delivered' = delivered
    BY <1>1, <1>3 DEF ScannerStutters
  <1>4. CASE NextDocument(r) /\ delivered' # delivered
    <2> DEFINE j == rjob[r]
    <2>1. RequestInv BY DEF PagesInv
    <2>2. j \in Jobs
      BY <1>4 DEF NextDocument, ReadStep, PagesInv, RequestInv
    <2>3. delivered' = [delivered EXCEPT ![j] = Append(@, Head(pages[j]))]
          /\ Answer(j) = "page"
      BY <1>4 DEF NextDocument
    <2>4. pages[j] # <<>> /\ ~deleted[j]
      BY <2>3 DEF Answer
    <2>5. delivered[j] \o pages[j] = retained_pages[j]
      BY <2>2, <2>4 DEF PagesInv, JobInv, Conserved
    <2>6. delivered[j] \in Seq(Pages) /\ pages[j] \in Seq(Pages)
      BY <2>2 DEF TypeOK, PagesTypeOK, ReadTypeOK
    <2>7. Len(delivered[j]) < Len(retained_pages[j])
          /\ retained_pages[j][Len(delivered[j]) + 1] = Head(pages[j])
      BY <2>4, <2>5, <2>6, HeadIsNext
    <2>8. Scanner!Take(j)
      BY <1>1, <2>3, <2>4, <2>7 DEF Scanner!Take
    <2>9. QED BY <2>2, <2>8
  <1>5. QED BY <1>2, <1>3, <1>4

(* The manager, with its threads, implements the single-job scanner: jobs are *)
(* admitted one at a time, pages arrive in order and are taken once and in    *)
(* order, and an outcome stands.                                              *)
THEOREM Refinement == Spec => ImplementsScanner
  <1>1. TypeInv /\ SlotInv /\ PagesInv /\ [Next]_vars
          => [Scanner!Next]_(Scanner!scannerVars)
    <2> SUFFICES ASSUME TypeInv, SlotInv, PagesInv, [Next]_vars
                 PROVE  Scanner!Next \/ ScannerStutters
      BY DEF Scanner!scannerVars, ScannerStutters
    <2>0. TypeOK BY DEF TypeInv
    <2>1. CASE UNCHANGED vars
      BY <2>1 DEF vars, pageVars, readVars, phase, ScannerStutters
    <2>2. ASSUME NEW started \in BOOLEAN, CreateJob(started) PROVE Scanner!Next
      BY <2>0, <2>2, CreateAdmits DEF Scanner!Next
    <2>3. ASSUME NEW j \in Jobs, Worker(j) PROVE Scanner!Next \/ ScannerStutters
      BY <2>3, WorkerScans DEF Scanner!Next, Scanner!Outcome, Finished
    <2>4. ASSUME NEW d \in Deleters, Delete(d) PROVE Scanner!Next \/ ScannerStutters
      BY <2>0, <2>4, DeleteWithdraws DEF Scanner!Next
    <2>5. ASSUME NEW r \in Readers, NextDocumentLookup(r) \/ NextDocument(r)
          PROVE  Scanner!Next \/ ScannerStutters
      BY <2>0, <2>5, ReadTakes DEF Scanner!Next
    <2>6. QED BY <2>1, <2>2, <2>3, <2>4, <2>5 DEF Next
  <1>2. QED
    BY <1>1, InitScanner, PagesInvariant, PTL DEF Spec, ImplementsScanner, Scanner!Spec

----------------------------------------------------------------------------
\* The backend: the manager drives a page source, and admits whatever a page
\* source does.

\* A worker that has not asked for a page has none.
Early == {"none", "unstarted", "begin", "open"}
FreshInv == \A j \in Jobs : wpc[j] \in Early => pulled[j] = 0

\* Nothing the page source speaks of changes.
SourceStutters == iteration' = iteration

(* Only a worker that takes a page changes how many it has.                   *)
LEMMA NextFreshInv ==
  ASSUME TypeOK, SlotInv, FreshInv, [Next]_vars
  PROVE  FreshInv'
  <1>1. CASE UNCHANGED <<wpc, pulled>>
    BY <1>1 DEF FreshInv
  <1>2. ASSUME NEW started \in BOOLEAN, CreateJob(started) PROVE FreshInv'
    <2>1. pulled' = pulled BY <1>2 DEF CreateJob, scanVars
    <2>2. made + 1 \in Jobs /\ wpc[made + 1] = "none"
      BY <1>2, ConstantsAssumption
      DEF CreateJob, SlotInv, BirthInv, TypeOK, ManagerTypeOK, Jobs
    <2>3. \A j \in Jobs : j # made + 1 => wpc'[j] = wpc[j]
      BY <1>2 DEF CreateJob, TypeOK, WorkerTypeOK
    <2>4. QED BY <2>1, <2>2, <2>3 DEF FreshInv, Early
  <1>3. ASSUME NEW j \in Jobs, Worker(j) PROVE FreshInv'
    <2>1. \A k \in Jobs : k # j => wpc'[k] = wpc[k] /\ pulled'[k] = pulled[k]
      BY <1>3
      DEF Worker, WorkerBegin, BackendOpen, BackendTakePage, TakePage, BackendYield,
          BackendExhausted, BackendRaises, RaiseOwnedBy, WorkerLeaveLoop,
          WorkerDropBlank, WorkerKeepPage, WorkerAppend, AppendTo, WorkerFinish, EndAs,
          WorkerFail, WorkerClear, WorkerPost, WorkerOcr, WorkerRelease, WorkerStep,
          scanVars, TypeOK, WorkerTypeOK
    <2>2. CASE WorkerBegin(j)
      <3>1. pulled' = pulled /\ wpc[j] \in Early
        BY <2>2 DEF WorkerBegin, WorkerStep, scanVars, Early
      <3>2. QED BY <2>1, <3>1 DEF FreshInv
    <2>3. CASE ~WorkerBegin(j)
      <3>1. wpc'[j] \notin Early
        BY <1>3, <2>3
        DEF Worker, BackendOpen, BackendTakePage, TakePage, BackendYield,
            BackendExhausted, BackendRaises, RaiseOwnedBy, WorkerLeaveLoop,
            WorkerDropBlank, WorkerKeepPage, WorkerAppend, AppendTo, WorkerFinish, EndAs,
            WorkerFail, WorkerClear, WorkerPost, WorkerOcr, WorkerRelease, WorkerStep,
            TypeOK, WorkerTypeOK, Early
      <3>2. QED BY <2>1, <3>1 DEF FreshInv
    <2>4. QED BY <2>2, <2>3
  <1>4. ASSUME NEW d \in Deleters, Delete(d) PROVE UNCHANGED <<wpc, pulled>>
    BY <1>4
    DEF Delete, DeleteLookup, DeleteReadSlot, DeleteMark, MarkUnless, DeletePush,
        DeleteCleanup, DeleteRaises, DeleteJoin, DeleteProbe, DeleteFinalize,
        DeleteRelease, DeleteReturn, DeleteStep, scanVars
  <1>5. ASSUME NEW r \in Readers, NextDocumentLookup(r) \/ NextDocument(r)
        PROVE  UNCHANGED <<wpc, pulled>>
    BY <1>5 DEF NextDocumentLookup, NextDocument, ReadStep, scanVars
  <1>6. CASE UNCHANGED vars
    BY <1>1, <1>6 DEF vars, scanVars
  <1>7. QED BY <1>1, <1>2, <1>3, <1>4, <1>5, <1>6 DEF Next

(* A worker that is inside scan_pages owns the backend, and no other does.    *)
LEMMA IterationOfWorker ==
  ASSUME TypeOK, SlotInv, NEW j \in Jobs, wpc[j] \in Scanning
  PROVE  /\ current_client = j /\ current_client # NoJob
         /\ iteration = [phase |-> IF wpc[j] \in {"check", "append"} THEN "yielded"
                                  ELSE wpc[j],
                        number |-> pulled[j], canceled |-> cancel_event[j]]
  BY DEF SlotInv, ClientInv, iteration, NoJob, Jobs

(* A worker begins, follows and ends an iteration of the page source.         *)
LEMMA WorkerDrives ==
  ASSUME TypeOK, SlotInv, FreshInv, NEW j \in Jobs, Worker(j)
  PROVE  Source!Next \/ SourceStutters
  <1> USE DEF Source!Next
  <1>1. /\ cancel_event' = cancel_event /\ wpc'[j] # wpc[j]
        /\ \A k \in Jobs : k # j => wpc'[k] = wpc[k] /\ pulled'[k] = pulled[k]
    BY DEF Worker, WorkerBegin, BackendOpen, BackendTakePage, TakePage, BackendYield,
           BackendExhausted, BackendRaises, RaiseOwnedBy, WorkerLeaveLoop,
           WorkerDropBlank, WorkerKeepPage, WorkerAppend, AppendTo, WorkerFinish, EndAs,
           WorkerFail, WorkerClear, WorkerPost, WorkerOcr, WorkerRelease, WorkerStep,
           scanVars, TypeOK, WorkerTypeOK
  <1>2. j # NoJob BY DEF NoJob, Jobs
  <1>3. CASE wpc[j] \in Scanning
    <2> DEFINE at == wpc[j]
    <2>1. /\ current_client = j
          /\ iteration.phase = IF at \in {"check", "append"} THEN "yielded" ELSE at
          /\ iteration.number = pulled[j] /\ iteration.canceled = cancel_event[j]
      BY <1>3, IterationOfWorker
    <2>2. current_client' = NoJob =>
            iteration' = [phase |-> "idle", number |-> 0, canceled |-> FALSE]
      BY DEF iteration
    <2>3. current_client' = j =>
            iteration' = [phase |-> IF wpc'[j] \in {"check", "append"} THEN "yielded"
                                    ELSE wpc'[j],
                          number |-> pulled'[j], canceled |-> cancel_event[j]]
      BY <1>1, <1>2 DEF iteration
    <2>4. CASE BackendTakePage(j)
      <3>1. /\ at = "fetch" /\ wpc'[j] = "render" /\ pulled'[j] = pulled[j] + 1
            /\ pulled[j] < MaxPages /\ ~cancel_event[j] /\ current_client' = j
        BY <2>1, <2>4 DEF BackendTakePage, TakePage, WorkerStep, TypeOK, WorkerTypeOK
      <3>2. QED BY <2>1, <2>3, <3>1 DEF Source!Take
    <2>5. CASE BackendYield(j)
      <3>1. /\ at = "render" /\ wpc'[j] = "check" /\ pulled' = pulled
            /\ current_client' = j
        BY <2>1, <2>5 DEF BackendYield, WorkerStep, TypeOK, WorkerTypeOK
      <3>2. QED BY <2>1, <2>3, <3>1 DEF Source!Yield
    <2>6. CASE BackendExhausted(j) \/ BackendRaises(j) \/ WorkerLeaveLoop(j)
      <3>1. at \in {"fetch", "render", "check"} /\ current_client' = NoJob
        BY <2>6
        DEF BackendExhausted, BackendRaises, RaiseOwnedBy, WorkerLeaveLoop, WorkerStep
      <3>2. QED BY <2>1, <2>2, <3>1 DEF Source!Stop
    <2>7. CASE WorkerDropBlank(j) \/ WorkerAppend(j)
      <3>1. /\ at \in {"check", "append"} /\ wpc'[j] = "fetch" /\ pulled' = pulled
            /\ current_client' = j
        BY <2>1, <2>7
        DEF WorkerDropBlank, WorkerAppend, AppendTo, WorkerStep, scanVars, TypeOK,
            WorkerTypeOK
      <3>2. QED BY <2>1, <2>3, <3>1 DEF Source!Resume
    <2>8. CASE WorkerKeepPage(j)
      <3>1. /\ at = "check" /\ wpc'[j] = "append" /\ pulled' = pulled
            /\ current_client' = j
        BY <2>1, <2>8 DEF WorkerKeepPage, WorkerStep, TypeOK, WorkerTypeOK
      <3>2. QED BY <1>3, <2>3, <3>1, IterationOfWorker DEF SourceStutters
    <2>9. QED
      BY <1>3, <2>4, <2>5, <2>6, <2>7, <2>8
      DEF Worker, WorkerBegin, BackendOpen, WorkerFinish, WorkerFail, EndAs, WorkerClear,
          WorkerPost, WorkerOcr, WorkerRelease, WorkerStep, Scanning
  <1>4. CASE BackendOpen(j)
    <2>1. /\ wpc[j] = "open" /\ wpc'[j] = "fetch" /\ pulled' = pulled
          /\ current_client = NoJob /\ current_client' = j
      BY <1>4 DEF BackendOpen, WorkerStep, TypeOK, WorkerTypeOK
    <2>2. pulled'[j] = 0 /\ cancel_event'[j] \in BOOLEAN
      BY <1>1, <2>1 DEF FreshInv, Early, TypeOK, StateTypeOK
    <2>3. iteration.phase = "idle" /\ iteration' = [phase |-> "fetch", number |-> 0,
                                                   canceled |-> cancel_event'[j]]
      BY <1>2, <2>1, <2>2 DEF iteration
    <2>4. QED BY <2>2, <2>3 DEF Source!Begin
  <1>5. CASE wpc[j] \notin Scanning /\ ~BackendOpen(j)
    <2>1. current_client' = current_client /\ pulled' = pulled
      BY <1>5
      DEF Worker, WorkerBegin, BackendTakePage, TakePage, BackendYield, BackendExhausted,
          BackendRaises, RaiseOwnedBy, WorkerLeaveLoop, WorkerDropBlank, WorkerKeepPage,
          WorkerAppend, AppendTo, WorkerFinish, EndAs, WorkerFail, WorkerClear, WorkerPost,
          WorkerOcr, WorkerRelease, WorkerStep, scanVars, Scanning
    <2>2. current_client # j /\ current_client \in Jobs \cup {NoJob}
      BY <1>5 DEF SlotInv, ClientInv, TypeOK, WorkerTypeOK
    <2>3. QED BY <1>1, <2>1, <2>2 DEF SourceStutters, iteration
  <1>6. QED BY <1>3, <1>4, <1>5

(* A DELETE cancels the iteration of its job, or is not seen.                 *)
LEMMA DeleteCancels ==
  ASSUME TypeOK, SlotInv, NEW d \in Deleters, Delete(d)
  PROVE  Source!Cancel \/ SourceStutters
  <1>1. UNCHANGED <<wpc, pulled, current_client>>
    BY DEF Delete, DeleteLookup, DeleteReadSlot, DeleteMark, MarkUnless, DeletePush,
           DeleteCleanup, DeleteRaises, DeleteJoin, DeleteProbe, DeleteFinalize,
           DeleteRelease, DeleteReturn, DeleteStep, scanVars
  <1>2. cancel_event' = cancel_event
          \/ \E was_terminal \in BOOLEAN :
                cancel_event' = [cancel_event EXCEPT ![djob[d]] = @ \/ ~was_terminal]
    BY DEF Delete, DeleteLookup, DeleteReadSlot, DeleteMark, MarkUnless, DeletePush,
           DeleteCleanup, DeleteRaises, DeleteJoin, DeleteProbe, DeleteFinalize,
           DeleteRelease, DeleteReturn, DeleteStep, deletedVars, terminal
  <1>3. CASE current_client = NoJob
    BY <1>1, <1>3 DEF SourceStutters, iteration
  <1>4. CASE current_client # NoJob
    <2> DEFINE j == current_client
    <2>1. j \in Jobs /\ wpc[j] \in Scanning
      BY <1>4 DEF TypeOK, WorkerTypeOK, SlotInv, ClientInv
    <2>2. cancel_event'[j] = cancel_event[j] \/ cancel_event'[j] = TRUE
      BY <1>2, <2>1 DEF TypeOK, StateTypeOK
    <2>3. iteration' = [iteration EXCEPT !.canceled = cancel_event'[j]]
          /\ iteration.canceled = cancel_event[j] /\ iteration.phase # "idle"
      BY <1>1, <1>4, <2>1 DEF iteration, Scanning
    <2>4. CASE cancel_event'[j] = cancel_event[j]
      BY <1>1, <1>4, <2>4 DEF SourceStutters, iteration
    <2>5. CASE cancel_event'[j] = TRUE
      BY <2>3, <2>5, <1>1, <1>4 DEF Source!Cancel, iteration
    <2>6. QED BY <2>2, <2>4, <2>5
  <1>5. QED BY <1>3, <1>4

(* Whichever jobs come and go, the manager drives its backend as one page     *)
(* source: one iteration at a time, from its first page, ended before the     *)
(* next begins, and no page past the feeder's or after a cancel.              *)
THEOREM DrivesBackend == Spec => DrivesPageSource
  <1>1. Init => Source!Init /\ FreshInv
    BY DEF Init, Source!Init, iteration, FreshInv
  <1>2. TypeInv /\ SlotInv /\ FreshInv /\ [Next]_vars => FreshInv'
    BY NextFreshInv DEF TypeInv
  <1>3. TypeInv /\ SlotInv /\ FreshInv /\ [Next]_vars => [Source!Next]_(Source!sourceVars)
    <2> SUFFICES ASSUME TypeInv, SlotInv, FreshInv, [Next]_vars
                 PROVE  Source!Next \/ SourceStutters
      BY DEF SourceStutters, Source!sourceVars
    <2>0. TypeOK BY DEF TypeInv
    <2>1. CASE UNCHANGED vars
      BY <2>1 DEF vars, scanVars, SourceStutters, iteration
    <2>2. ASSUME NEW started \in BOOLEAN, CreateJob(started) PROVE SourceStutters
      <3>1. /\ UNCHANGED <<cancel_event, pulled, current_client>>
            /\ \A j \in Jobs : j # made + 1 => wpc'[j] = wpc[j]
        BY <2>0, <2>2 DEF CreateJob, scanVars, TypeOK, WorkerTypeOK
      <3>2. current_client # NoJob => current_client \in Jobs /\ current_client # made + 1
        BY <2>0, <2>2, ConstantsAssumption
        DEF CreateJob, SlotInv, BirthInv, ClientInv, TypeOK, ManagerTypeOK, WorkerTypeOK, Jobs,
            Scanning
      <3>3. QED BY <3>1, <3>2 DEF SourceStutters, iteration
    <2>3. ASSUME NEW j \in Jobs, Worker(j) PROVE Source!Next \/ SourceStutters
      BY <2>0, <2>3, WorkerDrives
    <2>4. ASSUME NEW d \in Deleters, Delete(d) PROVE Source!Next \/ SourceStutters
      BY <2>0, <2>4, DeleteCancels DEF Source!Next
    <2>5. ASSUME NEW r \in Readers, NextDocumentLookup(r) \/ NextDocument(r)
          PROVE  SourceStutters
      BY <2>5 DEF NextDocumentLookup, NextDocument, ReadStep, scanVars, SourceStutters,
                  iteration
    <2>6. QED BY <2>1, <2>2, <2>3, <2>4, <2>5 DEF Next
  <1>4. QED
    BY <1>1, <1>2, <1>3, PagesInvariant, PTL DEF Spec, DrivesPageSource, Source!Spec

\* The generator of job j's worker acts, and the worker goes on to `to': of all
\* the manager's state only that worker's place, its page and the backend's
\* owner may change.
GeneratorActs(j, to) ==
    /\ wpc' = [wpc EXCEPT ![j] = to]
    /\ \E n \in 0 .. MaxPages : pulled' = [pulled EXCEPT ![j] = n]
    /\ \E b \in BOOLEAN : blank' = [blank EXCEPT ![j] = b]
    /\ current_client' \in {j, NoJob}
    /\ UNCHANGED <<jobVars, jobs, made, cancel_event, deleted, detect, deleteVars, readVars>>
HandsNothing == UNCHANGED <<pulled, blank>>

(* Whatever a page source may do when it is its turn, the manager's model of  *)
(* the generator does: with SourceRefinement, each behaviour of the live      *)
(* backend is one that the theorems about the manager have taken into account.*)
THEOREM AdmitsPageSource ==
  ASSUME TypeOK, SlotInv, FreshInv, NEW j \in Jobs
  PROVE  /\ wpc[j] = "open" /\ Source!Begin /\ GeneratorActs(j, "fetch") /\ HandsNothing
               => BackendOpen(j)
         /\ wpc[j] \in Scanning =>
               /\ Source!Take /\ GeneratorActs(j, "render") /\ blank' = blank
                     => BackendTakePage(j)
               /\ Source!Yield /\ GeneratorActs(j, "check") => BackendYield(j)
               /\ Source!Stop /\ GeneratorActs(j, "finish") /\ HandsNothing
                        /\ iteration.phase = "fetch"
                     => BackendExhausted(j)
               /\ Source!Stop /\ GeneratorActs(j, "fail") /\ HandsNothing
                        /\ iteration.phase \in {"fetch", "render"}
                     => BackendRaises(j)
  <1> USE DEF GeneratorActs, HandsNothing, WorkerStep
  <1>1. j # NoJob BY DEF NoJob, Jobs
  <1>2. ASSUME wpc[j] = "open", Source!Begin, GeneratorActs(j, "fetch"), HandsNothing
        PROVE  BackendOpen(j)
    <2>1. iteration.phase = "idle" /\ iteration'.phase = "fetch"
      BY <1>2 DEF Source!Begin
    <2>2. current_client = NoJob
      BY <2>1 DEF iteration, SlotInv, ClientInv, TypeOK, WorkerTypeOK, Scanning
    <2>3. current_client' # NoJob
      BY <2>1 DEF iteration
    <2>4. QED BY <1>2, <2>2, <2>3 DEF BackendOpen
  <1>3. ASSUME wpc[j] \in Scanning
        PROVE  /\ current_client = j
               /\ wpc[j] \in {"fetch", "render"} => iteration.phase = wpc[j]
               /\ iteration.phase \in {"fetch", "render"} => wpc[j] = iteration.phase
               /\ iteration.number = pulled[j] /\ iteration.canceled = cancel_event[j]
               /\ iteration'.phase # "idle" => current_client' # NoJob
               /\ iteration'.phase = "idle" /\ wpc'[j] \in Places
                     /\ current_client' \in {j, NoJob} => current_client' = NoJob
    <2>1. /\ current_client = j
          /\ iteration.phase = IF wpc[j] \in {"check", "append"} THEN "yielded" ELSE wpc[j]
          /\ iteration.number = pulled[j] /\ iteration.canceled = cancel_event[j]
      BY <1>3, IterationOfWorker
    <2>2. current_client' = NoJob => iteration'.phase = "idle"
      BY DEF iteration
    <2>3. current_client' = j =>
             iteration'.phase = IF wpc'[j] \in {"check", "append"} THEN "yielded" ELSE wpc'[j]
      BY <1>1 DEF iteration
    <2>4. QED BY <2>1, <2>2, <2>3 DEF Places, Running, Scanning, Ending
  <1>4. ASSUME wpc[j] \in Scanning, Source!Take, GeneratorActs(j, "render"), blank' = blank
        PROVE  BackendTakePage(j)
    <2>1. /\ wpc[j] = "fetch" /\ pulled[j] < MaxPages /\ ~cancel_event[j]
          /\ iteration'.number = pulled[j] + 1 /\ iteration'.phase = "render"
      BY <1>3, <1>4 DEF Source!Take
    <2>2. wpc'[j] = "render" /\ current_client' = j
      BY <1>3, <1>4, <2>1 DEF TypeOK, WorkerTypeOK
    <2>3. pulled'[j] = pulled[j] + 1
      BY <1>1, <2>1, <2>2 DEF iteration
    <2>4. pulled' = [pulled EXCEPT ![j] = @ + 1]
      BY <1>4, <2>3 DEF TypeOK, WorkerTypeOK
    <2>5. QED BY <1>3, <1>4, <2>1, <2>2, <2>4 DEF BackendTakePage, TakePage
  <1>5. ASSUME wpc[j] \in Scanning, Source!Yield, GeneratorActs(j, "check")
        PROVE  BackendYield(j)
    <2>1. wpc[j] = "render" /\ iteration'.number = pulled[j] /\ iteration'.phase = "yielded"
      BY <1>3, <1>5 DEF Source!Yield
    <2>2. wpc'[j] = "check" /\ current_client' = j
      BY <1>3, <1>5, <2>1 DEF TypeOK, WorkerTypeOK
    <2>3. pulled'[j] = pulled[j]
      BY <1>1, <2>1, <2>2 DEF iteration
    <2>4. pulled' = pulled
      BY <1>5, <2>3 DEF TypeOK, WorkerTypeOK
    <2>5. QED BY <1>3, <1>5, <2>1, <2>2, <2>4 DEF BackendYield
  <1>6. ASSUME wpc[j] \in Scanning, Source!Stop, NEW to \in {"finish", "fail"},
               GeneratorActs(j, to)
        PROVE  current_client' = NoJob
    <2>1. iteration'.phase = "idle" BY <1>6 DEF Source!Stop
    <2>2. wpc'[j] = to BY <1>6 DEF TypeOK, WorkerTypeOK
    <2>3. QED BY <1>3, <1>6, <2>1, <2>2 DEF Places, Running
  <1>7. ASSUME wpc[j] \in Scanning, Source!Stop, GeneratorActs(j, "finish"), HandsNothing,
               iteration.phase = "fetch"
        PROVE  BackendExhausted(j)
    BY <1>3, <1>6, <1>7 DEF BackendExhausted
  <1>8. ASSUME wpc[j] \in Scanning, Source!Stop, GeneratorActs(j, "fail"), HandsNothing,
               iteration.phase \in {"fetch", "render"}
        PROVE  BackendRaises(j)
    BY <1>3, <1>6, <1>8 DEF BackendRaises, RaiseOwnedBy
  <1>9. QED BY <1>2, <1>4, <1>5, <1>7, <1>8

----------------------------------------------------------------------------
\* Ending: what EveryJobEnds rests on besides fairness.

Alive(j) == wpc[j] \in Running \cup Ending

\* How far it is from here to the end of the thread, with no further page.
WayOut(at) ==
    CASE at = "render" -> 9
      [] at \in {"begin", "check"} -> 8
      [] at \in {"open", "append"} -> 7
      [] at = "fetch" -> 6
      [] at \in {"finish", "fail"} -> 5
      [] at = "clear" -> 4
      [] at = "post" -> 3
      [] at = "ocr" -> 2
      [] at = "release" -> 1
      [] OTHER -> 0

\* How many steps the worker of job j can still take at most: a page that is
\* pulled, yielded, kept and appended takes four.
StepsAhead(j) == 4 * (MaxPages - pulled[j]) + WayOut(wpc[j])

(* A worker cannot run for ever: each of its steps leaves it fewer, nobody    *)
(* else's step gives it more, and a thread that has ended is not woken.       *)
WorkerStepsFall ==
    [][\A j \in Jobs :
          \/ wpc[j] = "none"
          \/ wpc'[j] = wpc[j] /\ StepsAhead(j)' = StepsAhead(j)
          \/ Alive(j) /\ StepsAhead(j)' < StepsAhead(j)]_vars

(* One step of a worker: from its place to a nearer one, or to a page more.   *)
LEMMA WorkerNearer ==
  ASSUME TypeOK, NEW j \in Jobs, Worker(j)
  PROVE  /\ Alive(j) /\ StepsAhead(j)' < StepsAhead(j)
         /\ \A k \in Jobs : k # j => wpc'[k] = wpc[k] /\ pulled'[k] = pulled[k]
  <1>1. /\ wpc[j] \in Places /\ pulled[j] \in 0 .. MaxPages /\ MaxPages \in Nat
        /\ pulled \in [Jobs -> 0 .. MaxPages] /\ wpc \in [Jobs -> Places]
    BY ConstantsAssumption DEF TypeOK, WorkerTypeOK
  <1>2. /\ wpc[j] # wpc'[j] /\ Alive(j)
        /\ \A k \in Jobs : k # j => wpc'[k] = wpc[k] /\ pulled'[k] = pulled[k]
    BY <1>1
    DEF Worker, WorkerBegin, BackendOpen, BackendTakePage, TakePage, BackendYield,
        BackendExhausted, BackendRaises, RaiseOwnedBy, WorkerLeaveLoop, WorkerDropBlank,
        WorkerKeepPage, WorkerAppend, AppendTo, WorkerFinish, EndAs, WorkerFail,
        WorkerClear, WorkerPost, WorkerOcr, WorkerRelease, WorkerStep, scanVars, Alive,
        Running, Scanning, Ending
  <1>3. CASE BackendTakePage(j)
    <2>1. wpc[j] = "fetch" /\ wpc'[j] = "render" /\ pulled'[j] = pulled[j] + 1
      BY <1>1, <1>3 DEF BackendTakePage, TakePage, WorkerStep
    <2>2. WayOut(wpc[j]) = 6 /\ WayOut(wpc'[j]) = 9
      BY <2>1 DEF WayOut
    <2>3. StepsAhead(j)' = 4 * (MaxPages - pulled'[j]) + WayOut(wpc'[j])
      BY DEF StepsAhead, WayOut
    <2>4. QED BY <1>1, <1>2, <2>1, <2>2, <2>3 DEF StepsAhead
  <1>4. CASE ~BackendTakePage(j)
    <2>1. pulled'[j] = pulled[j]
      BY <1>4
      DEF Worker, WorkerBegin, BackendOpen, BackendYield, BackendExhausted, BackendRaises,
          RaiseOwnedBy, WorkerLeaveLoop, WorkerDropBlank, WorkerKeepPage, WorkerAppend,
          AppendTo, WorkerFinish, EndAs, WorkerFail, WorkerClear, WorkerPost, WorkerOcr,
          WorkerRelease, scanVars
    <2>2. WayOut(wpc'[j]) < WayOut(wpc[j])
      BY <1>1, <1>4
      DEF Worker, WorkerBegin, BackendOpen, BackendYield, BackendExhausted, BackendRaises,
          RaiseOwnedBy, WorkerLeaveLoop, WorkerDropBlank, WorkerKeepPage, WorkerAppend,
          AppendTo, WorkerFinish, EndAs, WorkerFail, WorkerClear, WorkerPost, WorkerOcr,
          WorkerRelease, WorkerStep, WayOut
    <2>3. WayOut(wpc[j]) \in Int /\ WayOut(wpc'[j]) \in Int
      BY DEF WayOut
    <2>4. StepsAhead(j)' = 4 * (MaxPages - pulled'[j]) + WayOut(wpc'[j])
      BY DEF StepsAhead, WayOut
    <2> HIDE DEF WayOut
    <2>5. QED BY <1>1, <1>2, <2>1, <2>2, <2>3, <2>4 DEF StepsAhead
  <1>5. QED BY <1>3, <1>4

(* For any number of pages: no worker takes more than 4 * MaxPages + 9 steps.  *)
THEOREM WorkersCannotLoop ==
  Spec => [](\A j \in Jobs : StepsAhead(j) \in 0 .. 4 * MaxPages + 9) /\ WorkerStepsFall
  <1>1. TypeOK => \A j \in Jobs : StepsAhead(j) \in 0 .. 4 * MaxPages + 9
    <2> SUFFICES ASSUME TypeOK, NEW j \in Jobs
                 PROVE  StepsAhead(j) \in 0 .. 4 * MaxPages + 9
      OBVIOUS
    <2>1. pulled[j] \in 0 .. MaxPages /\ MaxPages \in Nat
      BY ConstantsAssumption DEF TypeOK, WorkerTypeOK
    <2>2. WayOut(wpc[j]) \in 0 .. 9 BY DEF WayOut
    <2> HIDE DEF WayOut
    <2>3. QED BY <2>1, <2>2 DEF StepsAhead
  <1>2. TypeOK /\ SlotInv /\ [Next]_vars =>
          \A j \in Jobs :
             \/ wpc[j] = "none"
             \/ wpc'[j] = wpc[j] /\ StepsAhead(j)' = StepsAhead(j)
             \/ Alive(j) /\ StepsAhead(j)' < StepsAhead(j)
    <2> SUFFICES ASSUME TypeOK, SlotInv, [Next]_vars, NEW j \in Jobs
                 PROVE  \/ wpc[j] = "none"
                        \/ wpc'[j] = wpc[j] /\ StepsAhead(j)' = StepsAhead(j)
                        \/ Alive(j) /\ StepsAhead(j)' < StepsAhead(j)
      OBVIOUS
    <2>1. wpc'[j] = wpc[j] /\ pulled'[j] = pulled[j]
             => StepsAhead(j)' = StepsAhead(j)
      BY DEF StepsAhead, WayOut
    <2>2. ASSUME NEW started \in BOOLEAN, CreateJob(started)
          PROVE  pulled' = pulled /\ (wpc[j] = "none" \/ wpc'[j] = wpc[j])
      <3>1. made + 1 \in Jobs /\ wpc[made + 1] = "none"
        BY <2>2, ConstantsAssumption
        DEF CreateJob, SlotInv, BirthInv, TypeOK, ManagerTypeOK, Jobs
      <3>2. QED BY <2>2, <3>1 DEF CreateJob, scanVars, TypeOK, WorkerTypeOK
    <2>3. ASSUME NEW k \in Jobs, Worker(k)
          PROVE  \/ wpc'[j] = wpc[j] /\ pulled'[j] = pulled[j]
                 \/ Alive(j) /\ StepsAhead(j)' < StepsAhead(j)
      BY <2>3, WorkerNearer
    <2>4. ASSUME NEW d \in Deleters, Delete(d) PROVE UNCHANGED <<wpc, pulled>>
      BY <2>4
      DEF Delete, DeleteLookup, DeleteReadSlot, DeleteMark, MarkUnless, DeletePush,
          DeleteCleanup, DeleteRaises, DeleteJoin, DeleteProbe, DeleteFinalize,
          DeleteRelease, DeleteReturn, DeleteStep, scanVars
    <2>5. ASSUME NEW r \in Readers, NextDocumentLookup(r) \/ NextDocument(r)
          PROVE  UNCHANGED <<wpc, pulled>>
      BY <2>5 DEF NextDocumentLookup, NextDocument, ReadStep, scanVars
    <2>6. CASE UNCHANGED vars
      BY <2>1, <2>6 DEF vars, scanVars
    <2>7. QED BY <2>1, <2>2, <2>3, <2>4, <2>5, <2>6 DEF Next
  <1>3. QED BY <1>1, <1>2, SlotInvariant, PTL DEF Spec, WorkerStepsFall

=============================================================================
