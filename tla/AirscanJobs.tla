---------------------------- MODULE AirscanJobs ----------------------------
(***************************************************************************)
(* The single-active-job manager of the AirScan adapter                    *)
(* (src/airscan_adapter/jobs.py), the worker thread it starts for each     *)
(* job, and the two request handlers that change a job behind its back:    *)
(* DELETE (delete_job) and GET NextDocument (next_document).               *)
(*                                                                         *)
(* A section of the code that runs under AirscanJobManager._lock or under  *)
(* one job's condition is one action; everything between two such sections *)
(* is a point where the other threads run.  A job is named by the order of *)
(* its creation (the code's uuid only has to be fresh), so "oldest" is     *)
(* "smallest"; a page is its page_number.                                  *)
(*                                                                         *)
(* An operator marked "Variant" is a plausible mistake in the definition   *)
(* that follows it.  No specification uses it: it is there to show which   *)
(* property the mistake would break.                                       *)
(***************************************************************************)
EXTENDS Integers, Sequences, FiniteSets

CONSTANTS
    MAX_RETAINED_JOBS,  \* bound on the jobs the manager remembers
    MaxJobs,            \* bound of the model: POSTs that succeed
    MaxPages,           \* sides the feeder can hold (max_sheets * sides)
    Detection,          \* the blank_page_detection settings clients ask for
    HasOcrWriter,       \* is an ocr_writer configured
    Deleters,           \* threads serving DELETE
    Readers             \* threads serving NextDocument

ASSUME ConstantsAssumption ==
    /\ MAX_RETAINED_JOBS \in Nat \ {0}
    /\ MaxJobs \in Nat
    /\ MaxPages \in Nat
    /\ Detection \subseteq BOOLEAN /\ Detection # {}
    /\ HasOcrWriter \in BOOLEAN

Jobs  == 1 .. MaxJobs
Pages == 1 .. MaxPages
NoJob == 0

InProgress == {"created", "processing", "canceling"}
Finished   == {"completed", "canceled", "failed"}

VARIABLES
    \* AirscanJobManager: _jobs (oldest first), _active_job_id, jobs made so far
    jobs, active, made,
    \* AirscanJob, one entry per job ("unborn" before its POST)
    state, pages, retained_pages, dropped, deleted, cancel_event,
    detect,
    \* the pages whose copy in retained_pages still has its image_bytes
    retained_bytes,
    \* the worker thread of a job: where it is, pages pulled, last one blank?
    wpc, pulled, blank,
    \* the backend: the job whose client is _current_client (its lock's owner)
    current_client,
    \* a DELETE in flight: where it is, its job, its two local flags
    dpc, djob, is_active, worker_exited,
    \* a NextDocument in flight
    rpc, rjob,
    \* history: pages handed out per job, and whether a 404 ended the job
    delivered, ended

pageVars    == <<pages, retained_pages, retained_bytes>>
scanVars    == <<pulled, blank, current_client>>
deleteVars  == <<dpc, djob, is_active, worker_exited>>
readVars    == <<rpc, rjob, delivered, ended>>
vars == <<jobs, made, active, state, cancel_event, deleted, detect, dropped,
          pageVars, wpc, scanVars, deleteVars, readVars>>

----------------------------------------------------------------------------
\* Places of a worker thread, in program order.  "unstarted" is a thread whose
\* start() raised; "none" is no thread at all.
Scanning  == {"fetch", "render", "check", "append"}
Running   == {"begin", "open", "finish", "fail"} \cup Scanning
Ending    == {"clear", "post", "ocr", "release"}
Places    == {"none", "unstarted", "dead"} \cup Running \cup Ending

Init ==
    /\ jobs = {} /\ active = NoJob /\ made = 0
    /\ state          = [j \in Jobs |-> "unborn"]
    /\ pages          = [j \in Jobs |-> <<>>]
    /\ retained_pages = [j \in Jobs |-> <<>>]
    /\ dropped        = [j \in Jobs |-> 0]
    /\ deleted        = [j \in Jobs |-> FALSE]
    /\ cancel_event   = [j \in Jobs |-> FALSE]
    /\ detect         = [j \in Jobs |-> FALSE]
    /\ retained_bytes = [j \in Jobs |-> {}]
    /\ wpc    = [j \in Jobs |-> "none"]
    /\ pulled = [j \in Jobs |-> 0]
    /\ blank  = [j \in Jobs |-> FALSE]
    /\ current_client = NoJob
    /\ dpc  = [d \in Deleters |-> "idle"]
    /\ djob = [d \in Deleters |-> NoJob]
    /\ is_active     = [d \in Deleters |-> FALSE]
    /\ worker_exited = [d \in Deleters |-> FALSE]
    /\ rpc  = [r \in Readers |-> "idle"]
    /\ rjob = [r \in Readers |-> NoJob]
    /\ delivered = [j \in Jobs |-> <<>>]
    /\ ended     = [j \in Jobs |-> FALSE]

terminal(j) == state[j] \in Finished

\* The pages of job j whose image_bytes the job still holds.  A page waits in
\* the deque with its bytes; _release_image_bytes replaces only the copies in
\* retained_pages, so a page loses its bytes there and is popped, or cleared,
\* from the deque.
image_bytes(j) == retained_bytes[j] \cup {pages[j][i] : i \in DOMAIN pages[j]}

----------------------------------------------------------------------------
\* create_job

\* Variant: a job that is only canceling no longer holds the slot.
SlotFreeUnlessProcessing == active # NoJob => state[active] # "processing"
SlotFree == active # NoJob => terminal(active)

OldestFirst(S, n) == {j \in S : Cardinality({k \in S : k < j}) < n}

\* Variant: the bound is tested before the new job is counted.
EvictTooFew(known, new) ==
    OldestFirst({j \in known \ {new} : terminal(j)},
                Cardinality(known) - MAX_RETAINED_JOBS - 1)
\* _evict_old_terminal_jobs_locked: the jobs it drops from `known'
Evicted(known, new) ==
    OldestFirst({j \in known \ {new} : terminal(j)},
                Cardinality(known) - MAX_RETAINED_JOBS)

\* A POST while the slot is taken raises ScannerBusy and changes nothing.  The
\* thread's start() is the last call made under the lock; when it raises, the
\* job and the slot stay as they are.
CreateJob(started) ==
    LET j == made + 1  known == jobs \cup {j} IN
    /\ made < MaxJobs
    /\ SlotFree
    /\ made' = j
    /\ jobs' = known \ Evicted(known, j)
    /\ active' = j
    /\ state' = [state EXCEPT ![j] = "created"]
    /\ \E choice \in Detection : detect' = [detect EXCEPT ![j] = choice]
    /\ wpc' = [wpc EXCEPT ![j] = IF started THEN "begin" ELSE "unstarted"]
    /\ UNCHANGED <<cancel_event, deleted, dropped, pageVars, scanVars, deleteVars,
                   readVars>>

----------------------------------------------------------------------------
\* _run_job, the worker thread of job j

\* What every step of a worker leaves alone.
WorkerStep(j, from, to) ==
    /\ wpc[j] = from
    /\ wpc' = [wpc EXCEPT ![j] = to]
    /\ UNCHANGED <<jobs, made, cancel_event, deleted, detect, deleteVars, readVars>>

jobVars == <<active, state, dropped, pageVars>>

\* The state is overwritten whatever it was.
WorkerBegin(j) ==
    /\ WorkerStep(j, "begin", "open")
    /\ state' = [state EXCEPT ![j] = "processing"]
    /\ UNCHANGED <<active, dropped, pageVars, scanVars>>

\* The first next() of scan_pages takes the backend's lock, which it keeps
\* until the generator is exhausted, raises or is closed.
BackendOpen(j) ==
    /\ WorkerStep(j, "open", "fetch")
    /\ current_client = NoJob
    /\ current_client' = j
    /\ UNCHANGED <<jobVars, pulled, blank>>

TakePage(j, limit, seen) ==
    /\ WorkerStep(j, "fetch", "render")
    /\ pulled[j] < limit
    /\ ~seen
    /\ pulled' = [pulled EXCEPT ![j] = @ + 1]
    /\ UNCHANGED <<jobVars, blank, current_client>>

\* Variant: one sheet too many.
BackendTakePageTooMany(j) == TakePage(j, MaxPages + 1, cancel_event[j])
\* Variant: the cancel event is looked at once, when the iteration begins.
BackendTakePageCanceled(j) == TakePage(j, MaxPages, FALSE)
\* The backend has a captured side and the cancel event is not set: it goes on
\* to rotate and analyse it.
BackendTakePage(j) == TakePage(j, MaxPages, cancel_event[j])

BackendYield(j) ==
    /\ WorkerStep(j, "render", "check")
    /\ \E b \in BOOLEAN : blank' = [blank EXCEPT ![j] = b]
    /\ UNCHANGED <<jobVars, pulled, current_client>>

\* No more sheets, the sheet limit, or the cancel event: the generator returns.
BackendExhausted(j) ==
    /\ WorkerStep(j, "fetch", "finish")
    /\ current_client' = NoJob
    /\ UNCHANGED <<jobVars, pulled, blank>>

RaiseOwnedBy(j, owner) ==
    /\ \E at \in {"fetch", "render"} : WorkerStep(j, at, "fail")
    /\ current_client' = owner
    /\ UNCHANGED <<jobVars, pulled, blank>>

\* Variant: an exception leaves the backend locked.
BackendRaisesLocked(j) == RaiseOwnedBy(j, j)
\* The generator's finally clause and its `with' unlock the backend.
BackendRaises(j) == RaiseOwnedBy(j, NoJob)

\* The cancel event ends the loop, and leaving the loop closes the generator.
\* The test is made without the job's condition: a DELETE can still come before
\* the page is appended.
WorkerLeaveLoop(j) ==
    /\ WorkerStep(j, "check", "finish")
    /\ cancel_event[j]
    /\ current_client' = NoJob
    /\ blank' = [blank EXCEPT ![j] = FALSE]
    /\ UNCHANGED <<jobVars, pulled>>

WorkerDropBlank(j) ==
    /\ WorkerStep(j, "check", "fetch")
    /\ ~cancel_event[j] /\ blank[j] /\ detect[j]
    /\ dropped' = [dropped EXCEPT ![j] = @ + 1]
    /\ blank' = [blank EXCEPT ![j] = FALSE]
    /\ UNCHANGED <<active, state, pageVars, pulled, current_client>>

WorkerKeepPage(j) ==
    /\ WorkerStep(j, "check", "append")
    /\ ~cancel_event[j] /\ ~(blank[j] /\ detect[j])
    /\ blank' = [blank EXCEPT ![j] = FALSE]
    /\ UNCHANGED <<jobVars, pulled, current_client>>

AppendTo(j, queue) ==
    /\ WorkerStep(j, "append", "fetch")
    /\ pages' = [pages EXCEPT ![j] = queue]
    /\ retained_pages' = [retained_pages EXCEPT ![j] = Append(@, pulled[j])]
    /\ retained_bytes' = [retained_bytes EXCEPT ![j] = @ \cup {pulled[j]}]
    /\ UNCHANGED <<active, state, dropped, scanVars>>

\* Variant: the page joins the wrong end of the deque.
WorkerAppendLeft(j) == AppendTo(j, <<pulled[j]>> \o pages[j])
WorkerAppend(j) == AppendTo(j, Append(pages[j], pulled[j]))

EndAs(j, from, outcome) ==
    /\ WorkerStep(j, from, "clear")
    /\ state' = [state EXCEPT ![j] = outcome]
    /\ UNCHANGED <<active, dropped, pageVars, scanVars>>

\* Variant: the end of the loop is taken for the end of the paper.
WorkerFinishCompleted(j) == EndAs(j, "finish", "completed")
WorkerFinish(j) ==
    EndAs(j, "finish", IF cancel_event[j] THEN "canceled" ELSE "completed")

WorkerFail(j) == EndAs(j, "fail", "failed")

\* _clear_active_if: a newer job may already own the slot.
WorkerClear(j) ==
    /\ WorkerStep(j, "clear", "post")
    /\ active' = IF active = j THEN NoJob ELSE active
    /\ UNCHANGED <<state, dropped, pageVars, scanVars>>

HasOcrWork(j) ==
    state[j] = "completed" /\ HasOcrWriter /\ retained_pages[j] # <<>>

\* Variant: only the OCR side effect releases the bytes.
WorkerPostKeepsBytes(j) ==
    /\ WorkerStep(j, "post", IF HasOcrWork(j) THEN "ocr" ELSE "dead")
    /\ UNCHANGED <<jobVars, scanVars>>
WorkerPost(j) ==
    /\ WorkerStep(j, "post", IF HasOcrWork(j) THEN "ocr"
                             ELSE IF terminal(j) THEN "release" ELSE "dead")
    /\ UNCHANGED <<jobVars, scanVars>>

\* write_job_pdf on a copy of retained_pages; whatever it does, even raise, ends
\* in an ocr_result, which nothing in the manager reads back.
WorkerOcr(j) ==
    /\ WorkerStep(j, "ocr", "release")
    /\ UNCHANGED <<jobVars, scanVars>>

\* _release_image_bytes, then the thread returns.  What is still in the deque
\* keeps its bytes.
WorkerRelease(j) ==
    /\ WorkerStep(j, "release", "dead")
    /\ retained_bytes' = [retained_bytes EXCEPT ![j] = {}]
    /\ UNCHANGED <<active, state, dropped, pages, retained_pages, scanVars>>

Worker(j) ==
    \/ WorkerBegin(j) \/ BackendOpen(j) \/ BackendTakePage(j) \/ BackendYield(j)
    \/ BackendExhausted(j) \/ BackendRaises(j)
    \/ WorkerLeaveLoop(j) \/ WorkerDropBlank(j) \/ WorkerKeepPage(j)
    \/ WorkerAppend(j) \/ WorkerFinish(j) \/ WorkerFail(j) \/ WorkerClear(j)
    \/ WorkerPost(j) \/ WorkerOcr(j) \/ WorkerRelease(j)

----------------------------------------------------------------------------
\* delete_job, as DELETE calls it (wait = True)

\* Variant: the join is trusted to have succeeded.
WorkerExitedAssumed(j) == TRUE
\* worker is None or not worker.is_alive()
WorkerExited(j) == wpc[j] \in {"none", "unstarted", "dead"}

\* What every step of a DELETE leaves alone.
DeleteStep(d, from, to) ==
    /\ dpc[d] = from
    /\ dpc' = [dpc EXCEPT ![d] = to]
    /\ UNCHANGED <<jobs, made, active, detect, dropped, retained_pages, wpc,
                   scanVars, readVars>>

deletedVars == <<state, cancel_event, deleted, pages, retained_bytes>>

DeleteReturn(d, from) ==
    /\ DeleteStep(d, from, "idle")
    /\ djob' = [djob EXCEPT ![d] = NoJob]
    /\ is_active' = [is_active EXCEPT ![d] = FALSE]
    /\ worker_exited' = [worker_exited EXCEPT ![d] = FALSE]

\* get_job, without the manager's lock.  An unknown job is a 404.
DeleteLookup(d) ==
    /\ DeleteStep(d, "idle", "slot")
    /\ \E j \in jobs : djob' = [djob EXCEPT ![d] = j]
    /\ UNCHANGED <<deletedVars, is_active, worker_exited>>

DeleteReadSlot(d) ==
    /\ DeleteStep(d, "slot", "mark")
    /\ is_active' = [is_active EXCEPT ![d] = (active = djob[d])]
    /\ UNCHANGED <<deletedVars, djob, worker_exited>>

MarkUnless(d, was_terminal) ==
    LET j == djob[d] IN
    /\ DeleteStep(d, "mark", IF ~is_active[d] THEN "probe"
                             ELSE IF was_terminal THEN "join" ELSE "push")
    /\ state' = [state EXCEPT ![j] = IF was_terminal THEN @ ELSE "canceling"]
    /\ cancel_event' = [cancel_event EXCEPT ![j] = @ \/ ~was_terminal]
    /\ UNCHANGED <<deleted, pages, retained_bytes, djob, is_active, worker_exited>>

\* Variant: being active is taken for being in progress.
DeleteMarkActive(d) == MarkUnless(d, ~is_active[d])
\* Two reads, is_active and was_terminal, decide whether the scanner is told.
DeleteMark(d) == MarkUnless(d, terminal(djob[d]))

\* cancel_current reads _current_client without the backend's lock.
DeletePush(d) ==
    /\ DeleteStep(d, "push", IF current_client = NoJob THEN "join" ELSE "cleanup")
    /\ UNCHANGED <<deletedVars, djob, is_active, worker_exited>>

\* best_effort_cleanup: CANCEL, OBJECT POSITION(discharge), RELEASE UNIT.
DeleteCleanup(d) ==
    /\ DeleteStep(d, "cleanup", "join")
    /\ UNCHANGED <<deletedVars, djob, is_active, worker_exited>>

\* An exception best_effort_cleanup does not catch leaves delete_job, and so
\* does join() on a thread that never started: the job is marked, not deleted.
DeleteRaises(d) ==
    /\ \/ DeleteReturn(d, "cleanup")
       \/ DeleteReturn(d, "join") /\ wpc[djob[d]] = "unstarted"
    /\ UNCHANGED deletedVars

\* join(timeout=2.0) returns when the worker is gone or the time is up.
DeleteJoin(d) ==
    /\ DeleteStep(d, "join", "probe")
    /\ wpc[djob[d]] # "unstarted"
    /\ UNCHANGED <<deletedVars, djob, is_active, worker_exited>>

DeleteProbe(d) ==
    /\ DeleteStep(d, "probe", "finalize")
    /\ worker_exited' = [worker_exited EXCEPT ![d] = WorkerExited(djob[d])]
    /\ UNCHANGED <<deletedVars, djob, is_active>>

DeleteFinalize(d) ==
    LET j == djob[d] IN
    /\ IF worker_exited[d]
       THEN DeleteStep(d, "finalize", "release")
            /\ UNCHANGED <<djob, is_active, worker_exited>>
       ELSE DeleteReturn(d, "finalize")
    /\ state' = [state EXCEPT ![j] =
                    IF worker_exited[d] /\ @ = "canceling" THEN "canceled" ELSE @]
    /\ deleted' = [deleted EXCEPT ![j] = TRUE]
    /\ pages' = [pages EXCEPT ![j] = <<>>]
    /\ UNCHANGED <<cancel_event, retained_bytes>>

DeleteRelease(d) ==
    /\ DeleteReturn(d, "release")
    /\ retained_bytes' = [retained_bytes EXCEPT ![djob[d]] = {}]
    /\ UNCHANGED <<state, cancel_event, deleted, pages>>

Delete(d) ==
    \/ DeleteLookup(d) \/ DeleteReadSlot(d) \/ DeleteMark(d) \/ DeletePush(d)
    \/ DeleteCleanup(d) \/ DeleteRaises(d) \/ DeleteJoin(d) \/ DeleteProbe(d)
    \/ DeleteFinalize(d) \/ DeleteRelease(d)

----------------------------------------------------------------------------
\* next_document, as GET NextDocument calls it (timeout = 0)

\* What both steps of a NextDocument leave alone.
ReadStep(r, from, to, job) ==
    /\ rpc[r] = from
    /\ rpc' = [rpc EXCEPT ![r] = to]
    /\ rjob' = [rjob EXCEPT ![r] = job]
    /\ UNCHANGED <<jobs, made, active, state, cancel_event, deleted, detect,
                   dropped, retained_pages, retained_bytes, wpc, scanVars, deleteVars>>

NextDocumentLookup(r) ==
    /\ \E j \in jobs : ReadStep(r, "idle", "serve", j)
    /\ UNCHANGED <<pages, delivered, ended>>

\* Variant: a finished job is exhausted even with pages left.
AnswerStateFirst(j) ==
    IF deleted[j] \/ state[j] \in {"completed", "canceled"} THEN "JobExhausted"
    ELSE IF pages[j] # <<>> THEN "page"
    ELSE IF state[j] = "failed" THEN "JobFailed"
    ELSE "DocumentNotReady"

\* Variant: trusts delete_job to have cleared the pages.
AnswerIgnoresDeleted(j) ==
    IF pages[j] # <<>> THEN "page"
    ELSE IF state[j] = "failed" THEN "JobFailed"
    ELSE IF terminal(j) THEN "JobExhausted"
    ELSE "DocumentNotReady"

Answer(j) ==
    IF deleted[j] THEN "JobExhausted"
    ELSE IF pages[j] # <<>> THEN "page"
    ELSE IF state[j] = "failed" THEN "JobFailed"
    ELSE IF terminal(j) THEN "JobExhausted"
    ELSE "DocumentNotReady"

\* JobExhausted and JobFailed are the 404 and 500 that end a client's polling;
\* DocumentNotReady is a 503 with Retry-After.
NextDocument(r) ==
    LET j == rjob[r]  answer == Answer(j) IN
    /\ ReadStep(r, "serve", "idle", NoJob)
    /\ IF answer = "page"
       THEN /\ pages' = [pages EXCEPT ![j] = Tail(@)]
            /\ delivered' = [delivered EXCEPT ![j] = Append(@, Head(pages[j]))]
       ELSE UNCHANGED <<pages, delivered>>
    /\ ended' = [ended EXCEPT ![j] = @ \/ answer \in {"JobExhausted", "JobFailed"}]

----------------------------------------------------------------------------
Next ==
    \/ \E started \in BOOLEAN : CreateJob(started)
    \/ \E j \in Jobs : Worker(j)
    \/ \E d \in Deleters : Delete(d)
    \/ \E r \in Readers : NextDocumentLookup(r) \/ NextDocument(r)

Spec == Init /\ [][Next]_vars

----------------------------------------------------------------------------
ManagerTypeOK ==
    /\ jobs \subseteq Jobs /\ active \in Jobs \cup {NoJob} /\ made \in 0 .. MaxJobs
StateTypeOK ==
    /\ state \in [Jobs -> {"unborn"} \cup InProgress \cup Finished]
    /\ deleted \in [Jobs -> BOOLEAN] /\ cancel_event \in [Jobs -> BOOLEAN]
    /\ detect \in [Jobs -> BOOLEAN] /\ dropped \in [Jobs -> Nat]
PagesTypeOK ==
    /\ pages \in [Jobs -> Seq(Pages)] /\ retained_pages \in [Jobs -> Seq(Pages)]
    /\ retained_bytes \in [Jobs -> SUBSET Pages]
WorkerTypeOK ==
    /\ wpc \in [Jobs -> Places]
    /\ pulled \in [Jobs -> 0 .. MaxPages] /\ blank \in [Jobs -> BOOLEAN]
    /\ current_client \in Jobs \cup {NoJob}
DeleteTypeOK ==
    /\ dpc \in [Deleters -> {"idle", "slot", "mark", "push", "cleanup", "join",
                             "probe", "finalize", "release"}]
    /\ djob \in [Deleters -> Jobs \cup {NoJob}]
    /\ is_active \in [Deleters -> BOOLEAN] /\ worker_exited \in [Deleters -> BOOLEAN]
ReadTypeOK ==
    /\ rpc \in [Readers -> {"idle", "serve"}] /\ rjob \in [Readers -> Jobs \cup {NoJob}]
    /\ delivered \in [Jobs -> Seq(Pages)] /\ ended \in [Jobs -> BOOLEAN]

(* Type invariant: among others, a worker never pulls a page the feeder cannot *)
(* hold, whatever the order of its cancellation.                               *)
TypeOK ==
    /\ ManagerTypeOK /\ StateTypeOK /\ PagesTypeOK /\ WorkerTypeOK
    /\ DeleteTypeOK /\ ReadTypeOK

(* A job that is not terminal owns the slot, so there is at most one: the     *)
(* promise of create_job's ScannerBusy, kept across worker, DELETE and POST.  *)
OneJobAtATime == \A j \in Jobs : state[j] \in InProgress => active = j

(* A worker that reaches scan_pages finds the backend's lock free: the slot   *)
(* is given away only after the previous generator has been closed.           *)
BackendNeverContended == \A j \in Jobs : wpc[j] = "open" => current_client = NoJob

(* Eviction makes the manager remember exactly the latest MAX_RETAINED_JOBS   *)
(* jobs, and never drops the one that owns the slot (create_job indexes _jobs *)
(* with it).                                                                  *)
RetentionBounded ==
    /\ jobs = {j \in 1 .. made : made - j < MAX_RETAINED_JOBS}
    /\ active # NoJob => active \in jobs

(* Until a job is deleted, what NextDocument has handed out followed by what  *)
(* it still holds is exactly what the worker kept, in order, each page once.  *)
PagesConserved ==
    \A j \in Jobs : ~deleted[j] => delivered[j] \o pages[j] = retained_pages[j]

(* A completed job kept or counted as blank every page the backend yielded:   *)
(* leaving the loop early can never end in "completed".                       *)
CompletedIsWhole ==
    \A j \in Jobs : state[j] = "completed" =>
        Len(retained_pages[j]) + dropped[j] = pulled[j]

(* Once DELETE has set the cancel event of a running job, the job never       *)
(* completes, so no OCR is run on a scan its user called off.                 *)
CancelWins ==
    \A j \in Jobs : cancel_event[j] => state[j] # "completed" /\ wpc[j] # "ocr"

(* When the OCR side effect copies retained_pages, no concurrent DELETE has   *)
(* released a page's bytes.                                                   *)
OcrSeesAllBytes ==
    \A j \in Jobs : wpc[j] = "ocr" =>
        retained_bytes[j] = {retained_pages[j][i] : i \in DOMAIN retained_pages[j]}

(* However a worker ends, and whoever deleted or evicted its job meanwhile,   *)
(* it leaves bytes only where a client can still fetch them: a page that was  *)
(* handed out has none, and a deleted job is left with those of one page at   *)
(* most, the one its worker appended after DELETE had cleared the queue.      *)
ExitReleasesBytes ==
    \A j \in Jobs : wpc[j] = "dead" =>
        /\ \A i \in DOMAIN delivered[j] : delivered[j][i] \notin image_bytes(j)
        /\ deleted[j] => Cardinality(image_bytes(j)) <= 1

(* The 404 or 500 that ends a client's polling is never premature: if the job *)
(* was not deleted, every page the worker kept has been handed out.           *)
EndMeansAll ==
    \A j \in Jobs : ended[j] /\ ~deleted[j] => delivered[j] = retained_pages[j]

(* A terminal state is never left: a late DELETE or a late worker cannot      *)
(* rewrite the outcome a client was told.                                     *)
TerminalIsFinal ==
    [][\A j \in Jobs : terminal(j) => state'[j] = state[j]]_vars

(* A job whose thread started reaches a terminal state, deleted or not, and   *)
(* so gives the slot back.                                                    *)
EveryJobEnds ==
    \A j \in Jobs :
        state[j] \in InProgress /\ wpc[j] # "unstarted" ~> terminal(j)

(* The bytes of a deleted job are released for good but for one page at most, *)
(* even when the DELETE gave up waiting for the worker: the page its worker   *)
(* had already decided to keep goes into the cleared queue and stays there.   *)
DeletedBytesReleased ==
    \A j \in Jobs : deleted[j] ~> [](Cardinality(image_bytes(j)) <= 1)

(* The manager implements the single-job scanner its clients rely on: one job *)
(* at a time, pages in order and taken once, outcomes that stand.             *)
phase == [j \in Jobs |-> IF state[j] \in InProgress THEN "open" ELSE state[j]]

Scanner == INSTANCE SingleJobScanner
               WITH Job <- Jobs, Page <- Pages, kept <- retained_pages,
                    taken <- delivered, withdrawn <- deleted

ImplementsScanner == Scanner!Spec

(* Whichever job's worker it is, the manager drives its backend as a page     *)
(* source: one iteration at a time, from its first page, in which no page is  *)
(* taken past the feeder's or after the cancel event was set.                 *)
iteration ==
    IF current_client = NoJob THEN [phase |-> "idle", number |-> 0, canceled |-> FALSE]
    ELSE [phase |-> IF wpc[current_client] \in {"check", "append"} THEN "yielded"
                    ELSE wpc[current_client],
          number |-> pulled[current_client], canceled |-> cancel_event[current_client]]

Source == INSTANCE PageSource
              WITH Limit <- MaxPages, phase <- iteration.phase,
                   number <- iteration.number, canceled <- iteration.canceled

DrivesPageSource == Source!Spec

(* The comment of delete_job: a stale DELETE does not abort a later scan.     *)
(* Here: when a DELETE sends its cleanup commands, the scan in progress (if   *)
(* any) is that of the job it deletes.                                        *)
CancelNeverHitsLaterJob ==
    [][\A d \in Deleters :
          dpc[d] = "cleanup" /\ dpc'[d] = "join" =>
              current_client \in {NoJob, djob[d]}]_vars
=============================================================================
