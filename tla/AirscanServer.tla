--------------------------- MODULE AirscanServer ---------------------------
(***************************************************************************)
(* The adapter's HTTP server (src/airscan_adapter/server.py) on top of the *)
(* job manager.  POST, DELETE and the pop of a NextDocument are the        *)
(* manager's own actions; here are the answer that carries the page to its *)
(* client, and GET ScannerStatus, ScanImageInfo and /healthz, which read   *)
(* the manager's state in several separate steps.  The server runs each    *)
(* request in a thread of its own.                                         *)
(***************************************************************************)
EXTENDS AirscanJobs, Functions

CONSTANT Pollers    \* threads serving these requests

VARIABLES
    ppc,    \* where the request is
    pjob,   \* ScanImageInfo: its job
    todo,   \* ScannerStatus: the jobs of the snapshot still to be read
    shown,  \* ScannerStatus: the jobs already listed as Processing
    sending,    \* the page a NextDocument is writing, with its job
    received,   \* history: the pages each client has got, by job
    lost        \* history: the pages whose answer was cut off, by job

pollerVars == <<ppc, pjob, todo, shown>>
answerVars == <<sending, received, lost>>
serverVars == <<vars, pollerVars, answerVars>>

NoPage == [job |-> NoJob, page |-> 0]

ServerInit ==
    /\ Init
    /\ ppc   = [p \in Pollers |-> "idle"]
    /\ pjob  = [p \in Pollers |-> NoJob]
    /\ todo  = [p \in Pollers |-> {}]
    /\ shown = [p \in Pollers |-> {}]
    /\ sending  = [r \in Readers |-> NoPage]
    /\ received = [r \in Readers |-> [j \in Jobs |-> <<>>]]
    /\ lost     = [j \in Jobs |-> {}]

PollGoto(p, place) == ppc' = [ppc EXCEPT ![p] = place]

\* The property active_job_id.
active_job_id ==
    IF active = NoJob \/ active \notin jobs \/ terminal(active) THEN NoJob ELSE active

----------------------------------------------------------------------------
\* GET NextDocument: next_document pops the page, and its bytes are written
\* after that, to a client that may have gone.

\* The thread that serves a client is busy until the answer is written.
Request(r) == sending[r] = NoPage /\ NextDocumentLookup(r) /\ UNCHANGED answerVars

Respond(r) ==
    LET j == rjob[r] IN
    /\ NextDocument(r)
    /\ sending' = IF delivered'[j] = delivered[j] THEN sending
                  ELSE [sending EXCEPT ![r] = [job |-> j, page |-> Head(pages[j])]]
    /\ UNCHANGED <<received, lost>>

\* Variant: a page whose answer could not be written goes back into the queue,
\* although the client may have got all of it.
AnswerWrittenOrQueued(r) ==
    LET j == sending[r].job  page == sending[r].page IN
    /\ sending[r] # NoPage
    /\ sending' = [sending EXCEPT ![r] = NoPage]
    /\ received' = [received EXCEPT ![r][j] = Append(@, page)]
    /\ \E error \in BOOLEAN :
          pages' = IF error THEN [pages EXCEPT ![j] = <<page>> \o @] ELSE pages
    /\ UNCHANGED <<jobs, made, active, state, cancel_event, deleted, detect, dropped,
                   retained_pages, retained_bytes, wpc, scanVars, deleteVars, readVars,
                   lost>>
\* The client gets the page, or its connection breaks: what the write raises
\* ends the request, and nothing else is done about it.
AnswerWritten(r) ==
    LET j == sending[r].job  page == sending[r].page IN
    /\ sending[r] # NoPage
    /\ sending' = [sending EXCEPT ![r] = NoPage]
    /\ \/ /\ received' = [received EXCEPT ![r][j] = Append(@, page)]
          /\ UNCHANGED lost
       \/ /\ lost' = [lost EXCEPT ![j] = @ \cup {page}]
          /\ UNCHANGED received
    /\ UNCHANGED vars

----------------------------------------------------------------------------
\* GET ScannerStatus: scanner_state, then status_jobs, which copies the list of
\* jobs under the manager's lock and then reads each job under its condition.

\* scanner_state is one read under the lock; what it returned is not used again.
StatusState(p) ==
    /\ ppc[p] = "idle"
    /\ PollGoto(p, "list")
    /\ UNCHANGED <<vars, pjob, todo, shown>>

StatusList(p) ==
    /\ ppc[p] = "list"
    /\ todo' = [todo EXCEPT ![p] = jobs]
    /\ PollGoto(p, "job")
    /\ UNCHANGED <<vars, pjob, shown>>

\* Variant: the rows are read from the live dictionary, not from a copy.
StatusJobNoSnapshot(p) ==
    /\ ppc[p] = "job"
    /\ \E j \in (jobs \cup todo[p]) \ shown[p] :
         /\ todo'  = [todo EXCEPT ![p] = @ \ {j}]
         /\ shown' = [shown EXCEPT ![p] =
                         IF ~deleted[j] /\ ~terminal(j) THEN @ \cup {j} ELSE @]
    /\ UNCHANGED <<vars, ppc, pjob>>

StatusJob(p) ==
    /\ ppc[p] = "job"
    /\ \E j \in OldestFirst(todo[p], 1) :
         /\ todo'  = [todo EXCEPT ![p] = @ \ {j}]
         /\ shown' = [shown EXCEPT ![p] =
                         IF ~deleted[j] /\ ~terminal(j) THEN @ \cup {j} ELSE @]
    /\ UNCHANGED <<vars, ppc, pjob>>

\* Variant: the rows of one answer are still there for the next.
StatusSendKeepsRows(p) ==
    /\ ppc[p] = "job" /\ todo[p] = {}
    /\ PollGoto(p, "idle")
    /\ UNCHANGED <<vars, pjob, todo, shown>>
StatusSend(p) ==
    /\ ppc[p] = "job" /\ todo[p] = {}
    /\ PollGoto(p, "idle")
    /\ shown' = [shown EXCEPT ![p] = {}]
    /\ UNCHANGED <<vars, pjob, todo>>

----------------------------------------------------------------------------
\* GET ScanImageInfo: get_job, then `job.pages[0] if job.pages else None', two
\* reads of the deque without the job's condition.

InfoLookup(p) ==
    /\ ppc[p] = "idle"
    /\ \E j \in jobs : pjob' = [pjob EXCEPT ![p] = j]
    /\ PollGoto(p, "test")
    /\ UNCHANGED <<vars, todo, shown>>

InfoReturn(p) ==
    /\ PollGoto(p, "idle")
    /\ pjob' = [pjob EXCEPT ![p] = NoJob]

InfoTest(p) ==
    /\ ppc[p] = "test"
    /\ IF pages[pjob[p]] # <<>>
       THEN PollGoto(p, "peek") /\ UNCHANGED pjob
       ELSE InfoReturn(p)
    /\ UNCHANGED <<vars, todo, shown>>

\* pages[0], or the IndexError that ends the request without an answer.
InfoPeek(p) ==
    /\ ppc[p] = "peek"
    /\ InfoReturn(p)
    /\ UNCHANGED <<vars, todo, shown>>

----------------------------------------------------------------------------
\* GET /healthz: TEST UNIT READY is sent only if no job was active, but after
\* the lock under which that was read has been given back.

HealthRead(p) ==
    /\ ppc[p] = "idle"
    /\ active_job_id = NoJob
    /\ PollGoto(p, "probe")
    /\ UNCHANGED <<vars, pjob, todo, shown>>

\* safe_health
HealthProbe(p) ==
    /\ ppc[p] = "probe"
    /\ PollGoto(p, "idle")
    /\ UNCHANGED <<vars, pjob, todo, shown>>

----------------------------------------------------------------------------
Poll(p) ==
    \/ StatusState(p) \/ StatusList(p) \/ StatusJob(p) \/ StatusSend(p)
    \/ InfoLookup(p) \/ InfoTest(p) \/ InfoPeek(p)
    \/ HealthRead(p) \/ HealthProbe(p)

\* POST and DELETE change only what the manager changes.
Manage ==
    /\ \/ \E started \in BOOLEAN : CreateJob(started)
       \/ \E j \in Jobs : Worker(j)
       \/ \E d \in Deleters : Delete(d)
    /\ UNCHANGED answerVars

ServerNext ==
    \/ Manage /\ UNCHANGED pollerVars
    \/ /\ \E r \in Readers : Request(r) \/ Respond(r) \/ AnswerWritten(r)
       /\ UNCHANGED pollerVars
    \/ \E p \in Pollers : Poll(p) /\ UNCHANGED answerVars

ServerSpec == ServerInit /\ [][ServerNext]_serverVars

\* A started thread runs; a backend call, an OCR run and a DELETE all end.  No
\* client has to send anything.
Fairness ==
    /\ \A j \in Jobs : WF_vars(Worker(j))
    /\ \A d \in Deleters : WF_vars(dpc[d] # "idle" /\ Delete(d))

FairServerSpec == ServerSpec /\ Fairness

----------------------------------------------------------------------------
(* Type invariant of the requests: locals live only while their request does. *)
ServerTypeOK ==
    /\ ppc \in [Pollers -> {"idle", "list", "job", "test", "peek", "probe"}]
    /\ pjob \in [Pollers -> Jobs \cup {NoJob}]
    /\ todo \in [Pollers -> SUBSET Jobs]
    /\ shown \in [Pollers -> SUBSET Jobs]
    /\ \A p \in Pollers :
          /\ pjob[p] # NoJob <=> ppc[p] \in {"test", "peek"}
          /\ todo[p] \cup shown[p] # {} => ppc[p] = "job"
    /\ sending \in [Readers -> [job : Jobs \cup {NoJob}, page : 0 .. MaxPages]]
    /\ received \in [Readers -> [Jobs -> Seq(Pages)]]
    /\ lost \in [Jobs -> SUBSET Pages]

(* One ScannerStatus answer never lists two jobs as Processing, although it   *)
(* reads the jobs one after the other while POST, workers and DELETE go on.   *)
StatusShowsOneJob == \A p \in Pollers : Cardinality(shown[p]) <= 1

\* The pages of job j that client r has got or that are on their way to it.
PagesWith(r, j) ==
    Range(received[r][j])
        \cup (IF sending[r].job = j THEN {sending[r].page} ELSE {})

(* On the wire, too, no page is sent twice, each client gets its pages in     *)
(* order, and when the end is announced every retained page is with exactly   *)
(* one client but those whose connection broke: next_document pops before the *)
(* answer is written, and a broken connection never brings a page back.       *)
PagesReachOneClient ==
    \A j \in Jobs :
        /\ \A r \in Readers :
              /\ \A i \in 1 .. Len(received[r][j]) - 1 :
                    received[r][j][i] < received[r][j][i + 1]
              /\ PagesWith(r, j) \cap lost[j] = {}
              /\ \A s \in Readers \ {r} : PagesWith(r, j) \cap PagesWith(s, j) = {}
        /\ ended[j] /\ ~deleted[j] =>
              Range(retained_pages[j]) =
                  lost[j] \cup UNION {PagesWith(r, j) : r \in Readers}

(* The endpoint table of the adapter's specification answers ScanImageInfo    *)
(* with 200 or 404: the page found by the test is still there for the peek.   *)
ImageInfoAnswers ==
    \A p \in Pollers : ppc[p] = "peek" => pages[pjob[p]] # <<>>
=============================================================================
