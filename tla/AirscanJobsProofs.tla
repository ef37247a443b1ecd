------------------------- MODULE AirscanJobsProofs -------------------------
(***************************************************************************)
(* Theorems about AirscanJobs, for every number of jobs, pages, threads    *)
(* and retained jobs: its types, and the scanner's slot (at most one job   *)
(* is in progress, the backend is only ever driven for that job, and an    *)
(* outcome is final).                                                      *)
(***************************************************************************)
EXTENDS AirscanJobs, TLAPS

----------------------------------------------------------------------------
\* A page in the worker's hand has a number: the worker pulled it.
PulledInv ==
    \A j \in Jobs : wpc[j] \in {"render", "check", "append"} => pulled[j] \in Pages

TypeInv == TypeOK /\ PulledInv

(* The initial state is well typed.                                           *)
LEMMA InitTypeInv == Init => TypeInv
  BY ConstantsAssumption
  DEF Init, TypeInv, TypeOK, ManagerTypeOK, StateTypeOK, PagesTypeOK,
      WorkerTypeOK, DeleteTypeOK, ReadTypeOK, PulledInv, Places, NoJob, Jobs,
      InProgress, Finished, Pages

(* Creating a job keeps the types.                                            *)
LEMMA CreateTypeInv ==
  ASSUME TypeInv, NEW started \in BOOLEAN, CreateJob(started)
  PROVE  TypeInv'
  <1>1. made + 1 \in Jobs /\ made' = made + 1
    BY ConstantsAssumption
    DEF CreateJob, TypeInv, TypeOK, ManagerTypeOK, Jobs
  <1>2. ManagerTypeOK'
    <2>1. made' \in 0 .. MaxJobs
      BY <1>1, ConstantsAssumption DEF Jobs
    <2>2. jobs' \subseteq jobs \cup {made + 1} /\ active' = made + 1
      BY DEF CreateJob
    <2>3. QED BY <1>1, <2>1, <2>2 DEF TypeInv, TypeOK, ManagerTypeOK
  <1>3. StateTypeOK'
    BY <1>1, ConstantsAssumption
    DEF CreateJob, TypeInv, TypeOK, StateTypeOK, InProgress
  <1>4. PagesTypeOK'
    BY DEF CreateJob, TypeInv, TypeOK, PagesTypeOK, pageVars
  <1>5. WorkerTypeOK' /\ PulledInv'
    BY <1>1
    DEF CreateJob, TypeInv, TypeOK, WorkerTypeOK, PulledInv, scanVars, Places,
        Running
  <1>6. DeleteTypeOK' /\ ReadTypeOK'
    BY DEF CreateJob, TypeInv, TypeOK, DeleteTypeOK, ReadTypeOK, deleteVars,
           readVars
  <1>7. QED BY <1>2, <1>3, <1>4, <1>5, <1>6 DEF TypeInv, TypeOK

(* What a worker's step leaves alone stays well typed.                        *)
LEMMA WorkerStepTypes ==
  ASSUME TypeInv, NEW j \in Jobs, NEW from, NEW to \in Places,
         WorkerStep(j, from, to)
  PROVE  /\ jobs' \subseteq Jobs /\ made' \in 0 .. MaxJobs
         /\ deleted' \in [Jobs -> BOOLEAN] /\ cancel_event' \in [Jobs -> BOOLEAN]
         /\ detect' \in [Jobs -> BOOLEAN]
         /\ wpc' \in [Jobs -> Places]
         /\ DeleteTypeOK' /\ ReadTypeOK'
  BY DEF TypeInv, TypeOK, ManagerTypeOK, StateTypeOK, WorkerTypeOK,
         DeleteTypeOK, ReadTypeOK, WorkerStep, deleteVars, readVars

(* Every step of a worker keeps the types.                                    *)
LEMMA WorkerTypeInv ==
  ASSUME TypeInv, NEW j \in Jobs, Worker(j)
  PROVE  TypeInv'
  <1> DEFINE Kept == /\ jobs' \subseteq Jobs /\ made' \in 0 .. MaxJobs
                     /\ deleted' \in [Jobs -> BOOLEAN]
                     /\ cancel_event' \in [Jobs -> BOOLEAN]
                     /\ detect' \in [Jobs -> BOOLEAN]
                     /\ wpc' \in [Jobs -> Places]
                     /\ DeleteTypeOK' /\ ReadTypeOK'
             Rest == /\ active' \in Jobs \cup {NoJob}
                     /\ state' \in [Jobs -> {"unborn"} \cup InProgress \cup Finished]
                     /\ dropped' \in [Jobs -> Nat]
                     /\ PagesTypeOK'
                     /\ pulled' \in [Jobs -> 0 .. MaxPages]
                     /\ blank' \in [Jobs -> BOOLEAN]
                     /\ current_client' \in Jobs \cup {NoJob}
                     /\ PulledInv'
  <1>1. SUFFICES Kept /\ Rest
    BY DEF TypeInv, TypeOK, ManagerTypeOK, StateTypeOK, WorkerTypeOK
  <1>2. ASSUME NEW from, NEW to, WorkerStep(j, from, to), to \in Places
        PROVE  Kept
    BY <1>2, WorkerStepTypes
  <1> HIDE DEF Kept
  <1> USE DEF TypeInv, TypeOK, ManagerTypeOK, StateTypeOK, WorkerTypeOK
  <1>3. CASE WorkerBegin(j)
    <2>1. WorkerStep(j, "begin", "open") BY <1>3 DEF WorkerBegin
    <2>2. Kept BY <2>1, <1>2 DEF Places, Running
    <2>3. Rest
      BY <1>3 DEF WorkerBegin, WorkerStep, pageVars, scanVars, PagesTypeOK,
                  PulledInv, InProgress
    <2>4. QED BY <2>2, <2>3
  <1>4. CASE BackendOpen(j)
    <2>1. WorkerStep(j, "open", "fetch") BY <1>4 DEF BackendOpen
    <2>2. Kept BY <2>1, <1>2 DEF Places, Running, Scanning
    <2>3. Rest
      BY <1>4 DEF BackendOpen, WorkerStep, jobVars, pageVars, PagesTypeOK, PulledInv
    <2>4. QED BY <2>2, <2>3
  <1>5. CASE BackendTakePage(j)
    <2>1. WorkerStep(j, "fetch", "render") BY <1>5 DEF BackendTakePage, TakePage
    <2>2. Kept BY <2>1, <1>2 DEF Places, Running, Scanning
    <2>3. pulled[j] + 1 \in Pages
      BY <1>5, ConstantsAssumption DEF BackendTakePage, TakePage, Pages
    <2>4. Rest
      BY <1>5, <2>3, ConstantsAssumption
      DEF BackendTakePage, TakePage, WorkerStep, jobVars, pageVars, PagesTypeOK,
          PulledInv, Pages
    <2>5. QED BY <2>2, <2>4
  <1>6. CASE BackendYield(j)
    <2>1. WorkerStep(j, "render", "check") BY <1>6 DEF BackendYield
    <2>2. Kept BY <2>1, <1>2 DEF Places, Running, Scanning
    <2>3. Rest
      BY <1>6 DEF BackendYield, WorkerStep, jobVars, pageVars, PagesTypeOK, PulledInv
    <2>4. QED BY <2>2, <2>3
  <1>7. CASE BackendExhausted(j)
    <2>1. WorkerStep(j, "fetch", "finish") BY <1>7 DEF BackendExhausted
    <2>2. Kept BY <2>1, <1>2 DEF Places, Running
    <2>3. Rest
      BY <1>7 DEF BackendExhausted, WorkerStep, jobVars, pageVars, PagesTypeOK,
                  PulledInv
    <2>4. QED BY <2>2, <2>3
  <1>8. CASE BackendRaises(j)
    <2>1. PICK at \in {"fetch", "render"} : WorkerStep(j, at, "fail")
      BY <1>8 DEF BackendRaises, RaiseOwnedBy
    <2>2. Kept BY <2>1, <1>2 DEF Places, Running
    <2>3. Rest
      BY <1>8, <2>1 DEF BackendRaises, RaiseOwnedBy, WorkerStep, jobVars,
                        pageVars, PagesTypeOK, PulledInv
    <2>4. QED BY <2>2, <2>3
  <1>9. CASE WorkerLeaveLoop(j)
    <2>1. WorkerStep(j, "check", "finish") BY <1>9 DEF WorkerLeaveLoop
    <2>2. Kept BY <2>1, <1>2 DEF Places, Running
    <2>3. Rest
      BY <1>9 DEF WorkerLeaveLoop, WorkerStep, jobVars, pageVars, PagesTypeOK,
                  PulledInv
    <2>4. QED BY <2>2, <2>3
  <1>10. CASE WorkerDropBlank(j)
    <2>1. WorkerStep(j, "check", "fetch") BY <1>10 DEF WorkerDropBlank
    <2>2. Kept BY <2>1, <1>2 DEF Places, Running, Scanning
    <2>3. Rest
      BY <1>10 DEF WorkerDropBlank, WorkerStep, pageVars, PagesTypeOK, PulledInv
    <2>4. QED BY <2>2, <2>3
  <1>11. CASE WorkerKeepPage(j)
    <2>1. WorkerStep(j, "check", "append") BY <1>11 DEF WorkerKeepPage
    <2>2. Kept BY <2>1, <1>2 DEF Places, Running, Scanning
    <2>3. Rest
      BY <1>11 DEF WorkerKeepPage, WorkerStep, jobVars, pageVars, PagesTypeOK,
                   PulledInv
    <2>4. QED BY <2>2, <2>3
  <1>12. CASE WorkerAppend(j)
    <2>1. WorkerStep(j, "append", "fetch") BY <1>12 DEF WorkerAppend, AppendTo
    <2>2. Kept BY <2>1, <1>2 DEF Places, Running, Scanning
    <2>3. pulled[j] \in Pages
      BY <2>1 DEF WorkerStep, PulledInv
    <2>4. PagesTypeOK'
      <3>1. Append(pages[j], pulled[j]) \in Seq(Pages)
        BY <2>3 DEF PagesTypeOK
      <3>2. Append(retained_pages[j], pulled[j]) \in Seq(Pages)
        BY <2>3 DEF PagesTypeOK
      <3>3. QED
        BY <1>12, <2>3, <3>1, <3>2 DEF WorkerAppend, AppendTo, PagesTypeOK
    <2>5. Rest
      BY <1>12, <2>4 DEF WorkerAppend, AppendTo, WorkerStep, scanVars, PulledInv
    <2>6. QED BY <2>2, <2>5
  <1>13. CASE WorkerFinish(j)
    <2>1. WorkerStep(j, "finish", "clear") BY <1>13 DEF WorkerFinish, EndAs
    <2>2. Kept BY <2>1, <1>2 DEF Places, Ending
    <2>3. Rest
      BY <1>13 DEF WorkerFinish, EndAs, WorkerStep, pageVars, scanVars,
                   PagesTypeOK, PulledInv, Finished
    <2>4. QED BY <2>2, <2>3
  <1>14. CASE WorkerFail(j)
    <2>1. WorkerStep(j, "fail", "clear") BY <1>14 DEF WorkerFail, EndAs
    <2>2. Kept BY <2>1, <1>2 DEF Places, Ending
    <2>3. Rest
      BY <1>14 DEF WorkerFail, EndAs, WorkerStep, pageVars, scanVars,
                   PagesTypeOK, PulledInv, Finished
    <2>4. QED BY <2>2, <2>3
  <1>15. CASE WorkerClear(j)
    <2>1. WorkerStep(j, "clear", "post") BY <1>15 DEF WorkerClear
    <2>2. Kept BY <2>1, <1>2 DEF Places, Ending
    <2>3. Rest
      BY <1>15 DEF WorkerClear, WorkerStep, pageVars, scanVars, PagesTypeOK,
                   PulledInv
    <2>4. QED BY <2>2, <2>3
  <1>16. CASE WorkerPost(j)
    <2>1. PICK to \in {"ocr", "release", "dead"} : WorkerStep(j, "post", to)
      BY <1>16 DEF WorkerPost
    <2>2. Kept BY <2>1, <1>2 DEF Places, Ending
    <2>3. Rest
      BY <1>16, <2>1 DEF WorkerPost, WorkerStep, jobVars, pageVars, scanVars,
                         PagesTypeOK, PulledInv
    <2>4. QED BY <2>2, <2>3
  <1>17. CASE WorkerOcr(j)
    <2>1. WorkerStep(j, "ocr", "release") BY <1>17 DEF WorkerOcr
    <2>2. Kept BY <2>1, <1>2 DEF Places, Ending
    <2>3. Rest
      BY <1>17 DEF WorkerOcr, WorkerStep, jobVars, pageVars, scanVars,
                   PagesTypeOK, PulledInv
    <2>4. QED BY <2>2, <2>3
  <1>18. CASE WorkerRelease(j)
    <2>1. WorkerStep(j, "release", "dead") BY <1>18 DEF WorkerRelease
    <2>2. Kept BY <2>1, <1>2 DEF Places
    <2>3. Rest
      BY <1>18 DEF WorkerRelease, WorkerStep, scanVars, PagesTypeOK, PulledInv
    <2>4. QED BY <2>2, <2>3
  <1>19. QED
    BY <1>3, <1>4, <1>5, <1>6, <1>7, <1>8, <1>9, <1>10, <1>11, <1>12, <1>13,
       <1>14, <1>15, <1>16, <1>17, <1>18 DEF Worker

(* What a step of a DELETE leaves alone stays well typed.                     *)
LEMMA DeleteStepTypes ==
  ASSUME TypeInv, NEW d \in Deleters, NEW from, NEW to, DeleteStep(d, from, to)
  PROVE  /\ ManagerTypeOK' /\ WorkerTypeOK' /\ ReadTypeOK' /\ PulledInv'
         /\ detect' \in [Jobs -> BOOLEAN] /\ dropped' \in [Jobs -> Nat]
         /\ retained_pages' \in [Jobs -> Seq(Pages)]
  BY DEF TypeInv, TypeOK, ManagerTypeOK, StateTypeOK, PagesTypeOK, WorkerTypeOK,
         ReadTypeOK, PulledInv, DeleteStep, scanVars, readVars

(* Every step of a DELETE keeps the types.                                    *)
LEMMA DeleteTypeInv ==
  ASSUME TypeInv, NEW d \in Deleters, Delete(d)
  PROVE  TypeInv'
  <1> DEFINE Kept == /\ ManagerTypeOK' /\ WorkerTypeOK' /\ ReadTypeOK' /\ PulledInv'
                     /\ detect' \in [Jobs -> BOOLEAN] /\ dropped' \in [Jobs -> Nat]
                     /\ retained_pages' \in [Jobs -> Seq(Pages)]
             Rest == /\ state' \in [Jobs -> {"unborn"} \cup InProgress \cup Finished]
                     /\ deleted' \in [Jobs -> BOOLEAN]
                     /\ cancel_event' \in [Jobs -> BOOLEAN]
                     /\ pages' \in [Jobs -> Seq(Pages)]
                     /\ retained_bytes' \in [Jobs -> SUBSET Pages]
                     /\ DeleteTypeOK'
  <1>1. SUFFICES Kept /\ Rest
    BY DEF TypeInv, TypeOK, StateTypeOK, PagesTypeOK
  <1>2. ASSUME NEW from, NEW to, DeleteStep(d, from, to)
        PROVE  Kept
    BY <1>2, DeleteStepTypes
  <1> HIDE DEF Kept
  <1> USE DEF TypeInv, TypeOK, StateTypeOK, PagesTypeOK, DeleteTypeOK, deletedVars
  <1>3. CASE DeleteLookup(d)
    <2>1. Kept BY <1>2, <1>3 DEF DeleteLookup
    <2>2. Rest BY <1>3 DEF DeleteLookup, DeleteStep, ManagerTypeOK
    <2>3. QED BY <2>1, <2>2
  <1>4. CASE DeleteReadSlot(d)
    <2>1. Kept BY <1>2, <1>4 DEF DeleteReadSlot
    <2>2. Rest BY <1>4 DEF DeleteReadSlot, DeleteStep
    <2>3. QED BY <2>1, <2>2
  <1>5. CASE DeleteMark(d)
    <2>1. PICK to \in {"probe", "join", "push"} : DeleteStep(d, "mark", to)
      BY <1>5 DEF DeleteMark, MarkUnless
    <2>2. Kept BY <1>2, <2>1
    <2>3. Rest
      BY <1>5, <2>1 DEF DeleteMark, MarkUnless, DeleteStep, InProgress
    <2>4. QED BY <2>2, <2>3
  <1>6. CASE DeletePush(d)
    <2>1. PICK to \in {"join", "cleanup"} : DeleteStep(d, "push", to)
      BY <1>6 DEF DeletePush
    <2>2. Kept BY <1>2, <2>1
    <2>3. Rest BY <1>6, <2>1 DEF DeletePush, DeleteStep
    <2>4. QED BY <2>2, <2>3
  <1>7. CASE DeleteCleanup(d)
    <2>1. Kept BY <1>2, <1>7 DEF DeleteCleanup
    <2>2. Rest BY <1>7 DEF DeleteCleanup, DeleteStep
    <2>3. QED BY <2>1, <2>2
  <1>8. CASE DeleteRaises(d)
    <2>1. PICK from \in {"cleanup", "join"} : DeleteReturn(d, from)
      BY <1>8 DEF DeleteRaises
    <2>2. Kept BY <1>2, <2>1 DEF DeleteReturn
    <2>3. Rest BY <1>8, <2>1 DEF DeleteRaises, DeleteReturn, DeleteStep
    <2>4. QED BY <2>2, <2>3
  <1>9. CASE DeleteJoin(d)
    <2>1. Kept BY <1>2, <1>9 DEF DeleteJoin
    <2>2. Rest BY <1>9 DEF DeleteJoin, DeleteStep
    <2>3. QED BY <2>1, <2>2
  <1>10. CASE DeleteProbe(d)
    <2>1. Kept BY <1>2, <1>10 DEF DeleteProbe
    <2>2. WorkerExited(djob[d]) \in BOOLEAN BY DEF WorkerExited
    <2>3. Rest
      BY <1>10, <2>2 DEF DeleteProbe, DeleteStep
    <2>4. QED BY <2>1, <2>3
  <1>11. CASE DeleteFinalize(d)
    <2>1. \/ DeleteStep(d, "finalize", "release")
             /\ UNCHANGED <<djob, is_active, worker_exited>>
          \/ DeleteReturn(d, "finalize")
      BY <1>11 DEF DeleteFinalize
    <2>2. Kept BY <1>2, <2>1 DEF DeleteReturn
    <2>3. DeleteTypeOK'
      BY <2>1 DEF DeleteReturn, DeleteStep
    <2>4. state' \in [Jobs -> {"unborn"} \cup InProgress \cup Finished]
      BY <1>11 DEF DeleteFinalize, Finished
    <2>5. Rest
      BY <1>11, <2>3, <2>4 DEF DeleteFinalize
    <2>6. QED BY <2>2, <2>5
  <1>12. CASE DeleteRelease(d)
    <2>1. Kept BY <1>2, <1>12 DEF DeleteRelease, DeleteReturn
    <2>2. Rest BY <1>12 DEF DeleteRelease, DeleteReturn, DeleteStep
    <2>3. QED BY <2>1, <2>2
  <1>13. QED
    BY <1>3, <1>4, <1>5, <1>6, <1>7, <1>8, <1>9, <1>10, <1>11, <1>12 DEF Delete

(* Both steps of a NextDocument keep the types.                               *)
LEMMA ReadTypeInv ==
  ASSUME TypeInv, NEW r \in Readers, NextDocumentLookup(r) \/ NextDocument(r)
  PROVE  TypeInv'
  <1> DEFINE Kept(job) ==
               /\ ManagerTypeOK' /\ StateTypeOK' /\ WorkerTypeOK' /\ DeleteTypeOK'
               /\ PulledInv'
               /\ retained_pages' \in [Jobs -> Seq(Pages)]
               /\ retained_bytes' \in [Jobs -> SUBSET Pages]
               /\ rpc' \in [Readers -> {"idle", "serve"}]
               /\ rjob' \in [Readers -> Jobs \cup {NoJob}]
  <1>1. ASSUME NEW from, NEW to \in {"idle", "serve"}, NEW job \in Jobs \cup {NoJob},
               ReadStep(r, from, to, job)
        PROVE  Kept(job)
    BY <1>1 DEF TypeInv, TypeOK, ManagerTypeOK, StateTypeOK, PagesTypeOK,
                WorkerTypeOK, DeleteTypeOK, ReadTypeOK, PulledInv, ReadStep,
                scanVars, deleteVars
  <1>2. CASE NextDocumentLookup(r)
    <2>1. PICK job \in jobs : ReadStep(r, "idle", "serve", job)
      BY <1>2 DEF NextDocumentLookup
    <2>2. Kept(job)
      BY <1>1, <2>1 DEF TypeInv, TypeOK, ManagerTypeOK
    <2>3. QED
      BY <1>2, <2>2
      DEF NextDocumentLookup, TypeInv, TypeOK, PagesTypeOK, ReadTypeOK
  <1>3. CASE NextDocument(r)
    <2>1. ReadStep(r, "serve", "idle", NoJob)
      BY <1>3 DEF NextDocument
    <2>2. Kept(NoJob)
      BY <1>1, <2>1
    <2>3. ended' \in [Jobs -> BOOLEAN]
      BY <1>3 DEF NextDocument, TypeInv, TypeOK, ReadTypeOK
    <2>4. pages' \in [Jobs -> Seq(Pages)] /\ delivered' \in [Jobs -> Seq(Pages)]
      <3>1. CASE rjob[r] \in Jobs /\ Answer(rjob[r]) = "page"
        <4>1. pages[rjob[r]] # <<>>
          BY <3>1 DEF Answer
        <4>2. /\ Tail(pages[rjob[r]]) \in Seq(Pages)
              /\ Head(pages[rjob[r]]) \in Pages
          BY <3>1, <4>1 DEF TypeInv, TypeOK, PagesTypeOK
        <4>3. Append(delivered[rjob[r]], Head(pages[rjob[r]])) \in Seq(Pages)
          BY <3>1, <4>2 DEF TypeInv, TypeOK, ReadTypeOK
        <4>4. QED
          BY <1>3, <3>1, <4>2, <4>3
          DEF NextDocument, TypeInv, TypeOK, PagesTypeOK, ReadTypeOK
      <3>2. CASE ~(rjob[r] \in Jobs /\ Answer(rjob[r]) = "page")
        BY <1>3, <3>2 DEF NextDocument, TypeInv, TypeOK, PagesTypeOK, ReadTypeOK
      <3>3. QED BY <3>1, <3>2
    <2>5. QED
      BY <2>2, <2>3, <2>4 DEF TypeInv, TypeOK, PagesTypeOK, ReadTypeOK
  <1>4. QED BY <1>2, <1>3

(* The types, with what a worker in the loop has in its hand, are inductive.  *)
LEMMA NextTypeInv == TypeInv /\ [Next]_vars => TypeInv'
  <1> SUFFICES ASSUME TypeInv, [Next]_vars PROVE TypeInv'
    OBVIOUS
  <1>1. CASE UNCHANGED vars
    BY <1>1 DEF vars, pageVars, scanVars, deleteVars, readVars, TypeInv, TypeOK,
                ManagerTypeOK, StateTypeOK, PagesTypeOK, WorkerTypeOK, DeleteTypeOK,
                ReadTypeOK, PulledInv
  <1>2. CASE Next
    BY <1>2, CreateTypeInv, WorkerTypeInv, DeleteTypeInv, ReadTypeInv DEF Next
  <1>3. QED BY <1>1, <1>2

(* Every reachable state is well typed, and a worker never holds more pages   *)
(* than the feeder.                                                           *)
THEOREM Typing == Spec => []TypeOK
  <1>1. TypeInv => TypeOK
    BY DEF TypeInv
  <1>2. QED BY InitTypeInv, NextTypeInv, <1>1, PTL DEF Spec

----------------------------------------------------------------------------
\* The slot.  None of the three theorems below is inductive alone: they hold
\* because of what the worker's place says of its job's state, and because a
\* DELETE that believes a worker gone is right about it.

\* A job without a thread was never created; created jobs are the first `made'.
BirthInv ==
    /\ \A j \in Jobs : wpc[j] = "none" <=> state[j] = "unborn"
    /\ \A j \in Jobs : j > made => state[j] = "unborn"
    /\ \A j \in jobs : state[j] # "unborn"

\* A job is in progress as long as its worker has not reached an outcome.
PlaceInv ==
    \A j \in Jobs :
        /\ wpc[j] \in Running \cup {"unstarted"} => state[j] \in InProgress
        /\ wpc[j] \in Ending \cup {"dead"} => state[j] \in Finished

\* The backend is driven for exactly the worker that is inside scan_pages.
ClientInv == \A j \in Jobs : wpc[j] \in Scanning <=> current_client = j

\* A DELETE gets past its join only if the thread was started, and it believes
\* a worker gone only if it is.
DeleterInv ==
    \A d \in Deleters :
        /\ dpc[d] # "idle" => djob[d] \in Jobs /\ state[djob[d]] # "unborn"
        /\ dpc[d] \in {"mark", "push", "cleanup", "join"} =>
               (wpc[djob[d]] = "unstarted" => is_active[d])
        /\ dpc[d] \in {"probe", "finalize", "release"} => wpc[djob[d]] # "unstarted"
        /\ dpc[d] \in {"finalize", "release"} /\ worker_exited[d] =>
               wpc[djob[d]] = "dead"

SlotInv == BirthInv /\ PlaceInv /\ OneJobAtATime /\ ClientInv /\ DeleterInv

(* No job, no worker, no DELETE: the invariant holds at the start.            *)
LEMMA InitSlotInv == Init => SlotInv
  BY DEF Init, SlotInv, BirthInv, PlaceInv, OneJobAtATime, ClientInv, DeleterInv,
         Running, Scanning, Ending, InProgress, NoJob, Jobs

(* POST gives the slot to a new job only when the previous owner is terminal, *)
(* and then no worker is left inside the backend.                             *)
LEMMA CreateSlotInv ==
  ASSUME TypeOK, SlotInv, NEW started \in BOOLEAN, CreateJob(started)
  PROVE  SlotInv'
  <1> DEFINE new == made + 1
  <1>1. new \in Jobs /\ made' = new /\ active' = new
    BY ConstantsAssumption DEF CreateJob, TypeOK, ManagerTypeOK, Jobs
  <1>2. state[new] = "unborn" /\ wpc[new] = "none"
    BY <1>1 DEF SlotInv, BirthInv, TypeOK, ManagerTypeOK, Jobs
  <1>3. \A j \in Jobs : state[j] \notin InProgress
    BY DEF CreateJob, SlotFree, SlotInv, OneJobAtATime, InProgress, Finished,
           terminal, NoJob, Jobs
  <1>4. \A j \in Jobs : state'[j] = IF j = new THEN "created" ELSE state[j]
    BY <1>1 DEF CreateJob, TypeOK, StateTypeOK
  <1>5. \A j \in Jobs :
          wpc'[j] = IF j = new THEN IF started THEN "begin" ELSE "unstarted"
                    ELSE wpc[j]
    BY <1>1 DEF CreateJob, TypeOK, WorkerTypeOK
  <1>6. BirthInv'
    BY <1>1, <1>4, <1>5 DEF SlotInv, BirthInv, CreateJob, TypeOK, ManagerTypeOK, Jobs
  <1>7. PlaceInv'
    BY <1>4, <1>5 DEF SlotInv, PlaceInv, InProgress, Running, Ending, Scanning
  <1>8. OneJobAtATime'
    BY <1>1, <1>3, <1>4 DEF OneJobAtATime
  <1>9. ClientInv'
    BY <1>1, <1>2, <1>5 DEF SlotInv, ClientInv, CreateJob, scanVars, Scanning
  <1>10. DeleterInv'
    BY <1>1, <1>2, <1>4, <1>5 DEF SlotInv, DeleterInv, CreateJob, deleteVars
  <1>11. QED BY <1>6, <1>7, <1>8, <1>9, <1>10 DEF SlotInv

\* How a worker's step moves its job: where it starts and ends, what becomes of
\* the job's state, of the slot and of the backend.
WorkerMoves(j, from, to, now, slot, client) ==
    /\ WorkerStep(j, from, to)
    /\ state' = [state EXCEPT ![j] = now]
    /\ active' = slot
    /\ current_client' = client

(* Every step of a worker is one of these moves.                              *)
LEMMA WorkerMove ==
  ASSUME TypeOK, NEW j \in Jobs, Worker(j)
  PROVE
    \/ WorkerMoves(j, "begin", "open", "processing", active, current_client)
    \/ WorkerMoves(j, "open", "fetch", state[j], active, j) /\ current_client = NoJob
    \/ \E from, to \in Scanning :
         WorkerMoves(j, from, to, state[j], active, current_client)
    \/ \E from \in Scanning, to \in {"finish", "fail"} :
         WorkerMoves(j, from, to, state[j], active, NoJob)
    \/ \E from \in {"finish", "fail"}, now \in Finished :
         WorkerMoves(j, from, "clear", now, active, current_client)
    \/ WorkerMoves(j, "clear", "post", state[j],
                   IF active = j THEN NoJob ELSE active, current_client)
    \/ \E from \in {"post", "ocr", "release"}, to \in {"ocr", "release", "dead"} :
         WorkerMoves(j, from, to, state[j], active, current_client)
  <1> USE DEF WorkerMoves, jobVars, scanVars, TypeOK, StateTypeOK
  <1>1. CASE WorkerBegin(j) BY <1>1 DEF WorkerBegin
  <1>2. CASE BackendOpen(j) BY <1>2 DEF BackendOpen
  <1>3. CASE BackendTakePage(j)
    BY <1>3 DEF BackendTakePage, TakePage, Scanning
  <1>4. CASE BackendYield(j) BY <1>4 DEF BackendYield, Scanning
  <1>5. CASE BackendExhausted(j) BY <1>5 DEF BackendExhausted, Scanning
  <1>6. CASE BackendRaises(j) BY <1>6 DEF BackendRaises, RaiseOwnedBy, Scanning
  <1>7. CASE WorkerLeaveLoop(j) BY <1>7 DEF WorkerLeaveLoop, Scanning
  <1>8. CASE WorkerDropBlank(j) BY <1>8 DEF WorkerDropBlank, Scanning
  <1>9. CASE WorkerKeepPage(j) BY <1>9 DEF WorkerKeepPage, Scanning
  <1>10. CASE WorkerAppend(j) BY <1>10 DEF WorkerAppend, AppendTo, Scanning
  <1>11. CASE WorkerFinish(j) BY <1>11 DEF WorkerFinish, EndAs, Finished
  <1>12. CASE WorkerFail(j) BY <1>12 DEF WorkerFail, EndAs, Finished
  <1>13. CASE WorkerClear(j) BY <1>13 DEF WorkerClear
  <1>14. CASE WorkerPost(j) BY <1>14 DEF WorkerPost
  <1>15. CASE WorkerOcr(j) BY <1>15 DEF WorkerOcr
  <1>16. CASE WorkerRelease(j) BY <1>16 DEF WorkerRelease
  <1>17. QED
    BY <1>1, <1>2, <1>3, <1>4, <1>5, <1>6, <1>7, <1>8, <1>9, <1>10, <1>11, <1>12,
       <1>13, <1>14, <1>15, <1>16 DEF Worker

(* Whatever the move, what DELETEs and births know of the worker stays true.   *)
LEMMA WorkerMoveKeeps ==
  ASSUME TypeOK, SlotInv, NEW j \in Jobs, NEW from, NEW to, NEW now, NEW slot, NEW client,
         WorkerMoves(j, from, to, now, slot, client),
         from \notin {"none", "unstarted", "dead"}, to \notin {"none", "unstarted"},
         now # "unborn"
  PROVE  /\ BirthInv' /\ DeleterInv'
         /\ wpc[j] = from
         /\ \A k \in Jobs : state'[k] = IF k = j THEN now ELSE state[k]
         /\ \A k \in Jobs : wpc'[k] = IF k = j THEN to ELSE wpc[k]
         /\ active' = slot /\ current_client' = client
  <1>1. /\ wpc[j] = from
        /\ \A k \in Jobs : state'[k] = IF k = j THEN now ELSE state[k]
        /\ \A k \in Jobs : wpc'[k] = IF k = j THEN to ELSE wpc[k]
        /\ active' = slot /\ current_client' = client
    BY DEF WorkerMoves, WorkerStep, TypeOK, StateTypeOK, WorkerTypeOK
  <1>2. BirthInv'
    BY <1>1 DEF SlotInv, BirthInv, WorkerMoves, WorkerStep, TypeOK, ManagerTypeOK, Jobs
  <1>3. DeleterInv'
    <2>1. UNCHANGED <<dpc, djob, is_active, worker_exited>>
      BY DEF WorkerMoves, WorkerStep, deleteVars
    <2>2. \A k \in Jobs : wpc'[k] = "unstarted" <=> wpc[k] = "unstarted"
      BY <1>1
    <2>3. \A k \in Jobs : wpc[k] = "dead" => wpc'[k] = "dead"
      BY <1>1
    <2>4. \A k \in Jobs : state[k] # "unborn" => state'[k] # "unborn"
      BY <1>1
    <2>5. QED
      BY <2>1, <2>2, <2>3, <2>4 DEF SlotInv, DeleterInv
  <1>4. QED BY <1>1, <1>2, <1>3

(* A worker keeps the slot until its state is terminal and the backend free.  *)
LEMMA WorkerSlotInv ==
  ASSUME TypeOK, SlotInv, NEW j \in Jobs, Worker(j)
  PROVE  SlotInv'
  <1> USE DEF PlaceInv, OneJobAtATime, ClientInv, Running, Scanning, Ending,
              InProgress, Finished
  <1>0. /\ BirthInv /\ PlaceInv /\ OneJobAtATime /\ ClientInv
        /\ NoJob \notin Jobs
    BY DEF SlotInv, NoJob, Jobs
  <1>1. CASE WorkerMoves(j, "begin", "open", "processing", active, current_client)
    <2>1. wpc[j] = "begin" BY <1>1 DEF WorkerMoves, WorkerStep
    <2>2. QED BY <1>0, <1>1, <2>1, WorkerMoveKeeps DEF SlotInv
  <1>2. CASE /\ WorkerMoves(j, "open", "fetch", state[j], active, j)
             /\ current_client = NoJob
    <2>1. wpc[j] = "open" BY <1>2 DEF WorkerMoves, WorkerStep
    <2>2. state[j] \in InProgress BY <1>0, <2>1
    <2>3. QED BY <1>0, <1>2, <2>1, <2>2, WorkerMoveKeeps DEF SlotInv
  <1>3. CASE \E from, to \in Scanning :
               WorkerMoves(j, from, to, state[j], active, current_client)
    <2>1. PICK from, to \in Scanning :
                 WorkerMoves(j, from, to, state[j], active, current_client)
      BY <1>3
    <2>2. wpc[j] = from BY <2>1 DEF WorkerMoves, WorkerStep
    <2>3. state[j] \in InProgress BY <1>0, <2>2
    <2>4. QED BY <1>0, <2>1, <2>2, <2>3, WorkerMoveKeeps DEF SlotInv
  <1>4. CASE \E from \in Scanning, to \in {"finish", "fail"} :
               WorkerMoves(j, from, to, state[j], active, NoJob)
    <2>1. PICK from \in Scanning, to \in {"finish", "fail"} :
                 WorkerMoves(j, from, to, state[j], active, NoJob)
      BY <1>4
    <2>2. wpc[j] = from BY <2>1 DEF WorkerMoves, WorkerStep
    <2>3. state[j] \in InProgress BY <1>0, <2>2
    <2>4. QED BY <1>0, <2>1, <2>2, <2>3, WorkerMoveKeeps DEF SlotInv
  <1>5. CASE \E from \in {"finish", "fail"}, now \in Finished :
               WorkerMoves(j, from, "clear", now, active, current_client)
    <2>1. PICK from \in {"finish", "fail"}, now \in Finished :
                 WorkerMoves(j, from, "clear", now, active, current_client)
      BY <1>5
    <2>2. QED BY <1>0, <2>1, WorkerMoveKeeps DEF SlotInv
  <1>6. CASE WorkerMoves(j, "clear", "post", state[j],
                         IF active = j THEN NoJob ELSE active, current_client)
    <2>1. wpc[j] = "clear" BY <1>6 DEF WorkerMoves, WorkerStep
    <2>2. state[j] \in Finished BY <1>0, <2>1
    <2>3. QED BY <1>0, <1>6, <2>1, <2>2, WorkerMoveKeeps DEF SlotInv
  <1>7. CASE \E from \in {"post", "ocr", "release"}, to \in {"ocr", "release", "dead"} :
               WorkerMoves(j, from, to, state[j], active, current_client)
    <2>1. PICK from \in {"post", "ocr", "release"}, to \in {"ocr", "release", "dead"} :
                 WorkerMoves(j, from, to, state[j], active, current_client)
      BY <1>7
    <2>2. wpc[j] = from BY <2>1 DEF WorkerMoves, WorkerStep
    <2>3. state[j] \in Finished BY <1>0, <2>2
    <2>4. QED BY <1>0, <2>1, <2>2, <2>3, WorkerMoveKeeps DEF SlotInv
  <1>8. QED
    BY <1>1, <1>2, <1>3, <1>4, <1>5, <1>6, <1>7, WorkerMove

(* The only step of a DELETE that changes a state is the mark: a DELETE that   *)
(* believes the worker gone finds an outcome, which it leaves.                *)
LEMMA DeleteStates ==
  ASSUME TypeOK, SlotInv, NEW d \in Deleters, Delete(d)
  PROVE  /\ UNCHANGED <<jobs, made, active, wpc, current_client>>
         /\ \A j \in Jobs :
               state'[j] = IF dpc[d] = "mark" /\ j = djob[d] /\ ~terminal(j)
                           THEN "canceling" ELSE state[j]
  <1>1. UNCHANGED <<jobs, made, active, wpc, current_client>>
    BY DEF Delete, DeleteLookup, DeleteReadSlot, DeleteMark, MarkUnless, DeletePush,
           DeleteCleanup, DeleteRaises, DeleteJoin, DeleteProbe, DeleteFinalize,
           DeleteRelease, DeleteReturn, DeleteStep, scanVars
  <1>2. CASE DeleteMark(d)
    BY <1>1, <1>2 DEF DeleteMark, MarkUnless, DeleteStep, TypeOK, StateTypeOK
  <1>3. CASE DeleteFinalize(d)
    <2>1. dpc[d] = "finalize"
      BY <1>3 DEF DeleteFinalize, DeleteStep, DeleteReturn
    <2>2. worker_exited[d] => state[djob[d]] # "canceling"
      BY <2>1 DEF SlotInv, DeleterInv, PlaceInv, Finished
    <2>3. \A j \in Jobs : state'[j] = state[j]
      BY <1>3, <2>2 DEF DeleteFinalize, TypeOK, StateTypeOK
    <2>4. QED BY <1>1, <2>1, <2>3
  <1>4. CASE Delete(d) /\ ~DeleteMark(d) /\ ~DeleteFinalize(d)
    <2>1. dpc[d] # "mark" /\ UNCHANGED state
      BY <1>4
      DEF Delete, DeleteLookup, DeleteReadSlot, DeletePush, DeleteCleanup,
          DeleteRaises, DeleteJoin, DeleteProbe, DeleteRelease, DeleteReturn,
          DeleteStep, deletedVars
    <2>2. QED BY <1>1, <2>1
  <1>5. QED BY <1>2, <1>3, <1>4

(* What a DELETE has learnt about its job's worker stays true.                *)
LEMMA DeleteDeleterInv ==
  ASSUME TypeOK, SlotInv, NEW d \in Deleters, Delete(d)
  PROVE  DeleterInv'
  <1>1. /\ UNCHANGED <<jobs, wpc, active>>
        /\ \A j \in Jobs : state[j] # "unborn" => state'[j] # "unborn"
    BY DeleteStates
  <1>2. SUFFICES ASSUME NEW e \in Deleters
                 PROVE  /\ dpc'[e] # "idle" => djob'[e] \in Jobs /\ state'[djob'[e]] # "unborn"
                        /\ dpc'[e] \in {"mark", "push", "cleanup", "join"} =>
                               (wpc[djob'[e]] = "unstarted" => is_active'[e])
                        /\ dpc'[e] \in {"probe", "finalize", "release"} =>
                               wpc[djob'[e]] # "unstarted"
                        /\ dpc'[e] \in {"finalize", "release"} /\ worker_exited'[e] =>
                               wpc[djob'[e]] = "dead"
    BY <1>1 DEF DeleterInv
  <1>3. CASE e # d
    <2>1. /\ dpc'[e] = dpc[e] /\ djob'[e] = djob[e]
          /\ is_active'[e] = is_active[e] /\ worker_exited'[e] = worker_exited[e]
      BY <1>3
      DEF Delete, DeleteLookup, DeleteReadSlot, DeleteMark, MarkUnless, DeletePush,
          DeleteCleanup, DeleteRaises, DeleteJoin, DeleteProbe, DeleteFinalize,
          DeleteRelease, DeleteReturn, DeleteStep, TypeOK, DeleteTypeOK
    <2>2. QED BY <1>1, <2>1 DEF SlotInv, DeleterInv
  <1>4. CASE e = d
    <2> USE <1>4, <1>1 DEF DeleteStep, TypeOK, DeleteTypeOK, SlotInv, DeleterInv
    <2>1. CASE DeleteLookup(d)
      BY <2>1 DEF DeleteLookup, BirthInv, ManagerTypeOK
    <2>2. CASE DeleteReadSlot(d)
      <3>1. wpc[djob[d]] = "unstarted" => active = djob[d]
        BY <2>2 DEF DeleteReadSlot, PlaceInv, OneJobAtATime
      <3>2. QED BY <2>2, <3>1 DEF DeleteReadSlot
    <2>3. CASE DeleteMark(d) BY <2>3 DEF DeleteMark, MarkUnless
    <2>4. CASE DeletePush(d) BY <2>4 DEF DeletePush
    <2>5. CASE DeleteCleanup(d) BY <2>5 DEF DeleteCleanup
    <2>6. CASE DeleteRaises(d) BY <2>6 DEF DeleteRaises, DeleteReturn
    <2>7. CASE DeleteJoin(d) BY <2>7 DEF DeleteJoin
    <2>8. CASE DeleteProbe(d)
      <3>1. wpc[djob[d]] \notin {"none", "unstarted"}
        BY <2>8 DEF DeleteProbe, BirthInv
      <3>2. QED BY <2>8, <3>1 DEF DeleteProbe, WorkerExited
    <2>9. CASE DeleteFinalize(d) BY <2>9 DEF DeleteFinalize, DeleteReturn
    <2>10. CASE DeleteRelease(d) BY <2>10 DEF DeleteRelease, DeleteReturn
    <2>11. QED
      BY <2>1, <2>2, <2>3, <2>4, <2>5, <2>6, <2>7, <2>8, <2>9, <2>10 DEF Delete
  <1>5. QED BY <1>3, <1>4

(* A DELETE ends no job by itself: when it finds the worker gone, the worker  *)
(* has already left an outcome.                                               *)
LEMMA DeleteSlotInv ==
  ASSUME TypeOK, SlotInv, NEW d \in Deleters, Delete(d)
  PROVE  SlotInv'
  <1>1. /\ UNCHANGED <<jobs, made, active, wpc, current_client>>
        /\ \A j \in Jobs :
              \/ state'[j] = state[j]
              \/ /\ state[j] \notin Finished /\ state[j] # "unborn"
                 /\ state'[j] = "canceling"
    <2>1. dpc[d] = "mark" => state[djob[d]] # "unborn"
      BY DEF SlotInv, DeleterInv
    <2>2. QED BY <2>1, DeleteStates DEF terminal
  <1>2. \A j \in Jobs :
          /\ state'[j] = "unborn" <=> state[j] = "unborn"
          /\ state'[j] \in InProgress <=> state[j] \in InProgress
          /\ state'[j] \in Finished <=> state[j] \in Finished
    <2> SUFFICES ASSUME NEW j \in Jobs
                 PROVE  /\ state'[j] = "unborn" <=> state[j] = "unborn"
                        /\ state'[j] \in InProgress <=> state[j] \in InProgress
                        /\ state'[j] \in Finished <=> state[j] \in Finished
      OBVIOUS
    <2>1. state[j] \in {"unborn"} \cup InProgress \cup Finished
      BY DEF TypeOK, StateTypeOK
    <2>2. CASE state'[j] = state[j] BY <2>2
    <2>3. CASE /\ state[j] \notin Finished /\ state[j] # "unborn"
               /\ state'[j] = "canceling"
      BY <2>1, <2>3 DEF InProgress, Finished
    <2>4. QED BY <1>1, <2>2, <2>3
  <1>3. BirthInv' /\ PlaceInv' /\ OneJobAtATime' /\ ClientInv'
    <2>1. BirthInv'
      BY <1>1, <1>2 DEF SlotInv, BirthInv, TypeOK, ManagerTypeOK
    <2>2. PlaceInv' BY <1>1, <1>2 DEF SlotInv, PlaceInv
    <2>3. OneJobAtATime' BY <1>1, <1>2 DEF SlotInv, OneJobAtATime
    <2>4. ClientInv' BY <1>1 DEF SlotInv, ClientInv
    <2>5. QED BY <2>1, <2>2, <2>3, <2>4
  <1>4. QED BY <1>3, DeleteDeleterInv DEF SlotInv

(* NextDocument touches nothing the invariant speaks of.                      *)
LEMMA ReadSlotInv ==
  ASSUME SlotInv, NEW r \in Readers, NextDocumentLookup(r) \/ NextDocument(r)
  PROVE  SlotInv'
  <1>1. UNCHANGED <<jobs, made, active, state, wpc, scanVars, deleteVars>>
    BY DEF NextDocumentLookup, NextDocument, ReadStep
  <1>2. QED
    BY <1>1 DEF SlotInv, BirthInv, PlaceInv, OneJobAtATime, ClientInv, DeleterInv,
                scanVars, deleteVars

(* The invariant is inductive, given the types.                               *)
LEMMA NextSlotInv == TypeOK /\ SlotInv /\ [Next]_vars => SlotInv'
  <1> SUFFICES ASSUME TypeOK, SlotInv, [Next]_vars PROVE SlotInv'
    OBVIOUS
  <1>1. CASE UNCHANGED vars
    BY <1>1 DEF vars, scanVars, deleteVars, SlotInv, BirthInv, PlaceInv,
                OneJobAtATime, ClientInv, DeleterInv
  <1>2. CASE Next
    BY <1>2, CreateSlotInv, WorkerSlotInv, DeleteSlotInv, ReadSlotInv DEF Next
  <1>3. QED BY <1>1, <1>2

(* The strengthened invariant holds in every reachable state.                 *)
THEOREM SlotInvariant == Spec => [](TypeOK /\ SlotInv)
  <1>1. Init => SlotInv BY InitSlotInv
  <1>2. QED BY <1>1, Typing, NextSlotInv, PTL DEF Spec

(* At most one scan job is in progress, and it owns the slot: create_job's    *)
(* ScannerBusy test is enough for any number of clients and DELETEs.          *)
THEOREM SingleJob == Spec => []OneJobAtATime
  BY SlotInvariant, PTL DEF SlotInv

(* A worker that enters scan_pages finds the backend's lock free.             *)
THEOREM BackendFree == Spec => []BackendNeverContended
  <1>1. TypeOK /\ SlotInv => BackendNeverContended
    <2> SUFFICES ASSUME TypeOK, SlotInv, NEW j \in Jobs, wpc[j] = "open"
                 PROVE  current_client = NoJob
      BY DEF BackendNeverContended
    <2>1. active = j
      BY DEF SlotInv, PlaceInv, OneJobAtATime, Running
    <2>2. ASSUME NEW k \in Jobs, current_client = k PROVE FALSE
      <3>1. wpc[k] \in Scanning
        BY <2>2 DEF SlotInv, ClientInv
      <3>2. active = k
        BY <3>1 DEF SlotInv, PlaceInv, OneJobAtATime, Running
      <3>3. QED BY <2>1, <3>1, <3>2 DEF Scanning
    <2>3. QED BY <2>2 DEF TypeOK, WorkerTypeOK
  <1>2. QED BY <1>1, SlotInvariant, PTL

(* An outcome stays: no late DELETE and no late worker rewrites it.           *)
LEMMA OutcomeStays ==
  ASSUME TypeOK, SlotInv, Next, NEW j \in Jobs, terminal(j)
  PROVE  state'[j] = state[j]
  <1>1. ASSUME NEW started \in BOOLEAN, CreateJob(started) PROVE state'[j] = state[j]
    <2>1. j # made + 1
      BY <1>1 DEF CreateJob, SlotInv, BirthInv, terminal, Finished, TypeOK,
                  ManagerTypeOK, Jobs
    <2>2. QED BY <1>1, <2>1 DEF CreateJob, TypeOK, StateTypeOK
  <1>2. ASSUME NEW k \in Jobs, Worker(k) PROVE state'[j] = state[j]
    <2>1. CASE j # k
      BY <1>2, <2>1, WorkerMove DEF WorkerMoves, TypeOK, StateTypeOK
    <2>2. CASE j = k
      <3>1. wpc[j] \notin Running \cup {"unstarted"}
        BY DEF SlotInv, PlaceInv, terminal, InProgress, Finished
      <3>2. QED
        BY <1>2, <2>2, <3>1, WorkerMove
        DEF WorkerMoves, WorkerStep, TypeOK, StateTypeOK, Running, Scanning
    <2>3. QED BY <2>1, <2>2
  <1>3. ASSUME NEW d \in Deleters, Delete(d) PROVE state'[j] = state[j]
    BY <1>3, DeleteStates
  <1>4. ASSUME NEW r \in Readers, NextDocumentLookup(r) \/ NextDocument(r)
        PROVE  state'[j] = state[j]
    BY <1>4 DEF NextDocumentLookup, NextDocument, ReadStep
  <1>5. QED BY <1>1, <1>2, <1>3, <1>4 DEF Next

(* An outcome is final in every behaviour.                                    *)
THEOREM OutcomesStand == Spec => TerminalIsFinal
  <1>1. TypeOK /\ SlotInv /\ [Next]_vars =>
          [\A j \in Jobs : terminal(j) => state'[j] = state[j]]_vars
    BY OutcomeStays
  <1>2. QED BY <1>1, SlotInvariant, PTL DEF Spec, TerminalIsFinal
=============================================================================
