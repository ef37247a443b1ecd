------------------------ MODULE AirscanServerProofs ------------------------
(***************************************************************************)
(* Theorems about AirscanServer, for every number of jobs, pages, threads  *)
(* and pollers: what the job manager guarantees it still guarantees under  *)
(* the HTTP server, the locals of the requests are well typed, one         *)
(* ScannerStatus answer never shows two jobs in progress, and every page   *)
(* reaches one client at most, in order, and at the end exactly one unless *)
(* its connection broke.                                                   *)
(***************************************************************************)
EXTENDS AirscanServer, AirscanJobsPagesProofs

----------------------------------------------------------------------------
\* The slot is the latest job's or free.
LatestInv == active \in {NoJob, made}

\* A thread that writes an answer has a page of a job in its hands, and serves
\* no other request meanwhile.
AnswerInv ==
    \A r \in Readers :
        sending[r] # NoPage =>
            /\ sending[r].job \in Jobs /\ sending[r].page \in Pages
            /\ rpc[r] = "idle"

\* A ScannerStatus has rows to read only of jobs that were created, and after
\* the row of a job in progress there is none.
RowsInv ==
    \A p \in Pollers :
        /\ \A j \in todo[p] : state[j] # "unborn"
        /\ shown[p] # {} => todo[p] = {}
        /\ \A j, k \in shown[p] : j = k

\* What became of the pages of job j that were popped: they are with a client,
\* on their way to one, or lost; no page is in two of these places; and each
\* client's pages are in page order, the one on its way last.
WireInv(j) ==
    /\ Range(delivered[j]) = lost[j] \cup UNION {PagesWith(r, j) : r \in Readers}
    /\ \A r \in Readers :
          /\ PagesWith(r, j) \cap lost[j] = {}
          /\ \A s \in Readers \ {r} : PagesWith(r, j) \cap PagesWith(s, j) = {}
          /\ \A i \in 1 .. Len(received[r][j]) - 1 :
                received[r][j][i] < received[r][j][i + 1]
          /\ sending[r].job = j =>
                \A i \in 1 .. Len(received[r][j]) : received[r][j][i] < sending[r].page

ServerInv ==
    /\ ServerTypeOK /\ LatestInv /\ AnswerInv /\ RowsInv
    /\ \A j \in Jobs : WireInv(j)

\* What is known of the manager in every state.
ManagerInv == TypeInv /\ SlotInv /\ PagesInv

(* The server adds no step to the manager's: a poll changes nothing of it.    *)
LEMMA ServerStepIsManagerStep == [ServerNext]_serverVars => [Next]_vars
  <1> SUFFICES ASSUME [ServerNext]_serverVars PROVE [Next]_vars
    OBVIOUS
  <1>1. CASE UNCHANGED serverVars
    BY <1>1 DEF serverVars
  <1>2. CASE Manage
    BY <1>2 DEF Manage, Next
  <1>3. CASE \E r \in Readers : Request(r) \/ Respond(r) \/ AnswerWritten(r)
    BY <1>3 DEF Request, Respond, AnswerWritten, Next
  <1>4. ASSUME NEW p \in Pollers, Poll(p) PROVE UNCHANGED vars
    BY <1>4 DEF Poll, StatusState, StatusList, StatusJob, StatusSend, InfoLookup,
                InfoTest, InfoPeek, HealthRead, HealthProbe
  <1>5. QED BY <1>1, <1>2, <1>3, <1>4 DEF ServerNext

(* What is proved of the manager alone holds of the manager in the server.    *)
THEOREM ServerManages == ServerSpec => Spec
  <1>1. ServerInit => Init
    BY DEF ServerInit
  <1>2. QED BY <1>1, ServerStepIsManagerStep, PTL DEF ServerSpec, Spec

----------------------------------------------------------------------------
(* A POST takes the slot for the latest job; nothing else gives it to one.    *)
LEMMA NextLatestInv == TypeInv /\ SlotInv /\ PagesInv /\ LatestInv /\ [Next]_vars => LatestInv'
  <1> SUFFICES ASSUME TypeInv, SlotInv, PagesInv, LatestInv, [Next]_vars PROVE LatestInv'
    OBVIOUS
  <1>0. TypeOK BY DEF TypeInv
  <1>1. CASE UNCHANGED vars
    BY <1>1 DEF vars, LatestInv
  <1>2. ASSUME NEW started \in BOOLEAN, CreateJob(started) PROVE LatestInv'
    BY <1>2 DEF CreateJob, LatestInv
  <1>3. ASSUME NEW j \in Jobs, Worker(j) PROVE LatestInv'
    <2>1. active' = active \/ active' = NoJob
      BY <1>0, <1>3, WorkerMove DEF WorkerMoves
    <2>2. made' = made
      BY <1>0, <1>3, WorkerMove DEF WorkerMoves, WorkerStep
    <2>3. QED BY <2>1, <2>2 DEF LatestInv
  <1>4. ASSUME NEW d \in Deleters, Delete(d) PROVE LatestInv'
    BY <1>0, <1>4, DeleteStates DEF LatestInv
  <1>5. ASSUME NEW r \in Readers, NextDocumentLookup(r) \/ NextDocument(r)
        PROVE  LatestInv'
    BY <1>5 DEF NextDocumentLookup, NextDocument, ReadStep, LatestInv
  <1>6. QED BY <1>1, <1>2, <1>3, <1>4, <1>5 DEF Next

(* No job is ever unmade.                                                     *)
LEMMA BornStaysBorn ==
  ASSUME TypeInv, SlotInv, [Next]_vars, NEW j \in Jobs, state[j] # "unborn"
  PROVE  state'[j] # "unborn"
  <1>0. TypeOK BY DEF TypeInv
  <1>1. CASE UNCHANGED vars
    BY <1>1 DEF vars
  <1>2. ASSUME NEW started \in BOOLEAN, CreateJob(started) PROVE state'[j] # "unborn"
    BY <1>0, <1>2 DEF CreateJob, TypeOK, StateTypeOK
  <1>3. ASSUME NEW k \in Jobs, Worker(k) PROVE state'[j] # "unborn"
    BY <1>0, <1>3, WorkerMove DEF WorkerMoves, TypeOK, StateTypeOK, Finished
  <1>4. ASSUME NEW d \in Deleters, Delete(d) PROVE state'[j] # "unborn"
    BY <1>0, <1>4, DeleteStates
  <1>5. ASSUME NEW r \in Readers, NextDocumentLookup(r) \/ NextDocument(r)
        PROVE  state'[j] # "unborn"
    BY <1>5 DEF NextDocumentLookup, NextDocument, ReadStep
  <1>6. QED BY <1>1, <1>2, <1>3, <1>4, <1>5 DEF Next

(* Any job but the latest is terminal, once it was created.                   *)
LEMMA OnlyLatestInProgress ==
  ASSUME TypeOK, SlotInv, LatestInv, NEW j \in Jobs, state[j] # "unborn", ~terminal(j)
  PROVE  j = made /\ \A k \in Jobs : state[k] # "unborn" => k <= j
  <1>1. state[j] \in InProgress
    BY DEF TypeOK, StateTypeOK, terminal
  <1>2. active = j
    BY <1>1 DEF SlotInv, OneJobAtATime
  <1>3. j = made
    BY <1>2 DEF LatestInv, NoJob, Jobs
  <1>4. QED BY <1>3 DEF SlotInv, BirthInv, TypeOK, ManagerTypeOK, Jobs

----------------------------------------------------------------------------
\* The rows of ScannerStatus.

(* The row read next is that of the oldest job left to read.                  *)
LEMMA OldestIsLeast ==
  ASSUME NEW S \in SUBSET Jobs, NEW j \in OldestFirst(S, 1)
  PROVE  j \in S /\ \A k \in S : j <= k
  <1>1. IsFiniteSet(S)
    <2>1. IsFiniteSet(Jobs) BY ConstantsAssumption, FS_Interval DEF Jobs
    <2>2. QED BY <2>1, FS_Subset
  <1> DEFINE below == {k \in S : k < j}
  <1>2. j \in S /\ Cardinality(below) < 1
    BY DEF OldestFirst
  <1>3. IsFiniteSet(below)
    BY <1>1, FS_Subset
  <1>4. Cardinality(below) \in Nat
    BY <1>3, FS_CardinalityType
  <1>5. below = {}
    <2>1. Cardinality(below) = 0
      <3> HIDE DEF below
      <3>1. QED BY <1>2, <1>4
    <2>2. QED BY <1>3, <2>1, FS_EmptySet
  <1>6. ASSUME NEW k \in S PROVE j <= k
    <2>1. k \in Nat /\ j \in Nat BY <1>2 DEF Jobs
    <2>2. k \notin below BY <1>5
    <2>3. QED BY <2>1, <2>2
  <1>7. QED BY <1>2, <1>6

(* Reading one row after the other while the manager goes on, a ScannerStatus *)
(* lists at most one job in progress: the one created last when it listed     *)
(* them.                                                                      *)
LEMMA NextRowsInv ==
  ASSUME ManagerInv, ServerTypeOK, LatestInv, RowsInv, [ServerNext]_serverVars
  PROVE  RowsInv'
  <1>0. TypeOK BY DEF ManagerInv, TypeInv
  <1>1. \A j \in Jobs : state[j] # "unborn" => state'[j] # "unborn"
    BY ServerStepIsManagerStep, BornStaysBorn DEF ManagerInv
  <1>2. CASE UNCHANGED <<todo, shown>>
    BY <1>1, <1>2 DEF RowsInv, ServerTypeOK
  <1>3. ASSUME NEW p \in Pollers, StatusList(p) PROVE RowsInv'
    <2>1. \A j \in jobs : j \in Jobs /\ state[j] # "unborn"
      BY <1>0 DEF ManagerInv, SlotInv, BirthInv, TypeOK, ManagerTypeOK
    <2>2. todo' = [todo EXCEPT ![p] = jobs] /\ shown' = shown /\ ppc[p] = "list"
      BY <1>3 DEF StatusList
    <2>3. shown[p] = {}
      BY <2>2 DEF ServerTypeOK
    <2>4. QED BY <1>1, <2>1, <2>2, <2>3 DEF RowsInv, ServerTypeOK
  <1>4. ASSUME NEW p \in Pollers, StatusJob(p) PROVE RowsInv'
    <2>1. PICK j \in OldestFirst(todo[p], 1) :
            /\ todo'  = [todo EXCEPT ![p] = @ \ {j}]
            /\ shown' = [shown EXCEPT ![p] =
                            IF ~deleted[j] /\ ~terminal(j) THEN @ \cup {j} ELSE @]
      BY <1>4 DEF StatusJob
    <2>2. todo[p] \in SUBSET Jobs
      BY DEF ServerTypeOK
    <2>3. j \in todo[p] /\ \A k \in todo[p] : j <= k
      BY <2>1, <2>2, OldestIsLeast
    <2>4. j \in Jobs /\ state[j] # "unborn" /\ shown[p] = {}
      BY <2>2, <2>3 DEF RowsInv
    <2>5. ~terminal(j) => todo[p] = {j}
      <3> SUFFICES ASSUME ~terminal(j), NEW k \in todo[p] PROVE k = j
        BY <2>3
      <3>1. k \in Jobs /\ state[k] # "unborn" BY <2>2 DEF RowsInv
      <3>2. k <= j
        BY <1>0, <2>4, <3>1, OnlyLatestInProgress DEF ManagerInv
      <3>3. QED BY <2>3, <2>4, <3>1, <3>2 DEF Jobs
    <2>6. \A q \in Pollers :
            /\ todo'[q] = IF q = p THEN todo[p] \ {j} ELSE todo[q]
            /\ shown'[q] = IF q = p /\ ~deleted[j] /\ ~terminal(j) THEN {j} ELSE shown[q]
      BY <2>1, <2>4 DEF ServerTypeOK
    <2>7. QED BY <1>1, <2>2, <2>4, <2>5, <2>6 DEF RowsInv, ServerTypeOK
  <1>5. ASSUME NEW p \in Pollers, StatusSend(p) PROVE RowsInv'
    BY <1>1, <1>5 DEF StatusSend, RowsInv, ServerTypeOK
  <1>6. QED
    BY <1>2, <1>3, <1>4, <1>5
    DEF ServerNext, serverVars, pollerVars, Poll, StatusState, InfoLookup, InfoTest,
        InfoReturn, InfoPeek, HealthRead, HealthProbe

----------------------------------------------------------------------------
\* The answers that carry the pages.

(* A NextDocument of the server hands the head of the queue to the thread     *)
(* that writes it, or leaves the queue and the wire as they are.              *)
LEMMA RespondEffect ==
  ASSUME TypeOK, RequestInv, AnswerInv, ServerTypeOK, NEW r \in Readers, Respond(r)
  PROVE  /\ sending[r] = NoPage /\ rpc'[r] = "idle"
         /\ UNCHANGED <<received, lost>>
         /\ \A q \in Readers \ {r} : rpc'[q] = rpc[q] /\ sending'[q] = sending[q]
         /\ \/ sending' = sending /\ delivered' = delivered
            \/ \E j \in Jobs :
                 /\ pages[j] # <<>> /\ ~deleted[j]
                 /\ delivered' = [delivered EXCEPT ![j] = Append(@, Head(pages[j]))]
                 /\ sending' = [sending EXCEPT ![r] = [job |-> j, page |-> Head(pages[j])]]
  <1> DEFINE j == rjob[r]
  <1>1. /\ rpc[r] = "serve" /\ rpc' = [rpc EXCEPT ![r] = "idle"]
        /\ NextDocument(r) /\ UNCHANGED <<received, lost>>
        /\ sending' = IF delivered'[j] = delivered[j] THEN sending
                      ELSE [sending EXCEPT ![r] = [job |-> j, page |-> Head(pages[j])]]
    BY DEF Respond, NextDocument, ReadStep
  <1>2. sending[r] = NoPage
    BY <1>1 DEF AnswerInv
  <1>3. j \in Jobs
    BY <1>1 DEF RequestInv
  <1>4. /\ rpc'[r] = "idle"
        /\ \A q \in Readers \ {r} : rpc'[q] = rpc[q] /\ sending'[q] = sending[q]
    BY <1>1 DEF TypeOK, ReadTypeOK, ServerTypeOK
  <1>5. CASE Answer(j) = "page"
    <2>1. pages[j] # <<>> /\ ~deleted[j]
      BY <1>5 DEF Answer
    <2>2. delivered' = [delivered EXCEPT ![j] = Append(@, Head(pages[j]))]
      BY <1>1, <1>5 DEF NextDocument
    <2>3. delivered'[j] # delivered[j]
      <3>1. delivered[j] \in Seq(Pages) /\ Head(pages[j]) \in Pages
        BY <1>3, <2>1 DEF TypeOK, PagesTypeOK, ReadTypeOK
      <3>2. Len(Append(delivered[j], Head(pages[j]))) = Len(delivered[j]) + 1
            /\ Len(delivered[j]) \in Nat
        BY <3>1, AppendProperties, LenProperties
      <3>3. delivered'[j] = Append(delivered[j], Head(pages[j]))
        BY <1>3, <2>2 DEF TypeOK, ReadTypeOK
      <3>4. QED BY <3>2, <3>3
    <2>4. QED BY <1>1, <1>2, <1>3, <1>4, <2>1, <2>2, <2>3
  <1>6. CASE Answer(j) # "page"
    <2>1. delivered' = delivered
      BY <1>1, <1>6 DEF NextDocument
    <2>2. QED BY <1>1, <1>2, <1>4, <2>1
  <1>7. QED BY <1>5, <1>6

(* Only Respond and AnswerWritten touch the wire.                             *)
LEMMA WireSteps ==
  ASSUME TypeOK, ServerTypeOK, [ServerNext]_serverVars
  PROVE  \/ \E r \in Readers : Respond(r)
         \/ \E r \in Readers : AnswerWritten(r)
         \/ \E r \in Readers : Request(r)
         \/ UNCHANGED <<sending, received, lost, delivered, rpc>>
  <1>1. CASE UNCHANGED serverVars
    BY <1>1 DEF serverVars, answerVars, vars, readVars
  <1>2. ASSUME NEW p \in Pollers, Poll(p), UNCHANGED answerVars
        PROVE  UNCHANGED <<sending, received, lost, delivered, rpc>>
    BY <1>2 DEF Poll, StatusState, StatusList, StatusJob, StatusSend, InfoLookup,
                InfoTest, InfoPeek, HealthRead, HealthProbe, answerVars, vars, readVars
  <1>3. ASSUME Manage PROVE UNCHANGED <<sending, received, lost, delivered, rpc>>
    <2>1. UNCHANGED answerVars BY <1>3 DEF Manage
    <2>2. UNCHANGED readVars
      BY <1>3
      DEF Manage, CreateJob, Worker, WorkerBegin, BackendOpen, BackendTakePage, TakePage,
          BackendYield, BackendExhausted, BackendRaises, RaiseOwnedBy, WorkerLeaveLoop,
          WorkerDropBlank, WorkerKeepPage, WorkerAppend, AppendTo, WorkerFinish, EndAs,
          WorkerFail, WorkerClear, WorkerPost, WorkerOcr, WorkerRelease, WorkerStep,
          Delete, DeleteLookup, DeleteReadSlot, DeleteMark, MarkUnless, DeletePush,
          DeleteCleanup, DeleteRaises, DeleteJoin, DeleteProbe, DeleteFinalize,
          DeleteRelease, DeleteReturn, DeleteStep
    <2>3. QED BY <2>1, <2>2 DEF answerVars, readVars
  <1>4. QED BY <1>1, <1>2, <1>3 DEF ServerNext

(* A thread's answer is that of a page of a job, until it is written.         *)
LEMMA NextAnswerInv ==
  ASSUME ManagerInv, ServerTypeOK, AnswerInv, [ServerNext]_serverVars
  PROVE  AnswerInv'
  <1>0. TypeOK /\ RequestInv
    BY DEF ManagerInv, TypeInv, PagesInv
  <1>1. ASSUME NEW r \in Readers, Respond(r) PROVE AnswerInv'
    <2>1. ASSUME NEW q \in Readers, sending'[q] # NoPage
          PROVE  sending'[q].job \in Jobs /\ sending'[q].page \in Pages /\ rpc'[q] = "idle"
      <3>1. CASE q # r
        BY <1>0, <1>1, <2>1, <3>1, RespondEffect DEF AnswerInv
      <3>2. CASE q = r
        <4>1. sending[r] = NoPage /\ rpc'[r] = "idle"
          BY <1>0, <1>1, RespondEffect
        <4>2. PICK j \in Jobs :
                /\ pages[j] # <<>> 
                /\ sending' = [sending EXCEPT ![r] = [job |-> j, page |-> Head(pages[j])]]
          BY <1>0, <1>1, <2>1, <3>2, <4>1, RespondEffect
        <4>3. Head(pages[j]) \in Pages
          BY <1>0, <4>2 DEF TypeOK, PagesTypeOK
        <4>4. QED BY <3>2, <4>1, <4>2, <4>3 DEF ServerTypeOK
      <3>3. QED BY <3>1, <3>2
    <2>2. QED BY <2>1 DEF AnswerInv
  <1>2. ASSUME NEW r \in Readers, AnswerWritten(r) PROVE AnswerInv'
    BY <1>2 DEF AnswerWritten, AnswerInv, ServerTypeOK, vars, readVars
  <1>3. ASSUME NEW r \in Readers, Request(r) PROVE AnswerInv'
    BY <1>0, <1>3 DEF Request, NextDocumentLookup, ReadStep, AnswerInv, answerVars, TypeOK,
                      ReadTypeOK
  <1>4. QED BY <1>0, <1>1, <1>2, <1>3, WireSteps DEF AnswerInv

(* The pages of a sequence, with one more.                                    *)
LEMMA RangeAppend ==
  ASSUME NEW s \in Seq(Pages), NEW e \in Pages
  PROVE  /\ Range(Append(s, e)) = Range(s) \cup {e}
         /\ Len(s) \in Nat /\ Len(Append(s, e)) = Len(s) + 1
         /\ \A i \in 1 .. Len(s) : Append(s, e)[i] = s[i] /\ s[i] \in Range(s)
         /\ Append(s, e)[Len(s) + 1] = e
         /\ Range(s) \subseteq Pages
  <1>1. {Append(s, e)[i] : i \in DOMAIN Append(s, e)} = {s[i] : i \in DOMAIN s} \cup {e}
    BY AppendedElements
  <1>2. /\ Len(s) \in Nat /\ Len(Append(s, e)) = Len(s) + 1 /\ DOMAIN s = 1 .. Len(s)
        /\ \A i \in 1 .. Len(s) : Append(s, e)[i] = s[i] /\ s[i] \in Pages
        /\ Append(s, e)[Len(s) + 1] = e
    BY AppendProperties, LenProperties, ElementOfSeq
  <1>3. QED BY <1>1, <1>2 DEF Range

(* Where all the pages are in order, the head of the queue comes after every  *)
(* page handed out.                                                           *)
LEMMA HeadIsLater ==
  ASSUME NEW s \in Seq(Pages), NEW t \in Seq(Pages), t # <<>>,
         \A i, k \in DOMAIN (s \o t) : i < k => (s \o t)[i] < (s \o t)[k]
  PROVE  \A x \in Range(s) : x < Head(t)
  <1>1. Len(s) < Len(s \o t) /\ (s \o t)[Len(s) + 1] = Head(t)
    BY HeadIsNext
  <1>2. /\ DOMAIN s = 1 .. Len(s) /\ Len(s) \in Nat
        /\ DOMAIN (s \o t) = 1 .. Len(s \o t)
        /\ \A i \in 1 .. Len(s) : (s \o t)[i] = s[i]
    <2>1. s \o t \in Seq(Pages) BY ConcatProperties
    <2>2. DOMAIN (s \o t) = 1 .. Len(s \o t) BY <2>1, LenProperties
    <2>3. DOMAIN s = 1 .. Len(s) /\ Len(s) \in Nat /\ Len(t) \in Nat BY LenProperties
    <2>4. \A i \in 1 .. Len(s) : (s \o t)[i] = s[i] BY <2>3, ConcatProperties
    <2>5. QED BY <2>2, <2>3, <2>4
  <1>3. ASSUME NEW i \in 1 .. Len(s) PROVE s[i] < Head(t)
    <2>1. i \in DOMAIN (s \o t) /\ Len(s) + 1 \in DOMAIN (s \o t) /\ i < Len(s) + 1
      <3>1. Len(s \o t) \in Nat
        <4>1. s \o t \in Seq(Pages) BY ConcatProperties
        <4>2. QED BY <4>1, LenProperties
      <3>2. QED BY <1>1, <1>2, <3>1
    <2>2. (s \o t)[i] < (s \o t)[Len(s) + 1]
      BY <2>1
    <2>3. QED BY <1>1, <1>2, <2>2
  <1>4. QED BY <1>2, <1>3 DEF Range

(* What the server knows of a job's pages depends on the wire alone.          *)
LEMMA SameWire ==
  ASSUME NEW k \in Jobs, WireInv(k), delivered'[k] = delivered[k], lost'[k] = lost[k],
         \A q \in Readers : /\ received'[q][k] = received[q][k]
                            /\ sending'[q] = sending[q] \/ (sending[q].job # k /\ sending'[q].job # k)
  PROVE  WireInv(k)'
  <1>1. \A q \in Readers : PagesWith(q, k)' = PagesWith(q, k)
    BY DEF PagesWith
  <1>2. UNION {PagesWith(q, k)' : q \in Readers} = UNION {PagesWith(q, k) : q \in Readers}
    BY <1>1
  <1>3. QED BY <1>1, <1>2 DEF WireInv

(* A page that is popped was nowhere on the wire, and comes after every page  *)
(* of its job that was.                                                       *)
LEMMA RespondWireInv ==
  ASSUME ManagerInv, ServerTypeOK, AnswerInv, NEW k \in Jobs, WireInv(k),
         NEW r \in Readers, Respond(r)
  PROVE  WireInv(k)'
  <1>0. /\ TypeOK /\ RequestInv /\ JobInv(k) /\ NoJob \notin Jobs
        /\ sending[r] = NoPage /\ UNCHANGED <<received, lost>>
        /\ \A q \in Readers \ {r} : sending'[q] = sending[q]
    BY RespondEffect DEF ManagerInv, TypeInv, PagesInv, NoJob, Jobs
  <1>1. CASE sending' = sending /\ delivered' = delivered
    BY <1>0, <1>1, SameWire
  <1>2. ASSUME NEW j \in Jobs, pages[j] # <<>>, ~deleted[j],
               delivered' = [delivered EXCEPT ![j] = Append(@, Head(pages[j]))],
               sending' = [sending EXCEPT ![r] = [job |-> j, page |-> Head(pages[j])]]
        PROVE  WireInv(k)'
    <2> DEFINE x == Head(pages[j])
    <2>1. sending'[r] = [job |-> j, page |-> x]
      BY <1>2 DEF ServerTypeOK
    <2>2. CASE k # j
      <3>1. delivered'[k] = delivered[k] /\ sending[r].job # k /\ sending'[r].job # k
        BY <1>0, <1>2, <2>1, <2>2 DEF TypeOK, ReadTypeOK, NoPage
      <3>2. QED BY <1>0, <3>1, SameWire
    <2>3. CASE k = j
      <3>1. /\ pages[k] \in Seq(Pages) /\ delivered[k] \in Seq(Pages) /\ x \in Pages
            /\ delivered'[k] = Append(delivered[k], x)
        BY <1>0, <1>2, <2>3 DEF TypeOK, PagesTypeOK, ReadTypeOK
      <3>2. \A y \in Range(delivered[k]) : y < x
        <4>1. delivered[k] \o pages[k] = retained_pages[k]
          BY <1>0, <1>2, <2>3 DEF JobInv, Conserved
        <4>2. \A i, m \in DOMAIN retained_pages[k] :
                i < m => retained_pages[k][i] < retained_pages[k][m]
          BY <1>0 DEF JobInv, OrderInv
        <4>3. QED BY <1>2, <2>3, <3>1, <4>1, <4>2, HeadIsLater
      <3>3. Range(delivered'[k]) = Range(delivered[k]) \cup {x}
            /\ Range(delivered[k]) \subseteq Pages
        BY <3>1, RangeAppend
      <3>4. x \notin Range(delivered[k])
        BY <3>1, <3>2 DEF Pages
      <3>5. PagesWith(r, k)' = PagesWith(r, k) \cup {x}
        BY <1>0, <2>1, <2>3 DEF PagesWith, NoPage
      <3>6. \A q \in Readers \ {r} : PagesWith(q, k)' = PagesWith(q, k)
        BY <1>0 DEF PagesWith
      <3>7. \A q \in Readers : PagesWith(q, k) \subseteq Range(delivered[k])
        BY DEF WireInv
      <3>8. lost[k] \subseteq Range(delivered[k])
        BY DEF WireInv
      <3>9. UNION {PagesWith(q, k)' : q \in Readers}
              = (UNION {PagesWith(q, k) : q \in Readers}) \cup {x}
        BY <3>5, <3>6
      <3>10. \A i \in 1 .. Len(received[r][k]) : received[r][k][i] < x
        <4>1. received[r][k] \in Seq(Pages)
          BY DEF ServerTypeOK
        <4>2. \A i \in 1 .. Len(received[r][k]) : received[r][k][i] \in PagesWith(r, k)
          BY <4>1, LenProperties DEF PagesWith, Range
        <4>3. QED BY <3>2, <3>7, <4>2
      <3>11. /\ Range(delivered'[k]) = lost'[k] \cup UNION {PagesWith(q, k)' : q \in Readers}
             /\ \A q \in Readers :
                  /\ PagesWith(q, k)' \cap lost'[k] = {}
                  /\ \A s \in Readers \ {q} : PagesWith(q, k)' \cap PagesWith(s, k)' = {}
        <4>1. Range(delivered'[k]) = lost'[k] \cup UNION {PagesWith(q, k)' : q \in Readers}
          BY <1>0, <3>3, <3>9 DEF WireInv
        <4>2. ASSUME NEW q \in Readers PROVE PagesWith(q, k)' \cap lost'[k] = {}
          BY <1>0, <3>4, <3>5, <3>6, <3>8 DEF WireInv
        <4>3. ASSUME NEW q \in Readers, NEW s \in Readers \ {q}
              PROVE  PagesWith(q, k)' \cap PagesWith(s, k)' = {}
          <5>1. PagesWith(q, k) \cap PagesWith(s, k) = {} BY DEF WireInv
          <5>2. x \notin PagesWith(q, k) /\ x \notin PagesWith(s, k) BY <3>4, <3>7
          <5>3. QED BY <3>5, <3>6, <5>1, <5>2
        <4>4. QED BY <4>1, <4>2, <4>3
      <3>12. \A q \in Readers :
               /\ \A i \in 1 .. Len(received'[q][k]) - 1 :
                     received'[q][k][i] < received'[q][k][i + 1]
               /\ sending'[q].job = k =>
                     \A i \in 1 .. Len(received'[q][k]) :
                        received'[q][k][i] < sending'[q].page
        BY <1>0, <2>1, <3>10 DEF WireInv
      <3>13. QED BY <3>11, <3>12 DEF WireInv
    <2>4. QED BY <2>2, <2>3
  <1>3. QED BY <1>0, <1>1, <1>2, RespondEffect

(* A page that is written, or whose connection breaks, goes from the wire to  *)
(* its client or is lost; it is nowhere twice.                                *)
LEMMA WrittenWireInv ==
  ASSUME ServerTypeOK, AnswerInv, NEW k \in Jobs, WireInv(k),
         NEW r \in Readers, AnswerWritten(r)
  PROVE  WireInv(k)'
  <1> DEFINE j == sending[r].job
             x == sending[r].page
             got == received[r][k]
  <1>0. /\ j \in Jobs /\ x \in Pages /\ NoPage.job # k
        /\ sending'[r] = NoPage /\ delivered' = delivered
        /\ \A q \in Readers \ {r} : sending'[q] = sending[q]
        /\ got \in Seq(Pages)
    <2>1. sending[r] # NoPage /\ sending' = [sending EXCEPT ![r] = NoPage]
          /\ delivered' = delivered
      BY DEF AnswerWritten, vars, readVars
    <2>2. j \in Jobs /\ x \in Pages
      BY <2>1 DEF AnswerInv
    <2>3. NoPage.job # k
      BY DEF NoPage, NoJob, Jobs
    <2>4. got \in Seq(Pages)
      BY DEF ServerTypeOK
    <2>5. QED BY <2>1, <2>2, <2>3, <2>4 DEF ServerTypeOK
  <1>1. ASSUME NEW q \in Readers \ {r}, received'[q] = received[q]
        PROVE  PagesWith(q, k)' = PagesWith(q, k)
    BY <1>0, <1>1 DEF PagesWith
  <1>2. CASE received' = [received EXCEPT ![r][j] = Append(@, x)] /\ lost' = lost
    <2>1. \A q \in Readers \ {r} : received'[q] = received[q]
      BY <1>2 DEF ServerTypeOK
    <2>2. CASE k # j
      <3>1. received'[r][k] = received[r][k]
        BY <1>2, <2>2 DEF ServerTypeOK
      <3>2. sending'[r].job # k /\ sending[r].job # k
        BY <1>0, <2>2
      <3>3. QED BY <1>0, <1>2, <2>1, <3>1, <3>2, SameWire
    <2>3. CASE k = j
      <3>1. received'[r][k] = Append(got, x)
        BY <1>0, <1>2, <2>3 DEF ServerTypeOK
      <3>2. /\ Range(Append(got, x)) = Range(got) \cup {x}
            /\ Len(got) \in Nat /\ Len(Append(got, x)) = Len(got) + 1
            /\ \A i \in 1 .. Len(got) : Append(got, x)[i] = got[i]
            /\ Append(got, x)[Len(got) + 1] = x
        BY <1>0, RangeAppend
      <3>3. PagesWith(r, k)' = PagesWith(r, k)
        BY <1>0, <2>3, <3>1, <3>2 DEF PagesWith
      <3>4. \A q \in Readers : PagesWith(q, k)' = PagesWith(q, k)
        BY <1>1, <2>1, <3>3
      <3>5. UNION {PagesWith(q, k)' : q \in Readers} = UNION {PagesWith(q, k) : q \in Readers}
        BY <3>4
      <3>6. \A i \in 1 .. Len(Append(got, x)) - 1 : Append(got, x)[i] < Append(got, x)[i + 1]
        <4>1. \A i \in 1 .. Len(got) - 1 : got[i] < got[i + 1]
          BY DEF WireInv
        <4>2. \A i \in 1 .. Len(got) : got[i] < x
          BY <2>3 DEF WireInv
        <4>3. ASSUME NEW i \in 1 .. Len(got) PROVE Append(got, x)[i] < Append(got, x)[i + 1]
          <5>1. CASE i = Len(got) BY <3>2, <4>2, <5>1
          <5>2. CASE i # Len(got)
            <6>1. i \in 1 .. Len(got) - 1 /\ i + 1 \in 1 .. Len(got) BY <3>2, <5>2
            <6>2. QED BY <3>2, <4>1, <6>1
          <5>3. QED BY <5>1, <5>2
        <4> HIDE DEF got, x
        <4>4. QED BY <3>2, <4>3
      <3>7. ASSUME NEW q \in Readers
            PROVE  /\ \A i \in 1 .. Len(received'[q][k]) - 1 :
                         received'[q][k][i] < received'[q][k][i + 1]
                   /\ sending'[q].job = k =>
                         \A i \in 1 .. Len(received'[q][k]) :
                            received'[q][k][i] < sending'[q].page
        <4>1. CASE q = r BY <1>0, <3>1, <3>6, <4>1
        <4>2. CASE q # r BY <1>0, <2>1, <4>2 DEF WireInv
        <4>3. QED BY <4>1, <4>2
      <3>8. QED BY <1>0, <1>2, <3>4, <3>5, <3>7 DEF WireInv
    <2>4. QED BY <2>2, <2>3
  <1>3. CASE lost' = [lost EXCEPT ![j] = @ \cup {x}] /\ received' = received
    <2>1. CASE k # j
      <3>1. lost'[k] = lost[k] /\ sending'[r].job # k /\ sending[r].job # k
        BY <1>0, <1>3, <2>1 DEF ServerTypeOK
      <3>2. QED BY <1>0, <1>3, <3>1, SameWire
    <2>2. CASE k = j
      <3>1. lost'[k] = lost[k] \cup {x}
        BY <1>0, <1>3, <2>2 DEF ServerTypeOK
      <3>2. PagesWith(r, k) = Range(got) \cup {x}
        BY <2>2 DEF PagesWith
      <3>3. PagesWith(r, k)' = Range(got)
        BY <1>0, <1>3, <2>2 DEF PagesWith
      <3>4. x \notin Range(got)
        <4>1. \A i \in 1 .. Len(got) : got[i] < x /\ got[i] \in Pages
          BY <1>0, <2>2, ElementOfSeq DEF WireInv
        <4>2. DOMAIN got = 1 .. Len(got) BY <1>0, LenProperties
        <4>3. ASSUME NEW i \in DOMAIN got PROVE got[i] # x
          BY <1>0, <4>1, <4>2 DEF Pages
        <4>4. QED BY <4>3 DEF Range
      <3>5. \A q \in Readers \ {r} : PagesWith(q, k)' = PagesWith(q, k)
        BY <1>1, <1>3
      <3>6. lost'[k] \cup UNION {PagesWith(q, k)' : q \in Readers}
              = lost[k] \cup UNION {PagesWith(q, k) : q \in Readers}
        <4>1. ASSUME NEW y, y \in UNION {PagesWith(q, k)' : q \in Readers}
              PROVE  y \in UNION {PagesWith(q, k) : q \in Readers}
          BY <3>2, <3>3, <3>5, <4>1
        <4>2. ASSUME NEW y, y \in UNION {PagesWith(q, k) : q \in Readers}
              PROVE  y = x \/ y \in UNION {PagesWith(q, k)' : q \in Readers}
          BY <3>2, <3>3, <3>5, <4>2
        <4>3. x \in UNION {PagesWith(q, k) : q \in Readers}
          BY <3>2
        <4>4. QED BY <3>1, <4>1, <4>2, <4>3
      <3>7. ASSUME NEW q \in Readers
            PROVE  /\ PagesWith(q, k)' \cap lost'[k] = {}
                   /\ \A s \in Readers \ {q} : PagesWith(q, k)' \cap PagesWith(s, k)' = {}
        <4>1. \A s \in Readers : PagesWith(s, k)' \subseteq PagesWith(s, k)
          BY <3>2, <3>3, <3>5
        <4>2. \A s \in Readers \ {q} : PagesWith(q, k) \cap PagesWith(s, k) = {}
          BY DEF WireInv
        <4>3. x \notin PagesWith(q, k)'
          <5>1. CASE q = r BY <3>3, <3>4, <5>1
          <5>2. CASE q # r
            <6>1. PagesWith(q, k) \cap PagesWith(r, k) = {} BY <5>2 DEF WireInv
            <6>2. QED BY <3>2, <3>5, <5>2, <6>1
          <5>3. QED BY <5>1, <5>2
        <4>4. PagesWith(q, k) \cap lost[k] = {} BY DEF WireInv
        <4>5. QED BY <3>1, <4>1, <4>2, <4>3, <4>4
      <3>8. ASSUME NEW q \in Readers
            PROVE  /\ \A i \in 1 .. Len(received'[q][k]) - 1 :
                         received'[q][k][i] < received'[q][k][i + 1]
                   /\ sending'[q].job = k =>
                         \A i \in 1 .. Len(received'[q][k]) :
                            received'[q][k][i] < sending'[q].page
        <4>1. CASE q = r BY <1>0, <1>3, <4>1 DEF WireInv
        <4>2. CASE q # r BY <1>0, <1>3, <4>2 DEF WireInv
        <4>3. QED BY <4>1, <4>2
      <3>9. QED BY <1>0, <3>6, <3>7, <3>8 DEF WireInv
    <2>3. QED BY <2>1, <2>2
  <1>4. QED BY <1>2, <1>3 DEF AnswerWritten

(* Whatever the server does, the pages on the wire are accounted for.         *)
LEMMA NextWireInv ==
  ASSUME ManagerInv, ServerTypeOK, AnswerInv, NEW k \in Jobs, WireInv(k),
         [ServerNext]_serverVars
  PROVE  WireInv(k)'
  <1>0. TypeOK BY DEF ManagerInv, TypeInv
  <1>1. ASSUME NEW r \in Readers, Respond(r) PROVE WireInv(k)'
    BY <1>1, RespondWireInv
  <1>2. ASSUME NEW r \in Readers, AnswerWritten(r) PROVE WireInv(k)'
    BY <1>2, WrittenWireInv
  <1>3. ASSUME NEW r \in Readers, Request(r) PROVE WireInv(k)'
    BY <1>3, SameWire DEF Request, NextDocumentLookup, ReadStep, answerVars
  <1>4. CASE UNCHANGED <<sending, received, lost, delivered, rpc>>
    BY <1>4, SameWire
  <1>5. QED BY <1>0, <1>1, <1>2, <1>3, <1>4, WireSteps

----------------------------------------------------------------------------
\* The types of the requests.

PollTypeOK ==
    /\ ppc \in [Pollers -> {"idle", "list", "job", "test", "peek", "probe"}]
    /\ pjob \in [Pollers -> Jobs \cup {NoJob}]
    /\ todo \in [Pollers -> SUBSET Jobs]
    /\ shown \in [Pollers -> SUBSET Jobs]
    /\ \A p \in Pollers :
          /\ pjob[p] # NoJob <=> ppc[p] \in {"test", "peek"}
          /\ todo[p] \cup shown[p] # {} => ppc[p] = "job"

AnswerTypeOK ==
    /\ sending \in [Readers -> [job : Jobs \cup {NoJob}, page : 0 .. MaxPages]]
    /\ received \in [Readers -> [Jobs -> Seq(Pages)]]
    /\ lost \in [Jobs -> SUBSET Pages]

(* A request's locals live only while it does.                                *)
LEMMA PollTypes ==
  ASSUME TypeOK, PollTypeOK, NEW p \in Pollers, Poll(p)
  PROVE  PollTypeOK'
  <1> USE DEF PollTypeOK, PollGoto
  <1>0. jobs \subseteq Jobs /\ NoJob \notin Jobs
    BY DEF TypeOK, ManagerTypeOK, NoJob, Jobs
  <1>1. CASE StatusState(p) BY <1>1 DEF StatusState
  <1>2. CASE StatusList(p) BY <1>0, <1>2 DEF StatusList
  <1>3. CASE StatusJob(p)
    <2>1. PICK j \in OldestFirst(todo[p], 1) :
            /\ todo'  = [todo EXCEPT ![p] = @ \ {j}]
            /\ shown' = [shown EXCEPT ![p] =
                            IF ~deleted[j] /\ ~terminal(j) THEN @ \cup {j} ELSE @]
      BY <1>3 DEF StatusJob
    <2>2. j \in Jobs BY DEF OldestFirst
    <2>3. QED BY <1>3, <2>1, <2>2 DEF StatusJob
  <1>4. CASE StatusSend(p) BY <1>4 DEF StatusSend
  <1>5. CASE InfoLookup(p) BY <1>0, <1>5 DEF InfoLookup
  <1>6. CASE InfoTest(p) BY <1>0, <1>6 DEF InfoTest, InfoReturn
  <1>7. CASE InfoPeek(p) BY <1>0, <1>7 DEF InfoPeek, InfoReturn
  <1>8. CASE HealthRead(p) BY <1>8 DEF HealthRead
  <1>9. CASE HealthProbe(p) BY <1>9 DEF HealthProbe
  <1>10. QED
    BY <1>1, <1>2, <1>3, <1>4, <1>5, <1>6, <1>7, <1>8, <1>9 DEF Poll

(* The answers are well typed.                                                *)
LEMMA AnswerTypes ==
  ASSUME ManagerInv, ServerTypeOK, AnswerInv, [ServerNext]_serverVars
  PROVE  AnswerTypeOK'
  <1>0. /\ TypeOK /\ RequestInv /\ AnswerTypeOK
        /\ NoPage \in [job : Jobs \cup {NoJob}, page : 0 .. MaxPages]
    BY ConstantsAssumption
    DEF ManagerInv, TypeInv, PagesInv, ServerTypeOK, AnswerTypeOK, NoPage
  <1>1. ASSUME NEW r \in Readers, Respond(r) PROVE AnswerTypeOK'
    <2>1. UNCHANGED <<received, lost>>
      BY <1>1 DEF Respond
    <2>2. CASE sending' = sending
      BY <1>0, <2>1, <2>2 DEF AnswerTypeOK
    <2>3. CASE sending' # sending
      <3>1. PICK j \in Jobs :
              /\ pages[j] # <<>>
              /\ sending' = [sending EXCEPT ![r] = [job |-> j, page |-> Head(pages[j])]]
        BY <1>0, <1>1, <2>3, RespondEffect
      <3>2. Head(pages[j]) \in 0 .. MaxPages
        <4>1. Head(pages[j]) \in Pages
          BY <1>0, <3>1 DEF TypeOK, PagesTypeOK
        <4>2. QED BY <4>1, ConstantsAssumption DEF Pages
      <3>3. QED BY <1>0, <2>1, <3>1, <3>2 DEF AnswerTypeOK
    <2>4. QED BY <2>2, <2>3
  <1>2. ASSUME NEW r \in Readers, AnswerWritten(r) PROVE AnswerTypeOK'
    <2>1. sending[r].job \in Jobs /\ sending[r].page \in Pages
      BY <1>2 DEF AnswerWritten, AnswerInv
    <2>2. received[r][sending[r].job] \in Seq(Pages)
      BY <1>0, <2>1 DEF AnswerTypeOK
    <2>3. Append(received[r][sending[r].job], sending[r].page) \in Seq(Pages)
      BY <2>1, <2>2
    <2>4. sending' \in [Readers -> [job : Jobs \cup {NoJob}, page : 0 .. MaxPages]]
      BY <1>0, <1>2 DEF AnswerWritten, AnswerTypeOK
    <2>5. CASE received' = [received EXCEPT ![r][sending[r].job] =
                               Append(@, sending[r].page)]
               /\ lost' = lost
      BY <1>0, <2>1, <2>3, <2>4, <2>5 DEF AnswerTypeOK
    <2>6. CASE lost' = [lost EXCEPT ![sending[r].job] = @ \cup {sending[r].page}]
               /\ received' = received
      BY <1>0, <2>1, <2>4, <2>6 DEF AnswerTypeOK
    <2>7. QED BY <1>2, <2>5, <2>6 DEF AnswerWritten
  <1>3. CASE UNCHANGED <<sending, received, lost>>
    BY <1>0, <1>3 DEF AnswerTypeOK
  <1>4. QED BY <1>0, <1>1, <1>2, <1>3, WireSteps DEF Request, answerVars

(* Every step of the server keeps what is known of it.                        *)
LEMMA NextServerInv ==
  ManagerInv /\ ServerInv /\ [ServerNext]_serverVars => ServerInv'
  <1> SUFFICES ASSUME ManagerInv, ServerInv, [ServerNext]_serverVars PROVE ServerInv'
    OBVIOUS
  <1>0. TypeOK /\ ServerTypeOK /\ LatestInv /\ AnswerInv /\ RowsInv
    BY DEF ManagerInv, TypeInv, ServerInv
  <1>1. PollTypeOK'
    <2>1. PollTypeOK BY <1>0 DEF ServerTypeOK, PollTypeOK
    <2>2. CASE UNCHANGED pollerVars
      BY <2>1, <2>2 DEF pollerVars, PollTypeOK
    <2>3. QED BY <1>0, <2>1, <2>2, PollTypes DEF ServerNext, serverVars
  <1>2. AnswerTypeOK'
    BY <1>0, AnswerTypes
  <1>3. ServerTypeOK'
    BY <1>1, <1>2 DEF PollTypeOK, AnswerTypeOK, ServerTypeOK
  <1>4. LatestInv'
    BY <1>0, ServerStepIsManagerStep, NextLatestInv DEF ManagerInv
  <1>5. AnswerInv' /\ RowsInv'
    BY <1>0, NextAnswerInv, NextRowsInv
  <1>6. ASSUME NEW k \in Jobs PROVE WireInv(k)'
    BY <1>0, NextWireInv DEF ServerInv
  <1>7. QED BY <1>3, <1>4, <1>5, <1>6 DEF ServerInv

(* No request and no answer at the start.                                     *)
LEMMA InitServerInv == ServerInit => ServerInv
  <1> SUFFICES ASSUME ServerInit PROVE ServerInv
    OBVIOUS
  <1>0. NoPage \in [job : Jobs \cup {NoJob}, page : 0 .. MaxPages] /\ NoJob \notin Jobs
    BY ConstantsAssumption DEF NoPage, NoJob, Jobs
  <1>1. ServerTypeOK
    BY <1>0 DEF ServerInit, ServerTypeOK
  <1>2. LatestInv /\ AnswerInv /\ RowsInv
    BY DEF ServerInit, Init, LatestInv, AnswerInv, RowsInv
  <1>3. ASSUME NEW j \in Jobs PROVE WireInv(j)
    <2>1. \A r \in Readers : PagesWith(r, j) = {}
      BY <1>0 DEF ServerInit, PagesWith, Range, NoPage
    <2>2. UNION {PagesWith(r, j) : r \in Readers} = {}
      BY <2>1
    <2>3. delivered[j] = <<>> /\ lost[j] = {} /\ Range(delivered[j]) = {}
      BY DEF ServerInit, Init, Range
    <2>4. \A r \in Readers : received[r][j] = <<>> /\ sending[r] = NoPage
      BY DEF ServerInit
    <2>5. QED BY <1>0, <2>1, <2>2, <2>3, <2>4 DEF WireInv, NoPage
  <1>4. QED BY <1>1, <1>2, <1>3 DEF ServerInv

(* The server's invariant, in every reachable state.                          *)
THEOREM ServerInvariant == ServerSpec => [](ManagerInv /\ ServerInv)
  <1>1. ServerSpec => []ManagerInv
    BY ServerManages, PagesInvariant, PTL DEF ManagerInv
  <1>2. QED BY <1>1, InitServerInv, NextServerInv, PTL DEF ServerSpec

(* The requests are well typed: a request's locals live only while it does.   *)
THEOREM ServerTyping == ServerSpec => []ServerTypeOK
  <1>1. ServerInv => ServerTypeOK BY DEF ServerInv
  <1>2. QED BY <1>1, ServerInvariant, PTL

(* One ScannerStatus answer shows one job in progress at most, however many   *)
(* jobs come and go while it is put together.                                 *)
THEOREM StatusIsConsistent == ServerSpec => []StatusShowsOneJob
  <1>1. ServerInv => StatusShowsOneJob
    <2> SUFFICES ASSUME ServerInv, NEW p \in Pollers PROVE Cardinality(shown[p]) <= 1
      BY DEF StatusShowsOneJob
    <2>1. CASE shown[p] = {}
      BY <2>1, FS_EmptySet
    <2>2. ASSUME NEW j \in shown[p] PROVE Cardinality(shown[p]) <= 1
      <3>1. shown[p] = {j}
        BY <2>2 DEF ServerInv, RowsInv
      <3>2. Cardinality({j}) = 1
        BY FS_Singleton
      <3>3. QED BY <3>1, <3>2
    <2>3. QED BY <2>1, <2>2
  <1>2. QED BY <1>1, ServerInvariant, PTL

(* No page reaches two clients, each gets its pages in order, and the end of  *)
(* a job that was not deleted leaves no page behind but those of broken       *)
(* connections.                                                               *)
THEOREM OneClientPerPage == ServerSpec => []PagesReachOneClient
  <1>1. ManagerInv /\ ServerInv => PagesReachOneClient
    <2> SUFFICES ASSUME ManagerInv, ServerInv, NEW j \in Jobs
                 PROVE
                   /\ \A r \in Readers :
                        /\ \A i \in 1 .. Len(received[r][j]) - 1 :
                              received[r][j][i] < received[r][j][i + 1]
                        /\ PagesWith(r, j) \cap lost[j] = {}
                        /\ \A s \in Readers \ {r} :
                              PagesWith(r, j) \cap PagesWith(s, j) = {}
                   /\ ended[j] /\ ~deleted[j] =>
                        Range(retained_pages[j]) =
                            lost[j] \cup UNION {PagesWith(r, j) : r \in Readers}
      BY DEF PagesReachOneClient
    <2>1. WireInv(j) BY DEF ServerInv
    <2>2. ASSUME ended[j], ~deleted[j]
          PROVE  delivered[j] = retained_pages[j]
      BY <2>2, EndIsAll DEF ManagerInv, EndMeansAll
    <2>3. QED BY <2>1, <2>2 DEF WireInv
  <1>2. QED BY <1>1, ServerInvariant, PTL
=============================================================================
