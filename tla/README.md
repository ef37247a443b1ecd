# Verification of the Canon cgiscsi tools and the AirScan adapter

The repository drives one Canon document scanner whose only interface is a CGI that
carries SCSI commands over HTTP. Two programs stand on it: a command-line scan tool
(`harness/scan_to_pdf.py`) and an eSCL/AirScan server (`airscan_adapter/`) that
turns POST, GET and DELETE of scan clients into jobs, and each job into commands for
the scanner. The modules beside this file model both from the source, TLC
model-checks them on small instances, and TLAPS proves their safety properties and
their refinements for every instance. `PROJECT.json` lists
components, runs, mutants, hazards and theorems, and maps every definition to the
lines it models. Paths below are relative to `src/`.

Contents: 1 inventory, 2 modules, 3 runs and bounds, 4 fairness, 5 proofs,
6 findings, 7 what is not modelled, 8 plan.

## 1. Inventory

### Job manager (`airscan_adapter/jobs.py`)

- State: the manager's `_jobs` (insertion order), `_active_job_id`, under `_lock`;
  per job `state`, `pages` (a deque the client drains), `retained_pages` (what OCR
  reads), `dropped_blank_pages`, `deleted`, all under the job's `condition`;
  a `cancel_event` and a worker thread per job.
- Operations: `create_job` (POST), `delete_job` (DELETE), `next_document`
  (GET NextDocument), eviction, `_run_job` (the thread), `status_jobs`,
  `scanner_state`, `active_job_id`.
- Interactions: the thread iterates over the backend's generator; DELETE calls
  `cancel_current` on the backend from another thread; the OCR writer is called after
  a completed job.
- Hard: a DELETE is nine steps with a wait of two seconds in the middle, each
  under another lock or none; the worker tests the cancel event without the condition;
  bytes are released from two places.
- Correct means: one job at a time, no backend contention, terminal outcomes stand,
  a canceled job never completes, pages in order and once, the end never announced
  early, OCR sees every byte, bytes released for good but those of one late page,
  retention bounded, every started job ends.

### HTTP server (`airscan_adapter/server.py`)

- State: none of its own; one thread per request.
- Operations: POST with its refusals, NextDocument's answer, ScannerStatus, ScanImageInfo
  and `/healthz`, which read the manager's state in several separate steps; `main`, which
  mixes command line, file, environment and defaults, refuses, binds, advertises and ends.
- Hard: an answer assembled from several moments; a page popped before its answer is
  written, to a client that may have gone; four override functions that rebuild frozen
  sections field by field; a service advertised from the configuration and served from
  the socket.
- Correct means: a status answer shows at most one job in progress; a page goes to one
  client at most; a request ends with an answer; a POST that is accepted is scanned on the
  sides, labelled with the size and rid of blank backs as it says (the area is not what it
  says: finding 6), and one that is refused takes no slot; nothing moves paper, and nobody
  outside the machine is served, without consent; what is advertised is served.

### Live backend (`airscan_adapter/canon_backend.py`)

- State: `_lock` (held by a running generator) and `_current_client`.
- Operations: `scan_pages` (a generator: capture a sheet, yield its sides),
  `cancel_current`, `safe_health`, and the constructor, which refuses without consent.
- Hard: the last two use the same scanner as `scan_pages` without its lock, so their
  commands fall between any two commands of a capture; `/healthz` asks for the active
  job and probes after the lock is given back; the window comes from the configuration,
  the page's labels from the request.
- Correct means: no page after the cancel event, never more pages than the sheets
  can hold, the generator ends, its lock is given back; a server killed in the middle of
  a scan leaves nothing the next capture does not make good.

### Scan capture (`harness/scan_to_pdf.py`)

- State: the locals of `execute_scan_capture` (`sent_reserve`, `sent_feed`, the stream,
  the chunk count), the list of pages of the batch and automatic loops, and the
  scanner: reserved or not, a sheet fed or not, image data not yet read.
- Operations: the plan of setup commands, the READ loop, the finally clause (write
  files, then `best_effort_cleanup`), the loops over sheets, and a setup-only path
  with a cleanup of its own.
- Hard: each of some dozen commands may be refused, lost, or carried out with its reply
  lost or cut short; the disk may fill; cleanup has to be attempted all the same.
- Correct means: every reservation and feed is followed by an attempt to undo it, which
  holds of those that could be known of and when the cleanup is reached (finding 7 is the
  rest); no more than `max_bytes` is kept; sheets in order, a batch
  whole or not at all; the tool ends.

### OCR inbox writer (`airscan_adapter/ocr.py`, `jobs._run_ocr_side_effect`)

- State: files. The directory of a job's pages, the image PDF and the searchable PDF in
  the inbox; the job's `ocr_result`.
- Operations: `write_job_pdf`, in the worker's thread after the slot has been given back,
  so several jobs may be at it at once.
- Hard: each file operation may fail, OCR may leave half a file, and the process may die
  anywhere: its threads are daemons.
- Correct means: a scan that is in the inbox stays there, a result names whole files
  only, no intermediates are left behind a result that names an output.

### The edges

Sequential but for discovery, and wrong in ways a few examples do not show:

- `airscan_adapter/escl_models.py`: what `scan_settings_from_xml` accepts against what
  the capabilities advertise. Hard: the first element of a name that has a text counts,
  at whatever depth, and sizes, offsets and defaults are added up.
- `airscan_adapter/config.py` and `mdns.py`: the layers of the configuration and the
  registration of the service; part of `main` above.
- `harness/commands.py` and `harness/cgiscsi.py`: a length is written into fields of one to
  four bytes, again as `dl`, and again in a payload's header; the answer is split into
  data and an 18-byte trailer. `mock_cgiscsi.py` says how long answers are.
- `extract_jpegs` of `harness/scan_to_pdf.py`: run on a stream that is still growing.
- `harness/discover.py`: a pool of threads whose probes end in any order.

`mock_canon_backend.py`, `server_skeleton.py`, the Swift OCR helper and the packaging have
no logic worth a model of their own; section 7 says why.

## 2. Modules

| Module | Models | Rests on |
|---|---|---|
| `SingleJobScanner` | abstract: what clients are promised | |
| `AirscanJobs` | `jobs.py`: POST, worker, DELETE, NextDocument | refines `SingleJobScanner`, drives a `PageSource` |
| `AirscanServer` | NextDocument's answer, ScannerStatus, ScanImageInfo, `/healthz` | extends `AirscanJobs` |
| `PageSource` | abstract: what a backend promises its worker | refined by both sides of that promise |
| `CanonCapture` | one sheet: `execute_scan_capture`, the scanner, the network | |
| `CanonBackend` | `scan_pages`, `cancel_current`, `safe_health` | extends `CanonCapture`, refines `PageSource` |
| `ScanLoops` | the command-line tool: sheet, batch, automatic, setup | extends `CanonCapture` |
| `OcrInbox` | `write_job_pdf` and the side effect around it | |
| `Startup` | `main`: configuration, overrides, gates, socket, mDNS, end | |
| `ScanRequest` | `do_POST`, `scan_settings_from_xml`, and what `scan_pages` asks of the scanner for it | |
| `Commands` | a command's lengths from argument to answer | |
| `JpegFrames` | `extract_jpegs` on a growing stream | |
| `Discovery` | `discover_candidates` | |
| `AirscanJobsProofs` | theorems about `AirscanJobs`: types, slot, backend, outcomes | |
| `AirscanJobsPagesProofs` | the same: pages, bytes, retention, refinement | `AirscanJobsProofs` |
| `AirscanServerProofs` | theorems about `AirscanServer` | `AirscanJobsPagesProofs` |
| `CanonCaptureProofs` | lemmas about every step of a capture | |
| `CanonBackendProofs`, `ScanLoopsProofs` | theorems about the two users of it | `CanonCaptureProofs` |
| `OcrInboxProofs` | theorems about `OcrInbox` | |
| `EdgesProofs` | theorems about `Startup`, `Commands`, `ScanRequest`, `Discovery`, `JpegFrames` | |
| `MCEdges` | the six modules after `ScanLoops`, one at a time | extends them |
| `MCAirscanServer` | `AirscanServer` in six scenarios | extends it |
| `MCCanonBackend`, `MCScanLoops` | the instances of the other runs | |

An operator commented "Variant" is a plausible mistake in the definition after it
(a dropped guard, a wrong order). No specification uses one; each is there to show
which property the mistake would break, and `PROJECT.json` pairs them.

### AirscanJobs

Grain: a section of code under `_lock` or under one job's condition is one action,
because nothing else can see its inside; between two such sections every other
thread may run.

- A job is named by the order of its creation: the code's uuid only has to be fresh.
  "Oldest" in the eviction is then "smallest". A page is its page number.
- `wpc[j]` is where the worker of `j` is: `begin` (the write of PROCESSING),
  `open`/`fetch`/`render` (inside the generator), `check` (the cancel test),
  `append`, `finish`/`fail` (the outcome), `clear` (`_clear_active_if`), `post`,
  `ocr`, `release`, `dead`. `unstarted` is a thread whose `start()` raised: the code
  keeps such a job in the slot, and so does the model.
- The backend is seen through the steps of `PageSource`: `BackendOpen` takes the lock,
  `BackendTakePage` starts a page if the cancel event is not set, `BackendYield` hands
  it over, `BackendExhausted`, `BackendRaises` and `WorkerLeaveLoop` (which closes the
  generator) give the lock back. Two modules meet here, and `PageSource` is what they agree
  on: `CanonBackend` takes no other steps (`ImplementsPageSource`), and the manager, whichever
  jobs come and go, uses its backend as one such source (`DrivesPageSource`, by the record
  `iteration`: the phase, the pages pulled and the cancel event of the worker inside).
- `dpc[d]` is where the DELETE of thread `d` is: look the job up, read the slot
  (`is_active`), mark under the condition, `cancel_current` in two steps (read the
  current client, send the commands), `join`, the liveness test, the final marking,
  the release of the bytes. A timed-out join is a join that returns early.
- A kept page is in two places, in the deque and in `retained_pages`, and so are its bytes.
  `retained_bytes[j]` are the pages whose bytes are still in the second;
  `_release_image_bytes` empties that one only. `image_bytes(j)` is both places together: a
  page leaves the deque when it is popped or when a DELETE clears it. A worker that had
  already decided to keep a page when its job was deleted appends it to the cleared deque,
  and its bytes stay there until the job is evicted and forgotten.
- Evicted jobs stay reachable for the threads that hold them: the per-job functions
  keep their values, only `jobs` shrinks.
- `delivered` and `ended` are history: what clients have received, and that a 404 or
  500 has ended their polling.

The branch of `delete_job` that turns CANCELING into CANCELED (jobs.py:205-206) never
changes anything in a reachable state: a worker that has exited has already written a
terminal state (`PlaceInv` below). It is modelled as written.

### AirscanServer

Adds what the request threads do outside the manager. NextDocument is three steps here:
the lookup, the pop (the manager's own `NextDocument`), and the writing of the answer,
which the client gets or which breaks off. `sending` is the page under way; `received`
and `lost` are history. The code does nothing about a broken connection, so a lost page
is lost; eSCL has no acknowledgement, and the adapter could not know which half of the
answer arrived. ScannerStatus takes a snapshot of the list of jobs and then reads the
jobs one at a time, oldest first; ScanImageInfo tests the deque and then indexes it,
without the condition; `/healthz` looks at the active job and then probes the scanner.
`Fairness` is a definition of its own, so that the module's instance for TLC can use it
under its bounds.

### CanonCapture

One call of `execute_scan_capture`. A command is two steps, `Send` and a reply, so
that commands of other threads can fall in between. `Exchange` is what
`CgiscsiClient.execute` makes of a command's fate: carried out and answered; answered
with sense data but not carried out; lost (RuntimeError, not carried out); carried out
with the reply lost (RuntimeError); carried out with the reply cut short (ValueError
or HTTPException, which nothing here catches). Sense data of setup commands are not
looked at by the code, so a refusal looks like a success. The scanner
(`Carried`, external) is modelled from how the code uses it: RESERVE and RELEASE set
and clear `reserved`, a feed takes a sheet from the hopper, SCAN makes image data,
READ returns at most what was asked for and may come back short, CANCEL drops the
data, a discharge the sheet.

Image bytes are counted in units; `SideSizes` are the sizes the frame of a side may
have, chosen anew for each sheet. `Frames`, the number of complete frames in the
stream, is what `extract_jpegs` would find.

`owed` is history: what the scanner needs and nobody has yet attempted, `release`
from the moment a RESERVE is carried out until any RELEASE is attempted, `discharge`
likewise. `excused` says that a fault has happened that the code cannot make good:
a RESERVE or a feed carried out whose reply was lost (`sent_reserve` and
`sent_feed` are set only after the reply, scan_to_pdf.py:507), a cleanup reply cut
short (`best_effort_cleanup` survives only RuntimeError), or a file that could not be
written (the finally clause writes before it cleans up, scan_to_pdf.py:536).

Assumed: a command is carried out no later than its client gives up on it. A scanner
that carries out a RELEASE after the RESERVE of the next capture is outside the model.

### CanonBackend

The generator around the capture, with `Cancelers` and `Probers` as other threads on
the same scanner. `CancelCurrent` needs no cancel event: a stale DELETE (finding 1)
makes exactly that call. A health check is three steps: `ProbeRead` sees, under the
manager's lock, that no job is active, which here is that the generator is idle; the lock is
given back, and `ProbeSend` sends TEST UNIT READY whatever has begun since; `ProbeReply` is
its end. It changes nothing in the scanner and matters only for `SingleActiveCommand`. `Crash` is Ctrl-C or a kill: the worker is a daemon
thread and ends between any two commands without its finally clause, and the next process
starts afresh on a scanner as it was left, `owed` and all. A finished capture that returns
has paid for it too, because the cleanup's commands depend on its own flags only, and
its own RESERVE and feed set both.

### ScanLoops

`main` with `--execute-plan`. `mode` is how it is called: one sheet, `--sheets n`,
`--scan-all`, or without `--experimental-scan` (setup commands only). `collected` is
the list of pages of the loop, `pdf` the output file. The automatic mode leaves out an
arbitrary set of pages as blank (`is_blank_jpeg_page` is a matter of pixels).

### OcrInbox

Each job's thread walks through `write_job_pdf`; `at[j]` is its place. A file is `none`,
`partial` (created, contents on their way) or `whole`. Every step that touches the disk
has a failing twin, and `Crash` stops all threads at once with the files as they are.
The OCR program is external: it may write part of its output and then fail; when it
returns without an exception its output is taken to be whole (the code ignores its
exit code too). File names hold the second and eight digits of the job's uuid; that
two jobs never share a name is assumed. When `AirscanJobs` reaches `ocr`, this module is
what happens inside that step.

### Startup

From `invocation` (file, arguments, environment) to the end of the process. A setting can
come from four places, so its value is mostly the name of the place: `"cli"`, `"file"`,
`"env"`, `"default"`; values the code tells apart (loopback or not, port 0, a blank root,
the default admin URL, the switches) are values of the model. Settings the code treats
alike share a field. `stage` is where `main` is; each refusal and each call that can fail
has an action of its own; `Kill` is a kill or a Ctrl-C outside the try statement.

### ScanRequest

A document is the sequence of its elements, each a local name and a text, since
`_first_text` looks at every depth. `SettingsOf` is what the parser returns and `Supported`
that it raises nothing; the actions are the answers of `do_POST`. The slot here is only free
or taken; `AirscanJobs` has the real one. An encoding that Python does not have, or one of
several bytes, raises what `do_POST` does not catch (`Undecodable`: the connection closes
without an answer). `Capture` follows the job to the scanner: `CaptureOf` has the window,
which is that of the configured paper (`PAPER_SIZES_1200`), the number of frames awaited per
sheet, and the labels of the pages. `Number`, a constant, is what `int()` makes of a
text: the texts in its domain are those that are integers.

### Commands, JpegFrames, Discovery

`Commands` counts bytes: `CdbField` is the set of values a builder can write, empty where
it raises, cut to a byte where it masks. `JpegFrames` lists bytes, but only the four that
matter (`FF`, `D8`, `D9`, and `00` for anything else), and cuts the stream anywhere, also
between the two bytes of a marker. The loop of `extract_jpegs` is a loop here too: `NextFrame`
is an iteration that finds a frame, `ReturnFrames` one that breaks out.
`CanonCapture` counts frames with what is shown here: they are the sides that have arrived
whole. `Discovery` is the pool, the probes and the collection;
`dict.fromkeys` and `sorted` are written as arrangements of positions and not with a fold
or a library's sort, so that they can be reasoned about.

## 3. Runs

All passing runs fire every action and every disjunct of their next-state relations
between them. State counts are of distinct states.

| Run | States | Instance | Question |
|---|---|---|---|
| `server_safety` | 2.3 M | six scenarios, below; OCR, both blank-page settings, answers that break off, up to 3 jobs, 2 of them retained | every safety property of manager and server, the refinement, how the backend is driven |
| `jobs_liveness` | 170 K | 2 jobs of 1 page and 1 job of 2 pages, 1 retained, 1 DELETE | started jobs end, deleted bytes are released for good |
| `capture_cleanup` | 2.3 M | duplex, 2 sheets, chunk 3, limit 4, sides of 2 or 3 units, every fault, kills, 1 DELETE, 1 prober | what the scanner is owed and the next capture finds, what is kept, what the worker is promised |
| `scan_loops` | 86 K | 4 modes, 3 sheets asked, 2 loaded, every fault | order, wholeness, cleanup between sheets, the tool ends |
| `edges` | 245 K | `OcrInbox`: 2 jobs, OCR on and off, every failure, a crash; `Startup`: 6737 invocations; `ScanRequest`: all documents of 2 elements and regions of 3, each paper size; `Commands`: 13 lengths; `JpegFrames`: 2 images; `Discovery`: 2 threads | what is in the inbox; consent, endpoint and choices; what a POST gets; lengths, frames, what discovery returns |
| `jobs_stale_cancel`, `server_image_info`, `capture_overlap`, `setup_cleanup`, `auto_adf_empty`, `region_window`, `cleanup_release` | | smallest that shows it | one finding each, section 6 |

What the properties say:

- `OneJobAtATime`, `BackendNeverContended`: whoever owns the slot is the only job not
  terminal, and the backend's lock is free when a worker reaches it. `SlotFree` reads
  the job's state, not `_active_job_id` alone, which is why they are not the same.
- `TerminalIsFinal`, `CancelWins`, `CompletedIsWhole`: outcomes stand; after DELETE has
  set the event no job completes; a completed job kept or counted every page.
- `PagesConserved`, `EndMeansAll`: queue, retained list and what clients received agree.
- `OcrSeesAllBytes`, `ExitReleasesBytes`, `DeletedBytesReleased`: bytes go neither too early
  (OCR would write empty images) nor never: when a worker is dead, its job holds no bytes
  of a page that was handed out, and a deleted job holds those of one page at most, for good.
  That one page is the late append above; "at most one" is exact, and "none" would be false.
- `RetentionBounded`: the jobs kept are exactly the newest, as many as the bound allows,
  and the owner of the slot is among them.
- `PagesReachOneClient`: on the wire no page is sent twice, each client gets its pages in
  order, and at the announced end each retained page is with one client or was lost with
  its connection.
- `ImplementsScanner`: the whole manager is a `SingleJobScanner`, by the mapping
  `phase`, `retained_pages`, `delivered`, `deleted`.
- `DrivesPageSource`: the manager asks its backend for one iteration at a time, each from
  its first page and ended before the next begins, and for no page past the feeder's or
  after a cancel.
- `StatusShowsOneJob`: an answer assembled job by job never shows two in progress.
  It holds because the snapshot of the list is older than every row: all its jobs but
  the newest were terminal when it was taken and stay so, in whatever order they are read.
- `StreamWithinLimit`, `DebtSettled`, `BackendEnds`, `ImplementsPageSource`: a capture
  keeps no more than `max_bytes`, settles its debts but for three excuses
  (`ReleaseAlwaysAttempted`, finding 7, is what those leave behind), ends,
  and gives the worker what `PageSource` promises.
- `NextCaptureRecovers`: a capture that returns leaves nothing owed, an earlier one's
  debt and that of a killed process included.
- `PdfInOrder`, `BatchAllOrNothing`, `SheetsSettle`, `ToolEnds`: the tool's file has its
  pages in the order of the paper, a batch is whole or absent, no sheet leaves a debt
  to the next, and the tool ends.
- `ScanStaysSaved`, `ResultNamesWholeFiles`, `IntermediatesGone`: a whole PDF in the inbox
  is replaced by another whole one or not at all, also across a crash; what a job's
  `ocr_result` names exists and is whole; what was not to be kept is gone.
- `NothingWithoutConsent`, `ChoicesSurvive`, `AdvertisedIsServed`: the live backend needs
  `--live`, a host somebody named and both switches off safe; a socket that others
  reach needs `--allow-lan-bind`; no override loses what another source gave; while the
  service is advertised the server listens where it says.
- `AdvertisedIsAccepted`, `RequestHonoured`: who stays within the capabilities this server
  sends is not refused for the settings, and no region passes the advertised edge; a job is
  scanned on the sides, labelled and rid of blank backs as its request says, and only a 201
  takes the slot. Neither says that the window is the region's: that is `RegionIsWindow`,
  finding 6.
- `LengthsAgree`, `FramesAreSides`, `DiscoveryExact`: no length is cut silently (but for
  INQUIRY's byte), however the stream is cut the frames are the sides that have
  arrived whole, and a discovery that returns names each scanner once, in order.

The six components of `edges` share no state, so their product would only multiply states:
`MCEdges` lets one of them run while the others rest in a final state, chosen by `which`.

Everything the server does at once is too much to enumerate, so a behaviour of
`MCAirscanServer` belongs to one of six scenarios, which is a variable that never changes.
`Bounds` says how many jobs are made, pages pulled, and DELETEs, NextDocuments and other
requests under way at once; what exceeds a bound is left out, all else is as in
`AirscanServer`, and every property is checked in every scenario.

| Scenario | Jobs | Pages each | DELETEs at once | Clients | Status requests | What it is for |
|---|---|---|---|---|---|---|
| `slot` | 2 | 0 | 2 | 0 | 0 | two DELETEs, two workers and a second POST at the slot |
| `overlap` | 2 | 1 | 1 | 0 | 0 | a second job begun while a DELETE of the first is still at it |
| `eviction` | 3 | 0 | 1 | 0 | 0 | a third job, so that the older of two is forgotten and the newer kept |
| `status` | 2 | 0 | 1 | 0 | 1 | both jobs are remembered, so an answer has two rows |
| `bytes` | 1 | 2 | 2 | 0 | 1 | bytes released from two sides, pages left in the deque, ScanImageInfo |
| `delivery` | 1 | 3 | 1 | 2 | 0 | two clients draining a job that is deleted, blank pages |

Why the bounds are enough. Two jobs are the least for anything about succession (slot,
stale DELETE), and three for an eviction that has to choose, with two retained; no code
compares more than the newest job with one other. Two DELETEs are needed for a race on one
job; each holds only two flags and reads nothing of the other but the job. Three pages are
the least for which a reordering, a loss in the middle and an early end look different;
delivery does not cross jobs, so one job is enough there. The theorems of section 5 have no
scenarios and no bounds. The capture's limit of 4 is
no multiple of the chunk of 3, so the last READ is cut; with sides of 2 and 3 units and
one trailing unit a duplex image has 5 or 7 units, so a stream can end by frames, by
`max_chunks`, by `max_bytes`, by a short READ and by sense data, with zero, one or two
frames. Two sheets in the backend carry a debt from one to the next; the loops ask
for three sheets with two loaded, so that the feeder runs empty.

`edges`: the invocations are every mixture of what decides consent (the hosts and switches
of three sources), every mixture of what decides the endpoint, and every mixture of the
sections that overrides rebuild; the three groups meet in no expression of the code. The
parser reads names independently but for the four numbers of a region and the pairs
Sides/Duplex and the two blank-page names, so two elements (in both orders, repeated, one
without text) and three for a region cover its cases. The lengths are the edges of each
field (255, 8192, 65535, 16777215, each with its successor) and the sizes in use. The
bodies of an image contain every pair of bytes that could be taken for a marker; chunks
of one and three bytes cut each marker everywhere. Two threads and four candidates with
repetitions, a silent one and a malformed one are the least for order, repetition and a
raise with probes left. A POST's documents go through each paper size, and a region of every
width and height in the list.

`MaxJobs` bounds the POSTs that succeed; a run of more jobs only repeats the pattern
with a larger `made`. Symmetry (interchangeable request threads) is used in runs
without liveness properties only.

Deadlock is checked wherever the system is a server; `CHECK_DEADLOCK FALSE` is used
for `ScanLoops`, whose process ends, and `edges`, whose components all do.

## 4. Fairness

- `Fairness` of `AirscanServer` (`FairServerSpec`, and `FairMCSpec` under the scenarios' bounds,
  which never leave a worker or a DELETE without a step): weak fairness of each worker and of each DELETE under way. A
  started thread is scheduled; every backend call ends (sockets have a timeout;
  `BackendEnds` shows it of the generator); OCR runs a child process that ends; a
  request handler runs to its end. No client is obliged to send anything, and a
  worker that finds the backend locked would wait for ever: `BackendNeverContended` is
  why it never does.
- `FairBackendSpec`: weak fairness of the generator. `urlopen` has a timeout, so a
  command is answered or given up, and the worker comes back for the next page or closes
  the generator. DELETEs and probes are under no fairness.
- `FairLoopsSpec`: weak fairness of the tool, a sequential process.

## 5. Proofs

TLAPS proves the following for every value of the constants, from the constants'
assumptions in the modules. They are ranges of numbers (`ConstantsAssumption`,
`CaptureAssumption`, `BackendAssumption`, `LoopsAssumption`, `DiscoveryAssumption`), the shape
of inputs (`InvocationsAssumption`, `RequestsAssumption`, `LengthsAssumption`,
`FramesAssumption`: in image data and padding FF is followed by 00) and, for `int()`, that
"300" is 300 and that an empty text is no number (`NumberAssumption`). TLC evaluates each of them in the runs.

Every invariant and action property of the passing runs has a theorem, and so have the three
refinements; of liveness, the part below that needs no fairness.
The files are laid out alike: an inductive invariant in named parts, a lemma for each group
of steps that keeps it, the invariant as a theorem of its own, and the properties from it.

### The job manager

`AirscanJobsProofs`:

- `Typing`: `TypeOK`. Inductive together with `PulledInv`: a page in the worker's
  hand is one it pulled, so what it appends is a page number.
- `SlotInvariant`: `SlotInv`, the conjunction of `BirthInv` (a job has a worker exactly
  when it was made, and names are fresh), `PlaceInv` (a worker before its outcome has a
  job in progress, one after it a terminal job), `OneJobAtATime`, `ClientInv` (the
  backend is held exactly by the worker inside `scan_pages`), and `DeleterInv` (what a
  DELETE believes about its worker is true when it acts on it). `OneJobAtATime` alone
  is not inductive: `WorkerBegin` writes PROCESSING blindly, and only `PlaceInv` says
  that no worker begins on a terminal job; a DELETE writes CANCELED from a liveness
  test made earlier, and only `DeleterInv` makes that harmless.
- From it: `SingleJob` (`OneJobAtATime`), `BackendFree` (`BackendNeverContended`:
  two workers at the backend would be two jobs in progress, hence one slot with two
  owners) and `OutcomesStand` (`TerminalIsFinal`, an action property).

`AirscanJobsPagesProofs` adds to it `PagesInv`, for each job `JobInv`:

- `CancelInv`: a set cancel event and the outcome "completed" exclude each other, and only a
  completed job is handed to OCR. It gives `CancelStands` (`CancelWins`); that it stays true
  needs `SlotInv`, for a DELETE sets the event after a test of the state.
- `BytesInv`: the retained copies with bytes are exactly the retained pages until the
  worker is dead, and none after. Stated as an equality at every place it is inductive.
  `OcrFindsBytes` (`OcrSeesAllBytes`, not too early) is one half of it; `DeleterInv` is what
  keeps a DELETE out after a join that timed out.
- `LateInvariant`: what becomes of a deleted job's queue. `DeletedInv` says that from the
  DELETE on the job is settled (its event set, or its outcome written), that the queue holds at most the one
  page whose keeping was already decided (`LatePage`), and that what was handed out was kept;
  `MarkedInv` says that a DELETE which reaches its last marking has a job that is settled in
  that sense. With the other half of `BytesInv`, and since handed-out and queued pages are
  two parts of an ascending list (`PartsApart`), it gives `BytesReleased`
  (`ExitReleasesBytes`), which is about both places a page's bytes are in.
- `CountInv`, `OrderInv`: pages kept, dropped as blank and in the worker's hand add up to the
  pages pulled, and the kept ones ascend. They give `CompletedMeansWhole`.
- `Conserved`, `EndInv`: delivered and queued pages concatenate to the kept ones; a client
  was told the end of a job that is terminal and has nothing queued. They give
  `PagesAreConserved` and `EndIsComplete`.
- `RequestInv`: a reader between its lookup and its pop holds a job, and a DELETE releases
  bytes only when it found the worker gone.
- `RetentionIsBounded` needs cardinalities: the newest `n` of consecutive names.
- `Refinement`: `Spec => ImplementsScanner`. Each step of a thread maps to one step of
  `SingleJobScanner` or to a stutter, under the invariant; the abstract "at most one phase
  in progress" is `OneJobAtATime`, the abstract "take the next page" needs `Conserved`.
- `DrivesBackend`: `Spec => DrivesPageSource`. The mapping is a value of the one worker inside
  the backend, so that a step of one job must not be seen through another's: that is
  `SlotInv`; that a job enters with no page pulled is `FreshInv`. `AdmitsPageSource` is the
  converse of one step: whatever a page source may do when it is its turn, the manager's
  model of the generator does. With `SourceRefinement` below it says that no behaviour of
  the live backend is missing from the model the manager's theorems are about.

### The server

`AirscanServerProofs`. `ServerManages` (`ServerSpec => Spec`: the request threads take the
manager's steps or leave its variables alone) carries every theorem above over to the
server. On top:

- `RowsInv` and `LatestInv`: after the row of a job in progress a ScannerStatus has no row
  left to read, because the slot only ever belongs to the latest job and all others were
  terminal when the list was taken (`OutcomesStand`). They give `StatusIsConsistent`
  (`StatusShowsOneJob`).
- `WireInv`: the pages popped are partitioned into those with a client, on their way to one,
  and lost; those of a client ascend, the one on its way last. It gives `OneClientPerPage`
  (`PagesReachOneClient`). The property speaks of the end of a job only, and says nothing
  while answers are under way.
- `ServerTyping`: `ServerTypeOK`.

### Capture, backend and tool

`CanonCaptureProofs` has the lemmas used twice. `CaptureInv` is `CaptureTypes`,
`StreamWithinLimit`, `DebtKnown` (unless excused, a debt has its flag set and its
command still ahead of the cleanup) and `CleanItem`. `DebtSettled` says nothing
while a capture runs, so it cannot be inductive; `DebtKnown` is what it looks like at
each place. `CarriedEffect` and `ExchangeEffect` bound what one command does to the
scanner and to the debt, whatever its fate; `CleanupShape` says where discharge and
RELEASE stand in the list of cleanup commands; one lemma per group of steps then
keeps `CaptureInv`. `CaptureWell` is the invariant of sizes. Its part `ImageConserved` bounds
the sum of what was read and what is unread by the image: a READ moves units from one to
the other, so neither bound is inductive without the sum. `FramesFitSides` follows: no
sheet yields more frames than it has sides.

- `BackendInvariant`, `StreamBounded`, `DebtPaid`: `CaptureInv`, hence
  `StreamWithinLimit` and `DebtSettled`, hold of the backend with any number of DELETEs
  on the same scanner (a DELETE's cleanup makes no debt).
- `CrashRecovered`: `NextCaptureRecovers`. `DebtKnown` gives up after a crash that left a
  debt (it is excused); the `Recovery` of the proof does not, since a capture past its
  RESERVE and feed has both flags set whatever was owed before, so that both
  commands are in its cleanup, and at each place of the cleanup what is owed is what is
  still ahead.
- `PageInvariant`: `PageInv`, that is `CaptureWell`, types and `PagesBounded` (before each
  page, room is left for it in its sheet). It gives `BackendTyping` and `SourceRefinement`
  (`ImplementsPageSource`, the promise `AirscanJobs` relies on: no page once the cancel
  event is set, and never more than `MaxSheets * Sides`).
- `LoopsInvariant`, `SheetsSettled`, `BatchWhole`: `CaptureInv` of the command-line tool,
  with `BatchProgress` (at sheet `n` of a batch, each earlier sheet has a page in
  `collected`), which gives `BatchAllOrNothing` for any number of sheets.
- `LoopPagesInvariant`: `CaptureWell`, types and `PageOrder`. Its part `CollectedBehind` says
  that nothing collected is of the sheet under way or of a later one; without it the order
  of `collected` is not inductive. It gives `LoopsTyping` and `PagesInOrder` (`PdfInOrder`);
  that dropping blank pages keeps the order is `NthAscends`, a fact about the positions
  of any set, which is why `KeptPages` names positions (`Nth`) instead of selecting from
  a sequence.

### Ending

The safety half of `EveryJobEnds`, `BackendEnds` and `ToolEnds`, for every value of the
constants: a measure that is never negative and that each step lowers, so that no loop goes
on without counting. What remains of liveness is only that a process which can take a step
takes it.

- `WorkersCannotLoop`: a worker has at most `4 * MaxPages + 9` steps ahead; each of its own
  takes one away, and no DELETE, POST or reader puts one back, or wakes a thread that ended.
- `CaptureFalls`, a lemma: each step of a capture, whatever the fate of its command, lowers
  `CaptureAhead`, which `CaptureMost` bounds by the plan, the reads and the cleanup.
- `GeneratorCannotLoop`, `ToolCannotLoop`: sheets left and then steps left in this one, a
  lexicographic measure with `CaptureAhead` inside. DELETEs and probes on the same scanner
  change neither of the generator's, although they change what its commands meet.

### OCR inbox

- `OcrInvariant`: `OcrInv`, which adds to `OcrTypeOK` what is on the disk at each place
  (`FilesAt`: the image PDF is whole when OCR starts, the searchable one when the image
  is removed) and what the result about to be returned may name (`ResultAt`). The two
  need each other: a result is built before the removal that makes it true.
- From it: `ResultsHonest` (`ResultNamesWholeFiles`), `NothingLeft` (`IntermediatesGone`)
  and `ScanKept` (`ScanStaysSaved`), for any number of jobs at once.

### The edges

`EdgesProofs`. The components share no state, and each has an invariant of its own.

- `Consent`: `NothingWithoutConsent`, by `ConsentInv`. The property speaks of the backend and
  the socket, when the configuration has long been through four overrides;
  `ConfigConsents` and `BindConsents` say what it owes to whom at each stage.
  `FromMapping` and `Overridden` are about each override on its own, and `GateConsents`
  shows that storing the endpoint does not change which bind address is read from the
  configuration later.
- `SettingsInvariant`: from the gate on the configuration is `Final`, one expression of the
  invocation. `ConfiguredSections`, `EndpointSections` and `FinalSections` compute it section
  by section, through every override; `ChoicesKept` (`ChoicesSurvive`) reads it off.
- `ServiceHonest`: `AdvertisedIsServed`, by `ServiceInv`: the socket is open before the service
  is registered and until it is withdrawn, and what is advertised and where the server
  listens are two expressions of the same configuration.
- `LengthsFit`: `LengthsAgree`, for every integer. `FieldHolds` says of each builder that it
  raises or writes the number it is given, but for the fields of one byte.
- `PostInvariant`, `CapabilitiesKept` (`AdvertisedIsAccepted`), `RequestsKept`
  (`RequestHonoured`): for documents of any length, from the parser to what the scanner is
  asked for (`PostInv`). `FirstTextStated` says what
  `_first_text` returns of any sequence of elements; it rests on `LeastIndex`, the least
  number of a set, which well-foundedness gives without induction.
- `PoolInvariant`, `DiscoveryComplete` (`DiscoveryExact`): each candidate is in one of the
  pool's four places at most. `ArrangedOnto` says of `dict.fromkeys` and of `sorted` at once
  that an arrangement has each position once and in order.

- `FramesInvariant`, `FramesWhole` (`FramesAreSides`): for images of any length with any
  escaped contents, and any cuts. The invariant of the loop is that the frames found so far
  are the first sides and the search goes on between the last of them and the next;
  `SheetMarkers` lists where in a sheet a marker can stand at all, from the same fact about
  a single image (`BlockMarkers`), and `FoundSide` says what `find` makes of it in the part
  that has arrived.

### Only model-checked

- Liveness: `EveryJobEnds`, `DeletedBytesReleased`, `BackendEnds`, `ToolEnds`. Beyond the
  measures above they need fairness and ENABLED, which are out of the prover's reach.
- Deadlock, for the same reason.
- The seven findings are counterexamples, and need no proof.

## 6. Findings

Each is a run that TLC ends with a counterexample, with the sentence of the repository
that says otherwise quoted in `PROJECT.json`.

1. `jobs_stale_cancel` (jobs.py:191): a DELETE that has read "my job is active" and "not
   terminal" is overtaken by the end of its job and by the next POST; its
   CANCEL, discharge and RELEASE reach the new job's scan. The comment above the line
   says this must not happen.
2. `server_image_info` (server.py:208): the deque is tested and then indexed without the
   condition; if NextDocument takes the page in between, the request ends without an
   answer.
3. `capture_overlap` (canon_backend.py:125): `cancel_current` sends commands while one
   of the scan is on its way; the protocol document asks for a single active command.
   With `Cancelers = {}` TLC finds the other way there: `/healthz` reads that no job is
   active (`ProbeRead`), a scan begins, and the probe falls inside it.
4. `setup_cleanup` (scan_to_pdf.py:1167): in the setup-only path the discharge in the
   finally clause is not guarded, so when it gets no answer RELEASE is never sent.
5. `auto_adf_empty` (scan_to_pdf.py:735): a sheet without a frame is taken for the empty
   feeder whatever the reason; the tool reports success with sheets left. The backend
   does the same (canon_backend.py:97).
6. `region_window` (canon_backend.py:79): the region of a request is checked against the
   feeder's edge, copied into the pages' labels, and otherwise ignored; the window is that of
   the configured paper. The adapter's specification accepts full pages of A4, Letter and
   Legal only (escl-adapter-spec.md:185), maps them to window presets, and rejects other
   settings (188; gap-analysis.md:88 names the same pages). TLC's trace is a region of width
   1, accepted and scanned as a whole page; a Letter region under `paper = "a4"` violates the
   property as well. The same document's capabilities (127-130), like the server's own,
   offer every size up to the edge, so the documents disagree with each other: taken by the
   capabilities, accepting the region is right (`AdvertisedIsAccepted`) and scanning
   another one is not.
7. `cleanup_release` (scan_to_pdf.py:536): a capture can end with its RESERVE carried out and
   no RELEASE attempted, which the protocol document says always to attempt. Each of three
   faults alone is enough for TLC: the stream cannot be written, which comes before the
   cleanup in the finally clause (536); the reply to RESERVE is lost (507); the reply to a
   cleanup command is cut short (446). A request that is lost is not: then nothing is owed.

Observed while modelling, and left as exceptions in the properties that meet them, since no
document promises otherwise: `--port 0` is advertised as port 0; an empty root resource is
advertised as `eSCL` and served under the empty root; a Ctrl-C before `serve_forever` or a
kill leaves the service advertised; `--mdns` advertises a server that listens on loopback
only (all `AdvertisedIsServed`); INQUIRY's allocation length is one byte of a `dl` that is
not cut (`LengthsAgree`, commands.py:27); one malformed `--candidate` drops everything a
discovery has found (`DiscoveryExact`, discover.py:50). Two more are short of what a document
wants and say too little to be a property against the code: the comment at jobs.py:288-289
says that bytes are released "so terminal jobs do not pin scanned content in memory until
eviction", and a queue that no client drains, or a page appended after its job's DELETE, does
pin it (`ExitReleasesBytes` says how much); ux-recommendations.md:96 says to keep the original
JPEG pages until the image PDF is created, and the bytes are released after the side effect
also when no PDF was made, though a client that fetches its pages still gets them from the
queue. Not modelled, for it is no length:
`read_kind_cdb` promises kinds in 0..17 (commands.py:132) but indexes its tuple with a
negative one.

## 7. Not modelled, and why

- What Pillow, img2pdf, OCRmyPDF and the Swift helper do to a page: libraries; the
  models keep that each of these calls may raise.
- Formatting: XML, HTML, headers, log lines, file names.
- The scan tool's file-to-file conversions and argument checks, raw (uncompressed) output,
  and how `is_blank_jpeg_page` decides: straight lines around library calls, or pixels.
  `TESSDATA_PREFIX` is set and restored around a library call; only the tool asks for
  it, and it runs one OCR at a time.
- The fields of a command that are no lengths (windows, modes, gains): layout.
- `mock_canon_backend.py`: the special case of the modelled generator that has no lock
  and never raises. The contents of `mock_cgiscsi.py`'s answers are canned.
- The routing of paths, the admin page, and what `/healthz` leaves out for a LAN client.
- What a `--cidr` expands to, and the text of an INQUIRY's answer.
- `server_skeleton.py` calls `server.main`; the Swift helper is a filter around an
  operating-system framework; packaging and notes have no logic.
- `next_document` with a timeout and `wait_for_job`: used by tests only.
- Weak memory: CPython's locks and its deque operations are taken as atomic.

## 8. Plan

Modelled and checked, in the order of the work: `AirscanJobs` with `SingleJobScanner`;
`AirscanServer`; `CanonCapture` and `CanonBackend` with `PageSource`; `ScanLoops`;
`OcrInbox`; delivery and crashes on top of the first two groups; the edges.

Proved, in the order of the work: the slot; the capture's debts and the tool's batch; OCR;
consent; pages and bytes of the manager and its refinement; the server; sizes, pages and
the refinement of the backend; the order of the tool's pages; the remaining edges; the
frames of a stream; how the manager drives its backend; the measures of the three loops.

Left: `raw_file_to_pdf`, whose repacking of padded rows is the one computation of the tool
with an off-by-one to make.
