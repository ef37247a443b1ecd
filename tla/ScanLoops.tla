----------------------------- MODULE ScanLoops -----------------------------
(***************************************************************************)
(* The command-line scan tool (main of src/harness/scan_to_pdf.py with     *)
(* --execute-plan): one sheet, a known number of sheets                    *)
(* (execute_sheet_batch_capture), sheets until the feeder is empty         *)
(* (execute_auto_adf_capture), or the setup commands alone.  One process,  *)
(* one invocation; what goes wrong is the scanner's, the network's or the  *)
(* disk's doing.                                                           *)
(***************************************************************************)
EXTENDS CanonCapture, FiniteSets

CONSTANTS
    Modes,      \* ways the tool is called, of these:
    SheetCount  \* --sheets, or --max-sheets

Mode == {"sheet", "batch", "auto", "setup"}

ASSUME LoopsAssumption ==
    /\ Modes \subseteq Mode /\ SheetCount \in Nat \ {0}
    /\ "auto" \in Modes => Duplex

VARIABLES
    mode,
    place,      \* of main: "done" when it returned 0, "error" when it raised
    sheet,
    collected,  \* pages captured, each <<sheet, side>>
    pdf         \* pages of the output file; empty when there is none

loopVars  == <<mode, place, sheet, collected, pdf>>
toolVars  == <<captureVars, loopVars>>

LoopsInit ==
    /\ CaptureInit
    /\ mode \in Modes
    /\ place = "start" /\ sheet = 0 /\ collected = <<>> /\ pdf = <<>>

SheetLimit == IF mode = "sheet" THEN 1 ELSE SheetCount

PagesOfSheet == [side \in 1 .. Frames |-> <<sheet, side>>]

Goto(to) == place' = to /\ UNCHANGED <<mode, sheet, collected, pdf>>

----------------------------------------------------------------------------
\* The three captures

\* A temporary directory or the output directory is made first.
Start ==
    /\ place = "start" /\ mode # "setup"
    /\ \/ Goto("loop")
       \/ Goto("error") /\ "save fails" \in Faults
    /\ UNCHANGED captureVars

\* Variant: one sheet more than asked for.
NextSheetTooMany ==
    /\ place = "loop" /\ sheet <= SheetLimit
    /\ Call
    /\ place' = "capture" /\ sheet' = sheet + 1
    /\ UNCHANGED <<mode, collected, pdf>>
NextSheet ==
    /\ place = "loop" /\ sheet < SheetLimit
    /\ Call
    /\ place' = "capture" /\ sheet' = sheet + 1
    /\ UNCHANGED <<mode, collected, pdf>>

\* With an output_pdf the capture of a single sheet writes it itself, even when
\* it is about to raise.
InCapture ==
    /\ place = "capture" /\ Capture
    /\ pdf' = IF mode = "sheet" /\ Save THEN PagesOfSheet ELSE pdf
    /\ UNCHANGED <<mode, place, sheet, collected>>

Collect(pages) ==
    /\ collected' = pages
    /\ place' = "loop"
    /\ UNCHANGED <<mode, sheet, pdf>>

\* Variant: the newest sheet comes first.
SheetCapturedInFront ==
    /\ place = "capture" /\ mode # "sheet" /\ Frames > 0 /\ Leave("returned")
    /\ Collect(PagesOfSheet \o collected)
SheetCaptured ==
    /\ place = "capture" /\ mode # "sheet" /\ Frames > 0 /\ Leave("returned")
    /\ Collect(collected \o PagesOfSheet)

SingleCaptured ==
    /\ place = "capture" /\ mode = "sheet" /\ Leave("returned")
    /\ Goto("done")

\* Variant: a batch, too, ends with the first empty sheet.
NoFramesEndsLoop ==
    /\ place = "capture" /\ mode # "sheet" /\ Frames = 0 /\ Leave("returned")
    /\ Goto("assemble")
\* A sheet without a frame: an error in a batch; "adf_empty" otherwise.
NoFrames ==
    /\ place = "capture" /\ mode # "sheet" /\ Frames = 0 /\ Leave("returned")
    /\ Goto(IF mode = "batch" THEN "error" ELSE "assemble")

CaptureRaised ==
    /\ place = "capture" /\ Leave("raised")
    /\ Goto("error")

LoopDone ==
    /\ place = "loop" /\ sheet = SheetLimit
    /\ Goto("assemble")
    /\ UNCHANGED captureVars

\* The n-th of these positions, in ascending order
Nth(positions, n) ==
    CHOOSE p \in positions : Cardinality({i \in positions : i <= p}) = n

\* Pages in the order of capture; the automatic scan keeps only some of them, as
\* it leaves out the blank ones.
KeptPages ==
    IF mode = "auto"
    THEN {[n \in 1 .. Cardinality(kept) |-> collected[Nth(kept, n)]] :
             kept \in SUBSET DOMAIN collected}
    ELSE {collected}

Assemble ==
    /\ place = "assemble"
    /\ \E kept \in KeptPages :
         IF kept = <<>>
         THEN Goto("error")
         ELSE /\ place' = "done" /\ pdf' = kept
              /\ UNCHANGED <<mode, sheet, collected>>
    /\ UNCHANGED captureVars

AssembleFails ==
    /\ place = "assemble" /\ "save fails" \in Faults
    /\ Goto("error")
    /\ UNCHANGED captureVars

----------------------------------------------------------------------------
\* Without --experimental-scan: the plan up to its SCAN, and a cleanup of its
\* own.  Its locals have the names they have in execute_scan_capture.

StartSetup ==
    /\ place = "start" /\ mode = "setup"
    /\ Goto("setup")
    /\ pc' = "plan"
    /\ UNCHANGED <<item, waiting, sent_reserve, sent_feed, chunks, stream, raising,
                   device, owed, excused>>

SetupSend == place = "setup" /\ Send /\ UNCHANGED loopVars

\* The reply to the last command before the SCAN leaves the loop.
SetupReply ==
    /\ place = "setup"
    /\ PlanReply
    /\ Goto(IF Plan[item + 1] = "scan" THEN "discharge" ELSE "setup")

\* Variant: a setup command that got no answer is sent again.
SetupRetries == place = "setup" /\ PlanRetries /\ UNCHANGED loopVars
SetupFails == place = "setup" /\ PlanFails /\ Goto("discharge")

\* The finally clause: discharge, then RELEASE, each if its flag is set.
Skip(command, sent, next) ==
    /\ place = command /\ ~sent
    /\ Goto(next)
    /\ UNCHANGED <<device, owed>>

\* Nothing catches what execute raises here.
Undo(command, sent, next) ==
    /\ place = command /\ sent
    /\ \E outcome \in Outcome :
          /\ Exchange(command, 0, outcome)
          /\ Goto(IF outcome = "reply" THEN next ELSE "error")

UndoNext(command, sent, next) ==
    /\ Skip(command, sent, next) \/ Undo(command, sent, next)
    /\ pc' = IF place' \in {"done", "error"} THEN "out" ELSE pc
    /\ UNCHANGED <<item, waiting, sent_reserve, sent_feed, chunks, stream, raising,
                   excused>>

SetupUndo ==
    \/ UndoNext("discharge", sent_feed, "release")
    \/ UndoNext("release", sent_reserve, IF raising THEN "error" ELSE "done")

----------------------------------------------------------------------------
Tool ==
    \/ Start \/ NextSheet \/ InCapture \/ SheetCaptured \/ SingleCaptured \/ NoFrames
    \/ CaptureRaised \/ LoopDone \/ Assemble \/ AssembleFails
    \/ StartSetup \/ SetupSend \/ SetupReply \/ SetupFails \/ SetupUndo

LoopsSpec == LoopsInit /\ [][Tool]_toolVars

\* The process runs, and every request is answered or times out.
FairLoopsSpec == LoopsSpec /\ WF_toolVars(Tool)

----------------------------------------------------------------------------
LoopsTypeOK ==
    /\ CaptureTypeOK
    /\ mode \in Modes
    /\ place \in {"start", "loop", "capture", "assemble", "setup", "discharge",
                  "release", "done", "error"}
    /\ sheet \in 0 .. SheetLimit
    /\ collected \in Seq((1 .. SheetLimit) \X (1 .. Sides))
    /\ pdf \in Seq((1 .. SheetLimit) \X (1 .. Sides))

(* The assembled file has its pages in the order of the paper, front before   *)
(* back, each once, whatever sheets came back short and whatever was left out *)
(* as blank.                                                                  *)
PdfInOrder ==
    \A i, j \in DOMAIN pdf :
        i < j => \/ pdf[i][1] < pdf[j][1]
                 \/ pdf[i][1] = pdf[j][1] /\ pdf[i][2] < pdf[j][2]

(* A batch writes a file only if each of the sheets asked for has a page in   *)
(* it, and reports success only with the file written.                        *)
BatchAllOrNothing ==
    mode = "batch" =>
        /\ pdf # <<>> => \A s \in 1 .. SheetCount : \E i \in DOMAIN pdf : pdf[i][1] = s
        /\ place = "done" => pdf # <<>>

(* Between two sheets, and when the tool ends after a capture, every          *)
(* reservation and feed it could know of has been followed by an attempt to   *)
(* undo it: a failed sheet never hands its debt to the next.  What it cannot  *)
(* know of, or does not come to undo, is ReleaseAlwaysAttempted.              *)
SheetsSettle == mode # "setup" => DebtSettled

(* The tool ends, with success or with an error, whatever the scanner does.   *)
ToolEnds == <>(place \in {"done", "error"})

(* harness/README.md: "`--execute-plan` stops before `SCAN` and cleans up".   *)
(* What the setup knows to have reserved or fed, it tries to undo.            *)
SetupCleansUp == mode = "setup" => DebtSettled

(* harness/README.md: the automatic scan "repeats until the scanner reports   *)
(* the ADF is empty": if it stops before --max-sheets and reports success, no *)
(* sheet is left in the feeder.                                               *)
AutoStopsAtEmptyFeeder ==
    mode = "auto" /\ place = "done" /\ sheet < SheetLimit => device.hopper = 0
=============================================================================
