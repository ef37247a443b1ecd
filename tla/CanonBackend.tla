---------------------------- MODULE CanonBackend ----------------------------
(***************************************************************************)
(* The live backend (src/airscan_adapter/canon_backend.py): scan_pages, the*)
(* generator that captures sheet after sheet, and the two calls other      *)
(* threads make on the same scanner while it runs, cancel_current (from a  *)
(* DELETE) and safe_health (from /healthz).  Neither takes the lock that   *)
(* scan_pages holds.                                                       *)
(***************************************************************************)
EXTENDS CanonCapture, FiniteSets

CONSTANTS
    MaxSheets,    \* defaults.max_sheets
    Cancelers,    \* threads serving DELETE
    Probers       \* threads serving /healthz

ASSUME BackendAssumption == MaxSheets \in Nat

VARIABLES
    place,         \* of the generator; "idle" when it holds no lock
    sheet, side, page_number,
    cancel_event,
    cancel_at,     \* of a DELETE: the cleanup command it is at, 0 for none
    cancel_sent,   \* and whether that command is on its way
    cleared,       \* health checks that have read that no job is active
    probing        \* health probes on their way

generatorVars == <<place, sheet, side, page_number>>
cancelVars    == <<cancel_at, cancel_sent>>
probeVars     == <<cleared, probing>>
otherVars     == <<cancelVars, probeVars>>
backendVars   == <<captureVars, generatorVars, cancel_event, otherVars>>

BackendInit ==
    /\ CaptureInit
    /\ place = "idle" /\ sheet = 0 /\ side = 0 /\ page_number = 0
    /\ cancel_event = FALSE
    /\ cancel_at = [c \in Cancelers |-> 0]
    /\ cancel_sent = [c \in Cancelers |-> FALSE]
    /\ cleared = {} /\ probing = {}

----------------------------------------------------------------------------
\* scan_pages

\* A job's worker asks for its first page; a DELETE may have been faster.
Begin ==
    /\ place = "idle"
    /\ place' = "sheet" /\ sheet' = 0 /\ side' = 0 /\ page_number' = 0
    /\ cancel_event' \in BOOLEAN
    /\ UNCHANGED <<captureVars, otherVars>>

MoreSheets == ~cancel_event /\ sheet < MaxSheets

NextSheet ==
    /\ place = "sheet" /\ MoreSheets
    /\ Call
    /\ place' = "capture" /\ sheet' = sheet + 1
    /\ UNCHANGED <<side, page_number, cancel_event, otherVars>>

NoMoreSheets ==
    /\ place = "sheet" /\ ~MoreSheets
    /\ place' = "idle"
    /\ UNCHANGED <<captureVars, sheet, side, page_number, cancel_event, otherVars>>

InCapture ==
    /\ place = "capture" /\ Capture
    /\ UNCHANGED <<generatorVars, cancel_event, otherVars>>

Captured ==
    /\ place = "capture" /\ Leave("returned")
    /\ place' = IF Frames = 0 THEN "idle" ELSE "side"
    /\ side' = 0
    /\ UNCHANGED <<sheet, page_number, cancel_event, otherVars>>

CaptureRaised ==
    /\ place = "capture" /\ Leave("raised")
    /\ place' = "idle"
    /\ UNCHANGED <<sheet, side, page_number, cancel_event, otherVars>>

StartSide ==
    /\ place = "side" /\ side < Frames
    /\ place' = "render" /\ page_number' = page_number + 1
    /\ UNCHANGED <<captureVars, sheet, side, cancel_event, otherVars>>

\* Variant: one side too many.
TakeSideBeyond ==
    /\ place = "side" /\ side <= Frames /\ ~cancel_event
    /\ place' = "render" /\ page_number' = page_number + 1
    /\ UNCHANGED <<captureVars, sheet, side, cancel_event, otherVars>>
\* Variant: only the sheet loop looks at the cancel event.
TakeSideCanceled == StartSide
TakeSide == ~cancel_event /\ StartSide

SidesDone ==
    /\ place = "side" /\ (cancel_event \/ side = Frames)
    /\ place' = "sheet"
    /\ UNCHANGED <<captureVars, sheet, side, page_number, cancel_event, otherVars>>

\* Rotate, look for blankness, read the file back: yield, or raise.
Rendered ==
    /\ place = "render"
    /\ place' \in {"yielded", "idle"}
    /\ UNCHANGED <<captureVars, sheet, side, page_number, cancel_event, otherVars>>

\* The worker asks for the next page, or has left its loop.
Resumed ==
    /\ place = "yielded"
    /\ place' \in IF cancel_event THEN {"side", "idle"} ELSE {"side"}
    /\ side' = side + 1
    /\ UNCHANGED <<captureVars, sheet, page_number, cancel_event, otherVars>>

Generator ==
    \/ NextSheet \/ NoMoreSheets \/ InCapture \/ Captured \/ CaptureRaised
    \/ TakeSide \/ SidesDone \/ Rendered \/ Resumed

----------------------------------------------------------------------------
\* The DELETE of the running job sets its event before it calls cancel_current;
\* a stale DELETE of an earlier job calls it without.
SetCancelEvent ==
    /\ place # "idle"
    /\ cancel_event' = TRUE
    /\ UNCHANGED <<captureVars, generatorVars, otherVars>>

\* cancel_current: best_effort_cleanup with both flags set, on the client that
\* is current when it starts.
FullCleanup == Cleanup(TRUE, TRUE)

CancelCurrent(c) ==
    /\ cancel_at[c] = 0 /\ place # "idle"
    /\ cancel_at' = [cancel_at EXCEPT ![c] = 1]
    /\ UNCHANGED <<captureVars, generatorVars, cancel_event, cancel_sent, probeVars>>

CancelSend(c) ==
    /\ cancel_at[c] # 0 /\ ~cancel_sent[c]
    /\ cancel_sent' = [cancel_sent EXCEPT ![c] = TRUE]
    /\ UNCHANGED <<captureVars, generatorVars, cancel_event, cancel_at, probeVars>>

CancelReply(c) ==
    /\ cancel_at[c] # 0 /\ cancel_sent[c]
    /\ cancel_sent' = [cancel_sent EXCEPT ![c] = FALSE]
    /\ \E outcome \in Outcome :
         /\ Exchange(FullCleanup[cancel_at[c]], 0, outcome)
         /\ cancel_at' = [cancel_at EXCEPT ![c] =
                IF outcome = "ValueError" \/ @ = Len(FullCleanup) THEN 0 ELSE @ + 1]
    /\ UNCHANGED <<pc, item, waiting, sent_reserve, sent_feed, chunks, stream,
                   raising, excused, generatorVars, cancel_event, probeVars>>

\* /healthz reads under the manager's lock that no job is active, which means
\* that the generator is idle, and gives the lock back.
ProbeRead(p) ==
    /\ p \notin cleared \cup probing /\ place = "idle"
    /\ cleared' = cleared \cup {p}
    /\ UNCHANGED <<captureVars, generatorVars, cancel_event, cancelVars, probing>>

\* safe_health: TEST UNIT READY, sent whatever has begun since.  It changes
\* nothing in the scanner, whatever becomes of it.
ProbeSend(p) ==
    /\ p \in cleared
    /\ cleared' = cleared \ {p}
    /\ probing' = probing \cup {p}
    /\ UNCHANGED <<captureVars, generatorVars, cancel_event, cancelVars>>

ProbeReply(p) ==
    /\ p \in probing
    /\ probing' = probing \ {p}
    /\ UNCHANGED <<captureVars, generatorVars, cancel_event, cancelVars, cleared>>

Probe(p) == ProbeRead(p) \/ ProbeSend(p) \/ ProbeReply(p)

----------------------------------------------------------------------------
\* The server is killed, or stopped by Ctrl-C, which ends its daemon threads: no
\* finally clause runs, and the scanner stays as it is.  (A command that still
\* reaches it is the crash that follows its reply.)
Crash ==
    /\ "crash" \in Faults
    /\ place' = "idle" /\ pc' = "out" /\ item' = 1 /\ waiting' = FALSE
    /\ sent_reserve' = FALSE /\ sent_feed' = FALSE
    /\ chunks' = 0 /\ stream' = 0 /\ raising' = FALSE
    /\ excused' = (owed # {})
    /\ cancel_at' = [c \in Cancelers |-> 0]
    /\ cancel_sent' = [c \in Cancelers |-> FALSE]
    /\ cleared' = {} /\ probing' = {}
    /\ UNCHANGED <<device, owed, sheet, side, page_number, cancel_event>>

----------------------------------------------------------------------------
BackendNext ==
    \/ Begin \/ Generator \/ SetCancelEvent \/ Crash
    \/ \E c \in Cancelers : CancelCurrent(c) \/ CancelSend(c) \/ CancelReply(c)
    \/ \E p \in Probers : Probe(p)

BackendSpec == BackendInit /\ [][BackendNext]_backendVars

\* The worker's thread runs, a request is answered or times out, and the worker
\* comes back for the next page.
FairBackendSpec == BackendSpec /\ WF_backendVars(Generator)

----------------------------------------------------------------------------
\* A health check is at one place at a time.
ProbeTypeOK ==
    cleared \subseteq Probers /\ probing \subseteq Probers /\ cleared \cap probing = {}

(* Type invariant: among others, a sheet never has more pages than sides.     *)
BackendTypeOK ==
    /\ CaptureTypeOK
    /\ place \in {"idle", "sheet", "capture", "side", "render", "yielded"}
    /\ sheet \in 0 .. MaxSheets /\ side \in 0 .. Sides
    /\ page_number \in 0 .. MaxSheets * Sides
    /\ cancel_event \in BOOLEAN
    /\ cancel_at \in [Cancelers -> 0 .. 3] /\ cancel_sent \in [Cancelers -> BOOLEAN]
    /\ ProbeTypeOK

(* The generator is a page source: however the commands of a concurrent       *)
(* DELETE cut into a capture, it takes no page after the cancel event and     *)
(* never more than max_sheets sheets can hold.                                *)
Source == INSTANCE PageSource
              WITH Limit <- MaxSheets * Sides,
                   number <- IF place = "idle" THEN 0 ELSE page_number,
                   canceled <- place # "idle" /\ cancel_event,
                   phase <- IF place \in {"sheet", "capture", "side"}
                            THEN "fetch" ELSE place

ImplementsPageSource == Source!Spec

(* scan_pages comes to an end and gives back the backend's lock, whatever the *)
(* scanner answers and whoever interferes.                                    *)
BackendEnds == place # "idle" ~> place = "idle"

(* The protocol document: "Single active command | Required by safety;        *)
(* concurrent probes can wedge or confuse state".                             *)
SingleActiveCommand ==
    (IF waiting THEN 1 ELSE 0) + Cardinality({c \in Cancelers : cancel_sent[c]})
        + Cardinality(probing) <= 1
=============================================================================
