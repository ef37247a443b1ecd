---------------------------- MODULE CanonCapture ----------------------------
(***************************************************************************)
(* One sheet: execute_scan_capture and best_effort_cleanup of              *)
(* src/harness/scan_to_pdf.py, over CgiscsiClient.execute of               *)
(* src/harness/cgiscsi.py, against the scanner and a network that loses    *)
(* requests and replies.                                                   *)
(*                                                                         *)
(* A command is two steps, Send and a reply, so that commands of other     *)
(* threads can fall in between.  Image bytes are counted in units; how many *)
(* of them the JPEG frame of a side has, depends on the sheet.             *)
(***************************************************************************)
EXTENDS Integers, Sequences

CONSTANTS
    Duplex,      \* scan both sides
    ChunkUnits,  \* chunk_len
    MaxChunks,   \* max_chunks
    MaxUnits,    \* max_bytes
    SideSizes,   \* sizes the frame of a side may have
    TailUnits,   \* bytes the scanner adds after the last frame
    Hopper,      \* sheets loaded in the feeder
    Faults       \* what can go wrong, of these:

Fault == {"refused", "request lost", "reply lost", "reply cut", "save fails", "crash"}

ASSUME CaptureAssumption ==
    /\ Duplex \in BOOLEAN
    /\ ChunkUnits \in Nat \ {0} /\ SideSizes \subseteq Nat \ {0}
    /\ TailUnits \in Nat /\ \A size \in SideSizes : TailUnits < size
    /\ MaxChunks \in Nat /\ MaxUnits \in Nat /\ Hopper \in Nat
    /\ Faults \subseteq Fault

Sides  == IF Duplex THEN 2 ELSE 1    \* stop_after_frames
ImageUnits(size) == Sides * size + TailUnits

VARIABLES
    pc,            \* where the capture is; "out" when nobody is in it
    item,          \* position in the plan, or in the cleanup
    waiting,       \* its command is on its way
    sent_reserve, sent_feed,
    chunks,        \* reads answered
    stream,        \* image units received
    raising,       \* an exception waits for the finally clause to end
    device,        \* the scanner
    owed,          \* history: cleanup the scanner needs that nobody has tried
    excused        \* history: is it owed because of a fault the code cannot see

Frames == stream \div device.size    \* extract_jpegs, how many

captureVars == <<pc, item, waiting, sent_reserve, sent_feed, chunks, stream,
                 raising, device, owed, excused>>

CaptureInit ==
    /\ pc = "out" /\ item = 1 /\ waiting = FALSE
    /\ sent_reserve = FALSE /\ sent_feed = FALSE
    /\ chunks = 0 /\ stream = 0 /\ raising = FALSE
    /\ device \in [reserved : {FALSE}, fed : {FALSE}, hopper : {Hopper},
                   size : SideSizes, unread : {0}]
    /\ owed = {} /\ excused = FALSE

----------------------------------------------------------------------------
\* The scanner (external) and what execute makes of a command's fate.

\* Commands that only prepare the scan
Settings == {"prescan", "window front", "window back", "mode feed", "mode buffer",
             "mode color"}

\* The scanner carries out a command; a READ of `want' units may come back short.
Carried(command, want) ==
    \/ command \in Settings /\ device' = device
    \/ command = "reserve" /\ device' = [device EXCEPT !.reserved = TRUE]
    \/ command = "release" /\ device' = [device EXCEPT !.reserved = FALSE]
    \/ /\ command = "feed"
       /\ device' = IF device.hopper > 0 /\ ~device.fed
                    THEN [device EXCEPT !.fed = TRUE, !.hopper = @ - 1] ELSE device
    \/ /\ command = "scan"
       /\ \E size \in SideSizes :
             device' = IF device.fed
                       THEN [device EXCEPT !.size = size, !.unread = ImageUnits(size)]
                       ELSE device
    \/ /\ command = "read"
       /\ \E left \in 0 .. device.unread :
             /\ device.unread - left <= want
             /\ device' = [device EXCEPT !.unread = left]
    \/ command = "cancel" /\ device' = [device EXCEPT !.unread = 0]
    \/ command = "discharge" /\ device' = [device EXCEPT !.fed = FALSE, !.unread = 0]

\* execute returns a response, whatever its sense data say, or raises a
\* RuntimeError for a failed connection or timeout, or lets a ValueError (or
\* HTTPException) of a reply cut short escape.
Exchange(command, want, outcome) ==
    /\ \/ outcome = "reply" /\ Carried(command, want)
       \/ outcome = "reply" /\ "refused" \in Faults /\ UNCHANGED device
       \/ /\ outcome = "RuntimeError" /\ "request lost" \in Faults
          /\ UNCHANGED device
       \/ /\ outcome = "RuntimeError" /\ "reply lost" \in Faults
          /\ Carried(command, want)
       \/ /\ outcome = "ValueError" /\ "reply cut" \in Faults
          /\ Carried(command, want)
    /\ owed' = (owed \ {command})
               \cup (IF device'.reserved /\ ~device.reserved THEN {"release"} ELSE {})
               \cup (IF device'.fed /\ ~device.fed THEN {"discharge"} ELSE {})

Outcome == {"reply", "RuntimeError", "ValueError"}

----------------------------------------------------------------------------
\* build_scan_plan, up to the image reads
Plan ==
    <<"reserve", "feed", "prescan", "window front">>
    \o (IF Duplex THEN <<"window back">> ELSE <<>>)
    \o <<"mode feed", "mode buffer", "mode color", "scan">>

\* Variant: the reservation is given back only with the paper.
CleanupWithPaper(feed, reserve) ==
    <<"cancel">> \o (IF feed THEN <<"discharge", "release">> ELSE <<>>)
\* The commands of best_effort_cleanup
Cleanup(feed, reserve) ==
    <<"cancel">> \o (IF feed THEN <<"discharge">> ELSE <<>>)
                 \o (IF reserve THEN <<"release">> ELSE <<>>)

\* Variant: every read asks for a whole chunk.
WantChunk == ChunkUnits
\* request_len
Want == IF ChunkUnits < MaxUnits - stream THEN ChunkUnits ELSE MaxUnits - stream

LimitReached == chunks = MaxChunks \/ stream >= MaxUnits

\* Making the output directory can fail, like any later write.
Call ==
    /\ pc = "out"
    /\ \/ pc' = "plan"
       \/ pc' = "raised" /\ "save fails" \in Faults
    /\ item' = 1 /\ waiting' = FALSE
    /\ sent_reserve' = FALSE /\ sent_feed' = FALSE
    /\ chunks' = 0 /\ stream' = 0 /\ raising' = FALSE
    /\ excused' = (owed # {})
    /\ UNCHANGED <<device, owed>>

Send ==
    /\ pc \in {"plan", "read", "clean"} /\ ~waiting
    /\ pc = "read" => ~LimitReached
    /\ waiting' = TRUE
    /\ UNCHANGED <<pc, item, sent_reserve, sent_feed, chunks, stream, raising,
                   device, owed, excused>>

Answered(at) ==
    /\ pc = at /\ waiting
    /\ waiting' = FALSE

\* Variant: a flag is set only when the scanner says it has done something.
PlanReplyChecked ==
    /\ Answered("plan")
    /\ Exchange(Plan[item], 0, "reply")
    /\ sent_reserve' = (sent_reserve \/ (Plan[item] = "reserve" /\ device' # device))
    /\ sent_feed' = (sent_feed \/ (Plan[item] = "feed" /\ device' # device))
    /\ IF item = Len(Plan) THEN pc' = "read" /\ item' = 1
                           ELSE pc' = "plan" /\ item' = item + 1
    /\ UNCHANGED <<chunks, stream, raising, excused>>
\* The two flags are set only after execute has returned, whatever the scanner
\* answered.
PlanReply ==
    /\ Answered("plan")
    /\ Exchange(Plan[item], 0, "reply")
    /\ sent_reserve' = (sent_reserve \/ Plan[item] = "reserve")
    /\ sent_feed' = (sent_feed \/ Plan[item] = "feed")
    /\ IF item = Len(Plan) THEN pc' = "read" /\ item' = 1
                           ELSE pc' = "plan" /\ item' = item + 1
    /\ UNCHANGED <<chunks, stream, raising, excused>>

\* Leave the try block: `failed' by an exception.
ToFinally(failed) ==
    /\ pc' = "save"
    /\ raising' = failed
    /\ UNCHANGED <<item, sent_reserve, sent_feed>>

\* Variant: a command that got no answer is sent again.
PlanRetries ==
    /\ Answered("plan")
    /\ \E outcome \in {"RuntimeError", "ValueError"} : Exchange(Plan[item], 0, outcome)
    /\ UNCHANGED <<pc, item, raising, sent_reserve, sent_feed, chunks, stream,
                   excused>>
\* The scanner may have reserved or fed all the same: nothing here knows.
PlanFails ==
    /\ Answered("plan")
    /\ \E outcome \in {"RuntimeError", "ValueError"} : Exchange(Plan[item], 0, outcome)
    /\ ToFinally(TRUE)
    /\ excused' = (excused \/ owed' # owed)
    /\ UNCHANGED <<chunks, stream>>

ReadStop ==
    /\ pc = "read" /\ ~waiting /\ LimitReached
    /\ ToFinally(FALSE)
    /\ UNCHANGED <<waiting, chunks, stream, device, owed, excused>>

\* Enough frames or a short read end the loop; so does the sense data of a
\* scanner that has no more.
ReadReply ==
    LET got == device.unread - device'.unread IN
    /\ Answered("read")
    /\ Exchange("read", Want, "reply")
    /\ stream' = stream + got
    /\ chunks' = chunks + 1
    /\ UNCHANGED excused
    /\ \/ /\ Frames' >= Sides \/ got < Want \/ device'.unread = 0
          /\ ToFinally(FALSE)
       \/ /\ Frames' < Sides /\ got = Want
          /\ UNCHANGED <<pc, item, raising, sent_reserve, sent_feed>>

ReadFails ==
    /\ Answered("read")
    /\ \E outcome \in {"RuntimeError", "ValueError"} : Exchange("read", Want, outcome)
    /\ ToFinally(TRUE)
    /\ UNCHANGED <<chunks, stream, excused>>

\* The first half of the finally clause writes the stream, its frames and, if
\* asked to, a PDF.
Save ==
    /\ pc = "save"
    /\ pc' = "clean" /\ item' = 1
    /\ UNCHANGED <<waiting, sent_reserve, sent_feed, chunks, stream, raising,
                   device, owed, excused>>

\* What it raises leaves the clause, and the cleanup is never reached.
SaveFails ==
    /\ pc = "save" /\ "save fails" \in Faults
    /\ pc' = "raised" /\ excused' = TRUE
    /\ UNCHANGED <<item, waiting, sent_reserve, sent_feed, chunks, stream, raising,
                   device, owed>>

\* A RuntimeError is printed and the next cleanup command sent all the same.
CleanReply ==
    LET commands == Cleanup(sent_feed, sent_reserve) IN
    /\ Answered("clean")
    /\ \E outcome \in {"reply", "RuntimeError"} : Exchange(commands[item], 0, outcome)
    /\ IF item < Len(commands)
       THEN pc' = "clean" /\ item' = item + 1
       ELSE pc' = (IF raising THEN "raised" ELSE "returned") /\ item' = 1
    /\ UNCHANGED <<sent_reserve, sent_feed, chunks, stream, raising, excused>>

\* Any other exception ends the cleanup where it is.
CleanFails ==
    /\ Answered("clean")
    /\ Exchange(Cleanup(sent_feed, sent_reserve)[item], 0, "ValueError")
    /\ pc' = "raised" /\ excused' = TRUE
    /\ UNCHANGED <<item, sent_reserve, sent_feed, chunks, stream, raising>>

Capture ==
    \/ Send \/ PlanReply \/ PlanFails \/ ReadStop \/ ReadReply \/ ReadFails
    \/ Save \/ SaveFails \/ CleanReply \/ CleanFails

\* Back to the caller.
Leave(how) ==
    /\ pc = how /\ pc' = "out"
    /\ UNCHANGED <<item, waiting, sent_reserve, sent_feed, chunks, stream, raising,
                   device, owed, excused>>

----------------------------------------------------------------------------
CaptureTypeOK ==
    /\ pc \in {"out", "plan", "read", "save", "clean", "returned", "raised"}
    /\ item \in 1 .. Len(Plan)
    /\ waiting \in BOOLEAN /\ raising \in BOOLEAN
    /\ sent_reserve \in BOOLEAN /\ sent_feed \in BOOLEAN
    /\ chunks \in 0 .. MaxChunks
    /\ device \in [reserved : BOOLEAN, fed : BOOLEAN, hopper : 0 .. Hopper,
                   size : SideSizes, unread : 0 .. ImageUnits(device.size)]
    /\ stream \in 0 .. ImageUnits(device.size)
    /\ owed \subseteq {"release", "discharge"} /\ excused \in BOOLEAN

(* max_bytes is a bound on what is kept, even when it is no multiple of the   *)
(* chunk and the scanner always fills the request.                            *)
StreamWithinLimit == stream <= MaxUnits

(* Whenever no capture is running, every reservation and every fed sheet has  *)
(* been followed by an attempt to release and to discharge, whatever else     *)
(* failed and whoever interfered.  Three faults are excused, and what they    *)
(* leave behind is ReleaseAlwaysAttempted: a RESERVE or a feed carried out    *)
(* whose reply is lost, a cleanup reply cut short, a file not written.        *)
DebtSettled == pc = "out" /\ ~excused => owed = {}

(* A capture that returns leaves nothing owed, and that goes for what an      *)
(* earlier capture, or a process killed in the middle of one, left reserved   *)
(* or fed: the cleanup does not ask whether its own commands did it.          *)
NextCaptureRecovers == pc = "returned" => owed = {}

(* The protocol document says of RELEASE UNIT: "Always attempt in cleanup     *)
(* after reserve."  No capture comes to its end, in whichever way, with a     *)
(* reservation that nobody has tried to give back.                            *)
ReleaseAlwaysAttempted == pc \in {"returned", "raised"} => "release" \notin owed
=============================================================================
