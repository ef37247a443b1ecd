------------------------- MODULE CanonBackendProofs -------------------------
(***************************************************************************)
(* Proofs about CanonBackend, for every size of sheet, chunk and limit,    *)
(* every set of faults and any number of concurrent DELETEs and probes: the*)
(* capture stays within max_bytes, and it leaves the scanner owed nothing  *)
(* that the code could have known about; and a scan cannot go on for ever. *)
(***************************************************************************)
EXTENDS CanonBackend, CanonCaptureProofs

\* A DELETE is at one of the three commands of its cleanup, or at none.
CancelTypes == cancel_at \in [Cancelers -> 0 .. 3]

BackendInv == CaptureInv /\ CancelTypes

(* A command of a DELETE's cleanup makes no debt.                             *)
LEMMA CancelReplyKeeps ==
  ASSUME NEW c \in Cancelers, BackendInv, CancelReply(c)
  PROVE  BackendInv'
  <1> USE DEF BackendInv, CaptureInv, CaptureTypes, CancelTypes
  <1>1. /\ Len(FullCleanup) = 3
        /\ \A i \in 1 .. 3 : FullCleanup[i] \in {"cancel", "discharge", "release"}
    <2>1. Len(FullCleanup) = 3
      <3>1. Len(FullCleanup) = 1 + (IF TRUE THEN 1 ELSE 0) + (IF TRUE THEN 1 ELSE 0)
        BY CleanupShape DEF FullCleanup
      <3>2. QED BY <3>1
    <2>2. \A i \in 1 .. Len(FullCleanup) :
             FullCleanup[i] \in {"cancel", "discharge", "release"}
      BY CleanupShape DEF FullCleanup
    <2>3. QED BY <2>1, <2>2
  <1>2. cancel_at[c] \in 1 .. 3 BY DEF CancelReply
  <1>3. device' \in DeviceType /\ owed' \subseteq owed
    BY <1>1, <1>2, ExchangeEffect DEF CancelReply
  <1>4. CancelTypes' BY <1>1, <1>2 DEF CancelReply
  <1>5. QED
    BY <1>3, <1>4 DEF CancelReply, StreamWithinLimit, DebtKnown, CleanItem

(* A crash resets the program, and excuses what it leaves owed.               *)
LEMMA CrashKeeps == BackendInv /\ Crash => BackendInv'
  <1> SUFFICES ASSUME BackendInv, Crash PROVE BackendInv'
    OBVIOUS
  <1> USE DEF BackendInv, CaptureInv, CaptureTypes, Crash
  <1>1. excused' \in BOOLEAN /\ DebtKnown' BY DEF DebtKnown
  <1>2. StreamWithinLimit' BY CaptureAssumption DEF StreamWithinLimit
  <1>3. CleanItem' /\ CancelTypes' BY DEF CleanItem, CancelTypes
  <1>4. QED BY <1>1, <1>2, <1>3

----------------------------------------------------------------------------
(* The invariant from which both results follow.                              *)
THEOREM BackendInvariant == BackendSpec => []BackendInv
  <1>1. BackendInit => BackendInv
    BY InitCaptureInv DEF BackendInit, BackendInv, CancelTypes
  <1>2. BackendInv /\ [BackendNext]_backendVars => BackendInv'
    <2> SUFFICES ASSUME BackendInv, [BackendNext]_backendVars PROVE BackendInv'
      OBVIOUS
    <2> USE DEF BackendInv, CancelTypes
    <2>1. CASE NextSheet BY <2>1, CallKeeps DEF NextSheet, otherVars, cancelVars,
    probeVars
    <2>2. CASE InCapture BY <2>2, CaptureKeeps DEF InCapture, otherVars, cancelVars,
    probeVars
    <2>3. CASE Captured BY <2>3, LeaveKeeps DEF Captured, otherVars, cancelVars, probeVars
    <2>4. CASE CaptureRaised BY <2>4, LeaveKeeps DEF CaptureRaised, otherVars,
    cancelVars, probeVars
    <2>5. ASSUME NEW c \in Cancelers, CancelReply(c) PROVE BackendInv'
      BY <2>5, CancelReplyKeeps
    <2>6. ASSUME NEW c \in Cancelers, CancelCurrent(c) \/ CancelSend(c)
          PROVE BackendInv'
      BY <2>6, CaptureUnchanged DEF CancelCurrent, CancelSend
    <2>7. ASSUME NEW p \in Probers, Probe(p) PROVE BackendInv'
      BY <2>7, CaptureUnchanged DEF Probe, ProbeRead, ProbeSend, ProbeReply, cancelVars
    <2>8. CASE \/ Begin \/ NoMoreSheets \/ TakeSide \/ SidesDone \/ Rendered
               \/ Resumed \/ SetCancelEvent
      BY <2>8, CaptureUnchanged
      DEF Begin, NoMoreSheets, TakeSide, StartSide, SidesDone, Rendered, Resumed,
          SetCancelEvent, otherVars, cancelVars, probeVars
    <2>9. CASE UNCHANGED backendVars
      BY <2>9, CaptureUnchanged DEF backendVars, otherVars, cancelVars, probeVars
    <2>10. CASE Crash BY <2>10, CrashKeeps
    <2>11. QED
      BY <2>1, <2>2, <2>3, <2>4, <2>5, <2>6, <2>7, <2>8, <2>9, <2>10
      DEF BackendNext, Generator
  <1>3. QED BY <1>1, <1>2, PTL DEF BackendSpec

(* A capture never keeps more than max_bytes, for every chunk size, limit and *)
(* size of sheet.                                                             *)
THEOREM StreamBounded == BackendSpec => []StreamWithinLimit
  <1>1. BackendInv => StreamWithinLimit BY DEF BackendInv, CaptureInv
  <1>2. QED BY <1>1, BackendInvariant, PTL

(* Whenever no capture runs, every RESERVE and every feed the code could know *)
(* of has been followed by an attempt to undo it, with any set of faults and  *)
(* any number of DELETEs and health probes on the same scanner.               *)
THEOREM DebtPaid == BackendSpec => []DebtSettled
  <1>1. BackendInv => DebtSettled
    BY DEF BackendInv, CaptureInv, CaptureTypes, DebtKnown, DebtSettled
  <1>2. QED BY <1>1, BackendInvariant, PTL

----------------------------------------------------------------------------
(* Recovery: what is owed when a capture returns.                             *)

\* Past the RESERVE and the feed both flags are set, and the cleanup of a
\* capture that nothing interrupted goes through all three of its commands.
Recovery ==
    /\ pc = "plan" => (item > 1 => sent_reserve) /\ (item > 2 => sent_feed)
    /\ pc = "read" \/ (pc \in {"save", "clean"} /\ ~raising)
          => sent_feed /\ sent_reserve
    /\ pc = "clean" /\ item > 2 /\ sent_feed => "discharge" \notin owed
    /\ NextCaptureRecovers

(* The plan starts with the two commands the flags stand for.                 *)
LEMMA PlanShape == Plan[1] = "reserve" /\ Plan[2] = "feed" /\ Len(Plan) > 2
  <1> DEFINE Command == Settings \cup {"reserve", "feed", "scan"}
             first == <<"reserve", "feed", "prescan", "window front">>
             second == IF Duplex THEN <<"window back">> ELSE <<>>
             third == <<"mode feed", "mode buffer", "mode color", "scan">>
  <1>1. /\ first \in Seq(Command) /\ Len(first) = 4
        /\ first[1] = "reserve" /\ first[2] = "feed"
    BY DEF Settings
  <1>2. second \in Seq(Command)
    <2>1. CASE Duplex BY <2>1 DEF Settings
    <2>2. CASE ~Duplex BY <2>2
    <2>3. QED BY <2>1, <2>2
  <1>3. third \in Seq(Command) BY DEF Settings
  <1>4. Plan = (first \o second) \o third BY DEF Plan
  <1> HIDE DEF Command, first, second, third
  <1> DEFINE both == first \o second
  <1>5. /\ both \in Seq(Command) /\ Len(both) >= 4
        /\ both[1] = "reserve" /\ both[2] = "feed"
    <2>1. /\ both \in Seq(Command) /\ Len(both) = Len(first) + Len(second)
          /\ \A i \in 1 .. Len(first) + Len(second) :
                both[i] = IF i <= Len(first) THEN first[i] ELSE second[i - Len(first)]
      BY <1>1, <1>2, ConcatProperties
    <2>2. Len(second) \in Nat BY <1>2, LenProperties
    <2>3. QED BY <1>1, <2>1, <2>2
  <1> HIDE DEF both
  <1>6. /\ Len(both \o third) = Len(both) + Len(third)
        /\ \A i \in 1 .. Len(both) + Len(third) :
              (both \o third)[i] = IF i <= Len(both) THEN both[i]
                                   ELSE third[i - Len(both)]
    BY <1>3, <1>5, ConcatProperties
  <1>7. Len(third) \in Nat /\ Len(both) \in Nat BY <1>3, <1>5, LenProperties
  <1>8. QED BY <1>4, <1>5, <1>6, <1>7 DEF both

(* One reply of the plan.                                                     *)
LEMMA PlanReplyRecovers ==
  ASSUME CaptureInv, Recovery, PlanReply
  PROVE  Recovery'
  <1>1. /\ sent_reserve' = (sent_reserve \/ Plan[item] = "reserve")
        /\ sent_feed' = (sent_feed \/ Plan[item] = "feed")
        /\ item > 1 => sent_reserve
        /\ item > 2 => sent_feed
        /\ item \in Nat /\ sent_reserve \in BOOLEAN /\ sent_feed \in BOOLEAN
    BY DEF PlanReply, Answered, Recovery, CaptureInv, CaptureTypes
  <1>2. item >= 1 => sent_reserve'
    <2>1. CASE item = 1 BY <1>1, <2>1, PlanShape
    <2>2. CASE item > 1 BY <1>1, <2>2
    <2>3. QED BY <1>1, <2>1, <2>2
  <1>3. item >= 2 => sent_feed'
    <2>1. CASE item = 2 BY <1>1, <2>1, PlanShape
    <2>2. CASE item > 2 BY <1>1, <2>2
    <2>3. QED BY <1>1, <2>1, <2>2
  <1>4. CASE item = Len(Plan)
    BY <1>1, <1>2, <1>3, <1>4, PlanShape DEF PlanReply, Recovery, NextCaptureRecovers
  <1>5. CASE item # Len(Plan)
    <2>1. pc' = "plan" /\ item' = item + 1 BY <1>5 DEF PlanReply
    <2>2. QED BY <1>1, <1>2, <1>3, <2>1 DEF Recovery, NextCaptureRecovers
  <1>6. QED BY <1>4, <1>5

(* One reply of the cleanup.                                                  *)
LEMMA CleanReplyRecovers ==
  ASSUME CaptureInv, Recovery, CleanReply
  PROVE  Recovery'
  <1> DEFINE commands == Cleanup(sent_feed, sent_reserve)
  <1> USE DEF CaptureInv, CaptureTypes
  <1>1. /\ Len(commands) = 1 + (IF sent_feed THEN 1 ELSE 0)
                             + (IF sent_reserve THEN 1 ELSE 0)
        /\ sent_feed => commands[2] = "discharge"
        /\ sent_reserve => commands[Len(commands)] = "release"
        /\ \A i \in 1 .. Len(commands) :
              commands[i] \in {"cancel", "discharge", "release"}
    BY CleanupShape
  <1>2. pc = "clean" /\ item \in 1 .. Len(commands)
    BY DEF CleanReply, Answered, CleanItem
  <1>3. commands[item] \notin {"reserve", "feed"}
    BY <1>1, <1>2
  <1>4. /\ owed' \subseteq {"release", "discharge"}
        /\ "release" \in owed' => "release" \in owed /\ commands[item] # "release"
        /\ "discharge" \in owed' =>
              "discharge" \in owed /\ commands[item] # "discharge"
    BY <1>3, ExchangeEffect DEF CleanReply
  <1>5. UNCHANGED <<sent_reserve, sent_feed, raising>> BY DEF CleanReply
  <1>6. item >= 2 /\ sent_feed => "discharge" \notin owed'
    <2>1. CASE item = 2 BY <1>1, <1>4, <2>1
    <2>2. CASE item > 2 BY <1>2, <1>4, <2>2 DEF Recovery
    <2>3. QED BY <1>2, <2>1, <2>2
  <1>7. CASE item < Len(commands)
    <2>1. pc' = "clean" /\ item' = item + 1 BY <1>7 DEF CleanReply
    <2>2. QED
      BY <1>2, <1>5, <1>6, <2>1 DEF Recovery, NextCaptureRecovers
  <1>8. CASE ~(item < Len(commands))
    <2>1. pc' = IF raising THEN "raised" ELSE "returned" BY <1>8 DEF CleanReply
    <2>2. item = Len(commands) BY <1>1, <1>2, <1>8
    <2>3. ~raising => owed' = {}
      <3>1. ~raising => sent_feed /\ sent_reserve BY <1>2 DEF Recovery
      <3>2. ~raising => item = 3 BY <1>1, <2>2, <3>1
      <3>3. ~raising => "release" \notin owed' BY <1>1, <1>4, <2>2, <3>1
      <3>4. ~raising => "discharge" \notin owed' BY <1>6, <3>1, <3>2
      <3>5. QED BY <1>4, <3>3, <3>4
    <2>4. QED BY <2>1, <2>3 DEF Recovery, NextCaptureRecovers
  <1>9. QED BY <1>7, <1>8

(* Every other step of a capture.                                             *)
LEMMA CaptureRecovers == CaptureInv /\ Recovery /\ Capture => Recovery'
  <1> SUFFICES ASSUME CaptureInv, Recovery, Capture PROVE Recovery'
    OBVIOUS
  <1> USE DEF Recovery, NextCaptureRecovers, Answered, ToFinally
  <1>1. CASE PlanReply BY <1>1, PlanReplyRecovers
  <1>2. CASE CleanReply BY <1>2, CleanReplyRecovers
  <1>3. CASE Send BY <1>3 DEF Send
  <1>4. CASE PlanFails \/ ReadFails BY <1>4 DEF PlanFails, ReadFails
  <1>5. CASE ReadStop BY <1>5 DEF ReadStop
  <1>6. CASE ReadReply
    <2>1. /\ pc = "read" /\ pc' \in {"read", "save"}
          /\ UNCHANGED <<sent_reserve, sent_feed>>
      BY <1>6 DEF ReadReply
    <2>2. QED BY <2>1
  <1>7. CASE Save BY <1>7 DEF Save
  <1>8. CASE SaveFails \/ CleanFails BY <1>8 DEF SaveFails, CleanFails
  <1>9. QED
    BY <1>1, <1>2, <1>3, <1>4, <1>5, <1>6, <1>7, <1>8 DEF Capture

(* A capture that returns leaves nothing owed, whatever an earlier one, or a  *)
(* crash in the middle of one, had left behind.                               *)
THEOREM CrashRecovered == BackendSpec => []NextCaptureRecovers
  <1>1. BackendInit => Recovery
    BY DEF BackendInit, CaptureInit, Recovery, NextCaptureRecovers
  <1>2. BackendInv /\ Recovery /\ [BackendNext]_backendVars => Recovery'
    <2> SUFFICES ASSUME BackendInv, Recovery, [BackendNext]_backendVars
                 PROVE  Recovery'
      OBVIOUS
    <2>0. CaptureInv BY DEF BackendInv
    <2>1. CASE NextSheet
      <3>1. pc' \in {"plan", "raised"} /\ item' = 1 BY <2>1 DEF NextSheet, Call
      <3>2. QED BY <3>1 DEF Recovery, NextCaptureRecovers
    <2>2. CASE InCapture BY <2>0, <2>2, CaptureRecovers DEF InCapture
    <2>3. CASE Captured \/ CaptureRaised
      BY <2>3 DEF Captured, CaptureRaised, Leave, Recovery, NextCaptureRecovers
    <2>4. ASSUME NEW c \in Cancelers, CancelReply(c) PROVE Recovery'
      <3>1. PICK outcome : Exchange(FullCleanup[cancel_at[c]], 0, outcome)
        BY <2>4 DEF CancelReply
      <3>2. FullCleanup[cancel_at[c]] \notin {"reserve", "feed"}
        <4>1. cancel_at[c] \in 1 .. 3
          BY <2>4 DEF CancelReply, BackendInv, CancelTypes
        <4>2. /\ Len(FullCleanup) = 1 + (IF TRUE THEN 1 ELSE 0) + (IF TRUE THEN 1 ELSE 0)
              /\ \A i \in 1 .. Len(FullCleanup) :
                    FullCleanup[i] \in {"cancel", "discharge", "release"}
          BY CleanupShape DEF FullCleanup
        <4>3. Len(FullCleanup) = 3 BY <4>2
        <4>4. QED BY <4>1, <4>2, <4>3
      <3>3. owed' \subseteq owed
        BY <2>0, <3>1, <3>2, ExchangeEffect DEF CaptureInv, CaptureTypes
      <3>4. UNCHANGED <<pc, item, sent_reserve, sent_feed, raising>>
        BY <2>4 DEF CancelReply
      <3>5. QED BY <3>3, <3>4 DEF Recovery, NextCaptureRecovers
    <2>5. CASE Crash BY <2>5 DEF Crash, Recovery, NextCaptureRecovers
    <2>6. CASE UNCHANGED captureVars
      BY <2>6 DEF captureVars, Recovery, NextCaptureRecovers
    <2>7. QED
      <3>1. ASSUME NEW c \in Cancelers, CancelCurrent(c) \/ CancelSend(c)
            PROVE  UNCHANGED captureVars
        BY <3>1 DEF CancelCurrent, CancelSend
      <3>2. ASSUME NEW p \in Probers, Probe(p)
            PROVE  UNCHANGED captureVars
        BY <3>2 DEF Probe, ProbeRead, ProbeSend, ProbeReply, cancelVars
      <3>3. CASE \/ Begin \/ NoMoreSheets \/ TakeSide \/ SidesDone \/ Rendered
                 \/ Resumed \/ SetCancelEvent \/ UNCHANGED backendVars
        BY <2>6, <3>3
        DEF Begin, NoMoreSheets, TakeSide, StartSide, SidesDone, Rendered, Resumed,
            SetCancelEvent, backendVars
      <3>4. QED
        BY <2>1, <2>2, <2>3, <2>4, <2>5, <2>6, <3>1, <3>2, <3>3
        DEF BackendNext, Generator
  <1>3. Recovery => NextCaptureRecovers BY DEF Recovery
  <1>4. QED BY <1>1, <1>2, <1>3, BackendInvariant, PTL DEF BackendSpec

----------------------------------------------------------------------------
(* The pages: no sheet has more of them than sides, and the page source the   *)
(* generator implements.                                                      *)

OtherTypes ==
    /\ place \in {"idle", "sheet", "capture", "side", "render", "yielded"}
    /\ sheet \in 0 .. MaxSheets /\ side \in 0 .. Sides /\ page_number \in Nat
    /\ cancel_event \in BOOLEAN
    /\ CancelTypes /\ cancel_sent \in [Cancelers -> BOOLEAN]
    /\ ProbeTypeOK

\* How many pages there can be so far, sheet by sheet and side by side.
PagesBounded ==
    /\ place \in {"idle", "sheet"} => page_number <= sheet * Sides
    /\ place = "capture" => sheet > 0 /\ page_number <= (sheet - 1) * Sides
    /\ place = "side" => sheet > 0 /\ page_number <= (sheet - 1) * Sides + side
    /\ place \in {"render", "yielded"} =>
          /\ sheet > 0 /\ side < Sides
          /\ page_number <= (sheet - 1) * Sides + side + 1

PageInv == CaptureWell /\ OtherTypes /\ PagesBounded

(* A sheet has one side, or two.                                              *)
LEMMA SidesRange == Sides \in {1, 2}
  BY DEF Sides

(* The sheet under way has room for its pages, whichever it is.               *)
LEMMA Room ==
  ASSUME OtherTypes, PagesBounded
  PROVE  /\ page_number <= MaxSheets * Sides
         /\ page_number <= sheet * Sides
         /\ place = "side" /\ side < Sides => page_number < MaxSheets * Sides
  <1>1. /\ sheet \in Nat /\ MaxSheets \in Nat /\ sheet <= MaxSheets
        /\ side \in Nat /\ side <= Sides /\ page_number \in Nat
    BY SidesRange, BackendAssumption DEF OtherTypes, ProbeTypeOK, probeVars
  <1>2. place \in {"idle", "sheet", "capture", "side", "render", "yielded"}
    BY DEF OtherTypes, ProbeTypeOK, probeVars
  <1>3. CASE Sides = 1 BY <1>1, <1>2, <1>3 DEF PagesBounded
  <1>4. CASE Sides = 2 BY <1>1, <1>2, <1>4 DEF PagesBounded
  <1>5. QED BY <1>3, <1>4, SidesRange

(* A step of the generator outside a capture.                                 *)
LEMMA GeneratorPages ==
  ASSUME PageInv,
         Begin \/ NoMoreSheets \/ TakeSide \/ SidesDone \/ Rendered \/ Resumed
  PROVE  OtherTypes' /\ PagesBounded'
  <1> USE DEF PageInv
  <1>1. /\ sheet \in 0 .. MaxSheets /\ MaxSheets \in Nat /\ side \in 0 .. Sides
        /\ page_number \in Nat /\ page_number <= sheet * Sides
    BY Room, BackendAssumption DEF OtherTypes, ProbeTypeOK, probeVars
  <1>2. Frames \in 0 .. Sides BY FramesFitSides
  <1>3. OtherTypes'
    <2>1. UNCHANGED otherVars
      BY DEF Begin, NoMoreSheets, TakeSide, StartSide, SidesDone, Rendered, Resumed
    <2>2. CancelTypes' /\ cancel_sent' \in [Cancelers -> BOOLEAN] /\ ProbeTypeOK'
      BY <2>1 DEF OtherTypes, ProbeTypeOK, CancelTypes, otherVars, cancelVars, probeVars
    <2>3. side' \in 0 .. Sides
      <3>1. CASE Resumed
        <4>1. side' = side + 1 /\ side < Sides
          BY <3>1 DEF Resumed, PagesBounded
        <4>2. QED BY <1>1, <4>1, SidesRange
      <3>2. CASE ~Resumed
        <4>1. side' \in {0, side}
          BY <3>2 DEF Begin, NoMoreSheets, TakeSide, StartSide, SidesDone, Rendered
        <4>2. QED BY <1>1, <4>1, SidesRange
      <3>3. QED BY <3>1, <3>2
    <2>4. sheet' \in 0 .. MaxSheets /\ page_number' \in Nat
      <3>1. sheet' \in {0, sheet} /\ page_number' \in {0, page_number, page_number + 1}
        BY DEF Begin, NoMoreSheets, TakeSide, StartSide, SidesDone, Rendered, Resumed
      <3>2. QED BY <1>1, <3>1
    <2>5. cancel_event' \in BOOLEAN
      BY DEF Begin, NoMoreSheets, TakeSide, StartSide, SidesDone, Rendered, Resumed,
             OtherTypes
    <2>6. place' \in {"idle", "sheet", "capture", "side", "render", "yielded"}
      BY DEF Begin, NoMoreSheets, TakeSide, StartSide, SidesDone, Rendered, Resumed
    <2>7. QED BY <2>2, <2>3, <2>4, <2>5, <2>6 DEF OtherTypes, ProbeTypeOK, probeVars
  <1>4. CASE Begin
    <2>1. place' = "sheet" /\ sheet' = 0 /\ page_number' = 0 BY <1>4 DEF Begin
    <2>2. 0 <= 0 * Sides BY SidesRange
    <2>3. QED BY <1>3, <2>1, <2>2 DEF PagesBounded, Sides
  <1>5. CASE NoMoreSheets \/ SidesDone
    <2>1. /\ place' \in {"idle", "sheet"} /\ UNCHANGED <<sheet, page_number>>
      BY <1>5 DEF NoMoreSheets, SidesDone
    <2>2. page_number' <= sheet' * Sides BY <1>1, <2>1
    <2>3. QED BY <1>3, <2>1, <2>2 DEF PagesBounded, Sides
  <1>6. CASE TakeSide
    <2>1. /\ place = "side" /\ side < Frames /\ place' = "render"
          /\ page_number' = page_number + 1 /\ UNCHANGED <<sheet, side>>
      BY <1>6 DEF TakeSide, StartSide
    <2>2. sheet > 0 /\ page_number <= (sheet - 1) * Sides + side
      BY <2>1 DEF PagesBounded
    <2>3. side' < Sides BY <1>1, <1>2, <2>1, SidesRange
    <2>4. page_number' <= (sheet' - 1) * Sides + side' + 1
      <3>1. CASE Sides = 1 BY <1>1, <2>1, <2>2, <3>1
      <3>2. CASE Sides = 2 BY <1>1, <2>1, <2>2, <3>2
      <3>3. QED BY <3>1, <3>2, SidesRange
    <2>5. QED BY <1>3, <2>1, <2>2, <2>3, <2>4 DEF PagesBounded, Sides
  <1>7. CASE Rendered \/ Resumed
    <2>1. /\ place \in {"render", "yielded"} /\ UNCHANGED <<sheet, page_number>>
          /\ \/ place' = "idle"
             \/ place' = "yielded" /\ side' = side
             \/ place' = "side" /\ side' = side + 1
      BY <1>7 DEF Rendered, Resumed
    <2>2. /\ sheet > 0 /\ side < Sides
          /\ page_number <= (sheet - 1) * Sides + side + 1
      BY <2>1 DEF PagesBounded
    <2>3. place' = "idle" => page_number' <= sheet' * Sides BY <1>1, <2>1
    <2>4. place' = "side" => page_number' <= (sheet' - 1) * Sides + side'
      <3>1. CASE Sides = 1 BY <1>1, <2>1, <2>2, <3>1
      <3>2. CASE Sides = 2 BY <1>1, <2>1, <2>2, <3>2
      <3>3. QED BY <3>1, <3>2, SidesRange
    <2>5. QED BY <1>3, <2>1, <2>2, <2>3, <2>4 DEF PagesBounded, Sides
  <1>8. QED BY <1>3, <1>4, <1>5, <1>6, <1>7

(* A step into, in or out of a capture.                                       *)
LEMMA SheetPages ==
  ASSUME PageInv, NextSheet \/ InCapture \/ Captured \/ CaptureRaised \/ Crash
  PROVE  OtherTypes' /\ PagesBounded'
  <1> USE DEF PageInv
  <1>1. /\ sheet \in 0 .. MaxSheets /\ MaxSheets \in Nat /\ side \in 0 .. Sides
        /\ page_number \in Nat /\ page_number <= sheet * Sides
    BY Room, BackendAssumption DEF OtherTypes, ProbeTypeOK, probeVars
  <1>2. OtherTypes'
    <2>1. /\ UNCHANGED <<cancel_event, page_number>> /\ side' \in {0, side}
          /\ place' \in {"idle", "capture", "side"}
      BY DEF NextSheet, InCapture, Captured, CaptureRaised, Crash, generatorVars
    <2>2. sheet' \in 0 .. MaxSheets
      <3>1. CASE NextSheet
        <4>1. sheet' = sheet + 1 /\ sheet < MaxSheets
          BY <3>1 DEF NextSheet, MoreSheets
        <4>2. QED BY <1>1, <4>1
      <3>2. CASE ~NextSheet
        <4>1. sheet' = sheet
          BY <3>2 DEF InCapture, Captured, CaptureRaised, Crash, generatorVars
        <4>2. QED BY <1>1, <4>1
      <3>3. QED BY <3>1, <3>2
    <2>3. side' \in 0 .. Sides BY <1>1, <2>1, SidesRange
    <2>4. CancelTypes' /\ cancel_sent' \in [Cancelers -> BOOLEAN] /\ ProbeTypeOK'
      <3>1. CASE Crash BY <3>1 DEF Crash, CancelTypes, ProbeTypeOK
      <3>2. CASE ~Crash
        <4>1. UNCHANGED otherVars
          BY <3>2 DEF NextSheet, InCapture, Captured, CaptureRaised
        <4>2. QED BY <4>1 DEF OtherTypes, ProbeTypeOK, CancelTypes, otherVars,
                              cancelVars, probeVars
      <3>3. QED BY <3>1, <3>2
    <2>5. QED BY <1>1, <2>1, <2>2, <2>3, <2>4 DEF OtherTypes, ProbeTypeOK, probeVars,
    Sides
  <1>3. CASE NextSheet
    <2>1. /\ place = "sheet" /\ place' = "capture" /\ sheet' = sheet + 1
          /\ page_number' = page_number
      BY <1>3 DEF NextSheet
    <2>2. (sheet + 1) - 1 = sheet BY <1>1
    <2>3. sheet' > 0 /\ page_number' <= (sheet' - 1) * Sides BY <1>1, <2>1, <2>2
    <2>4. QED BY <1>2, <2>1, <2>3 DEF PagesBounded, Sides
  <1>4. CASE InCapture \/ Captured \/ CaptureRaised
    <2>1. /\ place = "capture" /\ UNCHANGED <<sheet, page_number>>
          /\ \/ place' \in {"idle", "capture"}
             \/ place' = "side" /\ side' = 0
      BY <1>4 DEF InCapture, Captured, CaptureRaised, generatorVars
    <2>2. sheet > 0 /\ page_number <= (sheet - 1) * Sides
      BY <2>1 DEF PagesBounded
    <2>3. page_number' <= (sheet' - 1) * Sides + 0
      <3>1. CASE Sides = 1 BY <1>1, <2>1, <2>2, <3>1
      <3>2. CASE Sides = 2 BY <1>1, <2>1, <2>2, <3>2
      <3>3. QED BY <3>1, <3>2, SidesRange
    <2>4. page_number' <= sheet' * Sides BY <1>1, <2>1
    <2>5. QED BY <1>2, <2>1, <2>2, <2>3, <2>4 DEF PagesBounded, Sides
  <1>5. CASE Crash
    <2>1. place' = "idle" /\ UNCHANGED <<sheet, page_number>> BY <1>5 DEF Crash
    <2>2. page_number' <= sheet' * Sides BY <1>1, <2>1
    <2>3. QED BY <1>2, <2>1, <2>2 DEF PagesBounded, Sides
  <1>6. QED BY <1>2, <1>3, <1>4, <1>5

(* A step of a DELETE or of a health probe touches neither pages nor sheet.   *)
LEMMA OthersPages ==
  ASSUME PageInv, UNCHANGED generatorVars, cancel_event' \in BOOLEAN, CancelTypes',
         cancel_sent' \in [Cancelers -> BOOLEAN], ProbeTypeOK'
  PROVE  OtherTypes' /\ PagesBounded'
  BY DEF PageInv, OtherTypes, ProbeTypeOK, probeVars, PagesBounded, generatorVars, Sides

(* A command of a DELETE's cleanup reads and scans nothing.                   *)
LEMMA CancelReplyWell ==
  ASSUME NEW c \in Cancelers, PageInv, CancelReply(c)
  PROVE  CaptureWell' /\ CancelTypes' /\ cancel_sent' \in [Cancelers -> BOOLEAN]
  <1> USE DEF PageInv
  <1>1. /\ Len(FullCleanup) \in 1 .. 3
        /\ \A i \in 1 .. Len(FullCleanup) :
              FullCleanup[i] \in {"cancel", "discharge", "release"}
    BY CleanupLength, CleanupShape DEF FullCleanup
  <1>2. Len(FullCleanup) = 3
    <2>1. Len(FullCleanup) = 1 + (IF TRUE THEN 1 ELSE 0) + (IF TRUE THEN 1 ELSE 0)
      BY CleanupShape DEF FullCleanup
    <2>2. QED BY <2>1
  <1>3. cancel_at[c] \in 1 .. 3
    BY DEF CancelReply, OtherTypes, ProbeTypeOK, probeVars, CancelTypes
  <1>4. FullCleanup[cancel_at[c]] # "scan" BY <1>1, <1>2, <1>3
  <1>5. UNCHANGED <<pc, item, waiting, sent_reserve, sent_feed, chunks, stream,
                    raising, excused>>
    BY DEF CancelReply
  <1>6. PICK outcome : Exchange(FullCleanup[cancel_at[c]], 0, outcome)
    BY DEF CancelReply
  <1>7. /\ device' \in DeviceType /\ stream' \in Nat
        /\ ImageConserved' /\ StreamWithinLimit'
        /\ owed' \subseteq {"release", "discharge"}
    BY <1>4, <1>5, <1>6, ExchangeKeepsImage
  <1>8. CleanItem' BY <1>5 DEF CaptureWell, CleanItem
  <1>9. CaptureWell'
    <2>1. /\ pc \in {"out", "plan", "read", "save", "clean", "returned", "raised"}
          /\ item \in 1 .. Len(Plan) /\ chunks \in 0 .. MaxChunks
          /\ waiting \in BOOLEAN /\ raising \in BOOLEAN /\ excused \in BOOLEAN
          /\ sent_reserve \in BOOLEAN /\ sent_feed \in BOOLEAN
          /\ pc = "plan" => stream = 0
          /\ pc = "read" /\ waiting => chunks < MaxChunks
      BY DEF CaptureWell, CaptureTypeOK
    <2>2. QED BY <1>5, <1>7, <1>8, <2>1, WellAgain
  <1>10. CancelTypes'
    BY <1>2, <1>3 DEF CancelReply, OtherTypes, ProbeTypeOK, probeVars, CancelTypes
  <1>11. cancel_sent' \in [Cancelers -> BOOLEAN]
    BY DEF CancelReply, OtherTypes, ProbeTypeOK, probeVars
  <1>12. QED BY <1>9, <1>10, <1>11

(* A crash throws the stream away; what the scanner has left fits its image.  *)
LEMMA CrashWell == PageInv /\ Crash => CaptureWell'
  <1> SUFFICES ASSUME PageInv, Crash PROVE CaptureWell'
    OBVIOUS
  <1> USE DEF PageInv
  <1>1. /\ device \in DeviceType
        /\ device.unread \in Nat /\ device.unread <= ImageUnits(device.size)
    BY WellDevice
  <1>2. /\ stream' = 0 /\ device' = device /\ owed' = owed
        /\ pc' = "out" /\ item' = 1 /\ chunks' = 0
        /\ waiting' \in BOOLEAN /\ raising' \in BOOLEAN /\ excused' \in BOOLEAN
        /\ sent_reserve' \in BOOLEAN /\ sent_feed' \in BOOLEAN
    BY DEF Crash
  <1>3. ImageConserved' BY <1>1, <1>2 DEF ImageConserved, ImageUnits, Sides
  <1>4. StreamWithinLimit' BY <1>2, CaptureAssumption DEF StreamWithinLimit
  <1>5. item' \in 1 .. Len(Plan) /\ chunks' \in 0 .. MaxChunks
    BY <1>2, PlanLength, CaptureAssumption
  <1>6. CleanItem' BY <1>2 DEF CleanItem
  <1>7. owed' \subseteq {"release", "discharge"}
    BY <1>2 DEF CaptureWell, CaptureTypeOK
  <1>8. QED BY <1>1, <1>2, <1>3, <1>4, <1>5, <1>6, <1>7, WellAgain

(* Sizes and pages, for the whole backend.                                    *)
LEMMA NextPageInv == PageInv /\ [BackendNext]_backendVars => PageInv'
  <1> SUFFICES ASSUME PageInv, [BackendNext]_backendVars PROVE PageInv'
    OBVIOUS
  <1> USE DEF PageInv
  <1>1. CASE NextSheet
    BY <1>1, CallWell, SheetPages DEF NextSheet
  <1>2. CASE InCapture
    BY <1>2, CaptureKeepsWell, SheetPages DEF InCapture
  <1>3. CASE Captured \/ CaptureRaised
    <2>1. CaptureWell' BY <1>3, LeaveWell DEF Captured, CaptureRaised
    <2>2. QED BY <1>3, <2>1, SheetPages
  <1>4. CASE Begin \/ NoMoreSheets \/ TakeSide \/ SidesDone \/ Rendered \/ Resumed
    <2>1. UNCHANGED captureVars
      BY <1>4
      DEF Begin, NoMoreSheets, TakeSide, StartSide, SidesDone, Rendered, Resumed
    <2>2. QED BY <1>4, <2>1, WellUnchanged, GeneratorPages
  <1>5. CASE Crash BY <1>5, CrashWell, SheetPages
  <1>6. ASSUME NEW c \in Cancelers, CancelReply(c) PROVE PageInv'
    <2>1. UNCHANGED <<generatorVars, cancel_event, probeVars>>
      BY <1>6 DEF CancelReply
    <2>2. cancel_event' \in BOOLEAN /\ ProbeTypeOK'
      BY <2>1 DEF OtherTypes, ProbeTypeOK, probeVars
    <2>3. QED BY <1>6, <2>1, <2>2, CancelReplyWell, OthersPages
  <1>7. ASSUME \/ SetCancelEvent \/ UNCHANGED backendVars
               \/ \E c \in Cancelers : CancelCurrent(c) \/ CancelSend(c)
               \/ \E p \in Probers : Probe(p)
        PROVE  PageInv'
    <2>1. UNCHANGED captureVars /\ UNCHANGED generatorVars
      BY <1>7
      DEF SetCancelEvent, CancelCurrent, CancelSend, Probe, ProbeRead, ProbeSend,
          ProbeReply, backendVars
    <2>2. CancelTypes' /\ cancel_sent' \in [Cancelers -> BOOLEAN]
      <3>1. ASSUME NEW c \in Cancelers, CancelCurrent(c) \/ CancelSend(c)
            PROVE  CancelTypes' /\ cancel_sent' \in [Cancelers -> BOOLEAN]
        <4>1. CASE CancelCurrent(c)
          <5>1. /\ cancel_at' = [cancel_at EXCEPT ![c] = 1]
                /\ cancel_sent' = cancel_sent
            BY <4>1 DEF CancelCurrent
          <5>2. QED BY <5>1 DEF OtherTypes, ProbeTypeOK, probeVars, CancelTypes
        <4>2. CASE CancelSend(c)
          <5>1. /\ cancel_sent' = [cancel_sent EXCEPT ![c] = TRUE]
                /\ cancel_at' = cancel_at
            BY <4>2 DEF CancelSend
          <5>2. QED BY <5>1 DEF OtherTypes, ProbeTypeOK, probeVars, CancelTypes
        <4>3. QED BY <3>1, <4>1, <4>2
      <3>2. CASE UNCHANGED <<cancel_at, cancel_sent>>
        BY <3>2 DEF OtherTypes, ProbeTypeOK, probeVars, CancelTypes
      <3>3. QED
        BY <1>7, <3>1, <3>2
        DEF SetCancelEvent, Probe, ProbeRead, ProbeSend, ProbeReply, backendVars,
            otherVars, cancelVars, probeVars
    <2>3. cancel_event' \in BOOLEAN /\ ProbeTypeOK'
      BY <1>7
      DEF SetCancelEvent, CancelCurrent, CancelSend, Probe, ProbeRead, ProbeSend,
          ProbeReply, backendVars,
          otherVars, cancelVars, probeVars, OtherTypes, ProbeTypeOK
    <2>4. QED BY <2>1, <2>2, <2>3, WellUnchanged, OthersPages
  <1>8. QED
    BY <1>1, <1>2, <1>3, <1>4, <1>5, <1>6, <1>7 DEF BackendNext, Generator

(* The inductive invariant of the backend's sizes and pages.                  *)
THEOREM PageInvariant == BackendSpec => []PageInv
  <1>1. BackendInit => PageInv
    <2> SUFFICES ASSUME BackendInit PROVE PageInv
      OBVIOUS
    <2>1. CaptureWell BY InitWell DEF BackendInit
    <2>2. OtherTypes
      <3>1. /\ CancelTypes /\ cancel_sent \in [Cancelers -> BOOLEAN]
            /\ ProbeTypeOK
        BY DEF BackendInit, CancelTypes, ProbeTypeOK
      <3>2. sheet \in 0 .. MaxSheets /\ side \in 0 .. Sides /\ page_number \in Nat
        BY SidesRange, BackendAssumption DEF BackendInit
      <3>3. QED BY <3>1, <3>2 DEF BackendInit, OtherTypes, ProbeTypeOK, probeVars
    <2>3. PagesBounded
      <3>1. 0 <= 0 * Sides BY SidesRange
      <3>2. QED BY <3>1 DEF BackendInit, PagesBounded
    <2>4. QED BY <2>1, <2>2, <2>3 DEF PageInv
  <1>2. QED BY <1>1, NextPageInv, PTL DEF BackendSpec

(* Type correctness, and with it the two bounds in it: no sheet has more      *)
(* pages than sides, and no job more pages than max_sheets sheets have.       *)
THEOREM BackendTyping == BackendSpec => []BackendTypeOK
  <1>1. PageInv => BackendTypeOK
    <2> SUFFICES ASSUME PageInv PROVE BackendTypeOK
      OBVIOUS
    <2>1. page_number <= MaxSheets * Sides BY Room DEF PageInv
    <2>2. MaxSheets * Sides \in Nat BY SidesRange, BackendAssumption
    <2>3. page_number \in 0 .. MaxSheets * Sides
      BY <2>1, <2>2 DEF PageInv, OtherTypes, ProbeTypeOK, probeVars
    <2>4. QED BY <2>3 DEF PageInv, CaptureWell, OtherTypes, ProbeTypeOK, probeVars,
                          CancelTypes, BackendTypeOK
  <1>2. QED BY <1>1, PageInvariant, PTL

----------------------------------------------------------------------------

(* The generator with its captures, cancels and crashes is a page source: it  *)
(* takes no page once the cancel event is set, whatever the commands of a     *)
(* DELETE do to the capture in between, and never more than max_sheets sheets *)
(* have.                                                                      *)
THEOREM SourceRefinement == BackendSpec => ImplementsPageSource
  <1>1. BackendInit => Source!Init
    BY DEF BackendInit, Source!Init
  <1>2. PageInv /\ [BackendNext]_backendVars => [Source!Next]_(Source!sourceVars)
    <2> SUFFICES ASSUME PageInv, [BackendNext]_backendVars
                 PROVE  [Source!Next]_(Source!sourceVars)
      OBVIOUS
    <2> USE DEF Source!Next, Source!sourceVars
    <2>1. CASE Begin BY <2>1 DEF Begin, Source!Begin
    <2>2. CASE NextSheet BY <2>2 DEF NextSheet
    <2>3. CASE NoMoreSheets BY <2>3 DEF NoMoreSheets, Source!Stop
    <2>4. CASE InCapture BY <2>4 DEF InCapture, generatorVars
    <2>5. CASE Captured BY <2>5 DEF Captured, Source!Stop
    <2>6. CASE CaptureRaised BY <2>6 DEF CaptureRaised, Source!Stop
    <2>7. CASE TakeSide
      <3>1. page_number < MaxSheets * Sides
        <4>1. place = "side" /\ side < Frames BY <2>7 DEF TakeSide, StartSide
        <4>2. Frames \in 0 .. Sides /\ side \in 0 .. Sides
          BY FramesFitSides DEF PageInv, OtherTypes, ProbeTypeOK, probeVars
        <4>3. side < Sides BY <4>1, <4>2, SidesRange
        <4>4. QED BY <4>1, <4>3, Room DEF PageInv
      <3>2. QED BY <2>7, <3>1 DEF TakeSide, StartSide, Source!Take
    <2>8. CASE SidesDone BY <2>8 DEF SidesDone
    <2>9. CASE Rendered BY <2>9 DEF Rendered, Source!Yield, Source!Stop
    <2>10. CASE Resumed BY <2>10 DEF Resumed, Source!Resume, Source!Stop
    <2>11. CASE SetCancelEvent
      BY <2>11 DEF SetCancelEvent, generatorVars, Source!Cancel
    <2>12. CASE Crash
      BY <2>12 DEF Crash, PageInv, OtherTypes, ProbeTypeOK, probeVars, Source!Stop
    <2>13. ASSUME \/ UNCHANGED backendVars
                  \/ \E c \in Cancelers : CancelCurrent(c) \/ CancelSend(c) \/ CancelReply(c)
                  \/ \E p \in Probers : Probe(p)
           PROVE  UNCHANGED <<generatorVars, cancel_event>>
      BY <2>13
      DEF backendVars, CancelCurrent, CancelSend, CancelReply, Probe, ProbeRead,
          ProbeSend, ProbeReply
    <2>14. CASE UNCHANGED <<generatorVars, cancel_event>>
      BY <2>14 DEF generatorVars
    <2>15. QED
      BY <2>1, <2>2, <2>3, <2>4, <2>5, <2>6, <2>7, <2>8, <2>9, <2>10, <2>11, <2>12,
         <2>13, <2>14
      DEF BackendNext, Generator
  <1>3. QED
    BY <1>1, <1>2, PageInvariant, PTL DEF BackendSpec, ImplementsPageSource, Source!Spec

----------------------------------------------------------------------------
(* The end: what BackendEnds rests on besides fairness.                       *)

\* How many sheets the generator can still begin, and how many steps it can
\* take at most before the next.
SheetsAhead == MaxSheets - sheet
StepsInSheet ==
    CASE place = "capture" -> 8 + CaptureAhead
      [] place = "side"    -> 3 * (2 - side) + 1
      [] place = "render"  -> 3 * (2 - side)
      [] place = "yielded" -> 3 * (2 - side) - 1
      [] OTHER             -> 0
Nearer ==
    \/ SheetsAhead' < SheetsAhead
    \/ SheetsAhead' = SheetsAhead /\ StepsInSheet' < StepsInSheet

(* The generator cannot run for ever: each of its steps leaves it fewer       *)
(* sheets, or fewer steps in this one, and no DELETE, probe or answer of the  *)
(* scanner gives it more of either.                                           *)
GeneratorStepsFall ==
    [][/\ Generator => place' = "idle" \/ Nearer
       /\ place # "idle" =>
             place' = "idle" \/ Nearer \/ UNCHANGED <<SheetsAhead,
             StepsInSheet>>]_backendVars

(* What a step of the generator itself leaves of its sheets and steps.        *)
LEMMA GeneratorNearer ==
  ASSUME PageInv, Generator
  PROVE  place' = "idle" \/ Nearer
  <1> USE DEF PageInv
  <1>1. /\ sheet \in 0 .. MaxSheets /\ MaxSheets \in Nat /\ side \in 0 .. 2
        /\ CaptureAhead \in 0 .. CaptureMost
        /\ place \in {"render", "yielded"} => side < 2
        /\ Frames \in 0 .. 2
    BY SidesRange, BackendAssumption, AheadBounded, FramesFitSides
    DEF OtherTypes, ProbeTypeOK, probeVars, PagesBounded
  <1>2. CaptureAhead \in Nat
    <2>1. CaptureMost \in Nat BY CaptureAssumption DEF CaptureMost
    <2>2. QED BY <1>1, <2>1
  <1>3. CASE NextSheet
    BY <1>1, <1>3 DEF NextSheet, Nearer, SheetsAhead
  <1>4. CASE InCapture
    <2>1. /\ place = "capture" /\ place' = "capture" /\ sheet' = sheet
          /\ CaptureAhead' < CaptureAhead
      BY <1>4, CaptureFalls DEF InCapture, generatorVars
    <2>2. StepsInSheet = 8 + CaptureAhead /\ StepsInSheet' = 8 + CaptureAhead'
      BY <2>1 DEF StepsInSheet
    <2>3. CaptureWell' /\ CaptureAhead' \in 0 .. CaptureMost
      BY <1>4, CaptureKeepsWell, AheadPrimed DEF InCapture
    <2>4. CaptureAhead' \in Int BY <2>3
    <2>5. \A a \in Nat, b \in Int : \A s, t : b < a /\ s = 8 + a /\ t = 8 + b => t < s
      OBVIOUS
    <2>6. StepsInSheet' < StepsInSheet
      BY ONLY <1>2, <2>1, <2>2, <2>4, <2>5, Zenon
    <2>7. SheetsAhead' = SheetsAhead BY <2>1 DEF SheetsAhead
    <2>8. QED BY <2>6, <2>7 DEF Nearer
  <1>5. CASE Captured
    <2>1. /\ place = "capture" /\ place' \in {"idle", "side"} /\ side' = 0
          /\ sheet' = sheet
      BY <1>5 DEF Captured
    <2>2. StepsInSheet = 8 + CaptureAhead /\ (place' = "side" => StepsInSheet' = 7)
      BY <2>1 DEF StepsInSheet
    <2>3. QED BY <1>1, <1>2, <2>1, <2>2 DEF Nearer, SheetsAhead
  <1>6. CASE CaptureRaised \/ NoMoreSheets
    BY <1>6 DEF CaptureRaised, NoMoreSheets
  <1>7. CASE TakeSide \/ SidesDone \/ Rendered \/ Resumed
    <2>1. /\ sheet' = sheet /\ (place = "side" => side' = side)
          /\ \/ place = "side" /\ place' = "render" /\ side < Frames
             \/ place = "side" /\ place' = "sheet"
             \/ place = "render" /\ place' \in {"yielded", "idle"} /\ side' = side
             \/ place = "yielded" /\ place' \in {"side", "idle"} /\ side' = side + 1
      BY <1>7 DEF TakeSide, StartSide, SidesDone, Rendered, Resumed
    <2>2. QED BY <1>1, <2>1 DEF Nearer, SheetsAhead, StepsInSheet
  <1>8. QED
    BY <1>3, <1>4, <1>5, <1>6, <1>7 DEF Generator

(* For any number of sheets, reads and DELETEs: what is left of a job only    *)
(* falls, and is never negative.                                              *)
THEOREM GeneratorCannotLoop ==
  BackendSpec =>
      /\ [](SheetsAhead \in 0 .. MaxSheets /\ StepsInSheet \in 0 .. 8 + CaptureMost)
      /\ GeneratorStepsFall
  <1>1. PageInv =>
          SheetsAhead \in 0 .. MaxSheets /\ StepsInSheet \in 0 .. 8 + CaptureMost
    <2> SUFFICES ASSUME PageInv
                 PROVE  /\ SheetsAhead \in 0 .. MaxSheets
                        /\ StepsInSheet \in 0 .. 8 + CaptureMost
      OBVIOUS
    <2>1. /\ sheet \in 0 .. MaxSheets /\ MaxSheets \in Nat /\ side \in 0 .. 2
          /\ CaptureAhead \in 0 .. CaptureMost /\ MaxChunks \in Nat
          /\ place \in {"render", "yielded"} => side < 2
      BY SidesRange, BackendAssumption, CaptureAssumption, AheadBounded
      DEF PageInv, OtherTypes, ProbeTypeOK, probeVars, PagesBounded
    <2>2. QED BY <2>1 DEF SheetsAhead, StepsInSheet, CaptureMost
  <1>2. PageInv /\ [BackendNext]_backendVars =>
          /\ Generator => place' = "idle" \/ Nearer
          /\ place # "idle" => place' = "idle" \/ Nearer
                                  \/ UNCHANGED <<SheetsAhead, StepsInSheet>>
    <2> SUFFICES ASSUME PageInv, [BackendNext]_backendVars, place # "idle", ~Generator
                 PROVE  place' = "idle" \/ UNCHANGED <<SheetsAhead, StepsInSheet>>
      BY GeneratorNearer
    <2>1. CASE Begin \/ Crash BY <2>1 DEF Begin, Crash
    <2>2. ASSUME \/ SetCancelEvent \/ UNCHANGED backendVars
                 \/ \E c \in Cancelers : CancelCurrent(c) \/ CancelSend(c) \/ CancelReply(c)
                 \/ \E p \in Probers : Probe(p)
          PROVE  UNCHANGED <<generatorVars, pc, item, waiting, chunks>>
      BY <2>2
      DEF SetCancelEvent, CancelCurrent, CancelSend, CancelReply, Probe, ProbeRead,
          ProbeSend, ProbeReply,
          backendVars, captureVars
    <2>3. CASE UNCHANGED <<generatorVars, pc, item, waiting, chunks>>
      <3>1. UNCHANGED <<place, sheet, side>> BY <2>3 DEF generatorVars
      <3>2. CaptureAhead' = CaptureAhead BY <2>3 DEF CaptureAhead, CommandSteps, Plan
      <3>3. QED BY <3>1, <3>2 DEF SheetsAhead, StepsInSheet
    <2>4. QED BY <2>1, <2>2, <2>3 DEF BackendNext
  <1>3. QED BY <1>1, <1>2, PageInvariant, PTL DEF BackendSpec, GeneratorStepsFall

=============================================================================
